----------------------------- MODULE AudioRouting -----------------------------
(***************************************************************************)
(* Which sound devices the audio HAL switches on, and when                 *)
(* (src/audio/hal/audio_hw.c, voice.c and msm8660/platform.c).             *)
(*                                                                         *)
(* Every playback stream that is not in standby, the recording stream and  *)
(* a phone call have an entry in adev->usecase_list.  select_devices gives *)
(* an entry its sound devices and moves the other entries that share the   *)
(* codec along; the devices are counted in adev->snd_dev_ref_cnt and       *)
(* switched by mixer paths.  Each operation runs with adev->lock held from *)
(* its first look at this state to its last change, so it is one action.   *)
(*                                                                         *)
(* The order of usecase_list is left out (only add_remove_audio_effect     *)
(* depends on it, for the first playback entry, and takes any here).  The  *)
(* streams are those of src/config/audio_policy.conf: no telephony output, *)
(* hence voice_tx_output is never set and the primary output, opened at    *)
(* boot and never closed, is the one that drives a call.  The extensions   *)
(* the board does not build (HFP, sound trigger, speaker protection,       *)
(* several voice sessions) are left out too.                               *)
(***************************************************************************)
EXTENDS Integers, FiniteSets, FiniteSetsExt

CONSTANTS
  Outs,          \* the playback streams, each named by its usecase
  OutRoutes,     \* the sets of output devices the audio policy asks for, by stream
  InDevices,     \* the input devices it asks for
  Sources,       \* the audio sources of recordings
  ChannelMasks,  \* the channel masks of recordings
  Modes,         \* the telephony modes
  TtyModes,      \* the TTY modes
  DualMic,       \* persist.audio.dualmic.config
  Fluence        \* which of the persist.audio.fluence properties are "true"

NONE     == "NONE"
PRIMARY  == "LOW_LATENCY"
MULTI_CH == "MULTI_CH"
RECORD   == "RECORD"
VOICE    == "VOICE_CALL"

OutDevices == {"EARPIECE", "SPEAKER", "WIRED_HEADSET", "WIRED_HEADPHONE", "SCO", "AUX_DIGITAL"}
CodecBackend == {"EARPIECE", "SPEAKER", "WIRED_HEADSET", "WIRED_HEADPHONE"}
DEFAULT_HDMI_OUT_CHANNELS == 2

(* The mixer path of each sound device: several devices have the same one. *)
PlaybackTable ==
  [HANDSET |-> "handset", SPEAKER |-> "speaker", HEADPHONES |-> "headset",
   SPEAKER_AND_HEADPHONES |-> "speaker-and-headset", VOICE_SPEAKER |-> "speaker",
   VOICE_HEADPHONES |-> "headset", HDMI |-> "hdmi", SPEAKER_AND_HDMI |-> "speaker-and-hdmi",
   BT_SCO |-> "bt-sco-headset", VOICE_TTY_FULL_HEADPHONES |-> "voice-tty-headset",
   VOICE_TTY_VCO_HEADPHONES |-> "voice-tty-headset", VOICE_TTY_HCO_HANDSET |-> "voice-tty-headset"]

CaptureTable ==
  [HANDSET_MIC |-> "handset-mic", SPEAKER_MIC |-> "speaker-mic", HEADSET_MIC |-> "headset-mic",
   HANDSET_MIC_AEC |-> "handset-mic", SPEAKER_MIC_AEC |-> "speaker-mic", HEADSET_MIC_AEC |-> "headset-mic",
   VOICE_SPEAKER_MIC |-> "speaker-mic", VOICE_HEADSET_MIC |-> "headset-mic", HDMI_MIC |-> "hdmi-mic",
   BT_SCO_MIC |-> "bt-sco-mic", CAMCORDER_MIC |-> "camcorder-mic", VOICE_DMIC_EF |-> "voice-dmic-ef",
   VOICE_DMIC_BS |-> "voice-dmic-bs", VOICE_SPEAKER_DMIC_EF |-> "voice-speaker-dmic-ef",
   VOICE_SPEAKER_DMIC_BS |-> "voice-speaker-dmic-bs", VOICE_TTY_FULL_HEADSET_MIC |-> "voice-tty-headset-mic",
   VOICE_TTY_VCO_HANDSET_MIC |-> "voice-tty-headset-mic", VOICE_TTY_HCO_HEADSET_MIC |-> "voice-tty-headset-mic",
   VOICE_REC_MIC |-> "voice-rec-mic", VOICE_REC_DMIC_EF |-> "voice-rec-dmic-ef",
   VOICE_REC_DMIC_BS |-> "voice-rec-dmic-bs", VOICE_REC_DMIC_EF_FLUENCE |-> "voice-rec-dmic-ef-fluence",
   VOICE_REC_DMIC_BS_FLUENCE |-> "voice-rec-dmic-bs-fluence", FM_RADIO |-> "fm-radio"]

SndDevices == DOMAIN PlaybackTable \cup DOMAIN CaptureTable
platform_get_snd_device_name(d) == IF d \in DOMAIN CaptureTable THEN CaptureTable[d] ELSE PlaybackTable[d]
-----------------------------------------------------------------------------
(* msm8660/platform.c: the sound device for a set of output devices.       *)

VoiceOutput(devices, tty) ==
  CASE devices \cap {"WIRED_HEADSET", "WIRED_HEADPHONE"} # {} ->
         (CASE tty = "FULL" -> "VOICE_TTY_FULL_HEADPHONES"
            [] tty = "VCO"  -> "VOICE_TTY_VCO_HEADPHONES"
            [] tty = "HCO"  -> "VOICE_TTY_HCO_HANDSET"
            [] OTHER        -> "VOICE_HEADPHONES")
    [] "SCO" \in devices      -> "BT_SCO"
    [] "SPEAKER" \in devices  -> "VOICE_SPEAKER"
    [] "EARPIECE" \in devices -> "HANDSET"
    [] OTHER -> NONE

MediaOutput(devices) ==
  CASE devices \in {{"WIRED_HEADPHONE", "SPEAKER"}, {"WIRED_HEADSET", "SPEAKER"}} -> "SPEAKER_AND_HEADPHONES"
    [] devices = {"AUX_DIGITAL", "SPEAKER"} -> "SPEAKER_AND_HDMI"
    [] devices \in {{"WIRED_HEADPHONE"}, {"WIRED_HEADSET"}} -> "HEADPHONES"
    [] devices = {"SPEAKER"}     -> "SPEAKER"
    [] devices = {"SCO"}         -> "BT_SCO"
    [] devices = {"AUX_DIGITAL"} -> "HDMI"
    [] devices = {"EARPIECE"}    -> "HANDSET"
    [] OTHER -> NONE

platform_get_output_snd_device(devices, inCall, tty) ==
  IF inCall /\ VoiceOutput(devices, tty) # NONE THEN VoiceOutput(devices, tty) ELSE MediaOutput(devices)

(* The microphone of a call that is heard on out.                          *)
VoiceInput(out, tty) ==
  CASE tty # "OFF" /\ out \cap {"WIRED_HEADSET", "WIRED_HEADPHONE"} # {} ->
         (CASE tty = "FULL" -> "VOICE_TTY_FULL_HEADSET_MIC"
            [] tty = "VCO"  -> "VOICE_TTY_VCO_HANDSET_MIC"
            [] tty = "HCO"  -> "VOICE_TTY_HCO_HEADSET_MIC")
    [] out \cap {"EARPIECE", "WIRED_HEADPHONE"} # {} ->
         (CASE "voicecall" \in Fluence /\ DualMic = "endfire"   -> "VOICE_DMIC_EF"
            [] "voicecall" \in Fluence /\ DualMic = "broadside" -> "VOICE_DMIC_BS"
            [] OTHER -> "HANDSET_MIC")
    [] "WIRED_HEADSET" \in out -> "VOICE_HEADSET_MIC"
    [] "SCO" \in out -> "BT_SCO_MIC"
    [] "SPEAKER" \in out ->
         (CASE {"voicecall", "speaker"} \subseteq Fluence /\ DualMic = "endfire"   -> "VOICE_SPEAKER_DMIC_EF"
            [] {"voicecall", "speaker"} \subseteq Fluence /\ DualMic = "broadside" -> "VOICE_SPEAKER_DMIC_BS"
            [] OTHER -> "VOICE_SPEAKER_MIC")
    [] OTHER -> NONE

(* The microphone a source asks for by itself.                             *)
SourceInput(device, i) ==
  CASE i.source = "CAMCORDER" /\ device \in {"BUILTIN_MIC", "BACK_MIC"} -> "CAMCORDER_MIC"
    [] i.source = "VOICE_RECOGNITION" /\ device = "BUILTIN_MIC" ->
         (CASE DualMic = "endfire" /\ i.channel_mask = "FRONT_BACK"   -> "VOICE_REC_DMIC_EF"
            [] DualMic = "endfire" /\ "voicerec" \in Fluence          -> "VOICE_REC_DMIC_EF_FLUENCE"
            [] DualMic = "broadside" /\ i.channel_mask = "FRONT_BACK" -> "VOICE_REC_DMIC_BS"
            [] DualMic = "broadside" /\ "voicerec" \in Fluence        -> "VOICE_REC_DMIC_BS_FLUENCE"
            [] OTHER -> "VOICE_REC_MIC")
    [] i.source = "VOICE_COMMUNICATION" /\ i.enable_aec ->
         (CASE device = "BACK_MIC"      -> "SPEAKER_MIC_AEC"
            [] device = "BUILTIN_MIC"   -> "HANDSET_MIC_AEC"
            [] device = "WIRED_HEADSET" -> "HEADSET_MIC_AEC"
            [] OTHER -> NONE)
    [] OTHER -> NONE

DeviceInput(device) ==
  CASE device = "BACK_MIC"      -> "SPEAKER_MIC"
    [] device = "WIRED_HEADSET" -> "HEADSET_MIC"
    [] device = "SCO_HEADSET"   -> "BT_SCO_MIC"
    [] device = "AUX_DIGITAL"   -> "HDMI_MIC"
    [] device = "FM_TUNER"      -> "FM_RADIO"
    [] OTHER -> "HANDSET_MIC"

OppositeInput(out) ==
  CASE "EARPIECE" \in out        -> "HANDSET_MIC"
    [] "WIRED_HEADSET" \in out   -> "HEADSET_MIC"
    [] "SPEAKER" \in out         -> "SPEAKER_MIC"
    [] "WIRED_HEADPHONE" \in out -> "HANDSET_MIC"
    [] "SCO" \in out             -> "BT_SCO_MIC"
    [] "AUX_DIGITAL" \in out     -> "HDMI_MIC"
    [] OTHER -> "HANDSET_MIC"

platform_get_input_snd_device(a, i, out) ==
  LET voice   == out # {} /\ a.in_call
      source  == IF a.active_input THEN i.source ELSE "DEFAULT"
      device  == IF ~a.active_input THEN NONE
                 ELSE IF ~voice /\ source = "VOICE_COMMUNICATION" /\ "SPEAKER" \in out THEN "BACK_MIC"
                 ELSE i.device
      special == IF voice THEN VoiceInput(out, a.tty_mode)
                 ELSE IF a.active_input THEN SourceInput(device, i) ELSE NONE
  IN CASE special # NONE -> special
       [] ~voice /\ source = "DEFAULT" -> NONE
       [] OTHER -> IF device \notin {NONE, "VOICE_CALL"} THEN DeviceInput(device) ELSE OppositeInput(out)

(* The policy's requests make sense for this platform.                     *)
ASSUME RoutingAssumption ==
  /\ PRIMARY \in Outs /\ Outs \cap {RECORD, VOICE} = {} /\ IsFiniteSet(Outs)
  /\ \A s \in Outs : \A devices \in OutRoutes[s] : devices \subseteq OutDevices /\ MediaOutput(devices) # NONE
  /\ NONE \notin InDevices /\ Sources \cap {NONE, "DEFAULT"} = {}
  /\ "NORMAL" \in Modes /\ "OFF" \in TtyModes /\ TtyModes \subseteq {"OFF", "FULL", "VCO", "HCO"}
-----------------------------------------------------------------------------
VARIABLES
  adev,  \* struct audio_device, with the mixer it drives
  out,   \* the playback streams
  in     \* the recording stream

routeVars == <<adev, out, in>>

(* An entry of usecase_list.                                               *)
Usecase(type, devices) ==
  [type |-> type, devices |-> devices, out_snd_device |-> NONE, in_snd_device |-> NONE]

ClosedOut == [open |-> FALSE, standby |-> TRUE, devices |-> {}]
ClosedIn  == [open |-> FALSE, standby |-> TRUE, device |-> NONE, source |-> NONE,
              channel_mask |-> NONE, enable_aec |-> FALSE]

RouteInit ==
  /\ adev = [mode |-> "NORMAL", in_call |-> FALSE, call_active |-> FALSE, tty_mode |-> "OFF",
             active_input |-> FALSE, cur_hdmi_channels |-> 0, usecase_list |-> <<>>,
             snd_dev_ref_cnt |-> [d \in SndDevices |-> 0], mixer |-> {}]
  /\ out = [s \in Outs |-> IF s = PRIMARY THEN [open |-> TRUE, standby |-> TRUE, devices |-> {"SPEAKER"}]
                           ELSE ClosedOut]
  /\ in = ClosedIn
-----------------------------------------------------------------------------
(* The mixer: the paths that are applied and not reset.                    *)

DevicePath(d)   == <<"device", platform_get_snd_device_name(d)>>
SidetonePath(d) == <<"sidetone", d>>

(* platform_add_backend_name: what is appended to the usecase's name.      *)
BackendName(d) ==
  CASE d \in {"BT_SCO_MIC", "BT_SCO"} -> "bt-sco"
    [] d = "HDMI"             -> "hdmi"
    [] d = "SPEAKER_AND_HDMI" -> "speaker-and-hdmi"
    [] d = "FM_RADIO"         -> "fm-radio"
    [] OTHER                  -> "codec"

RoutePath(a, id) ==
  LET u == a.usecase_list[id]
  IN <<"route", id, BackendName(IF u.type = "PCM_CAPTURE" THEN u.in_snd_device ELSE u.out_snd_device)>>

enable_audio_route(a, id)  == [a EXCEPT !.mixer = @ \cup {RoutePath(a, id)}]
disable_audio_route(a, id) == [a EXCEPT !.mixer = @ \ {RoutePath(a, id)}]

enable_snd_device(a, d) ==
  IF d = NONE THEN a
  ELSE [a EXCEPT !.snd_dev_ref_cnt[d] = @ + 1,
                 !.mixer = IF a.snd_dev_ref_cnt[d] = 0 THEN @ \cup {DevicePath(d)} ELSE @]

disable_snd_device_Resets(a, d) ==
  IF d = NONE THEN a
  ELSE IF a.snd_dev_ref_cnt[d] <= 0 THEN a
  ELSE [a EXCEPT !.snd_dev_ref_cnt[d] = @ - 1, !.mixer = @ \ {DevicePath(d)}]

disable_snd_device(a, d) ==
  IF d = NONE THEN a
  ELSE IF a.snd_dev_ref_cnt[d] <= 0 THEN a
  ELSE [a EXCEPT !.snd_dev_ref_cnt[d] = @ - 1,
                 !.mixer = IF a.snd_dev_ref_cnt[d] = 1 THEN @ \ {DevicePath(d)} ELSE @]

voice_set_sidetone(a, d, enable) ==
  IF d \notin {"VOICE_HAC_HANDSET", "VOICE_HANDSET", "VOICE_HEADPHONES"} THEN a
  ELSE [a EXCEPT !.mixer = IF enable THEN @ \cup {SidetonePath(d)} ELSE @ \ {SidetonePath(d)}]
-----------------------------------------------------------------------------
(* Moving the other entries to the new device: first all their routes and  *)
(* devices go off, then the new device is enabled once for each of them.   *)

OnCodec(u) == u.devices \cap CodecBackend # {}

Move(a, moved, field, d) ==
  FoldSet(LAMBDA v, x : enable_audio_route([x EXCEPT !.usecase_list[v][field] = d], v),
    FoldSet(LAMBDA v, x : enable_snd_device(x, d),
      FoldSet(LAMBDA v, x : disable_snd_device(x, x.usecase_list[v][field]),
        FoldSet(LAMBDA v, x : disable_audio_route(x, v), a, moved),
        moved), moved), moved)

PlaybackToSwitch_CallOnly(a, id, d) ==
  {v \in DOMAIN a.usecase_list \ {id} :
     /\ a.usecase_list[v].type = "VOICE_CALL"
     /\ a.usecase_list[v].out_snd_device # d
     /\ OnCodec(a.usecase_list[v])}

PlaybackToSwitch(a, id, d) ==
  {v \in DOMAIN a.usecase_list \ {id} :
     /\ a.usecase_list[v].type # "PCM_CAPTURE"
     /\ a.usecase_list[v].out_snd_device # d
     /\ OnCodec(a.usecase_list[v])}

check_and_route_playback_usecases(a, id, d) == Move(a, PlaybackToSwitch(a, id, d), "out_snd_device", d)

CaptureToSwitch(a, id, d) ==
  {v \in DOMAIN a.usecase_list \ {id} :
     a.usecase_list[v].type # "PCM_PLAYBACK" /\ a.usecase_list[v].in_snd_device # d}

check_and_route_capture_usecases(a, id, d) == Move(a, CaptureToSwitch(a, id, d), "in_snd_device", d)
-----------------------------------------------------------------------------
(* select_devices, from the comparison with the current devices on.        *)

ActiveCall(a, id) == a.usecase_list[id].type = "VOICE_CALL" /\ a.call_active

SidetoneOff(a, id) ==
  LET u == a.usecase_list[id]
  IN IF ActiveCall(a, id) /\ u.in_snd_device # NONE /\ u.out_snd_device # NONE
     THEN voice_set_sidetone(a, u.out_snd_device, FALSE) ELSE a

DisableCurrent(a, id, d) ==
  IF d = NONE THEN a ELSE disable_snd_device(disable_audio_route(a, id), d)

EnableOutput(a, id, d) ==
  IF d = NONE THEN a
  ELSE enable_snd_device(IF OnCodec(a.usecase_list[id]) THEN check_and_route_playback_usecases(a, id, d) ELSE a, d)

EnableInput(a, id, d) ==
  IF d = NONE THEN a ELSE enable_snd_device(check_and_route_capture_usecases(a, id, d), d)

EnableRoute(a, id, outDev, inDev) ==
  enable_audio_route([a EXCEPT !.usecase_list[id].in_snd_device = inDev,
                               !.usecase_list[id].out_snd_device = outDev], id)

SidetoneOn(a, id, d) == IF ActiveCall(a, id) THEN voice_set_sidetone(a, d, TRUE) ELSE a

Switch(a, id, outDev, inDev) ==
  LET u   == a.usecase_list[id]
      off == DisableCurrent(DisableCurrent(SidetoneOff(a, id), id, u.out_snd_device), id, u.in_snd_device)
  IN IF outDev = u.out_snd_device /\ inDev = u.in_snd_device THEN a
     ELSE SidetoneOn(EnableRoute(EnableInput(EnableOutput(off, id, outDev), id, inDev), id, outDev, inDev),
                     id, outDev)

(* The devices of a call that the entry id has to share.                   *)
SharesCall(a, id) ==
  /\ a.in_call /\ VOICE \in DOMAIN a.usecase_list
  /\ OnCodec(a.usecase_list[VOICE]) \/ a.usecase_list[id].devices = {"VOICE_CALL"}
CallOutput(a, id) == IF SharesCall(a, id) THEN a.usecase_list[VOICE].out_snd_device ELSE NONE
CallInput(a, id)  == IF SharesCall(a, id) THEN a.usecase_list[VOICE].in_snd_device ELSE NONE

VoipInput(a, i) == a.active_input /\ (i.source = "VOICE_COMMUNICATION" \/ a.mode = "IN_COMMUNICATION")

WithDevices(a, id, devices) == [a EXCEPT !.usecase_list[id].devices = devices]

SelectVoice(a, o, i) ==
  LET devices == o[PRIMARY].devices
  IN Switch(WithDevices(a, VOICE, devices), VOICE,
            platform_get_output_snd_device(devices, a.in_call, a.tty_mode),
            platform_get_input_snd_device(a, i, devices))

SelectCapture(a, o, i) ==
  LET opposite == IF VoipInput(a, i) THEN o[PRIMARY].devices ELSE {}
  IN Switch(WithDevices(a, RECORD, {i.device}), RECORD, NONE,
            IF CallInput(a, RECORD) # NONE THEN CallInput(a, RECORD)
            ELSE platform_get_input_snd_device(a, i, opposite))

(* In a VoIP call the microphone follows the primary output.               *)
SelectPlayback(a, o, i, id) ==
  LET a0      == WithDevices(a, id, o[id].devices)
      outDev  == IF CallOutput(a, id) # NONE THEN CallOutput(a, id)
                 ELSE platform_get_output_snd_device(o[id].devices, a.in_call, a.tty_mode)
      follows == /\ CallOutput(a, id) = NONE /\ id = PRIMARY /\ VoipInput(a, i)
                 /\ outDev # a.usecase_list[id].out_snd_device
  IN Switch(IF follows THEN SelectCapture(a0, o, i) ELSE a0, id, outDev, NONE)

select_devices(a, o, i, id) ==
  CASE id = VOICE  -> SelectVoice(a, o, i)
    [] id = RECORD -> SelectCapture(a, o, i)
    [] OTHER       -> SelectPlayback(a, o, i, id)
-----------------------------------------------------------------------------
(* Playback.                                                               *)

AddUsecase(a, id, u) ==
  [a EXCEPT !.usecase_list = [v \in DOMAIN @ \cup {id} |-> IF v = id THEN u ELSE a.usecase_list[v]]]
RemoveUsecase(a, id) ==
  [a EXCEPT !.usecase_list = [v \in DOMAIN @ \ {id} |-> a.usecase_list[v]]]

OnHdmi(u) == "AUX_DIGITAL" \in u.devices
channels(s) == IF s = MULTI_CH THEN 6 ELSE 2

allow_hdmi_channel_config(a) ==
  \A v \in DOMAIN a.usecase_list \cap {VOICE, MULTI_CH} : ~OnHdmi(a.usecase_list[v])

check_and_set_hdmi_channels(a, n) ==
  LET streams == {v \in DOMAIN a.usecase_list :
                    a.usecase_list[v].type = "PCM_PLAYBACK" /\ OnHdmi(a.usecase_list[v])}
      a1 == [a EXCEPT !.cur_hdmi_channels = n, !.mixer = @ \ {RoutePath(a, v) : v \in streams}]
  IN IF ~allow_hdmi_channel_config(a) \/ n = a.cur_hdmi_channels THEN a
     ELSE [a1 EXCEPT !.mixer = @ \cup {RoutePath(a, v) : v \in streams}]

stop_output_stream(a, o, s) ==
  LET u  == a.usecase_list[s]
      a1 == RemoveUsecase(disable_snd_device(disable_audio_route(a, s), u.out_snd_device), s)
  IN IF OnHdmi(o[s]) THEN check_and_set_hdmi_channels(a1, DEFAULT_HDMI_OUT_CHANNELS) ELSE a1

start_output_stream(a, o, i, s) ==
  LET a1 == IF OnHdmi(o[s]) THEN check_and_set_hdmi_channels(a, channels(s)) ELSE a
  IN select_devices(AddUsecase(a1, s, Usecase("PCM_PLAYBACK", o[s].devices)), o, i, s)

(* pcm_open may fail, and the stream is stopped again.                     *)
AfterOpen(a, o, s, opens) == IF opens THEN a ELSE stop_output_stream(a, o, s)

(* The first write after standby starts the stream.                        *)
out_write(s, opens) ==
  /\ out[s].open /\ out[s].standby
  /\ adev' = AfterOpen(start_output_stream(adev, out, in, s), out, s, opens)
  /\ out' = [out EXCEPT ![s].standby = ~opens]
  /\ UNCHANGED in

(* standby, which a failing write calls as well *)
out_standby(s) ==
  /\ out[s].open /\ ~out[s].standby
  /\ adev' = stop_output_stream(adev, out, s)
  /\ out' = [out EXCEPT ![s].standby = TRUE]
  /\ UNCHANGED in

adev_open_output_stream(s, devices) ==
  /\ ~out[s].open
  /\ s \notin DOMAIN adev.usecase_list
  /\ out' = [out EXCEPT ![s] = [open |-> TRUE, standby |-> TRUE, devices |-> devices]]
  /\ UNCHANGED <<adev, in>>

adev_close_output_stream(s) ==
  /\ out[s].open /\ s # PRIMARY
  /\ adev' = IF out[s].standby THEN adev ELSE stop_output_stream(adev, out, s)
  /\ out' = [out EXCEPT ![s] = ClosedOut]
  /\ UNCHANGED in
-----------------------------------------------------------------------------
(* The phone call.                                                         *)

voice_stop_usecase_KeepsMic(a) ==
  IF VOICE \notin DOMAIN a.usecase_list THEN a
  ELSE LET u  == a.usecase_list[VOICE]
           a1 == voice_set_sidetone([a EXCEPT !.call_active = FALSE], u.out_snd_device, FALSE)
       IN RemoveUsecase(disable_snd_device(disable_audio_route(a1, VOICE), u.out_snd_device), VOICE)

voice_stop_usecase(a) ==
  IF VOICE \notin DOMAIN a.usecase_list THEN a
  ELSE LET u  == a.usecase_list[VOICE]
           a1 == voice_set_sidetone([a EXCEPT !.call_active = FALSE], u.out_snd_device, FALSE)
           a2 == disable_snd_device(disable_audio_route(a1, VOICE), u.out_snd_device)
       IN RemoveUsecase(disable_snd_device(a2, u.in_snd_device), VOICE)

(* A PCM device of the call may fail to open.                              *)
CallOpened(a, opens) ==
  IF opens
  THEN [voice_set_sidetone(a, a.usecase_list[VOICE].out_snd_device, TRUE) EXCEPT !.call_active = TRUE]
  ELSE voice_stop_usecase(a)

voice_start_call(a, o, i, opens) ==
  CallOpened(select_devices(AddUsecase([a EXCEPT !.in_call = TRUE], VOICE,
                                       Usecase("VOICE_CALL", o[PRIMARY].devices)), o, i, VOICE),
             opens)

voice_update_devices_for_all_voice_usecases(a, o, i) ==
  IF VOICE \in DOMAIN a.usecase_list THEN select_devices(a, o, i, VOICE) ELSE a

voice_stop_call(a) == voice_stop_usecase([a EXCEPT !.in_call = FALSE])

(* The policy asks for other devices; {} is its routing=0.                 *)
out_set_parameters(s, val) ==
  LET devices == IF out[s].devices = {"AUX_DIGITAL"} /\ val = {} THEN {"SPEAKER"} ELSE val
      o  == [out EXCEPT ![s].devices = devices]
      a1 == IF out[s].standby THEN adev ELSE select_devices(adev, o, in, s)
  IN /\ out[s].open /\ devices # {}
     /\ out' = o
     /\ \/ /\ s = PRIMARY /\ ~adev.in_call /\ adev.mode = "IN_CALL"
           /\ \E opens \in BOOLEAN : adev' = voice_start_call(a1, o, in, opens)
        \/ /\ s = PRIMARY /\ adev.in_call
           /\ adev' = voice_update_devices_for_all_voice_usecases(a1, o, in)
        \/ /\ s # PRIMARY \/ (~adev.in_call /\ adev.mode # "IN_CALL")
           /\ adev' = a1
     /\ UNCHANGED in

adev_set_mode(m) ==
  /\ m # adev.mode
  /\ LET a == [adev EXCEPT !.mode = m]
     IN adev' = IF m \in {"NORMAL", "IN_COMMUNICATION"} /\ adev.in_call THEN voice_stop_call(a) ELSE a
  /\ UNCHANGED <<out, in>>

voice_set_parameters(tty) ==
  /\ tty # adev.tty_mode
  /\ LET a == [adev EXCEPT !.tty_mode = tty]
     IN adev' = IF adev.call_active THEN voice_update_devices_for_all_voice_usecases(a, out, in) ELSE a
  /\ UNCHANGED <<out, in>>
-----------------------------------------------------------------------------
(* Recording.                                                              *)

stop_input_stream(a) ==
  LET u == a.usecase_list[RECORD]
  IN [RemoveUsecase(disable_snd_device(disable_audio_route(a, RECORD), u.in_snd_device), RECORD)
        EXCEPT !.active_input = FALSE]

start_input_stream(a, o, i) ==
  select_devices(AddUsecase([a EXCEPT !.active_input = TRUE], RECORD, Usecase("PCM_CAPTURE", {i.device})),
                 o, i, RECORD)

InputOpened(a, opens) == IF opens THEN a ELSE stop_input_stream(a)

in_read(opens) ==
  /\ in.open /\ in.standby
  /\ adev' = InputOpened(start_input_stream(adev, out, in), opens)
  /\ in' = [in EXCEPT !.standby = ~opens]
  /\ UNCHANGED out

(* standby, which a failing read calls as well *)
in_standby ==
  /\ in.open /\ ~in.standby
  /\ adev' = stop_input_stream(adev)
  /\ in' = [in EXCEPT !.standby = TRUE]
  /\ UNCHANGED out

adev_open_input_stream(device, source, mask) ==
  /\ ~in.open
  /\ in' = [open |-> TRUE, standby |-> TRUE, device |-> device, source |-> source,
            channel_mask |-> mask, enable_aec |-> FALSE]
  /\ UNCHANGED <<adev, out>>

adev_close_input_stream ==
  /\ in.open
  /\ adev' = IF in.standby THEN adev ELSE stop_input_stream(adev)
  /\ in' = ClosedIn
  /\ UNCHANGED out

(* A new source takes effect with the next selection; a new device at once. *)
in_set_parameters(source, device) ==
  LET i == [in EXCEPT !.source = source, !.device = device]
  IN /\ in.open /\ i # in
     /\ in' = i
     /\ adev' = IF device # in.device /\ ~in.standby THEN select_devices(adev, out, i, RECORD) ELSE adev
     /\ UNCHANGED out

Reselect(a, o, i) == IF i.standby THEN a ELSE select_devices(a, o, i, RECORD)

(* The echo canceller: some playback entry is selected again, then the     *)
(* recording.                                                              *)
SetAec(enable) ==
  LET i == [in EXCEPT !.enable_aec = enable]
      playing == {v \in DOMAIN adev.usecase_list : adev.usecase_list[v].type = "PCM_PLAYBACK"}
  IN /\ in.open /\ in.enable_aec # enable
     /\ in.source = "VOICE_COMMUNICATION" \/ adev.mode = "IN_COMMUNICATION"
     /\ in' = i
     /\ \/ playing = {} /\ adev' = Reselect(adev, out, i)
        \/ \E p \in playing : adev' = Reselect(select_devices(adev, out, i, p), out, i)
     /\ UNCHANGED out

(* Noise suppression has no part in the choice of a device, but the        *)
(* recording is selected again.                                            *)
SetNs ==
  /\ in.open
  /\ adev' = Reselect(adev, out, in)
  /\ UNCHANGED <<out, in>>
-----------------------------------------------------------------------------
RouteNext ==
  \/ \E s \in Outs :
       \/ \E opens \in BOOLEAN : out_write(s, opens)
       \/ out_standby(s)
       \/ \E devices \in OutRoutes[s] : adev_open_output_stream(s, devices)
       \/ adev_close_output_stream(s)
       \/ \E val \in OutRoutes[s] \cup {{}} : out_set_parameters(s, val)
  \/ \E m \in Modes : adev_set_mode(m)
  \/ \E tty \in TtyModes : voice_set_parameters(tty)
  \/ \E opens \in BOOLEAN : in_read(opens)
  \/ in_standby
  \/ \E device \in InDevices, source \in Sources, mask \in ChannelMasks :
       adev_open_input_stream(device, source, mask)
  \/ adev_close_input_stream
  \/ \E device \in InDevices, source \in Sources : in_set_parameters(source, device)
  \/ \E enable \in BOOLEAN : SetAec(enable)
  \/ SetNs

RouteSpec == RouteInit /\ [][RouteNext]_routeVars
-----------------------------------------------------------------------------
Entries == DOMAIN adev.usecase_list

(* snd_dev_ref_cnt counts every sound device once for each entry that uses *)
(* it, whichever of the moves, failed opens and ends of calls came before: *)
(* no device is left on for nobody, none is switched off under a user.     *)
RefCountsUsers ==
  \A d \in SndDevices : adev.snd_dev_ref_cnt[d] =
    Cardinality({v \in Entries : d \in {adev.usecase_list[v].out_snd_device, adev.usecase_list[v].in_snd_device}})

Paths(kind) == {p \in adev.mixer : p[1] = kind}
Enabled(table) == {d \in DOMAIN table : adev.snd_dev_ref_cnt[d] > 0}

(* The mixer is set as the entries need it.  It has one route for each, to *)
(* the back end of its present device: disable_audio_route was called with *)
(* the device the route had been enabled with.  A device's path is on only *)
(* while a device with that path is in use, and a microphone in use is on, *)
(* although device_table gives several of them one path, which disabling   *)
(* any of them resets.  The sidetone is on exactly during a call on the    *)
(* headphones, also after the call was moved while it was active.  A       *)
(* stream for HDMI that was put on a call's device (625) counts as a user  *)
(* of it: that it stays there when the call moves, so that two codec       *)
(* devices are on, is not excluded.                                        *)
MixerFollowsUsecases ==
  /\ Paths("route") = {RoutePath(adev, v) : v \in Entries}
  /\ Paths("device") \subseteq {DevicePath(d) : d \in Enabled(PlaybackTable) \cup Enabled(CaptureTable)}
  /\ {DevicePath(d) : d \in Enabled(CaptureTable)} \subseteq Paths("device")
  /\ Paths("sidetone") =
       IF adev.call_active /\ adev.usecase_list[VOICE].out_snd_device = "VOICE_HEADPHONES"
       THEN {SidetonePath("VOICE_HEADPHONES")} ELSE {}

CodecEntries(a) == {v \in DOMAIN a.usecase_list \ {RECORD} : OnCodec(a.usecase_list[v])}

(* When an entry routed to the codec gets a device, every entry routed to  *)
(* the codec is on that device afterwards.                                 *)
SwitchMovesAll ==
  [][\A v, w \in CodecEntries(adev') :
       (v \in Entries => adev.usecase_list[v].out_snd_device # adev'.usecase_list[v].out_snd_device)
         => adev'.usecase_list[w].out_snd_device = adev'.usecase_list[v].out_snd_device]_routeVars
===============================================================================
