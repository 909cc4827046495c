--------------------------- MODULE OffloadEffects ---------------------------
(***************************************************************************)
(* The effects of a compress-offload output (audio/post_proc): bundle.c,   *)
(* which attaches effects to outputs, and the equalizer, bass boost,       *)
(* virtualizer and reverb it drives.  An effect keeps the parameters it    *)
(* was given and a pointer ctl to the mixer control of its output; what it *)
(* sends there is what the DSP plays.  Every call holds the library's      *)
(* lock, so a call is one step; the states between calls are where a       *)
(* stream comes and goes, the device changes and the effect moves.         *)
(*                                                                         *)
(* An effect is a function of (fx, outs) to (fx, outs): w = [fx, outs].    *)
(* The client is AudioFlinger: INIT follows creation, an effect is         *)
(* disabled before it is released or leaves a running output, and an       *)
(* output has one effect of a kind.                                        *)
(***************************************************************************)
EXTENDS Integers, FiniteSets

CONSTANTS
  FxMixes,      \* the sets of kinds a client uses together
  FxOutputs,    \* io handles of offload outputs
  FxNone,       \* no output, no mixer control
  Strengths,    \* of bass boost and virtualizer, 0 among them
  EqPresets,    \* preset number -> band levels in dB
  BandLevels    \* levels a client sets a band to, in millibels

Bands == 1 .. 2                     \* NUM_EQ_BANDS is 5
INVALID_PRESET == -2
PRESET_CUSTOM == -1
REVERB_PRESET_NONE == 0
StrengthKinds == {"bass", "virt"}
ReverbKinds == {"insert_reverb", "aux_reverb"}

ASSUME OffloadEffectsAssumption ==
  /\ FxMixes \subseteq SUBSET (StrengthKinds \cup ReverbKinds \cup {"eq"})
  /\ FxNone \notin FxOutputs
  /\ 0 \in Strengths
  /\ EqPresets \in [DOMAIN EqPresets -> [Bands -> Int]] /\ DOMAIN EqPresets \subseteq Nat
  /\ BandLevels \subseteq Int

VARIABLES
  mix,   \* the kinds of effect this client uses
  fx,    \* created_effects_list: kind -> context
  outs   \* active_outputs_list: handle -> [fx: effects_list, dsp: what was sent]

fxVars == <<mix, fx, outs>>
FxInit == mix \in FxMixes /\ fx = << >> /\ outs = << >>
World == [fx |-> fx, outs |-> outs]
Becomes(w) == fx' = w.fx /\ outs' = w.outs /\ UNCHANGED mix
-------------------------------------------------------------------------------
(* The DSP's modules of a stream that has just been opened, and what is    *)
(* heard of a setting: a strength, band levels, a reverb preset.           *)
Silent(k) == IF k = "eq" THEN [b \in Bands |-> 0] ELSE 0
NewDsp == [k \in mix |-> [on |-> FALSE, val |-> Silent(k)]]

(* offload_*_send_params: the enable flag always goes, the setting when    *)
(* its flag is given.  An equalizer without a preset sends nothing.        *)
Send(w, k, setting) ==
  LET e == w.fx[k]
      told == [on |-> e.flag,
               val |-> IF setting THEN e.par ELSE w.outs[e.ctl].dsp[k].val]
  IN IF e.ctl \in DOMAIN w.outs /\ e.preset # INVALID_PRESET
     THEN [w EXCEPT !.outs[e.ctl].dsp[k] = told]
     ELSE w
offload_eq_send_params(w, setting) == Send(w, "eq", setting)
offload_bassboost_send_params(w, setting) == Send(w, "bass", setting)
offload_virtualizer_send_params(w, setting) == Send(w, "virt", setting)
offload_reverb_send_params(w, k, setting) == Send(w, k, setting)
-------------------------------------------------------------------------------
(* A fresh context: flag, par and preset are what goes to the DSP          *)
(* (offload_eq, offload_bass, ...), val what a client reads back.          *)
Context(k, output, preset) ==
  [state |-> "INITIALIZED", out |-> output, ctl |-> FxNone, flag |-> FALSE,
   tempOff |-> FALSE, val |-> Silent(k), par |-> Silent(k), preset |-> preset]
equalizer_init(output) == Context("eq", output, INVALID_PRESET)
bassboost_init(output) == Context("bass", output, PRESET_CUSTOM)
virtualizer_init(output) == Context("virt", output, PRESET_CUSTOM)
(* next_preset is REVERB_DEFAULT_PRESET, so reverb_load_preset loads none. *)
reverb_init(k, output) == Context(k, output, REVERB_PRESET_NONE)

(* Millibels to decibels, rounded away from zero at the half: C's division *)
(* truncates.                                                              *)
RoundLevel(level) == IF level > 0 THEN (level + 50) \div 100 ELSE -((50 - level) \div 100)
equalizer_set_band_level(w, band, level) ==
  offload_eq_send_params(
    [w EXCEPT !.fx["eq"].val[band] = RoundLevel(level),
              !.fx["eq"].par = [w.fx["eq"].val EXCEPT ![band] = RoundLevel(level)],
              !.fx["eq"].preset = PRESET_CUSTOM], TRUE)
equalizer_set_preset(w, preset) ==
  offload_eq_send_params(
    [w EXCEPT !.fx["eq"].val = EqPresets[preset], !.fx["eq"].par = EqPresets[preset],
              !.fx["eq"].preset = preset], TRUE)
(* EQ_PARAM_PROPERTIES is a preset, or every band in turn.                 *)
equalizer_set_parameter(w, p) ==
  CASE p.set = "preset" -> IF p.preset \in DOMAIN EqPresets
                           THEN equalizer_set_preset(w, p.preset) ELSE w
    [] p.set = "band" -> IF p.band \in Bands
                         THEN equalizer_set_band_level(w, p.band, p.level) ELSE w
    [] p.set = "bands" -> equalizer_set_band_level(
                            equalizer_set_band_level(w, 1, p.level), 2, p.level)
(* The level of a band as a client reads it, in millibels.                 *)
equalizer_get_parameter(e, band) == e.val[band] * 100

equalizer_enable(w) ==
  IF w.fx["eq"].flag THEN w
  ELSE offload_eq_send_params([w EXCEPT !.fx["eq"].flag = TRUE], TRUE)
equalizer_disable(w) ==
  IF ~w.fx["eq"].flag THEN w
  ELSE offload_eq_send_params([w EXCEPT !.fx["eq"].flag = FALSE], FALSE)
equalizer_start(w, output) ==
  LET v == [w EXCEPT !.fx["eq"].ctl = output]
  IN IF v.fx["eq"].flag THEN offload_eq_send_params(v, TRUE) ELSE v
equalizer_stop(w) == [w EXCEPT !.fx["eq"].ctl = FxNone]
-------------------------------------------------------------------------------
(* Bass boost, and the virtualizer, whose functions are the same with the  *)
(* other module's parameters.                                              *)
set_strength(w, k, strength) == [w EXCEPT !.fx[k].val = strength, !.fx[k].par = strength]
bassboost_set_parameter(w, p) ==
  offload_bassboost_send_params(set_strength(w, "bass", p.strength), TRUE)
virtualizer_set_parameter(w, p) ==
  offload_virtualizer_send_params(set_strength(w, "virt", p.strength), TRUE)
bassboost_get_parameter(e) == e.val
virtualizer_get_parameter(e) == e.val

(* Mutant: the effect stays on when the sound goes to a loudspeaker.       *)
set_device_KeepsOn(w, k, speaker) == [w EXCEPT !.fx[k].tempOff = speaker]
(* While the sound goes to a loudspeaker an active effect is held off.     *)
set_device(w, k, speaker) ==
  LET v == [w EXCEPT !.fx[k].tempOff = speaker]
  IN IF speaker = w.fx[k].tempOff \/ w.fx[k].state # "ACTIVE" THEN v
     ELSE Send([v EXCEPT !.fx[k].flag = ~speaker], k, FALSE)
bassboost_set_device(w, speaker) == set_device(w, "bass", speaker)
virtualizer_set_device(w, speaker) == set_device(w, "virt", speaker)

strength_enable(w, k) ==
  LET v == [w EXCEPT !.fx[k].flag = TRUE]
  IN IF w.fx[k].flag \/ w.fx[k].tempOff THEN w
     ELSE IF w.fx[k].val # 0 THEN Send(v, k, TRUE) ELSE v
bassboost_enable(w) == strength_enable(w, "bass")
virtualizer_enable(w) == strength_enable(w, "virt")
strength_disable(w, k) ==
  IF w.fx[k].flag THEN Send([w EXCEPT !.fx[k].flag = FALSE], k, FALSE) ELSE w
bassboost_disable(w) == strength_disable(w, "bass")
virtualizer_disable(w) == strength_disable(w, "virt")
strength_start(w, k, output) ==
  LET v == [w EXCEPT !.fx[k].ctl = output] IN IF v.fx[k].flag THEN Send(v, k, TRUE) ELSE v
bassboost_start(w, output) == strength_start(w, "bass", output)
virtualizer_start(w, output) == strength_start(w, "virt", output)
bassboost_stop(w) == [w EXCEPT !.fx["bass"].ctl = FxNone]
virtualizer_stop(w) == [w EXCEPT !.fx["virt"].ctl = FxNone]
-------------------------------------------------------------------------------
(* Reverb.  A preset also sets the enable flag, whatever the effect's      *)
(* state; enabling the effect sends nothing.  par 0 stands for the         *)
(* settings of no preset, and the levels of an environmental reverb are    *)
(* one level.                                                              *)
reverb_set_preset(w, k, preset) ==
  offload_reverb_send_params(
    [w EXCEPT !.fx[k].val = preset, !.fx[k].preset = preset,
              !.fx[k].par = IF preset = REVERB_PRESET_NONE THEN @ ELSE preset,
              !.fx[k].flag = preset # REVERB_PRESET_NONE], k, TRUE)
reverb_set_level(w, k, level) ==
  offload_reverb_send_params([w EXCEPT !.fx[k].val = level, !.fx[k].par = level], k, TRUE)
reverb_set_parameter(w, k, p) ==
  IF k = "insert_reverb" THEN reverb_set_preset(w, k, p.strength)
  ELSE reverb_set_level(w, k, p.strength)
(* What a client reads: next_preset, or the level it asks for.             *)
reverb_get_parameter(e) == e.val
reverb_enable(w, k) == [w EXCEPT !.fx[k].flag = TRUE]
reverb_disable(w, k) ==
  IF w.fx[k].flag
  THEN offload_reverb_send_params([w EXCEPT !.fx[k].flag = FALSE], k, FALSE)
  ELSE w
reverb_start(w, k, output) ==
  LET v == [w EXCEPT !.fx[k].ctl = output]
  IN IF v.fx[k].flag /\ k = "insert_reverb" THEN offload_reverb_send_params(v, k, TRUE) ELSE v
reverb_stop(w, k) == [w EXCEPT !.fx[k].ctl = FxNone]
-------------------------------------------------------------------------------
(* The operations table of a context.                                      *)
OpsStart(w, k, output) ==
  CASE k = "eq" -> equalizer_start(w, output)
    [] k = "bass" -> bassboost_start(w, output)
    [] k = "virt" -> virtualizer_start(w, output)
    [] OTHER -> reverb_start(w, k, output)
OpsStop(w, k) ==
  CASE k = "eq" -> equalizer_stop(w)
    [] k = "bass" -> bassboost_stop(w)
    [] k = "virt" -> virtualizer_stop(w)
    [] OTHER -> reverb_stop(w, k)
OpsEnable(w, k) ==
  CASE k = "eq" -> equalizer_enable(w)
    [] k = "bass" -> bassboost_enable(w)
    [] k = "virt" -> virtualizer_enable(w)
    [] OTHER -> reverb_enable(w, k)
OpsDisable(w, k) ==
  CASE k = "eq" -> equalizer_disable(w)
    [] k = "bass" -> bassboost_disable(w)
    [] k = "virt" -> virtualizer_disable(w)
    [] OTHER -> reverb_disable(w, k)
OpsSetParameter(w, k, p) ==
  CASE k = "eq" -> equalizer_set_parameter(w, p)
    [] k = "bass" -> bassboost_set_parameter(w, p)
    [] k = "virt" -> virtualizer_set_parameter(w, p)
    [] OTHER -> reverb_set_parameter(w, k, p)
(* The equalizer and the reverb only note the device.                      *)
OpsSetDevice(w, k, speaker) ==
  CASE k = "bass" -> bassboost_set_device(w, speaker)
    [] k = "virt" -> virtualizer_set_device(w, speaker)
    [] OTHER -> w
Settings(k) ==
  IF k = "eq"
  THEN [set : {"preset"}, preset : DOMAIN EqPresets]
         \cup [set : {"band"}, band : Bands, level : BandLevels]
         \cup [set : {"bands"}, level : BandLevels]
  ELSE [strength : Strengths]

(* What a client reads back of a setting.                                  *)
ReadBack(k, e) ==
  CASE k = "eq" -> [b \in Bands |-> equalizer_get_parameter(e, b) \div 100]
    [] k = "bass" -> bassboost_get_parameter(e)
    [] k = "virt" -> virtualizer_get_parameter(e)
    [] OTHER -> reverb_get_parameter(e)
-------------------------------------------------------------------------------
(* bundle.c                                                                *)
add_effect_to_output(w, output, k) ==
  IF output \notin DOMAIN w.outs \/ k \in w.outs[output].fx THEN w
  ELSE OpsStart([w EXCEPT !.outs[output].fx = @ \cup {k}], k, output)
remove_effect_from_output(w, output, k) ==
  IF output \notin DOMAIN w.outs \/ k \notin w.outs[output].fx THEN w
  ELSE [OpsStop(w, k) EXCEPT !.outs[output].fx = @ \ {k}]

With(f, x, v) == [y \in DOMAIN f \cup {x} |-> IF y = x THEN v ELSE f[y]]
Without(f, x) == [y \in DOMAIN f \ {x} |-> f[y]]

(* effect_lib_create: the context is filled before the lock is taken; no   *)
(* other call knows it yet.                                                *)
NewContext(k, output) ==
  CASE k = "eq" -> equalizer_init(output)
    [] k = "bass" -> bassboost_init(output)
    [] k = "virt" -> virtualizer_init(output)
    [] OTHER -> reverb_init(k, output)
effect_lib_create(k, output) ==
  /\ k \notin DOMAIN fx
  /\ Becomes(add_effect_to_output([fx |-> With(fx, k, NewContext(k, output)), outs |-> outs],
                                  output, k))
effect_lib_release(k) ==
  LET w == remove_effect_from_output(World, fx[k].out, k)
  IN /\ fx[k].state # "ACTIVE"       \* the client disables it first
     /\ Becomes([w EXCEPT !.fx = Without(w.fx, k)])

(* effect_command.  RESET and SET_CONFIG change no modelled state; whether *)
(* the effect is offloaded only decides if it answers GET_PARAM.           *)
EnableCommand(k) ==
  /\ fx[k].state = "INITIALIZED"
  /\ Becomes(OpsEnable([World EXCEPT !.fx[k].state = "ACTIVE"], k))
DisableCommand(k) ==
  /\ fx[k].state = "ACTIVE"
  /\ Becomes(OpsDisable([World EXCEPT !.fx[k].state = "INITIALIZED"], k))
SetParamCommand(k) == \E p \in Settings(k) : Becomes(OpsSetParameter(World, k, p))
SetDeviceCommand(k) == \E speaker \in BOOLEAN : Becomes(OpsSetDevice(World, k, speaker))
MoveEffect(w, k, output) ==
  IF w.fx[k].out = output THEN w
  ELSE LET v == remove_effect_from_output(w, w.fx[k].out, k)
       IN add_effect_to_output([v EXCEPT !.fx[k].out = output], output, k)
OffloadCommand(k) ==
  \E output \in FxOutputs :
    /\ fx[k].state = "ACTIVE" /\ output # fx[k].out => fx[k].out \notin DOMAIN outs
    /\ Becomes(MoveEffect(World, k, output))

(* start_output: the mixer or its control may be missing.  Each attached   *)
(* effect starts, and start touches that effect's context and module only: *)
(* what the loop leaves is what each of them left of its own.              *)
Opened(output) ==
  [fx |-> fx, outs |-> With(outs, output, [fx |-> {k \in DOMAIN fx : fx[k].out = output},
                                           dsp |-> NewDsp])]
Started(w, output) ==
  [fx |-> [k \in DOMAIN w.fx |-> IF k \in w.outs[output].fx
                                 THEN OpsStart(w, k, output).fx[k] ELSE w.fx[k]],
   outs |-> [w.outs EXCEPT ![output].dsp =
              [k \in mix |-> IF k \in w.outs[output].fx
                             THEN OpsStart(w, k, output).outs[output].dsp[k] ELSE @[k]]]]
offload_effects_bundle_hal_start_output(output) ==
  /\ output \notin DOMAIN outs
  /\ \/ Becomes(Started(Opened(output), output))
     \/ UNCHANGED fxVars          \* mixer_open or mixer_get_ctl_by_name fails
offload_effects_bundle_hal_stop_output(output) ==
  LET Stopped(k) == OpsStop(World, k).fx[k]
  IN /\ output \in DOMAIN outs
     /\ Becomes([fx |-> [k \in DOMAIN fx |-> IF k \in outs[output].fx
                                              THEN Stopped(k) ELSE fx[k]],
                 outs |-> Without(outs, output)])

FxNext ==
  \/ \E k \in mix, output \in FxOutputs : effect_lib_create(k, output)
  \/ \E k \in DOMAIN fx : \/ effect_lib_release(k) \/ EnableCommand(k) \/ DisableCommand(k)
                          \/ SetParamCommand(k) \/ SetDeviceCommand(k) \/ OffloadCommand(k)
  \/ \E output \in FxOutputs : \/ offload_effects_bundle_hal_start_output(output)
                               \/ offload_effects_bundle_hal_stop_output(output)
-------------------------------------------------------------------------------
(* The modules of a running output's DSP are on as its effects ask.  An    *)
(* effect is on the list of the output it belongs to and sends to that     *)
(* output's mixer, never to one that was closed; equalizer, bass boost and *)
(* virtualizer are on exactly when the effect is active and not held off   *)
(* by a loudspeaker (and has a setting to play), and an equalizer that is  *)
(* on plays the levels a client reads back.  Not stated: which strength    *)
(* bass boost and virtualizer play, as set_device turns them on again      *)
(* without sending it (bass_boost.c:166), and what a reverb plays.         *)
DspFollows ==
  /\ \A k \in DOMAIN fx :
       fx[k].ctl = IF fx[k].out \in DOMAIN outs THEN fx[k].out ELSE FxNone
  /\ \A o \in DOMAIN outs :
       /\ outs[o].fx = {k \in DOMAIN fx : fx[k].out = o}
       /\ \A k \in mix \ ReverbKinds :
            LET d == outs[o].dsp[k]
                wanted == k \in outs[o].fx /\ fx[k].state = "ACTIVE" /\ ~fx[k].tempOff
                setting == IF k = "eq" THEN fx[k].preset # INVALID_PRESET ELSE fx[k].val # 0
            IN /\ d.on => wanted
               /\ wanted /\ setting => d.on
               /\ d.on /\ setting /\ k = "eq" => d.val = ReadBack(k, fx[k])
===============================================================================
