--------------------------- MODULE VoiceProcessing ---------------------------
(***************************************************************************)
(* The echo canceller and the noise suppressor of a recording              *)
(* (audio/voice_processing): placeholders for what the DSP does.  The      *)
(* effects of one input share a session, whose masks say which are         *)
(* created, enabled and have seen the present buffer.  The library has no  *)
(* lock; AudioFlinger calls it from one thread at a time, with the handles *)
(* of effects that are created.                                            *)
(***************************************************************************)
EXTENDS Integers, FiniteSets

CONSTANTS
  VoiceIds,     \* AEC_ID, NS_ID
  VoiceInputs,  \* io handles
  VoiceRates    \* configurations a client asks for

VARIABLES
  voice,     \* session_list: io -> [created, enabled, processed, rate, state: id -> state]
  voiceDone  \* io -> the effects that have seen the present buffer: since an fx_process
             \*  returned 0 or an effect was enabled or disabled

voiceVars == <<voice, voiceDone>>
VoiceInit == voice = << >> /\ voiceDone = << >>
DefaultRate == 16000
-------------------------------------------------------------------------------
(* effect_set_state: the new state, or the old one when it is refused.     *)
Allowed(from, to) ==
  \/ to = "INIT"
  \/ to = "CREATED" /\ from = "INIT"
  \/ to = "CONFIG" /\ from # "INIT"
  \/ to = "ACTIVE" /\ from \in {"CONFIG", "ACTIVE"}
session_set_fx_enabled(s, id, on) ==
  [s EXCEPT !.enabled = IF on THEN @ \cup {id} ELSE @ \ {id}, !.processed = {}]
(* Mutant: leaving ACTIVE does not clear the enabled bit.                  *)
effect_set_state_KeepsBit(s, id, to) ==
  LET from == s.state[id]
  IN IF ~Allowed(from, to) THEN s
     ELSE [(IF to = "ACTIVE" /\ from = "CONFIG" THEN session_set_fx_enabled(s, id, TRUE) ELSE s)
             EXCEPT !.state[id] = to]
effect_set_state(s, id, to) ==
  LET from == s.state[id]
      noted == IF from = "ACTIVE" /\ to # "ACTIVE" THEN session_set_fx_enabled(s, id, FALSE)
               ELSE IF to = "ACTIVE" /\ from = "CONFIG" THEN session_set_fx_enabled(s, id, TRUE)
               ELSE s
  IN IF Allowed(from, to) THEN [noted EXCEPT !.state[id] = to] ELSE s

session_init == [created |-> {}, enabled |-> {}, processed |-> {}, rate |-> 0,
                 state |-> [id \in VoiceIds |-> "INIT"]]
(* The first effect of a session configures it.  A state other than INIT   *)
(* refuses the creation.                                                   *)
session_create_effect(s, id) ==
  LET fresh == IF s.created = {}
               THEN [s EXCEPT !.rate = DefaultRate, !.enabled = {}, !.processed = {}] ELSE s
  IN IF fresh.state[id] = "INIT"
     THEN [effect_set_state(fresh, id, "CREATED") EXCEPT !.created = @ \cup {id}]
     ELSE fresh
session_set_config(s, rate) ==
  IF s.enabled = {} THEN [s EXCEPT !.rate = rate] ELSE s
(* Whether the session takes the configuration.                            *)
Configured(s, rate) == s.enabled = {} \/ s.rate = rate

VPut(io, s) == voice' = [i \in DOMAIN voice \cup {io} |-> IF i = io THEN s ELSE voice[i]]
(* get_session: the session of the input, unless it has this effect.       *)
lib_create(id, io) ==
  LET s == IF io \in DOMAIN voice THEN voice[io] ELSE session_init
  IN /\ id \notin s.created
     /\ VPut(io, session_create_effect(s, id))
     /\ voiceDone' = [i \in DOMAIN voice \cup {io} |-> IF i \in DOMAIN voice THEN voiceDone[i] ELSE {}]
(* effect_release takes the effect back to INIT, an active one's enabled   *)
(* bit with it; the last effect takes the session along.                   *)
lib_release(id, io) ==
  LET s == effect_set_state(voice[io], id, "INIT")
      left == s.created \ {id}
      stay == IF left = {} THEN DOMAIN voice \ {io} ELSE DOMAIN voice
  IN /\ voice' = [i \in stay |-> IF i = io THEN [s EXCEPT !.created = left] ELSE voice[i]]
     /\ voiceDone' = [i \in stay |-> IF i = io /\ s.enabled # voice[io].enabled THEN {}
                                      ELSE voiceDone[i]]

(* fx_command. *)
VoiceSetConfig(id, io, rate) ==
  LET s == session_set_config(voice[io], rate)
  IN /\ VPut(io, IF Configured(voice[io], rate) /\ s.state[id] # "ACTIVE"
                 THEN effect_set_state(s, id, "CONFIG") ELSE s)
     /\ UNCHANGED voiceDone
VoiceEnable(id, io) ==
  /\ VPut(io, effect_set_state(voice[io], id, "ACTIVE"))
  /\ voiceDone' = IF voice'[io].enabled # voice[io].enabled
                  THEN [voiceDone EXCEPT ![io] = {}] ELSE voiceDone
VoiceDisable(id, io) ==
  /\ VPut(io, effect_set_state(voice[io], id, "CONFIG"))
  /\ voiceDone' = IF voice'[io].enabled # voice[io].enabled
                  THEN [voiceDone EXCEPT ![io] = {}] ELSE voiceDone

(* A buffer is done once every enabled effect has seen it; an effect that  *)
(* is not enabled may be given it as well.                                 *)
fx_process(id, io) ==
  LET seen == voice[io].processed \cup {id}
      done == voice[io].enabled \subseteq seen
  IN /\ VPut(io, [voice[io] EXCEPT !.processed = IF done THEN {} ELSE seen])
     /\ voiceDone' = [voiceDone EXCEPT ![io] = IF done THEN {} ELSE @ \cup {id}]

VoiceNext ==
  \/ \E id \in VoiceIds, io \in VoiceInputs : lib_create(id, io)
  \/ \E io \in DOMAIN voice : \E id \in voice[io].created :
       \/ lib_release(id, io) \/ VoiceEnable(id, io) \/ VoiceDisable(id, io)
       \/ fx_process(id, io) \/ \E rate \in VoiceRates : VoiceSetConfig(id, io, rate)
-------------------------------------------------------------------------------
(* The masks of a session are those of its effects, whatever is created,   *)
(* enabled, fed and released in between: a session lives while an effect   *)
(* of it does, an effect that is not created can be created, the enabled   *)
(* bits are those of the active effects, and the processed bits those that *)
(* have seen the present buffer and never all that must: no buffer waits   *)
(* for an effect that is gone, and none counts as seen that only an        *)
(* earlier one was.                                                        *)
MasksFollowEffects ==
  \A io \in DOMAIN voice :
    LET s == voice[io]
    IN /\ s.created # {}
       /\ \A id \in VoiceIds \ s.created : s.state[id] = "INIT"
       /\ s.enabled = {id \in s.created : s.state[id] = "ACTIVE"}
       /\ s.processed = voiceDone[io]
       /\ s.enabled \subseteq s.processed => s.processed = {}
===============================================================================
