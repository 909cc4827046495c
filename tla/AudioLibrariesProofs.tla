------------------------- MODULE AudioLibrariesProofs -------------------------
(***************************************************************************)
(* Theorems about the effect libraries, for any effects, streams and       *)
(* sessions, any levels and any sequence of calls.                         *)
(***************************************************************************)
EXTENDS AudioLibraries, TLAPS

(***************************************************************************)
(* Voice processing.  What the functions of the library keep of a session: *)
(* the enabled bits are the active effects', not all of them have seen the *)
(* buffer, and an effect that is not created can be.                       *)
(***************************************************************************)
VoiceStates == {"INIT", "CREATED", "CONFIG", "ACTIVE"}
VoiceSession ==
  [created : SUBSET VoiceIds, enabled : SUBSET VoiceIds, processed : SUBSET VoiceIds,
   rate : VoiceRates \cup {0, DefaultRate}, state : [VoiceIds -> VoiceStates]]
ActiveIds(s) == {id \in s.created : s.state[id] = "ACTIVE"}
SessionAgrees(s) ==
  /\ s.enabled = ActiveIds(s) /\ (s.enabled \subseteq s.processed => s.processed = {})
  /\ \A id \in VoiceIds \ s.created : s.state[id] = "INIT"

VoiceInv ==
  /\ DOMAIN voice \subseteq VoiceInputs
  /\ voice = [io \in DOMAIN voice |-> voice[io]]
  /\ DOMAIN voiceDone = DOMAIN voice
  /\ voiceDone = [io \in DOMAIN voice |-> voiceDone[io]]
  /\ \A io \in DOMAIN voice : voice[io] \in VoiceSession /\ SessionAgrees(voice[io])
  /\ MasksFollowEffects

(* effect_set_state keeps the session's masks right, and forgets who has   *)
(* seen the buffer exactly when the enabled bits change.                   *)
LEMMA EffectSetState ==
  ASSUME NEW s \in VoiceSession, SessionAgrees(s), NEW id \in s.created, NEW to \in VoiceStates,
         NEW n, n = effect_set_state(s, id, to)
  PROVE  /\ n \in VoiceSession /\ SessionAgrees(n)
         /\ n.created = s.created /\ (Allowed(s.state[id], to) => n.state[id] = to)
         /\ n.processed = IF n.enabled = s.enabled THEN s.processed ELSE {}
<1> id \in VoiceIds /\ s.state[id] \in VoiceStates
  BY DEF VoiceSession
<1>1. CASE ~Allowed(s.state[id], to)
  BY <1>1 DEF effect_set_state, SessionAgrees, ActiveIds
<1>2. CASE Allowed(s.state[id], to) /\ s.state[id] = "ACTIVE" /\ to # "ACTIVE"
  <2>1. n = [created |-> s.created, enabled |-> s.enabled \ {id}, processed |-> {},
             rate |-> s.rate, state |-> [s.state EXCEPT ![id] = to]]
    BY <1>2 DEF effect_set_state, session_set_fx_enabled, VoiceSession
  <2> QED
    BY <1>2, <2>1 DEF VoiceSession, SessionAgrees, ActiveIds
<1>3. CASE Allowed(s.state[id], to) /\ s.state[id] = "CONFIG" /\ to = "ACTIVE"
  <2>1. n = [created |-> s.created, enabled |-> s.enabled \cup {id}, processed |-> {},
             rate |-> s.rate, state |-> [s.state EXCEPT ![id] = to]]
    BY <1>3 DEF effect_set_state, session_set_fx_enabled, VoiceSession
  <2> QED
    BY <1>3, <2>1 DEF VoiceSession, SessionAgrees, ActiveIds
<1>4. CASE /\ Allowed(s.state[id], to) /\ ~(s.state[id] = "ACTIVE" /\ to # "ACTIVE")
           /\ ~(s.state[id] = "CONFIG" /\ to = "ACTIVE")
  <2>1. n = [created |-> s.created, enabled |-> s.enabled, processed |-> s.processed,
             rate |-> s.rate, state |-> [s.state EXCEPT ![id] = to]]
    BY <1>4 DEF effect_set_state, VoiceSession
  <2>2. s.state[id] = "ACTIVE" <=> to = "ACTIVE"
    BY <1>4 DEF Allowed
  <2> QED
    BY <2>1, <2>2 DEF VoiceSession, SessionAgrees, ActiveIds
<1> QED
  BY <1>1, <1>2, <1>3, <1>4

(* session_create_effect after get_session: a new session, or one without  *)
(* this effect.                                                            *)
LEMMA CreateEffect ==
  ASSUME NEW s \in VoiceSession, SessionAgrees(s), NEW id \in VoiceIds, id \notin s.created,
         s.created # {} \/ s = session_init, NEW n, n = session_create_effect(s, id)
  PROVE  /\ n \in VoiceSession /\ SessionAgrees(n)
         /\ n.created # {} /\ n.processed = s.processed
<1> DEFINE fresh == IF s.created = {}
                    THEN [s EXCEPT !.rate = DefaultRate, !.enabled = {}, !.processed = {}] ELSE s
<1>1. /\ fresh \in VoiceSession /\ SessionAgrees(fresh)
      /\ fresh.created = s.created /\ fresh.processed = s.processed /\ fresh.state = s.state
  BY DEF VoiceSession, SessionAgrees, ActiveIds
<1> HIDE DEF fresh
<1>2. n = IF fresh.state[id] = "INIT"
          THEN [effect_set_state(fresh, id, "CREATED") EXCEPT !.created = @ \cup {id}]
          ELSE fresh
  BY DEF session_create_effect, fresh
<1>3. CASE fresh.state[id] = "INIT"
  <2>1. n = [created |-> fresh.created \cup {id}, enabled |-> fresh.enabled,
             processed |-> fresh.processed, rate |-> fresh.rate,
             state |-> [fresh.state EXCEPT ![id] = "CREATED"]]
    BY <1>1, <1>2, <1>3 DEF effect_set_state, Allowed, VoiceSession
  <2> QED
    BY <1>1, <1>3, <2>1 DEF VoiceSession, VoiceStates, SessionAgrees, ActiveIds
<1>4. CASE fresh.state[id] # "INIT"
  <2>1. n = fresh
    BY <1>2, <1>4
  <2> QED
    BY <1>1, <1>4, <2>1 DEF session_init
<1> QED
  BY <1>3, <1>4

(* The library starts with no session and no buffer, so nothing can        *)
(* differ.                                                                 *)
LEMMA VoiceInitInv == VoiceInit => VoiceInv
<1> SUFFICES ASSUME VoiceInit PROVE VoiceInv
  OBVIOUS
<1>1. voice = [io \in {} |-> {}] /\ voiceDone = [io \in {} |-> {}]
  BY DEF VoiceInit
<1> QED
  BY <1>1 DEF VoiceInv, MasksFollowEffects

(* Replacing one session by another that is right, its buffer seen by      *)
(* those its processed bits name, keeps every session right.               *)
LEMMA PutSession ==
  ASSUME VoiceInv, NEW io \in VoiceInputs, NEW n \in VoiceSession, SessionAgrees(n),
         n.created # {}, VPut(io, n), DOMAIN voiceDone' = DOMAIN voice \cup {io},
         voiceDone' = [i \in DOMAIN voice \cup {io} |->
                         IF i = io THEN n.processed ELSE voiceDone[i]]
  PROVE  VoiceInv'
<1>1. /\ DOMAIN voice' = DOMAIN voice \cup {io} /\ voice'[io] = n
      /\ \A i \in DOMAIN voice : i # io => voice'[i] = voice[i]
  BY DEF VPut
<1>2. voice' = [i \in DOMAIN voice' |-> voice'[i]]
  BY <1>1 DEF VPut
<1>3. \A i \in DOMAIN voice' :
        /\ voice'[i] \in VoiceSession /\ SessionAgrees(voice'[i])
        /\ voice'[i].created # {} /\ voice'[i].processed = voiceDone'[i]
  BY <1>1 DEF VoiceInv, MasksFollowEffects
<1>4. MasksFollowEffects'
  BY <1>3 DEF MasksFollowEffects, SessionAgrees, ActiveIds
<1> QED
  BY <1>1, <1>2, <1>3, <1>4 DEF VoiceInv

(* No call of the library leaves a mask behind.                            *)
LEMMA VoiceStepInv == VoiceInv /\ VoiceNext => VoiceInv'
<1> SUFFICES ASSUME VoiceInv, VoiceNext PROVE VoiceInv'
  OBVIOUS
<1>0. \A io \in DOMAIN voice :
        /\ io \in VoiceInputs /\ voice[io] \in VoiceSession /\ SessionAgrees(voice[io])
        /\ voice[io].created # {} /\ voice[io].processed = voiceDone[io]
        /\ voice[io].created \subseteq VoiceIds
  BY DEF VoiceInv, MasksFollowEffects, VoiceSession
<1>1. ASSUME NEW id \in VoiceIds, NEW io \in VoiceInputs, lib_create(id, io) PROVE VoiceInv'
  <2> DEFINE s == IF io \in DOMAIN voice THEN voice[io] ELSE session_init
             n == session_create_effect(s, id)
  <2>1. session_init \in VoiceSession /\ SessionAgrees(session_init)
    BY DEF session_init, VoiceSession, VoiceStates, SessionAgrees, ActiveIds
  <2>2. /\ s \in VoiceSession /\ SessionAgrees(s)
        /\ s.created # {} \/ s = session_init
        /\ s.processed = IF io \in DOMAIN voice THEN voiceDone[io] ELSE {}
    BY <1>0, <2>1 DEF session_init
  <2>3. id \notin s.created /\ VPut(io, n)
    BY <1>1 DEF lib_create
  <2>4. /\ n \in VoiceSession /\ SessionAgrees(n)
        /\ n.created # {} /\ n.processed = s.processed
    <3>1. n = session_create_effect(s, id)
      OBVIOUS
    <3> HIDE DEF s, n
    <3> QED
      BY <2>2, <2>3, <3>1, CreateEffect
  <2>5. voiceDone' = [i \in DOMAIN voice \cup {io} |->
                        IF i = io THEN n.processed ELSE voiceDone[i]]
    <3>1. voiceDone' = [i \in DOMAIN voice \cup {io} |->
                          IF i \in DOMAIN voice THEN voiceDone[i] ELSE {}]
      BY <1>1 DEF lib_create
    <3> HIDE DEF s, n
    <3> QED
      BY <2>2, <2>4, <3>1
  <2> HIDE DEF s, n
  <2> QED
    BY <2>3, <2>4, <2>5, PutSession
<1>2. ASSUME NEW io \in DOMAIN voice, NEW id \in voice[io].created, lib_release(id, io)
      PROVE  VoiceInv'
  <2> DEFINE s == effect_set_state(voice[io], id, "INIT")
             left == s.created \ {id}
             n == [s EXCEPT !.created = left]
             stay == IF left = {} THEN DOMAIN voice \ {io} ELSE DOMAIN voice
             done == IF s.enabled # voice[io].enabled THEN {} ELSE voiceDone[io]
  <2>a. /\ s \in VoiceSession /\ SessionAgrees(s) /\ s.state[id] = "INIT"
        /\ s.processed = done
    <3>1. s = effect_set_state(voice[io], id, "INIT") /\ "INIT" \in VoiceStates
      BY DEF VoiceStates
    <3> HIDE DEF s
    <3> QED
      BY <1>0, <3>1, EffectSetState DEF Allowed
  <2>2. /\ voice' = [i \in stay |-> IF i = io THEN n ELSE voice[i]]
        /\ voiceDone' = [i \in stay |-> IF i = io THEN done ELSE voiceDone[i]]
    BY <1>2 DEF lib_release
  <2>3. stay \subseteq DOMAIN voice /\ (io \in stay => left # {})
    OBVIOUS
  <2> HIDE DEF s, done
  <2>1. n \in VoiceSession /\ SessionAgrees(n) /\ n.created = left /\ n.processed = done
    <3>1. n = [created |-> left, enabled |-> s.enabled, processed |-> s.processed,
               rate |-> s.rate, state |-> s.state]
      BY <2>a DEF VoiceSession
    <3> HIDE DEF n
    <3> QED
      BY <2>a, <3>1 DEF VoiceSession, SessionAgrees, ActiveIds
  <2> HIDE DEF stay, left, n
  <2>4. \A i \in stay :
          /\ i \in VoiceInputs /\ voice'[i] \in VoiceSession /\ SessionAgrees(voice'[i])
          /\ voice'[i].created # {} /\ voice'[i].processed = voiceDone'[i]
    BY <1>0, <2>1, <2>2, <2>3
  <2>5. DOMAIN voice' = stay /\ DOMAIN voiceDone' = stay
    BY <2>2
  <2>6. MasksFollowEffects'
    BY <2>4, <2>5 DEF MasksFollowEffects, SessionAgrees, ActiveIds
  <2>7. voice' = [i \in stay |-> voice'[i]] /\ voiceDone' = [i \in stay |-> voiceDone'[i]]
    BY <2>2
  <2> QED
    BY <2>4, <2>5, <2>6, <2>7 DEF VoiceInv
<1>3. ASSUME NEW io \in DOMAIN voice, NEW id \in voice[io].created, NEW to \in VoiceStates,
             VPut(io, effect_set_state(voice[io], id, to)),
             voiceDone' = IF voice'[io].enabled # voice[io].enabled
                          THEN [voiceDone EXCEPT ![io] = {}] ELSE voiceDone
      PROVE  VoiceInv'
  <2> DEFINE n == effect_set_state(voice[io], id, to)
  <2>1. /\ n \in VoiceSession /\ SessionAgrees(n) /\ n.created = voice[io].created
        /\ n.processed = IF n.enabled = voice[io].enabled THEN voice[io].processed ELSE {}
    <3>1. n = effect_set_state(voice[io], id, to)
      OBVIOUS
    <3> HIDE DEF n
    <3> QED
      BY <1>0, <3>1, EffectSetState
  <2>2. VPut(io, n) /\ voice'[io] = n
    BY <1>3 DEF VPut
  <2> HIDE DEF n
  <2>3. DOMAIN voice \cup {io} = DOMAIN voice
    OBVIOUS
  <2>4. voiceDone' = [i \in DOMAIN voice \cup {io} |->
                        IF i = io THEN n.processed ELSE voiceDone[i]]
    BY <1>0, <1>3, <2>1, <2>2, <2>3 DEF VoiceInv
  <2> QED
    BY <1>0, <2>1, <2>2, <2>4, PutSession
<1>4. ASSUME NEW io \in DOMAIN voice, NEW id \in voice[io].created, fx_process(id, io)
      PROVE  VoiceInv'
  <2> DEFINE seen == voice[io].processed \cup {id}
             done == voice[io].enabled \subseteq seen
             n == [voice[io] EXCEPT !.processed = IF done THEN {} ELSE seen]
  <2>1. /\ n \in VoiceSession /\ n.created = voice[io].created
        /\ n.enabled = voice[io].enabled /\ n.state = voice[io].state
        /\ n.processed = IF done THEN {} ELSE seen
    BY <1>0 DEF VoiceSession
  <2>3. SessionAgrees(n)
    BY <1>0, <2>1 DEF SessionAgrees, ActiveIds
  <2>4. /\ VPut(io, n)
        /\ voiceDone' = [voiceDone EXCEPT ![io] = IF done THEN {} ELSE @ \cup {id}]
    BY <1>4 DEF fx_process
  <2>5. voiceDone' = [i \in DOMAIN voice \cup {io} |->
                        IF i = io THEN n.processed ELSE voiceDone[i]]
    <3> HIDE DEF n, done
    <3>1. DOMAIN voice \cup {io} = DOMAIN voice
      OBVIOUS
    <3> QED
      BY <1>0, <2>1, <2>4, <3>1 DEF VoiceInv
  <2> HIDE DEF n, seen, done
  <2> QED
    BY <1>0, <2>1, <2>3, <2>4, <2>5, PutSession
<1>5. ASSUME NEW io \in DOMAIN voice, NEW id \in voice[io].created, NEW rate \in VoiceRates,
             VoiceSetConfig(id, io, rate)
      PROVE  VoiceInv'
  <2> DEFINE s == session_set_config(voice[io], rate)
             n == IF Configured(voice[io], rate) /\ s.state[id] # "ACTIVE"
                  THEN effect_set_state(s, id, "CONFIG") ELSE s
  <2>1. /\ s \in VoiceSession /\ SessionAgrees(s) /\ s.created = voice[io].created
        /\ s.processed = voice[io].processed /\ s.enabled = voice[io].enabled
    BY <1>0 DEF session_set_config, VoiceSession, SessionAgrees, ActiveIds
  <2> HIDE DEF s
  <2>2. /\ n \in VoiceSession /\ SessionAgrees(n) /\ n.created = s.created
        /\ n.processed = s.processed
    <3>1. CASE Configured(voice[io], rate) /\ s.state[id] # "ACTIVE"
      <4>1. n = effect_set_state(s, id, "CONFIG")
        BY <3>1
      <4>2. n.enabled = s.enabled
        BY <3>1, <4>1 DEF effect_set_state
      <4> HIDE DEF n
      <4> QED
        BY <2>1, <4>1, <4>2, EffectSetState DEF VoiceStates
    <3>2. CASE ~(Configured(voice[io], rate) /\ s.state[id] # "ACTIVE")
      BY <2>1, <3>2
    <3> QED
      BY <3>1, <3>2
  <2>3. VPut(io, n) /\ voiceDone' = voiceDone
    BY <1>5 DEF VoiceSetConfig, s
  <2> HIDE DEF n
  <2>4. voiceDone' = [i \in DOMAIN voice \cup {io} |->
                        IF i = io THEN n.processed ELSE voiceDone[i]]
    <3>1. DOMAIN voice \cup {io} = DOMAIN voice
      OBVIOUS
    <3> QED
      BY <1>0, <2>1, <2>2, <2>3, <3>1 DEF VoiceInv
  <2> QED
    BY <1>0, <2>1, <2>2, <2>3, <2>4, PutSession
<1> QED
  BY <1>1, <1>2, <1>3, <1>4, <1>5 DEF VoiceNext, VoiceEnable, VoiceDisable, VoiceStates

(* A session's masks are those of its effects, whatever a client creates,  *)
(* enables, feeds and releases (effect_set_state, session_set_fx_enabled,  *)
(* fx_process, lib_release): no buffer of a recording waits for an effect  *)
(* that is gone.                                                           *)
THEOREM VoiceMasks == Spec => []MasksFollowEffects
<1>1. Init => VoiceInv
  BY VoiceInitInv DEF Init
<1>2. VoiceInv /\ UNCHANGED voiceVars => VoiceInv'
  BY DEF VoiceInv, voiceVars, MasksFollowEffects
<1>3. VoiceInv /\ [Next]_vars => VoiceInv'
  BY <1>2, VoiceStepInv DEF Next, vars
<1>4. VoiceInv => MasksFollowEffects
  BY DEF VoiceInv
<1> QED
  BY <1>1, <1>3, <1>4, PTL DEF Spec
-------------------------------------------------------------------------------
(***************************************************************************)
(* The volume listener, whose check looks at the device mask as a whole: a *)
(* mask that has the loudspeaker is the loudspeaker.                       *)
(***************************************************************************)
OneDevice == \A d \in VolDevices : "speaker" \in d => d = Speaker

VolStream == [state : {"INITIALIZED", "ACTIVE"}, dev : VolDevices \cup {{}},
              vol : Volumes \cup {0}]
Loud(streams) ==
  {streams[s].vol : s \in {t \in DOMAIN streams :
     streams[t].state = "ACTIVE" /\ "speaker" \in streams[t].dev}}

(* What the listener asked for last is the level of the volume it noted;   *)
(* it has noted none until then.                                           *)
LevelNoted ==
  /\ current.level = NoLevel => current.vol = 0
  /\ current.level # NoLevel => GainLevel(current.vol) = current.level
VolInv ==
  /\ \A s \in DOMAIN vol : vol[s] \in VolStream
  /\ LevelNoted /\ GainFollowsVolume

(* The level depends on the volumes of the loudspeaker's active streams    *)
(* alone; without one it is that of volume 0.                              *)
LEMMA LoudestOfLoud ==
  /\ \A a, b : Loud(a) = Loud(b) => Loudest(a) = Loudest(b)
  /\ \A a : Loud(a) = {} => Loudest(a) = 0
<1>1. ASSUME NEW a, NEW b, Loud(a) = Loud(b) PROVE Loudest(a) = Loudest(b)
  BY <1>1 DEF Loud, Loudest
<1>2. ASSUME NEW a, Loud(a) = {} PROVE Loudest(a) = 0
  <2>1. Loudest(a) = Max({0})
    BY <1>2 DEF Loud, Loudest
  <2> QED
    BY <2>1 DEF Max
<1> QED
  BY <1>1, <1>2

(* check_and_set_gain_dep_cal, whatever the streams have become, leaves    *)
(* the level right; it starts from what was noted, or from nothing.        *)
LEMMA CheckSetsLevel ==
  ASSUME VolInv, NEW from, check_and_set_gain_dep_cal(vol', from),
         from = current \/ (from = [vol |-> 0, level |-> NoLevel] /\ Loud(vol') = {})
  PROVE  LevelNoted' /\ GainFollowsVolume'
<1> DEFINE v == Loudest(vol')
           level == GainLevel(v)
<1>1. CASE v = from.vol \/ level \in {NoLevel, from.level}
  <2>1. current' = from /\ hallevel'.level = hallevel.level
    BY <1>1 DEF check_and_set_gain_dep_cal
  <2>2. CASE from = current
    BY <1>1, <2>1, <2>2 DEF VolInv, LevelNoted, GainFollowsVolume
  <2>3. CASE from = [vol |-> 0, level |-> NoLevel] /\ Loud(vol') = {}
    BY <2>1, <2>3, LoudestOfLoud DEF LevelNoted, GainFollowsVolume
  <2> QED
    BY <2>2, <2>3
<1>2. CASE ~(v = from.vol \/ level \in {NoLevel, from.level})
  <2>1. \/ /\ current' = [vol |-> v, level |-> level]
           /\ hallevel' = [level |-> level, refused |-> FALSE]
        \/ /\ current' = from
           /\ hallevel' = [level |-> hallevel.level, refused |-> TRUE]
    BY <1>2, Zenon DEF check_and_set_gain_dep_cal
  <2>2. level # NoLevel
    BY <1>2
  <2>3. CASE /\ current' = [vol |-> v, level |-> level]
             /\ hallevel' = [level |-> level, refused |-> FALSE]
    BY <2>2, <2>3 DEF LevelNoted, GainFollowsVolume
  <2>4. CASE /\ current' = from
             /\ hallevel' = [level |-> hallevel.level, refused |-> TRUE]
    <3>1. hallevel'.refused /\ hallevel'.level = hallevel.level
      BY <2>4
    <3> QED
      BY <2>4, <3>1 DEF VolInv, LevelNoted, GainFollowsVolume
  <2> QED
    BY <2>1, <2>3, <2>4
<1> QED
  BY <1>1, <1>2

(* Nothing changes for the loudspeaker.                                    *)
LEMMA LevelStays ==
  ASSUME VolInv, Loud(vol') = Loud(vol), UNCHANGED <<current, hallevel>>
  PROVE  LevelNoted' /\ GainFollowsVolume'
  BY LoudestOfLoud DEF VolInv, LevelNoted, GainFollowsVolume

(* The listener starts with no stream and no level noted.                  *)
LEMMA VolInitInv == VolInit => VolInv
<1> SUFFICES ASSUME VolInit PROVE VolInv
  OBVIOUS
<1>1. DOMAIN vol = {} /\ current = [vol |-> 0, level |-> NoLevel]
  BY DEF VolInit
<1>2. Loudest(vol) = 0
  BY <1>1, LoudestOfLoud DEF Loud
<1> QED
  BY <1>1, <1>2 DEF VolInv, LevelNoted, GainFollowsVolume

(* A call about one stream: the level is worked out again, or the stream   *)
(* neither was nor is heard on the loudspeaker.                            *)
LEMMA UpdateStream ==
  ASSUME VolInv, NEW s \in DOMAIN vol, NEW streams, NEW n \in VolStream, NEW again \in BOOLEAN,
         streams = [vol EXCEPT ![s] = n], Update(streams, again),
         ~again => "speaker" \notin vol[s].dev /\ "speaker" \notin n.dev
  PROVE  VolInv'
<1>1. /\ vol' = streams /\ DOMAIN vol' = DOMAIN vol /\ vol'[s] = n
      /\ \A t \in DOMAIN vol : t # s => vol'[t] = vol[t]
  BY DEF Update
<1>2. \A t \in DOMAIN vol' : vol'[t] \in VolStream
  BY <1>1 DEF VolInv
<1>3. CASE again
  BY <1>1, <1>2, <1>3, CheckSetsLevel DEF Update, VolInv
<1>4. CASE ~again
  <2>1. Loud(vol') = Loud(vol)
    BY <1>1, <1>4 DEF Loud
  <2> QED
    BY <1>2, <1>4, <2>1, LevelStays DEF Update, VolInv
<1> QED
  BY <1>3, <1>4

(* Every entry point of the volume listener leaves the gain and the noted  *)
(* level as the loudest speaker stream asks.                               *)
LEMMA VolStepInv == OneDevice /\ VolInv /\ VolNext => VolInv'
<1> SUFFICES ASSUME OneDevice, VolInv, VolNext PROVE VolInv'
  OBVIOUS
<1>0. ASSUME NEW s \in DOMAIN vol
      PROVE  /\ vol[s] \in VolStream
             /\ ("speaker" \in vol[s].dev) => vol[s].dev = Speaker
  BY DEF VolInv, VolStream, OneDevice
<1>1. ASSUME NEW s \in VolStreams, vol_prc_lib_create(s) PROVE VolInv'
  <2>1. vol' = [t \in DOMAIN vol \cup {s} |->
                  IF t = s THEN [state |-> "INITIALIZED", dev |-> {}, vol |-> 0] ELSE vol[t]]
    BY <1>1 DEF vol_prc_lib_create
  <2>2. s \notin DOMAIN vol /\ UNCHANGED <<current, hallevel>>
    BY <1>1 DEF vol_prc_lib_create
  <2>3. \A t \in DOMAIN vol' : vol'[t] \in VolStream
    BY <1>0, <2>1 DEF VolStream
  <2>4. Loud(vol') = Loud(vol)
    BY <2>1, <2>2 DEF Loud
  <2> QED
    BY <2>2, <2>3, <2>4, LevelStays DEF VolInv
<1>2. ASSUME NEW s \in DOMAIN vol, vol_prc_lib_release(s) PROVE VolInv'
  <2> DEFINE rest == [t \in DOMAIN vol \ {s} |-> vol[t]]
             from == IF DOMAIN rest = {} THEN [vol |-> 0, level |-> NoLevel] ELSE current
  <2>1. vol' = rest
    BY <1>2 DEF vol_prc_lib_release
  <2>2. \A t \in DOMAIN vol' : vol'[t] \in VolStream
    BY <1>0, <2>1
  <2>3. from = current \/ (from = [vol |-> 0, level |-> NoLevel] /\ Loud(vol') = {})
    BY <2>1 DEF Loud
  <2>4. CASE vol[s].dev = Speaker
    <3>1. check_and_set_gain_dep_cal(vol', from)
      BY <1>2, <2>1, <2>4 DEF vol_prc_lib_release
    <3> HIDE DEF from
    <3> QED
      BY <2>2, <2>3, <3>1, CheckSetsLevel DEF VolInv
  <2>5. CASE vol[s].dev # Speaker
    <3>1. current' = from /\ UNCHANGED hallevel
      BY <1>2, <2>5 DEF vol_prc_lib_release
    <3>2. CASE from = current
      <4>1. Loud(vol') = Loud(vol)
        BY <1>0, <2>1, <2>5 DEF Loud
      <4> QED
        BY <2>2, <3>1, <3>2, <4>1, LevelStays DEF VolInv
    <3>3. CASE from = [vol |-> 0, level |-> NoLevel] /\ Loud(vol') = {}
      <4>1. current' = [vol |-> 0, level |-> NoLevel] /\ Loudest(vol') = 0
        BY <3>1, <3>3, LoudestOfLoud
      <4>2. LevelNoted' /\ GainFollowsVolume'
        BY <4>1 DEF LevelNoted, GainFollowsVolume
      <4> QED
        BY <2>2, <4>2 DEF VolInv
    <3> HIDE DEF from
    <3> QED
      BY <2>3, <3>2, <3>3
  <2> QED
    BY <2>4, <2>5
<1>3. ASSUME NEW s \in DOMAIN vol, VolEnable(s) \/ VolDisable(s) PROVE VolInv'
  <2>1. PICK to \in {"ACTIVE", "INITIALIZED"} :
          Update([vol EXCEPT ![s].state = to], vol[s].dev = Speaker)
    BY <1>3, Zenon DEF VolEnable, VolDisable
  <2> DEFINE n == [vol[s] EXCEPT !.state = to]
  <2>2. n \in VolStream /\ n.dev = vol[s].dev
    BY <1>0 DEF VolStream
  <2>3. [vol EXCEPT ![s].state = to] = [vol EXCEPT ![s] = n]
    OBVIOUS
  <2> HIDE DEF n
  <2> QED
    BY <1>0, <2>1, <2>2, <2>3, UpdateStream DEF Speaker
<1>4. ASSUME NEW s \in DOMAIN vol, NEW dev \in VolDevices, VolSetDevice(s, dev) PROVE VolInv'
  <2> DEFINE n == [vol[s] EXCEPT !.dev = dev]
  <2>1. Update([vol EXCEPT ![s].dev = dev], MovesLevel(vol[s].dev, dev))
    BY <1>4 DEF VolSetDevice
  <2>2. n \in VolStream /\ n.dev = dev
    BY <1>0 DEF VolStream
  <2>3. [vol EXCEPT ![s].dev = dev] = [vol EXCEPT ![s] = n]
    OBVIOUS
  <2>4. MovesLevel(vol[s].dev, dev) \in BOOLEAN
    BY DEF MovesLevel
  <2>5. ~MovesLevel(vol[s].dev, dev) => "speaker" \notin vol[s].dev /\ "speaker" \notin dev
    BY <1>0 DEF MovesLevel, OneDevice
  <2> HIDE DEF n
  <2> QED
    BY <2>1, <2>2, <2>3, <2>4, <2>5, UpdateStream
<1>5. ASSUME NEW s \in DOMAIN vol, NEW v \in Volumes, VolSetVolume(s, v) PROVE VolInv'
  <2> DEFINE n == [vol[s] EXCEPT !.vol = v]
  <2>1. Update([vol EXCEPT ![s].vol = v], vol[s].dev = Speaker)
    BY <1>5 DEF VolSetVolume
  <2>2. n \in VolStream /\ n.dev = vol[s].dev
    BY <1>0 DEF VolStream
  <2>3. [vol EXCEPT ![s].vol = v] = [vol EXCEPT ![s] = n]
    OBVIOUS
  <2> HIDE DEF n
  <2> QED
    BY <1>0, <2>1, <2>2, <2>3, UpdateStream DEF Speaker
<1> QED
  BY <1>1, <1>2, <1>3, <1>4, <1>5 DEF VolNext

(* While every stream is on one device, the calibration level is that of   *)
(* the loudest active stream on the loudspeaker after every call, unless   *)
(* the HAL refused it, and then after the next call it does not refuse     *)
(* (check_and_set_gain_dep_cal).                                           *)
THEOREM GainFollows == ASSUME OneDevice PROVE Spec => []GainFollowsVolume
<1>1. Init => VolInv
  BY VolInitInv DEF Init
<1>2. VolInv /\ UNCHANGED volVars => VolInv'
  BY DEF VolInv, volVars, LevelNoted, GainFollowsVolume
<1>3. VolInv /\ [Next]_vars => VolInv'
  BY <1>2, VolStepInv DEF Next, vars
<1>4. VolInv => GainFollowsVolume
  BY DEF VolInv
<1> QED
  BY <1>1, <1>3, <1>4, PTL DEF Spec
-------------------------------------------------------------------------------
(***************************************************************************)
(* The visualizer.  Back(i, k) is where the sample k before the newest is  *)
(* when the next one goes to index i.                                      *)
(***************************************************************************)
Back(i, k) == IF i - 1 - k >= 0 THEN i - 1 - k ELSE i - 1 - k + CaptureBuf
VisEffect ==
  [state : {"INITIALIZED", "ACTIVE"}, out : VisOutputs, offload : BOOLEAN,
   idx : 0 .. CaptureBuf, last : 0 .. CaptureBuf, stamped : BOOLEAN,
   age : [0 .. CaptureBuf - 1 -> 0 .. CaptureBuf], filled : 0 .. CaptureBuf]
Latest(e) == \A k \in 0 .. CaptureBuf - 1 : k < e.filled => e.age[Back(e.idx, k)] = k

(* An index that runs over the end of the buffer at most once, and what    *)
(* visualizer_process makes of it.                                         *)
AtMostOnce == 0 .. 2 * CaptureBuf - 1
Wrapped(a) == IF a < CaptureBuf THEN a ELSE a - CaptureBuf

(* The remainder is what one subtraction gives.                            *)
LEMMA Wraps == ASSUME NEW a \in AtMostOnce PROVE a % CaptureBuf = Wrapped(a)
<1>1. CaptureBuf \in Nat /\ CaptureBuf > 0
  BY OffloadVisualizerAssumption
<1> QED
  BY <1>1 DEF AtMostOnce, Wrapped

(* A capture command returns the last samples, in order, or silence where  *)
(* the effect has stalled.                                                 *)
LEMMA CaptureCommand ==
  ASSUME NEW e \in VisEffect, Latest(e), NEW size \in 1 .. CaptureBuf, size <= e.filled,
         NEW late \in BOOLEAN, NEW i \in 0 .. size - 1, Captures(e)
  PROVE  LET reply == visualizer_command(e, size, late)
         IN IF late /\ reply[i] = Silence THEN e.last = e.idx ELSE reply[i] = size - 1 - i
<1>1. /\ CaptureBuf \in Nat /\ CaptureBuf > 0
      /\ e.idx \in 0 .. CaptureBuf /\ e.filled \in 0 .. CaptureBuf
  BY OffloadVisualizerAssumption DEF VisEffect
<1> DEFINE point == e.idx - size
           first == IF point < 0 THEN (IF -point > size THEN size ELSE -point) ELSE 0
           from == IF point < 0 THEN 0 ELSE point
           sample == IF i < first THEN e.age[CaptureBuf + point + i] ELSE e.age[from + i - first]
           reply == visualizer_command(e, size, late)
<1>2. sample = size - 1 - i
  <2>1. /\ size - 1 - i \in 0 .. CaptureBuf - 1 /\ size - 1 - i < e.filled
        /\ Back(e.idx, size - 1 - i) = IF i < first THEN CaptureBuf + point + i ELSE from + i - first
    BY <1>1 DEF Back
  <2>2. e.age[Back(e.idx, size - 1 - i)] = size - 1 - i
    BY <2>1 DEF Latest
  <2> QED
    BY <2>1, <2>2
<1>3. reply[i] = IF ~(i < first) /\ Stalled(e, late) THEN Silence ELSE sample
  BY DEF visualizer_command, Copied
<1>4. size - 1 - i # Silence
  BY <1>1 DEF Silence
<1> QED
  BY <1>2, <1>3, <1>4 DEF Stalled

(* visualizer_process keeps the samples in order: the period read goes     *)
(* where the oldest were, and the rest is older by as much.                *)
LEMMA ProcessedLatest ==
  ASSUME NEW e \in VisEffect, Latest(e)
  PROVE  visualizer_process(e) \in VisEffect /\ Latest(visualizer_process(e))
<1> DEFINE stored == [n \in 0 .. CapturePeriod - 1 |-> (e.idx + n) % CaptureBuf]
           Newest(i) == CHOOSE n \in DOMAIN stored : stored[n] = i
           age == [i \in DOMAIN e.age |->
                     IF \E n \in DOMAIN stored : stored[n] = i
                     THEN CapturePeriod - 1 - Newest(i) ELSE Older(e.age[i])]
           idx == ((e.idx + CapturePeriod - 1) % CaptureBuf) + 1
           filled == Older(e.filled)
<1>0. /\ CaptureBuf \in Nat /\ CaptureBuf > 0 /\ CapturePeriod \in 1 .. CaptureBuf
      /\ e.idx \in 0 .. CaptureBuf
  BY OffloadVisualizerAssumption DEF VisEffect
<1>1. /\ CaptureBuf \in Nat /\ CaptureBuf > 0 /\ CapturePeriod \in 1 .. CaptureBuf
      /\ e.idx \in 0 .. CaptureBuf /\ e.filled \in 0 .. CaptureBuf
      /\ e.age \in [0 .. CaptureBuf - 1 -> 0 .. CaptureBuf] /\ DOMAIN e.age = 0 .. CaptureBuf - 1
  BY OffloadVisualizerAssumption DEF VisEffect
<1>2. visualizer_process(e) =
        [e EXCEPT !.age = age, !.filled = filled, !.stamped = TRUE, !.idx = idx]
  BY DEF visualizer_process, Fed, VisEffect
<1>3. \A n \in 0 .. CapturePeriod - 1 :
        stored[n] = Wrapped(e.idx + n)
  <2> TAKE n \in 0 .. CapturePeriod - 1
  <2> DEFINE a == e.idx + n
  <2>1. a \in AtMostOnce /\ stored[n] = a % CaptureBuf
    BY <1>1 DEF AtMostOnce
  <2> HIDE DEF a
  <2>2. stored[n] = Wrapped(a)
    BY <2>1, Wraps
  <2> QED
    BY <2>2 DEF a
<1>4. idx = IF e.idx + CapturePeriod - 1 < CaptureBuf THEN e.idx + CapturePeriod
            ELSE e.idx + CapturePeriod - CaptureBuf
  <2> DEFINE a == e.idx + CapturePeriod - 1
  <2>1. a \in AtMostOnce /\ idx = (a % CaptureBuf) + 1
    BY <1>1 DEF AtMostOnce
  <2> HIDE DEF a, idx
  <2>2. idx = Wrapped(a) + 1
    BY <2>1, Wraps
  <2> QED
    BY <1>1, <2>2 DEF a, Wrapped
<1>5. DOMAIN stored = 0 .. CapturePeriod - 1
  OBVIOUS
<1> HIDE DEF stored, Newest, age, idx, filled
<1>6. ASSUME NEW n \in 0 .. CapturePeriod - 1 PROVE Newest(stored[n]) = n
  <2>1. ASSUME NEW m \in 0 .. CapturePeriod - 1, stored[m] = stored[n] PROVE m = n
    <3>1. Wrapped(e.idx + m) = Wrapped(e.idx + n)
      BY <1>3, <2>1
    <3> QED
      BY <1>1, <3>1 DEF Wrapped
  <2> QED
    BY <1>5, <2>1 DEF Newest
<1>7. ASSUME NEW i \in 0 .. CaptureBuf - 1, NEW n \in DOMAIN stored, stored[n] = i
      PROVE  age[i] = CapturePeriod - 1 - n
  BY <1>1, <1>5, <1>6, <1>7 DEF age
<1>8. ASSUME NEW i \in 0 .. CaptureBuf - 1, \A n \in DOMAIN stored : stored[n] # i
      PROVE  age[i] = Older(e.age[i])
  BY <1>1, <1>8 DEF age
<1>9. age \in [0 .. CaptureBuf - 1 -> 0 .. CaptureBuf]
  <2>1. ASSUME NEW i \in 0 .. CaptureBuf - 1 PROVE age[i] \in 0 .. CaptureBuf
    <3>1. CASE \E n \in DOMAIN stored : stored[n] = i
      <4>1. PICK n \in 0 .. CapturePeriod - 1 : stored[n] = i
        BY <1>5, <3>1
      <4>2. age[i] = CapturePeriod - 1 - n
        BY <1>5, <1>7, <4>1
      <4> QED
        BY <1>1, <4>2
    <3>2. CASE \A n \in DOMAIN stored : stored[n] # i
      BY <1>1, <1>8, <3>2 DEF Older
    <3> QED
      BY <3>1, <3>2
  <2> QED
    BY <1>1, <2>1 DEF age
<1>10. filled \in 0 .. CaptureBuf /\ idx \in 0 .. CaptureBuf
  BY <1>1, <1>4 DEF Older, filled
<1>11. /\ visualizer_process(e) \in VisEffect
       /\ visualizer_process(e).age = age /\ visualizer_process(e).idx = idx
       /\ visualizer_process(e).filled = filled
  BY <1>2, <1>9, <1>10 DEF VisEffect
<1>12. ASSUME NEW k \in 0 .. CaptureBuf - 1, k < filled PROVE age[Back(idx, k)] = k
  <2>a. k \in Int /\ 0 <= k /\ k < CaptureBuf
    BY <1>1
  <2>0. Back(idx, k) \in 0 .. CaptureBuf - 1
    BY <1>1, <1>10 DEF Back
  <2>1. CASE k < CapturePeriod
    <3>0. CapturePeriod - 1 - k \in 0 .. CapturePeriod - 1
      BY <1>1, <2>a, <2>1
    <3>a. stored[CapturePeriod - 1 - k] = Wrapped(e.idx + (CapturePeriod - 1 - k))
      BY <1>3, <3>0
    <3>1. CapturePeriod - 1 - k \in DOMAIN stored /\ stored[CapturePeriod - 1 - k] = Back(idx, k)
      <4>1. Wrapped(e.idx + (CapturePeriod - 1 - k)) = Back(idx, k)
        BY <1>0, <1>4, <1>10, <2>a, <2>1 DEF Back, Wrapped
      <4> QED
        BY <1>5, <3>0, <3>a, <4>1
    <3>2. age[Back(idx, k)] = CapturePeriod - 1 - (CapturePeriod - 1 - k)
      BY <1>7, <2>0, <3>1
    <3> QED
      BY <1>1, <3>2
  <2>2. CASE k >= CapturePeriod
    <3>1. k - CapturePeriod \in 0 .. CaptureBuf - 1 /\ k - CapturePeriod < e.filled
      BY <1>1, <1>12, <2>2 DEF filled, Older
    <3>2. Back(idx, k) = Back(e.idx, k - CapturePeriod)
      <4>1. CASE e.idx + CapturePeriod - 1 < CaptureBuf
        <5>1. idx = e.idx + CapturePeriod
          BY <1>4, <4>1
        <5> QED
          BY <1>0, <2>a, <2>2, <4>1, <5>1 DEF Back
      <4>2. CASE e.idx + CapturePeriod - 1 >= CaptureBuf
        <5>1. idx = e.idx + CapturePeriod - CaptureBuf
          BY <1>1, <1>4, <4>2
        <5> QED
          BY <1>0, <2>a, <2>2, <4>2, <5>1 DEF Back
      <4> QED
        BY <1>1, <4>1, <4>2
    <3>3. \A n \in DOMAIN stored : stored[n] # Back(idx, k)
      <4> SUFFICES ASSUME NEW n \in 0 .. CapturePeriod - 1, stored[n] = Back(idx, k) PROVE FALSE
        BY <1>5
      <4>1. Wrapped(e.idx + n) = Back(idx, k)
        BY <1>3
      <4> QED
        BY <1>0, <1>4, <1>10, <2>a, <2>2, <4>1 DEF Back, Wrapped
    <3>4. age[Back(idx, k)] = Older(e.age[Back(idx, k)])
      BY <1>8, <2>0, <3>3
    <3>5. e.age[Back(idx, k)] = k - CapturePeriod
      BY <3>1, <3>2 DEF Latest
    <3> QED
      BY <1>1, <3>4, <3>5 DEF Older
  <2> QED
    BY <1>1, <2>1, <2>2
<1> QED
  BY <1>11, <1>12 DEF Latest

(* A reset effect has no samples to be in order.                           *)
LEMMA ResetLatest ==
  ASSUME NEW state \in {"INITIALIZED", "ACTIVE"}, NEW output \in VisOutputs,
         NEW on \in BOOLEAN, NEW x, NEW l, NEW t, NEW a, NEW f, NEW e,
         e = [state |-> state, out |-> output, offload |-> on, idx |-> x, last |-> l,
              stamped |-> t, age |-> a, filled |-> f]
  PROVE  /\ visualizer_reset(e) \in VisEffect /\ Latest(visualizer_reset(e))
         /\ visualizer_reset(e).out = output
<1> DEFINE age == [i \in 0 .. CaptureBuf - 1 |-> CaptureBuf]
<1>1. CaptureBuf \in Nat
  BY OffloadVisualizerAssumption
<1>2. age \in [0 .. CaptureBuf - 1 -> 0 .. CaptureBuf]
  BY <1>1
<1>3. visualizer_reset(e) = [state |-> state, out |-> output, offload |-> on, idx |-> 0,
                             last |-> 0, stamped |-> FALSE, age |-> age, filled |-> 0]
  <2> HIDE DEF age
  <2>1. visualizer_reset(e) =
          [e EXCEPT !.idx = 0, !.last = 0, !.stamped = FALSE, !.age = age, !.filled = 0]
    BY DEF visualizer_reset, age
  <2> QED
    BY <2>1
<1> HIDE DEF age
<1> DEFINE n == [state |-> state, out |-> output, offload |-> on, idx |-> 0,
                 last |-> 0, stamped |-> FALSE, age |-> age, filled |-> 0]
<1>4. n \in VisEffect /\ n.filled = 0 /\ n.out = output
  BY <1>1, <1>2 DEF VisEffect
<1>5. visualizer_reset(e) = n
  BY <1>3
<1> HIDE DEF n
<1>6. Latest(n)
  BY <1>4 DEF Latest
<1> QED
  BY <1>4, <1>5, <1>6

(* The effects, each attached where it belongs, and the thread's life:     *)
(* there is none without thread_status, and one that has ended or has only *)
(* just begun does not capture.                                            *)
VisThreads == {"none", "begin", "wait", "woken", "read", "spin", "ended"}
ThreadInv ==
  /\ vthread \in VisThreads /\ capturing \in BOOLEAN
  /\ vctl \in [exit : BOOLEAN, status : {-1, 0}]
  /\ ~orphan
  /\ vctl.status = -1 => vthread = "none"
  /\ hal = VisNone /\ DOMAIN vouts = {} => vctl.status = -1
  /\ capturing => vthread \in Running \ {"begin"}
EffectsInv ==
  /\ vfx = [v \in DOMAIN vfx |-> vfx[v]]
  /\ \A v \in DOMAIN vfx : vfx[v] \in VisEffect /\ Latest(vfx[v])
  /\ DOMAIN vouts \subseteq VisOutputs /\ vouts = [o \in DOMAIN vouts |-> vouts[o]]
  /\ \A o \in DOMAIN vouts : vouts[o] = {v \in DOMAIN vfx : vfx[v].out = o}
VisInv == ThreadInv /\ EffectsInv

(* At first there are no effects and there is no thread.                   *)
LEMMA VisInitInv == VisInit => VisInv
<1> SUFFICES ASSUME VisInit PROVE VisInv
  OBVIOUS
<1>1. ThreadInv
  BY DEF VisInit, ThreadInv, VisThreads
<1>2. vfx = [v \in {} |-> {}] /\ vouts = [o \in {} |-> {}]
  BY DEF VisInit
<1>3. EffectsInv
  BY <1>2 DEF EffectsInv
<1> QED
  BY <1>1, <1>3 DEF VisInv

(* A thread is made over none and joined before the next one, and has      *)
(* closed its device by then.                                              *)
LEMMA ThreadStepInv == VisInv /\ VisNext => ThreadInv'
<1> SUFFICES ASSUME VisInv, VisNext PROVE ThreadInv'
  OBVIOUS
<1> USE DEF ThreadInv, VisThreads, Running
<1>1. ASSUME NEW effects, capture_thread_loop(effects), vthread # "none" PROVE ThreadInv'
  BY <1>1 DEF VisInv, capture_thread_loop
<1>2. CASE ThreadBegin
  BY <1>1, <1>2 DEF VisInv, ThreadBegin
<1>3. CASE ThreadWoken
  BY <1>1, <1>3 DEF VisInv, ThreadWoken
<1>4. CASE ThreadSpin
  BY <1>4 DEF VisInv, ThreadSpin
<1>5. CASE ThreadRead
  BY <1>1, <1>5 DEF VisInv, ThreadRead
<1>6. CASE Joined
  BY <1>6 DEF VisInv, Joined
<1>7. ASSUME NEW o \in VisOutputs, visualizer_hal_start_output(o) PROVE ThreadInv'
  <2>1. hal = VisNone /\ hal' = hal /\ capturing' = capturing /\ o \in DOMAIN vouts'
    BY <1>7 DEF visualizer_hal_start_output, VWith
  <2>2. CASE DOMAIN vouts = {}
    <3>1. vctl.status = -1 /\ vthread = "none"
      BY <2>1, <2>2 DEF VisInv
    <3>2. /\ orphan' = (orphan \/ vctl.status = 0)
          /\ \/ vctl' = [exit |-> FALSE, status |-> 0] /\ vthread' = "begin"
             \/ vctl' = [exit |-> FALSE, status |-> -1] /\ vthread' = vthread
      BY <1>7, <2>2 DEF visualizer_hal_start_output
    <3>3. ~orphan'
      BY <3>1, <3>2 DEF VisInv
    <3>4. \/ vctl'.status = 0 /\ vctl'.exit = FALSE /\ vthread' = "begin"
          \/ vctl'.status = -1 /\ vctl'.exit = FALSE /\ vthread' = "none"
      BY <3>1, <3>2
    <3>5. vctl' \in [exit : BOOLEAN, status : {-1, 0}]
      <4>1. \A n \in {-1, 0} : [exit |-> FALSE, status |-> n] \in [exit : BOOLEAN, status : {-1, 0}]
        OBVIOUS
      <4>2. \E n \in {-1, 0} : vctl' = [exit |-> FALSE, status |-> n]
        BY <3>2
      <4> QED
        BY <4>1, <4>2
    <3>6. ~capturing' /\ capturing' \in BOOLEAN
      BY <2>1, <3>1 DEF VisInv
    <3> QED
      BY <2>1, <3>3, <3>4, <3>5, <3>6
  <2>3. CASE DOMAIN vouts # {}
    <3>1. vthread' = Signalled(vthread) /\ vctl' = vctl /\ orphan' = orphan
      BY <1>7, <2>3 DEF visualizer_hal_start_output
    <3> QED
      BY <2>1, <3>1 DEF VisInv, Signalled
  <2> QED
    BY <2>2, <2>3
<1>8. ASSUME NEW o \in VisOutputs, visualizer_hal_stop_output(o) PROVE ThreadInv'
  BY <1>8, OffloadVisualizerAssumption DEF VisInv, visualizer_hal_stop_output, StopSection, Signalled, VWithout
<1>9. ASSUME NEW v \in VisEffects, NEW o \in VisOutputs, vis_effect_lib_create(v, o) PROVE ThreadInv'
  BY <1>9 DEF VisInv, vis_effect_lib_create, Attach
<1>10. ASSUME NEW v \in DOMAIN vfx, vis_effect_lib_release(v) PROVE ThreadInv'
  BY <1>10 DEF VisInv, vis_effect_lib_release, Detach
<1>11. ASSUME NEW v \in DOMAIN vfx, VisEnable(v) \/ VisDisable(v) PROVE ThreadInv'
  BY <1>11 DEF VisInv, VisEnable, VisDisable, SetState, Signalled
<1>12. ASSUME NEW v \in DOMAIN vfx, VisReset(v) PROVE ThreadInv'
  BY <1>12 DEF VisInv, VisReset
<1>13. ASSUME NEW v \in DOMAIN vfx, NEW on \in BOOLEAN, NEW o \in VisOutputs,
              VisOffload(v, on, o)
       PROVE  ThreadInv'
  BY <1>13 DEF VisInv, VisOffload, Attach, Detach
<1>14. ASSUME NEW v \in DOMAIN vfx, NEW late \in BOOLEAN, VisCapture(v, late) PROVE ThreadInv'
  BY <1>14 DEF VisInv, VisCapture
<1> QED
  BY <1>2, <1>3, <1>4, <1>5, <1>6, <1>7, <1>8, <1>9, <1>10, <1>11, <1>12, <1>13, <1>14
     DEF VisNext, ThreadStep

(* One effect replaced by another with the same output (SetState, a reset).*)
LEMMA EffectReplaced ==
  ASSUME VisInv, NEW v \in DOMAIN vfx, NEW n \in VisEffect, Latest(n), n.out = vfx[v].out,
         vfx' = [vfx EXCEPT ![v] = n], vouts' = vouts
  PROVE  EffectsInv'
<1>1. DOMAIN vfx' = DOMAIN vfx /\ vfx' = [u \in DOMAIN vfx' |-> vfx'[u]]
      /\ \A u \in DOMAIN vfx : vfx'[u] = IF u = v THEN n ELSE vfx[u]
  BY DEF VisInv, EffectsInv
<1>2. \A u \in DOMAIN vfx' : vfx'[u] \in VisEffect /\ Latest(vfx'[u])
  BY <1>1 DEF VisInv, EffectsInv
<1>3. \A u \in DOMAIN vfx : vfx'[u].out = vfx[u].out
  BY <1>1
<1>4. \A o \in DOMAIN vouts' : vouts'[o] = {u \in DOMAIN vfx' : vfx'[u].out = o}
  BY <1>1, <1>3 DEF VisInv, EffectsInv
<1> QED
  BY <1>1, <1>2, <1>4 DEF VisInv, EffectsInv

(* Whatever is called and read, an effect's samples are in order, and the  *)
(* outputs hold their effects.                                             *)
LEMMA EffectsStepInv == VisInv /\ VisNext => EffectsInv'
<1> SUFFICES ASSUME VisInv, VisNext PROVE EffectsInv'
  OBVIOUS
<1>0. ASSUME UNCHANGED <<vfx, vouts>> PROVE EffectsInv'
  BY <1>0 DEF VisInv, EffectsInv
<1>1. CASE ThreadBegin \/ ThreadWoken \/ ThreadSpin \/ Joined
  BY <1>0, <1>1 DEF ThreadBegin, ThreadWoken, ThreadSpin, Joined, capture_thread_loop
<1>2. CASE ThreadRead
  <2>1. CASE capture_thread_loop(vfx)
    BY <1>0, <2>1 DEF capture_thread_loop
  <2>2. CASE capture_thread_loop(Processed)
    <3>1. vouts' = vouts /\ vfx' = Processed
      BY <2>2 DEF capture_thread_loop
    <3>2. DOMAIN vfx' = DOMAIN vfx /\ vfx' = [v \in DOMAIN vfx' |-> vfx'[v]]
      BY <3>1 DEF Processed
    <3>3. ASSUME NEW v \in DOMAIN vfx
          PROVE  vfx'[v] \in VisEffect /\ Latest(vfx'[v]) /\ vfx'[v].out = vfx[v].out
      <4>1. vfx[v] \in VisEffect /\ Latest(vfx[v])
        BY DEF VisInv, EffectsInv
      <4>2. visualizer_process(vfx[v]).out = vfx[v].out
        BY <4>1 DEF visualizer_process, Fed, VisEffect
      <4>3. vfx'[v] = visualizer_process(vfx[v]) \/ vfx'[v] = vfx[v]
        BY <3>1 DEF Processed
      <4> QED
        BY <4>1, <4>2, <4>3, ProcessedLatest
    <3> QED
      BY <3>1, <3>2, <3>3 DEF VisInv, EffectsInv
  <2> QED
    BY <1>2, <2>1, <2>2 DEF ThreadRead
<1>3. ASSUME NEW o \in VisOutputs, visualizer_hal_start_output(o) PROVE EffectsInv'
  <2>1. vfx' = vfx /\ vouts' = VWith(vouts, o, {v \in DOMAIN vfx : vfx[v].out = o})
    BY <1>3 DEF visualizer_hal_start_output
  <2> QED
    BY <2>1 DEF VisInv, EffectsInv, VWith
<1>4. ASSUME NEW o \in VisOutputs, visualizer_hal_stop_output(o) PROVE EffectsInv'
  <2>1. vfx' = vfx /\ vouts' = VWithout(vouts, o)
    BY <1>4 DEF visualizer_hal_stop_output, StopSection
  <2> QED
    BY <2>1 DEF VisInv, EffectsInv, VWithout
<1>5. ASSUME NEW v \in VisEffects, NEW o \in VisOutputs, vis_effect_lib_create(v, o) PROVE EffectsInv'
  <2> DEFINE n == visualizer_init(o)
  <2>1. n \in VisEffect /\ Latest(n) /\ n.out = o
    <3> DEFINE e == [state |-> "INITIALIZED", out |-> o, offload |-> FALSE, idx |-> 0,
                     last |-> 0, stamped |-> FALSE, age |-> << >>, filled |-> 0]
    <3>1. /\ e = [state |-> e.state, out |-> e.out, offload |-> e.offload, idx |-> e.idx,
                  last |-> e.last, stamped |-> e.stamped, age |-> e.age, filled |-> e.filled]
          /\ e.state = "INITIALIZED" /\ e.out = o /\ e.offload \in BOOLEAN
      OBVIOUS
    <3>2. n = visualizer_reset(e)
      BY DEF visualizer_init
    <3> HIDE DEF e, n
    <3>3. /\ visualizer_reset(e) \in VisEffect /\ Latest(visualizer_reset(e))
          /\ visualizer_reset(e).out = o
      BY <3>1, ResetLatest
    <3> QED
      BY <3>2, <3>3
  <2> HIDE DEF n
  <2>2. v \notin DOMAIN vfx /\ vfx' = VWith(vfx, v, n) /\ vouts' = Attach(vouts, o, v)
    BY <1>5 DEF vis_effect_lib_create, n
  <2>3. /\ DOMAIN vfx' = DOMAIN vfx \cup {v} /\ vfx' = [u \in DOMAIN vfx' |-> vfx'[u]]
        /\ vfx'[v] = n /\ \A u \in DOMAIN vfx : vfx'[u] = vfx[u]
    BY <2>2 DEF VWith
  <2>4. /\ DOMAIN vouts' = DOMAIN vouts /\ vouts' = [p \in DOMAIN vouts' |-> vouts'[p]]
        /\ \A p \in DOMAIN vouts : vouts'[p] = IF p = o THEN vouts[p] \cup {v} ELSE vouts[p]
    BY <2>2 DEF Attach, VisInv, EffectsInv
  <2>5. \A p \in DOMAIN vouts' : vouts'[p] = {u \in DOMAIN vfx' : vfx'[u].out = p}
    BY <2>1, <2>2, <2>3, <2>4 DEF VisInv, EffectsInv
  <2> QED
    BY <2>1, <2>2, <2>3, <2>4, <2>5 DEF VisInv, EffectsInv
<1>6. ASSUME NEW v \in DOMAIN vfx, vis_effect_lib_release(v) PROVE EffectsInv'
  <2>1. vfx' = VWithout(vfx, v) /\ vouts' = Detach(vouts, vfx[v].out, v)
    BY <1>6 DEF vis_effect_lib_release
  <2>2. /\ DOMAIN vfx' = DOMAIN vfx \ {v} /\ vfx' = [u \in DOMAIN vfx' |-> vfx'[u]]
        /\ \A u \in DOMAIN vfx' : vfx'[u] = vfx[u]
    BY <2>1 DEF VWithout
  <2>3. /\ DOMAIN vouts' = DOMAIN vouts /\ vouts' = [p \in DOMAIN vouts' |-> vouts'[p]]
        /\ \A p \in DOMAIN vouts :
             vouts'[p] = IF p = vfx[v].out THEN vouts[p] \ {v} ELSE vouts[p]
    BY <2>1 DEF Detach, VisInv, EffectsInv
  <2>4. \A p \in DOMAIN vouts' : vouts'[p] = {u \in DOMAIN vfx' : vfx'[u].out = p}
    BY <2>2, <2>3 DEF VisInv, EffectsInv
  <2> QED
    BY <2>2, <2>3, <2>4 DEF VisInv, EffectsInv
<1>7. ASSUME NEW v \in DOMAIN vfx, VisEnable(v) \/ VisDisable(v) PROVE EffectsInv'
  <2>1. PICK to \in {"INITIALIZED", "ACTIVE"} :
          vouts' = vouts /\ vfx' = [vfx EXCEPT ![v] = [vfx[v] EXCEPT !.state = to]]
    BY <1>7 DEF VisEnable, VisDisable, SetState
  <2>2. vfx[v] \in VisEffect /\ Latest(vfx[v])
    BY DEF VisInv, EffectsInv
  <2> DEFINE n == [vfx[v] EXCEPT !.state = to]
  <2>3. /\ n \in VisEffect /\ n.out = vfx[v].out
        /\ n.idx = vfx[v].idx /\ n.age = vfx[v].age /\ n.filled = vfx[v].filled
    BY <2>2 DEF VisEffect
  <2>4. vfx' = [vfx EXCEPT ![v] = n]
    BY <2>1
  <2> HIDE DEF n
  <2>5. Latest(n)
    BY <2>2, <2>3 DEF Latest
  <2> QED
    BY <2>1, <2>3, <2>4, <2>5, EffectReplaced
<1>8. ASSUME NEW v \in DOMAIN vfx, VisReset(v) PROVE EffectsInv'
  <2> DEFINE n == visualizer_reset(vfx[v])
  <2>1. vouts' = vouts /\ vfx' = [vfx EXCEPT ![v] = n]
    BY <1>8 DEF VisReset
  <2>2. n \in VisEffect /\ Latest(n) /\ n.out = vfx[v].out
    <3> DEFINE e == vfx[v]
    <3>1. /\ e = [state |-> e.state, out |-> e.out, offload |-> e.offload, idx |-> e.idx,
                  last |-> e.last, stamped |-> e.stamped, age |-> e.age, filled |-> e.filled]
          /\ e.state \in {"INITIALIZED", "ACTIVE"} /\ e.out \in VisOutputs
          /\ e.offload \in BOOLEAN
      BY DEF VisInv, EffectsInv, VisEffect
    <3> QED
      BY <3>1, ResetLatest
  <2> HIDE DEF n
  <2> QED
    BY <2>1, <2>2, EffectReplaced
<1>9. ASSUME NEW v \in DOMAIN vfx, NEW on \in BOOLEAN, NEW o \in VisOutputs,
             VisOffload(v, on, o)
      PROVE  EffectsInv'
  <2>1. /\ vfx' = [vfx EXCEPT ![v] = [vfx[v] EXCEPT !.offload = on, !.out = o]]
        /\ vouts' = IF o = vfx[v].out THEN vouts ELSE Attach(Detach(vouts, vfx[v].out, v), o, v)
    BY <1>9 DEF VisOffload
  <2>2. vfx[v] \in VisEffect /\ Latest(vfx[v])
    BY DEF VisInv, EffectsInv
  <2> DEFINE n == [vfx[v] EXCEPT !.offload = on, !.out = o]
  <2>3. /\ n \in VisEffect /\ n.out = o
        /\ n.idx = vfx[v].idx /\ n.age = vfx[v].age /\ n.filled = vfx[v].filled
    BY <2>2 DEF VisEffect
  <2>4. vfx' = [vfx EXCEPT ![v] = n]
    BY <2>1
  <2> HIDE DEF n
  <2>5. Latest(n)
    BY <2>2, <2>3 DEF Latest
  <2>6. /\ DOMAIN vfx' = DOMAIN vfx /\ vfx' = [u \in DOMAIN vfx' |-> vfx'[u]]
        /\ \A u \in DOMAIN vfx : vfx'[u] = IF u = v THEN n ELSE vfx[u]
    BY <2>4 DEF VisInv, EffectsInv
  <2>7. /\ DOMAIN vouts' = DOMAIN vouts /\ vouts' = [p \in DOMAIN vouts' |-> vouts'[p]]
        /\ \A p \in DOMAIN vouts :
             vouts'[p] = IF p = o THEN vouts[p] \cup {v}
                         ELSE IF p = vfx[v].out THEN vouts[p] \ {v} ELSE vouts[p]
    <3>0. CASE o = vfx[v].out
      <4>1. vouts' = vouts
        BY <2>1, <3>0
      <4>2. o \in DOMAIN vouts => v \in vouts[o]
        BY <3>0 DEF VisInv, EffectsInv
      <4> QED
        BY <3>0, <4>1, <4>2 DEF VisInv, EffectsInv
    <3>n. CASE o # vfx[v].out
      <4> DEFINE d == Detach(vouts, vfx[v].out, v)
      <4>1. /\ DOMAIN d = DOMAIN vouts /\ d = [p \in DOMAIN d |-> d[p]]
            /\ \A p \in DOMAIN vouts : d[p] = IF p = vfx[v].out THEN vouts[p] \ {v} ELSE vouts[p]
        BY DEF Detach, VisInv, EffectsInv
      <4>2. vouts' = Attach(d, o, v)
        BY <2>1, <3>n
      <4> HIDE DEF d
      <4>3. CASE o \in DOMAIN d
        <5>1. vouts' = [d EXCEPT ![o] = d[o] \cup {v}]
          BY <4>2, <4>3 DEF Attach
        <5>2. d[o] = vouts[o]
          BY <2>1, <3>n, <4>1, <4>3
        <5> QED
          BY <2>1, <3>n, <4>1, <5>1, <5>2
      <4>4. CASE o \notin DOMAIN d
        <5>1. vouts' = d
          BY <4>2, <4>4 DEF Attach
        <5> QED
          BY <4>1, <4>4, <5>1
      <4> QED
        BY <4>3, <4>4
    <3> QED
      BY <3>0, <3>n
  <2>8. \A p \in DOMAIN vouts' : vouts'[p] = {u \in DOMAIN vfx' : vfx'[u].out = p}
    <3> TAKE p \in DOMAIN vouts'
    <3>1. vouts[p] = {u \in DOMAIN vfx : vfx[u].out = p} /\ p \in DOMAIN vouts
      BY <2>7 DEF VisInv, EffectsInv
    <3>2. {u \in DOMAIN vfx' : vfx'[u].out = p}
            = IF p = o THEN {u \in DOMAIN vfx : vfx[u].out = p} \cup {v}
              ELSE {u \in DOMAIN vfx : vfx[u].out = p} \ {v}
      BY <2>3, <2>6
    <3>3. p # vfx[v].out => v \notin vouts[p]
      BY <3>1
    <3> QED
      BY <2>7, <3>1, <3>2, <3>3
  <2> QED
    BY <2>3, <2>5, <2>6, <2>7, <2>8 DEF VisInv, EffectsInv
<1>10. ASSUME NEW v \in DOMAIN vfx, NEW late \in BOOLEAN, VisCapture(v, late) PROVE EffectsInv'
  <2> DEFINE n == AfterCapture(vfx[v], late)
  <2>1. vouts' = vouts /\ vfx' = [vfx EXCEPT ![v] = n]
    BY <1>10 DEF VisCapture
  <2>2. vfx[v] \in VisEffect /\ Latest(vfx[v])
    BY DEF VisInv, EffectsInv
  <2>3. /\ n \in VisEffect /\ n.out = vfx[v].out
        /\ n.idx = vfx[v].idx /\ n.age = vfx[v].age /\ n.filled = vfx[v].filled
    <3> DEFINE t == vfx[v].stamped /\ ~Stalled(vfx[v], late)
    <3>1. t \in BOOLEAN
      OBVIOUS
    <3>2. n = vfx[v] \/ n = [vfx[v] EXCEPT !.last = vfx[v].idx, !.stamped = t]
      BY DEF AfterCapture
    <3> HIDE DEF t, n
    <3> QED
      BY <2>2, <3>1, <3>2 DEF VisEffect
  <2> HIDE DEF n
  <2>4. Latest(n)
    BY <2>2, <2>3 DEF Latest
  <2> QED
    BY <2>1, <2>3, <2>4, EffectReplaced
<1> QED
  BY <1>1, <1>2, <1>3, <1>4, <1>5, <1>6, <1>7, <1>8, <1>9, <1>10 DEF VisNext, ThreadStep

(* For every size of the buffer, of the periods read and of the captures   *)
(* asked for, any effects, outputs and calls: what a capture of an active, *)
(* offloaded effect returns is the last samples, or silence where no       *)
(* sample came for a second, and the thread is created and joined once     *)
(* (visualizer_process, visualizer_command, the thread's start and join).  *)
THEOREM CaptureLatest == Spec => []CaptureIsLatest
<1>1. Init => VisInv
  BY VisInitInv DEF Init
<1>2. VisInv /\ UNCHANGED visVars => VisInv'
  BY DEF VisInv, ThreadInv, EffectsInv, visVars
<1>3. VisInv /\ [Next]_vars => VisInv'
  <2>1. VisInv /\ VisNext => VisInv'
    BY ThreadStepInv, EffectsStepInv DEF VisInv
  <2> QED
    BY <1>2, <2>1 DEF Next, vars
<1>4. VisInv => CaptureIsLatest
  <2> SUFFICES ASSUME VisInv PROVE CaptureIsLatest
    OBVIOUS
  <2>1. ASSUME NEW v \in DOMAIN vfx, NEW size \in CaptureSizes, NEW late \in BOOLEAN,
               Captures(vfx[v]), size <= vfx[v].filled, NEW i \in 0 .. size - 1
        PROVE  LET reply == visualizer_command(vfx[v], size, late)
               IN IF late /\ reply[i] = Silence THEN vfx[v].last = vfx[v].idx
                  ELSE reply[i] = size - 1 - i
    <3>1. size \in 1 .. CaptureBuf
      BY OffloadVisualizerAssumption
    <3>2. vfx[v] \in VisEffect /\ Latest(vfx[v])
      BY DEF VisInv, EffectsInv
    <3> QED
      BY <2>1, <3>1, <3>2, CaptureCommand
  <2>2. hal = VisNone /\ DOMAIN vouts = {} => vthread = "none" /\ vctl.status = -1
    BY DEF VisInv, ThreadInv
  <2>3. ~orphan /\ (capturing => vthread \in Running)
    BY DEF VisInv, ThreadInv
  <2> QED
    BY <2>1, <2>2, <2>3 DEF CaptureIsLatest, VisInv, EffectsInv
<1> QED
  BY <1>1, <1>3, <1>4, PTL DEF Spec

(***************************************************************************)
(* Offload effects.  The worlds a call finds; where a kind of effect is    *)
(* placed in one, what its context says, and what the module of its output *)
(* has been told.                                                          *)
(***************************************************************************)
FxValues == [Bands -> Int] \cup Strengths
FxContext ==
  [state : {"INITIALIZED", "ACTIVE"}, out : FxOutputs, ctl : FxOutputs \cup {FxNone},
   flag : BOOLEAN, tempOff : BOOLEAN, val : FxValues, par : FxValues,
   preset : Int \cup Strengths]
FxModule == [on : BOOLEAN, val : FxValues]
FxOutput == [fx : SUBSET mix, dsp : [mix -> FxModule]]
FxWorld(w) ==
  /\ mix \in FxMixes
  /\ w = [fx |-> w.fx, outs |-> w.outs]
  /\ DOMAIN w.fx \subseteq mix /\ w.fx \in [DOMAIN w.fx -> FxContext]
  /\ DOMAIN w.outs \subseteq FxOutputs /\ w.outs \in [DOMAIN w.outs -> FxOutput]

(* The flag is on exactly while the effect should be heard, and what goes  *)
(* to the DSP is what a client reads.                                      *)
FlagRight(e, k) ==
  /\ k = "eq" => /\ e.val \in [Bands -> Int] /\ e.par = e.val /\ ~e.tempOff
                 /\ e.flag <=> e.state = "ACTIVE"
  /\ k \in StrengthKinds => /\ e.par = e.val /\ e.preset = PRESET_CUSTOM
                            /\ e.flag <=> (e.state = "ACTIVE" /\ ~e.tempOff)
(* What the module d of the effect's output was told.                      *)
Told(e, d, k) ==
  k \notin ReverbKinds =>
    /\ d.on => e.flag /\ e.preset # INVALID_PRESET
    /\ e.flag /\ (IF k = "eq" THEN e.preset # INVALID_PRESET ELSE e.val # 0) => d.on
    /\ d.on /\ k = "eq" => d.val = e.par
(* Nothing of the kind is left on an output: its module is off.            *)
Absent(port, k) == k \notin port.fx /\ (k \notin ReverbKinds => ~port.dsp[k].on)
Placed(w, k) ==
  /\ k \in DOMAIN w.fx =>
       w.fx[k].ctl = IF w.fx[k].out \in DOMAIN w.outs THEN w.fx[k].out ELSE FxNone
  /\ \A o \in DOMAIN w.outs :
       IF k \in DOMAIN w.fx /\ w.fx[k].out = o THEN k \in w.outs[o].fx ELSE Absent(w.outs[o], k)
KindRight(w, k) ==
  /\ Placed(w, k)
  /\ k \in DOMAIN w.fx =>
       /\ FlagRight(w.fx[k], k)
       /\ \A o \in DOMAIN w.outs :
            w.fx[k].out = o => Told(w.fx[k], w.outs[o].dsp[k], k)
FxInv == FxWorld(World) /\ \A k \in mix : KindRight(World, k)

(* A call of one effect touches nothing of the others.                     *)
Touches(w, n, k) ==
  /\ DOMAIN n.outs = DOMAIN w.outs
  /\ \A j \in mix \ {k} :
       /\ j \in DOMAIN n.fx <=> j \in DOMAIN w.fx
       /\ j \in DOMAIN w.fx => n.fx[j] = w.fx[j]
       /\ \A o \in DOMAIN w.outs :
            (j \in n.outs[o].fx <=> j \in w.outs[o].fx) /\ n.outs[o].dsp[j] = w.outs[o].dsp[j]
Keeps(w, n, k) == FxWorld(n) /\ KindRight(n, k) /\ Touches(w, n, k)

(* The other kinds stay right.                                             *)
LEMMA OthersStay ==
  ASSUME NEW w, FxWorld(w), NEW n, FxWorld(n), NEW k, Touches(w, n, k),
         NEW j \in mix, j # k, KindRight(w, j)
  PROVE  KindRight(n, j)
<1>1. Placed(n, j)
  BY DEF Touches, KindRight, Placed, Absent
<1>2. ASSUME j \in DOMAIN n.fx
      PROVE  /\ FlagRight(n.fx[j], j)
             /\ \A o \in DOMAIN n.outs :
                  n.fx[j].out = o => Told(n.fx[j], n.outs[o].dsp[j], j)
  BY <1>2 DEF Touches, KindRight
<1> QED
  BY <1>1, <1>2 DEF KindRight

(* Writing a context, and what that leaves.                                *)
PutFx(w, k, e) == [w EXCEPT !.fx[k] = e]
ContextPut(w, k, e, n) ==
  /\ FxWorld(n) /\ n.fx = [w.fx EXCEPT ![k] = e] /\ n.outs = w.outs
  /\ n.fx[k] = e /\ k \in DOMAIN n.fx /\ k \in mix /\ Touches(w, n, k)
(* Writing a context changes no other.                                     *)
LEMMA PutContext ==
  ASSUME NEW w, FxWorld(w), NEW k \in DOMAIN w.fx, NEW e \in FxContext,
         NEW n, n = PutFx(w, k, e)
  PROVE  ContextPut(w, k, e, n)
<1>1. n = [fx |-> [w.fx EXCEPT ![k] = e], outs |-> w.outs]
  BY DEF FxWorld, PutFx
<1>2. n.fx = [w.fx EXCEPT ![k] = e] /\ n.outs = w.outs
  BY <1>1
<1>3. DOMAIN n.fx = DOMAIN w.fx /\ n.fx \in [DOMAIN n.fx -> FxContext] /\ n.fx[k] = e
  BY <1>2 DEF FxWorld
<1>4. \A j \in DOMAIN w.fx \ {k} : n.fx[j] = w.fx[j]
  BY <1>2 DEF FxWorld
<1> QED
  BY <1>1, <1>2, <1>3, <1>4 DEF FxWorld, Touches, ContextPut

(* Send of the context e writes the module of the control the effect holds. *)
Sent(w, k, e, setting, n) ==
  /\ FxWorld(n) /\ n.fx = w.fx /\ Touches(w, n, k)
  /\ \A o \in DOMAIN w.outs :
       /\ n.outs[o].fx = w.outs[o].fx
       /\ o # e.ctl \/ e.preset = INVALID_PRESET => n.outs[o] = w.outs[o]
       /\ o = e.ctl /\ e.preset # INVALID_PRESET =>
            n.outs[o].dsp[k] = [on |-> e.flag, val |-> IF setting THEN e.par
                                                       ELSE w.outs[o].dsp[k].val]
(* Send writes no other module.                                            *)
LEMMA SendWrites ==
  ASSUME NEW w, FxWorld(w), NEW k \in DOMAIN w.fx, NEW setting \in BOOLEAN,
         NEW n, n = Send(w, k, setting), NEW e, e = w.fx[k]
  PROVE  Sent(w, k, e, setting, n)
<1>1. CASE e.ctl \in DOMAIN w.outs /\ e.preset # INVALID_PRESET
  <2> DEFINE c == e.ctl
             told == [on |-> e.flag, val |-> IF setting THEN e.par ELSE w.outs[c].dsp[k].val]
             port == [w.outs[c] EXCEPT !.dsp[k] = told]
  <2>1. n = [w EXCEPT !.outs[c].dsp[k] = told]
    BY <1>1 DEF Send
  <2>2. e \in FxContext /\ k \in mix /\ w.outs[c] \in FxOutput
    BY <1>1 DEF FxWorld
  <2>3. told \in FxModule
    <3>1. w.outs[c].dsp[k] \in FxModule
      BY <2>2 DEF FxOutput
    <3> QED
      BY <2>2, <3>1 DEF FxContext, FxModule
  <2>4. told = [on |-> e.flag, val |-> IF setting THEN e.par ELSE w.outs[c].dsp[k].val]
    OBVIOUS
  <2> HIDE DEF told
  <2>5. port = [fx |-> w.outs[c].fx, dsp |-> [w.outs[c].dsp EXCEPT ![k] = told]]
    BY <2>2 DEF FxOutput
  <2>6. /\ port \in FxOutput /\ port.fx = w.outs[c].fx /\ port.dsp[k] = told
        /\ \A j \in mix \ {k} : port.dsp[j] = w.outs[c].dsp[j]
    BY <2>2, <2>3, <2>5 DEF FxOutput
  <2>7. n = [fx |-> w.fx, outs |-> [w.outs EXCEPT ![c] = port]]
    BY <2>1 DEF FxWorld
  <2> HIDE DEF port
  <2>8. n.fx = w.fx /\ n.outs = [w.outs EXCEPT ![c] = port] /\ n = [fx |-> n.fx, outs |-> n.outs]
    BY <2>7
  <2>9. /\ DOMAIN n.outs = DOMAIN w.outs /\ n.outs[c] = port
        /\ \A o \in DOMAIN w.outs \ {c} : n.outs[o] = w.outs[o]
        /\ n.outs \in [DOMAIN n.outs -> FxOutput]
    BY <1>1, <2>6, <2>8 DEF FxWorld
  <2>10. FxWorld(n)
    BY <2>8, <2>9 DEF FxWorld
  <2>11. Touches(w, n, k)
    BY <2>6, <2>8, <2>9 DEF Touches
  <2>12. /\ n.outs[c].fx = w.outs[c].fx
         /\ n.outs[c].dsp[k] = [on |-> e.flag, val |-> IF setting THEN e.par
                                                      ELSE w.outs[c].dsp[k].val]
    BY <2>4, <2>6, <2>9
  <2> QED
    BY <1>1, <2>8, <2>9, <2>10, <2>11, <2>12 DEF Sent
<1>2. CASE ~(e.ctl \in DOMAIN w.outs /\ e.preset # INVALID_PRESET)
  <2>1. n = w
    BY <1>2 DEF Send
  <2> QED
    BY <1>2, <2>1 DEF Touches, Sent
<1> QED
  BY <1>1, <1>2

(* What a call leaves that changes the context to e and no other output.   *)
Changed(w, k, e, n) ==
  /\ Keeps(w, n, k) /\ n.fx[k] = e /\ k \in DOMAIN n.fx
  /\ \A o \in DOMAIN w.outs :
       n.outs[o].fx = w.outs[o].fx /\ (o # e.ctl => n.outs[o] = w.outs[o])
(* An effect whose context changes as e says, where it stays, and is then  *)
(* sent: its module is told, whether all of it goes or, of an effect that  *)
(* is switched off or has only a strength, just the flag.                  *)
LEMMA ChangeAndSend ==
  ASSUME NEW w, FxWorld(w), NEW k \in DOMAIN w.fx, Placed(w, k),
         NEW e \in FxContext, e.out = w.fx[k].out, e.ctl = w.fx[k].ctl, FlagRight(e, k),
         NEW setting \in BOOLEAN, setting \/ ~e.flag \/ k # "eq",
         e.preset = INVALID_PRESET /\ k \notin ReverbKinds =>
           \A o \in DOMAIN w.outs : ~w.outs[o].dsp[k].on,
         NEW n, n = Send(PutFx(w, k, e), k, setting)
  PROVE  Changed(w, k, e, n)
<1> DEFINE v == PutFx(w, k, e)
<1> HIDE DEF v
<1>1. /\ FxWorld(v) /\ v.outs = w.outs /\ v.fx[k] = e /\ k \in DOMAIN v.fx /\ k \in mix
      /\ Touches(w, v, k)
  <2>1. ContextPut(w, k, e, v)
    BY PutContext DEF v
  <2> QED
    BY <2>1 DEF ContextPut
<1>2. /\ FxWorld(n) /\ n.fx = v.fx /\ Touches(v, n, k)
      /\ \A o \in DOMAIN v.outs :
           /\ n.outs[o].fx = v.outs[o].fx
           /\ o # e.ctl \/ e.preset = INVALID_PRESET => n.outs[o] = v.outs[o]
           /\ o = e.ctl /\ e.preset # INVALID_PRESET =>
                n.outs[o].dsp[k] = [on |-> e.flag, val |-> IF setting THEN e.par
                                                           ELSE v.outs[o].dsp[k].val]
  <2>1. Sent(v, k, e, setting, n)
    BY <1>1, SendWrites DEF v
  <2> QED
    BY <2>1 DEF Sent
<1>3. Touches(w, n, k)
  BY <1>1, <1>2 DEF Touches
<1>4. DOMAIN n.outs = DOMAIN w.outs /\ n.fx[k] = e /\ k \in DOMAIN n.fx
  BY <1>1, <1>2, <1>3 DEF Touches
<1>5. e.out # FxNone /\ e.ctl = IF e.out \in DOMAIN w.outs THEN e.out ELSE FxNone
  BY OffloadEffectsAssumption DEF Placed, FxContext
<1>6. Placed(n, k)
  <2>1. ASSUME NEW o \in DOMAIN w.outs, e.out # o PROVE n.outs[o] = w.outs[o]
    <3>1. o # e.ctl
      BY <1>5, <2>1, OffloadEffectsAssumption DEF FxWorld
    <3> QED
      BY <1>1, <1>2, <3>1
  <2>2. ASSUME NEW o \in DOMAIN w.outs
        PROVE  IF e.out = o THEN k \in n.outs[o].fx ELSE Absent(n.outs[o], k)
    <3>1. CASE e.out = o
      <4>1. k \in w.outs[o].fx
        BY <3>1 DEF Placed
      <4>2. n.outs[o].fx = w.outs[o].fx
        BY <1>1, <1>2
      <4> QED
        BY <3>1, <4>1, <4>2
    <3>2. CASE e.out # o
      BY <2>1, <3>2 DEF Placed
    <3> QED
      BY <3>1, <3>2
  <2> QED
    BY <1>4, <1>5, <2>2 DEF Placed
<1>7. ASSUME NEW o \in DOMAIN n.outs, e.out = o, k \notin ReverbKinds
      PROVE  Told(e, n.outs[o].dsp[k], k)
  <2>1. e.ctl = o /\ o \in DOMAIN v.outs
    BY <1>1, <1>4, <1>5, <1>7
  <2>2. CASE e.preset = INVALID_PRESET
    <3>1. ~n.outs[o].dsp[k].on
      BY <1>1, <1>2, <1>7, <2>1, <2>2
    <3>2. k = "eq"
      BY <1>1, <1>7, <2>2, OffloadEffectsAssumption
         DEF FlagRight, INVALID_PRESET, PRESET_CUSTOM, FxContext, FxWorld, StrengthKinds
    <3> QED
      BY <2>2, <3>1, <3>2 DEF Told
  <2>3. CASE e.preset # INVALID_PRESET
    <3>1. /\ n.outs[o].dsp[k].on = e.flag
          /\ setting => n.outs[o].dsp[k].val = e.par
      <4>1. n.outs[o].dsp[k] = [on |-> e.flag, val |-> IF setting THEN e.par
                                                       ELSE v.outs[o].dsp[k].val]
        BY <1>2, <2>1, <2>3
      <4> QED
        BY <4>1
    <3> QED
      BY <2>3, <3>1 DEF Told
  <2> QED
    BY <2>2, <2>3
<1>8. \A o \in DOMAIN n.outs : e.out = o => Told(e, n.outs[o].dsp[k], k)
  BY <1>7 DEF Told
<1> QED
  BY <1>1, <1>2, <1>3, <1>4, <1>6, <1>8 DEF Keeps, KindRight, Changed

(* The same when nothing has to be sent.                                   *)
LEMMA ChangeQuietly ==
  ASSUME NEW w, FxWorld(w), NEW k \in DOMAIN w.fx, Placed(w, k),
         NEW e \in FxContext, e.out = w.fx[k].out, e.ctl = w.fx[k].ctl, FlagRight(e, k),
         \A o \in DOMAIN w.outs : e.out = o => Told(e, w.outs[o].dsp[k], k),
         NEW n, n = PutFx(w, k, e)
  PROVE  Changed(w, k, e, n)
<1>1. /\ FxWorld(n) /\ n.outs = w.outs /\ n.fx[k] = e /\ k \in DOMAIN n.fx /\ k \in mix
      /\ Touches(w, n, k)
  <2>1. ContextPut(w, k, e, n)
    BY PutContext
  <2> QED
    BY <2>1 DEF ContextPut
<1>2. Placed(n, k)
  BY <1>1 DEF Placed
<1> QED
  BY <1>1, <1>2 DEF Keeps, KindRight, Changed

(* The kinds there are, and the context of one.                            *)
LEMMA ContextOf ==
  ASSUME NEW w, FxWorld(w), NEW k \in DOMAIN w.fx
  PROVE  /\ w.fx[k] \in FxContext
         /\ k \in {"eq"} \cup StrengthKinds \cup ReverbKinds
BY OffloadEffectsAssumption DEF FxWorld

(* A context written twice is written once.                                *)
LEMMA PutTwice ==
  ASSUME NEW w, FxWorld(w), NEW k \in DOMAIN w.fx, NEW e \in FxContext, NEW d \in FxContext
  PROVE  PutFx(PutFx(w, k, d), k, e) = PutFx(w, k, e)
<1>1. w = [fx |-> w.fx, outs |-> w.outs] /\ w.fx \in [DOMAIN w.fx -> FxContext]
  BY DEF FxWorld
<1>2. PutFx(w, k, d) = [fx |-> [w.fx EXCEPT ![k] = d], outs |-> w.outs]
  BY <1>1 DEF PutFx
<1>3. PutFx(w, k, e) = [fx |-> [w.fx EXCEPT ![k] = e], outs |-> w.outs]
  BY <1>1 DEF PutFx
<1>4. PutFx(PutFx(w, k, d), k, e)
        = [fx |-> [[w.fx EXCEPT ![k] = d] EXCEPT ![k] = e], outs |-> w.outs]
  <2> DEFINE p == PutFx(w, k, d)
  <2>1. p.fx = [w.fx EXCEPT ![k] = d] /\ p = [fx |-> p.fx, outs |-> w.outs]
    BY <1>2
  <2> HIDE DEF p
  <2>2. PutFx(p, k, e) = [fx |-> [p.fx EXCEPT ![k] = e], outs |-> w.outs]
    BY <2>1 DEF PutFx
  <2> QED
    BY <2>1, <2>2 DEF p
<1>5. [[w.fx EXCEPT ![k] = d] EXCEPT ![k] = e] = [w.fx EXCEPT ![k] = e]
  BY <1>1
<1> QED
  BY <1>3, <1>4, <1>5

(* A context that was written, and is written once more.                   *)
Rewritten(w, k, d, e, v) == v.fx[k] = d /\ PutFx(v, k, e) = PutFx(w, k, e)
(* The last one written stands.                                            *)
LEMMA ContextRewritten ==
  ASSUME NEW w, FxWorld(w), NEW k \in DOMAIN w.fx, NEW d \in FxContext, NEW e \in FxContext,
         NEW v, v = PutFx(w, k, d)
  PROVE  Rewritten(w, k, d, e, v)
<1>1. ContextPut(w, k, d, v)
  BY PutContext
<1>2. PutFx(v, k, e) = PutFx(w, k, e)
  BY PutTwice
<1> QED
  BY <1>1, <1>2 DEF ContextPut, Rewritten

(* ENABLE of an effect that is not enabled.                                *)
LEMMA EnableKeeps ==
  ASSUME NEW w, FxWorld(w), NEW k \in DOMAIN w.fx, KindRight(w, k),
         w.fx[k].state = "INITIALIZED",
         NEW n, n = OpsEnable([w EXCEPT !.fx[k].state = "ACTIVE"], k)
  PROVE  Keeps(w, n, k)
<1> DEFINE c == w.fx[k]
           d == [c EXCEPT !.state = "ACTIVE"]
           e == [c EXCEPT !.state = "ACTIVE", !.flag = TRUE]
           v == PutFx(w, k, d)
<1>1. c \in FxContext /\ k \in {"eq"} \cup StrengthKinds \cup ReverbKinds
  BY ContextOf
<1>2. d \in FxContext /\ e \in FxContext /\ e = [d EXCEPT !.flag = TRUE]
  BY <1>1 DEF FxContext
<1>3. n = OpsEnable(v, k)
  BY DEF PutFx
<1>4. /\ v.fx[k] = d /\ FxWorld(v) /\ k \in DOMAIN v.fx
  <2>1. ContextPut(w, k, d, v)
    BY <1>2, PutContext
  <2> QED
    BY <2>1 DEF ContextPut
<1>5. [v EXCEPT !.fx[k].flag = TRUE] = PutFx(w, k, e)
  <2>1. [v EXCEPT !.fx[k].flag = TRUE] = PutFx(v, k, [v.fx[k] EXCEPT !.flag = TRUE])
    BY DEF PutFx
  <2>2. [v.fx[k] EXCEPT !.flag = TRUE] = e
    BY <1>2, <1>4
  <2> HIDE DEF d, e
  <2>3. PutFx(v, k, e) = PutFx(w, k, e)
    BY <1>2, PutTwice
  <2> QED
    BY <2>1, <2>2, <2>3
<1>6. /\ d.out = c.out /\ d.ctl = c.ctl /\ d.par = c.par /\ d.val = c.val /\ d.flag = c.flag
      /\ d.tempOff = c.tempOff /\ d.preset = c.preset /\ d.state = "ACTIVE"
      /\ e.out = c.out /\ e.ctl = c.ctl /\ e.par = c.par /\ e.val = c.val /\ e.flag = TRUE
      /\ e.tempOff = c.tempOff /\ e.preset = c.preset /\ e.state = "ACTIVE"
  BY <1>1 DEF FxContext
<1>7. /\ Placed(w, k) /\ FlagRight(c, k)
      /\ \A o \in DOMAIN w.outs : c.out = o => Told(c, w.outs[o].dsp[k], k)
      /\ \A o \in DOMAIN w.outs : c.out # o => Absent(w.outs[o], k)
  BY DEF KindRight, Placed
<1>8. c.state = "INITIALIZED"
  OBVIOUS
<1> HIDE DEF c, d, e, v
<1>9. k \notin ReverbKinds => ~c.flag
  BY <1>1, <1>7, <1>8 DEF FlagRight
<1>10. k \notin ReverbKinds => \A o \in DOMAIN w.outs : ~w.outs[o].dsp[k].on
  BY <1>7, <1>9 DEF Told, Absent
<1>11. CASE k = "eq"
  <2>1. n = Send(PutFx(w, k, e), k, TRUE)
    BY <1>3, <1>4, <1>5, <1>6, <1>9, <1>11
       DEF OpsEnable, equalizer_enable, offload_eq_send_params, ReverbKinds
  <2>2. FlagRight(e, k)
    BY <1>6, <1>7, <1>11 DEF FlagRight, StrengthKinds
  <2> QED
    BY <1>2, <1>6, <1>7, <1>10, <2>1, <2>2, ChangeAndSend DEF c, Changed
<1>12. CASE k \in StrengthKinds
  <2>1. OpsEnable(v, k) = strength_enable(v, k)
    BY <1>12 DEF OpsEnable, bassboost_enable, virtualizer_enable, StrengthKinds
  <2>2. CASE c.tempOff
    <3>1. n = v
      BY <1>3, <1>4, <1>6, <2>1, <2>2 DEF strength_enable
    <3>2. FlagRight(d, k)
      BY <1>6, <1>7, <1>9, <1>12, <2>2 DEF FlagRight, StrengthKinds, ReverbKinds
    <3>3. \A o \in DOMAIN w.outs : d.out = o => Told(d, w.outs[o].dsp[k], k)
      BY <1>6, <1>9, <1>10 DEF Told
    <3> QED
      BY <1>2, <1>6, <1>7, <3>1, <3>2, <3>3, ChangeQuietly DEF Changed, c, v
  <2>3. CASE ~c.tempOff
    <3>1. n = IF c.val # 0 THEN Send(PutFx(w, k, e), k, TRUE) ELSE PutFx(w, k, e)
      <4>1. ~d.flag /\ ~d.tempOff /\ d.val = c.val
        BY <1>6, <1>9, <1>12, <2>3 DEF StrengthKinds, ReverbKinds
      <4>2. strength_enable(v, k) = IF v.fx[k].flag \/ v.fx[k].tempOff THEN v
                                    ELSE IF v.fx[k].val # 0 THEN Send(PutFx(w, k, e), k, TRUE)
                                    ELSE PutFx(w, k, e)
        BY <1>5 DEF strength_enable
      <4> QED
        BY <1>3, <1>4, <2>1, <4>1, <4>2
    <3>2. FlagRight(e, k)
      BY <1>6, <1>7, <1>12, <2>3 DEF FlagRight, StrengthKinds
    <3>3. CASE c.val # 0
      BY <1>2, <1>6, <1>7, <1>10, <3>1, <3>2, <3>3, ChangeAndSend DEF c, Changed
    <3>4. CASE c.val = 0
      <4>1. \A o \in DOMAIN w.outs : e.out = o => Told(e, w.outs[o].dsp[k], k)
        BY <1>6, <1>10, <1>12, <3>4 DEF Told, StrengthKinds
      <4> QED
        BY <1>2, <1>6, <1>7, <3>1, <3>2, <3>4, <4>1, ChangeQuietly DEF Changed, c
    <3> QED
      BY <3>3, <3>4
  <2> QED
    BY <2>2, <2>3
<1>13. CASE k \in ReverbKinds
  <2>1. n = PutFx(w, k, e)
    BY <1>3, <1>5, <1>13 DEF OpsEnable, reverb_enable, ReverbKinds
  <2>2. FlagRight(e, k)
    BY <1>13 DEF FlagRight, StrengthKinds, ReverbKinds
  <2>3. \A o \in DOMAIN w.outs : e.out = o => Told(e, w.outs[o].dsp[k], k)
    BY <1>13 DEF Told
  <2> QED
    BY <1>2, <1>6, <1>7, <2>1, <2>2, <2>3, ChangeQuietly DEF Changed, c
<1> QED
  BY <1>1, <1>11, <1>12, <1>13

(* The flag of the context d, written after the rest of it.                *)
FlagPut(w, k, d, b, v) ==
  /\ v.fx[k] = d
  /\ [v EXCEPT !.fx[k].flag = b] = PutFx(w, k, [d EXCEPT !.flag = b])
  /\ [d EXCEPT !.flag = b] \in FxContext
(* Contexts written one field after the other, as the calls do.            *)
LEMMA FlagWritten ==
  ASSUME NEW w, FxWorld(w), NEW k \in DOMAIN w.fx, NEW d \in FxContext, NEW b \in BOOLEAN,
         NEW v, v = PutFx(w, k, d)
  PROVE  FlagPut(w, k, d, b, v)
<1> DEFINE e == [d EXCEPT !.flag = b]
<1>1. e \in FxContext
  BY DEF FxContext
<1>2. v.fx[k] = d
  <2>1. ContextPut(w, k, d, v)
    BY PutContext
  <2> QED
    BY <2>1 DEF ContextPut
<1>3. [v EXCEPT !.fx[k].flag = b] = PutFx(v, k, e)
  BY <1>2 DEF PutFx
<1> HIDE DEF e
<1>4. PutFx(v, k, e) = PutFx(w, k, e)
  BY <1>1, PutTwice
<1> QED
  BY <1>1, <1>2, <1>3, <1>4 DEF e, FlagPut

(* What is known of an effect that is placed and right.                    *)
LEMMA RightContext ==
  ASSUME NEW w, FxWorld(w), NEW k \in DOMAIN w.fx, KindRight(w, k), NEW c, c = w.fx[k]
  PROVE  /\ c \in FxContext /\ k \in {"eq"} \cup StrengthKinds \cup ReverbKinds
         /\ Placed(w, k) /\ FlagRight(c, k)
         /\ \A o \in DOMAIN w.outs : c.out = o => Told(c, w.outs[o].dsp[k], k)
         /\ \A o \in DOMAIN w.outs : c.out # o => Absent(w.outs[o], k)
         /\ (c.preset = INVALID_PRESET \/ ~c.flag) /\ k \notin ReverbKinds =>
              \A o \in DOMAIN w.outs : ~w.outs[o].dsp[k].on
<1>1. c \in FxContext /\ k \in {"eq"} \cup StrengthKinds \cup ReverbKinds
  BY ContextOf
<1>2. /\ Placed(w, k) /\ FlagRight(c, k)
      /\ \A o \in DOMAIN w.outs : c.out = o => Told(c, w.outs[o].dsp[k], k)
      /\ \A o \in DOMAIN w.outs : c.out # o => Absent(w.outs[o], k)
  BY DEF KindRight, Placed
<1>3. ASSUME c.preset = INVALID_PRESET \/ ~c.flag, k \notin ReverbKinds,
             NEW o \in DOMAIN w.outs
      PROVE  ~w.outs[o].dsp[k].on
  BY <1>2, <1>3 DEF Told, Absent
<1> QED
  BY <1>1, <1>2, <1>3

(* DISABLE of an effect that is enabled.                                   *)
LEMMA DisableKeeps ==
  ASSUME NEW w, FxWorld(w), NEW k \in DOMAIN w.fx, KindRight(w, k), w.fx[k].state = "ACTIVE",
         NEW n, n = OpsDisable([w EXCEPT !.fx[k].state = "INITIALIZED"], k)
  PROVE  Keeps(w, n, k)
<1> DEFINE c == w.fx[k]
           d == [c EXCEPT !.state = "INITIALIZED"]
           e == [d EXCEPT !.flag = FALSE]
           v == PutFx(w, k, d)
<1>1. /\ c \in FxContext /\ k \in {"eq"} \cup StrengthKinds \cup ReverbKinds
      /\ Placed(w, k) /\ FlagRight(c, k)
      /\ \A o \in DOMAIN w.outs : c.out = o => Told(c, w.outs[o].dsp[k], k)
      /\ (c.preset = INVALID_PRESET \/ ~c.flag) /\ k \notin ReverbKinds =>
           \A o \in DOMAIN w.outs : ~w.outs[o].dsp[k].on
  BY RightContext
<1>2. d \in FxContext
  BY <1>1 DEF FxContext
<1>3. n = OpsDisable(v, k)
  BY DEF PutFx
<1>4. /\ v.fx[k] = d /\ [v EXCEPT !.fx[k].flag = FALSE] = PutFx(w, k, e)
      /\ e \in FxContext
  <2> HIDE DEF d
  <2>1. FlagPut(w, k, d, FALSE, v)
    BY <1>2, FlagWritten
  <2> QED
    BY <2>1 DEF FlagPut
<1>5. /\ d.out = c.out /\ d.ctl = c.ctl /\ d.par = c.par /\ d.val = c.val /\ d.flag = c.flag
      /\ d.tempOff = c.tempOff /\ d.preset = c.preset /\ d.state = "INITIALIZED"
      /\ e.out = c.out /\ e.ctl = c.ctl /\ e.par = c.par /\ e.val = c.val /\ e.flag = FALSE
      /\ e.tempOff = c.tempOff /\ e.preset = c.preset /\ e.state = "INITIALIZED"
  BY <1>1 DEF FxContext
<1>6. c.state = "ACTIVE"
  OBVIOUS
<1> HIDE DEF c, d, e, v
<1>7. n = IF d.flag THEN Send(PutFx(w, k, e), k, FALSE) ELSE v
  <2>1. CASE k = "eq"
    BY <1>3, <1>4, <2>1 DEF OpsDisable, equalizer_disable, offload_eq_send_params
  <2>2. CASE k \in StrengthKinds
    BY <1>3, <1>4, <2>2 DEF OpsDisable, StrengthKinds, strength_disable, bassboost_disable,
                            virtualizer_disable
  <2>3. CASE k \in ReverbKinds
    BY <1>3, <1>4, <2>3 DEF OpsDisable, ReverbKinds, reverb_disable, offload_reverb_send_params
  <2> QED
    BY <1>1, <2>1, <2>2, <2>3
<1>8. CASE d.flag
  <2>1. FlagRight(e, k)
    BY <1>1, <1>5 DEF FlagRight
  <2> QED
    BY <1>1, <1>4, <1>5, <1>7, <1>8, <2>1, ChangeAndSend DEF c, Changed
<1>9. CASE ~d.flag
  <2>1. FlagRight(d, k)
    BY <1>1, <1>5, <1>6, <1>9 DEF FlagRight
  <2>2. \A o \in DOMAIN w.outs : d.out = o => Told(d, w.outs[o].dsp[k], k)
    BY <1>1, <1>5 DEF Told
  <2> QED
    BY <1>1, <1>2, <1>5, <1>7, <1>9, <2>1, <2>2, ChangeQuietly DEF c, v, Changed
<1> QED
  BY <1>8, <1>9

(* SET_DEVICE, to a loudspeaker or away from it.                           *)
LEMMA SetDeviceKeeps ==
  ASSUME NEW w, FxWorld(w), NEW k \in DOMAIN w.fx, KindRight(w, k), NEW speaker \in BOOLEAN,
         NEW n, n = OpsSetDevice(w, k, speaker)
  PROVE  Keeps(w, n, k)
<1> DEFINE c == w.fx[k]
           d == [c EXCEPT !.tempOff = speaker]
           e == [d EXCEPT !.flag = ~speaker]
           v == PutFx(w, k, d)
<1>1. /\ c \in FxContext /\ k \in {"eq"} \cup StrengthKinds \cup ReverbKinds
      /\ Placed(w, k) /\ FlagRight(c, k)
      /\ \A o \in DOMAIN w.outs : c.out = o => Told(c, w.outs[o].dsp[k], k)
      /\ (c.preset = INVALID_PRESET \/ ~c.flag) /\ k \notin ReverbKinds =>
           \A o \in DOMAIN w.outs : ~w.outs[o].dsp[k].on
  BY RightContext
<1>2. d \in FxContext
  BY <1>1 DEF FxContext
<1>3. /\ v.fx[k] = d /\ [v EXCEPT !.fx[k].flag = ~speaker] = PutFx(w, k, e)
      /\ e \in FxContext
  <2> HIDE DEF d
  <2>1. FlagPut(w, k, d, ~speaker, v)
    BY <1>2, FlagWritten
  <2> QED
    BY <2>1 DEF FlagPut
<1>4. /\ d.out = c.out /\ d.ctl = c.ctl /\ d.par = c.par /\ d.val = c.val /\ d.flag = c.flag
      /\ d.tempOff = speaker /\ d.preset = c.preset /\ d.state = c.state
      /\ e.out = c.out /\ e.ctl = c.ctl /\ e.par = c.par /\ e.val = c.val /\ e.flag = ~speaker
      /\ e.tempOff = speaker /\ e.preset = c.preset /\ e.state = c.state
  BY <1>1 DEF FxContext
<1>5. v = [w EXCEPT !.fx[k].tempOff = speaker]
  BY DEF PutFx
<1> HIDE DEF c, d, e, v
<1>6. CASE k \in StrengthKinds
  <2>1. n = IF speaker = c.tempOff \/ c.state # "ACTIVE" THEN v
            ELSE Send(PutFx(w, k, e), k, FALSE)
    <3>1. n = set_device(w, k, speaker)
      BY <1>6 DEF OpsSetDevice, StrengthKinds, bassboost_set_device, virtualizer_set_device
    <3>2. set_device(w, k, speaker)
            = IF speaker = w.fx[k].tempOff \/ w.fx[k].state # "ACTIVE" THEN v
              ELSE Send([v EXCEPT !.fx[k].flag = ~speaker], k, FALSE)
      BY <1>5 DEF set_device
    <3> QED
      BY <1>3, <3>1, <3>2 DEF c
  <2>2. k # "eq" /\ k \notin ReverbKinds
    BY <1>6 DEF StrengthKinds, ReverbKinds
  <2>3. CASE speaker = c.tempOff \/ c.state # "ACTIVE"
    <3>1. FlagRight(d, k)
      BY <1>1, <1>4, <1>6, <2>2, <2>3 DEF FlagRight
    <3>2. \A o \in DOMAIN w.outs : d.out = o => Told(d, w.outs[o].dsp[k], k)
      BY <1>1, <1>4, <2>2 DEF Told
    <3> QED
      BY <1>1, <1>2, <1>4, <2>1, <2>3, <3>1, <3>2, ChangeQuietly DEF c, v, Changed
  <2>4. CASE speaker # c.tempOff /\ c.state = "ACTIVE"
    <3>1. FlagRight(e, k)
      BY <1>1, <1>4, <1>6, <2>2, <2>4 DEF FlagRight
    <3> QED
      BY <1>1, <1>3, <1>4, <2>1, <2>2, <2>4, <3>1, ChangeAndSend DEF c, Changed
  <2> QED
    BY <2>3, <2>4
<1>7. CASE k \notin StrengthKinds
  <2>1. n = w
    BY <1>7 DEF OpsSetDevice, StrengthKinds
  <2> QED
    BY <2>1 DEF Keeps, Touches
<1> QED
  BY <1>6, <1>7

(* A setting, sent at once: what the client reads is what was sent.        *)
LEMMA SettingSent ==
  ASSUME NEW w, FxWorld(w), NEW k \in DOMAIN w.fx, KindRight(w, k), NEW c, c = w.fx[k],
         NEW e \in FxContext, e.state = c.state, e.out = c.out, e.ctl = c.ctl,
         e.tempOff = c.tempOff,
         k \notin ReverbKinds => e.flag = c.flag /\ e.par = e.val,
         k = "eq" => e.val \in [Bands -> Int] /\ e.preset # INVALID_PRESET,
         k \in StrengthKinds => e.preset = c.preset,
         NEW n, n = Send(PutFx(w, k, e), k, TRUE)
  PROVE  Keeps(w, n, k) /\ k \in DOMAIN n.fx
<1>1. /\ c \in FxContext /\ k \in {"eq"} \cup StrengthKinds \cup ReverbKinds
      /\ Placed(w, k) /\ FlagRight(c, k)
  BY RightContext
<1>2. FlagRight(e, k)
  BY <1>1 DEF FlagRight, StrengthKinds, ReverbKinds
<1>3. e.preset = INVALID_PRESET => k \in ReverbKinds
  BY <1>1, <1>2 DEF FlagRight, INVALID_PRESET, PRESET_CUSTOM
<1>4. Changed(w, k, e, n)
  BY <1>1, <1>2, <1>3, ChangeAndSend
<1> QED
  BY <1>4 DEF Changed

(* What a call keeps, the next one keeps.                                  *)
LEMMA TouchesTwice ==
  ASSUME NEW w, NEW v, NEW n, NEW k, Touches(w, v, k), Touches(v, n, k)
  PROVE  Touches(w, n, k)
BY DEF Touches

(* A band level is rounded to a whole number of decibels.                  *)
LEMMA RoundedLevel == ASSUME NEW level \in BandLevels PROVE RoundLevel(level) \in Int
<1>1. level \in Int
  BY OffloadEffectsAssumption
<1> QED
  BY <1>1 DEF RoundLevel

(* equalizer_set_band_level.                                               *)
LEMMA BandKeeps ==
  ASSUME NEW w, FxWorld(w), "eq" \in DOMAIN w.fx, KindRight(w, "eq"), NEW band \in Bands,
         NEW level \in BandLevels, NEW n, n = equalizer_set_band_level(w, band, level)
  PROVE  Keeps(w, n, "eq") /\ "eq" \in DOMAIN n.fx
<1> DEFINE c == w.fx["eq"]
           r == RoundLevel(level)
           bands == [c.val EXCEPT ![band] = r]
           e == [c EXCEPT !.val = bands, !.par = bands, !.preset = PRESET_CUSTOM]
<1>1. c \in FxContext /\ FlagRight(c, "eq")
  BY RightContext
<1>2. r \in Int
  BY RoundedLevel
<1>3. bands \in [Bands -> Int]
  <2> HIDE DEF r
  <2> QED
    BY <1>1, <1>2 DEF FlagRight
<1>4. PRESET_CUSTOM \in Int \cup Strengths
  <2>1. PRESET_CUSTOM \in Int
    BY DEF PRESET_CUSTOM
  <2> QED
    BY <2>1
<1>5. bands \in FxValues
  BY <1>3 DEF FxValues
<1>6. n = Send(PutFx(w, "eq", e), "eq", TRUE)
  <2>1. PutFx(w, "eq", e)
          = [w EXCEPT !.fx["eq"].val[band] = r, !.fx["eq"].par = bands,
                      !.fx["eq"].preset = PRESET_CUSTOM]
    <3> DEFINE e1 == [c EXCEPT !.val[band] = r]
               e2 == [e1 EXCEPT !.par = bands]
               w1 == [w EXCEPT !.fx["eq"].val[band] = r]
               w2 == [w1 EXCEPT !.fx["eq"].par = bands]
               w3 == [w2 EXCEPT !.fx["eq"].preset = PRESET_CUSTOM]
    <3>1. e1 \in FxContext /\ e2 \in FxContext /\ e = [e2 EXCEPT !.preset = PRESET_CUSTOM]
      BY <1>1, <1>3 DEF FxContext, FxValues
    <3>2. w1 = PutFx(w, "eq", e1)
      BY DEF PutFx
    <3>3. w2 = PutFx(w, "eq", e2)
      <4>1. w1.fx["eq"] = e1 /\ PutFx(w1, "eq", e2) = PutFx(w, "eq", e2)
        <5> HIDE DEF e1, e2, w1
        <5> QED
          BY <3>1, <3>2, ContextRewritten DEF Rewritten
      <4> QED
        BY <4>1 DEF PutFx
    <3>4. e \in FxContext
      BY <1>1, <1>4, <1>5 DEF FxContext
    <3>5. w3 = PutFx(w, "eq", e)
      <4>1. w2.fx["eq"] = e2 /\ PutFx(w2, "eq", e) = PutFx(w, "eq", e)
        <5> HIDE DEF e2, e, w2
        <5> QED
          BY <3>1, <3>3, <3>4, ContextRewritten DEF Rewritten
      <4> QED
        BY <3>1, <4>1 DEF PutFx
    <3> QED
      BY <3>5
  <2> QED
    BY <2>1 DEF equalizer_set_band_level, offload_eq_send_params
<1>7. /\ e \in FxContext /\ e.state = c.state /\ e.out = c.out /\ e.ctl = c.ctl
      /\ e.flag = c.flag /\ e.tempOff = c.tempOff /\ e.par = e.val /\ e.val = bands
      /\ e.preset = PRESET_CUSTOM
  BY <1>1, <1>4, <1>5 DEF FxContext
<1>8. PRESET_CUSTOM # INVALID_PRESET /\ "eq" \notin StrengthKinds
  BY DEF PRESET_CUSTOM, INVALID_PRESET, StrengthKinds
<1> HIDE DEF c, e, bands
<1> QED
  BY <1>3, <1>6, <1>7, <1>8, SettingSent DEF c

(* SET_PARAM.                                                              *)
LEMMA SetParamKeeps ==
  ASSUME NEW w, FxWorld(w), NEW k \in DOMAIN w.fx, KindRight(w, k), NEW p \in Settings(k),
         NEW n, n = OpsSetParameter(w, k, p)
  PROVE  Keeps(w, n, k)
<1> DEFINE c == w.fx[k]
<1>1. c \in FxContext /\ k \in {"eq"} \cup StrengthKinds \cup ReverbKinds
  BY RightContext
<1>2. Keeps(w, w, k)
  BY DEF Keeps, Touches
<1>3. CASE k = "eq"
  <2>1. n = equalizer_set_parameter(w, p) /\ p \in Settings("eq")
    BY <1>3 DEF OpsSetParameter
  <2>2. CASE p \in [set : {"preset"}, preset : DOMAIN EqPresets]
    <3> DEFINE q == p.preset
               e == [c EXCEPT !.val = EqPresets[q], !.par = EqPresets[q], !.preset = q]
    <3>1. p.set = "preset" /\ q \in DOMAIN EqPresets
      BY <2>2
    <3>2. EqPresets[q] \in [Bands -> Int] /\ q \in Nat
      BY <3>1, OffloadEffectsAssumption
    <3>3. EqPresets[q] \in FxValues /\ q \in Int \cup Strengths /\ q # INVALID_PRESET
      BY <3>2 DEF FxValues, INVALID_PRESET
    <3>4. n = Send(PutFx(w, k, e), k, TRUE)
      <4>1. n = equalizer_set_preset(w, q)
        BY <2>1, <3>1 DEF equalizer_set_parameter
      <4> DEFINE e1 == [c EXCEPT !.val = EqPresets[q]]
                 e2 == [e1 EXCEPT !.par = EqPresets[q]]
                 w1 == [w EXCEPT !.fx["eq"].val = EqPresets[q]]
                 w2 == [w1 EXCEPT !.fx["eq"].par = EqPresets[q]]
                 w3 == [w2 EXCEPT !.fx["eq"].preset = q]
      <4>2. /\ e1 \in FxContext /\ e2 \in FxContext /\ e = [e2 EXCEPT !.preset = q]
            /\ e \in FxContext
        BY <1>1, <3>3 DEF FxContext
      <4>3. w1 = PutFx(w, "eq", e1)
        BY <1>3 DEF PutFx
      <4>4. w2 = PutFx(w, "eq", e2)
        <5>1. w1.fx["eq"] = e1 /\ PutFx(w1, "eq", e2) = PutFx(w, "eq", e2)
          <6> HIDE DEF e1, e2, w1
          <6> QED
            BY <1>3, <4>2, <4>3, ContextRewritten DEF Rewritten
        <5> QED
          BY <5>1 DEF PutFx
      <4>5. w3 = PutFx(w, "eq", e)
        <5>1. w2.fx["eq"] = e2 /\ PutFx(w2, "eq", e) = PutFx(w, "eq", e)
          <6> HIDE DEF e2, e, w2
          <6> QED
            BY <1>3, <4>2, <4>4, ContextRewritten DEF Rewritten
        <5> QED
          BY <4>2, <5>1 DEF PutFx
      <4> QED
        BY <1>3, <4>1, <4>5 DEF equalizer_set_preset, offload_eq_send_params
    <3>5. /\ e \in FxContext /\ e.state = c.state /\ e.out = c.out /\ e.ctl = c.ctl
          /\ e.flag = c.flag /\ e.tempOff = c.tempOff /\ e.par = e.val
          /\ e.val \in [Bands -> Int] /\ e.preset # INVALID_PRESET
      BY <1>1, <3>2, <3>3 DEF FxContext
    <3>6. k \notin StrengthKinds
      BY <1>3 DEF StrengthKinds
    <3> HIDE DEF c, e
    <3> QED
      BY <3>4, <3>5, <3>6, SettingSent DEF c
  <2>3. CASE p \in [set : {"band"}, band : Bands, level : BandLevels]
    <3>1. p.set = "band" /\ p.band \in Bands /\ p.level \in BandLevels
      BY <2>3
    <3>2. n = equalizer_set_band_level(w, p.band, p.level)
      BY <2>1, <3>1 DEF equalizer_set_parameter
    <3> QED
      BY <1>3, <3>1, <3>2, BandKeeps
  <2>4. CASE p \in [set : {"bands"}, level : BandLevels]
    <3> DEFINE v == equalizer_set_band_level(w, 1, p.level)
    <3>1. p.set = "bands" /\ p.level \in BandLevels /\ 1 \in Bands /\ 2 \in Bands
      BY <2>4 DEF Bands
    <3>2. n = equalizer_set_band_level(v, 2, p.level)
      BY <2>1, <3>1 DEF equalizer_set_parameter
    <3>3. Keeps(w, v, "eq") /\ "eq" \in DOMAIN v.fx
      BY <1>3, <3>1, BandKeeps
    <3> HIDE DEF v
    <3>4. Keeps(v, n, "eq")
      BY <3>1, <3>2, <3>3, BandKeeps DEF Keeps
    <3> QED
      BY <1>3, <3>3, <3>4, TouchesTwice DEF Keeps
  <2> QED
    BY <2>1, <2>2, <2>3, <2>4 DEF Settings
<1>4. k # "eq" => p.strength \in Strengths
  BY DEF Settings
<1> DEFINE s == p.strength
<1>5. k # "eq" => s \in FxValues /\ s \in Int \cup Strengths
  BY <1>4 DEF FxValues
<1>6. CASE k \in StrengthKinds
  <2> DEFINE e == [c EXCEPT !.val = s, !.par = s]
  <2>1. k # "eq" /\ k \notin ReverbKinds
    BY <1>6 DEF StrengthKinds, ReverbKinds
  <2>2. n = Send(set_strength(w, k, s), k, TRUE)
    BY <1>6 DEF OpsSetParameter, StrengthKinds, bassboost_set_parameter,
                virtualizer_set_parameter, offload_bassboost_send_params,
                offload_virtualizer_send_params
  <2>3. set_strength(w, k, s) = PutFx(w, k, e)
    <3> DEFINE e1 == [c EXCEPT !.val = s]
               w1 == [w EXCEPT !.fx[k].val = s]
    <3>1. e1 \in FxContext /\ e \in FxContext /\ e = [e1 EXCEPT !.par = s]
      BY <1>1, <1>5, <2>1 DEF FxContext
    <3>2. w1 = PutFx(w, k, e1)
      BY DEF PutFx
    <3>3. w1.fx[k] = e1 /\ PutFx(w1, k, e) = PutFx(w, k, e)
      <4> HIDE DEF e1, e, w1
      <4> QED
        BY <3>1, <3>2, ContextRewritten DEF Rewritten
    <3>4. [w1 EXCEPT !.fx[k].par = s] = PutFx(w1, k, e)
      BY <3>1, <3>3 DEF PutFx
    <3>5. set_strength(w, k, s) = [w1 EXCEPT !.fx[k].par = s]
      BY DEF set_strength
    <3> QED
      BY <3>3, <3>4, <3>5
  <2>4. /\ e \in FxContext /\ e.state = c.state /\ e.out = c.out /\ e.ctl = c.ctl
        /\ e.flag = c.flag /\ e.tempOff = c.tempOff /\ e.par = e.val /\ e.preset = c.preset
    BY <1>1, <1>5, <2>1 DEF FxContext
  <2> HIDE DEF c, e
  <2> QED
    BY <2>1, <2>2, <2>3, <2>4, SettingSent DEF c
<1>7. CASE k = "insert_reverb"
  <2> DEFINE e1 == [c EXCEPT !.val = s]
             e2 == [e1 EXCEPT !.preset = s]
             par == IF s = REVERB_PRESET_NONE THEN c.par ELSE s
             e3 == [e2 EXCEPT !.par = par]
             e == [e3 EXCEPT !.flag = (s # REVERB_PRESET_NONE)]
             w1 == [w EXCEPT !.fx[k].val = s]
             w2 == [w1 EXCEPT !.fx[k].preset = s]
             w3 == [w2 EXCEPT !.fx[k].par = par]
             w4 == [w3 EXCEPT !.fx[k].flag = (s # REVERB_PRESET_NONE)]
  <2>1. k # "eq" /\ k \notin StrengthKinds /\ k \in ReverbKinds
    BY <1>7 DEF StrengthKinds, ReverbKinds
  <2>2. n = Send(w4, k, TRUE)
    BY <1>7 DEF OpsSetParameter, reverb_set_parameter, reverb_set_preset,
                offload_reverb_send_params
  <2>3. /\ e1 \in FxContext /\ e2 \in FxContext /\ e3 \in FxContext /\ e \in FxContext
        /\ e2.par = c.par /\ par \in FxValues
    BY <1>1, <1>5, <2>1 DEF FxContext
  <2>4. w1 = PutFx(w, k, e1)
    BY DEF PutFx
  <2>5. w2 = PutFx(w, k, e2)
    <3>1. w1.fx[k] = e1 /\ PutFx(w1, k, e2) = PutFx(w, k, e2)
      <4> HIDE DEF e1, e2, w1
      <4> QED
        BY <2>3, <2>4, ContextRewritten DEF Rewritten
    <3> QED
      BY <3>1 DEF PutFx
  <2>6. w3 = PutFx(w, k, e3)
    <3>1. w2.fx[k] = e2 /\ PutFx(w2, k, e3) = PutFx(w, k, e3)
      <4> HIDE DEF e2, e3, w2
      <4> QED
        BY <2>3, <2>5, ContextRewritten DEF Rewritten
    <3> HIDE DEF par, e2, w2
    <3> QED
      BY <3>1 DEF PutFx
  <2>7. w4 = PutFx(w, k, e)
    <3>1. w3.fx[k] = e3 /\ PutFx(w3, k, e) = PutFx(w, k, e)
      <4> HIDE DEF e3, e, w3
      <4> QED
        BY <2>3, <2>6, ContextRewritten DEF Rewritten
    <3> HIDE DEF e3, w3
    <3> QED
      BY <3>1 DEF PutFx
  <2>8. e.state = c.state /\ e.out = c.out /\ e.ctl = c.ctl /\ e.tempOff = c.tempOff
    BY <1>1 DEF FxContext
  <2> HIDE DEF c, e, w4
  <2> QED
    BY <2>1, <2>2, <2>3, <2>7, <2>8, SettingSent DEF c
<1>8. CASE k = "aux_reverb"
  <2> DEFINE e1 == [c EXCEPT !.val = s]
             e == [e1 EXCEPT !.par = s]
             w1 == [w EXCEPT !.fx[k].val = s]
             w2 == [w1 EXCEPT !.fx[k].par = s]
  <2>1. k # "eq" /\ k \notin StrengthKinds /\ k \in ReverbKinds
    BY <1>8 DEF StrengthKinds, ReverbKinds
  <2>2. n = Send(w2, k, TRUE)
    BY <1>8 DEF OpsSetParameter, reverb_set_parameter, reverb_set_level,
                offload_reverb_send_params
  <2>3. e1 \in FxContext /\ e \in FxContext
    BY <1>1, <1>5, <2>1 DEF FxContext
  <2>4. w1 = PutFx(w, k, e1)
    BY DEF PutFx
  <2>5. w2 = PutFx(w, k, e)
    <3>1. w1.fx[k] = e1 /\ PutFx(w1, k, e) = PutFx(w, k, e)
      <4> HIDE DEF e1, e, w1
      <4> QED
        BY <2>3, <2>4, ContextRewritten DEF Rewritten
    <3> QED
      BY <3>1 DEF PutFx
  <2>6. e.state = c.state /\ e.out = c.out /\ e.ctl = c.ctl /\ e.tempOff = c.tempOff
    BY <1>1 DEF FxContext
  <2> HIDE DEF c, e, w2
  <2> QED
    BY <2>1, <2>2, <2>3, <2>5, <2>6, SettingSent DEF c
<1> QED
  BY <1>1, <1>3, <1>6, <1>7, <1>8 DEF ReverbKinds

(* An effect that has come to an output, which knows it, but was not       *)
(* started on it: everything is off.                                       *)
Arrived(w, k, output) ==
  /\ k \in DOMAIN w.fx /\ output \in DOMAIN w.outs /\ w.fx[k].out = output
  /\ FlagRight(w.fx[k], k) /\ k \in w.outs[output].fx
  /\ \A o \in DOMAIN w.outs : /\ k \notin ReverbKinds => ~w.outs[o].dsp[k].on
                              /\ o # output => k \notin w.outs[o].fx
StartLeaves(w, k, output, n) ==
  /\ Keeps(w, n, k) /\ k \in DOMAIN n.fx /\ n.fx[k] = [w.fx[k] EXCEPT !.ctl = output]
  /\ \A o \in DOMAIN w.outs :
       n.outs[o].fx = w.outs[o].fx /\ (o # output => n.outs[o] = w.outs[o])

(* start of an effect that has arrived.                                    *)
LEMMA StartKeeps ==
  ASSUME NEW w, FxWorld(w), NEW k, NEW output, Arrived(w, k, output),
         NEW n, n = OpsStart(w, k, output)
  PROVE  StartLeaves(w, k, output, n)
<1> DEFINE c == w.fx[k]
           e == [c EXCEPT !.ctl = output]
           v == PutFx(w, k, e)
<1> k \in DOMAIN w.fx
  BY DEF Arrived
<1>1. c \in FxContext /\ k \in {"eq"} \cup StrengthKinds \cup ReverbKinds
  BY ContextOf
<1>2. output \in FxOutputs
  BY DEF Arrived, FxWorld
<1>3. /\ e \in FxContext /\ e.out = c.out /\ e.ctl = output /\ e.par = c.par /\ e.val = c.val
      /\ e.flag = c.flag /\ e.tempOff = c.tempOff /\ e.preset = c.preset /\ e.state = c.state
  BY <1>1, <1>2 DEF FxContext
<1>4. v = [w EXCEPT !.fx[k].ctl = output]
  BY DEF PutFx
<1> e = [c EXCEPT !.ctl = output]
  OBVIOUS
<1> HIDE DEF c, e, v
<1>5. /\ FxWorld(v) /\ v.outs = w.outs /\ v.fx[k] = e /\ k \in DOMAIN v.fx /\ Touches(w, v, k)
  <2>1. ContextPut(w, k, e, v)
    BY <1>3, PutContext DEF v
  <2> QED
    BY <2>1 DEF ContextPut
<1>6. PutFx(v, k, e) = v
  BY <1>3, PutTwice DEF v
<1>7. n = IF e.flag /\ k # "aux_reverb" THEN Send(v, k, TRUE) ELSE v
  <2>1. CASE k = "eq"
    BY <1>4, <1>5, <2>1 DEF OpsStart, equalizer_start, offload_eq_send_params
  <2>2. CASE k \in StrengthKinds
    BY <1>4, <1>5, <2>2 DEF OpsStart, StrengthKinds, strength_start, bassboost_start,
                            virtualizer_start
  <2>3. CASE k \in ReverbKinds
    BY <1>4, <1>5, <2>3 DEF OpsStart, ReverbKinds, reverb_start, offload_reverb_send_params
  <2> QED
    BY <1>1, <2>1, <2>2, <2>3
<1>8. /\ c.out = output /\ output \in DOMAIN w.outs /\ FlagRight(c, k) /\ k \in w.outs[output].fx
      /\ \A o \in DOMAIN w.outs : /\ k \notin ReverbKinds => ~w.outs[o].dsp[k].on
                                  /\ o # output => k \notin w.outs[o].fx
  BY DEF Arrived, c
<1>9. Placed(v, k)
  BY <1>3, <1>5, <1>8 DEF Placed, Absent
<1>10. FlagRight(e, k)
  BY <1>3, <1>8 DEF FlagRight
<1>11. Changed(v, k, e, n)
  <2>1. CASE e.flag /\ k # "aux_reverb"
    <3>1. n = Send(PutFx(v, k, e), k, TRUE)
      BY <1>6, <1>7, <2>1
    <3>2. \A o \in DOMAIN v.outs : k \notin ReverbKinds => ~v.outs[o].dsp[k].on
      BY <1>5, <1>8
    <3> QED
      BY <1>3, <1>5, <1>9, <1>10, <3>1, <3>2, ChangeAndSend
  <2>2. CASE ~e.flag \/ k = "aux_reverb"
    <3>1. n = PutFx(v, k, e)
      BY <1>6, <1>7, <2>2
    <3>2. k = "aux_reverb" => k \in ReverbKinds
      BY DEF ReverbKinds
    <3>3. \A o \in DOMAIN v.outs : e.out = o => Told(e, v.outs[o].dsp[k], k)
      BY <1>5, <1>8, <2>2, <3>2 DEF Told
    <3> QED
      BY <1>3, <1>5, <1>9, <1>10, <3>1, <3>3, ChangeQuietly
  <2> QED
    BY <2>1, <2>2
<1>12. Touches(w, n, k)
  BY <1>5, <1>11, TouchesTwice DEF Changed, Keeps
<1> QED
  BY <1>3, <1>5, <1>11, <1>12 DEF Changed, Keeps, StartLeaves, c

(* An effect on no output, and what removing it from its output leaves.    *)
Loose(w, k) ==
  /\ k \in DOMAIN w.fx /\ w.fx[k].ctl = FxNone /\ FlagRight(w.fx[k], k)
  /\ \A o \in DOMAIN w.outs : Absent(w.outs[o], k)

(* add_effect_to_output.                                                   *)
LEMMA AddKeeps ==
  ASSUME NEW w, FxWorld(w), NEW k, Loose(w, k), NEW output, output = w.fx[k].out,
         NEW n, n = add_effect_to_output(w, output, k)
  PROVE  Keeps(w, n, k)
<1> k \in DOMAIN w.fx
  BY DEF Loose
<1>1. w.fx[k].ctl = FxNone /\ FlagRight(w.fx[k], k)
  BY DEF Loose
<1>2. \A o \in DOMAIN w.outs : /\ k \notin w.outs[o].fx
                               /\ k \notin ReverbKinds => ~w.outs[o].dsp[k].on
  BY DEF Loose, Absent
<1>3. k \in mix
  BY DEF FxWorld
<1>4. CASE output \notin DOMAIN w.outs
  <2>1. n = w
    BY <1>4 DEF add_effect_to_output
  <2>2. Placed(w, k)
    BY <1>1, <1>2, <1>4 DEF Placed, Absent
  <2>3. KindRight(w, k)
    BY <1>1, <1>4, <2>2 DEF KindRight
  <2> QED
    BY <2>1, <2>3 DEF Keeps, Touches
<1>5. CASE output \in DOMAIN w.outs
  <2> DEFINE port == [w.outs[output] EXCEPT !.fx = @ \cup {k}]
             v == [w EXCEPT !.outs[output].fx = @ \cup {k}]
  <2>1. n = OpsStart(v, k, output)
    BY <1>2, <1>5 DEF add_effect_to_output
  <2>2. w.outs[output] \in FxOutput
    BY <1>5 DEF FxWorld
  <2>3. /\ port \in FxOutput /\ port.dsp = w.outs[output].dsp
        /\ port.fx = w.outs[output].fx \cup {k}
    BY <1>3, <2>2 DEF FxOutput
  <2>4. v = [fx |-> w.fx, outs |-> [w.outs EXCEPT ![output] = port]]
    BY DEF FxWorld
  <2> HIDE DEF port, v
  <2>5. /\ v.fx = w.fx /\ v.outs = [w.outs EXCEPT ![output] = port]
        /\ v = [fx |-> v.fx, outs |-> v.outs]
    BY <2>4
  <2>6. /\ DOMAIN v.outs = DOMAIN w.outs /\ v.outs[output] = port
        /\ \A o \in DOMAIN w.outs \ {output} : v.outs[o] = w.outs[o]
        /\ v.outs \in [DOMAIN v.outs -> FxOutput]
    BY <1>5, <2>3, <2>5 DEF FxWorld
  <2>7. FxWorld(v)
    BY <2>5, <2>6 DEF FxWorld
  <2>8. Touches(w, v, k)
    BY <2>3, <2>5, <2>6 DEF Touches
  <2>9. Arrived(v, k, output)
    <3>1. v.outs[output].dsp = w.outs[output].dsp /\ k \in v.outs[output].fx
      BY <2>3, <2>6
    <3>2. ASSUME NEW o \in DOMAIN v.outs
          PROVE  /\ k \notin ReverbKinds => ~v.outs[o].dsp[k].on
                 /\ o # output => k \notin v.outs[o].fx
      BY <1>2, <1>5, <2>6, <3>1
    <3>3. /\ k \in DOMAIN v.fx /\ output \in DOMAIN v.outs /\ v.fx[k].out = output
          /\ FlagRight(v.fx[k], k)
      BY <1>1, <1>5, <2>5, <2>6
    <3> QED
      BY <3>1, <3>2, <3>3 DEF Arrived
  <2>10. StartLeaves(v, k, output, n)
    BY <2>1, <2>7, <2>9, StartKeeps
  <2> QED
    BY <2>8, <2>10, TouchesTwice DEF StartLeaves, Keeps
<1> QED
  BY <1>4, <1>5

(* stop of any effect.                                                     *)
LEMMA StopWrites ==
  ASSUME NEW w, FxWorld(w), NEW k \in DOMAIN w.fx, NEW n, n = OpsStop(w, k)
  PROVE  /\ n = PutFx(w, k, [w.fx[k] EXCEPT !.ctl = FxNone])
         /\ [w.fx[k] EXCEPT !.ctl = FxNone] \in FxContext
<1>1. w.fx[k] \in FxContext /\ k \in {"eq"} \cup StrengthKinds \cup ReverbKinds
  BY ContextOf
<1>2. [w.fx[k] EXCEPT !.ctl = FxNone] \in FxContext
  BY <1>1 DEF FxContext
<1>3. n = [w EXCEPT !.fx[k].ctl = FxNone]
  BY <1>1 DEF OpsStop, equalizer_stop, bassboost_stop, virtualizer_stop, reverb_stop, ReverbKinds,
              StrengthKinds
<1> QED
  BY <1>2, <1>3 DEF PutFx

(* What removing an effect from its output leaves.                         *)
Removed(w, k, n) ==
  /\ FxWorld(n) /\ Touches(w, n, k) /\ Loose(n, k)
  /\ n.fx[k] = [w.fx[k] EXCEPT !.ctl = FxNone]

(* remove_effect_from_output, of an effect that is disabled or whose       *)
(* output does not run.                                                    *)
LEMMA RemoveLoosens ==
  ASSUME NEW w, FxWorld(w), NEW k \in DOMAIN w.fx, KindRight(w, k), NEW output,
         output = w.fx[k].out, w.fx[k].state # "ACTIVE" \/ output \notin DOMAIN w.outs,
         NEW n, n = remove_effect_from_output(w, output, k)
  PROVE  Removed(w, k, n)
<1> DEFINE c == w.fx[k]
           e == [c EXCEPT !.ctl = FxNone]
           v == OpsStop(w, k)
<1>1. /\ c \in FxContext /\ k \in {"eq"} \cup StrengthKinds \cup ReverbKinds
      /\ Placed(w, k) /\ FlagRight(c, k)
      /\ \A o \in DOMAIN w.outs : c.out # o => Absent(w.outs[o], k)
      /\ (c.preset = INVALID_PRESET \/ ~c.flag) /\ k \notin ReverbKinds =>
           \A o \in DOMAIN w.outs : ~w.outs[o].dsp[k].on
  BY RightContext
<1>2. /\ e \in FxContext /\ e.out = c.out /\ e.ctl = FxNone /\ e.par = c.par /\ e.val = c.val
      /\ e.flag = c.flag /\ e.tempOff = c.tempOff /\ e.preset = c.preset /\ e.state = c.state
  <2>1. FxNone \in FxOutputs \cup {FxNone}
    OBVIOUS
  <2> QED
    BY <1>1, <2>1 DEF FxContext
<1>3. FlagRight(e, k)
  BY <1>1, <1>2 DEF FlagRight
<1>4. CASE output \notin DOMAIN w.outs
  <2>1. n = w
    BY <1>4 DEF remove_effect_from_output
  <2>2. c.ctl = FxNone
    BY <1>1, <1>4 DEF Placed
  <2>3. e = c
    BY <1>1, <2>2 DEF FxContext
  <2>4. \A o \in DOMAIN w.outs : Absent(w.outs[o], k)
    BY <1>1, <1>4
  <2>5. Loose(w, k)
    BY <1>1, <2>2, <2>4 DEF Loose
  <2> QED
    BY <2>1, <2>3, <2>5 DEF Removed, Touches
<1>5. CASE output \in DOMAIN w.outs
  <2> DEFINE port == [v.outs[output] EXCEPT !.fx = @ \ {k}]
  <2>1. k \in w.outs[output].fx /\ k \in mix
    BY <1>1, <1>5 DEF Placed, FxWorld
  <2>2. n = [v EXCEPT !.outs[output].fx = @ \ {k}]
    BY <1>5, <2>1 DEF remove_effect_from_output
  <2>3. /\ FxWorld(v) /\ v.outs = w.outs /\ v.fx[k] = e /\ k \in DOMAIN v.fx
        /\ Touches(w, v, k)
    <3>1. v = PutFx(w, k, e)
      BY StopWrites
    <3> HIDE DEF v, e
    <3>2. ContextPut(w, k, e, v)
      BY <1>2, <3>1, PutContext
    <3> QED
      BY <3>2 DEF ContextPut
  <2> HIDE DEF v, e
  <2>4. v.outs[output] \in FxOutput
    BY <1>5, <2>3 DEF FxWorld
  <2>5. /\ port \in FxOutput /\ port.dsp = v.outs[output].dsp
        /\ port.fx = v.outs[output].fx \ {k}
    BY <2>4 DEF FxOutput
  <2>6. n = [fx |-> v.fx, outs |-> [v.outs EXCEPT ![output] = port]]
    BY <2>2, <2>3 DEF FxWorld
  <2> HIDE DEF port
  <2>7. /\ n.fx = v.fx /\ n.outs = [v.outs EXCEPT ![output] = port]
        /\ n = [fx |-> n.fx, outs |-> n.outs]
    BY <2>6
  <2>8. /\ DOMAIN n.outs = DOMAIN v.outs /\ n.outs[output] = port
        /\ \A o \in DOMAIN v.outs \ {output} : n.outs[o] = v.outs[o]
        /\ n.outs \in [DOMAIN n.outs -> FxOutput]
    BY <1>5, <2>3, <2>5, <2>7 DEF FxWorld
  <2>9. FxWorld(n)
    BY <2>3, <2>7, <2>8 DEF FxWorld
  <2>10. Touches(v, n, k)
    BY <2>5, <2>7, <2>8 DEF Touches
  <2>11. Touches(w, n, k)
    BY <2>3, <2>10, TouchesTwice
  <2>12. ~c.flag \/ k \in ReverbKinds
    <3>1. c.state # "ACTIVE"
      BY <1>5
    <3> HIDE DEF c
    <3> QED
      BY <1>1, <3>1 DEF FlagRight
  <2>13. \A o \in DOMAIN n.outs : Absent(n.outs[o], k)
    <3>1. ASSUME NEW o \in DOMAIN n.outs, o # output PROVE Absent(n.outs[o], k)
      BY <1>1, <2>3, <2>8, <3>1
    <3>2. Absent(n.outs[output], k)
      <4>1. k \notin n.outs[output].fx /\ n.outs[output].dsp = w.outs[output].dsp
        BY <2>3, <2>5, <2>8
      <4>2. k \notin ReverbKinds => ~w.outs[output].dsp[k].on
        BY <1>1, <1>5, <2>12
      <4> QED
        BY <4>1, <4>2 DEF Absent
    <3> QED
      BY <3>1, <3>2
  <2>14. n.fx[k] = e /\ k \in DOMAIN n.fx
    BY <2>3, <2>7
  <2>15. Loose(n, k)
    BY <1>2, <1>3, <2>13, <2>14 DEF Loose
  <2> QED
    BY <2>9, <2>11, <2>14, <2>15 DEF Removed, e
<1> QED
  BY <1>4, <1>5

(* OFFLOAD: an effect that is enabled does not leave a running output.     *)
LEMMA MoveKeeps ==
  ASSUME NEW w, FxWorld(w), NEW k \in DOMAIN w.fx, KindRight(w, k), NEW output \in FxOutputs,
         w.fx[k].state = "ACTIVE" /\ output # w.fx[k].out => w.fx[k].out \notin DOMAIN w.outs,
         NEW n, n = MoveEffect(w, k, output)
  PROVE  Keeps(w, n, k)
<1> DEFINE c == w.fx[k]
           v == remove_effect_from_output(w, c.out, k)
           d == [c EXCEPT !.ctl = FxNone]
           e == [d EXCEPT !.out = output]
           u == [v EXCEPT !.fx[k].out = output]
<1>1. CASE c.out = output
  <2>1. n = w
    BY <1>1 DEF MoveEffect
  <2> QED
    BY <2>1 DEF Keeps, Touches
<1>2. CASE c.out # output
  <2>1. n = add_effect_to_output(u, output, k)
    BY <1>2 DEF MoveEffect
  <2>2. Removed(w, k, v)
    BY <1>2, RemoveLoosens
  <2>3. c \in FxContext
    BY ContextOf
  <2> HIDE DEF v, c
  <2>4. FxNone \in FxOutputs \cup {FxNone}
    OBVIOUS
  <2>5. d \in FxContext /\ e \in FxContext
    BY <2>3, <2>4 DEF FxContext
  <2>6. /\ e.out = output /\ e.ctl = FxNone /\ e.par = d.par /\ e.val = d.val
        /\ e.flag = d.flag /\ e.tempOff = d.tempOff /\ e.preset = d.preset /\ e.state = d.state
    BY <2>3 DEF FxContext
  <2>7. v.fx[k] = d /\ k \in DOMAIN v.fx /\ FxWorld(v)
    BY <2>2 DEF Removed, Loose, c
  <2>8. u = PutFx(v, k, e)
    BY <2>7 DEF PutFx
  <2> HIDE DEF d, e, u
  <2>9. ContextPut(v, k, e, u)
    BY <2>5, <2>7, <2>8, PutContext
  <2>10. FxWorld(u) /\ u.outs = v.outs /\ u.fx[k] = e /\ k \in DOMAIN u.fx /\ Touches(v, u, k)
    BY <2>9 DEF ContextPut
  <2>11. FlagRight(e, k)
    <3>1. FlagRight(d, k)
      BY <2>2, <2>7 DEF Removed, Loose
    <3> QED
      BY <2>6, <3>1 DEF FlagRight
  <2>12. Loose(u, k)
    BY <2>2, <2>6, <2>10, <2>11 DEF Removed, Loose
  <2>13. Keeps(u, n, k)
    BY <2>1, <2>6, <2>10, <2>12, AddKeeps
  <2>14. Touches(w, u, k)
    BY <2>2, <2>10, TouchesTwice DEF Removed
  <2> QED
    BY <2>13, <2>14, TouchesTwice DEF Keeps
<1> QED
  BY <1>1, <1>2

(* A world in which every kind is right, of the next state.                *)
LEMMA RightWorldNext ==
  ASSUME NEW n, FxWorld(n), \A k \in mix : KindRight(n, k), Becomes(n)
  PROVE  FxInv'
<1>1. n = [fx |-> n.fx, outs |-> n.outs]
  BY DEF FxWorld
<1>2. World' = n /\ mix' = mix
  BY <1>1 DEF World, Becomes, fxVars
<1>3. FxWorld(World)'
  BY <1>2 DEF FxWorld, FxOutput, FxModule
<1>4. \A k \in mix : KindRight(n, k)
  OBVIOUS
<1>5. (\A k \in mix : KindRight(World, k))'
  BY <1>2, <1>4
<1> QED
  BY <1>3, <1>5 DEF FxInv

(* A call of one effect.                                                   *)
LEMMA KeepsNext ==
  ASSUME FxInv, NEW k \in mix, NEW n, Keeps(World, n, k), Becomes(n)
  PROVE  FxInv'
<1>1. \A j \in mix : KindRight(n, j)
  BY OthersStay DEF Keeps, FxInv
<1> QED
  BY <1>1, RightWorldNext DEF Keeps

(* A new context.                                                          *)
LEMMA ContextRight ==
  ASSUME NEW k \in {"eq"} \cup StrengthKinds \cup ReverbKinds, NEW output \in FxOutputs
  PROVE  LET e == NewContext(k, output)
         IN e \in FxContext /\ FlagRight(e, k) /\ e.out = output /\ e.ctl = FxNone
<1>1. INVALID_PRESET \in Int /\ PRESET_CUSTOM \in Int /\ REVERB_PRESET_NONE \in Int
  BY DEF INVALID_PRESET, PRESET_CUSTOM, REVERB_PRESET_NONE
<1>2. Silent(k) \in FxValues
  <2>1. k = "eq" => Silent(k) \in [Bands -> Int]
    BY DEF Silent
  <2>2. k # "eq" => Silent(k) \in Strengths
    BY OffloadEffectsAssumption DEF Silent
  <2> QED
    BY <2>1, <2>2 DEF FxValues
<1>3. PICK q \in {INVALID_PRESET, PRESET_CUSTOM, REVERB_PRESET_NONE} :
        NewContext(k, output) = Context(k, output, q) /\ (k \in StrengthKinds => q = PRESET_CUSTOM)
  BY DEF NewContext, equalizer_init, bassboost_init, virtualizer_init, reverb_init,
         StrengthKinds, ReverbKinds
<1>4. q \in Int \cup Strengths /\ FxNone \in FxOutputs \cup {FxNone}
  BY <1>1, <1>3
<1>5. NewContext(k, output) \in FxContext
  BY <1>2, <1>3, <1>4 DEF Context, FxContext
<1>6. k = "eq" => Silent(k) \in [Bands -> Int]
  BY DEF Silent
<1>7. FlagRight(NewContext(k, output), k)
  BY <1>3, <1>6 DEF FlagRight, Context, StrengthKinds
<1> QED
  BY <1>3, <1>5, <1>7 DEF Context

(* effect_lib_create.                                                      *)
LEMMA CreateNext ==
  ASSUME FxInv, NEW k \in mix, NEW output \in FxOutputs, effect_lib_create(k, output)
  PROVE  FxInv'
<1> DEFINE e == NewContext(k, output)
           w == [fx |-> With(fx, k, e), outs |-> outs]
           n == add_effect_to_output(w, output, k)
<1>1. k \notin DOMAIN fx /\ Becomes(n) /\ KindRight(World, k) /\ FxWorld(World)
  BY DEF effect_lib_create, FxInv
<1>2. k \in {"eq"} \cup StrengthKinds \cup ReverbKinds
  BY <1>1, OffloadEffectsAssumption DEF FxWorld
<1>3. e \in FxContext /\ FlagRight(e, k) /\ e.out = output /\ e.ctl = FxNone
  BY <1>2, ContextRight
<1> HIDE DEF e
<1>4. /\ w.outs = outs /\ DOMAIN w.fx = DOMAIN fx \cup {k} /\ w.fx[k] = e
      /\ \A j \in DOMAIN fx : w.fx[j] = fx[j]
      /\ w = [fx |-> w.fx, outs |-> w.outs]
  BY <1>1 DEF With
<1>5. w.fx \in [DOMAIN w.fx -> FxContext]
  BY <1>1, <1>3 DEF With, FxWorld, World
<1> HIDE DEF w
<1>6. FxWorld(w)
  BY <1>1, <1>4, <1>5 DEF FxWorld, World
<1>7. Touches(World, w, k)
  BY <1>4 DEF Touches, World
<1>8. Loose(w, k)
  <2>1. \A o \in DOMAIN outs : Absent(outs[o], k)
    BY <1>1 DEF KindRight, Placed, World
  <2> QED
    BY <1>3, <1>4, <2>1 DEF Loose
<1>9. Keeps(w, n, k)
  BY <1>3, <1>4, <1>6, <1>8, AddKeeps
<1> HIDE DEF n
<1>10. Keeps(World, n, k)
  BY <1>7, <1>9, TouchesTwice DEF Keeps
<1> QED
  BY <1>1, <1>10, KeepsNext

(* effect_lib_release.                                                     *)
LEMMA ReleaseNext ==
  ASSUME FxInv, NEW k \in DOMAIN fx, effect_lib_release(k)
  PROVE  FxInv'
<1> DEFINE w == remove_effect_from_output(World, fx[k].out, k)
           n == [w EXCEPT !.fx = Without(w.fx, k)]
<1>1. World.fx = fx /\ World.outs = outs /\ FxWorld(World) /\ k \in mix
  BY DEF World, FxInv, FxWorld
<1>2. fx[k].state # "ACTIVE" /\ Becomes(n) /\ KindRight(World, k)
  BY <1>1 DEF effect_lib_release, FxInv
<1>3. Removed(World, k, w)
  BY <1>1, <1>2, RemoveLoosens
<1> HIDE DEF w
<1>4. FxWorld(w) /\ Touches(World, w, k) /\ \A o \in DOMAIN w.outs : Absent(w.outs[o], k)
  BY <1>3 DEF Removed, Loose
<1>5. n = [fx |-> Without(w.fx, k), outs |-> w.outs]
  BY <1>4 DEF FxWorld
<1> HIDE DEF n
<1>6. /\ n.outs = w.outs /\ DOMAIN n.fx = DOMAIN w.fx \ {k}
      /\ \A j \in DOMAIN n.fx : n.fx[j] = w.fx[j]
      /\ n = [fx |-> n.fx, outs |-> n.outs]
  BY <1>5 DEF Without
<1>7. n.fx \in [DOMAIN n.fx -> FxContext]
  BY <1>4, <1>5, <1>6 DEF Without, FxWorld
<1>8. FxWorld(n)
  BY <1>4, <1>6, <1>7 DEF FxWorld
<1>9. Touches(w, n, k)
  BY <1>4, <1>6 DEF Touches
<1>10. KindRight(n, k)
  BY <1>4, <1>6 DEF KindRight, Placed
<1>11. Keeps(World, n, k)
  BY <1>4, <1>8, <1>9, <1>10, TouchesTwice DEF Keeps
<1> QED
  BY <1>1, <1>2, <1>11, KeepsNext

(* The commands of one effect.                                             *)
LEMMA CommandNext ==
  ASSUME FxInv, NEW k \in DOMAIN fx,
         \/ EnableCommand(k) \/ DisableCommand(k) \/ SetParamCommand(k)
         \/ SetDeviceCommand(k) \/ OffloadCommand(k)
  PROVE  FxInv'
<1>1. World.fx = fx /\ World.outs = outs /\ FxWorld(World) /\ k \in mix
  BY DEF World, FxInv, FxWorld
<1>2. KindRight(World, k) /\ k \in DOMAIN World.fx
  BY <1>1 DEF FxInv
<1>3. CASE EnableCommand(k)
  <2> DEFINE n == OpsEnable([World EXCEPT !.fx[k].state = "ACTIVE"], k)
  <2>1. World.fx[k].state = "INITIALIZED" /\ Becomes(n)
    BY <1>1, <1>3 DEF EnableCommand
  <2>2. Keeps(World, n, k)
    BY <1>1, <1>2, <2>1, EnableKeeps
  <2> HIDE DEF n
  <2> QED
    BY <1>1, <2>1, <2>2, KeepsNext
<1>4. CASE DisableCommand(k)
  <2> DEFINE n == OpsDisable([World EXCEPT !.fx[k].state = "INITIALIZED"], k)
  <2>1. World.fx[k].state = "ACTIVE" /\ Becomes(n)
    BY <1>1, <1>4 DEF DisableCommand
  <2>2. Keeps(World, n, k)
    BY <1>1, <1>2, <2>1, DisableKeeps
  <2> HIDE DEF n
  <2> QED
    BY <1>1, <2>1, <2>2, KeepsNext
<1>5. CASE SetParamCommand(k)
  <2>1. PICK p \in Settings(k) : Becomes(OpsSetParameter(World, k, p))
    BY <1>5 DEF SetParamCommand
  <2>2. Keeps(World, OpsSetParameter(World, k, p), k)
    BY <1>1, <1>2, SetParamKeeps
  <2> QED
    BY <1>1, <2>1, <2>2, KeepsNext
<1>6. CASE SetDeviceCommand(k)
  <2>1. PICK speaker \in BOOLEAN : Becomes(OpsSetDevice(World, k, speaker))
    BY <1>6 DEF SetDeviceCommand
  <2>2. Keeps(World, OpsSetDevice(World, k, speaker), k)
    BY <1>1, <1>2, SetDeviceKeeps
  <2> QED
    BY <1>1, <2>1, <2>2, KeepsNext
<1>7. CASE OffloadCommand(k)
  <2>1. PICK output \in FxOutputs :
          /\ World.fx[k].state = "ACTIVE" /\ output # World.fx[k].out =>
               World.fx[k].out \notin DOMAIN World.outs
          /\ Becomes(MoveEffect(World, k, output))
    BY <1>1, <1>7 DEF OffloadCommand
  <2>2. Keeps(World, MoveEffect(World, k, output), k)
    BY <1>1, <1>2, <2>1, MoveKeeps
  <2> QED
    BY <1>1, <2>1, <2>2, KeepsNext
<1> QED
  BY <1>3, <1>4, <1>5, <1>6, <1>7

(* What is heard of a module that has been told nothing.                   *)
LEMMA SilentValue == ASSUME NEW k \in {"eq"} \cup StrengthKinds \cup ReverbKinds
                     PROVE  Silent(k) \in FxValues
<1>1. k = "eq" => Silent(k) \in [Bands -> Int]
  BY DEF Silent
<1>2. k # "eq" => Silent(k) \in Strengths
  BY OffloadEffectsAssumption DEF Silent
<1> QED
  BY <1>1, <1>2 DEF FxValues

(* start_output: every effect of the output starts on the new mixer.       *)
LEMMA StartOutputNext ==
  ASSUME FxInv, NEW output \in FxOutputs, output \notin DOMAIN outs,
         Becomes(Started(Opened(output), output))
  PROVE  FxInv'
<1> DEFINE w == Opened(output)
           n == Started(w, output)
           Own(k) == OpsStart(w, k, output)
           attached == {k \in DOMAIN fx : fx[k].out = output}
           new == [fx |-> attached, dsp |-> NewDsp]
<1>1. /\ FxWorld(World) /\ World.fx = fx /\ World.outs = outs
      /\ DOMAIN fx \subseteq mix /\ fx \in [DOMAIN fx -> FxContext]
      /\ DOMAIN outs \subseteq FxOutputs /\ outs \in [DOMAIN outs -> FxOutput]
      /\ mix \in FxMixes /\ \A k \in mix : k \in {"eq"} \cup StrengthKinds \cup ReverbKinds
  BY OffloadEffectsAssumption DEF FxInv, FxWorld, World
<1>2. ASSUME NEW k \in mix
      PROVE  /\ KindRight(World, k)
             /\ k \in DOMAIN fx => FlagRight(fx[k], k)
             /\ k \in DOMAIN fx =>
                  fx[k].ctl = IF fx[k].out \in DOMAIN outs THEN fx[k].out ELSE FxNone
             /\ \A o \in DOMAIN outs :
                  IF k \in DOMAIN fx /\ fx[k].out = o
                  THEN k \in outs[o].fx /\ Told(fx[k], outs[o].dsp[k], k)
                  ELSE Absent(outs[o], k)
  BY <1>1 DEF FxInv, KindRight, Placed
<1>3. NewDsp \in [mix -> FxModule] /\ \A k \in mix : ~NewDsp[k].on
  <2>1. \A k \in mix : Silent(k) \in FxValues
    BY <1>1, SilentValue
  <2> QED
    BY <2>1 DEF NewDsp, FxModule
<1>4. new \in FxOutput /\ new.fx = attached /\ new.dsp = NewDsp
  BY <1>1, <1>3 DEF FxOutput
<1>5. /\ w.fx = fx /\ w.outs = With(outs, output, new) /\ w = [fx |-> w.fx, outs |-> w.outs]
  BY DEF Opened
<1> HIDE DEF w, n, new
<1>6. /\ DOMAIN w.outs = DOMAIN outs \cup {output} /\ w.outs[output] = new
      /\ \A o \in DOMAIN outs : w.outs[o] = outs[o]
      /\ w.outs \in [DOMAIN w.outs -> FxOutput]
  BY <1>1, <1>4, <1>5 DEF With
<1>7. FxWorld(w)
  BY <1>1, <1>5, <1>6 DEF FxWorld
<1>8. ASSUME NEW k \in attached
      PROVE  /\ FxWorld(Own(k)) /\ KindRight(Own(k), k) /\ k \in DOMAIN Own(k).fx
             /\ Own(k).fx[k] = [fx[k] EXCEPT !.ctl = output]
             /\ DOMAIN Own(k).outs = DOMAIN w.outs
             /\ Own(k).outs[output].dsp[k] \in FxModule
  <2>1. k \in DOMAIN fx /\ fx[k].out = output /\ k \in mix
    BY <1>1
  <2>2. ASSUME NEW o \in DOMAIN w.outs
        PROVE  /\ k \notin ReverbKinds => ~w.outs[o].dsp[k].on
               /\ o # output => k \notin w.outs[o].fx
    <3>1. CASE o = output
      BY <1>3, <1>4, <1>6, <2>1, <3>1
    <3>2. CASE o # output
      <4>1. Absent(outs[o], k)
        BY <1>2, <1>6, <2>1, <3>2
      <4> QED
        BY <1>6, <3>2, <4>1 DEF Absent
    <3> QED
      BY <3>1, <3>2
  <2>3. Arrived(w, k, output)
    BY <1>2, <1>4, <1>5, <1>6, <2>1, <2>2 DEF Arrived
  <2> DEFINE v == Own(k)
  <2>4. StartLeaves(w, k, output, v)
    BY <1>7, <2>3, StartKeeps
  <2> HIDE DEF v
  <2>5. /\ FxWorld(v) /\ KindRight(v, k) /\ k \in DOMAIN v.fx
        /\ v.fx[k] = [fx[k] EXCEPT !.ctl = output] /\ DOMAIN v.outs = DOMAIN w.outs
    BY <1>5, <2>4 DEF StartLeaves, Keeps, Touches
  <2>6. v.outs[output].dsp[k] \in FxModule
    <3>1. v.outs[output] \in FxOutput
      BY <1>6, <2>5 DEF FxWorld
    <3> QED
      BY <2>1, <3>1 DEF FxOutput
  <2> QED
    BY <2>5, <2>6 DEF v
<1> DEFINE dsp == [k \in mix |-> IF k \in attached THEN Own(k).outs[output].dsp[k]
                                 ELSE NewDsp[k]]
           port == [w.outs[output] EXCEPT !.dsp = dsp]
           nfx == [k \in DOMAIN fx |-> IF k \in attached THEN Own(k).fx[k] ELSE fx[k]]
<1>9. n = [fx |-> nfx, outs |-> [w.outs EXCEPT ![output] = port]]
  BY <1>4, <1>5, <1>6 DEF n, Started
<1>10. dsp \in [mix -> FxModule]
  <2>1. ASSUME NEW k \in mix
        PROVE  (IF k \in attached THEN Own(k).outs[output].dsp[k] ELSE NewDsp[k]) \in FxModule
    BY <1>3, <1>8
  <2> HIDE DEF Own, attached
  <2> QED
    BY <2>1
<1>11. nfx \in [DOMAIN fx -> FxContext]
  <2>1. ASSUME NEW k \in DOMAIN fx
        PROVE  (IF k \in attached THEN Own(k).fx[k] ELSE fx[k]) \in FxContext
    <3>1. k \in attached => Own(k).fx[k] \in FxContext
      <4> DEFINE v == Own(k)
      <4>1. k \in attached => FxWorld(v) /\ k \in DOMAIN v.fx
        BY <1>8
      <4> HIDE DEF v
      <4>2. k \in attached => v.fx[k] \in FxContext
        BY <4>1 DEF FxWorld
      <4> QED
        BY <4>2 DEF v
    <3> QED
      BY <1>1, <3>1
  <2> HIDE DEF Own, attached
  <2> QED
    BY <2>1
<1>12. /\ \A k \in mix : dsp[k] = IF k \in attached THEN Own(k).outs[output].dsp[k]
                                  ELSE NewDsp[k]
       /\ \A k \in DOMAIN fx : nfx[k] = IF k \in attached THEN Own(k).fx[k] ELSE fx[k]
       /\ DOMAIN nfx = DOMAIN fx
  OBVIOUS
<1> HIDE DEF dsp, nfx
<1>13. port \in FxOutput /\ port.fx = attached /\ port.dsp = dsp
  BY <1>4, <1>6, <1>10 DEF FxOutput
<1> HIDE DEF port
<1>14. /\ n.fx = nfx /\ n.outs = [w.outs EXCEPT ![output] = port]
       /\ n = [fx |-> n.fx, outs |-> n.outs]
  BY <1>9
<1>15. /\ DOMAIN n.outs = DOMAIN outs \cup {output} /\ n.outs[output] = port
       /\ \A o \in DOMAIN outs : n.outs[o] = outs[o]
       /\ n.outs \in [DOMAIN n.outs -> FxOutput]
  BY <1>6, <1>13, <1>14
<1>16. FxWorld(n)
  BY <1>1, <1>11, <1>12, <1>14, <1>15 DEF FxWorld
<1>17. ASSUME NEW k \in mix PROVE KindRight(n, k)
  <2>1. CASE k \in attached
    <3>1. k \in DOMAIN fx /\ fx[k].out = output /\ fx[k] \in FxContext
      BY <1>1, <2>1
    <3> DEFINE v == Own(k)
               e == [fx[k] EXCEPT !.ctl = output]
    <3>2. /\ KindRight(v, k) /\ k \in DOMAIN v.fx /\ v.fx[k] = e
          /\ DOMAIN v.outs = DOMAIN w.outs
      BY <1>8, <2>1
    <3>3. e.ctl = output /\ e.out = output
      BY <3>1 DEF FxContext
    <3>4. n.fx[k] = e /\ n.outs[output].dsp[k] = v.outs[output].dsp[k] /\ k \in DOMAIN n.fx
      BY <1>12, <1>13, <1>14, <1>15, <2>1, <3>1, <3>2
    <3> HIDE DEF v, e
    <3>5. FlagRight(e, k) /\ Told(e, v.outs[output].dsp[k], k)
      BY <1>6, <3>2, <3>3 DEF KindRight
    <3>6. ASSUME NEW o \in DOMAIN n.outs, o # output PROVE Absent(n.outs[o], k)
      BY <1>2, <1>15, <3>1, <3>6
    <3>7. Placed(n, k)
      <4>1. k \in n.outs[output].fx
        BY <1>13, <1>15, <2>1
      <4> QED
        BY <1>15, <3>3, <3>4, <3>6, <4>1 DEF Placed
    <3> QED
      BY <3>3, <3>4, <3>5, <3>7 DEF KindRight
  <2>2. CASE k \notin attached
    <3>1. k \in DOMAIN n.fx => n.fx[k] = fx[k] /\ fx[k].out # output /\ k \in DOMAIN fx
      BY <1>12, <1>14, <2>2
    <3>2. Absent(n.outs[output], k)
      <4>1. k \notin n.outs[output].fx /\ n.outs[output].dsp[k] = NewDsp[k]
        BY <1>12, <1>13, <1>15, <2>2
      <4> QED
        BY <1>3, <4>1 DEF Absent
    <3>3. ASSUME NEW o \in DOMAIN outs
          PROVE  IF k \in DOMAIN n.fx /\ n.fx[k].out = o
                 THEN k \in n.outs[o].fx /\ Told(n.fx[k], n.outs[o].dsp[k], k)
                 ELSE Absent(n.outs[o], k)
      BY <1>2, <1>12, <1>14, <1>15, <3>1
    <3>4. k \in DOMAIN n.fx =>
            n.fx[k].ctl = IF n.fx[k].out \in DOMAIN n.outs THEN n.fx[k].out ELSE FxNone
      BY <1>2, <1>15, <3>1
    <3>5. Placed(n, k)
      BY <1>15, <3>1, <3>2, <3>3, <3>4 DEF Placed
    <3>6. k \in DOMAIN n.fx => FlagRight(n.fx[k], k)
      BY <1>2, <3>1
    <3> QED
      BY <1>15, <3>1, <3>3, <3>5, <3>6 DEF KindRight
  <2> QED
    BY <2>1, <2>2
<1>18. Becomes(n)
  BY DEF n, w
<1> QED
  BY <1>16, <1>17, <1>18, RightWorldNext

(* stop_output: its effects keep no control of it.                         *)
LEMMA StopOutputNext ==
  ASSUME FxInv, NEW output \in FxOutputs, offload_effects_bundle_hal_stop_output(output)
  PROVE  FxInv'
<1> DEFINE Own(k) == OpsStop(World, k).fx[k]
           nfx == [k \in DOMAIN fx |-> IF k \in outs[output].fx THEN Own(k) ELSE fx[k]]
           n == [fx |-> nfx, outs |-> Without(outs, output)]
<1>1. /\ FxWorld(World) /\ World.fx = fx /\ World.outs = outs
      /\ DOMAIN fx \subseteq mix /\ fx \in [DOMAIN fx -> FxContext]
      /\ DOMAIN outs \subseteq FxOutputs /\ outs \in [DOMAIN outs -> FxOutput]
      /\ mix \in FxMixes
  BY DEF FxInv, FxWorld, World
<1>2. output \in DOMAIN outs /\ Becomes(n)
  BY DEF offload_effects_bundle_hal_stop_output
<1>3. ASSUME NEW k \in mix
      PROVE  /\ k \in DOMAIN fx => FlagRight(fx[k], k)
             /\ k \in DOMAIN fx =>
                  fx[k].ctl = IF fx[k].out \in DOMAIN outs THEN fx[k].out ELSE FxNone
             /\ \A o \in DOMAIN outs :
                  IF k \in DOMAIN fx /\ fx[k].out = o
                  THEN k \in outs[o].fx /\ Told(fx[k], outs[o].dsp[k], k)
                  ELSE Absent(outs[o], k)
  BY <1>1 DEF FxInv, KindRight, Placed
<1>4. ASSUME NEW k \in DOMAIN fx
      PROVE  LET e == [fx[k] EXCEPT !.ctl = FxNone]
             IN /\ Own(k) = e /\ e \in FxContext /\ FlagRight(e, k)
                /\ e.out = fx[k].out /\ e.ctl = FxNone
  <2> DEFINE v == OpsStop(World, k)
             e == [fx[k] EXCEPT !.ctl = FxNone]
  <2>1. v = PutFx(World, k, e) /\ e \in FxContext
    BY <1>1, StopWrites
  <2>2. e.out = fx[k].out /\ e.ctl = FxNone /\ FlagRight(e, k)
    <3>1. fx[k] \in FxContext /\ FlagRight(fx[k], k)
      BY <1>1, <1>3
    <3>2. /\ e.out = fx[k].out /\ e.ctl = FxNone /\ e.val = fx[k].val /\ e.par = fx[k].par
          /\ e.tempOff = fx[k].tempOff /\ e.flag = fx[k].flag /\ e.state = fx[k].state
          /\ e.preset = fx[k].preset
      BY <3>1 DEF FxContext
    <3> HIDE DEF e
    <3> QED
      BY <3>1, <3>2 DEF FlagRight
  <2>3. Own(k) = e
    <3> HIDE DEF v, e
    <3>1. ContextPut(World, k, e, v)
      BY <1>1, <2>1, PutContext
    <3>2. v.fx[k] = e
      BY <3>1 DEF ContextPut
    <3> QED
      BY <3>2 DEF v
  <2> QED
    BY <2>1, <2>2, <2>3
<1>5. \A k \in DOMAIN fx : nfx[k] = IF k \in outs[output].fx THEN Own(k) ELSE fx[k]
  OBVIOUS
<1>6. \A k \in DOMAIN fx : k \in outs[output].fx <=> fx[k].out = output
  BY <1>1, <1>2, <1>3 DEF Absent
<1>7. nfx \in [DOMAIN fx -> FxContext]
  <2>1. ASSUME NEW k \in DOMAIN fx
        PROVE  (IF k \in outs[output].fx THEN Own(k) ELSE fx[k]) \in FxContext
    BY <1>1, <1>4
  <2> HIDE DEF Own
  <2> QED
    BY <2>1
<1>8. DOMAIN nfx = DOMAIN fx
  OBVIOUS
<1> HIDE DEF nfx
<1>9. /\ n.fx = nfx /\ DOMAIN n.outs = DOMAIN outs \ {output}
      /\ \A o \in DOMAIN n.outs : n.outs[o] = outs[o]
      /\ n = [fx |-> n.fx, outs |-> n.outs]
      /\ n.outs \in [DOMAIN n.outs -> FxOutput]
  BY <1>1 DEF Without
<1> HIDE DEF n
<1>10. FxWorld(n)
  BY <1>1, <1>7, <1>8, <1>9 DEF FxWorld
<1>11. ASSUME NEW k \in mix PROVE KindRight(n, k)
  <2>1. CASE k \in DOMAIN fx /\ fx[k].out = output
    <3> DEFINE e == n.fx[k]
    <3>1. /\ e.out = output /\ e.ctl = FxNone /\ FlagRight(e, k) /\ k \in DOMAIN n.fx
      <4>1. /\ Own(k).out = output /\ Own(k).ctl = FxNone /\ FlagRight(Own(k), k)
        <5>1. Own(k) = [fx[k] EXCEPT !.ctl = FxNone]
          BY <1>4, <2>1
        <5> HIDE DEF Own
        <5> QED
          BY <1>4, <2>1, <5>1
      <4>2. n.fx[k] = Own(k) /\ k \in DOMAIN n.fx
        BY <1>5, <1>6, <1>8, <1>9, <2>1
      <4> QED
        BY <4>1, <4>2
    <3>2. ASSUME NEW o \in DOMAIN n.outs PROVE Absent(n.outs[o], k) /\ o # output
      BY <1>3, <1>9, <2>1
    <3>3. Placed(n, k)
      BY <1>9, <3>1, <3>2 DEF Placed
    <3> QED
      BY <3>1, <3>2, <3>3 DEF KindRight
  <2>2. CASE ~(k \in DOMAIN fx /\ fx[k].out = output)
    <3>1. k \in DOMAIN n.fx <=> k \in DOMAIN fx
      BY <1>8, <1>9
    <3>2. k \in DOMAIN fx => n.fx[k] = fx[k]
      BY <1>5, <1>6, <1>9, <2>2
    <3>3. k \in DOMAIN fx =>
            fx[k].ctl = IF fx[k].out \in DOMAIN n.outs THEN fx[k].out ELSE FxNone
      BY <1>3, <1>9, <2>2
    <3>4. Placed(n, k)
      BY <1>3, <1>9, <3>1, <3>2, <3>3 DEF Placed
    <3> QED
      BY <1>3, <1>9, <3>1, <3>2, <3>4 DEF KindRight
  <2> QED
    BY <2>1, <2>2
<1> QED
  BY <1>2, <1>10, <1>11, RightWorldNext

(* Nothing is created and no output runs.                                  *)
LEMMA FxInitInv == FxInit => FxInv
<1> SUFFICES ASSUME FxInit PROVE FxInv
  OBVIOUS
<1>1. /\ mix \in FxMixes /\ World.fx = << >> /\ World.outs = << >>
      /\ World = [fx |-> World.fx, outs |-> World.outs]
  BY DEF FxInit, World
<1>2. DOMAIN << >> = {} /\ \A S : << >> \in [{} -> S]
  OBVIOUS
<1>3. FxWorld(World)
  BY <1>1, <1>2 DEF FxWorld
<1>4. \A k \in mix : KindRight(World, k)
  BY <1>1, <1>2 DEF KindRight, Placed
<1> QED
  BY <1>3, <1>4 DEF FxInv

(* A call of the library keeps the invariant.                              *)
LEMMA FxStepInv == FxInv /\ FxNext => FxInv'
<1> SUFFICES ASSUME FxInv, FxNext PROVE FxInv'
  OBVIOUS
<1>1. CASE \E k \in mix, output \in FxOutputs : effect_lib_create(k, output)
  BY <1>1, CreateNext
<1>2. CASE \E k \in DOMAIN fx : effect_lib_release(k)
  BY <1>2, ReleaseNext
<1>3. CASE \E k \in DOMAIN fx : \/ EnableCommand(k) \/ DisableCommand(k) \/ SetParamCommand(k)
                                \/ SetDeviceCommand(k) \/ OffloadCommand(k)
  BY <1>3, CommandNext
<1>4. CASE \E output \in FxOutputs : offload_effects_bundle_hal_start_output(output)
  <2>1. PICK output \in FxOutputs : offload_effects_bundle_hal_start_output(output)
    BY <1>4
  <2>2. FxInv /\ UNCHANGED fxVars => FxInv'
    BY DEF FxInv, fxVars, FxWorld, FxOutput, World
  <2> QED
    BY <2>1, <2>2, StartOutputNext DEF offload_effects_bundle_hal_start_output
<1>5. CASE \E output \in FxOutputs : offload_effects_bundle_hal_stop_output(output)
  BY <1>5, StopOutputNext
<1> QED
  BY <1>1, <1>2, <1>3, <1>4, <1>5 DEF FxNext

(* A band read back in millibels is the band in decibels.                  *)
LEMMA ReadBackWhole == \A x \in Int : (x * 100) \div 100 = x
OBVIOUS

(* For every set of outputs, presets, levels and strengths and any         *)
(* sequence of calls: equalizer, bass boost and virtualizer are on in the  *)
(* DSP exactly when the effect asks for it, an equalizer plays its levels, *)
(* and an effect holds the control of the output it is on and of no other  *)
(* (Send, set_device, MoveEffect, start_output and stop_output).  What     *)
(* strength plays, and the reverbs, are not part of it.                    *)
THEOREM DspPlaysEffects == Spec => []DspFollows
<1>1. Init => FxInv
  BY FxInitInv DEF Init
<1>2. FxInv /\ UNCHANGED fxVars => FxInv'
  BY DEF FxInv, fxVars, FxWorld, FxOutput, World
<1>3. FxInv /\ [Next]_vars => FxInv'
  BY <1>2, FxStepInv DEF Next, vars
<1>4. FxInv => DspFollows
  <2> SUFFICES ASSUME FxInv PROVE DspFollows
    OBVIOUS
  <2>1. /\ World.fx = fx /\ World.outs = outs /\ DOMAIN fx \subseteq mix
        /\ outs \in [DOMAIN outs -> FxOutput] /\ fx \in [DOMAIN fx -> FxContext]
        /\ \A k \in mix : k \in {"eq"} \cup StrengthKinds \cup ReverbKinds
    BY OffloadEffectsAssumption DEF FxInv, FxWorld, World
  <2>2. ASSUME NEW k \in mix
        PROVE  /\ k \in DOMAIN fx => FlagRight(fx[k], k)
               /\ k \in DOMAIN fx =>
                    fx[k].ctl = IF fx[k].out \in DOMAIN outs THEN fx[k].out ELSE FxNone
               /\ \A o \in DOMAIN outs :
                    IF k \in DOMAIN fx /\ fx[k].out = o
                    THEN k \in outs[o].fx /\ Told(fx[k], outs[o].dsp[k], k)
                    ELSE Absent(outs[o], k)
    BY <2>1 DEF FxInv, KindRight, Placed
  <2>3. ASSUME NEW o \in DOMAIN outs
        PROVE  outs[o].fx = {k \in DOMAIN fx : fx[k].out = o}
    <3>1. outs[o].fx \subseteq mix
      BY <2>1 DEF FxOutput
    <3>2. \A k \in mix : k \in outs[o].fx <=> k \in DOMAIN fx /\ fx[k].out = o
      BY <2>2 DEF Absent
    <3> QED
      BY <2>1, <3>1, <3>2
  <2>4. ASSUME NEW o \in DOMAIN outs, NEW k \in mix \ ReverbKinds
        PROVE  LET d == outs[o].dsp[k]
                   wanted == k \in outs[o].fx /\ fx[k].state = "ACTIVE" /\ ~fx[k].tempOff
                   setting == IF k = "eq" THEN fx[k].preset # INVALID_PRESET ELSE fx[k].val # 0
               IN /\ d.on => wanted
                  /\ wanted /\ setting => d.on
                  /\ d.on /\ setting /\ k = "eq" => d.val = ReadBack(k, fx[k])
    <3>1. CASE k \in DOMAIN fx /\ fx[k].out = o
      <4> DEFINE c == fx[k]
                 d == outs[o].dsp[k]
      <4>1. k \in outs[o].fx /\ Told(c, d, k) /\ FlagRight(c, k)
        BY <2>2, <3>1
      <4>2. k \in {"eq"} \cup StrengthKinds /\ k \notin ReverbKinds
        BY <2>1
      <4> HIDE DEF c, d
      <4>3. c.flag <=> c.state = "ACTIVE" /\ ~c.tempOff
        BY <4>1, <4>2 DEF FlagRight
      <4>4. ASSUME k = "eq", d.on PROVE d.val = ReadBack(k, c)
        <5>1. d.val = c.val /\ c.val \in [Bands -> Int]
          BY <4>1, <4>2, <4>4 DEF Told, FlagRight
        <5>2. \A b \in Bands : (c.val[b] * 100) \div 100 = c.val[b]
          BY <5>1, ReadBackWhole
        <5>3. ReadBack(k, c) = [b \in Bands |-> c.val[b]]
          BY <4>4, <5>2 DEF ReadBack, equalizer_get_parameter
        <5> QED
          BY <5>1, <5>3
      <4> QED
        BY <4>1, <4>2, <4>3, <4>4 DEF Told, c, d
    <3>2. CASE ~(k \in DOMAIN fx /\ fx[k].out = o)
      BY <2>2, <3>2 DEF Absent
    <3> QED
      BY <3>1, <3>2
  <2> QED
    BY <2>1, <2>2, <2>3, <2>4 DEF DspFollows
<1> QED
  BY <1>1, <1>3, <1>4, PTL DEF Spec
===============================================================================
