---------------------------- MODULE VolumeListener ----------------------------
(***************************************************************************)
(* The volume listener (audio/post_proc/volume_listener.c): one effect per *)
(* stream hears of the stream's volume and device, and the loudest active  *)
(* stream on the loudspeaker decides the calibration level the HAL is      *)
(* asked for.  Every call holds vol_listner_init_lock.                     *)
(***************************************************************************)
EXTENDS Integers, Sequences, FiniteSets, FiniteSetsExt

CONSTANTS
  VolStreams,  \* (uuid, session) of the effects
  VolDevices,  \* device masks, as sets of devices; {"speaker"} among them
  Volumes,     \* (left + right) / 2, Unity the full volume
  Unity,
  AmpTable     \* the amp column of volume_curve_gain_mapping_table, ascending

ASSUME VolumeListenerAssumption ==
  /\ Volumes \subseteq Nat /\ Unity \in Nat \ {0}
  /\ \A i \in 2 .. Len(AmpTable) : AmpTable[i - 1] < AmpTable[i]
  /\ AmpTable[Len(AmpTable)] = Unity

VARIABLES
  vol,      \* vol_effect_list: stream -> [state, dev, vol]
  current,  \* [vol: current_vol, level: current_gain_dep_cal_level]
  hallevel  \* [level: the last level the HAL took, refused: it refused what the last
            \*  check asked for]

volVars == <<vol, current, hallevel>>
NoLevel == -1
VolInit ==
  /\ vol = << >> /\ current = [vol |-> 0, level |-> NoLevel]
  /\ hallevel = [level |-> NoLevel, refused |-> FALSE]
-------------------------------------------------------------------------------
Speaker == {"speaker"}
(* The level of row i of the table: 5, 4, 3, 2, 1 from the quietest.       *)
RowLevel(i) == Len(AmpTable) + 1 - i
(* A volume below the first row but above 0 has no level.                  *)
GainLevel(v) ==
  CASE v >= Unity -> RowLevel(Len(AmpTable))
    [] v <= 0 -> RowLevel(1)
    [] v > 0 /\ v < AmpTable[1] -> NoLevel
    [] OTHER -> RowLevel(CHOOSE i \in 1 .. Len(AmpTable) - 1 :
                           AmpTable[i] <= v /\ v < AmpTable[i + 1])
(* The loudest active stream on the loudspeaker, 0 without one.            *)
Loudest(streams) ==
  Max({0} \cup {streams[s].vol : s \in {t \in DOMAIN streams :
         streams[t].state = "ACTIVE" /\ "speaker" \in streams[t].dev}})

(* Called after the list became streams; from is what current was.  The    *)
(* volume and the level are noted only when the HAL took the level: one it *)
(* refused is asked for again by the next check.                           *)
check_and_set_gain_dep_cal(streams, from) ==
  LET v == Loudest(streams)
      level == GainLevel(v)
      asks == v # from.vol /\ level \notin {NoLevel, from.level}
  IN \/ /\ asks
        /\ current' = [vol |-> v, level |-> level]
        /\ hallevel' = [level |-> level, refused |-> FALSE]
     \/ /\ current' = from
        /\ hallevel' = [level |-> hallevel.level, refused |-> asks]

(* The streams change; the level is worked out again when the stream was   *)
(* or is on the loudspeaker.                                               *)
Update(streams, again) ==
  /\ vol' = streams
  /\ IF again THEN check_and_set_gain_dep_cal(streams, current)
     ELSE UNCHANGED <<current, hallevel>>
-------------------------------------------------------------------------------
vol_prc_lib_create(s) ==
  /\ s \notin DOMAIN vol
  /\ vol' = [t \in DOMAIN vol \cup {s} |->
               IF t = s THEN [state |-> "INITIALIZED", dev |-> {}, vol |-> 0] ELSE vol[t]]
  /\ UNCHANGED <<current, hallevel>>
(* The last stream takes the level and the volume with it.                 *)
vol_prc_lib_release(s) ==
  LET rest == [t \in DOMAIN vol \ {s} |-> vol[t]]
      from == IF DOMAIN rest = {} THEN [vol |-> 0, level |-> NoLevel] ELSE current
  IN /\ vol' = rest
     /\ IF vol[s].dev = Speaker THEN check_and_set_gain_dep_cal(rest, from)
        ELSE current' = from /\ UNCHANGED hallevel
VolEnable(s) ==
  /\ vol[s].state = "INITIALIZED"
  /\ Update([vol EXCEPT ![s].state = "ACTIVE"], vol[s].dev = Speaker)
VolDisable(s) ==
  /\ vol[s].state = "ACTIVE"
  /\ Update([vol EXCEPT ![s].state = "INITIALIZED"], vol[s].dev = Speaker)
(* Mutant: a stream that leaves the loudspeaker is forgotten.              *)
MovesLevel_Arriving(from, to) == to = Speaker
MovesLevel(from, to) == from = Speaker \/ to = Speaker
VolSetDevice(s, dev) == Update([vol EXCEPT ![s].dev = dev], MovesLevel(vol[s].dev, dev))
VolSetVolume(s, v) == Update([vol EXCEPT ![s].vol = v], vol[s].dev = Speaker)

VolNext ==
  \/ \E s \in VolStreams : vol_prc_lib_create(s)
  \/ \E s \in DOMAIN vol : \/ vol_prc_lib_release(s) \/ VolEnable(s) \/ VolDisable(s)
                           \/ \E dev \in VolDevices : VolSetDevice(s, dev)
                           \/ \E v \in Volumes : VolSetVolume(s, v)
-------------------------------------------------------------------------------
(* The calibration follows the volume.  The level noted is the one the HAL *)
(* took last; unless the HAL refused what the last check asked for, it is  *)
(* the level of the loudest active stream on the loudspeaker, if that has  *)
(* one and is not 0 from the start.  So a level refused once is not lost:  *)
(* the next check that the HAL answers sets it, whatever streams did in    *)
(* between.  Stated for streams on one device each: the loudspeaker        *)
(* together with another device is not seen to change.                     *)
GainFollowsVolume ==
  LET level == GainLevel(Loudest(vol))
  IN /\ current.level # NoLevel => hallevel.level = current.level
     /\ ~hallevel.refused =>
          level \in {NoLevel, IF current.level = NoLevel THEN GainLevel(0) ELSE current.level}
===============================================================================
