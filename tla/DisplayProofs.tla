----------------------------- MODULE DisplayProofs -----------------------------
(***************************************************************************)
(* Proofs about the displays: the pipe book, for any number of pipes of    *)
(* each type and any client that keeps to the rounds; the composer as such *)
(* a client, for any layer lists; the sleeping and waking of copybit's     *)
(* thread and its client, and the blits it draws, for any frames.          *)
(*                                                                         *)
(* The inductive invariant of the book is OvInv.  RoundLeavesUsedOpen      *)
(* needs its parts OpenIsRecent and Saved: configDone destroys nothing     *)
(* when the use bits are those of the last round, and only because an open *)
(* pipe was used in one of the two rounds is every open pipe then a used   *)
(* one.  The composer adds WorkInv: MDPComp has operations on the book     *)
(* left to do only while a display is being prepared.                      *)
(*                                                                         *)
(* FrameComplete speaks of the moment a frame is set; FrameInv says what   *)
(* leads up to it.  Placed accounts for the pipes of a frame against the   *)
(* operations left: the round's use bits for a display are the pipes of    *)
(* the targets that are no longer to be committed.  The framebuffer's      *)
(* layers lie next to each other (FbLayersSpan), which is why the z-orders *)
(* stack as the list does (Stacks).  Images follows the buffer MDPComp     *)
(* remembers from one set to the next, past displays that are off.         *)
(*                                                                         *)
(* Of a copybit blit in the list BlitInv says that it would be drawn right *)
(* now (Ready), that its addresses stay mapped until the list is drawn     *)
(* (Stays: they have a slot, or the slots are full), and that no surface   *)
(* it uses is set meanwhile: Own puts its source among those counted so    *)
(* far, Settled keeps it off the one temporary source, and Towards makes   *)
(* the destination of the next stretch its own.  CountInv is an account of *)
(* the slots: one for each blit counted, and one for each destination.     *)
(* There are few of those, so a stretch always finds the slots it needs,   *)
(* and no mapping goes unnamed, whatever a failing finish leaves behind.   *)
(***************************************************************************)
EXTENDS Display, QueueLemmas

(* DPY_UNUSED is not a display.                                            *)
LEMMA DisplayFacts ==
  ASSUME NEW d \in Displays
  PROVE  d # DPY_UNUSED
  BY DEF Displays, DPY_PRIMARY, DPY_EXTERNAL, DPY_UNUSED

(* The overlay starts with every pipe closed and nothing used.             *)
LEMMA InitInv == OvInit => OvInv
  BY DEF OvInit, OvInv, OvTypeOK, UsedIsOpen, OwnedExists, AllocatedExists, OpenIsRecent, Saved

(* configBegin drops the use bits: Saved makes the last round's the same,  *)
(* so that an open pipe stays a recently used one.                         *)
LEMMA BeginInv == OvInv /\ configBegin => OvInv'
  BY DEF configBegin, OvInv, OvTypeOK, UsedIsOpen, OwnedExists, AllocatedExists, OpenIsRecent,
         Saved

(* A pipe that nextPipe hands out is one no display owns, or one of the    *)
(* same display.                                                           *)
LEMMA NextPipeInv ==
  ASSUME NEW types, NEW dpy \in Displays, NEW p \in Pipes, OvInv, nextPipe(types, dpy, p)
  PROVE  OvInv'
<1> USE DisplayFacts
<1>1. OvTypeOK'
  BY DEF nextPipe, OvInv, OvTypeOK
<1>2. UsedIsOpen' /\ OpenIsRecent' /\ Saved'
  BY DEF nextPipe, OvInv, OvTypeOK, UsedIsOpen, OpenIsRecent, Saved
<1>3. OwnedExists'
  BY DEF nextPipe, OvInv, OvTypeOK, OwnedExists
<1>4. AllocatedExists'
  BY DEF nextPipe, OvInv, OvTypeOK, AllocatedExists
<1> QED BY <1>1, <1>2, <1>3, <1>4 DEF OvInv

(* A commit configures an allocated pipe, or on failure destroys it.       *)
LEMMA CommitInv ==
  ASSUME NEW p \in Pipes, NEW ok \in BOOLEAN, OvInv, commit(p, ok)
  PROVE  OvInv'
<1>1. mPipe[p] # "none"
  BY DEF commit, OvInv, AllocatedExists
<1>2. CASE ok
  BY <1>1, <1>2 DEF commit, OvInv, OvTypeOK, UsedIsOpen, OwnedExists, AllocatedExists,
                    OpenIsRecent, Saved
<1>3. CASE ~ok
  <2>1. OvTypeOK'
    BY <1>3 DEF commit, OvInv, OvTypeOK
  <2>2. UsedIsOpen' /\ OwnedExists' /\ Saved'
    BY <1>1, <1>3 DEF commit, OvInv, OvTypeOK, UsedIsOpen, OwnedExists, Saved
  <2>3. AllocatedExists'
    BY <1>1, <1>3 DEF commit, OvInv, OvTypeOK, AllocatedExists
  <2>4. OpenIsRecent'
    BY <1>3 DEF commit, OvInv, OvTypeOK, OpenIsRecent
  <2> QED BY <2>1, <2>2, <2>3, <2>4 DEF OvInv
<1> QED BY <1>2, <1>3

(* configDone destroys no pipe that the round used.                        *)
LEMMA DoneInv == OvInv /\ configDone => OvInv'
<1> SUFFICES ASSUME OvInv, configDone PROVE OvInv'
  OBVIOUS
<1>1. Garbage \subseteq Pipes \ used
  BY DEF Garbage
<1>2. OvTypeOK'
  BY DEF configDone, OvInv, OvTypeOK
<1>3. UsedIsOpen'
  BY <1>1 DEF configDone, OvInv, OvTypeOK, UsedIsOpen
<1>4. OwnedExists' /\ Saved'
  BY DEF configDone, OvInv, OvTypeOK, OwnedExists, Saved
<1>5. OpenIsRecent'
  <2>1. CASE used = lastUsed
    BY <2>1 DEF configDone, OvInv, OvTypeOK, OpenIsRecent
  <2>2. CASE used # lastUsed
    BY <2>2 DEF configDone, Garbage, OvInv, OvTypeOK, OpenIsRecent
  <2> QED BY <2>1, <2>2
<1>6. AllocatedExists'
  BY DEF configDone, OvInv, OvTypeOK, AllocatedExists
<1> QED BY <1>2, <1>3, <1>4, <1>5, <1>6 DEF OvInv

(* Every step of the pipe book keeps the invariant.                        *)
LEMMA StepInv == OvInv /\ [OvNext]_ovVars => OvInv'
<1> SUFFICES ASSUME OvInv, [OvNext]_ovVars PROVE OvInv'
  OBVIOUS
<1>1. CASE configBegin
  BY <1>1, BeginInv
<1>2. ASSUME NEW types \in {{"RGB"}, {"VG"}, {"RGB", "VG"}}, NEW dpy \in Displays,
             NEW p \in Pipes, nextPipe(types, dpy, p)
      PROVE  OvInv'
  BY <1>2, NextPipeInv
<1>3. ASSUME NEW p \in Pipes, NEW ok \in BOOLEAN, commit(p, ok)
      PROVE  OvInv'
  BY <1>3, CommitInv
<1>4. CASE configDone
  BY <1>4, DoneInv
<1>5. CASE UNCHANGED ovVars
  BY <1>5 DEF ovVars, OvInv, OvTypeOK, UsedIsOpen, OwnedExists, AllocatedExists, OpenIsRecent,
              Saved
<1> QED BY <1>1, <1>2, <1>3, <1>4, <1>5 DEF OvNext

(* The pipe book keeps its inductive invariant: in particular a pipe with  *)
(* a use bit is open and the kernel holds a session for it (UsedIsOpen),   *)
(* as the assertions of validate and GenericPipe::queueBuffer ask.         *)
THEOREM BookSound == OvSpec => []OvInv
  BY InitInv, StepInv, PTL DEF OvSpec

(* After configDone the open pipes are exactly the ones the round has      *)
(* committed, in spite of its early return: no old frame stays on screen.  *)
THEOREM RoundsClean == OvSpec => []RoundLeavesUsedOpen
<1>1. OvInv => RoundLeavesUsedOpen
  BY DEF OvInv, OvTypeOK, UsedIsOpen, OpenIsRecent, Saved, RoundLeavesUsedOpen
<1> QED BY <1>1, InitInv, StepInv, PTL DEF OvSpec

(* A pipe goes from one display to the other only by way of being unused:  *)
(* nextPipe never hands out a pipe of the other display, and configDone    *)
(* destroys the pipe before it may be given away.                          *)
THEOREM PipesHandedOver == OvSpec => HandOver
<1>1. OvInv /\ [OvNext]_ovVars
      => [\A p \in Pipes : mDisplay'[p] # mDisplay[p]
            => mDisplay[p] = DPY_UNUSED \/ mDisplay'[p] = DPY_UNUSED]_ovVars
  <2> SUFFICES ASSUME OvInv, OvNext, NEW q \in Pipes, mDisplay'[q] # mDisplay[q]
               PROVE  mDisplay[q] = DPY_UNUSED \/ mDisplay'[q] = DPY_UNUSED
    OBVIOUS
  <2>1. CASE configBegin
    BY <2>1 DEF configBegin
  <2>2. ASSUME NEW types, NEW dpy \in Displays, NEW p \in Pipes, nextPipe(types, dpy, p)
        PROVE  mDisplay[q] = DPY_UNUSED
    <3>1. p = q
      BY <2>2 DEF nextPipe, OvInv, OvTypeOK
    <3>2. mDisplay[p] \in {DPY_UNUSED, dpy} /\ mDisplay'[p] = dpy
      BY <2>2 DEF nextPipe, Candidates, Available, OvInv, OvTypeOK
    <3> QED BY <3>1, <3>2
  <2>3. ASSUME NEW p \in Pipes, NEW ok \in BOOLEAN, commit(p, ok)
        PROVE  FALSE
    BY <2>3 DEF commit
  <2>4. CASE configDone
    BY <2>4 DEF configDone, OvInv, OvTypeOK
  <2> QED BY <2>1, <2>2, <2>3, <2>4 DEF OvNext
<1> QED BY <1>1, InitInv, StepInv, PTL DEF OvSpec, HandOver

(* Only the end of a round takes a pipe away from a display, never one     *)
(* that has a use bit, and the kernel session of the pipe ends with it.    *)
THEOREM UsedPipesKept == OvSpec => OnlyUnusedTaken
<1>1. OvInv /\ [OvNext]_ovVars
      => [\A p \in Pipes : mDisplay'[p] = DPY_UNUSED /\ mDisplay[p] # DPY_UNUSED
            => inRound /\ ~inRound' /\ p \notin used /\ p \notin session']_ovVars
  <2> SUFFICES ASSUME OvInv, OvNext, NEW q \in Pipes,
                      mDisplay'[q] = DPY_UNUSED, mDisplay[q] # DPY_UNUSED
               PROVE  inRound /\ ~inRound' /\ q \notin used /\ q \notin session'
    OBVIOUS
  <2>1. CASE configBegin
    BY <2>1 DEF configBegin
  <2>2. ASSUME NEW types, NEW dpy \in Displays, NEW p \in Pipes, nextPipe(types, dpy, p)
        PROVE  FALSE
    BY <2>2, DisplayFacts DEF nextPipe, OvInv, OvTypeOK
  <2>3. ASSUME NEW p \in Pipes, NEW ok \in BOOLEAN, commit(p, ok)
        PROVE  FALSE
    BY <2>3 DEF commit
  <2>4. CASE configDone
    BY <2>4 DEF configDone, Garbage, OvInv, OvTypeOK
  <2> QED BY <2>1, <2>2, <2>3, <2>4 DEF OvNext
<1> QED BY <1>1, InitInv, StepInv, PTL DEF OvSpec, OnlyUnusedTaken
-------------------------------------------------------------------------------
(* The operations MDPComp and FBUpdate have left are those of the display  *)
(* that is being prepared.                                                 *)
WorkInv == todo # <<>> => phase = "prepare" /\ at \in ready /\ at \in Displays
ComposerInv == OvInv /\ WorkInv

(* getMdpPipe asks for a type of pipes nextPipe knows.                     *)
LEMMA AskedTypes ==
  ASSUME NEW l, NEW t
  PROVE  PipeTypes(l, t) \in {{"RGB"}, {"VG"}, {"RGB", "VG"}}
<1>1. CASE t \in {FB, BASE}
  BY <1>1 DEF PipeTypes
<1>2. CASE t \notin {FB, BASE} /\ l[t].yuv
  BY <1>2 DEF PipeTypes
<1>3. CASE t \notin {FB, BASE} /\ ~l[t].yuv /\ l[t].flipped
  BY <1>3 DEF PipeTypes
<1>4. CASE t \notin {FB, BASE} /\ ~l[t].yuv /\ ~l[t].flipped
  BY <1>4 DEF PipeTypes
<1> QED BY <1>1, <1>2, <1>3, <1>4

(* A round of hwc_prepare begins as the book allows, and with nothing left *)
(* to do.                                                                  *)
LEMMA PrepareBegins ==
  ComposerInv /\ hwc_prepare => [OvNext]_ovVars /\ WorkInv'
  BY DEF ComposerInv, WorkInv, hwc_prepare, OvNext

(* A display that is passed over has nothing left to do.                   *)
LEMMA PassedOver ==
  ASSUME NEW l, ComposerInv, PassOver(l)
  PROVE  UNCHANGED ovVars /\ WorkInv'
  BY DEF ComposerInv, WorkInv, PassOver

(* What MDPComp plans belongs to the display it has just taken.            *)
LEMMA Planned ==
  ASSUME NEW l, NEW same, NEW geometry, ComposerInv, MDPComp_prepare(l, same, geometry)
  PROVE  UNCHANGED ovVars /\ WorkInv'
  BY DEF ComposerInv, WorkInv, MDPComp_prepare, ovVars

(* A pipe is asked for on behalf of the display that is being prepared.    *)
LEMMA PipeAsked ==
  ComposerInv /\ GetPipe => [OvNext]_ovVars /\ WorkInv'
<1> SUFFICES ASSUME ComposerInv, GetPipe PROVE [OvNext]_ovVars /\ WorkInv'
  OBVIOUS
<1>1. phase = "prepare" /\ at \in ready /\ at \in Displays
  BY DEF ComposerInv, WorkInv, GetPipe, Step
<1>2. WorkInv'
  BY <1>1 DEF WorkInv, GetPipe
<1> DEFINE types == PipeTypes(list[at], Head(todo).for)
<1>3. types \in {{"RGB"}, {"VG"}, {"RGB", "VG"}}
  BY AskedTypes
<1>4. UNCHANGED ovVars \/ \E p \in Pipes : nextPipe(types, at, p)
  BY DEF GetPipe
<1> HIDE DEF types
<1> QED BY <1>1, <1>2, <1>3, <1>4 DEF OvNext

(* What is committed was handed out in this round.                         *)
LEMMA PipeCommitted ==
  ComposerInv /\ CommitPipe => [OvNext]_ovVars /\ WorkInv'
<1> SUFFICES ASSUME ComposerInv, CommitPipe PROVE [OvNext]_ovVars /\ WorkInv'
  OBVIOUS
<1>1. phase = "prepare" /\ at \in ready /\ at \in Displays
  BY DEF ComposerInv, WorkInv, CommitPipe, Step
<1>2. WorkInv'
  BY <1>1 DEF WorkInv, CommitPipe
<1> DEFINE p == frame[at].pipe[Head(todo).for]
<1>3. PICK ok \in BOOLEAN : commit(p, ok)
  BY DEF CommitPipe
<1>4. p \in Pipes
  BY <1>3 DEF commit, ComposerInv, OvInv, OvTypeOK
<1> HIDE DEF p
<1> QED BY <1>2, <1>3, <1>4 DEF OvNext

(* The display is done when nothing is left to do, and so is the round.    *)
LEMMA RoundEnds ==
  /\ ComposerInv /\ Prepared => UNCHANGED ovVars /\ WorkInv'
  /\ ComposerInv /\ PrepareDone => [OvNext]_ovVars /\ WorkInv'
<1>1. ComposerInv /\ Prepared => UNCHANGED ovVars /\ WorkInv'
  BY DEF ComposerInv, WorkInv, Prepared
<1>2. ComposerInv /\ PrepareDone => [OvNext]_ovVars /\ WorkInv'
  BY DEF ComposerInv, WorkInv, PrepareDone, OvNext, Displays, DPY_UNUSED, DPY_PRIMARY, DPY_EXTERNAL
<1> QED BY <1>1, <1>2

(* hwc_set queues buffers and leaves the book alone; a blank is a round    *)
(* with no commit.                                                         *)
LEMMA SetAndBlank ==
  ASSUME NEW d, NEW ok, ComposerInv,
         hwc_set_primary \/ hwc_set_external \/ hwc_blank(d) \/ BlankDone(ok) \/ hwc_unblank(d)
  PROVE  [OvNext]_ovVars /\ WorkInv'
<1>1. todo = <<>>
  BY DEF ComposerInv, WorkInv, hwc_set_primary, hwc_set_external, hwc_blank, BlankDone, hwc_unblank
<1>2. todo' = <<>>
  BY <1>1 DEF hwc_set_primary, hwc_set_external, hwc_blank, BlankDone, hwc_unblank, sfVars
<1>3. [OvNext]_ovVars
  BY DEF OvNext, hwc_set_primary, hwc_set_external, hwc_blank, BlankDone, hwc_unblank
<1> QED BY <1>2, <1>3 DEF WorkInv

(* The uevent thread does not touch the book.                              *)
LEMMA UeventAside ==
  ComposerInv /\ Uevent => UNCHANGED ovVars /\ WorkInv'
  BY DEF ComposerInv, WorkInv, Uevent, External_Online, External_Offline, External_Pause,
         External_Resume, sfVars

(* Every step of the composer is one the book allows, or leaves it alone.  *)
LEMMA ComposerStep ==
  ComposerInv /\ [DisplayNext]_displayVars => [OvNext]_ovVars /\ ComposerInv'
<1> SUFFICES ASSUME ComposerInv, [DisplayNext]_displayVars
             PROVE  [OvNext]_ovVars /\ WorkInv'
  BY StepInv DEF ComposerInv
<1>1. CASE UNCHANGED vars
  BY <1>1 DEF vars, sfVars, ComposerInv, WorkInv
<1>2. CASE Next
  <2>1. CASE hwc_prepare
    BY <2>1, PrepareBegins
  <2>2. ASSUME NEW l, PassOver(l) PROVE [OvNext]_ovVars /\ WorkInv'
    BY <2>2, PassedOver
  <2>3. ASSUME NEW l, NEW same, NEW geometry, MDPComp_prepare(l, same, geometry)
        PROVE  [OvNext]_ovVars /\ WorkInv'
    BY <2>3, Planned
  <2>4. CASE GetPipe
    BY <2>4, PipeAsked
  <2>5. CASE CommitPipe
    BY <2>5, PipeCommitted
  <2>6. CASE Prepared \/ PrepareDone
    BY <2>6, RoundEnds
  <2>7. ASSUME NEW d, NEW ok,
               hwc_set_primary \/ hwc_set_external \/ hwc_blank(d) \/ BlankDone(ok) \/ hwc_unblank(d)
        PROVE  [OvNext]_ovVars /\ WorkInv'
    BY <2>7, SetAndBlank
  <2>8. CASE Uevent
    BY <2>8, UeventAside
  <2> QED BY <1>2, <2>1, <2>2, <2>3, <2>4, <2>5, <2>6, <2>7, <2>8 DEF Next, Prepare
<1> QED BY <1>1, <1>2 DEF DisplayNext, displayVars

(* The composer implements the pipe book: it asks for pipes and commits    *)
(* them only within a round of hwc_prepare, on behalf of the display that  *)
(* is being prepared, whatever the layers are, whichever calls fail and    *)
(* whenever the external display comes and goes.                           *)
THEOREM ComposerUsesPipeBook == DisplaySpec => UsesPipeBook
<1>1. DisplayInit => OvInit /\ ComposerInv
  BY InitInv DEF DisplayInit, Init, ComposerInv, WorkInv
<1> QED BY <1>1, ComposerStep, PTL DEF DisplaySpec, UsesPipeBook, OvSpec
-------------------------------------------------------------------------------
(* A copybit device v that waits for a time stamp, and is to stop, as the  *)
(* device w does.                                                          *)
Device(w) == {"wait", "stop"} \subseteq DOMAIN w
Alike(v, w) == DOMAIN v = DOMAIN w /\ v.wait = w.wait /\ v.stop = w.stop
Result(m, w) == DOMAIN m = {"ok", "idx", "w"} /\ Alike(m.w, w)

(* Mapping and unmapping a buffer, and pointing a surface at it, leaves    *)
(* wait_timestamp and stop_thread alone.                                   *)
LEMMA MapsAlike ==
  ASSUME NEW w, Device(w), NEW addr, NEW fault, NEW idx
  PROVE  /\ Result(c2d_get_gpuaddr(w, addr, fault), w)
         /\ Alike(unmap_gpuaddr(w, idx), w) /\ Alike(UnmapAll(w), w)
<1>1. Alike(unmap_gpuaddr(w, idx), w) /\ Alike(UnmapAll(w), w)
  BY DEF Device, Alike, unmap_gpuaddr, UnmapAll
<1>2. ASSUME NEW v PROVE Result([Ok(v) EXCEPT !.idx = idx], v) /\ Result(Ok(v), v) /\ Result(Fails(v), v)
  BY DEF Result, Alike, Ok, Fails
<1> DEFINE held == [w EXCEPT !.held = @ \cup {addr}]
<1>3. Alike(held, w) /\ Device(held)
  BY DEF Device, Alike
<1>4. ASSUME NEW i PROVE Alike([held EXCEPT !.mapped[i] = addr], w)
  BY <1>3 DEF Device, Alike
<1> QED
  BY <1>1, <1>2, <1>3, <1>4 DEF c2d_get_gpuaddr, Result, Alike, Ok, Fails
(* A surface that is made to point at an image.                            *)
LEMMA ImageAlike ==
  ASSUME NEW w, Device(w), NEW surface, NEW addr, NEW map, NEW update
  PROVE  Result(set_image(w, surface, addr, map, update), w)
<1> DEFINE m == c2d_get_gpuaddr(w, addr, map)
<1>1. Result(m, w) /\ Device(m.w)
  BY MapsAlike DEF Result, Alike, Device
<1>2. Alike(unmap_gpuaddr(m.w, m.idx), m.w)
  BY <1>1, MapsAlike
<1> HIDE DEF m
<1>3. Result([m EXCEPT !.w.points[surface] = addr], w)
  BY <1>1 DEF Result, Alike, Device
<1>4. Result(Fails(unmap_gpuaddr(m.w, m.idx)), w)
  BY <1>1, <1>2 DEF Result, Alike, Fails
<1> QED
  BY <1>1, <1>3, <1>4 DEF set_image, m

(* Drawing the list, with or without waiting for the GPU.                  *)
LEMMA DrawAlike ==
  ASSUME NEW w, Device(w), NEW fault
  PROVE  /\ Alike(msm_copybit(w), w) /\ Alike(finish_copybit_internal(w, fault), w)
<1>1. Alike(msm_copybit(w), w)
  BY DEF msm_copybit, Alike, Device
<1> DEFINE d == IF fault = "draw" THEN w ELSE msm_copybit(w)
<1>2. Alike(d, w) /\ Device(d)
  BY <1>1 DEF Alike, Device
<1> HIDE DEF d
<1>3. Alike([d EXCEPT !.failed = TRUE], w)
  BY <1>2 DEF Alike, Device
<1>4. Alike([d EXCEPT !.flight = {}], w) /\ Device([d EXCEPT !.flight = {}])
  BY <1>2 DEF Alike, Device
<1>5. Alike(UnmapAll([d EXCEPT !.flight = {}]), w)
  BY <1>4, MapsAlike DEF Alike
<1> QED
  BY <1>1, <1>3, <1>5 DEF finish_copybit_internal, d

(* A flush sets wait_timestamp, if anything.                               *)
LEMMA FlushAlike ==
  ASSUME NEW w, Device(w), NEW fault
  PROVE  /\ DOMAIN flush_get_fence_copybit(w, fault) = DOMAIN w
         /\ flush_get_fence_copybit(w, fault).stop = w.stop
<1> DEFINE d == IF fault = "draw" THEN w ELSE msm_copybit(w)
<1>1. Alike(d, w) /\ Device(d)
  BY DrawAlike DEF Alike, Device
<1> HIDE DEF d
<1> QED
  BY <1>1 DEF Alike, Device, flush_get_fence_copybit, d

(* The parameters of a stretch, and the clearing of a destination.         *)
LEMMA ParametersAlike ==
  ASSUME NEW w, Device(w), NEW turn, NEW fault, NEW d
  PROVE  Alike(set_parameter_copybit(w, turn, fault), w) /\ Alike(clear_copybit(w, d, fault), w)
<1>1. Alike(clear_copybit(w, d, fault), w)
  BY ImageAlike DEF clear_copybit, Result
<1> DEFINE v == finish_copybit_internal(w, fault)
<1>2. Alike(v, w)
  BY DrawAlike
<1> HIDE DEF v
<1>3. Alike([v EXCEPT !.trg = turn], w) /\ Alike([w EXCEPT !.turns = @ \cup {turn}], w)
  BY <1>2 DEF Alike, Device
<1> QED
  BY <1>1, <1>3 DEF set_parameter_copybit, v

(* The temporary buffers and the surfaces of a stretch.                    *)
LEMMA BuffersAlike ==
  ASSUME NEW w, Device(w), NEW which, NEW size, NEW fault, NEW i
  PROVE  /\ Result(get_temp_buffer(w, which, size, fault), w) /\ Result(copy_image(w, i), w)
         /\ Result(Destination(w, i, fault), w) /\ Result(Source(w, i, fault), w)
<1>1. ASSUME NEW v, Device(v), NEW k, NEW z, NEW f PROVE Result(get_temp_buffer(v, k, z, f), v)
  <2> DEFINE new == [v EXCEPT !.temp[k] = [size |-> z, good |-> ~f, holds |-> None]]
  <2>1. Alike(new, v) /\ Alike(v, v)
    BY <1>1 DEF Alike, Device
  <2> HIDE DEF new
  <2> QED
    BY <2>1 DEF get_temp_buffer, Result, Ok, Fails, new
<1>2. ASSUME NEW v, Device(v) PROVE Result(copy_image(v, i), v)
  <2>1. Alike([v EXCEPT !.temp[TempSrc].holds = i.buf], v) /\ Alike(v, v)
    BY <1>2 DEF Alike, Device
  <2> QED
    BY <2>1 DEF copy_image, Result, Ok, Fails
<1>3. ASSUME NEW v, Alike(v, w), NEW m, Result(m, v) PROVE Result(m, w) /\ Device(m.w)
  BY <1>3 DEF Result, Alike, Device
<1>4. Result(Destination(w, i, fault), w)
  <2> DEFINE t == get_temp_buffer(w, TempDst, i.temp, fault = "alloc_dst")
  <2>1. Result(t, w) /\ Device(t.w)
    BY <1>1, <1>3 DEF Alike
  <2> HIDE DEF t
  <2>2. \A s, a, mp, u : Result(set_image(w, s, a, mp, u), w) /\ Result(set_image(t.w, s, a, mp, u), t.w)
    BY <2>1, ImageAlike
  <2>3. \A s, a, mp, u : Result(set_image(t.w, s, a, mp, u), w)
    BY <2>1, <2>2 DEF Result, Alike
  <2> QED
    BY <2>1, <2>2, <2>3 DEF Destination, t
<1>5. Result(Source(w, i, fault), w)
  <2> DEFINE t == get_temp_buffer(w, TempSrc, i.temp, fault = "alloc_src")
             copied == copy_image(t.w, i)
  <2>1. Result(t, w) /\ Device(t.w)
    BY <1>1, <1>3 DEF Alike
  <2>2. Result(copied, t.w) /\ Device(copied.w)
    <3> HIDE DEF t
    <3> QED
      BY <1>2, <2>1 DEF Result, Alike, Device
  <2> HIDE DEF t, copied
  <2>3. Alike(t.w, w) /\ Alike(copied.w, w)
    BY <2>1, <2>2 DEF Result, Alike
  <2>4. \A s, a, mp, u : /\ Result(set_image(w, s, a, mp, u), w)
                         /\ Result(set_image(copied.w, s, a, mp, u), copied.w)
    BY <2>2, ImageAlike
  <2>5. \A s, a, mp, u : Result(set_image(copied.w, s, a, mp, u), w)
    BY <2>3, <2>4 DEF Result, Alike
  <2>6. Result(Fails(t.w), w) /\ Result(Fails(copied.w), w)
    BY <2>3 DEF Result, Fails
  <2> QED
    BY <2>4, <2>5, <2>6 DEF Source, t, copied
<1>6. Alike(w, w)
  BY DEF Alike
<1> QED
  BY <1>1, <1>2, <1>4, <1>5
(* Listing the clips of a layer, one after the other.                      *)
Clipped(w, blit, F, i) ==
  IF i = 0 THEN w
  ELSE Append_(F[i - 1], [blit EXCEPT !.late = i > 1 /\ LastLate(F[i - 1])])

(* The function that lists them exists: it is built up clip by clip.       *)
LEMMA ClipsExist ==
  ASSUME NEW w, NEW blit, NEW n \in Nat
  PROVE  \E F : F = [i \in 0 .. n |-> Clipped(w, blit, F, i)]
<1> DEFINE Upto(k) == \E F : F = [i \in 0 .. k |-> Clipped(w, blit, F, i)]
           S == {k \in Nat : Upto(k)}
<1>1. 0 \in S
  <2> DEFINE F == [i \in 0 .. 0 |-> w]
  <2>1. F = [i \in 0 .. 0 |-> Clipped(w, blit, F, i)]
    BY DEF Clipped
  <2> HIDE DEF F
  <2> QED
    BY <2>1
<1>2. ASSUME NEW k \in Nat, k \in S PROVE k + 1 \in S
  <2>1. PICK F : F = [i \in 0 .. k |-> Clipped(w, blit, F, i)]
    BY <1>2
  <2> DEFINE G == [i \in 0 .. k + 1 |-> IF i = k + 1 THEN Clipped(w, blit, F, i) ELSE F[i]]
  <2>2. \A i \in 0 .. k + 1 : Clipped(w, blit, F, i) = Clipped(w, blit, G, i)
    BY DEF Clipped
  <2>3. \A i \in 0 .. k : F[i] = Clipped(w, blit, F, i)
    BY <2>1
  <2>4. \A i \in 0 .. k + 1 : G[i] = Clipped(w, blit, G, i)
    BY <2>2, <2>3
  <2>5. G = [i \in 0 .. k + 1 |-> G[i]]
    OBVIOUS
  <2> HIDE DEF G
  <2>6. G = [i \in 0 .. k + 1 |-> Clipped(w, blit, G, i)]
    BY <2>4, <2>5
  <2> QED
    BY <2>6
<1>3. Nat \subseteq S
  <2> HIDE DEF S
  <2> QED
    BY <1>1, <1>2, Induction
<1> QED
  BY <1>3

(* A clip that is listed, after the list was drawn if it was full.         *)
LEMMA AppendAlike ==
  ASSUME NEW w, Device(w), NEW blit
  PROVE  Alike(Append_(w, blit), w)
<1> DEFINE room == IF Len(w.list) = MaxBlits THEN finish_copybit_internal(w, "none") ELSE w
<1>1. Alike(room, w) /\ Device(room)
  BY DrawAlike DEF Alike, Device
<1> HIDE DEF room
<1>2. ASSUME NEW b PROVE Alike([room EXCEPT !.list = Append(@, b)], w)
  BY <1>1 DEF Alike, Device
<1> QED
  BY <1>2 DEF Append_, room

(* So all of them.                                                         *)
LEMMA ClipsAlike ==
  ASSUME NEW w, Device(w), NEW blit, NEW n \in Nat
  PROVE  Alike(Clips(w, blit, n), w)
<1> DEFINE C == CHOOSE F : F = [i \in 0 .. n |-> Clipped(w, blit, F, i)]
<1>1. Clips(w, blit, n) = C[n]
  BY DEF Clips, Clipped
<1>2. C = [i \in 0 .. n |-> Clipped(w, blit, C, i)]
  BY ClipsExist
<1> HIDE DEF C
<1>3. \A i \in 0 .. n : C[i] = Clipped(w, blit, C, i)
  BY <1>2
<1> DEFINE S == {k \in Nat : k <= n => Alike(C[k], w)}
<1>4. 0 \in S
  <2>1. C[0] = Clipped(w, blit, C, 0)
    BY <1>3
  <2>2. C[0] = w
    BY <2>1 DEF Clipped
  <2> QED
    BY <2>2 DEF Alike
<1>5. ASSUME NEW k \in Nat, k \in S PROVE k + 1 \in S
  <2> SUFFICES ASSUME k + 1 <= n PROVE Alike(C[k + 1], w)
    OBVIOUS
  <2>1. Alike(C[k], w) /\ Device(C[k])
    BY <1>5 DEF Alike, Device
  <2>2. PICK b : C[k + 1] = Append_(C[k], b)
    <3>1. k + 1 \in 0 .. n /\ k + 1 # 0 /\ (k + 1) - 1 = k
      BY <1>5
    <3>2. C[k + 1] = Clipped(w, blit, C, k + 1)
      BY <1>3, <3>1
    <3> QED
      BY <3>1, <3>2 DEF Clipped
  <2>3. Alike(C[k + 1], C[k])
    BY <2>1, <2>2, AppendAlike
  <2> QED
    BY <2>1, <2>3 DEF Alike
<1>6. Nat \subseteq S
  <2> HIDE DEF S
  <2> QED
    BY <1>4, <1>5, Induction
<1> QED
  BY <1>1, <1>6

(* A whole stretch, however it goes.                                       *)
LEMMA StretchAlike ==
  ASSUME NEW w, Device(w), NEW d, NEW l, l.clips \in Nat, NEW fault
  PROVE  Alike(stretch_copybit_internal(w, d, l, fault), w)
<1> DEFINE atLimit == AtLimit(w)
           begun == [(IF FinishBefore(w, d)
                      THEN finish_copybit_internal(w, IF atLimit THEN "none" ELSE fault)
                      ELSE w) EXCEPT !.dstType = d.type]
           dst == Destination(begun, d, fault)
           src == Source(dst.w, l.image, fault)
           counted == [src.w EXCEPT !.counts[l.image.type] = @ + 1]
           listed == Clips(counted, Blit(src.w, d, l), l.clips)
<1>1. Alike(begun, w) /\ Device(begun)
  <2>1. \A f : Alike(finish_copybit_internal(w, f), w)
    BY DrawAlike
  <2>2. ASSUME NEW v, Alike(v, w) PROVE Alike([v EXCEPT !.dstType = d.type], w)
    BY <2>2 DEF Alike, Device
  <2>3. Alike(w, w)
    BY DEF Alike
  <2>4. Alike(begun, w)
    BY <2>1, <2>2, <2>3
  <2> QED
    BY <2>4 DEF Alike, Device
<1> HIDE DEF begun, atLimit
<1>2. Alike(dst.w, w) /\ Device(dst.w)
  BY <1>1, BuffersAlike DEF Result, Alike, Device
<1>3. /\ Alike(Undo(src.w, dst), src.w) /\ Alike(Undo(Undo(src.w, dst), src), src.w)
      /\ Alike(src.w, w) /\ Device(src.w)
  <2> HIDE DEF dst
  <2>1. Result(src, dst.w)
    BY <1>2, BuffersAlike
  <2>2. Alike(src.w, w) /\ Device(src.w)
    BY <1>2, <2>1 DEF Result, Alike, Device
  <2> HIDE DEF src
  <2>3. Alike(Undo(src.w, dst), src.w) /\ Device(Undo(src.w, dst))
    BY <2>2, MapsAlike DEF Undo, Alike, Device
  <2>4. Alike(Undo(Undo(src.w, dst), src), Undo(src.w, dst))
    BY <2>3, MapsAlike DEF Undo
  <2> QED
    BY <2>2, <2>3, <2>4 DEF Alike
<1> HIDE DEF dst, src
<1>4. Alike(counted, w) /\ Device(counted)
  BY <1>3 DEF Alike, Device
<1> HIDE DEF counted
<1>5. Alike(listed, w) /\ Device(listed)
  BY <1>4, ClipsAlike DEF Alike, Device
<1> HIDE DEF listed
<1>6. Alike(Listed(listed, d, l, fault), w)
  <2>1. Alike(finish_copybit_internal(listed, fault), w)
    BY <1>5, DrawAlike DEF Alike
  <2>2. ASSUME NEW v, Alike(v, w) PROVE Alike([v EXCEPT !.turns = {}, !.dirty = FALSE], w)
    BY <2>2 DEF Alike, Device
  <2> QED
    BY <1>5, <2>1, <2>2 DEF Listed
<1>7. ASSUME NEW v, Alike(v, w) PROVE Alike([v EXCEPT !.dirty = TRUE], w)
  BY <1>7 DEF Alike, Device
<1>8. Alike(w, w) /\ Alike(Undo(src.w, dst), w) /\ Alike(Undo(Undo(src.w, dst), src), w)
  BY <1>3 DEF Alike
<1> QED
  BY <1>2, <1>6, <1>7, <1>8 DEF stretch_copybit_internal, atLimit, begun, dst, src, counted, listed
-------------------------------------------------------------------------------
(* How the thread of the copybit device and its client share the condition *)
(* variable.  Whoever sleeps on it has something to be woken by: the       *)
(* thread sleeps while nothing is waited for, the client only while        *)
(* something is, and the thread lives as long as the device is open.       *)
Calls == {"clear", "layers", "finish"}
WaitInv ==
  /\ Device(cb)
  /\ client \in {"closed", "idle", "close"} \cup Calls
  /\ waiter \in {"top", "lock", "gpu", "ended"}
  /\ asleep \subseteq {"waiter", "client"}
  /\ "waiter" \in asleep => waiter = "lock" /\ ~cb.wait
  /\ "client" \in asleep => client \in Calls /\ cb.wait
  /\ waiter = "gpu" => cb.wait
  /\ client \in {"idle"} \cup Calls => ~cb.stop /\ waiter # "ended"
  /\ client = "closed" => waiter = "ended" /\ ~cb.wait

(* A device that is closed waits for nothing.                              *)
LEMMA FreshIdle ==
  ASSUME NEW override, NEW async
  PROVE  /\ Device(Fresh(override, async))
         /\ ~Fresh(override, async).wait /\ ~Fresh(override, async).stop
  BY DEF Device, Fresh

(* The thread: it sleeps only when no time stamp is there, holds the lock  *)
(* while it waits for one, and wakes the client when that is done.         *)
LEMMA WaiterStep ==
  WaitInv /\ (WaiterTop \/ WaiterLocks \/ WaiterDone \/ GpuDone) => WaitInv'
<1> SUFFICES ASSUME WaitInv, WaiterTop \/ WaiterLocks \/ WaiterDone \/ GpuDone PROVE WaitInv'
  OBVIOUS
<1>1. CASE WaiterTop
  BY <1>1 DEF WaitInv, WaiterTop, Calls
<1>2. CASE WaiterLocks
  BY <1>2 DEF WaitInv, WaiterLocks, Calls
<1>3. CASE WaiterDone
  <2> DEFINE w == [cb EXCEPT !.flight = {}]
  <2>1. Alike(w, cb) /\ Device(w)
    BY DEF WaitInv, Alike, Device
  <2>2. Alike(UnmapAll(w), cb)
    <3> HIDE DEF w
    <3> QED
      BY <2>1, MapsAlike DEF Alike
  <2>3. cb' = [UnmapAll(w) EXCEPT !.wait = FALSE]
    BY <1>3 DEF WaiterDone
  <2> HIDE DEF w
  <2>4. Device(cb') /\ ~cb'.wait /\ cb'.stop = cb.stop
    BY <2>2, <2>3 DEF WaitInv, Alike, Device
  <2>5. "waiter" \notin asleep' /\ "client" \notin asleep' /\ asleep' \subseteq {"waiter", "client"}
    BY <1>3 DEF WaitInv, WaiterDone, Signal
  <2> QED
    BY <1>3, <2>4, <2>5 DEF WaitInv, WaiterDone, Calls
<1>4. CASE GpuDone
  <2>1. Alike(cb', cb)
    BY <1>4 DEF WaitInv, GpuDone, Alike, Device
  <2> QED
    BY <1>4, <2>1 DEF WaitInv, GpuDone, Alike, Device, Calls
<1> QED
  BY <1>1, <1>2, <1>3, <1>4

(* Opening and closing the device: the thread is made with it, and told    *)
(* to stop before it is joined.                                            *)
LEMMA OpenCloseStep ==
  WaitInv /\ (open_copybit \/ close_copybit \/ Joined) => WaitInv'
<1> SUFFICES ASSUME WaitInv, open_copybit \/ close_copybit \/ Joined PROVE WaitInv'
  OBVIOUS
<1>1. CASE open_copybit
  <2>1. client = "closed" /\ asleep = {} /\ asleep' = {}
    BY <1>1 DEF WaitInv, open_copybit, Calls
  <2>2. Device(cb') /\ ~cb'.wait /\ ~cb'.stop
    <3>1. ASSUME NEW override, NEW async,
                 cb' = [Fresh(override, async) EXCEPT !.created = Surfaces]
          PROVE  Device(cb') /\ ~cb'.wait /\ ~cb'.stop
      <4> DEFINE f == Fresh(override, async)
      <4>1. Device(f) /\ ~f.wait /\ ~f.stop
        BY FreshIdle
      <4> HIDE DEF f
      <4> QED
        BY <3>1, <4>1 DEF Device, f
    <3> QED
      BY <1>1, <3>1, FreshIdle DEF open_copybit, clean_up
  <2>3. \/ client' = "idle" /\ waiter' = "top"
        \/ client' = "closed" /\ waiter' = "ended"
    BY <1>1, <2>1 DEF WaitInv, open_copybit
  <2> QED
    BY <2>1, <2>2, <2>3 DEF WaitInv, Calls
<1>2. CASE close_copybit
  <2>1. Device(cb') /\ cb'.wait = cb.wait
    BY <1>2 DEF WaitInv, close_copybit, Device
  <2>2. asleep' \subseteq asleep
    BY <1>2 DEF close_copybit, Signal
  <2> QED
    BY <1>2, <2>1, <2>2 DEF WaitInv, close_copybit, Calls
<1>3. CASE Joined
  BY <1>3, FreshIdle DEF WaitInv, Joined, clean_up, Calls
<1> QED
  BY <1>1, <1>2, <1>3

(* The calls of the client.  A flush sets the time stamp and signals: the  *)
(* thread, which may be the only one asleep since the client is not, is    *)
(* woken.                                                                  *)
LEMMA ClientStep ==
  /\ WaitInv
  /\ prepare \/ Sleep \/ clear \/ drawLayerUsingCopybit \/ Redirect \/ LayersDone \/ finish
  => WaitInv'
<1> SUFFICES ASSUME WaitInv,
                    prepare \/ Sleep \/ clear \/ drawLayerUsingCopybit \/ Redirect \/ LayersDone
                      \/ finish
             PROVE  WaitInv'
  OBVIOUS
<1>1. CASE prepare \/ Redirect \/ LayersDone
  BY <1>1 DEF WaitInv, prepare, Redirect, LayersDone, Calls
<1>2. CASE Sleep
  BY <1>2 DEF WaitInv, Sleep, Calls
<1>3. CASE clear
  <2>1. Alike(cb', cb)
    BY <1>3, ParametersAlike DEF WaitInv, clear
  <2> QED
    BY <1>3, <2>1 DEF WaitInv, clear, Enter, Alike, Device, Calls
<1>4. CASE drawLayerUsingCopybit
  <2>1. PICK l \in CbLayers, f \in Allowed \ {"flush", "fence"} :
          cb' = stretch_copybit_internal(set_parameter_copybit(cb, l.turn, "none"), dest, l, f)
    BY <1>4 DEF drawLayerUsingCopybit
  <2> DEFINE w == set_parameter_copybit(cb, l.turn, "none")
  <2>2. Alike(w, cb) /\ Device(w)
    BY ParametersAlike DEF WaitInv, Alike, Device
  <2>3. l.clips \in Nat
    BY CopybitAssumption
  <2>4. Alike(cb', w)
    <3> HIDE DEF w
    <3> QED
      BY <2>1, <2>2, <2>3, StretchAlike DEF w
  <2> HIDE DEF w
  <2> QED
    BY <1>4, <2>2, <2>4 DEF WaitInv, drawLayerUsingCopybit, Enter, Alike, Device, Calls
<1>5. CASE finish
  <2>1. Device(cb') /\ cb'.stop = cb.stop
    BY <1>5, DrawAlike, FlushAlike DEF WaitInv, finish, Alike, Device
  <2>2. client = "finish" /\ ~cb.wait /\ "client" \notin asleep /\ waiter # "gpu"
    BY <1>5 DEF finish, Enter, Free
  <2>3. asleep' \subseteq {"waiter"} /\ (cb'.wait => asleep' = {})
    <3>1. asleep = {} \/ asleep = {"waiter"}
      BY <2>2 DEF WaitInv
    <3>2. Signal(asleep) = {{}}
      BY <3>1 DEF Signal
    <3>3. asleep' \in IF cb'.wait THEN {{}} ELSE {asleep}
      BY <1>5, <3>2 DEF finish, Told
    <3> QED
      BY <3>1, <3>3
  <2>4. "waiter" \in asleep' => "waiter" \in asleep
    BY <1>5 DEF finish, Told, Signal
  <2> QED
    BY <1>5, <2>1, <2>2, <2>3, <2>4 DEF WaitInv, finish, Calls
<1> QED
  BY <1>1, <1>2, <1>3, <1>4, <1>5

(* No wake-up is lost: a time stamp that is waited for has the thread of   *)
(* the device awake and running, and a call that sleeps has one to wait    *)
(* for, so that the thread will wake it; in whatever order the two come to *)
(* the condition variable, and whichever calls of libC2D2 fail.            *)
THEOREM WakeUps == DisplaySpec => []WaiterServes
<1>1. DisplayInit => WaitInv
  BY FreshIdle DEF DisplayInit, CbInit, WaitInv, Calls
<1>2. WaitInv /\ [DisplayNext]_displayVars => WaitInv'
  <2> SUFFICES ASSUME WaitInv, [DisplayNext]_displayVars PROVE WaitInv'
    OBVIOUS
  <2>1. CASE UNCHANGED cbVars
    BY <2>1 DEF cbVars, WaitInv, Device
  <2>2. CASE CbNext
    BY <2>2, WaiterStep, OpenCloseStep, ClientStep DEF CbNext
  <2> QED
    BY <2>1, <2>2 DEF DisplayNext, displayVars
<1>3. WaitInv => WaiterServes
  BY DEF WaitInv, WaiterServes, Calls
<1> QED
  BY <1>1, <1>2, <1>3, PTL DEF DisplaySpec
-------------------------------------------------------------------------------
(* A set of numbers that is not empty has a least one.                     *)
LEMMA LeastOf ==
  ASSUME NEW S \in SUBSET Nat, S # {}
  PROVE  Min(S) \in S /\ \A x \in S : Min(S) <= x
<1> DEFINE Least == \E m \in S : \A x \in S : m <= x
           T == {n \in Nat : (\E m \in S : m <= n) => Least}
<1>1. 0 \in T
  OBVIOUS
<1>2. ASSUME NEW n \in Nat, n \in T PROVE n + 1 \in T
  <2> SUFFICES ASSUME NEW m \in S, m <= n + 1 PROVE Least
    OBVIOUS
  <2>1. CASE \E k \in S : k <= n
    BY <1>2, <2>1
  <2>2. CASE ~ \E k \in S : k <= n
    <3>1. \A x \in S : m <= x
      BY <2>2
    <3> QED
      BY <3>1
  <2> QED
    BY <2>1, <2>2
<1>3. Nat \subseteq T
  <2> HIDE DEF T
  <2> QED
    BY <1>1, <1>2, Induction
<1>4. Least
  <2>1. PICK m \in S : TRUE
    OBVIOUS
  <2>2. m \in T /\ m <= m
    BY <1>3
  <2> QED
    BY <2>2
<1> QED
  BY <1>4 DEF Min

(* One that no member exceeds has a greatest one.                          *)
LEMMA GreatestOf ==
  ASSUME NEW S \in SUBSET Nat, S # {}, NEW n \in Nat, \A x \in S : x <= n
  PROVE  Max(S) \in S /\ \A x \in S : x <= Max(S)
<1> DEFINE T == {n - x : x \in S}
           k == Min(T)
<1>1. T \in SUBSET Nat /\ T # {}
  <2>1. \A x \in S : x \in Nat /\ n - x \in Nat
    OBVIOUS
  <2> QED
    BY <2>1
<1>2. k \in T /\ \A y \in T : k <= y
  <2> HIDE DEF T
  <2> QED
    BY <1>1, LeastOf
<1>3. PICK m \in S : k = n - m
  BY <1>2
<1> HIDE DEF k
<1>4. \A x \in S : x <= m
  <2> SUFFICES ASSUME NEW x \in S PROVE x <= m
    OBVIOUS
  <2>1. n - x \in T
    OBVIOUS
  <2>2. n - m <= n - x
    BY <1>2, <1>3, <2>1
  <2> QED
    BY <2>2
<1>5. \A x \in S : m >= x
  BY <1>4
<1>6. Max(S) \in S /\ \A y \in S : Max(S) >= y
  BY <1>5 DEF Max
<1> QED
  BY <1>6

(* The layers of a list, and between which two of them a set of them lies. *)
Span(fb) == fb # {} => fb = Min(fb) .. Max(fb)

(* The layers between two form such a set.                                 *)
LEMMA IntervalSpans ==
  ASSUME NEW lo \in Nat, NEW hi \in Nat, lo <= hi
  PROVE  Span(lo .. hi) /\ Min(lo .. hi) = lo
<1>1. lo .. hi \in SUBSET Nat /\ lo .. hi # {} /\ \A x \in lo .. hi : x <= hi
  OBVIOUS
<1>2. Min(lo .. hi) \in lo .. hi /\ \A x \in lo .. hi : Min(lo .. hi) <= x
  BY <1>1, LeastOf
<1>3. Max(lo .. hi) \in lo .. hi /\ \A x \in lo .. hi : x <= Max(lo .. hi)
  BY <1>1, GreatestOf
<1>4. Min(lo .. hi) = lo /\ Max(lo .. hi) = hi
  <2>1. lo \in lo .. hi /\ hi \in lo .. hi
    OBVIOUS
  <2>2. Min(lo .. hi) <= lo /\ hi <= Max(lo .. hi)
    BY <1>2, <1>3, <2>1
  <2> QED
    BY <1>2, <1>3, <2>2
<1> QED
  BY <1>4 DEF Span

(* A list of the members of a set, each of them once.                      *)
Counts(q, S) ==
  /\ q \in Seq(S)
  /\ \A t \in S : \E i \in DOMAIN q : q[i] = t
  /\ \A i, j \in DOMAIN q : q[i] = q[j] => i = j

(* InOrder makes such a list of a finite set of numbers.                   *)
LEMMA InOrderCounts ==
  ASSUME NEW S \in SUBSET Int, IsFiniteSet(S)
  PROVE  Counts(InOrder(S), S)
<1> DEFINE n == Cardinality(S)
           below(t) == {u \in S : u < t}
           c == [t \in S |-> Cardinality(below(t))]
<1>1. n \in Nat
  BY FS_CardinalityType
<1>2. \A t \in S : IsFiniteSet(below(t)) /\ Cardinality(below(t)) \in Nat
  BY FS_Subset, FS_CardinalityType
<1>3. \A t \in S : Cardinality(below(t)) < n
  <2> SUFFICES ASSUME NEW t \in S PROVE Cardinality(below(t)) < n
    OBVIOUS
  <2>1. below(t) \in SUBSET S /\ t \notin below(t)
    OBVIOUS
  <2>2. Cardinality(below(t)) <= n /\ (n = Cardinality(below(t)) => S = below(t))
    BY <2>1, FS_Subset
  <2> HIDE DEF n, below
  <2> QED
    BY <1>1, <1>2, <2>1, <2>2
<1>4. \A s, t \in S : s < t => Cardinality(below(s)) < Cardinality(below(t))
  <2> SUFFICES ASSUME NEW s \in S, NEW t \in S, s < t
               PROVE  Cardinality(below(s)) < Cardinality(below(t))
    OBVIOUS
  <2>1. below(s) \in SUBSET below(t) /\ s \notin below(s) /\ s \in below(t)
    <3>1. \A u \in S : u < s => u < t
      OBVIOUS
    <3>2. s \in Int
      OBVIOUS
    <3>3. s \notin below(s) /\ s \in below(t)
      BY <3>2
    <3>4. \A u \in below(s) : u \in below(t)
      BY <3>1
    <3> QED
      BY <3>3, <3>4
  <2>2. /\ Cardinality(below(s)) <= Cardinality(below(t))
        /\ Cardinality(below(t)) = Cardinality(below(s)) => below(t) = below(s)
    BY <1>2, <2>1, FS_Subset
  <2> HIDE DEF below
  <2> QED
    BY <1>2, <2>1, <2>2
<1> DEFINE Same(s, t) == Cardinality(below(s)) = Cardinality(below(t))
<1>5. \A s, t \in S : Same(s, t) => s = t
  <2> SUFFICES ASSUME NEW s \in S, NEW t \in S, Same(s, t) PROVE s = t
    OBVIOUS
  <2>1. s \in Int /\ t \in Int
    OBVIOUS
  <2> HIDE DEF below
  <2> QED
    BY <1>2, <1>4, <2>1
<1>6. c \in Injection(S, 0 .. n - 1)
  <2>1. c \in [S -> 0 .. n - 1]
    <3> HIDE DEF n, below
    <3> QED
      BY <1>1, <1>2, <1>3
  <2>2. \A s, t \in S : c[s] = c[t] => s = t
    BY <1>5
  <2> HIDE DEF c, n
  <2> QED
    BY <2>1, <2>2 DEF Injection, IsInjective
<1>7. c \in Surjection(S, 0 .. n - 1)
  <2>1. IsFiniteSet(0 .. n - 1) /\ Cardinality(0 .. n - 1) = n
    <3> HIDE DEF n
    <3> QED
      BY <1>1, FS_Interval
  <2> HIDE DEF c
  <2> QED
    BY <1>6, <2>1, FS_Injection
<1>8. \A k \in 0 .. n - 1 : \E t \in S : Cardinality(below(t)) = k
  <2> SUFFICES ASSUME NEW k \in 0 .. n - 1 PROVE \E t \in S : c[t] = k
    OBVIOUS
  <2> HIDE DEF c, n
  <2> QED
    BY <1>7 DEF Surjection
<1> DEFINE q == InOrder(S)
<1>9. DOMAIN q = 1 .. n /\ \A i \in 1 .. n : q[i] = CHOOSE t \in S : Cardinality(below(t)) = i - 1
  BY DEF InOrder
<1>10. \A i \in 1 .. n : q[i] \in S /\ Cardinality(below(q[i])) = i - 1
  <2> SUFFICES ASSUME NEW i \in 1 .. n PROVE q[i] \in S /\ Cardinality(below(q[i])) = i - 1
    OBVIOUS
  <2>1. i - 1 \in 0 .. n - 1
    <3> HIDE DEF n
    <3> QED
      BY <1>1
  <2>2. \E t \in S : Cardinality(below(t)) = i - 1
    BY <1>8, <2>1
  <2>3. q[i] = CHOOSE t \in S : Cardinality(below(t)) = i - 1
    BY <1>9
  <2> HIDE DEF q, n, below
  <2> QED
    BY <2>2, <2>3
<1>11. q \in Seq(S)
  <2>1. q = [i \in 1 .. n |-> q[i]]
    BY DEF InOrder
  <2> HIDE DEF q, n, below
  <2> QED
    BY <1>1, <1>10, <2>1
<1>12. \A t \in S : \E i \in DOMAIN q : q[i] = t
  <2> SUFFICES ASSUME NEW t \in S PROVE \E i \in DOMAIN q : q[i] = t
    OBVIOUS
  <2> DEFINE i == Cardinality(below(t)) + 1
  <2>1. i \in 1 .. n
    <3> HIDE DEF n, below
    <3> QED
      BY <1>1, <1>2, <1>3
  <2>2. q[i] \in S /\ Cardinality(below(q[i])) = i - 1
    BY <1>10, <2>1
  <2>3. Cardinality(below(q[i])) = Cardinality(below(t))
    <3> HIDE DEF below, q
    <3> QED
      BY <1>2, <2>2
  <2> HIDE DEF q, n, below, i
  <2>4. q[i] = t
    BY <1>5, <2>2, <2>3
  <2> QED
    BY <1>9, <2>1, <2>4
<1>13. \A i, j \in DOMAIN q : q[i] = q[j] => i = j
  <2> HIDE DEF q, n, below
  <2> QED
    BY <1>1, <1>9, <1>10
<1> QED
  BY <1>11, <1>12, <1>13 DEF Counts

(* What SurfaceFlinger passes: a list of layers whose flags agree.         *)
LayerList(l) ==
  /\ l \in Seq(Layer) /\ Len(l) <= MaxLayers
  /\ \A i \in DOMAIN l : /\ l[i].skip => ~l[i].supported /\ ~l[i].yuv
                         /\ l[i].yuv /\ l[i].supported => l[i].doable

(* Around a layer in the framebuffer there is a run of such layers.        *)
LEMMA RunAround ==
  ASSUME NEW l, LayerList(l), NEW fb \in SUBSET (DOMAIN l), NEW x \in fb
  PROVE  \E r \in Runs(l, fb) : x \in r[1] .. r[2]
<1> DEFINE n == Len(l)
           A == {a \in 1 .. n : a .. x \subseteq fb}
           B == {b \in 1 .. n : x .. b \subseteq fb}
           lo == Min(A)
           hi == Max(B)
<1>1. n \in Nat /\ DOMAIN l = 1 .. n /\ x \in 1 .. n
  BY DEF LayerList
<1> HIDE DEF n
<1>2. x \in A /\ x \in B
  <2>1. x .. x = {x}
    BY <1>1
  <2> QED
    BY <1>1, <2>1
<1>3. A \in SUBSET Nat /\ B \in SUBSET Nat /\ \A b \in B : b <= n
  BY <1>1
<1>4. lo \in A /\ \A a \in A : lo <= a
  <2> HIDE DEF A
  <2> QED
    BY <1>2, <1>3, LeastOf
<1>5. hi \in B /\ \A b \in B : b <= hi
  <2> HIDE DEF B
  <2> QED
    BY <1>1, <1>2, <1>3, GreatestOf
<1>6. lo <= x /\ x <= hi
  BY <1>2, <1>4, <1>5
<1>7. lo \in 1 .. n /\ hi \in 1 .. n /\ lo .. x \subseteq fb /\ x .. hi \subseteq fb
  BY <1>4, <1>5
<1>8. lo - 1 \notin fb
  <2> SUFFICES ASSUME lo - 1 \in fb PROVE FALSE
    OBVIOUS
  <2>1. lo - 1 \in 1 .. n
    BY <1>1
  <2>2. (lo - 1) .. x \subseteq fb
    <3> HIDE DEF lo, A
    <3>1. \A y \in (lo - 1) .. x : y = lo - 1 \/ y \in lo .. x
      BY <1>1, <1>7
    <3> QED
      BY <1>7, <3>1
  <2>3. lo - 1 \in A
    <3> HIDE DEF lo
    <3> QED
      BY <2>1, <2>2
  <2>4. lo <= lo - 1
    BY <1>4, <2>3
  <2> HIDE DEF lo
  <2> QED
    BY <1>7, <2>4
<1>9. hi + 1 \notin fb
  <2> SUFFICES ASSUME hi + 1 \in fb PROVE FALSE
    OBVIOUS
  <2>1. hi + 1 \in 1 .. n
    BY <1>1
  <2>2. x .. (hi + 1) \subseteq fb
    <3> HIDE DEF hi, B
    <3>1. \A y \in x .. (hi + 1) : y = hi + 1 \/ y \in x .. hi
      BY <1>1, <1>7
    <3> QED
      BY <1>7, <3>1
  <2>3. hi + 1 \in B
    <3> HIDE DEF hi
    <3> QED
      BY <2>1, <2>2
  <2>4. hi + 1 <= hi
    BY <1>5, <2>3
  <2> HIDE DEF hi
  <2> QED
    BY <1>7, <2>4
<1> DEFINE r == <<lo, hi>>
<1>10. r[1] = lo /\ r[2] = hi
  OBVIOUS
<1> HIDE DEF lo, hi, A, B
<1>11. lo .. hi \subseteq fb
  <2>1. \A y \in lo .. hi : y \in lo .. x \/ y \in x .. hi
    BY <1>1, <1>7
  <2> QED
    BY <1>7, <2>1
<1>12. lo <= hi /\ x \in lo .. hi
  BY <1>1, <1>6, <1>7
<1>13. r \in Runs(l, fb)
  BY <1>1, <1>7, <1>8, <1>9, <1>10, <1>11, <1>12 DEF Runs, Run
<1> QED
  BY <1>10, <1>12, <1>13

(* There is a batch for the framebuffer, and it is one of the runs of      *)
(* layers in it: the one that has the unsupported layers, or one of the    *)
(* longest, of which one begins first.                                     *)
LEMMA BatchExists ==
  ASSUME NEW l, LayerList(l), NEW fb \in SUBSET (DOMAIN l), fb # {}, NotSupported(l) \subseteq fb
  PROVE  Batch(l, fb) \in Runs(l, fb)
<1> DEFINE R == Runs(l, fb)
           n == Len(l)
           Longer(r, s) == \/ r[2] - r[1] > s[2] - s[1]
                           \/ r[2] - r[1] = s[2] - s[1] /\ r[1] <= s[1]
<1>1. n \in Nat /\ DOMAIN l = 1 .. n
  BY DEF LayerList
<1>2. \A r \in R : r[1] \in 1 .. n /\ r[2] \in 1 .. n /\ r[1] <= r[2]
  BY <1>1 DEF Runs
<1>3. CASE NotSupported(l) # {}
  <2>1. NotSupported(l) \in SUBSET Nat
    BY <1>1 DEF NotSupported
  <2>2. Min(NotSupported(l)) \in fb
    BY <1>3, <2>1, LeastOf
  <2>3. \E r \in R : Min(NotSupported(l)) \in r[1] .. r[2]
    BY <2>2, RunAround
  <2> QED
    BY <1>3, <2>3 DEF Batch
<1>4. CASE NotSupported(l) = {}
  <2> DEFINE Lengths == {r[2] - r[1] : r \in R}
             longest == Max(Lengths)
             Starts == {r[1] : r \in {s \in R : s[2] - s[1] = longest}}
             first == Min(Starts)
  <2>1. R # {}
    BY RunAround
  <2> HIDE DEF R, n
  <2>2. Lengths \in SUBSET Nat /\ Lengths # {} /\ \A k \in Lengths : k <= n
    <3>1. \A r \in R : r[2] - r[1] \in Nat /\ r[2] - r[1] <= n
      BY <1>1, <1>2
    <3> QED
      BY <2>1, <3>1
  <2>3. longest \in Lengths /\ \A k \in Lengths : k <= longest
    <3> HIDE DEF Lengths
    <3> QED
      BY <1>1, <2>2, GreatestOf
  <2>4. Starts \in SUBSET Nat /\ Starts # {}
    <3> HIDE DEF longest
    <3> QED
      BY <1>1, <1>2, <2>3
  <2>5. first \in Starts /\ \A k \in Starts : first <= k
    <3> HIDE DEF Starts
    <3> QED
      BY <2>4, LeastOf
  <2>6. PICK r \in R : r[2] - r[1] = longest /\ r[1] = first
    <3> HIDE DEF first, longest
    <3> QED
      BY <2>5
  <2>7. \A s \in R : Longer(r, s)
    <3> SUFFICES ASSUME NEW s \in R PROVE Longer(r, s)
      OBVIOUS
    <3>1. s[2] - s[1] <= longest
      BY <2>3
    <3>2. s[2] - s[1] = longest => first <= s[1]
      <4> HIDE DEF first, longest
      <4> QED
        BY <2>5
    <3> HIDE DEF first, longest
    <3> QED
      BY <1>1, <1>2, <2>6, <3>1, <3>2
  <2>8. \E t \in R : \A s \in R : Longer(t, s)
    BY <2>7
  <2>9. Batch(l, fb) = CHOOSE t \in R : \A s \in R : Longer(t, s)
    BY <1>4 DEF Batch, R
  <2> HIDE DEF Longer
  <2> QED
    BY <2>8, <2>9 DEF R
<1> QED
  BY <1>3, <1>4

(* What stays in the framebuffer is one batch of its layers.               *)
LEMMA Batched ==
  ASSUME NEW l, LayerList(l), NEW fb \in SUBSET (DOMAIN l), NotSupported(l) \subseteq fb
  PROVE  batchLayers(l, fb) \subseteq fb /\ Span(batchLayers(l, fb))
<1>1. CASE fb = {}
  BY <1>1 DEF batchLayers, Span
<1>2. CASE fb # {}
  <2> DEFINE r == Batch(l, fb)
  <2>1. r \in Runs(l, fb)
    BY <1>2, BatchExists
  <2>2. r[1] \in Nat /\ r[2] \in Nat /\ r[1] <= r[2] /\ r[1] .. r[2] \subseteq fb
    BY <2>1 DEF Runs, Run, LayerList
  <2>3. batchLayers(l, fb) = r[1] .. r[2]
    BY <1>2 DEF batchLayers
  <2> HIDE DEF r
  <2> QED
    BY <2>2, <2>3, IntervalSpans
<1> QED
  BY <1>1, <1>2

(* So is what MDPComp leaves to the framebuffer, whichever way it composes *)
(* the frame.                                                              *)
LEMMA FbLayersSpan ==
  ASSUME NEW l, LayerList(l), l # <<>>, NEW avail, NEW same \in SUBSET (DOMAIN l), NEW d, NEW doable
  PROVE  LET how == Composition(d, l, avail, same, doable)
             fb == FbLayers(how, l, avail, same)
         IN  fb \subseteq DOMAIN l /\ Span(fb)
<1> DEFINE n == Len(l)
<1>1. n \in Nat /\ DOMAIN l = 1 .. n /\ n # 0
  BY DEF LayerList
<1>2. ASSUME NEW fb \in SUBSET (DOMAIN l)
      PROVE  LET b == batchLayers(l, updateNotSupported(l, updateYUV(l, avail, fb)))
             IN  b \subseteq DOMAIN l /\ Span(b)
  <2> DEFINE y == updateYUV(l, avail, fb)
             u == updateNotSupported(l, y)
  <2>1. y \in SUBSET (DOMAIN l)
    BY DEF updateYUV, Yuv
  <2>2. u \in SUBSET (DOMAIN l) /\ NotSupported(l) \subseteq u
    <3> HIDE DEF y
    <3>1. CASE NotSupported(l) = {}
      BY <2>1, <3>1 DEF updateNotSupported
    <3>2. CASE NotSupported(l) # {}
      <4> DEFINE N == NotSupported(l)
      <4>1. N \in SUBSET Nat /\ N \subseteq 1 .. n /\ \A x \in N : x <= n
        BY <1>1 DEF NotSupported
      <4> HIDE DEF N, n
      <4>2. Min(N) \in N /\ \A x \in N : Min(N) <= x
        BY <3>2, <4>1, LeastOf DEF N
      <4>3. Max(N) \in N /\ \A x \in N : x <= Max(N)
        BY <1>1, <3>2, <4>1, GreatestOf DEF N
      <4>4. Min(N) .. Max(N) \subseteq 1 .. n /\ N \subseteq Min(N) .. Max(N)
        <5>1. Min(N) \in 1 .. n /\ Max(N) \in 1 .. n
          BY <4>1, <4>2, <4>3
        <5>2. \A x \in Min(N) .. Max(N) : x \in 1 .. n
          BY <1>1, <5>1
        <5>3. \A x \in N : x \in Nat /\ Min(N) <= x /\ x <= Max(N)
          BY <4>1, <4>2, <4>3
        <5> QED
          BY <5>1, <5>2, <5>3
      <4>5. u = y \cup (Min(N) .. Max(N))
        BY <3>2 DEF updateNotSupported, N
      <4> QED
        BY <1>1, <2>1, <4>4, <4>5 DEF N
    <3> QED
      BY <3>1, <3>2
  <2> HIDE DEF y, u
  <2>3. batchLayers(l, u) \subseteq u /\ Span(batchLayers(l, u))
    BY <2>2, Batched
  <2> QED
    BY <2>2, <2>3 DEF y, u
<1>3. \A fb \in SUBSET (DOMAIN l) : /\ partialMDPComp(l, avail, fb) \subseteq DOMAIN l
                                   /\ Span(partialMDPComp(l, avail, fb))
  BY <1>2 DEF partialMDPComp
<1>4. isOnlyVideoDoable(l, avail) \subseteq DOMAIN l /\ Span(isOnlyVideoDoable(l, avail))
  BY <1>2 DEF isOnlyVideoDoable
<1>5. Span({}) /\ Span(DOMAIN l)
  <2> HIDE DEF n
  <2> QED
    BY <1>1, IntervalSpans DEF Span
<1>6. Composition(d, l, avail, same, doable) \in {"full", "partial", "video", "gpu"}
  BY DEF Composition
<1> QED
  BY <1>3, <1>4, <1>5, <1>6 DEF FbLayers

(* Two lists counted through one after the other.                          *)
LEMMA ConcatCounts ==
  ASSUME NEW q, NEW S, Counts(q, S), NEW r, NEW T, Counts(r, T), S \cap T = {}
  PROVE  Counts(q \o r, S \cup T)
<1>1. q \in Seq(S \cup T) /\ r \in Seq(S \cup T)
  BY DEF Counts
<1>2. /\ q \o r \in Seq(S \cup T)
      /\ \A i \in DOMAIN q : i \in DOMAIN (q \o r) /\ (q \o r)[i] = q[i]
      /\ \A i \in DOMAIN r : i + Len(q) \in DOMAIN (q \o r) /\ (q \o r)[i + Len(q)] = r[i]
      /\ \A i \in DOMAIN (q \o r) :
           \/ i \in DOMAIN q
           \/ i - Len(q) \in DOMAIN r /\ (q \o r)[i] = r[i - Len(q)]
      /\ Len(q) \in Nat /\ DOMAIN (q \o r) \subseteq Int
  BY <1>1
<1>3. \A i \in DOMAIN q : q[i] \in S
  BY DEF Counts
<1>4. \A i \in DOMAIN r : r[i] \in T
  BY DEF Counts
<1>5. \A t \in S \cup T : \E i \in DOMAIN (q \o r) : (q \o r)[i] = t
  <2>1. \A t \in S : \E i \in DOMAIN (q \o r) : (q \o r)[i] = t
    BY <1>2 DEF Counts
  <2>2. \A t \in T : \E i \in DOMAIN (q \o r) : (q \o r)[i] = t
    <3> SUFFICES ASSUME NEW t \in T PROVE \E i \in DOMAIN (q \o r) : (q \o r)[i] = t
      OBVIOUS
    <3>1. PICK i \in DOMAIN r : r[i] = t
      BY DEF Counts
    <3> QED
      BY <1>2, <3>1
  <2> QED
    BY <2>1, <2>2
<1>6. \A i, j \in DOMAIN (q \o r) : (q \o r)[i] = (q \o r)[j] => i = j
  <2> SUFFICES ASSUME NEW i \in DOMAIN (q \o r), NEW j \in DOMAIN (q \o r),
                      (q \o r)[i] = (q \o r)[j]
               PROVE  i = j
    OBVIOUS
  <2> DEFINE c == q \o r
  <2>1. CASE i \in DOMAIN q /\ j \in DOMAIN q
    BY <1>2, <2>1 DEF Counts
  <2>2. CASE i - Len(q) \in DOMAIN r /\ j - Len(q) \in DOMAIN r
    <3>1. CASE c[i] = r[i - Len(q)] /\ c[j] = r[j - Len(q)]
      <4>1. i - Len(q) = j - Len(q)
        BY <2>2, <3>1 DEF Counts
      <4> QED
        BY <1>2, <4>1
    <3>2. CASE i \in DOMAIN q /\ j \in DOMAIN q
      BY <2>1, <3>2
    <3>3. CASE i \in DOMAIN q /\ c[j] = r[j - Len(q)]
      <4>1. c[i] \in S /\ c[j] \in T
        BY <1>2, <1>3, <1>4, <2>2, <3>3
      <4> QED
        BY <4>1
    <3>4. CASE j \in DOMAIN q /\ c[i] = r[i - Len(q)]
      <4>1. c[j] \in S /\ c[i] \in T
        BY <1>2, <1>3, <1>4, <2>2, <3>4
      <4> QED
        BY <4>1
    <3> QED
      BY <1>2, <3>1, <3>2, <3>3, <3>4
  <2>3. CASE i \in DOMAIN q /\ j \notin DOMAIN q
    BY <1>2, <1>3, <1>4, <2>3
  <2>4. CASE j \in DOMAIN q /\ i \notin DOMAIN q
    BY <1>2, <1>3, <1>4, <2>4
  <2> QED
    BY <1>2, <2>1, <2>2, <2>3, <2>4
<1> QED
  BY <1>2, <1>5, <1>6 DEF Counts

(* What two queues have one after the other.                               *)
LEMMA ConcatHas ==
  ASSUME NEW E, NEW q \in Seq(E), NEW r \in Seq(E), NEW D, NEW F
  PROVE  /\ q \o r \in Seq(E)
         /\ Has(q \o r, D) <=> Has(q, D) \/ Has(r, D)
         /\ AtMostOne(q, D) /\ AtMostOne(r, D) /\ ~(Has(q, D) /\ Has(r, D)) => AtMostOne(q \o r, D)
         /\ Before(q, D, F) /\ Before(r, D, F) /\ ~(Has(q, D) /\ Has(r, F)) => Before(q \o r, D, F)
<1> DEFINE c == q \o r
           k == Len(q)
<1>1. /\ c \in Seq(E) /\ k \in Nat /\ DOMAIN c \subseteq Int
      /\ DOMAIN q = 1 .. k
      /\ DOMAIN r \subseteq Nat \ {0}
      /\ \A i \in DOMAIN q : i \in DOMAIN c /\ c[i] = q[i]
      /\ \A i \in DOMAIN r : i + k \in DOMAIN c /\ c[i + k] = r[i]
      /\ \A i \in DOMAIN c : (i \notin DOMAIN q) => i - k \in DOMAIN r /\ c[i] = r[i - k]
  OBVIOUS
<1> HIDE DEF c, k
<1>2. Has(c, D) <=> Has(q, D) \/ Has(r, D)
  <2>1. Has(c, D) => Has(q, D) \/ Has(r, D)
    BY <1>1 DEF Has
  <2>2. Has(q, D) => Has(c, D)
    BY <1>1 DEF Has
  <2>3. Has(r, D) => Has(c, D)
    BY <1>1 DEF Has
  <2> QED
    BY <2>1, <2>2, <2>3
<1>3. AtMostOne(q, D) /\ AtMostOne(r, D) /\ ~(Has(q, D) /\ Has(r, D)) => AtMostOne(c, D)
  <2> SUFFICES ASSUME AtMostOne(q, D), AtMostOne(r, D), ~(Has(q, D) /\ Has(r, D)),
                      NEW i \in DOMAIN c, NEW j \in DOMAIN c, c[i] \in D, c[j] \in D
               PROVE  i = j
    BY DEF AtMostOne
  <2>1. CASE i \in DOMAIN q /\ j \in DOMAIN q
    BY <1>1, <2>1 DEF AtMostOne
  <2>2. CASE i \notin DOMAIN q /\ j \notin DOMAIN q
    <3>1. i - k = j - k
      BY <1>1, <2>2 DEF AtMostOne
    <3> QED
      BY <1>1, <3>1
  <2>3. CASE i \in DOMAIN q /\ j \notin DOMAIN q
    BY <1>1, <2>3 DEF Has
  <2>4. CASE i \notin DOMAIN q /\ j \in DOMAIN q
    BY <1>1, <2>4 DEF Has
  <2> QED
    BY <2>1, <2>2, <2>3, <2>4
<1>4. Before(q, D, F) /\ Before(r, D, F) /\ ~(Has(q, D) /\ Has(r, F)) => Before(c, D, F)
  <2> SUFFICES ASSUME Before(q, D, F), Before(r, D, F), ~(Has(q, D) /\ Has(r, F)),
                      NEW i \in DOMAIN c, NEW j \in DOMAIN c, i < j, c[i] \in D, c[j] \in F
               PROVE  FALSE
    BY DEF Before
  <2>1. CASE i \in DOMAIN q /\ j \in DOMAIN q
    BY <1>1, <2>1 DEF Before
  <2>2. CASE i \notin DOMAIN q /\ j \notin DOMAIN q
    <3>1. i - k < j - k
      BY <1>1
    <3> QED
      BY <1>1, <2>2, <3>1 DEF Before
  <2>3. CASE i \in DOMAIN q /\ j \notin DOMAIN q
    BY <1>1, <2>3 DEF Has
  <2>4. CASE i \notin DOMAIN q /\ j \in DOMAIN q
    <3>1. j - k \in Int /\ j <= k /\ i - k >= 1 /\ i \in Int /\ j \in Int
      BY <1>1, <2>4
    <3> QED
      BY <1>1, <3>1
  <2> QED
    BY <2>1, <2>2, <2>3, <2>4
<1> QED
  BY <1>1, <1>2, <1>3, <1>4 DEF c

(* The operations MDPComp and FBUpdate have left: a pipe still to be had   *)
(* for a target, or still to be committed; each once, and in this order.   *)
Ops == [do : {"next", "commit"}, for : Targets]
ToGet(q) == {t \in Targets : Has(q, {GetOp(t)})}
ToCommit(q) == {t \in Targets : Has(q, {CommitOp(t)})}
Orderly(q) ==
  \A t \in Targets :
    /\ AtMostOne(q, {GetOp(t)}) /\ AtMostOne(q, {CommitOp(t)})
    /\ Before(q, {CommitOp(t)}, {GetOp(t)})

(* What is left of two queues one after the other.                         *)
LEMMA ConcatTodo ==
  ASSUME NEW q \in Seq(Ops), NEW r \in Seq(Ops)
  PROVE  /\ q \o r \in Seq(Ops)
         /\ ToGet(q \o r) = ToGet(q) \cup ToGet(r)
         /\ ToCommit(q \o r) = ToCommit(q) \cup ToCommit(r)
<1>1. \A D : Has(q \o r, D) <=> Has(q, D) \/ Has(r, D)
  BY ConcatHas
<1>2. q \o r \in Seq(Ops)
  OBVIOUS
<1> QED
  BY <1>1, <1>2 DEF ToGet, ToCommit

(* A queue with operations for some targets, and with commits for some.    *)
Serves(q, S, T) == q \in Seq(Ops) /\ Orderly(q) /\ ToGet(q) = S /\ ToCommit(q) = T

(* One operation for each target of a list.                                *)
LEMMA MapHas ==
  ASSUME NEW S \in SUBSET Targets, NEW q, Counts(q, S),
         NEW g, g = [i \in DOMAIN q |-> GetOp(q[i])],
         NEW c, c = [i \in DOMAIN q |-> CommitOp(q[i])]
  PROVE  Serves(g, S, {}) /\ Serves(c, {}, S)
<1>1. /\ DOMAIN g = DOMAIN q /\ DOMAIN c = DOMAIN q
      /\ \A i \in DOMAIN q : g[i] = GetOp(q[i]) /\ c[i] = CommitOp(q[i])
  OBVIOUS
<1>2. q \in Seq(S) /\ DOMAIN q = 1 .. Len(q) /\ Len(q) \in Nat /\ \A i \in DOMAIN q : q[i] \in Targets
  BY DEF Counts
<1>3. \A t \in Targets : GetOp(t) \in Ops /\ CommitOp(t) \in Ops
  BY DEF GetOp, CommitOp, Ops
<1>4. /\ \A s, t : GetOp(s) = GetOp(t) => s = t
      /\ \A s, t : CommitOp(s) = CommitOp(t) => s = t
      /\ \A s, t : GetOp(s) # CommitOp(t)
  <2>1. \A t : GetOp(t).for = t /\ CommitOp(t).for = t /\ GetOp(t).do = "next" /\ CommitOp(t).do = "commit"
    BY DEF GetOp, CommitOp
  <2> QED
    BY <2>1
<1>5. g = [i \in 1 .. Len(q) |-> GetOp(q[i])] /\ c = [i \in 1 .. Len(q) |-> CommitOp(q[i])]
  BY <1>2
<1>6. g \in Seq(Ops) /\ c \in Seq(Ops)
  <2>1. \A i \in 1 .. Len(q) : GetOp(q[i]) \in Ops /\ CommitOp(q[i]) \in Ops
    BY <1>2, <1>3
  <2> QED
    BY <1>2, <1>5, <2>1
<1>7. ToGet(g) = S /\ ToCommit(g) = {} /\ ToGet(c) = {} /\ ToCommit(c) = S
  <2>1. \A i \in DOMAIN q : q[i] \in S
    BY <1>2
  <2>2. \A t \in S : Has(g, {GetOp(t)})
    BY <1>1 DEF Has, Counts
  <2>3. \A t \in S : Has(c, {CommitOp(t)})
    BY <1>1 DEF Has, Counts
  <2>4. \A t \in Targets : Has(g, {GetOp(t)}) => t \in S
    BY <1>1, <1>4, <2>1 DEF Has
  <2>5. \A t \in Targets : Has(c, {CommitOp(t)}) => t \in S
    BY <1>1, <1>4, <2>1 DEF Has
  <2>6. \A t \in Targets : ~Has(g, {CommitOp(t)})
    BY <1>1, <1>4 DEF Has
  <2>7. \A t \in Targets : ~Has(c, {GetOp(t)})
    BY <1>1, <1>4 DEF Has
  <2>8. ToGet(g) = S
    BY <2>2, <2>4 DEF ToGet
  <2>9. ToCommit(c) = S
    BY <2>3, <2>5 DEF ToCommit
  <2>10. ToCommit(g) = {}
    BY <2>6 DEF ToCommit
  <2>11. ToGet(c) = {}
    BY <2>7 DEF ToGet
  <2> QED
    BY <2>8, <2>9, <2>10, <2>11
<1>8. Orderly(g) /\ Orderly(c)
  <2> SUFFICES ASSUME NEW t \in Targets
               PROVE  /\ AtMostOne(g, {GetOp(t)}) /\ AtMostOne(g, {CommitOp(t)})
                      /\ AtMostOne(c, {GetOp(t)}) /\ AtMostOne(c, {CommitOp(t)})
                      /\ Before(g, {CommitOp(t)}, {GetOp(t)}) /\ Before(c, {CommitOp(t)}, {GetOp(t)})
    BY DEF Orderly
  <2>1. \A i, j \in DOMAIN q : q[i] = q[j] => i = j
    BY DEF Counts
  <2>2. AtMostOne(g, {GetOp(t)}) /\ AtMostOne(c, {CommitOp(t)})
    BY <1>1, <1>4, <2>1 DEF AtMostOne
  <2>3. AtMostOne(g, {CommitOp(t)}) /\ AtMostOne(c, {GetOp(t)})
    BY <1>1, <1>4 DEF AtMostOne
  <2>4. Before(g, {CommitOp(t)}, {GetOp(t)}) /\ Before(c, {CommitOp(t)}, {GetOp(t)})
    BY <1>1, <1>4 DEF Before
  <2> QED
    BY <2>2, <2>3, <2>4
<1> QED
  BY <1>6, <1>7, <1>8 DEF Serves

(* The targets a pipe is needed for: the framebuffer when there are layers *)
(* in it, every other layer, and the base layer where it is needed.        *)
Wanted(l, fb) ==
  (IF fb # {} THEN {FB} ELSE {}) \cup (DOMAIN l \ fb)
  \cup (IF BaseNeeded(l, fb) THEN {BASE} ELSE {})

(* MDPComp and FBUpdate ask for and commit a pipe for each of these.       *)
LEMMA ProgramHas ==
  ASSUME NEW l, LayerList(l), NEW fb \in SUBSET (DOMAIN l)
  PROVE  /\ Program(l, fb) \in Seq(Ops)
         /\ Wanted(l, fb) \subseteq Targets
         /\ fb # DOMAIN l =>
              /\ Orderly(Program(l, fb))
              /\ ToGet(Program(l, fb)) = Wanted(l, fb)
              /\ ToCommit(Program(l, fb)) = Wanted(l, fb)
<1> DEFINE B == IF BaseNeeded(l, fb) THEN {BASE} ELSE {}
           V == Yuv(l) \ fb
           N == (DOMAIN l \ fb) \ Yuv(l)
           W == (DOMAIN l \ fb) \cup B
           G == InOrder(B) \o InOrder(V) \o InOrder(N)
           C == InOrder(W)
           get == [i \in DOMAIN G |-> GetOp(G[i])]
           put == [i \in DOMAIN C |-> CommitOp(C[i])]
           head == IF fb # {} THEN FbProgram ELSE <<>>
           H == IF fb # {} THEN {FB} ELSE {}
<1>1. /\ DOMAIN l = 1 .. Len(l) /\ Len(l) \in Nat /\ Len(l) <= MaxLayers /\ MaxLayers \in Nat
      /\ FB = -1 /\ BASE = 0 /\ Targets = -1 .. MaxLayers
  BY ComposerAssumption DEF LayerList, FB, BASE, Targets
<1>2. /\ W \in SUBSET Targets /\ H \in SUBSET Targets /\ H \cap W = {}
      /\ W = B \cup V \cup N /\ B \cap V = {} /\ (B \cup V) \cap N = {}
  <2>1. DOMAIN l \subseteq Targets /\ 0 \notin DOMAIN l /\ -1 \notin DOMAIN l /\ 0 \in Targets /\ -1 \in Targets
    BY <1>1
  <2>2. V \subseteq DOMAIN l \ fb /\ (DOMAIN l \ fb) = V \cup N
    BY DEF Yuv
  <2>3. B \subseteq {0} /\ H \subseteq {-1}
    BY <1>1
  <2>4. 0 # -1
    OBVIOUS
  <2>5. W = B \cup V \cup N
    BY <2>2
  <2>6. V \cap N = {}
    BY DEF Yuv
  <2> HIDE DEF B, V, N, H
  <2>7. V \subseteq DOMAIN l /\ N \subseteq DOMAIN l /\ W \subseteq DOMAIN l \cup {0}
    BY <2>2, <2>3
  <2>8. B \cap V = {} /\ B \cap N = {} /\ H \cap W = {}
    BY <2>1, <2>3, <2>4, <2>7
  <2>9. W \subseteq Targets /\ H \subseteq Targets
    BY <2>1, <2>3, <2>7
  <2> QED
    BY <2>5, <2>6, <2>8, <2>9
<1>3. IsFiniteSet(W) /\ W \in SUBSET Int
  <2>1. IsFiniteSet(Targets) /\ Targets \subseteq Int
    BY <1>1, FS_Interval
  <2> HIDE DEF W
  <2> QED
    BY <1>2, <2>1, FS_Subset
<1>4. Counts(InOrder(B), B) /\ Counts(InOrder(V), V) /\ Counts(InOrder(N), N) /\ Counts(C, W)
  <2>1. \A S \in SUBSET W : S \in SUBSET Int /\ IsFiniteSet(S)
    <3> HIDE DEF W
    <3> QED
      BY <1>3, FS_Subset
  <2>2. B \in SUBSET W /\ V \in SUBSET W /\ N \in SUBSET W /\ W \in SUBSET W
    <3> HIDE DEF B, V, N, W
    <3> QED
      BY <1>2
  <2> HIDE DEF B, V, N, W
  <2> QED
    BY <2>1, <2>2, InOrderCounts
<1>5. Counts(G, W)
  <2> HIDE DEF B, V, N, W
  <2>1. Counts(InOrder(B) \o InOrder(V), B \cup V)
    BY <1>2, <1>4, ConcatCounts
  <2>2. Counts((InOrder(B) \o InOrder(V)) \o InOrder(N), (B \cup V) \cup N)
    BY <1>2, <1>4, <2>1, ConcatCounts
  <2> QED
    BY <1>2, <2>2
<1>6. /\ get \in Seq(Ops) /\ put \in Seq(Ops) /\ Orderly(get) /\ Orderly(put)
      /\ ToGet(get) = W /\ ToCommit(get) = {} /\ ToGet(put) = {} /\ ToCommit(put) = W
  <2> HIDE DEF G, C, W
  <2>0. W \in SUBSET Targets
    BY <1>2
  <2>1. get \in Seq(Ops) /\ Orderly(get) /\ ToGet(get) = W /\ ToCommit(get) = {}
    <3>1. \E c : c = [i \in DOMAIN G |-> CommitOp(G[i])]
      OBVIOUS
    <3>2. Serves(get, W, {})
      BY <2>0, <1>5, <3>1, MapHas
    <3> QED
      BY <3>2 DEF Serves
  <2>2. put \in Seq(Ops) /\ Orderly(put) /\ ToGet(put) = {} /\ ToCommit(put) = W
    <3>1. \E g : g = [i \in DOMAIN C |-> GetOp(C[i])]
      OBVIOUS
    <3>2. Serves(put, {}, W)
      BY <2>0, <1>4, <3>1, MapHas
    <3> HIDE DEF put
    <3> QED
      BY <3>2 DEF Serves
  <2> QED
    BY <2>1, <2>2
<1>7. /\ head \in Seq(Ops) /\ Orderly(head)
      /\ ToGet(head) = H /\ ToCommit(head) = H
  <2>1. CASE fb = {}
    BY <2>1 DEF Orderly, ToGet, ToCommit, Has, AtMostOne, Before
  <2>2. CASE fb # {}
    <3>1. FB \in Targets
      BY <1>1
    <3>2. /\ head = <<GetOp(FB), CommitOp(FB)>> /\ GetOp(FB) \in Ops /\ CommitOp(FB) \in Ops
          /\ DOMAIN head = 1 .. 2 /\ head[1] = GetOp(FB) /\ head[2] = CommitOp(FB)
      BY <2>2, <3>1 DEF FbProgram, GetOp, CommitOp, Ops
    <3>3. \A t : /\ GetOp(t) # CommitOp(FB) /\ GetOp(FB) # CommitOp(t)
                 /\ GetOp(t) = GetOp(FB) => t = FB
                 /\ CommitOp(t) = CommitOp(FB) => t = FB
      <4>1. \A t : GetOp(t).for = t /\ CommitOp(t).for = t /\ GetOp(t).do = "next" /\ CommitOp(t).do = "commit"
        BY DEF GetOp, CommitOp
      <4> QED
        BY <4>1
    <3>4. head \in Seq(Ops) /\ H = {FB}
      <4>1. \A a, b \in Ops : <<a, b>> \in Seq(Ops)
        OBVIOUS
      <4> QED
        BY <2>2, <3>2, <4>1
    <3> HIDE DEF head, H
    <3>5. ToGet(head) = H /\ ToCommit(head) = H
      <4>1. \A i \in DOMAIN head : i = 1 \/ i = 2
        BY <3>2
      <4>2. 1 \in DOMAIN head /\ 2 \in DOMAIN head
        BY <3>2
      <4>3. \A t \in Targets : Has(head, {GetOp(t)}) <=> t = FB
        BY <3>2, <3>3, <4>1, <4>2 DEF Has
      <4>4. \A t \in Targets : Has(head, {CommitOp(t)}) <=> t = FB
        BY <3>2, <3>3, <4>1, <4>2 DEF Has
      <4>5. ToGet(head) = {FB}
        BY <3>1, <4>3 DEF ToGet
      <4>6. ToCommit(head) = {FB}
        BY <3>1, <4>4 DEF ToCommit
      <4> QED
        BY <3>4, <4>5, <4>6
    <3>6. Orderly(head)
      BY <3>2, <3>3 DEF Orderly, AtMostOne, Before
    <3> QED
      BY <3>4, <3>5, <3>6
  <2> QED
    BY <2>1, <2>2
<1>8. Wanted(l, fb) = H \cup W
  BY DEF Wanted
<1> HIDE DEF head, H
<1>9. Program(l, fb) = head \o (IF fb = DOMAIN l THEN <<>> ELSE get \o put)
  BY DEF Program, programMDP, allocLayerPipes, Map, head
<1> HIDE DEF get, put, W
<1> DEFINE rest == get \o put
<1>10. /\ rest \in Seq(Ops)
       /\ ToGet(rest) = W /\ ToCommit(rest) = W
  <2>1. /\ rest \in Seq(Ops) /\ ToGet(rest) = ToGet(get) \cup ToGet(put)
        /\ ToCommit(rest) = ToCommit(get) \cup ToCommit(put)
    BY <1>6, ConcatTodo
  <2> HIDE DEF rest
  <2> QED
    BY <1>6, <2>1
<1>11. Orderly(rest)
  <2> SUFFICES ASSUME NEW t \in Targets
               PROVE  /\ AtMostOne(rest, {GetOp(t)}) /\ AtMostOne(rest, {CommitOp(t)})
                      /\ Before(rest, {CommitOp(t)}, {GetOp(t)})
    BY DEF Orderly
  <2>1. ~Has(get, {CommitOp(t)}) /\ ~Has(put, {GetOp(t)})
    BY <1>6 DEF ToGet, ToCommit
  <2>2. /\ AtMostOne(get, {GetOp(t)}) /\ AtMostOne(get, {CommitOp(t)}) /\ Before(get, {CommitOp(t)}, {GetOp(t)})
        /\ AtMostOne(put, {GetOp(t)}) /\ AtMostOne(put, {CommitOp(t)}) /\ Before(put, {CommitOp(t)}, {GetOp(t)})
    BY <1>6 DEF Orderly
  <2> QED
    BY <1>6, <2>1, <2>2, ConcatHas
<1>12. CASE fb = DOMAIN l
  <2>1. Program(l, fb) = head
    BY <1>7, <1>9, <1>12, ConcatEmptySeq
  <2> QED
    BY <1>2, <1>7, <1>8, <1>12, <2>1
<1>13. CASE fb # DOMAIN l
  <2> HIDE DEF rest
  <2>1. Program(l, fb) = head \o rest
    BY <1>9, <1>13 DEF rest
  <2>2. /\ head \o rest \in Seq(Ops)
        /\ ToGet(head \o rest) = H \cup W /\ ToCommit(head \o rest) = H \cup W
    BY <1>7, <1>10, ConcatTodo
  <2>3. Orderly(head \o rest)
    <3> SUFFICES ASSUME NEW t \in Targets
                 PROVE  /\ AtMostOne(head \o rest, {GetOp(t)}) /\ AtMostOne(head \o rest, {CommitOp(t)})
                        /\ Before(head \o rest, {CommitOp(t)}, {GetOp(t)})
      BY DEF Orderly
    <3>1. \/ ~Has(head, {CommitOp(t)}) /\ ~Has(head, {GetOp(t)})
          \/ ~Has(rest, {CommitOp(t)}) /\ ~Has(rest, {GetOp(t)})
      BY <1>2, <1>7, <1>10 DEF ToGet, ToCommit
    <3>2. /\ AtMostOne(head, {GetOp(t)}) /\ AtMostOne(head, {CommitOp(t)})
          /\ Before(head, {CommitOp(t)}, {GetOp(t)})
          /\ AtMostOne(rest, {GetOp(t)}) /\ AtMostOne(rest, {CommitOp(t)})
          /\ Before(rest, {CommitOp(t)}, {GetOp(t)})
      BY <1>7, <1>11 DEF Orderly
    <3> QED
      BY <1>7, <1>10, <3>1, <3>2, ConcatHas
  <2> QED
    BY <1>2, <1>8, <2>1, <2>2, <2>3
<1> QED
  BY <1>12, <1>13

(* What is left when the first operation has been done.                    *)
LEMMA TailTodo ==
  ASSUME NEW q \in Seq(Ops), q # <<>>, Orderly(q)
  PROVE  /\ Tail(q) \in Seq(Ops) /\ Orderly(Tail(q))
         /\ Head(q).do \in {"next", "commit"} /\ Head(q).for \in Targets
         /\ Head(q).do = "next" =>
              /\ Head(q).for \in ToGet(q) /\ ToGet(Tail(q)) = ToGet(q) \ {Head(q).for}
              /\ ToCommit(Tail(q)) = ToCommit(q)
         /\ Head(q).do = "commit" =>
              /\ Head(q).for \in ToCommit(q) \ ToGet(q)
              /\ ToCommit(Tail(q)) = ToCommit(q) \ {Head(q).for}
              /\ ToGet(Tail(q)) = ToGet(q)
<1> DEFINE t == Head(q).for
           r == Tail(q)
<1>1. r \in Seq(Ops) /\ Head(q) \in Ops
  OBVIOUS
<1>2. Head(q).do \in {"next", "commit"} /\ t \in Targets
  BY <1>1 DEF Ops
<1>3. Orderly(r)
  <2> SUFFICES ASSUME NEW s \in Targets
               PROVE  /\ AtMostOne(r, {GetOp(s)}) /\ AtMostOne(r, {CommitOp(s)})
                      /\ Before(r, {CommitOp(s)}, {GetOp(s)})
    BY DEF Orderly
  <2>1. /\ AtMostOne(q, {GetOp(s)}) /\ AtMostOne(q, {CommitOp(s)})
        /\ Before(q, {CommitOp(s)}, {GetOp(s)})
    BY DEF Orderly
  <2>2. AtMostOne(r, {GetOp(s)})
    BY <2>1, TailHas
  <2>3. AtMostOne(r, {CommitOp(s)})
    BY <2>1, TailHas
  <2>4. Before(r, {CommitOp(s)}, {GetOp(s)})
    BY <2>1, TailBefore
  <2> QED
    BY <2>2, <2>3, <2>4
<1>4. /\ Head(q).do = "next" => Head(q) = GetOp(t)
      /\ Head(q).do = "commit" => Head(q) = CommitOp(t)
  BY <1>1 DEF Ops, GetOp, CommitOp
<1>5. /\ \A s : GetOp(s) = GetOp(t) => s = t
      /\ \A s : CommitOp(s) = CommitOp(t) => s = t
      /\ \A s : GetOp(s) # CommitOp(t)
      /\ \A s : CommitOp(s) # GetOp(t)
  <2>1. \A s : GetOp(s).for = s /\ CommitOp(s).for = s /\ GetOp(s).do = "next" /\ CommitOp(s).do = "commit"
    BY DEF GetOp, CommitOp
  <2> QED
    BY <2>1
<1>6. \A D : Has(r, D) => Has(q, D)
  BY TailHas
<1>7. \A D : Head(q) \notin D => (Has(q, D) => Has(r, D))
  BY TailHas
<1>8. \A D : Head(q) \in D => Has(q, D)
  BY TailHas
<1> HIDE DEF r, t
<1>9. CASE Head(q).do = "next"
  <2>1. Head(q) = GetOp(t)
    BY <1>4, <1>9
  <2>2. \A s \in Targets : Has(q, {CommitOp(s)}) => Has(r, {CommitOp(s)})
    BY <1>5, <1>7, <2>1
  <2>3. ToCommit(r) = ToCommit(q)
    BY <1>6, <2>2 DEF ToCommit
  <2>4. Has(q, {GetOp(t)})
    BY <1>8, <2>1
  <2>5. ~Has(r, {GetOp(t)})
    <3>1. AtMostOne(q, {GetOp(t)})
      BY <1>2 DEF Orderly
    <3> QED
      BY <2>1, <3>1, TailHas DEF r
  <2>6. \A s \in Targets : s # t /\ Has(q, {GetOp(s)}) => Has(r, {GetOp(s)})
    BY <1>5, <1>7, <2>1
  <2>7. ToGet(r) = ToGet(q) \ {t}
    BY <1>6, <2>5, <2>6 DEF ToGet
  <2>8. t \in ToGet(q)
    BY <1>2, <2>4 DEF ToGet
  <2> QED
    BY <1>1, <1>2, <1>3, <1>9, <2>3, <2>7, <2>8 DEF r, t
<1>10. CASE Head(q).do = "commit"
  <2>1. Head(q) = CommitOp(t)
    BY <1>4, <1>10
  <2>2. \A s \in Targets : Has(q, {GetOp(s)}) => Has(r, {GetOp(s)})
    BY <1>5, <1>7, <2>1
  <2>3. ToGet(r) = ToGet(q)
    BY <1>6, <2>2 DEF ToGet
  <2>4. Has(q, {CommitOp(t)})
    BY <1>8, <2>1
  <2>5. ~Has(r, {CommitOp(t)})
    <3>1. AtMostOne(q, {CommitOp(t)})
      BY <1>2 DEF Orderly
    <3> QED
      BY <2>1, <3>1, TailHas DEF r
  <2>6. \A s \in Targets : s # t /\ Has(q, {CommitOp(s)}) => Has(r, {CommitOp(s)})
    BY <1>5, <1>7, <2>1
  <2>7. ToCommit(r) = ToCommit(q) \ {t}
    BY <1>6, <2>5, <2>6 DEF ToCommit
  <2>8. t \in ToCommit(q)
    BY <1>2, <2>4 DEF ToCommit
  <2>9. ~Has(r, {GetOp(t)})
    <3>1. Before(q, {CommitOp(t)}, {GetOp(t)})
      BY <1>2 DEF Orderly
    <3> QED
      BY <2>1, <3>1, TailBefore DEF r
  <2>10. t \notin ToGet(q)
    BY <2>3, <2>9 DEF ToGet
  <2> QED
    BY <1>1, <1>2, <1>3, <1>10, <2>3, <2>7, <2>8, <2>10 DEF r, t
<1> QED
  BY <1>2, <1>9, <1>10

(* Nothing is left of nothing.                                             *)
LEMMA EmptyTodo ==
  Orderly(<<>>) /\ ToGet(<<>>) = {} /\ ToCommit(<<>>) = {} /\ <<>> \in Seq(Ops)
<1>1. <<>> \in Seq(Ops)
  OBVIOUS
<1> QED
  BY <1>1, EmptyHas DEF Orderly, ToGet, ToCommit
-------------------------------------------------------------------------------
(* The frame MDPComp makes of a list, unless it has fallen back.           *)
Shaped(l, f) ==
  /\ l # <<>> /\ f.n = Len(l)
  /\ f.fb \subseteq 1 .. f.n /\ Span(f.fb) /\ f.fbZ = FbZ(l, f.fb)

(* The pipes of display d for the targets W, with the operations q left to *)
(* do: a target has no pipe while one is to be asked for, and then one of  *)
(* the display that the round handed out and, once it is committed, uses;  *)
(* different targets have different ones, and these are all the pipes the  *)
(* round uses for the display.                                             *)
Placed(d, W, pipe, q, U, A, D, on) ==
  /\ Orderly(q) /\ ToGet(q) \subseteq ToCommit(q) /\ ToCommit(q) \subseteq W
  /\ \A t \in Targets : t \notin W \/ t \in ToGet(q) => pipe[t] = OV_INVALID
  /\ \A t \in W \ ToGet(q) : pipe[t] \in A /\ D[pipe[t]] = d
  /\ \A t \in W \ ToCommit(q) : pipe[t] \in U /\ (t = FB => on)
  /\ \A s, t \in Targets : pipe[s] = pipe[t] /\ pipe[s] # OV_INVALID => s = t
  /\ \A p \in U : D[p] = d => \E t \in Targets : pipe[t] = p

(* What happens to the pipes of the other display leaves it alone.         *)
LEMMA OthersKept ==
  ASSUME NEW d, NEW W, NEW pipe, NEW q, NEW U, NEW A, NEW D, NEW on,
         Placed(d, W, pipe, q, U, A, D, on), NEW U2, NEW A2, NEW D2,
         \A p \in A : D[p] = d => p \in A2 /\ D2[p] = d /\ (p \in U => p \in U2),
         \A p \in U2 : D2[p] = d => p \in U /\ D[p] = d
  PROVE  Placed(d, W, pipe, q, U2, A2, D2, on)
<1>1. \A t \in W \ ToGet(q) : pipe[t] \in A2 /\ D2[pipe[t]] = d
  BY DEF Placed
<1>2. \A t \in W \ ToCommit(q) : pipe[t] \in U2 /\ (t = FB => on)
  BY DEF Placed
<1>3. \A p \in U2 : D2[p] = d => \E t \in Targets : pipe[t] = p
  BY DEF Placed
<1> QED
  BY <1>1, <1>2, <1>3 DEF Placed

(* A pipe the round has not handed out becomes a target's.                 *)
LEMMA PipeGot ==
  ASSUME NEW d, NEW W \in SUBSET Targets, NEW pipe, DOMAIN pipe = Targets,
         NEW q \in Seq(Ops), q # <<>>, Head(q).do = "next",
         NEW U \in SUBSET Pipes, NEW A, NEW D, DOMAIN D = Pipes, NEW on,
         Placed(d, W, pipe, q, U, A, D, on), NEW p \in Pipes, p \notin A, p \in U => D[p] = d
  PROVE  Placed(d, W, [pipe EXCEPT ![Head(q).for] = p], Tail(q), U, A \cup {p},
                [D EXCEPT ![p] = d], on)
<1> DEFINE t == Head(q).for
           pipe2 == [pipe EXCEPT ![t] = p]
           D2 == [D EXCEPT ![p] = d]
           r == Tail(q)
<1>1. /\ Orderly(r) /\ t \in Targets /\ t \in ToGet(q)
      /\ ToGet(r) = ToGet(q) \ {t} /\ ToCommit(r) = ToCommit(q)
  BY TailTodo DEF Placed
<1>2. /\ pipe2[t] = p /\ \A s \in Targets : s # t => pipe2[s] = pipe[s]
      /\ D2[p] = d /\ \A x \in Pipes : x # p => D2[x] = D[x]
  BY <1>1
<1>3. \A x \in Pipes : x # OV_INVALID
  BY PipesAssumption DEF Pipes, OV_INVALID
<1>4. \A s \in Targets : pipe[s] # p
  BY <1>3 DEF Placed
<1> HIDE DEF t, pipe2, D2, r
<1>5. ToGet(r) \subseteq ToCommit(r) /\ ToCommit(r) \subseteq W
  BY <1>1 DEF Placed
<1>6. \A s \in Targets : s \notin W \/ s \in ToGet(r) => pipe2[s] = OV_INVALID
  BY <1>1, <1>2 DEF Placed
<1>7. \A s \in W \ ToGet(r) : pipe2[s] \in A \cup {p} /\ D2[pipe2[s]] = d
  <2> SUFFICES ASSUME NEW s \in W \ ToGet(r) PROVE pipe2[s] \in A \cup {p} /\ D2[pipe2[s]] = d
    OBVIOUS
  <2>1. CASE s = t
    BY <1>2, <2>1
  <2>2. CASE s # t
    <3>1. s \in W \ ToGet(q) /\ pipe2[s] = pipe[s] /\ pipe[s] # p
      BY <1>1, <1>2, <1>4, <2>2
    <3>2. pipe[s] \in A /\ D[pipe[s]] = d
      BY <3>1 DEF Placed
    <3>3. D2[pipe[s]] = D[pipe[s]]
      BY <3>1 DEF D2
    <3> QED
      BY <3>1, <3>2, <3>3
  <2> QED
    BY <2>1, <2>2
<1>8. \A s \in W \ ToCommit(r) : pipe2[s] \in U /\ (s = FB => on)
  BY <1>1, <1>2 DEF Placed
<1>9. \A s, u \in Targets : pipe2[s] = pipe2[u] /\ pipe2[s] # OV_INVALID => s = u
  BY <1>1, <1>2, <1>4 DEF Placed
<1>10. \A x \in U : D2[x] = d => \E s \in Targets : pipe2[s] = x
  <2> SUFFICES ASSUME NEW x \in U, D2[x] = d PROVE \E s \in Targets : pipe2[s] = x
    OBVIOUS
  <2>1. CASE x = p
    BY <1>1, <1>2, <2>1
  <2>2. CASE x # p
    <3>1. D2[x] = D[x]
      BY <2>2 DEF D2
    <3>2. PICK s \in Targets : pipe[s] = x
      BY <3>1 DEF Placed
    <3>3. pipe[t] = OV_INVALID
      BY <1>1 DEF Placed
    <3>4. CASE s # t
      BY <1>2, <3>2, <3>4
    <3>5. CASE s = t
      BY <1>1, <1>2, <1>3, <3>2, <3>3, <3>5
    <3> QED
      BY <3>4, <3>5
  <2> QED
    BY <2>1, <2>2
<1> QED
  BY <1>1, <1>5, <1>6, <1>7, <1>8, <1>9, <1>10 DEF Placed, t, pipe2, D2, r

(* What is committed is a pipe of the display.                             *)
LEMMA PipeOwned ==
  ASSUME NEW d, NEW W, NEW pipe, NEW q \in Seq(Ops), q # <<>>, Head(q).do = "commit",
         NEW U, NEW A, NEW D, NEW on, Placed(d, W, pipe, q, U, A, D, on)
  PROVE  D[pipe[Head(q).for]] = d
<1>1. Head(q).for \in ToCommit(q) /\ Head(q).for \notin ToGet(q)
  BY TailTodo DEF Placed
<1>2. Head(q).for \in W \ ToGet(q)
  BY <1>1 DEF Placed
<1> QED
  BY <1>2 DEF Placed

(* It is used from then on.                                                *)
LEMMA PipePut ==
  ASSUME NEW d, NEW W, NEW pipe, NEW q \in Seq(Ops), q # <<>>, Head(q).do = "commit",
         NEW U, NEW A, NEW D, NEW on, Placed(d, W, pipe, q, U, A, D, on),
         NEW on2, on => on2, Head(q).for = FB => on2
  PROVE  Placed(d, W, pipe, Tail(q), U \cup {pipe[Head(q).for]}, A, D, on2)
<1> DEFINE t == Head(q).for
           p == pipe[t]
           r == Tail(q)
<1>1. /\ Orderly(r) /\ t \in Targets /\ t \in ToCommit(q) /\ t \notin ToGet(q)
      /\ ToGet(r) = ToGet(q) /\ ToCommit(r) = ToCommit(q) \ {t}
  BY TailTodo DEF Placed
<1> HIDE DEF r
<1>2. ToGet(r) \subseteq ToCommit(r) /\ ToCommit(r) \subseteq W
  BY <1>1 DEF Placed
<1>3. \A s \in W \ ToCommit(r) : s = t \/ s \in W \ ToCommit(q)
  BY <1>1
<1>4. \A s \in W \ ToCommit(r) : pipe[s] \in U \cup {p}
  BY <1>3 DEF Placed
<1>5. \A s \in W \ ToCommit(r) : s = FB => on2
  BY <1>3 DEF Placed
<1> HIDE DEF t
<1>6. \A x \in U \cup {p} : D[x] = d => \E s \in Targets : pipe[s] = x
  BY <1>1 DEF Placed
<1>7. /\ \A s \in Targets : s \notin W \/ s \in ToGet(r) => pipe[s] = OV_INVALID
      /\ \A s \in W \ ToGet(r) : pipe[s] \in A /\ D[pipe[s]] = d
      /\ \A s, u \in Targets : pipe[s] = pipe[u] /\ pipe[s] # OV_INVALID => s = u
  BY <1>1 DEF Placed
<1> HIDE DEF p
<1>8. Placed(d, W, pipe, r, U \cup {p}, A, D, on2)
  BY <1>1, <1>2, <1>4, <1>5, <1>6, <1>7 DEF Placed
<1> QED
  BY <1>8 DEF t, r, p

(* Before the first operation of a frame no target has a pipe.             *)
LEMMA Unplaced ==
  ASSUME NEW l, LayerList(l), NEW fb \in SUBSET (DOMAIN l), fb # DOMAIN l,
         NEW d, NEW U, NEW A, NEW D, NEW on, \A p \in U : D[p] # d
  PROVE  Placed(d, Wanted(l, fb), NoPipes, Program(l, fb), U, A, D, on)
<1> DEFINE q == Program(l, fb)
           W == Wanted(l, fb)
<1>1. Orderly(q) /\ ToGet(q) = W /\ ToCommit(q) = W
  BY ProgramHas
<1>2. \A t \in Targets : NoPipes[t] = OV_INVALID
  BY DEF NoPipes
<1> HIDE DEF q, W
<1> QED
  BY <1>1, <1>2 DEF Placed, q, W

(* The framebuffer takes the place of its layers: as they lie next to each *)
(* other, the pipes stack as the list does.                                *)
LEMMA Stacks ==
  ASSUME NEW l, LayerList(l), NEW f, Shaped(l, f),
         f.pipe[BASE] # OV_INVALID => BaseNeeded(l, f.fb),
         NEW s \in {BASE} \cup 1 .. f.n, NEW t \in {BASE} \cup 1 .. f.n, s < t,
         NEW a, a = (IF s \in f.fb THEN FB ELSE s), NEW b, b = (IF t \in f.fb THEN FB ELSE t),
         a # b, f.pipe[a] # OV_INVALID
  PROVE  ZOrder(l, f, a) < ZOrder(l, f, b)
<1> DEFINE base == Base(l, f.fb)
           below(x) == {j \in 1 .. (x - 1) : j \notin f.fb}
           count(x) == Cardinality(below(x))
           over(x) == IF \E j \in f.fb : j < x THEN 1 ELSE 0
<1>1. /\ f.n \in Nat /\ f.n = Len(l) /\ f.fb \subseteq 1 .. f.n /\ FB = -1 /\ BASE = 0
      /\ s \in Nat /\ t \in Nat /\ t \in 1 .. f.n
  BY DEF Shaped, LayerList, FB, BASE
<1>2. base \in {0, 1}
  BY DEF Base
<1>3. \A x \in Nat : /\ IsFiniteSet(below(x)) /\ count(x) \in Nat
                     /\ x > 0 => count(x) <= x - 1
  <2> SUFFICES ASSUME NEW x \in Nat
               PROVE  /\ IsFiniteSet(below(x)) /\ count(x) \in Nat
                      /\ x > 0 => count(x) <= x - 1
    OBVIOUS
  <2>1. IsFiniteSet(1 .. (x - 1)) /\ (x > 0 => Cardinality(1 .. (x - 1)) = x - 1)
    BY FS_Interval
  <2>2. below(x) \in SUBSET (1 .. (x - 1))
    OBVIOUS
  <2> HIDE DEF below
  <2>3. IsFiniteSet(below(x)) /\ Cardinality(below(x)) <= Cardinality(1 .. (x - 1))
    BY <2>1, <2>2, FS_Subset
  <2>4. Cardinality(below(x)) \in Nat
    BY <2>3, FS_CardinalityType
  <2> QED
    BY <2>1, <2>3, <2>4
<1>4. \A x \in Nat \ {0} : x \notin f.fb => ZOrder(l, f, x) = base + count(x) + over(x)
  BY <1>1 DEF ZOrder
<1>5. ZOrder(l, f, FB) = f.fbZ /\ ZOrder(l, f, BASE) = 0
  BY <1>1 DEF ZOrder
<1>6. \A x : over(x) \in {0, 1}
  OBVIOUS
<1>7. f.fb # {} => /\ Min(f.fb) \in f.fb /\ Min(f.fb) \in Nat
                  /\ f.fb = Min(f.fb) .. Max(f.fb) /\ Max(f.fb) \in Int
                  /\ f.fbZ = Min(f.fb) - 1 + base
  <2> SUFFICES ASSUME f.fb # {}
               PROVE  /\ Min(f.fb) \in f.fb /\ Min(f.fb) \in Nat
                      /\ f.fb = Min(f.fb) .. Max(f.fb) /\ Max(f.fb) \in Int
                      /\ f.fbZ = Min(f.fb) - 1 + base
    OBVIOUS
  <2>1. f.fb \in SUBSET Nat /\ \A x \in f.fb : x <= f.n
    BY <1>1
  <2>2. Min(f.fb) \in f.fb /\ Max(f.fb) \in f.fb
    BY <1>1, <2>1, LeastOf, GreatestOf
  <2> QED
    BY <2>1, <2>2 DEF Shaped, Span, FbZ
<1> HIDE DEF base, below
<1>8. \A x \in 1 .. f.n : x \notin f.fb =>
          /\ ZOrder(l, f, x) = base + count(x) + over(x)
          /\ count(x) \in Nat /\ count(x) <= x - 1 /\ over(x) \in {0, 1}
  <2> HIDE DEF count, over
  <2> SUFFICES ASSUME NEW x \in 1 .. f.n, x \notin f.fb
               PROVE  /\ ZOrder(l, f, x) = base + count(x) + over(x)
                      /\ count(x) \in Nat /\ count(x) <= x - 1 /\ over(x) \in {0, 1}
    OBVIOUS
  <2>1. x \in Nat \ {0} /\ x > 0
    BY <1>1
  <2>2. ZOrder(l, f, x) = base + count(x) + over(x)
    BY <1>4, <2>1
  <2>3. count(x) \in Nat /\ count(x) <= x - 1
    BY <1>3, <2>1
  <2>4. over(x) \in {0, 1}
    BY <1>6
  <2> QED
    BY <2>2, <2>3, <2>4
<1>9. CASE s = BASE
  <2>1. a = BASE
    BY <1>1, <1>9
  <2>2. base = 1 /\ 1 \notin f.fb
    BY <2>1 DEF BaseNeeded, Base, base
  <2>3. CASE t \in f.fb
    BY <1>1, <1>5, <1>7, <2>1, <2>2, <2>3
  <2>4. CASE t \notin f.fb
    <3> HIDE DEF count, over
    <3>1. ZOrder(l, f, t) = base + count(t) + over(t) /\ count(t) \in Nat /\ over(t) \in {0, 1}
      BY <1>1, <1>8, <2>4
    <3> QED
      BY <1>1, <1>5, <2>1, <2>2, <2>4, <3>1
  <2> QED
    BY <2>3, <2>4
<1>10. CASE s # BASE /\ s \in f.fb
  <2>1. t \notin f.fb /\ a = FB /\ b = t
    BY <1>10
  <2>2. over(t) = 1
    BY <1>10
  <2> DEFINE lo == Min(f.fb)
  <2>3. lo <= s /\ lo \in Nat /\ lo > 0
    BY <1>1, <1>7, <1>10
  <2>4. count(t) >= lo - 1
    <3>1. 1 .. (lo - 1) \in SUBSET below(t)
      <4> SUFFICES ASSUME NEW j \in 1 .. (lo - 1) PROVE j \in below(t)
        OBVIOUS
      <4>1. j \in 1 .. (t - 1)
        BY <1>1, <2>3
      <4>2. j \notin f.fb
        <5> HIDE DEF lo
        <5> QED
          BY <1>7, <1>10, <2>3 DEF lo
      <4> QED
        BY <4>1, <4>2 DEF below
    <3>2. Cardinality(1 .. (lo - 1)) = lo - 1
      <4> HIDE DEF lo
      <4> QED
        BY <2>3, FS_Interval
    <3>3. Cardinality(1 .. (lo - 1)) <= Cardinality(below(t))
      BY <1>1, <1>3, <3>1, FS_Subset
    <3> QED
      BY <3>2, <3>3
  <2>5. ZOrder(l, f, t) = base + count(t) + over(t) /\ count(t) \in Nat
    <3> HIDE DEF count, over
    <3> QED
      BY <1>1, <1>8, <2>1
  <2>6. ZOrder(l, f, FB) = lo - 1 + base
    BY <1>5, <1>7, <1>10
  <2> HIDE DEF count, over, lo
  <2> QED
    BY <1>2, <2>1, <2>2, <2>3, <2>4, <2>5, <2>6
<1>11. CASE s # BASE /\ s \notin f.fb /\ t \in f.fb
  <2> DEFINE lo == Min(f.fb)
  <2>1. a = s /\ b = FB
    BY <1>11
  <2>2. s < lo /\ lo \in Nat
    BY <1>1, <1>7, <1>11
  <2>3. over(s) = 0
    BY <1>1, <1>7, <1>11, <2>2
  <2>4. ZOrder(l, f, s) = base + count(s) + over(s) /\ count(s) \in Nat /\ count(s) <= s - 1
    <3> HIDE DEF count, over
    <3> QED
      BY <1>1, <1>8, <1>11
  <2>5. ZOrder(l, f, FB) = lo - 1 + base
    BY <1>5, <1>7, <1>11
  <2> HIDE DEF count, over, lo
  <2> QED
    BY <1>1, <1>2, <2>1, <2>2, <2>3, <2>4, <2>5
<1>12. CASE s # BASE /\ s \notin f.fb /\ t \notin f.fb
  <2>1. a = s /\ b = t
    BY <1>12
  <2>2. /\ ZOrder(l, f, s) = base + count(s) + over(s) /\ count(s) \in Nat
        /\ ZOrder(l, f, t) = base + count(t) + over(t) /\ count(t) \in Nat
    <3> HIDE DEF count, over
    <3> QED
      BY <1>1, <1>8, <1>12
  <2>3. over(s) \in {0, 1} /\ over(t) \in {0, 1} /\ over(s) <= over(t)
    BY <1>1
  <2>4. count(s) < count(t)
    <3>1. below(s) \in SUBSET below(t) /\ s \notin below(s) /\ s \in below(t)
      <4>1. \A j \in 1 .. (s - 1) : j \in 1 .. (t - 1)
        BY <1>1
      <4>2. s \in 1 .. (t - 1) /\ s \notin 1 .. (s - 1)
        BY <1>1, <1>12
      <4> QED
        BY <1>12, <4>1, <4>2 DEF below
    <3>2. /\ Cardinality(below(s)) <= Cardinality(below(t))
          /\ Cardinality(below(t)) = Cardinality(below(s)) => below(t) = below(s)
      BY <1>1, <1>3, <3>1, FS_Subset
    <3> QED
      BY <2>2, <3>1, <3>2
  <2> HIDE DEF count, over
  <2> QED
    BY <1>2, <2>1, <2>2, <2>3, <2>4
<1> QED
  BY <1>9, <1>10, <1>11, <1>12
-------------------------------------------------------------------------------
(* The composer's inductive invariant.  The types of its state, and that a *)
(* list that is shown is one SurfaceFlinger may pass.                      *)
FrameRecord == [n : Nat, fb : SUBSET Int, fbZ : Int, redraw : BOOLEAN,
                pipe : [Targets -> Pipes \cup {OV_INVALID}], flagged : SUBSET Int]
FrameTypes ==
  /\ scenario \in Scenarios
  /\ DOMAIN list = Displays /\ \A d \in Displays : LayerList(list[d])
  /\ frame \in [Displays -> FrameRecord]
  /\ DOMAIN cache = Displays
  /\ todo \in Seq(Ops)
  /\ ready \subseteq Displays
  /\ modeOn \in [Displays -> BOOLEAN] /\ active \in [Displays -> BOOLEAN]

(* The order of a round: prepare the external display, then the primary,   *)
(* then set them.  Only a display that was prepared is given pipes.        *)
Rounds ==
  /\ phase \in {"idle", "prepare", "blank", "set"}
  /\ phase \in {"idle", "blank"} => ready = {}
  /\ phase = "prepare" /\ at = DPY_EXTERNAL => DPY_PRIMARY \notin ready
  /\ phase = "prepare" => at \in Displays \cup {DPY_UNUSED}
  /\ phase = "set" => at \in Displays
  /\ phase = "prepare" => \A p \in used \cup allocated : mDisplay[p] \in ready
  /\ phase = "set" => \A p \in used : mDisplay[p] \in ready

(* A frame MDPComp has given up has only the framebuffer's pipe left to do.*)
GivenUp ==
  phase = "prepare" /\ at \in ready /\ Fallback(frame[at]) =>
    \/ todo \in {<<>>, FbProgram}
    \/ todo = <<CommitOp(FB)>> /\ mDisplay[frame[at].pipe[FB]] = at

(* Any other has its pipes, but for the operations left; its flags are set *)
(* when the display is done with.                                          *)
Pending(d) == IF phase = "prepare" /\ at = d THEN todo ELSE <<>>
Passed(d) ==
  \/ phase = "prepare" /\ at # d
  \/ phase = "set" /\ (d = DPY_PRIMARY => at = d)
FramePlaced(d) ==
  ~Fallback(frame[d]) =>
    /\ Shaped(list[d], frame[d])
    /\ Placed(d, Wanted(list[d], frame[d].fb), frame[d].pipe, Pending(d), used, allocated,
              mDisplay, modeOn[d])
    /\ Passed(d) => frame[d].flagged = Layers(d) \ frame[d].fb
Frames == \A d \in ready : FramePlaced(d)

(* The buffer MDPComp remembers holds the framebuffer's layers of the last *)
(* frame, until a new one is set; and if this one is not to be redrawn, it *)
(* holds those of the new frame already.  A display that was prepared is   *)
(* set, one that was passed over is not.                                   *)
Image(fb) == [layers |-> fb, fresh |-> TRUE]
Chosen == \/ phase = "prepare" /\ at = DPY_UNUSED
          \/ phase = "set" /\ at = DPY_PRIMARY
Remembered ==
  (DPY_PRIMARY \in ready => phase = "set" /\ at # DPY_PRIMARY) /\ cache[DPY_PRIMARY].fb # {}
  => fbHandle = Image(cache[DPY_PRIMARY].fb)
Reused ==
  DPY_PRIMARY \in ready /\ (phase = "prepare" \/ at = DPY_PRIMARY)
  /\ frame[DPY_PRIMARY].fb # {} /\ ~frame[DPY_PRIMARY].redraw
  => fbHandle = Image(frame[DPY_PRIMARY].fb)
Images ==
  /\ Remembered
  /\ Reused
  /\ DPY_PRIMARY \in ready => active[DPY_PRIMARY] /\ list[DPY_PRIMARY] # <<>>
  /\ DPY_PRIMARY \in ready /\ Chosen => cache[DPY_PRIMARY].fb = frame[DPY_PRIMARY].fb
  /\ DPY_PRIMARY \notin ready /\ Chosen => list[DPY_PRIMARY] = <<>> \/ ~active[DPY_PRIMARY]

FrameInv == FrameTypes /\ Rounds /\ GivenUp /\ Frames /\ Images

(* The two displays.                                                       *)
LEMMA TwoDisplays ==
  /\ Displays = {DPY_PRIMARY, DPY_EXTERNAL} /\ DPY_PRIMARY # DPY_EXTERNAL
  /\ DPY_UNUSED \notin Displays
  /\ After(DPY_EXTERNAL) = DPY_PRIMARY /\ After(DPY_PRIMARY) = DPY_UNUSED
  BY DEF Displays, DPY_PRIMARY, DPY_EXTERNAL, DPY_UNUSED, After

(* The invariant says that a frame is complete.                            *)
LEMMA InvComplete ==
  ASSUME OvInv, WorkInv, FrameInv
  PROVE  FrameComplete
<1>1. ASSUME NEW d \in ready, phase = "set", Draws(d), ~Fallback(frame[d])
      PROVE  /\ frame[d].flagged = Layers(d) \ frame[d].fb
             /\ \A t \in frame[d].flagged : frame[d].pipe[t] # OV_INVALID
             /\ frame[d].fb # {} => modeOn[d]
             /\ Cardinality(Drawn(d)) = Cardinality(DrawTargets(d))
             /\ Drawn(d) = {p \in used : mDisplay[p] = d}
             /\ Stacked(d)
  <2> DEFINE l == list[d]
             f == frame[d]
             W == Wanted(l, f.fb)
             pipe == f.pipe
             on == modeOn[d]
  <2>1. d \in Displays /\ LayerList(l) /\ at = d
    BY <1>1 DEF FrameInv, FrameTypes, Draws
  <2>2. Shaped(l, f) /\ Placed(d, W, pipe, <<>>, used, allocated, mDisplay, on)
    BY <1>1 DEF FrameInv, Frames, FramePlaced, Pending
  <2>3. f.flagged = Layers(d) \ f.fb
    BY <1>1, <2>1 DEF FrameInv, Frames, FramePlaced, Passed
  <2>4. /\ Layers(d) = DOMAIN l /\ f.fb \subseteq DOMAIN l
        /\ DOMAIN l = 1 .. Len(l) /\ Len(l) \in Nat /\ f.n = Len(l)
    BY <2>1, <2>2 DEF Shaped, LayerList, Layers
  <2>5. W \subseteq Targets
    BY <2>1, <2>4, ProgramHas
  <2> HIDE DEF l, f, W, pipe, on
  <2>6. /\ \A t \in Targets \ W : pipe[t] = OV_INVALID
        /\ \A t \in W : pipe[t] \in used /\ mDisplay[pipe[t]] = d /\ (t = FB => on)
        /\ \A s, t \in Targets : pipe[s] = pipe[t] /\ pipe[s] # OV_INVALID => s = t
        /\ \A p \in used : mDisplay[p] = d => \E t \in Targets : pipe[t] = p
    BY <2>2, EmptyTodo DEF Placed
  <2>7. \A p \in used : p # OV_INVALID
    BY PipesAssumption DEF OvInv, OvTypeOK, Pipes, OV_INVALID
  <2>8. \A t \in W : pipe[t] # OV_INVALID
    BY <2>6, <2>7
  <2>9. /\ \A t \in f.flagged : t \in W
        /\ f.fb # {} => FB \in W
        /\ \A t \in W : t = BASE \/ t \in f.flagged \/ t = FB
        /\ BASE \in W => BaseNeeded(l, f.fb)
    <3>1. 0 \notin DOMAIN l /\ FB = -1 /\ BASE = 0
      BY <2>4 DEF FB, BASE
    <3> QED
      BY <2>3, <2>4, <3>1 DEF Wanted, W
  <2>10. \A t \in f.flagged : pipe[t] # OV_INVALID
    BY <2>8, <2>9
  <2>11. f.fb # {} => on
    BY <2>6, <2>9
  <2>12. DrawTargets(d) = W
    <3>1. DrawTargets(d) = {t \in Targets : pipe[t] # OV_INVALID
                                           /\ (t = BASE \/ t \in f.flagged \/ (t = FB /\ on))}
      BY DEF DrawTargets, pipe, f, on
    <3>2. \A t \in W : t = BASE \/ t \in f.flagged \/ (t = FB /\ on)
      BY <2>6, <2>9
    <3> QED
      BY <2>5, <2>6, <2>8, <3>1, <3>2
  <2>13. Drawn(d) = {pipe[t] : t \in W}
    BY <2>12 DEF Drawn, pipe, f
  <2>14. Drawn(d) = {p \in used : mDisplay[p] = d}
    <3>1. \A p \in used : mDisplay[p] = d => \E t \in W : pipe[t] = p
      BY <2>6, <2>7
    <3> QED
      BY <2>6, <2>13, <3>1
  <2>15. Cardinality(Drawn(d)) = Cardinality(DrawTargets(d))
    <3> DEFINE T == {pipe[t] : t \in W}
               g == [t \in W |-> pipe[t]]
    <3>1. g \in Bijection(W, T)
      BY <2>5, <2>6, <2>8 DEF Bijection, Injection, Surjection, IsInjective
    <3>2. ExistsBijection(W, T)
      BY <3>1 DEF ExistsBijection
    <3>3. IsFiniteSet(W)
      <4>1. IsFiniteSet(Targets)
        BY FS_Interval, ComposerAssumption DEF Targets, FB
      <4> QED
        BY <2>5, <4>1, FS_Subset
    <3>4. Cardinality(T) = Cardinality(W)
      BY <3>2, <3>3, FS_Bijection
    <3> QED
      BY <2>12, <2>13, <3>4
  <2>16. Stacked(d)
    <3> SUFFICES ASSUME NEW s \in {BASE} \cup Layers(d), NEW t \in {BASE} \cup Layers(d), s < t,
                        Above(s, d) # Above(t, d), pipe[Above(s, d)] # OV_INVALID
                 PROVE  ZOrder(l, f, Above(s, d)) < ZOrder(l, f, Above(t, d))
      BY DEF Stacked, l, f, pipe
    <3>1. f.pipe[BASE] # OV_INVALID => BaseNeeded(l, f.fb)
      <4>1. BASE \in Targets
        BY ComposerAssumption DEF BASE, FB, Targets
      <4> QED
        BY <2>6, <2>9, <4>1 DEF pipe
    <3>2. /\ Above(s, d) = IF s \in f.fb THEN FB ELSE s
          /\ Above(t, d) = IF t \in f.fb THEN FB ELSE t
      BY DEF Above, f
    <3>3. s \in {BASE} \cup 1 .. f.n /\ t \in {BASE} \cup 1 .. f.n
      BY DEF Layers, f
    <3>4. f.pipe[Above(s, d)] # OV_INVALID
      BY DEF pipe
    <3> QED
      BY <2>1, <2>2, <3>1, <3>2, <3>3, <3>4, Stacks
  <2> QED
    BY <2>3, <2>10, <2>11, <2>14, <2>15, <2>16 DEF f, pipe, on
<1>2. Current
  <2> SUFFICES ASSUME phase = "set", Draws(DPY_PRIMARY), frame[DPY_PRIMARY].fb # {},
                      ~frame[DPY_PRIMARY].redraw
               PROVE  fbHandle = Composed(frame[DPY_PRIMARY])
    BY DEF Current
  <2>1. at = DPY_PRIMARY /\ list[DPY_PRIMARY] # <<>> /\ active[DPY_PRIMARY]
    BY DEF Draws, Composable
  <2>2. DPY_PRIMARY \in ready
    BY <2>1 DEF FrameInv, Images, Chosen
  <2> QED
    BY <2>1, <2>2 DEF FrameInv, Images, Reused, Image, Composed
<1> QED
  BY <1>1, <1>2 DEF FrameComplete
-------------------------------------------------------------------------------
(* Frames stay frames when they are flagged, given a pipe or given up.     *)
LEMMA FrameFields ==
  ASSUME NEW f \in FrameRecord
  PROVE  /\ \A S \in SUBSET Int : [f EXCEPT !.flagged = S] \in FrameRecord
         /\ \A t \in Targets, p \in Pipes : [f EXCEPT !.pipe[t] = p] \in FrameRecord
         /\ \A n \in Nat : Frame(n) \in FrameRecord
<1>1. \A S \in SUBSET Int : [f EXCEPT !.flagged = S] \in FrameRecord
  BY DEF FrameRecord
<1>2. ASSUME NEW t \in Targets, NEW p \in Pipes PROVE [f EXCEPT !.pipe[t] = p] \in FrameRecord
  <2>1. [f.pipe EXCEPT ![t] = p] \in [Targets -> Pipes \cup {OV_INVALID}]
    BY DEF FrameRecord
  <2> QED
    BY <2>1 DEF FrameRecord
<1>3. ASSUME NEW n \in Nat PROVE Frame(n) \in FrameRecord
  <2>1. NoPipes \in [Targets -> Pipes \cup {OV_INVALID}]
    BY DEF NoPipes
  <2>2. 1 .. n \in SUBSET Int
    OBVIOUS
  <2> QED
    BY <2>1, <2>2 DEF Frame, FrameRecord
<1> QED
  BY <1>1, <1>2, <1>3

(* What a display's frame is made of does not change.                      *)
FrameSame(d) ==
  /\ list'[d] = list[d] /\ frame'[d] = frame[d] /\ modeOn'[d] = modeOn[d]
  /\ Pending(d)' = Pending(d) /\ (Passed(d)' => Passed(d))
BookSame == used' = used /\ allocated' = allocated /\ mDisplay' = mDisplay

(* Such a frame stays what it is while the pipe book does.                 *)
LEMMA FrameStays ==
  ASSUME NEW d \in ready, Frames, FrameSame(d), BookSame
  PROVE  FramePlaced(d)'
<1>1. FramePlaced(d)
  BY DEF Frames
<1>2. Fallback(frame'[d]) <=> Fallback(frame[d])
  BY DEF FrameSame
<1>3. ~Fallback(frame[d]) =>
        /\ Shaped(list'[d], frame'[d])
        /\ Placed(d, Wanted(list'[d], frame'[d].fb), frame'[d].pipe, Pending(d)', used', allocated',
                  mDisplay', modeOn'[d])
        /\ Passed(d)' => frame'[d].flagged = Layers(d)' \ frame'[d].fb
  BY <1>1 DEF FramePlaced, FrameSame, BookSame, Layers
<1> QED
  BY <1>2, <1>3 DEF FramePlaced

(* A round begins: nothing is prepared, nothing used.                      *)
LEMMA BeginsFramed ==
  ASSUME ComposerInv, FrameInv, hwc_prepare
  PROVE  FrameInv'
<1>1. ready = {} /\ ready' = {} /\ todo = <<>> /\ todo' = <<>> /\ phase' = "prepare" /\ at' = DPY_EXTERNAL
  BY DEF ComposerInv, WorkInv, FrameInv, Rounds, hwc_prepare
<1>2. FrameTypes'
  BY DEF FrameInv, FrameTypes, hwc_prepare, dpyVars
<1>3. Rounds'
  BY <1>1, TwoDisplays DEF Rounds, hwc_prepare, configBegin
<1>4. GivenUp' /\ Frames'
  BY <1>1 DEF GivenUp, Frames
<1>5. Images'
  BY <1>1, TwoDisplays DEF FrameInv, Images, Remembered, Reused, Chosen, hwc_prepare
<1> QED
  BY <1>2, <1>3, <1>4, <1>5 DEF FrameInv

(* What SurfaceFlinger passes is a list of layers whose flags agree.       *)
LEMMA ListsPassed ==
  ASSUME FrameTypes, NEW d \in Displays, NEW l \in {<<>>} \cup scenario[d]
  PROVE  LayerList(l)
<1>1. CASE l = <<>>
  <2>1. MaxLayers \in Nat
    BY ComposerAssumption
  <2>2. <<>> \in Seq(Layer) /\ Len(<<>>) = 0 /\ DOMAIN <<>> = {}
    OBVIOUS
  <2> QED
    BY <1>1, <2>1, <2>2 DEF LayerList
<1>2. CASE l \in scenario[d]
  BY <1>2, ComposerAssumption DEF FrameTypes, LayerList
<1> QED
  BY <1>1, <1>2

(* A display is passed over: it has no layers, or is off.                  *)
LEMMA PassedOverFramed ==
  ASSUME ComposerInv, FrameInv, at \in Displays, NEW l \in {<<>>} \cup scenario[at], PassOver(l)
  PROVE  FrameInv'
<1>1. /\ at \notin ready /\ ready' = ready /\ todo' = todo /\ phase = "prepare" /\ phase' = "prepare"
      /\ at' = After(at) /\ todo = <<>>
  BY DEF ComposerInv, WorkInv, PassOver
<1>2. BookSame
  BY DEF PassOver, ovVars, BookSame
<1>3. /\ \A d \in Displays \ {at} : list'[d] = list[d] /\ frame'[d] = frame[d]
      /\ list'[at] = l
      /\ frame'[at] = frame[at] \/ frame'[at] = [frame[at] EXCEPT !.flagged = {}]
  BY DEF FrameInv, FrameTypes, PassOver
<1>4. FrameTypes'
  <2>1. LayerList(l)
    BY ListsPassed DEF FrameInv
  <2>2. DOMAIN list' = Displays /\ \A d \in Displays : LayerList(list'[d])
    BY <1>3, <2>1 DEF FrameInv, FrameTypes, PassOver
  <2>3. frame' \in [Displays -> FrameRecord]
    <3>1. frame \in [Displays -> FrameRecord]
      BY DEF FrameInv, FrameTypes
    <3>2. [frame[at] EXCEPT !.flagged = {}] \in FrameRecord
      BY <3>1, FrameFields
    <3>3. frame' = frame \/ frame' = [frame EXCEPT ![at] = [frame[at] EXCEPT !.flagged = {}]]
      BY DEF PassOver
    <3> QED
      BY <3>1, <3>2, <3>3
  <2> QED
    BY <2>2, <2>3 DEF FrameInv, FrameTypes, PassOver, dpyVars
<1>5. Rounds'
  BY <1>1, <1>2, TwoDisplays DEF FrameInv, Rounds, BookSame
<1>6. GivenUp'
  BY <1>1, TwoDisplays DEF GivenUp
<1>7. Frames'
  <2> SUFFICES ASSUME NEW d \in ready PROVE FramePlaced(d)'
    BY <1>1 DEF Frames
  <2>1. d \in Displays /\ d # at
    BY <1>1 DEF FrameInv, FrameTypes
  <2>2. d # at' 
    BY <1>1, <2>1, TwoDisplays DEF FrameInv, Rounds
  <2>3. FrameSame(d)
    BY <1>1, <1>3, <2>1, <2>2 DEF FrameSame, Pending, Passed, PassOver
  <2> QED
    BY <1>2, <2>3, FrameStays DEF FrameInv
<1>8. Images'
  <2>1. /\ cache' = cache /\ fbHandle' = fbHandle /\ active' = active
        /\ l = <<>> \/ ~Composable(at)
    BY DEF PassOver, dpyVars
  <2>2. Remembered'
    BY <1>1, <2>1 DEF FrameInv, Images, Remembered
  <2>3. CASE at = DPY_EXTERNAL
    BY <1>1, <2>1, <2>2, <2>3, TwoDisplays DEF FrameInv, Rounds, Images, Reused, Chosen
  <2>4. CASE at = DPY_PRIMARY
    <3>1. l = <<>> \/ ~active[DPY_PRIMARY]
      BY <2>1, <2>4, TwoDisplays DEF Composable
    <3> QED
      BY <1>1, <1>3, <2>1, <2>2, <2>4, <3>1 DEF Images, Reused
  <2> QED
    BY <2>3, <2>4, TwoDisplays
<1> QED
  BY <1>4, <1>5, <1>6, <1>7, <1>8 DEF FrameInv

(* MDPComp takes a display and chooses how to compose its frame.           *)
LEMMA ChosenFramed ==
  ASSUME ComposerInv, FrameInv, at \in Displays, NEW l \in {<<>>} \cup scenario[at],
         NEW same \in SUBSET (DOMAIN l), NEW geometry \in BOOLEAN,
         MDPComp_prepare(l, same, geometry)
  PROVE  FrameInv'
<1> DEFINE doable == isFrameDoable(mExtDispConfiguring', mVideoTransFlag')
           avail == availablePipes(at)
           how == Composition(at, l, avail, same, doable)
           fb == FbLayers(how, l, avail, same)
           redraw == \/ how \in {"video", "gpu"}
                     \/ ~isSameFrame(cache[at], l, fb, same)
                     \/ geometry \/ isSkipPresent(l) \/ at # DPY_PRIMARY
           f == [Frame(Len(l)) EXCEPT !.fb = fb, !.fbZ = FbZ(l, fb), !.redraw = redraw]
<1>1. /\ phase = "prepare" /\ phase' = "prepare" /\ at' = at /\ at \notin ready
      /\ ready' = ready \cup {at} /\ l # <<>> /\ Composable(at) /\ todo = <<>>
      /\ list' = [list EXCEPT ![at] = l] /\ cache' = cache /\ active' = active
      /\ modeOn' = modeOn /\ scenario' = scenario
  BY DEF ComposerInv, WorkInv, MDPComp_prepare, dpyVars
<1>2. BookSame
  BY DEF MDPComp_prepare, ovVars, BookSame
<1>3. frame' = [frame EXCEPT ![at] = f] /\ todo' = Program(l, fb)
  BY DEF MDPComp_prepare
<1>4. LayerList(l)
  BY ListsPassed DEF FrameInv
<1>5. fb \subseteq DOMAIN l /\ Span(fb)
  BY <1>1, <1>4, FbLayersSpan
<1>6. /\ f.n = Len(l) /\ f.fb = fb /\ f.fbZ = FbZ(l, fb) /\ f.redraw = redraw
      /\ f.pipe = NoPipes
  BY DEF Frame
<1>7. DOMAIN l = 1 .. Len(l) /\ Len(l) \in Nat
  BY <1>4 DEF LayerList
<1>8. f \in FrameRecord
  <2>1. FbZ(l, fb) \in Int
    <3> HIDE DEF fb
    <3>1. CASE fb = {}
      BY <3>1 DEF FbZ
    <3>2. CASE fb # {}
      <4>1. Min(fb) \in Nat
        BY <1>5, <1>7, <3>2, LeastOf
      <4> QED
        BY <3>2, <4>1 DEF FbZ, Base
    <3> QED
      BY <3>1, <3>2
  <2>2. redraw \in BOOLEAN
    OBVIOUS
  <2>3. Frame(Len(l)) \in FrameRecord
    BY <1>7, FrameFields DEF FrameInv, FrameTypes
  <2>4. fb \in SUBSET Int
    BY <1>5, <1>7
  <2> HIDE DEF fb, redraw
  <2> QED
    BY <2>1, <2>2, <2>3, <2>4 DEF FrameRecord
<1> DEFINE staying == \/ at # DPY_PRIMARY
                      \/ fbHandle' = Aged(fbHandle, same, geometry)
<1>9. staying /\ (at # DPY_PRIMARY => fbHandle' = fbHandle)
  BY DEF MDPComp_prepare
<1>10. redraw \/ /\ isSameFrame(cache[at], l, fb, same) /\ ~geometry
  OBVIOUS
<1> HIDE DEF fb, how, redraw, doable, avail, f
<1>11. frame'[at] = f /\ \A d \in Displays \ {at} : frame'[d] = frame[d] /\ list'[d] = list[d]
  BY <1>1, <1>3 DEF FrameInv, FrameTypes
<1>12. list'[at] = l
  BY <1>1 DEF FrameInv, FrameTypes
<1>13. FrameTypes'
  <2>1. DOMAIN list' = Displays /\ \A d \in Displays : LayerList(list'[d])
    BY <1>1, <1>4 DEF FrameInv, FrameTypes
  <2>2. frame' \in [Displays -> FrameRecord]
    BY <1>3, <1>8 DEF FrameInv, FrameTypes
  <2>3. todo' \in Seq(Ops)
    BY <1>3, <1>4, <1>5, ProgramHas
  <2> QED
    BY <1>1, <2>1, <2>2, <2>3 DEF FrameInv, FrameTypes
<1>14. Rounds'
  BY <1>1, <1>2, TwoDisplays DEF FrameInv, Rounds, BookSame
<1>15. Fallback(f) <=> fb = DOMAIN l
  BY <1>6, <1>7 DEF Fallback
<1>16. GivenUp'
  <2>1. CASE fb # DOMAIN l
    BY <1>1, <1>11, <1>15, <2>1 DEF GivenUp
  <2>2. CASE fb = DOMAIN l
    <3>1. FbProgram \in Seq(Ops)
      <4>1. FB \in Targets
        BY ComposerAssumption DEF FB, Targets
      <4>2. GetOp(FB) \in Ops /\ CommitOp(FB) \in Ops
        BY <4>1 DEF GetOp, CommitOp, Ops
      <4> QED
        BY <4>2 DEF FbProgram
    <3>2. todo' \in {<<>>, FbProgram}
      BY <1>3, <2>2, <3>1, ConcatEmptySeq, EmptyTodo DEF Program
    <3> QED
      BY <3>2 DEF GivenUp
  <2> QED
    BY <2>1, <2>2
<1>17. Frames'
  <2> SUFFICES ASSUME NEW d \in ready' PROVE FramePlaced(d)'
    BY DEF Frames
  <2>1. CASE d = at
    <3> SUFFICES ASSUME fb # DOMAIN l
                 PROVE  /\ Shaped(l, f)
                        /\ Placed(at, Wanted(l, fb), NoPipes, todo', used', allocated', mDisplay', modeOn'[at])
                        /\ ~Passed(at)'
      BY <1>1, <1>6, <1>11, <1>12, <1>15, <2>1 DEF FramePlaced, Pending
    <3>1. Shaped(l, f)
      BY <1>1, <1>5, <1>6, <1>7 DEF Shaped
    <3>2. \A p \in used' : mDisplay'[p] # at
      BY <1>1, <1>2 DEF FrameInv, Rounds, BookSame
    <3>3. Placed(at, Wanted(l, fb), NoPipes, todo', used', allocated', mDisplay', modeOn'[at])
      BY <1>3, <1>4, <1>5, <3>2, Unplaced
    <3>4. ~Passed(at)'
      BY <1>1 DEF Passed
    <3> QED
      BY <3>1, <3>3, <3>4
  <2>2. CASE d # at
    <3>1. d \in ready /\ d \in Displays
      BY <1>1, <2>2 DEF FrameInv, FrameTypes
    <3>2. FrameSame(d)
      BY <1>1, <1>11, <2>2, <3>1 DEF FrameSame, Pending, Passed
    <3> QED
      BY <1>2, <3>1, <3>2, FrameStays DEF FrameInv
  <2> QED
    BY <2>1, <2>2
<1>18. Images'
  <2>1. ~Chosen'
    BY <1>1, TwoDisplays DEF Chosen
  <2>2. CASE at = DPY_EXTERNAL
    <3>1. /\ fbHandle' = fbHandle /\ frame'[DPY_PRIMARY] = frame[DPY_PRIMARY]
          /\ DPY_PRIMARY \notin ready /\ DPY_PRIMARY \notin ready'
      BY <1>1, <1>9, <1>11, <2>2, TwoDisplays DEF FrameInv, Rounds
    <3> QED
      BY <1>1, <2>1, <3>1 DEF FrameInv, Images, Remembered, Reused
  <2>3. CASE at = DPY_PRIMARY
    <3>1. Remembered'
      BY <1>1, <2>3 DEF Remembered
    <3>2. active'[DPY_PRIMARY] /\ list'[DPY_PRIMARY] # <<>>
      BY <1>1, <1>12, <2>3 DEF Composable
    <3>3. Reused'
      <4> SUFFICES ASSUME fb # {}, ~redraw PROVE fbHandle' = Image(fb)
        BY <1>6, <1>11, <2>3 DEF Reused
      <4>1. ~geometry /\ cache[DPY_PRIMARY].fb = fb /\ fb \subseteq same
        BY <1>10, <2>3 DEF isSameFrame
      <4>2. fbHandle = Image(fb)
        BY <1>1, <2>3, <4>1 DEF FrameInv, Images, Remembered
      <4>3. fbHandle' = Aged(fbHandle, same, geometry)
        BY <1>9, <2>3
      <4> QED
        BY <4>1, <4>2, <4>3 DEF Aged, Image
    <3> QED
      BY <1>1, <2>1, <2>3, <3>1, <3>2, <3>3 DEF Images
  <2> QED
    BY <2>2, <2>3, TwoDisplays
<1> QED
  BY <1>13, <1>14, <1>16, <1>17, <1>18 DEF FrameInv

(* The display is being prepared while operations are left.                *)
LEMMA Working ==
  ASSUME ComposerInv, FrameInv, todo # <<>>
  PROVE  /\ phase = "prepare" /\ at \in ready /\ at \in Displays /\ Pending(at) = todo
         /\ frame[at] \in FrameRecord /\ modeOn[at] \in BOOLEAN
         /\ todo \in Seq(Ops) /\ Tail(todo) \in Seq(Ops) /\ Head(todo) \in Ops
  BY DEF ComposerInv, WorkInv, FrameInv, FrameTypes, Pending

(* The operations of a frame MDPComp has given up, or has composed.        *)
LEMMA WorkLeft ==
  ASSUME ComposerInv, FrameInv, todo # <<>>
  PROVE  /\ Fallback(frame[at]) =>
              \/ todo = FbProgram
              \/ todo = <<CommitOp(FB)>> /\ mDisplay[frame[at].pipe[FB]] = at
         /\ ~Fallback(frame[at]) =>
              /\ Shaped(list[at], frame[at]) /\ Wanted(list[at], frame[at].fb) \in SUBSET Targets
              /\ Placed(at, Wanted(list[at], frame[at].fb), frame[at].pipe, todo, used, allocated,
                        mDisplay, modeOn[at])
<1>1. phase = "prepare" /\ at \in ready /\ at \in Displays /\ Pending(at) = todo
  BY Working
<1> DEFINE last == <<CommitOp(FB)>>
           owned == mDisplay[frame[at].pipe[FB]] = at
<1>2. ASSUME Fallback(frame[at]) PROVE todo = FbProgram \/ (todo = last /\ owned)
  <2>1. GivenUp
    BY DEF FrameInv
  <2>2. todo \in {<<>>, FbProgram} \/ (todo = last /\ owned)
    BY <1>1, <1>2, <2>1 DEF GivenUp
  <2> HIDE DEF last, owned
  <2> QED
    BY <2>2
<1>3. ~Fallback(frame[at]) =>
        /\ Shaped(list[at], frame[at])
        /\ Placed(at, Wanted(list[at], frame[at].fb), frame[at].pipe, todo, used, allocated,
                  mDisplay, modeOn[at])
  BY <1>1 DEF FrameInv, Frames, FramePlaced
<1>4. Shaped(list[at], frame[at]) => Wanted(list[at], frame[at].fb) \in SUBSET Targets
  <2>1. LayerList(list[at])
    BY <1>1 DEF FrameInv, FrameTypes
  <2>2. Shaped(list[at], frame[at]) => frame[at].fb \in SUBSET (DOMAIN list[at])
    BY <2>1 DEF Shaped, LayerList
  <2> QED
    BY <2>1, <2>2, ProgramHas
<1> QED
  BY <1>2, <1>3, <1>4

(* FBUpdate's two operations.                                              *)
LEMMA FbOps ==
  /\ FbProgram \in Seq(Ops) /\ FbProgram # <<>> /\ Tail(FbProgram) = <<CommitOp(FB)>>
  /\ Head(FbProgram).do = "next" /\ Head(FbProgram).for = FB
  /\ <<CommitOp(FB)>> \in Seq(Ops) /\ <<CommitOp(FB)>> # <<>> /\ Tail(<<CommitOp(FB)>>) = <<>>
  /\ Head(<<CommitOp(FB)>>).do = "commit" /\ Head(<<CommitOp(FB)>>).for = FB
  /\ FB \in Targets
<1>1. FB \in Targets
  BY ComposerAssumption DEF FB, Targets
<1>2. GetOp(FB) \in Ops /\ CommitOp(FB) \in Ops
  BY <1>1 DEF GetOp, CommitOp, Ops
<1> QED
  BY <1>1, <1>2 DEF FbProgram, GetOp, CommitOp

(* While a display is being prepared, its frame only gets its pipes or is  *)
(* given up: nothing else that the invariant speaks of changes.            *)
LEMMA WorkFramed ==
  ASSUME ComposerInv, FrameInv, todo # <<>>, NEW f,
         frame' = [frame EXCEPT ![at] = f], f \in FrameRecord,
         \/ f.fb = frame[at].fb /\ f.redraw = frame[at].redraw
         \/ f.redraw,
         UNCHANGED <<phase, at, ready, scenario, list, cache, fbHandle, active>>,
         todo' \in Seq(Ops), modeOn' \in [Displays -> BOOLEAN],
         \A p \in used' \cup allocated' : mDisplay'[p] \in ready,
         FramePlaced(at)', GivenUp',
         \A d \in ready \ {at} : FramePlaced(d)'
  PROVE  FrameInv'
<1>1. /\ phase = "prepare" /\ at \in ready /\ at \in Displays
  BY Working
<1>2. frame'[at] = f /\ \A d \in Displays \ {at} : frame'[d] = frame[d]
  BY <1>1 DEF FrameInv, FrameTypes
<1>3. FrameTypes'
  BY DEF FrameInv, FrameTypes
<1>4. Rounds'
  BY <1>1 DEF FrameInv, Rounds
<1>5. Frames'
  BY DEF Frames
<1>6. ~Chosen'
  BY <1>1, TwoDisplays DEF Chosen
<1>7. Images'
  <2>1. CASE at = DPY_EXTERNAL
    <3>1. DPY_PRIMARY \notin ready
      BY <1>1, <2>1 DEF FrameInv, Rounds
    <3> QED
      BY <1>6, <3>1 DEF FrameInv, Images, Remembered, Reused
  <2>2. CASE at = DPY_PRIMARY
    <3>1. Remembered'
      BY <1>1, <2>2 DEF Remembered
    <3>2. Reused'
      BY <1>1, <1>2, <2>2 DEF FrameInv, Images, Reused
    <3> QED
      BY <1>1, <1>6, <2>2, <3>1, <3>2 DEF FrameInv, Images
  <2> QED
    BY <1>1, <2>1, <2>2, TwoDisplays
<1> QED
  BY <1>3, <1>4, <1>5, <1>7 DEF FrameInv

(* What the display that is being prepared does to its own pipes leaves    *)
(* the frame of the other one as it is.                                    *)
LEMMA OthersFramed ==
  ASSUME ComposerInv, FrameInv, phase = "prepare", NEW d \in ready \ {at},
         UNCHANGED <<phase, at, list>>, frame'[d] = frame[d], modeOn'[d] = modeOn[d],
         \A p \in allocated : mDisplay[p] = d =>
            p \in allocated' /\ mDisplay'[p] = d /\ (p \in used => p \in used'),
         \A p \in used' : mDisplay'[p] = d => p \in used /\ mDisplay[p] = d
  PROVE  FramePlaced(d)'
<1>1. Pending(d) = <<>> /\ Pending(d)' = <<>> /\ Passed(d) /\ Passed(d)'
  BY DEF Pending, Passed
<1> SUFFICES ASSUME ~Fallback(frame[d])
             PROVE  /\ Shaped(list[d], frame[d])
                    /\ Placed(d, Wanted(list[d], frame[d].fb), frame[d].pipe, <<>>, used',
                              allocated', mDisplay', modeOn[d])
                    /\ frame[d].flagged = Layers(d) \ frame[d].fb
  BY <1>1 DEF FramePlaced, Layers
<1>2. /\ Shaped(list[d], frame[d])
      /\ Placed(d, Wanted(list[d], frame[d].fb), frame[d].pipe, <<>>, used, allocated, mDisplay,
                modeOn[d])
      /\ frame[d].flagged = Layers(d) \ frame[d].fb
  BY <1>1 DEF FrameInv, Frames, FramePlaced
<1>3. Placed(d, Wanted(list[d], frame[d].fb), frame[d].pipe, <<>>, used', allocated', mDisplay',
             modeOn[d])
  BY <1>2, OthersKept
<1> QED
  BY <1>2, <1>3

(* MDPComp gives a frame up: FBUpdate is to take all layers, unless it was *)
(* FBUpdate that failed.                                                   *)
LEMMA GivesUp ==
  ASSUME ComposerInv, FrameInv, todo # <<>>, PrepareFails,
         UNCHANGED <<phase, at, ready, scenario, list, cache, fbHandle, active>>,
         mDisplay' = mDisplay, used' \subseteq used, allocated' \subseteq allocated,
         \A p \in Pipes : mDisplay[p] # at =>
            /\ p \in used => p \in used'
            /\ p \in allocated => p \in allocated'
  PROVE  FrameInv'
<1> DEFINE f == Frame(frame[at].n)
<1>1. /\ phase = "prepare" /\ at \in ready /\ at \in Displays /\ frame[at] \in FrameRecord
  BY Working
<1>2. frame' = [frame EXCEPT ![at] = f] /\ f \in FrameRecord /\ f.redraw /\ Fallback(f)
  <2>1. frame[at].n \in Nat
    BY <1>1 DEF FrameRecord
  <2>2. f \in FrameRecord
    BY <1>1, <2>1, FrameFields
  <2>3. f.redraw /\ Fallback(f)
    BY DEF Frame, Fallback
  <2> QED
    BY <2>2, <2>3 DEF PrepareFails
<1> HIDE DEF f
<1>3. frame'[at] = f /\ \A d \in Displays \ {at} : frame'[d] = frame[d]
  BY <1>1, <1>2 DEF FrameInv, FrameTypes
<1>4. todo' \in {<<>>, FbProgram}
  BY DEF PrepareFails
<1>5. todo' \in Seq(Ops)
  BY <1>4, FbOps, EmptyTodo
<1>6. modeOn' \in [Displays -> BOOLEAN] /\ \A d \in Displays \ {at} : modeOn'[d] = modeOn[d]
  BY DEF PrepareFails, FrameInv, FrameTypes
<1>7. \A p \in used' \cup allocated' : mDisplay'[p] \in ready
  BY <1>1 DEF FrameInv, Rounds
<1>8. FramePlaced(at)'
  BY <1>2, <1>3 DEF FramePlaced
<1>9. GivenUp'
  BY <1>4 DEF GivenUp
<1>10. ASSUME NEW d \in ready \ {at} PROVE FramePlaced(d)'
  <2>1. d \in Displays /\ frame'[d] = frame[d] /\ modeOn'[d] = modeOn[d]
    BY <1>3, <1>6 DEF FrameInv, FrameTypes
  <2>2. used \subseteq Pipes /\ allocated \subseteq Pipes
    BY DEF ComposerInv, OvInv, OvTypeOK
  <2> QED
    BY <1>1, <2>1, <2>2, OthersFramed
<1> QED
  BY <1>2, <1>5, <1>6, <1>7, <1>8, <1>9, <1>10, WorkFramed

(* A used pipe belongs to a display.                                       *)
LEMMA UsedOwned ==
  ASSUME ComposerInv, NEW p \in used
  PROVE  p \in Pipes /\ mDisplay[p] # DPY_UNUSED
  BY DEF ComposerInv, OvInv, OvTypeOK, UsedIsOpen, OwnedExists

(* The display is handed a pipe for the target that is next.               *)
LEMMA PipeGotFramed ==
  ASSUME ComposerInv, FrameInv, todo # <<>>, Head(todo).do = "next",
         NEW types, NEW p \in Pipes, nextPipe(types, at, p),
         frame' = [frame EXCEPT ![at].pipe[Head(todo).for] = p],
         todo' = Tail(todo),
         UNCHANGED <<phase, at, ready, scenario, list, cache, fbHandle, active, modeOn>>
  PROVE  FrameInv'
<1> DEFINE t == Head(todo).for
           f == [frame[at] EXCEPT !.pipe[t] = p]
<1>1. /\ phase = "prepare" /\ at \in ready /\ at \in Displays /\ frame[at] \in FrameRecord
      /\ todo \in Seq(Ops) /\ Tail(todo) \in Seq(Ops) /\ Head(todo) \in Ops
      /\ modeOn[at] \in BOOLEAN
  BY Working
<1>2. t \in Targets /\ Head(todo) = GetOp(t)
  BY <1>1 DEF Ops, GetOp
<1>3. /\ p \notin allocated /\ mDisplay[p] \in {DPY_UNUSED, at}
      /\ allocated' = allocated \cup {p} /\ mDisplay' = [mDisplay EXCEPT ![p] = at] /\ used' = used
  BY DEF nextPipe, Candidates, Available
<1>4. /\ used \subseteq Pipes /\ allocated \subseteq Pipes /\ DOMAIN mDisplay = Pipes
      /\ p \in used => mDisplay[p] = at
  BY <1>3, UsedOwned DEF ComposerInv, OvInv, OvTypeOK
<1>5. mDisplay'[p] = at /\ \A x \in Pipes : x # p => mDisplay'[x] = mDisplay[x]
  BY <1>3, <1>4
<1>6. frame' = [frame EXCEPT ![at] = f] /\ f \in FrameRecord
  BY <1>1, <1>2, FrameFields
<1>7. /\ f.n = frame[at].n /\ f.fb = frame[at].fb /\ f.fbZ = frame[at].fbZ
      /\ f.redraw = frame[at].redraw /\ f.pipe = [frame[at].pipe EXCEPT ![t] = p]
      /\ DOMAIN frame[at].pipe = Targets
  BY <1>1 DEF FrameRecord
<1> HIDE DEF f, t
<1>8. frame'[at] = f /\ \A d \in Displays \ {at} : frame'[d] = frame[d]
  BY <1>1, <1>6 DEF FrameInv, FrameTypes
<1>9. Fallback(f) <=> Fallback(frame[at])
  BY <1>7 DEF Fallback
<1>10. FramePlaced(at)'
  <2> SUFFICES ASSUME ~Fallback(frame[at])
               PROVE  /\ Shaped(list[at], f)
                      /\ Placed(at, Wanted(list[at], f.fb), f.pipe, Tail(todo), used', allocated',
                                mDisplay', modeOn[at])
                      /\ ~Passed(at)'
    BY <1>1, <1>8, <1>9 DEF FramePlaced, Pending
  <2>1. /\ Shaped(list[at], frame[at]) /\ Wanted(list[at], frame[at].fb) \in SUBSET Targets
        /\ Placed(at, Wanted(list[at], frame[at].fb), frame[at].pipe, todo, used, allocated,
                  mDisplay, modeOn[at])
    BY WorkLeft
  <2>2. Shaped(list[at], f)
    BY <1>7, <2>1 DEF Shaped
  <2>3. Placed(at, Wanted(list[at], frame[at].fb), [frame[at].pipe EXCEPT ![t] = p], Tail(todo), used,
               allocated \cup {p}, [mDisplay EXCEPT ![p] = at], modeOn[at])
    BY <1>1, <1>3, <1>4, <1>7, <2>1, PipeGot DEF t
  <2>4. ~Passed(at)'
    BY <1>1 DEF Passed
  <2> QED
    BY <1>3, <1>7, <2>2, <2>3, <2>4
<1>11. GivenUp'
  <2> SUFFICES ASSUME Fallback(frame[at]) PROVE GivenUp'
    BY <1>8, <1>9 DEF GivenUp
  <2>1. todo = FbProgram
    BY WorkLeft, FbOps
  <2>2. t = FB /\ todo' = <<CommitOp(FB)>>
    BY <2>1, FbOps DEF t
  <2>3. f.pipe[FB] = p
    BY <1>2, <1>7, <2>2
  <2> QED
    BY <1>5, <1>8, <2>2, <2>3 DEF GivenUp
<1>12. \A x \in used' \cup allocated' : mDisplay'[x] \in ready
  BY <1>1, <1>3, <1>4, <1>5 DEF FrameInv, Rounds
<1>13. ASSUME NEW d \in ready \ {at} PROVE FramePlaced(d)'
  <2>1. d \in Displays /\ frame'[d] = frame[d]
    BY <1>8, <1>13 DEF FrameInv, FrameTypes
  <2>2. /\ \A x \in allocated : mDisplay[x] = d =>
              x \in allocated' /\ mDisplay'[x] = d /\ (x \in used => x \in used')
        /\ \A x \in used' : mDisplay'[x] = d => x \in used /\ mDisplay[x] = d
    BY <1>3, <1>4, <1>5
  <2> QED
    BY <1>1, <2>1, <2>2, OthersFramed
<1>14. modeOn' \in [Displays -> BOOLEAN] /\ todo' \in Seq(Ops)
  BY <1>1 DEF FrameInv, FrameTypes
<1> QED
  BY <1>6, <1>7, <1>10, <1>11, <1>12, <1>13, <1>14, WorkFramed

(* A pipe is asked for.                                                    *)
LEMMA GetPipeFramed ==
  ASSUME ComposerInv, FrameInv, GetPipe
  PROVE  FrameInv'
<1>1. /\ todo # <<>> /\ Head(todo).do = "next"
      /\ UNCHANGED <<phase, at, ready, scenario, list, cache, fbHandle, active>>
  BY DEF GetPipe, Step, dpyVars
<1>2. ASSUME NEW types, NEW p \in Pipes, nextPipe(types, at, p),
             frame' = [frame EXCEPT ![at].pipe[Head(todo).for] = p], todo' = Tail(todo),
             modeOn' = modeOn
      PROVE  FrameInv'
  BY <1>1, <1>2, PipeGotFramed
<1>3. ASSUME PrepareFails, UNCHANGED ovVars PROVE FrameInv'
  <2>1. mDisplay' = mDisplay /\ used' = used /\ allocated' = allocated
    BY <1>3 DEF ovVars
  <2> QED
    BY <1>1, <1>3, <2>1, GivesUp
<1> QED
  BY <1>2, <1>3 DEF GetPipe
(* A pipe is committed: the display uses it from now on.                   *)
LEMMA PipePutFramed ==
  ASSUME ComposerInv, FrameInv, todo # <<>>, Head(todo).do = "commit",
         commit(frame[at].pipe[Head(todo).for], TRUE),
         todo' = Tail(todo),
         modeOn' = [modeOn EXCEPT ![at] = @ \/ Head(todo).for = FB],
         UNCHANGED <<phase, at, ready, scenario, list, cache, fbHandle, active, frame>>
  PROVE  FrameInv'
<1> DEFINE t == Head(todo).for
           p == frame[at].pipe[t]
           on == modeOn[at] \/ t = FB
<1>1. /\ phase = "prepare" /\ at \in ready /\ at \in Displays /\ frame[at] \in FrameRecord
      /\ todo \in Seq(Ops) /\ Tail(todo) \in Seq(Ops) /\ Head(todo) \in Ops
      /\ modeOn[at] \in BOOLEAN
  BY Working
<1>2. t \in Targets /\ Head(todo) = CommitOp(t)
  BY <1>1 DEF Ops, CommitOp
<1>3. /\ p \in allocated /\ used' = used \cup {p} /\ allocated' = allocated /\ mDisplay' = mDisplay
  BY DEF commit
<1>4. used \subseteq Pipes /\ allocated \subseteq Pipes
  BY DEF ComposerInv, OvInv, OvTypeOK
<1>5. modeOn' = [modeOn EXCEPT ![at] = on] /\ on \in BOOLEAN
  BY <1>1
<1>6. mDisplay[p] = at
  <2>1. CASE Fallback(frame[at])
    <3>1. todo = <<CommitOp(FB)>> /\ mDisplay[frame[at].pipe[FB]] = at
      BY <2>1, WorkLeft, FbOps
    <3>2. t = FB
      BY <3>1, FbOps
    <3> QED
      BY <3>1, <3>2
  <2>2. CASE ~Fallback(frame[at])
    <3>1. /\ Wanted(list[at], frame[at].fb) \in SUBSET Targets
          /\ Placed(at, Wanted(list[at], frame[at].fb), frame[at].pipe, todo, used, allocated,
                    mDisplay, modeOn[at])
      BY <2>2, WorkLeft
    <3> QED
      BY <1>1, <3>1, PipeOwned
  <2> QED
    BY <2>1, <2>2
<1> HIDE DEF t, p, on
<1>7. modeOn'[at] = on /\ \A d \in Displays \ {at} : modeOn'[d] = modeOn[d]
  BY <1>1, <1>5 DEF FrameInv, FrameTypes
<1>8. FramePlaced(at)'
  <2> SUFFICES ASSUME ~Fallback(frame[at])
               PROVE  /\ Shaped(list[at], frame[at])
                      /\ Placed(at, Wanted(list[at], frame[at].fb), frame[at].pipe, Tail(todo), used',
                                allocated', mDisplay', on)
                      /\ ~Passed(at)'
    BY <1>1, <1>7 DEF FramePlaced, Pending
  <2>1. /\ Shaped(list[at], frame[at]) /\ Wanted(list[at], frame[at].fb) \in SUBSET Targets
        /\ Placed(at, Wanted(list[at], frame[at].fb), frame[at].pipe, todo, used, allocated,
                  mDisplay, modeOn[at])
    BY WorkLeft
  <2>2. Placed(at, Wanted(list[at], frame[at].fb), frame[at].pipe, Tail(todo), used \cup {p},
               allocated, mDisplay, on)
    <3>1. (modeOn[at] => on) /\ (Head(todo).for = FB => on)
      BY DEF on, t
    <3> HIDE DEF on
    <3> QED
      BY <1>1, <2>1, <3>1, PipePut DEF t, p
  <2>3. ~Passed(at)'
    BY <1>1 DEF Passed
  <2> QED
    BY <1>3, <2>1, <2>2, <2>3
<1>9. GivenUp'
  <2> SUFFICES ASSUME Fallback(frame[at]) PROVE GivenUp'
    BY DEF GivenUp
  <2>1. todo = <<CommitOp(FB)>>
    BY WorkLeft, FbOps
  <2>2. todo' = <<>>
    BY <2>1, FbOps
  <2> QED
    BY <2>2 DEF GivenUp
<1>10. \A x \in used' \cup allocated' : mDisplay'[x] \in ready
  BY <1>1, <1>3 DEF FrameInv, Rounds
<1>11. ASSUME NEW d \in ready \ {at} PROVE FramePlaced(d)'
  <2>1. d \in Displays /\ modeOn'[d] = modeOn[d]
    BY <1>7 DEF FrameInv, FrameTypes
  <2>2. /\ \A x \in allocated : mDisplay[x] = d =>
              x \in allocated' /\ mDisplay'[x] = d /\ (x \in used => x \in used')
        /\ \A x \in used' : mDisplay'[x] = d => x \in used /\ mDisplay[x] = d
    BY <1>3, <1>6
  <2> QED
    BY <1>1, <2>1, <2>2, OthersFramed
<1>12. modeOn' \in [Displays -> BOOLEAN] /\ todo' \in Seq(Ops)
  BY <1>1, <1>5 DEF FrameInv, FrameTypes
<1>13. frame' = [frame EXCEPT ![at] = frame[at]]
  BY <1>1 DEF FrameInv, FrameTypes
<1> QED
  BY <1>1, <1>8, <1>9, <1>10, <1>11, <1>12, <1>13, WorkFramed

(* A pipe is committed, or the commit fails.                               *)
LEMMA CommitPipeFramed ==
  ASSUME ComposerInv, FrameInv, CommitPipe
  PROVE  FrameInv'
<1>1. /\ todo # <<>> /\ Head(todo).do = "commit"
      /\ UNCHANGED <<phase, at, ready, scenario, list, cache, fbHandle, active>>
  BY DEF CommitPipe, Step, dpyVars
<1> DEFINE p == frame[at].pipe[Head(todo).for]
<1>2. ASSUME commit(p, TRUE), todo' = Tail(todo),
             modeOn' = [modeOn EXCEPT ![at] = @ \/ Head(todo).for = FB], frame' = frame
      PROVE  FrameInv'
  BY <1>1, <1>2, PipePutFramed
<1>3. ASSUME PrepareFails, commit(p, FALSE) PROVE FrameInv'
  <2>1. mDisplay[p] = at
    <3>1. CASE Fallback(frame[at])
      <4>1. todo = <<CommitOp(FB)>> /\ mDisplay[frame[at].pipe[FB]] = at
        BY <1>1, <3>1, WorkLeft, FbOps
      <4>2. Head(todo).for = FB
        BY <4>1, FbOps
      <4> QED
        BY <4>1, <4>2
    <3>2. CASE ~Fallback(frame[at])
      <4>1. /\ Wanted(list[at], frame[at].fb) \in SUBSET Targets
            /\ Placed(at, Wanted(list[at], frame[at].fb), frame[at].pipe, todo, used, allocated,
                      mDisplay, modeOn[at])
        BY <1>1, <3>2, WorkLeft
      <4>2. todo \in Seq(Ops)
        BY <1>1, Working
      <4> QED
        BY <1>1, <4>1, <4>2, PipeOwned
    <3> QED
      BY <3>1, <3>2
  <2> HIDE DEF p
  <2>2. /\ mDisplay' = mDisplay /\ used' = used \ {p}
        /\ allocated' = {q \in allocated : mDisplay[q] # at}
    BY <1>3, <2>1 DEF commit
  <2>3. /\ used' \subseteq used /\ allocated' \subseteq allocated
        /\ \A x \in Pipes : mDisplay[x] # at =>
              /\ x \in used => x \in used'
              /\ x \in allocated => x \in allocated'
    BY <2>1, <2>2
  <2> QED
    BY <1>1, <1>3, <2>2, <2>3, GivesUp
<1> QED
  BY <1>2, <1>3 DEF CommitPipe

(* A display is done with: its layers are flagged, its frame remembered.   *)
LEMMA PreparedFramed ==
  ASSUME ComposerInv, FrameInv, Prepared
  PROVE  FrameInv'
<1> DEFINE S == (1 .. frame[at].n) \ frame[at].fb
           f == [frame[at] EXCEPT !.flagged = S]
<1>1. /\ phase = "prepare" /\ phase' = "prepare" /\ at \in ready /\ at \in Displays /\ todo = <<>>
      /\ at' = After(at) /\ frame[at] \in FrameRecord
      /\ UNCHANGED <<todo, ready, scenario, list, modeOn, fbHandle, active>>
  BY DEF Prepared, FrameInv, FrameTypes, dpyVars
<1>2. BookSame
  BY DEF Prepared, ovVars, BookSame
<1>3. /\ frame' = [frame EXCEPT ![at] = f]
      /\ DOMAIN cache' = Displays /\ cache'[at].fb = frame[at].fb
      /\ \A d \in Displays \ {at} : cache'[d] = cache[d]
  BY <1>1 DEF Prepared, FrameInv, FrameTypes
<1>4. f \in FrameRecord
  <2>1. S \in SUBSET Int
    BY <1>1 DEF FrameRecord
  <2> HIDE DEF S
  <2> QED
    BY <1>1, <2>1, FrameFields
<1>5. /\ f.n = frame[at].n /\ f.fb = frame[at].fb /\ f.fbZ = frame[at].fbZ
      /\ f.redraw = frame[at].redraw /\ f.pipe = frame[at].pipe /\ f.flagged = S
  BY <1>1 DEF FrameRecord
<1> HIDE DEF f
<1>6. frame'[at] = f /\ \A d \in Displays \ {at} : frame'[d] = frame[d]
  BY <1>1, <1>3 DEF FrameInv, FrameTypes
<1>7. FrameTypes'
  BY <1>1, <1>3, <1>4 DEF FrameInv, FrameTypes
<1>8. at' \notin ready /\ at' # DPY_EXTERNAL /\ at' \in Displays \cup {DPY_UNUSED} /\ at' # at
  BY <1>1, TwoDisplays DEF FrameInv, FrameTypes, Rounds
<1>9. Rounds'
  BY <1>1, <1>2, <1>8 DEF FrameInv, Rounds, BookSame
<1>10. GivenUp'
  BY <1>1, <1>8 DEF GivenUp
<1>11. Frames'
  <2> SUFFICES ASSUME NEW d \in ready PROVE FramePlaced(d)'
    BY <1>1 DEF Frames
  <2>1. CASE d = at
    <3>1. Pending(at) = <<>> /\ Pending(d)' = <<>>
      BY <1>1 DEF Pending
    <3>2. FramePlaced(at)
      BY <1>1 DEF FrameInv, Frames
    <3> SUFFICES ASSUME ~Fallback(frame[at])
                 PROVE  /\ Shaped(list[at], f)
                        /\ Placed(at, Wanted(list[at], f.fb), f.pipe, <<>>, used', allocated',
                                  mDisplay', modeOn[at])
                        /\ f.flagged = (1 .. f.n) \ f.fb
      BY <1>1, <1>5, <1>6, <2>1, <3>1 DEF FramePlaced, Fallback, Layers
    <3>3. /\ Shaped(list[at], frame[at])
          /\ Placed(at, Wanted(list[at], frame[at].fb), frame[at].pipe, <<>>, used, allocated,
                    mDisplay, modeOn[at])
      BY <3>1, <3>2 DEF FramePlaced
    <3>4. Shaped(list[at], f)
      BY <1>5, <3>3 DEF Shaped
    <3> QED
      BY <1>2, <1>5, <3>3, <3>4 DEF BookSame
  <2>2. CASE d # at
    <3>1. d \in Displays /\ frame'[d] = frame[d]
      BY <1>6, <2>2 DEF FrameInv, FrameTypes
    <3>2. Pending(d) = <<>> /\ Pending(d)' = <<>> /\ Passed(d)
      BY <1>1, <2>2 DEF Pending, Passed
    <3> QED
      BY <1>1, <1>2, <3>1, <3>2, FrameStays DEF FrameInv, FrameSame
  <2> QED
    BY <2>1, <2>2
<1>12. Images'
  <2>1. CASE at = DPY_EXTERNAL
    <3>1. /\ DPY_PRIMARY \notin ready /\ ~Chosen'
          /\ cache'[DPY_PRIMARY] = cache[DPY_PRIMARY] /\ frame'[DPY_PRIMARY] = frame[DPY_PRIMARY]
      BY <1>1, <1>3, <1>6, <2>1, TwoDisplays DEF FrameInv, Rounds, Chosen
    <3> QED
      BY <1>1, <3>1 DEF FrameInv, Images, Remembered, Reused
  <2>2. CASE at = DPY_PRIMARY
    <3>1. Remembered'
      BY <1>1, <2>2 DEF Remembered
    <3>2. frame'[DPY_PRIMARY].fb = frame[DPY_PRIMARY].fb
          /\ frame'[DPY_PRIMARY].redraw = frame[DPY_PRIMARY].redraw
      BY <1>5, <1>6, <2>2
    <3>3. Reused'
      BY <1>1, <2>2, <3>2 DEF FrameInv, Images, Reused
    <3> QED
      BY <1>1, <1>3, <2>2, <3>1, <3>2, <3>3 DEF FrameInv, Images
  <2> QED
    BY <1>1, <2>1, <2>2, TwoDisplays
<1> QED
  BY <1>7, <1>9, <1>10, <1>11, <1>12 DEF FrameInv

(* The end of the round leaves the pipes it has used where they are.       *)
LEMMA UsedKept ==
  ASSUME NEW d, NEW W, NEW pipe, NEW U, NEW A, NEW D, NEW on,
         Placed(d, W, pipe, <<>>, U, A, D, on),
         NEW D2, \A p \in U : D2[p] = D[p]
  PROVE  Placed(d, W, pipe, <<>>, U, A, D2, on)
<1>1. ToGet(<<>>) = {} /\ ToCommit(<<>>) = {}
  BY EmptyTodo
<1>2. \A t \in W \ ToGet(<<>>) : pipe[t] \in A /\ D2[pipe[t]] = d
  BY <1>1 DEF Placed
<1>3. \A p \in U : D2[p] = d => \E t \in Targets : pipe[t] = p
  BY DEF Placed
<1> QED
  BY <1>2, <1>3 DEF Placed

(* The round ends: configDone takes only pipes no frame has.               *)
LEMMA PrepareDoneFramed ==
  ASSUME ComposerInv, FrameInv, PrepareDone
  PROVE  FrameInv'
<1>1. /\ phase = "prepare" /\ at = DPY_UNUSED /\ phase' = "set" /\ at' = DPY_PRIMARY
      /\ UNCHANGED <<todo, ready, scenario, list, frame, cache, modeOn, fbHandle, active>>
  BY DEF PrepareDone, frameVars, dpyVars
<1>2. /\ used' = used /\ allocated' = allocated
      /\ \A p \in used : mDisplay'[p] = mDisplay[p]
  BY DEF PrepareDone, configDone, Garbage, ComposerInv, OvInv, OvTypeOK
<1>3. FrameTypes'
  BY <1>1 DEF FrameInv, FrameTypes
<1>4. Rounds'
  BY <1>1, <1>2, TwoDisplays DEF FrameInv, Rounds
<1>5. GivenUp'
  BY <1>1 DEF GivenUp
<1>6. Frames'
  <2> SUFFICES ASSUME NEW d \in ready PROVE FramePlaced(d)'
    BY <1>1 DEF Frames
  <2>1. d # DPY_UNUSED
    BY TwoDisplays DEF FrameInv, FrameTypes
  <2>2. Pending(d) = <<>> /\ Pending(d)' = <<>> /\ Passed(d)
    BY <1>1, <2>1 DEF Pending, Passed
  <2>3. FramePlaced(d)
    BY DEF FrameInv, Frames
  <2> SUFFICES ASSUME ~Fallback(frame[d])
               PROVE  /\ Shaped(list[d], frame[d])
                      /\ Placed(d, Wanted(list[d], frame[d].fb), frame[d].pipe, <<>>, used',
                                allocated', mDisplay', modeOn[d])
                      /\ frame[d].flagged = Layers(d) \ frame[d].fb
    BY <1>1, <2>2 DEF FramePlaced, Layers
  <2>4. /\ Shaped(list[d], frame[d])
        /\ Placed(d, Wanted(list[d], frame[d].fb), frame[d].pipe, <<>>, used, allocated, mDisplay,
                  modeOn[d])
        /\ frame[d].flagged = Layers(d) \ frame[d].fb
    BY <2>2, <2>3 DEF FramePlaced
  <2> QED
    BY <1>2, <2>4, UsedKept
<1>7. Images'
  <2>1. Chosen
    BY <1>1 DEF Chosen
  <2>2. Remembered' /\ Reused'
    BY <1>1 DEF FrameInv, Images, Remembered, Reused
  <2> QED
    BY <1>1, <2>1, <2>2 DEF FrameInv, Images
<1> QED
  BY <1>3, <1>4, <1>5, <1>6, <1>7 DEF FrameInv

(* The primary display is set: the buffer MDPComp remembers holds what is  *)
(* shown from now on.                                                      *)
LEMMA SetPrimaryFramed ==
  ASSUME ComposerInv, FrameInv, hwc_set_primary
  PROVE  FrameInv'
<1> DEFINE P == DPY_PRIMARY
           f == [frame[P] EXCEPT !.flagged = {}]
<1>1. /\ phase = "set" /\ at = P /\ phase' = "set" /\ at' = DPY_EXTERNAL
      /\ UNCHANGED <<todo, ready, scenario, list, cache, modeOn, active>>
  BY DEF hwc_set_primary, dpyVars
<1>2. BookSame
  BY DEF hwc_set_primary, ovVars, BookSame
<1>3. frame' = frame \/ frame' = [frame EXCEPT ![P] = f]
  BY <1>1 DEF hwc_set_primary
<1>4. P \in Displays /\ DPY_EXTERNAL \in Displays /\ P # DPY_EXTERNAL /\ frame[P] \in FrameRecord
  BY TwoDisplays DEF FrameInv, FrameTypes
<1>5. f \in FrameRecord
  BY <1>4, FrameFields
<1>6. /\ f.n = frame[P].n /\ f.fb = frame[P].fb /\ f.fbZ = frame[P].fbZ
      /\ f.redraw = frame[P].redraw /\ f.pipe = frame[P].pipe
  BY <1>4 DEF FrameRecord
<1> HIDE DEF f
<1>7. /\ frame'[P] \in {frame[P], f}
      /\ \A d \in Displays \ {P} : frame'[d] = frame[d]
  BY <1>3, <1>4 DEF FrameInv, FrameTypes
<1>8. FrameTypes'
  BY <1>1, <1>3, <1>5 DEF FrameInv, FrameTypes
<1>9. Rounds'
  BY <1>1, <1>2, <1>4 DEF FrameInv, Rounds, BookSame
<1>10. GivenUp'
  BY <1>1 DEF GivenUp
<1>11. Frames'
  <2> SUFFICES ASSUME NEW d \in ready PROVE FramePlaced(d)'
    BY <1>1 DEF Frames
  <2>1. CASE d = P
    <3>1. Pending(P) = <<>> /\ Pending(P)' = <<>> /\ ~Passed(P)'
      BY <1>1, <1>4 DEF Pending, Passed
    <3>2. FramePlaced(P)
      BY <2>1 DEF FrameInv, Frames
    <3>3. /\ frame'[P].n = frame[P].n /\ frame'[P].fb = frame[P].fb
          /\ frame'[P].fbZ = frame[P].fbZ /\ frame'[P].pipe = frame[P].pipe
      BY <1>6, <1>7
    <3> SUFFICES ASSUME ~Fallback(frame[P])
                 PROVE  /\ Shaped(list[P], frame'[P])
                        /\ Placed(P, Wanted(list[P], frame'[P].fb), frame'[P].pipe, <<>>, used',
                                  allocated', mDisplay', modeOn[P])
      BY <1>1, <2>1, <3>1, <3>3 DEF FramePlaced, Fallback
    <3>4. /\ Shaped(list[P], frame[P])
          /\ Placed(P, Wanted(list[P], frame[P].fb), frame[P].pipe, <<>>, used, allocated,
                    mDisplay, modeOn[P])
      BY <3>1, <3>2 DEF FramePlaced
    <3>5. Shaped(list[P], frame'[P])
      BY <3>3, <3>4 DEF Shaped
    <3> QED
      BY <1>2, <3>3, <3>4, <3>5 DEF BookSame
  <2>2. CASE d # P
    <3>1. d \in Displays /\ frame'[d] = frame[d]
      BY <1>7, <2>2 DEF FrameInv, FrameTypes
    <3>2. Pending(d) = <<>> /\ Pending(d)' = <<>> /\ Passed(d)
      BY <1>1, <2>2 DEF Pending, Passed
    <3> QED
      BY <1>1, <1>2, <3>1, <3>2, FrameStays DEF FrameInv, FrameSame
  <2> QED
    BY <2>1, <2>2
<1>12. Images'
  <2>1. ~Chosen' /\ Reused' 
    BY <1>1, <1>4 DEF Chosen, Reused
  <2>2. Chosen
    BY <1>1 DEF Chosen
  <2>3. Remembered'
    <3> SUFFICES ASSUME cache[P].fb # {} PROVE fbHandle' = Image(cache[P].fb)
      BY <1>1 DEF Remembered
    <3>1. CASE P \in ready
      <4>1. Draws(P)
        BY <1>1, <1>4, <3>1 DEF FrameInv, Images, Draws, Composable
      <4>2. cache[P].fb = frame[P].fb
        BY <2>2, <3>1 DEF FrameInv, Images
      <4>3. /\ target' = IF GpuLayers(frame[P]) # {} /\ ~copybit THEN Composed(frame[P]) ELSE target
            /\ fbHandle' = IF copybit THEN Composed(frame[P])
                           ELSE IF frame[P].fb # {} /\ ~frame[P].redraw THEN fbHandle
                           ELSE target'
        BY <1>1, <4>1 DEF hwc_set_primary
      <4>4. Composed(frame[P]) = Image(frame[P].fb)
        BY DEF Composed, Image
      <4>5. ~frame[P].redraw => fbHandle = Image(frame[P].fb)
        BY <1>1, <3>1, <4>2 DEF FrameInv, Images, Reused
      <4>6. frame[P].redraw => GpuLayers(frame[P]) # {}
        BY <4>2 DEF GpuLayers
      <4> QED
        BY <4>2, <4>3, <4>4, <4>5, <4>6
    <3>2. CASE P \notin ready
      <4>1. ~Draws(P)
        BY <1>4, <2>2, <3>2 DEF FrameInv, Images, Draws, Composable
      <4>2. fbHandle' = fbHandle
        BY <1>1, <4>1 DEF hwc_set_primary
      <4> QED
        BY <3>2, <4>2 DEF FrameInv, Images, Remembered
    <3> QED
      BY <3>1, <3>2
  <2> QED
    BY <1>1, <2>1, <2>3 DEF FrameInv, Images
<1> QED
  BY <1>8, <1>9, <1>10, <1>11, <1>12 DEF FrameInv

(* The external display is set, and SurfaceFlinger is idle again.          *)
LEMMA SetExternalFramed ==
  ASSUME ComposerInv, FrameInv, hwc_set_external
  PROVE  FrameInv'
<1>1. /\ phase = "set" /\ at = DPY_EXTERNAL /\ phase' = "idle" /\ ready' = {}
      /\ UNCHANGED <<todo, scenario, list, cache, modeOn, active, fbHandle>>
  BY DEF hwc_set_external, dpyVars
<1>2. FrameTypes'
  <2>1. [frame[DPY_EXTERNAL] EXCEPT !.flagged = {}] \in FrameRecord
    BY TwoDisplays, FrameFields DEF FrameInv, FrameTypes
  <2>2. \/ frame' = frame
        \/ frame' = [frame EXCEPT ![DPY_EXTERNAL] = [frame[DPY_EXTERNAL] EXCEPT !.flagged = {}]]
    BY <1>1 DEF hwc_set_external
  <2>3. frame' \in [Displays -> FrameRecord]
    BY <2>1, <2>2 DEF FrameInv, FrameTypes
  <2> QED
    BY <1>1, <2>3 DEF FrameInv, FrameTypes
<1>3. Rounds' /\ GivenUp' /\ Frames'
  BY <1>1 DEF Rounds, GivenUp, Frames
<1>4. Images'
  <2>1. DPY_PRIMARY # at
    BY <1>1, TwoDisplays
  <2>2. Remembered' /\ Reused' /\ ~Chosen'
    BY <1>1, <2>1 DEF FrameInv, Images, Remembered, Reused, Chosen
  <2> QED
    BY <1>1, <2>2 DEF Images
<1> QED
  BY <1>2, <1>3, <1>4 DEF FrameInv

(* Displays are blanked and unblanked between rounds, when no frame is     *)
(* shown.                                                                  *)
LEMMA BlankFramed ==
  ASSUME ComposerInv, FrameInv, NEW d \in Displays, NEW ok \in BOOLEAN,
         hwc_blank(d) \/ hwc_unblank(d) \/ BlankDone(ok)
  PROVE  FrameInv'
<1>1. /\ phase \in {"idle", "blank"} /\ phase' \in {"idle", "blank"} /\ ready = {} /\ ready' = {}
      /\ UNCHANGED <<todo, scenario, frame, cache, modeOn, fbHandle>>
  BY DEF FrameInv, Rounds, hwc_blank, hwc_unblank, BlankDone, frameVars, sfVars
<1>2. list' = list \/ list' = [list EXCEPT ![d] = <<>>]
  BY DEF hwc_blank, hwc_unblank, BlankDone, frameVars
<1>3. active' \in [Displays -> BOOLEAN]
  <2>1. active \in [Displays -> BOOLEAN]
    BY DEF FrameInv, FrameTypes
  <2>2. CASE hwc_blank(d)
    BY <2>1, <2>2 DEF hwc_blank, dpyVars
  <2>3. CASE hwc_unblank(d)
    BY <2>1, <2>3 DEF hwc_unblank
  <2>4. CASE BlankDone(ok)
    BY <2>1, <2>4 DEF BlankDone
  <2> QED
    BY <2>2, <2>3, <2>4
<1>4. FrameTypes'
  <2>1. LayerList(<<>>)
    BY ListsPassed DEF FrameInv
  <2>2. DOMAIN list' = Displays /\ \A e \in Displays : LayerList(list'[e])
    BY <1>2, <2>1 DEF FrameInv, FrameTypes
  <2> QED
    BY <1>1, <1>3, <2>2 DEF FrameInv, FrameTypes
<1>5. Rounds' /\ GivenUp' /\ Frames'
  BY <1>1 DEF Rounds, GivenUp, Frames
<1>6. Images'
  <2>1. Remembered' /\ Reused' /\ ~Chosen'
    BY <1>1 DEF FrameInv, Images, Remembered, Reused, Chosen
  <2> QED
    BY <1>1, <2>1 DEF Images
<1> QED
  BY <1>4, <1>5, <1>6 DEF FrameInv

(* The external display comes, goes or is paused while it is not being     *)
(* prepared: at most its own frame is made anew, which is then one for     *)
(* SurfaceFlinger.                                                         *)
LEMMA UeventFramed ==
  ASSUME ComposerInv, FrameInv, Uevent
  PROVE  FrameInv'
<1> DEFINE E == DPY_EXTERNAL
           P == DPY_PRIMARY
<1>1. /\ Observed
      /\ UNCHANGED <<phase, at, todo, ready, scenario, list, fbHandle>>
  BY DEF Uevent, External_Online, External_Offline, External_Pause, External_Resume, sfVars,
         frameVars, NewObjects
<1>2. BookSame
  BY DEF Uevent, External_Online, External_Offline, External_Pause, External_Resume, ovVars, BookSame
<1>3. E \in Displays /\ P \in Displays /\ E # P
  BY TwoDisplays
<1>4. active' \in [Displays -> BOOLEAN] /\ active'[P] = active[P]
  BY <1>3 DEF Uevent, External_Online, External_Offline, External_Pause, External_Resume,
              FrameInv, FrameTypes
<1>5. \/ UNCHANGED <<frame, cache, modeOn>>
      \/ /\ frame' = [frame EXCEPT ![E] = Frame(0)]
         /\ cache' = [cache EXCEPT ![E] = NoCache]
         /\ modeOn' = [modeOn EXCEPT ![E] = FALSE]
  BY DEF Uevent, External_Online, External_Offline, External_Pause, External_Resume, frameVars,
         NewObjects
<1>6. /\ frame'[P] = frame[P] /\ cache'[P] = cache[P] /\ modeOn'[P] = modeOn[P]
      /\ \/ frame'[E] = Frame(0)
         \/ frame'[E] = frame[E] /\ cache'[E] = cache[E] /\ modeOn'[E] = modeOn[E]
  BY <1>3, <1>5 DEF FrameInv, FrameTypes
<1>7. FrameTypes'
  <2>1. Frame(0) \in FrameRecord
    BY <1>3, FrameFields DEF FrameInv, FrameTypes
  <2>2. frame' \in [Displays -> FrameRecord]
    BY <1>5, <2>1 DEF FrameInv, FrameTypes
  <2> QED
    BY <1>1, <1>4, <1>5, <2>2 DEF FrameInv, FrameTypes
<1>8. Rounds'
  BY <1>1, <1>2 DEF FrameInv, Rounds, BookSame
<1>9. GivenUp'
  BY <1>1, <1>3 DEF GivenUp, Observed
<1>10. Frames'
  <2> SUFFICES ASSUME NEW d \in ready PROVE FramePlaced(d)'
    BY <1>1 DEF Frames
  <2>1. d \in {P, E}
    BY TwoDisplays DEF FrameInv, FrameTypes
  <2>2. CASE frame'[d] = Frame(0)
    <3>1. Fallback(Frame(0))
      BY DEF Fallback, Frame
    <3> QED
      BY <2>2, <3>1 DEF FramePlaced
  <2>3. CASE frame'[d] # Frame(0)
    <3>1. frame'[d] = frame[d] /\ modeOn'[d] = modeOn[d]
      BY <1>6, <2>1, <2>3
    <3>2. FrameSame(d)
      BY <1>1, <3>1 DEF FrameSame, Pending, Passed
    <3> QED
      BY <1>2, <3>2, FrameStays DEF FrameInv
  <2> QED
    BY <2>2, <2>3
<1>11. Images'
  BY <1>1, <1>4, <1>6 DEF FrameInv, Images, Remembered, Reused, Chosen
<1> QED
  BY <1>7, <1>8, <1>9, <1>10, <1>11 DEF FrameInv

(* Nothing is shown at first.                                              *)
LEMMA FramesStart == Init => FrameInv
<1> SUFFICES ASSUME Init PROVE FrameInv
  OBVIOUS
<1>1. FrameTypes
  <2>1. LayerList(<<>>)
    <3>1. MaxLayers \in Nat
      BY ComposerAssumption
    <3>2. <<>> \in Seq(Layer) /\ Len(<<>>) = 0 /\ DOMAIN <<>> = {}
      OBVIOUS
    <3> QED
      BY <3>1, <3>2 DEF LayerList
  <2>2. Frame(0) \in FrameRecord
    <3>1. NoPipes \in [Targets -> Pipes \cup {OV_INVALID}]
      BY DEF NoPipes
    <3> QED
      BY <3>1 DEF Frame, FrameRecord
  <2>3. <<>> \in Seq(Ops)
    OBVIOUS
  <2> QED
    BY <2>1, <2>2, <2>3 DEF Init, FrameTypes
<1>2. Rounds /\ GivenUp /\ Frames
  BY DEF Init, Rounds, GivenUp, Frames
<1>3. Images
  BY TwoDisplays DEF Init, Images, Remembered, Reused, Chosen, NoCache
<1> QED
  BY <1>1, <1>2, <1>3 DEF FrameInv

(* When nothing of the composer changes, its frames do not.                *)
LEMMA FramesStill ==
  ASSUME FrameInv, UNCHANGED vars
  PROVE  FrameInv'
<1>1. /\ UNCHANGED <<phase, at, todo, ready, scenario, list, frame, cache, modeOn, fbHandle, active>>
      /\ BookSame
  BY DEF vars, ovVars, sfVars, frameVars, dpyVars, BookSame
<1>2. FrameTypes' /\ Rounds' /\ GivenUp'
  BY <1>1 DEF FrameInv, FrameTypes, Rounds, GivenUp, BookSame
<1>3. Frames'
  <2> SUFFICES ASSUME NEW d \in ready PROVE FramePlaced(d)'
    BY <1>1 DEF Frames
  <2>1. FrameSame(d)
    BY <1>1 DEF FrameSame, Pending, Passed
  <2> QED
    BY <1>1, <2>1, FrameStays DEF FrameInv
<1>4. Images'
  BY <1>1 DEF FrameInv, Images, Remembered, Reused, Chosen
<1> QED
  BY <1>2, <1>3, <1>4 DEF FrameInv

(* Every step of the composer keeps its frames right.                      *)
LEMMA FrameStep ==
  ComposerInv /\ FrameInv /\ [DisplayNext]_displayVars => FrameInv'
<1> SUFFICES ASSUME ComposerInv, FrameInv, [DisplayNext]_displayVars
             PROVE  FrameInv'
  OBVIOUS
<1>1. CASE UNCHANGED vars
  BY <1>1, FramesStill
<1>2. CASE Next
  <2>1. CASE hwc_prepare
    BY <2>1, BeginsFramed
  <2>2. ASSUME at \in Displays, NEW l \in {<<>>} \cup scenario[at], PassOver(l) PROVE FrameInv'
    BY <2>2, PassedOverFramed
  <2>3. ASSUME at \in Displays, NEW l \in {<<>>} \cup scenario[at],
               NEW same \in SUBSET (DOMAIN l), NEW geometry \in BOOLEAN,
               MDPComp_prepare(l, same, geometry)
        PROVE  FrameInv'
    BY <2>3, ChosenFramed
  <2>4. CASE GetPipe
    BY <2>4, GetPipeFramed
  <2>5. CASE CommitPipe
    BY <2>5, CommitPipeFramed
  <2>6. CASE Prepared
    BY <2>6, PreparedFramed
  <2>7. CASE PrepareDone
    BY <2>7, PrepareDoneFramed
  <2>8. CASE hwc_set_primary
    BY <2>8, SetPrimaryFramed
  <2>9. CASE hwc_set_external
    BY <2>9, SetExternalFramed
  <2>10. ASSUME NEW d \in Displays, NEW ok \in BOOLEAN,
                hwc_blank(d) \/ hwc_unblank(d) \/ BlankDone(ok)
         PROVE  FrameInv'
    BY <2>10, BlankFramed
  <2>11. CASE Uevent
    BY <2>11, UeventFramed
  <2>12. CASE Prepare
    BY <2>1, <2>2, <2>3, <2>4, <2>5, <2>6, <2>7, <2>12 DEF Prepare
  <2>13. DPY_PRIMARY \in Displays /\ TRUE \in BOOLEAN
    BY TwoDisplays
  <2> QED BY <1>2, <2>8, <2>9, <2>10, <2>11, <2>12, <2>13 DEF Next
<1> QED BY <1>1, <1>2 DEF DisplayNext, displayVars

(* A frame that MDPComp composes is shown as it is when it is set: every   *)
(* layer has its pipe or is in the framebuffer, no two share a pipe, the   *)
(* pipes the round has used for the display are exactly those that are     *)
(* queued a buffer, they stack as the list does, and an old framebuffer is *)
(* shown only while it is right; whatever the lists are, whichever commits *)
(* fail and whenever the external display comes and goes.                  *)
THEOREM FramesComplete == DisplaySpec => []FrameComplete
<1>1. DisplayInit => ComposerInv /\ FrameInv
  BY InitInv, FramesStart DEF DisplayInit, Init, ComposerInv, WorkInv
<1>2. ComposerInv /\ FrameInv => FrameComplete
  BY InvComplete DEF ComposerInv
<1>3. ComposerInv /\ [DisplayNext]_displayVars => ComposerInv'
  BY ComposerStep
<1> QED BY <1>1, <1>2, <1>3, FrameStep, PTL DEF DisplaySpec
-------------------------------------------------------------------------------
(* What copybit draws.  An address is a buffer's name or a temporary       *)
(* buffer's.                                                               *)
Address == STRING \cup {None, TempSrc, TempDst}
Blits == [surface : Surfaces, from : Address, to : Address, turn : Nat, turns : SUBSET Nat,
          late : BOOLEAN, dirty : BOOLEAN]
Temps == [size : Nat, good : BOOLEAN, holds : Address]
Context ==
  [override : BOOLEAN, async : BOOLEAN, created : SUBSET Surfaces, mapped : [Slots -> Address],
   counts : [Types -> Nat], list : Seq(Blits), points : [Surfaces -> Address],
   dstType : Types, temp : [{TempSrc, TempDst} -> Temps], turns : SUBSET Nat, trg : Nat,
   wait : BOOLEAN, stop : BOOLEAN, held : SUBSET Address, flight : SUBSET Address,
   failed : BOOLEAN, dirty : BOOLEAN, right : BOOLEAN]

(* The slots fill up from the first one.                                   *)
SlotCount == MaxSurfaces["RGB"] + MaxSurfaces["YUV2"] + MaxSurfaces["YUV3"] + 1
Filled(w, n) == n \in 0 .. SlotCount /\ \A i \in Slots : w.mapped[i] = None <=> n < i
Mapped(w) == {w.mapped[i] : i \in Slots} \ {None}
(* An address the device will not unmap before the list is drawn: one of a *)
(* slot, or one of any since there was no slot for it.                     *)
Stays(w, a) == a \in Mapped(w) \/ \A i \in Slots : w.mapped[i] # None

(* The fields that mapping a buffer leaves alone.                          *)
Kin(v, w) ==
  /\ v \in Context
  /\ v.override = w.override /\ v.async = w.async /\ v.created = w.created /\ v.counts = w.counts
  /\ v.list = w.list /\ v.dstType = w.dstType /\ v.turns = w.turns /\ v.trg = w.trg
  /\ v.wait = w.wait /\ v.stop = w.stop /\ v.flight = w.flight /\ v.failed = w.failed
  /\ v.dirty = w.dirty /\ v.right = w.right

(* There is a slot for every source surface and one for a destination.     *)
LEMMA SlotFacts == SlotCount \in Nat \ {0} /\ Slots = 1 .. SlotCount
<1>1. MaxSurfaces["RGB"] \in Nat \ {0} /\ MaxSurfaces["YUV2"] \in Nat \ {0} /\ MaxSurfaces["YUV3"] \in Nat \ {0}
  BY CopybitAssumption DEF Types
<1> QED
  BY <1>1 DEF Slots, SlotCount

(* No image lies at the address of a temporary buffer, or nowhere.         *)
LEMMA AddressFacts ==
  /\ {None, TempSrc, TempDst} \subseteq Address
  /\ None # TempSrc /\ None # TempDst /\ TempSrc # TempDst
  /\ \A i \in CbImage : i.buf \in Address \ {None, TempSrc, TempDst} /\ i.type \in Types /\ i.temp \in Nat
<1>1. None # TempSrc /\ None # TempDst /\ TempSrc # TempDst
  BY DEF None, TempSrc, TempDst
<1> QED
  BY <1>1 DEF Address, CbImage

(* Mapping a buffer.                                                       *)
Maps(m, w, a) ==
  /\ m \in [ok : BOOLEAN, idx : {0} \cup Slots, w : Context] /\ Kin(m.w, w)
  /\ m.w.points = w.points /\ m.w.temp = w.temp
  /\ w.held \ {a} \subseteq m.w.held /\ m.w.held \subseteq w.held \cup {a}
  /\ m.idx = 0 => m.w.mapped = w.mapped
  /\ m.idx # 0 => /\ m.ok /\ a \notin Mapped(w) /\ Filled(w, m.idx - 1)
                  /\ m.w.mapped = [w.mapped EXCEPT ![m.idx] = a]
  /\ m.ok => a \in m.w.held /\ Stays(m.w, a)
  /\ ~m.ok => m.w = w

(* The fields of the result of a call.                                     *)
LEMMA OkIdx ==
  ASSUME NEW v, NEW i
  PROVE  /\ Ok(v) \in [ok : {TRUE}, idx : {0}, w : {v}]
         /\ Fails(v) \in [ok : {FALSE}, idx : {0}, w : {v}]
         /\ [Ok(v) EXCEPT !.idx = i] \in [ok : {TRUE}, idx : {i}, w : {v}]
  BY DEF Ok, Fails

(* An address that is mapped takes the first free slot, unless it has one  *)
(* (c2d_get_gpuaddr).                                                      *)
LEMMA MapsOne ==
  ASSUME NEW w \in Context, NEW n, Filled(w, n), NEW a \in Address \ {None}, NEW fault \in BOOLEAN
  PROVE  Maps(c2d_get_gpuaddr(w, a, fault), w, a)
<1> DEFINE hits == {i \in Slots : w.mapped[i] \in {a, None}}
           first == CHOOSE i \in hits : \A j \in hits : i <= j
           held == [w EXCEPT !.held = @ \cup {a}]
<1>1. held \in Context /\ Kin(held, w) /\ held.points = w.points /\ held.temp = w.temp
      /\ held.mapped = w.mapped /\ held.held = w.held \cup {a}
  BY DEF Context, Kin
<1>2. CASE fault
  BY <1>2 DEF c2d_get_gpuaddr, Fails, Maps, Kin, Context
<1>3. CASE ~fault /\ hits = {}
  <2>1. \A i \in Slots : w.mapped[i] # None
    BY <1>3
  <2> HIDE DEF held, hits, first
  <2>2. c2d_get_gpuaddr(w, a, fault) = Ok(held)
    BY <1>3 DEF c2d_get_gpuaddr, held, hits, first
  <2> QED
    BY <1>1, <2>1, <2>2 DEF Ok, Maps, Stays
<1>4. CASE ~fault /\ hits # {}
  <2>1. hits \in SUBSET Nat
    BY SlotFacts
  <2>2. first \in hits /\ \A j \in hits : first <= j
    <3>1. Min(hits) \in hits /\ \A j \in hits : Min(hits) <= j
      BY <1>4, <2>1, LeastOf
    <3> HIDE DEF hits
    <3> QED
      BY <3>1
  <2>3. CASE w.mapped[first] = a
    <3>1. a \in Mapped(w)
      BY <2>2, <2>3 DEF Mapped
    <3>2. c2d_get_gpuaddr(w, a, fault) = Ok(held)
      BY <1>4, <2>3 DEF c2d_get_gpuaddr
    <3> HIDE DEF held, hits, first
    <3> QED
      BY <1>1, <3>1, <3>2 DEF Ok, Maps, Stays, Mapped
  <2>4. CASE w.mapped[first] # a
    <3>1. first \in Slots /\ w.mapped[first] = None
      BY <2>2, <2>4
    <3>2. n < first /\ first \in Nat /\ n \in Nat
      <4> HIDE DEF hits, first
      <4> QED
        BY <3>1, SlotFacts DEF Filled
    <3>3. first = n + 1
      <4>1. n + 1 \in Slots
        BY <3>1, <3>2, SlotFacts
      <4>2. n + 1 \in hits
        BY <4>1, <3>2 DEF Filled
      <4> QED
        BY <4>2, <2>2, <3>2
    <3>4. a \notin Mapped(w)
      <4>1. ASSUME NEW i \in Slots, w.mapped[i] = a PROVE FALSE
        <5>1. i \in hits
          BY <4>1
        <5>2. first <= i /\ i # first
          BY <5>1, <2>2, <4>1, <2>4
        <5>3. n < i
          BY <5>2, <3>3, <3>2, SlotFacts
        <5> QED
          BY <5>3, <4>1 DEF Filled
      <4> QED
        BY <4>1 DEF Mapped
    <3> DEFINE v == [held EXCEPT !.mapped[first] = a]
    <3>5. c2d_get_gpuaddr(w, a, fault) = [Ok(v) EXCEPT !.idx = first]
      BY <1>4, <2>4 DEF c2d_get_gpuaddr
    <3> HIDE DEF hits, first
    <3>6. v \in Context /\ Kin(v, w) /\ v.points = w.points /\ v.temp = w.temp
          /\ v.mapped = [w.mapped EXCEPT ![first] = a] /\ v.held = w.held \cup {a}
      BY <1>1, <3>1 DEF Context, Kin
    <3>7. a \in Mapped(v)
      <4> HIDE DEF v
      <4> QED
        BY <3>1, <3>6 DEF Mapped, Context
    <3>8. Filled(w, first - 1)
      BY <3>3, <3>2
    <3> HIDE DEF v, held
    <3>9. [Ok(v) EXCEPT !.idx = first] \in [ok : {TRUE}, idx : {first}, w : {v}]
      BY OkIdx
    <3>10. first # 0
      BY <3>2
    <3> QED
      BY <3>1, <3>4, <3>5, <3>6, <3>7, <3>8, <3>9, <3>10 DEF Maps, Stays
  <2> QED
    BY <2>3, <2>4
<1> QED
  BY <1>2, <1>3, <1>4

(* What unmap_gpuaddr takes back.                                          *)
LEMMA UnmapOne ==
  ASSUME NEW w \in Context, NEW i \in Slots
  PROVE  LET v == unmap_gpuaddr(w, i)
         IN /\ Kin(v, w) /\ v.points = w.points /\ v.temp = w.temp
            /\ v.held = w.held \ {w.mapped[i]} /\ v.mapped = [w.mapped EXCEPT ![i] = None]
<1> DEFINE v == [w EXCEPT !.held = @ \ {w.mapped[i]}, !.mapped[i] = None]
<1>1. unmap_gpuaddr(w, i) = v
  BY SlotFacts DEF unmap_gpuaddr
<1>2. v \in Context
  BY AddressFacts DEF Context
<1>3. v.points = w.points /\ v.temp = w.temp
      /\ v.held = w.held \ {w.mapped[i]} /\ v.mapped = [w.mapped EXCEPT ![i] = None]
  BY DEF Context
<1>4. Kin(v, w)
  BY <1>2 DEF Context, Kin
<1> QED
  BY <1>1, <1>3, <1>4

(* What a surface pointed at an address leaves of the device.              *)
Puts(m, w, s, a) ==
  /\ m \in [ok : BOOLEAN, idx : {0} \cup Slots, w : Context] /\ Kin(m.w, w)
  /\ w.held \ {a} \subseteq m.w.held /\ m.w.held \subseteq w.held \cup {a}
  /\ a \in w.held /\ Stays(w, a) => a \in m.w.held
  /\ m.idx = 0 => m.w.mapped = w.mapped
  /\ m.idx # 0 => /\ m.ok /\ a \notin Mapped(w) /\ Filled(w, m.idx - 1)
                  /\ m.w.mapped = [w.mapped EXCEPT ![m.idx] = a]
  /\ m.ok => a \in m.w.held /\ Stays(m.w, a) /\ m.w.points = [w.points EXCEPT ![s] = a]
  /\ ~m.ok => m.w.points = w.points /\ (a \in w.held \/ Stays(w, a) \/ a \notin m.w.held)

Sets(m, w, s, a) == Puts(m, w, s, a) /\ m.w.temp = w.temp

(* A surface is set to an address, or is left as it was (set_image).       *)
LEMMA SetsOne ==
  ASSUME NEW w \in Context, NEW n, Filled(w, n), NEW a \in Address \ {None},
         NEW s \in Surfaces, NEW mp \in BOOLEAN, NEW update \in BOOLEAN
  PROVE  Sets(set_image(w, s, a, mp, update), w, s, a)
<1> DEFINE m == c2d_get_gpuaddr(w, a, mp)
<1>1. Maps(m, w, a)
  BY MapsOne
<1> HIDE DEF m
<1>2. CASE ~m.ok
  <2>1. set_image(w, s, a, mp, update) = m
    BY <1>2 DEF set_image, m
  <2> QED
    BY <1>1, <1>2, <2>1 DEF Maps, Sets, Puts
<1>3. CASE m.ok /\ ~update
  <2> DEFINE r == [m EXCEPT !.w.points[s] = a]
  <2>1. set_image(w, s, a, mp, update) = r
    BY <1>3 DEF set_image, m
  <2>2. /\ r \in [ok : BOOLEAN, idx : {0} \cup Slots, w : Context] /\ r.ok = m.ok /\ r.idx = m.idx
        /\ Kin(r.w, m.w) /\ r.w.temp = m.w.temp /\ r.w.held = m.w.held /\ r.w.mapped = m.w.mapped
        /\ r.w.points = [m.w.points EXCEPT ![s] = a]
    <3>1. m \in [ok : BOOLEAN, idx : {0} \cup Slots, w : Context]
      BY <1>1 DEF Maps
    <3> DEFINE v == [m.w EXCEPT !.points[s] = a]
    <3>2. v \in Context /\ Kin(v, m.w) /\ v.temp = m.w.temp /\ v.held = m.w.held /\ v.mapped = m.w.mapped
          /\ v.points = [m.w.points EXCEPT ![s] = a]
      BY <3>1 DEF Context, Kin
    <3>3. r = [m EXCEPT !.w = v]
      BY <3>1
    <3> HIDE DEF v, r
    <3> QED
      BY <3>1, <3>2, <3>3
  <2> HIDE DEF r
  <2>3. Kin(r.w, w)
    BY <1>1, <2>2 DEF Maps, Kin
  <2>4. Stays(m.w, a) => Stays(r.w, a)
    BY <2>2 DEF Stays, Mapped
  <2> QED
    BY <1>1, <1>3, <2>1, <2>2, <2>3, <2>4 DEF Maps, Sets, Puts
<1>4. CASE m.ok /\ update
  <2> DEFINE v == unmap_gpuaddr(m.w, m.idx)
  <2>1. set_image(w, s, a, mp, update) = Fails(v)
    BY <1>4 DEF set_image, m
  <2>2. CASE m.idx = 0
    <3>1. v = m.w
      BY <2>2 DEF unmap_gpuaddr
    <3>2. Stays(m.w, a) => Stays(w, a)
      BY <1>1, <2>2 DEF Maps, Stays, Mapped
    <3>3. Fails(v) \in [ok : {FALSE}, idx : {0}, w : {m.w}]
      BY <3>1, OkIdx
    <3> HIDE DEF v
    <3> QED
      BY <1>1, <1>4, <2>1, <2>2, <3>2, <3>3 DEF Maps, Sets, Puts
  <2>3. CASE m.idx # 0
    <3>1. m.w \in Context /\ m.idx \in Slots
      BY <1>1, <2>3 DEF Maps
    <3>2. /\ Kin(v, m.w) /\ v.points = m.w.points /\ v.temp = m.w.temp
          /\ v.held = m.w.held \ {m.w.mapped[m.idx]} /\ v.mapped = [m.w.mapped EXCEPT ![m.idx] = None]
      BY <3>1, UnmapOne
    <3> HIDE DEF v
    <3>3. m.w.mapped = [w.mapped EXCEPT ![m.idx] = a] /\ a \notin Mapped(w) /\ Filled(w, m.idx - 1)
      BY <1>1, <2>3 DEF Maps
    <3>4. m.w.mapped[m.idx] = a /\ w.mapped[m.idx] = None
      BY <3>1, <3>3, SlotFacts DEF Context, Filled
    <3>5. v.mapped = w.mapped
      BY <3>1, <3>2, <3>3, <3>4 DEF Context
    <3>6. Kin(v, w)
      BY <1>1, <3>2 DEF Kin, Maps
    <3>7. ~Stays(w, a)
      BY <3>1, <3>3, <3>4 DEF Stays
    <3>8. Fails(v) \in [ok : {FALSE}, idx : {0}, w : {v}]
      BY OkIdx
    <3>9. v.points = w.points /\ v.temp = w.temp /\ a \notin v.held
          /\ w.held \ {a} \subseteq v.held /\ v.held \subseteq w.held
      BY <1>1, <3>2, <3>4 DEF Maps
    <3> QED
      BY <2>1, <3>5, <3>6, <3>7, <3>8, <3>9 DEF Sets, Puts, Kin
  <2> QED
    BY <2>2, <2>3
<1> QED
  BY <1>2, <1>3, <1>4

(* A device has one number of slots that are filled.                       *)
LEMMA FilledOnce ==
  ASSUME NEW w, NEW n, NEW k, Filled(w, n), Filled(w, k)
  PROVE  n = k
<1>1. n \in 0 .. SlotCount /\ k \in 0 .. SlotCount
  BY DEF Filled
<1>2. n < k => n + 1 \in Slots
  BY <1>1, SlotFacts
<1>3. k < n => k + 1 \in Slots
  BY <1>1, SlotFacts
<1> QED
  BY <1>1, <1>2, <1>3, SlotFacts DEF Filled

(* Every address that is kept stays mapped, and a new one takes the first  *)
(* free slot.                                                              *)
Survives(v, w) == \A b : b \in w.held /\ Stays(w, b) => b \in v.held /\ Stays(v, b)

(* What is kept is kept when another address is mapped.                    *)
LEMMA PutsSurvive ==
  ASSUME NEW w \in Context, NEW n, Filled(w, n),
         NEW m, NEW s, NEW a \in Address \ {None}, Puts(m, w, s, a)
  PROVE  /\ Survives(m.w, w)
         /\ m.idx = 0 => Filled(m.w, n)
         /\ m.idx # 0 => m.idx = n + 1 /\ m.idx \in Slots /\ Filled(m.w, n + 1)
                         /\ Mapped(m.w) = Mapped(w) \cup {a}
<1>1. CASE m.idx = 0
  <2>1. m.w.mapped = w.mapped
    BY <1>1 DEF Puts
  <2>2. \A b : Stays(w, b) => Stays(m.w, b)
    BY <2>1 DEF Stays, Mapped
  <2>3. Filled(m.w, n)
    BY <2>1 DEF Filled
  <2> QED
    BY <1>1, <2>2, <2>3 DEF Puts, Survives
<1>2. CASE m.idx # 0
  <2>1. /\ m.ok /\ a \notin Mapped(w) /\ Filled(w, m.idx - 1) /\ m.idx \in Slots
        /\ m.w.mapped = [w.mapped EXCEPT ![m.idx] = a]
    BY <1>2 DEF Puts
  <2>2. m.idx = n + 1 /\ n \in Nat
    <3>1. m.idx - 1 = n
      BY <2>1, FilledOnce
    <3> QED
      BY <3>1, <2>1, SlotFacts DEF Filled
  <2>3. w.mapped[m.idx] = None
    BY <2>1, <2>2, SlotFacts DEF Filled
  <2>4. w.mapped \in [Slots -> Address]
    BY DEF Context
  <2>5. Mapped(m.w) = Mapped(w) \cup {a}
    <3>1. \A i \in Slots : m.w.mapped[i] = IF i = m.idx THEN a ELSE w.mapped[i]
      BY <2>1, <2>4
    <3> QED
      BY <2>1, <2>3, <3>1 DEF Mapped
  <2>6. Filled(m.w, n + 1)
    <3>1. \A i \in Slots : m.w.mapped[i] = IF i = m.idx THEN a ELSE w.mapped[i]
      BY <2>1, <2>4
    <3> QED
      BY <2>1, <2>2, <3>1, SlotFacts DEF Filled
  <2>7. \A b : Stays(w, b) => b \in Mapped(w)
    BY <2>1, <2>3 DEF Stays
  <2> QED
    BY <1>2, <2>1, <2>2, <2>5, <2>6, <2>7 DEF Puts, Survives, Stays
<1> QED
  BY <1>1, <1>2
-------------------------------------------------------------------------------
(* A blit that waits to be drawn is right as long as its addresses are     *)
(* kept and its surface is not set to another image: its surface is one of *)
(* the blits counted so far.                                               *)
Own(w, b) == \E t \in Types, k \in Nat : /\ b.surface = <<t, k>> /\ b.surface \in Surfaces
                                         /\ 1 <= k /\ k <= w.counts[t]
Ready(w, b) ==
  /\ BlitRight(w, b) /\ Own(w, b)
  /\ Stays(w, w.points[b.surface]) /\ Stays(w, b.to)
Waiting(w, b) == \E i \in DOMAIN w.list : b = w.list[i] /\ ~Excused(w, b)
Good(w) ==
  /\ w \in Context /\ w.right
  /\ \E n : Filled(w, n)
  /\ \A t \in Types : w.counts[t] <= MaxSurfaces[t]
  /\ Len(w.list) <= MaxBlits
  /\ \A b : Waiting(w, b) => Ready(w, b)
Settled(w) == \A b : Waiting(w, b) => w.points[b.surface] # TempSrc
Addr(d) == IF d.temp = 0 THEN d.buf ELSE TempDst
Towards(w, d) == \A b : Waiting(w, b) => b.to = Addr(d)
Over(w) == w.list = <<>> \/ w.failed

(* Nothing waits in a list that is empty or was left behind.               *)
LEMMA OverWaits ==
  ASSUME NEW w, Over(w)
  PROVE  \A b : ~Waiting(w, b)
  BY DEF Over, Waiting, Excused

(* What is waited for is waited for after a map, too.                      *)
LEMMA KinWaits ==
  ASSUME NEW w, NEW v, Kin(v, w)
  PROVE  \A b : Waiting(v, b) <=> Waiting(w, b)
  BY DEF Kin, Waiting, Excused

(* A surface is set, and what is drawn from others stays right.            *)
LEMMA ReadyKept ==
  ASSUME NEW w \in Context, NEW v, Kin(v, w), NEW b, Ready(w, b),
         w.points[b.surface] # TempSrc, Survives(v, w),
         v.points[b.surface] = w.points[b.surface],
         v.points[<<w.dstType, 0>>] = w.points[<<w.dstType, 0>>]
  PROVE  Ready(v, b)
<1>1. /\ Holds(w, w.points[b.surface]) = b.from /\ w.points[<<w.dstType, 0>>] = b.to
      /\ w.points[b.surface] \in w.held /\ b.to \in w.held
  BY DEF Ready, BlitRight
<1>2. v.dstType = w.dstType /\ v.override = w.override /\ v.trg = w.trg /\ v.counts = w.counts
  BY DEF Kin
<1>3. Holds(v, v.points[b.surface]) = b.from
  BY <1>1 DEF Holds
<1>4. /\ v.points[b.surface] \in v.held /\ b.to \in v.held
      /\ Stays(v, v.points[b.surface]) /\ Stays(v, b.to)
  BY <1>1 DEF Ready, Survives
<1>5. BlitRight(v, b)
  BY <1>1, <1>2, <1>3, <1>4 DEF Ready, BlitRight
<1> QED
  BY <1>2, <1>4, <1>5 DEF Ready, Own
(* Kin of a good device whose waiting blits stay ready is good.            *)
LEMMA KinGood ==
  ASSUME NEW w, Good(w), NEW v, Kin(v, w), NEW n, Filled(v, n),
         \A b : Waiting(w, b) => Ready(v, b)
  PROVE  Good(v)
<1>1. \A b : Waiting(v, b) => Ready(v, b)
  BY KinWaits
<1> QED
  BY <1>1 DEF Kin, Good

(* A temporary buffer that is made anew or filled.                         *)
Temped(u, w) == Kin(u, w) /\ u.points = w.points /\ u.mapped = w.mapped /\ u.held = w.held

(* Making or filling a temporary buffer takes nothing from the list.       *)
LEMMA TempedGood ==
  ASSUME NEW w, Good(w), Settled(w), NEW u, Temped(u, w)
  PROVE  Good(u) /\ Settled(u) /\ Survives(u, w)
<1>1. Survives(u, w)
  BY DEF Temped, Survives, Stays, Mapped
<1>2. ASSUME NEW b, Waiting(w, b) PROVE Ready(u, b)
  BY <1>1, <1>2, ReadyKept DEF Temped, Good, Settled
<1>3. PICK n : Filled(w, n)
  BY DEF Good
<1>4. Filled(u, n)
  BY <1>3 DEF Filled, Temped
<1>5. Good(u)
  BY <1>2, <1>4, KinGood DEF Temped
<1> QED
  BY <1>1, <1>5, KinWaits DEF Settled, Temped

(* The destination's surface.  If its buffer was not mapped yet, no blit   *)
(* waits for it.                                                           *)
LEMMA DestinationSet ==
  ASSUME NEW w, Good(w), Settled(w), NEW d \in CbImage, Towards(w, d), w.dstType = d.type,
         NEW m, Puts(m, w, <<d.type, 0>>, Addr(d))
  PROVE  /\ Good(m.w) /\ Settled(m.w) /\ Towards(m.w, d) /\ Survives(m.w, w)
         /\ m.idx # 0 => \A b : ~Waiting(w, b)
<1> DEFINE a == Addr(d)
<1>1. a \in Address \ {None} /\ <<d.type, 0>> \in Surfaces
  <2>1. 0 \in 0 .. MaxSurfaces[d.type] /\ d.type \in Types
    BY AddressFacts, CopybitAssumption
  <2> QED
    BY <2>1, AddressFacts DEF Addr, Surfaces
<1>2. PICK n : Filled(w, n)
  BY DEF Good
<1>3. Survives(m.w, w) /\ \E k : Filled(m.w, k)
  BY <1>1, <1>2, PutsSurvive DEF Good
<1>4. ASSUME NEW b, Waiting(w, b)
      PROVE  m.idx = 0 /\ Ready(m.w, b) /\ m.w.points[b.surface] = w.points[b.surface]
  <2>1. Ready(w, b) /\ b.to = a /\ w.points[b.surface] # TempSrc
    BY <1>4 DEF Good, Settled, Towards
  <2>2. w.points[<<w.dstType, 0>>] = a /\ Stays(w, a)
    BY <2>1 DEF Ready, BlitRight
  <2>3. m.idx = 0
    <3>1. SUFFICES ASSUME m.idx # 0 PROVE FALSE
      BY DEF Puts
    <3>2. a \notin Mapped(w) /\ Filled(w, m.idx - 1) /\ m.idx \in Slots
      BY <3>1 DEF Puts
    <3>3. w.mapped[m.idx] = None
      BY <3>2, SlotFacts DEF Filled
    <3> QED
      BY <2>2, <3>2, <3>3 DEF Stays
  <2>4. b.surface # <<d.type, 0>>
    BY <2>1 DEF Ready, Own
  <2>5. w.points \in [Surfaces -> Address]
    BY DEF Good, Context
  <2>6. m.w.points[b.surface] = w.points[b.surface] /\ m.w.points[<<d.type, 0>>] = w.points[<<d.type, 0>>]
    <3>1. CASE m.ok
      <4>1. m.w.points = [w.points EXCEPT ![<<d.type, 0>>] = a]
        BY <3>1 DEF Puts
      <4>2. w.points[<<d.type, 0>>] = a
        BY <2>2
      <4> HIDE DEF a
      <4> QED
        BY <4>1, <4>2, <2>4, <2>5, <1>1
    <3>2. CASE ~m.ok
      BY <3>2 DEF Puts
    <3> QED
      BY <3>1, <3>2
  <2>7. Ready(m.w, b)
    <3>1. Kin(m.w, w)
      BY DEF Puts
    <3> QED
      BY <3>1, <2>1, <2>6, <1>3, ReadyKept DEF Good
  <2> QED
    BY <2>3, <2>6, <2>7
<1>5. Good(m.w)
  BY <1>3, <1>4, KinGood DEF Puts
<1>6. Settled(m.w) /\ Towards(m.w, d)
  BY <1>4, KinWaits DEF Puts, Settled, Towards
<1> QED
  BY <1>3, <1>4, <1>5, <1>6

(* The surface of a new blit: no other blit has it.                        *)
LEMMA SourceSet ==
  ASSUME NEW w, Good(w), Settled(w), NEW t \in Types, w.counts[t] < MaxSurfaces[t],
         NEW a \in Address \ {None}, NEW m, Puts(m, w, <<t, w.counts[t] + 1>>, a)
  PROVE  /\ Good(m.w) /\ Settled(m.w) /\ Survives(m.w, w) /\ <<t, w.counts[t] + 1>> \in Surfaces
         /\ \A b : Waiting(w, b) =>
              /\ m.w.points[b.surface] = w.points[b.surface]
              /\ m.w.points[<<w.dstType, 0>>] = w.points[<<w.dstType, 0>>]
<1> DEFINE s == <<t, w.counts[t] + 1>>
<1>1. w.counts \in [Types -> Nat] /\ MaxSurfaces[t] \in Nat
  BY CopybitAssumption DEF Good, Context
<1>2. s \in Surfaces
  <2>1. w.counts[t] + 1 \in 0 .. MaxSurfaces[t]
    BY <1>1
  <2> QED
    BY <2>1 DEF Surfaces
<1>3. Survives(m.w, w) /\ \E k : Filled(m.w, k)
  BY PutsSurvive DEF Good
<1>4. ASSUME NEW b, Waiting(w, b)
      PROVE  /\ Ready(m.w, b) /\ m.w.points[b.surface] = w.points[b.surface]
             /\ m.w.points[<<w.dstType, 0>>] = w.points[<<w.dstType, 0>>]
  <2>1. Ready(w, b) /\ w.points[b.surface] # TempSrc
    BY <1>4 DEF Good, Settled
  <2>2. b.surface # s
    BY <2>1, <1>1 DEF Ready, Own
  <2>3. <<w.dstType, 0>> # s
    BY <1>1
  <2>4. w.points \in [Surfaces -> Address]
    BY DEF Good, Context
  <2>5. /\ m.w.points[b.surface] = w.points[b.surface]
        /\ m.w.points[<<w.dstType, 0>>] = w.points[<<w.dstType, 0>>]
    <3>1. CASE m.ok
      <4>1. m.w.points = [w.points EXCEPT ![s] = a]
        BY <3>1 DEF Puts
      <4>2. <<w.dstType, 0>> \in Surfaces /\ b.surface \in Surfaces
        <5>1. w.dstType \in Types /\ MaxSurfaces[w.dstType] \in Nat
          BY CopybitAssumption DEF Good, Context
        <5>2. 0 \in 0 .. MaxSurfaces[w.dstType]
          BY <5>1
        <5> QED
          BY <5>1, <5>2, <2>1 DEF Surfaces, Ready, Own
      <4> HIDE DEF s
      <4> QED
        BY <4>1, <4>2, <2>2, <2>3, <2>4
    <3>2. CASE ~m.ok
      BY <3>2 DEF Puts
    <3> QED
      BY <3>1, <3>2
  <2>6. Ready(m.w, b)
    <3>1. Kin(m.w, w)
      BY DEF Puts
    <3> QED
      BY <3>1, <2>1, <2>5, <1>3, ReadyKept DEF Good
  <2> QED
    BY <2>5, <2>6
<1>5. Good(m.w)
  BY <1>3, <1>4, KinGood DEF Puts
<1>6. Settled(m.w)
  BY <1>4, KinWaits DEF Puts, Settled
<1> QED
  BY <1>2, <1>3, <1>4, <1>5, <1>6
(* Drawing the list, and what it leaves.                                   *)
Painted(v, w) ==
  /\ v \in Context
  /\ v.override = w.override /\ v.dstType = w.dstType /\ v.turns = w.turns /\ v.trg = w.trg
  /\ v.dirty = w.dirty /\ v.temp = w.temp
Emptied(v, w) ==
  /\ v.list = <<>> /\ ~v.failed /\ v.flight = {} /\ v.counts = [t \in Types |-> 0]
  /\ v.mapped = [i \in Slots |-> None] /\ v.held \subseteq w.held \ Mapped(w)
Left(v, w) ==
  /\ v.failed /\ v.list = w.list /\ v.counts = w.counts
  /\ v.mapped = w.mapped /\ v.held = w.held /\ v.points = w.points
  /\ v.flight \subseteq w.flight \cup w.held

(* Drawing a good list leaves `right' as it was (msm_copybit).             *)
LEMMA ListDrawn ==
  ASSUME NEW w, Good(w)
  PROVE  LET v == msm_copybit(w)
         IN /\ Good(v) /\ Painted(v, w) /\ v.list = w.list /\ v.failed = w.failed
            /\ v.counts = w.counts /\ v.mapped = w.mapped /\ v.held = w.held
            /\ v.points = w.points /\ v.wait = w.wait /\ v.flight \subseteq w.flight \cup w.held
<1> DEFINE F == w.flight \cup (w.held \cap ({w.points[w.list[i].surface] : i \in DOMAIN w.list}
                                            \cup {w.points[<<w.dstType, 0>>]}))
           R == \A i \in DOMAIN w.list : Excused(w, w.list[i]) \/ BlitRight(w, w.list[i])
           v == [w EXCEPT !.flight = F, !.right = @ /\ R]
<1>1. w \in Context /\ w.right /\ R
  <2>1. \A i \in DOMAIN w.list : Excused(w, w.list[i]) \/ Ready(w, w.list[i])
    BY DEF Good, Waiting
  <2> QED
    BY <2>1 DEF Good, Ready
<1>2. CASE w.list = <<>>
  BY <1>2 DEF msm_copybit, Painted, Good
<1>3. CASE w.list # <<>>
  <2>1. msm_copybit(w) = v
    BY <1>3, Zenon DEF msm_copybit
  <2>2. F \in SUBSET Address
    BY <1>1 DEF Context
  <2> HIDE DEF F, R
  <2>3. /\ v \in Context /\ v.right = (w.right /\ R) /\ v.flight = F
        /\ v.override = w.override /\ v.dstType = w.dstType /\ v.turns = w.turns /\ v.trg = w.trg
        /\ v.dirty = w.dirty /\ v.temp = w.temp /\ v.list = w.list /\ v.failed = w.failed
        /\ v.counts = w.counts /\ v.mapped = w.mapped /\ v.held = w.held
        /\ v.points = w.points /\ v.wait = w.wait
    BY <1>1, <2>2 DEF Context
  <2> HIDE DEF v
  <2>4. ASSUME NEW b, Ready(w, b) PROVE Ready(v, b)
    BY <2>3, <2>4 DEF Ready, BlitRight, Own, Stays, Mapped, Holds
  <2>5. \A b : Waiting(v, b) => Waiting(w, b)
    BY <2>3 DEF Waiting, Excused
  <2>6. \A n : Filled(w, n) => Filled(v, n)
    BY <2>3 DEF Filled
  <2>7. Good(v)
    BY <1>1, <2>3, <2>4, <2>5, <2>6 DEF Good
  <2>8. v.flight \subseteq w.flight \cup w.held
    BY <2>3 DEF F
  <2> QED
    BY <2>1, <2>3, <2>7, <2>8 DEF Painted
<1> QED
  BY <1>2, <1>3

(* Nothing is mapped and nothing waits after a finish.                     *)
LEMMA AllUnmapped ==
  ASSUME NEW w \in Context, w.right
  PROVE  LET v == UnmapAll([w EXCEPT !.flight = {}])
         IN Good(v) /\ Painted(v, w) /\ Emptied(v, w) /\ v.wait = w.wait
<1> DEFINE u == [w EXCEPT !.flight = {}]
           v == UnmapAll(u)
<1>1. /\ u \in Context /\ u.mapped = w.mapped /\ u.held = w.held /\ u.flight = {}
      /\ u.right /\ Painted(u, w) /\ u.wait = w.wait
  BY DEF Context, Painted
<1> HIDE DEF u
<1>2. <<>> \in Seq(Blits)
  OBVIOUS
<1>3. /\ v \in Context /\ v.right = u.right /\ Painted(v, u) /\ v.wait = u.wait
      /\ v.list = <<>> /\ ~v.failed /\ v.flight = u.flight /\ v.counts = [t \in Types |-> 0]
      /\ v.mapped = [i \in Slots |-> None] /\ v.held = u.held \ {u.mapped[i] : i \in Slots}
  BY <1>1, <1>2, AddressFacts DEF UnmapAll, Context, Painted
<1> HIDE DEF v
<1>4. Filled(v, 0)
  BY <1>3, SlotFacts DEF Filled
<1>5. \A t \in Types : v.counts[t] <= MaxSurfaces[t]
  BY <1>3, CopybitAssumption
<1>6. Len(v.list) <= MaxBlits
  BY <1>3, CopybitAssumption
<1>7. \A b : ~Waiting(v, b)
  BY <1>3 DEF Waiting
<1>8. Good(v)
  BY <1>1, <1>3, <1>4, <1>5, <1>6, <1>7 DEF Good
<1>9. Painted(v, w) /\ Emptied(v, w) /\ v.wait = w.wait
  BY <1>1, <1>3 DEF Emptied, Painted, Mapped
<1> QED
  BY <1>8, <1>9 DEF v, u

(* A finish, however it goes: a failing one keeps the list.                *)
LEMMA Finishes ==
  ASSUME NEW w, Good(w), NEW fault
  PROVE  LET v == finish_copybit_internal(w, fault)
         IN /\ Good(v) /\ Over(v) /\ Painted(v, w) /\ v.wait = w.wait
            /\ Emptied(v, w) \/ (fault = "finish" /\ Left(v, w))
<1> DEFINE d == IF fault = "draw" THEN w ELSE msm_copybit(w)
<1>1. /\ Good(d) /\ Painted(d, w) /\ d.list = w.list /\ d.failed = w.failed
      /\ d.counts = w.counts /\ d.mapped = w.mapped /\ d.held = w.held
      /\ d.points = w.points /\ d.wait = w.wait /\ d.flight \subseteq w.flight \cup w.held
  <2>1. CASE fault = "draw"
    BY <2>1 DEF Painted, Good
  <2>2. CASE fault # "draw"
    BY <2>2, ListDrawn
  <2> QED
    BY <2>1, <2>2
<1> HIDE DEF d
<1>2. CASE fault = "finish"
  <2> DEFINE v == [d EXCEPT !.failed = TRUE]
  <2>1. d \in Context
    BY <1>1 DEF Good
  <2>2. /\ v \in Context /\ v.failed /\ Painted(v, d) /\ v.list = d.list /\ v.counts = d.counts
        /\ v.mapped = d.mapped /\ v.held = d.held /\ v.points = d.points /\ v.wait = d.wait
        /\ v.flight = d.flight /\ v.right = d.right
    BY <2>1 DEF Context, Painted
  <2>3. finish_copybit_internal(w, fault) = v
    BY <1>2 DEF finish_copybit_internal, d
  <2> HIDE DEF v
  <2>4. \A n : Filled(d, n) => Filled(v, n)
    BY <2>2 DEF Filled
  <2>5. Over(v) /\ \A b : ~Waiting(v, b)
    BY <2>2, OverWaits DEF Over
  <2>6. Good(v)
    BY <1>1, <2>2, <2>4, <2>5 DEF Good
  <2> QED
    BY <1>1, <1>2, <2>2, <2>3, <2>5, <2>6 DEF Painted, Left
<1>3. CASE fault # "finish"
  <2> DEFINE v == UnmapAll([d EXCEPT !.flight = {}])
  <2>1. Good(v) /\ Painted(v, d) /\ Emptied(v, d) /\ v.wait = d.wait
    BY <1>1, AllUnmapped DEF Good
  <2>2. finish_copybit_internal(w, fault) = v
    BY <1>3 DEF finish_copybit_internal, d
  <2> HIDE DEF v
  <2> QED
    BY <1>1, <2>1, <2>2 DEF Painted, Emptied, Over, Mapped
<1> QED
  BY <1>2, <1>3
-------------------------------------------------------------------------------
(* A clip is added to the list; one that meets a full list is late.        *)
Listing(v, w) ==
  /\ v.counts = w.counts /\ v.mapped = w.mapped /\ v.held = w.held /\ v.points = w.points
  /\ v.failed = w.failed /\ v.flight = w.flight
Drained(v, w) ==
  /\ ~v.failed /\ v.flight = {} /\ v.counts = [t \in Types |-> 0]
  /\ v.mapped = [i \in Slots |-> None] /\ v.held \subseteq w.held \ Mapped(w)
  /\ \A b : ~Waiting(v, b)

(* A blit that is ready, or late, is appended.                             *)
LEMMA ListedOne ==
  ASSUME NEW w, Good(w), Len(w.list) < MaxBlits, NEW e \in Blits, e.late \/ Ready(w, e)
  PROVE  LET v == [w EXCEPT !.list = Append(@, e)]
         IN /\ Good(v) /\ Painted(v, w) /\ v.wait = w.wait /\ Listing(v, w)
            /\ v.list # <<>> /\ LastLate(v) = e.late
            /\ \A b : Waiting(v, b) => Waiting(w, b) \/ (b = e /\ ~e.late)
<1> DEFINE v == [w EXCEPT !.list = Append(@, e)]
<1>1. w \in Context /\ w.right /\ w.list \in Seq(Blits)
  BY DEF Good, Context
<1>2. Append(w.list, e) \in Seq(Blits)
  BY <1>1
<1>3. /\ v \in Context /\ v.right /\ Painted(v, w) /\ v.wait = w.wait /\ Listing(v, w)
      /\ v.list = Append(w.list, e)
  BY <1>1, <1>2 DEF Context, Painted, Listing
<1> HIDE DEF v
<1>4. /\ Len(v.list) = Len(w.list) + 1 /\ v.list[Len(w.list) + 1] = e
      /\ \A i \in 1 .. Len(w.list) : v.list[i] = w.list[i]
      /\ DOMAIN v.list = 1 .. Len(w.list) + 1 /\ DOMAIN w.list = 1 .. Len(w.list)
  BY <1>1, <1>3
<1>5. v.list # <<>> /\ LastLate(v) = e.late
  BY <1>1, <1>4 DEF LastLate
<1>6. \A b : Waiting(v, b) => Waiting(w, b) \/ (b = e /\ ~e.late)
  <2> SUFFICES ASSUME NEW b, Waiting(v, b) PROVE Waiting(w, b) \/ (b = e /\ ~e.late)
    OBVIOUS
  <2>1. PICK i \in DOMAIN v.list : b = v.list[i] /\ ~v.failed /\ ~b.late
    BY DEF Waiting, Excused
  <2>2. CASE i = Len(w.list) + 1
    BY <1>4, <2>1, <2>2
  <2>3. CASE i # Len(w.list) + 1
    <3>1. i \in 1 .. Len(w.list)
      BY <1>4, <1>1, <2>1, <2>3
    <3>2. i \in DOMAIN w.list /\ b = w.list[i] /\ ~w.failed
      BY <3>1, <1>3, <1>4, <2>1 DEF Listing
    <3> QED
      BY <3>2, <2>1 DEF Waiting, Excused
  <2> QED
    BY <2>2, <2>3
<1>7. ASSUME NEW b, Ready(w, b) PROVE Ready(v, b)
  BY <1>3, <1>7 DEF Ready, BlitRight, Own, Stays, Mapped, Holds, Painted, Listing
<1>8. \A n : Filled(w, n) => Filled(v, n)
  BY <1>3 DEF Filled, Listing
<1>9. Len(v.list) <= MaxBlits
  BY <1>1, <1>4, CopybitAssumption
<1>10. Good(v)
  BY <1>3, <1>6, <1>7, <1>8, <1>9 DEF Good, Listing
<1> QED
  BY <1>3, <1>5, <1>6, <1>10 DEF v

(* A clip is appended; a full list is drawn first (Append_).               *)
LEMMA AppendGood ==
  ASSUME NEW w, Good(w), NEW b \in Blits, b.late \/ Ready(w, b)
  PROVE  LET v == Append_(w, b)
         IN /\ Good(v) /\ Painted(v, w) /\ v.wait = w.wait /\ v.list # <<>>
            /\ \/ /\ Listing(v, w) /\ LastLate(v) = b.late
                  /\ \A c : Waiting(v, c) =>
                       Waiting(w, c) \/ (~b.late /\ c.surface = b.surface /\ c.to = b.to)
               \/ Drained(v, w) /\ LastLate(v) = TRUE
<1> DEFINE full == Len(w.list) = MaxBlits
           room == IF full THEN finish_copybit_internal(w, "none") ELSE w
           e == [b EXCEPT !.late = @ \/ full]
           v == [room EXCEPT !.list = Append(@, e)]
<1>1. Append_(w, b) = v
  BY DEF Append_
<1>2. /\ e \in Blits /\ e.surface = b.surface /\ e.to = b.to /\ e.from = b.from /\ e.turn = b.turn
      /\ e.turns = b.turns /\ e.dirty = b.dirty /\ e.late = (b.late \/ full)
  BY DEF Blits
<1>3. Ready(w, b) => Ready(w, e)
  <2> HIDE DEF e
  <2> QED
    BY <1>2 DEF Ready, BlitRight, Own
<1>4. CASE full
  <2>1. Good(room) /\ Painted(room, w) /\ room.wait = w.wait /\ Emptied(room, w)
    BY <1>4, Finishes
  <2> HIDE DEF room, e
  <2>2. e.late /\ Len(room.list) < MaxBlits
    <3>1. e.late = TRUE
      BY <1>2, <1>4
    <3>2. Len(room.list) = 0
      BY <2>1 DEF Emptied
    <3> QED
      BY <3>1, <3>2, CopybitAssumption
  <2>3. /\ Good(v) /\ Painted(v, room) /\ v.wait = room.wait /\ Listing(v, room)
        /\ v.list # <<>> /\ LastLate(v) = TRUE
        /\ \A c : Waiting(v, c) => Waiting(room, c)
    BY <1>2, <2>1, <2>2, ListedOne
  <2> HIDE DEF v
  <2>4. \A c : ~Waiting(v, c)
    BY <2>1, <2>3, OverWaits DEF Emptied, Over
  <2>5. Drained(v, w)
    BY <2>1, <2>3, <2>4 DEF Drained, Emptied, Listing
  <2> QED
    BY <1>1, <2>1, <2>3, <2>5 DEF Painted
<1>5. CASE ~full
  <2>1. Len(w.list) < MaxBlits
    <3>1. w.list \in Seq(Blits) /\ Len(w.list) <= MaxBlits
      BY DEF Good, Context
    <3> QED
      BY <3>1, <1>5, CopybitAssumption
  <2>2. room = w /\ e.late = b.late
    BY <1>2, <1>5 DEF Blits
  <2> DEFINE u == [w EXCEPT !.list = Append(@, e)]
  <2>4. v = u
    BY <2>2
  <2> HIDE DEF room, e, v
  <2>5. e \in Blits /\ (e.late \/ Ready(w, e))
    BY <1>2, <1>3, <2>2
  <2>6. /\ Good(u) /\ Painted(u, w) /\ u.wait = w.wait /\ Listing(u, w)
        /\ u.list # <<>> /\ LastLate(u) = e.late
        /\ \A c : Waiting(u, c) => Waiting(w, c) \/ (c = e /\ ~e.late)
    BY <2>1, <2>5, ListedOne
  <2> HIDE DEF u
  <2>3. /\ Good(v) /\ Painted(v, w) /\ v.wait = w.wait /\ Listing(v, w)
        /\ v.list # <<>> /\ LastLate(v) = e.late
        /\ \A c : Waiting(v, c) => Waiting(w, c) \/ (c = e /\ ~e.late)
    BY <2>4, <2>6
  <2> QED
    BY <1>1, <1>2, <2>2, <2>3
<1> QED
  BY <1>4, <1>5

(* So with all the clips of a layer.                                       *)
LEMMA ClipsGood ==
  ASSUME NEW w, Good(w), NEW b \in Blits, ~b.late, Ready(w, b), NEW n \in Nat
  PROVE  LET v == Clips(w, b, n)
         IN /\ Good(v) /\ Painted(v, w) /\ v.wait = w.wait
            /\ \/ /\ Listing(v, w)
                  /\ \A c : Waiting(v, c) =>
                       Waiting(w, c) \/ (c.surface = b.surface /\ c.to = b.to)
               \/ Drained(v, w)
<1> DEFINE C == CHOOSE F : F = [i \in 0 .. n |-> Clipped(w, b, F, i)]
           Fair(v) == /\ Listing(v, w) /\ Ready(v, b)
                      /\ \A c : Waiting(v, c) =>
                           Waiting(w, c) \/ (c.surface = b.surface /\ c.to = b.to)
           P(v, k) == /\ Good(v) /\ Painted(v, w) /\ v.wait = w.wait
                      /\ \/ Fair(v) /\ (k > 0 => LastLate(v) = FALSE)
                         \/ k > 0 /\ LastLate(v) = TRUE /\ Drained(v, w)
<1>1. Clips(w, b, n) = C[n]
  BY DEF Clips, Clipped
<1>2. C = [i \in 0 .. n |-> Clipped(w, b, C, i)]
  BY ClipsExist
<1> HIDE DEF C
<1>3. \A i \in 0 .. n : C[i] = Clipped(w, b, C, i)
  BY <1>2
<1> DEFINE S == {k \in Nat : k <= n => P(C[k], k)}
<1>4. 0 \in S
  <2>1. C[0] = Clipped(w, b, C, 0)
    BY <1>3
  <2>2. C[0] = w
    BY <2>1 DEF Clipped
  <2>3. P(w, 0)
    BY DEF Painted, Listing, Good
  <2> HIDE DEF P
  <2> QED
    BY <2>2, <2>3
<1>5. ASSUME NEW k \in Nat, k \in S PROVE k + 1 \in S
  <2> HIDE DEF P
  <2> SUFFICES ASSUME k + 1 <= n PROVE P(C[k + 1], k + 1)
    OBVIOUS
  <2>11. P(C[k], k)
    BY <1>5
  <2> USE DEF P
  <2> DEFINE u == C[k]
             late == k + 1 > 1 /\ LastLate(u)
             e == [b EXCEPT !.late = late]
  <2>1. P(u, k)
    BY <2>11
  <2>2. C[k + 1] = Append_(u, e)
    <3>1. k + 1 \in 0 .. n /\ k + 1 # 0 /\ (k + 1) - 1 = k
      BY <1>5
    <3>2. C[k + 1] = Clipped(w, b, C, k + 1)
      BY <1>3, <3>1
    <3> QED
      BY <3>1, <3>2 DEF Clipped
  <2>3. late \in BOOLEAN /\ (late <=> k > 0 /\ LastLate(u))
    <3>1. k > 0 => LastLate(u) = TRUE \/ LastLate(u) = FALSE
      <4> HIDE DEF Fair, u
      <4> QED
        BY <2>1
    <3>2. k + 1 > 1 <=> k > 0
      OBVIOUS
    <3> HIDE DEF u, P
    <3> QED
      BY <3>1, <3>2
  <2> HIDE DEF late
  <2>4. /\ e \in Blits /\ e.surface = b.surface /\ e.to = b.to /\ e.from = b.from /\ e.turn = b.turn
        /\ e.turns = b.turns /\ e.dirty = b.dirty /\ e.late = late
    BY <2>3 DEF Blits
  <2> HIDE DEF u, e
  <2>5. ASSUME NEW v PROVE Ready(v, b) <=> Ready(v, e)
    BY <2>4 DEF Ready, BlitRight, Own
  <2>6. e.late \/ Ready(u, e)
    BY <2>1, <2>3, <2>4, <2>5
  <2> DEFINE v == Append_(u, e)
  <2>7. /\ Good(v) /\ Painted(v, u) /\ v.wait = u.wait /\ v.list # <<>>
        /\ \/ /\ Listing(v, u) /\ LastLate(v) = e.late
              /\ \A c : Waiting(v, c) =>
                   Waiting(u, c) \/ (~e.late /\ c.surface = e.surface /\ c.to = e.to)
           \/ Drained(v, u) /\ LastLate(v) = TRUE
    BY <2>1, <2>4, <2>6, AppendGood
  <2> HIDE DEF v
  <2>8. Good(v) /\ Painted(v, w) /\ v.wait = w.wait /\ k + 1 > 0
    BY <2>1, <2>7 DEF Painted
  <2>9. CASE Fair(u) /\ ~late
    <3>1. CASE Listing(v, u) /\ LastLate(v) = e.late
      <4>1. Ready(v, b)
        BY <2>7, <2>9, <3>1 DEF Ready, BlitRight, Own, Stays, Mapped, Holds, Painted, Listing
      <4>2. Listing(v, w)
        BY <2>9, <3>1 DEF Listing
      <4>3. LastLate(v) = FALSE
        BY <2>4, <2>9, <3>1
      <4>4. \A c : Waiting(v, c) => Waiting(w, c) \/ (c.surface = b.surface /\ c.to = b.to)
        BY <2>4, <2>7, <2>9 DEF Drained
      <4> QED
        BY <2>2, <2>8, <4>1, <4>2, <4>3, <4>4 DEF v
    <3>2. CASE Drained(v, u) /\ LastLate(v) = TRUE
      <4>1. Drained(v, w)
        BY <2>9, <3>2 DEF Drained, Listing, Mapped
      <4> QED
        BY <2>2, <2>8, <3>2, <4>1 DEF v
    <3> QED
      BY <2>7, <3>1, <3>2
  <2>10. CASE late
    <3>1. Drained(u, w)
      BY <2>1, <2>3, <2>10
    <3>2. LastLate(v) = TRUE /\ Drained(v, w)
      BY <2>4, <2>7, <2>10, <3>1 DEF Drained, Listing
    <3> QED
      BY <2>2, <2>8, <3>2 DEF v
  <2> QED
    BY <2>1, <2>3, <2>9, <2>10
<1>6. Nat \subseteq S
  <2> HIDE DEF S
  <2> QED
    BY <1>4, <1>5, Induction
<1>7. P(C[n], n)
  BY <1>6
<1> QED
  BY <1>1, <1>7
-------------------------------------------------------------------------------
(* The image of a stretch's destination and of its source: itself, or its  *)
(* temporary buffer, which is filled with the source.                      *)
Reads(i, temp) == IF i.temp = 0 THEN i.buf ELSE temp

(* A temporary buffer does not count for the mappings.                     *)
LEMMA TempedPuts ==
  ASSUME NEW w \in Context, NEW u, Temped(u, w), NEW s, NEW a, NEW m
  PROVE  /\ Puts(m, u, s, a) => Puts(m, w, s, a)
         /\ Puts(Fails(u), w, s, a)
<1>1. Puts(m, u, s, a) => Puts(m, w, s, a)
  BY DEF Temped, Kin, Puts, Stays, Mapped, Filled
<1>2. Fails(u) \in [ok : {FALSE}, idx : {0}, w : {u}]
  BY OkIdx
<1>3. u \in Context
  BY DEF Temped, Kin
<1>4. Puts(Fails(u), w, s, a)
  BY <1>2, <1>3 DEF Temped, Puts
<1> QED
  BY <1>1, <1>4

(* get_temp_buffer only changes the buffer.                                *)
LEMMA TempBuffer ==
  ASSUME NEW w \in Context, NEW which \in {TempSrc, TempDst}, NEW size \in Nat, NEW fault \in BOOLEAN
  PROVE  LET m == get_temp_buffer(w, which, size, fault)
         IN m \in [ok : BOOLEAN, idx : {0}, w : Context] /\ Temped(m.w, w)
<1> DEFINE t == [size |-> size, good |-> ~fault, holds |-> None]
           new == [w EXCEPT !.temp[which] = t]
<1>1. t \in Temps
  BY AddressFacts DEF Temps
<1> HIDE DEF t
<1>2. Temped(new, w)
  BY <1>1 DEF Context, Temped, Kin
<1>3. Temped(w, w)
  BY DEF Temped, Kin
<1>4. get_temp_buffer(w, which, size, fault) \in {Ok(w), Ok(new), Fails(new)}
  BY DEF get_temp_buffer, t
<1> HIDE DEF new
<1> DEFINE m == get_temp_buffer(w, which, size, fault)
<1>5. m \in [ok : BOOLEAN, idx : {0}, w : {w, new}]
  <2>1. \A v : /\ Ok(v) \in [ok : {TRUE}, idx : {0}, w : {v}]
               /\ Fails(v) \in [ok : {FALSE}, idx : {0}, w : {v}]
    BY OkIdx
  <2>2. \A v \in {w, new} : /\ Ok(v) \in [ok : BOOLEAN, idx : {0}, w : {w, new}]
                            /\ Fails(v) \in [ok : BOOLEAN, idx : {0}, w : {w, new}]
    BY <2>1
  <2> QED
    BY <1>4, <2>2
<1> HIDE DEF m
<1>6. m \in [ok : BOOLEAN, idx : {0}, w : Context] /\ Temped(m.w, w)
  BY <1>2, <1>3, <1>5 DEF Temped, Kin
<1> QED
  BY <1>6 DEF m

(* What a stretch does to the destination surface.                         *)
LEMMA DestinationPuts ==
  ASSUME NEW w \in Context, NEW n, Filled(w, n), NEW d \in CbImage, NEW fault
  PROVE  Puts(Destination(w, d, fault), w, <<d.type, 0>>, Addr(d))
<1> DEFINE t == get_temp_buffer(w, TempDst, d.temp, fault = "alloc_dst")
           s == <<d.type, 0>>
<1>1. s \in Surfaces /\ Addr(d) \in Address \ {None} /\ d.temp \in Nat
  <2>1. 0 \in 0 .. MaxSurfaces[d.type] /\ d.type \in Types
    BY AddressFacts, CopybitAssumption
  <2> QED
    BY <2>1, AddressFacts DEF Addr, Surfaces
<1>2. t \in [ok : BOOLEAN, idx : {0}, w : Context] /\ Temped(t.w, w)
  BY <1>1, TempBuffer
<1> HIDE DEF s
<1>3. CASE d.temp = 0
  <2>1. Destination(w, d, fault)
          = set_image(w, s, Addr(d), fault = "map_dst", fault = "update_dst")
    BY <1>3 DEF Destination, Addr, s
  <2>2. Sets(set_image(w, s, Addr(d), fault = "map_dst", fault = "update_dst"), w, s, Addr(d))
    BY <1>1, SetsOne
  <2> QED
    BY <2>1, <2>2 DEF Sets, s
<1>4. CASE d.temp # 0 /\ ~t.ok
  <2>1. Destination(w, d, fault) = t
    BY <1>4 DEF Destination
  <2> HIDE DEF t
  <2>2. Puts(t, w, s, Addr(d))
    BY <1>2, <1>4 DEF Puts, Temped
  <2> QED
    BY <2>1, <2>2 DEF s
<1>5. CASE d.temp # 0 /\ t.ok
  <2> DEFINE mp == fault = "map_dst" \/ ~t.w.temp[TempDst].good
             m == set_image(t.w, s, Addr(d), mp, fault = "update_dst")
  <2>1. Destination(w, d, fault) = m
    BY <1>5 DEF Destination, Addr, s
  <2>2. Filled(t.w, n) /\ t.w \in Context
    <3> HIDE DEF t
    <3> QED
      BY <1>2 DEF Temped, Filled
  <2> HIDE DEF t
  <2>3. mp \in BOOLEAN /\ (fault = "update_dst") \in BOOLEAN
    OBVIOUS
  <2> HIDE DEF mp
  <2>4. Sets(m, t.w, s, Addr(d))
    BY <1>1, <2>2, <2>3, SetsOne
  <2> HIDE DEF m
  <2>5. Puts(m, w, s, Addr(d))
    BY <1>2, <2>4, TempedPuts DEF Sets
  <2> QED
    BY <2>1, <2>5 DEF s
<1> QED
  BY <1>2, <1>3, <1>4, <1>5

(* What a stretch does to its source surface, and what the surface then    *)
(* holds.                                                                  *)
LEMMA SourcePuts ==
  ASSUME NEW w \in Context, NEW n, Filled(w, n), NEW i \in CbImage, NEW fault,
         w.counts[i.type] < MaxSurfaces[i.type]
  PROVE  LET m == Source(w, i, fault)
         IN /\ Puts(m, w, <<i.type, w.counts[i.type] + 1>>, Reads(i, TempSrc))
            /\ m.ok => Holds(m.w, Reads(i, TempSrc)) = i.buf
<1> DEFINE t == get_temp_buffer(w, TempSrc, i.temp, fault = "alloc_src")
           s == <<i.type, w.counts[i.type] + 1>>
           a == Reads(i, TempSrc)
           copied == copy_image(t.w, i)
           m == Source(w, i, fault)
<1>1. s \in Surfaces /\ a \in Address \ {None} /\ i.temp \in Nat /\ i.buf \in Address /\ i.buf # TempSrc
  <2>1. i.type \in Types /\ w.counts[i.type] \in Nat /\ MaxSurfaces[i.type] \in Nat
    BY AddressFacts, CopybitAssumption DEF Context
  <2>2. w.counts[i.type] + 1 \in 0 .. MaxSurfaces[i.type]
    BY <2>1
  <2> QED
    BY <2>1, <2>2, AddressFacts DEF Reads, Surfaces
<1>2. t \in [ok : BOOLEAN, idx : {0}, w : Context] /\ Temped(t.w, w)
  BY <1>1, TempBuffer
<1> HIDE DEF s
<1>3. CASE i.temp = 0
  <2>1. m = set_image(w, s, a, fault = "map_src", fault = "update_src")
    BY <1>3 DEF Source, Reads, s
  <2>2. Sets(set_image(w, s, a, fault = "map_src", fault = "update_src"), w, s, a)
    BY <1>1, SetsOne
  <2>3. Holds(m.w, a) = i.buf
    BY <1>1, <1>3 DEF Reads, Holds
  <2> HIDE DEF m, a
  <2>4. Puts(m, w, s, a)
    BY <2>1, <2>2 DEF Sets
  <2> QED
    BY <2>3, <2>4 DEF s, m, a
<1>4. CASE i.temp # 0 /\ (~t.ok \/ ~copied.ok)
  <2>1. m = Fails(t.w)
    BY <1>4 DEF Source
  <2>2. Puts(m, w, s, a)
    <3> HIDE DEF t, a, m
    <3> QED
      BY <1>2, <2>1, TempedPuts
  <2>3. ~m.ok
    BY <2>1 DEF Fails
  <2> QED
    BY <2>2, <2>3 DEF s
<1>5. CASE i.temp # 0 /\ t.ok /\ copied.ok
  <2> DEFINE c == [t.w EXCEPT !.temp[TempSrc].holds = i.buf]
  <2>1. copied = Ok(c)
    BY <1>5 DEF copy_image, Fails, Ok
  <2>2. Temped(c, t.w) /\ c.temp[TempSrc].holds = i.buf
    <3> HIDE DEF t
    <3>1. t.w \in Context
      BY <1>2
    <3>2. [t.w.temp EXCEPT ![TempSrc].holds = i.buf] \in [{TempSrc, TempDst} -> Temps]
      BY <1>1, <3>1 DEF Context, Temps
    <3>3. c = [t.w EXCEPT !.temp = [t.w.temp EXCEPT ![TempSrc].holds = i.buf]]
      OBVIOUS
    <3>4. [t.w.temp EXCEPT ![TempSrc].holds = i.buf][TempSrc].holds = i.buf
      BY <3>1 DEF Context, Temps
    <3> DEFINE f == [t.w.temp EXCEPT ![TempSrc].holds = i.buf]
    <3> HIDE DEF f, c
    <3> QED
      BY <3>1, <3>2, <3>3, <3>4 DEF Context, Temped, Kin, f
  <2>3. Temped(c, w)
    <3> HIDE DEF t, c
    <3> QED
      BY <1>2, <2>2 DEF Temped, Kin
  <2>4. copied.w = c
    BY <2>1 DEF Ok
  <2> HIDE DEF c, t, copied
  <2>5. CASE fault = "clean_src"
    <3>1. m = Fails(c)
      BY <1>5, <2>4, <2>5 DEF Source, t, copied
    <3>2. ~m.ok
      BY <3>1 DEF Fails
    <3>3. Puts(m, w, s, a)
      <4> HIDE DEF m, a
      <4> QED
        BY <2>3, <3>1, TempedPuts
    <3> QED
      BY <3>2, <3>3 DEF s
  <2>6. CASE fault # "clean_src"
    <3> DEFINE r == set_image(c, s, a, fault = "map_src", fault = "update_src")
    <3>1. m = r
      BY <1>5, <2>4, <2>6 DEF Source, Reads, t, copied, s
    <3>2. Filled(c, n) /\ c \in Context
      BY <2>3 DEF Temped, Kin, Filled
    <3>3. (fault = "map_src") \in BOOLEAN /\ (fault = "update_src") \in BOOLEAN
      OBVIOUS
    <3>4. Sets(r, c, s, a)
      <4> HIDE DEF a
      <4> QED
        BY <1>1, <3>2, <3>3, SetsOne
    <3>5. a = TempSrc
      BY <1>5 DEF Reads
    <3> HIDE DEF r, a, m
    <3>6. Puts(m, w, s, a)
      BY <2>3, <3>1, <3>4, TempedPuts DEF Sets
    <3>7. Holds(m.w, a) = i.buf
      BY <2>2, <3>1, <3>4, <3>5 DEF Sets, Holds
    <3> QED
      BY <3>6, <3>7 DEF s, a, m
  <2> QED
    BY <2>5, <2>6
<1>6. t.ok \in BOOLEAN
  BY <1>2
<1> QED
  BY <1>3, <1>4, <1>5, <1>6
-------------------------------------------------------------------------------
(* The blit of a stretch whose buffers are in place.                       *)
TurnSet(w, turn) ==
  /\ IF w.override THEN w.dirty \/ w.turns = {turn} ELSE w.trg = turn
  /\ w.turns \subseteq Nat

(* The blit of a stretch is ready: it would be drawn as it was asked for.  *)
LEMMA BlitReady ==
  ASSUME NEW w, Good(w), NEW v, Good(v), Kin(v, w), NEW d \in CbImage, NEW l,
         l.image \in CbImage, l.turn \in Nat, l.clips \in Nat, TurnSet(w, l.turn), w.dstType = d.type,
         w.counts[l.image.type] < MaxSurfaces[l.image.type],
         Holds(v, Reads(l.image, TempSrc)) = l.image.buf,
         v.points[<<d.type, 0>>] = Addr(d),
         v.points[<<l.image.type, w.counts[l.image.type] + 1>>] = Reads(l.image, TempSrc),
         {Addr(d), Reads(l.image, TempSrc)} \subseteq v.held,
         Stays(v, Addr(d)), Stays(v, Reads(l.image, TempSrc))
  PROVE  LET u == [v EXCEPT !.counts[l.image.type] = @ + 1]
             b == Blit(v, d, l)
         IN /\ Good(u) /\ Painted(u, v) /\ u.wait = v.wait /\ u.list = v.list /\ u.failed = v.failed
            /\ u.mapped = v.mapped /\ u.held = v.held /\ u.flight = v.flight /\ u.points = v.points
            /\ u.counts = [v.counts EXCEPT ![l.image.type] = @ + 1]
            /\ b \in Blits /\ ~b.late /\ Ready(u, b)
            /\ b.surface = <<l.image.type, w.counts[l.image.type] + 1>> /\ b.to = Addr(d)
<1> DEFINE t == l.image.type
           u == [v EXCEPT !.counts[t] = @ + 1]
           b == Blit(v, d, l)
           k == w.counts[t] + 1
<1>1. /\ t \in Types /\ w.counts[t] \in Nat /\ MaxSurfaces[t] \in Nat /\ v.counts = w.counts
      /\ v \in Context /\ v.dstType = d.type
  BY AddressFacts, CopybitAssumption DEF Good, Context, Kin
<1>2. k \in 1 .. MaxSurfaces[t] /\ <<t, k>> \in Surfaces
  <2>1. k \in 0 .. MaxSurfaces[t]
    BY <1>1
  <2> QED
    BY <1>1, <2>1 DEF Surfaces
<1>3. [v.counts EXCEPT ![t] = @ + 1] \in [Types -> Nat]
  BY <1>1 DEF Context
<1>4. /\ u \in Context /\ Painted(u, v) /\ u.wait = v.wait /\ u.list = v.list /\ u.failed = v.failed
      /\ u.mapped = v.mapped /\ u.held = v.held /\ u.flight = v.flight /\ u.points = v.points
      /\ u.counts = [v.counts EXCEPT ![t] = @ + 1] /\ u.right = v.right
  BY <1>1, <1>3 DEF Context, Painted
<1>5. /\ b.surface = <<t, k>> /\ b.from = l.image.buf /\ b.to = Addr(d) /\ b.turn = l.turn
      /\ b.turns = v.turns /\ b.late = FALSE /\ b.dirty = v.dirty
  BY <1>1 DEF Blit, Addr
<1>6. b \in Blits
  <2>1. <<t, v.counts[t] + 1>> \in Surfaces /\ l.image.buf \in Address /\ v.turns \in SUBSET Nat
        /\ v.dirty \in BOOLEAN
    BY <1>1, <1>2, AddressFacts DEF Context
  <2>2. d.buf \in Address /\ TempDst \in Address
    BY AddressFacts
  <2> QED
    BY <2>1, <2>2 DEF Blit, Blits
<1> HIDE DEF u, b, k, t
<1>7. \A x \in Types : u.counts[x] = IF x = t THEN k ELSE v.counts[x]
  BY <1>1, <1>4 DEF Context, k
<1>8. \A c : Ready(v, c) => Ready(u, c)
  <2> SUFFICES ASSUME NEW c, Ready(v, c) PROVE Ready(u, c)
    OBVIOUS
  <2>1. PICK x \in Types, j \in Nat : /\ c.surface = <<x, j>> /\ c.surface \in Surfaces
                                      /\ 1 <= j /\ j <= v.counts[x]
    BY DEF Ready, Own
  <2>2. j <= u.counts[x]
    BY <1>1, <1>7, <2>1 DEF k
  <2>3. Own(u, c)
    BY <2>1, <2>2 DEF Own
  <2>4. Stays(u, u.points[c.surface]) /\ Stays(u, c.to)
    BY <1>4 DEF Ready, Stays, Mapped
  <2>5. BlitRight(u, c)
    BY <1>4 DEF Ready, BlitRight, Holds, Painted
  <2> QED
    BY <2>3, <2>4, <2>5 DEF Ready
<1>9. Good(u)
  <2>1. \A c : Waiting(u, c) => Waiting(v, c)
    BY <1>4 DEF Waiting, Excused
  <2>2. \A n : Filled(v, n) => Filled(u, n)
    BY <1>4 DEF Filled
  <2>3. \A x \in Types : u.counts[x] <= MaxSurfaces[x]
    BY <1>2, <1>7 DEF Good
  <2> QED
    BY <1>4, <1>8, <2>1, <2>2, <2>3 DEF Good
<1>10. Ready(u, b)
  <2>1. Own(u, b)
    BY <1>1, <1>2, <1>5, <1>7 DEF Own
  <2>2. u.points[b.surface] = Reads(l.image, TempSrc) /\ u.points[<<u.dstType, 0>>] = b.to
    BY <1>1, <1>4, <1>5 DEF Painted, k, t
  <2>3. Holds(u, u.points[b.surface]) = b.from
    BY <1>4, <1>5, <2>2 DEF Holds, Painted
  <2>4. IF u.override THEN b.dirty \/ b.turns = {b.turn} ELSE u.trg = b.turn
    BY <1>4, <1>5 DEF TurnSet, Kin, Painted
  <2>5. BlitRight(u, b)
    BY <1>4, <1>5, <2>2, <2>3, <2>4 DEF BlitRight
  <2> QED
    BY <1>4, <1>5, <2>1, <2>2, <2>5 DEF Ready, Stays, Mapped
<1> QED
  BY <1>4, <1>5, <1>6, <1>9, <1>10 DEF u, b, k, t
-------------------------------------------------------------------------------
(* The account of the slots: one for each blit counted, and one for each   *)
(* destination that is mapped, those a failing finish left behind among    *)
(* them.  With three destinations, as CopyBit has render buffers, a        *)
(* stretch finds the slots it needs, and mapped_gpu_addr names every       *)
(* mapping, however many calls fail.                                       *)
Destinations == {Addr(d) : d \in CbDests}
FewDestinations == IsFiniteSet(Destinations) /\ Cardinality(Destinations) <= 3
Exact(w) == w.held = Mapped(w) /\ w.flight \subseteq w.held
Load(w) == w.counts["RGB"] + w.counts["YUV2"] + w.counts["YUV3"]
Targeted(w) == Cardinality(Mapped(w) \cap Destinations)
Balanced(w) == \E n : Filled(w, n) /\ Load(w) + 3 <= SlotCount /\ n <= Load(w) + Targeted(w)
(* ... before the two buffers of a stretch for d are mapped.               *)
Slack(w, d) ==
  /\ FewDestinations /\ d \in CbDests
  /\ \E n : Filled(w, n) /\ Load(w) + 4 <= SlotCount /\ n <= Load(w) + Targeted(w)
Accounted(w, d) == FewDestinations /\ d \in CbDests /\ Exact(w) /\ Balanced(w)

(* A destination that is not mapped leaves room for it among the three.    *)
LEMMA TargetFacts ==
  ASSUME FewDestinations, NEW w, NEW v, Mapped(w) \subseteq Mapped(v)
  PROVE  /\ Targeted(w) \in 0 .. 3 /\ Targeted(v) \in 0 .. 3 /\ Targeted(w) <= Targeted(v)
         /\ \A d \in CbDests : Addr(d) \notin Mapped(w) =>
              /\ Targeted(w) <= 2
              /\ Addr(d) \in Mapped(v) => Targeted(w) + 1 <= Targeted(v)
<1> DEFINE A == Mapped(w) \cap Destinations
           B == Mapped(v) \cap Destinations
<1>1. IsFiniteSet(Destinations) /\ Cardinality(Destinations) <= 3 /\ Cardinality(Destinations) \in Nat
  BY FS_CardinalityType DEF FewDestinations
<1>2. /\ IsFiniteSet(B) /\ Cardinality(B) \in Nat /\ Cardinality(B) <= Cardinality(Destinations)
      /\ IsFiniteSet(A) /\ Cardinality(A) \in Nat /\ Cardinality(A) <= Cardinality(B)
  <2>1. IsFiniteSet(B) /\ Cardinality(B) <= Cardinality(Destinations)
    BY <1>1, FS_Subset
  <2>2. A \in SUBSET B
    OBVIOUS
  <2>3. IsFiniteSet(A) /\ Cardinality(A) <= Cardinality(B)
    BY <2>1, <2>2, FS_Subset
  <2> QED
    BY <2>1, <2>3, FS_CardinalityType
<1>3. ASSUME NEW d \in CbDests, Addr(d) \notin Mapped(w)
      PROVE  /\ Cardinality(A) + 1 <= Cardinality(Destinations)
             /\ Addr(d) \in Mapped(v) => Cardinality(A) + 1 <= Cardinality(B)
  <2> DEFINE a == Addr(d)
  <2>1. a \in Destinations /\ a \notin A
    BY <1>3 DEF Destinations
  <2>2. Cardinality(A \cup {a}) = Cardinality(A) + 1
    BY <1>2, <2>1, FS_AddElement
  <2>3. A \cup {a} \in SUBSET Destinations
    BY <2>1
  <2>4. Cardinality(A \cup {a}) <= Cardinality(Destinations)
    BY <1>1, <2>3, FS_Subset
  <2>5. ASSUME a \in Mapped(v) PROVE Cardinality(A \cup {a}) <= Cardinality(B)
    <3>1. A \cup {a} \in SUBSET B
      BY <2>1, <2>5
    <3> HIDE DEF A, B, a
    <3> QED
      BY <1>2, <3>1, FS_Subset
  <2> QED
    BY <2>2, <2>4, <2>5
<1>4. Targeted(w) = Cardinality(A) /\ Targeted(v) = Cardinality(B)
  BY DEF Targeted
<1> HIDE DEF A, B
<1> QED
  BY <1>1, <1>2, <1>3, <1>4

(* Room for what a stretch maps.                                           *)
LEMMA SlackFacts ==
  ASSUME NEW u, Good(u), NEW d, Slack(u, d)
  PROVE  /\ Load(u) + 4 <= SlotCount
         /\ \E n : /\ Filled(u, n) /\ n <= Load(u) + Targeted(u) /\ n < SlotCount
                   /\ Addr(d) \in Mapped(u) \/ n + 2 <= SlotCount
<1>1. PICK n : Filled(u, n) /\ Load(u) + 4 <= SlotCount /\ n <= Load(u) + Targeted(u)
  BY DEF Slack
<1>2. /\ Targeted(u) \in 0 .. 3 /\ (Addr(d) \in Mapped(u) \/ Targeted(u) <= 2)
  BY TargetFacts DEF Slack
<1>3. u \in Context /\ Load(u) \in Nat /\ SlotCount \in Nat /\ n \in Nat
  BY <1>1, SlotFacts DEF Filled, Good, Load, Context, Types
<1> QED
  BY <1>1, <1>2, <1>3

(* The slots are more than the blits that are counted can take.            *)
LEMMA LoadFacts ==
  ASSUME NEW w \in Context
  PROVE  /\ Load(w) \in Nat /\ SlotCount \in Nat /\ 4 <= SlotCount
         /\ (\A t \in Types : w.counts[t] < MaxSurfaces[t]) => Load(w) + 4 <= SlotCount
         /\ w.counts = [t \in Types |-> 0] => Load(w) = 0
<1>1. \A t \in Types : w.counts[t] \in Nat /\ MaxSurfaces[t] \in Nat \ {0}
  BY CopybitAssumption DEF Context
<1>2. {"RGB", "YUV2", "YUV3"} = Types
  BY DEF Types
<1> HIDE DEF Types
<1> QED
  BY <1>1, <1>2 DEF Load, SlotCount

(* The beginning of a stretch.                                             *)
Begun(w, d, fault) ==
  [(IF FinishBefore(w, d)
    THEN finish_copybit_internal(w, IF AtLimit(w) THEN "none" ELSE fault)
    ELSE w) EXCEPT !.dstType = d.type]

(* A stretch begins with a list its destination is meant for, and with     *)
(* slots to spare.                                                         *)
LEMMA BegunGood ==
  ASSUME NEW w, Good(w), Settled(w), NEW d \in CbImage, w.dstType = d.type => Towards(w, d),
         NEW fault
  PROVE  LET u == Begun(w, d, fault)
         IN /\ Good(u) /\ Settled(u) /\ Towards(u, d) /\ u.dstType = d.type
            /\ \A t \in Types : u.counts[t] < MaxSurfaces[t]
            /\ u.override = w.override /\ u.turns = w.turns /\ u.trg = w.trg
            /\ u.dirty = w.dirty /\ u.wait = w.wait
            /\ u.failed => w.failed \/ fault = "finish"
            /\ Accounted(w, d) => Exact(u) /\ Slack(u, d)
<1> DEFINE f == IF AtLimit(w) THEN "none" ELSE fault
           v == IF FinishBefore(w, d) THEN finish_copybit_internal(w, f) ELSE w
           u == [v EXCEPT !.dstType = d.type]
<1>1. Begun(w, d, fault) = u
  BY DEF Begun
<1>2. w \in Context /\ d.type \in Types
  BY AddressFacts DEF Good
<1>3. ~AtLimit(w) => \A t \in Types : w.counts[t] < MaxSurfaces[t]
  <2>1. \A t \in Types : w.counts[t] \in Nat /\ MaxSurfaces[t] \in Nat /\ w.counts[t] <= MaxSurfaces[t]
    BY CopybitAssumption DEF Good, Context
  <2> QED
    BY <2>1 DEF AtLimit
<1>4. /\ Good(v) /\ Settled(v) /\ (v.dstType = d.type \/ Over(v)) /\ Towards(v, d)
      /\ Painted(v, w) /\ v.wait = w.wait /\ (v.failed => w.failed \/ fault = "finish")
      /\ \A t \in Types : v.counts[t] < MaxSurfaces[t]
      /\ Accounted(w, d) => Exact(v) /\ Slack(v, d)
  <2>1. CASE FinishBefore(w, d)
    <3>1. /\ Good(v) /\ Over(v) /\ Painted(v, w) /\ v.wait = w.wait
          /\ Emptied(v, w) \/ (f = "finish" /\ Left(v, w))
      BY <2>1, Finishes
    <3>2. f = "finish" => ~AtLimit(w) /\ fault = "finish"
      OBVIOUS
    <3> HIDE DEF v, f
    <3>3. Settled(v) /\ Towards(v, d)
      BY <3>1, OverWaits DEF Settled, Towards
    <3>4. \A t \in Types : v.counts[t] < MaxSurfaces[t]
      <4>1. CASE Emptied(v, w)
        BY <4>1, CopybitAssumption DEF Emptied
      <4>2. CASE f = "finish" /\ Left(v, w)
        BY <4>2, <3>2, <1>3 DEF Left
      <4> QED
        BY <3>1, <4>1, <4>2
    <3>5. ASSUME Accounted(w, d) PROVE Exact(v) /\ Slack(v, d)
      <4>1. v \in Context /\ Load(v) \in Nat /\ SlotCount \in Nat /\ 4 <= SlotCount /\ Load(v) + 4 <= SlotCount
        BY <3>1, <3>4, LoadFacts DEF Good
      <4>2. CASE Emptied(v, w)
        <5>1. Filled(v, 0) /\ Load(v) = 0
          BY <4>1, <4>2, SlotFacts, LoadFacts DEF Emptied, Filled
        <5>2. Exact(v)
          BY <3>5, <4>2 DEF Accounted, Exact, Emptied, Mapped
        <5>3. Targeted(v) \in 0 .. 3
          BY <3>5, TargetFacts DEF Accounted
        <5> QED
          BY <3>5, <5>1, <5>2, <5>3, <4>1 DEF Slack, Accounted
      <4>3. CASE Left(v, w)
        <5>1. Mapped(v) = Mapped(w) /\ Load(v) = Load(w) /\ \A n : Filled(w, n) => Filled(v, n)
          BY <4>3 DEF Left, Mapped, Filled, Load
        <5>2. Targeted(v) = Targeted(w)
          BY <5>1 DEF Targeted
        <5>3. Exact(v)
          BY <3>5, <4>3, <5>1 DEF Accounted, Exact, Left
        <5> QED
          BY <3>5, <4>1, <5>1, <5>2, <5>3 DEF Slack, Accounted, Balanced
      <4> QED
        BY <3>1, <4>2, <4>3
    <3>6. v.failed => w.failed \/ fault = "finish"
      BY <3>1, <3>2 DEF Emptied
    <3> QED
      BY <3>1, <3>3, <3>4, <3>5, <3>6
  <2>2. CASE ~FinishBefore(w, d)
    <3>1. v = w /\ w.dstType = d.type /\ ~AtLimit(w)
      BY <2>2 DEF FinishBefore
    <3> HIDE DEF v, f
    <3>2. ASSUME Accounted(w, d) PROVE Slack(w, d)
      BY <3>1, <3>2, <1>2, <1>3, LoadFacts DEF Accounted, Balanced, Slack
    <3> QED
      BY <1>2, <1>3, <3>1, <3>2 DEF Painted, Accounted
  <2> QED
    BY <2>1, <2>2
<1> HIDE DEF v, f
<1>5. /\ u \in Context /\ u.dstType = d.type /\ u.right = v.right /\ u.counts = v.counts
      /\ u.list = v.list /\ u.failed = v.failed /\ u.points = v.points /\ u.mapped = v.mapped
      /\ u.held = v.held /\ u.flight = v.flight /\ u.temp = v.temp /\ u.override = v.override
      /\ u.turns = v.turns /\ u.trg = v.trg /\ u.dirty = v.dirty /\ u.wait = v.wait
  BY <1>2, <1>4 DEF Context, Good
<1> HIDE DEF u
<1>6. \A b : Waiting(u, b) => Waiting(v, b) /\ v.dstType = d.type
  BY <1>4, <1>5, OverWaits DEF Waiting, Excused
<1>7. ASSUME NEW b, Waiting(u, b) PROVE Ready(u, b)
  <2>1. Ready(v, b) /\ v.dstType = d.type
    BY <1>4, <1>6, <1>7 DEF Good
  <2> QED
    BY <1>5, <2>1 DEF Ready, BlitRight, Own, Stays, Mapped, Holds
<1>8. \A n : Filled(v, n) => Filled(u, n)
  BY <1>5 DEF Filled
<1>9. Good(u)
  BY <1>4, <1>5, <1>7, <1>8 DEF Good
<1>10. Settled(u) /\ Towards(u, d)
  BY <1>4, <1>5, <1>6 DEF Settled, Towards
<1>11. Exact(v) /\ Slack(v, d) => Exact(u) /\ Slack(u, d)
  BY <1>5, <1>8 DEF Exact, Slack, Load, Targeted, Mapped
<1> QED
  BY <1>1, <1>4, <1>5, <1>9, <1>10, <1>11 DEF Painted

(* With a slot to spare, every mapping is named by one.                    *)
LEMMA PutsExact ==
  ASSUME NEW w \in Context, Exact(w), NEW n, Filled(w, n),
         NEW a \in Address \ {None}, n < SlotCount \/ a \in Mapped(w),
         NEW s, NEW m, Puts(m, w, s, a)
  PROVE  Exact(m.w) /\ (~m.ok => m.w.held = w.held)
<1>1. Stays(w, a) => a \in Mapped(w)
  <2>1. CASE n < SlotCount
    <3>1. n + 1 \in Slots /\ n < n + 1
      BY <2>1, SlotFacts DEF Filled
    <3>2. w.mapped[n + 1] = None
      BY <3>1 DEF Filled
    <3> QED
      BY <3>1, <3>2 DEF Stays
  <2> QED
    BY <2>1
<1>2. m.w.flight = w.flight
  BY DEF Puts, Kin
<1>3. /\ m.idx = 0 => m.w.mapped = w.mapped
      /\ m.idx # 0 => m.ok /\ Mapped(m.w) = Mapped(w) \cup {a}
  BY PutsSurvive DEF Puts
<1>4. CASE m.idx = 0
  <2>1. Mapped(m.w) = Mapped(w) /\ (Stays(m.w, a) <=> Stays(w, a))
    BY <1>3, <1>4 DEF Mapped, Stays
  <2>2. m.w.held = w.held
    <3>1. a \in w.held <=> a \in m.w.held
      BY <1>1, <2>1 DEF Puts, Exact, Stays
    <3> QED
      BY <3>1 DEF Puts
  <2> QED
    BY <1>2, <2>1, <2>2 DEF Exact
<1>5. CASE m.idx # 0
  <2>1. m.ok /\ m.w.held = w.held \cup {a}
    BY <1>3, <1>5 DEF Puts
  <2> QED
    BY <1>2, <1>3, <1>5, <2>1 DEF Exact
<1> QED
  BY <1>4, <1>5

(* A stretch that fails unmaps what it mapped.                             *)
Back(x, u) == Kin(x, u) /\ Good(x) /\ Settled(x) /\ x.mapped = u.mapped

(* A stretch that fails gives back what it mapped, and nothing else.       *)
LEMMA Undone ==
  ASSUME NEW u, Good(u), Settled(u), NEW d \in CbImage, Towards(u, d), u.dstType = d.type,
         NEW i \in CbImage, u.counts[i.type] < MaxSurfaces[i.type],
         NEW dst, Puts(dst, u, <<d.type, 0>>, Addr(d)),
         NEW src, Puts(src, dst.w, <<i.type, u.counts[i.type] + 1>>, Reads(i, TempSrc))
  PROVE  LET x == Undo(Undo(src.w, dst), src)
         IN Back(x, u) /\ (Exact(u) /\ Slack(u, d) => Exact(x))
<1> DEFINE v == dst.w
           y == src.w
           da == Addr(d)
           sa == Reads(i, TempSrc)
           x == Undo(Undo(y, dst), src)
<1>1. da \in Address \ {None} /\ sa \in Address \ {None} /\ i.type \in Types
  BY AddressFacts DEF Addr, Reads
<1>2. /\ Good(v) /\ Settled(v) /\ Towards(v, d) /\ Survives(v, u) /\ Kin(v, u)
      /\ dst.idx # 0 => \A b : ~Waiting(u, b)
  BY DestinationSet DEF Puts
<1>3. v.counts = u.counts /\ v.failed = u.failed
  BY <1>2 DEF Kin
<1>4. /\ Good(y) /\ Settled(y) /\ Survives(y, v) /\ Kin(y, v)
      /\ \A b : Waiting(v, b) => /\ y.points[b.surface] = v.points[b.surface]
                                 /\ y.points[<<v.dstType, 0>>] = v.points[<<v.dstType, 0>>]
  <2> HIDE DEF v, sa
  <2>1. Puts(src, v, <<i.type, v.counts[i.type] + 1>>, sa) /\ v.counts[i.type] < MaxSurfaces[i.type]
    BY <1>3 DEF v, sa
  <2>2. Kin(src.w, v)
    BY <2>1 DEF Puts
  <2>3. /\ Good(src.w) /\ Settled(src.w) /\ Survives(src.w, v)
        /\ \A b : Waiting(v, b) => /\ src.w.points[b.surface] = v.points[b.surface]
                                   /\ src.w.points[<<v.dstType, 0>>] = v.points[<<v.dstType, 0>>]
    BY <1>1, <1>2, <2>1, SourceSet
  <2> QED
    BY <2>2, <2>3
<1>5. PICK n : Filled(u, n) /\ (Slack(u, d) => n < SlotCount /\ (da \in Mapped(u) \/ n + 2 <= SlotCount))
  <2>1. CASE Slack(u, d)
    BY <2>1, SlackFacts
  <2>2. CASE ~Slack(u, d)
    BY <2>2 DEF Good
  <2> QED
    BY <2>1, <2>2
<1>6. /\ u \in Context /\ v \in Context /\ y \in Context /\ n \in Nat /\ n <= SlotCount
      /\ SlotCount \in Nat
  BY <1>2, <1>4, <1>5, SlotFacts DEF Good, Filled
<1>7. /\ dst.idx = 0 => v.mapped = u.mapped /\ Filled(v, n)
      /\ dst.idx # 0 => /\ dst.idx = n + 1 /\ dst.idx \in Slots /\ Filled(v, n + 1)
                        /\ Mapped(v) = Mapped(u) \cup {da} /\ da \notin Mapped(u)
                        /\ v.mapped = [u.mapped EXCEPT ![n + 1] = da]
  <2>1. /\ dst.idx = 0 => Filled(v, n)
        /\ dst.idx # 0 => dst.idx = n + 1 /\ dst.idx \in Slots /\ Filled(v, n + 1)
                          /\ Mapped(v) = Mapped(u) \cup {da}
    <3> HIDE DEF da
    <3> QED
      BY <1>1, <1>5, <1>6, PutsSurvive DEF da
  <2>2. /\ dst.idx = 0 => v.mapped = u.mapped
        /\ dst.idx # 0 => da \notin Mapped(u) /\ v.mapped = [u.mapped EXCEPT ![dst.idx] = da]
    BY DEF Puts
  <2> HIDE DEF v, da
  <2> QED
    BY <2>1, <2>2
<1> DEFINE k == IF dst.idx = 0 THEN n ELSE n + 1
<1>8. Filled(v, k) /\ k \in Nat
  BY <1>6, <1>7 DEF Puts
<1>9. /\ src.idx = 0 => y.mapped = v.mapped
      /\ src.idx # 0 => /\ src.idx = k + 1 /\ src.idx \in Slots
                        /\ Mapped(y) = Mapped(v) \cup {sa} /\ sa \notin Mapped(v)
                        /\ y.mapped = [v.mapped EXCEPT ![k + 1] = sa]
  <2> DEFINE s == <<i.type, u.counts[i.type] + 1>>
  <2>1. Puts(src, v, s, sa)
    OBVIOUS
  <2> HIDE DEF v, k, sa, s
  <2>2. src.idx # 0 => src.idx = k + 1 /\ src.idx \in Slots /\ Mapped(y) = Mapped(v) \cup {sa}
    BY <1>1, <1>6, <1>8, <2>1, PutsSurvive
  <2>3. /\ src.idx = 0 => y.mapped = v.mapped
        /\ src.idx # 0 => sa \notin Mapped(v) /\ y.mapped = [v.mapped EXCEPT ![src.idx] = sa]
    BY <2>1 DEF Puts
  <2> QED
    BY <2>2, <2>3
<1>10. Exact(u) /\ Slack(u, d) => Exact(v) /\ Exact(y)
  <2> SUFFICES ASSUME Exact(u), Slack(u, d) PROVE Exact(v) /\ Exact(y)
    OBVIOUS
  <2>1. n < SlotCount /\ k < SlotCount
    BY <1>5, <1>6, <1>7
  <2>2. Exact(v)
    BY <1>1, <1>5, <1>6, <2>1, PutsExact
  <2> HIDE DEF v, k, sa
  <2>3. Exact(y)
    BY <1>1, <1>6, <1>8, <2>1, <2>2, PutsExact DEF v, sa
  <2> QED
    BY <2>2, <2>3
<1>11. Kin(y, u)
  BY <1>2, <1>4 DEF Kin
<1>12. u.mapped \in [Slots -> Address] /\ (n + 1 \in Slots => u.mapped[n + 1] = None)
       /\ (k + 1 \in Slots => v.mapped[k + 1] = None) /\ v.mapped \in [Slots -> Address]
  <2>1. n < n + 1 /\ k < k + 1
    BY <1>6, <1>8
  <2> QED
    BY <1>5, <1>6, <1>8, <2>1 DEF Context, Filled
<1> HIDE DEF v, y, da, sa, k
<1>13. CASE dst.idx = 0 /\ src.idx = 0
  <2>1. x = y
    BY <1>13 DEF Undo, unmap_gpuaddr
  <2>2. y.mapped = u.mapped
    BY <1>7, <1>9, <1>13
  <2> QED
    BY <1>4, <1>10, <1>11, <2>1, <2>2 DEF Back, y
<1>14. CASE dst.idx # 0 /\ src.idx = 0
  <2>1. x = unmap_gpuaddr(y, n + 1) /\ n + 1 \in Slots
    BY <1>7, <1>14 DEF Undo, unmap_gpuaddr
  <2> HIDE DEF x
  <2>2. Kin(x, y) /\ x.held = y.held \ {y.mapped[n + 1]} /\ x.mapped = [y.mapped EXCEPT ![n + 1] = None]
    BY <1>6, <2>1, UnmapOne
  <2>3. y.mapped[n + 1] = da /\ x.mapped = u.mapped
    BY <1>7, <1>9, <1>12, <1>14, <2>1, <2>2
  <2>4. Kin(x, u)
    BY <1>11, <2>2 DEF Kin
  <2>5. Filled(x, n)
    BY <1>5, <2>3 DEF Filled
  <2>6. \A b : ~Waiting(u, b) /\ ~Waiting(x, b)
    BY <1>2, <1>14, <2>4, KinWaits
  <2>7. Good(x) /\ Settled(x)
    BY <2>4, <2>5, <2>6, KinGood DEF Settled
  <2>8. ASSUME Exact(u), Slack(u, d) PROVE Exact(x)
    <3>1. y.held = Mapped(u) \cup {da} /\ da \notin Mapped(u)
      <4>1. Mapped(y) = Mapped(v)
        BY <1>9, <1>14 DEF Mapped
      <4> QED
        BY <1>7, <1>10, <1>14, <2>8, <4>1 DEF Exact
    <3>2. x.held = Mapped(u) /\ Mapped(x) = Mapped(u) /\ x.flight = u.flight
      <4>1. Mapped(x) = Mapped(u)
        BY <2>3 DEF Mapped
      <4>2. x.flight = u.flight
        BY <2>4 DEF Kin
      <4> QED
        BY <2>2, <2>3, <3>1, <4>1, <4>2
    <3> QED
      BY <2>8, <3>2 DEF Exact
  <2> QED
    BY <2>3, <2>4, <2>7, <2>8 DEF Back, x, y
<1>15. CASE dst.idx = 0 /\ src.idx # 0
  <2>1. x = unmap_gpuaddr(y, k + 1) /\ k + 1 \in Slots
    BY <1>9, <1>15 DEF Undo, unmap_gpuaddr
  <2> HIDE DEF x
  <2>2. /\ Kin(x, y) /\ x.held = y.held \ {y.mapped[k + 1]} /\ x.points = y.points
        /\ x.mapped = [y.mapped EXCEPT ![k + 1] = None]
    BY <1>6, <2>1, UnmapOne
  <2>3. y.mapped[k + 1] = sa /\ x.mapped = v.mapped /\ v.mapped = u.mapped
    BY <1>7, <1>9, <1>12, <1>15, <2>1, <2>2
  <2>4. Kin(x, u) /\ Kin(x, v)
    BY <1>4, <1>11, <2>2 DEF Kin
  <2>5. Filled(x, n)
    BY <1>5, <2>3 DEF Filled
  <2>6. Survives(x, v)
    <3> SUFFICES ASSUME NEW b, b \in v.held, Stays(v, b) PROVE b \in x.held /\ Stays(x, b)
      BY DEF Survives
    <3>1. b \in Mapped(v)
      BY <1>12, <2>1 DEF Stays
    <3>2. b # sa /\ b \in y.held
      BY <1>4, <1>9, <1>15, <3>1 DEF Survives
    <3>3. Mapped(x) = Mapped(v)
      BY <2>3 DEF Mapped
    <3> QED
      BY <2>2, <2>3, <3>1, <3>2, <3>3 DEF Stays
  <2>7. ASSUME NEW b, Waiting(v, b) PROVE Ready(x, b) /\ x.points[b.surface] # TempSrc
    BY <1>2, <1>4, <1>6, <2>2, <2>4, <2>6, <2>7, ReadyKept DEF Good, Settled
  <2>8. Good(x) /\ Settled(x)
    BY <1>2, <2>4, <2>5, <2>7, KinGood, KinWaits DEF Settled
  <2>9. ASSUME Exact(u), Slack(u, d) PROVE Exact(x)
    <3>1. y.held = Mapped(v) \cup {sa} /\ sa \notin Mapped(v) /\ Mapped(v) = Mapped(u)
      <4>1. Mapped(v) = Mapped(u)
        BY <2>3 DEF Mapped
      <4> QED
        BY <1>9, <1>10, <1>15, <2>9, <4>1 DEF Exact
    <3>2. x.held = Mapped(u) /\ Mapped(x) = Mapped(u) /\ x.flight = u.flight
      <4>1. Mapped(x) = Mapped(u)
        BY <2>3 DEF Mapped
      <4>2. x.flight = u.flight
        BY <2>4 DEF Kin
      <4> QED
        BY <2>2, <2>3, <3>1, <4>1, <4>2
    <3> QED
      BY <2>9, <3>2 DEF Exact
  <2> QED
    BY <2>3, <2>4, <2>8, <2>9 DEF Back, x, y
<1>16. CASE dst.idx # 0 /\ src.idx # 0
  <2> DEFINE z == unmap_gpuaddr(y, n + 1)
  <2>1. x = unmap_gpuaddr(z, n + 2) /\ n + 1 \in Slots /\ n + 2 \in Slots /\ k + 1 = n + 2
    <3>1. dst.idx = n + 1 /\ src.idx = k + 1 /\ k = n + 1 /\ k + 1 = n + 2
      BY <1>6, <1>7, <1>9, <1>16 DEF k
    <3> QED
      BY <1>7, <1>9, <1>16, <3>1 DEF Undo
  <2>2. Kin(z, y) /\ z.held = y.held \ {y.mapped[n + 1]} /\ z.mapped = [y.mapped EXCEPT ![n + 1] = None]
    BY <1>6, <2>1, UnmapOne
  <2> HIDE DEF x, z
  <2>3. Kin(x, z) /\ x.held = z.held \ {z.mapped[n + 2]} /\ x.mapped = [z.mapped EXCEPT ![n + 2] = None]
    <3>1. z \in Context
      BY <2>2 DEF Kin
    <3> QED
      BY <2>1, <3>1, UnmapOne
  <2>4. v.mapped = [u.mapped EXCEPT ![n + 1] = da] /\ y.mapped = [v.mapped EXCEPT ![n + 2] = sa]
    BY <1>7, <1>9, <1>16, <2>1
  <2>5. n + 1 # n + 2
    BY <1>6
  <2>6. y.mapped[n + 1] = da /\ z.mapped[n + 2] = sa /\ u.mapped[n + 2] = None /\ u.mapped[n + 1] = None
    BY <1>12, <2>1, <2>2, <2>4, <2>5
  <2>7. x.mapped = u.mapped
    BY <1>12, <2>1, <2>2, <2>3, <2>4, <2>5, <2>6
  <2>8. Kin(x, u)
    BY <1>11, <2>2, <2>3 DEF Kin
  <2>9. Filled(x, n)
    BY <1>5, <2>7 DEF Filled
  <2>10. \A b : ~Waiting(u, b) /\ ~Waiting(x, b)
    BY <1>2, <1>16, <2>8, KinWaits
  <2>11. Good(x) /\ Settled(x)
    BY <2>8, <2>9, <2>10, KinGood DEF Settled
  <2>12. ASSUME Exact(u), Slack(u, d) PROVE Exact(x)
    <3>1. /\ y.held = Mapped(u) \cup {da} \cup {sa} /\ da \notin Mapped(u)
          /\ sa \notin Mapped(u)
      BY <1>7, <1>9, <1>10, <1>16, <2>12 DEF Exact
    <3>2. x.held = Mapped(u) /\ Mapped(x) = Mapped(u) /\ x.flight = u.flight
      <4>1. Mapped(x) = Mapped(u)
        BY <2>7 DEF Mapped
      <4>2. x.flight = u.flight
        BY <2>8 DEF Kin
      <4> QED
        BY <2>2, <2>3, <2>6, <3>1, <4>1, <4>2
    <3> QED
      BY <2>12, <3>2 DEF Exact
  <2> QED
    BY <2>7, <2>8, <2>11, <2>12 DEF Back, x, y
<1> QED
  BY <1>13, <1>14, <1>15, <1>16
-------------------------------------------------------------------------------
(* What a change of the parameters, or of what the GPU works on, leaves.    *)
Alter(v, w) ==
  /\ v \in Context /\ v.right = w.right /\ v.counts = w.counts /\ v.dstType = w.dstType
  /\ v.list = w.list /\ v.failed = w.failed /\ v.points = w.points /\ v.mapped = w.mapped
  /\ v.held = w.held /\ v.flight \subseteq w.flight /\ v.temp = w.temp
  /\ v.override = w.override /\ v.trg = w.trg

(* Such a change takes nothing from the list or from the account.          *)
LEMMA AlterGood ==
  ASSUME NEW w, NEW v, Alter(v, w), NEW d
  PROVE  /\ Good(w) => Good(v)
         /\ Settled(w) => Settled(v)
         /\ Towards(w, d) => Towards(v, d)
         /\ Over(w) => Over(v)
         /\ Exact(w) => Exact(v)
         /\ Balanced(w) => Balanced(v)
<1>1. \A b : /\ Waiting(v, b) <=> Waiting(w, b)
             /\ Ready(w, b) => Ready(v, b)
  BY DEF Alter, Waiting, Excused, Ready, BlitRight, Own, Stays, Mapped, Holds
<1>2. \A n : Filled(w, n) => Filled(v, n)
  BY DEF Alter, Filled
<1>3. Mapped(v) = Mapped(w) /\ Load(v) = Load(w) /\ Targeted(v) = Targeted(w)
  BY DEF Alter, Mapped, Load, Targeted
<1>4. Good(w) => Good(v)
  BY <1>1, <1>2 DEF Good, Alter
<1>5. /\ Settled(w) => Settled(v)
      /\ Towards(w, d) => Towards(v, d)
      /\ Over(w) => Over(v)
  BY <1>1 DEF Alter, Settled, Towards, Over
<1>6. /\ Exact(w) => Exact(v)
      /\ Balanced(w) => Balanced(v)
  BY <1>2, <1>3 DEF Alter, Exact, Balanced
<1> QED
  BY <1>4, <1>5, <1>6

(* An empty device is balanced.                                            *)
LEMMA EmptyBalanced ==
  ASSUME NEW w \in Context, w.counts = [t \in Types |-> 0], w.mapped = [i \in Slots |-> None]
  PROVE  Balanced(w) /\ Mapped(w) = {}
<1>1. Filled(w, 0)
  BY SlotFacts DEF Filled
<1>2. Mapped(w) = {}
  BY DEF Mapped
<1>3. Targeted(w) = 0
  BY <1>2, FS_EmptySet DEF Targeted
<1> QED
  BY <1>1, <1>2, <1>3, LoadFacts DEF Balanced

(* The end of a stretch.                                                   *)
LEMMA ListedGood ==
  ASSUME NEW w, Good(w), NEW d, NEW l, NEW fault, w.dstType = d.type,
         ~need_to_execute_draw(d, l.image) => Settled(w) /\ Towards(w, d)
  PROVE  LET v == Listed(w, d, l, fault)
         IN /\ Good(v) /\ Settled(v) /\ Towards(v, d) /\ v.turns = {}
            /\ v.failed => w.failed \/ fault = "finish"
            /\ Exact(w) /\ Balanced(w) => Exact(v) /\ Balanced(v)
<1> DEFINE u == IF need_to_execute_draw(d, l.image) THEN finish_copybit_internal(w, fault) ELSE w
           v == [u EXCEPT !.turns = {}, !.dirty = FALSE]
<1>1. Listed(w, d, l, fault) = v
  BY DEF Listed
<1>2. /\ Good(u) /\ Settled(u) /\ Towards(u, d) /\ u.dstType = d.type
      /\ u.failed => w.failed \/ fault = "finish"
      /\ Exact(w) /\ Balanced(w) => Exact(u) /\ Balanced(u)
  <2>1. CASE ~need_to_execute_draw(d, l.image)
    BY <2>1
  <2>2. CASE need_to_execute_draw(d, l.image)
    <3>1. /\ Good(u) /\ Over(u) /\ Painted(u, w)
          /\ Emptied(u, w) \/ (fault = "finish" /\ Left(u, w))
      BY <2>2, Finishes
    <3> HIDE DEF u
    <3>2. Settled(u) /\ Towards(u, d)
      BY <3>1, OverWaits DEF Settled, Towards
    <3>3. ASSUME Exact(w), Balanced(w) PROVE Exact(u) /\ Balanced(u)
      <4>1. CASE Emptied(u, w)
        <5>1. Balanced(u) /\ Mapped(u) = {}
          BY <3>1, <4>1, EmptyBalanced DEF Good, Emptied
        <5>2. u.held = {} /\ u.flight = {}
          BY <3>3, <4>1 DEF Exact, Emptied
        <5> QED
          BY <5>1, <5>2 DEF Exact
      <4>2. CASE Left(u, w)
        <5>1. Mapped(u) = Mapped(w) /\ Load(u) = Load(w) /\ \A n : Filled(w, n) => Filled(u, n)
          BY <4>2 DEF Left, Mapped, Load, Filled
        <5>2. Exact(u)
          BY <3>3, <4>2, <5>1 DEF Exact, Left
        <5>3. Balanced(u)
          BY <3>3, <5>1 DEF Balanced, Targeted
        <5> QED
          BY <5>2, <5>3
      <4> QED
        BY <3>1, <4>1, <4>2
    <3>4. u.failed => w.failed \/ fault = "finish"
      BY <3>1 DEF Emptied
    <3> QED
      BY <3>1, <3>2, <3>3, <3>4 DEF Painted
  <2> QED
    BY <2>1, <2>2
<1> HIDE DEF u
<1>3. Alter(v, u) /\ v.turns = {} /\ v.failed = u.failed
  BY <1>2 DEF Context, Good, Alter
<1> HIDE DEF v
<1> QED
  BY <1>1, <1>2, <1>3, AlterGood

(* A stretch that fails leaves everything but its parameters as it was.    *)
LEMMA FailedGood ==
  ASSUME NEW u, Good(u), NEW d, Towards(u, d), u.dstType = d.type, NEW x, Back(x, u)
  PROVE  LET v == [x EXCEPT !.dirty = TRUE]
         IN /\ Good(v) /\ Settled(v) /\ Towards(v, d) /\ v.dirty /\ v.failed = u.failed
            /\ Exact(x) /\ Slack(u, d) => Exact(v) /\ Balanced(v)
<1> DEFINE v == [x EXCEPT !.dirty = TRUE]
<1>1. Good(x) /\ Settled(x) /\ Kin(x, u) /\ x.mapped = u.mapped
  BY DEF Back
<1>2. Alter(v, x) /\ v.dirty /\ v.failed = x.failed
  BY <1>1 DEF Context, Good, Alter
<1> HIDE DEF v
<1>3. Towards(x, d)
  BY <1>1, KinWaits DEF Towards
<1>4. Slack(u, d) => Balanced(x)
  <2> SUFFICES ASSUME Slack(u, d) PROVE Balanced(x)
    OBVIOUS
  <2>1. Mapped(x) = Mapped(u) /\ Load(x) = Load(u) /\ \A n : Filled(u, n) => Filled(x, n)
    BY <1>1 DEF Mapped, Load, Kin, Filled
  <2>2. Load(u) \in Nat /\ SlotCount \in Nat
    BY LoadFacts DEF Good
  <2>3. PICK n : Filled(u, n) /\ n <= Load(u) + Targeted(u) /\ Load(u) + 4 <= SlotCount
    BY SlackFacts
  <2>4. Filled(x, n) /\ n <= Load(x) + Targeted(x) /\ Load(x) + 3 <= SlotCount
    BY <2>1, <2>2, <2>3 DEF Targeted
  <2> QED
    BY <2>4 DEF Balanced
<1>5. x.failed = u.failed
  BY <1>1 DEF Kin
<1> QED
  BY <1>1, <1>2, <1>3, <1>4, <1>5, AlterGood DEF v

(* The slots after a stretch's two buffers are in place.                   *)
LEMMA BothExact ==
  ASSUME NEW u, Good(u), Exact(u), NEW d \in CbImage, Slack(u, d),
         NEW dst, Puts(dst, u, <<d.type, 0>>, Addr(d)), dst.ok,
         NEW s, NEW a \in Address \ {None}, NEW src, Puts(src, dst.w, s, a)
  PROVE  /\ Exact(src.w) /\ Load(u) + 4 <= SlotCount
         /\ \E n : Filled(src.w, n) /\ n <= Load(u) + 1 + Targeted(src.w)
<1> DEFINE v == dst.w
           da == Addr(d)
<1>1. da \in Address \ {None}
  BY AddressFacts DEF Addr
<1>2. PICK n : /\ Filled(u, n) /\ n <= Load(u) + Targeted(u) /\ n < SlotCount
               /\ da \in Mapped(u) \/ n + 2 <= SlotCount
  BY SlackFacts
<1>3. /\ Load(u) \in Nat /\ n \in Nat /\ SlotCount \in Nat /\ u \in Context /\ v \in Context
      /\ FewDestinations /\ d \in CbDests /\ Load(u) + 4 <= SlotCount
  BY <1>2, LoadFacts, SlotFacts, SlackFacts DEF Good, Filled, Puts, Slack
<1>4. Exact(v)
  <2> HIDE DEF da
  <2> QED
    BY <1>1, <1>2, <1>3, PutsExact DEF da
<1>5. /\ dst.idx = 0 => Filled(v, n) /\ Mapped(v) = Mapped(u)
      /\ dst.idx # 0 => Filled(v, n + 1) /\ da \notin Mapped(u) /\ Mapped(v) = Mapped(u) \cup {da}
  <2>1. /\ dst.idx = 0 => Mapped(v) = Mapped(u)
        /\ dst.idx # 0 => da \notin Mapped(u)
    BY DEF Puts, Mapped
  <2> HIDE DEF da
  <2> QED
    BY <1>1, <1>2, <1>3, <2>1, PutsSurvive DEF da
<1>6. PICK k \in Nat : Filled(v, k) /\ k <= Load(u) + Targeted(v) /\ k < SlotCount
  <2>1. /\ Targeted(u) \in 0 .. 3 /\ Targeted(v) \in 0 .. 3
        /\ dst.idx = 0 => Targeted(u) = Targeted(v)
        /\ dst.idx # 0 => Targeted(u) + 1 <= Targeted(v)
    <3>1. Mapped(u) \subseteq Mapped(v) /\ (dst.idx # 0 => da \notin Mapped(u) /\ da \in Mapped(v))
      BY <1>5
    <3>2. dst.idx = 0 => Targeted(u) = Targeted(v)
      BY <1>5 DEF Targeted
    <3> HIDE DEF v
    <3> QED
      BY <1>3, <3>1, <3>2, TargetFacts
  <2>2. CASE dst.idx = 0
    BY <1>2, <1>3, <1>5, <2>1, <2>2
  <2>3. CASE dst.idx # 0
    <3>1. n + 1 \in Nat /\ Filled(v, n + 1) /\ n + 1 <= Load(u) + Targeted(v) /\ n + 1 < SlotCount
      BY <1>2, <1>3, <1>5, <2>1, <2>3
    <3> QED
      BY <3>1
  <2> QED
    BY <2>2, <2>3
<1> HIDE DEF v
<1>7. Puts(src, v, s, a)
  BY DEF v
<1>8. Exact(src.w)
  BY <1>3, <1>4, <1>6, <1>7, PutsExact
<1>9. \E m : Filled(src.w, m) /\ m <= Load(u) + 1 + Targeted(src.w)
  <2>1. /\ src.idx = 0 => Filled(src.w, k) /\ Mapped(src.w) = Mapped(v)
        /\ src.idx # 0 => Filled(src.w, k + 1) /\ Mapped(src.w) = Mapped(v) \cup {a}
    <3>1. src.idx = 0 => Mapped(src.w) = Mapped(v)
      BY <1>7 DEF Puts, Mapped
    <3>2. /\ src.idx = 0 => Filled(src.w, k)
          /\ src.idx # 0 => src.idx = k + 1 /\ Filled(src.w, k + 1) /\ Mapped(src.w) = Mapped(v) \cup {a}
      BY <1>3, <1>6, <1>7, PutsSurvive
    <3> QED
      BY <3>1, <3>2
  <2>2. Mapped(v) \subseteq Mapped(src.w)
    BY <2>1
  <2>3. Targeted(v) \in 0 .. 3 /\ Targeted(src.w) \in 0 .. 3 /\ Targeted(v) <= Targeted(src.w)
    BY <1>3, <2>2, TargetFacts
  <2>4. k <= Load(u) + 1 + Targeted(src.w) /\ k + 1 <= Load(u) + 1 + Targeted(src.w)
    BY <1>3, <1>6, <2>3
  <2> QED
    BY <2>1, <2>4
<1> QED
  BY <1>3, <1>8, <1>9

(* A stretch that finds its buffers lists its clips.                       *)
LEMMA PlacedGood ==
  ASSUME NEW u, Good(u), Settled(u), NEW d \in CbImage, Towards(u, d), u.dstType = d.type,
         NEW l, l.image \in CbImage, l.turn \in Nat, l.clips \in Nat, TurnSet(u, l.turn),
         u.counts[l.image.type] < MaxSurfaces[l.image.type],
         NEW dst, Puts(dst, u, <<d.type, 0>>, Addr(d)), dst.ok,
         NEW src, Puts(src, dst.w, <<l.image.type, u.counts[l.image.type] + 1>>,
                       Reads(l.image, TempSrc)), src.ok,
         Holds(src.w, Reads(l.image, TempSrc)) = l.image.buf, NEW fault
  PROVE  LET counted == [src.w EXCEPT !.counts[l.image.type] = @ + 1]
             v == Listed(Clips(counted, Blit(src.w, d, l), l.clips), d, l, fault)
         IN /\ Good(v) /\ Settled(v) /\ Towards(v, d) /\ v.turns = {}
            /\ v.failed => u.failed \/ fault = "finish"
            /\ Exact(u) /\ Slack(u, d) => Exact(v) /\ Balanced(v)
<1> DEFINE y == src.w
           t == l.image.type
           sa == Reads(l.image, TempSrc)
           da == Addr(d)
           counted == [y EXCEPT !.counts[t] = @ + 1]
           b == Blit(y, d, l)
           c == Clips(counted, b, l.clips)
           k == u.counts[t] + 1
<1>1. /\ da \in Address \ {None} /\ sa \in Address \ {None} /\ t \in Types
      /\ u.counts[t] \in Nat
  BY AddressFacts DEF Addr, Reads, Good, Context
<1>2. Good(dst.w) /\ Settled(dst.w) /\ Towards(dst.w, d) /\ Kin(dst.w, u)
  BY DestinationSet DEF Puts
<1>3. /\ Good(y) /\ Settled(y) /\ Survives(y, dst.w) /\ Kin(y, dst.w) /\ <<t, k>> \in Surfaces
  <2>1. dst.w.counts = u.counts
    BY <1>2 DEF Kin
  <2>2. Kin(y, dst.w)
    BY DEF Puts
  <2> HIDE DEF sa
  <2>3. Puts(src, dst.w, <<t, dst.w.counts[t] + 1>>, sa) /\ dst.w.counts[t] < MaxSurfaces[t]
    BY <2>1 DEF sa
  <2>4. Good(y) /\ Settled(y) /\ Survives(y, dst.w) /\ <<t, dst.w.counts[t] + 1>> \in Surfaces
    BY <1>1, <1>2, <2>3, SourceSet
  <2> QED
    BY <2>1, <2>2, <2>4
<1>4. Kin(y, u) /\ Towards(y, d)
  <2>1. Kin(y, u)
    BY <1>2, <1>3 DEF Kin
  <2> QED
    BY <1>2, <1>3, <2>1, KinWaits DEF Towards
<1>5. /\ dst.w.points[<<d.type, 0>>] = da /\ da \in dst.w.held /\ Stays(dst.w, da)
      /\ y.points = [dst.w.points EXCEPT ![<<t, k>>] = sa] /\ sa \in y.held /\ Stays(y, sa)
  <2>1. <<d.type, 0>> \in Surfaces
    <3>1. 0 \in 0 .. MaxSurfaces[d.type] /\ d.type \in Types
      BY AddressFacts, CopybitAssumption
    <3> QED
      BY <3>1 DEF Surfaces
  <2>2. u.points \in [Surfaces -> Address]
    BY DEF Good, Context
  <2> QED
    BY <2>1, <2>2 DEF Puts
<1>6. /\ y.points[<<d.type, 0>>] = da /\ y.points[<<t, k>>] = sa
      /\ {da, sa} \subseteq y.held /\ Stays(y, da) /\ Stays(y, sa)
  <2>1. dst.w.points \in [Surfaces -> Address]
    BY <1>2 DEF Good, Context
  <2>2. <<d.type, 0>> # <<t, k>>
    BY <1>1
  <2> QED
    BY <1>3, <1>5, <2>1, <2>2 DEF Survives
<1>7. /\ Good(counted) /\ Painted(counted, y) /\ counted.list = y.list /\ counted.failed = y.failed
      /\ counted.mapped = y.mapped /\ counted.held = y.held /\ counted.flight = y.flight
      /\ counted.points = y.points /\ counted.counts = [y.counts EXCEPT ![t] = @ + 1]
      /\ b \in Blits /\ ~b.late /\ Ready(counted, b) /\ b.surface = <<t, k>> /\ b.to = da
  <2> HIDE DEF y
  <2>1. Good(y) /\ Kin(y, u) /\ Holds(y, Reads(l.image, TempSrc)) = l.image.buf
    BY <1>3, <1>4 DEF y
  <2> QED
    BY <1>6, <2>1, BlitReady
<1> HIDE DEF counted, b, y, sa, da, k
<1>8. /\ Good(c) /\ Painted(c, counted)
      /\ \/ /\ Listing(c, counted)
            /\ \A e : Waiting(c, e) =>
                 Waiting(counted, e) \/ (e.surface = b.surface /\ e.to = b.to)
         \/ Drained(c, counted)
  BY <1>7, ClipsGood
<1> HIDE DEF c
<1>9. \A e : Waiting(counted, e) <=> Waiting(y, e)
  BY <1>7 DEF Waiting, Excused
<1>10. Towards(c, d) /\ (l.image.temp = 0 => Settled(c))
  <2>1. ASSUME NEW e, Waiting(c, e)
        PROVE  e.to = da /\ (l.image.temp = 0 => c.points[e.surface] # TempSrc)
    <3>1. Listing(c, counted) /\ c.points = y.points
      BY <1>7, <1>8, <2>1 DEF Drained, Listing
    <3>2. CASE Waiting(counted, e)
      BY <1>3, <1>4, <1>9, <3>1, <3>2 DEF Towards, Settled, y, da
    <3>3. CASE e.surface = b.surface /\ e.to = b.to
      <4>1. c.points[e.surface] = sa
        BY <1>6, <1>7, <3>1, <3>3
      <4>2. l.image.temp = 0 => sa # TempSrc
        BY AddressFacts DEF Reads, sa
      <4> QED
        BY <1>7, <3>3, <4>1, <4>2
    <3> QED
      BY <1>8, <2>1, <3>2, <3>3 DEF Drained
  <2> QED
    BY <2>1 DEF Towards, Settled, da
<1>11. c.dstType = d.type /\ (~need_to_execute_draw(d, l.image) => l.image.temp = 0)
       /\ (c.failed => u.failed)
  BY <1>4, <1>7, <1>8 DEF Painted, Kin, need_to_execute_draw, Listing, Drained
<1>12. ASSUME Exact(u), Slack(u, d) PROVE Exact(c) /\ Balanced(c)
  <2>1. /\ Exact(y) /\ Load(u) + 4 <= SlotCount
        /\ \E n : Filled(y, n) /\ n <= Load(u) + 1 + Targeted(y)
    BY <1>1, <1>12, BothExact DEF y, da, sa
  <2>2. PICK n : Filled(y, n) /\ n <= Load(u) + 1 + Targeted(y)
    BY <2>1
  <2>3. Exact(counted) /\ Filled(counted, n) /\ Mapped(counted) = Mapped(y)
    BY <1>4, <1>7, <2>1, <2>2 DEF Exact, Filled, Mapped, Kin
  <2>4. Load(counted) = Load(u) + 1 /\ Load(u) \in Nat
    <3>1. y.counts = u.counts
      BY <1>4 DEF Kin
    <3>2. \A x \in Types : u.counts[x] \in Nat
                           /\ counted.counts[x] = IF x = t THEN u.counts[x] + 1 ELSE u.counts[x]
      BY <1>1, <1>7, <3>1 DEF Good, Context
    <3>3. t \in {"RGB", "YUV2", "YUV3"} /\ Types = {"RGB", "YUV2", "YUV3"}
      BY <1>1 DEF Types
    <3> HIDE DEF t
    <3> QED
      BY <3>2, <3>3 DEF Load
  <2>5. CASE Listing(c, counted)
    <3>1. Exact(c) /\ Filled(c, n) /\ Targeted(c) = Targeted(y) /\ Load(c) = Load(u) + 1
      <4>1. Mapped(c) = Mapped(y)
        BY <2>3, <2>5 DEF Mapped, Listing
      <4> QED
        BY <2>3, <2>4, <2>5, <4>1 DEF Exact, Filled, Targeted, Listing, Load
    <3>2. SlotCount \in Nat
      BY SlotFacts
    <3> QED
      BY <2>1, <2>2, <2>4, <3>1, <3>2 DEF Balanced
  <2>6. CASE Drained(c, counted)
    <3>1. Balanced(c) /\ Mapped(c) = {}
      BY <1>8, <2>6, EmptyBalanced DEF Good, Drained
    <3>2. c.held = {} /\ c.flight = {}
      BY <2>3, <2>6 DEF Exact, Drained
    <3> QED
      BY <3>1, <3>2 DEF Exact
  <2> QED
    BY <1>8, <2>5, <2>6
<1> DEFINE v == Listed(c, d, l, fault)
<1>13. /\ Good(v) /\ Settled(v) /\ Towards(v, d) /\ v.turns = {}
       /\ v.failed => c.failed \/ fault = "finish"
       /\ Exact(c) /\ Balanced(c) => Exact(v) /\ Balanced(v)
  BY <1>8, <1>10, <1>11, ListedGood
<1> HIDE DEF v
<1>14. /\ Good(v) /\ Settled(v) /\ Towards(v, d) /\ v.turns = {}
       /\ v.failed => u.failed \/ fault = "finish"
       /\ Exact(u) /\ Slack(u, d) => Exact(v) /\ Balanced(v)
  BY <1>11, <1>12, <1>13
<1> QED
  BY <1>14 DEF v, c, b, counted, y, t

(* A stretch, however it goes.                                             *)
LEMMA StretchGood ==
  ASSUME NEW w, Good(w), Settled(w), NEW d \in CbImage, w.dstType = d.type => Towards(w, d),
         NEW l, l.image \in CbImage, l.turn \in Nat, l.clips \in Nat, TurnSet(w, l.turn), NEW fault
  PROVE  LET v == stretch_copybit_internal(w, d, l, fault)
         IN /\ Good(v) /\ Settled(v) /\ (v.dstType = d.type => Towards(v, d))
            /\ v.dirty \/ v.turns = {}
            /\ v.failed => w.failed \/ fault = "finish"
            /\ Accounted(w, d) => Exact(v) /\ Balanced(v)
<1> DEFINE begun == Begun(w, d, fault)
           dst == Destination(begun, d, fault)
           src == Source(dst.w, l.image, fault)
           counted == [src.w EXCEPT !.counts[l.image.type] = @ + 1]
           done == Listed(Clips(counted, Blit(src.w, d, l), l.clips), d, l, fault)
           Fine(v) == /\ Good(v) /\ Settled(v) /\ (v.dstType = d.type => Towards(v, d))
                      /\ v.dirty \/ v.turns = {}
                      /\ v.failed => w.failed \/ fault = "finish"
                      /\ Accounted(w, d) => Exact(v) /\ Balanced(v)
<1>1. stretch_copybit_internal(w, d, l, fault)
        = IF fault = "reject" THEN [w EXCEPT !.dirty = TRUE]
          ELSE IF ~dst.ok THEN [dst.w EXCEPT !.dirty = TRUE]
          ELSE IF ~src.ok THEN [Undo(src.w, dst) EXCEPT !.dirty = TRUE]
          ELSE IF fault = "alpha" THEN [Undo(Undo(src.w, dst), src) EXCEPT !.dirty = TRUE]
          ELSE done
  BY DEF stretch_copybit_internal, Begun
<1> DEFINE u == begun
<1>2. /\ Good(u) /\ Settled(u) /\ Towards(u, d) /\ u.dstType = d.type
      /\ \A t \in Types : u.counts[t] < MaxSurfaces[t]
      /\ u.override = w.override /\ u.turns = w.turns /\ u.trg = w.trg
      /\ u.dirty = w.dirty
      /\ u.failed => w.failed \/ fault = "finish"
      /\ Accounted(w, d) => Exact(u) /\ Slack(u, d)
  BY BegunGood
<1> HIDE DEF begun
<1>3. PICK n : Filled(u, n)
  BY <1>2 DEF Good
<1>4. Puts(dst, u, <<d.type, 0>>, Addr(d))
  BY <1>2, <1>3, DestinationPuts DEF Good
<1>5. Good(dst.w) /\ Settled(dst.w) /\ Towards(dst.w, d) /\ Kin(dst.w, u)
  <2> HIDE DEF dst
  <2> QED
    BY <1>2, <1>4, DestinationSet DEF Puts
<1> HIDE DEF dst
<1>6. l.image.type \in Types /\ dst.w.counts = u.counts
  BY <1>5, AddressFacts DEF Kin
<1>7. /\ Puts(src, dst.w, <<l.image.type, u.counts[l.image.type] + 1>>, Reads(l.image, TempSrc))
      /\ src.ok => Holds(src.w, Reads(l.image, TempSrc)) = l.image.buf
  <2>1. PICK k : Filled(dst.w, k)
    BY <1>5 DEF Good
  <2>2. dst.w.counts[l.image.type] < MaxSurfaces[l.image.type]
    BY <1>2, <1>6
  <2>3. /\ Puts(src, dst.w, <<l.image.type, dst.w.counts[l.image.type] + 1>>, Reads(l.image, TempSrc))
        /\ src.ok => Holds(src.w, Reads(l.image, TempSrc)) = l.image.buf
    BY <1>5, <2>1, <2>2, SourcePuts DEF Good
  <2> HIDE DEF src
  <2> QED
    BY <1>6, <2>3
<1> HIDE DEF src
<1>8. TurnSet(u, l.turn)
  BY <1>2 DEF TurnSet
<1>9. ASSUME NEW x, Back(x, u), Exact(u) /\ Slack(u, d) => Exact(x)
      PROVE  Fine([x EXCEPT !.dirty = TRUE])
  <2> DEFINE v == [x EXCEPT !.dirty = TRUE]
  <2>1. /\ Good(v) /\ Settled(v) /\ Towards(v, d) /\ v.dirty /\ v.failed = u.failed
        /\ Exact(x) /\ Slack(u, d) => Exact(v) /\ Balanced(v)
    BY <1>2, <1>9, FailedGood
  <2> HIDE DEF v
  <2>2. Fine(v)
    BY <1>2, <1>9, <2>1
  <2> QED
    BY <2>2 DEF v
<1>10. LET x == Undo(Undo(src.w, dst), src) IN Back(x, u) /\ (Exact(u) /\ Slack(u, d) => Exact(x))
  BY <1>2, <1>4, <1>6, <1>7, Undone
<1>11. CASE fault = "reject"
  <2> DEFINE v == [w EXCEPT !.dirty = TRUE]
  <2>1. Alter(v, w) /\ v.dirty /\ v.failed = w.failed /\ v.dstType = w.dstType
    BY DEF Context, Good, Alter
  <2> HIDE DEF v
  <2>7. Fine(v)
    BY <2>1, AlterGood DEF Accounted
  <2>8. stretch_copybit_internal(w, d, l, fault) = v
    BY <1>1, <1>11 DEF v
  <2> QED
    BY <2>7, <2>8
<1>12. CASE fault # "reject" /\ ~dst.ok
  <2>1. Back(dst.w, u) /\ (Exact(u) /\ Slack(u, d) => Exact(dst.w))
    <3>1. dst.w.mapped = u.mapped
      BY <1>4, <1>12 DEF Puts
    <3>2. ASSUME Exact(u), Slack(u, d) PROVE Exact(dst.w)
      <4>1. PICK k : Filled(u, k) /\ k < SlotCount
        BY <1>2, <3>2, SlackFacts
      <4>3. Addr(d) \in Address \ {None} /\ u \in Context
        BY <1>2, AddressFacts DEF Addr, Good
      <4> HIDE DEF u
      <4> QED
        BY <1>4, <3>2, <4>1, <4>3, PutsExact
    <3> QED
      BY <1>5, <3>1, <3>2 DEF Back
  <2>2. Fine([dst.w EXCEPT !.dirty = TRUE])
    BY <1>9, <2>1
  <2> HIDE DEF Fine
  <2>3. Fine(stretch_copybit_internal(w, d, l, fault))
    BY <1>1, <1>12, <2>2
  <2> QED
    BY <2>3 DEF Fine
<1>13. CASE fault # "reject" /\ dst.ok /\ ~src.ok
  <2>1. src.idx = 0
    BY <1>7, <1>13 DEF Puts
  <2>2. Undo(Undo(src.w, dst), src) = Undo(src.w, dst)
    BY <2>1 DEF Undo, unmap_gpuaddr
  <2>3. Fine([Undo(src.w, dst) EXCEPT !.dirty = TRUE])
    BY <1>9, <1>10, <2>2
  <2> HIDE DEF Fine
  <2>4. Fine(stretch_copybit_internal(w, d, l, fault))
    BY <1>1, <1>13, <2>3
  <2> QED
    BY <2>4 DEF Fine
<1>14. CASE fault = "alpha" /\ dst.ok /\ src.ok
  <2>1. Fine([Undo(Undo(src.w, dst), src) EXCEPT !.dirty = TRUE])
    BY <1>9, <1>10
  <2> HIDE DEF Fine
  <2>2. Fine(stretch_copybit_internal(w, d, l, fault))
    BY <1>1, <1>14, <2>1
  <2> QED
    BY <2>2 DEF Fine
<1>15. CASE fault # "reject" /\ fault # "alpha" /\ dst.ok /\ src.ok
  <2>1. /\ Good(done) /\ Settled(done) /\ Towards(done, d) /\ done.turns = {}
        /\ done.failed => u.failed \/ fault = "finish"
        /\ Exact(u) /\ Slack(u, d) => Exact(done) /\ Balanced(done)
    BY <1>2, <1>4, <1>6, <1>7, <1>8, <1>15, PlacedGood
  <2> HIDE DEF done
  <2>2. Fine(done)
    BY <1>2, <2>1
  <2> HIDE DEF Fine
  <2>3. Fine(stretch_copybit_internal(w, d, l, fault))
    BY <1>1, <1>15, <2>2
  <2> QED
    BY <2>3 DEF Fine
<1> QED
  BY <1>11, <1>12, <1>13, <1>14, <1>15
-------------------------------------------------------------------------------
(* The calls of the client: the parameters of a stretch.                                            *)
LEMMA ParametersSet ==
  ASSUME NEW w, Good(w), Settled(w), w.dirty \/ w.turns = {}, NEW turn \in Nat,
         NEW d, w.dstType = d.type => Towards(w, d)
  PROVE  LET v == set_parameter_copybit(w, turn, "none")
         IN /\ Good(v) /\ Settled(v) /\ (v.dstType = d.type => Towards(v, d)) /\ TurnSet(v, turn)
            /\ v.failed => w.failed
            /\ Exact(w) /\ Balanced(w) => Exact(v) /\ Balanced(v)
<1> DEFINE v == set_parameter_copybit(w, turn, "none")
<1>1. w \in Context
  BY DEF Good
<1>2. CASE w.override
  <2> DEFINE x == [w EXCEPT !.turns = @ \cup {turn}]
  <2>1. Alter(x, w) /\ TurnSet(x, turn) /\ x.failed = w.failed
    BY <1>1, <1>2 DEF Context, Alter, TurnSet
  <2>2. v = x
    BY <1>2 DEF set_parameter_copybit
  <2> HIDE DEF x, v
  <2> QED
    BY <2>1, <2>2, AlterGood DEF Alter, v
<1>3. CASE ~w.override
  <2> DEFINE u == finish_copybit_internal(w, "none")
             x == [u EXCEPT !.trg = turn]
  <2>1. Good(u) /\ Over(u) /\ Painted(u, w) /\ Emptied(u, w)
    BY Finishes
  <2>2. v = x
    BY <1>3 DEF set_parameter_copybit
  <2> HIDE DEF u
  <2>3. /\ x \in Context /\ x.right = u.right /\ x.counts = u.counts /\ x.list = <<>>
        /\ ~x.failed /\ x.mapped = u.mapped /\ x.held = u.held /\ x.flight = u.flight
        /\ x.override = w.override /\ x.trg = turn /\ x.turns = w.turns
    BY <2>1 DEF Context, Good, Painted, Emptied
  <2> HIDE DEF x
  <2>4. \A b : ~Waiting(x, b)
    BY <2>3 DEF Waiting
  <2>5. Good(x) /\ Settled(x) /\ Towards(x, d)
    <3>1. \A n : Filled(u, n) => Filled(x, n)
      BY <2>3 DEF Filled
    <3>2. u.list = <<>>
      BY <2>1 DEF Emptied
    <3> QED
      BY <2>1, <2>3, <2>4, <3>1, <3>2 DEF Good, Settled, Towards
  <2>6. TurnSet(x, turn)
    BY <1>1, <1>3, <2>3 DEF TurnSet, Context
  <2>7. ASSUME Exact(w) PROVE Exact(x) /\ Balanced(x)
    <3>1. Balanced(x) /\ Mapped(x) = {}
      BY <2>1, <2>3, EmptyBalanced DEF Emptied
    <3>2. x.held = {} /\ x.flight = {}
      BY <2>1, <2>3, <2>7 DEF Emptied, Exact
    <3> QED
      BY <3>1, <3>2 DEF Exact
  <2> QED
    BY <2>2, <2>3, <2>5, <2>6, <2>7
<1> QED
  BY <1>2, <1>3

(* The end of a frame: the list is drawn, or left with a failure.          *)
LEMMA FrameFinished ==
  ASSUME NEW w, Good(w), NEW fault
  PROVE  LET v == finish_copybit_internal(w, fault)
         IN /\ Good(v) /\ Over(v) /\ v.turns = w.turns /\ v.dirty = w.dirty
            /\ Exact(w) /\ Balanced(w) => Exact(v) /\ Balanced(v)
<1> DEFINE v == finish_copybit_internal(w, fault)
<1>1. /\ Good(v) /\ Over(v) /\ Painted(v, w)
      /\ Emptied(v, w) \/ (fault = "finish" /\ Left(v, w))
  BY Finishes
<1> HIDE DEF v
<1>2. ASSUME Exact(w), Balanced(w) PROVE Exact(v) /\ Balanced(v)
  <2>1. CASE Emptied(v, w)
    <3>1. Balanced(v)
      BY <1>1, <2>1, EmptyBalanced DEF Good, Emptied
    <3>2. Exact(v)
      BY <1>2, <2>1 DEF Exact, Emptied, Mapped
    <3> QED
      BY <3>1, <3>2
  <2>2. CASE Left(v, w)
    <3>1. Mapped(v) = Mapped(w) /\ Load(v) = Load(w) /\ \A n : Filled(w, n) => Filled(v, n)
      BY <2>2 DEF Left, Mapped, Load, Filled
    <3>2. Exact(v)
      BY <1>2, <2>2, <3>1 DEF Exact, Left
    <3> QED
      BY <1>2, <3>1, <3>2 DEF Balanced, Targeted
  <2> QED
    BY <1>1, <2>1, <2>2
<1> QED
  BY <1>1, <1>2 DEF Painted, v

(* ... or flushed, and left to the thread or with a failure.               *)
LEMMA FrameFlushed ==
  ASSUME NEW w, Good(w), Settled(w), NEW fault
  PROVE  LET v == flush_get_fence_copybit(w, fault)
         IN /\ Good(v) /\ Settled(v) /\ (v.wait \/ Over(v))
            /\ v.turns = w.turns /\ v.dirty = w.dirty
            /\ Exact(w) /\ Balanced(w) => Exact(v) /\ Balanced(v)
<1> DEFINE u == IF fault = "draw" THEN w ELSE msm_copybit(w)
           v == flush_get_fence_copybit(w, fault)
<1>1. /\ Good(u) /\ Painted(u, w) /\ u.list = w.list /\ u.failed = w.failed
      /\ u.counts = w.counts /\ u.mapped = w.mapped /\ u.held = w.held
      /\ u.points = w.points /\ u.flight \subseteq w.flight \cup w.held
  <2>1. CASE fault = "draw"
    BY <2>1 DEF Painted, Good
  <2>2. CASE fault # "draw"
    BY <2>2, ListDrawn
  <2> QED
    BY <2>1, <2>2
<1>2. v = IF fault \in {"draw", "flush", "fence"} THEN [u EXCEPT !.failed = TRUE]
          ELSE [u EXCEPT !.wait = TRUE]
  BY DEF flush_get_fence_copybit
<1> HIDE DEF u, v
<1>3. Exact(w) /\ Balanced(w) => Exact(u) /\ Balanced(u)
  <2>1. Mapped(u) = Mapped(w) /\ Load(u) = Load(w) /\ \A n : Filled(w, n) => Filled(u, n)
    BY <1>1 DEF Mapped, Load, Filled
  <2>2. (Exact(w) => Exact(u)) /\ (Balanced(w) => Balanced(u))
    BY <1>1, <2>1 DEF Exact, Balanced, Targeted
  <2> QED
    BY <2>2
<1>4. Settled(w) => Settled(u)
  BY <1>1 DEF Settled, Waiting, Excused
<1>5. CASE fault \in {"draw", "flush", "fence"}
  <2>1. /\ v \in Context /\ v.failed /\ v.right = u.right /\ v.counts = u.counts /\ v.list = u.list
        /\ v.mapped = u.mapped /\ v.held = u.held /\ v.flight = u.flight /\ v.turns = u.turns
        /\ v.dirty = u.dirty
    BY <1>1, <1>2, <1>5 DEF Context, Good
  <2>2. Over(v) /\ \A b : ~Waiting(v, b)
    BY <2>1, OverWaits DEF Over
  <2>3. \A n : Filled(w, n) => Filled(v, n)
    BY <1>1, <2>1 DEF Filled
  <2>4. Good(v) /\ Settled(v)
    BY <1>1, <2>1, <2>2, <2>3 DEF Good, Settled
  <2>5. Exact(u) /\ Balanced(u) => Exact(v) /\ Balanced(v)
    BY <2>1 DEF Exact, Mapped, Balanced, Filled, Load, Targeted
  <2> QED
    BY <1>1, <1>3, <1>5, <2>1, <2>2, <2>4, <2>5 DEF v, Painted
<1>6. CASE fault \notin {"draw", "flush", "fence"}
  <2>1. Alter(v, u) /\ v.wait /\ v.turns = u.turns /\ v.dirty = u.dirty /\ v.failed = u.failed
    BY <1>1, <1>2, <1>6 DEF Context, Good, Alter
  <2>2. Good(v) /\ Settled(v) /\ (Exact(u) => Exact(v)) /\ (Balanced(u) => Balanced(v))
    BY <1>1, <1>4, <2>1, AlterGood
  <2> QED
    BY <1>1, <1>3, <2>1, <2>2 DEF v, Painted
<1> QED
  BY <1>5, <1>6
(* The render buffer is cleared: it is mapped, and is what the destination *)
(* surface points at.                                                      *)
LEMMA ClearGood ==
  ASSUME NEW w, Good(w), Settled(w), Over(w), NEW d \in CbDests, d \in CbImage, d.type = "RGB", NEW fault
  PROVE  LET v == clear_copybit(w, d, fault)
         IN /\ Good(v) /\ Settled(v) /\ Towards(v, d)
            /\ v.turns = w.turns /\ v.dirty = w.dirty
            /\ FewDestinations /\ Exact(w) /\ Balanced(w) => Exact(v) /\ Balanced(v)
<1> DEFINE m == set_image(w, <<"RGB", 0>>, d.buf, fault = "map_dst", fault = "update_dst")
           v == m.w
<1>1. w \in Context /\ d.buf \in Address \ {None} /\ Addr(d) = d.buf
  BY AddressFacts DEF Good, CbImage, Addr
<1>2. PICK n : Filled(w, n)
  BY DEF Good
<1>3. <<"RGB", 0>> \in Surfaces
  BY CopybitAssumption DEF Surfaces, Types
<1>4. Puts(m, w, <<"RGB", 0>>, d.buf)
  BY <1>1, <1>2, <1>3, SetsOne DEF Sets
<1> HIDE DEF m
<1>5. Kin(v, w) /\ v \in Context
  BY <1>4 DEF Puts
<1>6. \A b : ~Waiting(v, b)
  BY <1>5, OverWaits, KinWaits
<1>7. \E k : Filled(v, k)
  <2>1. CASE m.idx = 0
    BY <1>1, <1>2, <1>4, <2>1, PutsSurvive
  <2>2. CASE m.idx # 0
    BY <1>1, <1>2, <1>4, <2>2, PutsSurvive
  <2> QED
    BY <2>1, <2>2
<1>8. Good(v) /\ Settled(v) /\ Towards(v, d)
  <2>1. v.right /\ v.counts = w.counts /\ v.list = w.list
    BY <1>5 DEF Kin, Good
  <2> QED
    BY <1>5, <1>6, <1>7, <2>1 DEF Good, Settled, Towards
<1>9. ASSUME FewDestinations, Exact(w), Balanced(w) PROVE Exact(v) /\ Balanced(v)
  <2>1. PICK k : Filled(w, k) /\ Load(w) + 3 <= SlotCount /\ k <= Load(w) + Targeted(w)
    BY <1>9 DEF Balanced
  <2>2. Load(w) \in Nat /\ k \in Nat /\ SlotCount \in Nat
    BY <1>1, <2>1, LoadFacts, SlotFacts DEF Filled
  <2>3. Load(v) = Load(w)
    BY <1>5 DEF Kin, Load
  <2>4. Exact(v)
    <3>1. Targeted(w) \in 0 .. 3 /\ (Addr(d) \in Mapped(w) \/ Targeted(w) <= 2)
      BY <1>9, TargetFacts
    <3>2. k < SlotCount \/ d.buf \in Mapped(w)
      BY <1>1, <2>1, <2>2, <3>1
    <3> QED
      BY <1>1, <1>4, <1>9, <2>1, <3>2, PutsExact
  <2>5. CASE m.idx = 0
    <3>1. Filled(v, k)
      BY <1>1, <1>4, <2>1, <2>5, PutsSurvive
    <3>2. Mapped(v) = Mapped(w)
      BY <1>4, <2>5 DEF Puts, Mapped
    <3>3. Targeted(v) = Targeted(w)
      BY <3>2 DEF Targeted
    <3> HIDE DEF v
    <3> QED
      BY <2>1, <2>3, <2>4, <3>1, <3>3 DEF Balanced
  <2>6. CASE m.idx # 0
    <3>1. Filled(v, k + 1) /\ Mapped(v) = Mapped(w) \cup {Addr(d)} /\ Addr(d) \notin Mapped(w)
      <4>1. d.buf \notin Mapped(w)
        BY <1>4, <2>6 DEF Puts
      <4>2. m.idx = k + 1 /\ Filled(v, k + 1) /\ Mapped(v) = Mapped(w) \cup {d.buf}
        BY <1>1, <1>4, <2>1, <2>6, PutsSurvive
      <4> QED
        BY <1>1, <4>1, <4>2
    <3> HIDE DEF v
    <3>2. Mapped(w) \subseteq Mapped(v) /\ Addr(d) \in Mapped(v)
      BY <3>1
    <3>3. /\ Targeted(w) \in 0 .. 3 /\ Targeted(v) \in 0 .. 3
          /\ Targeted(w) + 1 <= Targeted(v)
      BY <1>9, <3>1, <3>2, TargetFacts
    <3>4. k + 1 <= Load(v) + Targeted(v)
      BY <2>1, <2>2, <2>3, <3>3
    <3> QED
      BY <2>1, <2>3, <2>4, <3>1, <3>4 DEF Balanced
  <2> QED
    BY <2>4, <2>5, <2>6
<1> QED
  BY <1>5, <1>8, <1>9 DEF clear_copybit, Kin, m

(* A device that is opened, or was closed.                                 *)
LEMMA FreshContext ==
  ASSUME NEW override \in BOOLEAN, NEW async \in BOOLEAN
  PROVE  LET f == Fresh(override, async)
         IN f \in Context /\ f = [f EXCEPT !.created = {}]
<1> DEFINE f == Fresh(override, async)
<1>1. [b \in {TempSrc, TempDst} |-> [size |-> 0, good |-> FALSE, holds |-> None]]
        \in [{TempSrc, TempDst} -> Temps]
  BY AddressFacts DEF Temps
<1>2. /\ [i \in Slots |-> None] \in [Slots -> Address] /\ [t \in Types |-> 0] \in [Types -> Nat]
      /\ [s \in Surfaces |-> None] \in [Surfaces -> Address] /\ "RGB" \in Types
      /\ <<>> \in Seq(Blits)
  BY AddressFacts DEF Types
<1>3. f \in Context /\ f.created = {}
  BY <1>1, <1>2 DEF Fresh, Context
<1> HIDE DEF f
<1>4. f = [f EXCEPT !.created = {}]
  BY <1>3 DEF Context
<1> QED
  BY <1>3, <1>4 DEF f

(* What is open or closed so far has nothing to draw.                      *)
LEMMA FreshGood ==
  ASSUME NEW override \in BOOLEAN, NEW async \in BOOLEAN, NEW created \in SUBSET Surfaces
  PROVE  LET v == [Fresh(override, async) EXCEPT !.created = created]
         IN /\ Good(v) /\ Settled(v) /\ Over(v) /\ v.turns = {}
            /\ Exact(v) /\ Balanced(v)
<1> DEFINE v == [Fresh(override, async) EXCEPT !.created = created]
<1>1. Fresh(override, async) \in Context
  BY FreshContext
<1>3. /\ v \in Context /\ v.right /\ v.counts = [t \in Types |-> 0] /\ v.list = <<>>
      /\ v.mapped = [i \in Slots |-> None] /\ v.held = {} /\ v.flight = {} /\ v.turns = {}
      /\ ~v.failed /\ ~v.wait
  <2>1. v \in Context
    BY <1>1 DEF Context
  <2> QED
    BY <2>1 DEF Fresh
<1> HIDE DEF v
<1>4. Balanced(v) /\ Mapped(v) = {}
  BY <1>3, EmptyBalanced
<1>5. Over(v) /\ \A b : ~Waiting(v, b)
  BY <1>3, OverWaits DEF Over
<1>6. Good(v)
  <2>1. \E n : Filled(v, n)
    BY <1>4 DEF Balanced
  <2>2. \A t \in Types : v.counts[t] <= MaxSurfaces[t]
    BY <1>3, CopybitAssumption
  <2>3. Len(v.list) <= MaxBlits
    BY <1>3, CopybitAssumption
  <2> QED
    BY <1>3, <1>5, <2>1, <2>2, <2>3 DEF Good
<1> QED
  BY <1>3, <1>4, <1>5, <1>6 DEF Settled, Exact, v

(* A list that the thread has seen drawn.                                  *)
LEMMA ThreadUnmaps ==
  ASSUME NEW w, Good(w)
  PROVE  LET v == [UnmapAll([w EXCEPT !.flight = {}]) EXCEPT !.wait = FALSE]
         IN /\ Good(v) /\ Settled(v) /\ Over(v) /\ (\A d : Towards(v, d))
            /\ v.turns = w.turns /\ v.dirty = w.dirty
            /\ Balanced(v) /\ (Exact(w) => Exact(v))
<1> DEFINE u == UnmapAll([w EXCEPT !.flight = {}])
           v == [u EXCEPT !.wait = FALSE]
<1>1. Good(u) /\ Painted(u, w) /\ Emptied(u, w)
  BY AllUnmapped DEF Good
<1> HIDE DEF u
<1>2. Alter(v, u) /\ v.turns = u.turns /\ v.dirty = u.dirty /\ v.list = <<>> /\ ~v.failed
      /\ v.counts = [t \in Types |-> 0] /\ v.mapped = [i \in Slots |-> None] /\ v.held = u.held
      /\ v.flight = u.flight
  BY <1>1 DEF Good, Context, Alter, Emptied
<1> HIDE DEF v
<1>3. Good(v) /\ Over(v) /\ \A b : ~Waiting(v, b)
  BY <1>1, <1>2, AlterGood, OverWaits DEF Over
<1>4. Balanced(v) /\ Mapped(v) = {}
  BY <1>2, <1>3, EmptyBalanced DEF Good
<1>5. Exact(w) => Exact(v)
  BY <1>1, <1>2, <1>4 DEF Exact, Emptied
<1> QED
  BY <1>1, <1>2, <1>3, <1>4, <1>5 DEF Settled, Towards, Painted, u, v
-------------------------------------------------------------------------------
(* What holds of the device and its client between the calls.              *)
BlitInv ==
  /\ Good(cb) /\ Settled(cb)
  /\ client \in Calls => dest \in CbDests
  /\ client = "clear" => dest.type = "RGB"
  /\ cb.dirty \/ cb.turns = {}
  /\ cb.wait \/ (client \in {"idle", "clear"} => Over(cb))
  /\ cb.wait \/ (client = "layers" /\ dest.type = cb.dstType => Towards(cb, dest))
(* ... and of its account of the slots.                                     *)
CountInv == Exact(cb) /\ Balanced(cb)

(* The steps of the thread and of the GPU.                                 *)
LEMMA ThreadBlits ==
  ASSUME BlitInv, WaiterTop \/ WaiterLocks \/ WaiterDone \/ GpuDone
  PROVE  BlitInv' /\ (CountInv => CountInv')
<1>1. CASE WaiterTop \/ WaiterLocks
  BY <1>1 DEF WaiterTop, WaiterLocks, BlitInv, CountInv
<1>2. CASE WaiterDone
  <2>1. /\ Good(cb') /\ Settled(cb') /\ Over(cb') /\ Towards(cb', dest)
        /\ cb'.turns = cb.turns /\ cb'.dirty = cb.dirty
        /\ Balanced(cb') /\ (Exact(cb) => Exact(cb'))
    BY <1>2, ThreadUnmaps DEF BlitInv, WaiterDone
  <2>2. UNCHANGED <<client, dest>>
    BY <1>2 DEF WaiterDone
  <2> QED
    BY <2>1, <2>2 DEF BlitInv, CountInv
<1>3. CASE GpuDone
  <2>1. /\ Alter(cb', cb) /\ cb'.turns = cb.turns /\ cb'.dirty = cb.dirty /\ cb'.wait = cb.wait
    BY <1>3 DEF GpuDone, BlitInv, Good, Context, Alter
  <2>2. /\ Good(cb') /\ Settled(cb') /\ (Towards(cb, dest) => Towards(cb', dest))
        /\ (Over(cb) => Over(cb')) /\ (Exact(cb) => Exact(cb'))
        /\ (Balanced(cb) => Balanced(cb'))
    BY <2>1, AlterGood DEF BlitInv
  <2>3. UNCHANGED <<client, dest>>
    BY <1>3 DEF GpuDone
  <2> QED
    BY <2>1, <2>2, <2>3 DEF BlitInv, CountInv, Alter
<1> QED
  BY <1>1, <1>2, <1>3

(* The device is opened and closed.                                        *)
LEMMA OpeningBlits ==
  ASSUME BlitInv, open_copybit \/ close_copybit \/ Joined
  PROVE  BlitInv' /\ (CountInv => CountInv')
<1>1. CASE open_copybit \/ Joined
  <2>1. \E override, async \in BOOLEAN, created \in SUBSET Surfaces :
           cb' = [Fresh(override, async) EXCEPT !.created = created]
    <3>1. Fresh(FALSE, FALSE) = [Fresh(FALSE, FALSE) EXCEPT !.created = {}]
      BY FreshContext
    <3>2. CASE open_copybit
      BY <3>1, <3>2 DEF open_copybit, clean_up
    <3>3. CASE Joined
      BY <3>1, <3>3 DEF Joined, clean_up
    <3> QED
      BY <1>1, <3>2, <3>3
  <2>2. /\ Good(cb') /\ Settled(cb') /\ Over(cb') /\ cb'.turns = {}
        /\ Exact(cb') /\ Balanced(cb')
    <3>1. PICK override \in BOOLEAN, async \in BOOLEAN, created \in SUBSET Surfaces :
             cb' = [Fresh(override, async) EXCEPT !.created = created]
      BY <2>1
    <3> DEFINE v == [Fresh(override, async) EXCEPT !.created = created]
    <3>2. Good(v) /\ Settled(v) /\ Over(v) /\ v.turns = {} /\ Exact(v) /\ Balanced(v)
      BY FreshGood
    <3> HIDE DEF v
    <3>3. cb' = v
      BY <3>1 DEF v
    <3> QED
      BY <3>2, <3>3
  <2>3. client' \in {"closed", "idle"}
    BY <1>1 DEF open_copybit, Joined
  <2> QED
    BY <2>2, <2>3 DEF BlitInv, CountInv, Calls
<1>2. CASE close_copybit
  <2>1. Alter(cb', cb) /\ cb'.turns = cb.turns /\ cb'.dirty = cb.dirty
    BY <1>2 DEF close_copybit, BlitInv, Good, Context, Alter
  <2>2. Good(cb') /\ Settled(cb') /\ (Exact(cb) => Exact(cb')) /\ (Balanced(cb) => Balanced(cb'))
    BY <2>1, AlterGood DEF BlitInv
  <2>3. client' = "close"
    BY <1>2 DEF close_copybit
  <2> QED
    BY <2>1, <2>2, <2>3 DEF BlitInv, CountInv, Alter, Calls
<1> QED
  BY <1>1, <1>2

(* A frame is begun, waits, is redirected, and has its layers done.        *)
LEMMA FrameBlits ==
  ASSUME BlitInv, prepare \/ Sleep \/ Redirect \/ LayersDone
  PROVE  BlitInv' /\ (CountInv => CountInv')
<1>1. CASE prepare
  <2>1. \A b : Over(cb) => ~Waiting(cb, b)
    BY OverWaits
  <2>2. Over(cb) => Towards(cb, dest')
    BY <2>1 DEF Towards
  <2>3. /\ cb' = cb /\ client = "idle" /\ dest' \in CbDests
        /\ client' = IF dest'.type = "RGB" THEN "clear" ELSE "layers"
    BY <1>1 DEF prepare
  <2> QED
    BY <2>2, <2>3 DEF BlitInv, CountInv
<1>2. CASE Sleep
  BY <1>2 DEF Sleep, BlitInv, CountInv
<1>3. CASE Redirect
  <2>1. /\ cb' = cb /\ client = "layers" /\ client' = client
        /\ dest' \in CbDests /\ dest'.type # cb.dstType
    BY <1>3 DEF Redirect
  <2> QED
    BY <2>1 DEF BlitInv, CountInv, Calls
<1>4. CASE LayersDone
  BY <1>4 DEF LayersDone, BlitInv, CountInv, Calls
<1> QED
  BY <1>1, <1>2, <1>3, <1>4

(* The calls of a frame.                                                   *)
LEMMA ClearBlits ==
  ASSUME BlitInv, clear
  PROVE  BlitInv' /\ (FewDestinations /\ CountInv => CountInv')
<1>1. PICK f \in Allowed \cap {"none", "map_dst", "update_dst"} :
        cb' = clear_copybit(cb, dest, f) /\ Fault(f)
  BY DEF clear
<1>2. /\ client = "clear" /\ ~cb.wait /\ client' = "layers" /\ dest' = dest
      /\ dest \in CbImage /\ dest.type = "RGB" /\ dest \in CbDests
  BY CopybitAssumption DEF clear, Enter, BlitInv, Calls
<1>3. Good(cb) /\ Settled(cb) /\ Over(cb)
  BY <1>2 DEF BlitInv
<1>4. /\ Good(cb') /\ Settled(cb') /\ Towards(cb', dest)
      /\ cb'.turns = cb.turns /\ cb'.dirty = cb.dirty
      /\ FewDestinations /\ Exact(cb) /\ Balanced(cb) => Exact(cb') /\ Balanced(cb')
  BY <1>1, <1>2, <1>3, ClearGood
<1>5. BlitInv'
  BY <1>2, <1>4 DEF BlitInv
<1> QED
  BY <1>4, <1>5 DEF CountInv

(* A layer is drawn: its parameters are set, and it is stretched.          *)
LEMMA LayerBlits ==
  ASSUME BlitInv, drawLayerUsingCopybit
  PROVE  BlitInv' /\ (FewDestinations /\ CountInv => CountInv')
<1>1. PICK l \in CbLayers, f \in Allowed \ {"flush", "fence"} :
        /\ cb' = stretch_copybit_internal(set_parameter_copybit(cb, l.turn, "none"), dest, l, f)
        /\ Fault(f)
  BY DEF drawLayerUsingCopybit
<1>2. /\ client = "layers" /\ ~cb.wait /\ client' = "layers" /\ dest' = dest
      /\ dest \in CbImage /\ dest \in CbDests
  BY CopybitAssumption DEF drawLayerUsingCopybit, Enter, BlitInv, Calls
<1>3. /\ Good(cb) /\ Settled(cb) /\ (cb.dirty \/ cb.turns = {})
      /\ (cb.dstType = dest.type => Towards(cb, dest))
  BY <1>2 DEF BlitInv
<1>4. l.image \in CbImage /\ l.turn \in Nat /\ l.clips \in Nat
  BY CopybitAssumption
<1> DEFINE w == set_parameter_copybit(cb, l.turn, "none")
<1>5. /\ Good(w) /\ Settled(w) /\ (w.dstType = dest.type => Towards(w, dest)) /\ TurnSet(w, l.turn)
      /\ Exact(cb) /\ Balanced(cb) => Exact(w) /\ Balanced(w)
  BY <1>3, <1>4, ParametersSet
<1>6. cb' = stretch_copybit_internal(w, dest, l, f)
  BY <1>1
<1> HIDE DEF w
<1>7. /\ Good(cb') /\ Settled(cb') /\ (cb'.dstType = dest.type => Towards(cb', dest))
      /\ cb'.dirty \/ cb'.turns = {}
      /\ Accounted(w, dest) => Exact(cb') /\ Balanced(cb')
  BY <1>2, <1>4, <1>5, <1>6, StretchGood
<1>8. BlitInv'
  BY <1>2, <1>7 DEF BlitInv
<1> QED
  BY <1>2, <1>5, <1>7, <1>8 DEF CountInv, Accounted

(* The frame is finished, or flushed.                                      *)
LEMMA FinishBlits ==
  ASSUME BlitInv, finish
  PROVE  BlitInv' /\ (FewDestinations /\ CountInv => CountInv')
<1>1. PICK f \in Allowed \cap {"none", "draw", "finish", "flush", "fence"} :
        /\ cb' = IF cb.async THEN flush_get_fence_copybit(cb, f) ELSE finish_copybit_internal(cb, f)
        /\ Fault(f)
  BY DEF finish
<1>2. client = "finish" /\ ~cb.wait /\ client' = "idle"
  BY DEF finish, Enter
<1>3. /\ Good(cb') /\ Settled(cb') /\ (cb'.wait \/ Over(cb'))
      /\ cb'.turns = cb.turns /\ cb'.dirty = cb.dirty
      /\ Exact(cb) /\ Balanced(cb) => Exact(cb') /\ Balanced(cb')
  <2>1. CASE cb.async
    <3>1. cb' = flush_get_fence_copybit(cb, f)
      BY <1>1, <2>1
    <3> QED
      BY <3>1, FrameFlushed DEF BlitInv
  <2>2. CASE ~cb.async
    <3>1. cb' = finish_copybit_internal(cb, f)
      BY <1>1, <2>2
    <3>2. /\ Good(cb') /\ Over(cb') /\ cb'.turns = cb.turns /\ cb'.dirty = cb.dirty
          /\ Exact(cb) /\ Balanced(cb) => Exact(cb') /\ Balanced(cb')
      BY <3>1, FrameFinished DEF BlitInv
    <3>3. Settled(cb')
      BY <3>2, OverWaits DEF Settled
    <3> QED
      BY <3>2, <3>3
  <2> QED
    BY <2>1, <2>2
<1>4. BlitInv'
  BY <1>2, <1>3 DEF BlitInv, Calls
<1> QED
  BY <1>3, <1>4 DEF CountInv

(* Both invariants hold at first, and every step keeps them.               *)
LEMMA BlitsBegin == DisplayInit => BlitInv /\ CountInv
<1> SUFFICES ASSUME DisplayInit PROVE BlitInv /\ CountInv
  OBVIOUS
<1>1. cb = Fresh(FALSE, FALSE) /\ client = "closed"
  BY DEF DisplayInit, CbInit
<1>2. Fresh(FALSE, FALSE) = [Fresh(FALSE, FALSE) EXCEPT !.created = {}]
  BY FreshContext
<1>3. Good(cb) /\ Settled(cb) /\ Over(cb) /\ cb.turns = {} /\ Exact(cb) /\ Balanced(cb)
  BY <1>1, <1>2, FreshGood
<1> QED
  BY <1>1, <1>3 DEF BlitInv, CountInv, Calls

(* Every step of copybit keeps both; no step of the composer touches them. *)
LEMMA BlitsGoOn ==
  ASSUME BlitInv, [DisplayNext]_displayVars
  PROVE  BlitInv' /\ (FewDestinations /\ CountInv => CountInv')
<1>1. CASE UNCHANGED cbVars
  BY <1>1 DEF cbVars, BlitInv, CountInv
<1>2. CASE CbNext
  BY <1>2, ThreadBlits, OpeningBlits, FrameBlits, ClearBlits, LayerBlits, FinishBlits DEF CbNext
<1> QED
  BY <1>1, <1>2 DEF DisplayNext, displayVars

(* Whatever fails, and however often, every blit that is drawn reads the   *)
(* buffer of its own layer, goes where it was asked to go, through two     *)
(* mapped addresses, and is turned as asked for (stretch_copybit_internal, *)
(* set_parameter_copybit).                                                 *)
THEOREM BlitsDrawAsAsked == DisplaySpec => [](cb.right)
<1>1. DisplayInit => BlitInv
  BY BlitsBegin
<1>2. BlitInv /\ [DisplayNext]_displayVars => BlitInv'
  BY BlitsGoOn
<1>3. BlitInv => cb.right
  BY DEF BlitInv, Good
<1> QED
  BY <1>1, <1>2, <1>3, PTL DEF DisplaySpec

(* With no more destinations than CopyBit has render buffers (three),      *)
(* mapped_gpu_addr besides names every mapping of the device, and what the *)
(* GPU works on is mapped (finish_copybit_internal, c2d_wait_loop),        *)
(* whatever fails.                                                         *)
THEOREM BlitsStayRight ==
  ASSUME FewDestinations
  PROVE  DisplaySpec => []BlitsAreRight
<1> DEFINE BothInv == BlitInv /\ CountInv
<1>1. DisplayInit => BothInv
  BY BlitsBegin
<1>2. BothInv /\ [DisplayNext]_displayVars => BothInv'
  BY BlitsGoOn
<1>3. BothInv => BlitsAreRight
  BY DEF BlitInv, CountInv, Good, Exact, Mapped, BlitsAreRight, BlitsDrawnRight
<1> HIDE DEF BothInv
<1> QED
  BY <1>1, <1>2, <1>3, PTL DEF DisplaySpec
===============================================================================
