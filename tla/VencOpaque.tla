------------------------------ MODULE VencOpaque ------------------------------
(***************************************************************************)
(* The input path of the encoder for opaque colour formats                 *)
(* (mUseProxyColorFormat in omx_video_base.cpp).                           *)
(*                                                                         *)
(* The client's frames are headers of meta_buffer_hdr, here Sources; an    *)
(* RGBA frame is converted into one of the component's own buffers, here   *)
(* Dests, and the client has its frame back at once; an NV12 or camera     *)
(* frame goes to the device itself.  psource_frame is the frame that is    *)
(* next and m_opq_meta_q holds the ones behind it; pdest_frame is the      *)
(* buffer that is next and m_opq_pmem_q holds the other free ones.         *)
(*                                                                         *)
(* push_input_buffer is a loop: one iteration is one step, and pc says     *)
(* where the message thread is.  execute_input_flush runs with m_lock      *)
(* held; while it does nobody else posts an event.  The state machine, the *)
(* output port and the counters are the subject of OmxVenc; the error      *)
(* events a failure causes are left out.                                   *)
(***************************************************************************)
EXTENDS Integers, Sequences, FiniteSets

CONSTANTS
  Sources, Dests, NoFrame,
  FrameKinds, \* what a frame can be: records [camera, format, filled, eos]
  MayFlush,   \* whether the client flushes the port
  MayFail,    \* the calls that may fail: "open", "convert", "use_buf", "empty"
  MaxFaults   \* bound: so many of them do

ASSUME OpaqueAssumption ==
  /\ IsFiniteSet(Sources) /\ IsFiniteSet(Dests)
  /\ Sources \cap Dests = {} /\ NoFrame \notin Sources \cup Dests
  /\ FrameKinds \subseteq [camera : BOOLEAN, format : {"rgba", "nv12", "other"},
                       filled : BOOLEAN, eos : BOOLEAN]
  /\ MayFlush \in BOOLEAN
  /\ MayFail \subseteq {"open", "convert", "use_buf", "empty"}
  /\ MaxFaults \in Nat

VARIABLES
  held,       \* the frames the client holds
  frame,      \* what each frame is
  m_etb_q,    \* ETB_OPQ and EBD events
  psource_frame, pdest_frame, m_opq_meta_q, m_opq_pmem_q,
  c2d_opened, \* the converter is open
  drv_q,      \* the buffers the device holds
  flush,      \* none, asked, running (in execute_input_flush), driver, acked
  pc,         \* take, push, flush, flush_push or stuck
  faults,     \* how many calls failed
  failed,     \* history: push_input_buffer met an error
  order       \* history: the frames not yet passed on, as the client sent them

opq == <<psource_frame, pdest_frame, m_opq_meta_q, m_opq_pmem_q>>
opqVars == <<held, frame, m_etb_q, opq, c2d_opened, drv_q, flush, pc, faults, failed, order>>

(* allocate_input_meta_buffer put every buffer of the component into       *)
(* m_opq_pmem_q.                                                           *)
OpqInit ==
  /\ held = Sources
  /\ frame \in [Sources -> FrameKinds]
  /\ m_etb_q = <<>>
  /\ psource_frame = NoFrame /\ pdest_frame = NoFrame
  /\ m_opq_meta_q = <<>>
  /\ m_opq_pmem_q \in {q \in [1 .. Cardinality(Dests) -> Dests] :
                         \A i, j \in DOMAIN q : q[i] = q[j] => i = j}
  /\ c2d_opened = FALSE
  /\ drv_q = <<>>
  /\ flush = "none" /\ pc = "take" /\ faults = 0 /\ failed = FALSE
  /\ order = <<>>
-------------------------------------------------------------------------------
Elements(q) == {q[i] : i \in DOMAIN q}
Event(id, b) == [id |-> id, buf |-> b]
Oldest(q) == IF q = <<>> THEN NoFrame ELSE Head(q)
Rest(q) == IF q = <<>> THEN <<>> ELSE Tail(q)

(* The elements of q that are in K, in the order of q.                     *)
Chosen(q, K) ==
  LET F[i \in 0 .. Len(q)] ==
        IF i = 0 THEN <<>> ELSE IF q[i] \in K THEN Append(F[i - 1], q[i]) ELSE F[i - 1]
  IN F[Len(q)]
Without(q, X) == Chosen(q, Sources \ X)

Locked == pc \in {"flush", "flush_push", "stuck"}
Fault(call) == call \in MayFail /\ faults < MaxFaults /\ faults' = faults + 1

(* A command or the end of a flush is in m_cmd_q, before anything in       *)
(* m_etb_q.                                                                *)
TakeEvent(id) ==
  /\ pc = "take" /\ flush \notin {"asked", "acked"}
  /\ m_etb_q # <<>> /\ Head(m_etb_q).id = id

GiveBack(s) ==
  /\ held' = held \cup {s}
  /\ order' = Without(order, {s})

(* push_input_buffer takes a frame and a buffer if it has none, and loops. *)
PopSource == /\ psource_frame' = IF psource_frame = NoFrame THEN Oldest(m_opq_meta_q)
                                 ELSE psource_frame
             /\ m_opq_meta_q' = IF psource_frame = NoFrame THEN Rest(m_opq_meta_q)
                                ELSE m_opq_meta_q
PopDest == /\ pdest_frame' = IF pdest_frame = NoFrame THEN Oldest(m_opq_pmem_q)
                             ELSE pdest_frame
           /\ m_opq_pmem_q' = IF pdest_frame = NoFrame THEN Rest(m_opq_pmem_q)
                              ELSE m_opq_pmem_q

(* ETB_OPQ: empty_this_buffer_opaque.  A frame of another format closes    *)
(* the converter, also if frames that need it wait.                        *)
empty_this_buffer_opaque ==
  LET s == Head(m_etb_q).buf
      f == frame[s]
      open == c2d_opened /\ (f.filled => f.format = "rgba")
      toOpen == f.filled /\ ~ open
  IN
  /\ TakeEvent("ETB_OPQ")
  /\ m_etb_q' = Tail(m_etb_q)
  /\ \/ /\ toOpen
        /\ \/ f.format = "rgba" /\ Fault("open")
           \/ f.format = "other" /\ UNCHANGED faults
        /\ c2d_opened' = FALSE
        /\ GiveBack(s)
        /\ UNCHANGED <<opq, pc>>
     \/ /\ toOpen => f.format # "other"
        /\ c2d_opened' = (open \/ (toOpen /\ f.format = "rgba"))
        /\ UNCHANGED faults
        /\ \/ /\ flush # "none"
              /\ GiveBack(s)
              /\ UNCHANGED <<opq, pc>>
           \/ /\ flush = "none" /\ psource_frame = NoFrame
              /\ psource_frame' = s
              /\ PopDest
              /\ pc' = "push"
              /\ UNCHANGED <<m_opq_meta_q, held, order>>
           \/ /\ flush = "none" /\ psource_frame # NoFrame
              /\ m_opq_meta_q' = Append(m_opq_meta_q, s)
              /\ UNCHANGED <<psource_frame, pdest_frame, m_opq_pmem_q, pc, held, order>>
  /\ UNCHANGED <<frame, drv_q, flush, failed>>


(* EBD: empty_buffer_done.  A frame goes to the client; a buffer of the    *)
(* component is the next one to fill, if it is the only one.               *)
BufferBack(b, push) ==
  \/ /\ b \in Sources
     /\ GiveBack(b)
     /\ UNCHANGED <<opq, pc>>
  \/ /\ b \in Dests /\ pdest_frame = NoFrame
     /\ pdest_frame' = b
     /\ PopSource
     /\ pc' = push
     /\ UNCHANGED <<m_opq_pmem_q, held, order>>
  \/ /\ b \in Dests /\ pdest_frame # NoFrame
     /\ m_opq_pmem_q' = Append(m_opq_pmem_q, b)
     /\ UNCHANGED <<psource_frame, pdest_frame, m_opq_meta_q, pc, held, order>>

empty_buffer_done ==
  /\ TakeEvent("EBD")
  /\ m_etb_q' = Tail(m_etb_q)
  /\ BufferBack(Head(m_etb_q).buf, "push")
  /\ UNCHANGED <<frame, c2d_opened, drv_q, flush, faults, failed>>
-------------------------------------------------------------------------------
(* The loop of push_input_buffer.                                          *)
Route(f) ==
  IF f.camera THEN "queue"
  ELSE IF f.eos \/ f.format = "rgba" THEN "convert"
  ELSE IF f.format = "nv12" THEN "queue" ELSE "bad"

Pushing == pc \in {"push", "flush_push"}
Pair == Pushing /\ psource_frame # NoFrame /\ pdest_frame # NoFrame
Leave == pc' = IF pc = "push" THEN "take" ELSE "flush"

(* A frame of an unknown format is an error too, and stays the next one.   *)
PushEnds ==
  /\ Pushing
  /\ \/ /\ psource_frame = NoFrame \/ pdest_frame = NoFrame
        /\ UNCHANGED failed
     \/ /\ Pair /\ Route(frame[psource_frame]) = "bad"
        /\ failed' = TRUE
  /\ Leave
  /\ UNCHANGED <<held, frame, m_etb_q, opq, c2d_opened, drv_q, flush, faults, order>>

(* Mutant: a refused frame gets its EBD and stays the next one.            *)
queue_meta_buffer_KeepsFrame ==
  /\ Pair /\ pc = "push"
  /\ Route(frame[psource_frame]) = "queue"
  /\ Fault("use_buf")
  /\ m_etb_q' = Append(m_etb_q, Event("EBD", psource_frame))
  /\ Leave
  /\ UNCHANGED <<held, frame, opq, c2d_opened, drv_q, flush, failed, order>>

(* Out of a flush no flush is under way here (FramesInOrder): the device   *)
(* gets the frame, or it is refused and an EBD is posted.                  *)
queue_meta_buffer ==
  /\ Pair /\ pc = "push"
  /\ Route(frame[psource_frame]) = "queue"
  /\ order' = Without(order, {psource_frame})
  /\ \/ /\ drv_q' = Append(drv_q, psource_frame)
        /\ psource_frame' = Oldest(m_opq_meta_q)
        /\ m_opq_meta_q' = Rest(m_opq_meta_q)
        /\ UNCHANGED <<pc, m_etb_q, faults, failed>>
     \/ /\ (frame[psource_frame].filled /\ Fault("use_buf")) \/ Fault("empty")
        /\ m_etb_q' = Append(m_etb_q, Event("EBD", psource_frame))
        /\ psource_frame' = NoFrame /\ failed' = TRUE
        /\ Leave
        /\ UNCHANGED <<m_opq_meta_q, drv_q>>
  /\ UNCHANGED <<held, frame, pdest_frame, m_opq_pmem_q, c2d_opened, flush>>

(* A conversion needs the converter.  For the last frame (eos) the         *)
(* description of the source memory is not set: it may be converted or not.*)
ConversionFails(f) ==
  /\ f.filled
  /\ \/ UNCHANGED faults /\ (~ c2d_opened \/ (f.eos /\ ~ f.camera))
     \/ c2d_opened /\ Fault("convert")

(* The conversion failed: psource_frame is cleared, and that is all.       *)
ConvertFailed ==
  /\ Pair
  /\ Route(frame[psource_frame]) = "convert"
  /\ ConversionFails(frame[psource_frame])
  /\ psource_frame' = NoFrame /\ failed' = TRUE
  /\ order' = Without(order, {psource_frame})
  /\ Leave
  /\ UNCHANGED <<held, frame, m_etb_q, pdest_frame, m_opq_meta_q, m_opq_pmem_q,
                 c2d_opened, drv_q, flush>>


convert_queue_buffer ==
  LET s == psource_frame IN
  /\ Pair /\ pc = "push"
  /\ Route(frame[s]) = "convert"
  /\ frame[s].filled => c2d_opened
  /\ order' = Without(order, {s})
  /\ \/ /\ drv_q' = Append(drv_q, pdest_frame)
        /\ held' = held \cup {s}
        /\ psource_frame' = Oldest(m_opq_meta_q)
        /\ m_opq_meta_q' = Rest(m_opq_meta_q)
        /\ pdest_frame' = Oldest(m_opq_pmem_q)
        /\ m_opq_pmem_q' = Rest(m_opq_pmem_q)
        /\ UNCHANGED <<pc, m_etb_q, faults, failed>>
     \/ /\ Fault("use_buf") \/ Fault("empty")
        /\ m_etb_q' = Append(m_etb_q, Event("EBD", pdest_frame))
        /\ psource_frame' = NoFrame /\ failed' = TRUE
        /\ Leave
        /\ UNCHANGED <<held, pdest_frame, m_opq_meta_q, m_opq_pmem_q, drv_q>>
  /\ UNCHANGED <<frame, c2d_opened, flush>>

(* Within a flush the same calls end in post_event, which locks m_lock a   *)
(* second time.                                                            *)
PostWhileLocked ==
  /\ Pair /\ pc = "flush_push"
  /\ Route(frame[psource_frame]) # "bad"
  /\ (Route(frame[psource_frame]) = "convert" /\ frame[psource_frame].filled) => c2d_opened
  /\ pc' = "stuck"
  /\ UNCHANGED <<held, frame, m_etb_q, opq, c2d_opened, drv_q, flush, faults, failed, order>>

push_input_buffer ==
  PushEnds \/ queue_meta_buffer \/ ConvertFailed \/ convert_queue_buffer \/ PostWhileLocked
-------------------------------------------------------------------------------
(* execute_input_flush, one queued event at a time, with m_lock held.      *)
FlushStart ==
  /\ pc = "take" /\ flush = "asked"
  /\ pc' = "flush" /\ flush' = "running"
  /\ UNCHANGED <<held, frame, m_etb_q, opq, c2d_opened, drv_q, faults, failed, order>>

FlushEvent ==
  /\ pc = "flush" /\ m_etb_q # <<>>
  /\ m_etb_q' = Tail(m_etb_q)
  /\ LET e == Head(m_etb_q) IN
       IF e.id = "ETB_OPQ" THEN GiveBack(e.buf) /\ UNCHANGED <<opq, pc>>
       ELSE BufferBack(e.buf, "flush_push")
  /\ UNCHANGED <<frame, c2d_opened, drv_q, flush, faults, failed>>


FlushFrames ==
  LET waiting == Elements(m_opq_meta_q) \cup ({psource_frame} \ {NoFrame}) IN
  /\ pc = "flush" /\ m_etb_q = <<>>
  /\ held' = held \cup waiting
  /\ order' = Without(order, waiting)
  /\ psource_frame' = NoFrame
  /\ m_opq_meta_q' = <<>>
  /\ pdest_frame' = NoFrame
  /\ m_opq_pmem_q' = IF pdest_frame = NoFrame THEN m_opq_pmem_q
                     ELSE Append(m_opq_pmem_q, pdest_frame)
  /\ pc' = "take" /\ flush' = "driver"
  /\ UNCHANGED <<frame, m_etb_q, c2d_opened, drv_q, faults, failed>>

FlushDone ==
  /\ pc = "take" /\ flush = "acked"
  /\ flush' = "none"
  /\ UNCHANGED <<held, frame, m_etb_q, opq, c2d_opened, drv_q, pc, faults, failed, order>>

MessageThread ==
  \/ empty_this_buffer_opaque \/ empty_buffer_done \/ push_input_buffer
  \/ FlushStart \/ FlushEvent \/ FlushFrames \/ FlushDone
-------------------------------------------------------------------------------
(* The client.                                                             *)
empty_this_buffer(s, f) ==
  /\ ~ Locked
  /\ s \in held
  /\ held' = held \ {s}
  /\ frame' = [frame EXCEPT ![s] = f]
  /\ m_etb_q' = Append(m_etb_q, Event("ETB_OPQ", s))
  /\ order' = Append(order, s)
  /\ UNCHANGED <<opq, c2d_opened, drv_q, flush, pc, faults, failed>>

AskFlush ==
  /\ ~ Locked
  /\ MayFlush /\ flush = "none"
  /\ flush' = "asked"
  /\ UNCHANGED <<held, frame, m_etb_q, opq, c2d_opened, drv_q, pc, faults, failed, order>>

Client == AskFlush \/ \E s \in Sources, f \in FrameKinds : empty_this_buffer(s, f)

(* The device.                                                             *)
BufferDone(i) ==
  /\ ~ Locked
  /\ m_etb_q' = Append(m_etb_q, Event("EBD", drv_q[i]))
  /\ drv_q' = SubSeq(drv_q, 1, i - 1) \o SubSeq(drv_q, i + 1, Len(drv_q))
  /\ UNCHANGED <<held, frame, opq, c2d_opened, flush, pc, faults, failed, order>>

DeviceFlushed ==
  /\ ~ Locked
  /\ flush = "driver" /\ drv_q = <<>>
  /\ flush' = "acked"
  /\ UNCHANGED <<held, frame, m_etb_q, opq, c2d_opened, drv_q, pc, faults, failed, order>>

Device == DeviceFlushed \/ \E i \in DOMAIN drv_q : BufferDone(i)

OpqNext == MessageThread \/ Client \/ Device

(* The message thread runs, and the device finishes every buffer it has.   *)
Finish(b) == \E i \in DOMAIN drv_q : drv_q[i] = b /\ BufferDone(i)
Fairness ==
  /\ WF_opqVars(MessageThread)
  /\ WF_opqVars(DeviceFlushed)
  /\ \A b \in Sources \cup Dests : WF_opqVars(Finish(b))

OpqSpec == OpqInit /\ [][OpqNext]_opqVars /\ Fairness
-------------------------------------------------------------------------------
Bufs(events) == [i \in 1 .. Len(events) |-> events[i].buf]
Count(q, b) == Cardinality({i \in DOMAIN q : q[i] = b})
Places(b) ==
  Count(Bufs(m_etb_q), b)
    + Count(m_opq_meta_q, b) + Count(m_opq_pmem_q, b) + Count(drv_q, b)
    + (IF b \in held THEN 1 ELSE 0)
    + (IF b \in {psource_frame, pdest_frame} THEN 1 ELSE 0)

(* The client's frames go through once and in order, whatever calls fail   *)
(* and however long the device keeps a conversion buffer.  No frame is in  *)
(* two places, so there are never two EBDs for one EmptyThisBuffer.  Until *)
(* a conversion or submission fails none is lost, a buffer of the          *)
(* component is free, about to be filled or with the device (which would   *)
(* encode it while the converter writes), and frames are passed on as the  *)
(* client sent them: psource_frame is older than m_opq_meta_q, which is    *)
(* older than what m_etb_q holds.  And none waits between the flush of the *)
(* queues and the device's answer, when none may be pushed.                *)
Arrived == Bufs(Chosen(m_etb_q, {Event("ETB_OPQ", s) : s \in Sources}))
FramesInOrder ==
  /\ \A s \in Sources : Places(s) <= 1
  /\ flush \in {"driver", "acked"} => psource_frame = NoFrame /\ m_opq_meta_q = <<>>
  /\ ~failed =>
       /\ \A b \in Sources \cup Dests : Places(b) = 1
       /\ order = (IF psource_frame = NoFrame THEN <<>> ELSE <<psource_frame>>)
                    \o m_opq_meta_q \o Arrived

(* execute_input_flush: "Generate EBD for all Buffers in the ETBq".        *)
FlushReturnsQueue ==
  \A s \in Sources :
    (flush = "asked" /\ Event("ETB_OPQ", s) \in Elements(m_etb_q)) ~> s \in held
===============================================================================
