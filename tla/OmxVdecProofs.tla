---------------------------- MODULE OmxVdecProofs -----------------------------
(***************************************************************************)
(* Theorems about OmxVdec, for any buffers, commands and picture sizes and *)
(* any driver calls that fail.                                             *)
(***************************************************************************)
EXTENDS OmxVdec, QueueLemmas

(***************************************************************************)
(* Who has a buffer.  The inductive invariant: what the buffer queues      *)
(* hold, that neither names a buffer twice, and that the client, the       *)
(* driver and the queues share the allocated buffers among them.  Some are *)
(* with nobody only after an error was reported: the driver may return one *)
(* with a bad status.                                                      *)
(***************************************************************************)
FtbEntries == [id : {"FTB"}, p1 : {"-"}, p2 : OutBuffers]
                \cup [id : {"FBD"}, p1 : OutBuffers, p2 : Statuses]
EtbEntries == [id : {"ETB"}, p1 : {"-"}, p2 : InBuffers]
                \cup [id : {"EBD"}, p1 : InBuffers, p2 : Statuses]

FtbTyped == m_ftb_q \in Seq(FtbEntries) /\ Once(m_ftb_q, Buffers)
EtbTyped == m_etb_q \in Seq(EtbEntries) /\ Once(m_etb_q, Buffers)
InFtb == NamedIn(m_ftb_q, Buffers)
InEtb == NamedIn(m_etb_q, Buffers)
(* Four sets that share nothing and make up the fifth.                     *)
Shared(h, d, f, e, all) ==
  /\ h \cup d \cup f \cup e = all
  /\ h \cap d = {} /\ h \cap f = {} /\ h \cap e = {}
  /\ d \cap f = {} /\ d \cap e = {} /\ f \cap e = {}
OwnInv ==
  /\ FtbTyped /\ EtbTyped
  /\ allocated \subseteq Buffers
  /\ \E known \in SUBSET allocated :
       /\ ~ m_error_propogated => known = allocated
       /\ Shared(held, drv_held, InFtb, InEtb, known)

(* The buffer an entry of a queue is about.                                *)
LEMMA BufferEntries ==
  /\ \A e \in FtbEntries :
       \/ e.id = "FTB" /\ e.p2 \in OutBuffers /\ Named(e) \cap Buffers = {e.p2}
       \/ e.id = "FBD" /\ e.p1 \in OutBuffers /\ Named(e) \cap Buffers = {e.p1}
  /\ \A e \in EtbEntries :
       \/ e.id = "ETB" /\ e.p2 \in InBuffers /\ Named(e) \cap Buffers = {e.p2}
       \/ e.id = "EBD" /\ e.p1 \in InBuffers /\ Named(e) \cap Buffers = {e.p1}
<1>1. \A x \in Statuses : x \notin Buffers
  BY VdecAssumption
<1>2. \A b \in Buffers, x \in Statuses : {x, b} \cap Buffers = {b} /\ {b, x} \cap Buffers = {b}
  BY <1>1
<1>3. InBuffers \subseteq Buffers /\ OutBuffers \subseteq Buffers /\ "-" \in Statuses
  BY DEF Buffers, Statuses
<1>4. \A e \in FtbEntries :
        \/ e.id = "FTB" /\ e.p2 \in OutBuffers /\ Named(e) = {"-", e.p2}
        \/ e.id = "FBD" /\ e.p1 \in OutBuffers /\ e.p2 \in Statuses /\ Named(e) = {e.p1, e.p2}
  BY DEF FtbEntries, Named
<1>5. \A e \in EtbEntries :
        \/ e.id = "ETB" /\ e.p2 \in InBuffers /\ Named(e) = {"-", e.p2}
        \/ e.id = "EBD" /\ e.p1 \in InBuffers /\ e.p2 \in Statuses /\ Named(e) = {e.p1, e.p2}
  BY DEF EtbEntries, Named
<1>6. \A e \in FtbEntries :
        \/ e.id = "FTB" /\ e.p2 \in OutBuffers /\ Named(e) \cap Buffers = {e.p2}
        \/ e.id = "FBD" /\ e.p1 \in OutBuffers /\ Named(e) \cap Buffers = {e.p1}
  BY <1>2, <1>3, <1>4
<1>7. \A e \in EtbEntries :
        \/ e.id = "ETB" /\ e.p2 \in InBuffers /\ Named(e) \cap Buffers = {e.p2}
        \/ e.id = "EBD" /\ e.p1 \in InBuffers /\ Named(e) \cap Buffers = {e.p1}
  BY <1>2, <1>3, <1>5
<1> QED
  BY <1>6, <1>7

(* A step that moves no buffer; an error reported may lose some.           *)
LEMMA NoneMoves ==
  ASSUME OwnInv, m_error_propogated => m_error_propogated',
         UNCHANGED <<held, drv_held, m_ftb_q, m_etb_q, allocated>>
  PROVE  OwnInv'
  BY DEF OwnInv, FtbTyped, EtbTyped, InFtb, InEtb

(* What the submissions and the finished buffers of a queue are.           *)
LEMMA QueueContents ==
  ASSUME OwnInv
  PROVE  /\ Submitted(m_ftb_q) \cup Done(m_ftb_q) = InFtb
         /\ Submitted(m_etb_q) \cup Done(m_etb_q) = InEtb
<1>1. m_ftb_q \in Seq(FtbEntries) /\ m_etb_q \in Seq(EtbEntries)
  BY DEF OwnInv, FtbTyped, EtbTyped
<1>2. \A i \in DOMAIN m_ftb_q :
        \/ /\ m_ftb_q[i].id = "FTB" /\ m_ftb_q[i].p2 \in Buffers
           /\ Named(m_ftb_q[i]) \cap Buffers = {m_ftb_q[i].p2}
        \/ /\ m_ftb_q[i].id = "FBD" /\ m_ftb_q[i].p1 \in Buffers
           /\ Named(m_ftb_q[i]) \cap Buffers = {m_ftb_q[i].p1}
  BY <1>1, BufferEntries DEF Buffers
<1>3. \A i \in DOMAIN m_etb_q :
        \/ /\ m_etb_q[i].id = "ETB" /\ m_etb_q[i].p2 \in Buffers
           /\ Named(m_etb_q[i]) \cap Buffers = {m_etb_q[i].p2}
        \/ /\ m_etb_q[i].id = "EBD" /\ m_etb_q[i].p1 \in Buffers
           /\ Named(m_etb_q[i]) \cap Buffers = {m_etb_q[i].p1}
  BY <1>1, BufferEntries DEF Buffers
<1>4. Submitted(m_ftb_q) \cup Done(m_ftb_q) = InFtb
  BY <1>2 DEF Submitted, Done, Elements, InFtb, NamedIn
<1>5. Submitted(m_etb_q) \cup Done(m_etb_q) = InEtb
  BY <1>3 DEF Submitted, Done, Elements, InEtb, NamedIn
<1> QED
  BY <1>4, <1>5

(* The invariant after a step, from the buffers still accounted for.       *)
LEMMA OwnFrom ==
  ASSUME FtbTyped', EtbTyped', allocated' \subseteq Buffers,
         NEW known \in SUBSET (allocated'), ~ m_error_propogated' => known = allocated',
         Shared(held', drv_held', InFtb', InEtb', known)
  PROVE  OwnInv'
  BY DEF OwnInv

(* An emptied m_ftb_q names no buffer.                                     *)
LEMMA EmptyFtb == m_ftb_q' = << >> => FtbTyped' /\ InFtb' = {}
<1>1. << >> \in Seq(FtbEntries) /\ Once(<< >>, Buffers) /\ NamedIn(<< >>, Buffers) = {}
  BY EmptyNamed
<1> QED
  BY <1>1 DEF FtbTyped, InFtb

(* An emptied m_etb_q names no buffer.                                     *)
LEMMA EmptyEtb == m_etb_q' = << >> => EtbTyped' /\ InEtb' = {}
<1>1. << >> \in Seq(EtbEntries) /\ Once(<< >>, Buffers) /\ NamedIn(<< >>, Buffers) = {}
  BY EmptyNamed
<1> QED
  BY <1>1 DEF EtbTyped, InEtb

(* execute_input_flush and execute_output_flush return what is queued.     *)
LEMMA FlushMoves ==
  ASSUME OwnInv, NEW port \in PortNames, execute_flush(port),
         m_error_propogated => m_error_propogated', UNCHANGED <<drv_held, allocated>>
  PROVE  OwnInv'
<1>1. PICK known \in SUBSET allocated :
        /\ ~ m_error_propogated => known = allocated
        /\ Shared(held, drv_held, InFtb, InEtb, known)
  BY DEF OwnInv
<1>2. CASE port = "IN"
  <2>1. m_etb_q' = << >> /\ m_ftb_q' = m_ftb_q /\ held' = held \cup InEtb
    BY <1>2, QueueContents DEF execute_flush
  <2>2. EtbTyped' /\ InEtb' = {} /\ FtbTyped' /\ InFtb' = InFtb
    BY <2>1, EmptyEtb DEF OwnInv, FtbTyped, InFtb
  <2>3. Shared(held', drv_held', InFtb', InEtb', known)
    BY <1>1, <2>1, <2>2 DEF Shared
  <2> QED
    BY <1>1, <2>2, <2>3, OwnFrom DEF OwnInv
<1>3. CASE port = "OUT"
  <2>1. m_ftb_q' = << >> /\ m_etb_q' = m_etb_q /\ held' = held \cup InFtb
    BY <1>3, QueueContents DEF execute_flush
  <2>2. FtbTyped' /\ InFtb' = {} /\ EtbTyped' /\ InEtb' = InEtb
    BY <2>1, EmptyFtb DEF OwnInv, EtbTyped, InEtb
  <2>3. Shared(held', drv_held', InFtb', InEtb', known)
    BY <1>1, <2>1, <2>2 DEF Shared
  <2> QED
    BY <1>1, <2>2, <2>3, OwnFrom DEF OwnInv
<1> QED
  BY <1>2, <1>3 DEF PortNames

(* Taking out the finished buffers of a queue leaves the others in it.     *)
LEMMA DoneTaken ==
  ASSUME NEW E, NEW q \in Seq(E), Once(q, Buffers), NEW id \in {"EBD", "FBD"},
         \A e \in E : \/ e.id \notin {"EBD", "FBD"}
                      \/ e.id = id /\ e.p1 \in Buffers /\ Named(e) \cap Buffers = {e.p1}
  PROVE  /\ Others(q, id) \in Seq(E) /\ Once(Others(q, id), Buffers)
         /\ NamedIn(Others(q, id), Buffers) \cup Done(q) = NamedIn(q, Buffers)
         /\ NamedIn(Others(q, id), Buffers) \cap Done(q) = {}
<1> DEFINE r == Others(q, id)
<1>1. r = Kept(q, id)
  BY DEF Others, Kept, Keeps, KeepStep
<1>2. /\ Kept(q, id) \in Seq({e \in E : e.id # id})
      /\ NamedIn(Kept(q, id), Buffers)
           = {b \in Buffers : \E i \in DOMAIN q : q[i].id # id /\ b \in Named(q[i])}
      /\ Once(q, Buffers) => Once(Kept(q, id), Buffers)
  BY ONLY q \in Seq(E), KeptNamed
<1> HIDE DEF r
<1>3. r \in Seq(E)
  BY <1>1, <1>2, SeqMonotonic
<1>4. \A i \in DOMAIN q :
        \/ q[i].id \notin {"EBD", "FBD"}
        \/ q[i].id = id /\ q[i].p1 \in Buffers /\ Named(q[i]) \cap Buffers = {q[i].p1}
  OBVIOUS
<1>5. Done(q) = {b \in Buffers : \E i \in DOMAIN q : q[i].id = id /\ b \in Named(q[i])}
  BY <1>4 DEF Done, Elements
<1>6. NamedIn(r, Buffers)
        = {b \in Buffers : \E i \in DOMAIN q : q[i].id # id /\ b \in Named(q[i])}
  BY <1>1, <1>2
<1>7. NamedIn(r, Buffers) \cup Done(q) = NamedIn(q, Buffers)
  BY <1>5, <1>6 DEF NamedIn
<1>8. NamedIn(r, Buffers) \cap Done(q) = {}
  BY <1>5, <1>6 DEF Once
<1> QED
  BY <1>1, <1>2, <1>3, <1>7, <1>8 DEF r

(* complete_pending_buffer_done_cbs returns the finished buffers.          *)
LEMMA PendingMoves ==
  ASSUME OwnInv, complete_pending_buffer_done_cbs,
         m_error_propogated => m_error_propogated', UNCHANGED <<drv_held, allocated>>
  PROVE  OwnInv'
<1>1. PICK known \in SUBSET allocated :
        /\ ~ m_error_propogated => known = allocated
        /\ Shared(held, drv_held, InFtb, InEtb, known)
  BY DEF OwnInv
<1>2. /\ m_ftb_q' \in Seq(FtbEntries) /\ Once(m_ftb_q, Buffers)'
      /\ InFtb' \cup Done(m_ftb_q) = InFtb /\ InFtb' \cap Done(m_ftb_q) = {}
  <2> DEFINE r == Others(m_ftb_q, "FBD")
  <2>1. m_ftb_q \in Seq(FtbEntries) /\ Once(m_ftb_q, Buffers)
    BY DEF OwnInv, FtbTyped
  <2>2. \A e \in FtbEntries : \/ e.id = "FTB"
                              \/ e.id = "FBD" /\ e.p1 \in Buffers /\ Named(e) \cap Buffers = {e.p1}
    BY BufferEntries DEF Buffers
  <2>3. /\ r \in Seq(FtbEntries) /\ Once(r, Buffers)
        /\ NamedIn(r, Buffers) \cup Done(m_ftb_q) = NamedIn(m_ftb_q, Buffers)
        /\ NamedIn(r, Buffers) \cap Done(m_ftb_q) = {}
    BY <2>1, <2>2, DoneTaken
  <2>4. m_ftb_q' = r
    BY DEF complete_pending_buffer_done_cbs
  <2> HIDE DEF r
  <2> QED
    BY <2>3, <2>4 DEF InFtb
<1>3. /\ m_etb_q' \in Seq(EtbEntries) /\ Once(m_etb_q, Buffers)'
      /\ InEtb' \cup Done(m_etb_q) = InEtb /\ InEtb' \cap Done(m_etb_q) = {}
  <2> DEFINE r == Others(m_etb_q, "EBD")
  <2>1. m_etb_q \in Seq(EtbEntries) /\ Once(m_etb_q, Buffers)
    BY DEF OwnInv, EtbTyped
  <2>2. \A e \in EtbEntries : \/ e.id = "ETB"
                              \/ e.id = "EBD" /\ e.p1 \in Buffers /\ Named(e) \cap Buffers = {e.p1}
    BY BufferEntries DEF Buffers
  <2>3. /\ r \in Seq(EtbEntries) /\ Once(r, Buffers)
        /\ NamedIn(r, Buffers) \cup Done(m_etb_q) = NamedIn(m_etb_q, Buffers)
        /\ NamedIn(r, Buffers) \cap Done(m_etb_q) = {}
    BY <2>1, <2>2, DoneTaken
  <2>4. m_etb_q' = r
    BY DEF complete_pending_buffer_done_cbs
  <2> HIDE DEF r
  <2> QED
    BY <2>3, <2>4 DEF InEtb
<1>4. held' = held \cup Done(m_ftb_q) \cup Done(m_etb_q)
  BY DEF complete_pending_buffer_done_cbs
<1>5. Shared(held', drv_held', InFtb', InEtb', known)
  BY <1>1, <1>2, <1>3, <1>4 DEF Shared
<1> QED
  BY <1>1, <1>2, <1>3, <1>5, OwnFrom DEF OwnInv, FtbTyped, EtbTyped

(* A command moves no buffer: its flushes only ask the driver.             *)
LEMMA QuietProxy ==
  ASSUME OwnInv, NEW cmd, NEW arg, Proxy(cmd, arg), UNCHANGED drv_held,
         m_error_propogated => m_error_propogated'
  PROVE  OwnInv'
  BY NoneMoves DEF Proxy

(* No branch of send_command_proxy creates a second owner of a buffer.     *)
LEMMA ProxyOwn == OwnInv /\ send_command_proxy => OwnInv'
<1> SUFFICES ASSUME OwnInv, send_command_proxy PROVE OwnInv'
  OBVIOUS
<1>1. CASE Loaded_Idle
  BY <1>1, QuietProxy DEF Loaded_Idle, Quiet, driver
<1>2. ASSUME NEW eState, Granted(eState) PROVE OwnInv'
  BY <1>2, QuietProxy DEF Granted, Quiet, driver
<1>3. CASE Idle_Loaded
  BY <1>3, QuietProxy DEF Idle_Loaded, Quiet, driver
<1>4. CASE Idle_Executing
  <2>1. UNCHANGED drv_held /\ (m_error_propogated => m_error_propogated')
    BY <1>4 DEF Idle_Executing, Accept, Refuse, Quiet, omx_report_error, driver
  <2> QED
    BY <1>4, <2>1, QuietProxy DEF Idle_Executing
<1>5. CASE Idle_Pause
  <2>1. UNCHANGED drv_held /\ (m_error_propogated => m_error_propogated')
    BY <1>5 DEF Idle_Pause, Accept, Refuse, Quiet, omx_report_error, driver
  <2> QED
    BY <1>5, <2>1, QuietProxy DEF Idle_Pause
<1>6. CASE Executing_Idle
  <2>1. UNCHANGED drv_held /\ (m_error_propogated => m_error_propogated')
    BY <1>6 DEF Executing_Idle, execute_omx_flush, Accept, Refuse, Quiet, driver
  <2> QED
    BY <1>6, <2>1, QuietProxy DEF Executing_Idle
<1>7. CASE Executing_Pause
  <2>1. UNCHANGED drv_held /\ (m_error_propogated => m_error_propogated')
    BY <1>7 DEF Executing_Pause, Accept, Refuse, Quiet, driver
  <2> QED
    BY <1>7, <2>1, QuietProxy DEF Executing_Pause
<1>8. CASE Pause_Executing
  <2>1. UNCHANGED drv_held /\ (m_error_propogated => m_error_propogated')
    BY <1>8 DEF Pause_Executing, Accept, Refuse, Quiet, driver
  <2> QED
    BY <1>8, <2>1, QuietProxy DEF Pause_Executing
<1>9. ASSUME NEW eState, Rejected(eState) PROVE OwnInv'
  BY <1>9, QuietProxy DEF Rejected, Quiet, driver
<1>10. ASSUME NEW arg, FlushCommand(arg) PROVE OwnInv'
  <2>1. UNCHANGED drv_held /\ (m_error_propogated => m_error_propogated')
    BY <1>10 DEF FlushCommand, execute_omx_flush, Accept, Refuse, Quiet, driver
  <2> QED
    BY <1>10, <2>1, QuietProxy DEF FlushCommand
<1>11. ASSUME NEW arg, PortEnable(arg) \/ PortDisable(arg) \/ PortDisableRunning(arg)
       PROVE  OwnInv'
  BY <1>11, QuietProxy DEF PortEnable, PortDisable, PortDisableRunning, Quiet, driver
<1>12. CASE PortDisableFlush
  <2>1. UNCHANGED <<held, drv_held, m_ftb_q, m_etb_q, allocated, m_error_propogated>>
    BY <1>12 DEF PortDisableFlush, Refuse, queues, errors, client, driver
  <2> QED
    BY <2>1, NoneMoves
<1>13. ASSUME NEW cmd, NEW arg, InvalidCommand(cmd, arg) PROVE OwnInv'
  BY <1>13, QuietProxy DEF InvalidCommand, Quiet, driver
<1> QED
  BY <1>1, <1>2, <1>3, <1>4, <1>5, <1>6, <1>7, <1>8, <1>9, <1>10, <1>11, <1>12, <1>13
  DEF send_command_proxy

(* An event that moves no buffer.                                          *)
LEMMA QuietTake ==
  ASSUME OwnInv, NEW id, Take(id), UNCHANGED <<m_ftb_q, m_etb_q, held, drv_held>>,
         m_error_propogated => m_error_propogated'
  PROVE  OwnInv'
  BY NoneMoves DEF Take

(* The events of the message thread keep it: the end of a flush and the    *)
(* two acknowledgements that return pending buffers move some.             *)
LEMMA EventOwn ==
  ASSUME OwnInv,
         \/ StateSetEvent \/ ErrorEvents \/ PortDisableEvent \/ OtherEvents
         \/ \E port \in PortNames : FlushDone(port)
         \/ START_DONE \/ PAUSE_DONE \/ RESUME_DONE \/ STOP_DONE
         \/ PORT_RECONFIG \/ HARDWARE_ERROR
  PROVE  OwnInv'
<1>1. CASE StateSetEvent \/ OtherEvents
  BY <1>1, QuietTake DEF StateSetEvent, OtherEvents, errors, driver
<1>2. CASE ErrorEvents
  <2>1. m_error_propogated => m_error_propogated'
    BY <1>2 DEF ErrorEvents, omx_report_error
  <2> QED
    BY <1>2, <2>1, QuietTake DEF ErrorEvents, driver
<1>3. CASE PortDisableEvent
  <2>1. m_error_propogated => m_error_propogated'
    BY <1>3 DEF PortDisableEvent, omx_report_error, Quiet
  <2> QED
    BY <1>3, <2>1, QuietTake DEF PortDisableEvent, driver
<1>4. ASSUME NEW port \in PortNames, FlushDone(port) PROVE OwnInv'
  <2>1. UNCHANGED <<drv_held, allocated>> /\ (m_error_propogated => m_error_propogated')
    <3>1. UNCHANGED drv_held
      BY <1>4 DEF FlushDone, Accept, Refuse, driver
    <3>2. m_error_propogated => m_error_propogated'
      BY <1>4 DEF FlushDone, Quiet, omx_report_error
    <3> QED
      BY <1>4, <3>1, <3>2 DEF FlushDone
  <2>2. CASE port \in flushing
    <3>1. execute_flush(port)
      BY <1>4, <2>2 DEF FlushDone
    <3> QED
      BY <2>1, <3>1, FlushMoves
  <2>3. CASE port \notin flushing
    <3>1. UNCHANGED <<m_ftb_q, m_etb_q, held>>
      BY <1>4, <2>3 DEF FlushDone
    <3> QED
      BY <2>1, <3>1, NoneMoves
  <2> QED
    BY <2>2, <2>3
<1>5. CASE START_DONE
  <2>1. UNCHANGED drv_held /\ (m_error_propogated => m_error_propogated')
    BY <1>5 DEF START_DONE, Accept, Refuse, Enter, Stay, ReportStay, Quiet, omx_report_error, driver
  <2> QED
    BY <1>5, <2>1, QuietTake DEF START_DONE
<1>6. ASSUME NEW id, NEW state, NEW bit, StopOrPauseDone(id, state, bit) PROVE OwnInv'
  <2>1. /\ UNCHANGED <<drv_held, allocated>>
        /\ m_error_propogated => m_error_propogated'
    BY <1>6 DEF StopOrPauseDone, Take, Enter, Stay, ReportStay, Quiet, omx_report_error, driver
  <2>2. complete_pending_buffer_done_cbs \/ UNCHANGED <<m_ftb_q, m_etb_q, held>>
    BY <1>6 DEF StopOrPauseDone
  <2> QED
    BY <2>1, <2>2, PendingMoves, NoneMoves
<1>7. CASE RESUME_DONE
  <2>1. m_error_propogated => m_error_propogated'
    BY <1>7 DEF RESUME_DONE, Enter, Stay, ReportStay, Quiet, omx_report_error
  <2> QED
    BY <1>7, <2>1, QuietTake DEF RESUME_DONE, driver
<1>8. CASE PORT_RECONFIG
  <2>1. m_error_propogated => m_error_propogated'
    BY <1>8 DEF PORT_RECONFIG, Quiet, omx_report_error
  <2> QED
    BY <1>8, <2>1, QuietTake DEF PORT_RECONFIG, driver
<1>9. CASE HARDWARE_ERROR
  <2>1. m_error_propogated => m_error_propogated'
    BY <1>9 DEF HARDWARE_ERROR, ReportStay, omx_report_error
  <2> QED
    BY <1>9, <2>1, QuietTake DEF HARDWARE_ERROR, driver
<1> QED
  BY <1>1, <1>2, <1>3, <1>4, <1>5, <1>6, <1>7, <1>8, <1>9 DEF PAUSE_DONE, STOP_DONE

(* The head of m_ftb_q taken, and that of m_etb_q.                         *)
LEMMA FtbTaken ==
  ASSUME OwnInv, m_ftb_q # << >>, m_ftb_q' = Tail(m_ftb_q), NEW b,
         \/ Head(m_ftb_q).id = "FTB" /\ b = Head(m_ftb_q).p2
         \/ Head(m_ftb_q).id = "FBD" /\ b = Head(m_ftb_q).p1
  PROVE  b \in OutBuffers /\ FtbTyped' /\ InFtb = InFtb' \cup {b} /\ b \notin InFtb'
<1>1. m_ftb_q \in Seq(FtbEntries) /\ Once(m_ftb_q, Buffers) /\ Head(m_ftb_q) \in FtbEntries
  BY DEF OwnInv, FtbTyped
<1>2. b \in OutBuffers /\ b \in Buffers /\ Named(Head(m_ftb_q)) \cap Buffers = {b}
  BY <1>1, BufferEntries DEF Buffers
<1>3. /\ Tail(m_ftb_q) \in Seq(FtbEntries) /\ Once(Tail(m_ftb_q), Buffers)
      /\ NamedIn(m_ftb_q, Buffers) = NamedIn(Tail(m_ftb_q), Buffers) \cup {b}
      /\ b \notin NamedIn(Tail(m_ftb_q), Buffers)
  BY <1>1, <1>2, EntryTaken
<1> QED
  BY <1>2, <1>3 DEF FtbTyped, InFtb

(* The entry may come back at the end as another about the same buffer.    *)
LEMMA EtbTaken ==
  ASSUME OwnInv, m_etb_q # << >>, NEW b,
         \/ Head(m_etb_q).id = "ETB" /\ b = Head(m_etb_q).p2
         \/ Head(m_etb_q).id = "EBD" /\ b = Head(m_etb_q).p1
  PROVE  /\ b \in InBuffers
         /\ m_etb_q' = Tail(m_etb_q) =>
              EtbTyped' /\ InEtb = InEtb' \cup {b} /\ b \notin InEtb'
         /\ m_etb_q' = Append(Tail(m_etb_q), Entry("EBD", b, "ok")) =>
              EtbTyped' /\ InEtb' = InEtb
<1> DEFINE t == Tail(m_etb_q)
           e == Entry("EBD", b, "ok")
<1>1. m_etb_q \in Seq(EtbEntries) /\ Once(m_etb_q, Buffers) /\ Head(m_etb_q) \in EtbEntries
  BY DEF OwnInv, EtbTyped
<1>2. b \in InBuffers /\ b \in Buffers /\ Named(Head(m_etb_q)) \cap Buffers = {b}
  BY <1>1, BufferEntries DEF Buffers
<1>3. /\ t \in Seq(EtbEntries) /\ Once(t, Buffers)
      /\ NamedIn(m_etb_q, Buffers) = NamedIn(t, Buffers) \cup {b}
      /\ b \notin NamedIn(t, Buffers)
  BY <1>1, <1>2, EntryTaken
<1>4. e \in EtbEntries /\ e.id = "EBD" /\ e.p1 = b
  BY <1>2 DEF Entry, EtbEntries, Statuses
<1>5. Named(e) \cap Buffers = {b}
  BY <1>4, BufferEntries
<1> HIDE DEF t, e
<1>6. /\ Append(t, e) \in Seq(EtbEntries) /\ Once(Append(t, e), Buffers)
      /\ NamedIn(Append(t, e), Buffers) = NamedIn(t, Buffers) \cup {b}
  BY <1>2, <1>3, <1>4, <1>5, EntryAdded
<1>7. m_etb_q' = t => EtbTyped' /\ InEtb = InEtb' \cup {b} /\ b \notin InEtb'
  BY <1>3 DEF EtbTyped, InEtb
<1>8. m_etb_q' = Append(t, e) => EtbTyped' /\ InEtb' = InEtb
  BY <1>3, <1>6 DEF EtbTyped, InEtb
<1> QED
  BY <1>2, <1>7, <1>8 DEF t, e

(* fill_this_buffer_proxy passes a buffer to the driver, or back.          *)
LEMMA FillProxyOwn == OwnInv /\ fill_this_buffer_proxy => OwnInv'
<1> SUFFICES ASSUME OwnInv, fill_this_buffer_proxy PROVE OwnInv'
  OBVIOUS
<1> DEFINE b == Head(m_ftb_q).p2
<1>1. PICK known \in SUBSET allocated :
        /\ ~ m_error_propogated => known = allocated
        /\ Shared(held, drv_held, InFtb, InEtb, known)
  BY DEF OwnInv
<1>2. /\ m_ftb_q # << >> /\ m_ftb_q' = Tail(m_ftb_q) /\ Head(m_ftb_q).id = "FTB"
      /\ UNCHANGED <<m_etb_q, allocated>>
  BY DEF fill_this_buffer_proxy, TakeFtb, ports
<1>3. b \in OutBuffers /\ FtbTyped' /\ InFtb = InFtb' \cup {b} /\ b \notin InFtb'
  BY <1>2, FtbTaken
<1>4. /\ \/ held' = held \cup {b} /\ UNCHANGED drv_held
         \/ UNCHANGED held /\ drv_held' = drv_held \cup {b}
      /\ m_error_propogated => m_error_propogated'
  BY DEF fill_this_buffer_proxy, Refuse, Quiet, omx_report_error, driver
<1> HIDE DEF b
<1>5. EtbTyped' /\ InEtb' = InEtb
  BY <1>2 DEF OwnInv, EtbTyped, InEtb
<1>6. Shared(held', drv_held', InFtb', InEtb', known)
  BY <1>1, <1>3, <1>4, <1>5 DEF Shared
<1> QED
  BY <1>1, <1>2, <1>3, <1>4, <1>5, <1>6, OwnFrom DEF OwnInv

(* fill_buffer_done returns it to the client; with a bad status it does    *)
(* not, and the client was told of an error.                               *)
LEMMA FillDoneOwn == OwnInv /\ fill_buffer_done => OwnInv'
<1> SUFFICES ASSUME OwnInv, fill_buffer_done PROVE OwnInv'
  OBVIOUS
<1> DEFINE b == Head(m_ftb_q).p1
<1>1. PICK known \in SUBSET allocated :
        /\ ~ m_error_propogated => known = allocated
        /\ Shared(held, drv_held, InFtb, InEtb, known)
  BY DEF OwnInv
<1>2. /\ m_ftb_q # << >> /\ m_ftb_q' = Tail(m_ftb_q) /\ Head(m_ftb_q).id = "FBD"
      /\ UNCHANGED <<m_etb_q, allocated, drv_held>>
  BY DEF fill_buffer_done, TakeFtb, ports, driver
<1>3. b \in OutBuffers /\ FtbTyped' /\ InFtb = InFtb' \cup {b} /\ b \notin InFtb'
  BY <1>2, FtbTaken
<1>4. \/ held' = held \cup {b} /\ (m_error_propogated => m_error_propogated')
      \/ UNCHANGED held /\ m_error_propogated'
  BY DEF fill_buffer_done, Quiet, omx_report_error
<1> HIDE DEF b
<1>5. EtbTyped' /\ InEtb' = InEtb
  BY <1>2 DEF OwnInv, EtbTyped, InEtb
<1>6. CASE held' = held \cup {b} /\ (m_error_propogated => m_error_propogated')
  <2>1. Shared(held', drv_held', InFtb', InEtb', known)
    BY <1>1, <1>2, <1>3, <1>5, <1>6 DEF Shared
  <2> QED
    BY <1>1, <1>2, <1>3, <1>5, <1>6, <2>1, OwnFrom DEF OwnInv
<1>7. CASE UNCHANGED held /\ m_error_propogated'
  <2>1. Shared(held', drv_held', InFtb', InEtb', known \ {b})
    BY <1>1, <1>2, <1>3, <1>5, <1>7 DEF Shared
  <2>2. known \ {b} \in SUBSET (allocated')
    BY <1>1, <1>2
  <2> QED
    BY <1>2, <1>3, <1>5, <1>7, <2>1, <2>2, OwnFrom DEF OwnInv
<1> QED
  BY <1>4, <1>6, <1>7

(* empty_this_buffer_proxy passes a buffer to the driver, or back behind   *)
(* m_etb_q.                                                                *)
LEMMA EmptyProxyOwn == OwnInv /\ empty_this_buffer_proxy => OwnInv'
<1> SUFFICES ASSUME OwnInv, empty_this_buffer_proxy PROVE OwnInv'
  OBVIOUS
<1> DEFINE b == Head(m_etb_q).p2
<1>1. PICK known \in SUBSET allocated :
        /\ ~ m_error_propogated => known = allocated
        /\ Shared(held, drv_held, InFtb, InEtb, known)
  BY DEF OwnInv
<1>2. /\ m_etb_q # << >> /\ Head(m_etb_q).id = "ETB"
      /\ UNCHANGED <<m_ftb_q, allocated, held>>
  BY DEF empty_this_buffer_proxy, TakeEtb, ports
<1>3. /\ \/ m_etb_q' = Append(Tail(m_etb_q), Entry("EBD", b, "ok")) /\ UNCHANGED drv_held
         \/ m_etb_q' = Tail(m_etb_q) /\ drv_held' = drv_held \cup {b}
      /\ m_error_propogated => m_error_propogated'
  BY DEF empty_this_buffer_proxy, Refuse, Quiet, omx_report_error, driver
<1> HIDE DEF b
<1>4. /\ m_etb_q' = Tail(m_etb_q) => EtbTyped' /\ InEtb = InEtb' \cup {b} /\ b \notin InEtb'
      /\ m_etb_q' = Append(Tail(m_etb_q), Entry("EBD", b, "ok")) => EtbTyped' /\ InEtb' = InEtb
  BY <1>2, EtbTaken DEF b
<1>5. FtbTyped' /\ InFtb' = InFtb
  BY <1>2 DEF OwnInv, FtbTyped, InFtb
<1>6. Shared(held', drv_held', InFtb', InEtb', known) /\ EtbTyped'
  BY <1>1, <1>2, <1>3, <1>4, <1>5 DEF Shared
<1> QED
  BY <1>1, <1>2, <1>3, <1>5, <1>6, OwnFrom DEF OwnInv

(* empty_buffer_done returns it to the client, or reports a bad status.    *)
LEMMA EmptyDoneOwn == OwnInv /\ empty_buffer_done => OwnInv'
<1> SUFFICES ASSUME OwnInv, empty_buffer_done PROVE OwnInv'
  OBVIOUS
<1> DEFINE b == Head(m_etb_q).p1
<1>1. PICK known \in SUBSET allocated :
        /\ ~ m_error_propogated => known = allocated
        /\ Shared(held, drv_held, InFtb, InEtb, known)
  BY DEF OwnInv
<1>2. /\ m_etb_q # << >> /\ m_etb_q' = Tail(m_etb_q) /\ Head(m_etb_q).id = "EBD"
      /\ UNCHANGED <<m_ftb_q, allocated, drv_held>>
  BY DEF empty_buffer_done, TakeEtb, ports, driver
<1>3. \/ held' = held \cup {b} /\ (m_error_propogated => m_error_propogated')
      \/ UNCHANGED held /\ m_error_propogated'
  BY DEF empty_buffer_done, Quiet, omx_report_error
<1> HIDE DEF b
<1>4. EtbTyped' /\ InEtb = InEtb' \cup {b} /\ b \notin InEtb'
  BY <1>2, EtbTaken DEF b
<1>5. FtbTyped' /\ InFtb' = InFtb
  BY <1>2 DEF OwnInv, FtbTyped, InFtb
<1>6. CASE held' = held \cup {b} /\ (m_error_propogated => m_error_propogated')
  <2>1. Shared(held', drv_held', InFtb', InEtb', known)
    BY <1>1, <1>2, <1>4, <1>5, <1>6 DEF Shared
  <2> QED
    BY <1>1, <1>2, <1>4, <1>5, <1>6, <2>1, OwnFrom DEF OwnInv
<1>7. CASE UNCHANGED held /\ m_error_propogated'
  <2>1. Shared(held', drv_held', InFtb', InEtb', known \ {b})
    BY <1>1, <1>2, <1>4, <1>5, <1>7 DEF Shared
  <2>2. known \ {b} \in SUBSET (allocated')
    BY <1>1, <1>2
  <2> QED
    BY <1>2, <1>4, <1>5, <1>7, <2>1, <2>2, OwnFrom DEF OwnInv
<1> QED
  BY <1>3, <1>6, <1>7

(* allocate_buffer and use_buffer give the client a buffer no one had;     *)
(* free_buffer takes from it one it has.                                   *)
LEMMA SlotOwn ==
  ASSUME OwnInv, NEW b \in Buffers, AllocateBuffer(b) \/ FreeBuffer(b)
  PROVE  OwnInv'
<1>1. PICK known \in SUBSET allocated :
        /\ ~ m_error_propogated => known = allocated
        /\ Shared(held, drv_held, InFtb, InEtb, known)
  BY DEF OwnInv
<1>2. UNCHANGED <<drv_held, m_ftb_q, m_etb_q, m_error_propogated>>
  BY DEF AllocateBuffer, FreeBuffer, component, errors, driver
<1>3. FtbTyped' /\ EtbTyped' /\ InFtb' = InFtb /\ InEtb' = InEtb
  BY <1>2 DEF OwnInv, FtbTyped, EtbTyped, InFtb, InEtb
<1>4. CASE AllocateBuffer(b)
  <2>1. b \notin allocated /\ allocated' = allocated \cup {b} /\ held' = held \cup {b}
    BY <1>4 DEF AllocateBuffer
  <2>2. Shared(held', drv_held', InFtb', InEtb', known \cup {b})
    BY <1>1, <1>2, <1>3, <2>1 DEF Shared
  <2>3. known \cup {b} \in SUBSET (allocated')
    BY <2>1
  <2> QED
    BY <1>1, <1>2, <1>3, <2>1, <2>2, <2>3, OwnFrom DEF OwnInv
<1>5. CASE FreeBuffer(b)
  <2>1. /\ b \in held
        /\ \/ UNCHANGED <<allocated, held>>
           \/ allocated' = allocated \ {b} /\ held' = held \ {b}
    <3>1. CASE UNCHANGED <<ports, held>>
      BY <1>5, <3>1 DEF FreeBuffer, ports
    <3>2. CASE ~ UNCHANGED <<ports, held>>
      BY <1>5, <3>2 DEF FreeBuffer
    <3> QED
      BY <3>1, <3>2
  <2>2. CASE UNCHANGED <<allocated, held>>
    BY <1>2, <2>2, NoneMoves
  <2>3. CASE allocated' = allocated \ {b} /\ held' = held \ {b}
    <3>1. Shared(held', drv_held', InFtb', InEtb', known \ {b})
      BY <1>1, <1>2, <1>3, <2>1, <2>3 DEF Shared
    <3>2. known \ {b} \in SUBSET (allocated')
      BY <2>3
    <3> QED
      BY <1>1, <1>2, <1>3, <2>3, <3>1, <3>2, OwnFrom DEF OwnInv
  <2> QED
    BY <2>1, <2>2, <2>3
<1> QED
  BY <1>4, <1>5

(* An entry about a buffer put behind one of the buffer queues.            *)
LEMMA EtbAdded ==
  ASSUME OwnInv, NEW b \in InBuffers, b \notin InEtb, NEW e \in EtbEntries,
         \/ e.id = "ETB" /\ b = e.p2
         \/ e.id = "EBD" /\ b = e.p1,
         m_etb_q' = Append(m_etb_q, e)
  PROVE  EtbTyped' /\ InEtb' = InEtb \cup {b}
<1>1. m_etb_q \in Seq(EtbEntries) /\ Once(m_etb_q, Buffers)
  BY DEF OwnInv, EtbTyped
<1>2. b \in Buffers /\ Named(e) \cap Buffers = {b}
  BY BufferEntries DEF Buffers
<1>3. /\ Append(m_etb_q, e) \in Seq(EtbEntries) /\ Once(Append(m_etb_q, e), Buffers)
      /\ NamedIn(Append(m_etb_q, e), Buffers) = NamedIn(m_etb_q, Buffers) \cup {b}
  BY <1>1, <1>2, EntryAdded DEF InEtb
<1> QED
  BY <1>3 DEF EtbTyped, InEtb

(* A post to m_ftb_q adds exactly the buffer it names.                     *)
LEMMA FtbAdded ==
  ASSUME OwnInv, NEW b \in OutBuffers, b \notin InFtb, NEW e \in FtbEntries,
         \/ e.id = "FTB" /\ b = e.p2
         \/ e.id = "FBD" /\ b = e.p1,
         m_ftb_q' = Append(m_ftb_q, e)
  PROVE  FtbTyped' /\ InFtb' = InFtb \cup {b}
<1>1. m_ftb_q \in Seq(FtbEntries) /\ Once(m_ftb_q, Buffers)
  BY DEF OwnInv, FtbTyped
<1>2. b \in Buffers /\ Named(e) \cap Buffers = {b}
  BY BufferEntries DEF Buffers
<1>3. /\ Append(m_ftb_q, e) \in Seq(FtbEntries) /\ Once(Append(m_ftb_q, e), Buffers)
      /\ NamedIn(Append(m_ftb_q, e), Buffers) = NamedIn(m_ftb_q, Buffers) \cup {b}
  BY <1>1, <1>2, EntryAdded DEF InFtb
<1> QED
  BY <1>3 DEF FtbTyped, InFtb

(* A submission passes a buffer from the client to a queue.                *)
LEMMA SubmitOwn ==
  ASSUME OwnInv, NEW b \in Buffers, empty_this_buffer(b) \/ fill_this_buffer(b)
  PROVE  OwnInv'
<1>1. PICK known \in SUBSET allocated :
        /\ ~ m_error_propogated => known = allocated
        /\ Shared(held, drv_held, InFtb, InEtb, known)
  BY DEF OwnInv
<1>2. /\ b \in held /\ held' = held \ {b}
      /\ UNCHANGED <<drv_held, allocated, m_error_propogated>>
  BY DEF empty_this_buffer, fill_this_buffer, component, errors, ports, driver
<1>3. b \notin InFtb /\ b \notin InEtb
  BY <1>1, <1>2 DEF Shared
<1>4. CASE empty_this_buffer(b)
  <2> DEFINE e == Entry("ETB", "-", b)
  <2>1. b \in InBuffers /\ m_etb_q' = Append(m_etb_q, e) /\ UNCHANGED m_ftb_q
    BY <1>4 DEF empty_this_buffer
  <2>2. e \in EtbEntries /\ e.id = "ETB" /\ e.p2 = b
    BY <2>1 DEF Entry, EtbEntries
  <2> HIDE DEF e
  <2>3. EtbTyped' /\ InEtb' = InEtb \cup {b}
    BY <1>3, <2>1, <2>2, EtbAdded
  <2>4. FtbTyped' /\ InFtb' = InFtb
    BY <2>1 DEF OwnInv, FtbTyped, InFtb
  <2>5. Shared(held', drv_held', InFtb', InEtb', known)
    BY <1>1, <1>2, <2>3, <2>4 DEF Shared
  <2> QED
    BY <1>1, <1>2, <2>3, <2>4, <2>5, OwnFrom DEF OwnInv
<1>5. CASE fill_this_buffer(b)
  <2> DEFINE e == Entry("FTB", "-", b)
  <2>1. b \in OutBuffers /\ m_ftb_q' = Append(m_ftb_q, e) /\ UNCHANGED m_etb_q
    BY <1>5 DEF fill_this_buffer
  <2>2. e \in FtbEntries /\ e.id = "FTB" /\ e.p2 = b
    BY <2>1 DEF Entry, FtbEntries
  <2> HIDE DEF e
  <2>3. FtbTyped' /\ InFtb' = InFtb \cup {b}
    BY <1>3, <2>1, <2>2, FtbAdded
  <2>4. EtbTyped' /\ InEtb' = InEtb
    BY <2>1 DEF OwnInv, EtbTyped, InEtb
  <2>5. Shared(held', drv_held', InFtb', InEtb', known)
    BY <1>1, <1>2, <2>3, <2>4 DEF Shared
  <2> QED
    BY <1>1, <1>2, <2>3, <2>4, <2>5, OwnFrom DEF OwnInv
<1> QED
  BY <1>4, <1>5

(* The async thread posts a buffer the driver returns.                     *)
LEMMA BufferDoneOwn == ASSUME OwnInv, NEW b \in Buffers, BufferDone(b) PROVE OwnInv'
<1>1. PICK known \in SUBSET allocated :
        /\ ~ m_error_propogated => known = allocated
        /\ Shared(held, drv_held, InFtb, InEtb, known)
  BY DEF OwnInv
<1>2. /\ b \in drv_held /\ drv_held' = drv_held \ {b}
      /\ UNCHANGED <<held, allocated, m_error_propogated>>
  BY DEF BufferDone, component, errors, ports, client
<1>3. b \notin InFtb /\ b \notin InEtb
  BY <1>1, <1>2 DEF Shared
<1>4. Status(Bad \cup Damaged) \subseteq Statuses /\ Status(Bad) \subseteq Statuses
  BY DEF Status, Bad, Damaged, Statuses
<1>5. CASE b \in InBuffers
  <2>1. PICK status \in Statuses : m_etb_q' = Append(m_etb_q, Entry("EBD", b, status))
    BY <1>4, <1>5 DEF BufferDone
  <2> DEFINE e == Entry("EBD", b, status)
  <2>2. UNCHANGED m_ftb_q
    BY <1>5 DEF BufferDone
  <2>3. m_etb_q' = Append(m_etb_q, e) /\ e \in EtbEntries /\ e.id = "EBD" /\ e.p1 = b
    BY <1>5, <2>1 DEF Entry, EtbEntries
  <2> HIDE DEF e
  <2>4. EtbTyped' /\ InEtb' = InEtb \cup {b}
    BY <1>3, <1>5, <2>3, EtbAdded
  <2>5. FtbTyped' /\ InFtb' = InFtb
    BY <2>2 DEF OwnInv, FtbTyped, InFtb
  <2>6. Shared(held', drv_held', InFtb', InEtb', known)
    BY <1>1, <1>2, <2>4, <2>5 DEF Shared
  <2> QED
    BY <1>1, <1>2, <2>4, <2>5, <2>6, OwnFrom DEF OwnInv
<1>6. CASE b \notin InBuffers
  <2>1. PICK status \in Statuses : m_ftb_q' = Append(m_ftb_q, Entry("FBD", b, status))
    BY <1>4, <1>6 DEF BufferDone
  <2> DEFINE e == Entry("FBD", b, status)
  <2>2. UNCHANGED m_etb_q /\ b \in OutBuffers
    BY <1>6 DEF BufferDone, Buffers
  <2>3. m_ftb_q' = Append(m_ftb_q, e) /\ e \in FtbEntries /\ e.id = "FBD" /\ e.p1 = b
    BY <2>1, <2>2 DEF Entry, FtbEntries
  <2> HIDE DEF e
  <2>4. FtbTyped' /\ InFtb' = InFtb \cup {b}
    BY <1>3, <2>2, <2>3, FtbAdded
  <2>5. EtbTyped' /\ InEtb' = InEtb
    BY <2>2 DEF OwnInv, EtbTyped, InEtb
  <2>6. Shared(held', drv_held', InFtb', InEtb', known)
    BY <1>1, <1>2, <2>4, <2>5 DEF Shared
  <2> QED
    BY <1>1, <1>2, <2>4, <2>5, <2>6, OwnFrom DEF OwnInv
<1> QED
  BY <1>5, <1>6

(* Commands and the driver's other messages move none.                     *)
LEMMA MessageOwn ==
  ASSUME OwnInv,
         \/ \E c \in Commands : send_command(c)
         \/ \E command, id, state : Acknowledge(command, id, state)
         \/ \E port \in PortNames : AcknowledgeFlush(port)
         \/ ConfigChanged \/ HwError
  PROVE  OwnInv'
<1>1. UNCHANGED <<held, drv_held, m_ftb_q, m_etb_q, allocated, m_error_propogated>>
  BY DEF send_command, Acknowledge, AcknowledgeFlush, ConfigChanged, HwError, Message,
         component, errors, ports, driver, client
<1> QED
  BY <1>1, NoneMoves

(* Every step keeps it.                                                    *)
LEMMA OwnStep == OwnInv /\ [Next]_vars => OwnInv'
<1> SUFFICES ASSUME OwnInv, [Next]_vars PROVE OwnInv'
  OBVIOUS
<1>1. CASE MessageThread
  BY <1>1, ProxyOwn, EventOwn, FillProxyOwn, FillDoneOwn, EmptyProxyOwn, EmptyDoneOwn
  DEF MessageThread
<1>2. CASE Client
  BY <1>2, SlotOwn, SubmitOwn, MessageOwn DEF Client
<1>3. CASE Driver
  <2>1. \/ \E b \in Buffers : BufferDone(b)
        \/ \E command, id, state : Acknowledge(command, id, state)
        \/ \E port \in PortNames : AcknowledgeFlush(port)
    BY <1>3 DEF Driver
  <2> QED
    BY <2>1, BufferDoneOwn, MessageOwn
<1>4. CASE ConfigChanged \/ HwError
  BY <1>4, MessageOwn
<1>5. CASE UNCHANGED vars
  <2>1. UNCHANGED <<held, drv_held, m_ftb_q, m_etb_q, allocated, m_error_propogated>>
    BY <1>5 DEF vars, queues, ports, errors, driver, client
  <2> QED
    BY <2>1, NoneMoves
<1> QED
  BY <1>1, <1>2, <1>3, <1>4, <1>5 DEF Next, Steadily

(* At the start the queues are empty and no buffer is allocated.           *)
LEMMA OwnInit == Init => OwnInv
<1> SUFFICES ASSUME Init PROVE OwnInv
  OBVIOUS
<1>1. /\ m_ftb_q = << >> /\ m_etb_q = << >>
      /\ allocated = {} /\ held = {} /\ drv_held = {}
  BY DEF Init
<1>2. NamedIn(<< >>, Buffers) = {} /\ Once(<< >>, Buffers)
  BY EmptyNamed
<1>3. \A E : << >> \in Seq(E)
  OBVIOUS
<1>4. Shared(held, drv_held, InFtb, InEtb, allocated)
  BY <1>1, <1>2 DEF InFtb, InEtb, Shared
<1> QED
  BY <1>1, <1>2, <1>3, <1>4 DEF OwnInv, FtbTyped, EtbTyped

(* No buffer of the decoder is in two places, whatever the client does and *)
(* whichever driver calls and answers fail; none is lost before an error   *)
(* was reported; a freed one is nowhere.                                   *)
THEOREM VdecOneOwner == Spec => []OneOwner
<1>1. OwnInv => OneOwner
  <2> SUFFICES ASSUME OwnInv, NEW b \in Buffers
               PROVE  /\ Places(b) <= 1
                      /\ b \in allocated /\ ~ m_error_propogated => Places(b) = 1
                      /\ b \notin allocated => Places(b) = 0
    BY DEF OneOwner
  <2>1. PICK known \in SUBSET allocated :
          /\ ~ m_error_propogated => known = allocated
          /\ Shared(held, drv_held, InFtb, InEtb, known)
    BY DEF OwnInv
  <2>2. /\ Count(m_ftb_q, b) = IF b \in InFtb THEN 1 ELSE 0
        /\ Count(m_etb_q, b) = IF b \in InEtb THEN 1 ELSE 0
    BY CountNamed DEF OwnInv, FtbTyped, EtbTyped, Count, InFtb, InEtb
  <2>3. Places(b) = IF b \in known THEN 1 ELSE 0
    BY <2>1, <2>2 DEF Places, Shared
  <2> QED
    BY <2>1, <2>3
<1> QED
  BY <1>1, OwnInit, OwnStep, PTL DEF Spec
-------------------------------------------------------------------------------
(***************************************************************************)
(* What the decoder promises an IL client (OmxComponent), until it reports *)
(* an error.  The client may break the rules and driver calls may fail.    *)
(* The inductive invariant says which requests may be under way in which   *)
(* state, and what is still lent on the way out of the processing states.  *)
(***************************************************************************)
Parameters ==
  States \cup PortNames \cup Statuses
    \cup {"ALL", "StateSet", "Flush", "PortEnable", "PortDisable", "Error", "Hardware",
          "SameState", "IncorrectStateTransition", "InvalidState", "PortUnpopulated",
          "PortDefinition"}
CmdEntries ==
  [id : {"COMMAND", "EVENT", "START_DONE", "PAUSE_DONE", "RESUME_DONE", "STOP_DONE",
         "INPUT_FLUSH", "OUTPUT_FLUSH", "PORT_RECONFIG", "HARDWARE_ERROR"},
   p1 : Parameters, p2 : Parameters]
DrvCommands == {Plain(name) : name \in {"START", "STOP", "PAUSE", "RESUME"}}
                 \cup {<<"FLUSH", P>> : P \in SUBSET PortNames}

Processes == {"Executing", "Pause"}
Resting == {"Loaded", "Idle", "WaitForResources"}
StateBits == {IdlePending, LoadingPending, ExecutePending, PausePending}
Bits == m_flags \cap StateBits

(* Commands, the events that grant a state and the errors that refuse one: *)
(* at most one of them is queued.                                          *)
Commanded == [id : {"COMMAND"}, p1 : Parameters, p2 : Parameters]
StateEvents == [id : {"EVENT"}, p1 : {"StateSet"}, p2 : Parameters]
Answers == [id : {"EVENT"}, p1 : {"Error"}, p2 : Parameters \ {"PortUnpopulated"}]
Requests == Commanded \cup StateEvents \cup Answers
StateCommands == [id : {"COMMAND"}, p1 : {"StateSet"}, p2 : Parameters]
StateEntries == StateCommands \cup StateEvents \cup Answers
(* The moves that need no answer of the driver, and the events of others.  *)
Quick ==
  {<<"Loaded", "Idle">>, <<"Loaded", "WaitForResources">>, <<"WaitForResources", "Loaded">>,
   <<"WaitForResources", "Idle">>, <<"Idle", "Loaded">>}
Wrong(state) == {e \in StateEvents : <<state, e.p2>> \notin Quick}
(* What the driver says of a stop and of flushes.                          *)
Stopped == [id : {"STOP_DONE"}, p1 : Parameters, p2 : Parameters]
FlushEvents == [id : {"EVENT"}, p1 : {"Flush"}, p2 : Parameters]
FlushOrder(arg) == {Entry("COMMAND", "Flush", arg)}
Told == Requests \cup Stopped \cup FlushEvents
Flushed(port) == [id : {IF port = "IN" THEN "INPUT_FLUSH" ELSE "OUTPUT_FLUSH"},
                  p1 : Parameters, p2 : Parameters]
Stops == {Plain("STOP")}

(* The buffers the component was given and has not given back.             *)
Lent == allocated \ held
Awaits == \E t \in States : owed = {[cmd |-> "StateSet", arg |-> t]}

CallsTyped == m_cmd_q \in Seq(CmdEntries) /\ drv_cmds \in Seq(DrvCommands)
(* One request at a time: in the queue or as a pending bit; the client     *)
(* that made it waits for nothing else.                                    *)
OneRequest ==
  /\ AtMostOne(m_cmd_q, Requests)
  /\ \A x, y \in Bits : x = y
  /\ Has(m_cmd_q, Requests) => Bits = {}
  /\ Has(m_cmd_q, StateEntries) \/ Bits # {} => Awaits
  /\ Has(m_cmd_q, Commanded) => waiting
(* The client knows the state; the request fits it.                        *)
InStep ==
  /\ m_state = cstate /\ m_state \in States
  /\ ~ Has(m_cmd_q, Wrong(m_state))
  /\ LoadingPending \in m_flags => m_state = "Idle"
  /\ ExecutePending \in m_flags => m_state \in {"Idle", "Pause"}
  /\ PausePending \in m_flags => m_state \in {"Idle", "Executing"}
  /\ IdlePending \in m_flags => m_state \in {"Loaded", "Executing", "Pause"}
  /\ m_state = "Invalid" => ~ Has(m_cmd_q, Requests)
  /\ released # {} => m_state \in Processes /\ Bits = {}
(* It has no buffer of the client while it rests.  On the way out none of  *)
(* a port whose flush has ended; a flush is acknowledged when the driver   *)
(* has no buffer of the port.                                              *)
Lending ==
  /\ m_state \in Resting => Lent = {}
  /\ m_state \in Processes /\ IdlePending \in m_flags =>
       \A port \in PortNames \ flushing : PortBuffers(port) \cap Lent = {}
  /\ \A port \in PortNames : Has(m_cmd_q, Flushed(port)) => drv_held \cap PortBuffers(port) = {}
(* The driver is stopped once, on the way out and after every flush.       *)
Stopping ==
  /\ Has(drv_cmds, Stops) \/ Has(m_cmd_q, Stopped) =>
       IdlePending \in m_flags /\ m_state \in Processes /\ flushing = {}
  /\ AtMostOne(drv_cmds, Stops) /\ AtMostOne(m_cmd_q, Stopped)
  /\ Has(drv_cmds, Stops) => ~ Has(m_cmd_q, Stopped)
(* A flush the client asked for is not over before it is told; while the   *)
(* component rests there are no others.                                    *)
Flushing ==
  /\ ~ Has(m_cmd_q, FlushEvents)
  /\ \A port \in PortNames :
       /\ port \in flushing /\ m_state \in Resting => Asked("Flush", port)
       /\ FlushPending(port) \in m_flags => Asked("Flush", port)
  /\ \A arg \in PortNames \cup {"ALL"} : Has(m_cmd_q, FlushOrder(arg)) =>
       \A port \in Ports(arg) : Asked("Flush", port) /\ FlushPending(port) \notin m_flags
Contract == CallsTyped /\ OneRequest /\ InStep /\ Lending /\ Stopping /\ Flushing
ContractInv == ~ m_error_propogated => Contract

(* The pending bits are different from each other and from those of ports. *)
LEMMA BitsDiffer ==
  /\ IdlePending # LoadingPending /\ IdlePending # ExecutePending /\ IdlePending # PausePending
  /\ LoadingPending # ExecutePending /\ LoadingPending # PausePending
  /\ ExecutePending # PausePending
  /\ \A port : /\ EnablePending(port) \notin StateBits /\ DisablePending(port) \notin StateBits
               /\ FlushPending(port) \notin StateBits
  /\ FlushInDisablePending \notin StateBits /\ DisableOutputDeferred \notin StateBits
  /\ \A p, q : /\ FlushPending(p) # EnablePending(q) /\ FlushPending(p) # DisablePending(q)
               /\ FlushPending(p) # FlushInDisablePending /\ FlushPending(p) # DisableOutputDeferred
  BY DEF IdlePending, LoadingPending, ExecutePending, PausePending, StateBits,
         EnablePending, DisablePending, FlushPending, FlushInDisablePending,
         DisableOutputDeferred

(* Which entries are of which kind.                                        *)
LEMMA Kinds ==
  /\ Requests \in SUBSET Told /\ StateEntries \in SUBSET Told /\ Commanded \in SUBSET Told
  /\ StateEvents \in SUBSET Told /\ Answers \in SUBSET Told /\ Stopped \in SUBSET Told
  /\ FlushEvents \in SUBSET Told /\ StateEntries \in SUBSET Requests
  /\ \A state : Wrong(state) \in SUBSET Told /\ Wrong(state) \in SUBSET StateEvents
  /\ \A arg \in PortNames \cup {"ALL"} :
       FlushOrder(arg) \in SUBSET Told /\ FlushOrder(arg) \in SUBSET Commanded
  /\ Told \in SUBSET CmdEntries /\ \A port : Flushed(port) \in SUBSET CmdEntries
  /\ \A port : Flushed(port) \cap Told = {}
<1>1. /\ Requests \in SUBSET Told /\ Stopped \in SUBSET Told /\ FlushEvents \in SUBSET Told
      /\ Commanded \in SUBSET Requests /\ StateEvents \in SUBSET Requests
      /\ Answers \in SUBSET Requests
  BY DEF Told, Requests
<1>2. StateEntries \in SUBSET Requests
  BY DEF StateEntries, StateCommands, Requests, Commanded, Parameters
<1>3. \A state : Wrong(state) \in SUBSET StateEvents
  BY DEF Wrong
<1>4. \A arg \in PortNames \cup {"ALL"} : FlushOrder(arg) \in SUBSET Commanded
  BY DEF FlushOrder, Entry, Commanded, Parameters
<1>5. /\ Told \in SUBSET CmdEntries /\ \A port : Flushed(port) \in SUBSET CmdEntries
      /\ \A port : Flushed(port) \cap Told = {}
  BY DEF Told, Requests, Commanded, StateEvents, Answers, Stopped, FlushEvents, Flushed,
         CmdEntries, Parameters
<1> QED
  BY <1>1, <1>2, <1>3, <1>4, <1>5

(* The first entry of the command queue taken, and others posted.          *)
LEMMA Posted ==
  ASSUME m_cmd_q \in Seq(CmdEntries), m_cmd_q # << >>,
         NEW X \in SUBSET CmdEntries, NEW r \in Seq(X), m_cmd_q' = Tail(m_cmd_q) \o r
  PROVE  /\ m_cmd_q' \in Seq(CmdEntries)
         /\ Fewer(m_cmd_q, m_cmd_q', CmdEntries \ X)
         /\ \A D \in SUBSET (CmdEntries \ X) :
              AtMostOne(m_cmd_q, D) /\ Head(m_cmd_q) \in D => ~ Has(m_cmd_q', D)
<1> DEFINE t == Tail(m_cmd_q)
           K == CmdEntries \ X
<1>1. t \in Seq(CmdEntries) /\ m_cmd_q' = t \o r
  OBVIOUS
<1>2. r \in Seq(CmdEntries) /\ ~ Has(r, K)
  <2>1. r \in Seq(CmdEntries)
    BY SeqMonotonic
  <2>2. \A i \in DOMAIN r : r[i] \in X
    OBVIOUS
  <2> QED
    BY <2>1, <2>2 DEF Has
<1>3. Fewer(m_cmd_q, t, K)
  BY FewerTail
<1>4. \A D \in SUBSET K : AtMostOne(m_cmd_q, D) /\ Head(m_cmd_q) \in D => ~ Has(t, D)
  BY TailHas
<1> HIDE DEF t, K
<1>5. Fewer(t, t \o r, K) /\ t \o r \in Seq(CmdEntries)
  BY <1>1, <1>2, FewerConcat, ConcatProperties
<1>6. Fewer(m_cmd_q, m_cmd_q', K)
  BY <1>1, <1>3, <1>5, FewerTwice
<1>7. \A D \in SUBSET K : Has(t \o r, D) => Has(t, D)
  BY <1>5 DEF Fewer
<1> QED
  BY <1>1, <1>4, <1>5, <1>6, <1>7 DEF K

(* The first one only taken.                                               *)
LEMMA Taken ==
  ASSUME m_cmd_q \in Seq(CmdEntries), m_cmd_q # << >>, m_cmd_q' = Tail(m_cmd_q)
  PROVE  /\ m_cmd_q' \in Seq(CmdEntries)
         /\ Fewer(m_cmd_q, m_cmd_q', CmdEntries)
         /\ \A D : AtMostOne(m_cmd_q, D) /\ Head(m_cmd_q) \in D => ~ Has(m_cmd_q', D)
         /\ \A D : Has(m_cmd_q', D) => Has(m_cmd_q, D)
  BY FewerTail, TailHas

(* Entries added to the others.                                            *)
LEMMA Added ==
  ASSUME m_cmd_q \in Seq(CmdEntries),
         NEW X \in SUBSET CmdEntries, NEW r \in Seq(X), m_cmd_q' = m_cmd_q \o r
  PROVE  /\ m_cmd_q' \in Seq(CmdEntries)
         /\ Fewer(m_cmd_q, m_cmd_q', CmdEntries \ X)
<1>1. r \in Seq(CmdEntries) /\ ~ Has(r, CmdEntries \ X)
  <2>1. r \in Seq(CmdEntries)
    BY SeqMonotonic
  <2>2. \A i \in DOMAIN r : r[i] \in X
    OBVIOUS
  <2> QED
    BY <2>1, <2>2 DEF Has
<1> QED
  BY <1>1, FewerConcat, ConcatProperties

(* What an entry or two of X are a sequence of.                            *)
LEMMA Few ==
  ASSUME NEW X
  PROVE  /\ << >> \in Seq(X)
         /\ \A e \in X : <<e>> \in Seq(X)
         /\ \A r, s \in Seq(X) : r \o s \in Seq(X)
  OBVIOUS

(* What a step does to the contract.  The command queue: nothing the       *)
(* contract is about is added; the driver: it is not asked to stop.        *)
Beside == CmdEntries \ (Told \cup Flushed("IN") \cup Flushed("OUT"))
Quieter == m_cmd_q' \in Seq(CmdEntries) /\ Fewer(m_cmd_q, m_cmd_q', Told)
CallsKept == drv_cmds' \in Seq(DrvCommands) /\ Fewer(drv_cmds, drv_cmds', Stops)
FlushesKept ==
  \A port \in PortNames : Has(m_cmd_q', Flushed(port)) => drv_held' \cap PortBuffers(port) = {}
(* What the client knows and waits for.                                    *)
Patient ==
  /\ m_state' = m_state /\ cstate' = cstate
  /\ Awaits => owed' = owed
  /\ \A port \in PortNames : Asked("Flush", port) => Asked("Flush", port)'
  /\ waiting' = waiting \/ ~ Has(m_cmd_q', Commanded)
(* A step of the abstract component.                                       *)
Promise ==
  \/ m_state' = m_state /\ Lent' \subseteq Lent
  \/ m_state' = m_state /\ m_state \in Processes /\ \E b \in Buffers \ Lent : Lent' = Lent \cup {b}
  \/ /\ <<m_state, m_state'>> \in IL!Edges /\ Lent' \subseteq Lent
     /\ m_state' \notin Processes => Lent' = {}
  \/ m_state' = "Invalid" /\ Lent' \subseteq Lent

(* What a quiet command queue has of each kind, it had before.             *)
LEMMA QuietHas ==
  ASSUME Quieter
  PROVE  /\ AtMostOne(m_cmd_q, Requests) => AtMostOne(m_cmd_q', Requests)
         /\ AtMostOne(m_cmd_q, Stopped) => AtMostOne(m_cmd_q', Stopped)
         /\ Has(m_cmd_q', Requests) => Has(m_cmd_q, Requests)
         /\ Has(m_cmd_q', StateEntries) => Has(m_cmd_q, StateEntries)
         /\ Has(m_cmd_q', Commanded) => Has(m_cmd_q, Commanded)
         /\ Has(m_cmd_q', Stopped) => Has(m_cmd_q, Stopped)
         /\ Has(m_cmd_q', FlushEvents) => Has(m_cmd_q, FlushEvents)
         /\ \A state : Has(m_cmd_q', Wrong(state)) => Has(m_cmd_q, Wrong(state))
         /\ \A arg \in PortNames \cup {"ALL"} :
              Has(m_cmd_q', FlushOrder(arg)) => Has(m_cmd_q, FlushOrder(arg))
  BY Kinds DEF Quieter, Fewer

(* What was asked of the driver of stops.                                  *)
LEMMA CallsHave ==
  ASSUME CallsKept
  PROVE  /\ Has(drv_cmds', Stops) => Has(drv_cmds, Stops)
         /\ AtMostOne(drv_cmds, Stops) => AtMostOne(drv_cmds', Stops)
  BY DEF CallsKept, Fewer

(* The flags of a state that are among the pending bits.                   *)
LEMMA SameBits ==
  ASSUME Bits' = Bits
  PROVE  /\ IdlePending \in m_flags' <=> IdlePending \in m_flags
         /\ LoadingPending \in m_flags' <=> LoadingPending \in m_flags
         /\ ExecutePending \in m_flags' <=> ExecutePending \in m_flags
         /\ PausePending \in m_flags' <=> PausePending \in m_flags
<1>1. \A bit \in StateBits : bit \in m_flags' <=> bit \in m_flags
  BY DEF Bits
<1> QED
  BY <1>1 DEF StateBits

(* A step that is no part of a request for a state.                        *)
LEMMA Aside ==
  ASSUME Contract, Quieter, CallsKept, FlushesKept, Patient, Lent' \subseteq Lent, Bits' = Bits,
         \A port \in PortNames : FlushPending(port) \in m_flags' => FlushPending(port) \in m_flags,
         flushing' = flushing \/ (m_state \in Processes /\ Bits = {}),
         released' \subseteq released \/ (m_state \in Processes /\ Bits = {})
  PROVE  Contract' /\ Promise
<1>1. Promise
  BY DEF Promise, Patient
<1>2. CallsTyped'
  BY DEF CallsTyped, Quieter, CallsKept
<1>3. OneRequest'
  <2>1. Awaits => Awaits'
    BY DEF Awaits, Patient
  <2> QED
    BY <2>1, QuietHas DEF Contract, OneRequest, Patient
<1>4. InStep'
  BY QuietHas, SameBits DEF Contract, InStep, Patient
<1>5. Lending'
  <2>1. Lent = {} => Lent' = {}
    OBVIOUS
  <2>2. \A port : PortBuffers(port) \cap Lent = {} => PortBuffers(port) \cap Lent' = {}
    OBVIOUS
  <2>3. m_state \in Processes /\ IdlePending \in m_flags => flushing' = flushing
    BY DEF Bits, StateBits
  <2> QED
    BY <2>1, <2>2, <2>3, SameBits DEF Contract, Lending, Patient, FlushesKept
<1>6. Stopping'
  <2>1. IdlePending \in m_flags => flushing' = flushing
    BY DEF Bits, StateBits
  <2> QED
    BY <2>1, QuietHas, CallsHave, SameBits DEF Contract, Stopping, Patient
<1>7. Flushing'
  <2>1. m_state \in Resting => flushing' = flushing
    BY DEF Processes, Resting
  <2>2. ~ Has(m_cmd_q, FlushEvents)'
    BY QuietHas DEF Contract, Flushing
  <2>3. ASSUME NEW port \in PortNames
        PROVE  /\ port \in flushing' /\ m_state' \in Resting => Asked("Flush", port)'
               /\ FlushPending(port) \in m_flags' => Asked("Flush", port)'
    <3>1. Asked("Flush", port) => Asked("Flush", port)'
      BY DEF Patient
    <3>2. /\ port \in flushing /\ m_state \in Resting => Asked("Flush", port)
          /\ FlushPending(port) \in m_flags => Asked("Flush", port)
      BY DEF Contract, Flushing
    <3> QED
      BY <2>1, <3>1, <3>2 DEF Patient
  <2>4. ASSUME NEW arg \in PortNames \cup {"ALL"}, Has(m_cmd_q', FlushOrder(arg)),
               NEW port \in Ports(arg)
        PROVE  Asked("Flush", port)' /\ FlushPending(port) \notin m_flags'
    <3>1. port \in PortNames
      BY DEF Ports, PortNames
    <3>2. Has(m_cmd_q, FlushOrder(arg))
      BY <2>4, QuietHas
    <3>3. Asked("Flush", port) /\ FlushPending(port) \notin m_flags
      BY <3>2 DEF Contract, Flushing
    <3> QED
      BY <3>1, <3>3 DEF Patient
  <2> QED
    BY <2>2, <2>3, <2>4 DEF Flushing
<1> QED
  BY <1>1, <1>2, <1>3, <1>4, <1>5, <1>6, <1>7 DEF Contract

(* A step that adds no message about a flush, and gives the driver no      *)
(* buffer while any message is queued.                                     *)
LEMMA FlushesStay ==
  ASSUME Contract, drv_held' \subseteq drv_held \/ m_cmd_q' = << >>,
         \A port \in PortNames : Has(m_cmd_q', Flushed(port)) => Has(m_cmd_q, Flushed(port))
  PROVE  FlushesKept
<1>1. \A port : ~ Has(<< >>, Flushed(port))
  BY EmptyHas
<1> QED
  BY <1>1 DEF Contract, Lending, FlushesKept

(* Nothing asked of the driver.                                            *)
LEMMA NoCall == ASSUME Contract, UNCHANGED drv_cmds PROVE CallsKept
  BY DEF Contract, CallsTyped, CallsKept, Fewer

(* The command queue left alone.                                           *)
LEMMA NoMessage ==
  ASSUME Contract, UNCHANGED m_cmd_q
  PROVE  Quieter /\ \A port \in PortNames : Has(m_cmd_q', Flushed(port)) => Has(m_cmd_q, Flushed(port))
  BY DEF Contract, CallsTyped, Quieter, Fewer

(* The first entry taken and entries posted that the contract is not about.*)
LEMMA PostedQuieter ==
  ASSUME Contract, m_cmd_q # << >>,
         NEW r \in Seq(Beside),
         m_cmd_q' = Tail(m_cmd_q) \o r
  PROVE  /\ Quieter
         /\ \A port \in PortNames : Has(m_cmd_q', Flushed(port)) => Has(m_cmd_q, Flushed(port))
         /\ Head(m_cmd_q) \in Requests => Has(m_cmd_q, Requests) /\ ~ Has(m_cmd_q', Requests)
<1> DEFINE X == Beside
<1>1. m_cmd_q \in Seq(CmdEntries) /\ AtMostOne(m_cmd_q, Requests)
  BY DEF Contract, CallsTyped, OneRequest
<1>2. X \in SUBSET CmdEntries
  BY DEF Beside
<1>3. /\ Told \in SUBSET (CmdEntries \ X) /\ Requests \in SUBSET (CmdEntries \ X)
      /\ \A port \in PortNames : Flushed(port) \in SUBSET (CmdEntries \ X)
  BY Kinds DEF PortNames, Beside
<1> HIDE DEF X
<1>4. /\ m_cmd_q' \in Seq(CmdEntries) /\ Fewer(m_cmd_q, m_cmd_q', CmdEntries \ X)
      /\ \A D \in SUBSET (CmdEntries \ X) :
           AtMostOne(m_cmd_q, D) /\ Head(m_cmd_q) \in D => ~ Has(m_cmd_q', D)
  BY <1>1, <1>2, Posted DEF X
<1>5. Fewer(m_cmd_q, m_cmd_q', Told)
  BY <1>3, <1>4 DEF Fewer
<1>6. \A port \in PortNames : Has(m_cmd_q', Flushed(port)) => Has(m_cmd_q, Flushed(port))
  BY <1>3, <1>4 DEF Fewer
<1>7. Head(m_cmd_q) \in Requests => Has(m_cmd_q, Requests) /\ ~ Has(m_cmd_q', Requests)
  BY <1>1, <1>3, <1>4, TailHas
<1> QED
  BY <1>4, <1>5, <1>6, <1>7 DEF Quieter

(* The same of entries put behind the others.                              *)
LEMMA AddedQuieter ==
  ASSUME Contract, NEW r \in Seq(Beside),
         m_cmd_q' = m_cmd_q \o r
  PROVE  /\ Quieter
         /\ \A port \in PortNames : Has(m_cmd_q', Flushed(port)) => Has(m_cmd_q, Flushed(port))
<1> DEFINE X == Beside
<1>1. m_cmd_q \in Seq(CmdEntries) /\ X \in SUBSET CmdEntries
  BY DEF Contract, CallsTyped, Beside
<1>2. /\ Told \in SUBSET (CmdEntries \ X)
      /\ \A port \in PortNames : Flushed(port) \in SUBSET (CmdEntries \ X)
  BY Kinds DEF PortNames, Beside
<1> HIDE DEF X
<1>3. m_cmd_q' \in Seq(CmdEntries) /\ Fewer(m_cmd_q, m_cmd_q', CmdEntries \ X)
  BY <1>1, Added DEF X
<1>4. Fewer(m_cmd_q, m_cmd_q', Told)
  BY <1>2, <1>3 DEF Fewer
<1>5. \A port \in PortNames : Has(m_cmd_q', Flushed(port)) => Has(m_cmd_q, Flushed(port))
  BY <1>2, <1>3 DEF Fewer
<1> QED
  BY <1>3, <1>4, <1>5 DEF Quieter
(* Which entries the contract is not about.                                *)
LEMMA BesideHas ==
  /\ \A p \in Parameters :
       PortEvent("PortEnable", p) \in Beside /\ PortEvent("PortDisable", p) \in Beside
  /\ ErrorEvent("PortUnpopulated") \in Beside
  /\ \A id \in {"START_DONE", "PAUSE_DONE", "RESUME_DONE", "PORT_RECONFIG", "HARDWARE_ERROR"} :
       \A p, q \in Parameters : Entry(id, p, q) \in Beside
<1>1. /\ "PortEnable" \in Parameters /\ "PortDisable" \in Parameters /\ "Error" \in Parameters
      /\ "PortUnpopulated" \in Parameters
  BY DEF Parameters
<1>2. \A id, p, q : /\ Entry(id, p, q) \in CmdEntries <=>
                         id \in {"COMMAND", "EVENT", "START_DONE", "PAUSE_DONE", "RESUME_DONE",
                                 "STOP_DONE", "INPUT_FLUSH", "OUTPUT_FLUSH", "PORT_RECONFIG",
                                 "HARDWARE_ERROR"}
                           /\ p \in Parameters /\ q \in Parameters
                    /\ Entry(id, p, q).id = id /\ Entry(id, p, q).p1 = p /\ Entry(id, p, q).p2 = q
  BY DEF Entry, CmdEntries
<1>3. \A e \in Told :
        \/ e.id \in {"COMMAND", "STOP_DONE"}
        \/ e.id = "EVENT" /\ e.p1 \in {"StateSet", "Flush"}
        \/ e.id = "EVENT" /\ e.p1 = "Error" /\ e.p2 # "PortUnpopulated"
  BY DEF Told, Requests, Commanded, StateEvents, Answers, Stopped, FlushEvents
<1>4. \A e \in Flushed("IN") \cup Flushed("OUT") : e.id \in {"INPUT_FLUSH", "OUTPUT_FLUSH"}
  BY DEF Flushed
<1>5. ASSUME NEW p \in Parameters
      PROVE  PortEvent("PortEnable", p) \in Beside /\ PortEvent("PortDisable", p) \in Beside
  BY <1>1, <1>2, <1>3, <1>4 DEF PortEvent, Beside
<1>6. ErrorEvent("PortUnpopulated") \in Beside
  BY <1>1, <1>2, <1>3, <1>4 DEF ErrorEvent, Beside
<1>7. ASSUME NEW id \in {"START_DONE", "PAUSE_DONE", "RESUME_DONE", "PORT_RECONFIG",
                         "HARDWARE_ERROR"},
             NEW p \in Parameters, NEW q \in Parameters
      PROVE  Entry(id, p, q) \in Beside
  BY <1>2, <1>3, <1>4, <1>7 DEF Beside
<1> QED
  BY <1>5, <1>6, <1>7

(* The events of a port command.                                           *)
LEMMA PortEventsBeside ==
  ASSUME NEW arg \in PortNames \cup {"ALL"}, NEW cmd \in {"PortEnable", "PortDisable"},
         NEW now \in SUBSET PortNames
  PROVE  PortEvents(cmd, arg, now) \in Seq(Beside)
<1> DEFINE q1 == IF "IN" \in now THEN <<PortEvent(cmd, "IN")>> ELSE << >>
           q2 == IF "OUT" \in now THEN <<PortEvent(cmd, "OUT")>> ELSE << >>
           q3 == IF now = Ports(arg) THEN <<PortEvent(cmd, arg)>> ELSE << >>
<1>1. arg \in Parameters /\ "IN" \in Parameters /\ "OUT" \in Parameters
  BY DEF Parameters, PortNames
<1>2. PortEvent(cmd, "IN") \in Beside /\ PortEvent(cmd, "OUT") \in Beside
      /\ PortEvent(cmd, arg) \in Beside
  BY <1>1, BesideHas
<1>3. q1 \in Seq(Beside) /\ q2 \in Seq(Beside) /\ q3 \in Seq(Beside)
  BY <1>2, Few
<1>4. PortEvents(cmd, arg, now) = (q1 \o q2) \o q3
  BY DEF PortEvents, InOrder
<1> HIDE DEF q1, q2, q3
<1>5. q1 \o q2 \in Seq(Beside)
  BY <1>3, Few
<1>6. (q1 \o q2) \o q3 \in Seq(Beside)
  BY <1>3, <1>5, Few
<1> QED
  BY <1>4, <1>6

(* send_command_proxy finds a command: nothing else is asked for.          *)
LEMMA ProxyFinds ==
  ASSUME Contract, NEW cmd \in Parameters, NEW arg \in Parameters, Proxy(cmd, arg)
  PROVE  /\ m_cmd_q \in Seq(CmdEntries) /\ m_cmd_q # << >>
         /\ Head(m_cmd_q) \in Commanded /\ Head(m_cmd_q) \in Requests
         /\ Has(m_cmd_q, Requests) /\ Bits = {} /\ m_state \in States \ {"Invalid"}
         /\ released = {}
         /\ UNCHANGED <<m_state, cstate, allocated, held>> /\ Lent' = Lent
<1>1. Head(m_cmd_q) \in Commanded /\ Head(m_cmd_q) \in Requests
  <2>1. Entry("COMMAND", cmd, arg) \in Commanded
    BY DEF Entry, Commanded
  <2> QED
    BY <2>1 DEF Proxy, Requests
<1>2. m_cmd_q \in Seq(CmdEntries) /\ m_cmd_q # << >> /\ Has(m_cmd_q, Requests)
  BY <1>1, TailHas DEF Contract, CallsTyped, Proxy
<1> QED
  BY <1>1, <1>2 DEF Contract, OneRequest, InStep, Proxy, Lent

(* What the command that is taken posts besides is no request.             *)
LEMMA ProxyTakes ==
  ASSUME Contract, NEW cmd \in Parameters, NEW arg \in Parameters, Proxy(cmd, arg),
         NEW r \in Seq(Beside), Post(r)
  PROVE  /\ Quieter /\ ~ Has(m_cmd_q', Requests) /\ ~ Has(m_cmd_q', Commanded)
         /\ ~ Has(m_cmd_q', StateEntries)
         /\ \A port \in PortNames : Has(m_cmd_q', Flushed(port)) => Has(m_cmd_q, Flushed(port))
<1>1. m_cmd_q # << >> /\ Head(m_cmd_q) \in Requests /\ m_cmd_q' = Tail(m_cmd_q) \o r
  BY ProxyFinds DEF Post
<1>2. Quieter /\ ~ Has(m_cmd_q', Requests)
      /\ \A port \in PortNames : Has(m_cmd_q', Flushed(port)) => Has(m_cmd_q, Flushed(port))
  BY <1>1, PostedQuieter
<1>3. ~ Has(m_cmd_q', Commanded) /\ ~ Has(m_cmd_q', StateEntries)
  BY <1>2, Kinds DEF Has, Requests
<1> QED
  BY <1>2, <1>3

(* Commands about ports, but for flushes.                                  *)
LEMMA PortCommandContract ==
  ASSUME Contract, NEW arg \in PortNames \cup {"ALL"},
         PortEnable(arg) \/ PortDisable(arg) \/ PortDisableRunning(arg)
  PROVE  Contract' /\ Promise
<1>1. Ports(arg) \in SUBSET PortNames
  BY DEF Ports, PortNames
<1>2. arg \in Parameters /\ "PortEnable" \in Parameters /\ "PortDisable" \in Parameters
  BY DEF Parameters
<1>3. PICK cmd \in {"PortEnable", "PortDisable"} : Proxy(cmd, arg)
  BY DEF PortEnable, PortDisable, PortDisableRunning
<1>4. cmd \in Parameters
  BY <1>2
<1>5. \E r \in Seq(Beside) : Post(r)
  <2>1. CASE PortEnable(arg)
    <3> DEFINE now == {port \in Ports(arg) :
                        (m_state = "Loaded" /\ IdlePending \notin m_flags)
                          \/ PortAllocated(port, allocated)}
    <3>1. Post(PortEvents("PortEnable", arg, now))
      BY <2>1 DEF PortEnable
    <3>2. now \in SUBSET PortNames
      BY <1>1
    <3> HIDE DEF now
    <3> QED
      BY <3>1, <3>2, PortEventsBeside
  <2>2. CASE PortDisable(arg)
    <3> DEFINE now == {port \in Ports(arg) : m_state \in {"Loaded", "Idle"}
                                              /\ PortReleased(port, allocated)}
    <3>1. Post(PortEvents("PortDisable", arg, now))
      BY <2>2 DEF PortDisable
    <3>2. now \in SUBSET PortNames
      BY <1>1
    <3> HIDE DEF now
    <3> QED
      BY <3>1, <3>2, PortEventsBeside
  <2>3. CASE PortDisableRunning(arg)
    BY <2>3, Few DEF PortDisableRunning
  <2> QED
    BY <2>1, <2>2, <2>3
<1>6. /\ Quieter /\ ~ Has(m_cmd_q', Commanded)
      /\ \A port \in PortNames : Has(m_cmd_q', Flushed(port)) => Has(m_cmd_q, Flushed(port))
  BY <1>2, <1>3, <1>4, <1>5, ProxyTakes
<1>7. Lent' = Lent /\ UNCHANGED <<m_state, cstate>> /\ Bits = {}
  BY <1>2, <1>3, <1>4, ProxyFinds
<1>8. UNCHANGED <<owed, drv_cmds, drv_held, flushing>>
  BY DEF PortEnable, PortDisable, PortDisableRunning, Quiet, driver, NoFlush
<1>9. \E P : m_flags' \in {m_flags \cup {EnablePending(port) : port \in P},
                           m_flags \cup {DisablePending(port) : port \in P},
                           m_flags \cup {DisablePending(P)}}
  BY DEF PortEnable, PortDisable, PortDisableRunning
<1>10. Bits' = Bits
       /\ \A port \in PortNames : FlushPending(port) \in m_flags' => FlushPending(port) \in m_flags
  BY <1>9, BitsDiffer DEF Bits
<1>11. released' = released \/ m_state \in Processes
  BY DEF PortEnable, PortDisable, PortDisableRunning, NoFlush, Processes
<1>12. CallsKept /\ FlushesKept
  BY <1>6, <1>8, NoCall, FlushesStay
<1>13. Patient
  BY <1>6, <1>7, <1>8 DEF Patient, Asked
<1> QED
  BY <1>6, <1>7, <1>8, <1>10, <1>11, <1>12, <1>13, Aside

(* What the driver is asked besides stops.                                 *)
LEMMA DrvKinds ==
  /\ \A name \in {"START", "PAUSE", "RESUME"} : Plain(name) \in DrvCommands /\ Plain(name) \notin Stops
  /\ \A P \in SUBSET PortNames : <<"FLUSH", P>> \in DrvCommands /\ <<"FLUSH", P>> \notin Stops
  /\ Plain("STOP") \in DrvCommands /\ Stops \in SUBSET DrvCommands
  BY DEF DrvCommands, Plain, Stops

(* One call more, which is no stop.                                        *)
LEMMA CallAdded ==
  ASSUME Contract, NEW call \in DrvCommands, call \notin Stops, Accept(call)
  PROVE  CallsKept
<1>1. drv_cmds \in Seq(DrvCommands) /\ drv_cmds' = Append(drv_cmds, call)
  BY DEF Contract, CallsTyped, Accept
<1>2. drv_cmds \o <<call>> = Append(drv_cmds, call) /\ <<call>> \in Seq(DrvCommands)
      /\ drv_cmds \o <<call>> \in Seq(DrvCommands)
  BY <1>1
<1>3. ~ Has(<<call>>, Stops)
  BY DEF Has
<1> QED
  BY <1>1, <1>2, <1>3, FewerConcat DEF CallsKept

(* execute_omx_flush asks for no stop.                                     *)
LEMMA FlushCalls ==
  ASSUME Contract, NEW P \in SUBSET PortNames, execute_omx_flush(P)
  PROVE  CallsKept /\ UNCHANGED drv_held /\ flushing' = flushing \cup P
  BY CallAdded, DrvKinds, NoCall DEF execute_omx_flush, Accept, Refuse, driver

(* The flushes of a port disable, after the client was released.           *)
LEMMA DisableFlushContract ==
  ASSUME Contract, PortDisableFlush
  PROVE  Contract' /\ Promise
<1>1. m_state \in Processes /\ Bits = {}
  BY DEF PortDisableFlush, Contract, InStep
<1>2. UNCHANGED <<m_state, cstate, m_cmd_q, owed, waiting, allocated, held, drv_held>>
  BY DEF PortDisableFlush, Refuse, queues, client, driver
<1>3. CallsKept
  <2> DEFINE q1 == IF "IN" \in released THEN <<<<"FLUSH", {"IN"}>>>> ELSE << >>
             q2 == IF "OUT" \in released THEN <<<<"FLUSH", {"OUT"}>>>> ELSE << >>
             X == DrvCommands \ Stops
  <2>1. UNCHANGED drv_cmds \/ drv_cmds' = drv_cmds \o (q1 \o q2)
    BY DEF PortDisableFlush, InOrder, Refuse, driver
  <2>2. {"IN"} \in SUBSET PortNames /\ {"OUT"} \in SUBSET PortNames
    BY DEF PortNames
  <2>3. <<"FLUSH", {"IN"}>> \in X /\ <<"FLUSH", {"OUT"}>> \in X
    BY <2>2, DrvKinds
  <2> HIDE DEF X
  <2>4. q1 \in Seq(X) /\ q2 \in Seq(X)
    BY <2>3, Few
  <2> HIDE DEF q1, q2
  <2>5. q1 \o q2 \in Seq(X)
    BY <2>4, Few
  <2> DEFINE r == q1 \o q2
  <2> HIDE DEF r
  <2>6. r \in Seq(DrvCommands) /\ ~ Has(r, Stops)
    <3>1. r \in Seq(X)
      BY <2>5 DEF r
    <3>2. \A i \in DOMAIN r : r[i] \in X
      BY <3>1
    <3>3. r \in Seq(DrvCommands)
      BY <3>1, SeqMonotonic DEF X
    <3> QED
      BY <3>2, <3>3 DEF Has, X
  <2>7. drv_cmds \in Seq(DrvCommands)
    BY DEF Contract, CallsTyped
  <2>8. CASE drv_cmds' = drv_cmds \o r
    BY <2>6, <2>7, <2>8, FewerConcat, ConcatProperties DEF CallsKept
  <2> QED
    BY <2>1, <2>8, NoCall DEF r
<1>4. Quieter /\ FlushesKept
  BY <1>2, NoMessage, FlushesStay
<1>5. Patient
  BY <1>2 DEF Patient, Asked
<1>6. Bits' = Bits
      /\ \A port \in PortNames : FlushPending(port) \in m_flags' => FlushPending(port) \in m_flags
  BY BitsDiffer DEF PortDisableFlush, Bits
<1>7. Lent' \subseteq Lent
  BY <1>2 DEF Lent
<1> QED
  BY <1>1, <1>3, <1>4, <1>5, <1>6, <1>7, Aside DEF PortDisableFlush

(* An entry that is taken, and what is known if it is part of a request.   *)
LEMMA TakenFinds ==
  ASSUME Contract, NEW id, Take(id)
  PROVE  /\ m_cmd_q \in Seq(CmdEntries) /\ m_cmd_q # << >> /\ m_cmd_q' = Tail(m_cmd_q)
         /\ Head(m_cmd_q) \in CmdEntries /\ Head(m_cmd_q).id = id
         /\ Quieter
         /\ \A port \in PortNames : Has(m_cmd_q', Flushed(port)) => Has(m_cmd_q, Flushed(port))
         /\ UNCHANGED <<allocated, waiting, released>> /\ released = {}
         /\ Head(m_cmd_q) \in StateEntries =>
              /\ Awaits /\ Bits = {} /\ ~ Has(m_cmd_q', Requests) /\ Head(m_cmd_q) \notin Wrong(m_state)
         /\ Head(m_cmd_q) \notin FlushEvents
<1>1. m_cmd_q \in Seq(CmdEntries) /\ m_cmd_q # << >> /\ m_cmd_q' = Tail(m_cmd_q)
      /\ Head(m_cmd_q).id = id /\ UNCHANGED <<allocated, waiting, released>> /\ released = {}
  BY DEF Take, Contract, CallsTyped
<1>2. Head(m_cmd_q) \in CmdEntries
  BY <1>1
<1>3. /\ Quieter
      /\ \A port \in PortNames : Has(m_cmd_q', Flushed(port)) => Has(m_cmd_q, Flushed(port))
      /\ Head(m_cmd_q) \in Requests => Has(m_cmd_q, Requests) /\ ~ Has(m_cmd_q', Requests)
  <2>1. << >> \in Seq(Beside) /\ m_cmd_q' = Tail(m_cmd_q) \o << >>
    BY <1>1, Few
  <2> QED
    BY <1>1, <2>1, PostedQuieter
<1>4. Head(m_cmd_q) \in StateEntries =>
        /\ Awaits /\ Bits = {} /\ ~ Has(m_cmd_q', Requests) /\ Head(m_cmd_q) \notin Wrong(m_state)
  <2>1. Head(m_cmd_q) \in StateEntries => Head(m_cmd_q) \in Requests /\ Has(m_cmd_q, StateEntries)
    BY <1>1, Kinds, TailHas
  <2>2. Head(m_cmd_q) \notin Wrong(m_state)
    BY <1>1, TailHas DEF Contract, InStep
  <2> QED
    BY <1>3, <2>1, <2>2 DEF Contract, OneRequest
<1>5. Head(m_cmd_q) \notin FlushEvents
  BY <1>1, TailHas DEF Contract, Flushing
<1> QED
  BY <1>1, <1>2, <1>3, <1>4, <1>5

(* An entry taken that is no part of a request for a state.                *)
LEMMA TakenAside ==
  ASSUME Contract, NEW id, Take(id), CallsKept, drv_held' = drv_held, held \subseteq held',
         UNCHANGED <<m_state, cstate, flushing>>, Bits' = Bits,
         \A port \in PortNames : FlushPending(port) \in m_flags' => FlushPending(port) \in m_flags,
         owed' = owed \/ \E c : owed' = owed \ {c} /\ c.cmd \notin {"StateSet", "Flush"}
  PROVE  Contract' /\ Promise
<1>1. Quieter /\ FlushesKept /\ UNCHANGED <<allocated, waiting, released>>
  BY TakenFinds, FlushesStay
<1>2. Lent' \subseteq Lent
  BY <1>1 DEF Lent
<1>3. Patient
  <2>1. Awaits => owed' = owed
    BY DEF Awaits
  <2>2. \A port \in PortNames : Asked("Flush", port) => Asked("Flush", port)'
    BY DEF Asked
  <2> QED
    BY <1>1, <2>1, <2>2 DEF Patient
<1> QED
  BY <1>1, <1>2, <1>3, Aside

(* The contract when nothing is asked for.                                 *)
LEMMA Settled ==
  ASSUME CallsTyped', ~ Has(m_cmd_q', Requests), Bits' = {}, ~ Has(drv_cmds', Stops),
         ~ Has(m_cmd_q', Stopped), ~ Has(m_cmd_q', FlushEvents),
         m_state' = cstate', m_state' \in States, released' = {},
         m_state' \in Resting => Lent' = {}, FlushesKept,
         \A port \in PortNames :
           /\ port \in flushing' /\ m_state' \in Resting => Asked("Flush", port)'
           /\ FlushPending(port) \in m_flags' => Asked("Flush", port)'
  PROVE  Contract'
<1>1. /\ ~ Has(m_cmd_q', Commanded) /\ ~ Has(m_cmd_q', StateEntries)
      /\ \A state : ~ Has(m_cmd_q', Wrong(state))
      /\ \A arg \in PortNames \cup {"ALL"} : ~ Has(m_cmd_q', FlushOrder(arg))
  <2>1. \A D : D \subseteq Requests => ~ Has(m_cmd_q', D)
    BY DEF Has
  <2>2. /\ Commanded \subseteq Requests /\ StateEntries \subseteq Requests
        /\ StateEvents \subseteq Requests
    BY Kinds DEF Requests
  <2>3. \A state : Wrong(state) \subseteq Requests
    BY <2>2, Kinds
  <2>4. \A arg \in PortNames \cup {"ALL"} : FlushOrder(arg) \subseteq Requests
    BY <2>2, Kinds
  <2> QED
    BY <2>1, <2>2, <2>3, <2>4
<1>2. IdlePending \notin m_flags' /\ LoadingPending \notin m_flags' /\ ExecutePending \notin m_flags'
      /\ PausePending \notin m_flags'
  BY DEF Bits, StateBits
<1>3. OneRequest'
  <2>1. AtMostOne(m_cmd_q', Requests)
    BY DEF Has, AtMostOne
  <2> QED
    BY <1>1, <2>1 DEF OneRequest
<1>4. InStep'
  BY <1>1, <1>2 DEF InStep
<1>5. Lending'
  BY <1>2 DEF Lending, FlushesKept
<1>6. Stopping'
  BY DEF Stopping, Has, AtMostOne
<1>7. Flushing'
  BY <1>1 DEF Flushing
<1> QED
  BY <1>3, <1>4, <1>5, <1>6, <1>7 DEF Contract

(* While the client waits for a state it waits for no flush.               *)
LEMMA AwaitsNoFlush ==
  ASSUME Contract, Awaits
  PROVE  \A port \in PortNames : /\ ~ Asked("Flush", port) /\ FlushPending(port) \notin m_flags
                                 /\ m_state \in Resting => port \notin flushing
<1>1. \A port \in PortNames : ~ Asked("Flush", port)
  BY DEF Awaits, Asked
<1> QED
  BY <1>1 DEF Contract, Flushing

(* No stop is under way when the component is not on the way to Idle.      *)
LEMMA NoStop ==
  ASSUME Contract, IdlePending \in m_flags => m_state \notin Processes, CallsKept, Quieter
  PROVE  /\ ~ Has(drv_cmds, Stops) /\ ~ Has(m_cmd_q, Stopped)
         /\ ~ Has(drv_cmds', Stops) /\ ~ Has(m_cmd_q', Stopped)
<1>1. ~ Has(drv_cmds, Stops) /\ ~ Has(m_cmd_q, Stopped)
  BY DEF Contract, Stopping
<1> QED
  BY <1>1, QuietHas, CallsHave

(* A granted state is entered.                                             *)
LEMMA StateSetContract == ASSUME Contract, StateSetEvent PROVE Contract' /\ Promise
<1> DEFINE e == Head(m_cmd_q)
<1>1. Take("EVENT") /\ e.p1 = "StateSet" /\ m_state' = e.p2 /\ cstate' = e.p2
      /\ UNCHANGED <<m_flags, flushing, drv_cmds, drv_held, held>>
  BY DEF StateSetEvent, driver
<1>2. e \in StateEvents /\ e \in StateEntries
  <2>1. e \in CmdEntries /\ e.id = "EVENT"
    BY <1>1, TakenFinds
  <2> QED
    BY <1>1, <2>1 DEF CmdEntries, StateEvents, StateEntries
<1> HIDE DEF e
<1>3. Awaits /\ Bits = {} /\ ~ Has(m_cmd_q', Requests) /\ e \notin Wrong(m_state) /\ Quieter
      /\ released' = {} /\ UNCHANGED allocated
      /\ \A port \in PortNames : Has(m_cmd_q', Flushed(port)) => Has(m_cmd_q, Flushed(port))
  BY <1>1, <1>2, TakenFinds DEF e
<1>4. <<m_state, m_state'>> \in Quick
  BY <1>1, <1>2, <1>3 DEF Wrong
<1>5. m_state \in Resting /\ m_state' \in Resting /\ m_state' \in States
      /\ <<m_state, m_state'>> \in IL!Edges
  BY <1>4 DEF Quick, Resting, States, IL!Edges
<1>6. Lent = {} /\ Lent' = {}
  BY <1>1, <1>3, <1>5 DEF Contract, Lending, Lent
<1>7. CallsKept /\ FlushesKept
  BY <1>1, <1>3, NoCall, FlushesStay
<1>8. ~ Has(drv_cmds', Stops) /\ ~ Has(m_cmd_q', Stopped) /\ ~ Has(m_cmd_q', FlushEvents)
  <2>1. IdlePending \notin m_flags
    BY <1>3 DEF Bits, StateBits
  <2> QED
    BY <1>3, <1>7, <2>1, NoStop, QuietHas DEF Contract, Flushing
<1>9. Contract'
  <2>1. \A port \in PortNames : port \notin flushing' /\ FlushPending(port) \notin m_flags'
    BY <1>1, <1>3, <1>5, AwaitsNoFlush
  <2>2. Bits' = {} /\ CallsTyped'
    BY <1>1, <1>3, <1>7 DEF Bits, CallsTyped, Quieter, CallsKept
  <2> QED
    BY <1>1, <1>3, <1>5, <1>6, <1>7, <1>8, <2>1, <2>2, Settled
<1> QED
  BY <1>5, <1>6, <1>9 DEF Promise

(* The end of a port disable, its deferral, and the events of enables.     *)
LEMMA PortEventContract ==
  ASSUME Contract, ~ m_error_propogated', PortDisableEvent \/ OtherEvents
  PROVE  Contract' /\ Promise
<1>1. CASE PortDisableEvent
  <2>1. Take("EVENT") /\ UNCHANGED <<m_state, cstate, flushing, held, drv_cmds, drv_held>>
    BY <1>1 DEF PortDisableEvent, driver
  <2>2. m_flags' = m_flags \/ m_flags' = m_flags \cup {DisableOutputDeferred}
    BY <1>1 DEF PortDisableEvent
  <2>3. Bits' = Bits
        /\ \A port \in PortNames : FlushPending(port) \in m_flags' => FlushPending(port) \in m_flags
    BY <2>2, BitsDiffer DEF Bits
  <2>4. owed' = owed \/ \E port : owed' = owed \ {[cmd |-> "PortDisable", arg |-> port]}
    BY <1>1 DEF PortDisableEvent, Quiet, Completed, omx_report_error
  <2>5. owed' = owed \/ \E c : owed' = owed \ {c} /\ c.cmd \notin {"StateSet", "Flush"}
    BY <2>4
  <2> QED
    BY <2>1, <2>3, <2>5, NoCall, TakenAside
<1>2. CASE OtherEvents
  <2>1. Take("EVENT")
        /\ UNCHANGED <<m_state, cstate, flushing, held, drv_cmds, drv_held, m_flags>>
    BY <1>2 DEF OtherEvents, driver
  <2>2. Head(m_cmd_q) \in CmdEntries /\ Head(m_cmd_q).id = "EVENT" /\ Head(m_cmd_q) \notin FlushEvents
    BY <2>1, TakenFinds
  <2>3. Head(m_cmd_q).p1 # "Flush"
    BY <2>2 DEF CmdEntries, FlushEvents
  <2>4. PICK p : owed' = owed \ {[cmd |-> "PortEnable", arg |-> p]}
    BY <1>2, <2>3 DEF OtherEvents, Completed
  <2>5. \E c : owed' = owed \ {c} /\ c.cmd \notin {"StateSet", "Flush"}
    <3> DEFINE c == [cmd |-> "PortEnable", arg |-> p]
    <3>1. owed' = owed \ {c} /\ c.cmd = "PortEnable"
      BY <2>4
    <3> HIDE DEF c
    <3> QED
      BY <3>1
  <2>6. Bits' = Bits
    BY <2>1 DEF Bits
  <2> QED
    BY <2>1, <2>5, <2>6, NoCall, TakenAside
<1> QED
  BY <1>1, <1>2

(* A refusal answers what the client waits for; the error of a free does   *)
(* not.                                                                    *)
LEMMA ErrorContract ==
  ASSUME Contract, ~ m_error_propogated', ErrorEvents
  PROVE  Contract' /\ Promise
<1> DEFINE e == Head(m_cmd_q)
<1>1. Take("EVENT") /\ e.p1 = "Error"
      /\ UNCHANGED <<m_flags, flushing, drv_cmds, drv_held, held>>
  BY DEF ErrorEvents, driver
<1>2. e.p2 # "Hardware"
  BY DEF ErrorEvents, omx_report_error
<1>3. e \in CmdEntries /\ e.id = "EVENT"
  BY <1>1, TakenFinds
<1>4. CASE e.p2 = "PortUnpopulated"
  <2>1. UNCHANGED <<m_state, cstate, owed>>
    BY <1>4 DEF ErrorEvents
  <2>2. Bits' = Bits
    BY <1>1 DEF Bits
  <2> QED
    BY <1>1, <2>1, <2>2, NoCall, TakenAside
<1>5. CASE e.p2 # "PortUnpopulated"
  <2>1. /\ owed' = {} /\ m_state' = (IF e.p2 = "Invalid" THEN "Invalid" ELSE m_state)
        /\ cstate' = (IF e.p2 = "Invalid" THEN "Invalid" ELSE cstate)
    BY <1>2, <1>5 DEF ErrorEvents, GiveUp
  <2>2. e \in StateEntries
    BY <1>1, <1>3, <1>5 DEF CmdEntries, Answers, StateEntries
  <2> HIDE DEF e
  <2>3. Awaits /\ Bits = {} /\ ~ Has(m_cmd_q', Requests) /\ Quieter /\ released' = {}
        /\ UNCHANGED allocated
        /\ \A port \in PortNames : Has(m_cmd_q', Flushed(port)) => Has(m_cmd_q, Flushed(port))
    BY <1>1, <2>2, TakenFinds DEF e
  <2>4. CallsKept /\ FlushesKept
    BY <1>1, <2>3, NoCall, FlushesStay
  <2>5. ~ Has(drv_cmds', Stops) /\ ~ Has(m_cmd_q', Stopped) /\ ~ Has(m_cmd_q', FlushEvents)
    <3>1. IdlePending \notin m_flags
      BY <2>3 DEF Bits, StateBits
    <3> QED
      BY <2>3, <2>4, <3>1, NoStop, QuietHas DEF Contract, Flushing
  <2>6. m_state' \in Resting => m_state' = m_state
    BY <2>1 DEF Resting
  <2>7. Lent' = Lent /\ (m_state' \in Resting => Lent' = {})
    <3>1. Lent' = Lent
      BY <1>1, <2>3 DEF Lent
    <3> QED
      BY <2>6, <3>1 DEF Contract, Lending
  <2>8. m_state' = cstate' /\ m_state' \in States
    BY <2>1 DEF Contract, InStep, States
  <2>9. Contract'
    <3>1. \A port \in PortNames : /\ m_state \in Resting => port \notin flushing'
                                  /\ FlushPending(port) \notin m_flags'
      BY <1>1, <2>3, AwaitsNoFlush
    <3>2. Bits' = {} /\ CallsTyped'
      BY <1>1, <2>3, <2>4 DEF Bits, CallsTyped, Quieter, CallsKept
    <3> QED
      BY <2>3, <2>4, <2>5, <2>6, <2>7, <2>8, <3>1, <3>2, Settled
  <2> QED
    BY <2>1, <2>7, <2>9 DEF Promise
<1> QED
  BY <1>4, <1>5

(* complete_pending_buffer_done_cbs takes nothing from the client.         *)
LEMMA PendingGives == complete_pending_buffer_done_cbs => held \subseteq held'
  BY DEF complete_pending_buffer_done_cbs

(* A pending state is entered.                                             *)
LEMMA EnteredContract ==
  ASSUME Contract, NEW id, Take(id), NEW bit \in StateBits, NEW state \in States,
         Enter(state, bit), UNCHANGED <<flushing, drv_cmds, drv_held>>, held \subseteq held',
         <<m_state, state>> \in IL!Edges, state \notin Processes => Lent' = {} /\ flushing = {},
         ~ Has(drv_cmds, Stops), ~ Has(m_cmd_q', Stopped)
  PROVE  Contract' /\ Promise
<1>1. Bits = {bit} /\ ~ Has(m_cmd_q, Requests) /\ Awaits
  BY DEF Enter, Bits, Contract, OneRequest
<1>2. Quieter /\ FlushesKept /\ UNCHANGED allocated /\ released' = {}
  BY TakenFinds, FlushesStay
<1>3. m_state' = state /\ cstate' = state /\ m_flags' = m_flags \ {bit}
  BY DEF Enter
<1>4. Bits' = {}
  BY <1>1, <1>3 DEF Bits
<1>5. ~ Has(m_cmd_q', Requests) /\ ~ Has(m_cmd_q', FlushEvents)
  BY <1>1, <1>2, QuietHas DEF Contract, Flushing
<1>6. \A port \in PortNames : FlushPending(port) \notin m_flags'
  BY <1>1, <1>3, AwaitsNoFlush
<1>7. CallsTyped'
  BY <1>2, NoCall DEF CallsTyped, Quieter, CallsKept
<1>8. state \in Resting => state \notin Processes
  BY DEF Resting, Processes
<1>9. Contract'
  BY <1>2, <1>3, <1>4, <1>5, <1>6, <1>7, <1>8, Settled
<1>10. Lent' \subseteq Lent
  BY <1>2 DEF Lent
<1> QED
  BY <1>3, <1>9, <1>10 DEF Promise

(* START_DONE, PAUSE_DONE and RESUME_DONE.                                 *)
LEMMA RunDoneContract ==
  ASSUME Contract, ~ m_error_propogated', START_DONE \/ PAUSE_DONE \/ RESUME_DONE
  PROVE  Contract' /\ Promise
<1>1. PICK id \in {"START_DONE", "PAUSE_DONE", "RESUME_DONE"} : Take(id)
  BY DEF START_DONE, PAUSE_DONE, RESUME_DONE, StopOrPauseDone
<1>2. held \subseteq held' /\ UNCHANGED <<flushing, drv_held>>
  BY PendingGives DEF START_DONE, PAUSE_DONE, RESUME_DONE, StopOrPauseDone, Accept, Refuse, driver
<1>3. CASE Stay
  <2>1. CallsKept
    BY <1>3, NoCall, CallAdded, DrvKinds
    DEF START_DONE, PAUSE_DONE, RESUME_DONE, StopOrPauseDone, Refuse, driver
  <2>2. Bits' = Bits /\ UNCHANGED <<m_state, cstate, owed, m_flags>>
    BY <1>3 DEF Stay, Quiet, Bits
  <2> QED
    BY <1>1, <1>2, <2>1, <2>2, TakenAside
<1>4. CASE ~ Stay
  <2>1. PICK state \in Processes, bit \in {ExecutePending, PausePending} :
          /\ <<state, bit>> \in {<<"Executing", ExecutePending>>, <<"Pause", PausePending>>}
          /\ Enter(state, bit) /\ UNCHANGED drv_cmds
    BY <1>4 DEF START_DONE, PAUSE_DONE, RESUME_DONE, StopOrPauseDone, Processes, ReportStay,
                omx_report_error, driver
  <2>2. bit \in StateBits /\ state \in States /\ bit \in m_flags /\ bit # IdlePending
    BY <2>1, BitsDiffer DEF StateBits, Processes, States, Enter
  <2>3. <<m_state, state>> \in IL!Edges
    BY <2>1, <2>2 DEF Contract, InStep, IL!Edges
  <2>4. IdlePending \notin m_flags
    BY <2>2 DEF Contract, OneRequest, Bits, StateBits
  <2>5. ~ Has(drv_cmds, Stops) /\ ~ Has(m_cmd_q', Stopped)
    BY <1>1, <2>1, <2>4, NoStop, NoCall, TakenFinds
  <2> QED
    BY <1>1, <1>2, <2>1, <2>2, <2>3, <2>5, EnteredContract
<1> QED
  BY <1>3, <1>4

(* STOP_DONE ends the move to Idle: every flush has ended, so that nothing *)
(* is lent any more.                                                       *)
LEMMA StopDoneContract ==
  ASSUME OwnInv, Contract, ~ m_error_propogated', STOP_DONE
  PROVE  Contract' /\ Promise
<1>1. Take("STOP_DONE") /\ held \subseteq held' /\ UNCHANGED <<flushing, drv_cmds, drv_held>>
  BY PendingGives DEF STOP_DONE, StopOrPauseDone, driver
<1>2. CASE Stay
  <2>1. Bits' = Bits /\ UNCHANGED <<m_state, cstate, owed, m_flags>>
    BY <1>2 DEF Stay, Quiet, Bits
  <2> QED
    BY <1>1, <2>1, NoCall, TakenAside
<1>3. CASE Enter("Idle", IdlePending)
  <2>1. Head(m_cmd_q) \in CmdEntries /\ Head(m_cmd_q).id = "STOP_DONE"
        /\ m_cmd_q \in Seq(CmdEntries) /\ m_cmd_q # << >> /\ m_cmd_q' = Tail(m_cmd_q)
        /\ UNCHANGED allocated
    BY <1>1, TakenFinds
  <2>2. Head(m_cmd_q) \in Stopped
    BY <2>1 DEF CmdEntries, Stopped
  <2>3. Has(m_cmd_q, Stopped) /\ ~ Has(m_cmd_q', Stopped)
    BY <2>1, <2>2, TailHas DEF Contract, Stopping
  <2>4. IdlePending \in m_flags /\ m_state \in Processes /\ flushing = {} /\ ~ Has(drv_cmds, Stops)
    BY <2>3 DEF Contract, Stopping
  <2>5. Lent = {}
    <3>1. \A port \in PortNames : PortBuffers(port) \cap Lent = {}
      BY <2>4 DEF Contract, Lending
    <3>2. InBuffers \cap Lent = {} /\ OutBuffers \cap Lent = {}
      BY <3>1 DEF PortNames, PortBuffers
    <3>3. Lent \subseteq InBuffers \cup OutBuffers
      BY DEF OwnInv, Lent, Buffers
    <3> QED
      BY <3>2, <3>3
  <2>6. Lent' = {}
    BY <1>1, <2>1, <2>5 DEF Lent
  <2>7. <<m_state, "Idle">> \in IL!Edges
    BY <2>4 DEF Processes, IL!Edges
  <2>8. "Idle" \in States /\ IdlePending \in StateBits
    BY DEF States, StateBits
  <2> QED
    BY <1>1, <1>3, <2>3, <2>4, <2>6, <2>7, <2>8, EnteredContract
<1> QED
  BY <1>2, <1>3 DEF STOP_DONE, StopOrPauseDone, ReportStay, omx_report_error

(* A reconfiguration is none of the contract's business.                   *)
LEMMA ReconfigContract ==
  ASSUME Contract, ~ m_error_propogated', PORT_RECONFIG \/ HARDWARE_ERROR
  PROVE  Contract' /\ Promise
<1>1. Take("PORT_RECONFIG")
      /\ UNCHANGED <<m_state, cstate, m_flags, owed, flushing, held, drv_held, drv_cmds>>
  BY DEF PORT_RECONFIG, HARDWARE_ERROR, ReportStay, omx_report_error, Quiet, driver
<1>2. Bits' = Bits
  BY <1>1 DEF Bits
<1> QED
  BY <1>1, <1>2, NoCall, TakenAside

(* At the end of a flush every buffer of the port is with the client: the  *)
(* driver has none when it acknowledges the flush, and the queue is        *)
(* emptied.                                                                *)
LEMMA FlushReturns ==
  ASSUME OwnInv', Contract, ~ m_error_propogated', NEW port \in PortNames, FlushDone(port),
         execute_flush(port)
  PROVE  PortBuffers(port) \cap Lent' = {}
<1>1. m_cmd_q \in Seq(CmdEntries) /\ m_cmd_q # << >> /\ UNCHANGED drv_held
  BY DEF FlushDone, Contract, CallsTyped, Accept, Refuse, driver
<1>2. PICK known \in SUBSET (allocated') :
        known = allocated' /\ Shared(held', drv_held', InFtb', InEtb', known)
  BY DEF OwnInv
<1>3. Lent' \subseteq drv_held' \cup InFtb' \cup InEtb'
  BY <1>2 DEF Lent, Shared
<1>4. drv_held' \cap PortBuffers(port) = {}
  <2>1. Head(m_cmd_q) \in CmdEntries
    BY <1>1
  <2>2. Head(m_cmd_q) \in Flushed(port)
    BY <2>1 DEF FlushDone, Flushed, CmdEntries
  <2>3. Has(m_cmd_q, Flushed(port))
    BY <1>1, <2>2, TailHas
  <2> QED
    BY <1>1, <2>3 DEF Contract, Lending
<1>5. PortBuffers(port) \cap InFtb' = {} /\ PortBuffers(port) \cap InEtb' = {}
  <2>1. m_ftb_q' \in Seq(FtbEntries) /\ m_etb_q' \in Seq(EtbEntries)
    BY DEF OwnInv, FtbTyped, EtbTyped
  <2>2. InFtb' \subseteq OutBuffers /\ InEtb' \subseteq InBuffers
    BY <2>1, BufferEntries DEF InFtb, InEtb, NamedIn
  <2>3. (port = "OUT" => InFtb' = {}) /\ (port = "IN" => InEtb' = {})
    BY EmptyFtb, EmptyEtb DEF execute_flush
  <2> QED
    BY <2>2, <2>3, VdecAssumption DEF PortBuffers, PortNames
<1> QED
  BY <1>3, <1>4, <1>5

(* The end of a flush.  On the way to Idle the last one stops the driver:  *)
(* what the client lent for this port has come back, from the driver       *)
(* before it acknowledged the flush, from the queue now.                   *)
LEMMA FlushDoneContract ==
  ASSUME OwnInv', Contract, ~ m_error_propogated', NEW port \in PortNames, FlushDone(port)
  PROVE  Contract' /\ Promise
<1> DEFINE r == IF /\ port = "OUT" /\ FlushInDisablePending \in m_flags
                   /\ DisableOutputDeferred \in m_flags /\ port \in flushing /\ ~ Failed
                  THEN <<PortEvent("PortDisable", "OUT")>> ELSE << >>
<1>1. m_cmd_q \in Seq(CmdEntries) /\ m_cmd_q # << >> /\ m_cmd_q' = Tail(m_cmd_q) \o r
  BY DEF FlushDone, Contract, CallsTyped
<1>2. r \in Seq(Beside)
  BY BesideHas, Few DEF Parameters, PortNames
<1> HIDE DEF r
<1>3. /\ Quieter
      /\ \A p \in PortNames : Has(m_cmd_q', Flushed(p)) => Has(m_cmd_q, Flushed(p))
  BY <1>1, <1>2, PostedQuieter
<1>4. /\ UNCHANGED <<m_state, cstate, waiting, released, allocated, drv_held>>
      /\ held \subseteq held' /\ released = {}
  BY DEF FlushDone, execute_flush, Accept, Refuse, driver
<1>5. Lent' \subseteq Lent
  BY <1>4 DEF Lent
<1>6. FlushesKept
  BY <1>3, <1>4, FlushesStay
<1>7. CASE port \notin flushing
  <2>1. UNCHANGED <<m_flags, owed, drv_cmds, flushing>>
    BY <1>7 DEF FlushDone, Quiet, driver
  <2>2. Bits' = Bits
    BY <2>1 DEF Bits
  <2>3. Patient
    BY <1>4, <2>1 DEF Patient, Asked
  <2> QED
    BY <1>3, <1>4, <1>5, <1>6, <2>1, <2>2, <2>3, NoCall, Aside
<1>8. CASE port \in flushing
  <2> DEFINE told == IF FlushPending(port) \in m_flags
                       THEN owed \ {[cmd |-> "Flush", arg |-> port]} ELSE owed
             gone == {FlushPending(port)}
                       \cup (IF port = "OUT" /\ FlushInDisablePending \in m_flags
                               THEN {FlushInDisablePending} ELSE {})
                       \cup (IF /\ port = "OUT" /\ FlushInDisablePending \in m_flags
                                /\ DisableOutputDeferred \in m_flags
                               THEN {DisableOutputDeferred} ELSE {})
  <2>1. /\ m_flags' = m_flags \ gone /\ owed' = told
        /\ IF IdlePending \in m_flags /\ flushing' = {}
             THEN Accept(Plain("STOP")) ELSE UNCHANGED drv_cmds
        /\ execute_flush(port)
    BY <1>8 DEF FlushDone, omx_report_error, driver
  <2>2. FlushPending(port) \notin m_flags' /\ m_flags' \subseteq m_flags
        /\ \A bit \in StateBits : bit \notin gone
    BY <2>1, BitsDiffer
  <2> HIDE DEF gone
  <2>3. flushing' = flushing \ {port}
    BY <2>1 DEF execute_flush
  <2>4. Bits' = Bits
    BY <2>1, <2>2 DEF Bits
  <2>5. /\ Awaits => owed' = owed
        /\ \A p \in PortNames : Asked("Flush", p) /\ p # port => Asked("Flush", p)'
        /\ FlushPending(port) \notin m_flags => owed' = owed
    BY <2>1 DEF Awaits, Asked
  <2>6. PortBuffers(port) \cap Lent' = {}
    BY <2>1, FlushReturns
  <2>7. IdlePending \in m_flags => m_state \in Processes /\ Awaits
    <3>1. Bits # {} => Awaits
      BY DEF Contract, OneRequest
    <3>2. IdlePending \in m_flags => Awaits
      BY <3>1 DEF Bits, StateBits
    <3>3. Awaits => m_state \notin Resting
      BY <1>8, AwaitsNoFlush
    <3>4. IdlePending \in m_flags => m_state \in {"Loaded", "Executing", "Pause"}
      BY DEF Contract, InStep
    <3> QED
      BY <3>2, <3>3, <3>4 DEF Resting, Processes
  <2>8. ~ Has(drv_cmds, Stops) /\ ~ Has(m_cmd_q, Stopped)
    BY <1>8 DEF Contract, Stopping
  <2>9. /\ drv_cmds' \in Seq(DrvCommands) /\ AtMostOne(drv_cmds', Stops)
        /\ Has(drv_cmds', Stops) => IdlePending \in m_flags /\ flushing' = {}
    <3>1. drv_cmds \in Seq(DrvCommands) /\ AtMostOne(drv_cmds, Stops)
          /\ Plain("STOP") \in DrvCommands
      BY DrvKinds DEF Contract, CallsTyped, Stopping
    <3>2. CASE IdlePending \in m_flags /\ flushing' = {}
      <4> DEFINE c == Plain("STOP")
      <4>1. drv_cmds' = Append(drv_cmds, c) /\ c \in DrvCommands
        BY <2>1, <3>1, <3>2 DEF Accept
      <4> HIDE DEF c
      <4>2. Append(drv_cmds, c) \in Seq(DrvCommands)
        BY <3>1, <4>1, AppendProperties
      <4>3. AtMostOne(Append(drv_cmds, c), Stops)
        BY <2>8, <3>1, <4>1, AppendHas
      <4> QED
        BY <3>2, <4>1, <4>2, <4>3
    <3>3. CASE ~ (IdlePending \in m_flags /\ flushing' = {})
      BY <2>1, <2>8, <3>1, <3>3
    <3> QED
      BY <3>2, <3>3
  <2>10. CallsTyped'
    BY <1>3, <2>9 DEF CallsTyped, Quieter
  <2>11. OneRequest'
    <3>1. Awaits => Awaits'
      BY <2>5 DEF Awaits
    <3> QED
      BY <1>3, <1>4, <2>4, <3>1, QuietHas DEF Contract, OneRequest
  <2>12. InStep'
    BY <1>3, <1>4, <2>4, QuietHas, SameBits DEF Contract, InStep
  <2>13. Lending'
    <3>1. \A p : PortBuffers(p) \cap Lent = {} => PortBuffers(p) \cap Lent' = {}
      BY <1>5
    <3>2. m_state \in Resting => Lent' = {}
      BY <1>5 DEF Contract, Lending
    <3> QED
      BY <1>4, <1>6, <2>3, <2>4, <2>6, <3>1, <3>2, SameBits DEF Contract, Lending, FlushesKept
  <2>14. Stopping'
    <3>1. ~ Has(m_cmd_q', Stopped)
      BY <1>3, <2>8, QuietHas
    <3>2. AtMostOne(m_cmd_q', Stopped)
      BY <3>1 DEF Has, AtMostOne
    <3> QED
      BY <1>4, <2>4, <2>7, <2>9, <3>1, <3>2, SameBits DEF Stopping
  <2>15. Flushing'
    <3>1. ~ Has(m_cmd_q', FlushEvents)
      BY <1>3, QuietHas DEF Contract, Flushing
    <3>2. ASSUME NEW p \in PortNames
          PROVE  /\ p \in flushing' /\ m_state' \in Resting => Asked("Flush", p)'
                 /\ FlushPending(p) \in m_flags' => Asked("Flush", p)'
      BY <1>4, <2>2, <2>3, <2>5 DEF Contract, Flushing
    <3>3. ASSUME NEW arg \in PortNames \cup {"ALL"}, Has(m_cmd_q', FlushOrder(arg)),
                 NEW p \in Ports(arg)
          PROVE  Asked("Flush", p)' /\ FlushPending(p) \notin m_flags'
      <4>1. p \in PortNames
        BY DEF Ports, PortNames
      <4>2. Has(m_cmd_q, FlushOrder(arg))
        BY <1>3, <3>3, QuietHas
      <4>3. Asked("Flush", p) /\ FlushPending(p) \notin m_flags
        BY <4>2 DEF Contract, Flushing
      <4>4. p = port => owed' = owed
        BY <2>5, <4>3
      <4> QED
        BY <2>2, <2>5, <4>1, <4>3, <4>4 DEF Asked
    <3> QED
      BY <3>1, <3>2, <3>3 DEF Flushing
  <2> QED
    BY <1>4, <1>5, <2>10, <2>11, <2>12, <2>13, <2>14, <2>15 DEF Contract, Promise
<1> QED
  BY <1>7, <1>8

(* A request that the component answers later: only its bit is pending.    *)
LEMMA RequestPending ==
  ASSUME Contract, NEW arg \in States, Proxy("StateSet", arg), NEW r \in Seq(Beside), Post(r),
         NEW bit \in StateBits, m_flags' = m_flags \cup {bit}, CallsKept, drv_held' = drv_held,
         owed' = owed, released' = released,
         flushing' = flushing \/ m_state \in Processes,
         bit = LoadingPending => m_state = "Idle",
         bit = ExecutePending => m_state \in {"Idle", "Pause"},
         bit = PausePending => m_state \in {"Idle", "Executing"},
         bit = IdlePending => \/ m_state = "Loaded"
                              \/ m_state \in Processes /\ PortNames \subseteq flushing'
  PROVE  Contract' /\ Promise
<1>1. arg \in Parameters /\ "StateSet" \in Parameters
  BY DEF Parameters
<1>2. /\ m_cmd_q \in Seq(CmdEntries) /\ m_cmd_q # << >>
      /\ Head(m_cmd_q) = Entry("COMMAND", "StateSet", arg)
      /\ Bits = {} /\ m_state \in States \ {"Invalid"} /\ released = {} /\ Lent' = Lent
      /\ UNCHANGED <<m_state, cstate>>
  BY <1>1, ProxyFinds DEF Proxy
<1>3. Awaits
  <2>1. Head(m_cmd_q) \in StateEntries
    <3>1. Entry("COMMAND", "StateSet", arg) \in StateCommands
      BY <1>1 DEF Entry, StateCommands
    <3> QED
      BY <1>2, <3>1 DEF StateEntries
  <2>2. Has(m_cmd_q, StateEntries)
    BY <1>2, <2>1, TailHas
  <2> QED
    BY <2>2 DEF Contract, OneRequest
<1>4. /\ Quieter /\ ~ Has(m_cmd_q', Requests) /\ ~ Has(m_cmd_q', Commanded)
      /\ ~ Has(m_cmd_q', StateEntries)
      /\ \A port \in PortNames : Has(m_cmd_q', Flushed(port)) => Has(m_cmd_q, Flushed(port))
  BY <1>1, ProxyTakes
<1>5. /\ \A state : ~ Has(m_cmd_q', Wrong(state))
      /\ \A a \in PortNames \cup {"ALL"} : ~ Has(m_cmd_q', FlushOrder(a))
  <2>1. StateEvents \subseteq StateEntries
    BY DEF StateEntries
  <2> QED
    BY <1>4, <2>1, Kinds DEF Has
<1>6. Bits' = {bit} /\ \A b \in StateBits : b \in m_flags' => b = bit
  BY <1>2 DEF Bits
<1>7. FlushesKept
  BY <1>4, FlushesStay
<1>8. ~ Has(drv_cmds', Stops) /\ ~ Has(m_cmd_q', Stopped)
  <2>1. IdlePending \notin m_flags
    BY <1>2 DEF Bits, StateBits
  <2> QED
    BY <1>4, <2>1, NoStop
<1>9. CallsTyped'
  BY <1>4 DEF CallsTyped, Quieter, CallsKept
<1>10. OneRequest'
  <2>1. AtMostOne(m_cmd_q', Requests)
    BY <1>4 DEF Has, AtMostOne
  <2>2. Awaits'
    BY <1>3 DEF Awaits
  <2> QED
    BY <1>4, <1>6, <2>1, <2>2 DEF OneRequest
<1>11. InStep'
  <2>1. /\ LoadingPending \in m_flags' => m_state = "Idle"
        /\ ExecutePending \in m_flags' => m_state \in {"Idle", "Pause"}
        /\ PausePending \in m_flags' => m_state \in {"Idle", "Executing"}
        /\ IdlePending \in m_flags' => m_state \in {"Loaded", "Executing", "Pause"}
    BY <1>6 DEF StateBits, Processes
  <2> QED
    BY <1>2, <1>4, <1>5, <2>1 DEF Contract, InStep
<1>12. Lending'
  <2>1. IdlePending \in m_flags' => m_state \notin Processes \/ PortNames \subseteq flushing'
    BY <1>6 DEF StateBits, Processes
  <2> QED
    BY <1>2, <1>7, <2>1 DEF Contract, Lending, FlushesKept
<1>13. Stopping'
  BY <1>8 DEF Stopping, Has, AtMostOne
<1>14. Flushing'
  <2>1. \A port \in PortNames : FlushPending(port) \notin m_flags'
    BY <1>3, AwaitsNoFlush, BitsDiffer
  <2>2. \A port \in PortNames : m_state \in Resting => port \notin flushing'
    BY <1>3, AwaitsNoFlush DEF Resting, Processes
  <2>3. ~ Has(m_cmd_q', FlushEvents)
    BY <1>4, QuietHas DEF Contract, Flushing
  <2> QED
    BY <1>2, <1>5, <2>1, <2>2, <2>3 DEF Flushing
<1> QED
  BY <1>2, <1>9, <1>10, <1>11, <1>12, <1>13, <1>14 DEF Contract, Promise

(* The one answer to a request, among entries of no concern.               *)
Answered(e) ==
  /\ m_cmd_q' \in Seq(CmdEntries)
  /\ AtMostOne(m_cmd_q', Requests) /\ ~ Has(m_cmd_q', Commanded)
  /\ \A state : Has(m_cmd_q', Wrong(state)) => e \in Wrong(state)
  /\ Has(m_cmd_q', Stopped) => Has(m_cmd_q, Stopped)
  /\ ~ Has(m_cmd_q', FlushEvents)
  /\ \A port \in PortNames : Has(m_cmd_q', Flushed(port)) => Has(m_cmd_q, Flushed(port))

(* A queue without requests and one answer, then others.                   *)
LEMMA AnswerAdded ==
  ASSUME Contract, NEW q \in Seq(CmdEntries), ~ Has(q, Requests),
         Has(q, Stopped) => Has(m_cmd_q, Stopped), ~ Has(q, FlushEvents),
         \A port \in PortNames : Has(q, Flushed(port)) => Has(m_cmd_q, Flushed(port)),
         NEW e \in StateEvents \cup Answers, NEW r \in Seq(Beside), m_cmd_q' = (q \o <<e>>) \o r
  PROVE  Answered(e)
<1> DEFINE p == Append(q, e)
<1>1. e \in CmdEntries /\ e \in Requests /\ e \notin Commanded /\ e \notin Stopped
      /\ e \notin FlushEvents /\ \A port : e \notin Flushed(port)
  <2>1. e \in Requests /\ e \in Told
    BY Kinds DEF Requests
  <2> QED
    BY <2>1, Kinds DEF StateEvents, Answers, Commanded, Stopped, FlushEvents
<1>2. q \o <<e>> = p
  OBVIOUS
<1>3. /\ p \in Seq(CmdEntries) /\ AtMostOne(p, Requests)
      /\ \A D : Has(p, D) <=> Has(q, D) \/ e \in D
  <2>1. ~ Has(q, Requests) => AtMostOne(q, Requests)
    BY DEF Has, AtMostOne
  <2> QED
    BY <1>1, <2>1, AppendHas, AppendProperties
<1> HIDE DEF p
<1>4. /\ m_cmd_q' = p \o r /\ Beside \subseteq CmdEntries /\ Beside \in SUBSET CmdEntries
  BY <1>2 DEF Beside
<1>5. m_cmd_q' \in Seq(CmdEntries) /\ Fewer(p, m_cmd_q', CmdEntries \ Beside)
  <2>1. r \in Seq(CmdEntries)
    BY <1>4, SeqMonotonic
  <2>2. \A i \in DOMAIN r : r[i] \in Beside
    OBVIOUS
  <2>3. ~ Has(r, CmdEntries \ Beside)
    BY <2>2 DEF Has
  <2> QED
    BY <1>3, <1>4, <2>1, <2>3, FewerConcat, ConcatProperties
<1>6. /\ Told \in SUBSET (CmdEntries \ Beside) /\ Requests \in SUBSET (CmdEntries \ Beside)
      /\ \A port \in PortNames : Flushed(port) \in SUBSET (CmdEntries \ Beside)
  BY Kinds DEF PortNames, Beside
<1>7. /\ AtMostOne(m_cmd_q', Requests)
      /\ \A D \in SUBSET Told : Has(m_cmd_q', D) => Has(q, D) \/ e \in D
      /\ \A port \in PortNames : Has(m_cmd_q', Flushed(port)) => Has(q, Flushed(port))
  BY <1>1, <1>3, <1>5, <1>6 DEF Fewer
<1>8. \A D : D \subseteq Requests => ~ Has(q, D)
  BY DEF Has
<1>9. /\ Commanded \subseteq Requests
      /\ \A state : Wrong(state) \subseteq Requests
  BY Kinds DEF Requests
<1> QED
  BY <1>1, <1>5, <1>7, <1>8, <1>9, Kinds DEF Answered

(* A request is granted or refused.                                        *)
LEMMA AnsweredContract ==
  ASSUME Contract, NEW e \in StateEvents \cup Answers, Answered(e), e \notin Wrong(m_state),
         Awaits, m_state # "Invalid", IdlePending \in m_flags => m_state \notin Processes,
         UNCHANGED <<m_state, cstate, owed, flushing>>, released' = {}, Bits' = {},
         \A port \in PortNames : FlushPending(port) \in m_flags' => FlushPending(port) \in m_flags,
         Lent' \subseteq Lent, drv_held' = drv_held, CallsKept
  PROVE  Contract' /\ Promise
<1>1. ~ Has(drv_cmds, Stops) /\ ~ Has(m_cmd_q, Stopped)
  BY DEF Contract, Stopping
<1>2. ~ Has(drv_cmds', Stops) /\ ~ Has(m_cmd_q', Stopped)
  BY <1>1, CallsHave DEF Answered
<1>3. IdlePending \notin m_flags' /\ LoadingPending \notin m_flags' /\ ExecutePending \notin m_flags'
      /\ PausePending \notin m_flags'
  BY DEF Bits, StateBits
<1>4. CallsTyped'
  BY DEF CallsTyped, Answered, CallsKept
<1>5. OneRequest'
  <2>1. Awaits'
    BY DEF Awaits
  <2> QED
    BY <2>1 DEF OneRequest, Answered
<1>6. InStep'
  BY <1>3 DEF Contract, InStep, Answered
<1>7. Lending'
  <2>1. Lent = {} => Lent' = {}
    OBVIOUS
  <2> QED
    BY <1>3, <2>1 DEF Contract, Lending, Answered
<1>8. Stopping'
  BY <1>2 DEF Stopping, Has, AtMostOne
<1>9. Flushing'
  <2>1. \A port \in PortNames : /\ FlushPending(port) \notin m_flags'
                                /\ m_state \in Resting => port \notin flushing'
    BY AwaitsNoFlush
  <2>2. \A arg \in PortNames \cup {"ALL"} : ~ Has(m_cmd_q', FlushOrder(arg))
    BY Kinds DEF Answered, Has
  <2> QED
    BY <2>1, <2>2 DEF Flushing, Answered
<1> QED
  BY <1>4, <1>5, <1>6, <1>7, <1>8, <1>9 DEF Contract, Promise

(* What a command taken alone leaves.                                      *)
LEMMA ProxyAnswers ==
  ASSUME Contract, NEW arg \in States, Proxy("StateSet", arg),
         NEW e \in StateEvents \cup Answers, Post(<<e>>), e \notin Wrong(m_state),
         UNCHANGED <<m_flags, flushing, released, owed>>, CallsKept, drv_held' = drv_held
  PROVE  Contract' /\ Promise
<1>1. arg \in Parameters /\ "StateSet" \in Parameters
  BY DEF Parameters
<1>2. /\ m_cmd_q \in Seq(CmdEntries) /\ m_cmd_q # << >>
      /\ Head(m_cmd_q) = Entry("COMMAND", "StateSet", arg) /\ Head(m_cmd_q) \in Requests
      /\ Bits = {} /\ m_state \in States \ {"Invalid"} /\ released = {} /\ Lent' = Lent
      /\ UNCHANGED <<m_state, cstate>>
  BY <1>1, ProxyFinds DEF Proxy
<1>3. Awaits
  <2>1. Entry("COMMAND", "StateSet", arg) \in StateCommands
    BY <1>1 DEF Entry, StateCommands
  <2>2. Has(m_cmd_q, StateEntries)
    BY <1>2, <2>1, TailHas DEF StateEntries
  <2> QED
    BY <2>2 DEF Contract, OneRequest
<1> DEFINE q == Tail(m_cmd_q)
<1>4. /\ q \in Seq(CmdEntries) /\ ~ Has(q, Requests) /\ (Has(q, Stopped) => Has(m_cmd_q, Stopped))
      /\ ~ Has(q, FlushEvents)
      /\ \A port \in PortNames : Has(q, Flushed(port)) => Has(m_cmd_q, Flushed(port))
  BY <1>2, TailHas DEF Contract, OneRequest, Flushing
<1>5. m_cmd_q' = (q \o <<e>>) \o << >> /\ << >> \in Seq(Beside)
  <2>1. m_cmd_q' = q \o <<e>> /\ <<e>> \in Seq({e})
    BY DEF Post
  <2>2. e \in CmdEntries
    BY Kinds DEF Requests
  <2>3. q \o <<e>> \in Seq(CmdEntries)
    BY <1>4, <2>2
  <2> QED
    BY <2>1, <2>3, Few
<1> HIDE DEF q
<1>6. Answered(e)
  BY <1>4, <1>5, AnswerAdded
<1>7. Bits' = {} /\ IdlePending \notin m_flags
  BY <1>2 DEF Bits, StateBits
<1> QED
  BY <1>2, <1>3, <1>6, <1>7, AnsweredContract

(* Which answers a request may get.                                        *)
LEMMA AnswerKinds ==
  /\ \A t \in States : /\ Entry("EVENT", "StateSet", t) \in StateEvents
                       /\ \A s : <<s, t>> \in Quick => Entry("EVENT", "StateSet", t) \notin Wrong(s)
  /\ \A error \in {"Hardware", "SameState", "Invalid", "IncorrectStateTransition"} :
       /\ ErrorEvent(error) \in Answers
       /\ \A s : ErrorEvent(error) \notin Wrong(s)
<1>1. ASSUME NEW t \in States
      PROVE  /\ Entry("EVENT", "StateSet", t) \in StateEvents
             /\ \A s : <<s, t>> \in Quick => Entry("EVENT", "StateSet", t) \notin Wrong(s)
  BY DEF Entry, StateEvents, Wrong, Parameters
<1>2. ASSUME NEW error \in {"Hardware", "SameState", "Invalid", "IncorrectStateTransition"}
      PROVE  /\ ErrorEvent(error) \in Answers
             /\ \A s : ErrorEvent(error) \notin Wrong(s)
  <2>1. error \in Parameters \ {"PortUnpopulated"}
    BY DEF Parameters, States
  <2> QED
    BY <2>1 DEF ErrorEvent, Entry, Answers, Wrong, StateEvents
<1> QED
  BY <1>1, <1>2

(* Requests that are granted or refused at once.                           *)
LEMMA QuickContract ==
  ASSUME Contract, ~ m_error_propogated',
         \/ Loaded_Idle \/ (\E eState \in States : Granted(eState) \/ Rejected(eState))
         \/ Executing_Pause \/ Pause_Executing,
         UNCHANGED <<m_flags, drv_cmds>>
  PROVE  Contract' /\ Promise
<1>1. PICK arg \in States, e \in StateEvents \cup Answers :
        Proxy("StateSet", arg) /\ Post(<<e>>) /\ e \notin Wrong(m_state)
  <2>1. CASE Loaded_Idle
    <3>1. Bits = {} /\ IdlePending \in StateBits
      BY <2>1, ProxyFinds DEF Loaded_Idle, StateBits, Parameters, States
    <3>2. Post(<<Entry("EVENT", "StateSet", "Idle")>>)
      BY <2>1, <3>1 DEF Loaded_Idle, Bits
    <3> QED
      BY <2>1, <3>2, AnswerKinds DEF Loaded_Idle, States, Quick
  <2>2. ASSUME NEW eState \in States, Granted(eState)
        PROVE  \E arg \in States, e \in StateEvents \cup Answers :
                 Proxy("StateSet", arg) /\ Post(<<e>>) /\ e \notin Wrong(m_state)
    <3>1. Proxy("StateSet", eState) /\ Post(<<Entry("EVENT", "StateSet", eState)>>)
          /\ <<m_state, eState>> \in Quick
      BY <2>2 DEF Granted, Quick
    <3> QED
      BY <3>1, AnswerKinds
  <2>3. ASSUME NEW eState \in States, Rejected(eState)
        PROVE  \E arg \in States, e \in StateEvents \cup Answers :
                 Proxy("StateSet", arg) /\ Post(<<e>>) /\ e \notin Wrong(m_state)
    <3>1. PICK error \in {"SameState", "Invalid", "IncorrectStateTransition"} :
            Proxy("StateSet", eState) /\ Post(<<ErrorEvent(error)>>)
      BY <2>3 DEF Rejected
    <3> QED
      BY <3>1, AnswerKinds
  <2>4. CASE Executing_Pause
    <3>1. Proxy("StateSet", "Pause") /\ Bits = {}
      BY <2>4, ProxyFinds DEF Executing_Pause, Parameters, States
    <3>2. PausePending \notin m_flags
      BY <3>1 DEF Bits, StateBits
    <3>3. Post(<<ErrorEvent("Hardware")>>)
      BY <2>4, <3>2 DEF Executing_Pause
    <3> QED
      BY <3>1, <3>3, AnswerKinds DEF States
  <2>5. CASE Pause_Executing
    <3>1. Proxy("StateSet", "Executing") /\ Bits = {}
      BY <2>5, ProxyFinds DEF Pause_Executing, Parameters, States
    <3>2. ExecutePending \notin m_flags
      BY <3>1 DEF Bits, StateBits
    <3>3. Post(<<ErrorEvent("Hardware")>>)
      BY <2>5, <3>2 DEF Pause_Executing
    <3> QED
      BY <3>1, <3>3, AnswerKinds DEF States
  <2> QED
    BY <2>1, <2>2, <2>3, <2>4, <2>5
<1>2. UNCHANGED <<flushing, released, owed, drv_held>>
  BY DEF Loaded_Idle, Granted, Rejected, Executing_Pause, Pause_Executing, NoFlush, Quiet, Accept,
         Refuse, driver
<1> QED
  BY <1>1, <1>2, NoCall, ProxyAnswers

(* Requests that wait for buffers or for the driver.                       *)
LEMMA PendingContract ==
  ASSUME Contract, ~ m_error_propogated',
         \/ Loaded_Idle /\ ~ UNCHANGED m_flags
         \/ Idle_Loaded \/ Idle_Executing \/ Idle_Pause \/ Executing_Idle
         \/ Executing_Pause /\ ~ UNCHANGED <<m_flags, drv_cmds>>
         \/ Pause_Executing /\ ~ UNCHANGED <<m_flags, drv_cmds>>
  PROVE  Contract' /\ Promise
<1>1. << >> \in Seq(Beside) /\ <<Entry("RESUME_DONE", "-", "ok")>> \in Seq(Beside)
  <2>1. Entry("RESUME_DONE", "-", "ok") \in Beside
    BY BesideHas DEF Parameters, Statuses
  <2> QED
    BY <2>1, Few
<1>2. /\ IdlePending \in StateBits /\ LoadingPending \in StateBits /\ ExecutePending \in StateBits
      /\ PausePending \in StateBits
      /\ "Loaded" \in States /\ "Idle" \in States /\ "Executing" \in States /\ "Pause" \in States
  BY DEF StateBits, States
<1>3. CASE Loaded_Idle /\ ~ UNCHANGED m_flags
  <2>1. /\ m_state = "Loaded" /\ Proxy("StateSet", "Idle") /\ Post(<< >>)
        /\ m_flags' = m_flags \cup {IdlePending}
        /\ UNCHANGED <<flushing, released, owed, drv_cmds, drv_held>>
    BY <1>3 DEF Loaded_Idle, NoFlush, Quiet, driver
  <2> QED
    BY <1>1, <1>2, <2>1, NoCall, RequestPending, BitsDiffer
<1>4. CASE Idle_Loaded
  <2>1. /\ m_state = "Idle" /\ Proxy("StateSet", "Loaded") /\ Post(<< >>)
        /\ m_flags' = m_flags \cup {LoadingPending}
        /\ UNCHANGED <<flushing, released, owed, drv_cmds, drv_held>>
    BY <1>4 DEF Idle_Loaded, NoFlush, Quiet, driver
  <2> QED
    BY <1>1, <1>2, <2>1, NoCall, RequestPending, BitsDiffer
<1>5. CASE Idle_Executing
  <2>1. /\ m_state = "Idle" /\ Proxy("StateSet", "Executing") /\ Post(<< >>)
        /\ m_flags' = m_flags \cup {ExecutePending} /\ Accept(Plain("START"))
        /\ UNCHANGED <<flushing, released, owed, drv_held>>
    BY <1>5 DEF Idle_Executing, NoFlush, Quiet, Accept, omx_report_error
  <2>2. CallsKept
    BY <2>1, DrvKinds, CallAdded
  <2> QED
    BY <1>1, <1>2, <2>1, <2>2, RequestPending, BitsDiffer
<1>6. CASE Idle_Pause
  <2>1. /\ m_state = "Idle" /\ Proxy("StateSet", "Pause") /\ Post(<< >>)
        /\ m_flags' = m_flags \cup {PausePending} /\ Accept(Plain("START"))
        /\ UNCHANGED <<flushing, released, owed, drv_held>>
    BY <1>6 DEF Idle_Pause, NoFlush, Quiet, Accept, omx_report_error
  <2>2. CallsKept
    BY <2>1, DrvKinds, CallAdded
  <2> QED
    BY <1>1, <1>2, <2>1, <2>2, RequestPending, BitsDiffer
<1>7. CASE Executing_Idle
  <2>1. /\ m_state \in Processes /\ Proxy("StateSet", "Idle") /\ Post(<< >>)
        /\ m_flags' = m_flags \cup {IdlePending} /\ execute_omx_flush(PortNames)
        /\ UNCHANGED <<released, owed>>
    BY <1>7 DEF Executing_Idle, Quiet, Processes
  <2>2. CallsKept /\ UNCHANGED drv_held /\ PortNames \subseteq flushing'
    BY <2>1, FlushCalls
  <2> QED
    BY <1>1, <1>2, <2>1, <2>2, RequestPending, BitsDiffer
<1>8. CASE Executing_Pause /\ ~ UNCHANGED <<m_flags, drv_cmds>>
  <2>1. /\ m_state = "Executing" /\ Proxy("StateSet", "Pause") /\ Post(<< >>)
        /\ m_flags' = m_flags \cup {PausePending} /\ Accept(Plain("PAUSE"))
        /\ UNCHANGED <<flushing, released, owed, drv_held>>
    BY <1>8 DEF Executing_Pause, NoFlush, Quiet, Accept, Refuse, driver
  <2>2. CallsKept
    BY <2>1, DrvKinds, CallAdded
  <2> QED
    BY <1>1, <1>2, <2>1, <2>2, RequestPending, BitsDiffer
<1>9. CASE Pause_Executing /\ ~ UNCHANGED <<m_flags, drv_cmds>>
  <2>1. /\ m_state = "Pause" /\ Proxy("StateSet", "Executing")
        /\ Post(<<Entry("RESUME_DONE", "-", "ok")>>)
        /\ m_flags' = m_flags \cup {ExecutePending} /\ Accept(Plain("RESUME"))
        /\ UNCHANGED <<flushing, released, owed, drv_held>>
    BY <1>9 DEF Pause_Executing, NoFlush, Quiet, Accept, Refuse, driver
  <2>2. CallsKept
    BY <2>1, DrvKinds, CallAdded
  <2> QED
    BY <1>1, <1>2, <2>1, <2>2, RequestPending, BitsDiffer
<1> QED
  BY <1>3, <1>4, <1>5, <1>6, <1>7, <1>8, <1>9

(* A flush the client asked for.                                           *)
LEMMA FlushCommandContract ==
  ASSUME Contract, NEW arg \in PortNames \cup {"ALL"}, FlushCommand(arg)
  PROVE  Contract' /\ Promise
<1>1. arg \in Parameters /\ "Flush" \in Parameters /\ Ports(arg) \in SUBSET PortNames
  BY DEF Parameters, Ports, PortNames
<1>2. /\ Proxy("Flush", arg) /\ Post(<< >>) /\ UNCHANGED <<owed, released>>
      /\ m_flags' = m_flags \cup {FlushPending(port) : port \in Ports(arg)}
  BY DEF FlushCommand, Quiet
<1>3. /\ m_cmd_q \in Seq(CmdEntries) /\ m_cmd_q # << >> /\ Bits = {}
      /\ m_state \in States \ {"Invalid"} /\ released = {} /\ Lent' = Lent
      /\ UNCHANGED <<m_state, cstate>>
  BY <1>1, <1>2, ProxyFinds
<1>4. /\ Quieter /\ ~ Has(m_cmd_q', Requests)
      /\ \A port \in PortNames : Has(m_cmd_q', Flushed(port)) => Has(m_cmd_q, Flushed(port))
  BY <1>1, <1>2, Few, ProxyTakes
<1>5. CallsKept /\ UNCHANGED drv_held /\ flushing' = flushing \cup Ports(arg)
  BY <1>1, FlushCalls DEF FlushCommand
<1>6. \A port \in Ports(arg) : Asked("Flush", port)
  <2>1. Head(m_cmd_q) \in FlushOrder(arg)
    BY <1>2 DEF Proxy, FlushOrder
  <2>2. Has(m_cmd_q, FlushOrder(arg))
    BY <1>3, <2>1, TailHas
  <2> QED
    BY <2>2 DEF Contract, Flushing
<1>7. \A port \in PortNames :
        /\ port \in flushing' /\ m_state' \in Resting => Asked("Flush", port)'
        /\ FlushPending(port) \in m_flags' => Asked("Flush", port)'
  <2>1. \A p, q : FlushPending(p) = FlushPending(q) => p = q
    BY DEF FlushPending
  <2> QED
    BY <1>2, <1>3, <1>5, <1>6, <2>1 DEF Contract, Flushing, Asked
<1>8. FlushesKept
  BY <1>4, <1>5, FlushesStay
<1>9. ~ Has(drv_cmds', Stops) /\ ~ Has(m_cmd_q', Stopped) /\ ~ Has(m_cmd_q', FlushEvents)
  <2>1. IdlePending \notin m_flags
    BY <1>3 DEF Bits, StateBits
  <2> QED
    BY <1>4, <1>5, <2>1, NoStop, QuietHas DEF Contract, Flushing
<1>10. Bits' = {} /\ CallsTyped'
  BY <1>2, <1>3, <1>4, <1>5, BitsDiffer DEF Bits, CallsTyped, Quieter, CallsKept
<1>11. m_state' \in States /\ m_state' = cstate' /\ released' = {}
       /\ (m_state' \in Resting => Lent' = {})
  BY <1>2, <1>3 DEF Contract, InStep, Lending
<1>12. Contract'
  BY <1>4, <1>7, <1>8, <1>9, <1>10, <1>11, Settled
<1> QED
  BY <1>3, <1>12 DEF Promise

(* send_command_proxy.  No command is left when the component is Invalid.  *)
LEMMA ProxyContract ==
  ASSUME Contract, ~ m_error_propogated', send_command_proxy
  PROVE  Contract' /\ Promise
<1>1. CASE Loaded_Idle \/ Executing_Pause \/ Pause_Executing
  <2>1. CASE UNCHANGED <<m_flags, drv_cmds>>
    BY <1>1, <2>1, QuickContract
  <2>2. CASE ~ UNCHANGED <<m_flags, drv_cmds>>
    <3>1. Loaded_Idle => UNCHANGED drv_cmds
      BY DEF Loaded_Idle, driver
    <3> QED
      BY <1>1, <2>2, <3>1, PendingContract
  <2> QED
    BY <2>1, <2>2
<1>2. CASE \E eState \in States : Granted(eState) \/ Rejected(eState)
  <2>1. UNCHANGED <<m_flags, drv_cmds>>
    BY <1>2 DEF Granted, Rejected, driver
  <2> QED
    BY <1>2, <2>1, QuickContract
<1>3. CASE Idle_Loaded \/ Idle_Executing \/ Idle_Pause \/ Executing_Idle
  BY <1>3, PendingContract
<1>4. ASSUME NEW c \in AllCommands, InvalidCommand(c.cmd, c.arg)
      PROVE  FALSE
  <2>1. c.cmd \in Parameters /\ c.arg \in Parameters
    BY DEF AllCommands, Parameters, States
  <2> QED
    BY <1>4, <2>1, ProxyFinds DEF InvalidCommand
<1> QED
  BY <1>1, <1>2, <1>3, <1>4, PortCommandContract, DisableFlushContract, FlushCommandContract
  DEF send_command_proxy

(* The buffers that pass through the message thread.                       *)
LEMMA BuffersContract ==
  ASSUME Contract, ~ m_error_propogated',
         \/ fill_this_buffer_proxy \/ fill_buffer_done
         \/ empty_this_buffer_proxy \/ empty_buffer_done
  PROVE  Contract' /\ Promise
<1>1. /\ m_cmd_q = << >>
      /\ UNCHANGED <<m_state, m_flags, m_cmd_q, allocated, flushing, released, waiting, cstate>>
  BY DEF fill_this_buffer_proxy, fill_buffer_done, empty_this_buffer_proxy, empty_buffer_done,
         TakeFtb, TakeEtb, ports
<1>2. held \subseteq held'
  BY DEF fill_this_buffer_proxy, fill_buffer_done, empty_this_buffer_proxy, empty_buffer_done
<1>3. UNCHANGED <<owed, drv_cmds>>
  BY DEF fill_this_buffer_proxy, fill_buffer_done, empty_this_buffer_proxy, empty_buffer_done,
         Quiet, Refuse, omx_report_error, driver
<1>4. Quieter /\ FlushesKept /\ CallsKept
  BY <1>1, <1>3, NoMessage, FlushesStay, NoCall
<1>5. Patient /\ Bits' = Bits /\ Lent' \subseteq Lent
  BY <1>1, <1>2, <1>3 DEF Patient, Bits, Lent, Asked
<1> QED
  BY <1>1, <1>4, <1>5, Aside

(* The client sends a command when nothing is asked for any more.          *)
LEMMA SendContract ==
  ASSUME Contract, NEW c \in AllCommands, send_command(c)
  PROVE  Contract' /\ Promise
<1> DEFINE e == Entry("COMMAND", c.cmd, c.arg)
<1>1. /\ ~ waiting /\ waiting' = TRUE /\ m_state # "Invalid" /\ owed = {}
      /\ owed' = Completions(c) /\ m_cmd_q' = Append(m_cmd_q, e)
      /\ UNCHANGED <<m_state, cstate, m_flags, flushing, released, drv_cmds, drv_held, allocated,
                     held>>
  BY DEF send_command, Ready, component, ports, driver
<1>2. m_cmd_q \in Seq(CmdEntries) /\ c.cmd \in Parameters /\ c.arg \in Parameters
  BY DEF Contract, CallsTyped, AllCommands, Parameters, States
<1>3. /\ e \in Commanded /\ e \in CmdEntries /\ e \in Requests
      /\ e \notin StateEvents /\ e \notin Answers /\ e \notin Stopped /\ e \notin FlushEvents
      /\ \A port : e \notin Flushed(port)
      /\ e \in StateEntries => c.cmd = "StateSet"
      /\ \A arg : e \in FlushOrder(arg) => c.cmd = "Flush" /\ c.arg = arg
  <2>1. e.id = "COMMAND" /\ e.p1 = c.cmd /\ e.p2 = c.arg
    BY DEF Entry
  <2>2. e \in Commanded /\ e \in CmdEntries
    BY <1>2 DEF Entry, Commanded, CmdEntries
  <2>3. \A arg : e \in FlushOrder(arg) => c.cmd = "Flush" /\ c.arg = arg
    BY DEF FlushOrder, Entry
  <2> HIDE DEF e
  <2> QED
    BY <2>1, <2>2, <2>3
    DEF Requests, StateEvents, Answers, Stopped, FlushEvents, Flushed, StateEntries, StateCommands
<1> HIDE DEF e
<1>4. /\ m_cmd_q' \in Seq(CmdEntries)
      /\ \A D : (Has(m_cmd_q', D) <=> Has(m_cmd_q, D) \/ e \in D)
      /\ ~ Has(m_cmd_q, Requests) => AtMostOne(m_cmd_q', Requests)
      /\ AtMostOne(m_cmd_q, Stopped) => AtMostOne(m_cmd_q', Stopped)
  <2>1. ~ Has(m_cmd_q, Requests) => AtMostOne(m_cmd_q, Requests)
    BY DEF Has, AtMostOne
  <2> QED
    BY <1>1, <1>2, <1>3, <2>1, AppendHas, AppendProperties
<1>5. ~ Awaits /\ Bits = {} /\ ~ Has(m_cmd_q, StateEntries) /\ ~ Has(m_cmd_q, Commanded)
      /\ ~ Has(m_cmd_q, Requests)
  <2>1. ~ Awaits
    BY <1>1 DEF Awaits
  <2>2. Bits = {} /\ ~ Has(m_cmd_q, StateEntries) /\ ~ Has(m_cmd_q, Commanded)
    BY <1>1, <2>1 DEF Contract, OneRequest
  <2> QED
    BY <2>1, <2>2 DEF Has, Requests, StateEntries
<1>6. CallsTyped'
  BY <1>1, <1>4 DEF Contract, CallsTyped
<1>7. OneRequest'
  <2>1. Has(m_cmd_q', StateEntries) => Awaits'
    <3>1. c.cmd = "StateSet" => owed' = {c} /\ c = [cmd |-> "StateSet", arg |-> c.arg]
                                /\ c.arg \in States
      BY <1>1 DEF Completions, AllCommands
    <3> QED
      BY <1>3, <1>4, <1>5, <3>1 DEF Awaits
  <2>2. Bits' = {}
    BY <1>1, <1>5 DEF Bits
  <2> QED
    BY <1>1, <1>4, <1>5, <2>1, <2>2 DEF OneRequest, Bits
<1>8. InStep'
  <2>1. ~ Has(m_cmd_q', Wrong(m_state))
    BY <1>3, <1>4, Kinds DEF Contract, InStep
  <2> QED
    BY <1>1, <2>1 DEF Contract, InStep, Bits
<1>9. Lending'
  BY <1>1, <1>3, <1>4 DEF Contract, Lending, Lent
<1>10. Stopping'
  BY <1>1, <1>3, <1>4 DEF Contract, Stopping
<1>11. Flushing'
  <2>1. \A port \in PortNames : /\ FlushPending(port) \notin m_flags'
                                /\ m_state \in Resting => port \notin flushing'
    BY <1>1 DEF Contract, Flushing, Asked
  <2>2. ASSUME NEW arg \in PortNames \cup {"ALL"}, Has(m_cmd_q', FlushOrder(arg)),
               NEW port \in Ports(arg)
        PROVE  Asked("Flush", port)'
    <3>1. ~ Has(m_cmd_q, FlushOrder(arg))
      BY <1>5, Kinds DEF Has
    <3>2. c.cmd = "Flush" /\ c.arg = arg
      BY <1>3, <1>4, <2>2, <3>1
    <3>3. owed' = {[cmd |-> "Flush", arg |-> p] : p \in Ports(arg)}
      BY <1>1, <3>2 DEF Completions
    <3> QED
      BY <3>3 DEF Asked
  <2>3. ~ Has(m_cmd_q', FlushEvents)
    BY <1>3, <1>4 DEF Contract, Flushing
  <2>4. \A arg \in PortNames \cup {"ALL"} : Ports(arg) \subseteq PortNames
    BY DEF Ports, PortNames
  <2> QED
    BY <1>1, <2>1, <2>2, <2>3, <2>4 DEF Flushing
<1>12. Promise
  BY <1>1 DEF Promise, Lent
<1> QED
  BY <1>6, <1>7, <1>8, <1>9, <1>10, <1>11, <1>12 DEF Contract

(* A submission lends a buffer while the component processes.              *)
LEMMA SubmitContract ==
  ASSUME OwnInv, Contract, NEW b \in Buffers, empty_this_buffer(b) \/ fill_this_buffer(b)
  PROVE  Contract' /\ Promise
<1>1. /\ b \in held /\ held' = held \ {b} /\ Streaming
      /\ UNCHANGED <<m_state, cstate, m_flags, flushing, released, drv_cmds, drv_held, allocated,
                     m_cmd_q, waiting, owed>>
  BY DEF empty_this_buffer, fill_this_buffer, component, ports, driver
<1>2. b \in allocated
  BY <1>1 DEF OwnInv, Shared
<1>3. b \in Buffers \ Lent /\ Lent' = Lent \cup {b}
  BY <1>1, <1>2 DEF Lent
<1>4. m_state \in Processes /\ Bits = {}
  <2>1. ~ Awaits
    <3>1. \A c \in owed : c.cmd # "StateSet"
      BY <1>1 DEF Streaming
    <3>2. \A t : [cmd |-> "StateSet", arg |-> t].cmd = "StateSet"
      OBVIOUS
    <3> QED
      BY <3>1, <3>2 DEF Awaits
  <2> QED
    BY <1>1, <2>1 DEF Contract, InStep, OneRequest, Streaming, Processes
<1>5. m_state \notin Resting /\ IdlePending \notin m_flags
  BY <1>4 DEF Resting, Processes, Bits, StateBits
<1>6. CallsTyped' /\ OneRequest' /\ InStep' /\ Stopping' /\ Flushing'
  BY <1>1 DEF Contract, CallsTyped, OneRequest, InStep, Stopping, Flushing, Awaits, Bits, Asked
<1>7. Lending'
  BY <1>1, <1>5 DEF Contract, Lending
<1> QED
  BY <1>1, <1>3, <1>4, <1>6, <1>7 DEF Contract, Promise

(* The last buffer allocated grants the move to Idle.                      *)
LEMMA AllocateContract ==
  ASSUME Contract, NEW b \in Buffers, AllocateBuffer(b)
  PROVE  Contract' /\ Promise
<1> DEFINE port == PortOf(b)
           alloc == allocated \cup {b}
           idle == allocate_done(alloc) /\ IdlePending \in m_flags
           enable == port \in NowPopulated(alloc, enabled) /\ EnablePending(port) \in m_flags
           q1 == IF idle THEN <<Entry("EVENT", "StateSet", "Idle")>> ELSE << >>
           r == IF enable THEN <<PortEvent("PortEnable", port)>> ELSE << >>
<1>1. /\ allocated' = alloc /\ held' = held \cup {b}
      /\ m_flags' = m_flags \ ((IF idle THEN {IdlePending} ELSE {})
                               \cup (IF enable THEN {EnablePending(port)} ELSE {}))
      /\ m_cmd_q' = (m_cmd_q \o q1) \o r
      /\ cstate = "Loaded" \/ Asked("PortEnable", port)
      /\ UNCHANGED <<m_state, cstate, owed, waiting, flushing, released, drv_cmds, drv_held>>
      /\ m_state # "Invalid"
  BY DEF AllocateBuffer, component, driver
<1>2. port \in PortNames /\ port \in Parameters
  BY DEF PortOf, PortNames, Parameters
<1>3. r \in Seq(Beside)
  BY <1>2, BesideHas, Few
<1>4. Lent' \subseteq Lent
  BY <1>1 DEF Lent
<1>5. CallsKept
  BY <1>1, NoCall
<1> HIDE DEF r, port, alloc
<1>6. \A p \in PortNames : FlushPending(p) \in m_flags' => FlushPending(p) \in m_flags
  BY <1>1
<1>7. CASE ~ idle
  <2>1. m_cmd_q' = m_cmd_q \o r
    <3>1. m_cmd_q \o << >> = m_cmd_q
      BY DEF Contract, CallsTyped
    <3> QED
      BY <1>1, <1>7, <3>1
  <2>2. Quieter /\ FlushesKept
    BY <1>1, <1>3, <2>1, AddedQuieter, FlushesStay
  <2>3. Bits' = Bits
    BY <1>1, <1>7, BitsDiffer DEF Bits
  <2>4. Patient
    BY <1>1 DEF Patient, Asked
  <2> QED
    BY <1>1, <1>4, <1>5, <1>6, <2>2, <2>3, <2>4, Aside
<1>8. CASE idle
  <2> DEFINE e == Entry("EVENT", "StateSet", "Idle")
  <2>1. Bits = {IdlePending} /\ Awaits /\ ~ Has(m_cmd_q, Requests)
    <3>1. IdlePending \in Bits
      BY <1>8 DEF Bits, StateBits
    <3> QED
      BY <3>1 DEF Contract, OneRequest
  <2>2. m_state = "Loaded"
    <3>1. ~ Asked("PortEnable", port)
      BY <2>1 DEF Awaits, Asked
    <3> QED
      BY <1>1, <3>1 DEF Contract, InStep
  <2>3. m_cmd_q' = (m_cmd_q \o <<e>>) \o r
    BY <1>1, <1>8
  <2>4. e \in StateEvents /\ e \notin Wrong(m_state)
    BY <2>2, AnswerKinds DEF States, Quick
  <2> HIDE DEF e
  <2>5. Answered(e)
    <3>1. m_cmd_q \in Seq(CmdEntries) /\ ~ Has(m_cmd_q, FlushEvents)
      BY DEF Contract, CallsTyped, Flushing
    <3> QED
      BY <1>3, <2>1, <2>3, <2>4, <3>1, AnswerAdded
  <2>6. Bits' = {}
    BY <1>1, <1>8, <2>1 DEF Bits
  <2>7. released' = {} /\ m_state \notin Processes
    BY <1>1, <2>2 DEF Contract, InStep, Processes
  <2> QED
    BY <1>1, <1>4, <1>5, <1>6, <2>1, <2>4, <2>5, <2>6, <2>7, AnsweredContract
<1> QED
  BY <1>7, <1>8

(* The last buffer freed grants the move to Loaded.                        *)
LEMMA FreeContract ==
  ASSUME Contract, NEW b \in Buffers, FreeBuffer(b)
  PROVE  Contract' /\ Promise
<1> DEFINE port == PortOf(b)
           alloc == allocated \ {b}
           legal == (m_state = "Idle" /\ LoadingPending \in m_flags) \/ port \notin enabled
           running == ~ legal /\ m_state \in {"Executing", "Pause"}
           disable == DisablePending(port) \in m_flags /\ PortReleased(port, alloc)
           loaded == LoadingPending \in m_flags /\ release_done(alloc)
           q1 == IF legal \/ m_state = "Invalid" THEN << >> ELSE <<ErrorEvent("PortUnpopulated")>>
           q2 == IF disable THEN <<PortEvent("PortDisable", port)>> ELSE << >>
           q3 == IF loaded THEN <<Entry("EVENT", "StateSet", "Loaded")>> ELSE << >>
<1>1. /\ b \in held
      /\ \/ m_cmd_q' = m_cmd_q \o q1 /\ UNCHANGED <<m_flags, allocated, held>>
         \/ /\ ~ running /\ allocated' = alloc /\ held' = held \ {b}
            /\ m_flags' = m_flags \ ((IF disable THEN {DisablePending(port)} ELSE {})
                                     \cup (IF loaded THEN {LoadingPending} ELSE {}))
            /\ m_cmd_q' = ((m_cmd_q \o q1) \o q2) \o q3
      /\ UNCHANGED <<m_state, cstate, owed, waiting, flushing, released, drv_cmds, drv_held>>
  <2>1. \/ m_cmd_q' = m_cmd_q \o q1 /\ UNCHANGED <<m_flags, ports, held>>
        \/ /\ ~ running /\ allocated' = alloc /\ held' = held \ {b}
           /\ m_flags' = m_flags \ ((IF disable THEN {DisablePending(port)} ELSE {})
                                    \cup (IF loaded THEN {LoadingPending} ELSE {}))
           /\ m_cmd_q' = ((m_cmd_q \o q1) \o q2) \o q3
    BY DEF FreeBuffer
  <2>2. b \in held
        /\ UNCHANGED <<m_state, cstate, owed, waiting, flushing, released, drv_cmds, drv_held>>
    BY DEF FreeBuffer, component, driver
  <2> HIDE DEF q1, q2, q3, legal, running, disable, loaded, alloc, port
  <2> QED
    BY <2>1, <2>2 DEF ports
<1>2. port \in PortNames /\ port \in Parameters
  BY DEF PortOf, PortNames, Parameters
<1>3. q1 \in Seq(Beside) /\ q2 \in Seq(Beside)
  BY <1>2, BesideHas, Few
<1>4. Lent' \subseteq Lent
  BY <1>1 DEF Lent
<1>5. CallsKept
  BY <1>1, NoCall
<1>6. m_cmd_q \in Seq(CmdEntries)
  BY DEF Contract, CallsTyped
<1>7. \A p \in PortNames : FlushPending(p) \in m_flags' => FlushPending(p) \in m_flags
  <2> HIDE DEF q1, q2, q3, legal, running, disable, loaded, alloc, port
  <2> QED
    BY <1>1
<1>8. Patient
  BY <1>1 DEF Patient, Asked
<1>9. q1 \o q2 \in Seq(Beside) /\ (m_cmd_q \o q1) \o q2 = m_cmd_q \o (q1 \o q2)
       /\ q1 \o q2 \in Seq(CmdEntries)
  <2> HIDE DEF q1, q2
  <2>1. q1 \o q2 \in Seq(Beside)
    BY <1>3, Few
  <2>2. q1 \in Seq(CmdEntries) /\ q2 \in Seq(CmdEntries)
    BY <1>3, SeqMonotonic DEF Beside
  <2> QED
    BY <1>6, <2>1, <2>2, ConcatAssociative
<1> DEFINE r == q1 \o q2
<1>10. CASE m_cmd_q' = m_cmd_q \o q1 /\ UNCHANGED <<m_flags, allocated, held>>
  <2> HIDE DEF q1
  <2>1. Quieter /\ FlushesKept
    BY <1>1, <1>3, <1>10, AddedQuieter, FlushesStay
  <2>2. Bits' = Bits
    BY <1>10 DEF Bits
  <2> QED
    BY <1>1, <1>4, <1>5, <1>7, <1>8, <2>1, <2>2, Aside
<1>11. CASE ~ loaded /\ ~ (m_cmd_q' = m_cmd_q \o q1 /\ UNCHANGED <<m_flags, allocated, held>>)
  <2>1. m_cmd_q' = m_cmd_q \o r
    <3>1. m_cmd_q' = ((m_cmd_q \o q1) \o q2) \o << >>
      BY <1>1, <1>11
    <3> HIDE DEF q1, q2
    <3>2. m_cmd_q \o r \in Seq(CmdEntries)
      BY <1>6, <1>9
    <3> QED
      BY <1>9, <3>1, <3>2
  <2>2. Bits' = Bits
    BY <1>1, <1>11, BitsDiffer DEF Bits
  <2> HIDE DEF r
  <2>3. Quieter /\ FlushesKept
    BY <1>1, <1>9, <2>1, AddedQuieter, FlushesStay DEF r
  <2> QED
    BY <1>1, <1>4, <1>5, <1>7, <1>8, <2>2, <2>3, Aside
<1>12. CASE loaded /\ ~ (m_cmd_q' = m_cmd_q \o q1 /\ UNCHANGED <<m_flags, allocated, held>>)
  <2> DEFINE e == Entry("EVENT", "StateSet", "Loaded")
             q == m_cmd_q \o r
  <2>1. Bits = {LoadingPending} /\ Awaits /\ ~ Has(m_cmd_q, Requests) /\ m_state = "Idle"
    <3>1. LoadingPending \in Bits
      BY <1>12 DEF Bits, StateBits
    <3> QED
      BY <3>1 DEF Contract, OneRequest, InStep, Bits
  <2>2. m_cmd_q' = (q \o <<e>>) \o << >> /\ q \in Seq(CmdEntries)
    <3>1. m_cmd_q' = ((m_cmd_q \o q1) \o q2) \o <<e>> /\ e \in CmdEntries
      BY <1>1, <1>12, AnswerKinds, Kinds DEF States
    <3> HIDE DEF q1, q2, e
    <3>2. q \in Seq(CmdEntries) /\ q \o <<e>> \in Seq(CmdEntries)
      BY <1>6, <1>9, <3>1
    <3> QED
      BY <1>9, <3>1, <3>2
  <2>3. e \in StateEvents /\ e \notin Wrong(m_state)
    BY <2>1, AnswerKinds DEF States, Quick
  <2>4. Bits' = {}
    BY <1>1, <1>12, <2>1 DEF Bits
  <2> HIDE DEF e, r
  <2>5. ~ Has(q, Requests) /\ (Has(q, Stopped) => Has(m_cmd_q, Stopped)) /\ ~ Has(q, FlushEvents)
        /\ \A p \in PortNames : Has(q, Flushed(p)) => Has(m_cmd_q, Flushed(p))
    <3>1. Fewer(m_cmd_q, q, CmdEntries \ Beside)
      <4>1. r \in Seq(Beside) /\ r \in Seq(CmdEntries)
        BY <1>9 DEF r
      <4>2. \A i \in DOMAIN r : r[i] \in Beside
        BY <4>1
      <4> QED
        BY <1>6, <4>1, <4>2, FewerConcat DEF Has
    <3>2. /\ Requests \in SUBSET (CmdEntries \ Beside) /\ Stopped \in SUBSET (CmdEntries \ Beside)
          /\ FlushEvents \in SUBSET (CmdEntries \ Beside)
          /\ \A p \in PortNames : Flushed(p) \in SUBSET (CmdEntries \ Beside)
      BY Kinds DEF PortNames, Beside
    <3>3. ~ Has(m_cmd_q, FlushEvents)
      BY DEF Contract, Flushing
    <3> HIDE DEF q
    <3> QED
      BY <2>1, <3>1, <3>2, <3>3 DEF Fewer
  <2> HIDE DEF q
  <2>6. Answered(e)
    BY <2>2, <2>3, <2>5, Few, AnswerAdded
  <2>7. released' = {} /\ m_state \notin Processes /\ m_state # "Invalid"
    BY <1>1, <2>1 DEF Contract, InStep, Processes
  <2> QED
    BY <1>1, <1>4, <1>5, <1>7, <2>1, <2>3, <2>4, <2>6, <2>7, AnsweredContract
<1> QED
  BY <1>10, <1>11, <1>12

(* A message of the driver that the contract is not about.                 *)
LEMMA MessageAside ==
  ASSUME Contract, NEW e \in Beside, m_cmd_q' = Append(m_cmd_q, e), CallsKept,
         UNCHANGED <<m_state, cstate, m_flags, owed, waiting, flushing, released, allocated, held>>,
         drv_held' = drv_held
  PROVE  Contract' /\ Promise
<1>1. m_cmd_q' = m_cmd_q \o <<e>> /\ <<e>> \in Seq(Beside)
  <2>1. m_cmd_q \in Seq(CmdEntries) /\ e \in CmdEntries
    BY DEF Contract, CallsTyped, Beside
  <2> QED
    BY <2>1
<1>2. Quieter /\ FlushesKept
  BY <1>1, AddedQuieter, FlushesStay
<1>3. Patient /\ Bits' = Bits /\ Lent' \subseteq Lent
  BY DEF Patient, Bits, Lent, Asked
<1> QED
  BY <1>2, <1>3, Aside

(* What the driver reports of starts, pauses, resumes and of the stream.   *)
LEMMA ReportContract ==
  ASSUME Contract,
         \/ \E command, id, state :
              /\ Acknowledge(command, id, state)
              /\ <<command, id>> \in {<<Plain("START"), "START_DONE">>,
                                      <<Plain("PAUSE"), "PAUSE_DONE">>,
                                      <<Plain("RESUME"), "RESUME_DONE">>}
         \/ ConfigChanged \/ HwError
  PROVE  Contract' /\ Promise
<1>1. \A status \in Status(Bad) : status \in Parameters
  BY DEF Status, Bad, Parameters, Statuses
<1>2. /\ "-" \in Parameters /\ "OUT" \in Parameters /\ "PortDefinition" \in Parameters
  BY DEF Parameters, Statuses, PortNames
<1>3. \E e \in Beside : m_cmd_q' = Append(m_cmd_q, e)
  <2>1. CASE ConfigChanged
    <3> DEFINE e == Entry("PORT_RECONFIG", "OUT", "PortDefinition")
    <3>1. m_cmd_q' = Append(m_cmd_q, e) /\ e \in Beside
      BY <1>2, <2>1, BesideHas DEF ConfigChanged
    <3> HIDE DEF e
    <3> QED
      BY <3>1
  <2>2. CASE ~ ConfigChanged
    <3>1. PICK id \in {"START_DONE", "PAUSE_DONE", "RESUME_DONE", "HARDWARE_ERROR"} : Message(id)
      BY <2>2 DEF Acknowledge, HwError
    <3>2. PICK status \in Status(Bad) : m_cmd_q' = Append(m_cmd_q, Entry(id, "-", status))
      BY <3>1 DEF Message
    <3> DEFINE e == Entry(id, "-", status)
    <3>3. m_cmd_q' = Append(m_cmd_q, e) /\ e \in Beside
      BY <1>1, <1>2, <3>2, BesideHas
    <3> HIDE DEF e
    <3> QED
      BY <3>3
  <2> QED
    BY <2>1, <2>2
<1>4. UNCHANGED <<m_state, cstate, m_flags, owed, waiting, flushing, released, allocated, held,
                  drv_held>>
  BY DEF Acknowledge, ConfigChanged, HwError, Message, ports, client, driver
<1>5. CallsKept
  <2>1. CASE UNCHANGED drv_cmds
    BY <2>1, NoCall
  <2>2. CASE ~ UNCHANGED drv_cmds
    <3>1. drv_cmds # << >> /\ drv_cmds' = Tail(drv_cmds) /\ drv_cmds \in Seq(DrvCommands)
      BY <2>2 DEF Acknowledge, ConfigChanged, HwError, driver, Contract, CallsTyped
    <3> QED
      BY <3>1, FewerTail DEF CallsKept
  <2> QED
    BY <2>1, <2>2
<1> QED
  BY <1>3, <1>4, <1>5, MessageAside

(* The driver has stopped: it was asked once, after every flush.           *)
LEMMA StoppedContract ==
  ASSUME Contract, Acknowledge(Plain("STOP"), "STOP_DONE", "stopped")
  PROVE  Contract' /\ Promise
<1>1. PICK status \in Status(Bad) : m_cmd_q' = Append(m_cmd_q, Entry("STOP_DONE", "-", status))
  BY DEF Acknowledge, Message
<1> DEFINE e == Entry("STOP_DONE", "-", status)
<1>2. e \in Stopped /\ e \in CmdEntries
  <2>1. status \in Parameters /\ "-" \in Parameters
    BY DEF Status, Bad, Parameters, Statuses
  <2> QED
    BY <2>1 DEF Entry, Stopped, CmdEntries
<1>3. /\ e \notin Requests /\ e \notin FlushEvents /\ \A port : e \notin Flushed(port)
      /\ m_cmd_q' = Append(m_cmd_q, e)
  BY <1>1 DEF Entry, Requests, Commanded, StateEvents, Answers, FlushEvents, Flushed
<1> HIDE DEF e
<1>4. m_cmd_q \in Seq(CmdEntries) /\ drv_cmds \in Seq(DrvCommands) /\ drv_cmds # << >>
      /\ drv_cmds' = Tail(drv_cmds) /\ Head(drv_cmds) \in Stops
      /\ UNCHANGED <<m_state, cstate, m_flags, owed, waiting, flushing, released, allocated, held,
                     drv_held>>
  BY DEF Contract, CallsTyped, Acknowledge, Message, ports, client, Stops
<1>5. /\ m_cmd_q' \in Seq(CmdEntries)
      /\ \A D : (Has(m_cmd_q', D) <=> Has(m_cmd_q, D) \/ e \in D)
      /\ AtMostOne(m_cmd_q, Requests) => AtMostOne(m_cmd_q', Requests)
      /\ ~ Has(m_cmd_q, Stopped) /\ AtMostOne(m_cmd_q, Stopped) => AtMostOne(m_cmd_q', Stopped)
  BY <1>2, <1>3, <1>4, AppendHas, AppendProperties
<1>6. Has(drv_cmds, Stops) /\ ~ Has(drv_cmds', Stops) /\ drv_cmds' \in Seq(DrvCommands)
      /\ AtMostOne(drv_cmds', Stops)
  BY <1>4, TailHas DEF Contract, Stopping
<1>7. \A D : D \subseteq Requests => (Has(m_cmd_q', D) <=> Has(m_cmd_q, D))
  BY <1>3, <1>5
<1>8. /\ Commanded \subseteq Requests /\ StateEntries \subseteq Requests
      /\ \A state : Wrong(state) \subseteq Requests
      /\ \A arg \in PortNames \cup {"ALL"} : FlushOrder(arg) \subseteq Requests
  BY Kinds DEF Requests
<1>9. CallsTyped' /\ Stopping'
  BY <1>4, <1>5, <1>6 DEF Contract, CallsTyped, Stopping
<1>10. OneRequest'
  BY <1>4, <1>5, <1>7, <1>8 DEF Contract, OneRequest, Bits, Awaits
<1>11. InStep'
  BY <1>4, <1>7, <1>8 DEF Contract, InStep, Bits
<1>12. Lending'
  BY <1>3, <1>4, <1>5 DEF Contract, Lending, Lent
<1>13. Flushing'
  BY <1>3, <1>4, <1>5, <1>7, <1>8 DEF Contract, Flushing, Asked
<1> QED
  BY <1>4, <1>9, <1>10, <1>11, <1>12, <1>13 DEF Contract, Promise, Lent

(* A flush is acknowledged when the driver has no buffer of the port.      *)
LEMMA FlushedContract ==
  ASSUME Contract, NEW port \in PortNames, AcknowledgeFlush(port)
  PROVE  Contract' /\ Promise
<1>1. PICK status \in Status(Bad) :
        m_cmd_q' = Append(m_cmd_q, Entry(IF port = "IN" THEN "INPUT_FLUSH" ELSE "OUTPUT_FLUSH",
                                         "-", status))
  BY DEF AcknowledgeFlush, Message
<1> DEFINE e == Entry(IF port = "IN" THEN "INPUT_FLUSH" ELSE "OUTPUT_FLUSH", "-", status)
<1>2. e \in Flushed(port) /\ e \in CmdEntries
      /\ \A p \in PortNames : e \in Flushed(p) => p = port
  <2>1. status \in Parameters /\ "-" \in Parameters
    BY DEF Status, Bad, Parameters, Statuses
  <2> QED
    BY <2>1 DEF Entry, Flushed, CmdEntries, PortNames
<1>3. m_cmd_q' = Append(m_cmd_q, e) /\ e \notin Told
  BY <1>1, <1>2, Kinds
<1> HIDE DEF e
<1>4. /\ m_cmd_q \in Seq(CmdEntries) /\ drv_cmds \in Seq(DrvCommands) /\ drv_cmds # << >>
      /\ drv_held \cap PortBuffers(port) = {}
      /\ UNCHANGED <<m_state, cstate, m_flags, owed, waiting, flushing, released, allocated, held,
                     drv_held>>
  BY DEF Contract, CallsTyped, AcknowledgeFlush, Message, ports, client
<1>5. Quieter
  <2>1. m_cmd_q' = m_cmd_q \o <<e>> /\ <<e>> \in Seq(CmdEntries) /\ m_cmd_q' \in Seq(CmdEntries)
    BY <1>2, <1>3, <1>4
  <2>2. ~ Has(<<e>>, Told)
    BY <1>3 DEF Has
  <2> QED
    BY <1>4, <2>1, <2>2, FewerConcat DEF Quieter
<1>6. FlushesKept
  <2>1. \A p \in PortNames : Has(m_cmd_q', Flushed(p)) => Has(m_cmd_q, Flushed(p)) \/ p = port
    BY <1>2, <1>3, <1>4, AppendHas
  <2> QED
    BY <1>4, <2>1 DEF FlushesKept, Contract, Lending
<1>7. CallsKept
  <2> DEFINE c == Head(drv_cmds)
             t == Tail(drv_cmds)
             rest == <<"FLUSH", c[2] \ {port}>>
  <2>1. drv_cmds' = (IF c[2] = {port} THEN << >> ELSE <<rest>>) \o t /\ c[1] = "FLUSH"
    BY DEF AcknowledgeFlush
  <2>2. c \in DrvCommands /\ t \in Seq(DrvCommands)
    BY <1>4
  <2>3. c[2] \in SUBSET PortNames
    BY <2>1, <2>2 DEF DrvCommands, Plain
  <2>4. rest \in DrvCommands /\ rest \notin Stops
    BY <2>3, DrvKinds
  <2>5. Fewer(drv_cmds, t, Stops)
    BY <1>4, FewerTail
  <2>6. Fewer(t, drv_cmds', Stops) /\ drv_cmds' \in Seq(DrvCommands)
    <3> HIDE DEF t, rest
    <3>1. CASE c[2] = {port}
      <4>1. drv_cmds' = t
        BY <2>1, <2>2, <3>1
      <4> QED
        BY <2>2, <4>1 DEF Fewer
    <3>2. CASE c[2] # {port}
      <4>1. drv_cmds' = <<rest>> \o t
        BY <2>1, <3>2
      <4>2. <<rest>> \in Seq(DrvCommands) /\ <<rest>> \o t \in Seq(DrvCommands)
        BY <2>2, <2>4
      <4>3. \A i \in DOMAIN (<<rest>> \o t) :
              \/ i = 1 /\ (<<rest>> \o t)[i] = rest
              \/ i # 1 /\ i - 1 \in DOMAIN t /\ (<<rest>> \o t)[i] = t[i - 1] /\ i \in Int
        BY <2>2, <2>4
      <4>4. Fewer(t, <<rest>> \o t, Stops)
        <5> DEFINE s == <<rest>> \o t
        <5>1. \A i \in DOMAIN s : s[i] \in Stops =>
                i - 1 \in DOMAIN t /\ s[i] = t[i - 1] /\ i \in Int
          BY <2>4, <4>3
        <5> HIDE DEF s
        <5>2. ASSUME NEW D \in SUBSET Stops
              PROVE  /\ Has(s, D) => Has(t, D)
                     /\ AtMostOne(t, D) => AtMostOne(s, D)
                     /\ \A F \in SUBSET Stops : Before(t, D, F) => Before(s, D, F)
          <6>1. Has(s, D) => Has(t, D)
            BY <5>1 DEF Has
          <6>2. AtMostOne(t, D) => AtMostOne(s, D)
            <7> SUFFICES ASSUME AtMostOne(t, D), NEW i \in DOMAIN s, NEW j \in DOMAIN s,
                                s[i] \in D, s[j] \in D
                         PROVE  i = j
              BY DEF AtMostOne
            <7>1. i - 1 \in DOMAIN t /\ t[i - 1] \in D /\ j - 1 \in DOMAIN t /\ t[j - 1] \in D
                  /\ i \in Int /\ j \in Int
              BY <5>1
            <7>2. i - 1 = j - 1
              BY <7>1 DEF AtMostOne
            <7> QED
              BY <7>1, <7>2
          <6>3. ASSUME NEW F \in SUBSET Stops, Before(t, D, F) PROVE Before(s, D, F)
            <7> SUFFICES ASSUME NEW i \in DOMAIN s, NEW j \in DOMAIN s, i < j,
                                s[i] \in D, s[j] \in F
                         PROVE  FALSE
              BY DEF Before
            <7>1. i - 1 \in DOMAIN t /\ t[i - 1] \in D /\ j - 1 \in DOMAIN t /\ t[j - 1] \in F
                  /\ i \in Int /\ j \in Int
              BY <5>1
            <7>2. i - 1 < j - 1
              BY <7>1
            <7> QED
              BY <6>3, <7>1, <7>2 DEF Before
          <6> QED
            BY <6>1, <6>2, <6>3
        <5> QED
          BY <5>2 DEF Fewer, s
      <4> QED
        BY <4>1, <4>2, <4>4
    <3> QED
      BY <3>1, <3>2
  <2> QED
    BY <2>5, <2>6, FewerTwice DEF CallsKept
<1>8. Patient /\ Bits' = Bits /\ Lent' \subseteq Lent
  BY <1>4 DEF Patient, Bits, Lent, Asked
<1> QED
  BY <1>4, <1>5, <1>6, <1>7, <1>8, Aside

(* The driver returns a buffer.                                            *)
LEMMA BufferDoneContract ==
  ASSUME Contract, NEW b \in Buffers, BufferDone(b)
  PROVE  Contract' /\ Promise
<1>1. /\ UNCHANGED <<m_state, cstate, m_flags, owed, waiting, flushing, released, allocated, held,
                     m_cmd_q, drv_cmds>>
      /\ drv_held' \subseteq drv_held
  BY DEF BufferDone, component, ports, client
<1>2. Quieter /\ FlushesKept /\ CallsKept
  BY <1>1, NoMessage, FlushesStay, NoCall
<1>3. Patient /\ Bits' = Bits /\ Lent' \subseteq Lent
  BY <1>1 DEF Patient, Bits, Lent, Asked
<1> QED
  BY <1>1, <1>2, <1>3, Aside

(* Every step keeps the contract, as long as no error is reported.         *)
LEMMA ContractStep ==
  ASSUME OwnInv, OwnInv', Contract, ~ m_error_propogated', Next
  PROVE  Contract' /\ Promise
<1>1. CASE MessageThread
  <2>1. CASE StateSetEvent \/ ErrorEvents \/ PortDisableEvent \/ OtherEvents
    BY <2>1, StateSetContract, ErrorContract, PortEventContract
  <2>2. CASE START_DONE \/ PAUSE_DONE \/ RESUME_DONE \/ STOP_DONE \/ PORT_RECONFIG \/ HARDWARE_ERROR
    BY <2>2, RunDoneContract, StopDoneContract, ReconfigContract
  <2> QED
    BY <1>1, <2>1, <2>2, ProxyContract, FlushDoneContract, BuffersContract DEF MessageThread
<1>2. CASE Client
  <2>1. Commands \subseteq AllCommands
    BY VdecAssumption
  <2> QED
    BY <1>2, <2>1, SendContract, AllocateContract, FreeContract, SubmitContract DEF Client
<1>3. CASE Driver
  <2>1. \/ \E b \in Buffers : BufferDone(b)
        \/ \E port \in PortNames : AcknowledgeFlush(port)
        \/ Acknowledge(Plain("STOP"), "STOP_DONE", "stopped")
        \/ \E command, id, state :
             /\ Acknowledge(command, id, state)
             /\ <<command, id>> \in {<<Plain("START"), "START_DONE">>,
                                     <<Plain("PAUSE"), "PAUSE_DONE">>,
                                     <<Plain("RESUME"), "RESUME_DONE">>}
    BY <1>3 DEF Driver
  <2> QED
    BY <2>1, BufferDoneContract, FlushedContract, StoppedContract, ReportContract
<1>4. CASE ConfigChanged \/ HwError
  BY <1>4, ReportContract
<1> QED
  BY <1>1, <1>2, <1>3, <1>4 DEF Next, Steadily

(* At the start nothing is asked for.                                      *)
LEMMA ContractInit == Init => Contract
<1> SUFFICES ASSUME Init PROVE Contract
  OBVIOUS
<1>1. /\ m_cmd_q = << >> /\ drv_cmds = << >> /\ m_flags = {} /\ allocated = {} /\ flushing = {}
      /\ m_state = "Loaded" /\ cstate = "Loaded" /\ released = {} /\ owed = {}
  BY DEF Init
<1>2. "Loaded" \in States /\ "Loaded" \notin Processes
  BY DEF States, Processes
<1>3. CallsTyped /\ Bits = {} /\ Lent = {}
  BY <1>1 DEF CallsTyped, Bits, Lent
<1>4. OneRequest /\ InStep /\ Lending /\ Stopping /\ Flushing
  BY <1>1, <1>2, <1>3, EmptyHas DEF OneRequest, InStep, Lending, Stopping, Flushing
<1> QED
  BY <1>3, <1>4 DEF Contract

(* A reported error stays reported.                                        *)
LEMMA ErrorStays == [Next]_vars => m_error_propogated' = TRUE \/ UNCHANGED m_error_propogated
<1> SUFFICES ASSUME [Next]_vars
             PROVE  m_error_propogated' = TRUE \/ UNCHANGED m_error_propogated
  OBVIOUS
<1>1. CASE MessageThread
  BY <1>1
  DEF MessageThread, send_command_proxy, Loaded_Idle, Granted, Idle_Loaded, Idle_Executing,
      Idle_Pause, Executing_Idle, Executing_Pause, Pause_Executing, Rejected, FlushCommand,
      PortEnable, PortDisable, PortDisableRunning, PortDisableFlush, InvalidCommand,
      StateSetEvent, ErrorEvents, PortDisableEvent, OtherEvents, FlushDone, START_DONE,
      PAUSE_DONE, RESUME_DONE, STOP_DONE, StopOrPauseDone, PORT_RECONFIG, HARDWARE_ERROR,
      fill_this_buffer_proxy, fill_buffer_done, empty_this_buffer_proxy, empty_buffer_done,
      Enter, Stay, ReportStay, Quiet, omx_report_error, errors
<1>2. CASE Client
  BY <1>2 DEF Client, send_command, AllocateBuffer, FreeBuffer, empty_this_buffer,
              fill_this_buffer, component, errors
<1>3. CASE Driver \/ ConfigChanged \/ HwError
  BY <1>3 DEF Driver, BufferDone, Acknowledge, AcknowledgeFlush, ConfigChanged, HwError, Message,
              component, errors
<1>4. CASE UNCHANGED vars
  BY <1>4 DEF vars, errors
<1> QED
  BY <1>1, <1>2, <1>3, <1>4 DEF Next, Steadily

(* The decoder is the component OmxComponent describes, for any client and *)
(* any driver calls that fail, until it reports an error: it moves along   *)
(* the edges of the IL state graph, has buffers of the client only while   *)
(* it processes, and is back in Idle only with every buffer returned,      *)
(* although a flush leaves them queued until the driver acknowledged it.   *)
THEOREM VdecKeepsContract == Spec => KeepsContract
<1> DEFINE Inv == OwnInv /\ ContractInv
<1>1. Init => Inv
  BY OwnInit, ContractInit DEF ContractInv
<1>2. Inv /\ [Next]_vars => Inv'
  <2> SUFFICES ASSUME Inv, [Next]_vars PROVE Inv'
    OBVIOUS
  <2>1. OwnInv'
    BY OwnStep
  <2>2. CASE UNCHANGED vars
    BY <2>1, <2>2
    DEF vars, queues, ports, driver, client, errors, ContractInv, Contract, CallsTyped, OneRequest,
        InStep, Lending, Stopping, Flushing, Awaits, Asked, Bits, Lent
  <2>3. CASE Next
    BY <2>1, <2>3, ContractStep, ErrorStays DEF ContractInv
  <2> QED
    BY <2>2, <2>3
<1>3. Init => IL!Init
  BY DEF Init, IL!Init
<1>4. Inv /\ Inv' /\ [Next]_vars => [IL!Next]_<<m_state, Lent, m_error_propogated>>
  <2> SUFFICES ASSUME Inv, Inv', [Next]_vars
               PROVE  [IL!Next]_<<m_state, Lent, m_error_propogated>>
    OBVIOUS
  <2>1. CASE UNCHANGED vars
    BY <2>1 DEF vars, ports, client, errors, Lent
  <2>2. CASE Next
    <3>1. CASE m_error_propogated'
      BY <3>1 DEF IL!Next, IL!Unspecified
    <3>2. CASE ~ m_error_propogated'
      <4>1. Promise /\ ~ m_error_propogated
        BY <2>2, <3>2, ContractStep, ErrorStays DEF ContractInv
      <4>2. UNCHANGED m_error_propogated
        BY <3>2, ErrorStays
      <4>3. CASE m_state' = m_state /\ Lent' \subseteq Lent
        BY <3>2, <4>1, <4>2, <4>3 DEF IL!Next, IL!GiveBack, Lent
      <4>4. CASE /\ m_state' = m_state /\ m_state \in Processes
                 /\ \E b \in Buffers \ Lent : Lent' = Lent \cup {b}
        BY <3>2, <4>1, <4>2, <4>4 DEF IL!Next, IL!Lend, Lent, Processes, IL!Processes
      <4>5. CASE /\ <<m_state, m_state'>> \in IL!Edges /\ Lent' \subseteq Lent
                 /\ m_state' \notin Processes => Lent' = {}
        BY <3>2, <4>1, <4>2, <4>5 DEF IL!Next, IL!Move, Lent, Processes, IL!Processes
      <4>6. CASE m_state' = "Invalid" /\ Lent' \subseteq Lent
        BY <3>2, <4>1, <4>2, <4>6 DEF IL!Next, IL!Invalidate, Lent
      <4> QED
        BY <4>1, <4>3, <4>4, <4>5, <4>6 DEF Promise
    <3> QED
      BY <3>1, <3>2
  <2> QED
    BY <2>1, <2>2
<1>5. Lent = allocated \ held
  BY DEF Lent
<1> QED
  BY <1>1, <1>2, <1>3, <1>4, <1>5, PTL DEF Spec, KeepsContract, IL!Spec, Lent
-------------------------------------------------------------------------------
(***************************************************************************)
(* What the end of a flush or of a port disable means.  The theorems are   *)
(* about clients that disable one port at a time: when both are disabled   *)
(* by one command while the component runs, the code takes the end of the  *)
(* input port for that of the output port and defers it.                   *)
(***************************************************************************)
OneAtATime == [cmd |-> "PortDisable", arg |-> "ALL"] \notin Commands

Ends(port) == {PortEvent("PortDisable", port)}
DisableOrder(arg) == {Entry("COMMAND", "PortDisable", arg)}
StrayEnds == [id : {"EVENT"}, p1 : {"PortDisable"}, p2 : Parameters \ PortNames]
Replies == StateEvents \cup Answers
Followed == Requests \cup Ends("IN") \cup Ends("OUT") \cup StrayEnds
Fid == FlushInDisablePending \in m_flags
Deferred == DisableOutputDeferred \in m_flags
(* A disable that has begun and whose end is not posted.                   *)
Disabling(port) ==
  DisablePending(port) \in m_flags \/ port \in released \/ (port = "OUT" /\ (Fid \/ Deferred))
DisableBits ==
  {DisablePending(port) : port \in PortNames} \cup {FlushInDisablePending, DisableOutputDeferred}
NoState == \A c \in owed : c.cmd # "StateSet"

(* The client waits for one command, and for one port if it disables.      *)
OneCommand == \A x, y \in owed : x.cmd = y.cmd /\ (x.cmd = "PortDisable" => x = y)
Closing(port) ==
  Disabling(port) => Asked("PortDisable", port) /\ ~ Has(m_cmd_q, Commanded) /\ port \notin enabled
(* A posted end finds the port released, until it is taken.  In Loaded and *)
(* Idle it may be the second of two for one command.                       *)
Closed(port) ==
  Has(m_cmd_q, Ends(port)) =>
    /\ PortReleased(port, allocated) /\ port \notin enabled
    /\ DisablePending(port) \notin m_flags /\ (port = "OUT" => ~ Deferred)
    /\ Bits = {} /\ ~ Has(m_cmd_q, Replies) /\ (waiting \/ NoState)
    /\ \/ m_state \in {"Loaded", "Idle"}
       \/ /\ Asked("PortDisable", port) /\ AtMostOne(m_cmd_q, Ends(port))
          /\ ~ Has(m_cmd_q, Commanded)
(* The command may find that such a second end has already answered it.    *)
Asking(port) ==
  Has(m_cmd_q, DisableOrder(port)) =>
    /\ NoState
    /\ \/ Asked("PortDisable", port)
       \/ PortReleased(port, allocated) /\ port \notin enabled /\ m_state \in {"Loaded", "Idle"}
DeferredEnd ==
  /\ Deferred => Fid /\ PortReleased("OUT", allocated) /\ DisablePending("OUT") \notin m_flags
  /\ Fid => m_state \in Processes
Disables ==
  /\ OneCommand /\ DeferredEnd /\ released \subseteq PortNames
  /\ ~ Has(m_cmd_q, DisableOrder("ALL")) /\ ~ Has(m_cmd_q, StrayEnds)
  /\ \A port \in PortNames :
       /\ Closing(port) /\ Closed(port) /\ Asking(port)
       /\ Before(m_cmd_q, Commanded, Ends(port))

(* The bits of a disable are different from each other and from others.    *)
LEMMA DisableBitsDiffer ==
  /\ DisablePending("IN") # DisablePending("OUT")
  /\ \A p : DisablePending(p) # FlushInDisablePending /\ DisablePending(p) # DisableOutputDeferred
  /\ FlushInDisablePending # DisableOutputDeferred
  /\ \A p : FlushPending(p) \notin DisableBits /\ EnablePending(p) \notin DisableBits
  /\ DisableBits \cap StateBits = {}
<1>1. DisableBits = {DisablePending("IN"), DisablePending("OUT"), FlushInDisablePending,
                     DisableOutputDeferred}
  BY DEF DisableBits, PortNames
<1> QED
  BY <1>1 DEF DisablePending, FlushInDisablePending, DisableOutputDeferred, FlushPending,
              EnablePending, StateBits, IdlePending, LoadingPending, ExecutePending, PausePending

(* A step that begins no disable.                                          *)
FewerDisables ==
  /\ m_flags' \cap DisableBits \subseteq m_flags /\ released' \subseteq released
  /\ Fid => Fid' \/ ~ Deferred'
(* Then every bit of a disable was there before.                           *)
LEMMA FewerDisabling ==
  ASSUME FewerDisables
  PROVE  /\ \A port \in PortNames :
              /\ Disabling(port)' => Disabling(port)
              /\ DisablePending(port) \in m_flags' => DisablePending(port) \in m_flags
         /\ (Fid' => Fid) /\ (Deferred' => Deferred) /\ (DeferredEnd => (Deferred' => Fid'))
<1>1. \A bit \in DisableBits : bit \in m_flags' => bit \in m_flags
  BY DEF FewerDisables
<1>2. /\ \A port \in PortNames : DisablePending(port) \in DisableBits
      /\ FlushInDisablePending \in DisableBits /\ DisableOutputDeferred \in DisableBits
  BY DEF DisableBits
<1> QED
  BY <1>1, <1>2 DEF FewerDisables, Disabling, Fid, Deferred, DeferredEnd

(* Which entries are the ends of disables and which the commands.          *)
LEMMA EndKinds ==
  /\ \A port \in PortNames : Ends(port) \in SUBSET Followed
  /\ \A port \in PortNames : Ends(port) \in SUBSET CmdEntries /\ Ends(port) \cap Told = {}
  /\ \A arg \in PortNames \cup {"ALL"} : /\ DisableOrder(arg) \in SUBSET Commanded
                                         /\ DisableOrder(arg) \in SUBSET Followed
  /\ Commanded \in SUBSET Followed /\ Replies \in SUBSET Followed /\ Followed \in SUBSET CmdEntries
  /\ Commanded \in SUBSET Requests /\ Replies \in SUBSET Requests /\ Requests \in SUBSET Followed
  /\ Requests \in SUBSET Told
  /\ StrayEnds \in SUBSET Followed /\ StrayEnds \cap Told = {}
  /\ \A port \in PortNames : StrayEnds \cap Ends(port) = {}
<1>0. StrayEnds \in SUBSET CmdEntries /\ StrayEnds \cap Told = {}
      /\ \A port \in PortNames : StrayEnds \cap Ends(port) = {}
  <2>1. "PortDisable" \in Parameters
    BY DEF Parameters
  <2>2. \A e \in StrayEnds : e \in CmdEntries /\ e \notin Told
    BY <2>1 DEF StrayEnds, CmdEntries, Told, Requests, Commanded, StateEvents, Answers, Stopped, FlushEvents
  <2> QED
    BY <2>2 DEF StrayEnds, Ends, PortEvent, Entry
<1>1. \A port \in PortNames : PortEvent("PortDisable", port) \in Beside
  BY BesideHas DEF Parameters, PortNames
<1>2. \A port \in PortNames : Ends(port) \in SUBSET CmdEntries /\ Ends(port) \cap Told = {}
  BY <1>1 DEF Ends, Beside
<1>3. \A arg \in PortNames \cup {"ALL"} : DisableOrder(arg) \in SUBSET Commanded
  BY DEF DisableOrder, Entry, Commanded, Parameters
<1>4. \A port \in PortNames : Ends(port) \in SUBSET Followed
  BY DEF Followed, PortNames
<1> QED
  BY <1>0, <1>2, <1>3, <1>4, Kinds DEF Followed, Requests, Replies, PortNames

(* With nothing about a disable in the queue, and none under way.          *)
LEMMA NoDisable ==
  ASSUME OneCommand', ~ Has(m_cmd_q', Commanded), ~ Has(m_cmd_q', StrayEnds),
         released' \subseteq PortNames,
         \A port \in PortNames : ~ Has(m_cmd_q', Ends(port)) /\ ~ Disabling(port)'
  PROVE  Disables'
<1>1. \A arg \in PortNames \cup {"ALL"} : ~ Has(m_cmd_q', DisableOrder(arg))
  BY EndKinds DEF Has
<1>2. \A port \in PortNames : Before(m_cmd_q', Commanded, Ends(port))
  BY DEF Has, Before
<1>3. ~ Fid' /\ ~ Deferred'
  BY DEF Disabling, PortNames
<1> QED
  BY <1>1, <1>2, <1>3 DEF Disables, DeferredEnd, Closing, Closed, Asking

(* What the client waits for only grows less.                              *)
LEMMA FewerOwed == ASSUME OneCommand, owed' \subseteq owed PROVE OneCommand' /\ (NoState => NoState')
  BY DEF OneCommand, NoState

(* A step that neither begins nor ends a disable.                          *)
Followers == m_cmd_q' \in Seq(CmdEntries) /\ Fewer(m_cmd_q, m_cmd_q', Followed)
(* It keeps the invariant if no port gets buffers whose end is posted, and *)
(* the client still waits for the disables it waits for.                   *)
LEMMA DisableAside ==
  ASSUME Contract, Disables, Followers, FewerDisables, UNCHANGED <<m_state, enabled, waiting>>,
         owed' \subseteq owed, Bits' \subseteq Bits,
         \A port \in PortNames : Asked("PortDisable", port) => Asked("PortDisable", port)',
         \A port \in PortNames : PortReleased(port, allocated) =>
           \/ PortReleased(port, allocated')
           \/ ~ Has(m_cmd_q, Ends(port)) /\ ~ Has(m_cmd_q, Commanded) /\ ~ (port = "OUT" /\ Deferred)
  PROVE  Disables'
<1>1. OneCommand' /\ (NoState => NoState')
  BY FewerOwed DEF Disables
<1>2. /\ Has(m_cmd_q', Commanded) => Has(m_cmd_q, Commanded)
      /\ Has(m_cmd_q', Replies) => Has(m_cmd_q, Replies)
      /\ Has(m_cmd_q', StrayEnds) => Has(m_cmd_q, StrayEnds)
      /\ \A port \in PortNames :
           /\ Has(m_cmd_q', Ends(port)) => Has(m_cmd_q, Ends(port))
           /\ AtMostOne(m_cmd_q, Ends(port)) => AtMostOne(m_cmd_q', Ends(port))
           /\ Before(m_cmd_q, Commanded, Ends(port)) => Before(m_cmd_q', Commanded, Ends(port))
      /\ \A arg \in PortNames \cup {"ALL"} :
           Has(m_cmd_q', DisableOrder(arg)) => Has(m_cmd_q, DisableOrder(arg)) /\ Has(m_cmd_q, Commanded)
  <2>1. \A arg \in PortNames \cup {"ALL"} : Has(m_cmd_q, DisableOrder(arg)) => Has(m_cmd_q, Commanded)
    BY EndKinds DEF Has
  <2> QED
    BY <2>1, EndKinds DEF Followers, Fewer
<1>3. DeferredEnd'
  BY FewerDisabling DEF DeferredEnd, Disables, PortNames
<1>4. ASSUME NEW port \in PortNames PROVE Closing(port)'
  BY <1>2, <1>4, FewerDisabling DEF Closing, Disables
<1>5. ASSUME NEW port \in PortNames PROVE Closed(port)'
  BY <1>1, <1>2, <1>5, FewerDisabling DEF Closed, Disables
<1>6. ASSUME NEW port \in PortNames PROVE Asking(port)'
  BY <1>1, <1>2, <1>6 DEF Asking, Disables
<1>7. released' \subseteq PortNames
  BY DEF FewerDisables, Disables
<1> QED
  BY <1>1, <1>2, <1>3, <1>4, <1>5, <1>6, <1>7 DEF Disables

(* A command is taken after every end that was posted before it, and while *)
(* no disable is under way.                                                *)
Quietly == CmdEntries \ (Commanded \cup Ends("IN") \cup Ends("OUT") \cup StrayEnds)
(* With it no end of a disable and no other command is in the queue.       *)
LEMMA ProxyClear ==
  ASSUME Contract, Disables, NEW cmd \in Parameters, NEW arg \in Parameters, Proxy(cmd, arg)
  PROVE  \A port \in PortNames :
           /\ ~ Has(m_cmd_q, Ends(port)) /\ ~ Disabling(port)
           /\ ~ Has(Tail(m_cmd_q), Ends(port)) /\ ~ Has(Tail(m_cmd_q), Commanded)
           /\ ~ Has(Tail(m_cmd_q), StrayEnds)
<1>1. m_cmd_q \in Seq(CmdEntries) /\ m_cmd_q # << >> /\ Head(m_cmd_q) \in Commanded
  BY ProxyFinds
<1>2. Has(m_cmd_q, Commanded) /\ ~ Has(Tail(m_cmd_q), Commanded)
  <2>1. AtMostOne(m_cmd_q, Commanded)
    BY EndKinds DEF Contract, OneRequest, AtMostOne
  <2> QED
    BY <1>1, <2>1, TailHas
<1>3. ASSUME NEW port \in PortNames
      PROVE  ~ Has(m_cmd_q, Ends(port)) /\ ~ Has(Tail(m_cmd_q), Ends(port))
  <2>1. Before(m_cmd_q, Commanded, Ends(port))
    BY DEF Disables
  <2>2. ~ Has(Tail(m_cmd_q), Ends(port))
    BY <1>1, <2>1, TailBefore
  <2>3. Head(m_cmd_q) \notin Ends(port)
    BY <1>1, EndKinds DEF Told, Requests
  <2> QED
    BY <1>1, <2>2, <2>3, TailHas
<1>4. ~ Has(Tail(m_cmd_q), StrayEnds)
  BY <1>1, TailHas DEF Disables
<1> QED
  BY <1>2, <1>3, <1>4 DEF Disables, Closing

(* Entries put behind others that say nothing of a command or a disable.   *)
LEMMA QuietlyPosted ==
  ASSUME NEW q \in Seq(CmdEntries), NEW r \in Seq(Quietly)
  PROVE  /\ q \o r \in Seq(CmdEntries)
         /\ Has(q \o r, Commanded) => Has(q, Commanded)
         /\ Has(q \o r, StrayEnds) => Has(q, StrayEnds)
         /\ \A port \in PortNames : Has(q \o r, Ends(port)) => Has(q, Ends(port))
<1> DEFINE K == Commanded \cup Ends("IN") \cup Ends("OUT") \cup StrayEnds
<1>1. r \in Seq(CmdEntries) /\ ~ Has(r, K)
  <2>1. \A i \in DOMAIN r : r[i] \in Quietly
    OBVIOUS
  <2>2. r \in Seq(CmdEntries)
    BY SeqMonotonic DEF Quietly
  <2> QED
    BY <2>1, <2>2 DEF Quietly, Has
<1>2. Commanded \in SUBSET K /\ StrayEnds \in SUBSET K /\ \A port \in PortNames : Ends(port) \in SUBSET K
  BY DEF K, PortNames
<1> HIDE DEF K
<1>3. Fewer(q, q \o r, K) /\ q \o r \in Seq(CmdEntries)
  BY <1>1, FewerConcat, ConcatProperties
<1> QED
  BY <1>2, <1>3 DEF Fewer

(* A command about something else.                                         *)
LEMMA ProxyDisables ==
  ASSUME Contract, Disables, NEW cmd \in Parameters, NEW arg \in Parameters, Proxy(cmd, arg),
         NEW r \in Seq(Quietly), Post(r), FewerDisables, owed' \subseteq owed
  PROVE  Disables'
<1> DEFINE t == Tail(m_cmd_q)
<1>1. m_cmd_q' = t \o r /\ t \in Seq(CmdEntries)
  BY ProxyFinds DEF Post
<1>2. \A port \in PortNames :
        ~ Disabling(port) /\ ~ Has(t, Ends(port)) /\ ~ Has(t, Commanded) /\ ~ Has(t, StrayEnds)
  BY ProxyClear
<1>3. ~ Has(t, Commanded) /\ ~ Has(t, StrayEnds)
  BY <1>2 DEF PortNames
<1> HIDE DEF t
<1>4. ~ Has(m_cmd_q', Commanded) /\ ~ Has(m_cmd_q', StrayEnds)
      /\ \A port \in PortNames : ~ Has(m_cmd_q', Ends(port))
  BY <1>1, <1>2, <1>3, QuietlyPosted
<1>5. OneCommand' /\ released' \subseteq PortNames
  BY FewerOwed DEF FewerDisables, Disables
<1> QED
  BY <1>2, <1>4, <1>5, FewerDisabling, NoDisable

(* What is posted by a command that disables nothing.                      *)
LEMMA QuietlyHas ==
  /\ \A t \in States : Entry("EVENT", "StateSet", t) \in Quietly
  /\ \A error \in {"Hardware", "SameState", "Invalid", "IncorrectStateTransition",
                   "PortUnpopulated"} : ErrorEvent(error) \in Quietly
  /\ \A p \in Parameters : PortEvent("PortEnable", p) \in Quietly
  /\ Entry("RESUME_DONE", "-", "ok") \in Quietly
  BY DEF Quietly, StrayEnds, Entry, ErrorEvent, PortEvent, Ends, Commanded, CmdEntries, Parameters, States, Statuses

(* The events of a port enable are quiet.                                  *)
LEMMA EnableQuietly ==
  ASSUME NEW arg \in PortNames \cup {"ALL"}, NEW now
  PROVE  PortEvents("PortEnable", arg, now) \in Seq(Quietly)
<1> DEFINE q1 == IF "IN" \in now THEN <<PortEvent("PortEnable", "IN")>> ELSE << >>
           q2 == IF "OUT" \in now THEN <<PortEvent("PortEnable", "OUT")>> ELSE << >>
           q3 == IF now = Ports(arg) THEN <<PortEvent("PortEnable", arg)>> ELSE << >>
<1>1. arg \in Parameters /\ "IN" \in Parameters /\ "OUT" \in Parameters
  BY DEF Parameters, PortNames
<1>2. q1 \in Seq(Quietly) /\ q2 \in Seq(Quietly) /\ q3 \in Seq(Quietly)
  BY <1>1, QuietlyHas, Few
<1>3. PortEvents("PortEnable", arg, now) = (q1 \o q2) \o q3
  BY DEF PortEvents, InOrder
<1> HIDE DEF q1, q2, q3
<1>4. q1 \o q2 \in Seq(Quietly)
  BY <1>2, Few
<1>5. (q1 \o q2) \o q3 \in Seq(Quietly)
  BY <1>2, <1>4, Few
<1> QED
  BY <1>3, <1>5

(* Bits that are set or cleared for something else.                        *)
LEMMA OtherBits ==
  ASSUME NEW bits, bits \cap DisableBits = {}, UNCHANGED released,
         m_flags' = m_flags \cup bits \/ m_flags' = m_flags \ bits
  PROVE  FewerDisables
<1>1. FlushInDisablePending \in DisableBits
  BY DEF DisableBits
<1> QED
  BY <1>1 DEF FewerDisables, Fid

(* A command that moves the component, or is refused.                      *)
LEMMA StateCommandDisables ==
  ASSUME Contract, Disables, ~ m_error_propogated',
         \/ Loaded_Idle \/ Idle_Loaded \/ Idle_Executing \/ Idle_Pause
         \/ Executing_Idle \/ Executing_Pause \/ Pause_Executing
         \/ \E eState \in States : Granted(eState) \/ Rejected(eState)
  PROVE  Disables'
<1>1. PICK arg \in States : Proxy("StateSet", arg)
  BY DEF Loaded_Idle, Idle_Loaded, Idle_Executing, Idle_Pause, Executing_Idle, Executing_Pause,
         Pause_Executing, Granted, Rejected, States
<1>2. arg \in Parameters /\ "StateSet" \in Parameters
  BY DEF Parameters
<1>3. UNCHANGED <<released, owed>>
  BY DEF Loaded_Idle, Idle_Loaded, Idle_Executing, Idle_Pause, Executing_Idle, Executing_Pause,
         Pause_Executing, Granted, Rejected, NoFlush, Quiet, omx_report_error
<1>4. \E bits \in SUBSET StateBits : m_flags' = m_flags \cup bits
  <2>1. \E bits \in {{}, {IdlePending}, {LoadingPending}, {ExecutePending}, {PausePending}} :
          m_flags' = m_flags \cup bits
    BY DEF Loaded_Idle, Idle_Loaded, Idle_Executing, Idle_Pause, Executing_Idle, Executing_Pause,
           Pause_Executing, Granted, Rejected
  <2> QED
    BY <2>1 DEF StateBits
<1>5. FewerDisables
  <2>1. PICK bits \in SUBSET StateBits : m_flags' = m_flags \cup bits
    BY <1>4
  <2> QED
    BY <1>3, <2>1, DisableBitsDiffer, OtherBits
<1>6. \/ Post(<< >>) \/ (\E t \in States : Post(<<Entry("EVENT", "StateSet", t)>>))
      \/ (\E error \in {"Hardware", "SameState", "Invalid", "IncorrectStateTransition"} :
            Post(<<ErrorEvent(error)>>))
      \/ Post(<<Entry("RESUME_DONE", "-", "ok")>>)
  BY DEF Loaded_Idle, Idle_Loaded, Idle_Executing, Idle_Pause, Executing_Idle, Executing_Pause,
         Pause_Executing, Granted, Rejected, States
<1>7. \E r \in Seq(Quietly) : Post(r)
  BY <1>6, QuietlyHas, Few
<1> QED
  BY <1>1, <1>2, <1>3, <1>5, <1>7, ProxyDisables

(* A flush and a port enable set no bit of a disable.                      *)
LEMMA OtherCommandDisables ==
  ASSUME Contract, Disables, NEW arg \in PortNames \cup {"ALL"}, FlushCommand(arg) \/ PortEnable(arg)
  PROVE  Disables'
<1>1. arg \in Parameters /\ "Flush" \in Parameters /\ "PortEnable" \in Parameters
  BY DEF Parameters
<1>2. CASE FlushCommand(arg)
  <2>1. /\ Proxy("Flush", arg) /\ Post(<< >>) /\ UNCHANGED <<owed, released>>
        /\ m_flags' = m_flags \cup {FlushPending(port) : port \in Ports(arg)}
    BY <1>2 DEF FlushCommand, Quiet
  <2> DEFINE bits == {FlushPending(port) : port \in Ports(arg)}
  <2>2. FewerDisables
    <3>1. bits \cap DisableBits = {} /\ m_flags' = m_flags \cup bits
      BY <2>1, DisableBitsDiffer
    <3> HIDE DEF bits
    <3> QED
      BY <2>1, <3>1, OtherBits
  <2> QED
    BY <1>1, <2>1, <2>2, Few, ProxyDisables
<1>3. CASE PortEnable(arg)
  <2> DEFINE now == {port \in Ports(arg) :
                      (m_state = "Loaded" /\ IdlePending \notin m_flags)
                        \/ PortAllocated(port, allocated)}
  <2>1. /\ Proxy("PortEnable", arg) /\ UNCHANGED <<owed, released>>
        /\ Post(PortEvents("PortEnable", arg, now))
        /\ m_flags' = m_flags \cup {EnablePending(port) : port \in Ports(arg) \ now}
    BY <1>3 DEF PortEnable, Quiet, NoFlush
  <2> HIDE DEF now
  <2> DEFINE bits == {EnablePending(port) : port \in Ports(arg) \ now}
  <2>2. FewerDisables
    <3>1. bits \cap DisableBits = {} /\ m_flags' = m_flags \cup bits
      BY <2>1, DisableBitsDiffer
    <3> HIDE DEF bits
    <3> QED
      BY <2>1, <3>1, OtherBits
  <2> QED
    BY <1>1, <2>1, <2>2, EnableQuietly, ProxyDisables
<1> QED
  BY <1>2, <1>3

(* The command found at the head disables one port, which the client waits *)
(* for unless the port is closed already.                                  *)
LEMMA DisableFinds ==
  ASSUME Contract, Disables, NEW arg \in PortNames \cup {"ALL"}, Proxy("PortDisable", arg)
  PROVE  /\ arg \in PortNames /\ Ports(arg) = {arg} /\ Bits = {} /\ released = {}
         /\ NoState
         /\ \/ Asked("PortDisable", arg)
            \/ PortReleased(arg, allocated) /\ arg \notin enabled /\ m_state \in {"Loaded", "Idle"}
<1>1. arg \in Parameters /\ "PortDisable" \in Parameters
  BY DEF Parameters
<1>2. /\ m_cmd_q \in Seq(CmdEntries) /\ m_cmd_q # << >> /\ Bits = {} /\ released = {}
      /\ Head(m_cmd_q) \in DisableOrder(arg)
  BY <1>1, ProxyFinds DEF Proxy, DisableOrder
<1>3. Has(m_cmd_q, DisableOrder(arg))
  BY <1>2, TailHas
<1>4. arg \in PortNames
  BY <1>3 DEF Disables
<1>5. Ports(arg) = {arg}
  BY <1>4 DEF Ports, PortNames
<1> QED
  BY <1>2, <1>3, <1>4, <1>5 DEF Disables, Asking

(* A disable that has to wait.                                             *)
LEMMA DisableBegins ==
  ASSUME Contract, Disables, NEW arg \in PortNames, Proxy("PortDisable", arg), Post(<< >>),
         Asked("PortDisable", arg), m_flags' = m_flags \cup {DisablePending(arg)},
         released' \in {released, {arg}}, enabled' = enabled \ {arg}, owed' = owed
  PROVE  Disables'
<1>1. arg \in Parameters /\ "PortDisable" \in Parameters
  BY DEF Parameters, PortNames
<1>2. \A port \in PortNames :
        /\ ~ Has(m_cmd_q, Ends(port)) /\ ~ Disabling(port)
        /\ ~ Has(Tail(m_cmd_q), Ends(port)) /\ ~ Has(Tail(m_cmd_q), Commanded)
        /\ ~ Has(Tail(m_cmd_q), StrayEnds)
  BY <1>1, ProxyClear
<1>3. m_cmd_q' = Tail(m_cmd_q)
  <2>1. Tail(m_cmd_q) \in Seq(CmdEntries)
    BY <1>1, ProxyFinds
  <2> QED
    BY <2>1 DEF Post
<1>4. ~ Has(m_cmd_q', Commanded) /\ ~ Has(m_cmd_q', StrayEnds)
      /\ \A port \in PortNames : ~ Has(m_cmd_q', Ends(port))
  BY <1>2, <1>3 DEF PortNames
<1>5. \A a \in PortNames \cup {"ALL"} : ~ Has(m_cmd_q', DisableOrder(a))
  BY <1>4, EndKinds DEF Has
<1>6. \A port \in PortNames : Disabling(port)' => port = arg
  BY <1>2, DisableBitsDiffer DEF Disabling, Fid, Deferred, PortNames
<1>7. ~ Fid' /\ ~ Deferred'
  BY <1>2, DisableBitsDiffer DEF Disabling, Fid, Deferred, PortNames
<1>8. OneCommand' /\ released' \subseteq PortNames
  BY FewerOwed DEF Disables
<1>9. \A port \in PortNames : Before(m_cmd_q', Commanded, Ends(port))
  BY <1>4 DEF Has, Before
<1>10. \A port \in PortNames : Closing(port)'
  BY <1>4, <1>6 DEF Closing, Asked
<1> QED
  BY <1>4, <1>5, <1>7, <1>8, <1>9, <1>10 DEF Disables, DeferredEnd, Closed, Asking

(* While the component runs the disable of a port begins.                  *)
LEMMA PortDisableRunningDisables ==
  ASSUME Contract, Disables, NEW arg \in PortNames \cup {"ALL"}, PortDisableRunning(arg)
  PROVE  Disables'
<1>1. Proxy("PortDisable", arg) /\ m_state \in {"Pause", "Executing"}
  BY DEF PortDisableRunning
<1>2. arg \in PortNames /\ Ports(arg) = {arg} /\ Asked("PortDisable", arg)
  BY <1>1, DisableFinds
<1>3. /\ enabled' = enabled \ {arg} /\ m_flags' = m_flags \cup {DisablePending(arg)}
      /\ released' = {arg} /\ Post(<< >>) /\ owed' = owed
  BY <1>2 DEF PortDisableRunning, Quiet, PortNames
<1> QED
  BY <1>1, <1>2, <1>3, DisableBegins

(* While the component rests a port without buffers is disabled at once;   *)
(* the end is posted for the port and again for the command.               *)
LEMMA PortDisableDisables ==
  ASSUME Contract, Disables, NEW arg \in PortNames \cup {"ALL"}, PortDisable(arg)
  PROVE  Disables'
<1> DEFINE quick == m_state \in {"Loaded", "Idle"} /\ PortReleased(arg, allocated)
           now == {port \in Ports(arg) : m_state \in {"Loaded", "Idle"}
                                           /\ PortReleased(port, allocated)}
<1>1. /\ Proxy("PortDisable", arg) /\ UNCHANGED <<owed, released>>
      /\ enabled' = enabled \ Ports(arg) /\ Post(PortEvents("PortDisable", arg, now))
      /\ m_flags' = m_flags \cup {DisablePending(port) : port \in Ports(arg) \ now}
  BY DEF PortDisable, Quiet, NoFlush
<1>2. /\ arg \in PortNames /\ Ports(arg) = {arg} /\ Bits = {} /\ released = {} /\ NoState
      /\ \/ Asked("PortDisable", arg)
         \/ PortReleased(arg, allocated) /\ arg \notin enabled /\ m_state \in {"Loaded", "Idle"}
  BY <1>1, DisableFinds
<1>3. arg \in Parameters /\ "PortDisable" \in Parameters
  BY <1>2 DEF Parameters, PortNames
<1>4. CASE ~ quick
  <2>1. now = {}
    BY <1>2, <1>4
  <2>2. PortEvents("PortDisable", arg, {}) = << >>
    BY <1>2 DEF PortEvents, InOrder
  <2>3. m_flags' = m_flags \cup {DisablePending(arg)}
    BY <1>1, <1>2, <2>1
  <2> QED
    BY <1>1, <1>2, <1>4, <2>1, <2>2, <2>3, DisableBegins
<1>5. CASE quick
  <2> DEFINE e == PortEvent("PortDisable", arg)
             r == PortEvents("PortDisable", arg, {arg})
             t == Tail(m_cmd_q)
  <2>1. now = {arg}
    BY <1>2, <1>5
  <2>2. r \in Seq({e}) /\ Post(r)
    <3> DEFINE q1 == IF "IN" \in {arg} THEN <<PortEvent("PortDisable", "IN")>> ELSE << >>
               q2 == IF "OUT" \in {arg} THEN <<PortEvent("PortDisable", "OUT")>> ELSE << >>
    <3>1. r = (q1 \o q2) \o <<e>>
      BY <1>2 DEF PortEvents, InOrder
    <3>2. q1 \in Seq({e}) /\ q2 \in Seq({e}) /\ <<e>> \in Seq({e})
      BY Few
    <3> HIDE DEF q1, q2, e
    <3>3. q1 \o q2 \in Seq({e})
      BY <3>2, Few
    <3>4. (q1 \o q2) \o <<e>> \in Seq({e})
      BY <3>2, <3>3, Few
    <3>5. Post(r)
      BY <1>1, <2>1
    <3> QED
      BY <3>1, <3>4, <3>5
  <2>3. m_flags' = m_flags
    BY <1>1, <1>2, <2>1
  <2>4. e \in Ends(arg) /\ e \in CmdEntries
    BY <1>2, EndKinds DEF Ends
  <2>5. \A port \in PortNames :
          /\ ~ Has(m_cmd_q, Ends(port)) /\ ~ Disabling(port)
          /\ ~ Has(t, Ends(port)) /\ ~ Has(t, Commanded) /\ ~ Has(t, StrayEnds)
    BY <1>1, <1>3, ProxyClear
  <2>6. t \in Seq(CmdEntries) /\ ~ Has(t, Requests) /\ m_cmd_q' = t \o r
        /\ UNCHANGED <<m_state, allocated>> /\ waiting' = FALSE
    <3>1. /\ m_cmd_q \in Seq(CmdEntries) /\ m_cmd_q # << >> /\ Head(m_cmd_q) \in Requests
          /\ AtMostOne(m_cmd_q, Requests)
      BY <1>1, <1>3, ProxyFinds DEF Contract, OneRequest
    <3>2. t \in Seq(CmdEntries) /\ ~ Has(t, Requests)
      BY <3>1, TailHas
    <3> HIDE DEF now, r
    <3> QED
      BY <1>1, <2>2, <3>2 DEF Post, Proxy
  <2> HIDE DEF t, r, e
  <2>7. \A i \in DOMAIN m_cmd_q' : m_cmd_q'[i] = e \/ \E j \in DOMAIN t : m_cmd_q'[i] = t[j]
    <3>1. r \in Seq(CmdEntries)
      BY <2>2, <2>4, SeqMonotonic
    <3>2. \A i \in DOMAIN (t \o r) :
            \/ i \in DOMAIN t /\ (t \o r)[i] = t[i]
            \/ i - Len(t) \in DOMAIN r /\ (t \o r)[i] = r[i - Len(t)]
      BY <2>6, <3>1
    <3>3. \A i \in DOMAIN r : r[i] = e
      BY <2>2
    <3> QED
      BY <2>6, <3>2, <3>3
  <2>8. \A D : Has(m_cmd_q', D) => e \in D \/ Has(t, D)
    BY <2>7 DEF Has
  <2>9. e \notin Requests /\ e \notin StrayEnds /\ \A port \in PortNames : e \in Ends(port) => port = arg
    BY <1>2, <2>4, EndKinds DEF Ends, PortEvent, Entry
  <2>10. ~ Has(m_cmd_q', Commanded) /\ ~ Has(m_cmd_q', Replies) /\ ~ Has(m_cmd_q', StrayEnds)
         /\ \A port \in PortNames : Has(m_cmd_q', Ends(port)) => port = arg
    <3>1. Commanded \subseteq Requests /\ Replies \subseteq Requests
      BY EndKinds
    <3> QED
      BY <2>5, <2>6, <2>8, <2>9, <3>1 DEF Has, PortNames
  <2>11. \A a \in PortNames \cup {"ALL"} : ~ Has(m_cmd_q', DisableOrder(a))
    BY <2>10, EndKinds DEF Has
  <2>12. FewerDisables
    BY <1>1, <2>3 DEF FewerDisables, Fid
  <2>13. \A port \in PortNames : ~ Disabling(port)'
    BY <2>5, <2>12, FewerDisabling
  <2>14. ~ Fid' /\ ~ Deferred' /\ \A port \in PortNames : DisablePending(port) \notin m_flags'
    BY <2>13 DEF Disabling, PortNames
  <2>15. Closed(arg)'
    <3>1. Bits' = {} /\ NoState' /\ m_state' \in {"Loaded", "Idle"}
          /\ PortReleased(arg, allocated') /\ arg \notin enabled'
      BY <1>1, <1>2, <1>5, <2>3, <2>6 DEF Bits, NoState
    <3> QED
      BY <1>2, <2>10, <2>14, <3>1 DEF Closed
  <2>16. \A port \in PortNames : Closed(port)'
    BY <2>10, <2>15 DEF Closed
  <2>17. \A port \in PortNames : Before(m_cmd_q', Commanded, Ends(port))
    BY <2>10 DEF Has, Before
  <2>18. OneCommand' /\ released' \subseteq PortNames
    BY <1>1, FewerOwed DEF Disables
  <2> QED
    BY <2>10, <2>11, <2>13, <2>14, <2>16, <2>17, <2>18 DEF Disables, DeferredEnd, Closing, Asking
<1> QED
  BY <1>4, <1>5

(* The flush of the port that is disabled.                                 *)
LEMMA PortDisableFlushDisables ==
  ASSUME Contract, Disables, PortDisableFlush
  PROVE  Disables'
<1>1. /\ released # {} /\ released' = {} /\ enabled' = enabled \ released
      /\ UNCHANGED <<m_state, m_cmd_q, allocated, owed, waiting>>
      /\ m_flags' = m_flags
           \cup (IF released = PortNames THEN {DisablePending("OUT")} ELSE {})
           \cup (IF "OUT" \in released THEN {FlushInDisablePending} ELSE {})
  BY DEF PortDisableFlush, queues, client
<1>2. released # PortNames
  <2>1. SUFFICES ASSUME released = PortNames PROVE FALSE
    OBVIOUS
  <2>2. Asked("PortDisable", "IN") /\ Asked("PortDisable", "OUT")
    BY <2>1 DEF Disables, Closing, Disabling, PortNames
  <2>3. [cmd |-> "PortDisable", arg |-> "IN"] = [cmd |-> "PortDisable", arg |-> "OUT"]
    BY <2>2 DEF Disables, OneCommand, Asked
  <2>4. [cmd |-> "PortDisable", arg |-> "IN"].arg = "IN"
        /\ [cmd |-> "PortDisable", arg |-> "OUT"].arg = "OUT"
    OBVIOUS
  <2> QED
    BY <2>3, <2>4
<1>3. m_flags' = m_flags \cup (IF "OUT" \in released THEN {FlushInDisablePending} ELSE {})
  BY <1>1, <1>2
<1>4. /\ \A port \in PortNames : /\ DisablePending(port) \in m_flags' <=> DisablePending(port) \in m_flags
                                 /\ Disabling(port)' => Disabling(port)
      /\ (Deferred' <=> Deferred) /\ (Fid => Fid') /\ Bits' = Bits
  <2>1. /\ \A port \in PortNames : DisablePending(port) \in m_flags' <=> DisablePending(port) \in m_flags
        /\ (Deferred' <=> Deferred) /\ (Fid => Fid') /\ (Fid' => Fid \/ "OUT" \in released)
    BY <1>3, DisableBitsDiffer DEF Deferred, Fid
  <2>2. Bits' = Bits
    BY <1>3, BitsDiffer DEF Bits
  <2>3. \A port \in PortNames : Disabling(port)' => Disabling(port)
    BY <1>1, <2>1 DEF Disabling
  <2> QED
    BY <2>1, <2>2, <2>3
<1>5. m_state \in Processes
  BY <1>1 DEF Contract, InStep
<1>6. DeferredEnd'
  BY <1>1, <1>4, <1>5 DEF Disables, DeferredEnd, PortNames
<1>7. ASSUME NEW port \in PortNames
      PROVE  Closing(port)' /\ Closed(port)' /\ Asking(port)' /\ Before(m_cmd_q', Commanded, Ends(port))
  <2>1. Closing(port) /\ Closed(port) /\ Asking(port) /\ Before(m_cmd_q, Commanded, Ends(port))
    BY DEF Disables
  <2> QED
    BY <1>1, <1>4, <2>1 DEF Closing, Closed, Asking, Asked, NoState
<1> QED
  BY <1>1, <1>6, <1>7 DEF Disables, OneCommand

(* An entry that is taken and is about no disable.                         *)
LEMMA TakenKeeps ==
  ASSUME Contract, Disables, NEW id, Take(id), FewerDisables, m_state' = m_state,
         owed' \subseteq owed, Bits' \subseteq Bits,
         \A port \in PortNames : Asked("PortDisable", port) => Asked("PortDisable", port)'
  PROVE  Disables'
<1>1. m_cmd_q \in Seq(CmdEntries) /\ m_cmd_q # << >> /\ m_cmd_q' = Tail(m_cmd_q)
      /\ UNCHANGED <<enabled, waiting, allocated>>
  BY TakenFinds DEF Take
<1>2. Followers
  BY <1>1, Taken, EndKinds DEF Followers, Fewer
<1> QED
  BY <1>1, <1>2, DisableAside

(* While the client waits for a state nothing is disabled.                 *)
LEMMA MoveClear ==
  ASSUME Contract, Disables, Has(m_cmd_q, Replies) \/ Bits # {}
  PROVE  Awaits /\ \A port \in PortNames : ~ Has(m_cmd_q, Ends(port)) /\ ~ Disabling(port)
<1>1. Awaits
  <2>1. Has(m_cmd_q, Replies) => Has(m_cmd_q, StateEntries)
    BY DEF Has, Replies, StateEntries
  <2> QED
    BY <2>1 DEF Contract, OneRequest
<1>2. \A port : ~ Asked("PortDisable", port)
  BY <1>1 DEF Awaits, Asked
<1> QED
  BY <1>1, <1>2 DEF Disables, Closing, Closed

(* The end of a move of the component.                                     *)
LEMMA MoveDisables ==
  ASSUME Contract, Disables, NEW id, Take(id), FewerDisables, owed' \subseteq owed,
         Has(m_cmd_q, Replies) \/ Bits # {}, ~ Has(m_cmd_q', Requests)
  PROVE  Disables'
<1>1. m_cmd_q \in Seq(CmdEntries) /\ m_cmd_q # << >> /\ m_cmd_q' = Tail(m_cmd_q)
  BY TakenFinds
<1>2. \A D : Has(m_cmd_q', D) => Has(m_cmd_q, D)
  BY <1>1, Taken
<1>3. ~ Has(m_cmd_q', Commanded)
  BY EndKinds DEF Has
<1>4. OneCommand' /\ released' \subseteq PortNames /\ ~ Has(m_cmd_q', StrayEnds)
  BY <1>2, FewerOwed DEF Disables, FewerDisables
<1> QED
  BY <1>2, <1>3, <1>4, MoveClear, FewerDisabling, NoDisable

(* Flags that stay.                                                        *)
LEMMA FlagsStay == ASSUME UNCHANGED <<m_flags, released>> PROVE FewerDisables /\ Bits' = Bits
  BY DEF FewerDisables, Fid, Bits

(* A state is entered, a command refused, a port enabled.                  *)
LEMMA EventDisables ==
  ASSUME Contract, Disables, ~ m_error_propogated', StateSetEvent \/ ErrorEvents \/ OtherEvents
  PROVE  Disables'
<1> DEFINE e == Head(m_cmd_q)
<1>1. Take("EVENT") /\ UNCHANGED m_flags
  BY DEF StateSetEvent, ErrorEvents, OtherEvents
<1>2. /\ m_cmd_q \in Seq(CmdEntries) /\ m_cmd_q # << >> /\ e \in CmdEntries /\ e.id = "EVENT"
      /\ e \in StateEntries => ~ Has(m_cmd_q', Requests)
      /\ e \notin FlushEvents /\ UNCHANGED released
  BY <1>1, TakenFinds
<1>3. FewerDisables /\ Bits' = Bits
  BY <1>1, <1>2, FlagsStay
<1>4. CASE e \in Replies
  <2>1. e \in StateEntries
    BY <1>4 DEF Replies, StateEntries
  <2>2. owed' \subseteq owed
    BY DEF StateSetEvent, ErrorEvents, OtherEvents, Completed, GiveUp, omx_report_error
  <2> HIDE DEF e
  <2>3. Has(m_cmd_q, Replies)
    BY <1>2, <1>4, TailHas DEF e
  <2> QED
    BY <1>1, <1>2, <1>3, <2>1, <2>2, <2>3, MoveDisables
<1>5. CASE e \notin Replies
  <2>1. e.p1 # "StateSet" /\ (e.p1 = "Error" => e.p2 = "PortUnpopulated") /\ e.p1 # "Flush"
    BY <1>2, <1>5 DEF CmdEntries, Replies, StateEvents, Answers, FlushEvents
  <2>2. /\ m_state' = m_state
        /\ owed' = owed \/ \E p : owed' = owed \ {[cmd |-> "PortEnable", arg |-> p]}
    BY <2>1 DEF StateSetEvent, ErrorEvents, OtherEvents, Completed
  <2>3. owed' \subseteq owed
        /\ \A port \in PortNames : Asked("PortDisable", port) => Asked("PortDisable", port)'
    BY <2>2 DEF Asked
  <2> QED
    BY <1>1, <1>3, <2>2, <2>3, TakenKeeps
<1> QED
  BY <1>4, <1>5

(* What the driver answers, and the end of a move that waited for it.      *)
LEMMA DoneDisables ==
  ASSUME Contract, Disables, ~ m_error_propogated',
         \/ START_DONE \/ PAUSE_DONE \/ RESUME_DONE \/ STOP_DONE
         \/ PORT_RECONFIG \/ HARDWARE_ERROR
  PROVE  Disables'
<1>1. PICK id : Take(id)
  BY DEF START_DONE, PAUSE_DONE, RESUME_DONE, STOP_DONE, StopOrPauseDone, PORT_RECONFIG,
         HARDWARE_ERROR
<1>2. /\ UNCHANGED released /\ Quieter
  BY <1>1, TakenFinds
<1>3. CASE UNCHANGED <<m_state, m_flags, owed>>
  <2>1. \A port \in PortNames : Asked("PortDisable", port) => Asked("PortDisable", port)'
    BY <1>3 DEF Asked
  <2> QED
    BY <1>1, <1>2, <1>3, <2>1, FlagsStay, TakenKeeps
<1>4. CASE ~ UNCHANGED <<m_state, m_flags, owed>>
  <2>1. PICK state \in States, bit \in StateBits : Enter(state, bit)
    BY <1>4 DEF START_DONE, PAUSE_DONE, RESUME_DONE, STOP_DONE, StopOrPauseDone, PORT_RECONFIG,
                HARDWARE_ERROR, ReportStay, Stay, Quiet, omx_report_error, States, StateBits
  <2>2. Bits # {} /\ ~ Has(m_cmd_q, Requests) /\ owed' \subseteq owed
    BY <2>1 DEF Enter, Completed, Bits, Contract, OneRequest
  <2>3. ~ Has(m_cmd_q', Requests)
    BY <1>2, <2>2, QuietHas
  <2>4. FewerDisables
    <3> DEFINE bits == {bit}
    <3>1. bits \cap DisableBits = {} /\ m_flags' = m_flags \ bits
      BY <2>1, DisableBitsDiffer DEF Enter
    <3> HIDE DEF bits
    <3> QED
      BY <1>2, <3>1, OtherBits
  <2> QED
    BY <1>1, <2>2, <2>3, <2>4, MoveDisables
<1> QED
  BY <1>3, <1>4

(* Two ports are not disabled at once.                                     *)
LEMMA OnePort ==
  ASSUME OneCommand, NEW p \in PortNames, NEW r \in PortNames,
         Asked("PortDisable", p), Asked("PortDisable", r)
  PROVE  p = r /\ NoState
<1> DEFINE c == [cmd |-> "PortDisable", arg |-> p]
           d == [cmd |-> "PortDisable", arg |-> r]
<1>1. c \in owed /\ d \in owed /\ c.cmd = "PortDisable" /\ c.arg = p /\ d.arg = r
  BY DEF Asked
<1> HIDE DEF c, d
<1>2. c = d /\ \A x \in owed : x.cmd = "PortDisable"
  BY <1>1 DEF OneCommand
<1> QED
  BY <1>1, <1>2 DEF NoState

(* The end that is taken belongs to a port that is released.               *)
LEMMA EndFinds ==
  ASSUME Contract, Disables, PortDisableEvent
  PROVE  LET port == Head(m_cmd_q).p2 IN
         /\ m_cmd_q \in Seq(CmdEntries) /\ m_cmd_q # << >> /\ m_cmd_q' = Tail(m_cmd_q)
         /\ port \in PortNames /\ Has(m_cmd_q, Ends(port))
         /\ AtMostOne(m_cmd_q, Ends(port)) => ~ Has(m_cmd_q', Ends(port))
         /\ released = {} /\ UNCHANGED <<released, enabled, waiting, allocated, m_state>>
<1> DEFINE e == Head(m_cmd_q)
<1>1. Take("EVENT") /\ e.p1 = "PortDisable" /\ UNCHANGED m_state
  BY DEF PortDisableEvent
<1>2. /\ m_cmd_q \in Seq(CmdEntries) /\ m_cmd_q # << >> /\ m_cmd_q' = Tail(m_cmd_q)
      /\ e \in CmdEntries /\ e.id = "EVENT" /\ released = {} /\ UNCHANGED released
  BY <1>1, TakenFinds
<1>3. e.p2 \in PortNames
  <2>1. e \notin StrayEnds
    BY <1>2, TailHas DEF Disables
  <2> QED
    BY <1>1, <1>2, <2>1 DEF StrayEnds, CmdEntries
<1>4. e \in Ends(e.p2)
  BY <1>1, <1>2 DEF CmdEntries, Ends, PortEvent, Entry
<1> DEFINE port == e.p2
<1>5. port \in PortNames /\ e \in Ends(port)
  BY <1>3, <1>4
<1> HIDE DEF port
<1>6. Has(m_cmd_q, Ends(port)) /\ (AtMostOne(m_cmd_q, Ends(port)) => ~ Has(m_cmd_q', Ends(port)))
  BY <1>2, <1>5, TailHas
<1> QED
  BY <1>1, <1>2, <1>5, <1>6 DEF Take, port

(* What the queue has of commands and disables, it had before.             *)
LEMMA FollowersHave ==
  ASSUME Followers, Disables
  PROVE  /\ Has(m_cmd_q', Commanded) => Has(m_cmd_q, Commanded)
         /\ Has(m_cmd_q', Replies) => Has(m_cmd_q, Replies)
         /\ ~ Has(m_cmd_q', StrayEnds) /\ ~ Has(m_cmd_q', DisableOrder("ALL"))
         /\ \A port \in PortNames :
              /\ Has(m_cmd_q', Ends(port)) => Has(m_cmd_q, Ends(port))
              /\ AtMostOne(m_cmd_q, Ends(port)) => AtMostOne(m_cmd_q', Ends(port))
              /\ Before(m_cmd_q', Commanded, Ends(port))
              /\ Has(m_cmd_q', DisableOrder(port)) => Has(m_cmd_q, DisableOrder(port))
  BY EndKinds DEF Followers, Fewer, Disables

(* The end of a disable is taken: it is deferred while the flush of the    *)
(* port is not over, and told otherwise.                                   *)
LEMMA EndDisables ==
  ASSUME Contract, Disables, ~ m_error_propogated', PortDisableEvent
  PROVE  Disables'
<1> DEFINE port == Head(m_cmd_q).p2
<1>1. /\ m_cmd_q \in Seq(CmdEntries) /\ m_cmd_q # << >> /\ m_cmd_q' = Tail(m_cmd_q)
      /\ port \in PortNames /\ Has(m_cmd_q, Ends(port))
      /\ AtMostOne(m_cmd_q, Ends(port)) => ~ Has(m_cmd_q', Ends(port))
      /\ released = {} /\ UNCHANGED <<released, enabled, waiting, allocated, m_state>>
  BY EndFinds
<1>2. Followers
  BY <1>1, Taken, EndKinds DEF Followers, Fewer
<1>3. \/ Fid /\ m_flags' = m_flags \cup {DisableOutputDeferred} /\ owed' = owed
      \/ ~ Fid /\ m_flags' = m_flags /\ owed' = owed \ {[cmd |-> "PortDisable", arg |-> port]}
  BY DEF PortDisableEvent, Quiet, Completed, omx_report_error, Fid
<1> HIDE DEF port
<1>4. CASE Fid
  <2>1. m_flags' = m_flags \cup {DisableOutputDeferred} /\ owed' = owed
    BY <1>3, <1>4
  <2>2. m_state \in Processes /\ Disabling("OUT") /\ Asked("PortDisable", "OUT")
    BY <1>4 DEF Disables, DeferredEnd, Disabling, Closing, PortNames
  <2>3. Asked("PortDisable", port) /\ AtMostOne(m_cmd_q, Ends(port))
    BY <1>1, <2>2 DEF Disables, Closed, Processes
  <2>4. port = "OUT"
    BY <1>1, <2>2, <2>3, OnePort DEF Disables, PortNames
  <2>5. PortReleased("OUT", allocated) /\ DisablePending("OUT") \notin m_flags
        /\ ~ Has(m_cmd_q', Ends("OUT"))
    BY <1>1, <2>3, <2>4 DEF Disables, Closed
  <2>6. /\ \A p \in PortNames : DisablePending(p) \in m_flags' <=> DisablePending(p) \in m_flags
        /\ Fid' /\ Bits' = Bits
    BY <1>4, <2>1, DisableBitsDiffer, BitsDiffer DEF Fid, Bits
  <2>7. \A p \in PortNames : Disabling(p)' => Disabling(p)
    BY <1>1, <1>4, <2>6 DEF Disabling
  <2>8. DeferredEnd'
    BY <1>1, <2>2, <2>5, <2>6 DEF DeferredEnd, PortNames
  <2>9. OneCommand' /\ NoState' = NoState /\ \A p : Asked("PortDisable", p)' = Asked("PortDisable", p)
    BY <2>1 DEF Disables, OneCommand, NoState, Asked
  <2>10. ASSUME NEW p \in PortNames PROVE Closing(p)' /\ Closed(p)' /\ Asking(p)'
    <3>1. Closing(p) /\ Closed(p) /\ Asking(p)
      BY DEF Disables
    <3>2. Closing(p)'
      BY <1>1, <1>2, <2>7, <2>9, <3>1, FollowersHave DEF Closing
    <3>3. Closed(p)'
      BY <1>1, <1>2, <2>5, <2>6, <2>9, <3>1, FollowersHave DEF Closed
    <3>4. Asking(p)'
      BY <1>1, <1>2, <2>9, <3>1, FollowersHave DEF Asking
    <3> QED
      BY <3>2, <3>3, <3>4
  <2> QED
    BY <1>1, <1>2, <2>8, <2>9, <2>10, FollowersHave DEF Disables
<1>5. CASE ~ Fid
  <2>1. m_flags' = m_flags /\ owed' = owed \ {[cmd |-> "PortDisable", arg |-> port]}
    BY <1>3, <1>5
  <2>2. OneCommand' /\ (NoState => NoState')
    BY <2>1, FewerOwed DEF Disables
  <2>3. \A p \in PortNames : p # port /\ Asked("PortDisable", p) => Asked("PortDisable", p)'
    BY <2>1 DEF Asked
  <2>4. ~ Disabling(port)
    BY <1>1, <1>5 DEF Disables, DeferredEnd, Closed, Disabling
  <2>5. /\ \A p \in PortNames : Disabling(p)' <=> Disabling(p)
        /\ Bits' = Bits /\ Fid' = Fid /\ Deferred' = Deferred
    BY <1>1, <2>1 DEF Disabling, Bits, Fid, Deferred
  <2>6. DeferredEnd'
    BY <1>1, <2>1, <2>5 DEF Disables, DeferredEnd
  <2>7. ASSUME NEW p \in PortNames PROVE Closing(p)' /\ Closed(p)' /\ Asking(p)'
    <3>1. Closing(p) /\ Closed(p) /\ Asking(p) /\ Closed(port)
      BY <1>1 DEF Disables
    <3>2. Closing(p)'
      BY <1>1, <1>2, <2>3, <2>4, <2>5, <3>1, FollowersHave DEF Closing
    <3>3. Closed(p)'
      BY <1>1, <1>2, <2>1, <2>2, <2>3, <2>5, <3>1, FollowersHave DEF Closed
    <3>4. Asking(p)'
      <4>1. Has(m_cmd_q, DisableOrder(p)) => Has(m_cmd_q, Commanded)
        BY EndKinds DEF Has
      <4> QED
        BY <1>1, <1>2, <2>2, <2>3, <3>1, <4>1, FollowersHave DEF Asking, Closed
    <3> QED
      BY <3>2, <3>3, <3>4
  <2> QED
    BY <1>1, <1>2, <2>2, <2>6, <2>7, FollowersHave DEF Disables
<1> QED
  BY <1>4, <1>5

(* The end of a disable is posted: the port was the one that was disabled, *)
(* and is released.                                                        *)
LEMMA EndPosted ==
  ASSUME Contract, Disables, NEW port \in PortNames, Disabling(port), ~ Has(m_cmd_q, Ends(port)),
         PortReleased(port, allocated'), DisablePending(port) \notin m_flags',
         port = "OUT" => ~ Deferred', UNCHANGED <<m_state, enabled, waiting>>, FewerDisables,
         Bits' \subseteq Bits, owed' \subseteq owed,
         Asked("PortDisable", port) => Asked("PortDisable", port)',
         \A p \in PortNames : PortReleased(p, allocated) => PortReleased(p, allocated'),
         NEW q \in Seq(CmdEntries), Fewer(m_cmd_q, q, Followed),
         m_cmd_q' = Append(q, PortEvent("PortDisable", port))
  PROVE  Disables'
<1> DEFINE e == PortEvent("PortDisable", port)
<1>1. /\ m_cmd_q' = Append(q, e) /\ e \in CmdEntries /\ e \in Ends(port)
      /\ e \notin Commanded /\ e \notin Replies /\ e \notin StrayEnds
      /\ \A p \in PortNames : e \in Ends(p) => p = port
  <2>1. e \in Ends(port) /\ \A p \in PortNames : e \in Ends(p) => p = port
    BY DEF Ends, PortEvent, Entry
  <2>2. Commanded \subseteq Told /\ Replies \subseteq Told
    BY EndKinds
  <2> HIDE DEF e
  <2> QED
    BY <2>1, <2>2, EndKinds DEF e
<1> HIDE DEF e
<1>2. \A D : Has(m_cmd_q', D) <=> Has(q, D) \/ e \in D
  BY <1>1, AppendHas
<1>3. Asked("PortDisable", port) /\ ~ Has(m_cmd_q, Commanded) /\ port \notin enabled
  BY DEF Disables, Closing
<1>4. NoState /\ OneCommand' /\ NoState'
  BY <1>3, OnePort, FewerOwed DEF Disables
<1>5. Bits = {} /\ ~ Has(m_cmd_q, Replies)
  BY MoveClear
<1>6. /\ ~ Has(m_cmd_q', Commanded) /\ ~ Has(m_cmd_q', Replies) /\ ~ Has(m_cmd_q', StrayEnds)
      /\ \A p \in PortNames : p # port /\ Has(m_cmd_q', Ends(p)) => Has(m_cmd_q, Ends(p))
      /\ \A p \in PortNames : p # port /\ AtMostOne(m_cmd_q, Ends(p)) => AtMostOne(m_cmd_q', Ends(p))
      /\ AtMostOne(m_cmd_q', Ends(port))
  <2>1. /\ Has(q, Commanded) => Has(m_cmd_q, Commanded)
        /\ Has(q, Replies) => Has(m_cmd_q, Replies)
        /\ ~ Has(q, StrayEnds)
        /\ \A p \in PortNames : /\ Has(q, Ends(p)) => Has(m_cmd_q, Ends(p))
                                /\ AtMostOne(m_cmd_q, Ends(p)) => AtMostOne(q, Ends(p))
    BY EndKinds DEF Fewer, Disables
  <2>2. ASSUME NEW p \in PortNames, p # port, AtMostOne(m_cmd_q, Ends(p))
        PROVE  AtMostOne(m_cmd_q', Ends(p))
    <3>1. AtMostOne(q, Ends(p)) /\ e \notin Ends(p)
      BY <1>1, <2>1, <2>2
    <3> QED
      BY <1>1, <3>1, AppendHas
  <2>3. AtMostOne(m_cmd_q', Ends(port))
    <3>1. ~ Has(q, Ends(port)) /\ AtMostOne(q, Ends(port))
      BY <2>1 DEF Has, AtMostOne
    <3> QED
      BY <1>1, <3>1, AppendHas
  <2> QED
    BY <1>1, <1>2, <1>3, <1>5, <2>1, <2>2, <2>3
<1>7. \A arg \in PortNames \cup {"ALL"} : ~ Has(m_cmd_q', DisableOrder(arg))
  BY <1>6, EndKinds DEF Has
<1>8. \A p \in PortNames : Before(m_cmd_q', Commanded, Ends(p))
  BY <1>6 DEF Has, Before
<1>9. DeferredEnd'
  BY FewerDisabling DEF DeferredEnd, Disables, PortNames
<1>10. ASSUME NEW p \in PortNames PROVE Closing(p)' /\ Closed(p)'
  <2>1. Closing(p)'
    <3>1. Disabling(p) => p = port
      BY <1>3, OnePort DEF Disables, Closing
    <3> QED
      BY <1>3, <1>6, <3>1, FewerDisabling DEF Closing
  <2>2. Closed(port)'
    <3>1. Bits' = {} /\ Asked("PortDisable", port)' /\ port \notin enabled'
      BY <1>3, <1>5
    <3> QED
      BY <1>4, <1>6, <3>1 DEF Closed
  <2>3. ASSUME p # port PROVE Closed(p)'
    <3>1. ~ Asked("PortDisable", p)
      BY <1>3, <2>3, OnePort DEF Disables
    <3>2. Has(m_cmd_q', Ends(p)) => Has(m_cmd_q, Ends(p))
      BY <1>6, <2>3
    <3>3. Has(m_cmd_q, Ends(p)) =>
            /\ PortReleased(p, allocated') /\ p \notin enabled'
            /\ DisablePending(p) \notin m_flags' /\ (p = "OUT" => ~ Deferred')
            /\ m_state' \in {"Loaded", "Idle"}
      BY <3>1, FewerDisabling DEF Disables, Closed
    <3>4. Bits' = {}
      BY <1>5
    <3> QED
      BY <1>4, <1>6, <3>2, <3>3, <3>4 DEF Closed
  <2> QED
    BY <2>1, <2>2, <2>3
<1> QED
  BY <1>4, <1>6, <1>7, <1>8, <1>9, <1>10 DEF Disables, Asking, FewerDisables

(* Entries that say nothing of what an end of a disable follows.           *)
Unfollowed == CmdEntries \ Followed
(* The errors of free_buffer, port enables and all answers of the driver.  *)
LEMMA UnfollowedHas ==
  /\ ErrorEvent("PortUnpopulated") \in Unfollowed
  /\ \A p \in Parameters : PortEvent("PortEnable", p) \in Unfollowed
  /\ \A id \in {"START_DONE", "PAUSE_DONE", "RESUME_DONE", "STOP_DONE", "INPUT_FLUSH",
                "OUTPUT_FLUSH", "PORT_RECONFIG", "HARDWARE_ERROR"} :
       \A p, q \in Parameters : Entry(id, p, q) \in Unfollowed
<1>1. /\ "PortEnable" \in Parameters /\ "Error" \in Parameters /\ "PortUnpopulated" \in Parameters
  BY DEF Parameters
<1>2. \A id, p, q : /\ Entry(id, p, q) \in CmdEntries <=>
                         id \in {"COMMAND", "EVENT", "START_DONE", "PAUSE_DONE", "RESUME_DONE",
                                 "STOP_DONE", "INPUT_FLUSH", "OUTPUT_FLUSH", "PORT_RECONFIG",
                                 "HARDWARE_ERROR"}
                           /\ p \in Parameters /\ q \in Parameters
                    /\ Entry(id, p, q).id = id /\ Entry(id, p, q).p1 = p /\ Entry(id, p, q).p2 = q
  BY DEF Entry, CmdEntries
<1>3. \A e \in Followed :
        \/ e.id = "COMMAND"
        \/ e.id = "EVENT" /\ e.p1 \in {"StateSet", "PortDisable"}
        \/ e.id = "EVENT" /\ e.p1 = "Error" /\ e.p2 # "PortUnpopulated"
  BY DEF Followed, Requests, Commanded, StateEvents, Answers, Ends, StrayEnds, PortEvent, Entry
<1>4. ErrorEvent("PortUnpopulated") \in Unfollowed
  BY <1>1, <1>2, <1>3 DEF ErrorEvent, Unfollowed
<1>5. ASSUME NEW p \in Parameters PROVE PortEvent("PortEnable", p) \in Unfollowed
  BY <1>1, <1>2, <1>3 DEF PortEvent, Unfollowed
<1>6. ASSUME NEW id \in {"START_DONE", "PAUSE_DONE", "RESUME_DONE", "STOP_DONE", "INPUT_FLUSH",
                         "OUTPUT_FLUSH", "PORT_RECONFIG", "HARDWARE_ERROR"},
             NEW p \in Parameters, NEW q \in Parameters
      PROVE  Entry(id, p, q) \in Unfollowed
  BY <1>2, <1>3, <1>6 DEF Unfollowed
<1> QED
  BY <1>4, <1>5, <1>6

(* Behind the queue they leave its commands and ends as they are.          *)
LEMMA UnfollowedAdded ==
  ASSUME NEW q \in Seq(CmdEntries), NEW r \in Seq(Unfollowed)
  PROVE  q \o r \in Seq(CmdEntries) /\ Fewer(q, q \o r, Followed)
<1>1. r \in Seq(CmdEntries) /\ ~ Has(r, Followed)
  <2>1. r \in Seq(CmdEntries)
    BY SeqMonotonic DEF Unfollowed
  <2>2. \A i \in DOMAIN r : r[i] \in Unfollowed
    OBVIOUS
  <2> QED
    BY <2>1, <2>2 DEF Has, Unfollowed
<1> QED
  BY <1>1, FewerConcat, ConcatProperties

(* Steps that leave the commands and the events alone.                     *)
LEMMA QueueStays == ASSUME Contract, UNCHANGED m_cmd_q PROVE Followers
  BY DEF Contract, CallsTyped, Followers, Fewer

(* The message thread at the buffer queues, a submission, a buffer of the  *)
(* driver, its messages.                                                   *)
LEMMA BuffersDisables ==
  ASSUME Contract, Disables, ~ m_error_propogated',
         \/ fill_this_buffer_proxy \/ fill_buffer_done
         \/ empty_this_buffer_proxy \/ empty_buffer_done
         \/ \E b \in Buffers : empty_this_buffer(b) \/ fill_this_buffer(b) \/ BufferDone(b)
  PROVE  Disables'
<1>1. /\ UNCHANGED <<m_state, m_flags, m_cmd_q, enabled, allocated, released, waiting>>
  BY DEF fill_this_buffer_proxy, fill_buffer_done, empty_this_buffer_proxy, empty_buffer_done,
         empty_this_buffer, fill_this_buffer, BufferDone, component, client,
         TakeFtb, TakeEtb, ports
<1>2. UNCHANGED owed
  BY DEF fill_this_buffer_proxy, fill_buffer_done, empty_this_buffer_proxy, empty_buffer_done,
         empty_this_buffer, fill_this_buffer, BufferDone, component, client,
         Quiet, Refuse, omx_report_error, driver
<1>3. Followers /\ FewerDisables /\ Bits' = Bits
  BY <1>1, QueueStays, FlagsStay
<1> QED
  BY <1>1, <1>2, <1>3, DisableAside DEF Asked

(* The driver reports: to the queue an unfollowed entry is added.          *)
LEMMA MessageDisables ==
  ASSUME Contract, Disables, Driver \/ ConfigChanged \/ HwError,
         ~ \E b \in Buffers : BufferDone(b)
  PROVE  Disables'
<1>1. \A status \in Status(Bad) : status \in Parameters
  BY DEF Status, Bad, Parameters, Statuses
<1>2. /\ "-" \in Parameters /\ "OUT" \in Parameters /\ "PortDefinition" \in Parameters
  BY DEF Parameters, Statuses, PortNames
<1>3. \E e \in Unfollowed : m_cmd_q' = Append(m_cmd_q, e)
  <2>1. CASE ConfigChanged
    <3> DEFINE e == Entry("PORT_RECONFIG", "OUT", "PortDefinition")
    <3>1. m_cmd_q' = Append(m_cmd_q, e) /\ e \in Unfollowed
      BY <1>2, <2>1, UnfollowedHas DEF ConfigChanged
    <3> HIDE DEF e
    <3> QED
      BY <3>1
  <2>2. CASE ~ ConfigChanged
    <3>1. PICK id \in {"START_DONE", "PAUSE_DONE", "RESUME_DONE", "STOP_DONE", "INPUT_FLUSH",
                       "OUTPUT_FLUSH", "HARDWARE_ERROR"} : Message(id)
      BY <2>2 DEF Driver, Acknowledge, AcknowledgeFlush, HwError, PortNames
    <3>2. PICK status \in Status(Bad) : m_cmd_q' = Append(m_cmd_q, Entry(id, "-", status))
      BY <3>1 DEF Message
    <3> DEFINE e == Entry(id, "-", status)
    <3>3. m_cmd_q' = Append(m_cmd_q, e) /\ e \in Unfollowed
      BY <1>1, <1>2, <3>2, UnfollowedHas
    <3> HIDE DEF e
    <3> QED
      BY <3>3
  <2> QED
    BY <2>1, <2>2
<1>4. UNCHANGED <<m_state, m_flags, owed, enabled, waiting, released, allocated>>
  BY DEF Driver, Acknowledge, AcknowledgeFlush, ConfigChanged, HwError, Message, ports, client
<1>5. Followers
  <2>1. PICK e \in Unfollowed : m_cmd_q' = Append(m_cmd_q, e)
    BY <1>3
  <2>2. m_cmd_q' = m_cmd_q \o <<e>> /\ <<e>> \in Seq(Unfollowed) /\ m_cmd_q \in Seq(CmdEntries)
    BY <2>1 DEF Unfollowed, Contract, CallsTyped
  <2> QED
    BY <2>2, UnfollowedAdded DEF Followers
<1>6. FewerDisables /\ Bits' = Bits
  BY <1>4, FlagsStay
<1> QED
  BY <1>4, <1>5, <1>6, DisableAside DEF Asked

(* The answer to a flush: it may end the flush of a disable, and then the  *)
(* end that waited for it is posted.                                       *)
LEMMA FlushDoneDisables ==
  ASSUME Contract, Disables, ~ m_error_propogated', NEW port \in PortNames, FlushDone(port)
  PROVE  Disables'
<1> DEFINE e == PortEvent("PortDisable", "OUT")
           t == Tail(m_cmd_q)
           posted == port = "OUT" /\ Fid /\ Deferred /\ port \in flushing /\ ~ Failed
<1>1. /\ m_cmd_q \in Seq(CmdEntries) /\ m_cmd_q # << >>
      /\ m_cmd_q' = t \o (IF posted THEN <<e>> ELSE << >>)
      /\ released = {} /\ UNCHANGED <<m_state, enabled, allocated, released, waiting>>
  BY DEF FlushDone, Contract, CallsTyped, Fid, Deferred
<1>2. t \in Seq(CmdEntries) /\ Fewer(m_cmd_q, t, Followed)
  BY <1>1, FewerTail
<1> DEFINE gone == IF port \notin flushing THEN {}
                   ELSE {FlushPending(port)}
                          \cup (IF port = "OUT" /\ Fid THEN {FlushInDisablePending} ELSE {})
                          \cup (IF posted THEN {DisableOutputDeferred} ELSE {})
<1>3. /\ m_flags' = m_flags \ gone
      /\ owed' = owed \/ owed' = owed \ {[cmd |-> "Flush", arg |-> port]}
      /\ port \in flushing => ~ Failed
  BY DEF FlushDone, Quiet, omx_report_error, Fid, Deferred
<1>4. owed' \subseteq owed
      /\ \A p \in PortNames : Asked("PortDisable", p) => Asked("PortDisable", p)'
  BY <1>3 DEF Asked
<1>5. Bits' \subseteq Bits
  BY <1>3 DEF Bits
<1>6. FewerDisables
  <2>1. DisableOutputDeferred \in gone => posted
    BY DisableBitsDiffer DEF DisableBits
  <2>2. FlushInDisablePending \in gone => port = "OUT" /\ Fid /\ port \in flushing
    BY DisableBitsDiffer DEF DisableBits
  <2>3. posted => DisableOutputDeferred \in gone
    OBVIOUS
  <2> HIDE DEF gone
  <2>4. Fid /\ ~ Fid' => ~ Deferred'
    BY <1>3, <2>2, <2>3 DEF Fid, Deferred
  <2> QED
    BY <1>1, <1>3, <2>4 DEF FewerDisables, Fid, Deferred
<1>7. CASE ~ posted
  <2>1. m_cmd_q' = t
    BY <1>1, <1>2, <1>7
  <2> QED
    BY <1>1, <1>2, <1>4, <1>5, <1>6, <2>1, DisableAside DEF Followers
<1>8. CASE posted
  <2>1. m_cmd_q' = Append(t, e)
    BY <1>1, <1>2, <1>8
  <2>2. ~ Deferred'
    BY <1>3, <1>8 DEF Deferred
  <2>3. /\ Disabling("OUT") /\ ~ Has(m_cmd_q, Ends("OUT")) /\ PortReleased("OUT", allocated')
        /\ DisablePending("OUT") \notin m_flags'
    BY <1>1, <1>3, <1>8 DEF Disables, DeferredEnd, Closed, Disabling, PortNames
  <2>4. "OUT" \in PortNames
    BY DEF PortNames
  <2> HIDE DEF t
  <2> QED
    BY <1>1, <1>2, <1>4, <1>5, <1>6, <2>1, <2>2, <2>3, <2>4, EndPosted
<1> QED
  BY <1>7, <1>8

(* The last buffer of a port allocated.                                    *)
LEMMA AllocateDisables ==
  ASSUME Contract, Disables, NEW b \in Buffers, AllocateBuffer(b)
  PROVE  Disables'
<1> DEFINE port == PortOf(b)
           alloc == allocated \cup {b}
           idle == allocate_done(alloc) /\ IdlePending \in m_flags
           enable == port \in NowPopulated(alloc, enabled) /\ EnablePending(port) \in m_flags
           gone == (IF idle THEN {IdlePending} ELSE {})
                     \cup (IF enable THEN {EnablePending(port)} ELSE {})
           q1 == IF idle THEN <<Entry("EVENT", "StateSet", "Idle")>> ELSE << >>
           r == IF enable THEN <<PortEvent("PortEnable", port)>> ELSE << >>
<1>1. /\ ~ waiting /\ allocated' = alloc /\ m_flags' = m_flags \ gone
      /\ m_cmd_q' = (m_cmd_q \o q1) \o r
      /\ port \in enabled \/ Asked("StateSet", "Idle")
      /\ UNCHANGED <<m_state, enabled, owed, waiting, released>>
  BY DEF AllocateBuffer, Ready, component
<1>2. port \in PortNames /\ port \in Parameters /\ m_cmd_q \in Seq(CmdEntries)
      /\ \A p \in PortNames : p # port => b \notin PortBuffers(p)
  BY VdecAssumption DEF PortOf, PortNames, PortBuffers, Parameters, Contract, CallsTyped, Buffers
<1>3. FewerDisables /\ Bits' \subseteq Bits
  <2>1. gone \cap DisableBits = {}
    BY DisableBitsDiffer DEF StateBits
  <2> HIDE DEF gone
  <2> QED
    BY <1>1, <2>1, OtherBits DEF Bits
<1>4. CASE idle
  <2>1. Bits # {} /\ ~ Has(m_cmd_q, Requests)
    BY <1>4 DEF Bits, StateBits, Contract, OneRequest
  <2>2. m_cmd_q' = m_cmd_q \o (q1 \o r) /\ q1 \o r \in Seq(Quietly)
    <3>1. q1 \in Seq(Quietly) /\ r \in Seq(Quietly)
      BY <1>2, QuietlyHas, Few DEF States
    <3> HIDE DEF q1, r
    <3>2. q1 \in Seq(CmdEntries) /\ r \in Seq(CmdEntries)
      BY <3>1, SeqMonotonic DEF Quietly
    <3> QED
      BY <1>1, <1>2, <3>1, <3>2, Few, ConcatAssociative
  <2> HIDE DEF q1, r
  <2>3. /\ Has(m_cmd_q', Commanded) => Has(m_cmd_q, Commanded)
        /\ Has(m_cmd_q', StrayEnds) => Has(m_cmd_q, StrayEnds)
        /\ \A p \in PortNames : Has(m_cmd_q', Ends(p)) => Has(m_cmd_q, Ends(p))
    BY <1>2, <2>2, QuietlyPosted
  <2>4. ~ Has(m_cmd_q, Commanded)
    BY <2>1, EndKinds DEF Has
  <2>5. OneCommand' /\ released' \subseteq PortNames /\ ~ Has(m_cmd_q', StrayEnds)
    BY <1>1, <2>3 DEF Disables, OneCommand
  <2> QED
    BY <1>3, <2>1, <2>3, <2>4, <2>5, MoveClear, FewerDisabling, NoDisable
<1>5. CASE ~ idle
  <2>1. Followers
    <3>1. r \in Seq(Unfollowed)
      BY <1>2, UnfollowedHas, Few
    <3> HIDE DEF r, alloc, port
    <3>2. m_cmd_q' = m_cmd_q \o r
      <4>1. m_cmd_q \o << >> = m_cmd_q
        BY <1>2
      <4> QED
        BY <1>1, <1>5, <4>1
    <3> QED
      BY <1>2, <3>1, <3>2, UnfollowedAdded DEF Followers
  <2>2. ASSUME NEW p \in PortNames, PortReleased(p, allocated)
        PROVE  \/ PortReleased(p, allocated')
               \/ ~ Has(m_cmd_q, Ends(p)) /\ ~ Has(m_cmd_q, Commanded) /\ ~ (p = "OUT" /\ Deferred)
    <3>1. CASE p # port
      BY <1>1, <1>2, <2>2, <3>1 DEF PortReleased
    <3>2. CASE p = port
      <4>1. ~ Has(m_cmd_q, Commanded)
        BY <1>1 DEF Contract, OneRequest
      <4>2. ~ Has(m_cmd_q, Ends(p))
        <5>1. Asked("StateSet", "Idle") => ~ NoState
          BY DEF Asked, NoState
        <5> QED
          BY <1>1, <3>2, <5>1 DEF Disables, Closed
      <4>3. ~ (p = "OUT" /\ Deferred)
        <5>1. SUFFICES ASSUME p = "OUT", Deferred PROVE FALSE
          OBVIOUS
        <5>2. Asked("PortDisable", "OUT") /\ "OUT" \notin enabled
          BY <5>1 DEF Disables, Closing, Disabling, PortNames
        <5>3. NoState
          BY <5>2, OnePort DEF Disables, PortNames
        <5> QED
          BY <1>1, <3>2, <5>1, <5>2, <5>3 DEF Asked, NoState
      <4> QED
        BY <4>1, <4>2, <4>3
    <3> QED
      BY <3>1, <3>2
  <2> QED
    BY <1>1, <1>3, <2>1, <2>2, DisableAside DEF Asked
<1> QED
  BY <1>4, <1>5

(* The last buffer of a port freed may end its disable.                    *)
LEMMA FreeDisables ==
  ASSUME Contract, Disables, NEW b \in Buffers, FreeBuffer(b)
  PROVE  Disables'
<1> DEFINE port == PortOf(b)
           alloc == allocated \ {b}
           legal == (m_state = "Idle" /\ LoadingPending \in m_flags) \/ port \notin enabled
           running == ~ legal /\ m_state \in {"Executing", "Pause"}
           disable == DisablePending(port) \in m_flags /\ PortReleased(port, alloc)
           loaded == LoadingPending \in m_flags /\ release_done(alloc)
           gone == (IF disable THEN {DisablePending(port)} ELSE {})
                     \cup (IF loaded THEN {LoadingPending} ELSE {})
           e == PortEvent("PortDisable", port)
           q1 == IF legal \/ m_state = "Invalid" THEN << >> ELSE <<ErrorEvent("PortUnpopulated")>>
           q2 == IF disable THEN <<e>> ELSE << >>
           q3 == IF loaded THEN <<Entry("EVENT", "StateSet", "Loaded")>> ELSE << >>
<1>1. /\ UNCHANGED <<m_state, enabled, owed, waiting, released>>
      /\ \/ m_cmd_q' = m_cmd_q \o q1 /\ UNCHANGED <<m_flags, allocated>>
         \/ /\ allocated' = alloc /\ m_flags' = m_flags \ gone
            /\ m_cmd_q' = ((m_cmd_q \o q1) \o q2) \o q3
  <2>1. \/ m_cmd_q' = m_cmd_q \o q1 /\ UNCHANGED <<m_flags, ports, held>>
        \/ /\ ~ running /\ allocated' = alloc /\ held' = held \ {b}
           /\ m_flags' = m_flags \ gone
           /\ m_cmd_q' = ((m_cmd_q \o q1) \o q2) \o q3
           /\ UNCHANGED <<enabled, made_for>>
    BY DEF FreeBuffer
  <2>2. UNCHANGED <<m_state, owed, waiting, released>>
    BY DEF FreeBuffer, component
  <2> HIDE DEF q1, q2, q3, legal, running, disable, loaded, alloc, port, gone
  <2> QED
    BY <2>1, <2>2 DEF ports
<1>2. port \in PortNames /\ port \in Parameters /\ m_cmd_q \in Seq(CmdEntries)
  BY DEF PortOf, PortNames, Parameters, Contract, CallsTyped
<1>3. /\ m_cmd_q \o q1 \in Seq(CmdEntries) /\ Fewer(m_cmd_q, m_cmd_q \o q1, Followed)
      /\ q1 \in Seq(Unfollowed) /\ q1 \in Seq(Quietly)
  <2>1. q1 \in Seq(Unfollowed) /\ q1 \in Seq(Quietly)
    BY UnfollowedHas, QuietlyHas, Few
  <2> HIDE DEF q1
  <2> QED
    BY <1>2, <2>1, UnfollowedAdded
<1>4. CASE m_cmd_q' = m_cmd_q \o q1 /\ UNCHANGED <<m_flags, allocated>>
  <2> HIDE DEF q1
  <2>1. Followers /\ FewerDisables /\ Bits' = Bits
    BY <1>1, <1>3, <1>4, FlagsStay DEF Followers
  <2> QED
    BY <1>1, <1>4, <2>1, DisableAside DEF Asked
<1> DEFINE freed == /\ allocated' = alloc /\ m_flags' = m_flags \ gone
                    /\ m_cmd_q' = ((m_cmd_q \o q1) \o q2) \o q3
<1>5. ASSUME freed
      PROVE  /\ Bits' \subseteq Bits
             /\ \A p : PortReleased(p, allocated) => PortReleased(p, allocated')
  <2> HIDE DEF gone
  <2> QED
    BY <1>5 DEF Bits, PortReleased
<1>6. ASSUME freed PROVE FewerDisables
  <2>1. FlushInDisablePending \notin gone
    BY DisableBitsDiffer, BitsDiffer DEF StateBits
  <2> HIDE DEF gone
  <2> QED
    BY <1>1, <1>6, <2>1 DEF FewerDisables, Fid
<1>7. CASE freed /\ loaded
  <2>1. Bits # {} /\ ~ Has(m_cmd_q, Requests)
    BY <1>7 DEF Bits, StateBits, Contract, OneRequest
  <2>2. ~ disable
    BY <1>2, <2>1, MoveClear DEF Disabling
  <2>3. m_cmd_q' = (m_cmd_q \o q1) \o q3 /\ q3 \in Seq(Quietly)
    <3>1. q3 \in Seq(Quietly)
      BY QuietlyHas, Few DEF States
    <3>2. m_cmd_q' = ((m_cmd_q \o q1) \o << >>) \o q3
      BY <1>7, <2>2
    <3> HIDE DEF q1, q3
    <3> QED
      BY <1>3, <3>1, <3>2
  <2> HIDE DEF q1, q3
  <2>4. /\ Has(m_cmd_q', Commanded) => Has(m_cmd_q, Commanded)
        /\ Has(m_cmd_q', StrayEnds) => Has(m_cmd_q, StrayEnds)
        /\ \A p \in PortNames : Has(m_cmd_q', Ends(p)) => Has(m_cmd_q, Ends(p))
    BY <1>2, <1>3, <2>3, QuietlyPosted
  <2>5. ~ Has(m_cmd_q, Commanded)
    BY <2>1, EndKinds DEF Has
  <2>6. OneCommand' /\ released' \subseteq PortNames /\ ~ Has(m_cmd_q', StrayEnds)
    BY <1>1, <2>4 DEF Disables, OneCommand
  <2> QED
    BY <1>6, <1>7, <2>1, <2>4, <2>5, <2>6, MoveClear, FewerDisabling, NoDisable
<1>8. CASE freed /\ ~ loaded /\ ~ disable
  <2>1. m_cmd_q' = m_cmd_q \o q1
    <3>1. m_cmd_q' = ((m_cmd_q \o q1) \o << >>) \o << >>
      BY <1>8
    <3> HIDE DEF q1
    <3> QED
      BY <1>3, <3>1
  <2> HIDE DEF q1
  <2> QED
    BY <1>1, <1>3, <1>5, <1>6, <1>8, <2>1, DisableAside DEF Followers, Asked
<1>9. CASE freed /\ ~ loaded /\ disable
  <2> DEFINE q == m_cmd_q \o q1
  <2>1. m_cmd_q' = Append(q, e) /\ q \in Seq(CmdEntries) /\ Fewer(m_cmd_q, q, Followed)
    <3>1. m_cmd_q' = ((m_cmd_q \o q1) \o <<e>>) \o << >> /\ e \in CmdEntries
      BY <1>2, <1>9, EndKinds DEF Ends
    <3> HIDE DEF q1, e
    <3> QED
      BY <1>3, <3>1
  <2>2. Disabling(port) /\ ~ Has(m_cmd_q, Ends(port)) /\ PortReleased(port, allocated')
    BY <1>2, <1>9 DEF Disabling, Disables, Closed
  <2>3. DisablePending(port) \notin m_flags'
    BY <1>9
  <2>4. port = "OUT" => ~ Deferred'
    BY <1>6, <1>9, FewerDisabling DEF Disables, DeferredEnd
  <2> HIDE DEF q, port
  <2> QED
    BY <1>1, <1>2, <1>5, <1>6, <1>9, <2>1, <2>2, <2>3, <2>4, EndPosted DEF Asked
<1> QED
  BY <1>1, <1>4, <1>7, <1>8, <1>9

(* A command is sent when nothing else is asked for.                       *)
LEMMA SendDisables ==
  ASSUME Contract, Disables, NEW c \in AllCommands,
         c # [cmd |-> "PortDisable", arg |-> "ALL"], send_command(c)
  PROVE  Disables'
<1> DEFINE e == Entry("COMMAND", c.cmd, c.arg)
<1>1. /\ ~ waiting /\ waiting' = TRUE /\ owed = {}
      /\ owed' = Completions(c) /\ m_cmd_q' = Append(m_cmd_q, e)
      /\ UNCHANGED <<m_state, m_flags, released, enabled, allocated>>
  BY DEF send_command, Ready, component, ports
<1>2. m_cmd_q \in Seq(CmdEntries) /\ c.cmd \in Parameters /\ c.arg \in Parameters
      /\ c = [cmd |-> c.cmd, arg |-> c.arg]
  BY DEF Contract, CallsTyped, AllCommands, Parameters, States
<1>3. /\ e \in CmdEntries /\ e \notin Replies /\ e \notin StrayEnds
      /\ \A port \in PortNames : e \notin Ends(port)
      /\ \A arg : e \in DisableOrder(arg) => c.cmd = "PortDisable" /\ c.arg = arg
  <2>1. e.id = "COMMAND" /\ e.p1 = c.cmd /\ e.p2 = c.arg
    BY DEF Entry
  <2>2. e \in CmdEntries
    BY <1>2 DEF Entry, CmdEntries
  <2>3. \A arg : e \in DisableOrder(arg) => c.cmd = "PortDisable" /\ c.arg = arg
    BY DEF DisableOrder, Entry
  <2>4. \A port : PortEvent("PortDisable", port).id = "EVENT"
    BY DEF PortEvent, Entry
  <2> HIDE DEF e
  <2> QED
    BY <2>1, <2>2, <2>3, <2>4 DEF Replies, StateEvents, Answers, StrayEnds, Ends
<1> HIDE DEF e
<1>4. /\ \A D : Has(m_cmd_q', D) <=> Has(m_cmd_q, D) \/ e \in D
      /\ \A port \in PortNames :
           Before(m_cmd_q, Commanded, Ends(port)) => Before(m_cmd_q', Commanded, Ends(port))
  BY <1>1, <1>2, <1>3, AppendHas
<1>5. ~ Has(m_cmd_q, Commanded) /\ Bits = {} /\ ~ Has(m_cmd_q, Replies)
  <2>1. ~ Awaits
    BY <1>1 DEF Awaits
  <2>2. ~ Has(m_cmd_q, Commanded)
    BY <1>1 DEF Contract, OneRequest
  <2> QED
    BY <2>1, <2>2, MoveClear
<1>6. \A arg \in PortNames \cup {"ALL"} : ~ Has(m_cmd_q, DisableOrder(arg))
  BY <1>5, EndKinds DEF Has
<1>7. OneCommand' /\ (c.cmd = "PortDisable" => NoState' /\ c.arg \in PortNames /\ Asked("PortDisable", c.arg)')
  <2>1. CASE c.cmd = "StateSet"
    BY <1>1, <2>1 DEF Completions, OneCommand
  <2>2. CASE c.cmd # "StateSet"
    <3>1. owed' = {[cmd |-> c.cmd, arg |-> port] : port \in Ports(c.arg)}
      BY <1>1, <2>2 DEF Completions
    <3>2. c.cmd = "PortDisable" => c.arg \in PortNames /\ Ports(c.arg) = {c.arg}
      BY <1>2 DEF AllCommands, PortNames, Ports
    <3>3. \A x \in owed' : x.cmd = c.cmd
      BY <3>1
    <3>4. c.cmd = "PortDisable" => owed' = {[cmd |-> c.cmd, arg |-> c.arg]}
      BY <3>1, <3>2
    <3> QED
      BY <3>2, <3>3, <3>4 DEF OneCommand, NoState, Asked
  <2> QED
    BY <2>1, <2>2
<1>8. \A port \in PortNames : ~ Disabling(port) /\ ~ Disabling(port)'
  BY <1>1 DEF Disables, Closing, Asked, Disabling, Fid, Deferred
<1>9. ~ Fid' /\ ~ Deferred'
  BY <1>8 DEF Disabling, PortNames
<1>10. ASSUME NEW port \in PortNames PROVE Closed(port)' /\ Asking(port)'
  <2>1. Has(m_cmd_q', Ends(port)) => Has(m_cmd_q, Ends(port))
    BY <1>3, <1>4
  <2>2. Has(m_cmd_q, Ends(port)) =>
          /\ PortReleased(port, allocated) /\ port \notin enabled
          /\ DisablePending(port) \notin m_flags /\ m_state \in {"Loaded", "Idle"}
    BY <1>1 DEF Disables, Closed, Asked
  <2>3. ~ Has(m_cmd_q', Replies) /\ Bits' = {}
    BY <1>1, <1>3, <1>4, <1>5 DEF Bits
  <2>4. Closed(port)'
    BY <1>1, <1>9, <2>1, <2>2, <2>3 DEF Closed
  <2>5. Has(m_cmd_q', DisableOrder(port)) => c.cmd = "PortDisable" /\ c.arg = port
    BY <1>3, <1>4, <1>6
  <2>6. Asking(port)'
    BY <1>7, <2>5 DEF Asking
  <2> QED
    BY <2>4, <2>6
<1>11. ~ Has(m_cmd_q', DisableOrder("ALL")) /\ ~ Has(m_cmd_q', StrayEnds)
  <2>1. c.cmd = "PortDisable" => c.arg # "ALL"
    BY <1>2
  <2> QED
    BY <1>3, <1>4, <1>6, <2>1 DEF Disables
<1> QED
  BY <1>1, <1>4, <1>7, <1>8, <1>9, <1>10, <1>11 DEF Disables, DeferredEnd, Closing

(* Every command that is taken.                                            *)
LEMMA CommandDisables ==
  ASSUME Contract, Disables, ~ m_error_propogated', send_command_proxy
  PROVE  Disables'
<1>1. CASE \E c \in AllCommands : InvalidCommand(c.cmd, c.arg)
  <2>1. PICK c \in AllCommands : InvalidCommand(c.cmd, c.arg)
    BY <1>1
  <2>2. c.cmd \in Parameters /\ c.arg \in Parameters
    BY DEF AllCommands, Parameters, States
  <2> QED
    BY <2>1, <2>2, ProxyFinds DEF InvalidCommand
<1> QED
  BY <1>1, StateCommandDisables, OtherCommandDisables, PortDisableDisables,
     PortDisableRunningDisables, PortDisableFlushDisables DEF send_command_proxy

(* Every step, of a client that disables one port at a time.               *)
LEMMA DisablesStep ==
  ASSUME OneAtATime, Contract, Disables, ~ m_error_propogated', Next
  PROVE  Disables'
<1>1. CASE MessageThread
  BY <1>1, CommandDisables, EventDisables, EndDisables, FlushDoneDisables, DoneDisables,
     BuffersDisables DEF MessageThread
<1>2. CASE Client
  <2>1. Commands \subseteq AllCommands
    BY VdecAssumption
  <2> QED
    BY <1>2, <2>1, SendDisables, AllocateDisables, FreeDisables, BuffersDisables DEF Client, OneAtATime
<1>3. CASE Driver \/ ConfigChanged \/ HwError
  <2>1. CASE \E b \in Buffers : BufferDone(b)
    BY <2>1, BuffersDisables
  <2> QED
    BY <1>3, <2>1, MessageDisables
<1> QED
  BY <1>1, <1>2, <1>3 DEF Next, Steadily

(* At the start nothing is disabled.                                       *)
LEMMA DisablesInit == Init => Disables
<1> SUFFICES ASSUME Init PROVE Disables
  OBVIOUS
<1>1. m_cmd_q = << >> /\ m_flags = {} /\ owed = {} /\ released = {}
  BY DEF Init
<1>2. ~ Fid /\ ~ Deferred /\ \A port \in PortNames : ~ Disabling(port)
  BY <1>1 DEF Fid, Deferred, Disabling
<1> QED
  BY <1>1, <1>2, EmptyHas DEF Disables, OneCommand, DeferredEnd, Closing, Closed, Asking

(***************************************************************************)
(* Which flush of the output port is under way, and which size its buffers *)
(* have.                                                                   *)
(***************************************************************************)
FlushKnown ==
  "OUT" \in flushing => \/ Asked("Flush", "OUT")
                        \/ m_state \in Processes /\ (IdlePending \in m_flags \/ Fid)
Made ==
  /\ drv_req = op_buf /\ DOMAIN made_for = OutBuffers
  /\ \A b \in OutBuffers \cap allocated : made_for[b] = op_buf

(* A step that ends none of it.                                            *)
LEMMA KnownAside ==
  ASSUME FlushKnown, m_state' = m_state, Fid => Fid',
         IdlePending \in m_flags /\ m_state \in Processes => IdlePending \in m_flags',
         Asked("Flush", "OUT") => Asked("Flush", "OUT")',
         "OUT" \in flushing' => "OUT" \in flushing
  PROVE  FlushKnown'
  BY DEF FlushKnown

(* While the client waits for a state, other than Idle, there is no flush. *)
LEMMA MoveKnown ==
  ASSUME Contract, Disables, FlushKnown, Has(m_cmd_q, Replies) \/ Bits # {}, IdlePending \notin m_flags
  PROVE  "OUT" \notin flushing
<1>1. Awaits /\ ~ Fid
  BY MoveClear DEF Disabling, PortNames
<1>2. ~ Asked("Flush", "OUT")
  BY <1>1 DEF Awaits, Asked
<1> QED
  BY <1>1, <1>2 DEF FlushKnown

(* A command starts a flush that is asked for, one on the way to Idle or   *)
(* one of a disable.                                                       *)
LEMMA CommandKnown ==
  ASSUME Contract, Disables, FlushKnown, ~ m_error_propogated', send_command_proxy
  PROVE  FlushKnown'
<1>1. CASE \E c \in AllCommands : InvalidCommand(c.cmd, c.arg)
  <2>1. PICK c \in AllCommands : InvalidCommand(c.cmd, c.arg)
    BY <1>1
  <2>2. c.cmd \in Parameters /\ c.arg \in Parameters
    BY DEF AllCommands, Parameters, States
  <2> QED
    BY <2>1, <2>2, ProxyFinds DEF InvalidCommand
<1>2. CASE Executing_Idle
  BY <1>2 DEF Executing_Idle, Proxy, FlushKnown, Processes
<1>3. CASE PortDisableFlush
  <2>1. released # {} /\ m_state \in Processes /\ UNCHANGED <<m_state, owed>>
        /\ flushing' = flushing \cup released /\ m_flags \subseteq m_flags'
        /\ ("OUT" \in released => Fid')
    BY <1>3 DEF PortDisableFlush, Contract, InStep, client, Fid
  <2> QED
    BY <2>1 DEF FlushKnown, Asked, Fid
<1>4. ASSUME NEW arg \in PortNames \cup {"ALL"}, FlushCommand(arg) PROVE FlushKnown'
  <2>1. Proxy("Flush", arg) /\ "Flush" \in Parameters /\ arg \in Parameters
    BY <1>4 DEF FlushCommand, Parameters
  <2>2. m_cmd_q \in Seq(CmdEntries) /\ m_cmd_q # << >> /\ Head(m_cmd_q) \in FlushOrder(arg)
    BY <2>1, ProxyFinds DEF Proxy, FlushOrder
  <2>3. \A port \in Ports(arg) : Asked("Flush", port)
    <3>1. Has(m_cmd_q, FlushOrder(arg))
      BY <2>2, TailHas
    <3> QED
      BY <3>1 DEF Contract, Flushing
  <2>4. UNCHANGED <<m_state, owed>> /\ flushing' = flushing \cup Ports(arg) /\ m_flags \subseteq m_flags'
    BY <1>4 DEF FlushCommand, Proxy, Quiet, execute_omx_flush
  <2> QED
    BY <2>3, <2>4 DEF FlushKnown, Asked, Fid
<1>5. CASE \/ Loaded_Idle \/ Idle_Loaded \/ Idle_Executing \/ Idle_Pause
           \/ Executing_Pause \/ Pause_Executing
           \/ (\E eState \in States : Granted(eState) \/ Rejected(eState))
           \/ (\E arg \in PortNames \cup {"ALL"} :
                 PortEnable(arg) \/ PortDisable(arg) \/ PortDisableRunning(arg))
  <2>1. UNCHANGED <<m_state, owed, flushing>> /\ m_flags \subseteq m_flags'
    BY <1>5 DEF Loaded_Idle, Idle_Loaded, Idle_Executing, Idle_Pause, Executing_Pause,
                Pause_Executing, Granted, Rejected, PortEnable, PortDisable, PortDisableRunning,
                Proxy, NoFlush, Quiet, omx_report_error
  <2> QED
    BY <2>1 DEF FlushKnown, Asked, Fid
<1> QED
  BY <1>1, <1>2, <1>3, <1>4, <1>5 DEF send_command_proxy

(* An event, an answer of the driver.                                      *)
LEMMA EventKnown ==
  ASSUME Contract, Disables, FlushKnown, ~ m_error_propogated',
         StateSetEvent \/ ErrorEvents \/ OtherEvents \/ PortDisableEvent
  PROVE  FlushKnown'
<1> DEFINE e == Head(m_cmd_q)
<1>1. Take("EVENT") /\ UNCHANGED flushing
      /\ m_flags \subseteq m_flags'
  BY DEF StateSetEvent, ErrorEvents, OtherEvents, PortDisableEvent
<1>2. /\ m_cmd_q \in Seq(CmdEntries) /\ m_cmd_q # << >> /\ e \in CmdEntries /\ e.id = "EVENT"
      /\ e \in StateEntries => Bits = {}
      /\ e \notin FlushEvents
  BY <1>1, TakenFinds
<1>3. CASE e \in Replies
  <2>1. e \in StateEntries
    BY <1>3 DEF Replies, StateEntries
  <2>2. IdlePending \notin m_flags
    BY <1>2, <2>1 DEF Bits, StateBits
  <2> HIDE DEF e
  <2>3. Has(m_cmd_q, Replies)
    BY <1>2, <1>3, TailHas DEF e
  <2> QED
    BY <1>1, <2>2, <2>3, MoveKnown DEF FlushKnown
<1>4. CASE e \notin Replies
  <2>1. e.p1 # "StateSet" /\ (e.p1 = "Error" => e.p2 = "PortUnpopulated") /\ e.p1 # "Flush"
    BY <1>2, <1>4 DEF CmdEntries, Replies, StateEvents, Answers, FlushEvents
  <2>2. /\ m_state' = m_state
        /\ owed' = owed \/ \E cmd \in {"PortEnable", "PortDisable"} : \E p :
             owed' = owed \ {[cmd |-> cmd, arg |-> p]}
    BY <2>1 DEF StateSetEvent, ErrorEvents, OtherEvents, PortDisableEvent, Completed, Quiet,
                omx_report_error
  <2>3. Asked("Flush", "OUT") => Asked("Flush", "OUT")'
    BY <2>2 DEF Asked
  <2> QED
    BY <1>1, <2>2, <2>3, KnownAside DEF Fid
<1> QED
  BY <1>3, <1>4

(* The driver has done what it was asked: a state is entered, at most.     *)
LEMMA DoneKnown ==
  ASSUME Contract, Disables, FlushKnown, ~ m_error_propogated',
         \/ START_DONE \/ PAUSE_DONE \/ RESUME_DONE \/ STOP_DONE
         \/ PORT_RECONFIG \/ HARDWARE_ERROR
  PROVE  FlushKnown'
<1>1. UNCHANGED flushing
  BY DEF START_DONE, PAUSE_DONE, RESUME_DONE, STOP_DONE, StopOrPauseDone, PORT_RECONFIG,
         HARDWARE_ERROR
<1>2. CASE UNCHANGED <<m_state, m_flags, owed>>
  BY <1>1, <1>2 DEF FlushKnown, Asked, Fid
<1>3. CASE ~ UNCHANGED <<m_state, m_flags, owed>>
  <2>1. \/ \E state \in States, bit \in StateBits \ {IdlePending} : Enter(state, bit)
        \/ STOP_DONE
    BY <1>3, BitsDiffer
       DEF START_DONE, PAUSE_DONE, RESUME_DONE, StopOrPauseDone, PORT_RECONFIG,
           HARDWARE_ERROR, ReportStay, Stay, Quiet, omx_report_error, States, StateBits
  <2>2. CASE STOP_DONE
    <3>1. Take("STOP_DONE")
      BY <2>2 DEF STOP_DONE, StopOrPauseDone
    <3>2. m_cmd_q \in Seq(CmdEntries) /\ m_cmd_q # << >> /\ Head(m_cmd_q) \in Stopped
      BY <3>1, TakenFinds DEF CmdEntries, Stopped
    <3>3. Has(m_cmd_q, Stopped)
      BY <3>2, TailHas
    <3> QED
      BY <1>1, <3>3 DEF Contract, Stopping, FlushKnown
  <2>3. ASSUME NEW state \in States, NEW bit \in StateBits \ {IdlePending}, Enter(state, bit)
        PROVE  FlushKnown'
    <3>1. bit \in Bits
      BY <2>3 DEF Enter, Bits
    <3>2. IdlePending \notin m_flags
      BY <3>1 DEF Contract, OneRequest, Bits, StateBits
    <3> QED
      BY <1>1, <3>1, <3>2, MoveKnown DEF FlushKnown
  <2> QED
    BY <2>1, <2>2, <2>3
<1> QED
  BY <1>2, <1>3

(* Every step.                                                             *)
LEMMA KnownStep ==
  ASSUME Contract, Disables, FlushKnown, ~ m_error_propogated', Next
  PROVE  FlushKnown'
<1>1. ASSUME NEW port \in PortNames, FlushDone(port) PROVE FlushKnown'
  <2>1. CASE port \notin flushing
    BY <1>1, <2>1 DEF FlushDone, Quiet, FlushKnown, Asked, Fid
  <2>2. CASE port \in flushing
    <3>1. flushing' = flushing \ {port} /\ m_state' = m_state
      BY <1>1, <2>2 DEF FlushDone, execute_flush
    <3>2. CASE port = "OUT"
      BY <3>1, <3>2 DEF FlushKnown
    <3>3. CASE port = "IN"
      <4>1. m_flags' = m_flags \ {FlushPending(port)}
            /\ (owed' = owed \/ owed' = owed \ {[cmd |-> "Flush", arg |-> "IN"]})
        BY <1>1, <2>2, <3>3 DEF FlushDone, omx_report_error
      <4>2. IdlePending # FlushPending(port) /\ FlushInDisablePending # FlushPending(port)
        BY DEF IdlePending, FlushInDisablePending, FlushPending
      <4>3. Asked("Flush", "OUT") => Asked("Flush", "OUT")'
        BY <4>1 DEF Asked
      <4> QED
        BY <3>1, <4>1, <4>2, <4>3, KnownAside DEF Fid
    <3> QED
      BY <3>2, <3>3 DEF PortNames
  <2> QED
    BY <2>1, <2>2
<1>2. CASE \/ fill_this_buffer_proxy \/ fill_buffer_done
           \/ empty_this_buffer_proxy \/ empty_buffer_done
           \/ (\E b \in Buffers : empty_this_buffer(b) \/ fill_this_buffer(b))
           \/ Driver \/ ConfigChanged \/ HwError
  <2>1. UNCHANGED <<m_state, m_flags, flushing, owed>>
    BY <1>2
    DEF fill_this_buffer_proxy, fill_buffer_done, empty_this_buffer_proxy, empty_buffer_done,
        empty_this_buffer, fill_this_buffer, component, client, TakeFtb, TakeEtb, Quiet, Refuse,
        omx_report_error, Driver, BufferDone, Acknowledge, AcknowledgeFlush, ConfigChanged,
        HwError, Message
  <2> QED
    BY <2>1 DEF FlushKnown, Asked, Fid
<1>3. ASSUME NEW b \in Buffers, AllocateBuffer(b) PROVE FlushKnown'
  <2> DEFINE port == PortOf(b)
             idle == allocate_done(allocated \cup {b}) /\ IdlePending \in m_flags
             gone == (IF idle THEN {IdlePending} ELSE {})
                       \cup (IF port \in NowPopulated(allocated \cup {b}, enabled)
                                /\ EnablePending(port) \in m_flags
                               THEN {EnablePending(port)} ELSE {})
  <2>1. /\ UNCHANGED <<m_state, flushing, owed>> /\ m_flags' = m_flags \ gone
        /\ cstate = "Loaded" \/ Asked("PortEnable", port)
    BY <1>3 DEF AllocateBuffer, component
  <2>2. IdlePending \in m_flags => m_state \notin Processes \/ IdlePending \in m_flags'
    <3>1. SUFFICES ASSUME IdlePending \in m_flags, IdlePending \in gone PROVE m_state \notin Processes
      BY <2>1
    <3>2. ~ Asked("PortEnable", port)
      <4>1. Awaits
        BY <3>1 DEF Contract, OneRequest, Bits, StateBits
      <4> QED
        BY <4>1 DEF Awaits, Asked
    <3> QED
      BY <2>1, <3>2 DEF Contract, InStep, Processes
  <2>3. FlushInDisablePending \notin gone
    BY DEF FlushInDisablePending, IdlePending, EnablePending
  <2> HIDE DEF gone
  <2> QED
    BY <2>1, <2>2, <2>3, KnownAside DEF Asked, Fid
<1>4. ASSUME NEW b \in Buffers, FreeBuffer(b) PROVE FlushKnown'
  <2>1. /\ UNCHANGED <<m_state, flushing, owed>>
        /\ m_flags \ {DisablePending(PortOf(b)), LoadingPending} \subseteq m_flags'
    BY <1>4 DEF FreeBuffer, component
  <2>2. /\ FlushInDisablePending \notin {DisablePending(PortOf(b)), LoadingPending}
        /\ IdlePending \notin {DisablePending(PortOf(b)), LoadingPending}
    BY DEF FlushInDisablePending, IdlePending, DisablePending, LoadingPending
  <2> QED
    BY <2>1, <2>2, KnownAside DEF Asked, Fid
<1>5. ASSUME NEW c \in Commands, send_command(c) PROVE FlushKnown'
  <2>1. UNCHANGED <<m_state, m_flags, flushing>> /\ owed = {}
    BY <1>5 DEF send_command, component
  <2> QED
    BY <2>1 DEF FlushKnown, Asked, Fid
<1>6. CASE MessageThread
  BY <1>1, <1>2, <1>6, CommandKnown, EventKnown, DoneKnown DEF MessageThread
<1>7. CASE Client
  BY <1>2, <1>3, <1>4, <1>5, <1>7 DEF Client
<1> QED
  BY <1>2, <1>6, <1>7 DEF Next, Steadily

(* The size of the output buffers changes when none is allocated.          *)
LEMMA MadeEnd ==
  ASSUME Contract, Disables, Made, ~ m_error_propogated', PortDisableEvent
  PROVE  Made'
<1> DEFINE port == Head(m_cmd_q).p2
<1>1. port \in PortNames /\ Has(m_cmd_q, Ends(port)) /\ UNCHANGED <<allocated, made_for>>
  BY EndFinds DEF PortDisableEvent, Take
<1>2. PortReleased(port, allocated)
  BY <1>1 DEF Disables, Closed
<1>3. CASE UNCHANGED <<op_buf, drv_req>>
  BY <1>1, <1>3 DEF Made
<1>4. CASE port = "OUT" /\ op_buf' = op_buf_rcnfg /\ drv_req' = op_buf_rcnfg
  <2>1. OutBuffers \cap allocated = {}
    BY <1>2, <1>4 DEF PortReleased, PortBuffers
  <2> QED
    BY <1>1, <1>4, <2>1 DEF Made
<1> QED
  BY <1>3, <1>4 DEF PortDisableEvent, reconfig, omx_report_error

(* Every step: a new buffer is made for the present size.                  *)
LEMMA MadeStep ==
  ASSUME Contract, Disables, Made, ~ m_error_propogated', Next
  PROVE  Made'
<1>1. CASE allocated' \subseteq allocated /\ UNCHANGED <<made_for, op_buf, drv_req>>
  BY <1>1 DEF Made
<1>2. CASE MessageThread
  <2>1. CASE PortDisableEvent
    BY <2>1, MadeEnd
  <2>2. CASE send_command_proxy
    <3>1. UNCHANGED <<allocated, made_for, op_buf, drv_req>>
      BY <2>2
      DEF send_command_proxy, Loaded_Idle, Granted, Idle_Loaded, Idle_Executing, Idle_Pause,
          Executing_Idle, Executing_Pause, Pause_Executing, Rejected, FlushCommand, PortEnable,
          PortDisable, PortDisableRunning, PortDisableFlush, InvalidCommand, Proxy, reconfig
    <3> QED
      BY <1>1, <3>1
  <2>3. CASE ~ PortDisableEvent /\ ~ send_command_proxy
    <3>1. UNCHANGED <<allocated, made_for, op_buf, drv_req>>
      BY <1>2, <2>3
      DEF MessageThread, StateSetEvent, ErrorEvents, OtherEvents, FlushDone, START_DONE,
          PAUSE_DONE, RESUME_DONE, STOP_DONE, StopOrPauseDone, PORT_RECONFIG, HARDWARE_ERROR,
          fill_this_buffer_proxy, fill_buffer_done, empty_this_buffer_proxy, empty_buffer_done,
          Take, TakeFtb, TakeEtb, ports, reconfig
    <3> QED
      BY <1>1, <3>1
  <2> QED
    BY <2>1, <2>2, <2>3
<1>3. ASSUME NEW b \in Buffers, AllocateBuffer(b) PROVE Made'
  <2>1. /\ allocated' = allocated \cup {b} /\ UNCHANGED <<op_buf, drv_req>>
        /\ made_for' = IF PortOf(b) = "OUT" THEN [made_for EXCEPT ![b] = op_buf] ELSE made_for
    BY <1>3 DEF AllocateBuffer, component, reconfig
  <2>2. PortOf(b) = "OUT" <=> b \in OutBuffers
    BY VdecAssumption DEF PortOf, Buffers
  <2> QED
    BY <2>1, <2>2 DEF Made
<1>4. CASE \/ \E b \in Buffers : FreeBuffer(b) \/ empty_this_buffer(b) \/ fill_this_buffer(b)
           \/ \E c \in Commands : send_command(c)
  <2>1. allocated' \subseteq allocated /\ UNCHANGED <<made_for, op_buf, drv_req>>
    BY <1>4 DEF FreeBuffer, empty_this_buffer, fill_this_buffer, send_command, component, ports,
                reconfig
  <2> QED
    BY <1>1, <2>1
<1>5. CASE Driver \/ ConfigChanged \/ HwError
  <2>1. UNCHANGED <<allocated, made_for, op_buf, drv_req>>
    BY <1>5 DEF Driver, BufferDone, Acknowledge, AcknowledgeFlush, ConfigChanged, HwError, Message,
                component, ports, reconfig
  <2> QED
    BY <1>1, <2>1
<1>6. CASE Client
  BY <1>3, <1>4, <1>6 DEF Client
<1> QED
  BY <1>2, <1>5, <1>6 DEF Next, Steadily

(* At the start nothing is flushed and no buffer allocated.                *)
LEMMA KnownInit == Init => FlushKnown /\ Made
  BY DEF Init, FlushKnown, Made

(***************************************************************************)
(* What the client is told.                                                *)
(***************************************************************************)

(* Until an error is reported, a flush is over for the client when its     *)
(* queue was emptied, and a disable when its end was taken and no flush    *)
(* defers it.                                                              *)
LEMMA OwedEnds ==
  ASSUME Contract, ~ m_error_propogated', Next, NEW c \in owed \ owed'
  PROVE  \/ c.cmd \in {"StateSet", "PortEnable"}
         \/ PortDisableEvent /\ ~ Fid /\ c = [cmd |-> "PortDisable", arg |-> Head(m_cmd_q).p2]
         \/ \E port \in PortNames :
              FlushDone(port) /\ execute_flush(port) /\ c = [cmd |-> "Flush", arg |-> port]
<1>1. \A cmd, arg : Completed(cmd, arg) => c = [cmd |-> cmd, arg |-> arg] /\ c.cmd = cmd
  BY DEF Completed
<1>2. CASE send_command_proxy
  <2>1. UNCHANGED owed
    BY <1>2
    DEF send_command_proxy, Loaded_Idle, Granted, Idle_Loaded, Idle_Executing, Idle_Pause,
        Executing_Idle, Executing_Pause, Pause_Executing, Rejected, FlushCommand, PortEnable,
        PortDisable, PortDisableRunning, PortDisableFlush, InvalidCommand, Proxy, Quiet,
        omx_report_error, client
  <2> QED
    BY <2>1
<1>3. CASE StateSetEvent
  BY <1>1, <1>3 DEF StateSetEvent
<1>4. CASE ErrorEvents
  <2>1. Take("EVENT") /\ Head(m_cmd_q).p1 = "Error" /\ Head(m_cmd_q).p2 # "PortUnpopulated"
    BY <1>4 DEF ErrorEvents, omx_report_error
  <2>2. Head(m_cmd_q) \in CmdEntries /\ Head(m_cmd_q).id = "EVENT"
    BY <2>1, TakenFinds
  <2>3. Head(m_cmd_q) \in StateEntries
    BY <2>1, <2>2 DEF CmdEntries, StateEntries, Answers
  <2>4. Awaits
    BY <2>1, <2>3, TakenFinds
  <2> QED
    BY <2>4 DEF Awaits
<1>5. CASE PortDisableEvent
  BY <1>1, <1>5 DEF PortDisableEvent, Quiet, omx_report_error, Fid
<1>6. CASE OtherEvents
  <2>1. Take("EVENT") /\ Head(m_cmd_q).p1 \in {"PortEnable", "Flush"}
        /\ Completed(Head(m_cmd_q).p1, Head(m_cmd_q).p2)
    BY <1>6 DEF OtherEvents
  <2>2. Head(m_cmd_q) \in CmdEntries /\ Head(m_cmd_q).id = "EVENT" /\ Head(m_cmd_q) \notin FlushEvents
    BY <2>1, TakenFinds
  <2>3. Head(m_cmd_q).p1 # "Flush"
    BY <2>2 DEF CmdEntries, FlushEvents
  <2> QED
    BY <1>1, <2>1, <2>3
<1>7. ASSUME NEW port \in PortNames, FlushDone(port)
      PROVE  execute_flush(port) /\ c = [cmd |-> "Flush", arg |-> port]
  <2>1. port \in flushing
    BY <1>7 DEF FlushDone, Quiet
  <2>2. execute_flush(port)
    BY <1>7, <2>1 DEF FlushDone
  <2>3. owed' = owed \/ owed' = owed \ {[cmd |-> "Flush", arg |-> port]}
    BY <1>7, <2>1 DEF FlushDone, omx_report_error
  <2> QED
    BY <2>2, <2>3
<1>8. CASE START_DONE \/ PAUSE_DONE \/ RESUME_DONE \/ STOP_DONE \/ PORT_RECONFIG \/ HARDWARE_ERROR
  <2>1. \E state : Completed("StateSet", state)
    BY <1>8 DEF START_DONE, PAUSE_DONE, RESUME_DONE, STOP_DONE, StopOrPauseDone, PORT_RECONFIG,
                HARDWARE_ERROR, Enter, Stay, ReportStay, Quiet, omx_report_error
  <2> QED
    BY <1>1, <2>1
<1>9. CASE fill_this_buffer_proxy \/ fill_buffer_done \/ empty_this_buffer_proxy \/ empty_buffer_done
  <2>1. UNCHANGED owed
    BY <1>9 DEF fill_this_buffer_proxy, fill_buffer_done, empty_this_buffer_proxy,
                empty_buffer_done, Quiet, omx_report_error
  <2> QED
    BY <2>1
<1>10. CASE Client
  <2>1. owed = {} \/ UNCHANGED owed
    BY <1>10 DEF Client, send_command, AllocateBuffer, FreeBuffer, empty_this_buffer, fill_this_buffer
  <2> QED
    BY <2>1
<1>11. CASE Driver \/ ConfigChanged \/ HwError
  <2>1. UNCHANGED owed
    BY <1>11 DEF Driver, BufferDone, Acknowledge, AcknowledgeFlush, ConfigChanged, HwError, Message,
                 client
  <2> QED
    BY <2>1
<1> QED
  BY <1>2, <1>3, <1>4, <1>5, <1>6, <1>7, <1>8, <1>9, <1>10, <1>11 DEF Next, Steadily, MessageThread

(* When the client is told that the output port is disabled, it has freed  *)
(* every buffer of it and no flush of the port is under way.               *)
LEMMA DisableEnds ==
  ASSUME Contract, Disables, FlushKnown, PortDisableEvent, ~ Fid,
         Head(m_cmd_q).p2 = "OUT", Asked("PortDisable", "OUT")
  PROVE  "OUT" \notin flushing' /\ PortReleased("OUT", allocated')
<1>1. Has(m_cmd_q, Ends("OUT")) /\ UNCHANGED <<allocated, flushing>>
  BY EndFinds DEF PortDisableEvent, Take
<1>2. "OUT" \in PortNames
  BY DEF PortNames
<1>3. PortReleased("OUT", allocated) /\ Bits = {}
  BY <1>1, <1>2 DEF Disables, Closed
<1>4. IdlePending \notin m_flags
  BY <1>3 DEF Bits, StateBits
<1>5. ~ Asked("Flush", "OUT")
  <2> DEFINE c == [cmd |-> "PortDisable", arg |-> "OUT"]
             d == [cmd |-> "Flush", arg |-> "OUT"]
  <2>1. c.cmd = "PortDisable" /\ d.cmd = "Flush"
    OBVIOUS
  <2>2. Asked("Flush", "OUT") => c \in owed /\ d \in owed
    BY DEF Asked
  <2> HIDE DEF c, d
  <2> QED
    BY <2>1, <2>2 DEF Disables, OneCommand
<1>6. "OUT" \notin flushing
  BY <1>4, <1>5 DEF FlushKnown
<1> QED
  BY <1>1, <1>3, <1>6, EndFinds DEF PortReleased

(* The inductive invariant of both theorems.                               *)
PortsInv == ~ m_error_propogated => Contract /\ Disables /\ FlushKnown /\ Made

(* It is kept, with the one of the owners (OwnInv).                        *)
LEMMA PortsStep ==
  ASSUME OneAtATime, OwnInv, PortsInv, [Next]_vars
  PROVE  OwnInv' /\ PortsInv'
<1>1. OwnInv'
  BY OwnStep
<1>2. CASE UNCHANGED vars
  <2>1. (Contract => Contract') /\ (FlushKnown => FlushKnown') /\ (Made => Made')
    BY <1>2
    DEF vars, queues, ports, driver, client, errors, reconfig, Contract, CallsTyped, OneRequest,
        InStep, Lending, Stopping, Flushing, Awaits, Asked, Bits, Lent, FlushKnown, Fid, Made
  <2>2. Disables => Disables'
    BY <1>2
    DEF vars, queues, ports, client, Disables, OneCommand, DeferredEnd, Closing, Closed, Asking,
        Disabling, Asked, Bits, Fid, Deferred, NoState
  <2>3. m_error_propogated' = m_error_propogated
    BY <1>2 DEF vars, errors
  <2> QED
    BY <1>1, <2>1, <2>2, <2>3 DEF PortsInv
<1>3. CASE Next
  <2>1. ~ m_error_propogated' => ~ m_error_propogated
    BY ErrorStays
  <2> QED
    BY <1>1, <1>3, <2>1, ContractStep, DisablesStep, KnownStep, MadeStep DEF PortsInv
<1> QED
  BY <1>2, <1>3

(* It holds at the start.                                                  *)
LEMMA PortsInit == Init => PortsInv
  BY ContractInit, DisablesInit, KnownInit DEF PortsInv

(* The driver only ever decodes into buffers of the size its requirement   *)
(* was set for, however disables, reconfigurations and freed buffers       *)
(* interleave: the end of a disable finds the port without buffers.        *)
THEOREM VdecBuffersFit == ASSUME OneAtATime PROVE Spec => []DriverBuffersFit
<1>1. Init => OwnInv /\ PortsInv
  BY OwnInit, PortsInit
<1>2. OwnInv /\ PortsInv /\ [Next]_vars => OwnInv' /\ PortsInv'
  BY PortsStep
<1>3. OwnInv /\ PortsInv => DriverBuffersFit
  <2> SUFFICES ASSUME OwnInv, PortsInv, NEW b \in drv_held \cap OutBuffers, ~ m_error_propogated
               PROVE  made_for[b] = drv_req
    BY DEF DriverBuffersFit
  <2>1. b \in allocated
    BY DEF OwnInv, Shared
  <2> QED
    BY <2>1 DEF PortsInv, Made
<1> QED
  BY <1>1, <1>2, <1>3, PTL DEF Spec

(* What the client is told of a flush or a disable comes after what it     *)
(* tells of: after a flush it has every buffer of the port; after a        *)
(* disable of the output port it has freed them all and the flush that     *)
(* belongs to it is over, even if the last one was freed before that flush *)
(* was begun.                                                              *)
THEOREM VdecFlushesEnd == ASSUME OneAtATime PROVE Spec => FlushesEnd
<1> DEFINE Ended(c) == c \in owed \ owed'
           Step == ~ m_error_propogated' =>
             /\ \A port \in PortNames : Ended([cmd |-> "Flush", arg |-> port])
                  => PortBuffers(port) \cap allocated \subseteq held'
             /\ Ended([cmd |-> "PortDisable", arg |-> "OUT"]) /\ m_state' # "Invalid"
                  => "OUT" \notin flushing' /\ PortReleased("OUT", allocated')
<1>1. Init => OwnInv /\ PortsInv
  BY OwnInit, PortsInit
<1>2. OwnInv /\ PortsInv /\ [Next]_vars => OwnInv' /\ PortsInv'
  BY PortsStep
<1>3. OwnInv /\ PortsInv /\ [Next]_vars => [Step]_vars
  <2> SUFFICES ASSUME OwnInv, PortsInv, Next, ~ m_error_propogated'
               PROVE  Step
    BY DEF vars
  <2>1. ~ m_error_propogated /\ OwnInv'
    BY ErrorStays, OwnStep
  <2>2. Contract /\ Disables /\ FlushKnown
    BY <2>1 DEF PortsInv
  <2>3. ASSUME NEW port \in PortNames, Ended([cmd |-> "Flush", arg |-> port])
        PROVE  PortBuffers(port) \cap allocated \subseteq held'
    <3> DEFINE c == [cmd |-> "Flush", arg |-> port]
    <3>1. c \in owed \ owed' /\ c.cmd = "Flush" /\ c.arg = port
      BY <2>3
    <3>2. \A q : c = [cmd |-> "Flush", arg |-> q] => q = port
      BY <3>1
    <3>3. \A q : c # [cmd |-> "PortDisable", arg |-> q]
      BY <3>1
    <3> HIDE DEF c
    <3>4. FlushDone(port) /\ execute_flush(port)
      BY <2>2, <3>1, <3>2, <3>3, OwedEnds
    <3>5. PortBuffers(port) \cap Lent' = {}
      BY <2>1, <2>2, <3>4, FlushReturns
    <3>6. UNCHANGED allocated
      BY <3>4 DEF FlushDone
    <3> QED
      BY <3>5, <3>6 DEF Lent
  <2>4. ASSUME Ended([cmd |-> "PortDisable", arg |-> "OUT"])
        PROVE  "OUT" \notin flushing' /\ PortReleased("OUT", allocated')
    <3> DEFINE c == [cmd |-> "PortDisable", arg |-> "OUT"]
    <3>1. c \in owed \ owed' /\ c.cmd = "PortDisable" /\ c.arg = "OUT"
      BY <2>4
    <3>2. \A q : c = [cmd |-> "PortDisable", arg |-> q] => q = "OUT"
      BY <3>1
    <3>3. \A q : c # [cmd |-> "Flush", arg |-> q]
      BY <3>1
    <3>4. Asked("PortDisable", "OUT")
      BY <3>1 DEF Asked
    <3> HIDE DEF c
    <3>5. PortDisableEvent /\ ~ Fid /\ Head(m_cmd_q).p2 = "OUT"
      BY <2>2, <3>1, <3>2, <3>3, OwedEnds
    <3> QED
      BY <2>2, <3>4, <3>5, DisableEnds
  <2> QED
    BY <2>3, <2>4
<1>4. [][Step]_vars <=> FlushesEnd
  BY DEF FlushesEnd
<1> QED
  BY <1>1, <1>2, <1>3, <1>4, PTL DEF Spec
===============================================================================
