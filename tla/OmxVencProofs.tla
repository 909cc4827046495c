---------------------------- MODULE OmxVencProofs -----------------------------
(***************************************************************************)
(* Theorems about the encoder: OmxVenc, for any buffers, any client (one   *)
(* whose commands overlap or make no sense too) and any driver calls that  *)
(* fail; and VencParams, for any                                           *)
(* sizes, rates and counts a client asks for, any ioctl that fails and any *)
(* order of calls and of the messages that answer a request for the        *)
(* sequence header.                                                        *)
(***************************************************************************)
EXTENDS OmxVenc, VencParams, QueueLemmas

(***************************************************************************)
(* Who has a buffer.  The inductive invariant: what the queues hold, that  *)
(* none names a buffer twice, and that the client, the driver and the      *)
(* queues have the allocated buffers among them, each in one place.        *)
(***************************************************************************)
PlainEntries ==
  [id : {"COMMAND", "EVENT", "START_DONE", "PAUSE_DONE", "RESUME_DONE", "STOP_DONE",
         "INPUT_FLUSH", "OUTPUT_FLUSH"}, p1 : Parameters, p2 : Parameters]
CmdEntries == PlainEntries \cup [id : {"FBD"}, p1 : OutBuffers, p2 : {"-"}]
FtbEntries == [id : {"FTB"}, p1 : {"-"}, p2 : OutBuffers]
EtbEntries == [id : {"ETB"}, p1 : {"-"}, p2 : InBuffers]
                \cup [id : {"EBD"}, p1 : InBuffers, p2 : {"-"}]

QueuesTyped ==
  /\ m_cmd_q \in Seq(CmdEntries) /\ Once(m_cmd_q, Buffers)
  /\ m_ftb_q \in Seq(FtbEntries) /\ Once(m_ftb_q, Buffers)
  /\ m_etb_q \in Seq(EtbEntries) /\ Once(m_etb_q, Buffers)
InCmd == NamedIn(m_cmd_q, Buffers)
InFtb == NamedIn(m_ftb_q, Buffers)
InEtb == NamedIn(m_etb_q, Buffers)
(* Five sets that share nothing and make up the sixth.                     *)
Shared(h, d, c, f, e, all) ==
  /\ h \cup d \cup c \cup f \cup e = all
  /\ h \cap d = {} /\ h \cap c = {} /\ h \cap f = {} /\ h \cap e = {}
  /\ d \cap c = {} /\ d \cap f = {} /\ d \cap e = {}
  /\ c \cap f = {} /\ c \cap e = {} /\ f \cap e = {}
OwnInv ==
  /\ QueuesTyped
  /\ allocated \subseteq Buffers /\ leaked \subseteq allocated
  /\ Shared(held, drv_held, InCmd, InFtb, InEtb, allocated \ leaked)

(* Events, commands and errors name no buffer.                             *)
LEMMA PlainNamed ==
  /\ \A e \in PlainEntries : Named(e) \cap Buffers = {}
  /\ \A q \in Seq(PlainEntries) : NamedIn(q, Buffers) = {} /\ q \in Seq(CmdEntries)
<1>1. \A e \in PlainEntries : Named(e) \cap Buffers = {}
  BY VencAssumption DEF PlainEntries, Named
<1>2. ASSUME NEW q \in Seq(PlainEntries)
      PROVE  NamedIn(q, Buffers) = {} /\ q \in Seq(CmdEntries)
  <2>1. NamedIn(q, Buffers) = {}
    BY <1>1 DEF NamedIn
  <2>2. PlainEntries \subseteq CmdEntries
    BY DEF CmdEntries
  <2> QED
    BY <2>1, <2>2, SeqMonotonic
<1> QED
  BY <1>1, <1>2

(* The command queue after a step that posts no buffer and takes none.     *)
CmdSame ==
  /\ m_cmd_q' \in Seq(CmdEntries) /\ InCmd' = InCmd
  /\ Once(m_cmd_q, Buffers) => Once(m_cmd_q', Buffers)

(* A command answered by events posts no buffer and takes none.            *)
LEMMA PostSame ==
  ASSUME OwnInv, m_cmd_q # << >>, Head(m_cmd_q) \in PlainEntries,
         NEW events \in Seq(PlainEntries), m_cmd_q' = Tail(m_cmd_q) \o events
  PROVE  CmdSame
<1> DEFINE t == Tail(m_cmd_q)
<1>1. m_cmd_q \in Seq(CmdEntries)
  BY DEF OwnInv, QueuesTyped
<1>2. /\ t \in Seq(CmdEntries) /\ NamedIn(t, Buffers) = InCmd
      /\ Once(m_cmd_q, Buffers) => Once(t, Buffers)
  <2>1. Named(Head(m_cmd_q)) \cap Buffers = {}
    BY PlainNamed
  <2>2. /\ t \in Seq(CmdEntries)
        /\ NamedIn(m_cmd_q, Buffers)
             = NamedIn(t, Buffers) \cup (Named(Head(m_cmd_q)) \cap Buffers)
        /\ Once(m_cmd_q, Buffers) => Once(t, Buffers)
    BY <1>1, TailNamed
  <2> QED
    BY <2>1, <2>2 DEF InCmd
<1>3. events \in Seq(CmdEntries) /\ NamedIn(events, Buffers) = {}
  BY PlainNamed
<1> HIDE DEF t
<1>4. /\ t \o events \in Seq(CmdEntries) /\ NamedIn(t \o events, Buffers) = NamedIn(t, Buffers)
      /\ Once(t, Buffers) => Once(t \o events, Buffers)
  BY <1>2, <1>3, ConcatNamed
<1> QED
  BY <1>2, <1>4 DEF CmdSame, InCmd, t

(* Events posted by a thread of the driver add no buffer to the queue.     *)
LEMMA AddSame ==
  ASSUME OwnInv, NEW events \in Seq(PlainEntries), m_cmd_q' = m_cmd_q \o events
  PROVE  CmdSame
<1>1. m_cmd_q \in Seq(CmdEntries)
  BY DEF OwnInv, QueuesTyped
<1>2. events \in Seq(CmdEntries) /\ NamedIn(events, Buffers) = {}
  BY PlainNamed
<1> QED
  BY <1>1, <1>2, ConcatNamed DEF CmdSame, InCmd

(* A step that moves no buffer.                                            *)
LEMMA NoneMoves ==
  ASSUME OwnInv, CmdSame,
         UNCHANGED <<held, drv_held, m_ftb_q, m_etb_q>>, leaked' \subseteq allocated',
         allocated' \subseteq Buffers, allocated' \ leaked' = allocated \ leaked
  PROVE  OwnInv'
  BY DEF OwnInv, CmdSame, QueuesTyped, InFtb, InEtb

(* Which buffer an entry of each of the three queues names, by its id.     *)
LEMMA BufferEntries ==
  /\ \A e \in FtbEntries : e.id = "FTB" /\ e.p2 \in OutBuffers /\ Named(e) \cap Buffers = {e.p2}
  /\ \A e \in EtbEntries :
       \/ e.id = "ETB" /\ e.p2 \in InBuffers /\ Named(e) \cap Buffers = {e.p2}
       \/ e.id = "EBD" /\ e.p1 \in InBuffers /\ Named(e) \cap Buffers = {e.p1}
  /\ \A e \in CmdEntries :
       \/ e.id # "FBD" /\ e \in PlainEntries /\ Named(e) \cap Buffers = {}
       \/ e.id = "FBD" /\ e.p1 \in OutBuffers /\ Named(e) \cap Buffers = {e.p1}
<1>1. "-" \notin Buffers
  BY VencAssumption DEF Parameters
<1>2. \A b \in Buffers : {"-", b} \cap Buffers = {b} /\ {b, "-"} \cap Buffers = {b}
  BY <1>1
<1>3. InBuffers \subseteq Buffers /\ OutBuffers \subseteq Buffers
  BY DEF Buffers
<1>4. \A e \in FtbEntries : e.id = "FTB" /\ e.p2 \in OutBuffers /\ Named(e) = {"-", e.p2}
  BY DEF FtbEntries, Named
<1>5. \A e \in EtbEntries :
        \/ e.id = "ETB" /\ e.p2 \in InBuffers /\ Named(e) = {"-", e.p2}
        \/ e.id = "EBD" /\ e.p1 \in InBuffers /\ Named(e) = {e.p1, "-"}
  BY DEF EtbEntries, Named
<1>6. \A e \in CmdEntries :
        \/ e.id # "FBD" /\ e \in PlainEntries
        \/ e.id = "FBD" /\ e.p1 \in OutBuffers /\ Named(e) = {e.p1, "-"}
  BY DEF CmdEntries, PlainEntries, Named
<1> QED
  BY <1>2, <1>3, <1>4, <1>5, <1>6, PlainNamed

(* What the submissions and the finished buffers of a queue are.           *)
LEMMA QueueContents ==
  ASSUME OwnInv
  PROVE  /\ Submitted(m_ftb_q) = InFtb
         /\ Submitted(m_etb_q) \cup Done(m_etb_q) = InEtb
<1>1. m_ftb_q \in Seq(FtbEntries) /\ m_etb_q \in Seq(EtbEntries)
  BY DEF OwnInv, QueuesTyped
<1>2. \A i \in DOMAIN m_ftb_q :
        /\ m_ftb_q[i].id = "FTB" /\ m_ftb_q[i].p2 \in Buffers
        /\ Named(m_ftb_q[i]) \cap Buffers = {m_ftb_q[i].p2}
  BY <1>1, BufferEntries DEF Buffers
<1>3. \A i \in DOMAIN m_etb_q :
        \/ /\ m_etb_q[i].id = "ETB" /\ m_etb_q[i].p2 \in Buffers
           /\ Named(m_etb_q[i]) \cap Buffers = {m_etb_q[i].p2}
        \/ /\ m_etb_q[i].id = "EBD" /\ m_etb_q[i].p1 \in Buffers
           /\ Named(m_etb_q[i]) \cap Buffers = {m_etb_q[i].p1}
  BY <1>1, BufferEntries DEF Buffers
<1>4. Submitted(m_ftb_q) = InFtb
  BY <1>2 DEF Submitted, InFtb, NamedIn
<1>5. Submitted(m_etb_q) \cup Done(m_etb_q) = InEtb
  BY <1>3 DEF Submitted, Done, InEtb, NamedIn
<1> QED
  BY <1>4, <1>5

(* execute_omx_flush returns what the queues of its ports hold.            *)
LEMMA FlushMoves ==
  ASSUME OwnInv, CmdSame, NEW P \in SUBSET PortNames, execute_omx_flush(P),
         UNCHANGED <<allocated, leaked>>
  PROVE  OwnInv'
<1>1. /\ m_etb_q' = IF "IN" \in P THEN << >> ELSE m_etb_q
      /\ m_ftb_q' = IF "OUT" \in P THEN << >> ELSE m_ftb_q
      /\ held' = held \cup (IF "IN" \in P THEN InEtb ELSE {})
                      \cup (IF "OUT" \in P THEN InFtb ELSE {})
      /\ drv_held' = drv_held
  BY QueueContents DEF execute_omx_flush
<1>2. /\ m_ftb_q' \in Seq(FtbEntries) /\ Once(m_ftb_q, Buffers)'
      /\ InFtb' = IF "OUT" \in P THEN {} ELSE InFtb
  <2>1. CASE "OUT" \in P
    <3>1. m_ftb_q' = << >>
      BY <1>1, <2>1
    <3>2. << >> \in Seq(FtbEntries) /\ Once(<< >>, Buffers) /\ NamedIn(<< >>, Buffers) = {}
      BY EmptyNamed
    <3> QED
      BY <2>1, <3>1, <3>2 DEF InFtb
  <2>2. CASE "OUT" \notin P
    BY <1>1, <2>2 DEF OwnInv, QueuesTyped, InFtb
  <2> QED
    BY <2>1, <2>2
<1>3. /\ m_etb_q' \in Seq(EtbEntries) /\ Once(m_etb_q, Buffers)'
      /\ InEtb' = IF "IN" \in P THEN {} ELSE InEtb
  <2>1. CASE "IN" \in P
    <3>1. m_etb_q' = << >>
      BY <1>1, <2>1
    <3>2. << >> \in Seq(EtbEntries) /\ Once(<< >>, Buffers) /\ NamedIn(<< >>, Buffers) = {}
      BY EmptyNamed
    <3> QED
      BY <2>1, <3>1, <3>2 DEF InEtb
  <2>2. CASE "IN" \notin P
    BY <1>1, <2>2 DEF OwnInv, QueuesTyped, InEtb
  <2> QED
    BY <2>1, <2>2
<1>4. QueuesTyped'
  BY <1>2, <1>3 DEF OwnInv, QueuesTyped, CmdSame
<1>5. InCmd' = InCmd
  BY DEF CmdSame
<1>6. Shared(held', drv_held', InCmd', InFtb', InEtb', allocated \ leaked)
  BY <1>1, <1>2, <1>3, <1>5 DEF OwnInv, Shared
<1> QED
  BY <1>4, <1>6 DEF OwnInv

(* complete_pending_buffer_done_cbs returns the finished input buffers.    *)
LEMMA PendingMoves ==
  ASSUME OwnInv, CmdSame, complete_pending_buffer_done_cbs,
         UNCHANGED <<m_ftb_q, drv_held, allocated, leaked>>
  PROVE  OwnInv'
<1>1. m_etb_q \in Seq(EtbEntries) /\ Once(m_etb_q, Buffers)
  BY DEF OwnInv, QueuesTyped
<1>2. m_etb_q' = Kept(m_etb_q, "EBD")
  BY DEF complete_pending_buffer_done_cbs, Others, Kept, Keeps, KeepStep
<1>3. /\ m_etb_q' \in Seq({e \in EtbEntries : e.id # "EBD"}) /\ Once(m_etb_q, Buffers)'
      /\ InEtb' = {b \in Buffers :
                     \E i \in DOMAIN m_etb_q : m_etb_q[i].id # "EBD" /\ b \in Named(m_etb_q[i])}
  <2> DEFINE r == Kept(m_etb_q, "EBD")
  <2>1. /\ r \in Seq({e \in EtbEntries : e.id # "EBD"})
        /\ NamedIn(r, Buffers)
             = {b \in Buffers :
                 \E i \in DOMAIN m_etb_q : m_etb_q[i].id # "EBD" /\ b \in Named(m_etb_q[i])}
        /\ Once(m_etb_q, Buffers) => Once(r, Buffers)
    BY <1>1, KeptNamed
  <2> HIDE DEF r
  <2>2. m_etb_q' = r
    BY <1>2 DEF r
  <2> QED
    BY <1>1, <2>1, <2>2 DEF InEtb
<1>4. m_etb_q' \in Seq(EtbEntries)
  BY <1>3, SeqMonotonic
<1>5. Done(m_etb_q) = {b \in Buffers :
                     \E i \in DOMAIN m_etb_q : m_etb_q[i].id = "EBD" /\ b \in Named(m_etb_q[i])}
  <2>1. \A i \in DOMAIN m_etb_q :
          /\ m_etb_q[i].id \in {"ETB", "EBD"}
          /\ m_etb_q[i].id = "EBD" =>
               /\ m_etb_q[i].p1 \in Buffers
               /\ Named(m_etb_q[i]) \cap Buffers = {m_etb_q[i].p1}
    BY <1>1, BufferEntries DEF Buffers
  <2> QED
    BY <2>1 DEF Done
<1>6. InEtb' \cup Done(m_etb_q) = InEtb
  BY <1>3, <1>5 DEF InEtb, NamedIn
<1>7. InEtb' \cap Done(m_etb_q) = {}
  BY <1>1, <1>3, <1>5 DEF Once
<1>8. QueuesTyped'
  BY <1>3, <1>4 DEF OwnInv, QueuesTyped, CmdSame
<1>9. held' = held \cup Done(m_etb_q) /\ InCmd' = InCmd /\ InFtb' = InFtb
  BY DEF complete_pending_buffer_done_cbs, CmdSame, InFtb
<1>10. Shared(held', drv_held, InCmd', InFtb', InEtb', allocated \ leaked)
  BY <1>6, <1>7, <1>9 DEF OwnInv, Shared
<1> QED
  BY <1>8, <1>10 DEF OwnInv

(* The events a step posts are plain.                                      *)
LEMMA EventsPlain ==
  /\ << >> \in Seq(PlainEntries)
  /\ \A x, y \in Parameters : <<Entry("EVENT", x, y)>> \in Seq(PlainEntries)
  /\ \A x \in Parameters : <<ErrorEvent(x)>> \in Seq(PlainEntries)
  /\ \A x, y \in Parameters : <<PortEvent(x, y)>> \in Seq(PlainEntries)
  /\ <<Entry("RESUME_DONE", "-", "-")>> \in Seq(PlainEntries)
  /\ \A q, r \in Seq(PlainEntries) : q \o r \in Seq(PlainEntries)
<1>1. \A e \in PlainEntries : <<e>> \in Seq(PlainEntries)
  OBVIOUS
<1>2. \A x, y \in Parameters : Entry("EVENT", x, y) \in PlainEntries
  BY DEF Entry, PlainEntries
<1>3. "Error" \in Parameters /\ "-" \in Parameters
  BY DEF Parameters
<1>4. Entry("RESUME_DONE", "-", "-") \in PlainEntries
  BY <1>3 DEF Entry, PlainEntries
<1>5. \A q, r \in Seq(PlainEntries) : q \o r \in Seq(PlainEntries)
  BY ConcatProperties
<1>6. << >> \in Seq(PlainEntries)
  OBVIOUS
<1> QED
  BY <1>1, <1>2, <1>3, <1>4, <1>5, <1>6 DEF ErrorEvent, PortEvent

(* A command taken by send_command_proxy, and an event by process_event_cb.*)
LEMMA ProxySame ==
  ASSUME OwnInv, NEW cmd, NEW arg, Proxy(cmd, arg), NEW events \in Seq(PlainEntries), Post(events)
  PROVE  CmdSame /\ UNCHANGED <<allocated, leaked>>
<1>1. Head(m_cmd_q) \in CmdEntries /\ Head(m_cmd_q).id = "COMMAND" /\ m_cmd_q # << >>
  BY DEF Proxy, Entry, OwnInv, QueuesTyped
<1>2. Head(m_cmd_q) \in PlainEntries
  BY <1>1, BufferEntries
<1> QED
  BY <1>1, <1>2, PostSame DEF Proxy, Post

(* Taking an entry that is not a buffer done takes no buffer off m_cmd_q.  *)
LEMMA TakeSame ==
  ASSUME OwnInv, NEW id, Take(id), id # "FBD" PROVE CmdSame
<1>1. Head(m_cmd_q) \in CmdEntries /\ Head(m_cmd_q).id # "FBD" /\ m_cmd_q # << >>
  BY DEF Take, OwnInv, QueuesTyped
<1>2. Head(m_cmd_q) \in PlainEntries
  BY <1>1, BufferEntries
<1>3. m_cmd_q' = Tail(m_cmd_q) \o << >>
  BY <1>1, ConcatProperties DEF Take, OwnInv, QueuesTyped
<1> QED
  BY <1>1, <1>2, <1>3, PostSame, EventsPlain

(* A command whose processing flushes nothing.                             *)
LEMMA QuietProxy ==
  ASSUME OwnInv, NEW cmd, NEW arg, Proxy(cmd, arg), NEW events \in Seq(PlainEntries), Post(events),
         NoFlush, UNCHANGED drv_held
  PROVE  OwnInv'
<1>1. CmdSame /\ UNCHANGED <<allocated, leaked>>
  BY ProxySame
<1>2. UNCHANGED <<held, drv_held, m_ftb_q, m_etb_q>>
  BY DEF NoFlush
<1>3. leaked' \subseteq allocated' /\ allocated' \subseteq Buffers
      /\ allocated' \ leaked' = allocated \ leaked
  BY <1>1 DEF OwnInv
<1> QED
  BY <1>1, <1>2, <1>3, NoneMoves

(* One that flushes.                                                       *)
LEMMA FlushingProxy ==
  ASSUME OwnInv, NEW cmd, NEW arg, Proxy(cmd, arg), NEW events \in Seq(PlainEntries), Post(events),
         NEW P \in SUBSET PortNames, execute_omx_flush(P)
  PROVE  OwnInv'
  BY ProxySame, FlushMoves

(* No branch of send_command_proxy creates a second owner of a buffer.     *)
LEMMA ProxyOwn == OwnInv /\ send_command_proxy => OwnInv'
<1> SUFFICES ASSUME OwnInv, send_command_proxy PROVE OwnInv'
  OBVIOUS
<1>0. "StateSet" \in Parameters /\ States \subseteq Parameters
  BY DEF Parameters
<1>1. CASE Loaded_Idle
  <2>1. PICK events \in Seq(PlainEntries) : Post(events)
    BY <1>0, <1>1, EventsPlain DEF Loaded_Idle, States
  <2> QED
    BY <1>1, <2>1, QuietProxy DEF Loaded_Idle, driver
<1>2. ASSUME NEW eState \in States, Granted(eState) PROVE OwnInv'
  <2>1. PICK events \in Seq(PlainEntries) : Post(events)
    BY <1>0, <1>2, EventsPlain DEF Granted
  <2> QED
    BY <1>2, <2>1, QuietProxy DEF Granted, driver
<1>3. CASE Idle_Loaded
  <2>1. PICK events \in Seq(PlainEntries) : Post(events)
    BY <1>0, <1>3, EventsPlain DEF Idle_Loaded, States
  <2>2. UNCHANGED drv_held
    BY <1>3 DEF Idle_Loaded, Accept, Refuse, driver
  <2> QED
    BY <1>3, <2>1, <2>2, QuietProxy DEF Idle_Loaded
<1>4. ASSUME NEW eState, NEW bit, Idle_Start(eState, bit) PROVE OwnInv'
  <2>1. PICK events \in Seq(PlainEntries) : Post(events)
    BY <1>4, EventsPlain DEF Idle_Start
  <2>2. UNCHANGED drv_held
    BY <1>4 DEF Idle_Start, Accept, Refuse, driver
  <2> QED
    BY <1>4, <2>1, <2>2, QuietProxy DEF Idle_Start
<1>5. CASE Executing_Idle
  BY <1>5, EventsPlain, FlushingProxy DEF Executing_Idle
<1>6. CASE Executing_Pause
  <2>1. PICK events \in Seq(PlainEntries) : Post(events)
    BY <1>6, EventsPlain DEF Executing_Pause, Parameters
  <2>2. UNCHANGED drv_held
    BY <1>6 DEF Executing_Pause, Accept, Refuse, driver
  <2> QED
    BY <1>6, <2>1, <2>2, QuietProxy DEF Executing_Pause
<1>7. CASE Pause_Executing
  <2>1. PICK events \in Seq(PlainEntries) : Post(events)
    BY <1>7, EventsPlain DEF Pause_Executing, Parameters
  <2>2. UNCHANGED drv_held
    BY <1>7 DEF Pause_Executing, Accept, Refuse, driver
  <2> QED
    BY <1>7, <2>1, <2>2, QuietProxy DEF Pause_Executing
<1>8. ASSUME NEW eState \in States \cup {"Invalid"}, Rejected(eState) PROVE OwnInv'
  <2>1. PICK events \in Seq(PlainEntries) : Post(events)
    BY <1>8, EventsPlain DEF Rejected, Parameters
  <2> QED
    BY <1>8, <2>1, QuietProxy DEF Rejected, driver
<1>9. ASSUME NEW arg \in PortNames \cup {"ALL"} PROVE Ports(arg) \in SUBSET PortNames
  BY DEF Ports, PortNames
<1>10. ASSUME NEW arg \in PortNames \cup {"ALL"}, FlushCommand(arg) PROVE OwnInv'
  BY <1>9, <1>10, EventsPlain, FlushingProxy DEF FlushCommand
<1>11. ASSUME NEW arg \in PortNames \cup {"ALL"}, NEW cmd \in {"PortEnable", "PortDisable"},
              NEW now \in SUBSET PortNames
       PROVE  PortEvents(cmd, arg, now) \in Seq(PlainEntries)
  <2>1. /\ cmd \in Parameters /\ arg \in Parameters
        /\ "IN" \in Parameters /\ "OUT" \in Parameters
    BY DEF Parameters, PortNames
  <2> DEFINE q1 == IF "IN" \in now THEN <<PortEvent(cmd, "IN")>> ELSE << >>
             q2 == IF "OUT" \in now THEN <<PortEvent(cmd, "OUT")>> ELSE << >>
             q3 == IF now = Ports(arg) THEN <<PortEvent(cmd, arg)>> ELSE << >>
  <2>2. q1 \in Seq(PlainEntries) /\ q2 \in Seq(PlainEntries) /\ q3 \in Seq(PlainEntries)
    BY <2>1, EventsPlain
  <2>3. PortEvents(cmd, arg, now) = (q1 \o q2) \o q3
    BY DEF PortEvents, InOrder
  <2> HIDE DEF q1, q2, q3
  <2> QED
    BY <2>2, <2>3, EventsPlain
<1>12. ASSUME NEW arg \in PortNames \cup {"ALL"}, PortEnable(arg) PROVE OwnInv'
  <2>1. PICK events \in Seq(PlainEntries) : Post(events)
    <3> DEFINE quick == m_state = "Loaded" /\ IdlePending \notin m_flags
               now == {port \in Ports(arg) : quick \/ PortAllocated(port, allocated)}
    <3>1. now \in SUBSET PortNames
      BY <1>9
    <3>2. Post(PortEvents("PortEnable", arg, now))
      BY <1>12 DEF PortEnable
    <3> HIDE DEF now
    <3> QED
      BY <1>11, <3>1, <3>2
  <2> QED
    BY <1>12, <2>1, QuietProxy DEF PortEnable, driver
<1>13. ASSUME NEW arg \in PortNames \cup {"ALL"}, PortDisable(arg) PROVE OwnInv'
  <2>1. PICK events \in Seq(PlainEntries) : Post(events)
    <3> DEFINE now == {port \in Ports(arg) : m_state \in {"Loaded", "Idle"}
                                               /\ PortReleased(port, allocated)}
    <3>1. now \in SUBSET PortNames
      BY <1>9
    <3>2. Post(PortEvents("PortDisable", arg, now))
      BY <1>13 DEF PortDisable
    <3> HIDE DEF now
    <3> QED
      BY <1>11, <3>1, <3>2
  <2>2. Proxy("PortDisable", arg)
    BY <1>13 DEF PortDisable
  <2>3. CASE m_state \in {"Pause", "Executing"}
    <3>1. execute_omx_flush(Ports(arg))
      BY <1>13, <2>3 DEF PortDisable
    <3> QED
      BY <1>9, <2>1, <2>2, <3>1, FlushingProxy
  <2>4. CASE m_state \notin {"Pause", "Executing"}
    <3>1. NoFlush /\ UNCHANGED drv_held
      BY <1>13, <2>4 DEF PortDisable, driver
    <3> QED
      BY <2>1, <2>2, <3>1, QuietProxy
  <2> QED
    BY <2>3, <2>4
<1> QED
  BY <1>1, <1>2, <1>3, <1>4, <1>5, <1>6, <1>7, <1>8, <1>10, <1>12, <1>13
  DEF send_command_proxy

(* An event that moves no buffer.                                          *)
LEMMA QuietTake ==
  ASSUME OwnInv, NEW id, Take(id), id # "FBD",
         UNCHANGED <<held, drv_held, m_ftb_q, m_etb_q, allocated, leaked>>
  PROVE  OwnInv'
<1>1. CmdSame
  BY TakeSame
<1>2. leaked' \subseteq allocated' /\ allocated' \subseteq Buffers
      /\ allocated' \ leaked' = allocated \ leaked
  BY DEF OwnInv
<1> QED
  BY <1>1, <1>2, NoneMoves

(* The events of the message thread keep it: only fill_buffer_done and the *)
(* two acknowledgements that return pending buffers move any.              *)
LEMMA EventOwn ==
  ASSUME OwnInv,
         \/ StateSetEvent \/ PortOrErrorEvent \/ fill_buffer_done
         \/ \E port \in PortNames : FlushDone(port)
         \/ START_DONE \/ PAUSE_DONE \/ RESUME_DONE \/ STOP_DONE
  PROVE  OwnInv'
<1>1. CASE StateSetEvent
  BY <1>1, QuietTake DEF StateSetEvent, ports, driver
<1>2. CASE PortOrErrorEvent
  BY <1>2, QuietTake DEF PortOrErrorEvent, ports, driver
<1>3. CASE fill_buffer_done
  <2> DEFINE b == Head(m_cmd_q).p1
  <2>1. /\ m_cmd_q \in Seq(CmdEntries) /\ m_cmd_q # << >> /\ Head(m_cmd_q) \in CmdEntries
        /\ Head(m_cmd_q).id = "FBD" /\ m_cmd_q' = Tail(m_cmd_q) /\ held' = held \cup {b}
        /\ UNCHANGED <<m_ftb_q, m_etb_q, drv_held, allocated, leaked>>
    BY <1>3 DEF fill_buffer_done, Take, OwnInv, QueuesTyped, ports, driver
  <2>2. Named(Head(m_cmd_q)) \cap Buffers = {b}
    BY <2>1, BufferEntries
  <2>3. /\ m_cmd_q' \in Seq(CmdEntries) /\ InCmd = InCmd' \cup {b}
        /\ Once(m_cmd_q, Buffers)' /\ b \notin InCmd'
    <3>1. /\ Tail(m_cmd_q) \in Seq(CmdEntries)
          /\ NamedIn(m_cmd_q, Buffers)
               = NamedIn(Tail(m_cmd_q), Buffers) \cup (Named(Head(m_cmd_q)) \cap Buffers)
          /\ Once(m_cmd_q, Buffers) =>
               /\ Once(Tail(m_cmd_q), Buffers)
               /\ Named(Head(m_cmd_q)) \cap NamedIn(Tail(m_cmd_q), Buffers) = {}
      BY <2>1, TailNamed
    <3>2. b \in Named(Head(m_cmd_q))
      BY DEF Named
    <3> HIDE DEF b
    <3> QED
      BY <2>1, <2>2, <3>1, <3>2 DEF InCmd, OwnInv, QueuesTyped
  <2> HIDE DEF b
  <2> QED
    BY <2>1, <2>3 DEF OwnInv, QueuesTyped, InFtb, InEtb, Shared
<1>4. ASSUME NEW port \in PortNames, FlushDone(port) PROVE OwnInv'
  <2>1. UNCHANGED drv_held
    BY <1>4 DEF FlushDone, Accept, Refuse, driver
  <2> QED
    BY <1>4, <2>1, QuietTake DEF FlushDone, ports
<1>5. CASE START_DONE
  <2>1. UNCHANGED drv_held
    BY <1>5 DEF START_DONE, Accept, Refuse, driver
  <2> QED
    BY <1>5, <2>1, QuietTake DEF START_DONE, ports
<1>6. CASE PAUSE_DONE
  <2>1. CmdSame
    BY <1>6, TakeSame DEF PAUSE_DONE
  <2>2. CASE PausePending \in m_flags
    BY <1>6, <2>1, <2>2, PendingMoves DEF PAUSE_DONE, ports, driver
  <2>3. CASE PausePending \notin m_flags
    BY <1>6, <2>3, QuietTake DEF PAUSE_DONE, ports, driver
  <2> QED
    BY <2>2, <2>3
<1>7. CASE RESUME_DONE
  BY <1>7, QuietTake DEF RESUME_DONE, ports, driver
<1>8. CASE STOP_DONE
  <2>1. CmdSame
    BY <1>8, TakeSame DEF STOP_DONE
  <2> QED
    BY <1>8, <2>1, PendingMoves DEF STOP_DONE, ports, driver
<1> QED
  BY <1>1, <1>2, <1>3, <1>4, <1>5, <1>6, <1>7, <1>8

(* fill_this_buffer_proxy takes an output buffer to the driver or, when it *)
(* cannot, to m_cmd_q as a finished one.                                   *)
LEMMA FillProxyOwn == OwnInv /\ fill_this_buffer_proxy => OwnInv'
<1> SUFFICES ASSUME OwnInv, fill_this_buffer_proxy PROVE OwnInv'
  OBVIOUS
<1> DEFINE b == Head(m_ftb_q).p2
           fbd == Entry("FBD", b, "-")
<1>1. /\ m_ftb_q \in Seq(FtbEntries) /\ m_ftb_q # << >> /\ Once(m_ftb_q, Buffers)
      /\ m_cmd_q = << >> /\ m_ftb_q' = Tail(m_ftb_q)
      /\ UNCHANGED <<m_etb_q, held, allocated, leaked>>
  BY DEF fill_this_buffer_proxy, OwnInv, QueuesTyped, ports
<1>2. /\ b \in OutBuffers /\ b \in Buffers /\ Named(Head(m_ftb_q)) \cap Buffers = {b}
  BY <1>1, BufferEntries DEF Buffers
<1>3. /\ m_ftb_q' \in Seq(FtbEntries) /\ Once(m_ftb_q, Buffers)'
      /\ InFtb = InFtb' \cup {b} /\ b \notin InFtb'
  <2> HIDE DEF b
  <2>1. /\ Tail(m_ftb_q) \in Seq(FtbEntries) /\ Once(Tail(m_ftb_q), Buffers)
        /\ NamedIn(m_ftb_q, Buffers) = NamedIn(Tail(m_ftb_q), Buffers) \cup {b}
        /\ b \notin NamedIn(Tail(m_ftb_q), Buffers)
    BY <1>1, <1>2, EntryTaken
  <2> QED
    BY <1>1, <2>1 DEF InFtb
<1>4. \/ m_cmd_q' = <<fbd>> /\ UNCHANGED drv_held
      \/ UNCHANGED m_cmd_q /\ drv_held' = drv_held \cup {b}
  BY DEF fill_this_buffer_proxy, Refuse, driver
<1>5. CASE m_cmd_q' = <<fbd>> /\ UNCHANGED drv_held
  <2>1. fbd \in CmdEntries /\ fbd.id = "FBD" /\ fbd.p1 = b
    BY <1>2 DEF Entry, CmdEntries
  <2>2. Named(fbd) \cap Buffers = {b}
    BY <2>1, BufferEntries
  <2>3. m_cmd_q' = Append(m_cmd_q, fbd) /\ m_cmd_q \in Seq(CmdEntries) /\ Once(m_cmd_q, Buffers)
    BY <1>1, <1>5 DEF OwnInv, QueuesTyped
  <2>4. b \notin InCmd /\ InCmd = {}
    BY <1>1, EmptyNamed DEF InCmd
  <2> HIDE DEF fbd, b
  <2>5. /\ Append(m_cmd_q, fbd) \in Seq(CmdEntries) /\ Once(Append(m_cmd_q, fbd), Buffers)
        /\ NamedIn(Append(m_cmd_q, fbd), Buffers) = NamedIn(m_cmd_q, Buffers) \cup {b}
    BY <1>2, <2>1, <2>2, <2>3, <2>4, EntryAdded DEF InCmd
  <2>6. m_cmd_q' \in Seq(CmdEntries) /\ Once(m_cmd_q, Buffers)' /\ InCmd' = InCmd \cup {b}
    BY <2>3, <2>5 DEF InCmd
  <2> QED
    BY <1>1, <1>3, <1>5, <2>6 DEF OwnInv, QueuesTyped, InEtb, Shared
<1>6. CASE UNCHANGED m_cmd_q /\ drv_held' = drv_held \cup {b}
  <2> HIDE DEF b
  <2> QED
    BY <1>1, <1>3, <1>6 DEF OwnInv, QueuesTyped, InCmd, InEtb, Shared
<1> QED
  BY <1>4, <1>5, <1>6

(* empty_this_buffer_proxy takes an input buffer to the driver or, when it *)
(* cannot, behind m_etb_q as a finished one.                               *)
LEMMA EmptyProxyOwn == OwnInv /\ empty_this_buffer_proxy => OwnInv'
<1> SUFFICES ASSUME OwnInv, empty_this_buffer_proxy PROVE OwnInv'
  OBVIOUS
<1> DEFINE b == Head(m_etb_q).p2
           t == Tail(m_etb_q)
           ebd == Entry("EBD", b, "-")
<1>1. /\ m_etb_q \in Seq(EtbEntries) /\ m_etb_q # << >> /\ Once(m_etb_q, Buffers)
      /\ Head(m_etb_q).id = "ETB"
      /\ UNCHANGED <<m_cmd_q, m_ftb_q, held, allocated, leaked>>
  BY DEF empty_this_buffer_proxy, OwnInv, QueuesTyped, ports
<1>2. /\ b \in InBuffers /\ b \in Buffers /\ Named(Head(m_etb_q)) \cap Buffers = {b}
  BY <1>1, BufferEntries DEF Buffers
<1>3. /\ t \in Seq(EtbEntries) /\ Once(t, Buffers)
      /\ InEtb = NamedIn(t, Buffers) \cup {b} /\ b \notin NamedIn(t, Buffers)
  <2> HIDE DEF b
  <2> QED
    BY <1>1, <1>2, EntryTaken DEF InEtb
<1>4. \/ m_etb_q' = Append(t, ebd) /\ UNCHANGED drv_held
      \/ m_etb_q' = t /\ drv_held' = drv_held \cup {b}
  BY DEF empty_this_buffer_proxy, Refuse, driver
<1>5. CASE m_etb_q' = Append(t, ebd) /\ UNCHANGED drv_held
  <2>1. ebd \in EtbEntries /\ ebd.id = "EBD" /\ ebd.p1 = b
    BY <1>2 DEF Entry, EtbEntries
  <2>2. Named(ebd) \cap Buffers = {b}
    BY <2>1, BufferEntries
  <2> HIDE DEF ebd, b, t
  <2>3. /\ Append(t, ebd) \in Seq(EtbEntries) /\ Once(Append(t, ebd), Buffers)
        /\ NamedIn(Append(t, ebd), Buffers) = NamedIn(t, Buffers) \cup {b}
    BY <1>2, <1>3, <2>1, <2>2, EntryAdded
  <2>4. m_etb_q' \in Seq(EtbEntries) /\ Once(m_etb_q, Buffers)' /\ InEtb' = InEtb
    BY <1>3, <1>5, <2>3 DEF InEtb
  <2> QED
    BY <1>1, <1>5, <2>4 DEF OwnInv, QueuesTyped, InCmd, InFtb, Shared
<1>6. CASE m_etb_q' = t /\ drv_held' = drv_held \cup {b}
  <2> HIDE DEF b, t
  <2>1. /\ m_etb_q' \in Seq(EtbEntries) /\ Once(m_etb_q, Buffers)'
        /\ InEtb = InEtb' \cup {b} /\ b \notin InEtb'
    BY <1>3, <1>6 DEF InEtb
  <2> QED
    BY <1>1, <1>6, <2>1 DEF OwnInv, QueuesTyped, InCmd, InFtb, Shared
<1> QED
  BY <1>4, <1>5, <1>6

(* empty_buffer_done returns it to the client.                             *)
LEMMA EmptyDoneOwn == OwnInv /\ empty_buffer_done => OwnInv'
<1> SUFFICES ASSUME OwnInv, empty_buffer_done PROVE OwnInv'
  OBVIOUS
<1> DEFINE b == Head(m_etb_q).p1
<1>1. /\ m_etb_q \in Seq(EtbEntries) /\ m_etb_q # << >> /\ Once(m_etb_q, Buffers)
      /\ Head(m_etb_q).id = "EBD" /\ m_etb_q' = Tail(m_etb_q) /\ held' = held \cup {b}
      /\ UNCHANGED <<m_cmd_q, m_ftb_q, drv_held, allocated, leaked>>
  BY DEF empty_buffer_done, OwnInv, QueuesTyped, ports, driver
<1>2. /\ b \in InBuffers /\ b \in Buffers /\ Named(Head(m_etb_q)) \cap Buffers = {b}
  BY <1>1, BufferEntries DEF Buffers
<1> HIDE DEF b
<1>3. /\ m_etb_q' \in Seq(EtbEntries) /\ Once(m_etb_q, Buffers)'
      /\ InEtb = InEtb' \cup {b} /\ b \notin InEtb'
  <2>1. /\ Tail(m_etb_q) \in Seq(EtbEntries) /\ Once(Tail(m_etb_q), Buffers)
        /\ NamedIn(m_etb_q, Buffers) = NamedIn(Tail(m_etb_q), Buffers) \cup {b}
        /\ b \notin NamedIn(Tail(m_etb_q), Buffers)
    BY <1>1, <1>2, EntryTaken
  <2> QED
    BY <1>1, <2>1 DEF InEtb
<1> QED
  BY <1>1, <1>3 DEF OwnInv, QueuesTyped, InCmd, InFtb, Shared

(* A command the client sends is plain, and so are the events it posts     *)
(* when it allocates or frees the last buffer of a port.                   *)
LEMMA CommandPlain ==
  ASSUME NEW c \in AllCommands PROVE Entry("COMMAND", c.cmd, c.arg) \in PlainEntries
<1>1. c.cmd \in Parameters /\ c.arg \in Parameters
  BY DEF AllCommands, Parameters
<1> QED
  BY <1>1 DEF Entry, PlainEntries

(* Every buffer belongs to one of the two ports.                           *)
LEMMA PortOfOwn == \A b \in Buffers : PortOf(b) \in PortNames
  BY DEF PortOf, PortNames

(* send_command posts its command.                                         *)
LEMMA SendOwn == ASSUME OwnInv, NEW c \in AllCommands, send_command(c) PROVE OwnInv'
<1> DEFINE e == Entry("COMMAND", c.cmd, c.arg)
<1>1. /\ m_cmd_q \in Seq(CmdEntries) /\ m_cmd_q' = Append(m_cmd_q, e)
      /\ UNCHANGED <<held, drv_held, m_ftb_q, m_etb_q, allocated, leaked>>
  BY DEF send_command, OwnInv, QueuesTyped, ports, driver
<1>2. e \in PlainEntries /\ e \in CmdEntries
  BY CommandPlain DEF CmdEntries
<1> HIDE DEF e
<1>3. m_cmd_q' = m_cmd_q \o <<e>> /\ <<e>> \in Seq(PlainEntries)
  BY <1>1, <1>2, AppendIsConcat
<1>4. CmdSame
  BY <1>3, AddSame
<1>5. leaked' \subseteq allocated' /\ allocated' \subseteq Buffers
      /\ allocated' \ leaked' = allocated \ leaked
  BY <1>1 DEF OwnInv
<1> QED
  BY <1>1, <1>4, <1>5, NoneMoves

(* use_buffer and allocate_buffer give the client a buffer no one had, or  *)
(* leave it to no one.                                                     *)
LEMMA AllocateOwn == ASSUME OwnInv, NEW b \in Buffers, AllocateBuffer(b) PROVE OwnInv'
<1>1. /\ b \notin allocated
      /\ SlotTaken(b) \/ SlotLeaked(b)
      /\ UNCHANGED <<drv_held, m_ftb_q, m_etb_q>>
  BY DEF AllocateBuffer, driver
<1>2. PICK events \in Seq(PlainEntries) : m_cmd_q' = m_cmd_q \o events
  <2>1. CASE UNCHANGED m_cmd_q
    <3>1. m_cmd_q \in Seq(CmdEntries)
      BY DEF OwnInv, QueuesTyped
    <3>2. m_cmd_q \o << >> = m_cmd_q
      BY <3>1
    <3> QED
      BY <2>1, <3>2, EventsPlain
  <2>2. CASE ~ UNCHANGED m_cmd_q
    <3> DEFINE idle == allocate_done(allocated \cup {b}) /\ IdlePending \in m_flags
               enable == /\ PortOf(b) \in NowPopulated(allocated \cup {b}, enabled)
                         /\ EnablePending(PortOf(b)) \in m_flags
               q1 == IF idle THEN <<Entry("EVENT", "StateSet", "Idle")>> ELSE << >>
               q2 == IF enable THEN <<PortEvent("PortEnable", PortOf(b))>> ELSE << >>
    <3>1. m_cmd_q' = (m_cmd_q \o q1) \o q2
      BY <2>2 DEF AllocateBuffer
    <3>2. /\ "StateSet" \in Parameters /\ "Idle" \in Parameters /\ "PortEnable" \in Parameters
          /\ PortOf(b) \in Parameters
      BY PortOfOwn DEF Parameters, States
    <3>3. q1 \in Seq(PlainEntries) /\ q2 \in Seq(PlainEntries)
      BY <3>2, EventsPlain
    <3>4. m_cmd_q \in Seq(CmdEntries)
      BY DEF OwnInv, QueuesTyped
    <3> HIDE DEF q1, q2
    <3>5. q1 \o q2 \in Seq(PlainEntries) /\ q1 \in Seq(CmdEntries) /\ q2 \in Seq(CmdEntries)
      BY <3>3, EventsPlain, PlainNamed
    <3>6. (m_cmd_q \o q1) \o q2 = m_cmd_q \o (q1 \o q2)
      BY <3>4, <3>5, ConcatAssociative
    <3> QED
      BY <3>1, <3>5, <3>6
  <2> QED
    BY <2>1, <2>2
<1>3. CmdSame
  BY <1>2, AddSame
<1>4. QueuesTyped' /\ InCmd' = InCmd /\ InFtb' = InFtb /\ InEtb' = InEtb
  BY <1>1, <1>3 DEF OwnInv, QueuesTyped, CmdSame, InFtb, InEtb
<1>5. CASE SlotTaken(b)
  BY <1>1, <1>4, <1>5 DEF SlotTaken, OwnInv, Shared
<1>6. CASE SlotLeaked(b)
  <2>1. allocated' \ leaked' = allocated \ leaked
    BY <1>1, <1>6 DEF SlotLeaked
  <2>2. held' = held
    BY <1>6 DEF SlotLeaked
  <2>3. allocated' \subseteq Buffers /\ leaked' \subseteq allocated'
    BY <1>6 DEF SlotLeaked, OwnInv
  <2> QED
    BY <1>1, <1>4, <2>1, <2>2, <2>3 DEF OwnInv
<1> QED
  BY <1>1, <1>5, <1>6

(* free_buffer takes from the client a buffer it has.                      *)
LEMMA FreeOwn == ASSUME OwnInv, NEW b \in Buffers, FreeBuffer(b) PROVE OwnInv'
<1> DEFINE port == PortOf(b)
           alloc == allocated \ {b}
           legal == (m_state = "Idle" /\ LoadingPending \in m_flags) \/ port \notin enabled
           live == ~ legal /\ m_state \in {"Executing", "Pause"}
           disable == DisablePending(port) \in m_flags /\ PortReleased(port, alloc)
           loaded == LoadingPending \in m_flags /\ release_done(alloc)
           q0 == IF legal THEN << >> ELSE <<ErrorEvent("PortUnpopulated")>>
           q1 == IF disable THEN <<PortEvent("PortDisable", port)>> ELSE << >>
           q2 == IF loaded THEN <<Entry("EVENT", "StateSet", "Loaded")>> ELSE << >>
<1>1. /\ b \in held /\ UNCHANGED <<drv_held, m_ftb_q, m_etb_q>>
      /\ \/ m_cmd_q' = m_cmd_q \o q0 /\ UNCHANGED <<ports, held>>
         \/ m_cmd_q' = ((m_cmd_q \o q0) \o q1) \o q2 /\ SlotFreed(b)
  <2>1. UNCHANGED drv_held
    BY DEF FreeBuffer, Accept, Refuse, driver
  <2>2. CASE live
    BY <2>1, <2>2 DEF FreeBuffer
  <2>3. CASE ~ live
    BY <2>1, <2>3 DEF FreeBuffer
  <2> QED
    BY <2>2, <2>3
<1>2. /\ q0 \in Seq(PlainEntries) /\ q1 \in Seq(PlainEntries) /\ q2 \in Seq(PlainEntries)
  <2>1. /\ "StateSet" \in Parameters /\ "Loaded" \in Parameters /\ "PortDisable" \in Parameters
        /\ PortOf(b) \in Parameters /\ "PortUnpopulated" \in Parameters
    BY PortOfOwn DEF Parameters, States
  <2> QED
    BY <2>1, EventsPlain
<1>3. m_cmd_q \in Seq(CmdEntries)
  BY DEF OwnInv, QueuesTyped
<1> HIDE DEF q0, q1, q2
<1>4. PICK events \in Seq(PlainEntries) : m_cmd_q' = m_cmd_q \o events
  <2>1. /\ q0 \in Seq(CmdEntries) /\ q1 \in Seq(CmdEntries) /\ q2 \in Seq(CmdEntries)
        /\ q1 \o q2 \in Seq(PlainEntries) /\ q0 \o (q1 \o q2) \in Seq(PlainEntries)
    BY <1>2, EventsPlain, PlainNamed
  <2>2. ((m_cmd_q \o q0) \o q1) \o q2 = m_cmd_q \o (q0 \o (q1 \o q2))
    <3>1. m_cmd_q \o q0 \in Seq(CmdEntries) /\ q1 \o q2 \in Seq(CmdEntries)
      BY <1>3, <2>1, ConcatProperties
    <3>2. ((m_cmd_q \o q0) \o q1) \o q2 = (m_cmd_q \o q0) \o (q1 \o q2)
      BY <2>1, <3>1, ConcatAssociative
    <3>3. ASSUME NEW r \in Seq(CmdEntries)
          PROVE  (m_cmd_q \o q0) \o r = m_cmd_q \o (q0 \o r)
      <4>1. q0 \in Seq(CmdEntries)
        BY <2>1
      <4> QED
        BY <1>3, <4>1, ConcatAssociative
    <3> QED
      BY <3>1, <3>2, <3>3
  <2> QED
    BY <1>1, <1>2, <2>1, <2>2
<1>5. CmdSame
  BY <1>4, AddSame
<1>6. QueuesTyped' /\ InCmd' = InCmd /\ InFtb' = InFtb /\ InEtb' = InEtb
  BY <1>1, <1>5 DEF OwnInv, QueuesTyped, CmdSame, InFtb, InEtb
<1>7. CASE UNCHANGED <<ports, held>>
  BY <1>1, <1>6, <1>7 DEF OwnInv, ports
<1>8. CASE SlotFreed(b)
  BY <1>1, <1>6, <1>8 DEF SlotFreed, OwnInv, Shared
<1> QED
  BY <1>1, <1>7, <1>8

(* A submission passes a buffer from the client to a queue.                *)
LEMMA SubmitOwn ==
  ASSUME OwnInv, NEW b \in Buffers, empty_this_buffer(b) \/ fill_this_buffer(b)
  PROVE  OwnInv'
<1>1. b \in held /\ b \notin InFtb /\ b \notin InEtb
  BY DEF empty_this_buffer, fill_this_buffer, OwnInv, Shared
<1>2. held' = held \ {b} /\ UNCHANGED <<m_cmd_q, drv_held, allocated, leaked>>
  BY DEF empty_this_buffer, fill_this_buffer, ports, driver
<1>3. CASE empty_this_buffer(b)
  <2> DEFINE e == Entry("ETB", "-", b)
  <2>1. /\ m_etb_q \in Seq(EtbEntries) /\ Once(m_etb_q, Buffers)
        /\ m_etb_q' = Append(m_etb_q, e) /\ b \in InBuffers /\ UNCHANGED m_ftb_q
    BY <1>3 DEF empty_this_buffer, OwnInv, QueuesTyped
  <2>2. e \in EtbEntries /\ e.id = "ETB" /\ e.p2 = b
    BY <2>1 DEF Entry, EtbEntries
  <2>3. Named(e) \cap Buffers = {b}
    BY <2>2, BufferEntries
  <2> HIDE DEF e
  <2>4. /\ Append(m_etb_q, e) \in Seq(EtbEntries) /\ Once(Append(m_etb_q, e), Buffers)
        /\ NamedIn(Append(m_etb_q, e), Buffers) = NamedIn(m_etb_q, Buffers) \cup {b}
    BY <1>1, <2>1, <2>2, <2>3, EntryAdded DEF InEtb
  <2>5. m_etb_q' \in Seq(EtbEntries) /\ Once(m_etb_q, Buffers)' /\ InEtb' = InEtb \cup {b}
    BY <2>1, <2>4 DEF InEtb
  <2> QED
    BY <1>1, <1>2, <2>1, <2>5 DEF OwnInv, QueuesTyped, InCmd, InFtb, Shared
<1>4. CASE fill_this_buffer(b)
  <2> DEFINE e == Entry("FTB", "-", b)
  <2>1. /\ m_ftb_q \in Seq(FtbEntries) /\ Once(m_ftb_q, Buffers)
        /\ m_ftb_q' = Append(m_ftb_q, e) /\ b \in OutBuffers /\ UNCHANGED m_etb_q
    BY <1>4 DEF fill_this_buffer, OwnInv, QueuesTyped
  <2>2. e \in FtbEntries /\ e.id = "FTB" /\ e.p2 = b
    BY <2>1 DEF Entry, FtbEntries
  <2>3. Named(e) \cap Buffers = {b}
    BY <2>2, BufferEntries
  <2> HIDE DEF e
  <2>4. /\ Append(m_ftb_q, e) \in Seq(FtbEntries) /\ Once(Append(m_ftb_q, e), Buffers)
        /\ NamedIn(Append(m_ftb_q, e), Buffers) = NamedIn(m_ftb_q, Buffers) \cup {b}
    BY <1>1, <2>1, <2>2, <2>3, EntryAdded DEF InFtb
  <2>5. m_ftb_q' \in Seq(FtbEntries) /\ Once(m_ftb_q, Buffers)' /\ InFtb' = InFtb \cup {b}
    BY <2>1, <2>4 DEF InFtb
  <2> QED
    BY <1>1, <1>2, <2>1, <2>5 DEF OwnInv, QueuesTyped, InCmd, InEtb, Shared
<1> QED
  BY <1>3, <1>4

(* The async thread posts a buffer the driver returns.                     *)
LEMMA BufferDoneOwn == ASSUME OwnInv, NEW b \in Buffers, BufferDone(b) PROVE OwnInv'
<1>1. /\ b \in drv_held /\ b \notin InCmd /\ b \notin InEtb
      /\ drv_held' = drv_held \ {b}
      /\ UNCHANGED <<m_ftb_q, held, allocated, leaked>>
  BY DEF BufferDone, OwnInv, Shared, ports, client
<1>2. CASE b \in InBuffers
  <2> DEFINE e == Entry("EBD", b, "-")
  <2>1. /\ m_etb_q \in Seq(EtbEntries) /\ Once(m_etb_q, Buffers)
        /\ m_etb_q' = Append(m_etb_q, e) /\ UNCHANGED m_cmd_q
    BY <1>2 DEF BufferDone, OwnInv, QueuesTyped
  <2>2. e \in EtbEntries /\ e.id = "EBD" /\ e.p1 = b
    BY <1>2 DEF Entry, EtbEntries
  <2>3. Named(e) \cap Buffers = {b}
    BY <2>2, BufferEntries
  <2> HIDE DEF e
  <2>4. /\ Append(m_etb_q, e) \in Seq(EtbEntries) /\ Once(Append(m_etb_q, e), Buffers)
        /\ NamedIn(Append(m_etb_q, e), Buffers) = NamedIn(m_etb_q, Buffers) \cup {b}
    BY <1>1, <2>1, <2>2, <2>3, EntryAdded DEF InEtb
  <2>5. m_etb_q' \in Seq(EtbEntries) /\ Once(m_etb_q, Buffers)' /\ InEtb' = InEtb \cup {b}
    BY <2>1, <2>4 DEF InEtb
  <2> QED
    BY <1>1, <2>1, <2>5 DEF OwnInv, QueuesTyped, InCmd, InFtb, Shared
<1>3. CASE b \notin InBuffers
  <2> DEFINE e == Entry("FBD", b, "-")
  <2>1. /\ m_cmd_q \in Seq(CmdEntries) /\ Once(m_cmd_q, Buffers)
        /\ m_cmd_q' = Append(m_cmd_q, e) /\ UNCHANGED m_etb_q /\ b \in OutBuffers
    BY <1>3 DEF BufferDone, OwnInv, QueuesTyped, Buffers
  <2>2. e \in CmdEntries /\ e.id = "FBD" /\ e.p1 = b
    BY <2>1 DEF Entry, CmdEntries
  <2>3. Named(e) \cap Buffers = {b}
    BY <2>2, BufferEntries
  <2> HIDE DEF e
  <2>4. /\ Append(m_cmd_q, e) \in Seq(CmdEntries) /\ Once(Append(m_cmd_q, e), Buffers)
        /\ NamedIn(Append(m_cmd_q, e), Buffers) = NamedIn(m_cmd_q, Buffers) \cup {b}
    BY <1>1, <2>1, <2>2, <2>3, EntryAdded DEF InCmd
  <2>5. m_cmd_q' \in Seq(CmdEntries) /\ Once(m_cmd_q, Buffers)' /\ InCmd' = InCmd \cup {b}
    BY <2>1, <2>4 DEF InCmd
  <2> QED
    BY <1>1, <2>1, <2>5 DEF OwnInv, QueuesTyped, InEtb, InFtb, Shared
<1> QED
  BY <1>2, <1>3

(* What it posts for an acknowledgement names no buffer.                   *)
LEMMA AcknowledgeOwn ==
  ASSUME OwnInv, NEW command, NEW state,
         NEW id \in {"START_DONE", "PAUSE_DONE", "RESUME_DONE", "STOP_DONE",
                     "INPUT_FLUSH", "OUTPUT_FLUSH"},
         Acknowledge(command, id, state)
  PROVE  OwnInv'
<1> DEFINE e == Entry(id, "-", "-")
<1>1. /\ m_cmd_q \in Seq(CmdEntries) /\ m_cmd_q' = Append(m_cmd_q, e)
      /\ UNCHANGED <<held, drv_held, m_ftb_q, m_etb_q, allocated, leaked>>
  BY DEF Acknowledge, OwnInv, QueuesTyped, ports, client
<1>2. e \in PlainEntries /\ e \in CmdEntries
  <2>1. "-" \in Parameters
    BY DEF Parameters
  <2>2. e \in PlainEntries
    BY <2>1 DEF Entry, PlainEntries
  <2> QED
    BY <2>2 DEF CmdEntries
<1> HIDE DEF e
<1>3. m_cmd_q' = m_cmd_q \o <<e>> /\ <<e>> \in Seq(PlainEntries)
  BY <1>1, <1>2, AppendIsConcat
<1>4. CmdSame
  BY <1>3, AddSame
<1>5. leaked' \subseteq allocated' /\ allocated' \subseteq Buffers
      /\ allocated' \ leaked' = allocated \ leaked
  BY <1>1 DEF OwnInv
<1> QED
  BY <1>1, <1>4, <1>5, NoneMoves

(* Every step keeps it.                                                    *)
LEMMA OwnStep == OwnInv /\ [Next]_vars => OwnInv'
<1> SUFFICES ASSUME OwnInv, [Next]_vars PROVE OwnInv'
  OBVIOUS
<1>1. CASE MessageThread
  BY <1>1, ProxyOwn, EventOwn, FillProxyOwn, EmptyProxyOwn, EmptyDoneOwn DEF MessageThread
<1>2. CASE Client
  <2>1. Actual \subseteq Buffers
    BY DEF Actual
  <2>2. \/ \E c \in AllCommands : send_command(c)
        \/ \E b \in Buffers : AllocateBuffer(b) \/ FreeBuffer(b)
                                \/ empty_this_buffer(b) \/ fill_this_buffer(b)
    BY <1>2, <2>1 DEF Client
  <2> QED
    BY <2>2, SendOwn, AllocateOwn, FreeOwn, SubmitOwn
<1>3. CASE Driver
  <2>1. \A port : PortBuffers(port) \subseteq Buffers
    BY DEF PortBuffers, Actual
  <2>2. \/ \E b \in Buffers : BufferDone(b)
        \/ \E command, state :
             \E id \in {"START_DONE", "PAUSE_DONE", "RESUME_DONE", "STOP_DONE",
                        "INPUT_FLUSH", "OUTPUT_FLUSH"} : Acknowledge(command, id, state)
    BY <1>3, <2>1 DEF Driver, BuffersDone, CommandDone
  <2> QED
    BY <2>2, BufferDoneOwn, AcknowledgeOwn
<1>4. CASE UNCHANGED vars
  BY <1>4 DEF vars, queues, ports, driver, client, OwnInv, QueuesTyped, InCmd, InFtb, InEtb
<1> QED
  BY <1>1, <1>2, <1>3, <1>4 DEF Next, Steadily

(* At the start no queue holds anything and no buffer is allocated.        *)
LEMMA OwnInit == Init => OwnInv
<1> SUFFICES ASSUME Init PROVE OwnInv
  OBVIOUS
<1>1. /\ m_cmd_q = << >> /\ m_ftb_q = << >> /\ m_etb_q = << >>
      /\ allocated = {} /\ leaked = {} /\ held = {} /\ drv_held = {}
  BY DEF Init
<1>2. NamedIn(<< >>, Buffers) = {} /\ Once(<< >>, Buffers)
  BY EmptyNamed
<1>3. \A E : << >> \in Seq(E)
  OBVIOUS
<1> QED
  BY <1>1, <1>2, <1>3 DEF OwnInv, QueuesTyped, InCmd, InFtb, InEtb, Shared

(* Each buffer of the encoder is with the client, in one place of one      *)
(* queue, or with the driver, whichever commands the client sends, before  *)
(* or after the last one is complete, whichever buffers it submits in      *)
(* between and whichever driver calls fail; a freed buffer and one whose   *)
(* allocation failed are nowhere.                                          *)
THEOREM VencOneOwner == Spec => []OneOwner
<1>1. OwnInv => OneOwner
  <2> SUFFICES ASSUME OwnInv, NEW b \in Buffers
               PROVE  Places(b) = IF b \in allocated \ leaked THEN 1 ELSE 0
    BY DEF OneOwner
  <2>1. /\ Count(m_cmd_q, b) = IF b \in InCmd THEN 1 ELSE 0
        /\ Count(m_ftb_q, b) = IF b \in InFtb THEN 1 ELSE 0
        /\ Count(m_etb_q, b) = IF b \in InEtb THEN 1 ELSE 0
    BY CountNamed DEF OwnInv, QueuesTyped, Count, InCmd, InFtb, InEtb
  <2>2. Shared(held, drv_held, InCmd, InFtb, InEtb, allocated \ leaked)
    BY DEF OwnInv
  <2> QED
    BY <2>1, <2>2 DEF Places, Shared
<1> QED
  BY <1>1, OwnInit, OwnStep, PTL DEF Spec
-------------------------------------------------------------------------------
(***************************************************************************)
(* What the encoder promises an IL client (OmxComponent).  The inductive   *)
(* invariant is about a client and a driver that keep the rules, since     *)
(* nothing is promised to others: which requests may be under way in which *)
(* state, and in which order the messages of the driver arrive.            *)
(***************************************************************************)
Processes == {"Executing", "Pause"}
StateBits == {IdlePending, LoadingPending, ExecutePending, PausePending}

(* The entries that belong to a request for another state: the command,    *)
(* the event that grants it, the error that ends it.                       *)
StateEvents == [id : {"EVENT"}, p1 : {"StateSet"}, p2 : Parameters]
StateEntries ==
  [id : {"COMMAND"}, p1 : {"StateSet"}, p2 : Parameters] \cup StateEvents
    \cup [id : {"EVENT"}, p1 : {"Error"}, p2 : Parameters \ {"PortUnpopulated"}]
(* The moves that need no answer of the driver, and the events of others.  *)
Quick ==
  {<<"Loaded", "Idle">>, <<"Loaded", "WaitForResources">>, <<"WaitForResources", "Loaded">>,
   <<"WaitForResources", "Idle">>, <<"Idle", "Loaded">>}
Wrong(state) == {e \in StateEvents : <<state, e.p2>> \notin Quick}

(* The answers of the driver, its messages about output buffers, and the   *)
(* calls it answers.                                                       *)
Ran == [id : {"START_DONE", "PAUSE_DONE"}, p1 : Parameters, p2 : Parameters]
Resumed == [id : {"RESUME_DONE"}, p1 : Parameters, p2 : Parameters]
Stopped == [id : {"STOP_DONE"}, p1 : Parameters, p2 : Parameters]
Filled == [id : {"FBD"}, p1 : OutBuffers, p2 : {"-"}]
Signals == Ran \cup Resumed \cup Stopped \cup Filled
Runs == {"START", "PAUSE"}
Calls == {"START", "PAUSE", "RESUME", "STOP"}
Given == [id : {"ETB"}, p1 : {"-"}, p2 : InBuffers]

(* One request at a time: in the queue or as a pending bit, and the client *)
(* waits for nothing else.                                                 *)
Awaits == \E t \in Parameters : owed = {[cmd |-> "StateSet", arg |-> t]}
OneRequest ==
  /\ AtMostOne(m_cmd_q, StateEntries)
  /\ \A x, y \in m_flags \cap StateBits : x = y
  /\ Has(m_cmd_q, StateEntries) => m_flags \cap StateBits = {}
  /\ Has(m_cmd_q, StateEntries) \/ m_flags \cap StateBits # {} => Awaits
(* The client knows the state; the request fits it.                        *)
InStep ==
  /\ m_state = cstate /\ ~ m_error_propogated /\ leaked = {}
  /\ m_state \in States
  /\ ~ Has(m_cmd_q, Wrong(m_state))
  /\ LoadingPending \in m_flags => m_state = "Idle"
  /\ ExecutePending \in m_flags => m_state \in {"Idle", "Pause"}
  /\ PausePending \in m_flags => m_state \in {"Idle", "Executing"}
  /\ IdlePending \in m_flags => m_state \in {"Loaded", "Executing", "Pause"}
(* Outside of its processing states it has no buffer of the client; on the *)
(* way out nothing new is submitted, and a stopped driver has none.        *)
Lending ==
  /\ m_state \notin Processes => allocated \subseteq held
  /\ m_state \in Processes /\ IdlePending \in m_flags => m_ftb_q = << >> /\ ~ Has(m_etb_q, Given)
  /\ Has(m_cmd_q, Stopped) => drv_held = {}
(* An answer of the one kind and then one of the other: in the queue, from *)
(* the driver, or the first in the queue and the second from the driver.   *)
Apart(D, X, F, Y) ==
  /\ Before(m_cmd_q, D, F) /\ Before(drv_cmds, X, Y)
  /\ Has(m_cmd_q, D) => ~ Has(drv_cmds, Y)
(* What the driver was asked for and has not reported, or has reported and *)
(* is queued: a stop only on the way out, a start or pause only for who    *)
(* waits for it, a resume only while it processes; none overtakes another. *)
Ordered ==
  /\ m_state \in Processes /\ IdlePending \notin m_flags =>
       ~ Has(drv_cmds, {"STOP"}) /\ ~ Has(m_cmd_q, Stopped)
  /\ Has(m_cmd_q, Ran) \/ Has(drv_cmds, Runs) =>
       PausePending \in m_flags \/ (ExecutePending \in m_flags /\ m_state = "Idle")
  /\ Has(m_cmd_q, Resumed) \/ Has(drv_cmds, {"RESUME"}) => m_state \in Processes
  /\ Before(m_cmd_q, Stopped, Filled)
  /\ Apart(Ran, Runs, Stopped, {"STOP"})
  /\ Apart(Stopped, {"STOP"}, Resumed, {"RESUME"})
  /\ Apart(Ran, Runs, Ran, Runs)
DrvCommands == Calls \cup {"FLUSH_IN", "FLUSH_OUT"}
CallsTyped == drv_cmds \in Seq(DrvCommands)
Contract == CallsTyped /\ OneRequest /\ InStep /\ Lending /\ Ordered
ContractInv == ~ rough => Contract

(* The pending bits are different from each other and from those of ports. *)
LEMMA BitsDiffer ==
  /\ IdlePending # LoadingPending /\ IdlePending # ExecutePending /\ IdlePending # PausePending
  /\ LoadingPending # ExecutePending /\ LoadingPending # PausePending
  /\ ExecutePending # PausePending
  /\ \A port : /\ EnablePending(port) \notin StateBits /\ DisablePending(port) \notin StateBits
               /\ FlushPending(port) \notin StateBits
  BY DEF IdlePending, LoadingPending, ExecutePending, PausePending, StateBits,
         EnablePending, DisablePending, FlushPending

(* Requests for a state are no messages of the driver, and what only is of *)
(* the one kind or the other.                                              *)
LEMMA Kinds ==
  /\ Ran \in SUBSET Signals /\ Resumed \in SUBSET Signals /\ Stopped \in SUBSET Signals
  /\ Filled \in SUBSET Signals /\ Runs \in SUBSET Calls
  /\ {"RESUME"} \in SUBSET Calls /\ {"STOP"} \in SUBSET Calls
  /\ StateEntries \cap Signals = {}
  /\ \A q, state : Has(q, Wrong(state)) => Has(q, StateEntries)
<1>1. StateEntries \cap Signals = {}
  BY DEF StateEntries, StateEvents, Signals, Ran, Resumed, Stopped, Filled, Entry
<1>2. \A state : Wrong(state) \subseteq StateEntries
  BY DEF Wrong, StateEntries
<1>3. \A q, state : Has(q, Wrong(state)) => Has(q, StateEntries)
  BY <1>2 DEF Has
<1>4. /\ Ran \in SUBSET Signals /\ Resumed \in SUBSET Signals /\ Stopped \in SUBSET Signals
      /\ Filled \in SUBSET Signals
  BY DEF Signals
<1>5. Runs \in SUBSET Calls /\ {"RESUME"} \in SUBSET Calls /\ {"STOP"} \in SUBSET Calls
  BY DEF Runs, Calls
<1> QED
  BY <1>1, <1>3, <1>4, <1>5

(* The client that awaits a state waits for no port.                       *)
LEMMA AwaitsState ==
  ASSUME Awaits
  PROVE  /\ owed # {}
         /\ \A cmd, arg : cmd # "StateSet" =>
              ~ Asked(cmd, arg) /\ owed \ {[cmd |-> cmd, arg |-> arg]} = owed
<1>1. PICK t \in Parameters : owed = {[cmd |-> "StateSet", arg |-> t]}
  BY DEF Awaits
<1>2. \A cmd, arg : cmd # "StateSet" =>
        [cmd |-> "StateSet", arg |-> t] # [cmd |-> cmd, arg |-> arg]
  OBVIOUS
<1> QED
  BY <1>1, <1>2 DEF Asked

(* The command queue after a step that adds no message of the driver, no   *)
(* second request and none that does not fit the state.                    *)
Quieter ==
  /\ Fewer(m_cmd_q, m_cmd_q', Signals)
  /\ AtMostOne(m_cmd_q', StateEntries)
  /\ Has(m_cmd_q', StateEntries) => Has(m_cmd_q, StateEntries)
  /\ ~ Has(m_cmd_q', Wrong(m_state))

(* The first entry taken: a request, then no other is there.               *)
LEMMA TakenQuieter ==
  ASSUME OwnInv, Contract, m_cmd_q # << >>, m_cmd_q' = Tail(m_cmd_q)
  PROVE  /\ Quieter
         /\ Head(m_cmd_q) \in StateEntries =>
              Has(m_cmd_q, StateEntries) /\ ~ Has(m_cmd_q', StateEntries)
<1>1. m_cmd_q \in Seq(CmdEntries) /\ AtMostOne(m_cmd_q, StateEntries)
      /\ ~ Has(m_cmd_q, Wrong(m_state))
  BY DEF OwnInv, QueuesTyped, Contract, OneRequest, InStep
<1>2. Fewer(m_cmd_q, m_cmd_q', Signals)
  BY <1>1, FewerTail
<1> QED
  BY <1>1, <1>2, TailHas DEF Quieter

(* Nothing of a kind is in a queue of other entries.                       *)
LEMMA PlainQuiet ==
  ASSUME NEW r \in Seq(PlainEntries \ (StateEntries \cup Signals))
  PROVE  r \in Seq(CmdEntries) /\ ~ Has(r, StateEntries) /\ ~ Has(r, Signals)
<1>1. r \in Seq(PlainEntries) /\ \A i \in DOMAIN r : r[i] \notin StateEntries \cup Signals
  BY SeqMonotonic
<1> QED
  BY <1>1, PlainNamed DEF Has

(* Entries of no interest added.                                           *)
LEMMA QuietAdded ==
  ASSUME NEW q \in Seq(CmdEntries), NEW r \in Seq(PlainEntries \ (StateEntries \cup Signals))
  PROVE  /\ q \o r \in Seq(CmdEntries) /\ Fewer(q, q \o r, Signals)
         /\ AtMostOne(q, StateEntries) => AtMostOne(q \o r, StateEntries)
         /\ \A D \in SUBSET StateEntries : Has(q \o r, D) => Has(q, D)
<1>1. r \in Seq(CmdEntries) /\ ~ Has(r, StateEntries) /\ ~ Has(r, Signals)
  BY PlainQuiet
<1>2. Fewer(q, q \o r, Signals) /\ Fewer(q, q \o r, StateEntries)
  BY <1>1, FewerConcat
<1>3. q \o r \in Seq(CmdEntries)
  BY <1>1, ConcatProperties
<1> QED
  BY <1>2, <1>3 DEF Fewer

(* A command or event answered by events about ports, or by none.          *)
LEMMA PostedQuieter ==
  ASSUME OwnInv, Contract, m_cmd_q # << >>,
         NEW r \in Seq(PlainEntries \ (StateEntries \cup Signals)), m_cmd_q' = Tail(m_cmd_q) \o r
  PROVE  /\ Quieter
         /\ Head(m_cmd_q) \in StateEntries =>
              Has(m_cmd_q, StateEntries) /\ ~ Has(m_cmd_q', StateEntries)
<1> DEFINE t == Tail(m_cmd_q)
<1>1. m_cmd_q \in Seq(CmdEntries) /\ AtMostOne(m_cmd_q, StateEntries)
      /\ ~ Has(m_cmd_q, Wrong(m_state)) /\ t \in Seq(CmdEntries)
  BY DEF OwnInv, QueuesTyped, Contract, OneRequest, InStep
<1>2. Fewer(m_cmd_q, t, Signals)
  BY <1>1, FewerTail
<1>3. AtMostOne(t, StateEntries) /\ ~ Has(t, Wrong(m_state))
      /\ (Has(t, StateEntries) => Has(m_cmd_q, StateEntries))
      /\ (Head(m_cmd_q) \in StateEntries =>
            Has(m_cmd_q, StateEntries) /\ ~ Has(t, StateEntries))
  BY <1>1, TailHas
<1> HIDE DEF t
<1>4. Wrong(m_state) \in SUBSET StateEntries /\ StateEntries \in SUBSET StateEntries
  BY DEF Wrong, StateEntries
<1>5. /\ Fewer(t, t \o r, Signals)
      /\ AtMostOne(t, StateEntries) => AtMostOne(t \o r, StateEntries)
      /\ \A D \in SUBSET StateEntries : Has(t \o r, D) => Has(t, D)
  BY <1>1, QuietAdded
<1>6. Fewer(m_cmd_q, t \o r, Signals)
  BY <1>2, <1>5, FewerTwice
<1>7. m_cmd_q' = t \o r
  BY DEF t
<1> QED
  BY <1>3, <1>4, <1>5, <1>6, <1>7 DEF Quieter

(* A request answered by the event that grants it or the error.            *)
LEMMA AnsweredQuieter ==
  ASSUME OwnInv, Contract, m_cmd_q # << >>, Head(m_cmd_q) \in StateEntries,
         NEW e \in CmdEntries, e \in StateEntries \ Wrong(m_state),
         m_cmd_q' = Tail(m_cmd_q) \o <<e>>
  PROVE  Quieter /\ Has(m_cmd_q, StateEntries)
<1> DEFINE t == Tail(m_cmd_q)
<1>1. m_cmd_q \in Seq(CmdEntries) /\ AtMostOne(m_cmd_q, StateEntries)
      /\ ~ Has(m_cmd_q, Wrong(m_state)) /\ t \in Seq(CmdEntries)
  BY DEF OwnInv, QueuesTyped, Contract, OneRequest, InStep
<1>2. Fewer(m_cmd_q, t, Signals)
  BY <1>1, FewerTail
<1>3. AtMostOne(t, StateEntries) /\ ~ Has(t, Wrong(m_state))
      /\ Has(m_cmd_q, StateEntries) /\ ~ Has(t, StateEntries)
  BY <1>1, TailHas
<1> HIDE DEF t
<1>4. m_cmd_q' = t \o <<e>> /\ t \o <<e>> = Append(t, e)
  BY <1>1, AppendIsConcat DEF t
<1>5. <<e>> \in Seq(CmdEntries) /\ ~ Has(<<e>>, Signals)
  BY Kinds DEF Has
<1>6. Fewer(t, t \o <<e>>, Signals)
  BY <1>1, <1>5, FewerConcat
<1>7. Fewer(m_cmd_q, t \o <<e>>, Signals)
  BY <1>2, <1>6, FewerTwice
<1>8. AtMostOne(Append(t, e), StateEntries) /\ ~ Has(Append(t, e), Wrong(m_state))
  BY <1>1, <1>3, AppendHas
<1> QED
  BY <1>3, <1>4, <1>7, <1>8 DEF Quieter

(* The order of the messages is kept when none is added and none is asked  *)
(* for, in the same state and for the same request at least.               *)
LEMMA OrderedKept ==
  ASSUME Contract, Fewer(m_cmd_q, m_cmd_q', Signals), Fewer(drv_cmds, drv_cmds', Calls),
         \/ /\ m_state' = m_state
            /\ m_flags \cap {ExecutePending, PausePending} \subseteq m_flags'
            /\ m_state \in Processes /\ IdlePending \in m_flags => IdlePending \in m_flags'
         \/ m_state \notin Processes /\ m_state' \notin Processes /\ m_flags \cap StateBits = {}
  PROVE  Ordered'
<1>1. Ordered
  BY DEF Contract
<1>2. /\ Has(m_cmd_q', Ran) => Has(m_cmd_q, Ran)
      /\ Has(m_cmd_q', Resumed) => Has(m_cmd_q, Resumed)
      /\ Has(m_cmd_q', Stopped) => Has(m_cmd_q, Stopped)
      /\ Before(m_cmd_q, Stopped, Filled) => Before(m_cmd_q', Stopped, Filled)
      /\ Before(m_cmd_q, Ran, Stopped) => Before(m_cmd_q', Ran, Stopped)
      /\ Before(m_cmd_q, Stopped, Resumed) => Before(m_cmd_q', Stopped, Resumed)
      /\ Before(m_cmd_q, Ran, Ran) => Before(m_cmd_q', Ran, Ran)
  BY Kinds DEF Fewer
<1>3. /\ Has(drv_cmds', Runs) => Has(drv_cmds, Runs)
      /\ Has(drv_cmds', {"RESUME"}) => Has(drv_cmds, {"RESUME"})
      /\ Has(drv_cmds', {"STOP"}) => Has(drv_cmds, {"STOP"})
      /\ Before(drv_cmds, Runs, {"STOP"}) => Before(drv_cmds', Runs, {"STOP"})
      /\ Before(drv_cmds, {"STOP"}, {"RESUME"}) => Before(drv_cmds', {"STOP"}, {"RESUME"})
      /\ Before(drv_cmds, Runs, Runs) => Before(drv_cmds', Runs, Runs)
  BY Kinds DEF Fewer
<1>4. ExecutePending \in StateBits /\ PausePending \in StateBits
  BY DEF StateBits
<1> QED
  BY <1>1, <1>2, <1>3, <1>4 DEF Ordered, Apart

(* What the client does not have of its buffers, and what a step may do    *)
(* with it: the steps of OmxComponent, when no error was reported.         *)
Lent == (allocated \ leaked) \ held
Promise ==
  \/ m_state' = m_state /\ Lent' \subseteq Lent
  \/ m_state' = m_state /\ m_state \in Processes /\ \E b \in Buffers \ Lent : Lent' = Lent \cup {b}
  \/ /\ <<m_state, m_state'>> \in IL!Edges /\ Lent' \subseteq Lent
     /\ m_state' \notin Processes => Lent' = {}

(* The buffers move towards the client only.                               *)
Returning ==
  /\ allocated' = allocated /\ leaked' = leaked
  /\ held \subseteq held' /\ drv_held' \subseteq drv_held
  /\ m_ftb_q = << >> => m_ftb_q' = << >>
  /\ Has(m_etb_q', Given) => Has(m_etb_q, Given)
(* The driver is asked for no state, or has answered.                      *)
CallsKept == CallsTyped' /\ Fewer(drv_cmds, drv_cmds', Calls)

(* A step that posts no signal, lends nothing and keeps the state on its   *)
(* side of streaming keeps the rule of lending.                            *)
LEMMA LendingKept ==
  ASSUME Contract, Fewer(m_cmd_q, m_cmd_q', Signals), Returning,
         m_state' = m_state \/ (m_state \notin Processes /\ m_state' \notin Processes),
         m_state \in Processes /\ IdlePending \in m_flags' => IdlePending \in m_flags
  PROVE  Lending'
<1>1. Has(m_cmd_q', Stopped) => Has(m_cmd_q, Stopped)
  BY Kinds DEF Fewer
<1> QED
  BY <1>1 DEF Contract, Lending, Returning

(* A step that is no part of a request for a state.                        *)
LEMMA Aside ==
  ASSUME Contract, Quieter, Returning, CallsKept,
         m_flags' \cap StateBits = m_flags \cap StateBits, Awaits => owed' = owed,
         UNCHANGED <<m_state, cstate, m_error_propogated>>
  PROVE  Contract' /\ Promise
<1>1. \A bit \in StateBits : bit \in m_flags' <=> bit \in m_flags
  OBVIOUS
<1>2. /\ IdlePending \in m_flags' <=> IdlePending \in m_flags
      /\ LoadingPending \in m_flags' <=> LoadingPending \in m_flags
      /\ ExecutePending \in m_flags' <=> ExecutePending \in m_flags
      /\ PausePending \in m_flags' <=> PausePending \in m_flags
  BY <1>1 DEF StateBits
<1>3. Ordered'
  BY <1>2, OrderedKept DEF Quieter, CallsKept
<1>4. Lending'
  BY <1>2, LendingKept DEF Quieter
<1>5. InStep'
  BY <1>2 DEF Contract, InStep, Quieter, Returning
<1>6. OneRequest'
  <2>1. Awaits => Awaits'
    BY DEF Awaits
  <2> QED
    BY <2>1 DEF Contract, OneRequest, Quieter
<1>7. Promise
  BY DEF Promise, Lent, Returning
<1> QED
  BY <1>3, <1>4, <1>5, <1>6, <1>7 DEF Contract, CallsKept

(* The other steps with a request in the queue, in an unchanged state: no  *)
(* bit was set; one is set, or none and the queue has the answer.          *)
LEMMA RequestSettled ==
  ASSUME Contract, Quieter, Has(m_cmd_q, StateEntries), UNCHANGED <<owed, m_state, cstate, m_error_propogated, leaked>>,
         \/ m_flags' = m_flags
         \/ /\ ~ Has(m_cmd_q', StateEntries)
            /\ \E bit \in StateBits :
                 /\ m_flags' = m_flags \cup {bit}
                 /\ bit = LoadingPending => m_state = "Idle"
                 /\ bit = ExecutePending => m_state \in {"Idle", "Pause"}
                 /\ bit = PausePending => m_state \in {"Idle", "Executing"}
                 /\ bit = IdlePending => m_state \in {"Loaded", "Executing", "Pause"}
  PROVE  OneRequest' /\ InStep'
<1>1. m_flags \cap StateBits = {} /\ Awaits /\ Awaits'
  BY DEF Contract, OneRequest, Awaits
<1>2. CASE m_flags' = m_flags
  BY <1>1, <1>2 DEF Contract, OneRequest, InStep, Quieter
<1>3. ASSUME NEW bit \in StateBits, m_flags' = m_flags \cup {bit}, ~ Has(m_cmd_q', StateEntries),
             bit = LoadingPending => m_state = "Idle",
             bit = ExecutePending => m_state \in {"Idle", "Pause"},
             bit = PausePending => m_state \in {"Idle", "Executing"},
             bit = IdlePending => m_state \in {"Loaded", "Executing", "Pause"}
      PROVE  OneRequest' /\ InStep'
  <2>1. m_flags' \cap StateBits = {bit}
    BY <1>1, <1>3
  <2>2. OneRequest'
    BY <1>1, <1>3, <2>1 DEF OneRequest, Quieter
  <2>3. \A x \in StateBits : x \in m_flags' => x = bit
    BY <2>1
  <2>4. InStep'
    BY <1>3, <2>3 DEF Contract, InStep, Quieter, StateBits
  <2> QED
    BY <2>2, <2>4
<1> QED
  BY <1>2, <1>3

(* A careful session: no driver call fails.                                *)
LEMMA NoRefusal == ASSUME ~ rough, NEW call PROVE ~ Refuse(call)
  BY DEF Refuse

(* execute_omx_flush in one: what it returns, and what it asks for.        *)
LEMMA FlushReturns ==
  ASSUME ~ rough, Contract, NEW P \in SUBSET PortNames, execute_omx_flush(P),
         UNCHANGED <<allocated, leaked>>
  PROVE  /\ Returning /\ CallsKept
         /\ P = PortNames => m_ftb_q' = << >> /\ m_etb_q' = << >>
<1> DEFINE r == InOrder(P, DrvFlush)
<1>1. drv_cmds' = drv_cmds \o r /\ drv_held' = drv_held /\ held \subseteq held'
      /\ (m_ftb_q' = << >> \/ m_ftb_q' = m_ftb_q) /\ (m_etb_q' = << >> \/ m_etb_q' = m_etb_q)
  BY DEF execute_omx_flush
<1>2. r \in Seq({"FLUSH_IN", "FLUSH_OUT"})
  <2> DEFINE q1 == IF "IN" \in P THEN <<"FLUSH_IN">> ELSE << >>
             q2 == IF "OUT" \in P THEN <<"FLUSH_OUT">> ELSE << >>
  <2>1. q1 \in Seq({"FLUSH_IN", "FLUSH_OUT"}) /\ q2 \in Seq({"FLUSH_IN", "FLUSH_OUT"})
    <3>1. \A S : << >> \in Seq(S) /\ \A e \in S : <<e>> \in Seq(S)
      OBVIOUS
    <3> QED
      BY <3>1
  <2>2. r = q1 \o q2
    BY DEF InOrder, DrvFlush
  <2> HIDE DEF q1, q2, r
  <2> QED
    BY <2>1, <2>2, ConcatProperties
<1>3. drv_cmds \in Seq(DrvCommands)
  BY DEF Contract, CallsTyped
<1> HIDE DEF r
<1>4. r \in Seq(DrvCommands) /\ ~ Has(r, Calls)
  <2>1. {"FLUSH_IN", "FLUSH_OUT"} \subseteq DrvCommands
    BY DEF DrvCommands
  <2>2. \A i \in DOMAIN r : r[i] \in {"FLUSH_IN", "FLUSH_OUT"}
    BY <1>2
  <2> QED
    BY <1>2, <2>1, <2>2, SeqMonotonic DEF Has, Calls
<1>5. CallsKept
  BY <1>1, <1>3, <1>4, FewerConcat, ConcatProperties DEF CallsKept, CallsTyped
<1>6. Returning
  BY <1>1, EmptyHas DEF Returning
<1>7. P = PortNames => m_ftb_q' = << >> /\ m_etb_q' = << >>
  BY DEF execute_omx_flush, PortNames
<1> QED
  BY <1>5, <1>6, <1>7

(* A call of the driver put behind the others.                             *)
LEMMA CallAdded ==
  ASSUME Contract, NEW call \in Calls, Accept(call)
  PROVE  /\ CallsTyped' /\ drv_held' = drv_held
         /\ Has(drv_cmds', Runs) <=> Has(drv_cmds, Runs) \/ call \in Runs
         /\ Has(drv_cmds', {"RESUME"}) <=> Has(drv_cmds, {"RESUME"}) \/ call = "RESUME"
         /\ Has(drv_cmds', {"STOP"}) <=> Has(drv_cmds, {"STOP"}) \/ call = "STOP"
         /\ (Has(drv_cmds, Runs) => call # "STOP") => Before(drv_cmds', Runs, {"STOP"})
         /\ (Has(drv_cmds, {"STOP"}) => call # "RESUME") => Before(drv_cmds', {"STOP"}, {"RESUME"})
         /\ (Has(drv_cmds, Runs) => call \notin Runs) => Before(drv_cmds', Runs, Runs)
<1>1. drv_cmds' = Append(drv_cmds, call) /\ drv_held' = drv_held
  BY DEF Accept
<1>2. drv_cmds \in Seq(DrvCommands) /\ call \in DrvCommands
  BY DEF Contract, CallsTyped, DrvCommands
<1>3. /\ Before(drv_cmds, Runs, {"STOP"}) /\ Before(drv_cmds, {"STOP"}, {"RESUME"})
      /\ Before(drv_cmds, Runs, Runs)
  BY DEF Contract, Ordered, Apart
<1>4. Append(drv_cmds, call) \in Seq(DrvCommands)
  BY <1>2, AppendProperties
<1> QED
  BY <1>1, <1>2, <1>3, <1>4, AppendHas DEF CallsTyped

(* A stop is asked for on the way out, when nothing else is.               *)
LEMMA StopAsked ==
  ASSUME Contract, Fewer(m_cmd_q, m_cmd_q', Signals), Accept("STOP"),
         ExecutePending \notin m_flags, PausePending \notin m_flags, m_state' = m_state,
         m_state \notin Processes \/ IdlePending \in m_flags'
  PROVE  Ordered' /\ CallsTyped'
<1>1. Ordered
  BY DEF Contract
<1>2. ~ Has(m_cmd_q, Ran) /\ ~ Has(drv_cmds, Runs)
  BY <1>1 DEF Ordered
<1>3. /\ ~ Has(m_cmd_q', Ran)
      /\ Has(m_cmd_q', Resumed) => Has(m_cmd_q, Resumed)
      /\ Has(m_cmd_q', Stopped) => Has(m_cmd_q, Stopped)
      /\ Before(m_cmd_q', Stopped, Filled)
      /\ Before(m_cmd_q', Ran, Stopped) /\ Before(m_cmd_q', Stopped, Resumed)
      /\ Before(m_cmd_q', Ran, Ran)
  BY <1>1, <1>2, Kinds DEF Fewer, Ordered, Apart
<1>4. "STOP" \in Calls /\ "STOP" \notin Runs
  BY DEF Calls, Runs
<1>5. /\ CallsTyped'
      /\ ~ Has(drv_cmds', Runs)
      /\ Has(drv_cmds', {"RESUME"}) <=> Has(drv_cmds, {"RESUME"})
      /\ Before(drv_cmds', Runs, {"STOP"}) /\ Before(drv_cmds', {"STOP"}, {"RESUME"})
      /\ Before(drv_cmds', Runs, Runs)
  BY <1>2, <1>4, CallAdded
<1> QED
  BY <1>1, <1>3, <1>5 DEF Ordered, Apart

(* A start or pause is asked for by who waits for it.                      *)
LEMMA RunAsked ==
  ASSUME Contract, Fewer(m_cmd_q, m_cmd_q', Signals), NEW call \in Runs, Accept(call),
         ~ Has(m_cmd_q', Ran), ~ Has(drv_cmds, Runs), m_state' = m_state,
         m_state \in Processes /\ IdlePending \in m_flags => IdlePending \in m_flags',
         PausePending \in m_flags' \/ (ExecutePending \in m_flags' /\ m_state = "Idle")
  PROVE  Ordered' /\ CallsTyped'
<1>1. Ordered
  BY DEF Contract
<1>3. /\ Has(m_cmd_q', Resumed) => Has(m_cmd_q, Resumed)
      /\ Has(m_cmd_q', Stopped) => Has(m_cmd_q, Stopped)
      /\ Before(m_cmd_q', Stopped, Filled)
      /\ Before(m_cmd_q', Ran, Stopped) /\ Before(m_cmd_q', Stopped, Resumed)
      /\ Before(m_cmd_q', Ran, Ran)
  BY <1>1, Kinds DEF Fewer, Ordered, Apart
<1>4. call \in Calls /\ call # "STOP" /\ call # "RESUME"
  BY DEF Calls, Runs
<1>5. /\ CallsTyped'
      /\ Has(drv_cmds', {"STOP"}) <=> Has(drv_cmds, {"STOP"})
      /\ Has(drv_cmds', {"RESUME"}) <=> Has(drv_cmds, {"RESUME"})
      /\ Before(drv_cmds', Runs, {"STOP"}) /\ Before(drv_cmds', {"STOP"}, {"RESUME"})
      /\ Before(drv_cmds', Runs, Runs)
  BY <1>4, CallAdded
<1> QED
  BY <1>1, <1>3, <1>5 DEF Ordered, Apart

(* Commands about ports are no part of a request for a state, nor are      *)
(* their events.                                                           *)
LEMMA CommandKinds ==
  /\ \A arg \in Parameters : Entry("COMMAND", "StateSet", arg) \in StateEntries
  /\ \A cmd, arg : cmd # "StateSet" => Entry("COMMAND", cmd, arg) \notin StateEntries
  /\ \A cmd \in {"PortEnable", "PortDisable"} : \A arg \in Parameters :
       PortEvent(cmd, arg) \in PlainEntries \ (StateEntries \cup Signals)
  /\ ErrorEvent("PortUnpopulated") \in PlainEntries \ (StateEntries \cup Signals)
<1>1. /\ "StateSet" \in Parameters /\ "PortEnable" \in Parameters /\ "PortDisable" \in Parameters
      /\ "Error" \in Parameters /\ "PortUnpopulated" \in Parameters
  BY DEF Parameters
<1>2. \A arg \in Parameters : Entry("COMMAND", "StateSet", arg) \in StateEntries
  BY DEF Entry, StateEntries
<1>3. \A cmd, arg : cmd # "StateSet" => Entry("COMMAND", cmd, arg) \notin StateEntries
  BY DEF Entry, StateEntries, StateEvents
<1>4. \A p1 \in Parameters \ {"StateSet", "Error"} : \A arg \in Parameters :
        Entry("EVENT", p1, arg) \in PlainEntries \ (StateEntries \cup Signals)
  BY DEF Entry, StateEntries, StateEvents, PlainEntries, Signals, Ran, Resumed, Stopped, Filled
<1>5. Entry("EVENT", "Error", "PortUnpopulated") \in PlainEntries \ (StateEntries \cup Signals)
  BY <1>1
  DEF Entry, StateEntries, StateEvents, PlainEntries, Signals, Ran, Resumed, Stopped, Filled
<1> QED
  BY <1>1, <1>2, <1>3, <1>4, <1>5 DEF PortEvent, ErrorEvent

(* The same of sequences.                                                  *)
LEMMA PortEventsQuiet ==
  ASSUME NEW arg \in PortNames \cup {"ALL"}, NEW cmd \in {"PortEnable", "PortDisable"},
         NEW now \in SUBSET PortNames
  PROVE  PortEvents(cmd, arg, now) \in Seq(PlainEntries \ (StateEntries \cup Signals))
<1> DEFINE K == PlainEntries \ (StateEntries \cup Signals)
           q1 == IF "IN" \in now THEN <<PortEvent(cmd, "IN")>> ELSE << >>
           q2 == IF "OUT" \in now THEN <<PortEvent(cmd, "OUT")>> ELSE << >>
           q3 == IF now = Ports(arg) THEN <<PortEvent(cmd, arg)>> ELSE << >>
<1>1. arg \in Parameters /\ "IN" \in Parameters /\ "OUT" \in Parameters
  BY DEF Parameters, PortNames
<1>2. PortEvent(cmd, "IN") \in K /\ PortEvent(cmd, "OUT") \in K /\ PortEvent(cmd, arg) \in K
  BY <1>1, CommandKinds
<1> HIDE DEF K
<1>3. \A S : << >> \in Seq(S) /\ \A e \in S : <<e>> \in Seq(S)
  OBVIOUS
<1>4. q1 \in Seq(K) /\ q2 \in Seq(K) /\ q3 \in Seq(K)
  BY <1>2, <1>3
<1>5. PortEvents(cmd, arg, now) = (q1 \o q2) \o q3
  BY DEF PortEvents, InOrder
<1> HIDE DEF q1, q2, q3
<1>6. q1 \o q2 \in Seq(K)
  BY <1>4, ConcatProperties
<1>7. (q1 \o q2) \o q3 \in Seq(K)
  BY <1>4, <1>6, ConcatProperties
<1> QED
  BY <1>5, <1>7 DEF K

(* The command at the head of the queue, as send_command_proxy finds it.   *)
LEMMA ProxyQuieter ==
  ASSUME OwnInv, Contract, NEW cmd, NEW arg, Proxy(cmd, arg), cmd # "StateSet",
         NEW r \in Seq(PlainEntries \ (StateEntries \cup Signals)), Post(r)
  PROVE  Quieter /\ UNCHANGED <<m_state, allocated, leaked, cstate>>
  BY PostedQuieter DEF Proxy, Post

(* A StateSet that sets no bit: it is refused by an error event, which is  *)
(* then the only state entry left, or answered at once.                    *)
LEMMA ProxyRequest ==
  ASSUME OwnInv, Contract, NEW arg \in Parameters, Proxy("StateSet", arg),
         \/ Post(<< >>)
         \/ \E e \in CmdEntries : e \in StateEntries \ Wrong(m_state) /\ Post(<<e>>)
  PROVE  /\ Quieter /\ Has(m_cmd_q, StateEntries)
         /\ Post(<< >>) => ~ Has(m_cmd_q', StateEntries)
         /\ UNCHANGED <<m_state, allocated, leaked, cstate>>
         /\ m_flags \cap StateBits = {} /\ ~ Has(m_cmd_q', Ran) /\ ~ Has(drv_cmds, Runs)
<1>1. m_cmd_q # << >> /\ Head(m_cmd_q) \in StateEntries /\ UNCHANGED <<m_state, allocated, leaked, cstate>>
  BY CommandKinds DEF Proxy
<1>2. ASSUME Post(<< >>) PROVE Quieter /\ Has(m_cmd_q, StateEntries) /\ ~ Has(m_cmd_q', StateEntries)
  <2>1. m_cmd_q' = Tail(m_cmd_q) \o << >> /\ << >> \in Seq(PlainEntries \ (StateEntries \cup Signals))
    BY <1>2 DEF Post
  <2> QED
    BY <1>1, <2>1, PostedQuieter
<1>3. ASSUME NEW e \in CmdEntries, e \in StateEntries \ Wrong(m_state), Post(<<e>>)
      PROVE  Quieter /\ Has(m_cmd_q, StateEntries)
  BY <1>1, <1>3, AnsweredQuieter DEF Post
<1>4. Quieter /\ Has(m_cmd_q, StateEntries)
  BY <1>2, <1>3
<1>5. m_flags \cap StateBits = {}
  BY <1>4 DEF Contract, OneRequest
<1>6. ~ Has(m_cmd_q, Ran) /\ ~ Has(drv_cmds, Runs)
  BY <1>5 DEF Contract, Ordered, StateBits
<1>7. ~ Has(m_cmd_q', Ran)
  BY <1>4, <1>6, Kinds DEF Quieter, Fewer
<1> QED
  BY <1>1, <1>2, <1>4, <1>5, <1>6, <1>7

(* Commands about ports.                                                   *)
LEMMA PortCommandContract ==
  ASSUME ~ rough, OwnInv, Contract, NEW arg \in PortNames \cup {"ALL"},
         FlushCommand(arg) \/ PortEnable(arg) \/ PortDisable(arg)
  PROVE  Contract' /\ Promise
<1>1. Ports(arg) \in SUBSET PortNames
  BY DEF Ports, PortNames
<1> DEFINE K == PlainEntries \ (StateEntries \cup Signals)
<1>2. << >> \in Seq(K)
  OBVIOUS
<1>3. CASE FlushCommand(arg)
  <2>1. Quieter /\ UNCHANGED <<m_state, allocated, leaked, cstate>>
    BY <1>2, <1>3, ProxyQuieter DEF FlushCommand
  <2>2. Returning /\ CallsKept
    BY <1>1, <1>3, <2>1, FlushReturns DEF FlushCommand
  <2>3. m_flags' \cap StateBits = m_flags \cap StateBits
    BY <1>3, BitsDiffer DEF FlushCommand
  <2> QED
    BY <1>3, <2>1, <2>2, <2>3, Aside DEF FlushCommand
<1>4. ASSUME NoFlush, UNCHANGED <<allocated, leaked, driver>> PROVE Returning /\ CallsKept
  BY <1>4 DEF NoFlush, driver, Returning, CallsKept, Fewer, Contract, CallsTyped
<1>5. CASE PortEnable(arg)
  <2> DEFINE quick == m_state = "Loaded" /\ IdlePending \notin m_flags
             now == {port \in Ports(arg) : quick \/ PortAllocated(port, allocated)}
  <2>1. /\ Proxy("PortEnable", arg) /\ Post(PortEvents("PortEnable", arg, now))
        /\ m_flags' = m_flags \cup {EnablePending(port) : port \in Ports(arg) \ now}
        /\ NoFlush /\ UNCHANGED <<driver, owed, m_error_propogated>>
    BY <1>5 DEF PortEnable
  <2>2. PortEvents("PortEnable", arg, now) \in Seq(K)
    BY <1>1, PortEventsQuiet
  <2> HIDE DEF now, K
  <2>3. m_flags' \cap StateBits = m_flags \cap StateBits
    BY <2>1, BitsDiffer
  <2>4. Quieter /\ UNCHANGED <<m_state, allocated, leaked, cstate>>
    BY <2>1, <2>2, ProxyQuieter DEF K
  <2> QED
    BY <1>4, <2>1, <2>3, <2>4, Aside
<1>6. CASE PortDisable(arg)
  <2> DEFINE now == {port \in Ports(arg) : m_state \in {"Loaded", "Idle"}
                                             /\ PortReleased(port, allocated)}
  <2>1. /\ Proxy("PortDisable", arg) /\ Post(PortEvents("PortDisable", arg, now))
        /\ m_flags' = m_flags \cup {DisablePending(port) : port \in Ports(arg) \ now}
        /\ \/ execute_omx_flush(Ports(arg))
           \/ NoFlush /\ UNCHANGED driver
        /\ UNCHANGED <<owed, m_error_propogated>>
    BY <1>6 DEF PortDisable
  <2>2. PortEvents("PortDisable", arg, now) \in Seq(K)
    BY <1>1, PortEventsQuiet
  <2> HIDE DEF now, K
  <2>3. m_flags' \cap StateBits = m_flags \cap StateBits
    BY <2>1, BitsDiffer
  <2>4. Quieter /\ UNCHANGED <<m_state, allocated, leaked, cstate>>
    BY <2>1, <2>2, ProxyQuieter DEF K
  <2>5. Returning /\ CallsKept
    BY <1>1, <1>4, <2>1, <2>4, FlushReturns
  <2> QED
    BY <2>1, <2>3, <2>4, <2>5, Aside
<1> QED
  BY <1>3, <1>5, <1>6

(* Requests for a state.                                                   *)
LEMMA RequestContract ==
  ASSUME ~ rough, OwnInv, Contract,
         \/ Loaded_Idle \/ Idle_Loaded \/ Executing_Idle \/ Executing_Pause \/ Pause_Executing
         \/ \E eState \in States : Granted(eState)
         \/ Idle_Start("Executing", ExecutePending) \/ Idle_Start("Pause", PausePending)
         \/ \E eState \in States \cup {"Invalid"} : Rejected(eState)
  PROVE  Contract' /\ Promise
<1> DEFINE Request(eState) ==
             /\ Quieter /\ Has(m_cmd_q, StateEntries)
             /\ Post(<< >>) => ~ Has(m_cmd_q', StateEntries)
             /\ UNCHANGED <<m_state, allocated, leaked, cstate>>
             /\ m_flags \cap StateBits = {} /\ ~ Has(m_cmd_q', Ran) /\ ~ Has(drv_cmds, Runs)
<1>1. States \cup {"Invalid"} \subseteq Parameters
  BY DEF Parameters
<1>2. ASSUME NEW eState \in Parameters, Proxy("StateSet", eState), Post(<< >>)
      PROVE  Request(eState)
  BY <1>2, ProxyRequest
<1>3. ASSUME NEW eState \in Parameters, NEW arg \in Parameters, Proxy("StateSet", eState),
             Post(<<Entry("EVENT", "StateSet", arg)>>), <<m_state, arg>> \in Quick
      PROVE  Request(eState)
  <2> DEFINE e == Entry("EVENT", "StateSet", arg)
  <2>1. e \in StateEntries \ Wrong(m_state)
    BY <1>3 DEF Entry, StateEntries, StateEvents, Wrong
  <2>2. e \in CmdEntries
    BY DEF Entry, CmdEntries, PlainEntries, Parameters
  <2> QED
    BY <1>3, <2>1, <2>2, ProxyRequest
<1>4. ASSUME NEW eState \in Parameters, NEW error \in Parameters \ {"PortUnpopulated"},
             Proxy("StateSet", eState), Post(<<ErrorEvent(error)>>)
      PROVE  Request(eState)
  <2> DEFINE e == ErrorEvent(error)
  <2>1. e \in StateEntries \ Wrong(m_state)
    BY DEF ErrorEvent, Entry, StateEntries, StateEvents, Wrong
  <2>2. e \in CmdEntries
    BY DEF ErrorEvent, Entry, CmdEntries, PlainEntries, Parameters
  <2> QED
    BY <1>4, <2>1, <2>2, ProxyRequest
<1>5. ASSUME Contract', held \subseteq held', UNCHANGED <<m_state, allocated, leaked>> PROVE Promise
  BY <1>5 DEF Promise, Lent
<1>6. ASSUME NoFlush, UNCHANGED <<allocated, leaked, drv_held>> PROVE Returning
  BY <1>6 DEF NoFlush, Returning
<1>7. ASSUME UNCHANGED driver PROVE CallsKept /\ UNCHANGED drv_held
  BY <1>7 DEF driver, CallsKept, Fewer, Contract, CallsTyped
<1>8. ASSUME NEW call, Accept(call) PROVE UNCHANGED drv_held
  BY <1>8 DEF Accept
<1>9. \A bit \in StateBits : bit \notin m_flags
             => ({bit} \subseteq StateBits /\ m_flags \cap {bit} = {})
  OBVIOUS
<1>10. StateBits = {IdlePending, LoadingPending, ExecutePending, PausePending}
  BY DEF StateBits
<1> HIDE DEF Request
<1>11. ASSUME NEW eState, Request(eState)
       PROVE  /\ Quieter /\ Has(m_cmd_q, StateEntries) /\ Fewer(m_cmd_q, m_cmd_q', Signals)
              /\ Post(<< >>) => ~ Has(m_cmd_q', StateEntries)
              /\ UNCHANGED <<m_state, allocated, leaked, cstate>>
              /\ IdlePending \notin m_flags /\ LoadingPending \notin m_flags
              /\ ExecutePending \notin m_flags /\ PausePending \notin m_flags
              /\ ~ Has(m_cmd_q', Ran) /\ ~ Has(drv_cmds, Runs)
  BY <1>10, <1>11 DEF Request, Quieter
<1>12. ASSUME NEW eState, Request(eState), NoFlush, UNCHANGED <<owed, m_error_propogated, drv_held>>,
              m_flags' = m_flags, Ordered', CallsTyped'
       PROVE  Contract' /\ Promise
  <2>1. OneRequest' /\ InStep'
    BY <1>11, <1>12, RequestSettled
  <2>2. Lending'
    BY <1>6, <1>11, <1>12, LendingKept
  <2> QED
    BY <1>5, <1>11, <1>12, <2>1, <2>2 DEF Contract, NoFlush
<1>13. ASSUME NEW eState, Request(eState), NoFlush, UNCHANGED <<owed, m_error_propogated, drv_held>>,
              ~ Has(m_cmd_q', StateEntries), Ordered', CallsTyped',
              NEW bit \in StateBits, m_flags' = m_flags \cup {bit},
              bit = LoadingPending => m_state = "Idle",
              bit = ExecutePending => m_state \in {"Idle", "Pause"},
              bit = PausePending => m_state \in {"Idle", "Executing"},
              bit = IdlePending => m_state = "Loaded"
       PROVE  Contract' /\ Promise
  <2>1. OneRequest' /\ InStep'
    BY <1>11, <1>13, RequestSettled
  <2>2. m_state \in Processes /\ IdlePending \in m_flags' => IdlePending \in m_flags
    BY <1>13 DEF Processes
  <2>3. Lending'
    BY <1>6, <1>11, <1>13, <2>2, LendingKept
  <2> QED
    BY <1>5, <1>11, <1>13, <2>1, <2>3 DEF Contract, NoFlush
<1>14. ASSUME NEW eState, Request(eState), UNCHANGED driver, m_flags \subseteq m_flags'
       PROVE  Ordered' /\ CallsTyped'
  BY <1>7, <1>11, <1>14, OrderedKept DEF CallsKept
<1>15. CASE Loaded_Idle
  <2>1. /\ m_state = "Loaded" /\ Proxy("StateSet", "Idle") /\ "Idle" \in Parameters
        /\ NoFlush /\ UNCHANGED <<driver, owed, m_error_propogated>>
        /\ \/ Post(<<Entry("EVENT", "StateSet", "Idle")>>) /\ m_flags' = m_flags
           \/ Post(<< >>) /\ m_flags' = m_flags \cup {IdlePending}
    BY <1>1, <1>15 DEF Loaded_Idle, States
  <2>2. <<m_state, "Idle">> \in Quick
    BY <2>1 DEF Quick
  <2>3. Request("Idle")
    BY <1>2, <1>3, <2>1, <2>2
  <2>4. Ordered' /\ CallsTyped' /\ UNCHANGED drv_held
    BY <1>7, <1>14, <2>1, <2>3
  <2> QED
    BY <1>10, <1>11, <1>12, <1>13, <2>1, <2>3, <2>4, BitsDiffer
<1>16. ASSUME NEW eState \in States, Granted(eState) PROVE Contract' /\ Promise
  <2>1. /\ Proxy("StateSet", eState) /\ eState \in Parameters /\ <<m_state, eState>> \in Quick
        /\ NoFlush /\ UNCHANGED <<driver, owed, m_error_propogated, m_flags>>
        /\ Post(<<Entry("EVENT", "StateSet", eState)>>)
    BY <1>1, <1>16 DEF Granted, Quick
  <2>2. Request(eState)
    BY <1>3, <2>1
  <2>3. Ordered' /\ CallsTyped' /\ UNCHANGED drv_held
    BY <1>7, <1>14, <2>1, <2>2
  <2> QED
    BY <1>12, <2>1, <2>2, <2>3
<1>17. ASSUME NEW eState \in States \cup {"Invalid"}, Rejected(eState) PROVE Contract' /\ Promise
  <2>1. /\ Proxy("StateSet", eState) /\ eState \in Parameters
        /\ NoFlush /\ UNCHANGED <<driver, owed, m_error_propogated, m_flags>>
        /\ \E error \in Parameters \ {"PortUnpopulated"} : Post(<<ErrorEvent(error)>>)
    BY <1>1, <1>17 DEF Rejected, Parameters
  <2>2. Request(eState)
    BY <1>4, <2>1
  <2>3. Ordered' /\ CallsTyped' /\ UNCHANGED drv_held
    BY <1>7, <1>14, <2>1, <2>2
  <2> QED
    BY <1>12, <2>1, <2>2, <2>3
<1>18. CASE Idle_Loaded
  <2>1. /\ m_state = "Idle" /\ Proxy("StateSet", "Loaded") /\ "Loaded" \in Parameters
        /\ NoFlush /\ UNCHANGED <<owed, m_error_propogated>>
        /\ \/ Post(<<Entry("EVENT", "StateSet", "Loaded")>>) /\ Accept("STOP") /\ m_flags' = m_flags
           \/ Post(<< >>) /\ UNCHANGED driver /\ m_flags' = m_flags \cup {LoadingPending}
    BY <1>1, <1>18, NoRefusal DEF Idle_Loaded, States
  <2>2. <<m_state, "Loaded">> \in Quick /\ m_state \notin Processes
    BY <2>1 DEF Quick, Processes
  <2>3. Request("Loaded")
    BY <1>2, <1>3, <2>1, <2>2
  <2>4. Ordered' /\ CallsTyped' /\ UNCHANGED drv_held
    <3>1. CASE UNCHANGED driver
      BY <1>7, <1>14, <2>1, <2>3, <3>1
    <3>2. CASE Accept("STOP")
      BY <1>8, <1>11, <2>2, <2>3, <3>2, StopAsked
    <3> QED
      BY <2>1, <3>1, <3>2
  <2> QED
    BY <1>10, <1>11, <1>12, <1>13, <2>1, <2>3, <2>4, BitsDiffer
<1>19. ASSUME NEW eState \in States, NEW bit \in {ExecutePending, PausePending}, Idle_Start(eState, bit)
       PROVE  Contract' /\ Promise
  <2>1. /\ m_state = "Idle" /\ Proxy("StateSet", eState) /\ eState \in Parameters
        /\ NoFlush /\ UNCHANGED <<owed, m_error_propogated>>
        /\ Post(<< >>) /\ Accept("START") /\ m_flags' = m_flags \cup {bit}
    BY <1>1, <1>19, NoRefusal DEF Idle_Start
  <2>2. Request(eState)
    BY <1>2, <2>1
  <2>3. Ordered' /\ CallsTyped'
    <3>1. "START" \in Runs
      BY DEF Runs
    <3>2. PausePending \in m_flags' \/ (ExecutePending \in m_flags' /\ m_state = "Idle")
      BY <1>19, <2>1
    <3> QED
      BY <1>11, <2>1, <2>2, <3>1, <3>2, RunAsked
  <2> QED
    BY <1>8, <1>10, <1>11, <1>13, <2>1, <2>2, <2>3, BitsDiffer
<1>20. CASE Executing_Pause
  <2>1. /\ m_state = "Executing" /\ Proxy("StateSet", "Pause") /\ "Pause" \in Parameters
        /\ NoFlush /\ UNCHANGED <<owed, m_error_propogated>>
        /\ Post(<< >>) /\ Accept("PAUSE") /\ m_flags' = m_flags \cup {PausePending}
    BY <1>1, <1>20, NoRefusal DEF Executing_Pause, States
  <2>2. Request("Pause")
    BY <1>2, <2>1
  <2>3. Ordered' /\ CallsTyped'
    <3>1. "PAUSE" \in Runs
      BY DEF Runs
    <3> QED
      BY <1>11, <2>1, <2>2, <3>1, RunAsked
  <2> QED
    BY <1>8, <1>10, <1>11, <1>13, <2>1, <2>2, <2>3, BitsDiffer
<1>21. CASE Executing_Idle
  <2>1. /\ m_state \in {"Executing", "Pause"} /\ Proxy("StateSet", "Idle") /\ "Idle" \in Parameters
        /\ Post(<< >>) /\ m_flags' = m_flags \cup {IdlePending}
        /\ execute_omx_flush(PortNames) /\ UNCHANGED <<owed, m_error_propogated>>
    BY <1>1, <1>21 DEF Executing_Idle, States
  <2>2. Request("Idle")
    BY <1>2, <2>1
  <2>3. Returning /\ CallsKept /\ m_ftb_q' = << >> /\ m_etb_q' = << >>
    BY <1>11, <2>1, <2>2, FlushReturns
  <2>4. OneRequest' /\ InStep'
    BY <1>10, <1>11, <2>1, <2>2, <2>3, RequestSettled, BitsDiffer DEF Returning
  <2>5. Ordered' /\ CallsTyped'
    BY <1>11, <2>1, <2>2, <2>3, OrderedKept DEF CallsKept
  <2>6. Lending'
    <3>1. Has(m_cmd_q', Stopped) => Has(m_cmd_q, Stopped)
      BY <1>11, <2>2, Kinds DEF Fewer
    <3>2. m_state' = m_state /\ m_state \in Processes
      BY <1>11, <2>1, <2>2 DEF Processes
    <3>3. ~ Has(m_etb_q', Given)
      BY <2>3, EmptyHas
    <3> QED
      BY <2>3, <3>1, <3>2, <3>3 DEF Lending, Contract, Returning
  <2> QED
    BY <1>5, <1>11, <2>2, <2>3, <2>4, <2>5, <2>6 DEF Contract, Returning
<1>22. CASE Pause_Executing
  <2> DEFINE e == Entry("RESUME_DONE", "-", "-")
             t == Tail(m_cmd_q)
  <2>1. /\ m_state = "Pause" /\ Proxy("StateSet", "Executing") /\ "Executing" \in Parameters
        /\ NoFlush /\ UNCHANGED <<owed, m_error_propogated>>
        /\ Post(<<e>>) /\ Accept("RESUME") /\ m_flags' = m_flags \cup {ExecutePending}
    BY <1>1, <1>22, NoRefusal DEF Pause_Executing, States
  <2>2. /\ m_cmd_q \in Seq(CmdEntries) /\ m_cmd_q # << >> /\ Head(m_cmd_q) \in StateEntries
        /\ t \in Seq(CmdEntries) /\ m_cmd_q' = t \o <<e>>
        /\ UNCHANGED <<m_state, allocated, leaked, cstate>>
    BY <2>1, CommandKinds DEF Proxy, Post, OwnInv, QueuesTyped
  <2>3. e \in CmdEntries
    BY DEF Entry, CmdEntries, PlainEntries, Parameters
  <2>4. /\ AtMostOne(m_cmd_q, StateEntries) /\ ~ Has(m_cmd_q, Wrong(m_state)) /\ Ordered
        /\ Has(m_cmd_q, StateEntries) => m_flags \cap StateBits = {}
    BY DEF Contract, OneRequest, InStep
  <2>5. Has(m_cmd_q, StateEntries) /\ ~ Has(t, StateEntries) /\ Fewer(m_cmd_q, t, Signals)
    BY <2>2, <2>4, TailHas, FewerTail
  <2>6. /\ IdlePending \notin m_flags /\ ExecutePending \notin m_flags /\ PausePending \notin m_flags
    BY <1>10, <2>4, <2>5
  <2> HIDE DEF e, t
  <2>7. m_cmd_q' = Append(t, e)
    BY <2>2, <2>3, AppendIsConcat
  <2>8. e \in Resumed /\ e \notin Ran /\ e \notin Stopped /\ e \notin Filled /\ e \notin StateEntries
    BY DEF e, Resumed, Ran, Stopped, Filled, StateEntries, StateEvents, Entry, Parameters
  <2>9. ~ Has(m_cmd_q, Ran) /\ ~ Has(m_cmd_q, Stopped) /\ ~ Has(drv_cmds, {"STOP"})
        /\ ~ Has(drv_cmds, Runs) /\ m_state \in Processes
    BY <2>1, <2>4, <2>6 DEF Ordered, Processes
  <2>10. ~ Has(t, Ran) /\ ~ Has(t, Stopped)
    BY <2>5, <2>9, Kinds DEF Fewer
  <2>11. /\ ~ Has(m_cmd_q', Ran) /\ ~ Has(m_cmd_q', Stopped) /\ ~ Has(m_cmd_q', StateEntries)
    <3>1. \A D : Has(Append(t, e), D) <=> Has(t, D) \/ e \in D
      BY <2>2, <2>3, AppendHas
    <3> QED
      BY <2>5, <2>7, <2>8, <2>10, <3>1
  <2>12. \A D, F : ~ Has(m_cmd_q', D) => Before(m_cmd_q', D, F) /\ AtMostOne(m_cmd_q', D)
    BY DEF Has, Before, AtMostOne
  <2>13. "RESUME" \in Calls /\ "RESUME" \notin Runs
    BY DEF Calls, Runs
  <2>14. CallsTyped' /\ UNCHANGED drv_held
         /\ ~ Has(drv_cmds', {"STOP"}) /\ ~ Has(drv_cmds', Runs)
         /\ Before(drv_cmds', Runs, {"STOP"}) /\ Before(drv_cmds', {"STOP"}, {"RESUME"})
         /\ Before(drv_cmds', Runs, Runs)
    BY <2>1, <2>9, <2>13, CallAdded
  <2>15. Ordered'
    BY <2>2, <2>9, <2>11, <2>12, <2>14 DEF Ordered, Apart
  <2>16. OneRequest'
    <3>1. m_flags' \cap StateBits = {ExecutePending}
      BY <1>10, <2>1, <2>4, <2>5
    <3>2. Awaits'
      BY <2>1, <2>5 DEF Contract, OneRequest, Awaits
    <3> QED
      BY <2>11, <2>12, <3>1, <3>2 DEF OneRequest
  <2>17. InStep'
    <3>1. ~ Has(m_cmd_q', Wrong(m_state'))
      BY <2>11, Kinds
    <3>2. ~ (IdlePending \in m_flags') /\ ~ (PausePending \in m_flags')
      BY <2>1, <2>6, BitsDiffer
    <3>3. LoadingPending \notin m_flags'
      BY <1>10, <2>1, <2>4, <2>5, BitsDiffer
    <3> QED
      BY <2>1, <2>2, <3>1, <3>2, <3>3 DEF Contract, InStep
  <2>18. Lending'
    <3>1. IdlePending \notin m_flags'
      BY <2>1, <2>6, BitsDiffer
    <3> QED
      BY <2>2, <2>9, <2>11, <3>1 DEF Lending
  <2> QED
    BY <1>5, <2>1, <2>2, <2>14, <2>15, <2>16, <2>17, <2>18 DEF Contract, NoFlush
<1> QED
  BY <1>15, <1>16, <1>17, <1>18, <1>19, <1>20, <1>21, <1>22 DEF States

(* An event or answer at the head of the queue.                            *)
LEMMA TakenHead ==
  ASSUME OwnInv, Contract, NEW id, Take(id)
  PROVE  /\ Quieter /\ Fewer(m_cmd_q, m_cmd_q', Signals)
         /\ m_cmd_q \in Seq(CmdEntries) /\ m_cmd_q # << >> /\ m_cmd_q' = Tail(m_cmd_q)
         /\ Head(m_cmd_q) \in CmdEntries /\ Head(m_cmd_q).id = id
         /\ Head(m_cmd_q) \in StateEntries =>
              /\ Has(m_cmd_q, StateEntries) /\ ~ Has(m_cmd_q', StateEntries)
              /\ m_flags \cap StateBits = {} /\ Head(m_cmd_q) \notin Wrong(m_state)
         /\ ~ Has(m_cmd_q, StateEntries) => ~ Has(m_cmd_q', StateEntries)
<1>1. m_cmd_q \in Seq(CmdEntries) /\ m_cmd_q # << >> /\ m_cmd_q' = Tail(m_cmd_q)
      /\ Head(m_cmd_q).id = id
  BY DEF Take, OwnInv, QueuesTyped
<1>2. Head(m_cmd_q) \in CmdEntries
  BY <1>1
<1>3. Quieter /\ (Head(m_cmd_q) \in StateEntries =>
                    Has(m_cmd_q, StateEntries) /\ ~ Has(m_cmd_q', StateEntries))
  BY <1>1, TakenQuieter
<1>4. Head(m_cmd_q) \notin Wrong(m_state)
  BY <1>1, TailHas DEF Contract, InStep
<1> QED
  BY <1>1, <1>2, <1>3, <1>4 DEF Quieter, Contract, OneRequest

(* A pending state is entered when nothing else is under way.              *)
LEMMA Entered ==
  ASSUME OwnInv, Contract, NEW id, Take(id), NEW bit \in StateBits, bit \in m_flags,
         NEW state \in States, Enter(state, bit), UNCHANGED <<m_error_propogated, leaked>>
  PROVE  /\ OneRequest' /\ InStep' /\ m_flags' \cap StateBits = {}
         /\ m_flags \cap StateBits = {bit} /\ ~ Has(m_cmd_q, StateEntries)
<1>1. m_flags \cap StateBits = {bit} /\ ~ Has(m_cmd_q, StateEntries)
  BY DEF Contract, OneRequest
<1>2. m_flags' \cap StateBits = {} /\ m_state' = state /\ cstate' = state
  BY <1>1 DEF Enter
<1>3. ~ Has(m_cmd_q', StateEntries) /\ AtMostOne(m_cmd_q', StateEntries)
  BY <1>1, TakenHead DEF Quieter
<1>4. OneRequest'
  BY <1>2, <1>3 DEF OneRequest
<1>5. InStep'
  <2>1. ~ Has(m_cmd_q', Wrong(m_state'))
    BY <1>3, Kinds
  <2>2. \A x \in StateBits : x \notin m_flags'
    BY <1>2
  <2> QED
    BY <1>2, <2>1, <2>2 DEF InStep, Contract, StateBits
<1> QED
  BY <1>1, <1>2, <1>4, <1>5

(* Nothing is asked of the driver.                                         *)
LEMMA NoCall == ASSUME Contract, UNCHANGED driver PROVE CallsKept /\ UNCHANGED drv_held
  BY DEF driver, CallsKept, Fewer, Contract, CallsTyped

(* The StateSet event reaches the client together with the new state.      *)
LEMMA StateSetContract == ASSUME OwnInv, Contract, StateSetEvent PROVE Contract' /\ Promise
<1> DEFINE h == Head(m_cmd_q)
<1>1. /\ Take("EVENT") /\ h.p1 = "StateSet" /\ m_state' = h.p2 /\ cstate' = h.p2
      /\ UNCHANGED <<m_flags, m_etb_q, m_ftb_q, allocated, leaked, m_error_propogated, driver, held>>
  BY DEF StateSetEvent, ports
<1>2. h \in CmdEntries /\ h.id = "EVENT"
  BY <1>1, TakenHead
<1>3. h \in StateEvents
  BY <1>1, <1>2 DEF CmdEntries, PlainEntries, StateEvents
<1>4. h \in StateEntries
  BY <1>3 DEF StateEntries
<1>5. /\ Quieter /\ Fewer(m_cmd_q, m_cmd_q', Signals) /\ ~ Has(m_cmd_q', StateEntries)
      /\ m_flags \cap StateBits = {} /\ h \notin Wrong(m_state)
  BY <1>1, <1>4, TakenHead
<1> HIDE DEF h
<1>6. <<m_state, m_state'>> \in Quick
  BY <1>1, <1>3, <1>5 DEF Wrong
<1>7. /\ m_state \notin Processes /\ m_state' \notin Processes
      /\ m_state' \in States /\ <<m_state, m_state'>> \in IL!Edges
  BY <1>6 DEF Quick, Processes, States, IL!Edges
<1>8. CallsKept /\ Returning
  BY <1>1, NoCall DEF Returning
<1>9. Ordered' /\ Lending'
  BY <1>5, <1>7, <1>8, OrderedKept, LendingKept DEF CallsKept, Contract, InStep, Returning, Processes, Lending
<1>10. OneRequest'
  BY <1>1, <1>5 DEF OneRequest, Quieter
<1>11. InStep'
  <2>1. ~ Has(m_cmd_q', Wrong(m_state'))
    BY <1>5, Kinds
  <2>2. \A x \in StateBits : x \notin m_flags'
    BY <1>1, <1>5
  <2> QED
    BY <1>1, <1>7, <2>1, <2>2 DEF InStep, Contract, StateBits
<1>12. Promise
  <2>1. Lent' = Lent /\ Lent = {}
    BY <1>1, <1>7 DEF Lent, Contract, Lending
  <2> QED
    BY <1>7, <2>1 DEF Promise
<1> QED
  BY <1>8, <1>9, <1>10, <1>11, <1>12 DEF Contract, CallsKept

(* Events about ports, errors, and the end of a flush.                     *)
LEMMA PortEventContract == ASSUME OwnInv, Contract, PortOrErrorEvent PROVE Contract' /\ Promise
<1> DEFINE h == Head(m_cmd_q)
<1>1. /\ Take("EVENT")
      /\ UNCHANGED <<m_state, cstate, m_flags, m_etb_q, m_ftb_q, allocated, leaked,
                     m_error_propogated, driver, held>>
  BY DEF PortOrErrorEvent, ports
<1>2. CallsKept /\ Returning
  BY <1>1, NoCall DEF Returning
<1>3. /\ Quieter /\ h \in CmdEntries /\ h.id = "EVENT"
      /\ h \in StateEntries => ~ Has(m_cmd_q', StateEntries) /\ m_flags \cap StateBits = {}
  BY <1>1, TakenHead
<1>4. CASE h.p1 \in {"PortEnable", "PortDisable"} /\ Completed(h.p1, h.p2)
  <2>1. Awaits => owed' = owed
    BY <1>4, AwaitsState DEF Completed
  <2> QED
    BY <1>1, <1>2, <1>3, <2>1, Aside
<1>5. CASE UNCHANGED owed
  BY <1>1, <1>2, <1>3, <1>5, Aside
<1>6. CASE h.p1 = "Error" /\ h # ErrorEvent("PortUnpopulated") /\ GiveUp
  <2>1. h \in StateEntries
    BY <1>3, <1>6 DEF CmdEntries, PlainEntries, StateEntries, ErrorEvent, Entry
  <2>2. OneRequest'
    BY <1>1, <1>3, <2>1 DEF OneRequest, Quieter
  <2>3. InStep'
    BY <1>1, <1>3 DEF Contract, InStep, Quieter
  <2>4. Ordered' /\ Lending'
    BY <1>1, <1>2, <1>3, OrderedKept, LendingKept DEF CallsKept, Quieter
  <2>5. Promise
    BY <1>1 DEF Promise, Lent
  <2> QED
    BY <1>2, <2>2, <2>3, <2>4, <2>5 DEF Contract, CallsKept
<1> QED
  BY <1>4, <1>5, <1>6 DEF PortOrErrorEvent

(* The end of a flush: the client is told of its Flush, or the driver is   *)
(* stopped on the way to Idle.                                             *)
LEMMA FlushDoneContract ==
  ASSUME ~ rough, OwnInv, Contract, NEW port \in PortNames, FlushDone(port)
  PROVE  Contract' /\ Promise
<1>1. /\ \E id : Take(id)
      /\ UNCHANGED <<m_state, cstate, m_etb_q, m_ftb_q, allocated, leaked, held>>
  BY DEF FlushDone, ports
<1>2. Quieter
  BY <1>1, TakenHead
<1>3. CASE m_flags' = m_flags \ {FlushPending(port)} /\ Completed("Flush", port)
            /\ UNCHANGED <<driver, m_error_propogated>>
  <2>1. m_flags' \cap StateBits = m_flags \cap StateBits
    BY <1>3, BitsDiffer
  <2>2. Awaits => owed' = owed
    BY <1>3, AwaitsState DEF Completed
  <2> QED
    BY <1>1, <1>2, <1>3, <2>1, <2>2, NoCall, Aside DEF Returning
<1>4. CASE UNCHANGED <<m_flags, driver, owed, m_error_propogated>>
  BY <1>1, <1>2, <1>4, NoCall, Aside DEF Returning
<1>5. CASE /\ IdlePending \in m_flags /\ Accept("STOP")
           /\ UNCHANGED <<owed, m_error_propogated, m_flags>>
  <2>1. ExecutePending \notin m_flags /\ PausePending \notin m_flags
    BY <1>5, BitsDiffer DEF Contract, OneRequest, StateBits
  <2>2. Ordered' /\ CallsTyped'
    BY <1>1, <1>2, <1>5, <2>1, StopAsked DEF Quieter
  <2>3. Returning
    BY <1>1, <1>5 DEF Accept, Returning
  <2>4. Lending'
    BY <1>1, <1>2, <1>5, <2>3, LendingKept DEF Quieter
  <2>5. OneRequest' /\ InStep'
    BY <1>1, <1>2, <1>5 DEF Contract, OneRequest, InStep, Quieter, Awaits
  <2>6. Promise
    BY <1>1 DEF Promise, Lent
  <2> QED
    BY <2>2, <2>4, <2>5, <2>6 DEF Contract
<1> QED
  BY <1>3, <1>4, <1>5, NoRefusal DEF FlushDone

(* complete_pending_buffer_done_cbs leaves the submissions of the queue.   *)
LEMMA PendingLeaves ==
  ASSUME OwnInv, complete_pending_buffer_done_cbs
  PROVE  /\ m_etb_q' \in Seq({e \in EtbEntries : e.id # "EBD"})
         /\ Has(m_etb_q', Given) => Has(m_etb_q, Given)
         /\ held \subseteq held'
<1> DEFINE r == Kept(m_etb_q, "EBD")
<1>1. m_etb_q \in Seq(EtbEntries)
  BY DEF OwnInv, QueuesTyped
<1>2. m_etb_q' = r
  BY DEF complete_pending_buffer_done_cbs, Others, Kept, Keeps, KeepStep
<1>3. /\ r \in Seq({e \in EtbEntries : e.id # "EBD"})
      /\ NamedIn(r, Buffers)
           = {b \in Buffers :
               \E i \in DOMAIN m_etb_q : m_etb_q[i].id # "EBD" /\ b \in Named(m_etb_q[i])}
      /\ Once(m_etb_q, Buffers) => Once(r, Buffers)
  BY <1>1, KeptNamed
<1> HIDE DEF r
<1>4. ASSUME Has(r, Given) PROVE Has(m_etb_q, Given)
  <2>1. PICK i \in DOMAIN r : r[i] \in Given
    BY <1>4 DEF Has
  <2>2. PICK b \in InBuffers : b \in Named(r[i])
    BY <2>1 DEF Given, Named
  <2>3. b \in NamedIn(r, Buffers)
    BY <2>1, <2>2 DEF NamedIn, Buffers
  <2>4. PICK j \in DOMAIN m_etb_q : m_etb_q[j].id # "EBD"
    BY <1>3, <2>3
  <2>5. m_etb_q[j] \in EtbEntries
    BY <1>1, <2>4
  <2>6. m_etb_q[j] \in Given
    BY <2>4, <2>5 DEF EtbEntries, Given
  <2> QED
    BY <2>6 DEF Has
<1>5. held \subseteq held'
  BY DEF complete_pending_buffer_done_cbs
<1> QED
  BY <1>2, <1>3, <1>4, <1>5

(* An answer of the driver at the head of the queue.                       *)
LEMMA SignalHead ==
  \A e \in CmdEntries :
    /\ e.id \in {"START_DONE", "PAUSE_DONE"} => e \in Ran
    /\ e.id = "RESUME_DONE" => e \in Resumed
    /\ e.id = "STOP_DONE" => e \in Stopped
    /\ e.id = "FBD" => e \in Filled
  BY DEF CmdEntries, PlainEntries, Ran, Resumed, Stopped, Filled

(* A buffer returned.                                                      *)
LEMMA ReturnContract ==
  ASSUME OwnInv, Contract, fill_buffer_done \/ empty_buffer_done
  PROVE  Contract' /\ Promise
<1>1. CASE fill_buffer_done
  BY <1>1, TakenHead, NoCall, Aside DEF fill_buffer_done, ports, Returning
<1>2. CASE empty_buffer_done
  <2>1. m_etb_q \in Seq(EtbEntries) /\ m_etb_q # << >> /\ m_etb_q' = Tail(m_etb_q)
    BY <1>2 DEF empty_buffer_done, OwnInv, QueuesTyped
  <2>2. Has(m_etb_q', Given) => Has(m_etb_q, Given)
    BY <2>1, TailHas
  <2>3. Quieter
    BY <1>2 DEF empty_buffer_done, Quieter, Fewer, Contract, OneRequest, InStep
  <2> QED
    BY <1>2, <2>2, <2>3, NoCall, Aside DEF empty_buffer_done, ports, Returning
<1> QED
  BY <1>1, <1>2

(* A state of processing is entered with an answer: no stop, start or      *)
(* pause may then be under way.                                            *)
LEMMA RunEntered ==
  ASSUME OwnInv, Contract, NEW id, Take(id), NEW bit \in {ExecutePending, PausePending},
         bit \in m_flags, NEW state \in Processes, Enter(state, bit),
         <<m_state, state>> \in IL!Edges, Returning, UNCHANGED <<driver, m_error_propogated>>,
         ~ Has(m_cmd_q', Ran), ~ Has(m_cmd_q', Stopped),
         ~ Has(drv_cmds, {"STOP"}), ~ Has(drv_cmds, Runs)
  PROVE  Contract' /\ Promise
<1>1. bit \in StateBits /\ state \in States
  BY DEF StateBits, States, Processes
<1>2. OneRequest' /\ InStep' /\ m_flags' \cap StateBits = {}
  BY <1>1, Entered DEF Returning
<1>3. m_state' = state /\ IdlePending \notin m_flags'
  BY <1>2 DEF Enter, StateBits
<1>4. CallsKept /\ drv_cmds' = drv_cmds
  BY NoCall DEF driver
<1>5. Fewer(m_cmd_q, m_cmd_q', Signals)
  BY TakenHead
<1>6. /\ Before(m_cmd_q', Stopped, Filled) /\ Before(m_cmd_q', Ran, Stopped)
      /\ Before(m_cmd_q', Stopped, Resumed) /\ Before(m_cmd_q', Ran, Ran)
  BY <1>5, Kinds DEF Fewer, Contract, Ordered, Apart
<1>7. Ordered'
  BY <1>3, <1>4, <1>6 DEF Contract, Ordered, Apart
<1>8. Lending'
  BY <1>3 DEF Lending
<1>9. Promise
  BY <1>3 DEF Promise, Lent, Returning
<1> QED
  BY <1>2, <1>4, <1>7, <1>8, <1>9 DEF Contract, CallsKept

(* Nothing of a stop follows the answer to a start or pause, nor does      *)
(* another such answer.                                                    *)
LEMMA RanHead ==
  ASSUME OwnInv, Contract, NEW id \in {"START_DONE", "PAUSE_DONE"}, Take(id)
  PROVE  /\ ~ Has(m_cmd_q', Ran) /\ ~ Has(m_cmd_q', Stopped)
         /\ ~ Has(drv_cmds, {"STOP"}) /\ ~ Has(drv_cmds, Runs)
         /\ PausePending \in m_flags \/ (ExecutePending \in m_flags /\ m_state = "Idle")
<1>1. /\ m_cmd_q \in Seq(CmdEntries) /\ m_cmd_q # << >> /\ m_cmd_q' = Tail(m_cmd_q)
      /\ Head(m_cmd_q) \in Ran
  BY TakenHead, SignalHead
<1>2. Has(m_cmd_q, Ran)
  BY <1>1, TailHas
<1>3. Ordered
  BY DEF Contract
<1>4. Before(m_cmd_q, Ran, Stopped) /\ Before(m_cmd_q, Ran, Ran)
  BY <1>3 DEF Ordered, Apart
<1>5. ~ Has(m_cmd_q', Ran) /\ ~ Has(m_cmd_q', Stopped)
  BY <1>1, <1>4, TailBefore
<1> QED
  BY <1>2, <1>3, <1>5 DEF Ordered, Apart

(* START_DONE and PAUSE_DONE enter the state that was asked for.           *)
LEMMA RunDoneContract ==
  ASSUME ~ rough, OwnInv, Contract, START_DONE \/ PAUSE_DONE
  PROVE  Contract' /\ Promise
<1>0. ~ (ExecutePending \in m_flags /\ PausePending \in m_flags)
  BY BitsDiffer DEF Contract, OneRequest, StateBits
<1>1. CASE START_DONE
  <2>1. Take("START_DONE") /\ UNCHANGED <<m_ftb_q, m_etb_q, allocated, leaked, held>>
    BY <1>1 DEF START_DONE, ports
  <2>2. /\ ~ Has(m_cmd_q', Ran) /\ ~ Has(m_cmd_q', Stopped)
        /\ ~ Has(drv_cmds, {"STOP"}) /\ ~ Has(drv_cmds, Runs)
        /\ PausePending \in m_flags \/ (ExecutePending \in m_flags /\ m_state = "Idle")
    BY <2>1, RanHead
  <2>3. Quieter
    BY <2>1, TakenHead
  <2>4. CASE ExecutePending \in m_flags /\ Enter("Executing", ExecutePending)
             /\ UNCHANGED <<driver, m_error_propogated>>
    <3>1. Returning
      BY <2>1, <2>4 DEF Returning, driver
    <3>2. <<m_state, "Executing">> \in IL!Edges /\ "Executing" \in Processes
      BY <1>0, <2>2, <2>4 DEF IL!Edges, Processes
    <3> QED
      BY <2>1, <2>2, <2>4, <3>1, <3>2, RunEntered
  <2>5. CASE /\ PausePending \in m_flags /\ Accept("PAUSE")
             /\ UNCHANGED <<m_state, m_flags, owed, cstate, m_error_propogated>>
    <3>1. "PAUSE" \in Runs
      BY DEF Runs
    <3>2. Ordered' /\ CallsTyped'
      BY <2>2, <2>3, <2>5, <3>1, RunAsked DEF Quieter
    <3>3. OneRequest' /\ InStep'
      BY <2>1, <2>3, <2>5 DEF Contract, OneRequest, InStep, Quieter, Awaits
    <3>4. Lending'
      BY <2>1, <2>3, <2>5, LendingKept DEF Returning, Accept, Quieter
    <3>5. Promise
      BY <2>1, <2>5 DEF Promise, Lent
    <3> QED
      BY <3>2, <3>3, <3>4, <3>5 DEF Contract
  <2>6. CASE UNCHANGED <<m_state, m_flags, driver, owed, cstate, m_error_propogated>>
    BY <2>1, <2>3, <2>6, NoCall, Aside DEF Returning
  <2> QED
    BY <1>1, <2>4, <2>5, <2>6, NoRefusal DEF START_DONE
<1>2. CASE PAUSE_DONE
  <2>1. Take("PAUSE_DONE") /\ UNCHANGED <<m_ftb_q, allocated, leaked, driver, m_error_propogated>>
    BY <1>2 DEF PAUSE_DONE, ports
  <2>2. /\ ~ Has(m_cmd_q', Ran) /\ ~ Has(m_cmd_q', Stopped)
        /\ ~ Has(drv_cmds, {"STOP"}) /\ ~ Has(drv_cmds, Runs)
    BY <2>1, RanHead
  <2>3. CASE /\ PausePending \in m_flags /\ complete_pending_buffer_done_cbs
             /\ Enter("Pause", PausePending)
    <3>1. Returning
      BY <2>1, <2>3, PendingLeaves DEF Returning, driver
    <3>2. <<m_state, "Pause">> \in IL!Edges /\ "Pause" \in Processes
      BY <2>3 DEF IL!Edges, Processes, Contract, InStep
    <3> QED
      BY <2>1, <2>2, <2>3, <3>1, <3>2, RunEntered
  <2>4. CASE UNCHANGED <<m_etb_q, held, m_flags, m_state, cstate, owed>>
    BY <2>1, <2>4, TakenHead, NoCall, Aside DEF Returning
  <2> QED
    BY <1>2, <2>3, <2>4 DEF PAUSE_DONE
<1> QED
  BY <1>1, <1>2

(* RESUME_DONE enters Executing when that was asked for.                   *)
LEMMA ResumeDoneContract == ASSUME OwnInv, Contract, RESUME_DONE PROVE Contract' /\ Promise
<1>1. /\ Take("RESUME_DONE")
      /\ UNCHANGED <<m_ftb_q, m_etb_q, allocated, leaked, driver, m_error_propogated, held>>
  BY DEF RESUME_DONE, ports
<1>2. Returning
  BY <1>1 DEF Returning, driver
<1>3. CASE ExecutePending \in m_flags /\ Enter("Executing", ExecutePending)
  <2>1. /\ m_cmd_q \in Seq(CmdEntries) /\ m_cmd_q # << >> /\ Head(m_cmd_q) \in Resumed
        /\ Fewer(m_cmd_q, m_cmd_q', Signals)
    BY <1>1, TakenHead, SignalHead
  <2>2. Has(m_cmd_q, Resumed)
    BY <2>1, TailHas
  <2>3. m_state = "Pause" /\ m_state \in Processes
    BY <1>3, <2>2 DEF Contract, Ordered, InStep, Processes
  <2>4. IdlePending \notin m_flags /\ PausePending \notin m_flags
    BY <1>3, BitsDiffer DEF Contract, OneRequest, StateBits
  <2>5. /\ ~ Has(m_cmd_q, Ran) /\ ~ Has(m_cmd_q, Stopped)
        /\ ~ Has(drv_cmds, {"STOP"}) /\ ~ Has(drv_cmds, Runs)
    BY <2>3, <2>4 DEF Contract, Ordered
  <2>6. ~ Has(m_cmd_q', Ran) /\ ~ Has(m_cmd_q', Stopped)
    BY <2>1, <2>5, Kinds DEF Fewer
  <2>7. <<m_state, "Executing">> \in IL!Edges /\ "Executing" \in Processes
    BY <2>3 DEF IL!Edges, Processes
  <2> QED
    BY <1>1, <1>2, <1>3, <2>5, <2>6, <2>7, RunEntered
<1>4. CASE UNCHANGED <<m_flags, m_state, cstate, owed>>
  BY <1>1, <1>2, <1>4, TakenHead, NoCall, Aside
<1> QED
  BY <1>3, <1>4 DEF RESUME_DONE

(* The stop is answered: the buffers the client does not have would have   *)
(* to be with the driver or in a queue, and they are not.                  *)
LEMMA StopDoneContract ==
  ASSUME OwnInv, OwnInv', Contract, STOP_DONE PROVE Contract' /\ Promise
<1>1. /\ Take("STOP_DONE") /\ complete_pending_buffer_done_cbs
      /\ UNCHANGED <<m_ftb_q, allocated, leaked, driver, m_error_propogated>>
  BY DEF STOP_DONE, ports
<1>2. Returning
  BY <1>1, PendingLeaves DEF Returning, driver
<1>3. CASE IdlePending \in m_flags /\ Enter("Idle", IdlePending)
  <2>1. /\ m_cmd_q \in Seq(CmdEntries) /\ m_cmd_q # << >> /\ Head(m_cmd_q) \in Stopped
        /\ Fewer(m_cmd_q, m_cmd_q', Signals) /\ m_cmd_q' = Tail(m_cmd_q)
    BY <1>1, TakenHead, SignalHead
  <2>2. Has(m_cmd_q, Stopped) /\ Ordered /\ Lending
    BY <2>1, TailHas DEF Contract
  <2>3. drv_held = {} /\ ~ Has(drv_cmds, {"RESUME"})
    BY <2>2 DEF Lending, Ordered, Apart
  <2>4. Before(m_cmd_q, Stopped, Filled) /\ Before(m_cmd_q, Stopped, Resumed)
    BY <2>2 DEF Ordered, Apart
  <2>5. ~ Has(m_cmd_q', Filled) /\ ~ Has(m_cmd_q', Resumed)
    BY <2>1, <2>4, TailBefore
  <2>6. IdlePending \in StateBits /\ "Idle" \in States /\ "Idle" \notin Processes
    BY DEF StateBits, States, Processes
  <2>7. /\ OneRequest' /\ InStep' /\ m_flags' \cap StateBits = {}
        /\ m_flags \cap StateBits = {IdlePending}
    BY <1>1, <1>3, <2>6, Entered
  <2>8. ExecutePending \notin m_flags /\ PausePending \notin m_flags
    BY <2>7, BitsDiffer DEF StateBits
  <2>9. ~ Has(m_cmd_q, Ran) /\ ~ Has(drv_cmds, Runs)
    BY <2>2, <2>8 DEF Ordered
  <2>10. ~ Has(m_cmd_q', Ran)
    BY <2>1, <2>9, Kinds DEF Fewer
  <2>11. CallsKept /\ drv_cmds' = drv_cmds /\ drv_held' = {}
    BY <1>1, <2>3, NoCall DEF driver
  <2>12. m_state' = "Idle" /\ <<m_state, "Idle">> \in IL!Edges
    BY <1>3, <2>6 DEF Enter, Contract, InStep, IL!Edges
  <2>13. Ordered'
    <3>1. /\ Before(m_cmd_q', Stopped, Filled) /\ Before(m_cmd_q', Ran, Stopped)
          /\ Before(m_cmd_q', Stopped, Resumed) /\ Before(m_cmd_q', Ran, Ran)
      BY <2>1, <2>2, Kinds DEF Fewer, Ordered, Apart
    <3> QED
      BY <2>2, <2>3, <2>5, <2>6, <2>9, <2>10, <2>11, <2>12, <3>1 DEF Ordered, Apart
  <2>14. allocated' \subseteq held'
    <3>1. CASE m_state \notin Processes
      BY <1>2, <2>2, <3>1 DEF Lending, Returning
    <3>2. CASE m_state \in Processes
      <4>1. m_ftb_q' = << >> /\ ~ Has(m_etb_q', Given)
        BY <1>2, <1>3, <2>2, <3>2 DEF Lending, Returning
      <4>2. InFtb' = {}
        BY <4>1, EmptyNamed DEF InFtb
      <4>3. InEtb' = {}
        <5>1. m_etb_q' \in Seq({e \in EtbEntries : e.id # "EBD"})
          BY <1>1, PendingLeaves
        <5>2. \A i \in DOMAIN m_etb_q' : m_etb_q'[i] \in EtbEntries /\ m_etb_q'[i].id # "EBD"
          BY <5>1
        <5>3. \A i \in DOMAIN m_etb_q' : m_etb_q'[i] \in Given
          BY <5>2 DEF EtbEntries, Given
        <5> QED
          BY <4>1, <5>3 DEF Has, InEtb, NamedIn
      <4>4. InCmd' = {}
        <5>1. \A i \in DOMAIN m_cmd_q' : m_cmd_q'[i] \in CmdEntries /\ m_cmd_q'[i] \notin Filled
          BY <2>5 DEF Has, OwnInv, QueuesTyped
        <5>2. \A i \in DOMAIN m_cmd_q' : Named(m_cmd_q'[i]) \cap Buffers = {}
          BY <5>1, BufferEntries, SignalHead
        <5> QED
          BY <5>2 DEF InCmd, NamedIn
      <4>5. held' = allocated' \ leaked'
        BY <2>11, <4>2, <4>3, <4>4 DEF OwnInv, Shared
      <4> QED
        BY <1>1, <4>5 DEF Contract, InStep
    <3> QED
      BY <3>1, <3>2
  <2>15. Lending'
    BY <2>6, <2>11, <2>12, <2>14 DEF Lending
  <2>16. Promise
    BY <1>1, <2>12, <2>14, <1>2 DEF Promise, Lent, Returning
  <2> QED
    BY <2>7, <2>11, <2>13, <2>15, <2>16 DEF Contract, CallsKept
<1>4. CASE UNCHANGED <<m_flags, m_state, cstate, owed>>
  BY <1>1, <1>2, <1>4, TakenHead, NoCall, Aside
<1> QED
  BY <1>3, <1>4 DEF STOP_DONE

(* The message thread looks at the buffer queues when m_cmd_q is empty; on *)
(* the way out it finds no submission there.                               *)
LEMMA SubmitProxyContract ==
  ASSUME ~ rough, OwnInv, OwnInv', Contract, fill_this_buffer_proxy \/ empty_this_buffer_proxy
  PROVE  Contract' /\ Promise
<1>1. /\ m_cmd_q = << >>
      /\ UNCHANGED <<m_state, cstate, m_flags, owed, m_error_propogated, allocated, leaked, held,
                     drv_cmds>>
  BY NoRefusal DEF fill_this_buffer_proxy, empty_this_buffer_proxy, ports, driver
<1>2. m_cmd_q' = << >> \/ \E b \in OutBuffers : m_cmd_q' = <<Entry("FBD", b, "-")>>
  <2>1. CASE fill_this_buffer_proxy
    <3>1. Head(m_ftb_q).p2 \in OutBuffers
      <4>1. m_ftb_q # << >> /\ m_ftb_q \in Seq(FtbEntries)
        BY <2>1 DEF fill_this_buffer_proxy, OwnInv, QueuesTyped
      <4>2. Head(m_ftb_q) \in FtbEntries
        BY <4>1
      <4> QED
        BY <4>2 DEF FtbEntries
    <3> QED
      BY <1>1, <2>1, <3>1, NoRefusal DEF fill_this_buffer_proxy, driver
  <2>2. CASE empty_this_buffer_proxy
    BY <1>1, <2>2 DEF empty_this_buffer_proxy
  <2> QED
    BY <2>1, <2>2
<1>3. \A i \in DOMAIN m_cmd_q' : m_cmd_q'[i] \in Filled
  BY <1>2 DEF Entry, Filled
<1>4. /\ ~ Has(m_cmd_q', Ran) /\ ~ Has(m_cmd_q', Resumed) /\ ~ Has(m_cmd_q', Stopped)
      /\ ~ Has(m_cmd_q', StateEntries)
  BY <1>3 DEF Has, Filled, Ran, Resumed, Stopped, StateEntries, StateEvents
<1>5. \A D, F : ~ Has(m_cmd_q', D) => Before(m_cmd_q', D, F) /\ AtMostOne(m_cmd_q', D)
  BY DEF Has, Before, AtMostOne
<1>6. ~ Has(m_cmd_q', Wrong(m_state)) /\ ~ Has(m_cmd_q, Ran) /\ ~ Has(m_cmd_q, Resumed)
  BY <1>1, <1>4, Kinds, EmptyHas
<1>7. Ordered'
  BY <1>1, <1>4, <1>5 DEF Ordered, Apart, Contract
<1>8. OneRequest' /\ InStep'
  BY <1>1, <1>4, <1>5, <1>6 DEF OneRequest, InStep, Contract, Awaits
<1>9. ~ (m_state \in Processes /\ IdlePending \in m_flags)
  <2>1. CASE fill_this_buffer_proxy
    BY <2>1 DEF fill_this_buffer_proxy, Contract, Lending
  <2>2. CASE empty_this_buffer_proxy
    <3>1. m_etb_q # << >> /\ m_etb_q \in Seq(EtbEntries) /\ Head(m_etb_q).id = "ETB"
      BY <2>2 DEF empty_this_buffer_proxy, OwnInv, QueuesTyped
    <3>2. Head(m_etb_q) \in EtbEntries
      BY <3>1
    <3>3. Head(m_etb_q) \in Given
      BY <3>1, <3>2 DEF EtbEntries, Given
    <3>4. Has(m_etb_q, Given)
      BY <3>1, <3>3, TailHas
    <3> QED
      BY <3>4 DEF Contract, Lending
  <2> QED
    BY <2>1, <2>2
<1>10. Lending'
  BY <1>1, <1>4, <1>9 DEF Contract, Lending
<1> QED
  BY <1>1, <1>7, <1>8, <1>10 DEF Contract, CallsTyped, Promise, Lent

(* The client's calls.                                                     *)
LEMMA SendContract ==
  ASSUME ~ rough, OwnInv, Contract, NEW c \in AllCommands, send_command(c)
  PROVE  Contract' /\ Promise
<1> DEFINE e == Entry("COMMAND", c.cmd, c.arg)
<1>1. /\ owed = {} /\ owed' = Completions(c) /\ m_cmd_q' = Append(m_cmd_q, e)
      /\ UNCHANGED <<m_state, cstate, m_error_propogated, m_flags, m_ftb_q, m_etb_q,
                     allocated, leaked, drv_cmds, drv_held, held>>
  BY DEF send_command, component, ports, driver, rough
<1>2. ~ Awaits
  BY <1>1, AwaitsState
<1>3. ~ Has(m_cmd_q, StateEntries) /\ m_flags \cap StateBits = {}
  BY <1>2 DEF Contract, OneRequest
<1>4. m_cmd_q \in Seq(CmdEntries) /\ e \in CmdEntries
  BY CommandPlain DEF CmdEntries, OwnInv, QueuesTyped
<1>5. c.cmd # "StateSet" => e \notin StateEntries
  BY CommandKinds
<1>6. c.cmd = "StateSet" => Awaits'
  <2>1. c.arg \in Parameters /\ c = [cmd |-> c.cmd, arg |-> c.arg]
    BY DEF AllCommands, Parameters
  <2> QED
    BY <1>1, <2>1 DEF Awaits, Completions
<1>7. e \notin Ran /\ e \notin Resumed /\ e \notin Stopped /\ e \notin Filled /\ e \notin Wrong(m_state)
  BY DEF Entry, Ran, Resumed, Stopped, Filled, Wrong, StateEvents
<1> HIDE DEF e
<1>8. \A D, F : /\ Has(m_cmd_q', D) <=> Has(m_cmd_q, D) \/ e \in D
                /\ AtMostOne(m_cmd_q, D) /\ (Has(m_cmd_q, D) => e \notin D) => AtMostOne(m_cmd_q', D)
                /\ Before(m_cmd_q, D, F) /\ (Has(m_cmd_q, D) => e \notin F)
                     => Before(m_cmd_q', D, F)
  BY <1>1, <1>4, AppendHas
<1>9. Ordered'
  BY <1>1, <1>7, <1>8 DEF Contract, Ordered, Apart
<1>10. OneRequest'
  BY <1>1, <1>3, <1>5, <1>6, <1>8 DEF Contract, OneRequest
<1>11. InStep' /\ Lending'
  BY <1>1, <1>7, <1>8 DEF Contract, InStep, Lending
<1> QED
  BY <1>1, <1>9, <1>10, <1>11 DEF Contract, CallsTyped, Promise, Lent

(* empty_this_buffer and fill_this_buffer take a buffer the client holds,  *)
(* while the component streams.                                            *)
LEMMA SubmitContract ==
  ASSUME ~ rough, OwnInv, Contract, NEW b \in Buffers, empty_this_buffer(b) \/ fill_this_buffer(b)
  PROVE  Contract' /\ Promise
<1>1. /\ b \in held /\ held' = held \ {b} /\ m_state \in Processes
      /\ \A c \in owed : c.cmd = "Flush"
      /\ UNCHANGED <<m_state, cstate, m_error_propogated, m_flags, m_cmd_q, owed,
                     allocated, leaked, drv_cmds, drv_held>>
  BY DEF empty_this_buffer, fill_this_buffer, Streaming, component, ports, driver,
         Contract, InStep, Processes
<1>2. IdlePending \notin m_flags
  <2>1. ~ Awaits
    <3> SUFFICES ASSUME NEW t \in Parameters, owed = {[cmd |-> "StateSet", arg |-> t]}
                 PROVE  FALSE
      BY DEF Awaits
    <3>1. [cmd |-> "StateSet", arg |-> t] \in owed
      OBVIOUS
    <3>2. [cmd |-> "StateSet", arg |-> t].cmd # "Flush"
      OBVIOUS
    <3> QED
      BY <1>1, <3>1, <3>2
  <2> QED
    BY <2>1 DEF Contract, OneRequest, StateBits
<1>3. Lending'
  BY <1>1, <1>2 DEF Contract, Lending
<1>4. OneRequest' /\ InStep' /\ Ordered' /\ CallsTyped'
  BY <1>1 DEF Contract, OneRequest, InStep, Ordered, Apart, CallsTyped, Awaits
<1>5. b \in allocated \ leaked
  BY <1>1 DEF OwnInv, Shared
<1>6. Promise
  BY <1>1, <1>5 DEF Promise, Lent
<1> QED
  BY <1>3, <1>4, <1>6 DEF Contract

(* What the driver and the async thread post.                              *)
LEMMA BufferDoneContract ==
  ASSUME OwnInv, Contract, NEW b \in Buffers, BufferDone(b)
  PROVE  Contract' /\ Promise
<1>1. /\ b \in drv_held /\ drv_held' \subseteq drv_held
      /\ UNCHANGED <<m_state, cstate, m_error_propogated, m_flags, m_ftb_q, owed, held,
                     allocated, leaked, drv_cmds>>
  BY DEF BufferDone, component, ports, client
<1>2. ~ Has(m_cmd_q, Stopped)
  BY <1>1 DEF Contract, Lending
<1>3. CASE b \in InBuffers
  <2> DEFINE e == Entry("EBD", b, "-")
  <2>1. /\ m_etb_q \in Seq(EtbEntries) /\ m_etb_q' = Append(m_etb_q, e) /\ UNCHANGED m_cmd_q
        /\ e \in EtbEntries /\ e \notin Given
    BY <1>3 DEF BufferDone, OwnInv, QueuesTyped, Entry, EtbEntries, Given
  <2> HIDE DEF e
  <2>2. Has(m_etb_q', Given) => Has(m_etb_q, Given)
    BY <2>1, AppendHas
  <2>3. Quieter
    BY <2>1 DEF Quieter, Fewer, Contract, OneRequest, InStep
  <2>4. Returning /\ CallsKept
    BY <1>1, <2>2 DEF Returning, CallsKept, CallsTyped, Fewer, Contract
  <2> QED
    BY <1>1, <2>3, <2>4, Aside
<1>4. CASE b \notin InBuffers
  <2> DEFINE e == Entry("FBD", b, "-")
  <2>1. /\ m_cmd_q \in Seq(CmdEntries) /\ m_cmd_q' = Append(m_cmd_q, e) /\ UNCHANGED m_etb_q
    BY <1>4 DEF BufferDone, OwnInv, QueuesTyped
  <2>2. b \in OutBuffers
    BY <1>4 DEF Buffers
  <2>3. e \in CmdEntries /\ e \notin Ran /\ e \notin Resumed /\ e \notin Stopped
        /\ e \notin StateEntries /\ e \notin Wrong(m_state)
    BY <2>2
    DEF Entry, CmdEntries, Ran, Resumed, Stopped, Filled, Wrong, StateEntries, StateEvents
  <2> HIDE DEF e
  <2>4. \A D, F : /\ Has(m_cmd_q', D) <=> Has(m_cmd_q, D) \/ e \in D
                  /\ AtMostOne(m_cmd_q, D) /\ (Has(m_cmd_q, D) => e \notin D)
                       => AtMostOne(m_cmd_q', D)
                  /\ Before(m_cmd_q, D, F) /\ (Has(m_cmd_q, D) => e \notin F)
                       => Before(m_cmd_q', D, F)
    BY <2>1, <2>3, AppendHas
  <2>5. Ordered'
    BY <1>1, <1>2, <2>3, <2>4 DEF Contract, Ordered, Apart
  <2>6. OneRequest' /\ InStep' /\ Lending'
    BY <1>1, <2>1, <2>3, <2>4 DEF Contract, OneRequest, InStep, Lending, Awaits
  <2> QED
    BY <1>1, <2>5, <2>6 DEF Contract, CallsTyped, Promise, Lent
<1> QED
  BY <1>3, <1>4

(* The driver answers its calls in order.                                  *)
LEMMA AcknowledgeContract ==
  ASSUME OwnInv, Contract, NEW command, NEW id, NEW state, Acknowledge(command, id, state),
         \/ <<command, id>> \in {<<"START", "START_DONE">>, <<"PAUSE", "PAUSE_DONE">>,
                                 <<"RESUME", "RESUME_DONE">>, <<"FLUSH_IN", "INPUT_FLUSH">>,
                                 <<"FLUSH_OUT", "OUTPUT_FLUSH">>}
         \/ <<command, id>> = <<"STOP", "STOP_DONE">> /\ drv_held = {}
  PROVE  Contract' /\ Promise
<1> DEFINE e == Entry(id, "-", "-")
<1>1. /\ m_cmd_q \in Seq(CmdEntries) /\ m_cmd_q' = Append(m_cmd_q, e)
      /\ drv_cmds \in Seq(DrvCommands) /\ drv_cmds # << >> /\ Head(drv_cmds) = command
      /\ drv_cmds' = Tail(drv_cmds)
      /\ UNCHANGED <<m_state, cstate, m_error_propogated, m_flags, m_ftb_q, m_etb_q, owed, held,
                     allocated, leaked, drv_held>>
  BY DEF Acknowledge, component, ports, client, OwnInv, QueuesTyped, Contract, CallsTyped
<1>2. e \in CmdEntries /\ e \notin Filled /\ e \notin StateEntries /\ e \notin Wrong(m_state)
      /\ (e \in Ran <=> id \in {"START_DONE", "PAUSE_DONE"})
      /\ (e \in Resumed <=> id = "RESUME_DONE") /\ (e \in Stopped <=> id = "STOP_DONE")
  <2>1. "-" \in Parameters
    BY DEF Parameters
  <2>2. e.id = id /\ e = [id |-> id, p1 |-> "-", p2 |-> "-"]
    BY DEF Entry
  <2>3. e \in PlainEntries
    BY <2>1 DEF Entry, PlainEntries
  <2> QED
    BY <2>1, <2>2, <2>3
    DEF CmdEntries, Filled, StateEntries, StateEvents, Wrong, Ran, Resumed, Stopped
<1> HIDE DEF e
<1>3. \A D, F : /\ Has(m_cmd_q', D) <=> Has(m_cmd_q, D) \/ e \in D
                /\ AtMostOne(m_cmd_q, D) /\ (Has(m_cmd_q, D) => e \notin D) => AtMostOne(m_cmd_q', D)
                /\ Before(m_cmd_q, D, F) /\ (Has(m_cmd_q, D) => e \notin F)
                     => Before(m_cmd_q', D, F)
  BY <1>1, <1>2, AppendHas
<1>4. \A D : /\ Has(drv_cmds', D) => Has(drv_cmds, D)
             /\ command \in D => Has(drv_cmds, D)
  BY <1>1, TailHas
<1>5. \A D, F : Before(drv_cmds, D, F) =>
                  /\ Before(drv_cmds', D, F)
                  /\ command \in D => ~ Has(drv_cmds', F)
  BY <1>1, TailBefore
<1>6. OneRequest' /\ InStep'
  BY <1>1, <1>2, <1>3 DEF Contract, OneRequest, InStep, Awaits
<1>7. CallsTyped'
  BY <1>1 DEF CallsTyped
<1>8. Lending'
  BY <1>1, <1>2, <1>3 DEF Contract, Lending
<1>9. Ordered
  BY DEF Contract
<1>10. Ordered'
  <2>1. CASE command \in {"START", "PAUSE"} /\ id \in {"START_DONE", "PAUSE_DONE"}
    <3>1. command \in Runs
      BY <2>1 DEF Runs
    <3>2. e \in Ran /\ e \notin Resumed /\ e \notin Stopped
      BY <1>2, <2>1
    <3> QED
      BY <1>1, <1>2, <1>3, <1>4, <1>5, <1>9, <3>1, <3>2 DEF Ordered, Apart
  <2>2. CASE command = "RESUME" /\ id = "RESUME_DONE"
    <3>1. e \notin Ran /\ e \in Resumed /\ e \notin Stopped
      BY <1>2, <2>2
    <3> QED
      BY <1>1, <1>2, <1>3, <1>4, <1>5, <1>9, <2>2, <3>1 DEF Ordered, Apart
  <2>3. CASE command = "STOP" /\ id = "STOP_DONE"
    <3>1. e \notin Ran /\ e \notin Resumed /\ e \in Stopped
      BY <1>2, <2>3
    <3> QED
      BY <1>1, <1>2, <1>3, <1>4, <1>5, <1>9, <2>3, <3>1 DEF Ordered, Apart
  <2>4. CASE id \in {"INPUT_FLUSH", "OUTPUT_FLUSH"}
    <3>1. e \notin Ran /\ e \notin Resumed /\ e \notin Stopped
      BY <1>2, <2>4
    <3> QED
      BY <1>1, <1>2, <1>3, <1>4, <1>5, <1>9, <3>1 DEF Ordered, Apart
  <2> QED
    BY <2>1, <2>2, <2>3, <2>4
<1> QED
  BY <1>1, <1>6, <1>7, <1>8, <1>10 DEF Contract, Promise, Lent

(* The last buffer allocated or freed answers the request that waits for   *)
(* it: what the queue then has.                                            *)
LEMMA AddedQuieter ==
  ASSUME OwnInv, Contract, NEW r \in Seq(PlainEntries \ (StateEntries \cup Signals)),
         \/ m_cmd_q' = m_cmd_q \o r
         \/ /\ ~ Has(m_cmd_q, StateEntries)
            /\ \E e \in CmdEntries : /\ e \in StateEntries \ Wrong(m_state)
                                     /\ \/ m_cmd_q' = (m_cmd_q \o <<e>>) \o r
                                        \/ m_cmd_q' = (m_cmd_q \o r) \o <<e>>
  PROVE  /\ Fewer(m_cmd_q, m_cmd_q', Signals) /\ AtMostOne(m_cmd_q', StateEntries)
         /\ ~ Has(m_cmd_q', Wrong(m_state))
         /\ m_cmd_q' = m_cmd_q \o r => Quieter
<1>1. m_cmd_q \in Seq(CmdEntries) /\ AtMostOne(m_cmd_q, StateEntries)
      /\ ~ Has(m_cmd_q, Wrong(m_state))
  BY DEF OwnInv, QueuesTyped, Contract, OneRequest, InStep
<1>2. Wrong(m_state) \in SUBSET StateEntries /\ StateEntries \in SUBSET StateEntries
  BY DEF Wrong, StateEntries
<1>3. /\ m_cmd_q \o r \in Seq(CmdEntries) /\ Fewer(m_cmd_q, m_cmd_q \o r, Signals)
      /\ AtMostOne(m_cmd_q \o r, StateEntries) /\ ~ Has(m_cmd_q \o r, Wrong(m_state))
      /\ Has(m_cmd_q \o r, StateEntries) => Has(m_cmd_q, StateEntries)
  BY <1>1, <1>2, QuietAdded
<1>4. ASSUME NEW q \in Seq(CmdEntries), NEW e \in CmdEntries, e \in StateEntries \ Wrong(m_state),
             ~ Has(q, StateEntries), AtMostOne(q, StateEntries)
      PROVE  /\ q \o <<e>> \in Seq(CmdEntries) /\ Fewer(q, q \o <<e>>, Signals)
             /\ AtMostOne(q \o <<e>>, StateEntries) /\ ~ Has(q \o <<e>>, Wrong(m_state))
  <2>1. q \o <<e>> = Append(q, e) /\ Append(q, e) \in Seq(CmdEntries)
    BY AppendIsConcat, AppendProperties
  <2>2. <<e>> \in Seq(CmdEntries) /\ ~ Has(<<e>>, Signals)
    BY <1>4, Kinds DEF Has
  <2>3. Fewer(q, q \o <<e>>, Signals)
    BY <2>2, FewerConcat
  <2>4. ~ Has(q, Wrong(m_state))
    BY <1>4, Kinds
  <2>5. AtMostOne(Append(q, e), StateEntries) /\ ~ Has(Append(q, e), Wrong(m_state))
    BY <1>4, <2>4, AppendHas
  <2> QED
    BY <2>1, <2>3, <2>5
<1>5. CASE m_cmd_q' = m_cmd_q \o r
  BY <1>3, <1>5 DEF Quieter
<1>6. ASSUME ~ Has(m_cmd_q, StateEntries), NEW e \in CmdEntries, e \in StateEntries \ Wrong(m_state),
             m_cmd_q' = (m_cmd_q \o <<e>>) \o r
      PROVE  /\ Fewer(m_cmd_q, m_cmd_q', Signals) /\ AtMostOne(m_cmd_q', StateEntries)
             /\ ~ Has(m_cmd_q', Wrong(m_state))
  <2> DEFINE q == m_cmd_q \o <<e>>
  <2>1. /\ q \in Seq(CmdEntries) /\ Fewer(m_cmd_q, q, Signals)
        /\ AtMostOne(q, StateEntries) /\ ~ Has(q, Wrong(m_state))
    BY <1>1, <1>4, <1>6
  <2>2. m_cmd_q' = q \o r
    BY <1>6
  <2> HIDE DEF q
  <2>3. /\ Fewer(q, q \o r, Signals) /\ AtMostOne(q \o r, StateEntries)
        /\ ~ Has(q \o r, Wrong(m_state))
    BY <1>2, <2>1, QuietAdded
  <2>4. Fewer(m_cmd_q, q \o r, Signals)
    BY <2>1, <2>3, FewerTwice
  <2> QED
    BY <2>2, <2>3, <2>4
<1>7. ASSUME ~ Has(m_cmd_q, StateEntries), NEW e \in CmdEntries, e \in StateEntries \ Wrong(m_state),
             m_cmd_q' = (m_cmd_q \o r) \o <<e>>
      PROVE  /\ Fewer(m_cmd_q, m_cmd_q', Signals) /\ AtMostOne(m_cmd_q', StateEntries)
             /\ ~ Has(m_cmd_q', Wrong(m_state))
  <2> DEFINE q == m_cmd_q \o r
  <2>1. /\ q \in Seq(CmdEntries) /\ Fewer(m_cmd_q, q, Signals)
        /\ AtMostOne(q, StateEntries) /\ ~ Has(q, StateEntries)
    BY <1>3, <1>7
  <2>2. m_cmd_q' = q \o <<e>>
    BY <1>7
  <2> HIDE DEF q
  <2>3. /\ Fewer(q, q \o <<e>>, Signals) /\ AtMostOne(q \o <<e>>, StateEntries)
        /\ ~ Has(q \o <<e>>, Wrong(m_state))
    BY <1>4, <1>7, <2>1
  <2>4. Fewer(m_cmd_q, q \o <<e>>, Signals)
    BY <2>1, <2>3, FewerTwice
  <2> QED
    BY <2>2, <2>3, <2>4
<1>8. m_cmd_q' = m_cmd_q \o r => Quieter
  BY <1>5, <1>3 DEF Quieter
<1> QED
  BY <1>5, <1>6, <1>7, <1>8 DEF Quieter

(* use_buffer and allocate_buffer: the buffer is the client's; the last    *)
(* one of all lets a waiting component enter Idle.                         *)
LEMMA AllocateContract ==
  ASSUME ~ rough, OwnInv, Contract, NEW b \in Buffers, AllocateBuffer(b)
  PROVE  Contract' /\ Promise
<1> DEFINE K == PlainEntries \ (StateEntries \cup Signals)
           port == PortOf(b)
           idle == allocate_done(allocated \cup {b}) /\ IdlePending \in m_flags
           enable == port \in NowPopulated(allocated \cup {b}, enabled)
                       /\ EnablePending(port) \in m_flags
           e == Entry("EVENT", "StateSet", "Idle")
           q2 == IF enable THEN <<PortEvent("PortEnable", port)>> ELSE << >>
<1>1. /\ allocated' = allocated \cup {b} /\ held' = held \cup {b}
      /\ m_flags' = m_flags \ ((IF idle THEN {IdlePending} ELSE {})
                               \cup (IF enable THEN {EnablePending(port)} ELSE {}))
      /\ m_cmd_q' = (m_cmd_q \o (IF idle THEN <<e>> ELSE << >>)) \o q2
      /\ cstate = "Loaded" \/ Asked("PortEnable", port)
      /\ UNCHANGED <<m_state, cstate, m_error_propogated, m_ftb_q, m_etb_q, owed, leaked,
                     drv_cmds, drv_held>>
  BY DEF AllocateBuffer, SlotTaken, SlotLeaked, component, driver
<1>2. m_cmd_q \in Seq(CmdEntries)
  BY DEF OwnInv, QueuesTyped
<1>3. q2 \in Seq(K)
  <2>1. port \in Parameters
    BY PortOfOwn DEF Parameters
  <2>2. PortEvent("PortEnable", port) \in K
    BY <2>1, CommandKinds
  <2>3. \A S : << >> \in Seq(S) /\ \A x \in S : <<x>> \in Seq(S)
    OBVIOUS
  <2> QED
    BY <2>2, <2>3
<1>4. e \in CmdEntries /\ e \in StateEvents /\ e.p2 = "Idle"
  BY DEF Entry, CmdEntries, PlainEntries, StateEvents, Parameters, States
<1>5. ASSUME idle
      PROVE  /\ ~ Has(m_cmd_q, StateEntries) /\ m_flags \cap StateBits = {IdlePending} /\ Awaits
             /\ m_state = "Loaded" /\ e \in StateEntries \ Wrong(m_state)
  <2>1. ~ Has(m_cmd_q, StateEntries) /\ m_flags \cap StateBits = {IdlePending} /\ Awaits
    BY <1>5 DEF Contract, OneRequest, StateBits
  <2>2. m_state = "Loaded"
    BY <1>1, <2>1, AwaitsState DEF Contract, InStep
  <2> QED
    BY <1>4, <2>1, <2>2 DEF Wrong, Quick, StateEntries
<1> HIDE DEF q2, e
<1>6. ~ idle => m_cmd_q' = m_cmd_q \o q2
  <2>1. m_cmd_q \o << >> = m_cmd_q
    BY <1>2
  <2> HIDE DEF idle
  <2> QED
    BY <1>1, <2>1
<1>7. /\ Fewer(m_cmd_q, m_cmd_q', Signals) /\ AtMostOne(m_cmd_q', StateEntries)
      /\ ~ Has(m_cmd_q', Wrong(m_state))
      /\ ~ idle => Quieter
  <2>1. CASE idle
    <3>1. m_cmd_q' = (m_cmd_q \o <<e>>) \o q2
      BY <1>1, <2>1
    <3> QED
      BY <1>3, <1>4, <1>5, <2>1, <3>1, AddedQuieter
  <2>2. CASE ~ idle
    BY <1>3, <1>6, <2>2, AddedQuieter
  <2> QED
    BY <2>1, <2>2
<1>8. /\ m_flags' \subseteq m_flags
      /\ m_flags' \cap StateBits = IF idle THEN {} ELSE m_flags \cap StateBits
  <2>1. EnablePending(port) \notin StateBits /\ IdlePending \in StateBits
    BY BitsDiffer DEF StateBits
  <2>2. CASE idle
    BY <1>1, <1>5, <2>1, <2>2
  <2>3. CASE ~ idle
    BY <1>1, <2>1, <2>3
  <2> QED
    BY <2>2, <2>3
<1> HIDE DEF idle
<1>9. OneRequest'
  <2>1. Awaits => Awaits'
    BY <1>1 DEF Awaits
  <2> QED
    BY <1>5, <1>7, <1>8, <2>1 DEF OneRequest, Contract, Quieter
<1>10. InStep'
  BY <1>1, <1>7, <1>8 DEF InStep, Contract
<1>11. Ordered'
  <2>1. Fewer(drv_cmds, drv_cmds', Calls)
    BY <1>1 DEF Fewer
  <2>2. m_flags \cap {ExecutePending, PausePending} \subseteq m_flags'
    <3>1. ExecutePending \in StateBits /\ PausePending \in StateBits
      BY DEF StateBits
    <3> QED
      BY <1>5, <1>8, <3>1, BitsDiffer
  <2>3. m_state \in Processes /\ IdlePending \in m_flags => IdlePending \in m_flags'
    <3>1. IdlePending \in StateBits /\ "Loaded" \notin Processes
      BY DEF StateBits, Processes
    <3> QED
      BY <1>5, <1>8, <3>1
  <2> QED
    BY <1>1, <1>7, <2>1, <2>2, <2>3, OrderedKept
<1>12. Lending'
  <2>1. Has(m_cmd_q', Stopped) => Has(m_cmd_q, Stopped)
    BY <1>7, Kinds DEF Fewer
  <2> QED
    BY <1>1, <1>8, <2>1 DEF Lending, Contract
<1> QED
  BY <1>1, <1>9, <1>10, <1>11, <1>12 DEF Contract, CallsTyped, Promise, Lent

(* free_buffer: the last one lets a waiting component enter Loaded, and    *)
(* the driver is stopped.                                                  *)
LEMMA FreeContract ==
  ASSUME ~ rough, OwnInv, Contract, NEW b \in Buffers, FreeBuffer(b)
  PROVE  Contract' /\ Promise
<1> DEFINE K == PlainEntries \ (StateEntries \cup Signals)
           port == PortOf(b)
           alloc == allocated \ {b}
           legal == (m_state = "Idle" /\ LoadingPending \in m_flags) \/ port \notin enabled
           live == ~ legal /\ m_state \in {"Executing", "Pause"}
           disable == DisablePending(port) \in m_flags /\ PortReleased(port, alloc)
           loaded == LoadingPending \in m_flags /\ release_done(alloc)
           e == Entry("EVENT", "StateSet", "Loaded")
           q0 == IF legal THEN << >> ELSE <<ErrorEvent("PortUnpopulated")>>
           q1 == IF disable THEN <<PortEvent("PortDisable", port)>> ELSE << >>
<1>1. /\ UNCHANGED <<m_state, cstate, m_error_propogated, m_ftb_q, m_etb_q, owed>>
      /\ b \in held
      /\ \/ m_cmd_q' = m_cmd_q \o q0 /\ UNCHANGED <<m_flags, ports, driver, held>>
         \/ /\ m_cmd_q' = ((m_cmd_q \o q0) \o q1) \o (IF loaded THEN <<e>> ELSE << >>)
            /\ m_flags' = m_flags \ ((IF disable THEN {DisablePending(port)} ELSE {})
                                     \cup (IF loaded THEN {LoadingPending} ELSE {}))
            /\ SlotFreed(b)
            /\ IF loaded THEN Accept("STOP") ELSE UNCHANGED driver
  BY NoRefusal DEF FreeBuffer, component
<1>2. m_cmd_q \in Seq(CmdEntries)
  BY DEF OwnInv, QueuesTyped
<1>3. q0 \in Seq(K) /\ q1 \in Seq(K)
  <2>1. port \in Parameters
    BY PortOfOwn DEF Parameters
  <2>2. PortEvent("PortDisable", port) \in K /\ ErrorEvent("PortUnpopulated") \in K
    BY <2>1, CommandKinds
  <2>3. \A S : << >> \in Seq(S) /\ \A x \in S : <<x>> \in Seq(S)
    OBVIOUS
  <2> QED
    BY <2>2, <2>3
<1>4. CASE m_cmd_q' = m_cmd_q \o q0 /\ UNCHANGED <<m_flags, ports, driver, held>>
  <2> HIDE DEF q0
  <2>1. Quieter
    BY <1>3, <1>4, AddedQuieter
  <2> QED
    BY <1>1, <1>4, <2>1, NoCall, Aside DEF Returning, ports
<1>5. CASE /\ m_cmd_q' = ((m_cmd_q \o q0) \o q1) \o (IF loaded THEN <<e>> ELSE << >>)
           /\ m_flags' = m_flags \ ((IF disable THEN {DisablePending(port)} ELSE {})
                                    \cup (IF loaded THEN {LoadingPending} ELSE {}))
           /\ SlotFreed(b)
           /\ IF loaded THEN Accept("STOP") ELSE UNCHANGED driver
  <2>1. e \in CmdEntries /\ e \in StateEvents /\ e.p2 = "Loaded"
    BY DEF Entry, CmdEntries, PlainEntries, StateEvents, Parameters, States
  <2>2. ASSUME loaded
        PROVE  /\ ~ Has(m_cmd_q, StateEntries) /\ m_flags \cap StateBits = {LoadingPending}
               /\ Awaits /\ m_state = "Idle" /\ e \in StateEntries \ Wrong(m_state)
    <3>1. ~ Has(m_cmd_q, StateEntries) /\ m_flags \cap StateBits = {LoadingPending} /\ Awaits
      BY <2>2 DEF Contract, OneRequest, StateBits
    <3>2. m_state = "Idle"
      BY <2>2 DEF Contract, InStep
    <3> QED
      BY <2>1, <3>1, <3>2 DEF Wrong, Quick, StateEntries
  <2>3. (m_cmd_q \o q0) \o q1 = m_cmd_q \o (q0 \o q1) /\ q0 \o q1 \in Seq(K)
        /\ (m_cmd_q \o q0) \o q1 \in Seq(CmdEntries)
    <3> HIDE DEF K, q0, q1
    <3>1. q0 \in Seq(CmdEntries) /\ q1 \in Seq(CmdEntries)
      BY <1>3, PlainQuiet DEF K
    <3>2. (m_cmd_q \o q0) \o q1 = m_cmd_q \o (q0 \o q1)
      BY <1>2, <3>1, ConcatAssociative
    <3>3. m_cmd_q \o q0 \in Seq(CmdEntries)
      BY <1>2, <3>1, ConcatProperties
    <3> QED
      BY <1>3, <3>1, <3>2, <3>3, ConcatProperties
  <2> DEFINE r == q0 \o q1
  <2>4. /\ loaded => m_cmd_q' = (m_cmd_q \o r) \o <<e>>
        /\ ~ loaded => m_cmd_q' = m_cmd_q \o r
    <3>1. ((m_cmd_q \o q0) \o q1) \o << >> = (m_cmd_q \o q0) \o q1
      BY <2>3
    <3> HIDE DEF q0, q1, loaded, e
    <3> QED
      BY <1>5, <2>3, <3>1
  <2>5. r \in Seq(K)
    BY <2>3
  <2> HIDE DEF q0, q1, e, r
  <2>6. /\ Fewer(m_cmd_q, m_cmd_q', Signals) /\ AtMostOne(m_cmd_q', StateEntries)
        /\ ~ Has(m_cmd_q', Wrong(m_state))
        /\ ~ loaded => Quieter
    <3>1. CASE loaded
      BY <2>1, <2>2, <2>4, <2>5, <3>1, AddedQuieter
    <3>2. CASE ~ loaded
      BY <2>4, <2>5, <3>2, AddedQuieter
    <3> QED
      BY <3>1, <3>2
  <2>7. /\ m_flags' \subseteq m_flags
        /\ m_flags' \cap StateBits = IF loaded THEN {} ELSE m_flags \cap StateBits
    <3>1. DisablePending(port) \notin StateBits /\ LoadingPending \in StateBits
      BY BitsDiffer DEF StateBits
    <3>2. CASE loaded
      BY <1>5, <2>2, <3>1, <3>2
    <3>3. CASE ~ loaded
      BY <1>5, <3>1, <3>3
    <3> QED
      BY <3>2, <3>3
  <2>8. /\ allocated' = allocated \ {b} /\ held' = held \ {b} /\ leaked' = leaked
        /\ drv_held' = drv_held
        /\ IF loaded THEN Accept("STOP") ELSE UNCHANGED drv_cmds
    BY <1>5 DEF SlotFreed, Accept, driver
  <2> HIDE DEF loaded
  <2>9. OneRequest'
    <3>1. Awaits => Awaits'
      BY <1>1 DEF Awaits
    <3> QED
      BY <2>2, <2>6, <2>7, <3>1 DEF OneRequest, Contract, Quieter
  <2>10. InStep'
    BY <1>1, <2>6, <2>7, <2>8 DEF InStep, Contract
  <2>11. Ordered' /\ CallsTyped'
    <3>1. ExecutePending \in StateBits /\ PausePending \in StateBits /\ IdlePending \in StateBits
      BY DEF StateBits
    <3>2. CASE loaded
      <4>1. ExecutePending \notin m_flags /\ PausePending \notin m_flags
        BY <2>2, <3>1, <3>2, BitsDiffer
      <4>2. m_state \notin Processes
        BY <2>2, <3>2 DEF Processes
      <4> QED
        BY <1>1, <2>6, <2>8, <3>2, <4>1, <4>2, StopAsked
    <3>3. CASE ~ loaded
      <4>1. CallsKept
        BY <2>8, <3>3 DEF CallsKept, CallsTyped, Contract, Fewer
      <4>2. /\ m_flags \cap {ExecutePending, PausePending} \subseteq m_flags'
            /\ IdlePending \in m_flags => IdlePending \in m_flags'
        BY <2>7, <3>1, <3>3
      <4> QED
        BY <1>1, <2>6, <4>1, <4>2, OrderedKept DEF CallsKept
    <3> QED
      BY <3>2, <3>3
  <2>12. Lending'
    <3>1. Has(m_cmd_q', Stopped) => Has(m_cmd_q, Stopped)
      BY <2>6, Kinds DEF Fewer
    <3> QED
      BY <1>1, <2>7, <2>8, <3>1 DEF Lending, Contract
  <2> QED
    BY <1>1, <2>8, <2>9, <2>10, <2>11, <2>12 DEF Contract, Promise, Lent
<1> QED
  BY <1>1, <1>4, <1>5

(* Every step of a careful session keeps the contract.                     *)
LEMMA ContractStep ==
  ASSUME ~ rough, OwnInv, OwnInv', Contract, MessageThread \/ Client \/ Driver
  PROVE  Contract' /\ Promise
<1>1. CASE MessageThread
  <2>1. CASE send_command_proxy
    BY <2>1, RequestContract, PortCommandContract DEF send_command_proxy
  <2>2. CASE StateSetEvent
    BY <2>2, StateSetContract
  <2>3. CASE PortOrErrorEvent
    BY <2>3, PortEventContract
  <2>4. CASE fill_buffer_done \/ empty_buffer_done
    BY <2>4, ReturnContract
  <2>5. CASE \E port \in PortNames : FlushDone(port)
    BY <2>5, FlushDoneContract
  <2>6. CASE START_DONE \/ PAUSE_DONE
    BY <2>6, RunDoneContract
  <2>7. CASE RESUME_DONE
    BY <2>7, ResumeDoneContract
  <2>8. CASE STOP_DONE
    BY <2>8, StopDoneContract
  <2>9. CASE fill_this_buffer_proxy \/ empty_this_buffer_proxy
    BY <2>9, SubmitProxyContract
  <2> QED
    BY <1>1, <2>1, <2>2, <2>3, <2>4, <2>5, <2>6, <2>7, <2>8, <2>9 DEF MessageThread
<1>2. CASE Client
  <2>1. Actual \subseteq Buffers
    BY DEF Actual
  <2>2. \/ \E c \in AllCommands : send_command(c)
        \/ \E b \in Buffers : AllocateBuffer(b) \/ FreeBuffer(b)
                                \/ empty_this_buffer(b) \/ fill_this_buffer(b)
    BY <1>2, <2>1 DEF Client
  <2> QED
    BY <2>2, SendContract, AllocateContract, FreeContract, SubmitContract
<1>3. CASE Driver
  <2>1. \A port : PortBuffers(port) \subseteq Buffers
    BY DEF PortBuffers, Actual
  <2>2. CASE \E b \in Buffers : BufferDone(b)
    BY <2>2, BufferDoneContract
  <2>3. CASE \E command, id, state :
               /\ Acknowledge(command, id, state)
               /\ \/ <<command, id>> \in {<<"START", "START_DONE">>, <<"PAUSE", "PAUSE_DONE">>,
                                          <<"RESUME", "RESUME_DONE">>, <<"FLUSH_IN", "INPUT_FLUSH">>,
                                          <<"FLUSH_OUT", "OUTPUT_FLUSH">>}
                  \/ <<command, id>> = <<"STOP", "STOP_DONE">> /\ drv_held = {}
    BY <2>3, AcknowledgeContract
  <2>4. \/ \E b \in Buffers : BufferDone(b)
        \/ \E command, id, state :
             /\ Acknowledge(command, id, state)
             /\ \/ <<command, id>> \in {<<"START", "START_DONE">>, <<"PAUSE", "PAUSE_DONE">>,
                                        <<"RESUME", "RESUME_DONE">>, <<"FLUSH_IN", "INPUT_FLUSH">>,
                                        <<"FLUSH_OUT", "OUTPUT_FLUSH">>}
                \/ <<command, id>> = <<"STOP", "STOP_DONE">> /\ drv_held = {}
    BY <1>3, <2>1 DEF Driver, BuffersDone, CommandDone
  <2> QED
    BY <2>2, <2>3, <2>4
<1> QED
  BY <1>1, <1>2, <1>3

(* At the start nothing is asked for.                                      *)
LEMMA ContractInit == Init => Contract
<1> SUFFICES ASSUME Init PROVE Contract
  OBVIOUS
<1>1. /\ m_cmd_q = << >> /\ drv_cmds = << >> /\ m_flags = {} /\ allocated = {} /\ leaked = {}
      /\ m_state = "Loaded" /\ cstate = "Loaded" /\ ~ m_error_propogated
  BY DEF Init
<1>2. "Loaded" \in States /\ "Loaded" \notin Processes
  BY DEF States, Processes
<1>3. CallsTyped
  BY <1>1 DEF CallsTyped
<1>4. OneRequest
  BY <1>1, EmptyHas DEF OneRequest
<1>5. InStep /\ Lending /\ Ordered
  BY <1>1, <1>2, EmptyHas DEF InStep, Lending, Ordered, Apart
<1> QED
  BY <1>3, <1>4, <1>5 DEF Contract

(* The encoder is the component OmxComponent describes: it moves along the *)
(* edges of the IL state graph, has buffers of the client only while it    *)
(* processes, and has given all of them back when it reports Idle or       *)
(* Loaded, whatever the order in which flushes, stops and buffers are      *)
(* answered.  This is the safety part of KeepsContract, all of it.         *)
THEOREM VencKeepsContract == Spec => KeepsContract
<1> DEFINE broken == rough \/ m_error_propogated
           Inv == OwnInv /\ ContractInv
<1>1. Init => Inv
  BY OwnInit, ContractInit DEF ContractInv
<1>2. Inv /\ [Next]_vars => Inv'
  <2> SUFFICES ASSUME Inv, [Next]_vars PROVE Inv'
    OBVIOUS
  <2>1. OwnInv'
    BY OwnStep
  <2>2. CASE UNCHANGED vars
    BY <2>1, <2>2
    DEF vars, queues, ports, driver, client, ContractInv, Contract, CallsTyped, OneRequest,
        InStep, Lending, Ordered, Apart, Awaits, rough
  <2>3. CASE Next
    <3>1. rough' = rough /\ (MessageThread \/ Client \/ Driver)
      BY <2>3 DEF Next, Steadily, rough
    <3> QED
      BY <2>1, <3>1, ContractStep DEF ContractInv
  <2> QED
    BY <2>2, <2>3
<1>3. Init => IL!Init
  BY DEF Init, IL!Init
<1>4. Inv /\ Inv' /\ [Next]_vars => [IL!Next]_<<m_state, Lent, broken>>
  <2> SUFFICES ASSUME Inv, Inv', [Next]_vars PROVE [IL!Next]_<<m_state, Lent, broken>>
    OBVIOUS
  <2>1. CASE UNCHANGED vars
    BY <2>1 DEF vars, ports, client, Lent, rough
  <2>2. CASE Next
    <3>1. rough' = rough /\ (MessageThread \/ Client \/ Driver)
      BY <2>2 DEF Next, Steadily, rough
    <3>2. CASE rough
      BY <3>2 DEF IL!Next, IL!Unspecified
    <3>3. CASE ~ rough
      <4>1. Promise /\ Contract /\ Contract'
        BY <3>1, <3>3, ContractStep DEF ContractInv
      <4>2. ~ broken /\ ~ broken'
        BY <3>1, <3>3, <4>1 DEF Contract, InStep
      <4>3. CASE m_state' = m_state /\ Lent' \subseteq Lent
        BY <4>2, <4>3 DEF IL!Next, IL!GiveBack, Lent
      <4>4. CASE /\ m_state' = m_state /\ m_state \in Processes
                 /\ \E b \in Buffers \ Lent : Lent' = Lent \cup {b}
        BY <4>2, <4>4 DEF IL!Next, IL!Lend, Lent, Processes, IL!Processes
      <4>5. CASE /\ <<m_state, m_state'>> \in IL!Edges /\ Lent' \subseteq Lent
                 /\ m_state' \notin Processes => Lent' = {}
        BY <4>2, <4>5 DEF IL!Next, IL!Move, Lent, Processes, IL!Processes
      <4> QED
        BY <4>1, <4>3, <4>4, <4>5 DEF Promise
    <3> QED
      BY <3>2, <3>3
  <2> QED
    BY <2>1, <2>2
<1>5. Lent = (allocated \ leaked) \ held
  BY DEF Lent
<1> QED
  BY <1>1, <1>2, <1>3, <1>4, <1>5, PTL DEF Spec, KeepsContract, IL!Spec, Lent

(***************************************************************************)
(* The sequence header (VencParams). The inductive invariant: where the    *)
(* caller is, what the driver is doing and which answers are in the pipe   *)
(* fit together, and the flag that waits for STOP is up only while a       *)
(* signal for it can still be taken for what it is.                        *)
(***************************************************************************)
HdrType ==
  /\ hdr \in [pc : {"idle", "start", "startLock", "startWait", "header", "stop", "stopLock", "stopWait"},
              ok : BOOLEAN, signalled : BOOLEAN, result : {None, "ok", "failed"}, calls : Nat]
  /\ flags \subseteq {"START", "STOP"}
  /\ pipe \in Seq({"START", "STOP"})
  /\ messages \in [state : {"stopped", "starting", "started", "stopping"},
                   clearing : {None, "START", "STOP"}]

(* A start answered and not yet read is the last message, and the driver   *)
(* has started.                                                            *)
StartsLast == \A i \in 1 .. Len(pipe) :
  pipe[i] = "START" => i = Len(pipe) /\ messages.state = "started"
Where ==
  /\ hdr.pc \in {"startLock", "startWait"} => messages.state \in {"starting", "started"}
  /\ hdr.pc \in {"header", "stop"} => messages.state = "started" /\ pipe = <<>>
  /\ hdr.pc \in {"stopLock", "stopWait"} =>
       messages.state = "stopped" \/ (messages.state = "stopping" /\ pipe = <<>>)
Heard ==
  /\ hdr.pc = "startWait" /\ hdr.signalled => messages.state = "started" /\ pipe = <<>>
  /\ hdr.pc = "stopWait" /\ hdr.signalled => messages.state = "stopped"

(* STOP is awaited only by the request that is about to stop the driver or *)
(* to hear that it has.                                                    *)
StopFlag == "STOP" \in flags =>
  \/ messages.clearing = "STOP"
  \/ hdr.pc \in {"stop", "stopLock"}
  \/ hdr.pc = "stopWait" /\ ~hdr.signalled
Reported == hdr.result = "ok" => hdr.pc = "idle" /\ messages.state = "stopped"
HdrInv == HdrType /\ StartsLast /\ Where /\ Heard /\ StopFlag /\ Reported

(* No request has been made.                                               *)
LEMMA HdrInitially == ParamsInit => HdrInv
BY DEF ParamsInit, HdrInv, HdrType, StartsLast, Where, Heard, StopFlag, Reported, None

(* A call of a session of settings touches nothing of a request for the    *)
(* header.                                                                 *)
LEMMA SettingsQuiet == Settings => UNCHANGED header
<1> SUFFICES ASSUME Settings PROVE UNCHANGED header
  OBVIOUS
<1>1. PICK bad \in Faults :
  \/ \E d, opaque, loads : set_PortDefinition_In(d, opaque, loads, bad)
  \/ \E d : set_PortDefinition_Out(d, bad)
  \/ \E opaque, loads : set_PortFormat_In(opaque, loads, bad)
  \/ \E bitrate, mode : set_Bitrate(bitrate, mode, bad)
  \/ \E p : set_Codec(p, bad)
  \/ \E p, l : set_ProfileLevel(p, l, bad)
  \/ set_Quantization(bad)
  \/ \E mbs : set_IntraRefresh(mbs, bad)
  \/ \E e : set_ErrorCorrection(e, bad)
  \/ \E r : set_Setting(r, bad)
  \/ \E on : set_MetaBufferMode(on, bad) \/ set_ExtraData(on, bad)
  \/ \E bitrate : config_Bitrate(bitrate, bad)
  \/ \E fps : config_Framerate(fps, bad)
  \/ (\E b : config_IntraPeriod(b, bad)) \/ config_IntraVopRefresh(bad)
  \/ \E degrees : config_Rotate(degrees, bad)
  \/ get_PortDefinition_Out(bad)
  \/ \E garbage : dev_start(garbage, bad)
  \/ dev_stop(bad)
  \/ \E on : set_MaxAllowedBitrateCheck(on) \/ PortCommand(on)
  BY Zenon DEF Settings
<1> USE DEF Call, header
<1>2. ASSUME NEW d, NEW opaque, NEW loads, set_PortDefinition_In(d, opaque, loads, bad)
      PROVE  UNCHANGED header
  BY <1>2 DEF set_PortDefinition_In
<1>3. ASSUME NEW d, set_PortDefinition_Out(d, bad) PROVE UNCHANGED header
  BY <1>3 DEF set_PortDefinition_Out
<1>4. ASSUME NEW opaque, NEW loads, set_PortFormat_In(opaque, loads, bad) PROVE UNCHANGED header
  BY <1>4 DEF set_PortFormat_In
<1>5. ASSUME NEW on, set_MetaBufferMode(on, bad) \/ set_ExtraData(on, bad) PROVE UNCHANGED header
  BY <1>5 DEF set_MetaBufferMode, set_ExtraData
<1>6. ASSUME NEW r, set_Setting(r, bad) PROVE UNCHANGED header
  BY <1>6 DEF set_Setting
<1> QED
  BY <1>1, <1>2, <1>3, <1>4, <1>5, <1>6
     DEF set_Bitrate, set_Codec, set_ProfileLevel, set_Quantization, set_IntraRefresh,
         set_ErrorCorrection, set_MaxAllowedBitrateCheck, config_Bitrate, config_Framerate,
         config_Other, config_IntraPeriod, config_IntraVopRefresh, config_Rotate, get_PortDefinition_Out, dev_start, dev_stop, PortCommand

(* Every step keeps the invariant: each call of the requester, the driver, *)
(* the message thread.                                                     *)
LEMMA HdrKept == HdrInv /\ [ParamsNext]_paramsVars => HdrInv'
<1> SUFFICES ASSUME HdrInv, [ParamsNext]_paramsVars PROVE HdrInv'
  OBVIOUS
<1> USE DEF HdrInv, HdrType, StartsLast, Where, Heard, StopFlag, Reported, None, HeaderStep, Failed
<1>1. CASE UNCHANGED header
  BY <1>1 DEF header
<1>2. CASE VideoSyntaxHdr
  <2>1. hdr.pc = "idle" /\ hdr'.pc = "start" /\ hdr'.result = "none"
        /\ flags' = flags \cup {"START"} /\ UNCHANGED <<pipe, messages>>
    BY <1>2 DEF VideoSyntaxHdr
  <2>2. hdr' \in [pc : {"start"}, ok : BOOLEAN, signalled : BOOLEAN, result : {"none"}, calls : Nat]
    <3>1. hdr' = [hdr EXCEPT !.pc = "start", !.ok = TRUE, !.result = "none", !.calls = @ + 1]
      BY <1>2 DEF VideoSyntaxHdr
    <3>2. hdr.calls + 1 \in Nat
      OBVIOUS
    <3> QED
      BY <3>1, <3>2
  <2> QED
    BY <2>1, <2>2
<1>3. CASE venc_loaded_start
  BY <1>3 DEF venc_loaded_start
<1>4. CASE TimedWait
  BY <1>4 DEF TimedWait
<1>5. CASE Woken
  <2>1. CASE hdr.pc = "startWait"
    BY <1>5, <2>1 DEF Woken
  <2>2. CASE hdr.pc = "stopWait"
    <3>1. hdr'.pc = "idle" /\ hdr' \in [pc : {"idle"}, ok : BOOLEAN, signalled : BOOLEAN,
                                        result : {"ok", "failed"}, calls : Nat]
      BY <1>5, <2>2 DEF Woken
    <3>2. messages.state = "stopped" /\ hdr.signalled /\ UNCHANGED <<flags, pipe, messages>>
      BY <1>5, <2>2 DEF Woken
    <3>3. HdrType' /\ StartsLast'
      BY <3>1, <3>2
    <3>4. Where' /\ Heard' /\ Reported'
      BY <3>1, <3>2
    <3>5. StopFlag'
      BY <3>1, <3>2, <2>2
    <3> QED
      BY <3>3, <3>4, <3>5
  <2> QED
    BY <1>5, <2>1, <2>2 DEF Woken
<1>6. CASE TimedOut
  BY <1>6 DEF TimedOut
<1>7. CASE venc_get_seq_hdr
  BY <1>7 DEF venc_get_seq_hdr
<1>8. CASE venc_loaded_stop
  <2>1. CASE /\ messages.state = "started" /\ messages' = [messages EXCEPT !.state = "stopping"]
             /\ hdr' = [hdr EXCEPT !.pc = "stopLock"] /\ flags' = flags
    BY <1>8, <2>1 DEF venc_loaded_stop
  <2>2. CASE Failed("STOP") /\ UNCHANGED messages
    BY <1>8, <2>2 DEF venc_loaded_stop
  <2> QED
    BY <1>8, <2>1, <2>2 DEF venc_loaded_stop
<1>9. CASE DriverAnswers
  <2>1. CASE messages.state = "starting"
    <3>1. messages'.state = "started" /\ messages'.clearing = messages.clearing
          /\ pipe' = Append(pipe, "START") /\ UNCHANGED <<hdr, flags>>
          /\ messages' \in [state : {"started"}, clearing : {"none", "START", "STOP"}]
      BY <1>9, <2>1 DEF DriverAnswers
    <3>2. pipe' \in Seq({"START", "STOP"}) /\ Len(pipe') = Len(pipe) + 1
          /\ \A i \in 1 .. Len(pipe) : pipe'[i] = pipe[i] /\ pipe[i] # "START"
      BY <3>1, <2>1
    <3>3. StartsLast'
      BY <3>1, <3>2
    <3> QED
      BY <2>1, <3>1, <3>2, <3>3
  <2>2. CASE messages.state = "stopping"
    <3>1. messages'.state = "stopped" /\ messages'.clearing = messages.clearing
          /\ pipe' = Append(pipe, "STOP") /\ UNCHANGED <<hdr, flags>>
          /\ messages' \in [state : {"stopped"}, clearing : {"none", "START", "STOP"}]
      BY <1>9, <2>2 DEF DriverAnswers
    <3>2. pipe' \in Seq({"START", "STOP"}) /\ Len(pipe') = Len(pipe) + 1
          /\ pipe'[Len(pipe) + 1] = "STOP"
          /\ \A i \in 1 .. Len(pipe) : pipe'[i] = pipe[i] /\ pipe[i] # "START"
      BY <3>1, <2>2
    <3>3. StartsLast'
      BY <3>1, <3>2
    <3> QED
      BY <2>2, <3>1, <3>2, <3>3
  <2> QED
    BY <1>9, <2>1, <2>2 DEF DriverAnswers
<1>10. CASE LoadedDone
  <2>1. pipe # <<>> /\ messages.clearing = "none" /\ pipe' = Tail(pipe) /\ flags' = flags
    BY <1>10 DEF LoadedDone
  <2>2. pipe' \in Seq({"START", "STOP"}) /\ Len(pipe') = Len(pipe) - 1 /\ Len(pipe) \in Nat \ {0}
        /\ \A i \in 1 .. Len(pipe') : pipe'[i] = pipe[i + 1]
    BY <2>1
  <2>3. Head(pipe) = pipe[1] /\ Head(pipe) \in {"START", "STOP"}
    BY <2>1
  <2>4. messages'.state = messages.state /\ hdr'.pc = hdr.pc /\ hdr'.result = hdr.result
    BY <1>10 DEF LoadedDone
  <2>5. HdrType'
    <3>1. CASE Head(pipe) \in flags
      BY <1>10, <2>1, <2>2, <2>3, <3>1 DEF LoadedDone
    <3>2. CASE Head(pipe) \notin flags
      BY <1>10, <2>1, <2>2, <2>3, <3>2 DEF LoadedDone
    <3> QED
      BY <3>1, <3>2
  <2>6. StartsLast' /\ Where' /\ StopFlag' /\ Reported'
    <3>1. StartsLast'
      BY <2>2, <2>4
    <3>2. Where'
      BY <2>1, <2>2, <2>4
    <3>3. StopFlag'
      <4>1. CASE Head(pipe) \notin flags
        BY <1>10, <2>1, <4>1 DEF LoadedDone
      <4>2. CASE Head(pipe) \in flags
        <5>1. messages'.clearing = Head(pipe)
          BY <1>10, <4>2 DEF LoadedDone
        <5>2. CASE Head(pipe) = "START" /\ "STOP" \in flags
          <6>1. messages.state = "started"
            <7>1. 1 \in 1 .. Len(pipe) /\ pipe[1] = "START"
              BY <5>2, <2>2, <2>3
            <7> QED
              BY <7>1
          <6> QED
            BY <5>2, <6>1, <2>1, <2>4
        <5> QED
          BY <5>1, <5>2, <2>1, <2>3
      <4> QED
        BY <4>1, <4>2
    <3>4. Reported'
      BY <2>4
    <3> QED
      BY <3>1, <3>2, <3>3, <3>4
  <2>7. Heard'
    <3>1. CASE hdr.pc = "startWait" /\ hdr'.signalled
      <4>1. CASE hdr.signalled
        BY <3>1, <4>1, <2>1
      <4>2. CASE ~hdr.signalled
        <5>1. Head(pipe) \in flags
          BY <1>10, <3>1, <4>2 DEF LoadedDone
        <5>2. pipe[1] = "START"
          BY <5>1, <2>1, <2>3, <3>1
        <5>3. Len(pipe) = 1 /\ messages.state = "started"
          BY <5>2, <2>2
        <5> QED
          BY <5>3, <2>2, <2>4, <3>1
      <4> QED
        BY <4>1, <4>2
    <3>2. CASE hdr.pc = "stopWait" /\ hdr'.signalled
      BY <2>1, <2>4, <3>2
    <3> QED
      BY <3>1, <3>2, <2>4
  <2> QED
    BY <2>5, <2>6, <2>7
<1>11. CASE ClearPending
  BY <1>11 DEF ClearPending
<1> QED
  BY <1>1, <1>2, <1>3, <1>4, <1>5, <1>6, <1>7, <1>8, <1>9, <1>10, <1>11, SettingsQuiet
     DEF ParamsNext, HeaderCall, paramsVars

(* A header that get_parameter reports came from a driver that has stopped *)
(* again, whatever order the answers come in and whenever a wait times     *)
(* out: HeaderOkMeansStopped of VencParams.                                *)
THEOREM HeadersAnswered == ParamsSpec => []HeaderOkMeansStopped
<1>1. HdrInv => HeaderOkMeansStopped
  BY DEF HdrInv, Reported, HeaderOkMeansStopped
<1> QED
  BY <1>1, HdrInitially, HdrKept, PTL DEF ParamsSpec

(***************************************************************************)
(* The settings (VencParams). Their world, typed: every value is one that  *)
(* is asked for, one of the tables or one of the first settings.           *)
(***************************************************************************)
Rates == Bitrates \cup {64000, Unset}
Q16s == FrameRates \cup {Fps15, 2 * Fps15}
Sizes == LET some == Frames \cup {QCIF}
         IN some \cup {Swap(s) : s \in some} \cup {Swap(Swap(s)) : s \in some}

(* The levels a client asks for by name (Levels of VencParams).            *)
BasicLevels == {Table(c)[DefaultProfile(c)][i][4] : c \in Codecs, i \in {1, 4}}

(* Profiles, levels and the values of the settings that are names.         *)
Words == {"SP", "ASP", "BASELINE", "MAIN", "HIGH", "H263", "unknown", "none", "max", "6",
          "CABAC", "CAVLC", "all", "CNT_MB", "OFF", "CNT_BYTE", "GOB", "VBR", "other"}
           \cup (UNION {KnownLevels(c) : c \in {"MPEG4", "H263", "H264"}})
           \cup BasicLevels
Values == Rates \cup Sizes \cup {Q16ToFraction(q) : q \in Q16s} \cup {[num |-> 30, shift |-> 0]}
            \cup Words \cup Counts \cup {MinCount, 4, 0, 1, 9, 30, 99}

Devs == [codec : Codecs, size : Sizes, fps : Values, rate : Values, target : Values,
         profile : Words, level : Words, pset : BOOLEAN, lset : BOOLEAN,
         eProfile : Words, eLevel : Words, check : BOOLEAN, set : [Names -> SUBSET Values],
         inReq : Values, outReq : Values, outSize : Sizes, recon : SUBSET (1 .. 4),
         reconCount : 0 .. 4]
Drvs == [size : Sizes, fps : Values, bitrate : Values, profile : Words, level : Words,
         set : [Names -> SUBSET Values], in : Values, out : Values, recon : Int,
         refused : BOOLEAN]
Worlds == [dev : Devs, drv : Drvs, bad : Nat]
Outcomes == [ok : BOOLEAN, w : Worlds]

(* What venc_dev believes of the driver; that a level is set only with a   *)
(* profile makes it inductive, as venc_set_profile_level sets the profile  *)
(* first.  The size may have been written into the copy before the         *)
(* driver has been asked.                                                  *)
ButSize(w) ==
  /\ w.dev.pset => w.dev.profile = w.drv.profile
  /\ w.dev.lset => w.dev.pset /\ w.dev.level = w.drv.level
  /\ w.dev.rate = w.drv.bitrate /\ w.dev.fps = w.drv.fps
  /\ w.dev.set = w.drv.set
SizeTold(w) == w.dev.size # w.drv.size => w.drv.refused
Agree(w) == ButSize(w) /\ SizeTold(w)

(* What no setting changes.                                                *)
Rest(w) == <<w.dev.codec, w.dev.recon, w.dev.reconCount, w.drv.recon, w.dev.check>>

(* What a setting of profile, level or coding tool leaves alone.           *)
Video(w) == <<w.dev.size, w.dev.fps, w.dev.rate, w.drv.size, w.drv.out, w.dev.outReq, w.dev.outSize>>

(* A profile that was set stays.                                           *)
Chosen(w, v) == w.dev.pset => v.dev.pset /\ v.drv.profile = w.drv.profile

(* An outcome a call can have: well formed, venc_dev still right about the *)
(* driver.                                                                 *)
Fine(w, r) ==
  /\ r \in Outcomes /\ Agree(r.w)
  /\ Rest(r.w) = Rest(w)
  /\ w.bad = 0 => r.w.bad = 0
Still(w, r) == Fine(w, r) /\ Video(r.w) = Video(w) /\ Chosen(w, r.w)

(***************************************************************************)
(* One ioctl: the world in which it has been counted, and the one in which *)
(* it was done.                                                            *)
(***************************************************************************)
Ticked(w) == [w EXCEPT !.bad = IF @ = 0 THEN 0 ELSE @ - 1]
Issued(w, v) == IF w.bad = 1 THEN No(Ticked(w)) ELSE Yes(v)

(* An ioctl that only counts changes nothing else.                         *)
LEMMA Tick ==
  ASSUME NEW w \in Worlds, Agree(w)
  PROVE  /\ Ticked(w) \in Worlds /\ Agree(Ticked(w))
         /\ Ticked(w).dev = w.dev /\ Ticked(w).drv = w.drv
         /\ w.bad = 0 => Ticked(w).bad = 0
BY DEF Worlds, Agree, ButSize, SizeTold, Ticked

(* An ioctl that leaves venc_dev right leaves a fine outcome, done or      *)
(* refused.                                                                *)
LEMMA IssuedFine ==
  ASSUME NEW w \in Worlds, Agree(w), NEW v \in Worlds, Agree(v), v.bad = Ticked(w).bad,
         Rest(v) = Rest(w)
  PROVE  Fine(w, Issued(w, v))
<1>1. Ticked(w) \in Worlds /\ Agree(Ticked(w)) /\ Rest(Ticked(w)) = Rest(w)
      /\ (w.bad = 0 => Ticked(w).bad = 0)
  BY Tick DEF Rest
<1>2. CASE w.bad = 1
  BY <1>1, <1>2 DEF Issued, Fine, No, Outcomes
<1>3. CASE w.bad # 1
  BY <1>1, <1>3 DEF Issued, Fine, Yes, Outcomes
<1> QED
  BY <1>2, <1>3

(* The same for one that also leaves the stream alone.                     *)
LEMMA IssuedStill ==
  ASSUME NEW w \in Worlds, Agree(w), NEW v \in Worlds, Agree(v), v.bad = Ticked(w).bad,
         Rest(v) = Rest(w), Video(v) = Video(w), Chosen(w, v)
  PROVE  Still(w, Issued(w, v))
<1>1. Fine(w, Issued(w, v))
  BY IssuedFine
<1>2. Video(Ticked(w)) = Video(w) /\ Chosen(w, Ticked(w))
  BY Tick DEF Video, Chosen
<1>3. CASE w.bad = 1
  BY <1>1, <1>2, <1>3 DEF Issued, Still, No
<1>4. CASE w.bad # 1
  BY <1>1, <1>2, <1>4 DEF Issued, Still, Yes
<1> QED
  BY <1>3, <1>4

(* A chain of two fine calls is fine, broken off or not.                   *)
LEMMA ThenFine ==
  ASSUME NEW w, NEW r, NEW s, Fine(w, r), r.ok => Fine(r.w, s)
  PROVE  Fine(w, IF r.ok THEN s ELSE r)
<1>1. CASE r.ok
  BY <1>1 DEF Fine
<1>2. CASE ~r.ok
  BY <1>2
<1> QED
  BY <1>1, <1>2

(* A chain of two calls that leave the stream alone leaves it alone.       *)
LEMMA ThenStill ==
  ASSUME NEW w, NEW r, NEW s, Still(w, r), r.ok => Still(r.w, s)
  PROVE  Still(w, IF r.ok THEN s ELSE r)
<1>1. CASE r.ok
  <2>1. Fine(w, r) /\ Fine(r.w, s) /\ Video(s.w) = Video(w) /\ Chosen(w, s.w)
    BY <1>1 DEF Still, Chosen
  <2>2. Fine(w, s)
    BY <2>1 DEF Fine
  <2> QED
    BY <1>1, <2>1, <2>2 DEF Still
<1>2. CASE ~r.ok
  BY <1>2
<1> QED
  BY <1>1, <1>2

(* Returning at once is fine, with success or without.                     *)
LEMMA YesNo ==
  ASSUME NEW w \in Worlds, Agree(w)
  PROVE  /\ Still(w, Yes(w)) /\ Still(w, No(w))
         /\ Yes(w).ok /\ ~No(w).ok /\ Yes(w).w = w /\ No(w).w = w
BY DEF Still, Fine, Yes, No, Outcomes, Chosen

(* So is success after a failure that is only logged.                      *)
LEMMA AnywayStill ==
  ASSUME NEW w, NEW r, Still(w, r)
  PROVE  Still(w, Anyway(r)) /\ Anyway(r).ok /\ Anyway(r).w = r.w
BY DEF Still, Fine, Anyway, Yes, Outcomes

(* An ioctl without a copy in venc_dev.                                    *)
LEMMA QuietStill == ASSUME NEW w \in Worlds, Agree(w) PROVE Still(w, Ioctl(w, Quiet))
<1>1. Ioctl(w, Quiet) = Issued(w, Ticked(w))
  BY DEF Ioctl, Quiet, Issued, Ticked
<1>2. Rest(Ticked(w)) = Rest(w) /\ Video(Ticked(w)) = Video(w) /\ Chosen(w, Ticked(w))
  BY Tick DEF Rest, Video, Chosen
<1> QED
  BY <1>1, <1>2, Tick, IssuedStill

(* An ioctl with one: the copy is written when, and only when, the driver  *)
(* accepted the value.                                                     *)
LEMMA SettingStill ==
  ASSUME NEW w \in Worlds, Agree(w), NEW name \in Names, NEW value \in Values
  PROVE  Still(w, Setting(w, name, value))
<1> DEFINE u == Ticked(w)
           v == [u EXCEPT !.drv.set[name] = {value}, !.dev.set[name] = {value}]
<1>1. Setting(w, name, value) = Issued(w, v)
  BY DEF Setting, Ioctl, Issued, Ticked
<1>2. u \in Worlds /\ Agree(u) /\ u.dev = w.dev /\ u.drv = w.drv
  BY Tick
<1> HIDE DEF u
<1>3. v \in Worlds
  BY <1>2 DEF Worlds, Devs, Drvs
<1>4. Agree(v) /\ Rest(v) = Rest(u) /\ Video(v) = Video(u) /\ Chosen(u, v) /\ v.bad = u.bad
  BY <1>2 DEF Worlds, Devs, Drvs, Agree, ButSize, SizeTold, Rest, Video, Chosen
<1>5. Rest(v) = Rest(w) /\ Video(v) = Video(w) /\ Chosen(w, v) /\ v.bad = Ticked(w).bad
  BY <1>2, <1>4 DEF Rest, Video, Chosen, u
<1> QED
  BY <1>1, <1>3, <1>4, <1>5, IssuedStill

(* The values the calls pass on are values of the world.                   *)
LEMMA SomeValues ==
  /\ {0, 1, 9, 30, 99, "CABAC", "CAVLC", "all", "CNT_MB", "OFF", "CNT_BYTE", "GOB", "VBR", MinCount, 4,
      64000, Unset} \subseteq Values
  /\ Bitrates \subseteq Values /\ Counts \subseteq Values
  /\ \A q \in Q16s : Q16ToFraction(q) \in Values
  /\ Rates \subseteq Values /\ [num |-> 30, shift |-> 0] \in Values
BY DEF Values, Words, Rates

(* Every single setting of venc_dev (venc_set_intra_period,                *)
(* venc_set_entropy_config and so on) keeps venc_dev right about the       *)
(* driver and leaves the stream alone.                                     *)
LEMMA OneSetting ==
  ASSUME NEW w \in Worlds, Agree(w)
  PROVE  /\ \A b \in {0, 1} : Still(w, venc_set_intra_period(w, b))
         /\ \A cabac \in BOOLEAN : Still(w, venc_set_entropy_config(w, cabac))
         /\ Still(w, venc_set_inloop_filter(w, "all"))
         /\ \A spacing \in Int : Still(w, venc_set_multislice_cfg(w, spacing))
         /\ Still(w, venc_set_voptiming_cfg(w, 30))
         /\ Still(w, venc_set_session_qp(w, 9))
         /\ \A mode \in {"VBR", "other"} : Still(w, venc_set_ratectrl_cfg(w, mode))
         /\ \A mbs \in {0, 99} : Still(w, venc_set_intra_refresh(w, mbs))
         /\ \A e : Still(w, venc_set_error_resilience(w, e))
         /\ Still(w, SliceDelivery(w))
         /\ Still(w, venc_set_flag(w)) /\ Still(w, venc_set_intra_vop_refresh(w))
         /\ Still(w, venc_set_meta_mode(w))
<1>1. \A name \in Names, value \in Values : Still(w, Setting(w, name, value))
  BY SettingStill
<1>2. Still(w, No(w)) /\ Still(w, Yes(w)) /\ Still(w, Ioctl(w, Quiet)) /\ Still(w, Anyway(Ioctl(w, Quiet)))
  BY YesNo, QuietStill, AnywayStill
<1>3. {"intra", "entropy", "slices", "refresh", "qp", "filter", "rc", "vop"} = Names
  BY DEF Names
<1>4. {0, 1, 9, 30, 99, "CABAC", "CAVLC", "all", "CNT_MB", "OFF", "CNT_BYTE", "GOB", "VBR"} \subseteq Values
  BY SomeValues
<1> HIDE DEF Values
<1>5. \A b \in {0, 1} : Still(w, venc_set_intra_period(w, b))
  BY <1>1, <1>3, <1>4 DEF venc_set_intra_period
<1>6. \A cabac \in BOOLEAN : Still(w, venc_set_entropy_config(w, cabac))
  BY <1>1, <1>2, <1>3, <1>4 DEF venc_set_entropy_config
<1>7. Still(w, venc_set_inloop_filter(w, "all"))
  BY <1>1, <1>3, <1>4 DEF venc_set_inloop_filter
<1>8. \A spacing \in Int : Still(w, venc_set_multislice_cfg(w, spacing))
  BY <1>1, <1>3, <1>4 DEF venc_set_multislice_cfg
<1>9. Still(w, venc_set_voptiming_cfg(w, 30)) /\ Still(w, venc_set_session_qp(w, 9))
  BY <1>1, <1>3, <1>4 DEF venc_set_voptiming_cfg, venc_set_session_qp
<1>10. \A mode \in {"VBR", "other"} : Still(w, venc_set_ratectrl_cfg(w, mode))
  BY <1>1, <1>2, <1>3, <1>4 DEF venc_set_ratectrl_cfg
<1>11. \A mbs \in {0, 99} : Still(w, venc_set_intra_refresh(w, mbs))
  BY <1>1, <1>2, <1>3, <1>4 DEF venc_set_intra_refresh
<1>12. \A e : Still(w, venc_set_error_resilience(w, e))
  <2> TAKE e
  <2>1. CASE e.rvlc \/ (w.dev.codec # "H263" /\ e.partition)
    BY <2>1, <1>2 DEF venc_set_error_resilience
  <2>2. CASE ~(e.rvlc \/ (w.dev.codec # "H263" /\ e.partition))
    <3> DEFINE value == CASE w.dev.codec # "H263" /\ e.resync -> "CNT_BYTE"
                          [] w.dev.codec = "H263" /\ e.partition -> "GOB"
                          [] OTHER -> "OFF"
    <3>1. value \in {"CNT_BYTE", "GOB", "OFF"}
      OBVIOUS
    <3>2. venc_set_error_resilience(w, e) = Setting(w, "slices", value)
      BY <2>2 DEF venc_set_error_resilience
    <3> HIDE DEF value
    <3> QED
      BY <3>1, <3>2, <1>1, <1>3, <1>4
  <2> QED
    BY <2>1, <2>2
<1>13. Still(w, SliceDelivery(w)) /\ Still(w, venc_set_flag(w))
       /\ Still(w, venc_set_intra_vop_refresh(w)) /\ Still(w, venc_set_meta_mode(w))
  <2>1. SliceDelivery(w) = Anyway(Ioctl(w, Quiet)) \/ SliceDelivery(w) = Anyway(Yes(w))
    BY DEF SliceDelivery, venc_set_slice_delivery_mode
  <2>2. Anyway(Yes(w)) = Yes(w)
    BY DEF Anyway, Yes
  <2> QED
    BY <1>2, <2>1, <2>2 DEF venc_set_flag, venc_set_intra_vop_refresh, venc_set_meta_mode
<1> QED
  BY <1>5, <1>6, <1>7, <1>8, <1>9, <1>10, <1>11, <1>12, <1>13

(* SET_BASE_CFG tells the driver size, frame rate and bit rate: of these   *)
(* only the size can be news to it.  Refused, it says so.                  *)
LEMMA BaseFine ==
  ASSUME NEW w \in Worlds, ButSize(w)
  PROVE  /\ Fine(w, SET_BASE_CFG(w)) /\ Chosen(w, SET_BASE_CFG(w).w)
         /\ SET_BASE_CFG(w).w.dev = w.dev /\ SET_BASE_CFG(w).w.drv.out = w.drv.out
         /\ SET_BASE_CFG(w).ok => SET_BASE_CFG(w).w.drv.size = w.dev.size
         /\ w.drv.size = w.dev.size => SET_BASE_CFG(w).w.drv.size = w.dev.size
<1> DEFINE u == Ticked(w)
           b == [u EXCEPT !.drv.size = w.dev.size, !.drv.fps = w.dev.fps,
                          !.drv.bitrate = w.dev.rate, !.drv.refused = FALSE]
           f == [u EXCEPT !.drv.refused = TRUE]
<1>1. /\ u \in Worlds /\ u.dev = w.dev /\ u.drv = w.drv
      /\ (w.bad = 0 => u.bad = 0)
  BY DEF Worlds, Ticked
<1>2. SET_BASE_CFG(w) = IF w.bad = 1 THEN No(f) ELSE Yes(b)
  <2>1. SET_BASE_CFG(w)
          = [IF w.bad = 1 THEN No(u)
             ELSE Yes([u EXCEPT !.drv.size = u.dev.size, !.drv.fps = u.dev.fps,
                                !.drv.bitrate = u.dev.rate])
             EXCEPT !.w.drv.refused =
               ~(IF w.bad = 1 THEN No(u)
                 ELSE Yes([u EXCEPT !.drv.size = u.dev.size, !.drv.fps = u.dev.fps,
                                    !.drv.bitrate = u.dev.rate])).ok]
    BY DEF SET_BASE_CFG, Ioctl, Ticked
  <2> HIDE DEF u
  <2>2. CASE w.bad = 1
    BY <2>1, <2>2, <1>1 DEF No, Worlds, Drvs
  <2>3. CASE w.bad # 1
    BY <2>1, <2>3, <1>1 DEF Yes, Worlds, Devs, Drvs
  <2> QED
    BY <2>2, <2>3
<1> HIDE DEF u
<1>3. b \in Worlds /\ f \in Worlds
  BY <1>1 DEF Worlds, Devs, Drvs
<1>4. b.bad = u.bad /\ b.dev = w.dev /\ b.drv.out = w.drv.out /\ b.drv.size = w.dev.size
      /\ b.drv.profile = w.drv.profile /\ b.drv.level = w.drv.level /\ b.drv.recon = w.drv.recon
      /\ b.drv.set = w.drv.set /\ b.drv.bitrate = w.dev.rate /\ b.drv.fps = w.dev.fps
  BY <1>1 DEF Worlds, Devs, Drvs
<1>5. f.bad = u.bad /\ f.dev = w.dev /\ f.drv.out = w.drv.out /\ f.drv.size = w.drv.size
      /\ f.drv.profile = w.drv.profile /\ f.drv.level = w.drv.level /\ f.drv.recon = w.drv.recon
      /\ f.drv.set = w.drv.set /\ f.drv.bitrate = w.drv.bitrate /\ f.drv.fps = w.drv.fps
      /\ f.drv.refused
  BY <1>1 DEF Worlds, Devs, Drvs
<1> HIDE DEF b, f
<1>6. Agree(b) /\ Rest(b) = Rest(w) /\ Chosen(w, b)
  BY <1>4 DEF Agree, ButSize, SizeTold, Rest, Chosen
<1>7. Agree(f) /\ Rest(f) = Rest(w) /\ Chosen(w, f)
  BY <1>5 DEF Agree, ButSize, SizeTold, Rest, Chosen
<1>8. CASE w.bad = 1
  BY <1>1, <1>2, <1>3, <1>5, <1>7, <1>8 DEF Fine, No, Outcomes
<1>9. CASE w.bad # 1
  BY <1>1, <1>2, <1>3, <1>4, <1>6, <1>9 DEF Fine, Yes, Outcomes
<1> QED
  BY <1>8, <1>9

(* Reading and writing the buffer requirement of the input port.           *)
LEMMA InputReq ==
  ASSUME NEW w \in Worlds, Agree(w)
  PROVE  Still(w, GET_INPUT_BUFFER_REQ(w)) /\ Still(w, SET_INPUT_BUFFER_REQ(w))
<1> DEFINE g == [Ticked(w) EXCEPT !.dev.inReq = w.drv.in]
           s == [Ticked(w) EXCEPT !.drv.in = w.dev.inReq]
<1>1. GET_INPUT_BUFFER_REQ(w) = Issued(w, g) /\ SET_INPUT_BUFFER_REQ(w) = Issued(w, s)
  BY Tick DEF GET_INPUT_BUFFER_REQ, SET_INPUT_BUFFER_REQ, Ioctl, Issued, Ticked
<1>2. g \in Worlds /\ Agree(g) /\ Rest(g) = Rest(w) /\ Video(g) = Video(w) /\ Chosen(w, g)
      /\ g.bad = Ticked(w).bad
  BY Tick DEF Worlds, Devs, Drvs, Agree, ButSize, SizeTold, Rest, Video, Chosen
<1>3. s \in Worlds /\ Agree(s) /\ Rest(s) = Rest(w) /\ Video(s) = Video(w) /\ Chosen(w, s)
      /\ s.bad = Ticked(w).bad
  BY Tick DEF Worlds, Devs, Drvs, Agree, ButSize, SizeTold, Rest, Video, Chosen
<1> HIDE DEF g, s
<1> QED
  BY <1>1, <1>2, <1>3, IssuedStill

(***************************************************************************)
(* Profile and level.                                                      *)
(***************************************************************************)
Leveled(w, v) ==
  /\ v.dev.lset = w.dev.lset /\ v.drv.level = w.drv.level

(* Setting the profile: after success there is one, and it is the one      *)
(* asked for or an older one.                                              *)
LEMMA CodecProfile ==
  ASSUME NEW w \in Worlds, Agree(w), NEW p \in Words
  PROVE  LET r == SetCodecProfile(w, p)
         IN /\ Still(w, r) /\ Leveled(w, r.w)
            /\ r.ok => r.w.dev.pset /\ (~w.dev.pset => r.w.drv.profile = p)
            /\ w.bad = 0 => r.ok
<1> DEFINE r == SetCodecProfile(w, p)
           u == Ticked(w)
           v == [u EXCEPT !.drv.profile = p, !.dev.profile = p, !.dev.pset = TRUE]
<1>1. CASE w.dev.pset
  BY <1>1, YesNo DEF SetCodecProfile, Leveled
<1>2. CASE ~w.dev.pset
  <2>1. r = Issued(w, v)
    BY <1>2 DEF SetCodecProfile, Ioctl, Issued, Ticked
  <2>2. u \in Worlds /\ Agree(u) /\ u.dev = w.dev /\ u.drv = w.drv
    BY Tick
  <2> HIDE DEF u
  <2>3. v \in Worlds
    BY <2>2 DEF Worlds, Devs, Drvs
  <2>4. /\ Agree(v) /\ Rest(v) = Rest(w) /\ Video(v) = Video(w) /\ v.bad = u.bad /\ Leveled(w, v)
        /\ v.dev.pset /\ v.drv.profile = p
    BY <1>2, <2>2 DEF Worlds, Devs, Drvs, Agree, ButSize, SizeTold, Rest, Video, Leveled
  <2>5. Chosen(w, v) /\ v.bad = Ticked(w).bad
    BY <1>2, <2>4 DEF Chosen, u
  <2>6. Still(w, r)
    BY <2>1, <2>3, <2>4, <2>5, IssuedStill
  <2>7. r.ok => r.w.dev.pset /\ r.w.drv.profile = p
    BY <2>1, <2>4 DEF Issued, Yes, No
  <2>8. Leveled(w, Ticked(w))
    BY Tick DEF Leveled
  <2>9. Leveled(w, r.w)
    BY <2>1, <2>4, <2>8 DEF Issued, Yes, No
  <2>10. w.bad = 0 => r.ok
    BY <2>1 DEF Issued, Yes
  <2> HIDE DEF r
  <2> QED
    BY <2>6, <2>7, <2>9, <2>10 DEF r
<1> QED
  BY <1>1, <1>2

(* Setting the level, once there is a profile.                             *)
LEMMA ProfileLevel ==
  ASSUME NEW w \in Worlds, Agree(w), w.dev.pset, NEW l \in Words
  PROVE  LET r == SetProfileLevel(w, l)
         IN /\ Still(w, r)
            /\ r.w.dev.lset /\ ~w.dev.lset => r.w.drv.level = l
            /\ w.bad = 0 => r.ok
<1> DEFINE r == SetProfileLevel(w, l)
           u == Ticked(w)
           v == [u EXCEPT !.drv.level = l, !.dev.level = l, !.dev.lset = TRUE]
<1>1. CASE w.dev.lset
  BY <1>1, YesNo DEF SetProfileLevel
<1>2. CASE ~w.dev.lset
  <2>1. r = Issued(w, v)
    BY <1>2 DEF SetProfileLevel, Ioctl, Issued, Ticked
  <2>2. u \in Worlds /\ Agree(u) /\ u.dev = w.dev /\ u.drv = w.drv
    BY Tick
  <2> HIDE DEF u
  <2>3. v \in Worlds
    BY <2>2 DEF Worlds, Devs, Drvs
  <2>4. /\ Agree(v) /\ Rest(v) = Rest(w) /\ Video(v) = Video(w) /\ v.bad = u.bad
        /\ v.drv.level = l /\ Chosen(w, v)
    BY <1>2, <2>2 DEF Worlds, Devs, Drvs, Agree, ButSize, SizeTold, Rest, Video, Chosen
  <2>5. v.bad = Ticked(w).bad
    BY <2>4 DEF u
  <2>6. Still(w, r)
    BY <2>1, <2>3, <2>4, <2>5, IssuedStill
  <2>7. ~Ticked(w).dev.lset
    BY <1>2, Tick
  <2>8. r.w.dev.lset => r.w.drv.level = l
    BY <2>1, <2>4, <2>7 DEF Issued, Yes, No
  <2>9. w.bad = 0 => r.ok
    BY <2>1 DEF Issued, Yes
  <2> HIDE DEF r
  <2> QED
    BY <2>6, <2>8, <2>9 DEF r
<1> QED
  BY <1>1, <1>2

LargeLevelled(w) == [w EXCEPT !.dev.level = LargeLevel(w.dev.profile)]

(* What the answer of venc_validate_profile_level means.                   *)
ValidatedSays(w, tables, profile, level, a) ==
  /\ a.w \in Worlds /\ Agree(a.w) /\ a.w.bad = w.bad /\ a.w.drv = w.drv
  /\ Rest(a.w) = Rest(w) /\ Video(a.w) = Video(w)
  /\ a.w.dev.pset = w.dev.pset /\ ~a.w.dev.lset
  /\ a.p = profile
  /\ a.ok /\ ~Large(w.dev) =>
       /\ profile \in DOMAIN tables /\ Covering(tables[profile], w.dev) # {}
       /\ level = Max => a.l = tables[profile][First(Covering(tables[profile], w.dev))][4]

(* venc_validate_profile_level answers so.  Its write to the level of      *)
(* venc_dev is harmless: no level is set then.                             *)
LEMMA ValidatedHolds ==
  ASSUME NEW w \in Worlds, Agree(w), ~w.dev.lset, NEW tables, NEW profile \in Words, NEW level
  PROVE  ValidatedSays(w, tables, profile, level, Validated(w, tables, profile, level))
<1> DEFINE a == Validated(w, tables, profile, level)
           found == Covering(tables[profile], w.dev)
           x == LargeLevelled(w)
<1>1. x \in Worlds /\ Agree(x) /\ x.bad = w.bad /\ x.drv = w.drv
      /\ Rest(x) = Rest(w) /\ Video(x) = Video(w) /\ x.dev.pset = w.dev.pset /\ ~x.dev.lset
  <2>1. {"5", "6"} \subseteq Words
    <3>1. "5" \in KnownLevels("MPEG4")
      BY DEF KnownLevels
    <3> QED
      BY <3>1 DEF Words
  <2>2. LargeLevel(w.dev.profile) \in Words
    BY <2>1 DEF LargeLevel
  <2> HIDE DEF Words
  <2> QED
    BY <2>2 DEF LargeLevelled, Worlds, Devs, Agree, ButSize, SizeTold, Rest, Video
<1> HIDE DEF x
<1>2. CASE profile \notin DOMAIN tables
  <2>1. a = [ok |-> FALSE, w |-> w, p |-> profile, l |-> level]
    BY <1>2 DEF Validated
  <2> QED
    BY <2>1 DEF ValidatedSays
<1>3. CASE profile \in DOMAIN tables /\ Large(w.dev)
  <2>1. a = [ok |-> TRUE, w |-> x, p |-> profile, l |-> level]
    BY <1>3 DEF Validated, x, LargeLevelled
  <2> QED
    BY <2>1, <1>1, <1>3 DEF ValidatedSays
<1>4. CASE profile \in DOMAIN tables /\ ~Large(w.dev) /\ found = {}
  <2>1. a = [ok |-> FALSE, w |-> w, p |-> profile, l |-> level]
    BY <1>4 DEF Validated
  <2> QED
    BY <2>1, <1>4 DEF ValidatedSays
<1>5. CASE profile \in DOMAIN tables /\ ~Large(w.dev) /\ found # {}
  <2>1. a = [ok |-> TRUE, w |-> w, p |-> profile,
             l |-> IF level = Max THEN tables[profile][First(found)][4] ELSE level]
    BY <1>5 DEF Validated
  <2> HIDE DEF a
  <2>2. a.ok /\ a.w = w /\ a.p = profile
        /\ a.l = IF level = Max THEN tables[profile][First(found)][4] ELSE level
    BY <2>1
  <2> QED
    BY <2>2, <1>5 DEF ValidatedSays, a
<1> QED
  BY <1>2, <1>3, <1>4, <1>5

(* The level of the driver is the lowest of the table that covers the      *)
(* stream (LevelCovers of VencParams).                                     *)
Covered(w) ==
  IF Large(w.dev) THEN w.drv.level = LargeLevel(w.drv.profile)
  ELSE LET table == Table(w.dev.codec)[w.drv.profile]
           found == Covering(table, [w.dev EXCEPT !.rate = w.drv.bitrate])
       IN found # {} /\ w.drv.level = table[First(found)][4]

(* How venc_set_profile_level goes on from that answer.                    *)
LEMMA SetValidatedStill ==
  ASSUME NEW w \in Worlds, Agree(w), ~w.dev.lset, NEW tables, NEW p \in Words, NEW level,
         NEW a, ValidatedSays(w, tables, p, level, a), w.dev.pset => w.dev.profile = p
  PROVE  LET r == SetValidated(a, w.dev)
         IN /\ Still(w, r)
            /\ r.ok => r.w.dev.pset /\ r.w.drv.profile = p
            /\ r.w.dev.lset =>
                 /\ r.w.drv.profile = p
                 /\ r.w.drv.level = IF Large(w.dev) THEN LargeLevel(p) ELSE a.l
                 /\ a.ok
            /\ w.bad = 0 /\ a.ok /\ (Large(w.dev) \/ a.l \in KnownLevels(w.dev.codec)) => r.ok
<1> DEFINE l == IF Large(w.dev) THEN LargeLevel(a.p) ELSE a.l
           r1 == SetCodecProfile(a.w, a.p)
           r2 == SetProfileLevel(r1.w, l)
           r == SetValidated(a, w.dev)
<1>1. a.w \in Worlds /\ Agree(a.w) /\ a.w.bad = w.bad /\ a.w.drv = w.drv
      /\ Rest(a.w) = Rest(w) /\ Video(a.w) = Video(w)
      /\ a.w.dev.pset = w.dev.pset /\ ~a.w.dev.lset /\ a.p = p
  BY DEF ValidatedSays
<1>2. \A s : Still(a.w, s) => Still(w, s)
  BY <1>1 DEF Still, Fine, Chosen
<1>3. CASE ~a.ok \/ (~Large(w.dev) /\ a.l \notin KnownLevels(w.dev.codec))
  <2>1. r = No(a.w)
    BY <1>3 DEF SetValidated
  <2>2. Still(w, No(a.w)) /\ ~No(a.w).ok /\ No(a.w).w = a.w
    BY <1>1, <1>2, YesNo
  <2> HIDE DEF r
  <2> QED
    BY <2>1, <2>2, <1>1, <1>3 DEF r
<1>4. CASE a.ok /\ (Large(w.dev) \/ a.l \in KnownLevels(w.dev.codec))
  <2>1. r = IF r1.ok THEN r2 ELSE r1
    BY <1>4 DEF SetValidated, Then
  <2>2. l \in Words
    <3>1. KnownLevels(w.dev.codec) \subseteq Words
      <4>1. w.dev.codec \in {"MPEG4", "H263", "H264"}
        BY VencParamsAssumption DEF Worlds, Devs
      <4> QED
        BY <4>1 DEF Words
    <3>2. "5" \in KnownLevels("MPEG4")
      BY DEF KnownLevels
    <3>3. {"5", "6"} \subseteq Words
      BY <3>2 DEF Words
    <3> QED
      BY <3>1, <3>3, <1>4 DEF LargeLevel
  <2> HIDE DEF l, Words
  <2>3. /\ Still(a.w, r1) /\ Leveled(a.w, r1.w)
        /\ r1.ok => r1.w.dev.pset /\ (~a.w.dev.pset => r1.w.drv.profile = a.p)
        /\ w.bad = 0 => r1.ok
    BY <1>1, CodecProfile
  <2> HIDE DEF r1
  <2>4. ~r1.w.dev.lset /\ r1.w \in Worlds /\ Agree(r1.w)
    BY <2>3, <1>1 DEF Leveled, Still, Fine, Outcomes
  <2>5. r1.ok => r1.w.drv.profile = p
    BY <2>3, <1>1 DEF Still, Fine, Agree, ButSize, SizeTold, Chosen
  <2>6. r1.ok => /\ Still(r1.w, r2)
                 /\ r2.w.dev.lset /\ ~r1.w.dev.lset => r2.w.drv.level = l
                 /\ r1.w.bad = 0 => r2.ok
    BY <2>2, <2>3, <2>4, ProfileLevel
  <2> HIDE DEF r2
  <2>7. Still(a.w, r)
    BY <2>1, <2>3, <2>6, ThenStill
  <2>8. r1.ok => r2.w.dev.pset /\ r2.w.drv.profile = p
    BY <2>3, <2>5, <2>6 DEF Still, Chosen
  <2>9. w.bad = 0 => r1.w.bad = 0
    BY <2>3, <1>1 DEF Still, Fine
  <2> HIDE DEF r
  <2>10. Still(w, r)
    BY <2>7, <1>2
  <2>11. r.ok => r.w.dev.pset /\ r.w.drv.profile = p
    BY <2>1, <2>8
  <2>12. r.w.dev.lset => r.w.drv.profile = p /\ r.w.drv.level = l /\ a.ok
    BY <2>1, <2>4, <2>6, <2>8, <1>4
  <2>13. w.bad = 0 => r.ok
    BY <2>1, <2>3, <2>6, <2>9
  <2> QED
    BY <2>10, <2>11, <2>12, <2>13, <1>1 DEF r, l
<1> QED
  BY <1>3, <1>4

(* A default profile is a profile.                                         *)
LEMMA DefaultProfileWord == \A c \in Codecs : DefaultProfile(c) \in Words
<1>1. \A c \in Codecs : DefaultProfile(c) \in {"SP", "H263", "BASELINE"}
  BY VencParamsAssumption DEF DefaultProfile
<1> QED
  BY <1>1 DEF Words

(* The profile and level a client asks for are remembered for the check of *)
(* the bit rate.                                                           *)
AskedWorld(w, p, l) ==
  IF p # None /\ l # None THEN [w EXCEPT !.dev.eProfile = p, !.dev.eLevel = l] ELSE w

(* Remembering them changes nothing else.                                  *)
LEMMA AskedSame ==
  ASSUME NEW w \in Worlds, Agree(w), NEW p \in Words, NEW l \in Words
  PROVE  LET a == AskedWorld(w, p, l)
         IN /\ a \in Worlds /\ Agree(a) /\ Rest(a) = Rest(w) /\ Video(a) = Video(w)
            /\ a.bad = w.bad /\ a.drv = w.drv
            /\ a.dev.pset = w.dev.pset /\ a.dev.lset = w.dev.lset /\ a.dev.profile = w.dev.profile
<1> HIDE DEF Words
<1>1. CASE p # None /\ l # None
  <2>1. AskedWorld(w, p, l) = [w EXCEPT !.dev.eProfile = p, !.dev.eLevel = l]
    BY <1>1 DEF AskedWorld
  <2> DEFINE a == [w EXCEPT !.dev.eProfile = p, !.dev.eLevel = l]
  <2>2. a \in Worlds
    BY DEF Worlds, Devs
  <2>3. /\ a.bad = w.bad /\ a.drv = w.drv /\ a.dev.pset = w.dev.pset /\ a.dev.lset = w.dev.lset
        /\ a.dev.profile = w.dev.profile /\ a.dev.level = w.dev.level /\ a.dev.rate = w.dev.rate
        /\ a.dev.fps = w.dev.fps /\ a.dev.set = w.dev.set /\ a.dev.size = w.dev.size
    BY DEF Worlds, Devs
  <2>4. Rest(a) = Rest(w) /\ Video(a) = Video(w)
    BY DEF Worlds, Devs, Rest, Video
  <2> HIDE DEF a
  <2>5. Agree(a)
    BY <2>3 DEF Agree, ButSize, SizeTold
  <2> QED
    BY <2>1, <2>2, <2>3, <2>4, <2>5 DEF a
<1>2. CASE ~(p # None /\ l # None)
  BY <1>2 DEF AskedWorld
<1> QED
  BY <1>1, <1>2

ProfileFor(w, p) ==
  IF p # None THEN p ELSE IF w.dev.pset THEN w.dev.profile ELSE DefaultProfile(w.dev.codec)

(* The stream, as the choice of a level looks at it.                       *)
SameFor(w, v) ==
  /\ v.dev.codec = w.dev.codec /\ v.dev.size = w.dev.size /\ v.dev.fps = w.dev.fps
  /\ v.dev.rate = w.dev.rate

(* Whether a frame is large depends on the stream alone.                   *)
LEMMA LargeSame == ASSUME NEW w, NEW v, SameFor(w, v) PROVE Large(v.dev) = Large(w.dev)
  BY DEF SameFor, Large, MbPerFrame

(* So do the levels that cover it.                                         *)
LEMMA CoveringSame ==
  ASSUME NEW w, NEW v, SameFor(w, v), NEW table
  PROVE  Covering(table, v.dev) = Covering(table, w.dev)
  BY DEF SameFor, Covering

(* venc_set_profile_level without a level set: the level it leaves is the  *)
(* lowest that covers the stream under the profile asked for, or set       *)
(* before, or the default one; it succeeds when there is such a level, the *)
(* switch knows it and no ioctl fails.                                     *)
LEMMA LevelSet ==
  ASSUME NEW w \in Worlds, Agree(w), ~w.dev.lset, NEW p \in Words, NEW l \in Words,
         w.dev.pset => p = None
  PROVE  LET r == venc_set_profile_level(w, p, l)
             q == ProfileFor(w, p)
             found == Covering(Table(w.dev.codec)[q], w.dev)
             top == Table(w.dev.codec)[q][First(found)][4]
         IN /\ Still(w, r)
            /\ r.ok => r.w.dev.pset /\ r.w.drv.profile = q
            /\ r.w.dev.lset /\ l = None =>
                 /\ r.w.drv.profile = q
                 /\ IF Large(w.dev) THEN r.w.drv.level = LargeLevel(q)
                    ELSE found # {} /\ r.w.drv.level = top
            /\ w.bad = 0 /\ l = None /\ ~Large(w.dev) /\ q \in DOMAIN Table(w.dev.codec) /\ found # {}
                 /\ top \in KnownLevels(w.dev.codec) => r.ok
<1> DEFINE r == venc_set_profile_level(w, p, l)
           q == ProfileFor(w, p)
           found == Covering(Table(w.dev.codec)[q], w.dev)
           top == Table(w.dev.codec)[q][First(found)][4]
           v == AskedWorld(w, p, l)
           level == IF l = None THEN Max ELSE l
           a == Validated(v, Table(w.dev.codec), q, level)
<1>1. v \in Worlds /\ Agree(v) /\ Rest(v) = Rest(w) /\ Video(v) = Video(w)
      /\ v.bad = w.bad /\ v.drv = w.drv
      /\ v.dev.pset = w.dev.pset /\ v.dev.lset = w.dev.lset /\ v.dev.profile = w.dev.profile
  BY AskedSame
<1> HIDE DEF v
<1>2. v.dev.codec = w.dev.codec /\ SameFor(w, v)
  BY <1>1 DEF Rest, Video, SameFor
<1>3. q \in Words
  BY DefaultProfileWord DEF ProfileFor, Worlds, Devs
<1>4. r = SetValidated(a, w.dev)
  <2>1. r = SetValidated(venc_validate_profile_level(v, p, l), w.dev)
    BY DEF venc_set_profile_level, v, AskedWorld
  <2>2. venc_validate_profile_level(v, p, l) = a
    BY <1>1, <1>2 DEF venc_validate_profile_level, ProfileFor
  <2> QED
    BY <2>1, <2>2
<1>5. Large(v.dev) = Large(w.dev) /\ found = Covering(Table(w.dev.codec)[q], v.dev)
  BY <1>2, LargeSame, CoveringSame
<1> HIDE DEF q, r, a
<1>6. ValidatedSays(v, Table(w.dev.codec), q, level, a)
  BY <1>1, <1>3, ValidatedHolds DEF a
<1>7. v.dev.pset => v.dev.profile = q
  BY <1>1 DEF q, ProfileFor
<1>8. SetValidated(a, w.dev) = SetValidated(a, v.dev)
  BY <1>2, <1>5 DEF SetValidated
<1>9. /\ Still(v, r)
      /\ r.ok => r.w.dev.pset /\ r.w.drv.profile = q
      /\ r.w.dev.lset =>
           /\ r.w.drv.profile = q
           /\ r.w.drv.level = IF Large(v.dev) THEN LargeLevel(q) ELSE a.l
           /\ a.ok
      /\ v.bad = 0 /\ a.ok /\ (Large(v.dev) \/ a.l \in KnownLevels(v.dev.codec)) => r.ok
  BY <1>1, <1>3, <1>4, <1>6, <1>7, <1>8, SetValidatedStill
<1>10. Still(w, r)
  BY <1>1, <1>9 DEF Still, Fine, Chosen
<1>11. a.ok /\ ~Large(w.dev) => found # {} /\ (l = None => a.l = top)
  BY <1>5, <1>6 DEF ValidatedSays
<1>12. ASSUME w.bad = 0, l = None, ~Large(w.dev), q \in DOMAIN Table(w.dev.codec), found # {},
              top \in KnownLevels(w.dev.codec)
       PROVE  r.ok
  <2>1. a.ok
    BY <1>12, <1>5 DEF a, Validated
  <2> QED
    BY <2>1, <1>1, <1>2, <1>9, <1>11, <1>12
<1> HIDE DEF found, top, level
<1>13. ASSUME r.w.dev.lset, l = None
       PROVE  /\ r.w.drv.profile = q
              /\ IF Large(w.dev) THEN r.w.drv.level = LargeLevel(q)
                 ELSE found # {} /\ r.w.drv.level = top
  BY <1>13, <1>5, <1>9, <1>11
<1> QED
  BY <1>9, <1>10, <1>12, <1>13 DEF r, q, found, top

(* Asking for no profile and no level leaves the stream alone.             *)
LEMMA LevelKept ==
  ASSUME NEW w \in Worlds, Agree(w)
  PROVE  Still(w, venc_set_profile_level(w, None, None))
<1>0. None \in Words
  BY DEF None, Words
<1>1. CASE w.dev.lset
  <2>1. venc_set_profile_level(w, None, None) = Yes(w)
    BY <1>1 DEF venc_set_profile_level, Agree, ButSize, SizeTold
  <2> QED
    BY <2>1, YesNo
<1>2. CASE ~w.dev.lset
  BY <1>0, <1>2, LevelSet
<1> QED
  BY <1>1, <1>2

Unlevelled(w) == [w EXCEPT !.dev.lset = FALSE]

(* After a change of size or rate a level that is set covers the stream.   *)
LEMMA NewLevelStill ==
  ASSUME NEW w \in Worlds, Agree(w)
  PROVE  LET r == NewLevel(w)
         IN Still(w, r) /\ r.ok /\ (r.w.dev.lset => Covered(r.w))
<1> DEFINE v == Unlevelled(w)
           s == venc_set_profile_level(v, None, None)
           r == NewLevel(w)
           q == ProfileFor(v, None)
           found == Covering(Table(v.dev.codec)[q], v.dev)
<1>0. None \in Words
  BY DEF None, Words
<1>1. v \in Worlds /\ Agree(v) /\ ~v.dev.lset /\ v.bad = w.bad /\ Rest(v) = Rest(w)
      /\ Video(v) = Video(w) /\ v.dev.pset = w.dev.pset /\ v.drv = w.drv
  BY DEF Unlevelled, Worlds, Devs, Agree, ButSize, SizeTold, Rest, Video
<1>2. r = Anyway(s)
  BY DEF NewLevel, Unlevelled
<1> HIDE DEF v
<1>3. /\ Still(v, s)
      /\ s.w.dev.lset =>
           /\ s.w.drv.profile = q
           /\ IF Large(v.dev) THEN s.w.drv.level = LargeLevel(q)
              ELSE found # {} /\ s.w.drv.level = Table(v.dev.codec)[q][First(found)][4]
  BY <1>0, <1>1, LevelSet
<1> HIDE DEF s
<1>4. Still(v, r) /\ r.ok /\ r.w = s.w
  BY <1>2, <1>3, AnywayStill
<1> HIDE DEF r
<1>5. Still(w, r)
  BY <1>1, <1>4 DEF Still, Fine, Chosen
<1>6. ASSUME r.w.dev.lset PROVE Covered(r.w)
  <2>1. SameFor(v, s.w) /\ s.w.dev.rate = s.w.drv.bitrate
    BY <1>3 DEF Still, Fine, SameFor, Rest, Video, Agree, ButSize, SizeTold
  <2>2. Large(s.w.dev) = Large(v.dev)
    BY <2>1, LargeSame
  <2>3. Covering(Table(v.dev.codec)[q], s.w.dev) = found
    BY <2>1, CoveringSame
  <2>4. [s.w.dev EXCEPT !.rate = s.w.drv.bitrate] = s.w.dev
    BY <2>1, <1>3 DEF Still, Fine, Outcomes, Worlds, Devs
  <2>5. s.w.dev.codec = v.dev.codec /\ s.w.drv.profile = q
    BY <1>3, <1>4, <1>6, <2>1 DEF SameFor
  <2> HIDE DEF q, found
  <2> QED
    BY <1>3, <1>4, <1>6, <2>2, <2>3, <2>4, <2>5 DEF Covered, found
<1> QED
  BY <1>4, <1>5, <1>6 DEF r

Unset_(w) == [w EXCEPT !.dev.pset = FALSE, !.dev.lset = FALSE]

(* The outcome of a call that asks for a profile.                          *)
Profiled(w, r, p) == Fine(w, r) /\ Video(r.w) = Video(w) /\ (r.ok => r.w.dev.pset /\ r.w.drv.profile = p)

(* A profile and level asked for: venc_set_profile_level after both were   *)
(* forgotten.                                                              *)
LEMMA NewProfileSet ==
  ASSUME NEW w \in Worlds, Agree(w), NEW p \in Words, p # None, NEW l \in Words
  PROVE  Profiled(w, NewProfile(w, p, l), p)
<1> DEFINE v == Unset_(w)
           r == NewProfile(w, p, l)
<1>1. v \in Worlds /\ Agree(v) /\ ~v.dev.lset /\ ~v.dev.pset /\ v.bad = w.bad /\ Rest(v) = Rest(w)
      /\ Video(v) = Video(w)
  BY DEF Unset_, Worlds, Devs, Agree, ButSize, SizeTold, Rest, Video
<1>2. r = venc_set_profile_level(v, p, l)
  BY DEF NewProfile, Unset_
<1> HIDE DEF v
<1>3. Still(v, r) /\ (r.ok => r.w.dev.pset /\ r.w.drv.profile = ProfileFor(v, p))
  BY <1>1, <1>2, LevelSet
<1>4. ProfileFor(v, p) = p
  BY DEF ProfileFor
<1> HIDE DEF r
<1> QED
  BY <1>1, <1>3, <1>4 DEF Still, Fine, Profiled, r

(* The settings that follow in the same call leave the profile.            *)
LEMMA ProfiledThen ==
  ASSUME NEW w, NEW r, NEW p, NEW s, Profiled(w, r, p), r.ok => Still(r.w, s)
  PROVE  Profiled(w, IF r.ok THEN s ELSE r, p)
<1>1. CASE r.ok
  <2>1. Fine(r.w, s) /\ Video(s.w) = Video(w) /\ s.w.dev.pset /\ s.w.drv.profile = p
    BY <1>1 DEF Still, Profiled, Chosen
  <2>2. Fine(w, s)
    BY <1>1, <2>1 DEF Fine, Profiled
  <2> QED
    BY <1>1, <2>1, <2>2 DEF Profiled
<1>2. CASE ~r.ok
  BY <1>2
<1> QED
  BY <1>1, <1>2

(* The world after a fine outcome.                                         *)
LEMMA FineWorld == ASSUME NEW w, NEW r, Fine(w, r) PROVE r.w \in Worlds /\ Agree(r.w)
  BY DEF Fine, Outcomes

(***************************************************************************)
(* The codec's own structures, and the rates.                              *)
(***************************************************************************)
CodecParams == [profile : Words \ {None}, level : Words, bframes : {0, 1}, spacing : {0, 1},
                cabac : BOOLEAN]

(* The structures of MPEG4, H263 and AVC: timing, profile, intra period,   *)
(* entropy coding, filter and slices, in the order of each.                *)
LEMMA CodecParamSet ==
  ASSUME NEW w \in Worlds, Agree(w), NEW p \in CodecParams
  PROVE  Profiled(w, CodecParam(w, p), p.profile)
<1>0. p.profile \in Words /\ p.profile # None /\ p.level \in Words /\ p.bframes \in {0, 1}
      /\ p.spacing \in Int /\ p.cabac \in BOOLEAN
  BY DEF CodecParams
<1>1. \A v \in Worlds : Agree(v) => Profiled(v, NewProfile(v, p.profile, p.level), p.profile)
  BY <1>0, NewProfileSet
<1>2. \A v \in Worlds : Agree(v) => /\ \A b \in {0, 1} : Still(v, venc_set_intra_period(v, b))
                                    /\ Still(v, venc_set_entropy_config(v, p.cabac))
                                    /\ Still(v, venc_set_inloop_filter(v, "all"))
                                    /\ Still(v, venc_set_multislice_cfg(v, p.spacing))
                                    /\ Still(v, venc_set_voptiming_cfg(v, 30))
  BY <1>0, OneSetting
<1> HIDE DEF Words
<1>3. \A v, r, s : Profiled(v, r, p.profile) /\ (r.ok => Still(r.w, s))
                   => Profiled(v, IF r.ok THEN s ELSE r, p.profile)
  BY ProfiledThen
<1>4. \A v, r : Profiled(v, r, p.profile) => r.w \in Worlds /\ Agree(r.w)
  BY FineWorld DEF Profiled
<1>5. Profiled(w, VideoMpeg4(w, p), p.profile)
  <2> DEFINE b == IF p.profile = "ASP" THEN p.bframes ELSE 0
             t == venc_set_voptiming_cfg(w, 30)
             n == NewProfile(t.w, p.profile, p.level)
             m == IF t.ok THEN n ELSE t
             i == venc_set_intra_period(m.w, b)
             k == IF m.ok THEN i ELSE m
             j == venc_set_multislice_cfg(k.w, p.spacing)
  <2>1. VideoMpeg4(w, p) = IF k.ok THEN j ELSE k
    BY DEF VideoMpeg4, Then
  <2>2. Still(w, t) /\ t.w \in Worlds /\ Agree(t.w)
    BY <1>2, FineWorld DEF Still
  <2>3. b \in {0, 1}
    BY <1>0
  <2> HIDE DEF t, b
  <2>4. Profiled(t.w, n, p.profile)
    BY <1>1, <2>2
  <2> HIDE DEF n
  <2>5. Profiled(w, m, p.profile)
    <3>1. CASE t.ok
      BY <2>2, <2>4, <3>1 DEF Profiled, Still, Fine
    <3>2. CASE ~t.ok
      BY <2>2, <3>2 DEF Profiled, Still
    <3> QED
      BY <3>1, <3>2
  <2> HIDE DEF m
  <2>6. Still(m.w, i)
    BY <1>2, <1>4, <2>3, <2>5
  <2> HIDE DEF i
  <2>7. Profiled(w, k, p.profile)
    BY <1>3, <2>5, <2>6
  <2> HIDE DEF k
  <2>8. Still(k.w, j)
    BY <1>2, <1>4, <2>7
  <2> HIDE DEF j
  <2> QED
    BY <1>3, <2>1, <2>7, <2>8
<1>6. Profiled(w, VideoH263(w, p), p.profile)
  <2> DEFINE n == NewProfile(w, p.profile, p.level)
             i == venc_set_intra_period(n.w, 0)
  <2>1. VideoH263(w, p) = IF n.ok THEN i ELSE n
    BY DEF VideoH263, Then
  <2>2. Profiled(w, n, p.profile)
    BY <1>1
  <2> HIDE DEF n
  <2>3. Still(n.w, i)
    BY <1>2, <1>4, <2>2
  <2> HIDE DEF i
  <2> QED
    BY <1>3, <2>1, <2>2, <2>3
<1>7. Profiled(w, VideoAvc(w, p), p.profile)
  <2> DEFINE b == IF p.profile # "BASELINE" THEN p.bframes ELSE 0
             n == NewProfile(w, p.profile, p.level)
             i == venc_set_intra_period(n.w, b)
             k == IF n.ok THEN i ELSE n
             e == venc_set_entropy_config(k.w, p.cabac)
             l == IF k.ok THEN e ELSE k
             f == venc_set_inloop_filter(l.w, "all")
             m == IF l.ok THEN f ELSE l
             j == venc_set_multislice_cfg(m.w, p.spacing)
  <2>1. VideoAvc(w, p) = IF m.ok THEN j ELSE m
    BY DEF VideoAvc, Then
  <2>2. Profiled(w, n, p.profile)
    BY <1>1
  <2>3. b \in {0, 1}
    BY <1>0
  <2> HIDE DEF n, b
  <2>4. Still(n.w, i)
    BY <1>2, <1>4, <2>2, <2>3
  <2> HIDE DEF i
  <2>5. Profiled(w, k, p.profile)
    BY <1>3, <2>2, <2>4
  <2> HIDE DEF k
  <2>6. Still(k.w, e)
    BY <1>2, <1>4, <2>5
  <2> HIDE DEF e
  <2>7. Profiled(w, l, p.profile)
    BY <1>3, <2>5, <2>6
  <2> HIDE DEF l
  <2>8. Still(l.w, f)
    BY <1>2, <1>4, <2>7
  <2> HIDE DEF f
  <2>9. Profiled(w, m, p.profile)
    BY <1>3, <2>7, <2>8
  <2> HIDE DEF m
  <2>10. Still(m.w, j)
    BY <1>2, <1>4, <2>9
  <2> HIDE DEF j
  <2> QED
    BY <1>3, <2>1, <2>9, <2>10
<1>8. w.dev.codec \in {"MPEG4", "H263", "H264"}
  BY VencParamsAssumption DEF Worlds, Devs
<1> QED
  BY <1>5, <1>6, <1>7, <1>8 DEF CodecParam

(* The sizes and the counts of the output port.                            *)
Sized(w) == <<w.dev.size, w.drv.size, w.drv.out, w.dev.outReq, w.dev.outSize>>

(* A call that leaves the stream alone leaves them.                        *)
LEMMA StillSizes == ASSUME NEW w, NEW r, Still(w, r) PROVE Sized(r.w) = Sized(w)
  BY DEF Still, Video, Sized

(* And the bit rate, as venc_dev and driver agree on it.                   *)
LEMMA StillBitrate ==
  ASSUME NEW w, Agree(w), NEW r, Still(w, r) PROVE r.w.drv.bitrate = w.drv.bitrate
  BY DEF Still, Video, Fine, Agree, ButSize, SizeTold

(* venc_set_target_bitrate: on success the driver's bit rate is the new    *)
(* one and a level that is set covers it.                                  *)
LEMMA BitrateSet ==
  ASSUME NEW w \in Worlds, Agree(w), NEW bitrate \in Rates, NEW config \in BOOLEAN
  PROVE  LET r == venc_set_target_bitrate(w, bitrate, config)
         IN /\ Fine(w, r) /\ Chosen(w, r.w) /\ Sized(r.w) = Sized(w)
            /\ r.ok => r.w.drv.bitrate = bitrate
            /\ r.ok /\ ~config /\ r.w.dev.lset => Covered(r.w)
<1> DEFINE u == Ticked(w)
           v == [u EXCEPT !.drv.bitrate = bitrate, !.dev.rate = bitrate, !.dev.target = bitrate]
           i == Issued(w, v)
           n == NewLevel(i.w)
           r == venc_set_target_bitrate(w, bitrate, config)
<1>1. r = IF i.ok THEN IF config THEN Yes(i.w) ELSE n ELSE i
  BY DEF venc_set_target_bitrate, Then, Ioctl, Issued, Ticked
<1>2. u \in Worlds /\ Agree(u) /\ u.dev = w.dev /\ u.drv = w.drv /\ bitrate \in Values
  BY Tick, SomeValues
<1> HIDE DEF u, Values, Rates
<1>3. v \in Worlds
  BY <1>2 DEF Worlds, Devs, Drvs
<1>4. Agree(v) /\ Rest(v) = Rest(w) /\ v.bad = u.bad /\ Sized(v) = Sized(w) /\ Chosen(w, v)
      /\ v.drv.bitrate = bitrate
  BY <1>2 DEF Worlds, Devs, Drvs, Agree, ButSize, SizeTold, Rest, Sized, Chosen
<1>5. Fine(w, i)
  <2>1. v.bad = Ticked(w).bad
    BY <1>4 DEF u
  <2> QED
    BY <1>3, <1>4, <2>1, IssuedFine
<1>6. Sized(i.w) = Sized(w) /\ Chosen(w, i.w) /\ (i.ok => i.w.drv.bitrate = bitrate)
  <2>1. Sized(Ticked(w)) = Sized(w) /\ Chosen(w, Ticked(w))
    BY Tick DEF Sized, Chosen
  <2> QED
    BY <1>4, <2>1 DEF Issued, Yes, No
<1> HIDE DEF i
<1>7. i.w \in Worlds /\ Agree(i.w)
  BY <1>5, FineWorld
<1>8. Still(i.w, n) /\ n.ok /\ (n.w.dev.lset => Covered(n.w))
  BY <1>7, NewLevelStill
<1> HIDE DEF n
<1>9. Still(i.w, Yes(i.w)) /\ Yes(i.w).ok /\ Yes(i.w).w = i.w
  BY <1>7, YesNo
<1>10. CASE i.ok /\ config
  BY <1>1, <1>5, <1>6, <1>9, <1>10 DEF Yes, Fine, Outcomes
<1>11. CASE i.ok /\ ~config
  <2>1. r = n
    BY <1>1, <1>11
  <2>2. Fine(w, n)
    BY <1>5, <1>8, <1>11, ThenFine DEF Still
  <2>3. Sized(n.w) = Sized(i.w) /\ n.w.drv.bitrate = i.w.drv.bitrate
    BY <1>7, <1>8, StillSizes, StillBitrate
  <2>4. Chosen(w, n.w)
    BY <1>6, <1>8 DEF Still, Chosen
  <2> HIDE DEF r
  <2> QED
    BY <2>1, <2>2, <2>3, <2>4, <1>6, <1>8, <1>11 DEF r
<1>12. CASE ~i.ok
  BY <1>1, <1>5, <1>6, <1>12
<1> QED
  BY <1>10, <1>11, <1>12

(* venc_set_encode_framerate, whatever becomes of the level.               *)
LEMMA FramerateSet ==
  ASSUME NEW w \in Worlds, Agree(w), NEW q \in Q16s, NEW config \in BOOLEAN
  PROVE  LET r == venc_set_encode_framerate(w, q, config)
         IN /\ Fine(w, r) /\ Chosen(w, r.w) /\ Sized(r.w) = Sized(w)
            /\ r.w.drv.bitrate = w.drv.bitrate
<1> DEFINE fps == Q16ToFraction(q)
           u == Ticked(w)
           v == [u EXCEPT !.drv.fps = fps, !.dev.fps = fps]
           i == Issued(w, v)
           n == NewLevel(i.w)
           r == venc_set_encode_framerate(w, q, config)
<1>1. r = IF i.ok THEN IF config THEN Yes(i.w) ELSE n ELSE i
  BY DEF venc_set_encode_framerate, Then, Ioctl, Issued, Ticked
<1>2. u \in Worlds /\ Agree(u) /\ u.dev = w.dev /\ u.drv = w.drv /\ fps \in Values
  BY Tick, SomeValues
<1> HIDE DEF u, Values, fps
<1>3. v \in Worlds
  BY <1>2 DEF Worlds, Devs, Drvs
<1>4. Agree(v) /\ Rest(v) = Rest(w) /\ v.bad = u.bad /\ Sized(v) = Sized(w) /\ Chosen(w, v)
      /\ v.drv.bitrate = w.drv.bitrate
  BY <1>2 DEF Worlds, Devs, Drvs, Agree, ButSize, SizeTold, Rest, Sized, Chosen
<1>5. Fine(w, i)
  <2>1. v.bad = Ticked(w).bad
    BY <1>4 DEF u
  <2> QED
    BY <1>3, <1>4, <2>1, IssuedFine
<1>6. Sized(i.w) = Sized(w) /\ Chosen(w, i.w) /\ i.w.drv.bitrate = w.drv.bitrate
  <2>1. Sized(Ticked(w)) = Sized(w) /\ Chosen(w, Ticked(w)) /\ Ticked(w).drv = w.drv
    BY Tick DEF Sized, Chosen
  <2> QED
    BY <1>4, <2>1 DEF Issued, Yes, No
<1> HIDE DEF i
<1>7. i.w \in Worlds /\ Agree(i.w)
  BY <1>5, FineWorld
<1>8. Still(i.w, n) /\ n.ok
  BY <1>7, NewLevelStill
<1> HIDE DEF n
<1>10. CASE i.ok /\ config
  BY <1>1, <1>5, <1>6, <1>10 DEF Yes, Fine, Outcomes
<1>11. CASE i.ok /\ ~config
  <2>1. r = n
    BY <1>1, <1>11
  <2>2. Fine(w, n)
    BY <1>5, <1>8, <1>11, ThenFine DEF Still
  <2>3. Sized(n.w) = Sized(i.w) /\ n.w.drv.bitrate = i.w.drv.bitrate
    BY <1>7, <1>8, StillSizes, StillBitrate
  <2>4. Chosen(w, n.w)
    BY <1>6, <1>8 DEF Still, Chosen
  <2> HIDE DEF r
  <2> QED
    BY <2>1, <2>2, <2>3, <2>4, <1>6, <1>8, <1>11 DEF r
<1>12. CASE ~i.ok
  BY <1>1, <1>5, <1>6, <1>12
<1> QED
  BY <1>10, <1>11, <1>12

(* The level of a stream is as good after what keeps the stream and the    *)
(* level.                                                                  *)
SameLevel(w, v) ==
  /\ SameFor(w, v) /\ v.dev.lset = w.dev.lset
  /\ v.drv.level = w.drv.level /\ v.drv.profile = w.drv.profile

(* That is why.                                                            *)
LEMMA CoveredKept ==
  ASSUME NEW w \in Worlds, Agree(w), NEW v \in Worlds, Agree(v), SameLevel(w, v), Covered(w)
  PROVE  Covered(v)
<1>1. Large(v.dev) = Large(w.dev)
  BY LargeSame DEF SameLevel
<1>2. [v.dev EXCEPT !.rate = v.drv.bitrate] = v.dev /\ [w.dev EXCEPT !.rate = w.drv.bitrate] = w.dev
  BY DEF Agree, ButSize, SizeTold, Worlds, Devs
<1>3. \A table : Covering(table, v.dev) = Covering(table, w.dev)
  BY CoveringSame DEF SameLevel
<1>4. v.dev.codec = w.dev.codec /\ v.drv.level = w.drv.level /\ v.drv.profile = w.drv.profile
  BY DEF SameLevel, SameFor
<1> QED
  BY <1>1, <1>2, <1>3, <1>4 DEF Covered

(* A single setting is such a call.                                        *)
LEMMA SettingKept ==
  ASSUME NEW w \in Worlds, NEW name \in Names, NEW value
  PROVE  SameLevel(w, Setting(w, name, value).w)
<1> DEFINE u == Ticked(w)
           v == [u EXCEPT !.drv.set[name] = {value}, !.dev.set[name] = {value}]
<1>1. Setting(w, name, value) = IF w.bad = 1 THEN No(u) ELSE Yes(v)
  BY DEF Setting, Ioctl, Ticked
<1>2. u.dev = w.dev /\ u.drv = w.drv /\ DOMAIN u = DOMAIN w
  BY DEF Ticked, Worlds
<1>3. u \in Worlds
  BY DEF Ticked, Worlds
<1> HIDE DEF u
<1>4. SameLevel(w, u)
  BY <1>2 DEF SameLevel, SameFor
<1>5. SameLevel(u, v)
  BY <1>3 DEF SameLevel, SameFor, Worlds, Devs, Drvs
<1>6. SameLevel(w, v)
  BY <1>4, <1>5 DEF SameLevel, SameFor
<1> QED
  BY <1>1, <1>4, <1>6 DEF Yes, No

(* The bit rate and then the rate control.                                 *)
LEMMA VideoBitrateSet ==
  ASSUME NEW w \in Worlds, Agree(w), NEW bitrate \in Rates, NEW mode \in {"VBR", "other"}
  PROVE  LET r == VideoBitrate(w, bitrate, mode)
         IN /\ Fine(w, r) /\ Chosen(w, r.w) /\ Sized(r.w) = Sized(w)
            /\ r.ok => r.w.drv.bitrate = bitrate
            /\ r.ok /\ r.w.dev.lset => Covered(r.w)
<1> DEFINE b == venc_set_target_bitrate(w, bitrate, FALSE)
           c == venc_set_ratectrl_cfg(b.w, mode)
           r == VideoBitrate(w, bitrate, mode)
<1>1. r = IF b.ok THEN c ELSE b
  BY DEF VideoBitrate, Then
<1>2. /\ Fine(w, b) /\ Chosen(w, b.w) /\ Sized(b.w) = Sized(w)
      /\ b.ok => b.w.drv.bitrate = bitrate
      /\ b.ok /\ b.w.dev.lset => Covered(b.w)
  BY BitrateSet
<1> HIDE DEF b
<1>3. b.w \in Worlds /\ Agree(b.w)
  BY <1>2, FineWorld
<1>4. Still(b.w, c)
  BY <1>3, OneSetting
<1>5. c.ok => SameLevel(b.w, c.w)
  <2>1. CASE mode = "other"
    BY <2>1 DEF venc_set_ratectrl_cfg, No
  <2>2. CASE mode = "VBR"
    <3>1. "rc" \in Names
      BY DEF Names
    <3> QED
      BY <2>2, <3>1, <1>3, SettingKept DEF venc_set_ratectrl_cfg
  <2> QED
    BY <2>1, <2>2
<1> HIDE DEF c
<1>6. Fine(w, r)
  BY <1>1, <1>2, <1>4, ThenFine DEF Still
<1>7. Sized(c.w) = Sized(b.w) /\ c.w.drv.bitrate = b.w.drv.bitrate /\ c.w \in Worlds /\ Agree(c.w)
  BY <1>3, <1>4, StillSizes, StillBitrate, FineWorld DEF Still
<1>8. CASE b.ok
  <2>1. r = c
    BY <1>1, <1>8
  <2>2. Chosen(w, c.w)
    BY <1>2, <1>4 DEF Still, Chosen
  <2>3. c.ok /\ c.w.dev.lset => Covered(c.w)
    BY <1>2, <1>3, <1>5, <1>7, <1>8, CoveredKept DEF SameLevel
  <2> HIDE DEF r
  <2> QED
    BY <2>1, <2>2, <2>3, <1>2, <1>6, <1>7, <1>8 DEF r
<1>9. CASE ~b.ok
  BY <1>1, <1>2, <1>9
<1> QED
  BY <1>8, <1>9

(***************************************************************************)
(* The two ports.                                                          *)
(***************************************************************************)

(* Reading and setting buffer requirements leaves the stream and its       *)
(* level.                                                                  *)
SparesLevel(w, r) ==
  /\ Fine(w, r) /\ Chosen(w, r.w) /\ SameLevel(w, r.w)
  /\ r.w.drv.size = w.drv.size /\ r.w.drv.bitrate = w.drv.bitrate

(* One ioctl that does.                                                    *)
LEMMA IssuedLevel ==
  ASSUME NEW w \in Worlds, Agree(w), NEW v \in Worlds, Agree(v), v.bad = Ticked(w).bad,
         Rest(v) = Rest(w), Chosen(w, v), SameLevel(w, v), v.drv.size = w.drv.size,
         v.drv.bitrate = w.drv.bitrate
  PROVE  SparesLevel(w, Issued(w, v))
<1>1. Fine(w, Issued(w, v))
  BY IssuedFine
<1>2. Chosen(w, Ticked(w)) /\ SameLevel(w, Ticked(w)) /\ Ticked(w).drv = w.drv
  BY Tick DEF Chosen, SameLevel, SameFor
<1>3. CASE w.bad = 1
  BY <1>1, <1>2, <1>3 DEF Issued, SparesLevel, No
<1>4. CASE w.bad # 1
  BY <1>1, <1>4 DEF Issued, SparesLevel, Yes
<1> QED
  BY <1>3, <1>4

(* Reading and writing the requirement of the output port.                 *)
LEMMA OutputReq ==
  ASSUME NEW w \in Worlds, Agree(w)
  PROVE  LET g == GET_OUTPUT_BUFFER_REQ(w)
             s == SET_OUTPUT_BUFFER_REQ(w)
         IN /\ SparesLevel(w, g) /\ g.w.drv.out = w.drv.out
            /\ g.ok => g.w.dev.outReq = w.drv.out
            /\ SparesLevel(w, s) /\ s.w.dev.outReq = w.dev.outReq
            /\ s.ok => s.w.drv.out = w.dev.outReq
            /\ w.bad = 0 => g.ok
<1> DEFINE u == Ticked(w)
           g == [u EXCEPT !.dev.outReq = w.drv.out, !.dev.outSize = w.drv.size]
           s == [u EXCEPT !.drv.out = w.dev.outReq]
<1>1. GET_OUTPUT_BUFFER_REQ(w) = Issued(w, g) /\ SET_OUTPUT_BUFFER_REQ(w) = Issued(w, s)
  BY Tick DEF GET_OUTPUT_BUFFER_REQ, SET_OUTPUT_BUFFER_REQ, Ioctl, Issued, Ticked
<1>2. u \in Worlds /\ Agree(u) /\ u.dev = w.dev /\ u.drv = w.drv
  BY Tick
<1> HIDE DEF u
<1>3. g \in Worlds /\ s \in Worlds
  BY <1>2 DEF Worlds, Devs, Drvs
<1>4. /\ Agree(g) /\ g.bad = u.bad /\ Rest(g) = Rest(w) /\ Chosen(w, g)
      /\ g.drv = w.drv /\ g.dev.outReq = w.drv.out
  BY <1>2 DEF Worlds, Devs, Drvs, Agree, ButSize, SizeTold, Rest, Chosen
<1>5. /\ Agree(s) /\ s.bad = u.bad /\ Rest(s) = Rest(w) /\ Chosen(w, s)
      /\ s.dev = w.dev /\ s.drv.out = w.dev.outReq /\ s.drv.size = w.drv.size
      /\ s.drv.bitrate = w.drv.bitrate
  BY <1>2 DEF Worlds, Devs, Drvs, Agree, ButSize, SizeTold, Rest, Chosen
<1>6. SameLevel(w, g) /\ SameLevel(w, s)
  BY <1>2 DEF Worlds, Devs, Drvs, SameLevel, SameFor
<1> HIDE DEF g, s
<1>7. u.bad = Ticked(w).bad
  BY DEF u
<1>8. SparesLevel(w, Issued(w, g)) /\ SparesLevel(w, Issued(w, s))
  BY <1>3, <1>4, <1>5, <1>6, <1>7, IssuedLevel
<1>9. /\ Issued(w, g).w.drv.out = w.drv.out
      /\ Issued(w, g).ok => Issued(w, g).w.dev.outReq = w.drv.out
      /\ w.bad = 0 => Issued(w, g).ok
  BY <1>2, <1>4, Tick DEF Issued, Yes, No
<1>10. /\ Issued(w, s).w.dev.outReq = w.dev.outReq
       /\ Issued(w, s).ok => Issued(w, s).w.drv.out = w.dev.outReq
  BY <1>2, <1>5, Tick DEF Issued, Yes, No
<1> QED
  BY <1>1, <1>8, <1>9, <1>10

(* Reading that of the input port.                                         *)
LEMMA GetInputLevel ==
  ASSUME NEW w \in Worlds, Agree(w)
  PROVE  SparesLevel(w, GET_INPUT_BUFFER_REQ(w)) /\ GET_INPUT_BUFFER_REQ(w).w.drv.out = w.drv.out
<1> DEFINE u == Ticked(w)
           g == [u EXCEPT !.dev.inReq = w.drv.in]
<1>1. GET_INPUT_BUFFER_REQ(w) = Issued(w, g)
  BY Tick DEF GET_INPUT_BUFFER_REQ, Ioctl, Issued, Ticked
<1>2. u \in Worlds /\ Agree(u) /\ u.dev = w.dev /\ u.drv = w.drv
  BY Tick
<1> HIDE DEF u
<1>3. g \in Worlds
  BY <1>2 DEF Worlds, Devs, Drvs
<1>4. Agree(g) /\ g.bad = u.bad /\ Rest(g) = Rest(w) /\ Chosen(w, g) /\ g.drv = w.drv
  BY <1>2 DEF Worlds, Devs, Drvs, Agree, ButSize, SizeTold, Rest, Chosen
<1>5. SameLevel(w, g)
  BY <1>2 DEF Worlds, Devs, Drvs, SameLevel, SameFor
<1> HIDE DEF g
<1>6. u.bad = Ticked(w).bad
  BY DEF u
<1>7. SparesLevel(w, Issued(w, g))
  BY <1>3, <1>4, <1>5, <1>6, IssuedLevel
<1>8. Issued(w, g).w.drv.out = w.drv.out
  BY <1>2, <1>4, Tick DEF Issued, Yes, No
<1> QED
  BY <1>1, <1>7, <1>8

(* The definition of the output port.                                      *)
OutDefs == [size : Sizes, count : Values, bitrate : Rates, fps : Q16s, buf : Sizes]

(* Setting it: on success the driver has its bit rate and its count, and a *)
(* level that is set covers the stream.                                    *)
LEMMA OutDefinition ==
  ASSUME NEW w \in Worlds, Agree(w), NEW d \in OutDefs
  PROVE  LET r == PortDefinitionOut(w, d)
         IN /\ Fine(w, r) /\ Chosen(w, r.w)
            /\ r.ok => /\ r.w.drv.bitrate = d.bitrate /\ r.w.drv.out = d.count
                       /\ r.w.dev.size = w.dev.size /\ r.w.drv.size = w.drv.size
                       /\ r.w.dev.lset => Covered(r.w)
<1> DEFINE b == venc_set_target_bitrate(w, d.bitrate, FALSE)
           c == [b.w EXCEPT !.dev.outReq = d.count]
           o == SET_OUTPUT_BUFFER_REQ(c)
           r == PortDefinitionOut(w, d)
           may == d.count \in MinCount..MaxCount /\ d.buf = b.w.dev.outSize
<1>0. d.bitrate \in Rates /\ d.count \in Values
  BY DEF OutDefs
<1>1. r = IF b.ok THEN IF may THEN o ELSE No(b.w) ELSE b
  BY DEF PortDefinitionOut, Then
<1>2. /\ Fine(w, b) /\ Chosen(w, b.w) /\ Sized(b.w) = Sized(w)
      /\ b.ok => b.w.drv.bitrate = d.bitrate
      /\ b.ok /\ b.w.dev.lset => Covered(b.w)
  BY <1>0, BitrateSet
<1> HIDE DEF b, may
<1>3. b.w \in Worlds /\ Agree(b.w)
  BY <1>2, FineWorld
<1>4. c \in Worlds /\ c.drv = b.w.drv /\ c.bad = b.w.bad /\ Rest(c) = Rest(b.w) /\ Chosen(b.w, c)
      /\ SameLevel(b.w, c) /\ c.dev.outReq = d.count /\ c.dev.size = b.w.dev.size
  BY <1>0, <1>3 DEF Worlds, Devs, Rest, Chosen, SameLevel, SameFor
<1>5. Agree(c)
  BY <1>3 DEF Agree, ButSize, SizeTold, Worlds, Devs
<1> HIDE DEF c
<1>6. SparesLevel(c, o) /\ (o.ok => o.w.drv.out = d.count)
  BY <1>4, <1>5, OutputReq
<1> HIDE DEF o
<1>7. Fine(b.w, o)
  BY <1>4, <1>6 DEF SparesLevel, Fine
<1>8. CASE b.ok /\ may
  <2>1. r = o
    BY <1>1, <1>8
  <2>2. Fine(w, o)
    BY <1>2, <1>7, <1>8, ThenFine
  <2>3. Chosen(w, o.w)
    BY <1>2, <1>4, <1>6 DEF SparesLevel, Chosen
  <2>4. o.w.drv.bitrate = d.bitrate /\ o.w.drv.size = w.drv.size /\ o.w.dev.size = w.dev.size
    BY <1>2, <1>4, <1>6, <1>8 DEF SparesLevel, Sized, SameLevel, SameFor
  <2>5. SameLevel(b.w, o.w) /\ o.w \in Worlds /\ Agree(o.w)
    BY <1>4, <1>6, FineWorld DEF SparesLevel, SameLevel, SameFor
  <2>6. o.w.dev.lset => Covered(o.w)
    BY <2>5, <1>2, <1>3, <1>8, CoveredKept DEF SameLevel
  <2> HIDE DEF r
  <2> QED
    BY <2>1, <2>2, <2>3, <2>4, <2>6, <1>6 DEF r
<1>9. CASE b.ok /\ ~may
  BY <1>1, <1>2, <1>9 DEF No, Fine, Outcomes
<1>10. CASE ~b.ok
  BY <1>1, <1>2, <1>10
<1> QED
  BY <1>8, <1>9, <1>10

(* The definition of the input port.                                       *)
InDefs == [size : Sizes, count : Values, bitrate : Rates, fps : Q16s]
Resized(w, size) == [w EXCEPT !.dev.size = size]

(* Setting it: SET_BASE_CFG makes the size that venc_dev took on the       *)
(* driver's; the output port keeps its count.                              *)
InDone(w, r, size) ==
  /\ Fine(w, r) /\ Chosen(w, r.w)
  /\ r.ok => /\ r.w.drv.size = size /\ r.w.dev.size = size
             /\ r.w.drv.out = w.drv.out /\ r.w.drv.bitrate = w.drv.bitrate

(* The calls after it leave that.                                          *)
LEMMA InDoneThen ==
  ASSUME NEW w, NEW r, NEW s, NEW size, InDone(w, r, size),
         r.ok => Fine(r.w, s) /\ Chosen(r.w, s.w)
                 /\ (s.ok => /\ s.w.drv.size = r.w.drv.size /\ s.w.dev.size = r.w.dev.size
                             /\ s.w.drv.out = r.w.drv.out /\ s.w.drv.bitrate = r.w.drv.bitrate)
  PROVE  InDone(w, IF r.ok THEN s ELSE r, size)
<1>1. CASE r.ok
  <2>1. Fine(w, s)
    BY <1>1, ThenFine DEF InDone
  <2>2. Chosen(w, s.w)
    BY <1>1 DEF InDone, Chosen
  <2> QED
    BY <1>1, <2>1, <2>2 DEF InDone
<1>2. CASE ~r.ok
  BY <1>2
<1> QED
  BY <1>1, <1>2

(* SET_BASE_CFG with the new size in venc_dev.                             *)
LEMMA ResizedBase ==
  ASSUME NEW w \in Worlds, Agree(w), NEW size \in Sizes
  PROVE  LET s == SET_BASE_CFG(Resized(w, size))
         IN /\ Fine(w, s) /\ Chosen(w, s.w)
            /\ s.ok => s.w.drv.size = size /\ s.w.dev.size = size
            /\ s.w.drv.out = w.drv.out /\ s.w.drv.bitrate = w.drv.bitrate
<1> DEFINE v == Resized(w, size)
           s == SET_BASE_CFG(v)
<1>1. /\ v \in Worlds /\ v.drv = w.drv /\ v.bad = w.bad /\ Rest(v) = Rest(w) /\ Chosen(w, v)
      /\ v.dev.size = size /\ v.dev.rate = w.dev.rate
  BY DEF Resized, Worlds, Devs, Rest, Chosen
<1>2. ButSize(v)
  BY DEF Resized, Agree, ButSize, Worlds, Devs
<1> HIDE DEF v
<1>3. /\ Fine(v, s) /\ Chosen(v, s.w) /\ s.w.dev = v.dev /\ s.w.drv.out = v.drv.out
      /\ s.ok => s.w.drv.size = v.dev.size
  BY <1>1, <1>2, BaseFine
<1> HIDE DEF s
<1>4. s.w.drv.bitrate = w.drv.bitrate
  BY <1>1, <1>3 DEF Fine, Agree, ButSize, SizeTold
<1>5. Fine(w, s) /\ Chosen(w, s.w)
  BY <1>1, <1>3 DEF Fine, Chosen
<1> QED
  BY <1>1, <1>3, <1>4, <1>5 DEF s, v

(* The whole chain: frame rate, colour format, size, the requirements of   *)
(* both ports, the count of the input port, the level.                     *)
LEMMA InDefinition ==
  ASSUME NEW w \in Worlds, Agree(w), NEW d \in InDefs
  PROVE  LET r == PortDefinitionIn(w, d)
         IN InDone(w, r, d.size) /\ (r.ok /\ r.w.dev.lset => Covered(r.w))
<1> DEFINE f == venc_set_encode_framerate(w, d.fps, FALSE)
           c == SET_BASE_CFG(f.w)
           fc == IF f.ok THEN c ELSE f
           z == SET_BASE_CFG(Resized(fc.w, d.size))
           fcz == IF fc.ok THEN z ELSE fc
           i == GET_INPUT_BUFFER_REQ(fcz.w)
           in == IF fcz.ok THEN i ELSE fcz
           g == GET_OUTPUT_BUFFER_REQ(in.w)
           got == IF in.ok THEN g ELSE in
           s == SET_OUTPUT_BUFFER_REQ(got.w)
           set == IF got.ok THEN s ELSE got
           asked == [set.w EXCEPT !.dev.inReq = d.count]
           k == IF d.count \in MinCount..MaxCount THEN SET_INPUT_BUFFER_REQ(asked) ELSE Yes(set.w)
           count == IF set.ok THEN k ELSE set
           n == NewLevel(count.w)
           r == PortDefinitionIn(w, d)
<1>0. d.fps \in Q16s /\ d.size \in Sizes /\ d.count \in Values
  BY DEF InDefs
<1>1. r = IF count.ok THEN n ELSE count
  BY DEF PortDefinitionIn, Then, venc_set_color_format, Resized
<1>2. /\ Fine(w, f) /\ Chosen(w, f.w) /\ Sized(f.w) = Sized(w) /\ f.w.drv.bitrate = w.drv.bitrate
  BY <1>0, FramerateSet
<1> HIDE DEF f
<1>3. f.w \in Worlds /\ Agree(f.w)
  BY <1>2, FineWorld
<1>4. Fine(f.w, c) /\ Chosen(f.w, c.w) /\ c.w.dev = f.w.dev /\ c.w.drv.out = f.w.drv.out
  BY <1>3, BaseFine DEF Agree, ButSize, SizeTold
<1> HIDE DEF c
<1>5. Fine(w, fc) /\ Chosen(w, fc.w) /\ fc.w.drv.out = w.drv.out /\ fc.w.drv.bitrate = w.drv.bitrate
  <2>1. Fine(w, fc)
    BY <1>2, <1>4, ThenFine
  <2>2. c.w.drv.bitrate = f.w.drv.bitrate
    BY <1>3, <1>4 DEF Fine, Agree, ButSize, SizeTold
  <2>3. Chosen(w, fc.w)
    BY <1>2, <1>4 DEF Chosen
  <2> QED
    BY <2>1, <2>2, <2>3, <1>2, <1>4 DEF Sized
<1> HIDE DEF fc
<1>6. fc.w \in Worlds /\ Agree(fc.w)
  BY <1>5, FineWorld
<1>7. /\ Fine(fc.w, z) /\ Chosen(fc.w, z.w)
      /\ z.ok => z.w.drv.size = d.size /\ z.w.dev.size = d.size
      /\ z.w.drv.out = fc.w.drv.out /\ z.w.drv.bitrate = fc.w.drv.bitrate
  BY <1>0, <1>6, ResizedBase
<1> HIDE DEF z
<1>8. InDone(w, fcz, d.size)
  <2>1. Fine(w, fcz)
    BY <1>5, <1>7, ThenFine
  <2>2. Chosen(w, fcz.w)
    BY <1>5, <1>7 DEF Chosen
  <2>3. fcz.ok => fc.ok /\ fcz = z
    OBVIOUS
  <2> HIDE DEF fcz
  <2> QED
    BY <2>1, <2>2, <2>3, <1>5, <1>7 DEF InDone
<1> HIDE DEF fcz
<1>9. \A u, x : InDone(w, u, d.size) => u.w \in Worlds /\ Agree(u.w)
  BY FineWorld DEF InDone
<1>10. SparesLevel(fcz.w, i) /\ i.w.drv.out = fcz.w.drv.out
  BY <1>8, <1>9, GetInputLevel
<1> HIDE DEF i
<1>11. InDone(w, in, d.size)
  BY <1>8, <1>10, InDoneThen DEF SparesLevel, SameLevel, SameFor
<1> HIDE DEF in
<1>12. SparesLevel(in.w, g) /\ g.w.drv.out = in.w.drv.out /\ (g.ok => g.w.dev.outReq = in.w.drv.out)
  BY <1>9, <1>11, OutputReq
<1> HIDE DEF g
<1>13. InDone(w, got, d.size) /\ (got.ok => got.w.dev.outReq = got.w.drv.out)
  BY <1>11, <1>12, InDoneThen DEF SparesLevel, SameLevel, SameFor
<1> HIDE DEF got
<1>14. SparesLevel(got.w, s) /\ (s.ok => s.w.drv.out = got.w.dev.outReq)
  BY <1>9, <1>13, OutputReq
<1> HIDE DEF s
<1>15. InDone(w, set, d.size)
  BY <1>13, <1>14, InDoneThen DEF SparesLevel, SameLevel, SameFor
<1> HIDE DEF set
<1>16. set.w \in Worlds /\ Agree(set.w)
  BY <1>9, <1>15
<1>17. Still(set.w, k)
  <2>1. asked \in Worlds /\ asked.bad = set.w.bad /\ Rest(asked) = Rest(set.w)
        /\ Video(asked) = Video(set.w) /\ Chosen(set.w, asked) /\ asked.drv = set.w.drv
    BY <1>0, <1>16 DEF Worlds, Devs, Rest, Video, Chosen
  <2>2. Agree(asked)
    BY <1>16 DEF Worlds, Devs, Agree, ButSize, SizeTold
  <2> HIDE DEF asked
  <2>3. Still(asked, SET_INPUT_BUFFER_REQ(asked))
    BY <2>1, <2>2, InputReq
  <2>4. Still(set.w, SET_INPUT_BUFFER_REQ(asked))
    BY <2>1, <2>3 DEF Still, Fine, Chosen
  <2>5. Still(set.w, Yes(set.w))
    BY <1>16, YesNo
  <2> QED
    BY <2>4, <2>5
<1> HIDE DEF k
<1>18. InDone(w, count, d.size)
  <2>1. Sized(k.w) = Sized(set.w) /\ k.w.drv.bitrate = set.w.drv.bitrate
    BY <1>16, <1>17, StillSizes, StillBitrate
  <2> QED
    BY <2>1, <1>15, <1>17, InDoneThen DEF Still, Sized
<1> HIDE DEF count
<1>19. count.w \in Worlds /\ Agree(count.w)
  BY <1>9, <1>18
<1>20. Still(count.w, n) /\ n.ok /\ (n.w.dev.lset => Covered(n.w))
  BY <1>19, NewLevelStill
<1> HIDE DEF n
<1>21. Sized(n.w) = Sized(count.w) /\ n.w.drv.bitrate = count.w.drv.bitrate
  BY <1>19, <1>20, StillSizes, StillBitrate
<1> HIDE DEF r
<1>22. InDone(w, r, d.size)
  BY <1>1, <1>18, <1>20, <1>21, InDoneThen DEF Still, Sized
<1>23. r.ok /\ r.w.dev.lset => Covered(r.w)
  BY <1>1, <1>20
<1> QED
  BY <1>22, <1>23 DEF r

(* A size turned by 90 degrees is a size.                                  *)
LEMMA SwapSize == \A size \in Sizes : Swap(size) \in Sizes
<1> DEFINE some == Frames \cup {QCIF}
<1>1. \A x \in some : Swap(Swap(Swap(x))) = Swap(x)
  BY DEF Swap
<1> HIDE DEF some
<1>2. Sizes = some \cup {Swap(x) : x \in some} \cup {Swap(Swap(x)) : x \in some}
  BY DEF Sizes, some
<1> QED
  BY <1>1, <1>2

(* The rotation by 90 degrees.                                             *)
LEMMA RotateBase ==
  ASSUME NEW w \in Worlds, Agree(w)
  PROVE  LET s == CommonRotate(w)
         IN /\ Fine(w, s) /\ Chosen(w, s.w)
            /\ s.ok => s.w.drv.size = Swap(w.dev.size) /\ s.w.dev.size = Swap(w.dev.size)
            /\ s.w.drv.out = w.drv.out /\ s.w.drv.bitrate = w.drv.bitrate
<1>1. w.dev.size \in Sizes
  BY DEF Worlds, Devs
<1>2. CommonRotate(w) = SET_BASE_CFG(Resized(w, Swap(w.dev.size)))
  BY DEF CommonRotate, Resized
<1>3. Swap(w.dev.size) \in Sizes
  BY <1>1, SwapSize
<1> QED
  BY <1>2, <1>3, ResizedBase

(* A bit rate by set_config.                                               *)
LEMMA ConfigBitrateSet ==
  ASSUME NEW w \in Worlds, Agree(w), NEW bitrate \in Rates
  PROVE  LET r == ConfigBitrate(w, bitrate)
         IN /\ Fine(w, r) /\ Chosen(w, r.w) /\ Sized(r.w) = Sized(w)
            /\ r.ok => r.w.drv.bitrate = bitrate
<1>1. CASE w.dev.check /\ ~venc_max_allowed_bitrate_check(w.dev, bitrate)
  BY <1>1, YesNo, StillSizes DEF ConfigBitrate, Still
<1>2. CASE ~(w.dev.check /\ ~venc_max_allowed_bitrate_check(w.dev, bitrate))
  BY <1>2, BitrateSet DEF ConfigBitrate
<1> QED
  BY <1>1, <1>2

(***************************************************************************)
(* The reconstruction buffers, one ioctl each: as many as the driver       *)
(* holds, venc_dev has in the first slots.                                 *)
(***************************************************************************)
Holding(w, n) == w.dev.recon = 1 .. n /\ w.drv.recon = n

(* On the way back: those after the first n.                               *)
HoldingFrom(w, n) ==
  w.dev.recon = n + 1 .. w.dev.reconCount /\ w.drv.recon = w.dev.reconCount - n

(* Fine, but for the buffers.                                              *)
Pooled(w, r) ==
  /\ r \in Outcomes /\ Agree(r.w) /\ Video(r.w) = Video(w) /\ Chosen(w, r.w)
  /\ r.w.dev.codec = w.dev.codec /\ r.w.dev.reconCount = w.dev.reconCount
  /\ w.bad = 0 => r.w.bad = 0

(* The allocation of one.                                                  *)
LEMMA AllocateOne ==
  ASSUME NEW w \in Worlds, Agree(w), NEW n \in 1 .. 4
  PROVE  LET r == pmem_allocate(w, n)
         IN /\ Pooled(w, r)
            /\ w.bad = 0 /\ Holding(w, n - 1) => r.ok /\ Holding(r.w, n)
<1> DEFINE u == Ticked(w)
           v == [u EXCEPT !.drv.recon = @ + 1, !.dev.recon = @ \cup {n}]
           r == pmem_allocate(w, n)
<1>1. r = IF w.bad = 1 THEN No(u) ELSE Yes(v)
  BY DEF pmem_allocate, Ioctl, Ticked
<1>2. u \in Worlds /\ Agree(u) /\ u.dev = w.dev /\ u.drv = w.drv /\ (w.bad = 0 => u.bad = 0)
  BY Tick
<1> HIDE DEF u
<1>3. v \in Worlds
  <2>1. u.dev \in Devs /\ u.drv \in Drvs /\ u.bad \in Nat
    BY <1>2 DEF Worlds
  <2>2. u.drv.recon + 1 \in Int /\ u.dev.recon \cup {n} \in SUBSET (1 .. 4)
    BY <2>1 DEF Devs, Drvs
  <2>3. [u.drv EXCEPT !.recon = @ + 1] \in Drvs
    BY <2>1, <2>2 DEF Drvs
  <2>4. [u.dev EXCEPT !.recon = @ \cup {n}] \in Devs
    BY <2>1, <2>2 DEF Devs
  <2>5. v = [u EXCEPT !.drv = [u.drv EXCEPT !.recon = @ + 1],
                      !.dev = [u.dev EXCEPT !.recon = @ \cup {n}]]
    BY <1>2 DEF Worlds, Devs, Drvs
  <2> QED
    BY <1>2, <2>3, <2>4, <2>5 DEF Worlds
<1>4. /\ Agree(v) /\ v.bad = u.bad /\ Video(v) = Video(w) /\ Chosen(w, v)
      /\ v.dev.codec = w.dev.codec /\ v.dev.reconCount = w.dev.reconCount
      /\ v.dev.recon = w.dev.recon \cup {n} /\ v.drv.recon = w.drv.recon + 1
  BY <1>2 DEF Worlds, Devs, Drvs, Agree, ButSize, SizeTold, Video, Chosen
<1>5. Holding(w, n - 1) => Holding(v, n)
  <2>1. (1 .. n - 1) \cup {n} = 1 .. n /\ (n - 1) + 1 = n
    OBVIOUS
  <2> QED
    BY <2>1, <1>4 DEF Holding
<1> HIDE DEF v
<1>6. CASE w.bad = 1
  <2>1. r = No(u)
    BY <1>1, <1>6
  <2> QED
    BY <2>1, <1>2, <1>6 DEF No, Pooled, Outcomes, Video, Chosen
<1>7. CASE w.bad # 1
  <2>1. r = Yes(v)
    BY <1>1, <1>7
  <2> QED
    BY <2>1, <1>2, <1>3, <1>4, <1>5, <1>7 DEF Yes, Pooled, Outcomes
<1> QED
  BY <1>6, <1>7

(* Allocations and releases go on from one another.                        *)
LEMMA PooledThen ==
  ASSUME NEW w, NEW r, NEW s, Pooled(w, r), Pooled(r.w, s)
  PROVE  Pooled(w, s)
  BY DEF Pooled, Chosen

(* All of them: if no ioctl fails the driver then holds one for each slot. *)
(* The recursion of the model ends after four, so the function exists      *)
(* without an induction.                                                   *)
LEMMA Allocated ==
  ASSUME NEW w \in Worlds, Agree(w)
  PROVE  LET r == venc_allocate_recon_buffers(w)
         IN /\ Pooled(w, r)
            /\ w.bad = 0 /\ Holding(w, 0) => r.ok /\ Holding(r.w, w.dev.reconCount)
<1> DEFINE Step(r, n) == IF r.ok THEN pmem_allocate(r.w, n) ELSE r
           g0 == Ioctl(w, Quiet)
           g1 == Step(g0, 1)
           g2 == Step(g1, 2)
           g3 == Step(g2, 3)
           g4 == Step(g3, 4)
           after[n \in 0 .. 4] == IF n = 0 THEN g0 ELSE Step(after[n - 1], n)
           Right(n, r) ==
             /\ Pooled(w, r)
             /\ w.bad = 0 /\ Holding(w, 0) => r.ok /\ Holding(r.w, n)
<1>1. venc_allocate_recon_buffers(w) = after[w.dev.reconCount]
  BY DEF venc_allocate_recon_buffers, MAX_RECON_BUFFERS, Then
<1>2. Right(0, g0)
  <2>1. Still(w, g0)
    BY QuietStill
  <2>2. Holding(w, 0) => Holding(g0.w, 0)
    BY <2>1 DEF Still, Fine, Rest, Holding
  <2>3. w.bad = 0 => g0.ok
    BY DEF Ioctl, Quiet, Yes
  <2> HIDE DEF g0
  <2> QED
    BY <2>1, <2>2, <2>3 DEF Still, Fine, Pooled, Rest
<1>3. ASSUME NEW n \in 1 .. 4, NEW r, Right(n - 1, r) PROVE Right(n, Step(r, n))
  <2>1. r.w \in Worlds /\ Agree(r.w)
    BY <1>3 DEF Pooled, Outcomes
  <2> DEFINE s == pmem_allocate(r.w, n)
  <2>2. /\ Pooled(r.w, s)
        /\ r.w.bad = 0 /\ Holding(r.w, n - 1) => s.ok /\ Holding(s.w, n)
    BY <2>1, AllocateOne
  <2> HIDE DEF s
  <2>3. CASE r.ok
    <3>1. Pooled(w, s)
      BY <1>3, <2>2, PooledThen
    <3>2. w.bad = 0 => r.w.bad = 0
      BY <1>3 DEF Pooled
    <3> QED
      BY <2>2, <2>3, <3>1, <3>2, <1>3 DEF s
  <2>4. CASE ~r.ok
    BY <2>4, <1>3
  <2> QED
    BY <2>3, <2>4
<1> HIDE DEF g0, Step, Right
<1>4. \E f : f = [n \in 0 .. 4 |-> IF n = 0 THEN g0 ELSE Step(f[n - 1], n)]
  <2> DEFINE f == [n \in 0 .. 4 |-> IF n = 0 THEN g0 ELSE IF n = 1 THEN g1 ELSE IF n = 2 THEN g2
                                   ELSE IF n = 3 THEN g3 ELSE g4]
  <2>1. f[0] = g0 /\ f[1] = Step(f[0], 1) /\ f[2] = Step(f[1], 2) /\ f[3] = Step(f[2], 3)
        /\ f[4] = Step(f[3], 4)
    OBVIOUS
  <2>2. \A n \in 0 .. 4 : f[n] = IF n = 0 THEN g0 ELSE Step(f[n - 1], n)
    <3> TAKE n \in 0 .. 4
    <3>1. n = 0 \/ n = 1 \/ n = 2 \/ n = 3 \/ n = 4
      OBVIOUS
    <3> HIDE DEF f
    <3> QED
      BY <2>1, <3>1
  <2>3. f = [n \in 0 .. 4 |-> f[n]]
    OBVIOUS
  <2> HIDE DEF f
  <2>4. f = [n \in 0 .. 4 |-> IF n = 0 THEN g0 ELSE Step(f[n - 1], n)]
    BY <2>2, <2>3
  <2> QED
    BY <2>4
<1>5. after = [n \in 0 .. 4 |-> IF n = 0 THEN g0 ELSE Step(after[n - 1], n)]
  BY <1>4 DEF after
<1> HIDE DEF after
<1>6. after[0] = g0 /\ after[1] = Step(after[0], 1) /\ after[2] = Step(after[1], 2)
      /\ after[3] = Step(after[2], 3) /\ after[4] = Step(after[3], 4)
  BY <1>5
<1>7. Right(0, after[0])
  BY <1>2, <1>6
<1>8. Right(1, after[1])
  BY <1>3, <1>6, <1>7
<1>9. Right(2, after[2])
  BY <1>3, <1>6, <1>8
<1>10. Right(3, after[3])
  BY <1>3, <1>6, <1>9
<1>11. Right(4, after[4])
  BY <1>3, <1>6, <1>10
<1>12. w.dev.reconCount \in 0 .. 4
  BY DEF Worlds, Devs
<1>13. Right(w.dev.reconCount, after[w.dev.reconCount])
  BY <1>7, <1>8, <1>9, <1>10, <1>11, <1>12
<1> QED
  BY <1>1, <1>13 DEF Right

(* The outcome of starting and stopping the driver.                        *)
RanFrom(w, r) ==
  /\ r \in Outcomes /\ Agree(r.w) /\ Video(r.w) = Video(w) /\ Chosen(w, r.w)
  /\ r.w.dev.codec = w.dev.codec /\ (w.bad = 0 => r.w.bad = 0)

(* venc_start: level, check of the bit rate, buffers, START.               *)
LEMMA DriverStarts ==
  ASSUME NEW w \in Worlds, Agree(w), NEW garbage
  PROVE  LET r == venc_start(w, garbage)
         IN /\ RanFrom(w, r)
            /\ w.bad = 0 /\ Holding(w, 0) /\ r.ok => Holding(r.w, r.w.dev.reconCount)
<1> DEFINE p == venc_set_profile_level(w, None, None)
           target == IF w.dev.target = Unset THEN garbage ELSE w.dev.target
           v == [p.w EXCEPT !.dev.reconCount = ReconCount(p.w.dev)]
           a == venc_allocate_recon_buffers(v)
           f == venc_set_flag(a.w)
           refused == p.w.dev.check /\ ~venc_max_allowed_bitrate_check(p.w.dev, target)
           r == venc_start(w, garbage)
<1>1. r = IF refused THEN No(p.w) ELSE IF a.ok THEN f ELSE a
  BY DEF venc_start, StartAllocated, Then
<1>2. Still(w, p)
  BY LevelKept
<1> HIDE DEF p, target, refused
<1>3. p.w \in Worlds /\ Agree(p.w)
  BY <1>2, FineWorld DEF Still
<1>4. ReconCount(p.w.dev) \in 0 .. 4
  BY DEF ReconCount, MAX_RECON_BUFFERS
<1>5. /\ v \in Worlds /\ v.drv = p.w.drv /\ v.bad = p.w.bad /\ v.dev.codec = p.w.dev.codec
      /\ Video(v) = Video(p.w) /\ Chosen(p.w, v) /\ v.dev.recon = p.w.dev.recon
  BY <1>3, <1>4 DEF Worlds, Devs, Video, Chosen
<1>6. Agree(v)
  BY <1>3, <1>4 DEF Worlds, Devs, Agree, ButSize, SizeTold
<1> HIDE DEF v
<1>7. /\ Pooled(v, a)
      /\ v.bad = 0 /\ Holding(v, 0) => a.ok /\ Holding(a.w, v.dev.reconCount)
  BY <1>5, <1>6, Allocated
<1> HIDE DEF a
<1>8. a.w \in Worlds /\ Agree(a.w)
  BY <1>7 DEF Pooled, Outcomes
<1>9. Still(a.w, f)
  BY <1>8, OneSetting
<1> HIDE DEF f
<1>10. RanFrom(w, No(p.w)) /\ ~No(p.w).ok
  BY <1>2 DEF RanFrom, No, Still, Fine, Outcomes, Rest
<1>11. RanFrom(w, a)
  BY <1>2, <1>5, <1>7 DEF RanFrom, Pooled, Still, Fine, Chosen, Rest
<1>12. RanFrom(w, f)
  BY <1>9, <1>11 DEF RanFrom, Still, Fine, Chosen, Rest
<1>13. ASSUME w.bad = 0, Holding(w, 0)
       PROVE  /\ Holding(a.w, a.w.dev.reconCount) /\ Holding(f.w, f.w.dev.reconCount)
  <2>1. v.bad = 0 /\ Holding(v, 0)
    BY <1>13, <1>2, <1>5 DEF Still, Fine, Rest, Holding
  <2>2. Holding(a.w, a.w.dev.reconCount)
    BY <2>1, <1>7 DEF Pooled
  <2> QED
    BY <2>2, <1>9 DEF Still, Fine, Rest, Holding
<1> HIDE DEF r
<1>14. RanFrom(w, r)
  BY <1>1, <1>10, <1>11, <1>12
<1>15. w.bad = 0 /\ Holding(w, 0) /\ r.ok => Holding(r.w, r.w.dev.reconCount)
  BY <1>1, <1>10, <1>13
<1> QED
  BY <1>14, <1>15 DEF r

(* The release of one buffer, accepted or not.                             *)
FreeOne(w, n) ==
  Ioctl(w, LAMBDA v : [v EXCEPT !.drv.recon = @ - 1, !.dev.recon = @ \ {n}]).w
Freed(w, n) == IF n \notin w.dev.recon THEN w ELSE FreeOne(w, n)
PoolOf(w, v) == Pooled(w, Yes(v))

(* If it is accepted the rest is with the driver.                          *)
LEMMA FreedOne ==
  ASSUME NEW w \in Worlds, Agree(w), NEW n \in 1 .. 4
  PROVE  /\ PoolOf(w, FreeOne(w, n))
         /\ w.bad = 0 /\ n \in 1 .. w.dev.reconCount /\ HoldingFrom(w, n - 1)
              => n \in w.dev.recon /\ HoldingFrom(FreeOne(w, n), n)
<1> DEFINE u == Ticked(w)
           v == [u EXCEPT !.drv.recon = @ - 1, !.dev.recon = @ \ {n}]
<1>1. FreeOne(w, n) = IF w.bad = 1 THEN u ELSE v
  BY DEF FreeOne, Ioctl, Ticked, Yes, No
<1>2. u \in Worlds /\ Agree(u) /\ u.dev = w.dev /\ u.drv = w.drv /\ (w.bad = 0 => u.bad = 0)
  BY Tick
<1> HIDE DEF u
<1>3. v \in Worlds
  <2>1. u.dev \in Devs /\ u.drv \in Drvs /\ u.bad \in Nat
    BY <1>2 DEF Worlds
  <2>2. u.drv.recon - 1 \in Int /\ u.dev.recon \ {n} \in SUBSET (1 .. 4)
    BY <2>1 DEF Devs, Drvs
  <2>3. [u.drv EXCEPT !.recon = @ - 1] \in Drvs
    BY <2>1, <2>2 DEF Drvs
  <2>4. [u.dev EXCEPT !.recon = @ \ {n}] \in Devs
    BY <2>1, <2>2 DEF Devs
  <2>5. v = [u EXCEPT !.drv = [u.drv EXCEPT !.recon = @ - 1],
                      !.dev = [u.dev EXCEPT !.recon = @ \ {n}]]
    BY <1>2 DEF Worlds, Devs, Drvs
  <2> QED
    BY <1>2, <2>3, <2>4, <2>5 DEF Worlds
<1>4. /\ Agree(v) /\ v.bad = u.bad /\ Video(v) = Video(w) /\ Chosen(w, v)
      /\ v.dev.codec = w.dev.codec /\ v.dev.reconCount = w.dev.reconCount
      /\ v.dev.recon = w.dev.recon \ {n} /\ v.drv.recon = w.drv.recon - 1
  BY <1>2 DEF Worlds, Devs, Drvs, Agree, ButSize, SizeTold, Video, Chosen
<1> HIDE DEF v
<1>5. ASSUME w.bad = 0, n \in 1 .. w.dev.reconCount, HoldingFrom(w, n - 1)
      PROVE  n \in w.dev.recon /\ HoldingFrom(v, n)
  <2> DEFINE m == w.dev.reconCount
  <2>1. m \in 0 .. 4
    BY DEF Worlds, Devs
  <2>2. w.dev.recon = (n - 1) + 1 .. m /\ w.drv.recon = m - (n - 1)
    BY <1>5 DEF HoldingFrom
  <2>3. n \in 1 .. m
    BY <1>5
  <2> HIDE DEF m
  <2>4. (n - 1) + 1 .. m = n .. m /\ (n .. m) \ {n} = n + 1 .. m /\ (m - (n - 1)) - 1 = m - n
        /\ n \in n .. m
    BY <2>1, <2>3
  <2> QED
    BY <2>2, <2>4, <1>4 DEF HoldingFrom, m
<1>6. CASE w.bad = 1
  BY <1>1, <1>2, <1>6 DEF Yes, PoolOf, Pooled, Outcomes, Video, Chosen
<1>7. CASE w.bad # 1
  <2>1. FreeOne(w, n) = v
    BY <1>1, <1>7
  <2> QED
    BY <2>1, <1>2, <1>3, <1>4, <1>5, <1>7 DEF Yes, PoolOf, Pooled, Outcomes
<1> QED
  BY <1>6, <1>7

(* pmem_free: if no ioctl fails the driver holds none afterwards.          *)
LEMMA FreedAll ==
  ASSUME NEW w \in Worlds, Agree(w)
  PROVE  LET v == pmem_free(w)
         IN /\ PoolOf(w, v)
            /\ w.bad = 0 /\ Holding(w, w.dev.reconCount) => Holding(v, 0)
<1> DEFINE m == w.dev.reconCount
           g1 == Freed(w, 1)
           g2 == Freed(g1, 2)
           g3 == Freed(g2, 3)
           g4 == Freed(g3, 4)
           Step(n, v) == IF n \notin w.dev.recon THEN v ELSE FreeOne(v, n)
           after[n \in 0 .. 4] == IF n = 0 THEN w ELSE Step(n, after[n - 1])
           Right(n, v) ==
             /\ PoolOf(w, v)
             /\ w.bad = 0 /\ Holding(w, m) /\ n <= m => HoldingFrom(v, n)
           freed == after[m]
           last == [freed EXCEPT !.dev.recon = @ \ (1 .. m)]
<1>0. m \in 0 .. 4
  BY DEF Worlds, Devs
<1>1. pmem_free(w) = last
  BY DEF pmem_free, MAX_RECON_BUFFERS, FreeOne
<1>2. Right(0, w)
  <2>1. PoolOf(w, w)
    BY DEF PoolOf, Pooled, Yes, Outcomes, Chosen
  <2>2. Holding(w, m) => HoldingFrom(w, 0)
    BY <1>0 DEF Holding, HoldingFrom
  <2> QED
    BY <2>1, <2>2
<1>3. ASSUME NEW n \in 1 .. 4, NEW v, Right(n - 1, v) PROVE Right(n, Step(n, v))
  <2>1. v \in Worlds /\ Agree(v) /\ v.dev.reconCount = m /\ (w.bad = 0 => v.bad = 0)
    BY <1>3 DEF PoolOf, Pooled, Yes, Outcomes
  <2>2. /\ PoolOf(v, FreeOne(v, n))
        /\ v.bad = 0 /\ n \in 1 .. v.dev.reconCount /\ HoldingFrom(v, n - 1)
             => n \in v.dev.recon /\ HoldingFrom(FreeOne(v, n), n)
    BY <2>1, FreedOne
  <2>3. PoolOf(w, FreeOne(v, n))
    BY <1>3, <2>2, PooledThen DEF PoolOf, Yes
  <2>4. ASSUME w.bad = 0, Holding(w, m), n <= m PROVE n \in w.dev.recon /\ HoldingFrom(FreeOne(v, n), n)
    <3>1. n \in w.dev.recon
      BY <2>4, <1>0 DEF Holding
    <3>2. n - 1 <= m /\ n \in 1 .. m
      BY <2>4, <1>0
    <3> HIDE DEF m
    <3>3. HoldingFrom(v, n - 1)
      BY <3>2, <2>4, <1>3
    <3> QED
      BY <3>1, <3>2, <3>3, <2>1, <2>2, <2>4
  <2> QED
    BY <1>3, <2>3, <2>4
<1> HIDE DEF Step, Right
<1>4. \E f : f = [n \in 0 .. 4 |-> IF n = 0 THEN w ELSE Step(n, f[n - 1])]
  <2> DEFINE h1 == Step(1, w)
             h2 == Step(2, h1)
             h3 == Step(3, h2)
             h4 == Step(4, h3)
             f == [n \in 0 .. 4 |-> IF n = 0 THEN w ELSE IF n = 1 THEN h1 ELSE IF n = 2 THEN h2
                                   ELSE IF n = 3 THEN h3 ELSE h4]
  <2>1. f[0] = w /\ f[1] = Step(1, f[0]) /\ f[2] = Step(2, f[1]) /\ f[3] = Step(3, f[2])
        /\ f[4] = Step(4, f[3])
    OBVIOUS
  <2>2. \A n \in 0 .. 4 : f[n] = IF n = 0 THEN w ELSE Step(n, f[n - 1])
    <3> TAKE n \in 0 .. 4
    <3>1. n = 0 \/ n = 1 \/ n = 2 \/ n = 3 \/ n = 4
      OBVIOUS
    <3> HIDE DEF f
    <3> QED
      BY <2>1, <3>1
  <2>3. f = [n \in 0 .. 4 |-> f[n]]
    OBVIOUS
  <2> HIDE DEF f
  <2>4. f = [n \in 0 .. 4 |-> IF n = 0 THEN w ELSE Step(n, f[n - 1])]
    BY <2>2, <2>3
  <2> QED
    BY <2>4
<1>5. after = [n \in 0 .. 4 |-> IF n = 0 THEN w ELSE Step(n, after[n - 1])]
  BY <1>4 DEF after
<1> HIDE DEF after
<1>6. after[0] = w /\ after[1] = Step(1, after[0]) /\ after[2] = Step(2, after[1])
      /\ after[3] = Step(3, after[2]) /\ after[4] = Step(4, after[3])
  BY <1>5
<1>7. Right(0, after[0])
  BY <1>2, <1>6
<1>8. Right(1, after[1])
  BY <1>3, <1>6, <1>7
<1>9. Right(2, after[2])
  BY <1>3, <1>6, <1>8
<1>10. Right(3, after[3])
  BY <1>3, <1>6, <1>9
<1>11. Right(4, after[4])
  BY <1>3, <1>6, <1>10
<1>12. Right(m, freed)
  <2> HIDE DEF m
  <2> QED
    BY <1>0, <1>7, <1>8, <1>9, <1>10, <1>11
<1> HIDE DEF freed
<1>13. freed \in Worlds /\ Agree(freed) /\ freed.dev.reconCount = m /\ PoolOf(w, freed)
  BY <1>12 DEF Right, PoolOf, Pooled, Yes, Outcomes
<1>14. last \in Worlds
  BY <1>13 DEF Worlds, Devs
<1>15. /\ Agree(last) /\ last.bad = freed.bad /\ Video(last) = Video(freed) /\ Chosen(freed, last)
       /\ last.dev.codec = freed.dev.codec /\ last.dev.reconCount = m
       /\ last.dev.recon = freed.dev.recon \ (1 .. m) /\ last.drv = freed.drv
  BY <1>13 DEF Worlds, Devs, Agree, ButSize, SizeTold, Video, Chosen
<1> HIDE DEF last
<1>16. PoolOf(freed, last)
  BY <1>13, <1>14, <1>15 DEF PoolOf, Pooled, Yes, Outcomes
<1>17. PoolOf(w, last)
  BY <1>13, <1>16, PooledThen DEF PoolOf, Yes
<1>18. ASSUME w.bad = 0, Holding(w, m) PROVE Holding(last, 0)
  <2>1. HoldingFrom(freed, m)
    BY <1>0, <1>12, <1>18 DEF Right
  <2>2. freed.dev.recon = m + 1 .. m /\ freed.drv.recon = m - m
    BY <2>1, <1>13 DEF HoldingFrom
  <2> HIDE DEF m
  <2>3. m + 1 .. m = {} /\ m - m = 0 /\ 1 .. 0 = {}
    BY <1>0
  <2> QED
    BY <2>2, <2>3, <1>15 DEF Holding
<1> QED
  BY <1>1, <1>17, <1>18

(* venc_stop: the buffers, STOP.                                           *)
LEMMA DriverStops ==
  ASSUME NEW w \in Worlds, Agree(w)
  PROVE  LET r == venc_stop(w)
         IN /\ RanFrom(w, r)
            /\ w.bad = 0 /\ Holding(w, w.dev.reconCount) => Holding(r.w, 0)
<1> DEFINE v == pmem_free(w)
           r == venc_set_flag(v)
<1>1. venc_stop(w) = r
  BY DEF venc_stop
<1>2. PoolOf(w, v) /\ (w.bad = 0 /\ Holding(w, w.dev.reconCount) => Holding(v, 0))
  BY FreedAll
<1> HIDE DEF v
<1>3. v \in Worlds /\ Agree(v)
  BY <1>2 DEF PoolOf, Pooled, Yes, Outcomes
<1>4. Still(v, r)
  BY <1>3, OneSetting
<1> HIDE DEF r
<1>5. Holding(v, 0) => Holding(r.w, 0)
  BY <1>4 DEF Still, Fine, Rest, Holding
<1>6. RanFrom(w, r)
  BY <1>2, <1>4 DEF PoolOf, Pooled, Yes, Still, Fine, Rest, RanFrom, Chosen
<1> QED
  BY <1>1, <1>2, <1>5, <1>6

(***************************************************************************)
(* The component: what it reports, and what a call must leave.             *)
(***************************************************************************)
Omxs == [in : InDefs, out : OutDefs, cfgFps : Q16s, cfgBitrate : Rates, paramBitrate : Rates,
         rotation : Int, profile : Words, level : Words, proxy : BOOLEAN, opaque : BOOLEAN,
         library : BOOLEAN, meta : BOOLEAN, extra : BOOLEAN]

(* What component, venc_dev and driver agree on while nothing has failed.  *)
CleanOf(w, known, run) ==
  /\ known.in.size = w.drv.size /\ w.dev.size = w.drv.size
  /\ known.out.bitrate = w.drv.bitrate /\ known.out.count = w.drv.out
  /\ known.profile = w.drv.profile /\ w.dev.pset
  /\ IF run THEN Holding(w, w.dev.reconCount) ELSE Holding(w, 0)

(* The inductive invariant.                                                *)
SettingsInv ==
  /\ dev \in Devs /\ drv \in Drvs /\ omx \in Omxs
  /\ running \in BOOLEAN /\ clean \in BOOLEAN /\ fresh \in BOOLEAN
  /\ Agree(World(0))
  /\ fresh /\ dev.lset => Covered(World(0))
  /\ clean => CleanOf(World(0), omx, running)

(* The world a call starts from.                                           *)
LEMMA WorldOf ==
  ASSUME SettingsInv, NEW bad \in Nat
  PROVE  /\ World(bad) \in Worlds /\ Agree(World(bad))
         /\ World(bad).dev = dev /\ World(bad).drv = drv /\ World(bad).bad = bad
         /\ clean => CleanOf(World(bad), omx, running)
BY DEF SettingsInv, World, Worlds, Agree, ButSize, SizeTold, CleanOf, Holding

(* That a level covers the stream is a matter of venc_dev and driver.      *)
LEMMA CoveredSame ==
  ASSUME NEW w, NEW v, w.dev = v.dev, w.drv = v.drv, Covered(w) PROVE Covered(v)
BY DEF Covered

(* What a call must do.                                                    *)
CallRight(name, bad, r, known, run) ==
  /\ r \in Outcomes /\ Agree(r.w) /\ known \in Omxs
  /\ name = "level" /\ r.ok /\ r.w.dev.lset => Covered(r.w)
  /\ clean /\ r.ok /\ bad = 0 => CleanOf(r.w, known, run)

(* Then it keeps the invariant.                                            *)
LEMMA CallKeeps ==
  ASSUME SettingsInv, NEW name, NEW bad \in Nat, NEW r, NEW known, Call(name, bad, r, known),
         running' \in BOOLEAN, CallRight(name, bad, r, known, running')
  PROVE  SettingsInv'
<1>1. /\ dev' = r.w.dev /\ drv' = r.w.drv /\ omx' = known
      /\ clean' = (clean /\ r.ok /\ bad = 0) /\ fresh' = (r.ok /\ name = "level")
  BY DEF Call
<1>2. r.w \in Worlds /\ r.ok \in BOOLEAN
  BY DEF CallRight, Outcomes
<1>3. dev' \in Devs /\ drv' \in Drvs /\ omx' \in Omxs
  BY <1>1, <1>2 DEF CallRight, Worlds
<1>4. World(0)'.dev = r.w.dev /\ World(0)'.drv = r.w.drv
  BY <1>1 DEF World
<1>5. Agree(World(0))'
  <2>1. Agree(World(0)')
    BY <1>4 DEF CallRight, Agree, ButSize, SizeTold
  <2> QED
    BY <2>1 DEF Agree, ButSize, SizeTold
<1>6. clean' \in BOOLEAN /\ fresh' \in BOOLEAN
  BY <1>1, <1>2 DEF SettingsInv
<1>7. ASSUME fresh', dev'.lset PROVE Covered(World(0))'
  <2>1. Covered(r.w)
    BY <1>1, <1>7 DEF CallRight
  <2>2. Covered(World(0)')
    BY <1>4, <2>1, CoveredSame
  <2> QED
    BY <2>2 DEF Covered
<1>8. ASSUME clean' PROVE CleanOf(World(0), omx, running)'
  <2>1. CleanOf(r.w, known, running')
    BY <1>1, <1>8 DEF CallRight
  <2>2. CleanOf(World(0)', omx', running')
    BY <1>1, <1>4, <2>1 DEF CleanOf, Holding
  <2> QED
    BY <2>2 DEF CleanOf, Holding
<1> QED
  BY <1>3, <1>5, <1>6, <1>7, <1>8 DEF SettingsInv

(* A fine outcome leaves the buffers,                                      *)
LEMMA HoldingKept == ASSUME NEW w, NEW r, Fine(w, r), NEW n PROVE Holding(w, n) <=> Holding(r.w, n)
  BY DEF Fine, Rest, Holding

(* their number,                                                           *)
LEMMA CountKept == ASSUME NEW w, NEW r, Fine(w, r) PROVE r.w.dev.reconCount = w.dev.reconCount
  BY DEF Fine, Rest

(* and so the part of CleanOf about them.                                  *)
HoldRight(w, run) == IF run THEN Holding(w, w.dev.reconCount) ELSE Holding(w, 0)

(* So it does.                                                             *)
LEMMA HoldKept ==
  ASSUME NEW w, NEW r, Fine(w, r), NEW run PROVE HoldRight(w, run) <=> HoldRight(r.w, run)
BY HoldingKept, CountKept DEF HoldRight

(* A call that changes neither the stream nor the profile.                 *)
LEMMA StillClean ==
  ASSUME NEW w \in Worlds, Agree(w), NEW r, Still(w, r), NEW known, NEW knew, NEW run,
         CleanOf(w, knew, run), known.in.size = knew.in.size, known.out.bitrate = knew.out.bitrate,
         known.out.count = knew.out.count, known.profile \in {knew.profile, r.w.drv.profile}
  PROVE  CleanOf(r.w, known, run)
<1>1. Fine(w, r) /\ Video(r.w) = Video(w) /\ Chosen(w, r.w)
  BY DEF Still
<1>2. r.w.drv.bitrate = w.drv.bitrate
  BY StillBitrate
<1>3. HoldRight(r.w, run)
  BY <1>1, HoldKept DEF CleanOf, HoldRight
<1>4. r.w.drv.size = w.drv.size /\ r.w.dev.size = w.dev.size /\ r.w.drv.out = w.drv.out
  BY <1>1 DEF Video
<1>5. r.w.dev.pset /\ r.w.drv.profile = w.drv.profile
  BY <1>1 DEF Chosen, CleanOf
<1> QED
  BY <1>2, <1>3, <1>4, <1>5 DEF CleanOf, HoldRight

(* Such a call keeps the invariant if the component does not change.       *)
LEMMA StillCall ==
  ASSUME SettingsInv, NEW bad \in Nat, NEW r, Still(World(bad), r),
         Call("other", bad, r, omx), running' = running
  PROVE  SettingsInv'
<1>1. World(bad) \in Worlds /\ Agree(World(bad)) /\ (clean => CleanOf(World(bad), omx, running))
  BY WorldOf
<1>2. r \in Outcomes /\ Agree(r.w)
  BY DEF Still, Fine
<1>3. clean => CleanOf(r.w, omx, running)
  BY <1>1, StillClean
<1>4. running' \in BOOLEAN /\ omx \in Omxs
  BY DEF SettingsInv
<1>5. CallRight("other", bad, r, omx, running')
  BY <1>2, <1>3, <1>4 DEF CallRight
<1> QED
  BY <1>4, <1>5, CallKeeps

(* dev_get_buf_req of the output port: what is reported afterwards is the  *)
(* driver's, if no ioctl fails.                                            *)
LEMMA RefreshedRight ==
  ASSUME NEW r \in Outcomes, Agree(r.w), NEW known \in Omxs
  PROVE  LET f == Refreshed(r, known)
         IN /\ f.r \in Outcomes /\ Agree(f.r.w) /\ f.r.ok = r.ok /\ SparesLevel(r.w, f.r)
            /\ f.r.w.drv.out = r.w.drv.out
            /\ f.known \in Omxs /\ f.known.in = known.in /\ f.known.profile = known.profile
            /\ f.known.out.bitrate = known.out.bitrate
            /\ r.w.bad = 0 => f.known.out.count = r.w.drv.out
<1> DEFINE g == GET_OUTPUT_BUFFER_REQ(r.w)
           s == [r EXCEPT !.w = g.w]
           k == [known EXCEPT !.out.count = g.w.dev.outReq, !.out.buf = g.w.dev.outSize]
           f == Refreshed(r, known)
<1>1. f = IF g.ok THEN [r |-> s, known |-> k] ELSE [r |-> s, known |-> known]
  BY DEF Refreshed
<1>2. r.w \in Worlds
  BY DEF Outcomes
<1>3. /\ SparesLevel(r.w, g) /\ g.w.drv.out = r.w.drv.out
      /\ g.ok => g.w.dev.outReq = r.w.drv.out
      /\ r.w.bad = 0 => g.ok
  BY <1>2, OutputReq
<1> HIDE DEF g
<1>4. g.w \in Worlds /\ Agree(g.w)
  BY <1>3, FineWorld DEF SparesLevel
<1>5. s \in Outcomes /\ s.ok = r.ok /\ s.w = g.w
  BY <1>4 DEF Outcomes
<1> HIDE DEF s
<1>6. SparesLevel(r.w, s)
  BY <1>3, <1>5 DEF SparesLevel, Fine
<1>7. g.w.dev.outReq \in Values /\ g.w.dev.outSize \in Sizes
  BY <1>4 DEF Worlds, Devs
<1> HIDE DEF Values
<1>8. k \in Omxs
  BY <1>7 DEF Omxs, OutDefs
<1>9. k.in = known.in /\ k.profile = known.profile /\ k.out.bitrate = known.out.bitrate
      /\ k.out.count = g.w.dev.outReq
  BY DEF Omxs, OutDefs
<1> HIDE DEF k
<1>10. CASE g.ok
  <2>1. f.r = s /\ f.known = k
    BY <1>1, <1>10
  <2> HIDE DEF f
  <2> QED
    BY <2>1, <1>3, <1>4, <1>5, <1>6, <1>8, <1>9, <1>10 DEF f
<1>11. CASE ~g.ok
  <2>1. f.r = s /\ f.known = known
    BY <1>1, <1>11
  <2> HIDE DEF f
  <2> QED
    BY <2>1, <1>3, <1>4, <1>5, <1>6, <1>11 DEF f
<1> QED
  BY <1>10, <1>11

(***************************************************************************)
(* One lemma per call: it keeps the invariant, whichever ioctl fails.      *)
(***************************************************************************)

(* What a call must reach for the agreement of all three layers.           *)
LEMMA CleanFrom ==
  ASSUME NEW w \in Worlds, Agree(w), NEW knew, NEW run, CleanOf(w, knew, run),
         NEW r, Fine(w, r), Chosen(w, r.w), NEW known,
         known.profile \in {knew.profile, r.w.drv.profile},
         known.in.size = r.w.drv.size, r.w.dev.size = r.w.drv.size,
         known.out.bitrate = r.w.drv.bitrate, known.out.count = r.w.drv.out
  PROVE  CleanOf(r.w, known, run)
<1>1. HoldRight(r.w, run)
  BY HoldKept DEF CleanOf, HoldRight
<1>2. r.w.dev.pset /\ r.w.drv.profile = w.drv.profile
  BY DEF Chosen, CleanOf
<1> QED
  BY <1>1, <1>2 DEF CleanOf, HoldRight

(* Two fine steps that keep the profile are one.                           *)
LEMMA FineThrough ==
  ASSUME NEW w, NEW r, NEW s, Fine(w, r), Fine(r.w, s), Chosen(w, r.w), Chosen(r.w, s.w)
  PROVE  Fine(w, s) /\ Chosen(w, s.w)
BY DEF Fine, Chosen

(* The level still covers the stream after reading the requirements.       *)
LEMMA LevelCovered ==
  ASSUME NEW w \in Worlds, Agree(w), NEW r, SparesLevel(w, r), w.dev.lset => Covered(w)
  PROVE  r.w.dev.lset => Covered(r.w)
<1>1. r.w \in Worlds /\ Agree(r.w) /\ SameLevel(w, r.w)
  BY FineWorld DEF SparesLevel
<1>2. r.w.dev.lset = w.dev.lset
  BY <1>1 DEF SameLevel
<1> QED
  BY <1>1, <1>2, CoveredKept

(* set_parameter of the input port's definition; the converter for opaque  *)
(* formats may refuse after the driver has everything.                     *)
LEMMA InCall ==
  ASSUME SettingsInv, NEW d \in InDefs, NEW opaque \in BOOLEAN, NEW loads \in BOOLEAN, NEW bad \in Nat,
         set_PortDefinition_In(d, opaque, loads, bad)
  PROVE  SettingsInv'
<1> DEFINE w == World(bad)
           r == PortDefinitionIn(w, d)
           copied == [omx EXCEPT !.in = d]
           init == C2dInit(copied, loads)
           coloured == IF ~opaque THEN [copied EXCEPT !.proxy = FALSE]
                       ELSE IF omx.proxy THEN copied
                       ELSE [copied EXCEPT !.library = init.library, !.proxy = init.ok,
                                           !.opaque = @ \/ init.ok]
           refused == opaque /\ ~omx.proxy /\ ~init.ok
           g == GET_INPUT_BUFFER_REQ(r.w)
           s == [r EXCEPT !.w = g.w]
           f == Refreshed(s, coloured)
           known == [f.known EXCEPT !.in.count = d.count, !.cfgFps = d.fps,
                                    !.cfgBitrate = d.bitrate, !.paramBitrate = d.bitrate]
<1>1. /\ IF ~r.ok THEN Call("level", bad, r, omx)
         ELSE IF refused THEN Call("level", bad, No(r.w), coloured)
         ELSE Call("level", bad, f.r, known)
      /\ running' = running
  BY DEF set_PortDefinition_In
<1>2. w \in Worlds /\ Agree(w) /\ w.bad = bad /\ (clean => CleanOf(w, omx, running))
  BY WorldOf
<1>3. InDone(w, r, d.size) /\ (r.ok /\ r.w.dev.lset => Covered(r.w))
  BY <1>2, InDefinition
<1>4. omx \in Omxs /\ running' \in BOOLEAN
  BY <1>1 DEF SettingsInv
<1>5. coloured \in Omxs /\ coloured.in = d /\ coloured.out = omx.out /\ coloured.profile = omx.profile
  <2>1. copied \in Omxs /\ copied.in = d /\ copied.out = omx.out /\ copied.profile = omx.profile
    BY <1>4 DEF Omxs
  <2> HIDE DEF copied
  <2>2. init.ok \in BOOLEAN /\ init.library \in BOOLEAN
    BY <2>1 DEF Omxs, C2dInit
  <2> HIDE DEF init
  <2> QED
    BY <2>1, <2>2 DEF Omxs
<1> HIDE DEF r, w, coloured, refused
<1>6. r \in Outcomes /\ Agree(r.w) /\ r.w \in Worlds /\ Fine(w, r) /\ Chosen(w, r.w)
  BY <1>3, FineWorld DEF InDone, Fine
<1>7. CASE ~r.ok
  <2>1. CallRight("level", bad, r, omx, running')
    BY <1>4, <1>6, <1>7 DEF CallRight
  <2> QED
    BY <2>1, <1>1, <1>4, <1>7, CallKeeps
<1>8. CASE r.ok /\ refused
  <2>1. No(r.w) \in Outcomes /\ No(r.w).w = r.w /\ ~No(r.w).ok
    BY <1>6 DEF No, Outcomes
  <2>2. CallRight("level", bad, No(r.w), coloured, running')
    BY <1>5, <1>6, <2>1 DEF CallRight
  <2> QED
    BY <2>2, <1>1, <1>4, <1>8, CallKeeps
<1>9. CASE r.ok /\ ~refused
  <2>1. SparesLevel(r.w, g) /\ g.w.drv.out = r.w.drv.out
    BY <1>6, GetInputLevel
  <2>2. g.w \in Worlds /\ Agree(g.w) /\ Fine(r.w, g) /\ Chosen(r.w, g.w)
    BY <2>1, FineWorld DEF SparesLevel
  <2>3. g.w.dev.lset => Covered(g.w)
    BY <1>3, <1>6, <1>9, <2>1, LevelCovered
  <2> HIDE DEF g
  <2>4. s \in Outcomes /\ s.w = g.w /\ s.ok = r.ok
    BY <1>6, <2>2 DEF Outcomes
  <2> HIDE DEF s
  <2>5. /\ f.r \in Outcomes /\ Agree(f.r.w) /\ f.r.ok = r.ok /\ SparesLevel(g.w, f.r)
        /\ f.r.w.drv.out = g.w.drv.out
        /\ f.known \in Omxs /\ f.known.in = d /\ f.known.profile = omx.profile
        /\ f.known.out.bitrate = omx.out.bitrate
        /\ g.w.bad = 0 => f.known.out.count = g.w.drv.out
    BY <1>5, <2>2, <2>4, RefreshedRight
  <2>6. f.r.w.dev.lset => Covered(f.r.w)
    BY <2>2, <2>3, <2>5, LevelCovered
  <2>7. Fine(g.w, f.r) /\ Chosen(g.w, f.r.w) /\ f.r.w.drv.size = g.w.drv.size
        /\ f.r.w.dev.size = g.w.dev.size /\ f.r.w.drv.bitrate = g.w.drv.bitrate
    BY <2>5 DEF SparesLevel, SameLevel, SameFor
  <2>8. g.w.drv.size = d.size /\ g.w.dev.size = d.size /\ g.w.drv.bitrate = w.drv.bitrate
    BY <1>3, <1>9, <2>1 DEF InDone, SparesLevel, SameLevel, SameFor
  <2>9. Fine(w, f.r) /\ Chosen(w, f.r.w)
    BY <1>6, <2>2, <2>7, FineThrough
  <2> HIDE DEF f
  <2>10. /\ known \in Omxs /\ known.in.size = d.size /\ known.profile = omx.profile
         /\ known.out = f.known.out
    <3>1. d.count \in Values /\ d.fps \in Q16s /\ d.bitrate \in Rates
      BY DEF InDefs
    <3> HIDE DEF Values
    <3> QED
      BY <2>5, <3>1 DEF Omxs, InDefs
  <2> HIDE DEF known
  <2>11. ASSUME clean, bad = 0 PROVE CleanOf(f.r.w, known, running')
    <3>1. CleanOf(w, omx, running)
      BY <1>2, <2>11
    <3>2. g.w.bad = 0
      BY <1>2, <1>6, <2>2, <2>11 DEF Fine
    <3>3. known.out.count = f.r.w.drv.out /\ known.out.bitrate = f.r.w.drv.bitrate
      BY <3>1, <3>2, <2>5, <2>7, <2>8, <2>10 DEF CleanOf
    <3>4. known.in.size = f.r.w.drv.size /\ f.r.w.dev.size = f.r.w.drv.size
      BY <2>7, <2>8, <2>10
    <3>5. known.profile \in {omx.profile, f.r.w.drv.profile} /\ known.in.size = f.r.w.drv.size
      BY <2>10, <3>4
    <3> DEFINE o == f.r
    <3>6. /\ Fine(w, o) /\ Chosen(w, o.w) /\ known.profile \in {omx.profile, o.w.drv.profile}
          /\ known.in.size = o.w.drv.size /\ o.w.dev.size = o.w.drv.size
          /\ known.out.bitrate = o.w.drv.bitrate /\ known.out.count = o.w.drv.out
      BY <3>3, <3>4, <3>5, <2>9
    <3> HIDE DEF o
    <3>7. CleanOf(o.w, known, running)
      BY <1>2, <3>1, <3>6, CleanFrom
    <3> QED
      BY <1>1, <3>7 DEF o
  <2>12. CallRight("level", bad, f.r, known, running')
    BY <2>5, <2>6, <2>10, <2>11 DEF CallRight
  <2> QED
    BY <2>12, <1>1, <1>4, <1>9, CallKeeps
<1> QED
  BY <1>7, <1>8, <1>9

(* CleanOf without the reconstruction buffers.                             *)
Clear(w, known) ==
  /\ known.in.size = w.drv.size /\ w.dev.size = w.drv.size
  /\ known.out.bitrate = w.drv.bitrate /\ known.out.count = w.drv.out
  /\ known.profile = w.drv.profile /\ w.dev.pset

(* A call that leaves the reconstruction buffers keeps the invariant.      *)
LEMMA FineCall ==
  ASSUME SettingsInv, NEW name, NEW bad \in Nat, NEW r, NEW known \in Omxs, Fine(World(bad), r),
         name = "level" /\ r.ok /\ r.w.dev.lset => Covered(r.w),
         Clear(World(bad), omx) /\ r.ok /\ bad = 0 => Clear(r.w, known),
         Call(name, bad, r, known), running' = running
  PROVE  SettingsInv'
<1>1. r \in Outcomes /\ Agree(r.w)
  BY DEF Fine
<1>2. clean => CleanOf(World(bad), omx, running)
  BY WorldOf
<1>3. ASSUME clean, r.ok, bad = 0 PROVE CleanOf(r.w, known, running')
  <2>1. Clear(World(bad), omx) /\ HoldRight(World(bad), running)
    BY <1>2, <1>3 DEF CleanOf, Clear, HoldRight
  <2>2. Clear(r.w, known) /\ HoldRight(r.w, running)
    BY <1>3, <2>1, HoldKept
  <2> QED
    BY <2>2 DEF CleanOf, Clear, HoldRight
<1>4. CallRight(name, bad, r, known, running')
  BY <1>1, <1>3 DEF CallRight
<1> QED
  BY <1>4, CallKeeps DEF SettingsInv

(* update_profile_level reports the profile of venc_dev, which is the      *)
(* driver's.                                                               *)
LEMMA LevelShown ==
  ASSUME NEW known \in Omxs, NEW w \in Worlds
  PROVE  LET k == update_profile_level(known, w)
         IN /\ k \in Omxs /\ k.in = known.in /\ k.out = known.out
            /\ Agree(w) /\ w.dev.pset => k.profile = w.drv.profile
<1> DEFINE shown == IF w.dev.level = "6" THEN "5" ELSE w.dev.level
           k == [known EXCEPT !.profile = w.dev.profile, !.level = shown]
<1>1. update_profile_level(known, w) = k
  BY DEF update_profile_level, venc_get_profile_level
<1>2. w.dev.profile \in Words /\ w.dev.level \in Words /\ "5" \in Words
  <2>1. "5" \in KnownLevels("MPEG4")
    BY DEF KnownLevels
  <2>2. "5" \in Words
    BY <2>1 DEF Words
  <2> HIDE DEF Words
  <2> QED
    BY <2>2 DEF Worlds, Devs
<1> HIDE DEF Words
<1>3. shown \in Words
  BY <1>2
<1> HIDE DEF shown
<1>4. k \in Omxs /\ k.in = known.in /\ k.out = known.out /\ k.profile = w.dev.profile
  BY <1>2, <1>3 DEF Omxs
<1> QED
  BY <1>1, <1>4 DEF Agree, ButSize, SizeTold

(* set_parameter of the output port's definition.                          *)
LEMMA OutCall ==
  ASSUME SettingsInv, NEW bitrate \in Rates, NEW count \in Values, NEW bad \in Nat,
         set_PortDefinition_Out([omx.out EXCEPT !.bitrate = bitrate, !.count = count], bad)
  PROVE  SettingsInv'
<1> DEFINE w == World(bad)
           d == [omx.out EXCEPT !.bitrate = bitrate, !.count = count]
           r == PortDefinitionOut(w, d)
           k == [omx EXCEPT !.out = d, !.cfgFps = d.fps, !.cfgBitrate = d.bitrate,
                            !.paramBitrate = d.bitrate]
           known == IF ~r.ok THEN omx ELSE update_profile_level(k, r.w)
<1>1. Call("level", bad, r, known) /\ running' = running
  BY DEF set_PortDefinition_Out
<1>2. w \in Worlds /\ Agree(w) /\ w.bad = bad
  BY WorldOf
<1>3. omx \in Omxs
  BY DEF SettingsInv
<1> HIDE DEF Values
<1>4. d \in OutDefs /\ d.bitrate = bitrate /\ d.count = count /\ d.size = omx.out.size
  BY <1>3 DEF Omxs, OutDefs
<1>5. /\ Fine(w, r) /\ Chosen(w, r.w)
      /\ r.ok => /\ r.w.drv.bitrate = d.bitrate /\ r.w.drv.out = d.count
                 /\ r.w.dev.size = w.dev.size /\ r.w.drv.size = w.drv.size
                 /\ r.w.dev.lset => Covered(r.w)
  BY <1>2, <1>4, OutDefinition
<1> HIDE DEF d, r
<1>6. k \in Omxs /\ k.in = omx.in /\ k.out = d
  BY <1>3, <1>4 DEF Omxs, OutDefs
<1> HIDE DEF k
<1>7. r.w \in Worlds /\ Agree(r.w)
  BY <1>5, FineWorld
<1>8. /\ known \in Omxs
      /\ r.ok => known.in = omx.in /\ known.out = d
      /\ r.ok /\ r.w.dev.pset => known.profile = r.w.drv.profile
  BY <1>3, <1>6, <1>7, LevelShown
<1> HIDE DEF known
<1>9. Clear(w, omx) /\ r.ok => Clear(r.w, known)
  BY <1>4, <1>5, <1>8 DEF Clear, Chosen
<1> HIDE DEF w
<1> QED
  BY <1>1, <1>5, <1>8, <1>9, FineCall DEF w

(* set_parameter of the input port's format.                               *)
LEMMA FormatCall ==
  ASSUME SettingsInv, NEW opaque \in BOOLEAN, NEW loads \in BOOLEAN, NEW bad \in Nat,
         set_PortFormat_In(opaque, loads, bad)
  PROVE  SettingsInv'
<1> DEFINE w == World(bad)
           r == venc_set_color_format(w)
           known == update_profile_level(omx, r.w)
           init == C2dInit(known, loads)
           k1 == [known EXCEPT !.proxy = FALSE, !.opaque = FALSE]
           k2 == [known EXCEPT !.library = init.library, !.proxy = init.ok, !.opaque = @ \/ init.ok]
           s == [r EXCEPT !.ok = init.ok]
<1>1. /\ \/ ~r.ok /\ Call("other", bad, r, omx)
         \/ r.ok /\ Call("other", bad, r, k1)
         \/ r.ok /\ Call("other", bad, r, known)
         \/ r.ok /\ Call("other", bad, s, k2)
      /\ running' = running
  BY DEF set_PortFormat_In
<1>2. w \in Worlds /\ Agree(w) /\ omx \in Omxs
  BY WorldOf DEF SettingsInv
<1>3. /\ Fine(w, r) /\ Chosen(w, r.w)
      /\ r.w.dev = w.dev /\ r.w.drv.out = w.drv.out
      /\ w.drv.size = w.dev.size => r.w.drv.size = w.dev.size
  BY <1>2, BaseFine DEF venc_set_color_format, Agree
<1> HIDE DEF r
<1>4. r \in Outcomes /\ r.w \in Worlds /\ Agree(r.w)
  BY <1>3, FineWorld DEF Fine
<1>5. /\ known \in Omxs /\ known.in = omx.in /\ known.out = omx.out
      /\ r.w.dev.pset => known.profile = r.w.drv.profile
  BY <1>2, <1>4, LevelShown
<1> HIDE DEF known
<1>6. init.ok \in BOOLEAN /\ init.library \in BOOLEAN
  BY <1>5 DEF C2dInit, Omxs
<1> HIDE DEF init
<1>7. /\ k1 \in Omxs /\ k1.in = known.in /\ k1.out = known.out /\ k1.profile = known.profile
      /\ k2 \in Omxs /\ k2.in = known.in /\ k2.out = known.out /\ k2.profile = known.profile
  BY <1>5, <1>6 DEF Omxs
<1>8. s \in Outcomes /\ s.w = r.w /\ Fine(w, s)
  BY <1>3, <1>4, <1>6 DEF Outcomes, Fine
<1> HIDE DEF k1, k2, s
<1>9. r.w.drv.bitrate = w.drv.bitrate
  BY <1>2, <1>3, <1>4 DEF Agree, ButSize, SizeTold
<1>10. ASSUME NEW k, k.in = omx.in, k.out = omx.out, r.w.dev.pset => k.profile = r.w.drv.profile,
              Clear(w, omx)
       PROVE  Clear(r.w, k)
  BY <1>3, <1>9, <1>10 DEF Clear, Chosen
<1>11. Clear(w, omx) => Clear(r.w, known) /\ Clear(r.w, k1) /\ Clear(s.w, k2)
  BY <1>5, <1>7, <1>8, <1>10
<1> HIDE DEF w
<1>12. CASE ~r.ok /\ Call("other", bad, r, omx)
  BY <1>1, <1>2, <1>3, <1>12, FineCall DEF w
<1>13. CASE Call("other", bad, r, k1)
  BY <1>1, <1>3, <1>7, <1>11, <1>13, FineCall DEF w
<1>14. CASE Call("other", bad, r, known)
  BY <1>1, <1>3, <1>5, <1>11, <1>14, FineCall DEF w
<1>15. CASE Call("other", bad, s, k2)
  BY <1>1, <1>7, <1>8, <1>11, <1>15, FineCall DEF w
<1> QED
  BY <1>1, <1>12, <1>13, <1>14, <1>15

(* set_parameter of bit rate and rate control.                             *)
LEMMA BitrateCall ==
  ASSUME SettingsInv, NEW bitrate \in Rates, NEW mode \in {"VBR", "other"}, NEW bad \in Nat,
         set_Bitrate(bitrate, mode, bad)
  PROVE  SettingsInv'
<1> DEFINE w == World(bad)
           r == VideoBitrate(w, bitrate, mode)
           k == [omx EXCEPT !.paramBitrate = bitrate, !.cfgBitrate = bitrate,
                            !.in.bitrate = bitrate, !.out.bitrate = bitrate]
           known == IF ~r.ok THEN omx ELSE update_profile_level(k, r.w)
<1>1. Call("level", bad, r, known) /\ running' = running
  BY DEF set_Bitrate
<1>2. w \in Worlds /\ Agree(w) /\ omx \in Omxs
  BY WorldOf DEF SettingsInv
<1>3. /\ Fine(w, r) /\ Chosen(w, r.w) /\ Sized(r.w) = Sized(w)
      /\ r.ok => r.w.drv.bitrate = bitrate
      /\ r.ok /\ r.w.dev.lset => Covered(r.w)
  BY <1>2, VideoBitrateSet
<1> HIDE DEF r
<1>4. k \in Omxs /\ k.in.size = omx.in.size /\ k.out.bitrate = bitrate /\ k.out.count = omx.out.count
  <2> HIDE DEF Values
  <2> QED
    BY <1>2 DEF Omxs, InDefs, OutDefs
<1> HIDE DEF k
<1>5. r.w \in Worlds /\ Agree(r.w)
  BY <1>3, FineWorld
<1>6. /\ known \in Omxs
      /\ r.ok => known.in = k.in /\ known.out = k.out
      /\ r.ok /\ r.w.dev.pset => known.profile = r.w.drv.profile
  BY <1>2, <1>4, <1>5, LevelShown
<1> HIDE DEF known
<1>7. Clear(w, omx) /\ r.ok => Clear(r.w, known)
  BY <1>3, <1>4, <1>6 DEF Clear, Chosen, Sized
<1> HIDE DEF w
<1> QED
  BY <1>1, <1>3, <1>6, <1>7, FineCall DEF w

(* Profiles are names, and none of them is 0.                              *)
LEMMA ProfileWords ==
  /\ \A c \in Codecs : Profiles(c) \subseteq Words \ {None}
  /\ "unknown" \in Words \ {None}
<1>1. ASSUME NEW c \in Codecs PROVE Profiles(c) \subseteq {"SP", "ASP", "BASELINE", "MAIN", "HIGH", "H263"}
  <2>1. c \in {"MPEG4", "H263", "H264"}
    BY VencParamsAssumption
  <2>2. CASE c = "MPEG4"
    BY <2>2 DEF Profiles, Table, mpeg4_profile_level_table
  <2>3. CASE c = "H263"
    BY <2>3 DEF Profiles, Table, h263_profile_level_table
  <2>4. CASE c = "H264"
    BY <2>4 DEF Profiles, Table, h264_profile_level_table
  <2> QED
    BY <2>1, <2>2, <2>3, <2>4
<1>2. {"SP", "ASP", "BASELINE", "MAIN", "HIGH", "H263", "unknown"} \subseteq Words \ {None}
  BY DEF Words, None
<1> QED
  BY <1>1, <1>2

(* So are the levels asked for.                                            *)
LEMMA LevelWords == ASSUME dev.codec \in Codecs PROVE Levels \subseteq Words
<1>1. Levels \subseteq BasicLevels
  BY DEF Levels, Codec, BasicLevels
<1> QED
  BY <1>1 DEF Words

(* A call that asks for a profile and a level and reports them when it     *)
(* succeeds.                                                               *)
LEMMA AskedCall ==
  ASSUME SettingsInv, NEW bad \in Nat, NEW p \in Words, NEW l \in Words, NEW r,
         Profiled(World(bad), r, p), running' = running,
         Call("other", bad, r, IF r.ok THEN [omx EXCEPT !.profile = p, !.level = l] ELSE omx)
  PROVE  SettingsInv'
<1> DEFINE w == World(bad)
           k == [omx EXCEPT !.profile = p, !.level = l]
           known == IF r.ok THEN k ELSE omx
<1>1. w \in Worlds /\ Agree(w) /\ omx \in Omxs
  BY WorldOf DEF SettingsInv
<1>2. Fine(w, r) /\ Video(r.w) = Video(w) /\ (r.ok => r.w.dev.pset /\ r.w.drv.profile = p)
  BY DEF Profiled
<1> HIDE DEF Words
<1>3. k \in Omxs /\ k.in = omx.in /\ k.out = omx.out /\ k.profile = p
  BY <1>1 DEF Omxs
<1> HIDE DEF k
<1>4. r.w.drv.bitrate = w.drv.bitrate
  BY <1>1, <1>2 DEF Fine, Agree, ButSize, SizeTold, Video
<1>5. Clear(w, omx) /\ r.ok => Clear(r.w, known)
  BY <1>2, <1>3, <1>4 DEF Clear, Video
<1>6. known \in Omxs /\ Call("other", bad, r, known)
  BY <1>1, <1>3 DEF k
<1> HIDE DEF w, known
<1> QED
  BY <1>2, <1>5, <1>6, FineCall DEF w

(* set_parameter of the codec's structure.                                 *)
LEMMA CodecCall ==
  ASSUME SettingsInv, NEW bad \in Nat, NEW p \in Profiles(Codec), NEW l \in Levels,
         NEW b \in {0, 1}, NEW cabac \in BOOLEAN,
         set_Codec([profile |-> p, level |-> l, bframes |-> b, spacing |-> b, cabac |-> cabac], bad)
  PROVE  SettingsInv'
<1> DEFINE w == World(bad)
           asked == [profile |-> p, level |-> l, bframes |-> b, spacing |-> b, cabac |-> cabac]
           r == CodecParam(w, asked)
<1>1. dev.codec \in Codecs
  BY DEF SettingsInv, Devs
<1>2. p \in Words \ {None} /\ l \in Words
  BY <1>1, ProfileWords, LevelWords DEF Codec
<1> HIDE DEF Words
<1>3. asked \in CodecParams /\ asked.profile = p /\ asked.level = l
  BY <1>2 DEF CodecParams
<1>4. /\ Call("other", bad, r, IF r.ok THEN [omx EXCEPT !.profile = p, !.level = l] ELSE omx)
      /\ running' = running
  BY DEF set_Codec
<1>5. w \in Worlds /\ Agree(w)
  BY WorldOf
<1>6. Profiled(w, r, p)
  BY <1>3, <1>5, CodecParamSet
<1> HIDE DEF r
<1> QED
  BY <1>2, <1>4, <1>6, AskedCall

(* set_parameter of profile and level alone.                               *)
LEMMA ProfileLevelCall ==
  ASSUME SettingsInv, NEW bad \in Nat, NEW p \in Profiles(Codec) \union {"unknown"}, NEW l \in Levels,
         set_ProfileLevel(p, l, bad)
  PROVE  SettingsInv'
<1> DEFINE w == World(bad)
           r == NewProfile(w, p, l)
<1>1. dev.codec \in Codecs
  BY DEF SettingsInv, Devs
<1>2. p \in Words /\ p # None /\ l \in Words
  BY <1>1, ProfileWords, LevelWords DEF Codec
<1>3. /\ Call("other", bad, r, IF r.ok THEN [omx EXCEPT !.profile = p, !.level = l] ELSE omx)
      /\ running' = running
  BY DEF set_ProfileLevel
<1>4. w \in Worlds /\ Agree(w)
  BY WorldOf
<1>5. Profiled(w, r, p)
  BY <1>2, <1>4, NewProfileSet
<1> HIDE DEF r
<1> QED
  BY <1>2, <1>3, <1>5, AskedCall

(* The settings with a copy in venc_dev only.                              *)
LEMMA SettingCalls ==
  ASSUME SettingsInv, NEW bad \in Nat
  PROVE  /\ set_Quantization(bad) => SettingsInv'
         /\ \A mbs \in {0, 99} : set_IntraRefresh(mbs, bad) => SettingsInv'
         /\ \A e : set_ErrorCorrection(e, bad) => SettingsInv'
         /\ set_Setting(SliceDelivery(World(bad)), bad) => SettingsInv'
         /\ set_Setting(venc_set_flag(World(bad)), bad) => SettingsInv'
         /\ \A b \in {0, 1} : config_IntraPeriod(b, bad) => SettingsInv'
         /\ config_IntraVopRefresh(bad) => SettingsInv'
<1>1. World(bad) \in Worlds /\ Agree(World(bad))
  BY WorldOf
<1>2. ASSUME NEW r, Still(World(bad), r), set_Setting(r, bad) \/ config_Other(r, bad) PROVE SettingsInv'
  BY <1>2, StillCall DEF set_Setting, config_Other
<1> QED
  BY <1>1, <1>2, OneSetting DEF set_Quantization, set_IntraRefresh, set_ErrorCorrection,
     config_IntraPeriod, config_IntraVopRefresh

(* The check of the bit rate is switched on or off.                        *)
LEMMA CheckCall ==
  ASSUME SettingsInv, NEW on \in BOOLEAN, set_MaxAllowedBitrateCheck(on)
  PROVE  SettingsInv'
<1> DEFINE w == World(0)
           v == [w EXCEPT !.dev.check = on]
           r == Yes(v)
<1>1. Call("other", 0, r, omx) /\ running' = running
  BY DEF set_MaxAllowedBitrateCheck
<1>2. w \in Worlds /\ Agree(w) /\ omx \in Omxs /\ running \in BOOLEAN /\ (clean => CleanOf(w, omx, running))
  BY WorldOf DEF SettingsInv
<1> HIDE DEF w
<1>3. v \in Worlds
  BY <1>2 DEF Worlds, Devs
<1>4. Agree(v) /\ (CleanOf(w, omx, running) => CleanOf(v, omx, running))
  BY <1>2 DEF Worlds, Devs, Agree, ButSize, SizeTold, CleanOf, Holding
<1> HIDE DEF v
<1>5. CallRight("other", 0, r, omx, running')
  BY <1>1, <1>2, <1>3, <1>4 DEF CallRight, Yes, Outcomes
<1> QED
  BY <1>1, <1>2, <1>5, CallKeeps

(* A port is enabled or disabled.                                          *)
LEMMA PortCall ==
  ASSUME SettingsInv, NEW off, PortCommand(off)
  PROVE  SettingsInv'
<1>1. Call("other", 0, Yes(World(0)), omx) /\ running' = running
  BY DEF PortCommand
<1>2. Still(World(0), Yes(World(0)))
  BY WorldOf, YesNo
<1> QED
  BY <1>1, <1>2, StillCall

(* A call that leaves the stream alone and then reads the output port from *)
(* the driver.                                                             *)
LEMMA RefreshCall ==
  ASSUME SettingsInv, NEW bad \in Nat, NEW r, Still(World(bad), r), r.ok, NEW knew \in Omxs,
         knew.in = omx.in, knew.out = omx.out, knew.profile = omx.profile,
         Call("other", bad, Refreshed(r, knew).r, Refreshed(r, knew).known), running' = running
  PROVE  SettingsInv'
<1> DEFINE w == World(bad)
           f == Refreshed(r, knew)
           o == f.r
           known == f.known
<1>1. w \in Worlds /\ Agree(w) /\ w.bad = bad
  BY WorldOf
<1>2. r \in Outcomes /\ r.w \in Worlds /\ Agree(r.w) /\ Fine(w, r) /\ Chosen(w, r.w) /\ Video(r.w) = Video(w)
  BY FineWorld DEF Still, Fine
<1>3. /\ o \in Outcomes /\ SparesLevel(r.w, o) /\ o.w.drv.out = r.w.drv.out
      /\ known \in Omxs /\ known.in = omx.in /\ known.profile = omx.profile
      /\ known.out.bitrate = omx.out.bitrate
      /\ r.w.bad = 0 => known.out.count = r.w.drv.out
  BY <1>2, RefreshedRight
<1>4. Call("other", bad, o, known)
  OBVIOUS
<1> HIDE DEF o, known
<1>5. Fine(r.w, o) /\ Chosen(r.w, o.w) /\ o.w.drv.size = r.w.drv.size
      /\ o.w.dev.size = r.w.dev.size /\ o.w.drv.bitrate = r.w.drv.bitrate
  BY <1>3 DEF SparesLevel, SameLevel, SameFor
<1>6. Fine(w, o) /\ Chosen(w, o.w)
  BY <1>2, <1>5, FineThrough
<1>7. r.w.drv.bitrate = w.drv.bitrate
  BY <1>1, StillBitrate
<1>8. ASSUME Clear(w, omx), bad = 0 PROVE Clear(o.w, known)
  <2>1. r.w.bad = 0
    BY <1>1, <1>2, <1>8 DEF Fine
  <2> QED
    BY <1>2, <1>3, <1>5, <1>6, <1>7, <1>8, <2>1 DEF Clear, Chosen, Video
<1> HIDE DEF w
<1> QED
  BY <1>3, <1>4, <1>6, <1>8, FineCall DEF w

(* The metadata mode, which sets the input port's definition again.        *)
LEMMA MetaCall ==
  ASSUME SettingsInv, NEW on \in BOOLEAN, NEW bad \in Nat, set_MetaBufferMode(on, bad)
  PROVE  SettingsInv'
<1> DEFINE w == World(bad)
           mode == venc_set_meta_mode(w)
           d == [omx.in EXCEPT !.count = 4]
           known == [omx EXCEPT !.meta = on]
           s == PortDefinitionIn(mode.w, d)
           r == IF mode.ok THEN s ELSE mode
           k == [known EXCEPT !.in = d]
           f == Refreshed(mode, known)
<1>1. /\ running' = running
      /\ IF ~mode.ok THEN Call("other", bad, mode, omx)
         ELSE IF on THEN Call("other", bad, r, k)
         ELSE Call("other", bad, f.r, f.known)
  BY DEF set_MetaBufferMode, Then
<1>2. w \in Worlds /\ Agree(w) /\ omx \in Omxs
  BY WorldOf DEF SettingsInv
<1>3. Still(w, mode)
  BY <1>2, OneSetting
<1> HIDE DEF mode
<1>4. 4 \in Values
  BY SomeValues
<1> HIDE DEF Values
<1>5. d \in InDefs /\ d.size = omx.in.size
  BY <1>2, <1>4 DEF Omxs, InDefs
<1>6. known \in Omxs /\ known.in = omx.in /\ known.out = omx.out /\ known.profile = omx.profile
  BY <1>2 DEF Omxs
<1> HIDE DEF d, known
<1>7. k \in Omxs /\ k.in = d /\ k.out = omx.out /\ k.profile = omx.profile
  BY <1>5, <1>6 DEF Omxs
<1> HIDE DEF k
<1>8. CASE ~mode.ok
  BY <1>1, <1>3, <1>8, StillCall
<1>9. CASE mode.ok /\ on
  <2>1. mode.w \in Worlds /\ Agree(mode.w) /\ Fine(w, mode) /\ Chosen(w, mode.w) /\ Video(mode.w) = Video(w)
    BY <1>3, FineWorld DEF Still
  <2>2. InDone(mode.w, s, d.size)
    BY <2>1, <1>5, InDefinition
  <2> HIDE DEF s
  <2>3. Fine(mode.w, s) /\ Chosen(mode.w, s.w)
    BY <2>2 DEF InDone
  <2>4. Fine(w, s) /\ Chosen(w, s.w)
    BY <2>1, <2>3, FineThrough
  <2>5. mode.w.drv.bitrate = w.drv.bitrate
    BY <1>2, <1>3, StillBitrate
  <2>6. Clear(w, omx) /\ s.ok => Clear(s.w, k)
    BY <1>5, <1>7, <2>1, <2>2, <2>4, <2>5 DEF Clear, Chosen, Video, InDone
  <2>7. Call("other", bad, s, k)
    BY <1>1, <1>9
  <2> HIDE DEF w
  <2> QED
    BY <1>1, <1>7, <2>4, <2>6, <2>7, FineCall DEF w
<1>10. CASE mode.ok /\ ~on
  BY <1>1, <1>3, <1>6, <1>10, RefreshCall
<1> QED
  BY <1>8, <1>9, <1>10

(* Extra data.                                                             *)
LEMMA ExtraCall ==
  ASSUME SettingsInv, NEW on \in BOOLEAN, NEW bad \in Nat, set_ExtraData(on, bad)
  PROVE  SettingsInv'
<1> DEFINE w == World(bad)
           r == venc_set_flag(w)
           known == [omx EXCEPT !.extra = on]
           f == Refreshed(r, known)
<1>1. /\ running' = running
      /\ IF r.ok THEN Call("other", bad, f.r, f.known) ELSE Call("other", bad, r, known)
  BY DEF set_ExtraData
<1>2. w \in Worlds /\ Agree(w) /\ omx \in Omxs
  BY WorldOf DEF SettingsInv
<1>3. Still(w, r)
  BY <1>2, OneSetting
<1> HIDE DEF r
<1>4. known \in Omxs /\ known.in = omx.in /\ known.out = omx.out /\ known.profile = omx.profile
  BY <1>2 DEF Omxs
<1> HIDE DEF known
<1>5. CASE r.ok
  BY <1>1, <1>3, <1>4, <1>5, RefreshCall
<1>6. CASE ~r.ok
  <2>1. Fine(w, r)
    BY <1>3 DEF Still
  <2> HIDE DEF w
  <2> QED
    BY <1>1, <1>4, <1>6, <2>1, FineCall DEF w
<1> QED
  BY <1>5, <1>6

(* get_parameter of the output port's definition.                          *)
LEMMA GetCall ==
  ASSUME SettingsInv, NEW bad \in Nat, get_PortDefinition_Out(bad)
  PROVE  SettingsInv'
<1>1. /\ Call("other", bad, Refreshed(Yes(World(bad)), omx).r, Refreshed(Yes(World(bad)), omx).known)
      /\ running' = running
  BY DEF get_PortDefinition_Out
<1>2. Still(World(bad), Yes(World(bad))) /\ Yes(World(bad)).ok
  BY WorldOf, YesNo
<1>3. omx \in Omxs
  BY DEF SettingsInv
<1> QED
  BY <1>1, <1>2, <1>3, RefreshCall

(* set_config of the bit rate.                                             *)
LEMMA ConfigBitrateCall ==
  ASSUME SettingsInv, NEW bitrate \in Rates, NEW bad \in Nat, config_Bitrate(bitrate, bad)
  PROVE  SettingsInv'
<1> DEFINE w == World(bad)
           r == ConfigBitrate(w, bitrate)
           k == [omx EXCEPT !.cfgBitrate = bitrate, !.paramBitrate = bitrate, !.out.bitrate = bitrate]
           known == IF r.ok THEN k ELSE omx
<1>1. Call("other", bad, r, known) /\ running' = running
  BY DEF config_Bitrate
<1>2. w \in Worlds /\ Agree(w) /\ omx \in Omxs
  BY WorldOf DEF SettingsInv
<1>3. /\ Fine(w, r) /\ Chosen(w, r.w) /\ Sized(r.w) = Sized(w)
      /\ r.ok => r.w.drv.bitrate = bitrate
  BY <1>2, ConfigBitrateSet
<1> HIDE DEF r, Values
<1>4. k \in Omxs /\ k.in = omx.in /\ k.out.bitrate = bitrate /\ k.out.count = omx.out.count
      /\ k.profile = omx.profile
  BY <1>2 DEF Omxs, OutDefs
<1> HIDE DEF k
<1>5. Clear(w, omx) /\ r.ok => Clear(r.w, known)
  BY <1>3, <1>4 DEF Clear, Chosen, Sized
<1>6. known \in Omxs
  BY <1>2, <1>4
<1> HIDE DEF w, known
<1> QED
  BY <1>1, <1>3, <1>5, <1>6, FineCall DEF w

(* set_config of the frame rate.                                           *)
LEMMA ConfigFramerateCall ==
  ASSUME SettingsInv, NEW fps \in Q16s, NEW bad \in Nat, config_Framerate(fps, bad)
  PROVE  SettingsInv'
<1> DEFINE w == World(bad)
           r == venc_set_encode_framerate(w, fps, TRUE)
           k == [omx EXCEPT !.cfgFps = fps, !.out.fps = fps]
           known == IF r.ok THEN k ELSE omx
<1>1. Call("other", bad, r, known) /\ running' = running
  BY DEF config_Framerate
<1>2. w \in Worlds /\ Agree(w) /\ omx \in Omxs
  BY WorldOf DEF SettingsInv
<1>3. /\ Fine(w, r) /\ Chosen(w, r.w) /\ Sized(r.w) = Sized(w) /\ r.w.drv.bitrate = w.drv.bitrate
  BY <1>2, FramerateSet
<1> HIDE DEF r, Values
<1>4. k \in Omxs /\ k.in = omx.in /\ k.out.bitrate = omx.out.bitrate /\ k.out.count = omx.out.count
      /\ k.profile = omx.profile
  BY <1>2 DEF Omxs, OutDefs
<1> HIDE DEF k
<1>5. Clear(w, omx) /\ r.ok => Clear(r.w, known)
  BY <1>3, <1>4 DEF Clear, Chosen, Sized
<1>6. known \in Omxs
  BY <1>2, <1>4
<1> HIDE DEF w, known
<1> QED
  BY <1>1, <1>3, <1>5, <1>6, FineCall DEF w

(* set_config of the rotation: the component swaps the sizes it reports    *)
(* when the driver's are swapped.                                          *)
LEMMA RotateCall ==
  ASSUME SettingsInv, NEW degrees \in {0, 90, 180}, NEW bad \in Nat, config_Rotate(degrees, bad)
  PROVE  SettingsInv'
<1> DEFINE w == World(bad)
           turn == (degrees - omx.rotation) \in {90, -90, 270, -270}
           c == CommonRotate(w)
           turned == [omx EXCEPT !.rotation = degrees, !.in.size = Swap(@),
                                 !.out.size = Swap(omx.in.size)]
           same == [omx EXCEPT !.rotation = degrees]
<1>1. /\ running' = running
      /\ \/ turn /\ Call("other", bad, c, IF c.ok THEN turned ELSE omx)
         \/ ~turn /\ Call("other", bad, Yes(w), same)
  BY DEF config_Rotate, Yes
<1> HIDE DEF turn
<1>2. w \in Worlds /\ Agree(w) /\ omx \in Omxs
  BY WorldOf DEF SettingsInv
<1>3. /\ Fine(w, c) /\ Chosen(w, c.w)
      /\ c.ok => c.w.drv.size = Swap(w.dev.size) /\ c.w.dev.size = Swap(w.dev.size)
      /\ c.w.drv.out = w.drv.out /\ c.w.drv.bitrate = w.drv.bitrate
  BY <1>2, RotateBase
<1> HIDE DEF c, Values
<1>4. omx.in.size \in Sizes /\ Swap(omx.in.size) \in Sizes
  BY <1>2, SwapSize DEF Omxs, InDefs
<1> DEFINE z == Swap(omx.in.size)
<1> HIDE DEF Sizes, z
<1>5. turned = [omx EXCEPT !.rotation = degrees, !.in.size = z, !.out.size = z]
  BY DEF z
<1> HIDE DEF turned
<1>6. z \in Sizes
  BY <1>4 DEF z
<1>7. turned \in Omxs /\ turned.in.size = z /\ turned.out.bitrate = omx.out.bitrate
      /\ turned.out.count = omx.out.count /\ turned.profile = omx.profile
  <2> DEFINE i == [omx.in EXCEPT !.size = z]
             o == [omx.out EXCEPT !.size = z]
  <2>1. omx.in \in InDefs /\ omx.out \in OutDefs
    BY <1>2 DEF Omxs
  <2>2. i \in InDefs /\ i.size = z
    BY <1>6, <2>1 DEF InDefs
  <2>3. o \in OutDefs /\ o.bitrate = omx.out.bitrate /\ o.count = omx.out.count
    BY <1>6, <2>1 DEF OutDefs
  <2>4. turned = [omx EXCEPT !.rotation = degrees, !.in = i, !.out = o]
    BY <1>2, <1>5 DEF Omxs
  <2> HIDE DEF i, o
  <2>5. turned.in = i /\ turned.out = o /\ turned.profile = omx.profile
    BY <1>2, <2>4 DEF Omxs
  <2>6. degrees \in Int
    OBVIOUS
  <2> HIDE DEF InDefs, OutDefs, Words
  <2>7. turned \in Omxs
    BY <1>2, <2>2, <2>3, <2>4, <2>6 DEF Omxs
  <2> QED
    BY <2>2, <2>3, <2>5, <2>7
<1>8. same \in Omxs /\ same.in = omx.in /\ same.out = omx.out /\ same.profile = omx.profile
  BY <1>2 DEF Omxs
<1> HIDE DEF same
<1>9. CASE turn /\ Call("other", bad, c, IF c.ok THEN turned ELSE omx)
  <2> DEFINE known == IF c.ok THEN turned ELSE omx
  <2>1. known \in Omxs /\ Call("other", bad, c, known)
    BY <1>2, <1>7, <1>9
  <2>2. Clear(w, omx) /\ c.ok => Clear(c.w, known)
    BY <1>3, <1>7 DEF Clear, Chosen, z
  <2> HIDE DEF w, known
  <2> QED
    BY <1>1, <1>3, <2>1, <2>2, FineCall DEF w
<1>10. CASE ~turn /\ Call("other", bad, Yes(w), same)
  <2>1. Fine(w, Yes(w)) /\ Yes(w).w = w
    BY <1>2, YesNo DEF Still
  <2>2. Clear(w, omx) => Clear(Yes(w).w, same)
    BY <1>8, <2>1 DEF Clear
  <2> HIDE DEF w
  <2> QED
    BY <1>1, <1>8, <1>10, <2>1, <2>2, FineCall DEF w
<1> QED
  BY <1>1, <1>9, <1>10

(* Starting and stopping leave the agreement but for the buffers.          *)
LEMMA RanClear ==
  ASSUME NEW w \in Worlds, Agree(w), NEW r, RanFrom(w, r), Clear(w, omx)
  PROVE  Clear(r.w, omx)
<1>1. r.w.drv.bitrate = w.drv.bitrate /\ r.w.drv.profile = w.drv.profile /\ r.w.dev.pset
  BY DEF RanFrom, Agree, ButSize, SizeTold, Video, Chosen, Clear
<1> QED
  BY <1>1 DEF RanFrom, Video, Clear

(* Idle to Executing.                                                      *)
LEMMA StartCall ==
  ASSUME SettingsInv, NEW garbage, NEW bad \in Nat, dev_start(garbage, bad)
  PROVE  SettingsInv'
<1> DEFINE w == World(bad)
           r == venc_start(w, garbage)
<1>1. ~running /\ Call("other", bad, r, omx) /\ running' = r.ok
  BY DEF dev_start
<1>2. w \in Worlds /\ Agree(w) /\ w.bad = bad /\ (clean => CleanOf(w, omx, running)) /\ omx \in Omxs
  BY WorldOf DEF SettingsInv
<1>3. /\ RanFrom(w, r)
      /\ w.bad = 0 /\ Holding(w, 0) /\ r.ok => Holding(r.w, r.w.dev.reconCount)
  BY <1>2, DriverStarts
<1> HIDE DEF r, w
<1>4. r \in Outcomes /\ Agree(r.w) /\ r.ok \in BOOLEAN
  BY <1>3 DEF RanFrom, Outcomes
<1>5. ASSUME clean, r.ok, bad = 0 PROVE CleanOf(r.w, omx, running')
  <2>1. Clear(w, omx) /\ Holding(w, 0)
    BY <1>1, <1>2, <1>5 DEF CleanOf, Clear
  <2>2. Clear(r.w, omx)
    BY <1>2, <1>3, <2>1, RanClear
  <2>3. Holding(r.w, r.w.dev.reconCount)
    BY <1>2, <1>3, <1>5, <2>1
  <2> QED
    BY <1>1, <1>5, <2>2, <2>3 DEF CleanOf, Clear
<1>6. CallRight("other", bad, r, omx, running')
  BY <1>2, <1>4, <1>5 DEF CallRight
<1> QED
  BY <1>1, <1>4, <1>6, CallKeeps

(* And back.                                                               *)
LEMMA StopCall ==
  ASSUME SettingsInv, NEW bad \in Nat, dev_stop(bad)
  PROVE  SettingsInv'
<1> DEFINE w == World(bad)
           r == venc_stop(w)
<1>1. running /\ Call("other", bad, r, omx) /\ running' = ~r.ok
  BY DEF dev_stop
<1>2. w \in Worlds /\ Agree(w) /\ w.bad = bad /\ (clean => CleanOf(w, omx, running)) /\ omx \in Omxs
  BY WorldOf DEF SettingsInv
<1>3. /\ RanFrom(w, r)
      /\ w.bad = 0 /\ Holding(w, w.dev.reconCount) => Holding(r.w, 0)
  BY <1>2, DriverStops
<1> HIDE DEF r, w
<1>4. r \in Outcomes /\ Agree(r.w) /\ r.ok \in BOOLEAN
  BY <1>3 DEF RanFrom, Outcomes
<1>5. ASSUME clean, r.ok, bad = 0 PROVE CleanOf(r.w, omx, running')
  <2>1. Clear(w, omx) /\ Holding(w, w.dev.reconCount)
    BY <1>1, <1>2, <1>5 DEF CleanOf, Clear
  <2>2. Clear(r.w, omx)
    BY <1>2, <1>3, <2>1, RanClear
  <2>3. Holding(r.w, 0)
    BY <1>2, <1>3, <1>5, <2>1
  <2> QED
    BY <1>1, <1>5, <2>2, <2>3 DEF CleanOf, Clear
<1>6. CallRight("other", bad, r, omx, running')
  BY <1>2, <1>4, <1>5 DEF CallRight
<1> QED
  BY <1>1, <1>4, <1>6, CallKeeps

(* Every call of a session of settings keeps the invariant.                *)
LEMMA SettingsKept ==
  ASSUME SettingsInv, Settings
  PROVE  SettingsInv'
<1>1. PICK bad \in Faults :
    \/ \E size \in Frames, fps \in FrameRates, count \in Counts, opaque, loads \in BOOLEAN :
         /\ (loads \/ opaque)
         /\ set_PortDefinition_In([size |-> size, count |-> count, bitrate |-> omx.in.bitrate,
                                   fps |-> fps], opaque, loads, bad)
    \/ \E bitrate \in Bitrates, count \in Counts :
         set_PortDefinition_Out([omx.out EXCEPT !.bitrate = bitrate, !.count = count], bad)
    \/ \E opaque, loads \in BOOLEAN : (loads \/ opaque) /\ set_PortFormat_In(opaque, loads, bad)
    \/ \E bitrate \in Bitrates, mode \in {"VBR", "other"} : set_Bitrate(bitrate, mode, bad)
    \/ \E p \in Profiles(Codec), l \in Levels, b \in {0, 1}, cabac \in BOOLEAN :
         set_Codec([profile |-> p, level |-> l, bframes |-> b, spacing |-> b, cabac |-> cabac], bad)
    \/ \E p \in Profiles(Codec) \union {"unknown"}, l \in Levels : set_ProfileLevel(p, l, bad)
    \/ set_Quantization(bad)
    \/ \E mbs \in {0, 99} : set_IntraRefresh(mbs, bad)
    \/ \E rvlc, partition, resync \in BOOLEAN :
         set_ErrorCorrection([rvlc |-> rvlc, partition |-> partition, resync |-> resync], bad)
    \/ set_Setting(SliceDelivery(World(bad)), bad)
    \/ set_Setting(venc_set_flag(World(bad)), bad)
    \/ \E on \in BOOLEAN : set_MetaBufferMode(on, bad) \/ set_ExtraData(on, bad)
    \/ \E bitrate \in Bitrates : config_Bitrate(bitrate, bad)
    \/ \E fps \in FrameRates : config_Framerate(fps, bad)
    \/ \E b \in {0, 1} : config_IntraPeriod(b, bad)
    \/ config_IntraVopRefresh(bad)
    \/ \E degrees \in {0, 90, 180} : config_Rotate(degrees, bad)
    \/ get_PortDefinition_Out(bad)
    \/ \E garbage \in Garbage : dev_start(garbage, bad)
    \/ dev_stop(bad)
    \/ \E on \in BOOLEAN : bad = 0 /\ (set_MaxAllowedBitrateCheck(on) \/ PortCommand(on))
  BY DEF Settings
<1>2. bad \in Nat
  BY VencParamsAssumption DEF Faults
<1>3. Bitrates \subseteq Rates /\ Counts \subseteq Values /\ FrameRates \subseteq Q16s
      /\ Frames \subseteq Sizes
  BY DEF Rates, Q16s, Sizes, Values
<1>4. omx.in.bitrate \in Rates
  BY DEF SettingsInv, Omxs, InDefs
<1> HIDE DEF Rates, Q16s, Sizes, Values
<1>5. ASSUME NEW size \in Frames, NEW fps \in FrameRates, NEW count \in Counts,
             NEW opaque \in BOOLEAN, NEW loads \in BOOLEAN,
             set_PortDefinition_In([size |-> size, count |-> count, bitrate |-> omx.in.bitrate,
                                    fps |-> fps], opaque, loads, bad)
      PROVE  SettingsInv'
  <2>1. [size |-> size, count |-> count, bitrate |-> omx.in.bitrate, fps |-> fps] \in InDefs
    BY <1>3, <1>4 DEF InDefs
  <2> QED
    BY <1>2, <1>5, <2>1, InCall
<1>6. ASSUME NEW bitrate \in Bitrates, NEW count \in Counts,
             set_PortDefinition_Out([omx.out EXCEPT !.bitrate = bitrate, !.count = count], bad)
      PROVE  SettingsInv'
  BY <1>2, <1>3, <1>6, OutCall
<1>7. ASSUME NEW opaque \in BOOLEAN, NEW loads \in BOOLEAN, set_PortFormat_In(opaque, loads, bad)
      PROVE  SettingsInv'
  BY <1>2, <1>7, FormatCall
<1>8. ASSUME NEW bitrate \in Bitrates, NEW mode \in {"VBR", "other"}, set_Bitrate(bitrate, mode, bad)
      PROVE  SettingsInv'
  BY <1>2, <1>3, <1>8, BitrateCall
<1>9. ASSUME NEW p \in Profiles(Codec), NEW l \in Levels, NEW b \in {0, 1}, NEW cabac \in BOOLEAN,
             set_Codec([profile |-> p, level |-> l, bframes |-> b, spacing |-> b, cabac |-> cabac], bad)
      PROVE  SettingsInv'
  BY <1>2, <1>9, CodecCall
<1>10. ASSUME NEW p \in Profiles(Codec) \union {"unknown"}, NEW l \in Levels, set_ProfileLevel(p, l, bad)
       PROVE  SettingsInv'
  BY <1>2, <1>10, ProfileLevelCall
<1>11. /\ set_Quantization(bad) => SettingsInv'
       /\ \A mbs \in {0, 99} : set_IntraRefresh(mbs, bad) => SettingsInv'
       /\ \A e : set_ErrorCorrection(e, bad) => SettingsInv'
       /\ set_Setting(SliceDelivery(World(bad)), bad) => SettingsInv'
       /\ set_Setting(venc_set_flag(World(bad)), bad) => SettingsInv'
       /\ \A b \in {0, 1} : config_IntraPeriod(b, bad) => SettingsInv'
       /\ config_IntraVopRefresh(bad) => SettingsInv'
  BY <1>2, SettingCalls
<1>12. ASSUME NEW on \in BOOLEAN, set_MetaBufferMode(on, bad) PROVE SettingsInv'
  BY <1>2, <1>12, MetaCall
<1>13. ASSUME NEW on \in BOOLEAN, set_ExtraData(on, bad) PROVE SettingsInv'
  BY <1>2, <1>13, ExtraCall
<1>14. ASSUME NEW bitrate \in Bitrates, config_Bitrate(bitrate, bad) PROVE SettingsInv'
  BY <1>2, <1>3, <1>14, ConfigBitrateCall
<1>15. ASSUME NEW fps \in FrameRates, config_Framerate(fps, bad) PROVE SettingsInv'
  BY <1>2, <1>3, <1>15, ConfigFramerateCall
<1>16. ASSUME NEW degrees \in {0, 90, 180}, config_Rotate(degrees, bad) PROVE SettingsInv'
  BY <1>2, <1>16, RotateCall
<1>17. get_PortDefinition_Out(bad) => SettingsInv'
  BY <1>2, GetCall
<1>18. ASSUME NEW garbage, dev_start(garbage, bad) PROVE SettingsInv'
  BY <1>2, <1>18, StartCall
<1>19. dev_stop(bad) => SettingsInv'
  BY <1>2, StopCall
<1>20. ASSUME NEW on \in BOOLEAN, set_MaxAllowedBitrateCheck(on) PROVE SettingsInv'
  BY <1>20, CheckCall
<1>21. ASSUME NEW on \in BOOLEAN, PortCommand(on) PROVE SettingsInv'
  BY <1>21, PortCall
<1> QED
  BY <1>1, <1>5, <1>6, <1>7, <1>8, <1>9, <1>10, <1>11, <1>12, <1>13, <1>14, <1>15, <1>16, <1>17,
     <1>18, <1>19, <1>20, <1>21

(***************************************************************************)
(* The first settings, and the theorems.                                   *)
(***************************************************************************)

(* The first frame rate.                                                   *)
Thirty == [num |-> 30, shift |-> 0]

(* QCIF at that rate, in macroblocks.                                      *)
LEMMA FirstStream ==
  MbPerFrame(QCIF) = 99 /\ MbPerSec(QCIF, Thirty) = 2970
<1>1. MbPerFrame(QCIF) = 99
  <2>1. QCIF[1] = 176 /\ QCIF[2] = 144
    BY DEF QCIF
  <2> QED
    BY <2>1 DEF MbPerFrame
<1>2. 2 ^ 0 = 1
  OBVIOUS
<1>3. WideMbPerSec(QCIF, Thirty) = 2970
  <2>1. Thirty.num = 30 /\ Thirty.shift = 0
    BY DEF Thirty
  <2>2. 30 \div 1 = 30 /\ 30 % 1 = 0 /\ (99 * 0) \div 1 = 0 /\ 99 * 30 + 0 = 2970
    OBVIOUS
  <2> QED
    BY <1>1, <1>2, <2>1, <2>2 DEF WideMbPerSec
<1> QED
  BY <1>1, <1>3 DEF MbPerSec, Thirty

(* What the first level is chosen for.                                     *)
FirstSettings(d, codec) ==
  d.codec = codec /\ d.size = QCIF /\ d.fps = Thirty /\ d.rate = 64000

(* There is a level for it in each codec's first table, and the switch     *)
(* knows it.                                                               *)
LEMMA FirstLevel ==
  ASSUME NEW codec \in Codecs, NEW d, FirstSettings(d, codec)
  PROVE  LET q == DefaultProfile(codec)
             table == Table(codec)[q]
             found == Covering(table, d)
         IN q \in DOMAIN Table(codec) /\ found # {} /\ table[First(found)][4] \in KnownLevels(codec)
<1> DEFINE q == DefaultProfile(codec)
           table == Table(codec)[q]
           found == Covering(table, d)
<1>1. found = {i \in DOMAIN table : 99 <= table[i][1] /\ 2970 <= table[i][2] /\ 64000 <= table[i][3]}
  BY FirstStream DEF Covering, FirstSettings
<1>2. ASSUME NEW k \in Nat, k \in found, \A i \in found : k <= i, \A i \in found : i \in Nat
      PROVE  First(found) = k
  <2> HIDE DEF found
  <2>1. ASSUME NEW x \in found, \A j \in found : x <= j PROVE x = k
    <3>1. x <= k /\ k <= x /\ x \in Nat
      BY <1>2, <2>1
    <3> QED
      BY <3>1
  <2>2. First(found) \in found /\ (\A j \in found : First(found) <= j)
    BY <1>2 DEF First
  <2> QED
    BY <2>1, <2>2
<1>3. codec \in {"MPEG4", "H263", "H264"}
  BY VencParamsAssumption
<1>4. CASE codec = "MPEG4"
  <2>1. q = "SP" /\ q \in DOMAIN Table(codec) /\ table = mpeg4_profile_level_table["SP"]
    BY <1>4 DEF DefaultProfile, Table, mpeg4_profile_level_table
  <2>2. /\ DOMAIN table = 1 .. 7
        /\ table[1][2] = 1485 /\ table[2][2] = 1485
        /\ table[3][1] = 396 /\ table[3][2] = 5940 /\ table[3][3] = 128000 /\ table[3][4] = "2"
    BY <2>1 DEF mpeg4_profile_level_table
  <2> HIDE DEF table
  <2>3. 3 \in found /\ (\A i \in found : 3 <= i /\ i \in Nat)
    BY <1>1, <2>2
  <2> HIDE DEF found
  <2>4. First(found) = 3
    BY <1>2, <2>3
  <2> QED
    BY <1>4, <2>1, <2>2, <2>3, <2>4 DEF KnownLevels, found, table
<1>5. CASE codec = "H263"
  <2>1. q = "H263" /\ q \in DOMAIN Table(codec) /\ table = h263_profile_level_table["H263"]
    BY <1>5 DEF DefaultProfile, Table, h263_profile_level_table
  <2>2. /\ DOMAIN table = 1 .. 8
        /\ table[1][2] = 1485
        /\ table[2][1] = 396 /\ table[2][2] = 5940 /\ table[2][3] = 128000 /\ table[2][4] = "20"
    BY <2>1 DEF h263_profile_level_table
  <2> HIDE DEF table
  <2>3. 2 \in found /\ (\A i \in found : 2 <= i /\ i \in Nat)
    BY <1>1, <2>2
  <2> HIDE DEF found
  <2>4. First(found) = 2
    BY <1>2, <2>3
  <2> QED
    BY <1>5, <2>1, <2>2, <2>3, <2>4 DEF KnownLevels, found, table
<1>6. CASE codec = "H264"
  <2> DEFINE rates == <<64000, 128000, 192000, 384000, 768000, 2000000, 4000000,
                        10000000, 14000000, 20000000>>
  <2>1. q = "BASELINE" /\ q \in DOMAIN Table(codec) /\ table = H264Rows(rates)
    BY <1>6 DEF DefaultProfile, Table, h264_profile_level_table
  <2>2. rates[3] = 192000
    OBVIOUS
  <2> HIDE DEF rates
  <2>3. /\ DOMAIN table = 1 .. 12
        /\ table[1][2] = 1485 /\ table[2][2] = 1485
        /\ table[3][1] = 396 /\ table[3][2] = 3000 /\ table[3][3] = rates[3] /\ table[3][4] = "11"
    BY <2>1 DEF H264Rows
  <2> HIDE DEF table
  <2>4. 3 \in found /\ (\A i \in found : 3 <= i /\ i \in Nat)
    BY <1>1, <2>2, <2>3
  <2> HIDE DEF found
  <2>5. First(found) = 3
    BY <1>2, <2>4
  <2> QED
    BY <1>6, <2>1, <2>3, <2>4, <2>5 DEF KnownLevels, found, table
<1> QED
  BY <1>3, <1>4, <1>5, <1>6

(* venc_open sets it, so profile and level are the driver's from the       *)
(* start.                                                                  *)
LEMMA Opened ==
  ASSUME NEW codec \in Codecs
  PROVE  LET v == venc_open(codec)
         IN /\ v \in Worlds /\ Agree(v) /\ CleanOf(v, component_init(codec), FALSE)
            /\ component_init(codec) \in Omxs
<1> DEFINE unset == [n \in Names |-> {}]
           level == CASE codec = "MPEG4" -> "2" [] codec = "H263" -> "20" [] codec = "H264" -> "11"
           dev0 == [codec |-> codec, size |-> QCIF, fps |-> Thirty, rate |-> 64000,
                    target |-> Unset, profile |-> DefaultProfile(codec), level |-> level,
                    pset |-> FALSE, lset |-> FALSE, eProfile |-> None, eLevel |-> None,
                    check |-> FALSE, set |-> unset, inReq |-> MinCount, outReq |-> MinCount,
                    outSize |-> QCIF, recon |-> {}, reconCount |-> MAX_RECON_BUFFERS]
           drv0 == [size |-> QCIF, fps |-> Thirty, bitrate |-> 64000, profile |-> None,
                      level |-> None, set |-> unset, in |-> MinCount, out |-> MinCount,
                      recon |-> 0, refused |-> FALSE]
           w == [dev |-> dev0, drv |-> drv0, bad |-> 0]
           r == venc_set_profile_level(w, None, None)
           known == component_init(codec)
<1>1. venc_open(codec) = r.w
  BY DEF venc_open, Thirty
<1>2. codec \in {"MPEG4", "H263", "H264"}
  BY VencParamsAssumption
<1>3. {"2", "20", "11", "0", "10", "1", "none"} \subseteq Words /\ DefaultProfile(codec) \in Words
  <2>1. "2" \in KnownLevels("MPEG4") /\ "0" \in KnownLevels("MPEG4") /\ "20" \in KnownLevels("H263")
        /\ "10" \in KnownLevels("H263") /\ "11" \in KnownLevels("H264") /\ "1" \in KnownLevels("H264")
    BY DEF KnownLevels
  <2>2. {"2", "20", "11", "0", "10", "1", "none"} \subseteq Words
    BY <2>1 DEF Words
  <2> QED
    BY <2>2, DefaultProfileWord
<1>4. level \in {"2", "20", "11"}
  BY <1>2
<1>5. {MinCount, 64000, Unset} \subseteq Values /\ Thirty \in Values /\ QCIF \in Sizes
      /\ 64000 \in Rates /\ {Fps15, 2 * Fps15} \subseteq Q16s
  BY SomeValues DEF Thirty, Sizes, Rates, Q16s
<1> HIDE DEF Words, Values, Sizes, Rates, Q16s, level
<1>6. unset \in [Names -> SUBSET Values]
  OBVIOUS
<1> HIDE DEF unset
<1>7. dev0 \in Devs
  BY <1>3, <1>4, <1>5, <1>6 DEF Devs, None, MAX_RECON_BUFFERS
<1>8. drv0 \in Drvs
  BY <1>3, <1>5, <1>6 DEF Drvs, None
<1>9. /\ dev0.codec = codec /\ dev0.size = QCIF /\ dev0.fps = Thirty /\ dev0.rate = 64000
      /\ dev0.pset = FALSE /\ dev0.lset = FALSE /\ dev0.set = unset /\ dev0.recon = {}
      /\ dev0.outReq = MinCount /\ dev0.outSize = QCIF
  OBVIOUS
<1>10. /\ drv0.size = QCIF /\ drv0.fps = Thirty /\ drv0.bitrate = 64000 /\ drv0.set = unset
       /\ drv0.out = MinCount /\ drv0.recon = 0
  OBVIOUS
<1> HIDE DEF dev0, drv0
<1>11. w \in Worlds /\ w.dev = dev0 /\ w.drv = drv0 /\ w.bad = 0
  BY <1>7, <1>8 DEF Worlds
<1> HIDE DEF w
<1>12. Agree(w)
  BY <1>9, <1>10, <1>11 DEF Agree, ButSize, SizeTold
<1> DEFINE q == DefaultProfile(codec)
           found == Covering(Table(codec)[q], w.dev)
           top == Table(codec)[q][First(found)][4]
<1>13. q \in DOMAIN Table(codec) /\ found # {} /\ top \in KnownLevels(codec)
  BY <1>9, <1>11, FirstLevel DEF FirstSettings
<1>14. ~Large(w.dev)
  BY <1>9, <1>11, FirstStream DEF Large
<1>15. ProfileFor(w, None) = q
  BY <1>9, <1>11 DEF ProfileFor
<1>16. Still(w, r) /\ r.ok /\ r.w.dev.pset /\ r.w.drv.profile = q
  <2>1. None \in Words /\ ~w.dev.lset /\ (w.dev.pset => None = None)
    BY <1>3, <1>9, <1>11 DEF None
  <2>2. /\ Still(w, r) /\ (r.ok => r.w.dev.pset /\ r.w.drv.profile = ProfileFor(w, None))
        /\ w.bad = 0 /\ None = None /\ ~Large(w.dev)
             /\ ProfileFor(w, None) \in DOMAIN Table(w.dev.codec)
             /\ Covering(Table(w.dev.codec)[ProfileFor(w, None)], w.dev) # {}
             /\ Table(w.dev.codec)[ProfileFor(w, None)]
                    [First(Covering(Table(w.dev.codec)[ProfileFor(w, None)], w.dev))][4]
                  \in KnownLevels(w.dev.codec)
             => r.ok
    BY <1>11, <1>12, <2>1, LevelSet
  <2>3. w.dev.codec = codec
    BY <1>9, <1>11
  <2> HIDE DEF r, q
  <2> QED
    BY <1>11, <1>13, <1>14, <1>15, <2>2, <2>3
<1> HIDE DEF r
<1>17. r.w \in Worlds /\ Agree(r.w) /\ Fine(w, r) /\ Video(r.w) = Video(w)
  BY <1>16, FineWorld DEF Still
<1>18. r.w.drv.bitrate = 64000
  BY <1>10, <1>11, <1>12, <1>16, StillBitrate
<1>19. Holding(w, 0)
  BY <1>9, <1>10, <1>11 DEF Holding
<1>20. Holding(r.w, 0)
  BY <1>17, <1>19, HoldingKept
<1>21. known.in.size = QCIF /\ known.out.bitrate = 64000 /\ known.out.count = MinCount
       /\ known.profile = q
  BY DEF component_init
<1>22. known \in Omxs
  <2> DEFINE first == CASE codec = "MPEG4" -> "0" [] codec = "H263" -> "10" [] codec = "H264" -> "1"
  <2>1. first \in Words
    BY <1>2, <1>3
  <2> HIDE DEF first
  <2>2. known = [in |-> [size |-> QCIF, count |-> MinCount, bitrate |-> 64000, fps |-> Fps15],
                 out |-> [size |-> QCIF, count |-> MinCount, bitrate |-> 64000, fps |-> Fps15,
                          buf |-> QCIF],
                 cfgFps |-> 2 * Fps15, cfgBitrate |-> 64000, paramBitrate |-> 64000, rotation |-> 0,
                 profile |-> q, level |-> first, proxy |-> FALSE, opaque |-> FALSE,
                 library |-> FALSE, meta |-> FALSE, extra |-> FALSE]
    BY DEF component_init, first
  <2> HIDE DEF known, q
  <2> QED
    BY <1>3, <1>5, <2>1, <2>2 DEF Omxs, InDefs, OutDefs, q
<1> HIDE DEF known
<1>23. CleanOf(r.w, known, FALSE)
  BY <1>9, <1>10, <1>11, <1>16, <1>17, <1>18, <1>20, <1>21 DEF CleanOf, Video
<1> QED
  BY <1>1, <1>17, <1>22, <1>23 DEF known

(* The invariant holds at the start.                                       *)
LEMMA SettingsInitially == ParamsInit => SettingsInv
<1> SUFFICES ASSUME ParamsInit PROVE SettingsInv
  OBVIOUS
<1>1. PICK codec \in Codecs :
        dev = venc_open(codec).dev /\ drv = venc_open(codec).drv /\ omx = component_init(codec)
  BY DEF ParamsInit
<1> DEFINE v == venc_open(codec)
<1>2. v \in Worlds /\ Agree(v) /\ CleanOf(v, omx, FALSE) /\ omx \in Omxs
  BY <1>1, Opened
<1> HIDE DEF v
<1>3. running = FALSE /\ clean = TRUE /\ fresh = FALSE
  BY DEF ParamsInit
<1>4. World(0).dev = v.dev /\ World(0).drv = v.drv
  BY <1>1 DEF World, v
<1>5. dev \in Devs /\ drv \in Drvs
  BY <1>2, <1>4 DEF World, Worlds
<1>6. Agree(World(0)) /\ CleanOf(World(0), omx, running)
  BY <1>2, <1>3, <1>4 DEF Agree, ButSize, SizeTold, CleanOf, Holding
<1> QED
  BY <1>2, <1>3, <1>5, <1>6 DEF SettingsInv

(* It is about the settings alone.                                         *)
LEMMA SettingsOnly ==
  ASSUME SettingsInv, UNCHANGED settings
  PROVE  SettingsInv'
<1>1. World(0)' = World(0)
  BY DEF settings, World
<1>2. Agree(World(0))' /\ (fresh' /\ dev'.lset => Covered(World(0))')
      /\ (clean' => CleanOf(World(0), omx, running)')
  BY DEF settings, World, SettingsInv, Agree, ButSize, SizeTold, Covered, CleanOf, Holding
<1> QED
  BY <1>2 DEF settings, SettingsInv

(* The invariant of the settings, for any calls and failures.              *)
THEOREM SettingsInvariant == ParamsSpec => []SettingsInv
<1>1. ASSUME SettingsInv, [ParamsNext]_paramsVars PROVE SettingsInv'
  <2>1. CASE Settings
    BY <1>1, <2>1, SettingsKept
  <2>2. CASE HeaderCall \/ DriverAnswers \/ LoadedDone \/ ClearPending
    <3>1. UNCHANGED settings
      BY <2>2 DEF HeaderCall, HeaderStep, VideoSyntaxHdr, venc_loaded_start, TimedWait, Woken,
                  TimedOut, venc_get_seq_hdr, venc_loaded_stop, DriverAnswers, LoadedDone,
                  ClearPending
    <3> QED
      BY <1>1, <3>1, SettingsOnly
  <2>3. CASE UNCHANGED paramsVars
    BY <1>1, <2>3, SettingsOnly DEF paramsVars
  <2> QED
    BY <1>1, <2>1, <2>2, <2>3 DEF ParamsNext
<1> QED
  BY <1>1, SettingsInitially, PTL DEF ParamsSpec

(* What venc_dev believes of the driver is true after any calls, complete  *)
(* or broken off at any ioctl, and while nothing has failed the component  *)
(* agrees as well: LayersAgree of VencParams.                              *)
THEOREM LayersStayTrue == ParamsSpec => []LayersAgree
<1>1. ASSUME SettingsInv PROVE LayersAgree
  <2>1. World(0).dev = dev /\ World(0).drv = drv
    BY DEF World
  <2>2. Agree(World(0)) /\ (clean => CleanOf(World(0), omx, running))
    BY <1>1 DEF SettingsInv
  <2>3. clean /\ ~running => drv.recon = 0
    BY <2>1, <2>2 DEF CleanOf, Holding
  <2> QED
    BY <2>1, <2>2, <2>3 DEF LayersAgree, Agree, ButSize, SizeTold, CleanOf
<1> QED
  BY <1>1, SettingsInvariant, PTL

(* A call that asks for a new level and leaves one set leaves the lowest   *)
(* that covers the stream: LevelCoversStream of VencParams.  The proof     *)
(* does not need its hypothesis NoWrap, as the table is searched with the  *)
(* same 32-bit product the property counts with; NoWrap says when that     *)
(* product is the stream's.                                                *)
THEOREM LevelsCover == ParamsSpec => []LevelCoversStream
<1>1. ASSUME SettingsInv, fresh, dev.lset PROVE LevelCovers
  <2>1. World(0).dev = dev /\ World(0).drv = drv
    BY DEF World
  <2>2. Covered(World(0))
    BY <1>1 DEF SettingsInv
  <2> QED
    BY <2>1, <2>2 DEF Covered, LevelCovers, Codec
<1>2. SettingsInv => LevelCoversStream
  BY <1>1 DEF LevelCoversStream
<1> QED
  BY <1>2, SettingsInvariant, PTL
===============================================================================
