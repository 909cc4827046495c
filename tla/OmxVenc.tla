------------------------------- MODULE OmxVenc -------------------------------
(***************************************************************************)
(* The OMX video encoder component (omx_video in omx_video_base.cpp and    *)
(* omx_venc in omx_video_encoder.cpp).                                     *)
(*                                                                         *)
(* Three threads meet here: the IL client calls the component (and blocks  *)
(* in send_command until its command was looked at), the async thread of   *)
(* the device posts what the driver reports, and the message thread takes  *)
(* one event after another from three queues, m_cmd_q before m_ftb_q       *)
(* before m_etb_q.  One event is one step; so is one client call.          *)
(*                                                                         *)
(* The driver is external: it acknowledges the commands it accepted in     *)
(* order, and returns the buffers of a port before it acknowledges a flush *)
(* of that port or a stop.  A step of the driver is the step in which the  *)
(* async thread posts its message.                                         *)
(*                                                                         *)
(* The buffers' contents, headers and memory are left out; buffer          *)
(* metadata (opaque colour formats) is the subject of VencOpaque.          *)
(***************************************************************************)
EXTENDS Integers, Sequences, FiniteSets

CONSTANTS
  InBuffers,   \* the input buffers: nBufferCountActual of m_sInPortDef
  OutBuffers,  \* the output buffers
  Scenarios    \* how client and driver behave: records, see VencAssumption

Buffers == InBuffers \cup OutBuffers
PortNames == {"IN", "OUT"}
Ports(arg) == IF arg = "ALL" THEN PortNames ELSE {arg}

States == {"Loaded", "Idle", "Executing", "Pause", "WaitForResources"}
AllCommands == [cmd : {"StateSet"}, arg : States \cup {"Invalid"}]
                 \cup [cmd : {"Flush", "PortEnable", "PortDisable"},
                       arg : PortNames \cup {"ALL"}]

(* What the two parameters of a queued event may be besides a header.      *)
Parameters ==
  States \cup PortNames
    \cup {"-", "StateSet", "Flush", "PortEnable", "PortDisable", "ALL", "Error", "Invalid",
          "Hardware", "SameState", "IncorrectStateTransition", "PortUnpopulated"}

ASSUME VencAssumption ==
  /\ IsFiniteSet(Buffers)
  /\ InBuffers # {} /\ OutBuffers # {}
  /\ InBuffers \cap OutBuffers = {}
  /\ Buffers \cap Parameters = {}
  /\ Scenarios \subseteq
       [rough : BOOLEAN,    \* the client asks for what makes no sense, and frees buffers
                            \* it should keep
        overlap : BOOLEAN,  \* it sends commands before the last one is complete
        commands : SUBSET AllCommands,  \* the commands it sends
        mayFail : SUBSET {"start", "stop", "pause", "resume", "flush", "empty", "fill",
                          "alloc"},     \* the driver calls that fail, unless it is careful
        buffers : SUBSET Buffers,  \* nBufferCountActual of the ports, as it set them
        queued : Nat \ {0},   \* bound: no call with so many events in m_cmd_q
        unacked : Nat \ {0}]  \* bound: nor with so many commands not acknowledged

(* The bits of m_flags.                                                    *)
EnablePending(port) == <<"ENABLE_PENDING", port>>
DisablePending(port) == <<"DISABLE_PENDING", port>>
FlushPending(port) == <<"FLUSH_PENDING", port>>
IdlePending == <<"IDLE_PENDING", "-">>
LoadingPending == <<"LOADING_PENDING", "-">>
ExecutePending == <<"EXECUTE_PENDING", "-">>
PausePending == <<"PAUSE_PENDING", "-">>

(* An entry of a queue; "-" is a NULL parameter.                           *)
Entry(id, p1, p2) == [id |-> id, p1 |-> p1, p2 |-> p2]
ErrorEvent(error) == Entry("EVENT", "Error", error)

VARIABLES
  m_state,         \* the component's state
  m_flags,         \* the pending bits
  m_cmd_q, m_ftb_q, m_etb_q,
  enabled,         \* bEnabled of the ports: the set of enabled ones
  populated,       \* bPopulated of the ports
  allocated,       \* the bits of m_inp_bm_count and m_out_bm_count
  leaked,          \* the ones left behind by an allocation that failed
  flushing,        \* input_flush_progress, output_flush_progress
  pending,         \* pending_input_buffers, pending_output_buffers
  m_error_propogated,
  drv_state,       \* the driver: stopped, started or paused
  drv_cmds,        \* the commands it accepted and has not acknowledged
  drv_held,        \* the buffers it holds
  waiting,         \* the client is in sem_wait(&m_cmd_lock)
  held,            \* the buffers the client holds
  owed,            \* the completions the client waits for
  cstate,          \* the component's state, as the client was told
  scenario         \* which of Scenarios this is, for good

(* A scenario that the rules for IL clients say nothing of.                *)
rough == scenario.rough \/ scenario.overlap

queues == <<m_cmd_q, m_ftb_q, m_etb_q>>
ports == <<enabled, populated, allocated, leaked>>
driver == <<drv_state, drv_cmds, drv_held>>
client == <<waiting, held, owed, cstate>>
vars == <<m_state, m_flags, queues, ports, flushing, pending, m_error_propogated,
          driver, client, scenario>>

Actual == Buffers \cap scenario.buffers
PortBuffers(port) == Actual \cap IF port = "IN" THEN InBuffers ELSE OutBuffers

Init ==
  /\ m_state = "Loaded"
  /\ m_flags = {}
  /\ m_cmd_q = <<>> /\ m_ftb_q = <<>> /\ m_etb_q = <<>>
  /\ enabled = PortNames
  /\ populated = {}
  /\ allocated = {} /\ leaked = {}
  /\ flushing = {}
  /\ pending = [port \in PortNames |-> 0]
  /\ m_error_propogated = FALSE
  /\ drv_state = "stopped"
  /\ drv_cmds = <<>>
  /\ drv_held = {}
  /\ waiting = FALSE
  /\ held = {}
  /\ owed = {}
  /\ cstate = "Loaded"
  /\ scenario \in Scenarios
-------------------------------------------------------------------------------
(* Queue contents.                                                         *)
Elements(q) == {q[i] : i \in DOMAIN q}
Submitted(q) == {q[i].p2 : i \in {j \in DOMAIN q : q[j].id \in {"ETB", "FTB"}}}
Done(q) == {q[i].p1 : i \in {j \in DOMAIN q : q[j].id \in {"EBD", "FBD"}}}
(* What stays when the entries of one kind are popped.                     *)
Others(q, id) ==
  LET kept[i \in 0 .. Len(q)] ==
        IF i = 0 THEN <<>> ELSE IF q[i].id = id THEN kept[i - 1] ELSE Append(kept[i - 1], q[i])
  IN kept[Len(q)]

(* Allocation of the ports.  With no buffer the header array is NULL: the  *)
(* port is released, and not allocated.                                    *)
PortAllocated(port, alloc) == PortBuffers(port) \subseteq alloc
PortReleased(port, alloc) == PortBuffers(port) \cap alloc = {}
allocate_done(alloc) == \A port \in PortNames : PortAllocated(port, alloc)
release_done(alloc) == \A port \in PortNames : PortReleased(port, alloc)

(* allocate_input_done and allocate_output_done also mark an enabled port  *)
(* populated when they find all of its buffers.                            *)
NowPopulated(alloc, en) ==
  populated \cup {port \in en : PortAllocated(port, alloc)}

(* The client's half of the callbacks.                                     *)
Completed(cmd, arg) == owed' = owed \ {[cmd |-> cmd, arg |-> arg]}
(* An error ends the command it is about; the client does not wait on.     *)
GiveUp == owed' = {}

(* omx_report_error tells the client once in the component's life.         *)
omx_report_error ==
  /\ m_error_propogated' = TRUE
  /\ IF m_error_propogated THEN UNCHANGED owed ELSE GiveUp

(* A driver call: it is accepted, or fails if it may.                      *)
Accept(command) ==
  /\ drv_cmds' = Append(drv_cmds, command)
  /\ UNCHANGED <<drv_state, drv_held>>
Refuse(call) == rough /\ call \in scenario.mayFail /\ UNCHANGED driver
-------------------------------------------------------------------------------
(* execute_omx_flush on a set of ports: what is queued goes back to the    *)
(* client at once, what the driver holds is flushed there.  The result of  *)
(* dev_flush is not looked at.                                             *)
DrvFlush(port) == IF port = "IN" THEN "FLUSH_IN" ELSE "FLUSH_OUT"
InOrder(P, Item(_)) ==
  (IF "IN" \in P THEN <<Item("IN")>> ELSE <<>>)
    \o (IF "OUT" \in P THEN <<Item("OUT")>> ELSE <<>>)

(* Mutant: the queued buffers are returned but stay in their queues.       *)
execute_omx_flush_KeepsQueue(P) ==
  /\ flushing' = flushing \cup P
  /\ UNCHANGED <<m_etb_q, m_ftb_q, pending, drv_state, drv_held>>
  /\ held' = held \cup (IF "IN" \in P THEN Submitted(m_etb_q) ELSE {})
                  \cup (IF "OUT" \in P THEN Submitted(m_ftb_q) ELSE {})
  /\ drv_cmds' = drv_cmds \o InOrder(P, DrvFlush)

execute_omx_flush(P) ==
  /\ flushing' = flushing \cup P
  /\ m_etb_q' = IF "IN" \in P THEN <<>> ELSE m_etb_q
  /\ m_ftb_q' = IF "OUT" \in P THEN <<>> ELSE m_ftb_q
  /\ held' = held \cup (IF "IN" \in P THEN Submitted(m_etb_q) \cup Done(m_etb_q) ELSE {})
                 \cup (IF "OUT" \in P THEN Submitted(m_ftb_q) ELSE {})
  /\ pending' = IF "IN" \in P
                   THEN [pending EXCEPT !["IN"] = @ - Cardinality(Done(m_etb_q))]
                   ELSE pending
  /\ \E F \in SUBSET P :
       /\ F = P \/ (rough /\ "flush" \in scenario.mayFail)
       /\ drv_cmds' = drv_cmds \o InOrder(F, DrvFlush)
  /\ UNCHANGED <<drv_state, drv_held>>


(* send_command_proxy: the message thread takes a COMMAND, posts events    *)
(* behind what is queued, and releases the client in every case.           *)
Proxy(cmd, arg) ==
  /\ m_cmd_q # <<>>
  /\ Head(m_cmd_q) = Entry("COMMAND", cmd, arg)
  /\ waiting' = FALSE
  /\ UNCHANGED <<m_state, allocated, leaked, cstate>>
Post(events) == m_cmd_q' = Tail(m_cmd_q) \o events
NoFlush == UNCHANGED <<m_ftb_q, m_etb_q, flushing, pending, held>>

Loaded_Idle ==
  /\ m_state = "Loaded"
  /\ Proxy("StateSet", "Idle")
  /\ populated' = NowPopulated(allocated, enabled)
  /\ IF allocate_done(allocated) \/ enabled = {}
       THEN Post(<<Entry("EVENT", "StateSet", "Idle")>>) /\ UNCHANGED m_flags
       ELSE Post(<<>>) /\ m_flags' = m_flags \cup {IdlePending}
  /\ NoFlush /\ UNCHANGED <<enabled, driver, owed, m_error_propogated>>

(* The transitions that only post their event.  From WaitForResources, a   *)
(* request for Idle falls through every test and is granted as well.       *)
Granted(eState) ==
  /\ <<m_state, eState>> \in {<<"Loaded", "WaitForResources">>,
                              <<"WaitForResources", "Loaded">>,
                              <<"WaitForResources", "Idle">>}
  /\ Proxy("StateSet", eState)
  /\ Post(<<Entry("EVENT", "StateSet", eState)>>)
  /\ NoFlush /\ UNCHANGED <<m_flags, enabled, populated, driver, owed, m_error_propogated>>

Idle_Loaded ==
  /\ m_state = "Idle"
  /\ Proxy("StateSet", "Loaded")
  /\ \/ /\ release_done(allocated)
        /\ Post(<<Entry("EVENT", "StateSet", "Loaded")>>)
        /\ Accept("STOP") /\ UNCHANGED m_flags
     \/ /\ release_done(allocated)
        /\ Post(<<>>)
        /\ Refuse("stop") /\ UNCHANGED m_flags
     \/ /\ ~ release_done(allocated)
        /\ Post(<<>>)
        /\ m_flags' = m_flags \cup {LoadingPending}
        /\ UNCHANGED driver
  /\ NoFlush /\ UNCHANGED <<enabled, populated, owed, m_error_propogated>>

(* Idle to Executing, and Idle to Pause by way of a start.                 *)
Idle_Start(eState, bit) ==
  /\ m_state = "Idle"
  /\ Proxy("StateSet", eState)
  /\ Post(<<>>)
  /\ \/ /\ Accept("START")
        /\ m_flags' = m_flags \cup {bit}
        /\ UNCHANGED <<owed, m_error_propogated>>
     \/ /\ Refuse("start")
        /\ omx_report_error
        /\ UNCHANGED m_flags
  /\ NoFlush /\ UNCHANGED <<enabled, populated>>

Executing_Idle ==
  /\ m_state \in {"Executing", "Pause"}
  /\ Proxy("StateSet", "Idle")
  /\ Post(<<>>)
  /\ m_flags' = m_flags \cup {IdlePending}
  /\ execute_omx_flush(PortNames)
  /\ UNCHANGED <<enabled, populated, owed, m_error_propogated>>

Executing_Pause ==
  /\ m_state = "Executing"
  /\ Proxy("StateSet", "Pause")
  /\ \/ Accept("PAUSE") /\ Post(<<>>) /\ m_flags' = m_flags \cup {PausePending}
     \/ Refuse("pause") /\ Post(<<ErrorEvent("Hardware")>>) /\ UNCHANGED m_flags
  /\ NoFlush /\ UNCHANGED <<enabled, populated, owed, m_error_propogated>>

(* The component itself posts the end of a resume; the driver's answer     *)
(* finds nothing pending.                                                  *)
Pause_Executing ==
  /\ m_state = "Pause"
  /\ Proxy("StateSet", "Executing")
  /\ \/ /\ Accept("RESUME")
        /\ m_flags' = m_flags \cup {ExecutePending}
        /\ Post(<<Entry("RESUME_DONE", "-", "-")>>)
     \/ Refuse("resume") /\ Post(<<ErrorEvent("Hardware")>>) /\ UNCHANGED m_flags
  /\ NoFlush /\ UNCHANGED <<enabled, populated, owed, m_error_propogated>>

Handled ==
  {<<"Loaded", "Idle">>, <<"Loaded", "WaitForResources">>, <<"Idle", "Loaded">>,
   <<"Idle", "Executing">>, <<"Idle", "Pause">>, <<"Executing", "Idle">>,
   <<"Executing", "Pause">>, <<"Pause", "Executing">>, <<"Pause", "Idle">>,
   <<"WaitForResources", "Loaded">>, <<"WaitForResources", "Idle">>}

(* Every other request is answered with an error event.                    *)
Rejected(eState) ==
  /\ <<m_state, eState>> \notin Handled
  /\ Proxy("StateSet", eState)
  /\ Post(<<ErrorEvent(IF eState = m_state THEN "SameState"
                       ELSE IF eState = "Invalid" THEN "Invalid"
                       ELSE "IncorrectStateTransition")>>)
  /\ NoFlush /\ UNCHANGED <<m_flags, enabled, populated, driver, owed, m_error_propogated>>

FlushCommand(arg) ==
  /\ Proxy("Flush", arg)
  /\ Post(<<>>)
  /\ m_flags' = m_flags \cup {FlushPending(port) : port \in Ports(arg)}
  /\ execute_omx_flush(Ports(arg))
  /\ UNCHANGED <<enabled, populated, owed, m_error_propogated>>

(* A port that need not wait gets its event; if no port of the command has *)
(* to wait, the common tail of send_command_proxy posts one more.          *)
PortEvent(cmd, port) == Entry("EVENT", cmd, port)
PortEvents(cmd, arg, now) ==
  InOrder(now, LAMBDA port : PortEvent(cmd, port))
    \o (IF now = Ports(arg) THEN <<PortEvent(cmd, arg)>> ELSE <<>>)

PortEnable(arg) ==
  LET quick == m_state = "Loaded" /\ IdlePending \notin m_flags
      now == {port \in Ports(arg) : quick \/ PortAllocated(port, allocated)}
  IN
  /\ Proxy("PortEnable", arg)
  /\ enabled' = enabled \cup Ports(arg)
  /\ populated' = IF quick THEN populated ELSE populated \cup now
  /\ Post(PortEvents("PortEnable", arg, now))
  /\ m_flags' = m_flags \cup {EnablePending(port) : port \in Ports(arg) \ now}
  /\ NoFlush /\ UNCHANGED <<driver, owed, m_error_propogated>>

PortDisable(arg) ==
  LET now == {port \in Ports(arg) : m_state \in {"Loaded", "Idle"}
                                     /\ PortReleased(port, allocated)}
  IN
  /\ Proxy("PortDisable", arg)
  /\ enabled' = enabled \ Ports(arg)
  /\ Post(PortEvents("PortDisable", arg, now))
  /\ m_flags' = m_flags \cup {DisablePending(port) : port \in Ports(arg) \ now}
  /\ IF m_state \in {"Pause", "Executing"}
       THEN execute_omx_flush(Ports(arg))
       ELSE NoFlush /\ UNCHANGED driver
  /\ UNCHANGED <<populated, owed, m_error_propogated>>

send_command_proxy ==
  \/ Loaded_Idle
  \/ \E eState \in States : Granted(eState)
  \/ Idle_Loaded
  \/ Idle_Start("Executing", ExecutePending)
  \/ Idle_Start("Pause", PausePending)
  \/ Executing_Idle
  \/ Executing_Pause
  \/ Pause_Executing
  \/ \E eState \in States \cup {"Invalid"} : Rejected(eState)
  \/ \E arg \in PortNames \cup {"ALL"} :
       FlushCommand(arg) \/ PortEnable(arg) \/ PortDisable(arg)
-------------------------------------------------------------------------------
(* The other events of process_event_cb.                                   *)
Take(id) ==
  /\ m_cmd_q # <<>>
  /\ Head(m_cmd_q).id = id
  /\ m_cmd_q' = Tail(m_cmd_q)

(* EVENT: a state is entered here, and the client is called back.          *)
StateSetEvent ==
  /\ Take("EVENT")
  /\ Head(m_cmd_q).p1 = "StateSet"
  /\ m_state' = Head(m_cmd_q).p2
  /\ cstate' = Head(m_cmd_q).p2
  /\ Completed("StateSet", Head(m_cmd_q).p2)
  /\ UNCHANGED <<m_flags, m_ftb_q, m_etb_q, ports, flushing, pending,
                 m_error_propogated, driver, waiting, held>>

PortOrErrorEvent ==
  /\ Take("EVENT")
  /\ \/ /\ Head(m_cmd_q).p1 \in {"PortEnable", "PortDisable"}
        /\ Completed(Head(m_cmd_q).p1, Head(m_cmd_q).p2)
     \/ /\ Head(m_cmd_q) = ErrorEvent("PortUnpopulated")
        /\ UNCHANGED owed
     \/ /\ Head(m_cmd_q).p1 = "Error"
        /\ Head(m_cmd_q) # ErrorEvent("PortUnpopulated")
        /\ GiveUp
  /\ UNCHANGED <<m_state, m_flags, m_ftb_q, m_etb_q, ports, flushing, pending,
                 m_error_propogated, driver, waiting, held, cstate>>

fill_buffer_done ==
  /\ Take("FBD")
  /\ pending' = [pending EXCEPT !["OUT"] = @ - 1]
  /\ held' = held \cup {Head(m_cmd_q).p1}
  /\ UNCHANGED <<m_state, m_flags, m_ftb_q, m_etb_q, ports, flushing,
                 m_error_propogated, driver, waiting, owed, cstate>>

(* Mutant: the other port is looked at before this one's mark is cleared.  *)
FlushDone_TestsFirst(port) ==
  /\ Take(IF port = "IN" THEN "INPUT_FLUSH" ELSE "OUTPUT_FLUSH")
  /\ flushing' = flushing \ {port}
  /\ \/ /\ FlushPending(port) \in m_flags
        /\ m_flags' = m_flags \ {FlushPending(port)}
        /\ Completed("Flush", port)
        /\ UNCHANGED driver
     \/ /\ FlushPending(port) \notin m_flags
        /\ IF IdlePending \in m_flags /\ flushing = {}
             THEN Accept("STOP") ELSE UNCHANGED driver
        /\ UNCHANGED <<m_flags, owed>>
  /\ UNCHANGED <<m_state, m_ftb_q, m_etb_q, ports, pending, m_error_propogated,
                 waiting, held, cstate>>


(* The end of a flush.  The last one of a move to Idle stops the driver.   *)
FlushDone(port) ==
  /\ Take(IF port = "IN" THEN "INPUT_FLUSH" ELSE "OUTPUT_FLUSH")
  /\ flushing' = flushing \ {port}
  /\ \/ /\ FlushPending(port) \in m_flags
        /\ m_flags' = m_flags \ {FlushPending(port)}
        /\ Completed("Flush", port)
        /\ UNCHANGED <<driver, m_error_propogated>>
     \/ /\ FlushPending(port) \notin m_flags
        /\ IdlePending \in m_flags /\ flushing' = {}
        /\ \/ Accept("STOP") /\ UNCHANGED <<owed, m_error_propogated>>
           \/ Refuse("stop") /\ omx_report_error
        /\ UNCHANGED m_flags
     \/ /\ FlushPending(port) \notin m_flags
        /\ ~ (IdlePending \in m_flags /\ flushing' = {})
        /\ UNCHANGED <<m_flags, driver, owed, m_error_propogated>>
  /\ UNCHANGED <<m_state, m_ftb_q, m_etb_q, ports, pending, waiting, held, cstate>>

(* A pending state is entered and reported.                                *)
Enter(state, bit) ==
  /\ m_flags' = m_flags \ {bit}
  /\ m_state' = state
  /\ cstate' = state
  /\ Completed("StateSet", state)

START_DONE ==
  /\ Take("START_DONE")
  /\ \/ /\ ExecutePending \in m_flags
        /\ Enter("Executing", ExecutePending)
        /\ UNCHANGED <<driver, m_error_propogated>>
     \/ /\ ExecutePending \notin m_flags /\ PausePending \in m_flags
        /\ \/ Accept("PAUSE") /\ UNCHANGED <<owed, m_error_propogated>>
           \/ Refuse("pause") /\ omx_report_error
        /\ UNCHANGED <<m_state, m_flags, cstate>>
     \/ /\ ExecutePending \notin m_flags /\ PausePending \notin m_flags
        /\ UNCHANGED <<m_state, m_flags, driver, owed, cstate, m_error_propogated>>
  /\ UNCHANGED <<m_ftb_q, m_etb_q, ports, flushing, pending, waiting, held>>

(* Buffers whose EBD is still queued are returned first.  (An FBD is never *)
(* in m_ftb_q: post_event puts it in m_cmd_q.)                             *)
complete_pending_buffer_done_cbs ==
  /\ m_etb_q' = Others(m_etb_q, "EBD")
  /\ held' = held \cup Done(m_etb_q)
  /\ pending' = [pending EXCEPT !["IN"] = @ - Cardinality(Done(m_etb_q))]


PAUSE_DONE ==
  /\ Take("PAUSE_DONE")
  /\ IF PausePending \in m_flags
       THEN complete_pending_buffer_done_cbs /\ Enter("Pause", PausePending)
       ELSE UNCHANGED <<m_etb_q, held, pending, m_flags, m_state, cstate, owed>>
  /\ UNCHANGED <<m_ftb_q, ports, flushing, m_error_propogated, driver, waiting>>

RESUME_DONE ==
  /\ Take("RESUME_DONE")
  /\ IF ExecutePending \in m_flags
       THEN Enter("Executing", ExecutePending)
       ELSE UNCHANGED <<m_flags, m_state, cstate, owed>>
  /\ UNCHANGED <<m_ftb_q, m_etb_q, ports, flushing, pending, m_error_propogated,
                 driver, waiting, held>>

(* Mutant: Idle is reported at once.                                       *)
STOP_DONE_AtOnce ==
  /\ Take("STOP_DONE")
  /\ IF IdlePending \in m_flags
       THEN Enter("Idle", IdlePending)
       ELSE UNCHANGED <<m_flags, m_state, cstate, owed>>
  /\ UNCHANGED <<m_etb_q, held, pending, m_ftb_q, ports, flushing, m_error_propogated,
                 driver, waiting>>

STOP_DONE ==
  /\ Take("STOP_DONE")
  /\ complete_pending_buffer_done_cbs
  /\ IF IdlePending \in m_flags
       THEN Enter("Idle", IdlePending)
       ELSE UNCHANGED <<m_flags, m_state, cstate, owed>>
  /\ UNCHANGED <<m_ftb_q, ports, flushing, m_error_propogated, driver, waiting>>

(* m_ftb_q is looked at when m_cmd_q is empty, m_etb_q when both are.  A   *)
(* submission that fails is taken off the count here and once more by the  *)
(* FBD or EBD; MaxMiscount bounds how far the count drifts.                *)
MaxMiscount == 1

fill_this_buffer_proxy ==
  /\ m_cmd_q = <<>> /\ m_ftb_q # <<>>
  /\ m_ftb_q' = Tail(m_ftb_q)
  /\ LET b == Head(m_ftb_q).p2 IN
     \/ /\ "OUT" \notin enabled \/ "OUT" \in flushing
        /\ m_cmd_q' = <<Entry("FBD", b, "-")>>
        /\ pending' = [pending EXCEPT !["OUT"] = @ + 1]
        /\ UNCHANGED <<driver, owed, m_error_propogated>>
     \/ /\ "OUT" \in enabled /\ "OUT" \notin flushing
        /\ drv_held' = drv_held \cup {b}
        /\ pending' = [pending EXCEPT !["OUT"] = @ + 1]
        /\ UNCHANGED <<m_cmd_q, drv_state, drv_cmds, owed, m_error_propogated>>
     \/ /\ "OUT" \in enabled /\ "OUT" \notin flushing
        /\ Refuse("fill") /\ pending["OUT"] > - MaxMiscount
        /\ m_cmd_q' = <<Entry("FBD", b, "-")>>
        /\ omx_report_error
        /\ UNCHANGED pending
  /\ UNCHANGED <<m_state, m_flags, m_etb_q, ports, flushing, waiting, held, cstate>>

empty_this_buffer_proxy ==
  /\ m_cmd_q = <<>> /\ m_ftb_q = <<>> /\ m_etb_q # <<>>
  /\ Head(m_etb_q).id = "ETB"
  /\ LET b == Head(m_etb_q).p2
         ebd == Append(Tail(m_etb_q), Entry("EBD", b, "-"))
     IN
     \/ /\ "IN" \in flushing
        /\ m_etb_q' = ebd
        /\ pending' = [pending EXCEPT !["IN"] = @ + 1]
        /\ UNCHANGED <<driver, owed, m_error_propogated>>
     \/ /\ "IN" \notin flushing
        /\ m_etb_q' = Tail(m_etb_q)
        /\ drv_held' = drv_held \cup {b}
        /\ pending' = [pending EXCEPT !["IN"] = @ + 1]
        /\ UNCHANGED <<drv_state, drv_cmds, owed, m_error_propogated>>
     \/ /\ "IN" \notin flushing
        /\ Refuse("empty") /\ pending["IN"] > - MaxMiscount
        /\ m_etb_q' = ebd
        /\ omx_report_error
        /\ UNCHANGED pending
  /\ UNCHANGED <<m_state, m_flags, m_cmd_q, m_ftb_q, ports, flushing, waiting, held, cstate>>

empty_buffer_done ==
  /\ m_cmd_q = <<>> /\ m_ftb_q = <<>> /\ m_etb_q # <<>>
  /\ Head(m_etb_q).id = "EBD"
  /\ m_etb_q' = Tail(m_etb_q)
  /\ pending' = [pending EXCEPT !["IN"] = @ - 1]
  /\ held' = held \cup {Head(m_etb_q).p1}
  /\ UNCHANGED <<m_state, m_flags, m_cmd_q, m_ftb_q, ports, flushing,
                 m_error_propogated, driver, waiting, owed, cstate>>

MessageThread ==
  \/ send_command_proxy
  \/ StateSetEvent \/ PortOrErrorEvent
  \/ fill_buffer_done \/ empty_buffer_done
  \/ \E port \in PortNames : FlushDone(port)
  \/ START_DONE \/ PAUSE_DONE \/ RESUME_DONE \/ STOP_DONE
  \/ fill_this_buffer_proxy \/ empty_this_buffer_proxy
-------------------------------------------------------------------------------
(* The client: one thread, which hands over only buffers it holds.         *)
(* send_command itself waits only until the command was looked at; a       *)
(* careful client sends the next one when the last is complete, and        *)
(* submits nothing while state or a port changes: as m_cmd_q and m_ftb_q   *)
(* come first, a fast stream could keep the input buffers it wants to free *)
(* in m_etb_q for ever.                                                    *)
component == <<m_state, flushing, pending, m_error_propogated>>
Ready == ~ waiting /\ Len(m_cmd_q) < scenario.queued /\ Len(drv_cmds) < scenario.unacked

Completions(c) ==
  IF c.cmd = "StateSet" THEN {c}
  ELSE {[cmd |-> c.cmd, arg |-> port] : port \in Ports(c.arg)}

(* A careful client enables disabled ports and disables enabled ones.      *)
Sensible(c) ==
  /\ c.cmd = "PortEnable" => Ports(c.arg) \cap enabled = {}
  /\ c.cmd = "PortDisable" => Ports(c.arg) \subseteq enabled

send_command(c) ==
  /\ Ready
  /\ scenario.rough \/ Sensible(c)
  /\ scenario.overlap \/ owed = {}
  /\ m_cmd_q' = Append(m_cmd_q, Entry("COMMAND", c.cmd, c.arg))
  /\ waiting' = TRUE
  /\ owed' = owed \cup Completions(c)
  /\ UNCHANGED <<component, m_flags, m_ftb_q, m_etb_q, ports, driver, held, cstate>>

Asked(cmd, arg) == [cmd |-> cmd, arg |-> arg] \in owed

PortOf(b) == IF b \in InBuffers THEN "IN" ELSE "OUT"

(* The slot of a buffer.  Its bit is set before the last call that can     *)
(* fail, and stays set if it does.                                         *)
SlotTaken(b) ==
  /\ allocated' = allocated \cup {b}
  /\ held' = held \cup {b}
  /\ UNCHANGED leaked
SlotLeaked(b) ==
  /\ rough /\ "alloc" \in scenario.mayFail
  /\ allocated' = allocated \cup {b}
  /\ leaked' = leaked \cup {b}
  /\ UNCHANGED held
SlotFreed(b) ==
  /\ allocated' = allocated \ {b}
  /\ held' = held \ {b}
  /\ UNCHANGED leaked

(* use_buffer and allocate_buffer: the last buffer of a port completes     *)
(* what waits for it.                                                      *)

AllocateBuffer(b) ==
  LET port == PortOf(b)
      alloc == allocated \cup {b}
      idle == allocate_done(alloc) /\ IdlePending \in m_flags
      pop == NowPopulated(alloc, enabled)
      enable == port \in pop /\ EnablePending(port) \in m_flags
  IN
  /\ Ready
  /\ b \notin allocated
  /\ cstate = "Loaded" \/ Asked("PortEnable", port)
  /\ port \in enabled \/ Asked("StateSet", "Idle")
  /\ \/ /\ SlotTaken(b)
        /\ populated' = pop
        /\ m_flags' = m_flags \ ((IF idle THEN {IdlePending} ELSE {})
                                 \cup (IF enable THEN {EnablePending(port)} ELSE {}))
        /\ m_cmd_q' = m_cmd_q
             \o (IF idle THEN <<Entry("EVENT", "StateSet", "Idle")>> ELSE <<>>)
             \o (IF enable THEN <<PortEvent("PortEnable", port)>> ELSE <<>>)
     \/ SlotLeaked(b) /\ UNCHANGED <<populated, m_flags, m_cmd_q>>
  /\ UNCHANGED <<component, m_ftb_q, m_etb_q, enabled, driver, waiting, owed, cstate>>

(* free_buffer: refused with an error while the port runs; outside of the  *)
(* two legal situations the error is posted and the buffer freed anyway.   *)
FreeBuffer(b) ==
  LET port == PortOf(b)
      alloc == allocated \ {b}
      legal == (m_state = "Idle" /\ LoadingPending \in m_flags) \/ port \notin enabled
      running == ~ legal /\ m_state \in {"Executing", "Pause"}
      disable == DisablePending(port) \in m_flags /\ PortReleased(port, alloc)
      loaded == LoadingPending \in m_flags /\ release_done(alloc)
      error == IF legal THEN <<>> ELSE <<ErrorEvent("PortUnpopulated")>>
  IN
  /\ Ready
  /\ b \in held
  /\ \/ Asked("StateSet", "Loaded") \/ Asked("PortDisable", port)
     \/ scenario.rough /\ ~ Asked("StateSet", "Idle") /\ ~ Asked("PortEnable", port)
  /\ \/ /\ running
        /\ m_cmd_q' = m_cmd_q \o error
        /\ UNCHANGED <<m_flags, ports, driver, held>>
     \/ /\ ~ running
        /\ SlotFreed(b)
        /\ populated' = populated \ {port}
        /\ m_flags' = m_flags \ ((IF disable THEN {DisablePending(port)} ELSE {})
                                 \cup (IF loaded THEN {LoadingPending} ELSE {}))
        /\ m_cmd_q' = m_cmd_q \o error
             \o (IF disable THEN <<PortEvent("PortDisable", port)>> ELSE <<>>)
             \o (IF loaded THEN <<Entry("EVENT", "StateSet", "Loaded")>> ELSE <<>>)
        /\ IF loaded THEN Accept("STOP") \/ Refuse("stop") ELSE UNCHANGED driver
        /\ UNCHANGED enabled
  /\ UNCHANGED <<component, m_ftb_q, m_etb_q, waiting, owed, cstate>>

Streaming ==
  /\ cstate \in {"Executing", "Pause"}
  /\ rough \/ \A c \in owed : c.cmd = "Flush"

empty_this_buffer(b) ==
  /\ Ready /\ Streaming
  /\ b \in held \cap InBuffers
  /\ "IN" \in enabled
  /\ m_etb_q' = Append(m_etb_q, Entry("ETB", "-", b))
  /\ held' = held \ {b}
  /\ UNCHANGED <<component, m_flags, m_cmd_q, m_ftb_q, ports, driver, waiting, owed, cstate>>

fill_this_buffer(b) ==
  /\ Ready /\ Streaming
  /\ b \in held \cap OutBuffers
  /\ "OUT" \in enabled
  /\ m_ftb_q' = Append(m_ftb_q, Entry("FTB", "-", b))
  /\ held' = held \ {b}
  /\ UNCHANGED <<component, m_flags, m_cmd_q, m_etb_q, ports, driver, waiting, owed, cstate>>

(* What the client does to let its own command finish.                     *)
Cooperate ==
  \E b \in Actual :
    \/ /\ Asked("StateSet", "Idle") \/ Asked("PortEnable", PortOf(b))
       /\ AllocateBuffer(b)
    \/ /\ Asked("StateSet", "Loaded") \/ Asked("PortDisable", PortOf(b))
       /\ FreeBuffer(b)

Client ==
  \/ \E c \in AllCommands \cap scenario.commands : send_command(c)
  \/ \E b \in Actual : AllocateBuffer(b) \/ FreeBuffer(b)
                          \/ empty_this_buffer(b) \/ fill_this_buffer(b)
-------------------------------------------------------------------------------
(* The driver, and async_message_process, which posts what it reports.     *)
BufferDone(b) ==
  /\ b \in drv_held
  /\ \/ drv_state = "started"
     \/ drv_cmds # <<>> /\ Head(drv_cmds) \in {"STOP", DrvFlush(PortOf(b))}
  /\ drv_held' = drv_held \ {b}
  /\ IF b \in InBuffers
       THEN m_etb_q' = Append(m_etb_q, Entry("EBD", b, "-")) /\ UNCHANGED m_cmd_q
       ELSE m_cmd_q' = Append(m_cmd_q, Entry("FBD", b, "-")) /\ UNCHANGED m_etb_q
  /\ UNCHANGED <<component, m_flags, m_ftb_q, ports, drv_state, drv_cmds, client>>

Acknowledge(command, id, state) ==
  /\ drv_cmds # <<>> /\ Head(drv_cmds) = command
  /\ drv_cmds' = Tail(drv_cmds)
  /\ drv_state' = state
  /\ m_cmd_q' = Append(m_cmd_q, Entry(id, "-", "-"))
  /\ UNCHANGED <<component, m_flags, m_ftb_q, m_etb_q, ports, drv_held, client>>

BuffersDone(port) == \E b \in PortBuffers(port) : BufferDone(b)
CommandDone ==
  \/ Acknowledge("START", "START_DONE", "started")
  \/ Acknowledge("PAUSE", "PAUSE_DONE", "paused")
  \/ Acknowledge("RESUME", "RESUME_DONE", "started")
  \/ drv_held = {} /\ Acknowledge("STOP", "STOP_DONE", "stopped")
  \/ drv_held \cap InBuffers = {} /\ Acknowledge("FLUSH_IN", "INPUT_FLUSH", drv_state)
  \/ drv_held \cap OutBuffers = {} /\ Acknowledge("FLUSH_OUT", "OUTPUT_FLUSH", drv_state)

Driver == (\E port \in PortNames : BuffersDone(port)) \/ CommandDone

Steadily(A) == A /\ UNCHANGED scenario
Next == Steadily(MessageThread) \/ Steadily(Client) \/ Steadily(Driver)

(* The message thread keeps running, and so does the driver on each of its *)
(* queues; the client does its part for the commands it sent.              *)
Fairness ==
  /\ WF_vars(Steadily(MessageThread))
  /\ \A port \in PortNames : WF_vars(Steadily(BuffersDone(port)))
  /\ WF_vars(Steadily(CommandDone))
  /\ WF_vars(Steadily(Cooperate))

Spec == Init /\ [][Next]_vars /\ Fairness
-------------------------------------------------------------------------------
(* Who has a buffer: the number of places it is in.                        *)
Count(q, b) == Cardinality({i \in DOMAIN q : q[i].p1 = b \/ q[i].p2 = b})
Places(b) ==
  (IF b \in held THEN 1 ELSE 0) + (IF b \in drv_held THEN 1 ELSE 0)
    + Count(m_cmd_q, b) + Count(m_ftb_q, b) + Count(m_etb_q, b)

(* No buffer is lost and none is given out twice: whatever the order of    *)
(* submissions, flushes, driver messages, port and state commands, each    *)
(* buffer of a port is with the client, queued once, or with the driver.   *)
OneOwner ==
  \A b \in Buffers : Places(b) = IF b \in allocated \ leaked THEN 1 ELSE 0

(* What module OmxComponent promises an IL client holds of the encoder:    *)
(* the move to Idle waits for both flushes, stops the driver, and returns  *)
(* the buffers whose EBD is still queued                                   *)
(* (complete_pending_buffer_done_cbs) before it reports Idle.              *)
IL == INSTANCE OmxComponent
        WITH state <- m_state, lent <- (allocated \ leaked) \ held,
             broken <- rough \/ m_error_propogated
KeepsContract == IL!Spec

(* Every command is completed (or ends with an error event).               *)
CommandCompletes == (~ rough /\ owed # {}) ~> (owed = {})
===============================================================================
