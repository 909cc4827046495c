------------------------------- MODULE OmxVdec -------------------------------
(***************************************************************************)
(* The OMX video decoder component (omx_vdec.cpp) with whole frames at its *)
(* input: states, ports, buffers, flushes and the reconfiguration of the   *)
(* output port when the stream changes its size.                           *)
(*                                                                         *)
(* As in the encoder the IL client calls the component and waits in        *)
(* send_command, the async thread posts what the driver reports, and the   *)
(* message thread takes one event after another.  It differs where it      *)
(* matters: a flush leaves the queues alone until the driver acknowledged  *)
(* it, a finished output buffer travels in m_ftb_q, both buffer queues are *)
(* left alone in Pause, and the end of a port disable may be deferred.     *)
(*                                                                         *)
(* The client is released (sem_post) before the flush of a port disable is *)
(* begun: that is a step of its own.  m_flags is taken to be updated       *)
(* indivisibly.  The memory of the buffers is the subject of VdecBuffers.   *)
(***************************************************************************)
EXTENDS Integers, Sequences, FiniteSets

CONSTANTS
  InBuffers,       \* the input buffers: drv_ctx.ip_buf.actualcount of them
  OutBuffers,      \* the output buffers: drv_ctx.op_buf.actualcount
  Commands,        \* the commands the client may send: records [cmd, arg]
  MayFail,         \* the driver calls and answers that may fail
  Sizes,           \* the picture sizes of the stream, 0 first: 0 .. MaxSize
  MAX_INPUT_ERROR, \* tolerated damaged input frames in a row
  MaxQueued,       \* bound: the client makes no call with so many events in m_cmd_q
  MaxUnacked       \* bound: nor with so many commands the driver has not acknowledged

Buffers == InBuffers \cup OutBuffers
PortNames == {"IN", "OUT"}
Ports(arg) == IF arg = "ALL" THEN PortNames ELSE {arg}
PortBuffers(port) == IF port = "IN" THEN InBuffers ELSE OutBuffers
PortOf(b) == IF b \in InBuffers THEN "IN" ELSE "OUT"

States == {"Loaded", "Idle", "Executing", "Pause", "WaitForResources", "Invalid"}
AllCommands == [cmd : {"StateSet"}, arg : States]
                 \cup [cmd : {"Flush", "PortEnable", "PortDisable"},
                       arg : PortNames \cup {"ALL"}]

(* What a queued entry may say of a header besides naming it.              *)
Statuses == {"-", "ok", "bad", "bitstream"}

ASSUME VdecAssumption ==
  /\ IsFiniteSet(Buffers)
  /\ InBuffers # {} /\ OutBuffers # {}
  /\ InBuffers \cap OutBuffers = {}
  /\ Buffers \cap Statuses = {}
  /\ Commands \subseteq AllCommands
  /\ MayFail \subseteq {"start", "stop", "pause", "resume", "flush", "empty", "fill",
                        "buffer_req", "status", "bitstream"}
  /\ Sizes = 0 .. Cardinality(Sizes) - 1 /\ Sizes # {}
  /\ MAX_INPUT_ERROR \in Nat
  /\ MaxQueued \in Nat \ {0} /\ MaxUnacked \in Nat \ {0}

(* The bits of m_flags.                                                    *)
EnablePending(port) == <<"ENABLE_PENDING", port>>
DisablePending(port) == <<"DISABLE_PENDING", port>>
FlushPending(port) == <<"FLUSH_PENDING", port>>
IdlePending == <<"IDLE_PENDING", "-">>
LoadingPending == <<"LOADING_PENDING", "-">>
ExecutePending == <<"EXECUTE_PENDING", "-">>
PausePending == <<"PAUSE_PENDING", "-">>
FlushInDisablePending == <<"OUTPUT_FLUSH_IN_DISABLE_PENDING", "OUT">>
DisableOutputDeferred == <<"DISABLE_OUTPUT_DEFERRED", "OUT">>

(* An entry of a queue; "-" is a NULL parameter.                           *)
Entry(id, p1, p2) == [id |-> id, p1 |-> p1, p2 |-> p2]
ErrorEvent(error) == Entry("EVENT", "Error", error)
PortEvent(cmd, port) == Entry("EVENT", cmd, port)

VARIABLES
  m_state,         \* the component's state
  m_flags,         \* the pending bits
  m_cmd_q, m_ftb_q, m_etb_q,
  enabled,         \* m_inp_bEnabled, m_out_bEnabled: the set of enabled ports
  populated,       \* m_inp_bPopulated, m_out_bPopulated
  allocated,       \* the bits of m_inp_bm_count and m_out_bm_count
  flushing,        \* input_flush_progress, output_flush_progress
  released,        \* the port disable that has released the client and not flushed yet
  m_error_propogated,
  m_inp_err_count, \* damaged input frames in a row
  in_reconfig,
  op_buf,          \* drv_ctx.op_buf: the picture size output buffers are made for
  op_buf_rcnfg,    \* the one to come
  made_for,        \* the size each output buffer was allocated for
  drv_state,       \* the driver: stopped, started or paused
  drv_cmds,        \* the commands it accepted and has not acknowledged
  drv_held,        \* the buffers it holds
  drv_size,        \* the picture size of the stream it decodes
  drv_req,         \* the size its buffer requirement was set for
  waiting,         \* the client is in sem_wait(&m_cmd_lock)
  held,            \* the buffers the client holds
  owed,            \* the completions the client waits for
  cstate,          \* the component's state, as the client was told
  rough            \* never changes.  TRUE: driver calls fail, and the client frees
                   \* buffers and enables and disables ports when it should not

queues == <<m_cmd_q, m_ftb_q, m_etb_q>>
ports == <<enabled, populated, allocated, made_for>>
reconfig == <<in_reconfig, op_buf, op_buf_rcnfg, drv_req>>
driver == <<drv_state, drv_cmds, drv_held>>
client == <<waiting, held, owed, cstate>>
errors == <<m_error_propogated, m_inp_err_count>>
vars == <<m_state, m_flags, queues, ports, flushing, released, errors, reconfig,
          driver, drv_size, client, rough>>

Init ==
  /\ m_state = "Loaded"
  /\ m_flags = {}
  /\ m_cmd_q = <<>> /\ m_ftb_q = <<>> /\ m_etb_q = <<>>
  /\ enabled = PortNames
  /\ populated = {}
  /\ allocated = {}
  /\ flushing = {}
  /\ released = {}
  /\ m_error_propogated = FALSE
  /\ m_inp_err_count = 0
  /\ in_reconfig = FALSE
  /\ op_buf = 0 /\ op_buf_rcnfg = 0 /\ drv_req = 0
  /\ made_for = [b \in OutBuffers |-> 0]
  /\ drv_state = "stopped"
  /\ drv_cmds = <<>>
  /\ drv_held = {}
  /\ drv_size = 0
  /\ waiting = FALSE
  /\ held = {}
  /\ owed = {}
  /\ cstate = "Loaded"
  /\ rough \in BOOLEAN
-------------------------------------------------------------------------------
(* Queue contents.                                                         *)
Elements(q) == {q[i] : i \in DOMAIN q}
Submitted(q) == {e.p2 : e \in {x \in Elements(q) : x.id \in {"ETB", "FTB"}}}
Done(q) == {e.p1 : e \in {x \in Elements(q) : x.id \in {"EBD", "FBD"}}}
(* What stays when the entries of one kind are popped.                     *)
Others(q, id) ==
  LET kept[i \in 0 .. Len(q)] ==
        IF i = 0 THEN <<>> ELSE IF q[i].id = id THEN kept[i - 1] ELSE Append(kept[i - 1], q[i])
  IN kept[Len(q)]

(* With no buffer the header array is NULL: the port is released, and not  *)
(* allocated.                                                              *)
PortAllocated(port, alloc) == PortBuffers(port) \subseteq alloc
PortReleased(port, alloc) == PortBuffers(port) \cap alloc = {}
allocate_done(alloc) == \A port \in PortNames : PortAllocated(port, alloc)
release_done(alloc) == \A port \in PortNames : PortReleased(port, alloc)

(* allocate_input_done and allocate_output_done also mark an enabled port  *)
(* populated when they find all of its buffers.                            *)
NowPopulated(alloc, en) ==
  populated \cup {port \in en : PortAllocated(port, alloc)}

(* The client's half of the callbacks.  An error ends what it waits for.   *)
Completed(cmd, arg) == owed' = owed \ {[cmd |-> cmd, arg |-> arg]}
GiveUp == owed' = {}

(* omx_report_error tells the client once in the component's life.         *)
omx_report_error ==
  /\ m_error_propogated' = TRUE
  /\ IF m_error_propogated THEN UNCHANGED owed ELSE GiveUp
Quiet == UNCHANGED <<owed, m_error_propogated>>

(* A driver call: it is accepted, or fails if it may.                      *)
Plain(name) == <<name, {}>>
CallFails(call) == rough /\ call \in MayFail
Accept(command) ==
  /\ drv_cmds' = Append(drv_cmds, command)
  /\ UNCHANGED <<drv_state, drv_held>>
Refuse(call) == CallFails(call) /\ UNCHANGED driver

(* execute_omx_flush: the ports are marked and the driver is asked once;   *)
(* what is queued stays queued.  Its result is not looked at.              *)
execute_omx_flush(P) ==
  /\ flushing' = flushing \cup P
  /\ Accept(<<"FLUSH", P>>) \/ Refuse("flush")
-------------------------------------------------------------------------------
(* send_command_proxy: the message thread takes a COMMAND, posts events    *)
(* behind what is queued, and releases the client.                         *)
Proxy(cmd, arg) ==
  /\ released = {}
  /\ m_cmd_q # <<>>
  /\ Head(m_cmd_q) = Entry("COMMAND", cmd, arg)
  /\ waiting' = FALSE
  /\ UNCHANGED <<m_state, m_ftb_q, m_etb_q, allocated, made_for, m_inp_err_count, reconfig,
                 drv_size, held, cstate>>
Post(events) == m_cmd_q' = Tail(m_cmd_q) \o events
NoFlush == UNCHANGED <<flushing, released>>

Loaded_Idle ==
  /\ m_state = "Loaded"
  /\ Proxy("StateSet", "Idle")
  /\ populated' = NowPopulated(allocated, enabled)
  /\ IF allocate_done(allocated) \/ enabled = {}
       THEN Post(<<Entry("EVENT", "StateSet", "Idle")>>) /\ UNCHANGED m_flags
       ELSE Post(<<>>) /\ m_flags' = m_flags \cup {IdlePending}
  /\ NoFlush /\ Quiet /\ UNCHANGED <<enabled, driver>>

(* The transitions that only post their event.  From WaitForResources, a   *)
(* request for Idle falls through every test and is granted as well.       *)
Granted(eState) ==
  /\ \/ <<m_state, eState>> \in {<<"Loaded", "WaitForResources">>,
                                 <<"WaitForResources", "Loaded">>,
                                 <<"WaitForResources", "Idle">>}
     \/ m_state = "Idle" /\ eState = "Loaded" /\ release_done(allocated)
  /\ Proxy("StateSet", eState)
  /\ Post(<<Entry("EVENT", "StateSet", eState)>>)
  /\ NoFlush /\ Quiet /\ UNCHANGED <<m_flags, enabled, populated, driver>>

Idle_Loaded ==
  /\ m_state = "Idle" /\ ~ release_done(allocated)
  /\ Proxy("StateSet", "Loaded")
  /\ Post(<<>>)
  /\ m_flags' = m_flags \cup {LoadingPending}
  /\ NoFlush /\ Quiet /\ UNCHANGED <<enabled, populated, driver>>

(* On the way to Executing the bit is set before the driver is asked, and  *)
(* stays when it refuses.                                                  *)
Idle_Executing ==
  /\ m_state = "Idle"
  /\ Proxy("StateSet", "Executing")
  /\ Post(<<>>)
  /\ m_flags' = m_flags \cup {ExecutePending}
  /\ \/ Accept(Plain("START")) /\ Quiet
     \/ Refuse("start") /\ omx_report_error
  /\ NoFlush /\ UNCHANGED <<enabled, populated>>

Idle_Pause ==
  /\ m_state = "Idle"
  /\ Proxy("StateSet", "Pause")
  /\ Post(<<>>)
  /\ \/ Accept(Plain("START")) /\ m_flags' = m_flags \cup {PausePending} /\ Quiet
     \/ Refuse("start") /\ omx_report_error /\ UNCHANGED m_flags
  /\ NoFlush /\ UNCHANGED <<enabled, populated>>

(* Mutant: only the output port is flushed.                                *)
Executing_Idle_OutOnly ==
  /\ m_state \in {"Executing", "Pause"}
  /\ Proxy("StateSet", "Idle")
  /\ Post(<<>>)
  /\ m_flags' = m_flags \cup {IdlePending}
  /\ execute_omx_flush({"OUT"})
  /\ Quiet /\ UNCHANGED <<enabled, populated, released>>

(* Executing or Pause to Idle.  The client is released before the flush is *)
(* begun; what it does in between only queues buffers, which the end of    *)
(* the flush returns.                                                      *)
Executing_Idle ==
  /\ m_state \in {"Executing", "Pause"}
  /\ Proxy("StateSet", "Idle")
  /\ Post(<<>>)
  /\ m_flags' = m_flags \cup {IdlePending}
  /\ execute_omx_flush(PortNames)
  /\ Quiet /\ UNCHANGED <<enabled, populated, released>>

Executing_Pause ==
  /\ m_state = "Executing"
  /\ Proxy("StateSet", "Pause")
  /\ \/ Accept(Plain("PAUSE")) /\ Post(<<>>) /\ m_flags' = m_flags \cup {PausePending}
     \/ Refuse("pause") /\ Post(<<ErrorEvent("Hardware")>>) /\ UNCHANGED m_flags
  /\ NoFlush /\ Quiet /\ UNCHANGED <<enabled, populated>>

(* The component itself posts the end of a resume; the driver's answer     *)
(* finds nothing pending.                                                  *)
Pause_Executing ==
  /\ m_state = "Pause"
  /\ Proxy("StateSet", "Executing")
  /\ \/ /\ Accept(Plain("RESUME"))
        /\ m_flags' = m_flags \cup {ExecutePending}
        /\ Post(<<Entry("RESUME_DONE", "-", "ok")>>)
     \/ Refuse("resume") /\ Post(<<ErrorEvent("Hardware")>>) /\ UNCHANGED m_flags
  /\ NoFlush /\ Quiet /\ UNCHANGED <<enabled, populated>>

Handled ==
  {<<"Loaded", "Idle">>, <<"Loaded", "WaitForResources">>, <<"Idle", "Loaded">>,
   <<"Idle", "Executing">>, <<"Idle", "Pause">>, <<"Executing", "Idle">>,
   <<"Executing", "Pause">>, <<"Pause", "Executing">>, <<"Pause", "Idle">>,
   <<"WaitForResources", "Loaded">>, <<"WaitForResources", "Idle">>}

(* Every other request is answered with an error event.                    *)
Rejected(eState) ==
  /\ m_state # "Invalid"
  /\ <<m_state, eState>> \notin Handled
  /\ Proxy("StateSet", eState)
  /\ Post(<<ErrorEvent(IF eState = m_state THEN "SameState"
                       ELSE IF eState = "Invalid" THEN "Invalid"
                       ELSE "IncorrectStateTransition")>>)
  /\ NoFlush /\ Quiet /\ UNCHANGED <<m_flags, enabled, populated, driver>>

(* A command queued before the component became Invalid.  A state request  *)
(* is dropped; of the others, the one for port 1 (compared with a          *)
(* disjunction of all the states, that is with 1) gets an error, the rest  *)
(* are reported complete.                                                  *)
InvalidCommand(cmd, arg) ==
  /\ m_state = "Invalid"
  /\ Proxy(cmd, arg)
  /\ Post(IF cmd = "StateSet" THEN <<>>
          ELSE IF arg = "OUT" THEN <<ErrorEvent("InvalidState")>>
          ELSE <<Entry("EVENT", cmd, arg)>>)
  /\ NoFlush /\ Quiet /\ UNCHANGED <<m_flags, enabled, populated, driver>>

FlushCommand(arg) ==
  /\ m_state # "Invalid"
  /\ Proxy("Flush", arg)
  /\ Post(<<>>)
  /\ m_flags' = m_flags \cup {FlushPending(port) : port \in Ports(arg)}
  /\ execute_omx_flush(Ports(arg))
  /\ Quiet /\ UNCHANGED <<enabled, populated, released>>

(* A port that need not wait gets its event; if no port of the command has *)
(* to wait, the common tail of send_command_proxy posts one more.          *)
InOrder(P, Item(_)) ==
  (IF "IN" \in P THEN <<Item("IN")>> ELSE <<>>)
    \o (IF "OUT" \in P THEN <<Item("OUT")>> ELSE <<>>)
PortEvents(cmd, arg, now) ==
  InOrder(now, LAMBDA port : PortEvent(cmd, port))
    \o (IF now = Ports(arg) THEN <<PortEvent(cmd, arg)>> ELSE <<>>)

PortEnable(arg) ==
  LET quick == m_state = "Loaded" /\ IdlePending \notin m_flags
      now == {port \in Ports(arg) : quick \/ PortAllocated(port, allocated)}
  IN
  /\ m_state # "Invalid"
  /\ Proxy("PortEnable", arg)
  /\ enabled' = enabled \cup Ports(arg)
  /\ populated' = IF quick THEN populated ELSE populated \cup now
  /\ Post(PortEvents("PortEnable", arg, now))
  /\ m_flags' = m_flags \cup {EnablePending(port) : port \in Ports(arg) \ now}
  /\ NoFlush /\ Quiet /\ UNCHANGED driver

PortDisable(arg) ==
  LET now == {port \in Ports(arg) : m_state \in {"Loaded", "Idle"}
                                     /\ PortReleased(port, allocated)}
  IN
  /\ m_state \notin {"Pause", "Executing", "Invalid"}
  /\ Proxy("PortDisable", arg)
  /\ enabled' = enabled \ Ports(arg)
  /\ Post(PortEvents("PortDisable", arg, now))
  /\ m_flags' = m_flags \cup {DisablePending(port) : port \in Ports(arg) \ now}
  /\ NoFlush /\ Quiet /\ UNCHANGED <<populated, driver>>

(* While running: the client goes on as soon as its (first) port is        *)
(* marked, and the message thread flushes in its next step.                *)
PortDisableRunning(arg) ==
  LET first == IF arg = "OUT" THEN "OUT" ELSE "IN" IN
  /\ m_state \in {"Pause", "Executing"}
  /\ Proxy("PortDisable", arg)
  /\ enabled' = enabled \ {first}
  /\ m_flags' = m_flags \cup {DisablePending(first)}
  /\ released' = Ports(arg)
  /\ Post(<<>>) /\ Quiet /\ UNCHANGED <<populated, flushing, driver>>

PortDisableFlush ==
  /\ released # {}
  /\ released' = {}
  /\ enabled' = enabled \ released
  /\ m_flags' = m_flags
       \cup (IF released = PortNames THEN {DisablePending("OUT")} ELSE {})
       \cup (IF "OUT" \in released THEN {FlushInDisablePending} ELSE {})
  /\ flushing' = flushing \cup released
  /\ \/ /\ drv_cmds' = drv_cmds \o InOrder(released, LAMBDA port : <<"FLUSH", {port}>>)
        /\ UNCHANGED <<drv_state, drv_held>>
     \/ Refuse("flush")
  /\ UNCHANGED <<m_state, queues, populated, allocated, made_for, errors, reconfig, drv_size,
                 client>>

send_command_proxy ==
  \/ Loaded_Idle
  \/ \E eState \in States : Granted(eState)
  \/ Idle_Loaded \/ Idle_Executing \/ Idle_Pause
  \/ Executing_Idle \/ Executing_Pause \/ Pause_Executing
  \/ \E eState \in States : Rejected(eState)
  \/ \E arg \in PortNames \cup {"ALL"} :
       FlushCommand(arg) \/ PortEnable(arg) \/ PortDisable(arg) \/ PortDisableRunning(arg)
  \/ PortDisableFlush
  \/ \E c \in AllCommands : InvalidCommand(c.cmd, c.arg)
-------------------------------------------------------------------------------
(* The other events of process_event_cb.                                   *)
Take(id) ==
  /\ released = {}
  /\ m_cmd_q # <<>>
  /\ Head(m_cmd_q).id = id
  /\ m_cmd_q' = Tail(m_cmd_q)
  /\ UNCHANGED <<enabled, populated, allocated, made_for, released, drv_size, waiting>>
Failed == Head(m_cmd_q).p2 # "ok"

StateSetEvent ==
  /\ Take("EVENT")
  /\ Head(m_cmd_q).p1 = "StateSet"
  /\ m_state' = Head(m_cmd_q).p2
  /\ cstate' = Head(m_cmd_q).p2
  /\ Completed("StateSet", Head(m_cmd_q).p2)
  /\ UNCHANGED <<m_flags, m_ftb_q, m_etb_q, flushing, errors, reconfig, driver, held>>

ErrorEvents ==
  /\ Take("EVENT")
  /\ Head(m_cmd_q).p1 = "Error"
  /\ LET error == Head(m_cmd_q).p2 IN
       /\ m_state' = IF error = "Invalid" THEN "Invalid" ELSE m_state
       /\ IF error = "Hardware"
            THEN omx_report_error
            ELSE /\ UNCHANGED m_error_propogated
                 /\ IF error = "PortUnpopulated" THEN UNCHANGED owed ELSE GiveUp
       /\ cstate' = IF error = "Invalid" THEN "Invalid" ELSE cstate
  /\ UNCHANGED <<m_flags, m_ftb_q, m_etb_q, flushing, m_inp_err_count, reconfig, driver,
                 held>>

(* Mutant: the end of the disable is not deferred.                         *)
PortDisableEvent_AtOnce ==
  /\ Take("EVENT")
  /\ Head(m_cmd_q).p1 = "PortDisable"
  /\ LET port == Head(m_cmd_q).p2 IN
       IF port = "OUT" /\ in_reconfig
         THEN /\ in_reconfig' = FALSE
              /\ op_buf' = op_buf_rcnfg
              /\ drv_req' = op_buf_rcnfg
              /\ Completed("PortDisable", port)
              /\ UNCHANGED <<m_flags, op_buf_rcnfg, m_error_propogated>>
         ELSE /\ Completed("PortDisable", port)
              /\ UNCHANGED <<m_flags, reconfig, m_error_propogated>>
  /\ UNCHANGED <<m_state, m_ftb_q, m_etb_q, flushing, m_inp_err_count, driver, held, cstate>>

(* The end of a port disable waits for the flush that belongs to it.  It   *)
(* is where a reconfiguration takes effect: the requirement for the new    *)
(* size is set in the driver before the client is told.                    *)
PortDisableEvent ==
  /\ Take("EVENT")
  /\ Head(m_cmd_q).p1 = "PortDisable"
  /\ LET port == Head(m_cmd_q).p2 IN
     \/ /\ FlushInDisablePending \in m_flags
        /\ m_flags' = m_flags \cup {DisableOutputDeferred}
        /\ Quiet /\ UNCHANGED reconfig
     \/ /\ FlushInDisablePending \notin m_flags /\ port = "OUT" /\ in_reconfig
        /\ in_reconfig' = FALSE
        /\ op_buf' = op_buf_rcnfg
        /\ \/ /\ drv_req' = op_buf_rcnfg
              /\ Completed("PortDisable", port)
              /\ UNCHANGED m_error_propogated
           \/ /\ CallFails("buffer_req")
              /\ omx_report_error
              /\ drv_req' \in {drv_req, op_buf_rcnfg}
        /\ UNCHANGED <<m_flags, op_buf_rcnfg>>
     \/ /\ FlushInDisablePending \notin m_flags /\ ~ (port = "OUT" /\ in_reconfig)
        /\ Completed("PortDisable", port)
        /\ UNCHANGED <<m_flags, reconfig, m_error_propogated>>
  /\ UNCHANGED <<m_state, m_ftb_q, m_etb_q, flushing, m_inp_err_count, driver, held, cstate>>

OtherEvents ==
  /\ Take("EVENT")
  /\ Head(m_cmd_q).p1 \in {"PortEnable", "Flush"}
  /\ Completed(Head(m_cmd_q).p1, Head(m_cmd_q).p2)
  /\ UNCHANGED <<m_state, m_flags, m_ftb_q, m_etb_q, flushing, errors, reconfig, driver,
                 held, cstate>>


(* execute_input_flush and execute_output_flush: everything queued for the *)
(* port goes back to the client, submissions and finished buffers alike.   *)
execute_flush(port) ==
  /\ flushing' = flushing \ {port}
  /\ m_etb_q' = IF port = "IN" THEN <<>> ELSE m_etb_q
  /\ m_ftb_q' = IF port = "OUT" THEN <<>> ELSE m_ftb_q
  /\ held' = held \cup LET q == IF port = "IN" THEN m_etb_q ELSE m_ftb_q
                       IN Submitted(q) \cup Done(q)

(* INPUT_FLUSH and OUTPUT_FLUSH.  An answer nothing waits for is dropped.  *)
(* The last flush of a move to Idle stops the driver.                      *)
FlushDone(port) ==
  LET disable == port = "OUT" /\ FlushInDisablePending \in m_flags
      deferred == disable /\ DisableOutputDeferred \in m_flags
  IN
  /\ m_cmd_q # <<>> /\ released = {}
  /\ Head(m_cmd_q).id = (IF port = "IN" THEN "INPUT_FLUSH" ELSE "OUTPUT_FLUSH")
  /\ m_cmd_q' = Tail(m_cmd_q)
       \o (IF deferred /\ port \in flushing /\ ~ Failed
             THEN <<PortEvent("PortDisable", "OUT")>> ELSE <<>>)
  /\ IF port \in flushing
       THEN execute_flush(port)
       ELSE UNCHANGED <<m_etb_q, m_ftb_q, held, flushing>>
  /\ \/ /\ port \notin flushing
        /\ Quiet /\ UNCHANGED <<m_flags, driver>>
     \/ /\ port \in flushing /\ Failed
        /\ omx_report_error
        /\ UNCHANGED <<m_flags, driver>>
     \/ /\ port \in flushing /\ ~ Failed
        /\ m_flags' = m_flags \ ({FlushPending(port)}
                        \cup (IF disable THEN {FlushInDisablePending} ELSE {})
                        \cup (IF deferred THEN {DisableOutputDeferred} ELSE {}))
        /\ LET told == IF FlushPending(port) \in m_flags
                         THEN owed \ {[cmd |-> "Flush", arg |-> port]} ELSE owed
               stop == IdlePending \in m_flags /\ flushing' = {}
           IN \/ /\ IF stop THEN Accept(Plain("STOP")) ELSE UNCHANGED driver
                 /\ owed' = told
                 /\ UNCHANGED m_error_propogated
              \/ /\ stop /\ Refuse("stop")
                 /\ m_error_propogated' = TRUE
                 /\ owed' = IF m_error_propogated THEN told ELSE {}
  /\ UNCHANGED <<m_state, enabled, populated, allocated, made_for, released, m_inp_err_count,
                 reconfig, drv_size, waiting, cstate>>

(* A pending state is entered and reported.                                *)
Enter(state, bit) ==
  /\ bit \in m_flags
  /\ m_flags' = m_flags \ {bit}
  /\ m_state' = state
  /\ cstate' = state
  /\ Completed("StateSet", state)
  /\ UNCHANGED m_error_propogated
Stay == Quiet /\ UNCHANGED <<m_state, m_flags, cstate>>
ReportStay == omx_report_error /\ UNCHANGED <<m_state, m_flags, cstate>>

(* Mutant: a start on the way to Pause is not followed by a pause.         *)
START_DONE_NoPause ==
  /\ Take("START_DONE")
  /\ \/ Failed /\ ReportStay
     \/ ~ Failed /\ Enter("Executing", ExecutePending)
     \/ ~ Failed /\ ExecutePending \notin m_flags /\ Stay
  /\ UNCHANGED <<m_ftb_q, m_etb_q, flushing, m_inp_err_count, reconfig, held, driver>>

START_DONE ==
  /\ Take("START_DONE")
  /\ \/ Failed /\ ReportStay /\ UNCHANGED driver
     \/ ~ Failed /\ Enter("Executing", ExecutePending) /\ UNCHANGED driver
     \/ /\ ~ Failed /\ ExecutePending \notin m_flags /\ PausePending \in m_flags
        /\ \/ Accept(Plain("PAUSE")) /\ Stay
           \/ Refuse("pause") /\ ReportStay
     \/ /\ ~ Failed /\ ExecutePending \notin m_flags /\ PausePending \notin m_flags
        /\ Stay /\ UNCHANGED driver
  /\ UNCHANGED <<m_ftb_q, m_etb_q, flushing, m_inp_err_count, reconfig, held>>

(* Mutant: queued submissions are returned too, and stay queued.           *)
complete_pending_All ==
  /\ held' = held \cup Done(m_ftb_q) \cup Done(m_etb_q) \cup Submitted(m_ftb_q)
  /\ m_ftb_q' = Others(m_ftb_q, "FBD")
  /\ m_etb_q' = Others(m_etb_q, "EBD")

(* The finished buffers are taken out of both queues and returned; the     *)
(* submissions stay, in their order.                                       *)
complete_pending_buffer_done_cbs ==
  /\ held' = held \cup Done(m_ftb_q) \cup Done(m_etb_q)
  /\ m_ftb_q' = Others(m_ftb_q, "FBD")
  /\ m_etb_q' = Others(m_etb_q, "EBD")

StopOrPauseDone(id, state, bit) ==
  /\ Take(id)
  /\ \/ Failed /\ ReportStay /\ UNCHANGED <<m_ftb_q, m_etb_q, held>>
     \/ /\ ~ Failed
        /\ complete_pending_buffer_done_cbs
        /\ Enter(state, bit) \/ (bit \notin m_flags /\ Stay)
  /\ UNCHANGED <<flushing, m_inp_err_count, reconfig, driver>>

PAUSE_DONE == StopOrPauseDone("PAUSE_DONE", "Pause", PausePending)
STOP_DONE == StopOrPauseDone("STOP_DONE", "Idle", IdlePending)

RESUME_DONE ==
  /\ Take("RESUME_DONE")
  /\ \/ Failed /\ ReportStay
     \/ ~ Failed /\ Enter("Executing", ExecutePending)
     \/ ~ Failed /\ ExecutePending \notin m_flags /\ Stay
  /\ UNCHANGED <<m_ftb_q, m_etb_q, held, flushing, m_inp_err_count, reconfig, driver>>

(* Mutant: the new requirement is set at once, in_reconfig comes too late  *)
(* to stop that.                                                           *)
PORT_RECONFIG_AtOnce ==
  /\ Take("PORT_RECONFIG")
  /\ in_reconfig' = TRUE
  /\ op_buf_rcnfg' = drv_size
  /\ drv_req' = drv_size
  /\ Quiet
  /\ UNCHANGED <<m_state, m_flags, m_ftb_q, m_etb_q, flushing, m_inp_err_count, op_buf,
                 driver, held, cstate>>

(* start_port_reconfig asks the driver for the new requirement and keeps   *)
(* it until the client has disabled the output port.                       *)
PORT_RECONFIG ==
  /\ Take("PORT_RECONFIG")
  /\ \/ /\ in_reconfig' = TRUE
        /\ op_buf_rcnfg' = drv_size
        /\ Quiet
     \/ /\ CallFails("buffer_req")
        /\ in_reconfig' \in {in_reconfig, TRUE}
        /\ op_buf_rcnfg' \in {op_buf_rcnfg, drv_size}
        /\ omx_report_error
  /\ UNCHANGED <<m_state, m_flags, m_ftb_q, m_etb_q, flushing, m_inp_err_count, op_buf,
                 drv_req, driver, held, cstate>>

HARDWARE_ERROR ==
  /\ Take("HARDWARE_ERROR")
  /\ ReportStay
  /\ UNCHANGED <<m_ftb_q, m_etb_q, flushing, m_inp_err_count, reconfig, driver, held>>
-------------------------------------------------------------------------------
(* m_ftb_q is looked at when m_cmd_q is empty, m_etb_q when both are, and  *)
(* neither in Pause.                                                       *)
TakeFtb(id) ==
  /\ released = {} /\ m_cmd_q = <<>> /\ m_state # "Pause"
  /\ m_ftb_q # <<>>
  /\ Head(m_ftb_q).id = id
  /\ m_ftb_q' = Tail(m_ftb_q)
  /\ UNCHANGED <<m_state, m_flags, m_cmd_q, m_etb_q, ports, flushing, released,
                 m_inp_err_count, reconfig, drv_size, waiting, cstate>>
TakeEtb(id) ==
  /\ released = {} /\ m_cmd_q = <<>> /\ m_ftb_q = <<>> /\ m_state # "Pause"
  /\ m_etb_q # <<>>
  /\ Head(m_etb_q).id = id
  /\ UNCHANGED <<m_state, m_flags, m_cmd_q, m_ftb_q, ports, flushing, released,
                 reconfig, drv_size, waiting, cstate>>

fill_this_buffer_proxy ==
  /\ TakeFtb("FTB")
  /\ LET b == Head(m_ftb_q).p2
         bounce == "OUT" \notin enabled \/ "OUT" \in flushing
     IN
     \/ bounce /\ held' = held \cup {b} /\ Quiet /\ UNCHANGED driver
     \/ /\ ~ bounce
        /\ drv_held' = drv_held \cup {b}
        /\ Quiet /\ UNCHANGED <<drv_state, drv_cmds, held>>
     \/ /\ ~ bounce /\ Refuse("fill")
        /\ held' = held \cup {b}
        /\ omx_report_error

(* A buffer with a bad status is reported and not returned.                *)
fill_buffer_done ==
  /\ TakeFtb("FBD")
  /\ LET e == Head(m_ftb_q) IN
     \/ e.p2 = "ok" /\ held' = held \cup {e.p1} /\ Quiet
     \/ e.p2 # "ok" /\ omx_report_error /\ UNCHANGED held
  /\ UNCHANGED driver

(* An empty frame, a not-coded one, and any frame during a flush come back *)
(* at once; so does one the driver refuses, with an error.                 *)
empty_this_buffer_proxy ==
  /\ TakeEtb("ETB")
  /\ LET b == Head(m_etb_q).p2
         back == Append(Tail(m_etb_q), Entry("EBD", b, "ok"))
     IN
     \/ m_etb_q' = back /\ Quiet /\ UNCHANGED driver
     \/ /\ "IN" \notin flushing
        /\ m_etb_q' = Tail(m_etb_q)
        /\ drv_held' = drv_held \cup {b}
        /\ Quiet /\ UNCHANGED <<drv_state, drv_cmds>>
     \/ /\ "IN" \notin flushing /\ Refuse("empty")
        /\ m_etb_q' = back
        /\ omx_report_error
  /\ UNCHANGED <<held, m_inp_err_count>>

(* Damaged frames are counted while they follow one another (the count is  *)
(* only compared with MAX_INPUT_ERROR, so it stops one above).             *)
empty_buffer_done ==
  /\ TakeEtb("EBD")
  /\ m_etb_q' = Tail(m_etb_q)
  /\ LET e == Head(m_etb_q)
         count == IF m_inp_err_count > MAX_INPUT_ERROR THEN m_inp_err_count
                  ELSE m_inp_err_count + 1
     IN
     \/ /\ e.p2 = "bad"
        /\ omx_report_error
        /\ UNCHANGED <<held, m_inp_err_count>>
     \/ /\ e.p2 # "bad"
        /\ held' = held \cup {e.p1}
        /\ m_inp_err_count' = IF e.p2 = "bitstream" THEN count ELSE 0
        /\ IF m_inp_err_count' > MAX_INPUT_ERROR THEN omx_report_error ELSE Quiet
  /\ UNCHANGED driver

MessageThread ==
  \/ send_command_proxy
  \/ StateSetEvent \/ ErrorEvents \/ PortDisableEvent \/ OtherEvents
  \/ \E port \in PortNames : FlushDone(port)
  \/ START_DONE \/ PAUSE_DONE \/ RESUME_DONE \/ STOP_DONE
  \/ PORT_RECONFIG \/ HARDWARE_ERROR
  \/ fill_this_buffer_proxy \/ fill_buffer_done
  \/ empty_this_buffer_proxy \/ empty_buffer_done
-------------------------------------------------------------------------------
(* The client: one thread, which follows the IL rules for buffers.  It     *)
(* sends the next command when the last one is complete, hands over only   *)
(* buffers it holds, and none after it asked for another state.  Once it   *)
(* was told of a hardware error it only shuts the component down.          *)
component == <<m_state, flushing, released, errors, reconfig, drv_size>>
Ready == ~ waiting /\ Len(m_cmd_q) < MaxQueued /\ Len(drv_cmds) < MaxUnacked

Completions(c) ==
  IF c.cmd = "StateSet" THEN {c}
  ELSE {[cmd |-> c.cmd, arg |-> port] : port \in Ports(c.arg)}

(* A careful client enables disabled ports and disables enabled ones.  It  *)
(* leaves WaitForResources for Loaded (the component would also enter Idle *)
(* without buffers, and then wait for the last one to be freed when a port *)
(* is disabled), and it does not ask for Invalid.                          *)
Sensible(c) ==
  /\ cstate = "WaitForResources" => c.arg = "Loaded"
  /\ c.arg # "Invalid"
  /\ c.cmd = "PortEnable" => Ports(c.arg) \cap enabled = {}
  /\ c.cmd = "PortDisable" => Ports(c.arg) \subseteq enabled

send_command(c) ==
  /\ Ready
  /\ m_state # "Invalid"
  /\ rough \/ Sensible(c)
  /\ m_error_propogated => c.cmd = "StateSet" /\ c.arg \in {"Idle", "Loaded"}
  /\ owed = {}
  /\ m_cmd_q' = Append(m_cmd_q, Entry("COMMAND", c.cmd, c.arg))
  /\ waiting' = TRUE
  /\ owed' = Completions(c)
  /\ UNCHANGED <<component, m_flags, m_ftb_q, m_etb_q, ports, driver, held, cstate>>

Asked(cmd, arg) == [cmd |-> cmd, arg |-> arg] \in owed

(* allocate_buffer and use_buffer: the last buffer of a port completes     *)
(* what waits for it.  An output buffer is made for the size in op_buf.    *)
AllocateBuffer(b) ==
  LET port == PortOf(b)
      alloc == allocated \cup {b}
      idle == allocate_done(alloc) /\ IdlePending \in m_flags
      pop == NowPopulated(alloc, enabled)
      enable == port \in pop /\ EnablePending(port) \in m_flags
  IN
  /\ Ready
  /\ m_state # "Invalid"
  /\ b \notin allocated
  /\ cstate = "Loaded" \/ Asked("PortEnable", port)
  /\ port \in enabled \/ Asked("StateSet", "Idle")
  /\ allocated' = alloc
  /\ held' = held \cup {b}
  /\ made_for' = IF port = "OUT" THEN [made_for EXCEPT ![b] = op_buf] ELSE made_for
  /\ populated' = pop
  /\ m_flags' = m_flags \ ((IF idle THEN {IdlePending} ELSE {})
                           \cup (IF enable THEN {EnablePending(port)} ELSE {}))
  /\ m_cmd_q' = m_cmd_q
       \o (IF idle THEN <<Entry("EVENT", "StateSet", "Idle")>> ELSE <<>>)
       \o (IF enable THEN <<PortEvent("PortEnable", port)>> ELSE <<>>)
  /\ UNCHANGED <<component, m_ftb_q, m_etb_q, enabled, driver, waiting, owed, cstate>>

(* free_buffer: refused with an error while the port runs; outside of the  *)
(* legal situations the error is posted and the buffer freed anyway.       *)
FreeBuffer(b) ==
  LET port == PortOf(b)
      alloc == allocated \ {b}
      legal == (m_state = "Idle" /\ LoadingPending \in m_flags) \/ port \notin enabled
      running == ~ legal /\ m_state \in {"Executing", "Pause"}
      disable == DisablePending(port) \in m_flags /\ PortReleased(port, alloc)
      loaded == LoadingPending \in m_flags /\ release_done(alloc)
      error == IF legal \/ m_state = "Invalid" THEN <<>>
               ELSE <<ErrorEvent("PortUnpopulated")>>
  IN
  /\ Ready
  /\ b \in held
  /\ \/ Asked("StateSet", "Loaded") \/ Asked("PortDisable", port)
     \/ rough /\ ~ Asked("StateSet", "Idle") /\ ~ Asked("PortEnable", port)
  /\ \/ /\ running
        /\ m_cmd_q' = m_cmd_q \o error
        /\ UNCHANGED <<m_flags, ports, held>>
     \/ /\ ~ running
        /\ allocated' = alloc
        /\ held' = held \ {b}
        /\ populated' = populated \ {port}
        /\ m_flags' = m_flags \ ((IF disable THEN {DisablePending(port)} ELSE {})
                                 \cup (IF loaded THEN {LoadingPending} ELSE {}))
        /\ m_cmd_q' = m_cmd_q \o error
             \o (IF disable THEN <<PortEvent("PortDisable", port)>> ELSE <<>>)
             \o (IF loaded THEN <<Entry("EVENT", "StateSet", "Loaded")>> ELSE <<>>)
        /\ UNCHANGED <<enabled, made_for>>
  /\ UNCHANGED <<component, m_ftb_q, m_etb_q, driver, waiting, owed, cstate>>

(* Buffers may be submitted during a flush or a port command.              *)
Streaming ==
  /\ cstate \in {"Executing", "Pause"}
  /\ m_state # "Invalid" /\ ~ m_error_propogated
  /\ \A c \in owed : c.cmd # "StateSet"

empty_this_buffer(b) ==
  /\ Ready /\ Streaming
  /\ b \in held \cap InBuffers
  /\ "IN" \in enabled
  /\ m_etb_q' = Append(m_etb_q, Entry("ETB", "-", b))
  /\ held' = held \ {b}
  /\ UNCHANGED <<component, m_flags, m_cmd_q, m_ftb_q, ports, driver, waiting, owed, cstate>>

fill_this_buffer(b) ==
  /\ Ready /\ Streaming
  /\ b \in held \cap OutBuffers
  /\ "OUT" \in enabled
  /\ m_ftb_q' = Append(m_ftb_q, Entry("FTB", "-", b))
  /\ held' = held \ {b}
  /\ UNCHANGED <<component, m_flags, m_cmd_q, m_etb_q, ports, driver, waiting, owed, cstate>>

(* What the client does to let its own command finish.                     *)
Cooperate ==
  \E b \in Buffers :
    \/ /\ Asked("StateSet", "Idle") \/ Asked("PortEnable", PortOf(b))
       /\ AllocateBuffer(b)
    \/ /\ Asked("StateSet", "Loaded") \/ Asked("PortDisable", PortOf(b))
       /\ FreeBuffer(b)

Client ==
  \/ \E c \in Commands : send_command(c)
  \/ \E b \in Buffers : AllocateBuffer(b) \/ FreeBuffer(b)
                          \/ empty_this_buffer(b) \/ fill_this_buffer(b)
-------------------------------------------------------------------------------
(* The driver, and async_message_process, which posts what it reports.     *)
Status(faults) == {"ok"} \cup IF rough THEN faults ELSE {}
Bad == IF "status" \in MayFail THEN {"bad"} ELSE {}
Damaged == IF "bitstream" \in MayFail THEN {"bitstream"} ELSE {}

BufferDone(b) ==
  /\ b \in drv_held
  /\ \/ drv_state = "started"
     \/ drv_cmds # <<>> /\ (Head(drv_cmds) = Plain("STOP") \/ PortOf(b) \in Head(drv_cmds)[2])
  /\ drv_held' = drv_held \ {b}
  /\ IF b \in InBuffers
       THEN /\ \E status \in Status(Bad \cup Damaged) :
                 m_etb_q' = Append(m_etb_q, Entry("EBD", b, status))
            /\ UNCHANGED m_ftb_q
       ELSE /\ \E status \in Status(Bad) :
                 m_ftb_q' = Append(m_ftb_q, Entry("FBD", b, status))
            /\ UNCHANGED m_etb_q
  /\ UNCHANGED <<component, m_flags, m_cmd_q, ports, drv_state, drv_cmds, client>>

Message(id) ==
  /\ \E status \in Status(Bad) : m_cmd_q' = Append(m_cmd_q, Entry(id, "-", status))
  /\ UNCHANGED <<m_state, flushing, released, errors, reconfig, m_flags, m_ftb_q, m_etb_q,
                 ports, drv_held, client>>

Acknowledge(command, id, state) ==
  /\ drv_cmds # <<>> /\ Head(drv_cmds) = command
  /\ drv_cmds' = Tail(drv_cmds)
  /\ drv_state' = state
  /\ Message(id)
  /\ UNCHANGED drv_size

(* A flush of both ports is acknowledged once per port.                    *)
AcknowledgeFlush(port) ==
  /\ drv_cmds # <<>> /\ Head(drv_cmds)[1] = "FLUSH"
  /\ LET P == Head(drv_cmds)[2] IN
       /\ port \in P
       /\ drv_cmds' = (IF P = {port} THEN <<>> ELSE <<<<"FLUSH", P \ {port}>>>>)
                        \o Tail(drv_cmds)
  /\ drv_held \cap PortBuffers(port) = {}
  /\ Message(IF port = "IN" THEN "INPUT_FLUSH" ELSE "OUTPUT_FLUSH")
  /\ UNCHANGED <<drv_state, drv_size>>

(* VDEC_MSG_EVT_CONFIG_CHANGED: the stream goes on in another size.        *)
ConfigChanged ==
  /\ drv_state = "started" /\ drv_size + 1 \in Sizes
  /\ Len(m_cmd_q) < MaxQueued
  /\ drv_size' = drv_size + 1
  /\ m_cmd_q' = Append(m_cmd_q, Entry("PORT_RECONFIG", "OUT", "PortDefinition"))
  /\ UNCHANGED <<m_state, flushing, released, errors, reconfig, m_flags, m_ftb_q, m_etb_q,
                 ports, driver, client>>

HwError ==
  /\ rough /\ "status" \in MayFail /\ ~ m_error_propogated
  /\ Len(m_cmd_q) < MaxQueued
  /\ Message("HARDWARE_ERROR")
  /\ UNCHANGED <<drv_state, drv_cmds, drv_size>>

Driver ==
  \/ \E b \in Buffers : BufferDone(b)
  \/ Acknowledge(Plain("START"), "START_DONE", "started")
  \/ Acknowledge(Plain("PAUSE"), "PAUSE_DONE", "paused")
  \/ Acknowledge(Plain("RESUME"), "RESUME_DONE", "started")
  \/ drv_held = {} /\ Acknowledge(Plain("STOP"), "STOP_DONE", "stopped")
  \/ \E port \in PortNames : AcknowledgeFlush(port)

Steadily(A) == A /\ UNCHANGED rough
Next ==
  \/ Steadily(MessageThread)
  \/ Steadily(Client)
  \/ Steadily(Driver)
  \/ Steadily(ConfigChanged)
  \/ Steadily(HwError)

(* The message thread and the driver keep running; the client does its     *)
(* part for the commands it sent.                                          *)
Fairness ==
  /\ WF_vars(Steadily(MessageThread))
  /\ WF_vars(Steadily(Driver))
  /\ WF_vars(Steadily(Cooperate))

Spec == Init /\ [][Next]_vars /\ Fairness
-------------------------------------------------------------------------------
(* Who has a buffer: the number of places it is in.                        *)
Count(q, b) == Cardinality({i \in DOMAIN q : q[i].p1 = b \/ q[i].p2 = b})
Places(b) ==
  (IF b \in held THEN 1 ELSE 0) + (IF b \in drv_held THEN 1 ELSE 0)
    + Count(m_ftb_q, b) + Count(m_etb_q, b)

(* No buffer is given out twice, whatever the order of submissions,        *)
(* flushes, pauses, driver messages, port and state commands: each one is  *)
(* with the client, queued once, or with the driver.  None is lost either, *)
(* unless the driver returned one with an error and that was reported.     *)
OneOwner ==
  \A b \in Buffers :
    /\ Places(b) <= 1
    /\ b \in allocated /\ ~ m_error_propogated => Places(b) = 1
    /\ b \notin allocated => Places(b) = 0

(* What module OmxComponent promises an IL client holds of the decoder:    *)
(* the move to Idle flushes both ports, stops the driver and returns what  *)
(* is still queued before it reports the state.                            *)
IL == INSTANCE OmxComponent
        WITH state <- m_state, lent <- allocated \ held, broken <- m_error_propogated
KeepsContract == IL!Spec

(* The buffers the driver decodes into are the ones its requirement was    *)
(* set for: a reconfiguration changes the requirement only after the flush *)
(* of the disabled port has brought every old buffer back.                 *)
DriverBuffersFit ==
  \A b \in drv_held \cap OutBuffers : ~ m_error_propogated => made_for[b] = drv_req

(* What the client is told of a flush or a disable comes after what it     *)
(* tells of.  At the end of a flush the client has every buffer of the     *)
(* port it had submitted before: none is left in the port's queue, nor     *)
(* with the driver.  At the end of a disable of the output port the flush  *)
(* that belongs to it is over, although the client may have freed its last *)
(* buffer before that flush was begun: the end is deferred.  It is false   *)
(* of the command that disables both ports at once (709, 926), which the   *)
(* run leaves out and the theorem excludes.                                *)
FlushesEnd ==
  [][ ~ m_error_propogated' =>
        LET Ended(c) == c \in owed \ owed'
        IN /\ \A port \in PortNames : Ended([cmd |-> "Flush", arg |-> port])
                => PortBuffers(port) \cap allocated \subseteq held'
           /\ Ended([cmd |-> "PortDisable", arg |-> "OUT"]) /\ m_state' # "Invalid"
                => "OUT" \notin flushing' /\ PortReleased("OUT", allocated') ]_vars

(* Every command of a careful client is completed when no driver call      *)
(* fails.                                                                  *)
CommandCompletes == (~ rough /\ owed # {}) ~> (owed = {})
===============================================================================
