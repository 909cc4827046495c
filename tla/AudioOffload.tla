----------------------------- MODULE AudioOffload -----------------------------
(***************************************************************************)
(* One compress-offload output stream of the audio HAL                     *)
(* (src/audio/hal/audio_hw.c): the calls of the framework's threads on the *)
(* stream, and offload_thread_loop, which makes the blocking calls on the  *)
(* compress device for them.                                               *)
(*                                                                         *)
(* A call is a sequence of steps, one for each place where the thread      *)
(* takes or drops a mutex, sleeps on a condition variable, or touches a    *)
(* field that another thread reads without the mutex.  The routing that    *)
(* start_output_stream and stop_output_stream do under adev->lock is left  *)
(* out; the position that is read back and the volume have no effect here. *)
(***************************************************************************)
EXTENDS Naturals, Sequences, FiniteSets

CONSTANTS
  Clients,    \* the framework's threads
  Offload,    \* the stream's offload thread
  NoThread,
  Calls,      \* which calls each of the framework's threads makes
  MayFail,    \* the device calls that may fail: "open", "write"
  MaxCmds     \* bound: so many commands wait for the offload thread, and EXIT

AllCalls == {"write", "pause", "resume", "drain", "partial_drain", "flush", "standby",
             "routing", "metadata", "position", "close"}
Cmds == {"WAIT_FOR_BUFFER", "PARTIAL_DRAIN", "DRAIN", "EXIT"}
NoCmd == "none"

ASSUME OffloadAssumption ==
  /\ Offload \notin Clients /\ NoThread \notin Clients \cup {Offload}
  /\ Calls \in [Clients -> SUBSET AllCalls]
  /\ MayFail \subseteq {"open", "write"}
  /\ MaxCmds \in Nat \ {0}

Threads == Clients \cup {Offload}

VARIABLES
  pc,                 \* where each thread is
  op,                 \* the call each thread is in
  lock, pre_lock, adev_lock,   \* who holds out->lock, out->pre_lock, adev->lock
  standby, offload_state, playback_started, send_new_metadata,
  offload_cmd_list, offload_thread_blocked,
  cmd,                \* the command the offload thread is at
  compr,              \* the compress device: closed, setup, running or paused
  data,               \* how much of its buffer is filled: empty, some or full
  open                \* the stream exists and its owner has not begun to close it

locks == <<lock, pre_lock, adev_lock>>
playback == <<offload_state, playback_started>>
device == <<compr, data>>
offload == <<offload_cmd_list, offload_thread_blocked, cmd>>
vars == <<pc, op, locks, standby, playback, send_new_metadata, offload, device, open>>

(* adev_open_output_stream has returned; the thread it created has not     *)
(* run yet.                                                                *)
Init ==
  /\ pc = [t \in Threads |-> IF t = Offload THEN "start" ELSE "idle"]
  /\ op = [t \in Threads |-> "none"]
  /\ lock = NoThread /\ pre_lock = NoThread /\ adev_lock = NoThread
  /\ standby = TRUE
  /\ offload_state = "IDLE" /\ playback_started = FALSE
  /\ send_new_metadata = TRUE
  /\ offload_cmd_list = <<>> /\ offload_thread_blocked = FALSE /\ cmd = NoCmd
  /\ compr = "closed" /\ data = "empty"
  /\ open = TRUE
-------------------------------------------------------------------------------
(* Mutexes and condition variables.  lock_output_stream takes pre_lock,    *)
(* then lock, then drops pre_lock.                                         *)
At(t, place) == pc[t] = place
Goto(t, place) == pc' = [pc EXCEPT ![t] = place]

(* Mutant: lock_output_stream takes out->lock only.                        *)
TakePreLock_None(t) ==
  /\ At(t, "pre_lock")
  /\ Goto(t, "lock")
  /\ UNCHANGED <<op, locks, standby, playback, send_new_metadata, offload, device, open>>

TakePreLock(t) ==
  /\ At(t, "pre_lock") /\ pre_lock = NoThread
  /\ pre_lock' = t
  /\ Goto(t, "lock")
  /\ UNCHANGED <<op, lock, adev_lock, standby, playback, send_new_metadata, offload, device,
                 open>>

(* What a call is shows once it has the mutex: until then all are alike.   *)
(* Nobody calls a stream that is being closed, and its owner closes it     *)
(* when nobody else is in a call.                                          *)
Sends == {"write", "drain", "partial_drain"}
Chosen(t, call) ==
  \/ call = op[t] /\ (t = Offload \/ call # "none")
  \/ /\ t \in Clients /\ op[t] = "none" /\ call \in Calls[t] \ {"metadata"}
     /\ call \in Sends => Len(offload_cmd_list) < MaxCmds
     /\ call = "close" => \A u \in Clients \ {t} : At(u, "idle")

TakeLock(t) ==
  /\ At(t, "lock") /\ lock = NoThread
  /\ lock' = t /\ pre_lock' = NoThread
  /\ Goto(t, "locked")
  /\ \E call \in AllCalls \cup {"none", "destroy"} :
       /\ Chosen(t, call)
       /\ op' = [op EXCEPT ![t] = call]
       /\ open' = (open /\ call # "close")
  /\ UNCHANGED <<adev_lock, standby, playback, send_new_metadata, offload, device>>

(* pthread_cond_wait takes the mutex again by itself.                      *)
Relock(t) ==
  /\ At(t, "relock") /\ lock = NoThread
  /\ lock' = t
  /\ Goto(t, IF t = Offload THEN "locked" ELSE "stopping")
  /\ UNCHANGED <<op, pre_lock, adev_lock, standby, playback, send_new_metadata, offload,
                 device, open>>

(* pthread_cond_signal(&out->cond) wakes one of the sleepers.              *)
Sleepers == {t \in Clients : At(t, "cond")}
Signalled(p) ==
  IF Sleepers = {} THEN {p} ELSE {[p EXCEPT ![t] = "relock"] : t \in Sleepers}

(* send_offload_cmd_l appends and signals offload_cond.                    *)
Woken(p) == [p EXCEPT ![Offload] = IF @ = "sleep" THEN "relock" ELSE @]

(* The end of a call that holds out->lock.                                 *)
Returned(p, t) == [p EXCEPT ![t] = "idle"]
Holds(t, call) == At(t, "locked") /\ op[t] = call
-------------------------------------------------------------------------------
(* The offload thread.                                                     *)

(* The thread's first statements take no mutex.                            *)
OffloadStart ==
  /\ At(Offload, "start")
  /\ offload_state' = "IDLE" /\ playback_started' = FALSE
  /\ Goto(Offload, "pre_lock")
  /\ UNCHANGED <<op, locks, standby, send_new_metadata, offload, device, open>>

Looping == At(Offload, "locked") /\ cmd = NoCmd

OffloadSleep ==
  /\ Looping /\ offload_cmd_list = <<>>
  /\ lock' = NoThread
  /\ Goto(Offload, "sleep")
  /\ UNCHANGED <<op, pre_lock, adev_lock, standby, playback, send_new_metadata, offload,
                 device, open>>

OffloadExit ==
  /\ Looping /\ offload_cmd_list # <<>> /\ Head(offload_cmd_list) = "EXIT"
  /\ offload_cmd_list' = <<>>
  /\ lock' = NoThread
  /\ \E p \in Signalled(pc) : pc' = [p EXCEPT ![Offload] = "exited"]
  /\ UNCHANGED <<op, pre_lock, adev_lock, standby, playback, send_new_metadata,
                 offload_thread_blocked, cmd, device, open>>

(* Without a device the command is dropped; it is also never freed.        *)
OffloadDrop ==
  /\ Looping /\ offload_cmd_list # <<>> /\ Head(offload_cmd_list) # "EXIT"
  /\ compr = "closed"
  /\ offload_cmd_list' = Tail(offload_cmd_list)
  /\ pc' \in Signalled(pc)
  /\ UNCHANGED <<op, locks, standby, playback, send_new_metadata, offload_thread_blocked,
                 cmd, device, open>>

(* Mutant: offload_thread_blocked is not set.                              *)
OffloadCall_NoFlag ==
  /\ Looping /\ offload_cmd_list # <<>> /\ Head(offload_cmd_list) # "EXIT"
  /\ compr # "closed"
  /\ cmd' = Head(offload_cmd_list) /\ offload_cmd_list' = Tail(offload_cmd_list)
  /\ lock' = NoThread
  /\ Goto(Offload, "call")
  /\ UNCHANGED <<op, pre_lock, adev_lock, standby, playback, send_new_metadata,
                 offload_thread_blocked, device, open>>

OffloadCall ==
  /\ Looping /\ offload_cmd_list # <<>> /\ Head(offload_cmd_list) # "EXIT"
  /\ compr # "closed"
  /\ cmd' = Head(offload_cmd_list) /\ offload_cmd_list' = Tail(offload_cmd_list)
  /\ offload_thread_blocked' = TRUE
  /\ lock' = NoThread
  /\ Goto(Offload, "call")
  /\ UNCHANGED <<op, pre_lock, adev_lock, standby, playback, send_new_metadata, device, open>>

(* compress_wait returns when a fragment is free; a drain when the buffer  *)
(* is empty, or at once if the device was not started.                     *)
CallReturns == IF cmd = "WAIT_FOR_BUFFER" THEN data # "full"
               ELSE data = "empty" \/ compr = "setup"


(* send_new_metadata is written before the mutex is taken.                 *)
OffloadReturn ==
  /\ At(Offload, "call") /\ CallReturns
  /\ send_new_metadata' = (send_new_metadata \/ cmd = "PARTIAL_DRAIN")
  /\ Goto(Offload, "pre_lock")
  /\ UNCHANGED <<op, locks, standby, playback, offload, device, open>>

(* The call is over: out->cond is signalled and the framework's callback   *)
(* called.                                                                 *)
OffloadDone ==
  /\ At(Offload, "locked") /\ cmd # NoCmd
  /\ offload_thread_blocked' = FALSE
  /\ pc' \in Signalled(pc)
  /\ cmd' = NoCmd
  /\ UNCHANGED <<op, locks, standby, playback, send_new_metadata, offload_cmd_list, device,
                 open>>

offload_thread_loop ==
  \/ OffloadStart \/ OffloadSleep \/ OffloadExit \/ OffloadDrop
  \/ OffloadCall \/ OffloadReturn \/ OffloadDone
-------------------------------------------------------------------------------
(* The compress device plays what it has.                                  *)
Play ==
  /\ compr = "running" /\ data # "empty"
  /\ data' = IF data = "full" THEN "some" ELSE "empty"
  /\ UNCHANGED <<pc, op, locks, standby, playback, send_new_metadata, offload, compr, open>>
-------------------------------------------------------------------------------
(* The framework's calls.                                                  *)
Call(t) ==
  /\ At(t, "idle") /\ open
  /\ Goto(t, "pre_lock")
  /\ UNCHANGED <<op, locks, standby, playback, send_new_metadata, offload, device, open>>

(* out_set_parameters with the delays of a track: parse_compress_metadata  *)
(* takes no mutex.                                                         *)
parse_compress_metadata(t) ==
  /\ At(t, "idle") /\ open /\ "metadata" \in Calls[t]
  /\ send_new_metadata' = TRUE
  /\ UNCHANGED <<pc, op, locks, standby, playback, offload, device, open>>

Leave(t) == op' = [op EXCEPT ![t] = "none"]

Unlock(t) ==
  /\ lock' = NoThread
  /\ pc' = Returned(pc, t)
  /\ Leave(t)
  /\ UNCHANGED pre_lock

(* out_get_render_position, out_set_callback.                              *)
out_get_render_position(t) ==
  /\ Holds(t, "position")
  /\ Unlock(t)
  /\ UNCHANGED <<adev_lock, standby, playback, send_new_metadata, offload, device, open>>


out_pause(t) ==
  LET playing == compr # "closed" /\ offload_state = "PLAYING" IN
  /\ Holds(t, "pause")
  /\ offload_state' = IF playing THEN "PAUSED" ELSE offload_state
  /\ compr' = IF playing /\ compr = "running" THEN "paused" ELSE compr
  /\ Unlock(t)
  /\ UNCHANGED <<adev_lock, standby, playback_started, send_new_metadata, offload, data, open>>

out_resume(t) ==
  LET paused == compr # "closed" /\ offload_state = "PAUSED" IN
  /\ Holds(t, "resume")
  /\ offload_state' = IF paused THEN "PLAYING" ELSE offload_state
  /\ compr' = IF paused /\ compr = "paused" THEN "running" ELSE compr
  /\ Unlock(t)
  /\ UNCHANGED <<adev_lock, standby, playback_started, send_new_metadata, offload, data, open>>


out_drain(t) ==
  /\ Holds(t, "drain") \/ Holds(t, "partial_drain")
  /\ offload_cmd_list' = Append(offload_cmd_list,
                                IF op[t] = "drain" THEN "DRAIN" ELSE "PARTIAL_DRAIN")
  /\ lock' = NoThread
  /\ pc' = Returned(Woken(pc), t)
  /\ Leave(t)
  /\ UNCHANGED <<pre_lock, adev_lock, standby, playback, send_new_metadata,
                 offload_thread_blocked, cmd, device, open>>

(* out_set_parameters with a routing.                                      *)
out_set_parameters(t) ==
  /\ Holds(t, "routing") /\ adev_lock = NoThread
  /\ Unlock(t)
  /\ UNCHANGED <<adev_lock, standby, playback, send_new_metadata, offload, device, open>>

(* out_write out of standby: start_output_stream opens the device.  If     *)
(* that fails out_write ends in a call of out_standby.                     *)
StartOutput(t) ==
  /\ Holds(t, "write") /\ standby
  /\ adev_lock = NoThread
  /\ \/ /\ standby' = FALSE
        /\ compr' = "setup" /\ data' = "empty"
        /\ UNCHANGED <<pc, op, lock>>
     \/ /\ "open" \in MayFail
        /\ op' = [op EXCEPT ![t] = "standby"]
        /\ lock' = NoThread /\ Goto(t, "pre_lock")
        /\ UNCHANGED <<standby, device>>
  /\ UNCHANGED <<pre_lock, adev_lock, playback, send_new_metadata, offload, open>>

(* The flag is cleared after the metadata has been handed over: one that   *)
(* OffloadReturn sets in between is lost.                                  *)
SendMetadata(t) ==
  /\ Holds(t, "write") /\ ~ standby /\ send_new_metadata
  /\ Goto(t, "write")
  /\ UNCHANGED <<op, locks, standby, playback, send_new_metadata, offload, device, open>>

(* compress_write takes all of the data, a part of it, or fails.  The      *)
(* device starts only if it has data, and whether it did is not tested.    *)
Written(ret) ==
  CASE ret = "all" -> data # "full" /\ data' \in {"some", "full"}
    [] ret = "part" -> data' = "full"
    [] ret = "error" -> "write" \in MayFail /\ data' = data

out_write(t) ==
  /\ \/ At(t, "write")
     \/ Holds(t, "write") /\ ~ standby /\ ~ send_new_metadata
  /\ send_new_metadata' = FALSE
  /\ \E ret \in {"all", "part", "error"} :
       /\ Written(ret)
       /\ offload_cmd_list' = IF ret = "part"
                              THEN Append(offload_cmd_list, "WAIT_FOR_BUFFER")
                              ELSE offload_cmd_list
       /\ pc' = Returned(IF ret = "part" THEN Woken(pc) ELSE pc, t)
  /\ offload_state' = IF playback_started THEN offload_state ELSE "PLAYING"
  /\ playback_started' = TRUE
  /\ compr' = IF ~ playback_started /\ compr = "setup" /\ data' # "empty" THEN "running"
              ELSE compr
  /\ lock' = NoThread
  /\ Leave(t)
  /\ UNCHANGED <<pre_lock, adev_lock, standby, offload_thread_blocked, cmd, open>>
-------------------------------------------------------------------------------
(* stop_compressed_output_l, and the calls that use it: out_flush,         *)
(* out_standby (which holds adev->lock), and the second half of closing.   *)
StopBegins(t) ==
  /\ offload_state' = "IDLE" /\ playback_started' = FALSE
  /\ send_new_metadata' = TRUE
  /\ compr' = IF compr = "closed" THEN "closed" ELSE "setup"
  /\ data' = "empty"
  /\ Goto(t, "stopping")

out_flush(t) ==
  /\ Holds(t, "flush") \/ Holds(t, "destroy")
  /\ StopBegins(t)
  /\ UNCHANGED <<op, locks, standby, offload, open>>

out_standby(t) ==
  /\ Holds(t, "standby") \/ Holds(t, "close")
  /\ ~ standby
  /\ adev_lock = NoThread /\ adev_lock' = t
  /\ standby' = TRUE
  /\ StopBegins(t)
  /\ UNCHANGED <<op, lock, pre_lock, offload, open>>

StandbyAlready(t) ==
  /\ Holds(t, "standby") \/ Holds(t, "close")
  /\ standby
  /\ lock' = NoThread
  /\ op' = [op EXCEPT ![t] = IF @ = "close" THEN "destroy" ELSE "none"]
  /\ Goto(t, IF op[t] = "close" THEN "pre_lock" ELSE "idle")
  /\ UNCHANGED <<pre_lock, adev_lock, standby, playback, send_new_metadata, offload, device,
                 open>>

(* Mutant: only a device that plays is waited for.                         *)
Waits_Playing == compr = "running" /\ offload_thread_blocked

Waits == compr # "closed" /\ offload_thread_blocked

StopWaits(t) ==
  /\ At(t, "stopping") /\ Waits
  /\ lock' = NoThread
  /\ Goto(t, "cond")
  /\ UNCHANGED <<op, pre_lock, adev_lock, standby, playback, send_new_metadata, offload,
                 device, open>>

FlushEnds(t) ==
  /\ At(t, "stopping") /\ ~ Waits /\ op[t] = "flush"
  /\ Unlock(t)
  /\ UNCHANGED <<adev_lock, standby, playback, send_new_metadata, offload, device, open>>

StandbyEnds(t) ==
  /\ At(t, "stopping") /\ ~ Waits /\ op[t] \in {"standby", "close"}
  /\ compr' = "closed" /\ data' = "empty"
  /\ adev_lock' = NoThread /\ lock' = NoThread
  /\ op' = [op EXCEPT ![t] = IF @ = "close" THEN "destroy" ELSE "none"]
  /\ Goto(t, IF op[t] = "close" THEN "pre_lock" ELSE "idle")
  /\ UNCHANGED <<pre_lock, standby, playback, send_new_metadata, offload, open>>

destroy_offload_callback_thread(t) ==
  /\ At(t, "stopping") /\ ~ Waits /\ op[t] = "destroy"
  /\ offload_cmd_list' = Append(offload_cmd_list, "EXIT")
  /\ lock' = NoThread
  /\ pc' = [Woken(pc) EXCEPT ![t] = "join"]
  /\ UNCHANGED <<op, pre_lock, adev_lock, standby, playback, send_new_metadata,
                 offload_thread_blocked, cmd, device, open>>

adev_close_output_stream(t) ==
  /\ At(t, "join") /\ At(Offload, "exited")
  /\ Goto(t, "idle")
  /\ Leave(t)
  /\ UNCHANGED <<locks, standby, playback, send_new_metadata, offload, device, open>>

(* Another stream is opened in its place.                                  *)
adev_open_output_stream ==
  /\ ~ open /\ At(Offload, "exited") /\ \A t \in Clients : At(t, "idle")
  /\ open' = TRUE
  /\ Goto(Offload, "start")
  /\ standby' = TRUE /\ offload_state' = "IDLE" /\ playback_started' = FALSE
  /\ send_new_metadata' = TRUE
  /\ UNCHANGED <<op, locks, offload, device>>

Stopping(t) ==
  \/ StopWaits(t) \/ FlushEnds(t) \/ StandbyEnds(t)
  \/ destroy_offload_callback_thread(t) \/ adev_close_output_stream(t)

Body(t) ==
  \/ out_get_render_position(t) \/ out_pause(t) \/ out_resume(t) \/ out_drain(t)
  \/ out_set_parameters(t) \/ StartOutput(t) \/ SendMetadata(t) \/ out_write(t)
  \/ out_flush(t) \/ out_standby(t) \/ StandbyAlready(t)

Contends(t) == TakePreLock(t) \/ Relock(t)

Next ==
  \/ offload_thread_loop \/ Play \/ adev_open_output_stream
  \/ \E t \in Threads : TakeLock(t) \/ Contends(t)
  \/ \E t \in Clients : Call(t) \/ parse_compress_metadata(t) \/ Body(t) \/ Stopping(t)

(* What a thread does without having to contend for a mutex.               *)
Runs(t) ==
  \/ TakeLock(t)
  \/ t = Offload /\ offload_thread_loop
  \/ t \in Clients /\ (Body(t) \/ Stopping(t))

(* Threads run when they can.  A mutex for which several threads ask       *)
(* (pre_lock, and out->lock at the end of pthread_cond_wait) is obtained   *)
(* in the end if it is free again and again; of out->lock it is enough     *)
(* that it stays free, since only the holder of pre_lock asks for it.  A   *)
(* device call that can return again and again does.                       *)
Fairness ==
  /\ \A t \in Threads : WF_vars(Runs(t)) /\ SF_vars(Contends(t))
  /\ WF_vars(Play) /\ SF_vars(OffloadReturn)

Spec == Init /\ [][Next]_vars /\ Fairness
-------------------------------------------------------------------------------
(* The variables have the types of the fields they stand for.              *)
Places == {"idle", "pre_lock", "lock", "locked", "write", "stopping", "cond", "relock", "join"}
OffloadPlaces == {"start", "pre_lock", "lock", "locked", "sleep", "relock", "call", "exited"}

PcTyped ==
  /\ pc \in [Threads -> Places \cup OffloadPlaces]
  /\ \A t \in Clients : pc[t] \in Places
  /\ pc[Offload] \in OffloadPlaces

FieldsTyped ==
  /\ op \in [Threads -> AllCalls \cup {"none", "destroy"}]
  /\ lock \in Threads \cup {NoThread}
  /\ pre_lock \in Threads \cup {NoThread}
  /\ adev_lock \in Threads \cup {NoThread}
  /\ standby \in BOOLEAN /\ playback_started \in BOOLEAN /\ send_new_metadata \in BOOLEAN
  /\ offload_thread_blocked \in BOOLEAN /\ open \in BOOLEAN
  /\ offload_state \in {"IDLE", "PLAYING", "PAUSED"}
  /\ offload_cmd_list \in Seq(Cmds)
  /\ cmd \in (Cmds \ {"EXIT"}) \cup {NoCmd}
  /\ compr \in {"closed", "setup", "running", "paused"}
  /\ data \in {"empty", "some", "full"}

TypeOK == PcTyped /\ FieldsTyped

(* The compress device is never closed under the offload thread: while the *)
(* thread is in a call on it, or is to come back from one, out_standby and *)
(* closing wait (stop_compressed_output_l).                                *)
DeviceOutlivesCall == cmd # NoCmd => compr # "closed"

(* When out_flush returns, the offload thread has left the call it was in  *)
(* on the device, whichever of the signals on out->cond woke out_flush.    *)
(* It says nothing of the commands that still wait in offload_cmd_list:    *)
(* out_flush leaves them (895-906), and a DRAIN among them runs on what is *)
(* written next.                                                           *)
FlushIsQuiet == [][\A t \in Clients : FlushEnds(t) => ~ At(Offload, "call")]_vars

(* Every call returns, closing too, however many other calls follow it: no *)
(* thread waits for ever for a mutex, for the offload thread or for the    *)
(* device, which out_standby and out_flush stop.                           *)
CallsReturn == \A t \in Clients : pc[t] # "idle" ~> pc[t] = "idle"

(* audio_hw.h: "when multiple mutexes have to be acquired, always take the *)
(* stream_in or stream_out mutex first, followed by the audio_device       *)
(* mutex": so no thread is to wait for the stream's mutex with the         *)
(* device's in its hands while another waits the other way round.          *)
WaitsForDevice(t) ==
  At(t, "locked") /\ (op[t] = "routing" \/ (op[t] = "write" /\ standby))

NoLockCycle ==
  \A s, t \in Clients :
    ~ /\ adev_lock = s /\ (At(s, "cond") \/ At(s, "relock"))
      /\ lock = t /\ WaitsForDevice(t)
===============================================================================
