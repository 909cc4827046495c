-------------------------- MODULE AudioOffloadProofs --------------------------
(***************************************************************************)
(* Theorems about AudioOffload, for any number of framework threads that   *)
(* make any calls.                                                         *)
(***************************************************************************)
EXTENDS AudioOffload, TLAPS

(* The inductive invariant.  Whoever is at a place that needs out->lock    *)
(* holds it; offload_thread_blocked tells whether the offload thread is in *)
(* a command.                                                              *)
Holding == {"locked", "write", "stopping"}

Mutex == \A t \in Threads : pc[t] \in Holding => lock = t

BlockedIsCommand ==
  /\ offload_thread_blocked <=> cmd # NoCmd
  /\ pc[Offload] = "call" => cmd # NoCmd

IInv == TypeOK /\ Mutex /\ BlockedIsCommand /\ DeviceOutlivesCall

(* adev_open_output_stream leaves a stream that satisfies the invariant.   *)
LEMMA InitIInv == Init => IInv
<1> SUFFICES ASSUME Init PROVE IInv
  OBVIOUS
<1> USE OffloadAssumption DEF Init, Threads
<1>1. TypeOK
  <2>1. pc \in [Threads -> Places \cup OffloadPlaces] /\ pc[Offload] \in OffloadPlaces
    BY DEF Places, OffloadPlaces
  <2>2. \A t \in Clients : pc[t] \in Places
    BY DEF Places
  <2>3. op \in [Threads -> AllCalls \cup {"none", "destroy"}]
    OBVIOUS
  <2>4. offload_cmd_list \in Seq(Cmds)
    OBVIOUS
  <2> QED
    BY <2>1, <2>2, <2>3, <2>4 DEF TypeOK, PcTyped, FieldsTyped, NoCmd
<1>2. Mutex /\ BlockedIsCommand /\ DeviceOutlivesCall
  BY DEF Mutex, Holding, BlockedIsCommand, DeviceOutlivesCall, NoCmd
<1> QED
  BY <1>1, <1>2 DEF IInv

(* A step of any thread keeps it.                                          *)
LEMMA StepIInv == IInv /\ [Next]_vars => IInv'
<1> SUFFICES ASSUME IInv, [Next]_vars PROVE IInv'
  OBVIOUS
<1> USE OffloadAssumption DEF IInv, TypeOK, PcTyped, FieldsTyped, Threads, Places,
          OffloadPlaces, AllCalls, Cmds, NoCmd, Mutex, Holding, BlockedIsCommand,
          DeviceOutlivesCall, At, Goto, locks, playback, device, offload
<1>1. CASE OffloadStart
  <2>1. TypeOK'
    <3>1. PcTyped'
      BY <1>1 DEF OffloadStart
    <3>2. /\ UNCHANGED <<op, lock, pre_lock, adev_lock, standby>>
          /\ UNCHANGED <<send_new_metadata, open, offload_cmd_list, cmd>>
          /\ UNCHANGED <<offload_thread_blocked, compr, data>>
          /\ offload_state' = "IDLE"
      BY <1>1 DEF OffloadStart
    <3>3. playback_started' \in BOOLEAN
      BY <1>1, Zenon DEF OffloadStart
    <3>4. FieldsTyped'
      BY <3>2, <3>3
    <3> QED
      BY <3>1, <3>4
  <2>2. Mutex'
    BY <1>1 DEF OffloadStart
  <2>3. BlockedIsCommand'
    BY <1>1 DEF OffloadStart
  <2>4. DeviceOutlivesCall'
    BY <1>1 DEF OffloadStart
  <2> QED
    BY <2>1, <2>2, <2>3, <2>4
<1>2. CASE OffloadSleep
  BY <1>2 DEF OffloadSleep, Looping
<1>3. CASE OffloadExit
  BY <1>3 DEF OffloadExit, Looping, Signalled, Sleepers
<1>4. CASE OffloadDrop
  BY <1>4 DEF OffloadDrop, Looping, Signalled, Sleepers
<1>5. CASE OffloadCall
  BY <1>5 DEF OffloadCall, Looping
<1>6. CASE OffloadReturn
  BY <1>6 DEF OffloadReturn
<1>7. CASE OffloadDone
  <2>1. TypeOK'
    <3>1. PcTyped'
      BY <1>7 DEF OffloadDone, Signalled, Sleepers
    <3>2. /\ UNCHANGED <<op, lock, pre_lock, adev_lock, standby, playback_started>>
          /\ UNCHANGED <<send_new_metadata, open, offload_state>>
          /\ UNCHANGED <<offload_cmd_list, compr, data>>
          /\ cmd' = NoCmd
      BY <1>7 DEF OffloadDone
    <3>3. offload_thread_blocked' \in BOOLEAN
      BY <1>7, Zenon DEF OffloadDone
    <3>4. FieldsTyped'
      BY <3>2, <3>3
    <3> QED
      BY <3>1, <3>4
  <2>2. Mutex'
    BY <1>7 DEF OffloadDone, Signalled, Sleepers
  <2>3. BlockedIsCommand'
    BY <1>7 DEF OffloadDone, Signalled, Sleepers
  <2>4. DeviceOutlivesCall'
    BY <1>7 DEF OffloadDone, Signalled, Sleepers
  <2> QED
    BY <2>1, <2>2, <2>3, <2>4
<1>8. CASE Play
  BY <1>8 DEF Play
<1>9. CASE adev_open_output_stream
  <2>1. TypeOK'
    <3>1. PcTyped'
      BY <1>9 DEF adev_open_output_stream
    <3>2. FieldsTyped'
      BY <1>9 DEF adev_open_output_stream
    <3> QED
      BY <3>1, <3>2
  <2>2. Mutex'
    BY <1>9 DEF adev_open_output_stream
  <2>3. BlockedIsCommand'
    BY <1>9 DEF adev_open_output_stream
  <2>4. DeviceOutlivesCall'
    BY <1>9 DEF adev_open_output_stream
  <2> QED
    BY <2>1, <2>2, <2>3, <2>4
<1>10. ASSUME NEW t \in Threads, TakeLock(t) PROVE IInv'
  BY <1>10 DEF TakeLock, Chosen
<1>11. ASSUME NEW t \in Threads, TakePreLock(t) PROVE IInv'
  BY <1>11 DEF TakePreLock
<1>12. ASSUME NEW t \in Threads, Relock(t) PROVE IInv'
  BY <1>12 DEF Relock
<1>13. ASSUME NEW t \in Clients, Call(t) PROVE IInv'
  BY <1>13 DEF Call
<1>14. ASSUME NEW t \in Clients, parse_compress_metadata(t) PROVE IInv'
  BY <1>14 DEF parse_compress_metadata
<1>15. ASSUME NEW t \in Clients, out_get_render_position(t) PROVE IInv'
  BY <1>15 DEF out_get_render_position, Holds, Unlock, Leave, Returned
<1>16. ASSUME NEW t \in Clients, out_pause(t) PROVE IInv'
  BY <1>16 DEF out_pause, Holds, Unlock, Leave, Returned
<1>17. ASSUME NEW t \in Clients, out_resume(t) PROVE IInv'
  BY <1>17 DEF out_resume, Holds, Unlock, Leave, Returned
<1>18. ASSUME NEW t \in Clients, out_drain(t) PROVE IInv'
  <2>1. TypeOK'
    <3>1. PcTyped'
      BY <1>18 DEF out_drain, Woken, Returned
    <3>2. op' \in [Threads -> AllCalls \cup {"none", "destroy"}]
      BY <1>18 DEF out_drain, Leave
    <3>3. offload_cmd_list' \in Seq(Cmds)
      BY <1>18 DEF out_drain
    <3>4. FieldsTyped'
      BY <1>18, <3>2, <3>3 DEF out_drain
    <3> QED
      BY <3>1, <3>4
  <2>2. Mutex'
    BY <1>18 DEF out_drain, Holds, Woken, Returned
  <2>3. BlockedIsCommand'
    BY <1>18 DEF out_drain, Woken, Returned
  <2>4. DeviceOutlivesCall'
    BY <1>18 DEF out_drain
  <2> QED
    BY <2>1, <2>2, <2>3, <2>4
<1>19. ASSUME NEW t \in Clients, out_set_parameters(t) PROVE IInv'
  BY <1>19 DEF out_set_parameters, Holds, Unlock, Leave, Returned
<1>20. ASSUME NEW t \in Clients, StartOutput(t) PROVE IInv'
  <2>1. TypeOK'
    <3>1. PcTyped'
      <4>1. pc' = pc \/ pc' = [pc EXCEPT ![t] = "pre_lock"]
        BY <1>20 DEF StartOutput
      <4> QED
        BY <4>1
    <3>2. op' \in [Threads -> AllCalls \cup {"none", "destroy"}]
      BY <1>20 DEF StartOutput, AllCalls
    <3>3. standby' \in BOOLEAN
      BY <1>20, Zenon DEF StartOutput
    <3>4. lock' \in {lock, NoThread} /\ compr' \in {compr, "setup"} /\ data' \in {data, "empty"}
      BY <1>20 DEF StartOutput
    <3>5. /\ UNCHANGED <<pre_lock, adev_lock, playback_started, offload_state>>
          /\ UNCHANGED <<send_new_metadata, open, offload_cmd_list, cmd>>
          /\ UNCHANGED offload_thread_blocked
      BY <1>20 DEF StartOutput
    <3>6. FieldsTyped'
      BY <3>2, <3>3, <3>4, <3>5
    <3> QED
      BY <3>1, <3>6
  <2>2. Mutex'
    BY <1>20 DEF StartOutput, Holds, AllCalls
  <2>3. BlockedIsCommand'
    BY <1>20 DEF StartOutput, Holds, AllCalls
  <2>4. DeviceOutlivesCall'
    BY <1>20 DEF StartOutput, Holds, AllCalls
  <2> QED
    BY <2>1, <2>2, <2>3, <2>4
<1>21. ASSUME NEW t \in Clients, SendMetadata(t) PROVE IInv'
  BY <1>21 DEF SendMetadata, Holds
<1>22. ASSUME NEW t \in Clients, out_write(t) PROVE IInv'
  <2>1. TypeOK'
    <3>1. PcTyped'
      BY <1>22 DEF out_write, Holds, Leave, Returned, Woken, Written, AllCalls
    <3>2. op' \in [Threads -> AllCalls \cup {"none", "destroy"}]
      BY <1>22 DEF out_write, Leave
    <3>3. offload_cmd_list' \in Seq(Cmds)
      BY <1>22 DEF out_write
    <3>4. data' \in {"empty", "some", "full"}
      BY <1>22 DEF out_write, Written
    <3>5. FieldsTyped'
      BY <1>22, <3>2, <3>3, <3>4 DEF out_write
    <3> QED
      BY <3>1, <3>5
  <2>2. Mutex'
    BY <1>22 DEF out_write, Holds, Leave, Returned, Woken, Written, AllCalls
  <2>3. BlockedIsCommand'
    BY <1>22 DEF out_write, Holds, Leave, Returned, Woken, Written, AllCalls
  <2>4. DeviceOutlivesCall'
    BY <1>22 DEF out_write, Holds, Leave, Returned, Woken, Written, AllCalls
  <2> QED
    BY <2>1, <2>2, <2>3, <2>4
<1>23. ASSUME NEW t \in Clients, out_flush(t) PROVE IInv'
  <2>1. TypeOK'
    <3>1. PcTyped'
      BY <1>23 DEF out_flush, Holds, StopBegins, AllCalls
    <3>2. FieldsTyped'
      BY <1>23 DEF out_flush, Holds, StopBegins, AllCalls
    <3> QED
      BY <3>1, <3>2
  <2>2. Mutex'
    BY <1>23 DEF out_flush, Holds, StopBegins, AllCalls
  <2>3. BlockedIsCommand'
    BY <1>23 DEF out_flush, Holds, StopBegins, AllCalls
  <2>4. DeviceOutlivesCall'
    BY <1>23 DEF out_flush, Holds, StopBegins, AllCalls
  <2> QED
    BY <2>1, <2>2, <2>3, <2>4
<1>24. ASSUME NEW t \in Clients, out_standby(t) PROVE IInv'
  BY <1>24 DEF out_standby, Holds, StopBegins
<1>25. ASSUME NEW t \in Clients, StandbyAlready(t) PROVE IInv'
  BY <1>25 DEF StandbyAlready, Holds
<1>26. ASSUME NEW t \in Clients, StopWaits(t) PROVE IInv'
  BY <1>26 DEF StopWaits
<1>27. ASSUME NEW t \in Clients, FlushEnds(t) PROVE IInv'
  BY <1>27 DEF FlushEnds, Unlock, Leave, Returned
<1>28. ASSUME NEW t \in Clients, StandbyEnds(t) PROVE IInv'
  BY <1>28 DEF StandbyEnds, Waits
<1>29. ASSUME NEW t \in Clients, destroy_offload_callback_thread(t) PROVE IInv'
  BY <1>29 DEF destroy_offload_callback_thread, Woken
<1>30. ASSUME NEW t \in Clients, adev_close_output_stream(t) PROVE IInv'
  BY <1>30 DEF adev_close_output_stream, Leave
<1>31. CASE UNCHANGED vars
  BY <1>31 DEF vars
<1> QED
  BY <1>1, <1>2, <1>3, <1>4, <1>5, <1>6, <1>7, <1>8, <1>9, <1>10, <1>11, <1>12, <1>13,
     <1>14, <1>15, <1>16, <1>17, <1>18, <1>19, <1>20, <1>21, <1>22, <1>23, <1>24, <1>25,
     <1>26, <1>27, <1>28, <1>29, <1>30, <1>31
  DEF Next, offload_thread_loop, Contends, Body, Stopping

(* The inductive invariant holds in every reachable state.                 *)
THEOREM Invariance == Spec => []IInv
  BY InitIInv, StepIInv, PTL DEF Spec

(* Every field has its type, whatever the framework's threads call.        *)
THEOREM Typing == Spec => []TypeOK
<1>1. IInv => TypeOK
  BY DEF IInv
<1> QED
  BY Invariance, <1>1, PTL

(* out_standby and closing never close the compress device under a call of *)
(* the offload thread: DeviceOutlivesCall of AudioOffload.                 *)
THEOREM DeviceSafe == Spec => []DeviceOutlivesCall
<1>1. IInv => DeviceOutlivesCall
  BY DEF IInv
<1> QED
  BY Invariance, <1>1, PTL

(* out_flush returns only when the offload thread is out of its call:      *)
(* FlushIsQuiet of AudioOffload.                                           *)
THEOREM FlushQuiet == Spec => FlushIsQuiet
<1>1. IInv /\ [Next]_vars => [\A t \in Clients : FlushEnds(t) => ~ At(Offload, "call")]_vars
  BY DEF IInv, BlockedIsCommand, DeviceOutlivesCall, FlushEnds, Waits, At
<1> QED
  BY Invariance, <1>1, PTL DEF Spec, FlushIsQuiet

===============================================================================
