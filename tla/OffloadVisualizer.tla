-------------------------- MODULE OffloadVisualizer --------------------------
(***************************************************************************)
(* The visualizer of the offload path (audio/visualizer): effects attached *)
(* to outputs, as in OffloadEffects, and a capture thread that runs while  *)
(* an output is active and reads the sound when an effect wants it.        *)
(*                                                                         *)
(* lock guards everything; it is dropped while the thread waits on cond,   *)
(* while it reads, and while stop_output joins it.  A step holds lock from *)
(* its beginning to its end, except that a thread that cannot open its     *)
(* capture device tries again without giving lock back.  thread_lock lets  *)
(* one start_output or stop_output run at a time.                          *)
(***************************************************************************)
EXTENDS Integers, FiniteSets

CONSTANTS
  VisEffects, VisOutputs, VisNone,
  CaptureBuf,    \* CAPTURE_BUF_SIZE, in samples
  CapturePeriod, \* AUDIO_CAPTURE_PERIOD_SIZE
  CaptureSizes   \* the sizes a client asks for

ASSUME OffloadVisualizerAssumption ==
  /\ CaptureBuf \in Nat /\ CapturePeriod \in 1 .. CaptureBuf
  /\ CaptureSizes \subseteq 1 .. CaptureBuf /\ VisNone \notin VisOutputs

VARIABLES
  vfx,       \* created_effects_list: effect -> context; last is last_capture_idx, stamped
             \*  that buffer_update_time is set, offload is offload_enabled
  vouts,     \* active_outputs_list: handle -> effects_list
  vthread,   \* the capture thread: "none", "begin", "wait", "woken", "read", "spin", "ended"
  capturing, \* capture_enabled: the capture device is open and the proxy on
  vctl,      \* [exit: exit_thread, status: thread_status]
  hal,       \* the output whose stop_output is joining the thread, or VisNone
  orphan     \* a thread was created over one nobody joined

visVars == <<vfx, vouts, vthread, capturing, vctl, hal, orphan>>
Running == {"begin", "wait", "woken", "read", "spin"}
VisInit ==
  /\ vfx = [v \in {} |-> {}] /\ vouts = [o \in {} |-> {}]
  /\ vthread = "none" /\ capturing = FALSE
  /\ vctl = [exit |-> FALSE, status |-> -1]
  /\ hal = VisNone /\ orphan = FALSE
-------------------------------------------------------------------------------
LockFree == vthread # "spin"
(* pthread_cond_signal(&cond) *)
Signalled(t) == IF t = "wait" THEN "woken" ELSE t

effects_enabled(effects, outputs) ==
  \E o \in DOMAIN outputs : \E v \in outputs[o] : effects[v].state = "ACTIVE"

(* The capture buffer is kept as the age of each sample in it: 0 is the    *)
(* newest, CaptureBuf anything too old or never written.                   *)
visualizer_reset(e) ==
  [e EXCEPT !.idx = 0, !.last = 0, !.stamped = FALSE,
            !.age = [i \in 0 .. CaptureBuf - 1 |-> CaptureBuf], !.filled = 0]
visualizer_init(output) ==
  visualizer_reset([state |-> "INITIALIZED", out |-> output, offload |-> FALSE, idx |-> 0,
                    last |-> 0, stamped |-> FALSE, age |-> << >>, filled |-> 0])
(* visualizer_process: CapturePeriod samples from idx on, where an index   *)
(* at the end of the buffer wraps before the next sample is stored.        *)
Older(age) == IF age + CapturePeriod > CaptureBuf THEN CaptureBuf ELSE age + CapturePeriod
Fed(e) ==
  LET stored == [n \in 0 .. CapturePeriod - 1 |-> (e.idx + n) % CaptureBuf]
  IN [e EXCEPT !.age = [i \in DOMAIN @ |->
                 IF \E n \in DOMAIN stored : stored[n] = i
                 THEN CapturePeriod - 1 - (CHOOSE n \in DOMAIN stored : stored[n] = i)
                 ELSE Older(@[i])],
               !.filled = Older(@), !.stamped = TRUE]
(* Mutant: the index is left at the start when the samples wrapped.        *)
visualizer_process_Short(e) ==
  [Fed(e) EXCEPT !.idx = IF @ + CapturePeriod > CaptureBuf THEN 0 ELSE @ + CapturePeriod]
visualizer_process(e) == [Fed(e) EXCEPT !.idx = ((@ + CapturePeriod - 1) % CaptureBuf) + 1]
(* VISUALIZER_CMD_CAPTURE, the DSP's latency being 0.  Of an active effect *)
(* it copies the size samples before idx, in two pieces when they lie      *)
(* across the end of the buffer.  late: the last samples came more than    *)
(* MAX_STALL_TIME_MS ago.  If they were captured before, the reply is then *)
(* cleared once, from the second piece on.                                 *)
Silence == -1
NoReply == << >>
Stalled(e, late) == e.last = e.idx /\ e.stamped /\ late
Copied(e, size, late) ==
  LET point == e.idx - size
      first == IF point < 0 THEN (IF -point > size THEN size ELSE -point) ELSE 0
      from == IF point < 0 THEN 0 ELSE point
  IN [i \in 0 .. size - 1 |-> IF i < first THEN e.age[CaptureBuf + point + i]
                              ELSE IF Stalled(e, late) THEN Silence
                              ELSE e.age[from + i - first]]
Captures(e) == e.offload /\ e.state = "ACTIVE"
visualizer_command(e, size, late) ==
  IF Captures(e) THEN Copied(e, size, late)
  ELSE IF e.offload THEN [i \in 0 .. size - 1 |-> Silence] ELSE NoReply
AfterCapture(e, late) ==
  IF Captures(e) THEN [e EXCEPT !.last = e.idx, !.stamped = @ /\ ~Stalled(e, late)] ELSE e
-------------------------------------------------------------------------------
(* The capture thread, from where it holds lock to where it gives it back. *)
capture_thread_loop(effects) ==
  /\ vfx' = effects
  /\ \/ vctl.exit /\ vthread' = "ended" /\ capturing' = FALSE
     \/ /\ ~vctl.exit /\ effects_enabled(effects, vouts)
        /\ \/ vthread' = "read" /\ capturing' = TRUE
           \/ ~capturing /\ vthread' = "spin" /\ UNCHANGED capturing
     \/ /\ ~vctl.exit /\ ~effects_enabled(effects, vouts)
        /\ vthread' = "wait" /\ capturing' = FALSE
  /\ UNCHANGED <<vouts, vctl, hal, orphan>>
(* The thread starts: without a mixer, after its retries, it ends.         *)
ThreadBegin ==
  /\ vthread = "begin"
  /\ \/ capture_thread_loop(vfx)
     \/ /\ vthread' = "ended"
        /\ UNCHANGED <<vfx, vouts, capturing, vctl, hal, orphan>>
ThreadWoken == vthread = "woken" /\ capture_thread_loop(vfx)
(* It tries the device again, and may have it this time.                   *)
ThreadSpin == vthread = "spin" /\ vthread' = "read" /\ capturing' = TRUE
              /\ UNCHANGED <<vfx, vouts, vctl, hal, orphan>>
(* The read returns: what it read goes to every attached effect, active or *)
(* not.                                                                    *)
Attached == UNION {vouts[o] : o \in DOMAIN vouts}
Processed == [v \in DOMAIN vfx |-> IF v \in Attached THEN visualizer_process(vfx[v]) ELSE vfx[v]]
ThreadRead ==
  /\ vthread = "read"
  /\ capture_thread_loop(Processed) \/ capture_thread_loop(vfx)
-------------------------------------------------------------------------------
Attach(outputs, o, v) ==
  IF o \in DOMAIN outputs THEN [outputs EXCEPT ![o] = @ \cup {v}] ELSE outputs
Detach(outputs, o, v) ==
  IF o \in DOMAIN outputs THEN [outputs EXCEPT ![o] = @ \ {v}] ELSE outputs
VWith(f, x, y) == [z \in DOMAIN f \cup {x} |-> IF z = x THEN y ELSE f[z]]
VWithout(f, x) == [z \in DOMAIN f \ {x} |-> f[z]]

visualizer_hal_start_output(o) ==
  /\ hal = VisNone /\ LockFree              \* thread_lock, lock
  /\ o \notin DOMAIN vouts
  /\ vouts' = VWith(vouts, o, {v \in DOMAIN vfx : vfx[v].out = o})
  /\ IF DOMAIN vouts = {}
     THEN /\ orphan' = (orphan \/ vctl.status = 0)
          /\ \/ vctl' = [exit |-> FALSE, status |-> 0] /\ vthread' = "begin"
             \/ vctl' = [exit |-> FALSE, status |-> -1] /\ UNCHANGED vthread  \* no thread
     ELSE vthread' = Signalled(vthread) /\ UNCHANGED <<vctl, orphan>>
  /\ UNCHANGED <<vfx, capturing, hal>>

(* stop_output up to the join: lock is given back, thread_lock is not.     *)
StopSection(o) ==
  /\ o \in DOMAIN vouts
  /\ vouts' = VWithout(vouts, o)
  /\ vthread' = Signalled(vthread)
  /\ IF DOMAIN vouts = {o} /\ vctl.status = 0
     THEN vctl' = [vctl EXCEPT !.exit = TRUE] /\ hal' = o
     ELSE UNCHANGED <<vctl, hal>>
  /\ UNCHANGED <<vfx, capturing, orphan>>
visualizer_hal_stop_output(o) == hal = VisNone /\ LockFree /\ StopSection(o)
(* pthread_join returns and stop_output takes lock again.                  *)
Joined ==
  /\ hal # VisNone /\ vthread = "ended"
  /\ vthread' = "none" /\ vctl' = [vctl EXCEPT !.status = -1] /\ hal' = VisNone
  /\ UNCHANGED <<vfx, vouts, capturing, orphan>>

(* The client's calls.                                                     *)
vis_effect_lib_create(v, o) ==
  /\ LockFree /\ v \notin DOMAIN vfx
  /\ vfx' = VWith(vfx, v, visualizer_init(o)) /\ vouts' = Attach(vouts, o, v)
  /\ UNCHANGED <<vthread, capturing, vctl, hal, orphan>>
vis_effect_lib_release(v) ==
  /\ LockFree
  /\ vouts' = Detach(vouts, vfx[v].out, v) /\ vfx' = VWithout(vfx, v)
  /\ UNCHANGED <<vthread, capturing, vctl, hal, orphan>>
SetState(v, from, to) ==
  /\ LockFree /\ vfx[v].state = from
  /\ vfx' = [vfx EXCEPT ![v].state = to]
  /\ vthread' = Signalled(vthread)
  /\ UNCHANGED <<vouts, capturing, vctl, hal, orphan>>
VisEnable(v) == SetState(v, "INITIALIZED", "ACTIVE")
VisDisable(v) == SetState(v, "ACTIVE", "INITIALIZED")
(* RESET, INIT and SET_CONFIG end in visualizer_reset.                     *)
VisReset(v) ==
  /\ LockFree /\ vfx' = [vfx EXCEPT ![v] = visualizer_reset(@)]
  /\ UNCHANGED <<vouts, vthread, capturing, vctl, hal, orphan>>
(* OFFLOAD: on, and the output the effect is to be on.                     *)
VisOffload(v, on, o) ==
  /\ LockFree
  /\ vouts' = IF o = vfx[v].out THEN vouts ELSE Attach(Detach(vouts, vfx[v].out, v), o, v)
  /\ vfx' = [vfx EXCEPT ![v].offload = on, ![v].out = o]
  /\ UNCHANGED <<vthread, capturing, vctl, hal, orphan>>
VisCapture(v, late) ==
  /\ LockFree /\ vfx' = [vfx EXCEPT ![v] = AfterCapture(@, late)]
  /\ UNCHANGED <<vouts, vthread, capturing, vctl, hal, orphan>>

ThreadStep == ThreadBegin \/ ThreadWoken \/ ThreadSpin \/ ThreadRead
VisNext ==
  \/ ThreadStep \/ Joined
  \/ \E o \in VisOutputs : visualizer_hal_start_output(o) \/ visualizer_hal_stop_output(o)
  \/ \E v \in VisEffects, o \in VisOutputs : vis_effect_lib_create(v, o)
  \/ \E v \in DOMAIN vfx : \/ vis_effect_lib_release(v) \/ VisEnable(v) \/ VisDisable(v)
                           \/ VisReset(v) \/ \E late \in BOOLEAN : VisCapture(v, late)
                           \/ \E on \in BOOLEAN, o \in VisOutputs : VisOffload(v, on, o)
-------------------------------------------------------------------------------
(* What VISUALIZER_CMD_CAPTURE returns of an active, offloaded effect is   *)
(* the last samples, in order, once so many were captured since the effect *)
(* was reset; where it is not, it is silence, and no sample came for a     *)
(* second.  (That a stalled capture is silence as a whole, as the comment  *)
(* at 852 wants, does not hold: see Copied.)  For that the capture thread  *)
(* is created and joined once, whatever clients do while stop_output drops *)
(* lock for the join: no second thread is created over one nobody joined,  *)
(* it runs only while an output is active, and the outputs hold created    *)
(* effects only, each where it belongs.                                    *)
CaptureIsLatest ==
  /\ \A v \in DOMAIN vfx, size \in CaptureSizes, late \in BOOLEAN :
       Captures(vfx[v]) /\ size <= vfx[v].filled =>
         LET reply == visualizer_command(vfx[v], size, late)
         IN \A i \in 0 .. size - 1 :
              IF late /\ reply[i] = Silence THEN vfx[v].last = vfx[v].idx
              ELSE reply[i] = size - 1 - i
  /\ ~orphan
  /\ hal = VisNone /\ DOMAIN vouts = {} => vthread = "none" /\ vctl.status = -1
  /\ capturing => vthread \in Running
  /\ \A o \in DOMAIN vouts : vouts[o] = {v \in DOMAIN vfx : vfx[v].out = o}
===============================================================================
