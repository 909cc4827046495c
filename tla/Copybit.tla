-------------------------------- MODULE Copybit --------------------------------
(***************************************************************************)
(* The copybit device on the 2D core (libcopybit/copybit_c2d.cpp) and its  *)
(* client, the CopyBit class of the hardware composer.                     *)
(*                                                                         *)
(* A stretch maps its buffers for the GPU, points a source surface at the  *)
(* one and the destination surface at the other, and appends one blit for  *)
(* each clip to blit_list.  The list is drawn later: by a finish, which    *)
(* waits for the GPU, or by a flush, after which a thread of the device    *)
(* waits for the time stamp and unmaps the buffers.  Every call holds      *)
(* wait_cleanup_lock and begins when no time stamp is waited for, so a     *)
(* call is one step; one client makes them.                                *)
(*                                                                         *)
(* Formats, sizes, rectangles, scale and alpha are data.  libC2D2 is       *)
(* external: any of its calls may fail, c2dWaitTimestamp and c2dFinish     *)
(* return when the GPU is done, an address is mapped or not (maps do not   *)
(* count), and a failing c2dUpdateSurface leaves the surface alone.  A     *)
(* handle with a gpuaddr of its own, which is never mapped here, and the   *)
(* two-pass scaling beyond 4096, which no screen needs, are left out.      *)
(***************************************************************************)
EXTENDS Integers, Sequences

CONSTANTS
  CbLayers,            \* the layers a client draws
  CbDests,             \* the destinations it draws into
  MaxSurfaces,         \* MAX_*_SURFACES: source surfaces of each type
  MaxBlits,            \* MAX_BLIT_OBJECT_COUNT
  MaxDrawn,            \* bound: layers of a frame
  MaxFaults            \* bound: failing calls

Types == {"RGB", "YUV2", "YUV3"}
None == "none"
TempSrc == "temp_src"
TempDst == "temp_dst"
(* An image: its buffer, its surface type and, if its width is not what    *)
(* the core needs, the size of the temporary buffer that stands for it.    *)
CbImage == {i \in [buf : STRING \ {None, TempSrc, TempDst}, type : Types, temp : Nat] :
              i.type = "RGB" => i.temp = 0}
ASSUME CopybitAssumption ==
  /\ MaxSurfaces \in [Types -> Nat \ {0}] /\ MaxBlits \in Nat \ {0}
  /\ MaxDrawn \in Nat /\ MaxFaults \in Nat
  /\ CbDests \subseteq CbImage
  /\ \A l \in CbLayers : l.image \in CbImage /\ l.turn \in Nat /\ l.clips \in Nat

(* One slot for every surface: mapped_gpu_addr.                            *)
Slots == 1 .. MaxSurfaces["RGB"] + MaxSurfaces["YUV2"] + MaxSurfaces["YUV3"] + 1
(* The surfaces of the core: a destination (0) and sources of each type.   *)
Surfaces == UNION {{t} \X (0 .. MaxSurfaces[t]) : t \in Types}
(* The calls of libC2D2 and of the allocator that may fail; "reject" is an *)
(* image the checks at the head of a stretch refuse, "alpha" a layer that  *)
(* blends to nothing.                                                      *)
Faults == {"none", "reject", "map_dst", "update_dst", "alloc_dst", "map_src", "update_src",
           "alloc_src", "clean_src", "alpha", "draw", "finish", "flush", "fence"}

VARIABLES
  cb,          \* the device: copybit_context_t and what libC2D2 keeps for it
  waiter,      \* the thread of the device, in c2d_wait_loop
  asleep,      \* who waits for wait_cleanup_cond: "waiter", "client"
  client,      \* where the client is: "closed", "idle", "clear", "layers", "finish", "close"
  dest,        \* the render buffer of the frame
  drawn,       \* layers drawn in the frame
  faults       \* calls that failed

cbVars == <<cb, waiter, asleep, client, dest, drawn, faults>>

Fresh(override, async) ==
  [override |-> override,   \* the driver can override the target's rotation
   async |-> async,         \* HWC_COPYBIT_ASYNC
   created |-> {},          \* surfaces the core has
   mapped |-> [i \in Slots |-> None],
   counts |-> [t \in Types |-> 0],
   list |-> <<>>,
   points |-> [s \in Surfaces |-> None],   \* the address of each surface
   dstType |-> "RGB",
   temp |-> [b \in {TempSrc, TempDst} |-> [size |-> 0, good |-> FALSE, holds |-> None]],
   turns |-> {},            \* the rotations config_mask overrides the target's with
   trg |-> 0,               \* trg_transform
   wait |-> FALSE,          \* wait_timestamp
   stop |-> FALSE,          \* stop_thread
   held |-> {},             \* addresses the core has mapped
   flight |-> {},           \* addresses the GPU is working on
   failed |-> FALSE,        \* a draw of the list failed and left the list
   dirty |-> FALSE,         \* a stretch failed and left its parameters
   right |-> TRUE]          \* every blit drawn so far was what was asked for

CbInit ==
  /\ cb = Fresh(FALSE, FALSE)
  /\ waiter = "ended" /\ asleep = {}
  /\ client = "closed" /\ dest = None /\ drawn = 0 /\ faults = 0
-------------------------------------------------------------------------------
(* Mappings.  A map that finds no free slot is remembered nowhere.         *)
Ok(w) == [ok |-> TRUE, idx |-> 0, w |-> w]
Fails(w) == [ok |-> FALSE, idx |-> 0, w |-> w]
c2d_get_gpuaddr(w, addr, fault) ==
  LET hits == {i \in Slots : w.mapped[i] \in {addr, None}}
      first == CHOOSE i \in hits : \A j \in hits : i <= j
      held == [w EXCEPT !.held = @ \cup {addr}]
  IN IF fault THEN Fails(w)
     ELSE IF hits = {} \/ w.mapped[first] = addr THEN Ok(held)
     ELSE [Ok([held EXCEPT !.mapped[first] = addr]) EXCEPT !.idx = first]

unmap_gpuaddr(w, idx) ==
  IF idx = 0 THEN w
  ELSE [w EXCEPT !.held = @ \ {w.mapped[idx]}, !.mapped[idx] = None]

(* A surface whose buffer was unmapped points nowhere until it is set      *)
(* again, and so it always is before it is used.                           *)
UnmapAll(w) ==
  [w EXCEPT !.points = [s \in Surfaces |-> None],
            !.held = @ \ {w.mapped[i] : i \in Slots}, !.mapped = [i \in Slots |-> None],
            !.counts = [t \in Types |-> 0], !.list = <<>>, !.failed = FALSE]

(* A surface is made to point at an image.                                 *)
set_image(w, surface, addr, map, update) ==
  LET m == c2d_get_gpuaddr(w, addr, map)
  IN IF ~m.ok THEN m
     ELSE IF update THEN Fails(unmap_gpuaddr(m.w, m.idx))
     ELSE [m EXCEPT !.w.points[surface] = addr]
-------------------------------------------------------------------------------
(* What the GPU would do with a blit now, and what was asked for.          *)
Holds(w, addr) == IF addr = TempSrc THEN w.temp[TempSrc].holds ELSE addr
BlitRight(w, b) ==
  /\ Holds(w, w.points[b.surface]) = b.from
  /\ w.points[<<w.dstType, 0>>] = b.to
  /\ {w.points[b.surface], b.to} \subseteq w.held
  /\ IF w.override THEN b.dirty \/ b.turns = {b.turn} ELSE w.trg = b.turn
Excused(w, b) == w.failed \/ b.late

(* The list is drawn onto the destination surface.                         *)
msm_copybit(w) ==
  IF w.list = <<>> THEN w
  ELSE [w EXCEPT
          !.flight = @ \cup (w.held \cap ({w.points[w.list[i].surface] : i \in DOMAIN w.list}
                                          \cup {w.points[<<w.dstType, 0>>]})),
          !.right = @ /\ \A i \in DOMAIN w.list :
                            Excused(w, w.list[i]) \/ BlitRight(w, w.list[i])]

(* A failing draw is lost; a failing finish keeps everything.              *)
finish_copybit_internal(w, fault) ==
  LET d == IF fault = "draw" THEN w ELSE msm_copybit(w)
  IN IF fault = "finish" THEN [d EXCEPT !.failed = TRUE]
     ELSE UnmapAll([d EXCEPT !.flight = {}])

(* The list is drawn, flushed and left to the thread, and a fence made.    *)
flush_get_fence_copybit(w, fault) ==
  LET d == IF fault = "draw" THEN w ELSE msm_copybit(w)
  IN IF fault \in {"draw", "flush", "fence"} THEN [d EXCEPT !.failed = TRUE]
     ELSE [d EXCEPT !.wait = TRUE]
-------------------------------------------------------------------------------
(* The parameters of the next stretch.  Without the override the rotation  *)
(* is the target's, so what is pending is drawn before it changes.         *)
set_parameter_copybit(w, turn, fault) ==
  IF w.override THEN [w EXCEPT !.turns = @ \cup {turn}]
  ELSE [finish_copybit_internal(w, fault) EXCEPT !.trg = turn]

clear_copybit(w, d, fault) ==
  set_image(w, <<"RGB", 0>>, d.buf, fault = "map_dst", fault = "update_dst").w
-------------------------------------------------------------------------------
(* A stretch.                                                              *)
AtLimit(w) == Len(w.list) = MaxBlits \/ \E t \in Types : w.counts[t] = MaxSurfaces[t]

(* Mutant: another type of destination does not draw what is pending.      *)
FinishBefore_AnyType(w, d) == AtLimit(w)
FinishBefore(w, d) == AtLimit(w) \/ w.dstType # d.type

(* A temporary buffer is kept as long as its size is right; a failing      *)
(* allocation leaves its size.                                             *)
get_temp_buffer(w, which, size, fault) ==
  IF w.temp[which].size = size THEN Ok(w)
  ELSE LET new == [w EXCEPT !.temp[which] = [size |-> size, good |-> ~fault, holds |-> None]]
       IN IF fault THEN Fails(new) ELSE Ok(new)

(* The image a surface is pointed at: itself or the temporary buffer,      *)
(* which a source is copied into.                                          *)
Destination(w, d, fault) ==
  LET t == get_temp_buffer(w, TempDst, d.temp, fault = "alloc_dst")
  IN IF d.temp = 0
     THEN set_image(w, <<d.type, 0>>, d.buf, fault = "map_dst", fault = "update_dst")
     ELSE IF ~t.ok THEN t
     ELSE set_image(t.w, <<d.type, 0>>, TempDst, fault = "map_dst" \/ ~t.w.temp[TempDst].good,
                    fault = "update_dst")

copy_image(w, s) ==
  IF w.temp[TempSrc].good THEN Ok([w EXCEPT !.temp[TempSrc].holds = s.buf]) ELSE Fails(w)

Source(w, s, fault) ==
  LET t == get_temp_buffer(w, TempSrc, s.temp, fault = "alloc_src")
      surface == <<s.type, w.counts[s.type] + 1>>
      copied == copy_image(t.w, s)
  IN IF s.temp = 0
     THEN set_image(w, surface, s.buf, fault = "map_src", fault = "update_src")
     ELSE IF ~t.ok \/ ~copied.ok THEN Fails(t.w)
     ELSE IF fault = "clean_src" THEN Fails(copied.w)
     ELSE set_image(copied.w, surface, TempSrc, fault = "map_src", fault = "update_src")

(* One blit for each clip.  A list that is full is drawn in between, which *)
(* unmaps the buffers of this very stretch: its later blits are `late'.    *)
Append_(w, blit) ==
  LET full == Len(w.list) = MaxBlits
      room == IF full THEN finish_copybit_internal(w, "none") ELSE w
  IN [room EXCEPT !.list = Append(@, [blit EXCEPT !.late = @ \/ full])]
LastLate(w) == w.list[Len(w.list)].late
Clips(w, blit, n) ==
  LET clip[i \in 0 .. n] ==
        IF i = 0 THEN w
        ELSE Append_(clip[i - 1], [blit EXCEPT !.late = i > 1 /\ LastLate(clip[i - 1])])
  IN clip[n]

need_to_execute_draw(d, s) == d.type # "RGB" \/ d.temp # 0 \/ s.temp # 0

Blit(w, d, l) ==
  [surface |-> <<l.image.type, w.counts[l.image.type] + 1>>, from |-> l.image.buf,
   to |-> IF d.temp = 0 THEN d.buf ELSE TempDst, turn |-> l.turn, turns |-> w.turns,
   late |-> FALSE, dirty |-> w.dirty]

Undo(w, dst) == unmap_gpuaddr(w, dst.idx)

(* The end of a stretch: its parameters are used up.                       *)
Listed(w, d, l, fault) ==
  [(IF need_to_execute_draw(d, l.image) THEN finish_copybit_internal(w, fault) ELSE w)
     EXCEPT !.turns = {}, !.dirty = FALSE]

stretch_copybit_internal(w, d, l, fault) ==
  LET atLimit == AtLimit(w)
      begun == [(IF FinishBefore(w, d)
                 THEN finish_copybit_internal(w, IF atLimit THEN "none" ELSE fault)
                 ELSE w) EXCEPT !.dstType = d.type]
      dst == Destination(begun, d, fault)
      src == Source(dst.w, l.image, fault)
      counted == [src.w EXCEPT !.counts[l.image.type] = @ + 1]
  IN IF fault = "reject" THEN [w EXCEPT !.dirty = TRUE]
     ELSE IF ~dst.ok THEN [dst.w EXCEPT !.dirty = TRUE]
     ELSE IF ~src.ok THEN [Undo(src.w, dst) EXCEPT !.dirty = TRUE]
     ELSE IF fault = "alpha" THEN [Undo(Undo(src.w, dst), src) EXCEPT !.dirty = TRUE]
     ELSE Listed(Clips(counted, Blit(src.w, d, l), l.clips), d, l, fault)
-------------------------------------------------------------------------------
(* The thread.  pthread_cond_signal wakes one of the waiters.              *)
Signal(sleepers) ==
  IF sleepers = {} THEN {{}} ELSE {sleepers \ {x} : x \in sleepers}

(* c2d_wait_loop reads stop_thread without the lock, then takes it.        *)
WaiterTop ==
  /\ waiter = "top"
  /\ waiter' = IF cb.stop THEN "ended" ELSE "lock"
  /\ UNCHANGED <<cb, asleep, client, dest, drawn, faults>>
WaiterLocks ==
  /\ waiter = "lock" /\ "waiter" \notin asleep
  /\ \/ cb.wait /\ waiter' = "gpu" /\ asleep' = asleep
     \/ ~cb.wait /\ cb.stop /\ waiter' = "ended" /\ asleep' = asleep
     \/ ~cb.wait /\ ~cb.stop /\ waiter' = waiter /\ asleep' = asleep \cup {"waiter"}
  /\ UNCHANGED <<cb, client, dest, drawn, faults>>
(* It holds the lock while it waits for the time stamp.                    *)
WaiterDone ==
  /\ waiter = "gpu"
  /\ cb' = [UnmapAll([cb EXCEPT !.flight = {}]) EXCEPT !.wait = FALSE]
  /\ asleep' \in Signal(asleep)
  /\ waiter' = IF cb.stop THEN "ended" ELSE "top"
  /\ UNCHANGED <<client, dest, drawn, faults>>

(* The GPU may finish what no one waits for.                               *)
GpuDone ==
  /\ waiter # "gpu" /\ cb.flight # {} /\ ~cb.wait
  /\ cb' = [cb EXCEPT !.flight = {}]
  /\ UNCHANGED <<waiter, asleep, client, dest, drawn, faults>>
-------------------------------------------------------------------------------
(* The client.                                                             *)
Fault(f) == faults' = IF f = "none" THEN faults ELSE faults + 1
Allowed == IF faults < MaxFaults THEN Faults ELSE {"none"}

(* clean_up of whatever open_copybit or the client got.  The mutex and the *)
(* thread of a failing open do not exist yet.                              *)
clean_up(w) == Fresh(FALSE, FALSE)

(* What a failing open has created: libC2D2 is missing, or a surface of    *)
(* some type cannot be had; it undoes the others.                          *)
Partly == {{}} \cup {{<<t, 0>>} : t \in Types}
            \cup {{t} \X (0 .. MaxSurfaces[t] - 1) : t \in Types}
(* The driver says what it can; either build is considered.                *)
open_copybit ==
  /\ client = "closed"
  /\ \/ /\ \E override, async \in BOOLEAN :
             cb' = [Fresh(override, async) EXCEPT !.created = Surfaces]
        /\ waiter' = "top" /\ client' = "idle" /\ faults' = faults
     \/ /\ faults < MaxFaults /\ faults' = faults + 1
        /\ \E some \in Partly : cb' = clean_up([cb EXCEPT !.created = some])
        /\ UNCHANGED <<waiter, client>>
  /\ UNCHANGED <<asleep, dest, drawn>>

(* A call takes wait_cleanup_lock and waits while a time stamp is waited   *)
(* for.                                                                    *)
Free == waiter # "gpu" /\ "client" \notin asleep
Sleep ==
  /\ client \in {"clear", "layers", "finish"} /\ Free /\ cb.wait
  /\ asleep' = asleep \cup {"client"}
  /\ UNCHANGED <<cb, waiter, client, dest, drawn, faults>>
Enter(at) == client = at /\ Free /\ ~cb.wait

(* CopyBit::prepare: a render buffer and what is to be drawn.              *)
prepare ==
  /\ client = "idle"
  /\ dest' \in CbDests /\ drawn' = 0
  /\ client' = IF dest'.type = "RGB" THEN "clear" ELSE "layers"
  /\ UNCHANGED <<cb, waiter, asleep, faults>>
(* CopyBit::draw clears the render buffer, draws the layers, and finishes. *)
clear ==
  /\ Enter("clear")
  /\ \E f \in Allowed \cap {"none", "map_dst", "update_dst"} :
       cb' = clear_copybit(cb, dest, f) /\ Fault(f)
  /\ client' = "layers"
  /\ UNCHANGED <<waiter, asleep, dest, drawn>>
drawLayerUsingCopybit ==
  /\ Enter("layers") /\ drawn < MaxDrawn
  /\ \E l \in CbLayers, f \in Allowed \ {"flush", "fence"} :
       /\ cb' = stretch_copybit_internal(set_parameter_copybit(cb, l.turn, "none"), dest, l, f)
       /\ Fault(f)
  /\ drawn' = drawn + 1
  /\ UNCHANGED <<waiter, asleep, client, dest>>
(* A client may go on with a destination of another type; another one of   *)
(* the same type would take the blits that are pending.                    *)
Redirect ==
  /\ client = "layers" /\ drawn \in 1 .. MaxDrawn - 1 /\ dest.type = cb.dstType
  /\ dest' \in {d \in CbDests : d.type # dest.type}
  /\ UNCHANGED <<cb, waiter, asleep, client, drawn, faults>>
LayersDone ==
  /\ client = "layers" /\ drawn > 0 /\ client' = "finish"
  /\ UNCHANGED <<cb, waiter, asleep, dest, drawn, faults>>

(* Mutant: the thread is not told.                                         *)
Told_No == {asleep}
Told == Signal(asleep)
finish ==
  /\ Enter("finish")
  /\ \E f \in Allowed \cap {"none", "draw", "finish", "flush", "fence"} :
       /\ cb' = IF cb.async THEN flush_get_fence_copybit(cb, f) ELSE finish_copybit_internal(cb, f)
       /\ Fault(f)
  /\ asleep' \in IF cb'.wait THEN Told ELSE {asleep}
  /\ client' = "idle"
  /\ UNCHANGED <<waiter, dest, drawn>>

(* close_copybit: the thread is stopped and joined.                        *)
close_copybit ==
  /\ client = "idle" /\ waiter # "gpu"
  /\ cb' = [cb EXCEPT !.stop = TRUE]
  /\ asleep' \in Signal(asleep)
  /\ client' = "close"
  /\ UNCHANGED <<waiter, dest, drawn, faults>>
Joined ==
  /\ client = "close" /\ waiter = "ended"
  /\ cb' = clean_up(cb) /\ client' = "closed"
  /\ UNCHANGED <<waiter, asleep, dest, drawn, faults>>

CbNext ==
  \/ WaiterTop \/ WaiterLocks \/ WaiterDone \/ GpuDone
  \/ open_copybit \/ prepare \/ Sleep \/ clear \/ drawLayerUsingCopybit \/ Redirect
  \/ LayersDone \/ finish \/ close_copybit \/ Joined
-------------------------------------------------------------------------------
(* Every blit the GPU draws reads the buffer of its own layer, goes to the *)
(* destination that was asked for, with both mapped, and turned as asked   *)
(* for (stretch_copybit_internal, set_parameter_copybit), but for blits of *)
(* a list a failing finish left behind, clips after a full list, and the   *)
(* rotation of a blit after a failing stretch left its parameters.  The    *)
(* addresses stay mapped until the GPU is done.                            *)
BlitsDrawnRight ==
  cb.right /\ (client # "closed" => cb.flight \subseteq cb.held)

(* Besides, no mapping is forgotten: mapped_gpu_addr names every one       *)
(* (finish_copybit_internal, c2d_wait_loop).                               *)
BlitsAreRight ==
  /\ BlitsDrawnRight
  /\ client # "closed" => cb.held = {cb.mapped[i] : i \in Slots} \ {None}

(* A time stamp is waited for by the thread, whatever the order in which   *)
(* the two come to the condition variable (flush_get_fence_copybit): so a  *)
(* call that sleeps is woken.                                              *)
WaiterServes ==
  /\ cb.wait => "waiter" \notin asleep /\ (client # "close" => waiter # "ended")
  /\ "client" \in asleep => cb.wait
===============================================================================
