-------------------------------- MODULE Parcel --------------------------------
(***************************************************************************)
(* The binder parcel (libs/binder/Parcel.cpp): a growing block of memory   *)
(* in which plain data and flattened objects (binders, handles, file       *)
(* descriptors) follow one another, an index of the places where objects   *)
(* stand, and the references and descriptors the parcel holds for them.    *)
(*                                                                         *)
(* A call is a function of a world w: the parcel w.p, the references held  *)
(* on behalf of parcels, the table of file descriptors and the global size *)
(* of parcel memory; it returns [ok, w].  w.bad is the number of           *)
(* allocations and dups until one fails (0: none will).  Memory is counted *)
(* in words of 4 bytes, and a flat_binder_object takes ObjWords of them.   *)
(* Left out: the checks against INT32_MAX, which are beyond the bounds,    *)
(* mError, and the statistics (ashmem size, number of allocations).        *)
(***************************************************************************)
EXTENDS Integers, Sequences, SequencesExt, FiniteSets, FiniteSetsExt

CONSTANTS
  ObjWords,   \* the words of a flat_binder_object
  Fds         \* the file descriptors of the process

BinderTypes == {"BINDER", "WEAK_BINDER", "HANDLE", "WEAK_HANDLE"}
ASSUME ParcelAssumption == ObjWords \in Nat \ {0} /\ Fds \subseteq Nat /\ IsFiniteSet(Fds)

(* What a word of memory holds: an integer, the head of an object or the   *)
(* rest of one.  c is the cookie, which for a descriptor says that the     *)
(* parcel owns it.                                                         *)
Cell(t, v, c) == [t |-> t, v |-> v, c |-> c]
Word(v) == Cell("word", v, 0)
Junk == Cell("junk", 0, 0)
Obj(o) == <<o>> \o [i \in 1 .. ObjWords - 1 |-> Cell("rest", 0, 0)]
Val(cell) == IF cell.t = "word" THEN cell.v ELSE 1000
pad_size(bytes) == (bytes + 3) \div 4

Yes(w) == [ok |-> TRUE, w |-> w]
No(w) == [ok |-> FALSE, w |-> w]
Then(r, Op(_)) == IF r.ok THEN Op(r.w) ELSE r
(* An allocation, with its effect when there is memory.                    *)
Alloc(w, Done(_)) ==
  LET v == [w EXCEPT !.bad = IF @ = 0 THEN 0 ELSE @ - 1]
  IN IF w.bad = 1 THEN No(v) ELSE Yes(Done(v))
-------------------------------------------------------------------------------
(* File descriptors: who opened each one.  A close of one that is not open *)
(* is remembered; 0 stands for -1, where a close does nothing.             *)
Close(w, f) == IF f = 0 THEN w
               ELSE IF w.fd[f] = "free" THEN [w EXCEPT !.twice = TRUE]
               ELSE [w EXCEPT !.fd[f] = "free"]
FreeFds(w) == {f \in Fds : w.fd[f] = "free"}
(* dup() and ashmem_create_region(): the descriptor is in w.got.           *)
Open(w, by) ==
  IF FreeFds(w) = {} THEN No(w)
  ELSE Alloc(w, LAMBDA v : LET f == Min(FreeFds(v)) IN [v EXCEPT !.fd[f] = by, !.got = f])

(* The reference an object stands for.                                     *)
acquire_object(w, o) ==
  IF o.t \in BinderTypes /\ o.v # 0 THEN [w EXCEPT !.held[o.t] = @ + 1] ELSE w
(* The modern class passes a place for the ashmem statistics, the legacy   *)
(* one does not, and only with such a place is an owned descriptor closed. *)
release_object(w, o) ==
  CASE o.t \in BinderTypes /\ o.v # 0 -> [w EXCEPT !.held[o.t] = @ - 1]
    [] o.t = "FD" /\ ~w.legacy /\ o.c # 0 -> Close(w, o.v)
    [] OTHER -> w
-------------------------------------------------------------------------------
(* A parcel: its words, the memory behind them, where the next access      *)
(* goes, the index with the memory behind it, the place where the search   *)
(* for the next object starts, and who owns the memory.                    *)
initState == [data |-> <<>>, cap |-> 0, alloc |-> FALSE, pos |-> 0, objs |-> <<>>,
              ocap |-> 0, hint |-> 0, hasFds |-> FALSE, fdsKnown |-> TRUE,
              allowFds |-> TRUE, owner |-> FALSE, shrunk |-> FALSE]
Size(p) == Len(p.data)
ObjectAt(p, i) == p.data[p.objs[i] + 1]
(* The words at pos replaced, the parcel extended where they go beyond.    *)
Put(data, pos, cells) ==
  [i \in 1 .. Max({Len(data), pos + Len(cells)}) |->
     IF i > pos /\ i <= pos + Len(cells) THEN cells[i - pos] ELSE data[i]]
Resize(data, n) == [i \in 1 .. n |-> IF i <= Len(data) THEN data[i] ELSE Junk]

(* Every object of the index from the i-th on, given back or taken.        *)
Objects(p, from) == [i \in 1 .. Len(p.objs) - from + 1 |-> ObjectAt(p, from + i - 1)]
releaseFrom(w, from) == FoldLeft(LAMBDA v, o : release_object(v, o), w, Objects(w.p, from))
releaseObjects(w) == releaseFrom(w, 1)
acquireObjects(w, n) ==
  FoldLeft(LAMBDA v, o : acquire_object(v, o), w, SubSeq(Objects(w.p, 1), 1, n))
closeFileDescriptors(w) ==
  FoldLeft(LAMBDA v, o : IF o.t = "FD" THEN Close(v, o.v) ELSE v, w, Objects(w.p, 1))
(* The owner of received memory, IPCThreadState::freeBuffer, closes the    *)
(* descriptors that came with it and hands the buffer back to the driver.  *)
Owner(w) == closeFileDescriptors(w)

freeDataNoInit(w) ==
  IF w.p.owner THEN Owner(w)
  ELSE [releaseObjects(w) EXCEPT !.gsize = IF w.p.alloc THEN @ - w.p.cap ELSE @]
freeData(w) == [freeDataNoInit(w) EXCEPT !.p = initState]

scanForFds(p) ==
  [p EXCEPT !.hasFds = \E i \in 1 .. Len(p.objs) : ObjectAt(p, i).t = "FD", !.fdsKnown = TRUE]
hasFileDescriptors(p) == IF p.fdsKnown THEN p ELSE scanForFds(p)
-------------------------------------------------------------------------------
(* How many objects of the index stay when the parcel becomes desired long *)
Kept(p, desired) ==
  IF desired >= Size(p) THEN Len(p.objs)
  ELSE IF desired = 0 THEN 0
  ELSE Max({0} \cup {i \in 1 .. Len(p.objs) : p.objs[i] < desired})

(* continueWrite, memory of another owner: everything that stays is copied *)
(* and its references taken before the owner gives its own back.           *)
CopyKeeping(w, desired, n) ==
  Then(Alloc(w, LAMBDA v : v), LAMBDA v :
  Then(IF n = 0 THEN Yes(v) ELSE Alloc(v, LAMBDA u : acquireObjects(u, n)), LAMBDA u :
    LET p == u.p
    IN Yes([Owner(u) EXCEPT
         !.p = [p EXCEPT !.owner = FALSE, !.alloc = TRUE, !.cap = desired,
                         !.data = SubSeq(@, 1, Min({Size(p), desired})),
                         !.objs = SubSeq(@, 1, n), !.ocap = n, !.hint = 0],
         !.gsize = @ + desired])))
TakeOver(w, desired) ==
  IF desired = 0 THEN Yes(freeData(w)) ELSE CopyKeeping(w, desired, Kept(w.p, desired))

(* continueWrite, the parcel's own memory: objects beyond the end are      *)
(* given back, then the memory grows or what is in it is cut.  The array   *)
(* of the index shrinks and mObjectsCapacity is left alone: shrunk.        *)
DropObjects_KeepsRefs(w, n) ==
  IF n = Len(w.p.objs) THEN w
  ELSE [w EXCEPT !.p.objs = SubSeq(@, 1, n), !.p.hint = 0, !.p.shrunk = TRUE, !.p.fdsKnown = FALSE]
DropObjects(w, n) ==
  IF n = Len(w.p.objs) THEN w
  ELSE LET gone == SubSeq(Objects(w.p, 1), n + 1, Len(w.p.objs))
       IN [releaseFrom(w, n + 1) EXCEPT
             !.p = [w.p EXCEPT !.objs = SubSeq(@, 1, n), !.hint = 0, !.shrunk = TRUE,
                       !.fdsKnown = @ /\ \A i \in DOMAIN gone : gone[i].t # "FD"]]
GrowOrCut(w, desired) ==
  IF desired > w.p.cap
  THEN Alloc(w, LAMBDA v : [v EXCEPT !.p.cap = desired, !.gsize = @ + desired - w.p.cap])
  ELSE Yes([w EXCEPT !.p.data = SubSeq(@, 1, Min({Size(w.p), desired})),
                     !.p.pos = Min({@, desired})])
ResizeOwn(w, desired) == GrowOrCut(DropObjects(w, Kept(w.p, desired)), desired)

continueWrite(w, desired) ==
  IF w.p.owner THEN TakeOver(w, desired)
  ELSE IF w.p.alloc THEN ResizeOwn(w, desired)
  ELSE Alloc(w, LAMBDA v : [v EXCEPT !.p.alloc = TRUE, !.p.cap = desired, !.p.data = <<>>,
                                     !.p.pos = 0, !.gsize = @ + desired])
growData(w, len) == continueWrite(w, ((Size(w.p) + len) * 3) \div 2)

restartWrite(w, desired) ==
  IF w.p.owner THEN continueWrite(freeData(w), desired)
  ELSE LET fresh(v, cap) ==
             [releaseObjects(v) EXCEPT
                !.p = [initState EXCEPT !.cap = cap, !.alloc = TRUE],
                !.gsize = @ + cap - w.p.cap]
           r == Alloc(w, LAMBDA v : fresh(v, desired))
       IN IF r.ok \/ desired > w.p.cap THEN r ELSE Yes(fresh(r.w, w.p.cap))
-------------------------------------------------------------------------------
(* Size, position and capacity.                                            *)
setDataSize(w, n) == Then(continueWrite(w, n), LAMBDA v : Yes([v EXCEPT !.p.data = Resize(@, n)]))
setDataPosition(w, pos) == Yes([w EXCEPT !.p.pos = pos, !.p.hint = 0])
setDataCapacity(w, n) == IF n > w.p.cap THEN continueWrite(w, n) ELSE Yes(w)
setData(w, cells) ==
  Then(restartWrite(w, Len(cells)), LAMBDA v :
    Yes([v EXCEPT !.p.data = cells, !.p.fdsKnown = FALSE]))

(* Writing.  The words go to the position, after which the size is at      *)
(* least the position.                                                     *)
finishWrite(w, cells) ==
  Yes([w EXCEPT !.p.data = Put(@, w.p.pos, cells), !.p.pos = @ + Len(cells)])
writeInplace(w, cells) ==
  Then(IF w.p.pos + Len(cells) <= w.p.cap THEN Yes(w) ELSE growData(w, Len(cells)),
       LAMBDA v : finishWrite(v, cells))
writeAligned(w, cells) == writeInplace(w, cells)
writeUnpadded(w, cells) == writeInplace(w, cells)
writeInt32(w, v) == writeAligned(w, <<Word(v)>>)
(* The other scalars, of one word or two.                                  *)
writeScalar(w, words) == writeAligned(w, [i \in 1 .. words |-> Word(1)])
Bytes(n) == [i \in 1 .. pad_size(n) |-> Word(1)]
(* The length comes first, then the data; a null array or string is -1.    *)
writeByteArray(w, len) ==
  IF len < 0 THEN writeInt32(w, -1)
  ELSE Then(writeInt32(w, len), LAMBDA v : writeInplace(v, Bytes(len)))
writeString8(w, len) ==
  Then(writeInt32(w, len), LAMBDA v :
    IF len > 0 THEN writeInplace(v, Bytes(len + 1)) ELSE Yes(v))
writeString16(w, len) ==
  IF len < 0 THEN writeInt32(w, -1)
  ELSE Then(writeInt32(w, len), LAMBDA v : writeInplace(v, Bytes((len + 1) * 2)))
writeInterfaceToken(w, len) ==
  \* the answer of the first write is not looked at
  writeString16(writeInt32(w, 0).w, len)

(* An object goes to the position and into the index.                      *)
Record(w, o) == acquire_object([w EXCEPT !.p.objs = Append(@, w.p.pos)], o)
PlaceObject(w, o, nullMetaData) ==
  LET v == IF o.t = "FD" THEN [w EXCEPT !.p.hasFds = TRUE, !.p.fdsKnown = TRUE] ELSE w
      u == IF nullMetaData \/ o.v # 0 THEN Record(v, o) ELSE v
  IN IF o.t = "FD" /\ ~w.p.allowFds THEN No(w) ELSE finishWrite(u, Obj(o))
RoomForObject(w) ==
  LET n == Len(w.p.objs)
  IN Then(IF w.p.pos + ObjWords <= w.p.cap THEN Yes(w) ELSE growData(w, ObjWords), LAMBDA v :
       IF n < w.p.ocap THEN Yes(v)
       ELSE Alloc(v, LAMBDA u : [u EXCEPT !.p.ocap = ((n + 2) * 3) \div 2]))
writeObject(w, o, nullMetaData) ==
  Then(RoomForObject(w), LAMBDA v : PlaceObject(v, o, nullMetaData))

(* A binder is written with its type; a null one leaves no trace in the    *)
(* index, nor does the handle 0 of the context manager.                    *)
flatten_binder(w, t, v) == writeObject(w, Cell(t, v, IF t = "BINDER" THEN v ELSE 0), FALSE)
writeFileDescriptor(w, f, takeOwnership) ==
  writeObject(w, Cell("FD", f, IF takeOwnership THEN 1 ELSE 0), TRUE)
(* What cannot be handed to the parcel is closed again.                    *)
OrClose(r, f) == IF r.ok THEN r ELSE No(Close(r.w, f))
writeDupFileDescriptor(w) ==
  Then(Open(w, "parcel"), LAMBDA v : OrClose(writeFileDescriptor(v, v.got, TRUE), v.got))
writeNativeHandle(w, fds, ints) ==
  Then(writeInt32(w, fds), LAMBDA a :
  Then(writeInt32(a, ints), LAMBDA b :
  Then(IF fds = 0 THEN Yes(b) ELSE writeDupFileDescriptor(b), LAMBDA c :
    IF ints = 0 THEN Yes(c) ELSE writeInplace(c, Bytes(4 * ints)))))
(* A small blob, or any blob of a parcel that takes no descriptors, is     *)
(* written in place; a large one goes into a region of its own: create,    *)
(* protect, map, protect again, then hand over the descriptor.             *)
writeBlob(w, large, mutable) ==
  IF ~w.p.allowFds \/ ~large
  THEN Then(writeInt32(w, 0), LAMBDA v : writeInplace(v, Bytes(4)))
  ELSE Then(Open(w, "parcel"), LAMBDA v :
         OrClose(Then(Alloc(v, LAMBDA u : u), LAMBDA u :
                 Then(writeInt32(u, IF mutable THEN 2 ELSE 1), LAMBDA x :
                   writeFileDescriptor(x, v.got, TRUE))), v.got))
writeDupImmutableBlobFileDescriptor(w) ==
  IF ~w.p.allowFds THEN No(w)
  ELSE Then(writeInt32(w, 1), LAMBDA v : writeDupFileDescriptor(v))
writeFlattenable(w, bytes, fds) ==
  Then(writeInt32(w, bytes), LAMBDA a :
  Then(writeInt32(a, fds), LAMBDA b :
  Then(writeInplace(b, Bytes(4 * pad_size(bytes))), LAMBDA c :
    IF fds = 0 THEN Yes(c) ELSE writeDupFileDescriptor(c))))

(* The part of another parcel from offset on, with the objects that lie    *)
(* wholly in it.  A descriptor is duplicated and from then on owned; a     *)
(* failing dup leaves the descriptor -1, here 0.                           *)
AppendObject(w, off) ==
  LET o == w.p.data[off + 1]
      v == acquire_object([w EXCEPT !.p.objs = Append(@, off)], o)
      r == Open(v, "parcel")
      f == Cell("FD", IF r.ok /\ o.v # 0 THEN r.w.got ELSE 0, 1)
  IN IF o.t # "FD" THEN v
     ELSE [(IF o.v = 0 THEN v ELSE r.w) EXCEPT !.p.data[off + 1] = f, !.p.hasFds = TRUE, !.p.fdsKnown = TRUE]
Inside(q, offset, len) ==
  SelectSeq(q.objs, LAMBDA off : off >= offset /\ off + ObjWords <= offset + len)
appendFrom(w, q, offset, len) ==
  IF len = 0 THEN Yes(w)
  ELSE IF offset + len > Size(q) THEN No(w)
  ELSE LET offs == Inside(q, offset, len)
           start == w.p.pos
           n == Len(w.p.objs) + Len(offs)
       IN Then(IF Size(w.p) + len > w.p.cap THEN growData(w, len) ELSE Yes(w), LAMBDA v :
          Then(finishWrite(v, SubSeq(q.data, offset + 1, offset + len)), LAMBDA u :
          Then(IF offs = <<>> \/ n <= u.p.ocap THEN Yes(u)
               ELSE Alloc(u, LAMBDA x : [x EXCEPT !.p.ocap = (n * 3) \div 2]), LAMBDA x :
            LET all == FoldLeft(LAMBDA y, off : AppendObject(y, off - offset + start), x, offs)
            IN [ok |-> x.p.allowFds \/ \A i \in DOMAIN offs : q.data[offs[i] + 1].t # "FD",
                w |-> all])))
-------------------------------------------------------------------------------
(* Reading.  A read beyond the size leaves the position alone; v is what   *)
(* was read.                                                               *)
Got(w, v) == [ok |-> TRUE, w |-> w, v |-> v]
Nothing(w) == [ok |-> FALSE, w |-> w, v |-> 0]
readAligned(w) ==
  IF w.p.pos + 1 <= Size(w.p) THEN Got([w EXCEPT !.p.pos = @ + 1], Val(w.p.data[w.p.pos + 1]))
  ELSE Nothing(w)
(* Every scalar reader, with the value 0 where nothing could be read.      *)
readScalar(w, words) ==
  IF words = 1 THEN readAligned(w)
  ELSE IF w.p.pos + words <= Size(w.p) THEN Got([w EXCEPT !.p.pos = @ + words], 1)
  ELSE Nothing(w)
readInplace(w, bytes) ==
  LET n == pad_size(bytes)
  IN IF w.p.pos + n <= Size(w.p) THEN Got([w EXCEPT !.p.pos = @ + n], n) ELSE Nothing(w)
readString8(w) ==
  LET r == readAligned(w) IN IF r.v > 0 THEN readInplace(r.w, r.v + 1) ELSE Nothing(r.w)
readString16(w) ==
  LET r == readAligned(w) IN IF r.v >= 0 THEN readInplace(r.w, (r.v + 1) * 2) ELSE Nothing(r.w)
enforceInterface(w) == readString16(readAligned(w).w)

(* The index entry for the object at pos: forwards from the hint, then     *)
(* backwards.                                                              *)
Forwards(p, pos) ==
  LET n == Len(p.objs)
  IN IF p.hint >= n THEN n
     ELSE Min({n} \cup {i \in p.hint + 1 .. n : p.objs[i] >= pos})
Backwards(p, pos, from) == Max({1} \cup {k \in 1 .. from : p.objs[k] <= pos})
IfThere(p, pos, i) == IF p.objs[i] = pos THEN i ELSE 0
FindObject_ForwardsOnly(p, pos) ==
  IF p.objs = <<>> THEN 0 ELSE IfThere(p, pos, Forwards(p, pos))
FindObject(p, pos) ==
  IF p.objs = <<>> THEN 0 ELSE IfThere(p, pos, Backwards(p, pos, Forwards(p, pos)))
Taken(w, i) == IF i = 0 THEN No(w) ELSE Yes([w EXCEPT !.p.hint = i])
readObject(w, nullMetaData) ==
  LET p == w.p
      o == p.data[p.pos + 1]
      v == [w EXCEPT !.p.pos = @ + ObjWords]
  IN IF p.pos + ObjWords > Size(p) THEN No(w)
     ELSE IF ~nullMetaData /\ o.c = 0 /\ o.v = 0 THEN Yes(v)
     ELSE Taken(v, FindObject(p, p.pos))
readFileDescriptor(w) ==
  LET r == readObject(w, TRUE)
  IN [r EXCEPT !.ok = @ /\ w.p.data[w.p.pos + 1].t = "FD"]
(* unflatten_binder                                                        *)
readBinder(w) ==
  LET r == readObject(w, FALSE)
  IN [r EXCEPT !.ok = @ /\ w.p.data[w.p.pos + 1].t \in BinderTypes]
(* The caller of these three closes the duplicates it is given.            *)
readNativeHandle(w) ==
  LET a == readAligned(w)
      b == readAligned(a.w)
      c == IF a.v = 0 THEN Yes(b.w) ELSE readFileDescriptor(b.w)
  IN IF a.ok /\ b.ok THEN readInplace(c.w, 4 * b.v) ELSE Nothing(b.w)
readBlob(w, bytes) ==
  LET a == readAligned(w)
  IN IF ~a.ok THEN Nothing(a.w)
     ELSE IF a.v = 0 THEN readInplace(a.w, bytes)
     ELSE readFileDescriptor(a.w)
readFlattenable(w) ==
  LET a == readAligned(w)
      b == readAligned(a.w)
      c == readInplace(b.w, a.v)
  IN IF c.ok /\ b.v # 0 THEN readFileDescriptor(c.w) ELSE c
(* A reply header, marked by an exception code, is stepped over.           *)
readExceptionCode(w, header) ==
  LET a == readAligned(w)
      b == readAligned(a.w)
  IN IF a.ok /\ a.v = header THEN setDataPosition(b.w, a.w.p.pos + b.v) ELSE a

(* Memory of the driver, with its index, replaces what the parcel had.  An *)
(* index that does not ascend is not trusted.                              *)
Ascends(objs) == \A i \in 2 .. Len(objs) : objs[i] >= objs[i - 1] + ObjWords
ipcSetDataReference(w, data, objs) ==
  LET v == freeDataNoInit(w)
      p == [w.p EXCEPT !.data = data, !.cap = Len(data), !.alloc = TRUE, !.pos = 0,
                       !.objs = IF Ascends(objs) THEN objs ELSE <<>>, !.ocap = Len(objs),
                       !.hint = 0, !.owner = TRUE, !.shrunk = FALSE]
  IN Yes([v EXCEPT !.p = scanForFds(p)])
===============================================================================
