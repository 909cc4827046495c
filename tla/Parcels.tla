-------------------------------- MODULE Parcels --------------------------------
(***************************************************************************)
(* Two parcels of one class and the code that uses them: it writes, seeks, *)
(* cuts, appends one to the other, reads, and sends one through the driver *)
(* to become the contents of the other.  Any one allocation of a call may  *)
(* fail.  A careful user: it writes objects and appended parts at the end, *)
(* plain words anywhere but over an object, cuts between objects, and does *)
(* not write to received memory that came with descriptors.                *)
(***************************************************************************)
EXTENDS LegacyParcel

CONSTANTS
  Names,      \* the parcels
  Writers,    \* bound: the parcels that are written to by every call
  BinderUses, \* the types of binders written
  Lengths,    \* bound: the byte lengths of strings and arrays, -1 for null
  MaxWords,   \* bound: the words of a parcel
  MaxBad,     \* bound: the allocation that fails is one of the first so many
  MaxCalls    \* bound: the calls of a behaviour

VARIABLES
  parcels,    \* the parcels by name
  held,       \* references held by parcels, by type
  fd,         \* who opened each descriptor
  gsize,      \* gParcelGlobalAllocSize
  twice,      \* a descriptor was closed that was not open
  legacy,     \* the class of the two
  calls       \* calls so far

vars == <<parcels, held, fd, gsize, twice, legacy, calls>>

Init ==
  /\ parcels = [n \in Names |-> initState]
  /\ held = [t \in BinderTypes |-> 0]
  /\ fd = [f \in Fds |-> IF f = Min(Fds) THEN "client" ELSE "free"]
  /\ gsize = 0 /\ twice = FALSE /\ legacy \in BOOLEAN /\ calls = 0

World(n, bad) ==
  [p |-> parcels[n], held |-> held, fd |-> fd, gsize |-> gsize, twice |-> twice,
   legacy |-> legacy, bad |-> bad, got |-> 0]
Becomes(n, w) ==
  /\ parcels' = [parcels EXCEPT ![n] = w.p]
  /\ held' = w.held /\ fd' = w.fd /\ gsize' = w.gsize /\ twice' = w.twice
  /\ UNCHANGED legacy
(* A call of either class, with any of its allocations failing.            *)
Does(n, Modern(_), Legacy(_)) ==
  \E bad \in 0 .. MaxBad :
    Becomes(n, IF legacy THEN Legacy(World(n, bad)).w ELSE Modern(World(n, bad)).w)

P(n) == parcels[n]
HasFd(p) == \E i \in 1 .. Len(p.objs) : ObjectAt(p, i).t = "FD"
(* Words of an object stand at one of the len places from pos on.          *)
OverObject(p, pos, len) ==
  \E i \in 1 .. Len(p.objs) : p.objs[i] < pos + len /\ p.objs[i] + ObjWords > pos
AtEnd(n, len) == P(n).pos = Size(P(n)) /\ Size(P(n)) + len <= MaxWords /\ ~(P(n).owner /\ HasFd(P(n)))
ForObject(n, len) == AtEnd(n, len) /\ ~P(n).shrunk
-------------------------------------------------------------------------------
WriteWord(n) ==
  /\ AtEnd(n, 1) \/ (~P(n).owner /\ P(n).pos < Size(P(n)) /\ ~OverObject(P(n), P(n).pos, 1))
  /\ Does(n, LAMBDA w : writeInt32(w, 1), LAMBDA w : legacy_writeInt32(w, 1))
WriteDouble(n) ==
  /\ AtEnd(n, 2)
  /\ Does(n, LAMBDA w : writeScalar(w, 2), LAMBDA w : legacy_writeScalar(w, 2))
WriteText(n) ==
  \E len \in Lengths :
    /\ AtEnd(n, 1 + pad_size((len + 1) * 2))
    /\ \/ Does(n, LAMBDA w : writeByteArray(w, len), LAMBDA w : legacy_writeArray(w, len))
       \/ Does(n, LAMBDA w : writeString16(w, len), LAMBDA w : legacy_writeString16(w, len))
       \/ /\ len >= 0
          /\ Does(n, LAMBDA w : writeString8(w, len), LAMBDA w : legacy_writeString8(w, len))
       \/ /\ AtEnd(n, 2 + pad_size((len + 1) * 2)) /\ len >= 0
          /\ Does(n, LAMBDA w : writeInterfaceToken(w, len),
                     LAMBDA w : legacy_writeInterfaceToken(w, len))
       \/ /\ len > 0
          /\ Does(n, LAMBDA w : writeUnpadded(w, Bytes(len)), LAMBDA w : legacy_writeInplace(w, Bytes(len)))
WriteBinder(n) ==
  /\ ForObject(n, ObjWords) /\ ~legacy
  /\ \E t \in BinderUses, v \in {0, 1} :
       Does(n, LAMBDA w : flatten_binder(w, t, v), LAMBDA w : Yes(w))
(* The legacy class must not be given a descriptor it will refuse.         *)
FdTaken(n) == ~legacy \/ P(n).allowFds
WriteFd(n) ==
  /\ ForObject(n, ObjWords) /\ FdTaken(n)
  /\ \/ Does(n, LAMBDA w : writeFileDescriptor(w, Min(Fds), FALSE),
                LAMBDA w : legacy_writeFileDescriptor(w, Min(Fds), FALSE))
     \/ Does(n, LAMBDA w : writeDupFileDescriptor(w), LAMBDA w : legacy_writeDupFileDescriptor(w))
WriteCompound(n) ==
  /\ ForObject(n, ObjWords + 1)
  /\ \/ \E large, mutable \in BOOLEAN :
          Does(n, LAMBDA w : writeBlob(w, large, mutable), LAMBDA w : legacy_writeBlob(w, large))
     \/ /\ ~legacy
        /\ Does(n, LAMBDA w : writeDupImmutableBlobFileDescriptor(w), LAMBDA w : Yes(w))
     \/ /\ ForObject(n, ObjWords + 3) /\ FdTaken(n)
        /\ \E fds, ints \in {0, 1} :
             Does(n, LAMBDA w : writeNativeHandle(w, fds, ints),
                     LAMBDA w : legacy_writeNativeHandle(w, fds, ints))
     \/ /\ ForObject(n, ObjWords + 3) /\ FdTaken(n)
        /\ \E bytes \in {0, 1}, fds \in {0, 1} :
             Does(n, LAMBDA w : writeFlattenable(w, bytes, fds),
                     LAMBDA w : legacy_writeFlattenable(w, bytes, fds))
     \/ /\ ForObject(n, 2 * ObjWords + 2) /\ FdTaken(n) /\ legacy
        /\ \E f, comm \in BOOLEAN :
             Does(n, LAMBDA w : Yes(w), LAMBDA w : writeParcelFileDescriptor(w, f, comm))
AppendOther(n) ==
  /\ ForObject(n, 1)
  /\ \E m \in Names \ {n}, offset \in 0 .. MaxWords, len \in 1 .. MaxWords :
       /\ offset + len <= Size(P(m)) + 1 /\ Size(P(n)) + len <= MaxWords
       /\ Does(n, LAMBDA w : appendFrom(w, P(m), offset, len),
                  LAMBDA w : legacy_appendFrom(w, P(m), offset, len))
-------------------------------------------------------------------------------
Seek(n) ==
  \E pos \in {0, Size(P(n))} :
    Does(n, LAMBDA w : setDataPosition(w, pos), LAMBDA w : setDataPosition(w, pos))
Cut(n) ==
  \E size \in 0 .. MaxWords :
    /\ size < Size(P(n)) => ~OverObject(P(n), size, 0)
    /\ ~(P(n).owner /\ HasFd(P(n)) /\ size > 0)
    /\ Does(n, LAMBDA w : setDataSize(w, size), LAMBDA w : legacy_setDataSize(w, size))
Reserve(n) ==
  /\ ~(P(n).owner /\ HasFd(P(n)))
  /\ Does(n, LAMBDA w : setDataCapacity(w, MaxWords),
             LAMBDA w : legacy_setDataCapacity(w, MaxWords))
SetData(n) ==
  /\ P(n).objs = <<>>
  /\ Does(n, LAMBDA w : setData(w, <<Word(1)>>), LAMBDA w : legacy_setData(w, <<Word(1)>>))
AllowFds(n) ==
  /\ P(n).allowFds
  /\ parcels' = [parcels EXCEPT ![n].allowFds = FALSE]  \* pushAllowFds
  /\ UNCHANGED <<held, fd, gsize, twice, legacy>>
RestoreAllowFds(n) ==
  /\ ~P(n).allowFds
  /\ parcels' = [parcels EXCEPT ![n].allowFds = TRUE]
  /\ UNCHANGED <<held, fd, gsize, twice, legacy>>
AskForFds(n) ==
  /\ parcels' = [parcels EXCEPT ![n] = IF legacy THEN legacy_hasFileDescriptors(@)
                                       ELSE hasFileDescriptors(@)]
  /\ UNCHANGED <<held, fd, gsize, twice, legacy>>
Delete(n) ==
  Does(n, LAMBDA w : Yes([freeDataNoInit(w) EXCEPT !.p = initState]),
          LAMBDA w : Yes([legacy_freeDataNoInit(w) EXCEPT !.p = legacy_initState]))
-------------------------------------------------------------------------------
Read(n) ==
  \/ Does(n, LAMBDA w : readAligned(w), LAMBDA w : legacy_readAligned(w))
  \/ Does(n, LAMBDA w : readScalar(w, 2), LAMBDA w : legacy_readScalar(w, 2))
  \/ Does(n, LAMBDA w : readString8(w), LAMBDA w : legacy_readString(w, FALSE))
  \/ Does(n, LAMBDA w : enforceInterface(w), LAMBDA w : legacy_readString(w, TRUE))
  \/ Does(n, LAMBDA w : readInplace(w, 5), LAMBDA w : legacy_readInplace(w, 5))
  \/ Does(n, LAMBDA w : readExceptionCode(w, 1), LAMBDA w : readExceptionCode(w, 1))
ReadObjects(n) ==
  \/ Does(n, LAMBDA w : readBinder(w), LAMBDA w : readParcelFileDescriptor(w))
  \/ Does(n, LAMBDA w : readFileDescriptor(w), LAMBDA w : legacy_readObject(w))
  \/ Does(n, LAMBDA w : readNativeHandle(w), LAMBDA w : legacy_readNativeHandle(w))
  \/ Does(n, LAMBDA w : readBlob(w, 4), LAMBDA w : legacy_readBlob(w, 4))
  \/ Does(n, LAMBDA w : readFlattenable(w), LAMBDA w : legacy_readFlattenable(w))

(* The binder driver: what was sent arrives with its local binders turned  *)
(* into handles and its descriptors installed anew, cookies untouched.  A  *)
(* sender that is not this class may send its index in any order.          *)
Install(w, off) ==
  LET o == w.p.data[off + 1]
      r == Open(w, "driver")
  IN CASE o.t = "FD" -> [r.w EXCEPT !.p.data[off + 1].v = r.w.got]
       [] o.t = "BINDER" -> [w EXCEPT !.p.data[off + 1] = Cell("HANDLE", o.v, 0)]
       [] o.t = "WEAK_BINDER" -> [w EXCEPT !.p.data[off + 1] = Cell("WEAK_HANDLE", o.v, 0)]
       [] OTHER -> w
Arrives(sent, p, objs) ==   \* in the parcel p
  LET w == [sent EXCEPT !.p = p]
  IN IF legacy THEN legacy_ipcSetDataReference(w, sent.p.data, objs)
     ELSE ipcSetDataReference(w, sent.p.data, objs)
FdCount(p) == Cardinality({i \in 1 .. Len(p.objs) : ObjectAt(p, i).t = "FD"})
Transact(n, m) ==
  /\ n # m  /\ Size(P(n)) > 0
  /\ \A i \in 1 .. Len(P(n).objs) : ~(ObjectAt(P(n), i).t = "FD" /\ ObjectAt(P(n), i).v = 0)
  /\ FdCount(P(n)) <= Cardinality({f \in Fds : fd[f] = "free"})
  /\ \E objs \in {P(n).objs, Reverse(P(n).objs)} :
       Becomes(m, Arrives(FoldLeft(LAMBDA w, off : Install(w, off), World(n, 0), P(n).objs),
                          P(m), objs).w)

Next ==
  /\ calls < MaxCalls /\ calls' = calls + 1
  /\ \/ \E n \in Names :
          \/ WriteBinder(n) \/ AppendOther(n) \/ Seek(n) \/ Cut(n) \/ AskForFds(n)
          \/ Delete(n) \/ ReadObjects(n)
     \/ \E n \in Writers :
          \/ WriteWord(n) \/ WriteDouble(n) \/ WriteText(n) \/ WriteFd(n) \/ WriteCompound(n)
          \/ Reserve(n) \/ SetData(n) \/ AllowFds(n) \/ RestoreAllowFds(n) \/ Read(n)
     \/ \E n, m \in Names : Transact(n, m)
Spec == Init /\ [][Next]_vars
-------------------------------------------------------------------------------
Own == {n \in Names : ~P(n).owner}
Entries == {<<n, i>> \in Names \X (1 .. MaxWords) : i <= Len(P(n).objs)}
At(e) == ObjectAt(P(e[1]), e[2])
OwnedFds == {e \in Entries : e[1] \in Own /\ At(e).t = "FD" /\ At(e).c # 0}

(* Whatever was written, copied, cut, appended, received or refused, every *)
(* reference a parcel holds belongs to one object of its index, no more    *)
(* and no fewer; the memory counter is the sum of the parcels' capacities; *)
(* every owned descriptor is open, owned once and (modern class) each one  *)
(* the parcels opened is still owned; none is closed twice.                *)
HeldOnce ==
  /\ \A t \in BinderTypes :
       held[t] = Cardinality({e \in Entries : e[1] \in Own /\ At(e).t = t /\ At(e).v # 0})
  /\ gsize = MapThenSumSet(LAMBDA n : P(n).cap, {n \in Own : P(n).alloc})
  /\ ~twice
  /\ \A e \in OwnedFds : At(e).v # 0 =>
       fd[At(e).v] = "parcel" /\ \A d \in OwnedFds \ {e} : At(d).v # At(e).v
  /\ legacy \/ {f \in Fds : fd[f] = "parcel"} \subseteq {At(e).v : e \in OwnedFds}

(* readObject gives out exactly the objects of the index, from whatever    *)
(* place the last search left the hint: words that only look like an       *)
(* object are refused and no object is missed.  hasFileDescriptors, whose  *)
(* answer is remembered from call to call, never denies one of them.       *)
ObjectsFound ==
  \A n \in Names :
    /\ \A pos \in 0 .. Size(P(n)) - ObjWords :
         (FindObject(P(n), pos) # 0) <=> \E i \in 1 .. Len(P(n).objs) : P(n).objs[i] = pos
    /\ HasFd(P(n)) /\ P(n).fdsKnown => P(n).hasFds
===============================================================================
