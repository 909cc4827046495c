----------------------------- MODULE LegacyParcel -----------------------------
(***************************************************************************)
(* The second class of Parcel.cpp, parcel, which BoardConfig.mk turns on   *)
(* with LEGACY_BLOB_COMPATIBLE for libraries built against an older        *)
(* release.  It is a copy of Parcel: what was copied unchanged is the      *)
(* operator of Parcel, what differs is written out.  It has no binders of  *)
(* its own and never closes a descriptor it owns (release_object).         *)
(***************************************************************************)
EXTENDS Parcel

legacy_initState == initState
legacy_freeDataNoInit(w) == freeDataNoInit(w)
legacy_hasFileDescriptors(p) == hasFileDescriptors(p)
legacy_continueWrite(w, desired) == continueWrite(w, desired)
legacy_restartWrite(w, desired) == restartWrite(w, desired)
legacy_ipcSetDataReference(w, data, objs) == ipcSetDataReference(w, data, objs)

legacy_setDataSize(w, n) ==
  Then(legacy_continueWrite(w, n), LAMBDA v : Yes([v EXCEPT !.p.data = Resize(@, n)]))
legacy_setDataCapacity(w, n) == IF n > w.p.cap THEN legacy_continueWrite(w, n) ELSE Yes(w)
legacy_setData(w, cells) ==
  Then(legacy_restartWrite(w, Len(cells)), LAMBDA v :
    Yes([v EXCEPT !.p.data = cells, !.p.fdsKnown = FALSE]))
legacy_appendFrom(w, q, offset, len) == appendFrom(w, q, offset, len)

legacy_writeInplace(w, cells) == writeInplace(w, cells)
legacy_writeInt32(w, v) == writeAligned(w, <<Word(v)>>)
legacy_writeScalar(w, words) == writeScalar(w, words)
legacy_writeArray(w, len) ==
  IF len < 0 THEN legacy_writeInt32(w, -1)
  ELSE Then(legacy_writeInt32(w, len), LAMBDA v : legacy_writeInplace(v, Bytes(len)))
legacy_writeString8(w, len) == writeString8(w, len)
legacy_writeString16(w, len) == writeString16(w, len)
legacy_writeInterfaceToken(w, len) == writeInterfaceToken(w, len)

(* The index takes the object before the descriptor is refused.            *)
legacy_writeObject(w, o) ==
  Then(RoomForObject(w), LAMBDA v :
    LET u == Record(v, o)
    IN IF o.t = "FD" /\ ~v.p.allowFds THEN No(u)
       ELSE finishWrite(IF o.t = "FD" THEN [u EXCEPT !.p.hasFds = TRUE, !.p.fdsKnown = TRUE]
                        ELSE u, Obj(o)))
legacy_writeFileDescriptor(w, f, takeOwnership) ==
  legacy_writeObject(w, Cell("FD", f, IF takeOwnership THEN 1 ELSE 0))
legacy_writeDupFileDescriptor(w) ==
  Then(Open(w, "parcel"), LAMBDA v : OrClose(legacy_writeFileDescriptor(v, v.got, TRUE), v.got))
legacy_writeNativeHandle(w, fds, ints) ==
  Then(legacy_writeInt32(w, fds), LAMBDA a :
  Then(legacy_writeInt32(a, ints), LAMBDA b :
  Then(IF fds = 0 THEN Yes(b) ELSE legacy_writeDupFileDescriptor(b), LAMBDA c :
    IF ints = 0 THEN Yes(c) ELSE legacy_writeInplace(c, Bytes(4 * ints)))))
(* A flag says whether there is a descriptor, another whether there is a   *)
(* second one for its communication channel.                               *)
Flagged(w, there) ==
  Then(legacy_writeInt32(w, IF there THEN 1 ELSE 0), LAMBDA v :
    IF there THEN legacy_writeDupFileDescriptor(v) ELSE Yes(v))
writeParcelFileDescriptor(w, fd, commChannel) ==
  Then(Flagged(w, fd), LAMBDA v : IF fd THEN Flagged(v, commChannel) ELSE Yes(v))
readParcelFileDescriptor(w) ==
  LET a == readAligned(w)
      b == readFileDescriptor(a.w)
      c == readAligned(b.w)
  IN IF a.v = 0 THEN a
     ELSE IF b.ok /\ c.v # 0 THEN readFileDescriptor(c.w) ELSE IF b.ok THEN c ELSE b
(* The region is always read-only for the reader, so there is one flag.    *)
legacy_writeBlob(w, large) ==
  IF ~w.p.allowFds \/ ~large
  THEN Then(legacy_writeInt32(w, 0), LAMBDA v : legacy_writeInplace(v, Bytes(4)))
  ELSE Then(Open(w, "parcel"), LAMBDA v :
         OrClose(Then(Alloc(v, LAMBDA u : u), LAMBDA u :
                 Then(legacy_writeInt32(u, 1), LAMBDA x :
                   legacy_writeFileDescriptor(x, v.got, TRUE))), v.got))
legacy_writeFlattenable(w, bytes, fds) ==
  Then(legacy_writeInt32(w, bytes), LAMBDA a :
  Then(legacy_writeInt32(a, fds), LAMBDA b :
  Then(legacy_writeInplace(b, Bytes(4 * pad_size(bytes))), LAMBDA c :
    IF fds = 0 THEN Yes(c) ELSE legacy_writeDupFileDescriptor(c))))

legacy_readAligned(w) == readAligned(w)
legacy_readScalar(w, words) == readScalar(w, words)
legacy_readInplace(w, bytes) == readInplace(w, bytes)
legacy_readString(w, wide) == IF wide THEN readString16(w) ELSE readString8(w)
legacy_readObject(w) == readObject(w, TRUE)
legacy_readNativeHandle(w) == readNativeHandle(w)
legacy_readBlob(w, bytes) == readBlob(w, bytes)
legacy_readFlattenable(w) == readFlattenable(w)
===============================================================================
