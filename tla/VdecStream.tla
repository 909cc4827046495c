------------------------------ MODULE VdecStream ------------------------------
(***************************************************************************)
(* The decoder's input when the client sends its stream cut anywhere       *)
(* (arbitrary_bytes): the parser that looks for start codes or lengths,    *)
(* the component that puts the pieces together to frames in buffers of its *)
(* own, and H.264's search for the borders of frames among NAL units.      *)
(*                                                                         *)
(* A byte is 0, 1, Pic (what starts a picture), Hdr (a header) or another  *)
(* number.  In H.264 the byte behind a start code is the kind of NAL unit. *)
(* The component's buffers are large enough for a frame.  Time stamps only *)
(* say whether a buffer has one.                                           *)
(***************************************************************************)
EXTENDS Integers, FiniteSets, Sequences, SequencesExt

CONSTANTS
  StreamOf,    \* codec -> the stream its client sends, as pairs <<start, rest>>
  ClientBufs, DecBufs,  \* the client's buffers, and the component's own
  Chunks,      \* how many bytes the client puts in a buffer
  MaxFlushes   \* bound: the flushes of a session

Pic == 2
Hdr == 3
(* NAL units: a slice that starts a picture, one that goes on, parameter   *)
(* sets and SEI, anything else.                                            *)
SliceNew == 2
SliceMore == 3
Params == 4
NotCoded == 7   \* behind Pic: a VOP without contents

CONSTANT NoBuf
ASSUME VdecStreamAssumption ==
  /\ DOMAIN StreamOf \subseteq {"MPEG4", "MPEG2", "H263", "VC1", "H264", "AVC"}
  /\ NoBuf \notin ClientBufs \cup DecBufs

NoSource == [buf |-> NoBuf, data |-> <<>>, eos |-> FALSE]
(* A buffer of the component in use: nFilledLen is the length of data.     *)
NoDest == [buf |-> NoBuf, data |-> <<>>, eos |-> FALSE, ts |-> FALSE]
(* A buffer taken from m_input_free_q keeps the flags of its last use.     *)
Reused(s, d) == [buf |-> d, data |-> <<>>, eos |-> d \in s.stale, ts |-> FALSE]
-------------------------------------------------------------------------------
(* frame_parse: where it is in a start code (A0 ... A5), the byte that     *)
(* ended it, whether a header was seen, and whether a picture behind a     *)
(* header is to stay with it.                                              *)
NoParse == [st |-> "A0", last |-> 0, hdr |-> FALSE, skip |-> FALSE, acc |-> 0, len |-> 0,
            nal |-> "length"]
Headers(c) == IF c \in {"MPEG4", "MPEG2"} THEN {Hdr} ELSE {}
Fourth(c) == CASE c = "VC1" -> {Pic, Hdr} [] c = "H264" -> {1} [] OTHER -> {Pic}
StartCode(c, p) ==
  CASE c = "H263" -> <<0, 0, p.last>>
    [] c = "H264" -> <<0, 0, 0, 1>>
    [] OTHER -> <<0, 0, 1, p.last>>

At_(p, st) == [p EXCEPT !.st = st]
Ended(p, st, b) == [p EXCEPT !.st = st, !.last = b]
(* One byte: the parser's next state, what it gives out (bytes it took for *)
(* the beginning of a start code, or b), and whether it takes b.           *)
Got(p, out, taken) == [p |-> p, out |-> out, taken |-> taken]
A2_(c, p, b) ==
  CASE c = "H263" /\ b = Pic -> Got(Ended(p, "A5", b), <<>>, TRUE)
    [] c = "H264" /\ b = 1 -> Got(At_(p, "A5"), <<>>, TRUE)
    [] c # "H263" /\ b = (IF c = "H264" THEN 0 ELSE 1) -> Got(At_(p, "A3"), <<>>, TRUE)
    [] OTHER -> Got(At_(p, "A1"), <<0>>, FALSE)
(* parse_additional_start_code: the first header does not end a frame.     *)
A3_(c, p, b) ==
  LET q == IF b \in Headers(c) THEN [p EXCEPT !.hdr = TRUE] ELSE p
  IN CASE (b \in Headers(c) /\ p.hdr) \/ b \in Fourth(c) -> Got(Ended(q, "A4", b), <<>>, TRUE)
       [] c = "H264" /\ b # 1 -> Got(At_(q, "A2"), <<0>>, FALSE)
       [] OTHER -> Got(At_(q, "A0"), <<0, 0, 1>>, FALSE)
NextByte(c, p, b) ==
  CASE p.st = "A0" -> IF b = 0 THEN Got(At_(p, "A1"), <<>>, TRUE) ELSE Got(p, <<b>>, TRUE)
    [] p.st = "A1" -> IF b = 0 THEN Got(At_(p, "A2"), <<>>, TRUE)
                      ELSE Got(At_(p, "A0"), <<0>>, FALSE)
    [] p.st = "A2" -> A2_(c, p, b)
    [] p.st = "A3" -> A3_(c, p, b)

Found(p) == p.st \in {"A4", "A5"}
RECURSIVE Scan(_, _, _, _)
Scan(c, p, data, out) ==
  IF data = <<>> \/ Found(p) THEN [p |-> p, data |-> data, out |-> out]
  ELSE LET g == NextByte(c, p, Head(data))
       IN Scan(c, g.p, IF g.taken THEN Tail(data) ELSE data, out \o g.out)

(* The results of a parser: source, destination, parser, whether the frame *)
(* is still incomplete, and failure.                                       *)
Parsed(src, dst, p, partial) ==
  [src |-> src, dst |-> dst, p |-> p, partial |-> partial, ok |-> TRUE]
(* The start code found last opens the destination (update_skip_frame).    *)
OpenFrame(c, p, src, dst) ==
  IF Found(p) THEN [dst EXCEPT !.data = @ \o StartCode(c, p), !.eos = src.eos, !.ts = TRUE]
  ELSE dst
check_skip_frame_boundary(c, p) == Found(p) /\ ~(c \in {"MPEG4", "MPEG2"} /\ p.skip)
parse_sc_frame(c, p, src, dst) ==
  IF src.data = <<>> THEN [Parsed(src, dst, p, FALSE) EXCEPT !.ok = src.eos]
  ELSE
    LET opened == OpenFrame(c, p, src, dst)
        skip == p.skip \/ (Found(p) /\ p.last \in Headers(c))
        r == Scan(c, [p EXCEPT !.st = IF Found(p) THEN "A0" ELSE @, !.skip = skip], src.data, <<>>)
    IN Parsed([src EXCEPT !.data = r.data], [opened EXCEPT !.data = @ \o r.out],
              [r.p EXCEPT !.skip = @ /\ ~Found(r.p)], ~check_skip_frame_boundary(c, r.p))

(* NAL units behind a length of two bytes.                                 *)
NalLength == 2
RECURSIVE TakeLength(_, _)
TakeLength(p, data) ==
  IF data = <<>> \/ p.nal = "data" THEN [p |-> p, data |-> data]
  ELSE TakeLength([p EXCEPT !.len = (@ * 256) + Head(data), !.acc = (@ + 1) % NalLength,
                            !.nal = IF p.acc + 1 = NalLength THEN "data" ELSE @], Tail(data))
parse_h264_nallength(p, src, dst) ==
  LET r == TakeLength(p, src.data)
      head == IF p.nal = "length" /\ r.p.nal = "data" THEN <<0, 0, 0, 1>> ELSE <<>>
      n == IF r.p.nal = "length" THEN 0 ELSE IF r.p.len < Len(r.data) THEN r.p.len ELSE Len(r.data)
      q == [r.p EXCEPT !.len = IF r.p.nal = "data" THEN @ - n ELSE @]
      done == q.nal = "data" /\ q.len = 0
  IN [Parsed([src EXCEPT !.data = SubSeq(r.data, n + 1, Len(r.data))],
             [dst EXCEPT !.data = @ \o head \o SubSeq(r.data, 1, n), !.eos = src.eos, !.ts = TRUE],
             IF done THEN [q EXCEPT !.nal = "length"] ELSE q, ~done)
      EXCEPT !.ok = src.data # <<>>]
-------------------------------------------------------------------------------
(* H264_Utils: does this NAL unit start a new frame?  What extract_rbsp    *)
(* cannot read changes nothing.                                            *)
NoUtils == [au |-> FALSE, stitch |-> FALSE, slice |-> FALSE]
isNewFrame(m, scr) ==
  IF scr = <<>> THEN [new |-> FALSE, m |-> m]
  ELSE CASE scr[5] \in {SliceNew, SliceMore} ->
              [new |-> ~m.stitch /\ scr[5] = SliceNew,
               m |-> [au |-> TRUE, stitch |-> FALSE, slice |-> TRUE]]
         [] scr[5] = Params ->
              [new |-> m.au, m |-> [au |-> FALSE, stitch |-> TRUE, slice |-> FALSE]]
         [] OTHER -> [new |-> FALSE, m |-> [m EXCEPT !.slice = FALSE]]
-------------------------------------------------------------------------------
(* The component: what it parses (psource_frame) and what it fills         *)
(* (pdest_frame), their queues, h264_scratch with the NAL unit being put   *)
(* together, the frames the driver has, and m_etb_q.  frames and nals say  *)
(* whether frame_count and nal_count are above 0; stale are the buffers    *)
(* whose flags still say end of stream; sent is what the driver was given  *)
(* since the last flush.                                                   *)
NoStream(c) ==
  [codec |-> c, src |-> NoSource, pending |-> <<>>, dst |-> NoDest, free |-> SetToSeq(DecBufs),
   scr |-> NoDest, look |-> FALSE, frames |-> FALSE, nals |-> FALSE, p |-> NoParse,
   m |-> NoUtils, lastTs |-> FALSE, lastEos |-> FALSE, drv |-> {}, q |-> <<>>, stale |-> {},
   flush |-> "no", err |-> FALSE, back |-> {}, sent |-> <<>>]

Forget(s) ==
  [s EXCEPT !.scr.data = <<>>, !.nals = FALSE, !.look = FALSE, !.frames = FALSE,
            !.lastTs = FALSE, !.lastEos = FALSE, !.m = NoUtils, !.p = NoParse]

Into(d, more) == [d EXCEPT !.data = @ \o more]
PopDest(s) ==
  IF s.free = <<>> THEN [s EXCEPT !.dst = NoDest]
  ELSE [s EXCEPT !.dst = Reused(s, Head(s.free)), !.free = Tail(@)]
PopSource(s) ==
  IF s.pending = <<>> THEN [s EXCEPT !.src = NoSource]
  ELSE [s EXCEPT !.src = Head(s.pending), !.pending = Tail(@)]
ReleaseDest(s) ==
  [s EXCEPT !.free = Append(@, s.dst.buf), !.dst = NoDest,
            !.stale = IF s.dst.eos THEN @ \cup {s.dst.buf} ELSE @ \ {s.dst.buf}]
EmptyBufferDone(s) == PopSource([s EXCEPT !.back = @ \cup {s.src.buf}])

(* empty_this_buffer_proxy: pdest_frame goes to the driver.  A VOP without *)
(* contents is left out.  The end of the stream resets the parsers.        *)
is_notcodec_vop(data) ==
  Len(data) >= 5 /\ SubSeq(data, 1, 4) = <<0, 0, 1, Pic>> /\ data[5] = NotCoded
empty_this_buffer_proxy(s) ==
  LET d == s.dst
      empty == s.codec = "MPEG4" /\ is_notcodec_vop(d.data)
      data == IF empty THEN <<>> ELSE d.data
      kept == [s EXCEPT !.dst = NoDest, !.stale = IF d.eos THEN @ \cup {d.buf} ELSE @ \ {d.buf}]
      given == [kept EXCEPT !.drv = @ \cup {d.buf},
                            !.sent = Append(@, [data |-> data, eos |-> d.eos \/ data = <<>>])]
  IN CASE empty /\ ~d.eos -> [kept EXCEPT !.q = Append(@, [id |-> "EBD", buf |-> d.buf])]
       [] d.eos \/ data = <<>> -> Forget(given)
       [] OTHER -> given

Broken(s) == [s EXCEPT !.err = TRUE]

(* push_input_sc_codec.  What is before the first start code stays with    *)
(* the first frame.                                                        *)
CompleteFrame(s) ==
  CASE ~s.frames -> [s EXCEPT !.frames = TRUE]
    [] s.frames /\ s.dst.data # <<>> ->
         PopDest([empty_this_buffer_proxy([s EXCEPT !.dst.eos = FALSE]) EXCEPT !.frames = TRUE])
    [] s.frames /\ s.dst.data = <<>> /\ ~s.src.eos ->
         ReleaseDest([s EXCEPT !.dst.eos = FALSE])
    [] OTHER -> s
(* A source buffer that was used up goes back, unless it was the last one. *)
SourceUsed(s, LastOne(_)) ==
  CASE s.src.data = <<>> /\ s.src.eos /\ s.dst # NoDest -> LastOne(s)
    [] s.src.data = <<>> /\ ~s.src.eos -> EmptyBufferDone(s)
    [] OTHER -> s
FrameParsed(s, r) ==
  LET t == [s EXCEPT !.src = r.src, !.dst = r.dst, !.p = r.p]
      LastOne(u) == EmptyBufferDone([empty_this_buffer_proxy([u EXCEPT !.dst.eos = TRUE])
                                     EXCEPT !.frames = TRUE])
  IN IF ~r.ok THEN Broken(s)
     ELSE SourceUsed(IF r.partial THEN t ELSE CompleteFrame(t), LastOne)
push_input_sc_codec(s) == FrameParsed(s, parse_sc_frame(s.codec, s.p, s.src, s.dst))
-------------------------------------------------------------------------------
(* push_input_h264.  A complete NAL unit is in h264_scratch: it goes to    *)
(* the frame in pdest_frame, or that one goes to the driver and the unit   *)
(* is looked at again with the next buffer.                                *)
LookAhead(s) ==
  IF s.look /\ s.scr.data # <<>>
  THEN [s EXCEPT !.look = FALSE, !.dst = Into(@, s.scr.data), !.scr.data = <<>>] ELSE s
ParseNal(s) ==
  IF s.codec = "AVC" THEN parse_h264_nallength(s.p, s.src, s.scr)
  ELSE parse_sc_frame("H264", s.p, s.src, s.scr)
Stitch(s) == [s EXCEPT !.dst = Into(@, s.scr.data), !.scr.data = <<>>]
FrameBorder(s) ==
  IF s.dst.data = <<>> THEN Stitch([s EXCEPT !.look = FALSE])
  ELSE LET t == PopDest(empty_this_buffer_proxy([s EXCEPT !.dst.eos = FALSE, !.look = TRUE]))
       IN [t EXCEPT !.dst.eos = FALSE]
CompleteNal(s) ==
  IF ~s.nals /\ s.scr.data = <<>> THEN [s EXCEPT !.nals = TRUE, !.scr.eos = s.src.eos]
  ELSE
    LET r == isNewFrame(s.m, s.scr.data)
        stamped == s.lastTs /\ ~s.dst.ts
        t == [s EXCEPT !.m = r.m, !.nals = TRUE, !.lastTs = r.m.slice,
                       !.lastEos = IF r.m.slice THEN s.scr.eos ELSE @,
                       !.dst.ts = @ \/ stamped, !.dst.eos = IF stamped THEN s.lastEos ELSE @]
    IN CASE s.scr.data = <<>> -> s
         [] s.scr.data # <<>> /\ r.new -> FrameBorder(t)
         [] OTHER -> Stitch(t)
(* The end of the stream: the last frame goes, or the one before it.       *)
LastFrame(s) ==
  LET r == isNewFrame(s.m, s.scr.data)
      before == s.dst.data # <<>> /\ r.new
  IN IF before
     THEN empty_this_buffer_proxy([s EXCEPT !.m = r.m, !.lastTs = TRUE])
     ELSE EmptyBufferDone([empty_this_buffer_proxy([Stitch(s) EXCEPT !.dst.eos = TRUE])
                           EXCEPT !.frames = TRUE])
NalParsed(s, r) ==
  LET t == [s EXCEPT !.src = r.src, !.scr = r.dst, !.p = r.p]
  IN IF ~r.ok THEN Broken(s)
     ELSE SourceUsed(IF r.partial THEN t ELSE CompleteNal(t), LastFrame)
push_input_h264(s) == LET l == LookAhead(s) IN NalParsed(l, ParseNal(l))
-------------------------------------------------------------------------------
(* push_input_vc1 is push_input_sc_codec once the first buffer showed the  *)
(* advanced profile.                                                       *)
PushOne(s) == IF s.codec \in {"H264", "AVC"} THEN push_input_h264(s) ELSE push_input_sc_codec(s)
RECURSIVE PushAll(_)
PushAll(s) ==
  IF s.dst = NoDest \/ s.src = NoSource \/ s.err THEN s ELSE PushAll(PushOne(s))
push_input_buffer(s) ==
  LET d == IF s.dst = NoDest THEN PopDest(s) ELSE s
  IN PushAll(IF d.src = NoSource THEN PopSource(d) ELSE d)

(* ETB_ARBITRARY.  A buffer without contents goes straight back.           *)
empty_this_buffer_proxy_arbitrary(s, b) ==
  CASE s.flush # "no" \/ (b.data = <<>> /\ ~b.eos) -> [s EXCEPT !.back = @ \cup {b.buf}]
    [] s.flush = "no" /\ s.src = NoSource /\ (b.data # <<>> \/ b.eos) ->
         push_input_buffer([s EXCEPT !.src = b])
    [] OTHER -> [s EXCEPT !.pending = Append(@, b)]

(* Mutant: the source buffer that waits is not gone on with.               *)
empty_buffer_done_Waits(s, d) == [s EXCEPT !.free = Append(@, d)]
(* EBD: a buffer of the component is free.                                 *)
empty_buffer_done(s, d) ==
  IF s.dst = NoDest /\ s.flush = "no"
  THEN push_input_buffer([s EXCEPT !.dst = Reused(s, d)])
  ELSE [s EXCEPT !.free = Append(@, d)]

(* execute_input_flush: every buffer goes back and nothing is remembered.  *)
FlushEntry(s, e) ==
  IF e.id = "ETB" THEN [s EXCEPT !.back = @ \cup {e.b.buf}] ELSE empty_buffer_done(s, e.buf)
ReturnSources(s) ==
  [s EXCEPT !.back = @ \cup {b.buf : b \in ToSet(s.pending)}
                       \cup (IF s.src = NoSource THEN {} ELSE {s.src.buf}),
            !.pending = <<>>, !.src = NoSource]
Drained(s) ==
  [IF s.dst = NoDest THEN s ELSE ReleaseDest(s) EXCEPT !.flush = "no", !.sent = <<>>]
execute_input_flush(s) ==
  Drained(ReturnSources(Forget(FoldLeft(FlushEntry, [s EXCEPT !.q = <<>>], s.q))))
-------------------------------------------------------------------------------
VARIABLES
  strm,   \* the component
  app     \* the client: the buffers it has, how much it sent, the end, its flushes
streamVars == <<strm, app>>

BytesOf == [c \in DOMAIN StreamOf |->
              FoldLeft(LAMBDA bytes, u : bytes \o u[1] \o u[2], <<>>, StreamOf[c])]
Bytes == BytesOf[strm.codec]

StreamInit ==
  /\ \E c \in DOMAIN StreamOf : strm = NoStream(c)
  /\ app = [has |-> ClientBufs, pos |-> 0, done |-> FALSE, flushes |-> 0]

(* The client sends the next bytes.  In H.264 it says the stream ended in  *)
(* a buffer of its own, with lengths in the last one with bytes; the first *)
(* buffer of a VC-1 stream has a whole start code.                         *)
Send(n, eos) ==
  LET b == CHOOSE x \in app.has : TRUE
      last == app.pos + n = Len(Bytes)
  IN /\ app.has # {} /\ ~app.done /\ strm.flush = "no" /\ ~strm.err
     /\ app.pos + n <= Len(Bytes)
     /\ n = 0 => eos
     /\ eos => last /\ (strm.codec = "H264" => n = 0)
     /\ strm.codec = "AVC" /\ last => eos /\ n # 0
     /\ strm.codec = "VC1" /\ app.pos = 0 => n >= 4
     /\ app' = [app EXCEPT !.has = @ \ {b}, !.pos = @ + n, !.done = eos]
     /\ strm' = [strm EXCEPT !.q = Append(@, [id |-> "ETB", b |->
                   [buf |-> b, data |-> SubSeq(Bytes, app.pos + 1, app.pos + n), eos |-> eos]])]
empty_this_buffer == \E n \in Chunks \cup {0}, eos \in BOOLEAN : Send(n, eos)

(* What a handler leaves; the client gets its buffers.                     *)
Hand(s) ==
  /\ strm' = [s EXCEPT !.back = {}]
  /\ app' = [app EXCEPT !.has = @ \cup s.back]
MessageThread ==
  /\ strm.q # <<>> /\ ~strm.err
  /\ LET e == Head(strm.q)
         s == [strm EXCEPT !.q = Tail(@)]
     IN Hand(IF e.id = "ETB" THEN empty_this_buffer_proxy_arbitrary(s, e.b)
             ELSE empty_buffer_done(s, e.buf))

(* The driver is done with a frame's buffer.                               *)
Decoded ==
  \E d \in strm.drv :
    /\ strm' = [strm EXCEPT !.drv = @ \ {d}, !.q = Append(@, [id |-> "EBD", buf |-> d])]
    /\ UNCHANGED app

(* The client flushes and starts again from the beginning.                 *)
execute_omx_flush ==
  /\ strm.flush = "no" /\ ~strm.err /\ app.flushes < MaxFlushes
  /\ app.pos > 0
  /\ strm' = [strm EXCEPT !.flush = "driver"]
  /\ app' = [app EXCEPT !.flushes = @ + 1]
Flushed ==
  /\ strm.flush = "driver" /\ strm.drv = {}
  /\ \E s \in {execute_input_flush(strm)} :
        /\ strm' = [s EXCEPT !.back = {}]
        /\ app' = [app EXCEPT !.has = @ \cup s.back, !.pos = 0, !.done = FALSE]

(* All is decoded and back, or the component is invalid.                   *)
StreamOver ==
  /\ \/ strm.err
     \/ app.done /\ app.has = ClientBufs /\ strm.drv = {} /\ strm.q = <<>>
  /\ UNCHANGED streamVars

StreamNext ==
  \/ empty_this_buffer \/ MessageThread \/ Decoded \/ execute_omx_flush \/ Flushed
  \/ StreamOver
-------------------------------------------------------------------------------
(* Where frames begin, said of the whole stream and its units: a picture   *)
(* of MPEG-4 or MPEG-2 has the headers before it, a unit of H.263 or VC-1  *)
(* stands alone, and in H.264 parameter sets begin a frame behind a slice  *)
(* and a slice that is a picture's first does unless they did.             *)
Kind(u) == u[2][1]
Before(units, i) == {j \in 1 .. i - 1 : Kind(units[j]) \in {SliceNew, SliceMore, Params}}
BehindSlice(units, i) ==
  \E j \in Before(units, i) : Kind(units[j]) # Params /\ \A k \in Before(units, i) : k <= j
Begins(c, units, i) ==
  \/ i = 1
  \/ c \in {"H263", "VC1"}
  \/ c \in {"MPEG4", "MPEG2"} /\ Last(units[i - 1][1]) # Hdr
  \/ c \in {"H264", "AVC"} /\ Kind(units[i]) \in {SliceNew, Params} /\ BehindSlice(units, i)
UnitBytes(c, u) == (IF c \in {"H264", "AVC"} THEN <<0, 0, 0, 1>> ELSE u[1]) \o u[2]
Cut(c, units) ==
  FoldLeft(LAMBDA fs, i : IF Begins(c, units, i) THEN Append(fs, UnitBytes(c, units[i]))
                          ELSE [fs EXCEPT ![Len(fs)] = @ \o UnitBytes(c, units[i])],
           <<>>, [i \in 1 .. Len(units) |-> i])
Expected ==
  [c \in DOMAIN StreamOf |->
     SelectSeq(Cut(c, StreamOf[c]), LAMBDA f : c = "MPEG4" => ~is_notcodec_vop(f))]

(* Wherever the client cuts its stream and however slow the driver is, the *)
(* driver gets exactly the stream's frames, whole and in order, and the    *)
(* end with or behind the last one and never earlier, also after a flush   *)
(* at any moment.                                                          *)
FramesWhole ==
  LET full == SelectSeq(strm.sent, LAMBDA f : f.data # <<>>)
      expected == Expected[strm.codec]
  IN /\ IsPrefix([i \in 1 .. Len(full) |-> full[i].data], expected)
     /\ \A i \in 1 .. Len(strm.sent) :
          strm.sent[i].eos => i = Len(strm.sent) /\ Len(full) = Len(expected)

(* The component's input never waits for nothing: while it has a source    *)
(* buffer it cannot go on with, one of its own is on its way back, and     *)
(* when all is done the driver knows the end.  Only a stream with lengths  *)
(* may end in an error: its end cannot wait for a buffer.                  *)
InputMoves ==
  /\ strm.src # NoSource /\ ~strm.err /\ strm.flush = "no" =>
       strm.drv # {} \/ \E i \in DOMAIN strm.q : strm.q[i].id = "EBD"
  /\ app.done /\ app.has = ClientBufs /\ strm.flush = "no" =>
       strm.sent # <<>> /\ Last(strm.sent).eos
  /\ strm.err => strm.codec = "AVC" /\ app.done

(* Every buffer is in one place.                                           *)
Queued(b) ==
  Cardinality({i \in DOMAIN strm.q : b = IF strm.q[i].id = "EBD" THEN strm.q[i].buf
                                         ELSE strm.q[i].b.buf})
Copies(b) ==
  Queued(b) + Cardinality({i \in DOMAIN strm.free : strm.free[i] = b})
    + Cardinality({i \in DOMAIN strm.pending : strm.pending[i].buf = b})
    + Cardinality({x \in {"app", "drv", "src", "dst"} :
                     CASE x = "app" -> b \in app.has
                       [] x = "drv" -> b \in strm.drv
                       [] x = "src" -> b = strm.src.buf
                       [] x = "dst" -> b = strm.dst.buf})

(* However a client cuts a stream into buffers, also across start codes    *)
(* and lengths, the decoder gets its frames and nothing waits for ever,    *)
(* and no buffer is lost or used twice.                                    *)
StreamFramed == FramesWhole /\ InputMoves /\ \A b \in ClientBufs \cup DecBufs : Copies(b) = 1
===============================================================================
