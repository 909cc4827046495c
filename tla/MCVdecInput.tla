----------------------------- MODULE MCVdecInput ------------------------------
(***************************************************************************)
(* The decoder's memory and settings (VdecBuffers), and its input when the *)
(* stream comes cut anywhere (VdecStream).  The stream flows once the      *)
(* buffers are there, so a behaviour is about one of them.                 *)
(***************************************************************************)
EXTENDS VdecBuffers, VdecStream

VARIABLE part   \* which of them

inputVars == <<vars, streamVars, part>>

InputInit ==
  /\ Init /\ StreamInit
  /\ \/ part = "buffers" /\ strm.codec = CHOOSE c \in DOMAIN StreamOf : TRUE
     \/ part = "stream" /\ w = NoWorld(CHOOSE k \in Kinds : TRUE)

InputNext ==
  /\ UNCHANGED part
  /\ \/ part = "buffers" /\ Next /\ UNCHANGED streamVars
     \/ part = "stream" /\ StreamNext /\ UNCHANGED vars

InputSpec == InputInit /\ [][InputNext]_inputVars
-------------------------------------------------------------------------------
(***************************************************************************)
(* The memory of an H.264 decoder and of a secure MPEG-4 decoder, and for  *)
(* every kind of stream one with short units, with zeros where a start     *)
(* code may begin, and with everything a frame's border depends on.        *)
(***************************************************************************)
MCKinds == {[codec |-> "avc", secure |-> FALSE, smooth |-> FALSE, dmx |-> TRUE],
            [codec |-> "mpeg4", secure |-> TRUE, smooth |-> TRUE, dmx |-> FALSE]}
MCExtraSize == [interlace |-> 2, frameinfo |-> 4, portdef |-> 3]
MCOptions ==
  {[p |-> "output", format |-> f, more |-> n, bigger |-> b] :
      f \in {"tile", "planar"}, n \in {0, 1}, b \in {0, 1}}
  \cup {[p |-> "input", res |-> r, more |-> n] : r \in Resolutions, n \in {0, 1}}
  \cup {[p |-> "format", format |-> "planar"], [p |-> "packing", on |-> TRUE],
        [p |-> "order", order |-> "decode"], [p |-> "reorder", on |-> TRUE],
        [p |-> "portdef"], [p |-> "syncframe"], [p |-> "native"],
        [p |-> "adaptive", res |-> 1]}
  \cup {[p |-> "extra", x |-> k, on |-> b] :
         k \in {"mbmap", "frameinfo", "interlace"}, b \in BOOLEAN}

Code(last) == <<0, 0, 1, last>>
Long == <<0, 0, 0, 1>>
Short == <<0, 0, 1>>
Nal(body) == <<<<0, Len(body)>>, body>>
MCStreamOf ==
  [c \in {"MPEG4", "MPEG2", "H263", "VC1", "H264", "AVC"} |->
   CASE c = "MPEG4" ->
          << <<Code(Hdr), <<9>>>>, <<Code(Pic), <<0, 9>>>>, <<Code(Pic), <<NotCoded>>>>,
             <<Code(Hdr), <<>>>>, <<Code(Pic), <<9, 0>>>>, <<Code(Pic), <<9>>>> >>
     [] c = "MPEG2" ->
          << <<Code(Hdr), <<0>>>>, <<Code(Pic), <<9, 0, 0>>>>, <<Code(Hdr), <<9>>>>,
             <<Code(Pic), <<0, 9>>>> >>
     [] c = "H263" ->
          << <<<<0, 0, Pic>>, <<9, 0>>>>, <<<<0, 0, Pic>>, <<0, 9>>>>, <<<<0, 0, Pic>>, <<9>>>> >>
     [] c = "VC1" ->
          << <<Code(Hdr), <<9>>>>, <<Code(Pic), <<0, 0, 9>>>>, <<Code(Pic), <<9, 0>>>>,
             <<Code(Pic), <<9>>>> >>
     [] c = "H264" ->
          << <<Long, <<Params, 9>>>>, <<Short, <<SliceNew, 0, 9>>>>, <<Short, <<SliceMore>>>>,
             <<Long, <<SliceNew, 9>>>>, <<Short, <<5, 9>>>>, <<Short, <<SliceNew>>>> >>
     [] c = "AVC" ->
          << Nal(<<Params, 9>>), Nal(<<SliceNew>>), Nal(<<SliceMore, 0, 9>>), Nal(<<SliceNew>>),
             Nal(<<SliceNew, 9>>) >>]
===============================================================================
