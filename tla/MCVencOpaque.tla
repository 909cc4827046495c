---------------------------- MODULE MCVencOpaque ----------------------------
(* Instances of VencOpaque: which frames the client sends.                 *)
EXTENDS VencOpaque

Gralloc(format, filled, eos) ==
  [camera |-> FALSE, format |-> format, filled |-> filled, eos |-> eos]

(* RGBA frames and an empty last frame.                                    *)
RgbaFrames == {Gralloc("rgba", TRUE, FALSE), Gralloc("rgba", FALSE, TRUE)}
===============================================================================
