----------------------------- MODULE MCVencInput ------------------------------
(***************************************************************************)
(* What the encoder's client sets and sends: the settings that go down to  *)
(* the encoder device (VencParams) and the frames in a format the encoder  *)
(* does not know (VencOpaque).  Settings are made while no frame is in the *)
(* component, so a behaviour is about one of them.                         *)
(***************************************************************************)
EXTENDS VencParams, VencOpaque

VARIABLE side   \* which of them

vars == <<paramsVars, opqVars, side>>

Init ==
  /\ ParamsInit /\ OpqInit
  /\ \/ side = "settings"
        /\ frame = [s \in Sources |-> CHOOSE f \in FrameKinds : TRUE]
        /\ m_opq_pmem_q[1] = CHOOSE d \in Dests : TRUE
     \/ side = "frames" /\ session = "settings"
        /\ dev.codec = CHOOSE c \in Codecs : TRUE

Next ==
  /\ UNCHANGED side
  /\ \/ side = "settings" /\ ParamsNext /\ UNCHANGED opqVars
     \/ side = "frames" /\ OpqNext /\ UNCHANGED paramsVars

Spec == Init /\ [][Next]_vars
-------------------------------------------------------------------------------
\* QCIF and 720p; 15 and 59.94 frames per second.
MCFrames == {QCIF, <<1280, 720>>}
MCFrameRates == {15 * 65536, 3928228}
MCBitrates == {64000, 4000000}

Gralloc(format, filled, eos) ==
  [camera |-> FALSE, format |-> format, filled |-> filled, eos |-> eos]

(* Every kind of frame: RGBA and other formats, with contents in the last  *)
(* one, and without contents in an unknown format.                         *)
EveryFrame ==
  {Gralloc("rgba", TRUE, FALSE), Gralloc("rgba", TRUE, TRUE), Gralloc("nv12", TRUE, FALSE),
   Gralloc("other", TRUE, FALSE), Gralloc("other", FALSE, FALSE)}
===============================================================================
