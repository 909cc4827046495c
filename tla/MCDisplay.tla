----------------------------- MODULE MCDisplay --------------------------------
(***************************************************************************)
(* The composer of the device, MDP 4.1 with two RGB and two VG pipes, and  *)
(* the copybit device with fewer surfaces.                                 *)
(***************************************************************************)
EXTENDS Display

Ui == [yuv |-> FALSE, skip |-> FALSE, supported |-> TRUE, doable |-> FALSE,
       flipped |-> FALSE, full |-> TRUE]
Small == [Ui EXCEPT !.full = FALSE]
Flipped == [Small EXCEPT !.flipped = TRUE]
Rotated == [Small EXCEPT !.supported = FALSE]
Skipped == [Rotated EXCEPT !.skip = TRUE]
Video == [Small EXCEPT !.yuv = TRUE, !.doable = TRUE]
Covered == [Video EXCEPT !.supported = FALSE]

(* The phone alone with any composition; an external display with videos,  *)
(* next to a primary display the MDP can compose alone.                    *)
Scenario(primary, external) == DPY_PRIMARY :> primary @@ DPY_EXTERNAL :> external

MCScenarios ==
  {Scenario({<<Small, Rotated, Small>>, <<Video, Skipped, Small>>,
             <<Flipped, Flipped, Flipped>>, <<Covered, Video>>}, {}),
   Scenario({<<Ui, Small>>}, {<<Video, Ui>>})}

(* A layer the core takes as it is, one in two clips, videos of two and    *)
(* three planes, and those it needs a copy of; an encoder's input takes a  *)
(* copy, too.                                                              *)
Img(b, t, z) == [buf |-> b, type |-> t, temp |-> z]
Layer_(i, t, n) == [image |-> i, turn |-> t, clips |-> n]
MCLayers == {Layer_(Img("ui", "RGB", 0), 0, 1), Layer_(Img("icon", "RGB", 0), 90, 2),
             Layer_(Img("video", "YUV2", 0), 90, 1), Layer_(Img("odd", "YUV2", 1), 0, 1),
             Layer_(Img("odd3", "YUV3", 2), 0, 1)}
MCDests == {Img("out1", "RGB", 0), Img("out2", "RGB", 0), Img("enc", "YUV2", 1)}
MCMax == [t \in Types |-> CASE t = "RGB" -> 2 [] t = "YUV2" -> 2 [] t = "YUV3" -> 1]
===============================================================================
