------------------------------ MODULE MCLights ------------------------------
(* Two framework threads; colours that differ in one channel, in all of    *)
(* them, and black; one flash rate; the file of one attribute may refuse a *)
(* write.                                                                  *)
EXTENDS Lights

MCColors == {[r |-> 0, g |-> 0, b |-> 0], [r |-> 255, g |-> 255, b |-> 255],
             [r |-> 0, g |-> 0, b |-> 1]}
MCFlashes == {[on |-> 500, off |-> 0]}
MCFallible == {<<"brightness", "b">>}
===============================================================================
