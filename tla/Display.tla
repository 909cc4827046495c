-------------------------------- MODULE Display --------------------------------
(***************************************************************************)
(* What draws on the displays: the hardware composer with its overlay      *)
(* pipes, and the copybit device with the class that drives it.  The       *)
(* composer only decides whether copybit draws a frame; they share no      *)
(* state, so a behaviour is about one of them.                             *)
(***************************************************************************)
EXTENDS HwComposer, Copybit

VARIABLE part
displayVars == <<part, vars, cbVars>>

DisplayInit ==
  /\ part \in {"composer", "copybit"} /\ Init /\ CbInit
  /\ part = "copybit" => scenario = CHOOSE s \in Scenarios : TRUE
DisplayNext ==
  \/ part = "composer" /\ Next /\ UNCHANGED <<part, cbVars>>
  \/ part = "copybit" /\ CbNext /\ UNCHANGED <<part, vars>>
DisplaySpec == DisplayInit /\ [][DisplayNext]_displayVars
===============================================================================
