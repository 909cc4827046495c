------------------------------ MODULE MCOmxVenc ------------------------------
(* Instances of OmxVenc: the scenarios that are tried.                     *)
EXTENDS OmxVenc

CONSTANTS i1, o1

StateCommands(S) == [cmd : {"StateSet"}, arg : S]
PortArgs == {"IN", "OUT", "ALL"}

(* A client that keeps the rules, for one session from Loaded; nothing     *)
(* fails.                                                                  *)
Careful ==
  [rough |-> FALSE, overlap |-> FALSE,
   commands |-> StateCommands({"Idle", "Executing", "Pause"})
                  \cup [cmd : {"Flush", "PortEnable", "PortDisable"}, arg : PortArgs],
   mayFail |-> {}, buffers |-> Buffers, queued |-> 2, unacked |-> 2]

(* Any command at any time, one after the other; every driver call fails   *)
(* now and then.                                                           *)
Faulty ==
  [rough |-> TRUE, overlap |-> FALSE, commands |-> AllCommands,
   mayFail |-> {"start", "stop", "pause", "resume", "flush", "empty", "fill", "alloc"},
   buffers |-> {i1, o1}, queued |-> 1, unacked |-> 1]

(* Commands that overtake the completion of earlier ones.                  *)
Overlapping ==
  [rough |-> TRUE, overlap |-> TRUE,
   commands |-> StateCommands({"Idle", "Executing"}) \cup [cmd : {"Flush"}, arg : {"ALL"}]
                  \cup [cmd : {"PortEnable", "PortDisable"}, arg : {"OUT"}],
   mayFail |-> {}, buffers |-> {i1, o1}, queued |-> 2, unacked |-> 2]

MCScenarios == {Careful, Faulty, Overlapping}
===============================================================================
