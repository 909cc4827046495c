------------------------------ MODULE MCOmxVdec ------------------------------
(* Instances of OmxVdec: which commands the client sends.                  *)
EXTENDS OmxVdec

(* Every command but the disabling of both ports at once.                  *)
DecoderCommands == AllCommands \ {[cmd |-> "PortDisable", arg |-> "ALL"]}
===============================================================================
