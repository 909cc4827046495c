--------------------------------- MODULE MCNfc ---------------------------------
(* A small instance of NfcManager. *)
EXTENDS NfcManager, TLC

MCSettings == (167 :> 2)
MCFwTypes == {167}
MCFwFiles == {{"fw"}, {"c2"}}
MCLists == [nothing |-> <<>>, tag |-> <<[type |-> "tag", handle |-> 1]>>,
            both |-> <<[type |-> "tag", handle |-> 1], [type |-> "p2p", handle |-> 2]>>]
===============================================================================
