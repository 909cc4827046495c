---------------------------- MODULE MCAudioOffload ----------------------------
(* Instances of AudioOffload: a playback thread that makes every call and  *)
(* a second thread.                                                        *)
EXTENDS AudioOffload

CONSTANTS player, other

(* The second thread asks for the position, pauses and resumes.            *)
OneOwner == [t \in Clients |-> IF t = player THEN AllCalls \ {"position", "pause", "resume"}
                               ELSE {"position", "pause", "resume"}]

(* The second thread changes the routing.                                  *)
RoutingElsewhere == [t \in Clients |-> IF t = player THEN {"write", "standby"} ELSE {"routing"}]

AnyFailure == {"open", "write"}
===============================================================================
