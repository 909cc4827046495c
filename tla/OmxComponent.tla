----------------------------- MODULE OmxComponent -----------------------------
(***************************************************************************)
(* What an IL client may rely on of an OpenMAX component, be it the video  *)
(* encoder or the decoder: the component moves along the edges of the IL   *)
(* state graph, it has buffers of the client only while it processes, and  *)
(* it is back in Idle only when it has given all of them back.             *)
(*                                                                         *)
(* Abstract: modules OmxVenc and OmxVdec are shown to implement it, each   *)
(* under its own mapping of these variables.  Once an error was reported   *)
(* nothing is promised.                                                    *)
(***************************************************************************)
CONSTANT Buffers
VARIABLES
  state,    \* the state of the component
  lent,     \* the buffers it was given and has not given back
  broken    \* it has reported an error, or its client breaks the rules

Edges == {<<"Loaded", "Idle">>, <<"Idle", "Loaded">>,
          <<"Loaded", "WaitForResources">>, <<"WaitForResources", "Loaded">>,
          <<"WaitForResources", "Idle">>, <<"Idle", "Executing">>, <<"Idle", "Pause">>,
          <<"Executing", "Idle">>, <<"Executing", "Pause">>, <<"Pause", "Executing">>,
          <<"Pause", "Idle">>}
Processes == {"Executing", "Pause"}

Init == state = "Loaded" /\ lent = {} /\ broken \in BOOLEAN

(* EmptyThisBuffer, FillThisBuffer.                                        *)
Lend == /\ state \in Processes
        /\ \E b \in Buffers \ lent : lent' = lent \cup {b}
        /\ UNCHANGED <<state, broken>>
(* EmptyBufferDone, FillBufferDone, of any number of buffers at once.      *)
GiveBack == lent' \subseteq lent /\ UNCHANGED <<state, broken>>
(* The event CommandComplete of a state set; the last buffers may be given *)
(* back with it.                                                           *)
Move == /\ <<state, state'>> \in Edges
        /\ lent' \subseteq lent
        /\ state' \notin Processes => lent' = {}
        /\ UNCHANGED broken
(* It may become invalid at any time.                                      *)
Invalidate == state' = "Invalid" /\ lent' \subseteq lent /\ UNCHANGED broken
Unspecified == broken \/ broken'

Next == Lend \/ GiveBack \/ Move \/ Invalidate \/ Unspecified
Spec == Init /\ [][Next]_<<state, lent, broken>>
===============================================================================
