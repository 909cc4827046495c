-------------------------------- MODULE Overlay --------------------------------
(***************************************************************************)
(* The pipe book of liboverlay (overlay.cpp, overlay.h): which MDP pipe    *)
(* belongs to which display.                                               *)
(*                                                                         *)
(* Displays configure their pipes in rounds.  In a round a client asks for *)
(* pipes with nextPipe and commits the ones it has set up; configDone then *)
(* destroys the pipes that no commit of the round has used.  This module   *)
(* is what the composer may do with the book; HwComposer implements it.    *)
(*                                                                         *)
(* Crop, position, format and flags of a pipe are left out: they are only  *)
(* stored.  So is the rotator a GenericPipe owns: every layer is rotated   *)
(* before it reaches its pipe.  On MDP 4 there are no DMA pipes.           *)
(***************************************************************************)
EXTENDS Integers, FiniteSets

CONSTANTS
  RGBPipes, VGPipes   \* how many pipes of each type the MDP has

ASSUME PipesAssumption == RGBPipes \in Nat /\ VGPipes \in Nat

(* initOverlay's table of pipe types: the RGB pipes come first.            *)
Pipes == 0 .. (RGBPipes + VGPipes - 1)
getPipeType(p) == IF p < RGBPipes THEN "RGB" ELSE "VG"
OV_INVALID == -1

DPY_PRIMARY == 0
DPY_EXTERNAL == 1
DPY_UNUSED == 2
Displays == {DPY_PRIMARY, DPY_EXTERNAL}

VARIABLES
  mDisplay,   \* the display each pipe belongs to
  mPipe,      \* the GenericPipe of each pipe: "none", "closed" or "open"
  session,    \* the pipes the kernel holds an overlay session for
  used,       \* sPipeUsageBitmap: the pipes committed in this round
  lastUsed,   \* sLastUsageBitmap
  allocated,  \* sAllocatedBitmap: the pipes handed out in this round
  inRound     \* between configBegin and configDone

ovVars == <<mDisplay, mPipe, session, used, lastUsed, allocated, inRound>>

OvInit ==
  /\ mDisplay = [p \in Pipes |-> DPY_UNUSED]
  /\ mPipe = [p \in Pipes |-> "none"]
  /\ session = {}
  /\ used = {}
  /\ lastUsed = {}
  /\ allocated = {}
  /\ inRound = FALSE
-------------------------------------------------------------------------------
configBegin ==
  /\ ~inRound
  /\ inRound' = TRUE
  /\ used' = {}
  /\ allocated' = {}
  /\ UNCHANGED <<mDisplay, mPipe, session, lastUsed>>


(* The pipes availablePipes counts for a display.                          *)
Available(dpy) ==
  {p \in Pipes : mDisplay[p] \in {DPY_UNUSED, dpy} /\ p \notin allocated}

availablePipes(dpy) == Cardinality(Available(dpy))

Candidates(types, dpy) == {p \in Available(dpy) : getPipeType(p) \in types}

(* A pipe of one of the types, the lowest that is available.  A nextPipe   *)
(* that finds none returns OV_INVALID and leaves the book as it is.        *)
nextPipe(types, dpy, p) ==
  /\ inRound
  /\ p \in Candidates(types, dpy)
  /\ \A q \in Candidates(types, dpy) : p <= q
  /\ allocated' = allocated \cup {p}
  /\ mDisplay' = [mDisplay EXCEPT ![p] = dpy]
  /\ mPipe' = [mPipe EXCEPT ![p] = IF @ = "none" THEN "closed" ELSE @]
  /\ UNCHANGED <<session, used, lastUsed, inRound>>

(* A failed commit leaves the kernel's session, if there was one, with its *)
(* last good settings, and gives all pipes of the display back to the      *)
(* round.                                                                  *)
commit(p, ok) ==
  /\ inRound
  /\ p \in allocated
  /\ mPipe' = [mPipe EXCEPT ![p] = IF ok THEN "open" ELSE "closed"]
  /\ session' = IF ok THEN session \cup {p} ELSE session
  /\ used' = IF ok THEN used \cup {p} ELSE used \ {p}
  /\ allocated' = IF ok THEN allocated
                  ELSE {q \in allocated : mDisplay[q] # mDisplay[p]}
  /\ UNCHANGED <<mDisplay, lastUsed, inRound>>


(* The pipes that are destroyed, which also ends their kernel sessions:    *)
(* none at all when the same pipes are used as in the last round.          *)
Garbage == IF used = lastUsed THEN {} ELSE Pipes \ used

configDone ==
  /\ inRound
  /\ inRound' = FALSE
  /\ mDisplay' = [p \in Pipes |-> IF p \in Garbage THEN DPY_UNUSED ELSE mDisplay[p]]
  /\ mPipe' = [p \in Pipes |-> IF p \in Garbage THEN "none" ELSE mPipe[p]]
  /\ session' = session \ Garbage
  /\ lastUsed' = used
  /\ UNCHANGED <<used, allocated>>

OvNext ==
  \/ configBegin
  \/ \E types \in {{"RGB"}, {"VG"}, {"RGB", "VG"}}, dpy \in Displays, p \in Pipes :
        nextPipe(types, dpy, p)
  \/ \E p \in Pipes, ok \in BOOLEAN : commit(p, ok)
  \/ configDone

OvSpec == OvInit /\ [][OvNext]_ovVars
-------------------------------------------------------------------------------
OvTypeOK ==
  /\ mDisplay \in [Pipes -> Displays \cup {DPY_UNUSED}]
  /\ mPipe \in [Pipes -> {"none", "closed", "open"}]
  /\ session \subseteq Pipes
  /\ used \subseteq Pipes
  /\ lastUsed \subseteq Pipes
  /\ allocated \subseteq Pipes
  /\ inRound \in BOOLEAN

(* A pipe with a usage bit can be played to: it exists and is open, as the *)
(* assertions of validate and GenericPipe::queueBuffer ask, and the kernel *)
(* holds a session for it.                                                 *)
UsedIsOpen == \A p \in used : mPipe[p] = "open" /\ p \in session

(* Exactly the pipes that belong to a display have a pipe object.          *)
OwnedExists == \A p \in Pipes : mPipe[p] = "none" <=> mDisplay[p] = DPY_UNUSED

(* Only pipes with an object have a kernel session or are handed out; the  *)
(* allocation bits of a round that is over are not read.                   *)
AllocatedExists ==
  /\ \A p \in session : mPipe[p] # "none"
  /\ inRound => \A p \in allocated : mPipe[p] # "none"

(* An open pipe was used in this round or in the last one.                 *)
OpenIsRecent == \A p \in Pipes : mPipe[p] = "open" => p \in used \cup lastUsed

(* The last usage is the present one between rounds.                       *)
Saved == ~inRound => used = lastUsed

OvInv ==
  /\ OvTypeOK
  /\ UsedIsOpen
  /\ OwnedExists
  /\ AllocatedExists
  /\ OpenIsRecent
  /\ Saved

(* When a round is over, the open pipes are exactly the ones a commit of   *)
(* the round has used: configDone leaves no pipe behind that shows an old  *)
(* frame, although it returns early when the usage bitmap did not change.  *)
RoundLeavesUsedOpen ==
  ~inRound => \A p \in Pipes : mPipe[p] = "open" <=> p \in used

(* A pipe that belongs to a display goes to another one only after it was  *)
(* destroyed in between (the comment on Overlay::nextPipe, overlay.h).     *)
HandOver ==
  [][\A p \in Pipes : mDisplay'[p] # mDisplay[p]
        => mDisplay[p] = DPY_UNUSED \/ mDisplay'[p] = DPY_UNUSED]_ovVars

(* A pipe is taken away from a display only by the end of a round, and     *)
(* never while the round has a commit of it.                               *)
OnlyUnusedTaken ==
  [][\A p \in Pipes : mDisplay'[p] = DPY_UNUSED /\ mDisplay[p] # DPY_UNUSED
        => inRound /\ ~inRound' /\ p \notin used /\ p \notin session']_ovVars
===============================================================================
