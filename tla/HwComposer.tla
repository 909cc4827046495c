------------------------------ MODULE HwComposer ------------------------------
(***************************************************************************)
(* The hardware composer (libhwcomposer): the rounds of SurfaceFlinger's   *)
(* thread, hwc_prepare and hwc_set, with the choice MDPComp makes between  *)
(* overlay pipes, the copybit engine and the GPU for every layer, and the  *)
(* uevents of the external display, which another thread handles.          *)
(*                                                                         *)
(* hwc_prepare takes one step for each operation on the pipe book of       *)
(* module Overlay.  A layer is a record of what the decisions ask of it;   *)
(* its geometry, formats, the rotator, fences, secure mode and the colour  *)
(* daemon are left out.  SurfaceFlinger calls prepare, set and blank from  *)
(* one thread, so mBlankLock is never contended.                           *)
(***************************************************************************)
EXTENDS Overlay, Sequences, SequencesExt

CONSTANTS
  Scenarios,           \* what is shown: the layer lists of each display
  MaxLayers,           \* bound: the length of a list
  MaxFailures,         \* bound: failing commits in one round
  sMaxPipesPerMixer    \* the pipes one mixer can blend

(* What MDPComp looks at in a layer: is it a YUV buffer (and not skipped), *)
(* is it marked skip, does isSupported allow an MDP pipe for it, does      *)
(* isYUVDoable, is it flipped and so in need of an RGB pipe, does it cover *)
(* the whole display.                                                      *)
Layer == [yuv : BOOLEAN, skip : BOOLEAN, supported : BOOLEAN, doable : BOOLEAN,
          flipped : BOOLEAN, full : BOOLEAN]

(* Every test of isYUVDoable is made by isSupported, too.                  *)
ASSUME ComposerAssumption ==
  /\ MaxLayers \in Nat /\ MaxFailures \in Nat /\ sMaxPipesPerMixer \in Nat
  /\ \A s \in Scenarios : \A d \in Displays : \A l \in s[d] :
        /\ l \in Seq(Layer) /\ Len(l) <= MaxLayers
        /\ \A i \in DOMAIN l :
              /\ l[i].skip => ~l[i].supported /\ ~l[i].yuv
              /\ l[i].yuv /\ l[i].supported => l[i].doable

(* What a pipe is asked for: the framebuffer, the base layer, a layer.     *)
FB == 0 - 1
BASE == 0
Targets == FB .. MaxLayers

(* MDPComp::FrameInfo: the number of layers, the ones composed into the    *)
(* framebuffer, its z-order and redraw flag, the pipe of each target and   *)
(* the layers flagged HWC_MDPCOMP.                                         *)
NoPipes == [t \in Targets |-> OV_INVALID]
Frame(n) == [n |-> n, fb |-> 1 .. n, fbZ |-> 0, redraw |-> TRUE, pipe |-> NoPipes,
             flagged |-> {}]

(* MDPComp::LayerCache: the layers the last frame had, the ones that were  *)
(* in the framebuffer, and how many buffer handles are remembered.         *)
NoCache == [n |-> 0, fb |-> {}, handles |-> 0]

(* A framebuffer's content: the layers drawn into it, and whether their    *)
(* buffers are still the ones of the present frame.                        *)
Blank == [layers |-> {}, fresh |-> FALSE]

VARIABLES
  phase,        \* SurfaceFlinger's thread: "idle", "prepare", "blank", "set"
  at,           \* the display it prepares or sets
  todo,         \* the operations on the pipe book MDPComp or FBUpdate still have to do
  ready,        \* the displays that were prepared in this round
  scenario,     \* the lists SurfaceFlinger may pass; no external ones: no cable
  failures,     \* commits that failed in this round
  list,         \* the layer list of each display
  yuvCount,     \* listStats.yuvCount of each display
  frame,        \* mCurrentFrame of each display's MDPComp
  cache,        \* mCachedFrame of each display's MDPComp
  modeOn,       \* FBUpdate::mModeOn of each display
  copybit,      \* CopyBit::mCopyBitDraw of the primary display
  target,       \* the image in SurfaceFlinger's framebuffer target (primary)
  fbHandle,     \* the image in the buffer MDPComp::fbHandle names (primary)
  active,       \* dpyAttr.isActive of each display
  connected,    \* dpyAttr.connected of the external display
  paused,       \* dpyAttr.isPause of the external display
  mExtDispConfiguring, mVideoTransFlag

sfVars == <<phase, at, todo, ready, failures, scenario>>
frameVars == <<list, yuvCount, frame, cache, modeOn, copybit, target, fbHandle>>
dpyVars == <<active, connected, paused>>
flagVars == <<mExtDispConfiguring, mVideoTransFlag>>
vars == <<ovVars, sfVars, frameVars, dpyVars, flagVars>>

Init ==
  /\ OvInit
  /\ phase = "idle" /\ at = DPY_PRIMARY /\ todo = <<>>
  /\ ready = {} /\ failures = 0
  /\ scenario \in Scenarios
  /\ list = [d \in Displays |-> <<>>]
  /\ yuvCount = [d \in Displays |-> 0]
  /\ frame = [d \in Displays |-> Frame(0)]
  /\ cache = [d \in Displays |-> NoCache]
  /\ modeOn = [d \in Displays |-> FALSE]
  /\ copybit = FALSE
  /\ target = Blank /\ fbHandle = Blank
  /\ active = [d \in Displays |-> d = DPY_PRIMARY]
  /\ connected = FALSE /\ paused = FALSE
  /\ mExtDispConfiguring = FALSE /\ mVideoTransFlag = FALSE
-------------------------------------------------------------------------------
(* MDPComp's choice for a list, with the layers whose buffers are the same *)
(* as in the cached frame.                                                 *)
Yuv(l) == {i \in DOMAIN l : l[i].yuv}
isSkipPresent(l) == \E i \in DOMAIN l : l[i].skip
NotSupported(l) == {i \in DOMAIN l : ~l[i].supported}

(* On MDP 4.1 the lowest pipe has to cover the display: a base pipe goes   *)
(* below a bottom layer that does not.                                     *)
BaseNeeded(l, fb) == 1 \notin fb /\ ~l[1].full
Base(l, fb) == IF BaseNeeded(l, fb) THEN 1 ELSE 0

(* One pipe is reserved for the framebuffer when there are layers in it.   *)
getAvailablePipes(avail, fb) == avail - (IF fb # {} THEN 1 ELSE 0)

(* The video layers near the bottom or the top of the stack leave the      *)
(* framebuffer, the other ones enter it.                                   *)
updateYUV(l, avail, fb) ==
  (fb \cup Yuv(l)) \
    {i \in Yuv(l) : /\ l[i].doable
                    /\ \/ i <= getAvailablePipes(avail, fb)
                       \/ i > Len(l) - getAvailablePipes(avail, fb)}

(* The layers that need the GPU, and all between them, enter it.           *)
updateNotSupported(l, fb) ==
  IF NotSupported(l) = {} THEN fb
  ELSE fb \cup (Min(NotSupported(l)) .. Max(NotSupported(l)))

Run(lo, hi, fb) == lo .. hi \subseteq fb /\ lo - 1 \notin fb /\ hi + 1 \notin fb
Runs(l, fb) == {r \in (DOMAIN l) \X (DOMAIN l) : r[1] <= r[2] /\ Run(r[1], r[2], fb)}

(* One contiguous batch of layers stays in the framebuffer: the one around *)
(* the unsupported layers, or else the first of the longest ones.          *)
Batch(l, fb) ==
  CHOOSE r \in Runs(l, fb) :
    IF NotSupported(l) # {} THEN Min(NotSupported(l)) \in r[1] .. r[2]
    ELSE \A s \in Runs(l, fb) : \/ r[2] - r[1] > s[2] - s[1]
                                \/ r[2] - r[1] = s[2] - s[1] /\ r[1] <= s[1]


batchLayers(l, fb) ==
  IF fb = {} THEN {} ELSE Batch(l, fb)[1] .. Batch(l, fb)[2]

(* partialMDPComp keeps unchanged layers in the framebuffer; the video     *)
(* path keeps all of them.                                                 *)
partialMDPComp(l, avail, same) ==
  batchLayers(l, updateNotSupported(l, updateYUV(l, avail, same)))

isOnlyVideoDoable(l, avail) ==
  batchLayers(l, updateNotSupported(l, updateYUV(l, avail, DOMAIN l)))

(* The pipes for the layers outside fb and for the base layer exist and    *)
(* fit the mixer, next to the framebuffer's.                               *)
MdpCount(l, fb) == Cardinality(DOMAIN l \ fb) + Base(l, fb)

FullFits(l, avail) ==
  /\ ~isSkipPresent(l)
  /\ NotSupported(l) = {}
  /\ MdpCount(l, {}) <= sMaxPipesPerMixer
  /\ MdpCount(l, {}) <= avail

Fits(l, avail, fb) ==
  /\ MdpCount(l, fb) > 0
  /\ MdpCount(l, fb) <= sMaxPipesPerMixer - 1
  /\ MdpCount(l, fb) <= getAvailablePipes(avail, fb)


(* The z-order FBUpdate is given: the layers below the batch, and the base.*)
FbZ(l, fb) == IF fb = {} THEN -1 ELSE Min(fb) - 1 + Base(l, fb)

(* How a display's frame is composed: "full", "partial", "video" or "gpu". *)
(* The last is MDPComp's fallback: all layers are in the framebuffer.      *)
isFrameDoable(configuring, transition) == ~configuring /\ ~transition
isFullFrameDoable(d) == d = DPY_PRIMARY

Composition(d, l, avail, same, doable) ==
  IF ~doable THEN "gpu"
  ELSE IF isFullFrameDoable(d) /\ FullFits(l, avail) THEN "full"
  ELSE IF isFullFrameDoable(d) /\ Fits(l, avail, partialMDPComp(l, avail, same)) THEN "partial"
  ELSE IF Yuv(l) # {} /\ Fits(l, avail, isOnlyVideoDoable(l, avail)) THEN "video"
  ELSE "gpu"

FbLayers(how, l, avail, same) ==
  CASE how = "full" -> {}
    [] how = "partial" -> partialMDPComp(l, avail, same)
    [] how = "video" -> isOnlyVideoDoable(l, avail)
    [] how = "gpu" -> DOMAIN l

(* The framebuffer holds the layers of the cached frame, none changed.     *)
isSameFrame(c, l, fb, same) == c.n = Len(l) /\ c.fb = fb /\ fb \subseteq same
-------------------------------------------------------------------------------
(* The operations on the pipe book for a frame, in the order of            *)
(* MDPComp::prepare and programMDP: the framebuffer first; then a pipe for *)
(* the base layer, the videos and the other layers; then their commits.    *)
GetOp(t) == [do |-> "next", for |-> t]
CommitOp(t) == [do |-> "commit", for |-> t]
FbProgram == <<GetOp(FB), CommitOp(FB)>>

InOrder(S) ==
  [i \in 1 .. Cardinality(S) |-> CHOOSE t \in S : Cardinality({u \in S : u < t}) = i - 1]
Map(F(_), seq) == [i \in DOMAIN seq |-> F(seq[i])]

allocLayerPipes(l, fb) ==
  Map(GetOp, InOrder(IF BaseNeeded(l, fb) THEN {BASE} ELSE {})
             \o InOrder(Yuv(l) \ fb) \o InOrder((DOMAIN l \ fb) \ Yuv(l)))

programMDP(l, fb) ==
  allocLayerPipes(l, fb)
  \o Map(CommitOp, InOrder((DOMAIN l \ fb) \cup (IF BaseNeeded(l, fb) THEN {BASE} ELSE {})))

Program(l, fb) ==
  (IF fb # {} THEN FbProgram ELSE <<>>) \o (IF fb = DOMAIN l THEN <<>> ELSE programMDP(l, fb))

(* getMdpPipe: which pipes will do.  RGB pipes, where they will, are tried *)
(* first.                                                                  *)
PipeTypes(l, t) ==
  CASE t \in {FB, BASE} -> {"RGB", "VG"}
    [] t \notin {FB, BASE} /\ l[t].yuv -> {"VG"}
    [] t \notin {FB, BASE} /\ ~l[t].yuv /\ l[t].flipped -> {"RGB"}
    [] OTHER -> {"RGB", "VG"}

(* The z-order programMDP gives a layer's pipe, and FBUpdate's.            *)
ZOrder(l, f, t) ==
  CASE t = FB -> f.fbZ
    [] t = BASE -> 0
    [] OTHER -> Base(l, f.fb) + Cardinality({j \in 1 .. (t - 1) : j \notin f.fb})
                + (IF \E j \in f.fb : j < t THEN 1 ELSE 0)
-------------------------------------------------------------------------------
(* The displays are prepared from the last to the first.                   *)
After(d) == IF d = DPY_EXTERNAL THEN DPY_PRIMARY ELSE DPY_UNUSED

(* hwc_prepare, its beginning: the helper reset() and configBegin.         *)
hwc_prepare ==
  /\ phase = "idle"
  /\ configBegin
  /\ phase' = "prepare" /\ at' = DPY_EXTERNAL
  /\ modeOn' = [d \in Displays |-> FALSE]
  /\ copybit' = FALSE
  /\ UNCHANGED <<todo, ready, failures, scenario, list, yuvCount, frame, cache, target, fbHandle,
                 dpyVars, flagVars>>

Composable(d) == active[d] /\ (d = DPY_EXTERNAL => connected /\ ~paused)

(* A display that is off, paused or has no layers is passed over; the      *)
(* layer flags of a paused one are made anew.                              *)
PassOver(l) ==
  /\ phase = "prepare" /\ at \in Displays /\ at \notin ready
  /\ l = <<>> \/ ~Composable(at)
  /\ at' = After(at)
  /\ list' = [list EXCEPT ![at] = l]
  /\ frame' = IF l # <<>> /\ at = DPY_EXTERNAL /\ active[at] /\ connected
                 THEN [frame EXCEPT ![at].flagged = {}] ELSE frame
  /\ UNCHANGED <<ovVars, phase, todo, ready, failures, scenario, yuvCount, cache, modeOn,
                 copybit, target, fbHandle, dpyVars, flagVars>>

(* An image ages when a layer in it changes its buffer or its place.       *)
Aged(image, same, geometry) ==
  [image EXCEPT !.fresh = @ /\ ~geometry /\ image.layers \subseteq same]

(* hwc_prepare_primary and hwc_prepare_external up to MDPComp's choice.    *)
(* SurfaceFlinger marks the list when its layers have changed.             *)
MDPComp_prepare(l, same, geometry) ==
  /\ phase = "prepare" /\ at \in Displays /\ at \notin ready
  /\ l # <<>> /\ Composable(at)
  /\ l # list[at] => geometry
  /\ same \subseteq DOMAIN l \cap 1 .. cache[at].handles
  /\ mExtDispConfiguring' = (mExtDispConfiguring /\ at # DPY_EXTERNAL)
  /\ yuvCount' = [yuvCount EXCEPT ![at] = Cardinality(Yuv(l))]
  /\ mVideoTransFlag' = (mVideoTransFlag \/ yuvCount'[at] # yuvCount[at])
  /\ \E avail \in {availablePipes(at)} :
     \E how \in {Composition(at, l, avail, same,
                              isFrameDoable(mExtDispConfiguring', mVideoTransFlag'))} :
     \E fb \in {FbLayers(how, l, avail, same)} :
        /\ frame' = [frame EXCEPT ![at] =
              [Frame(Len(l)) EXCEPT
                 !.fb = fb, !.fbZ = FbZ(l, fb),
                 !.redraw = \/ how \in {"video", "gpu"}
                            \/ ~isSameFrame(cache[at], l, fb, same)
                            \/ geometry \/ isSkipPresent(l) \/ at # DPY_PRIMARY]]
        /\ todo' = Program(l, fb)
  /\ list' = [list EXCEPT ![at] = l]
  /\ ready' = ready \cup {at}
  /\ IF at = DPY_PRIMARY
       THEN /\ target' = Aged(target, same, geometry)
            /\ fbHandle' = Aged(fbHandle, same, geometry)
       ELSE UNCHANGED <<target, fbHandle>>
  /\ UNCHANGED <<ovVars, phase, at, failures, scenario, cache, modeOn, copybit, dpyVars>>

Fallback(f) == f.fb = 1 .. f.n

(* Mutant: FBUpdate takes all layers, but the frame is not reset.          *)
PrepareFails_NoReset ==
  /\ todo' = IF Fallback(frame[at]) THEN <<>> ELSE FbProgram
  /\ modeOn' = [modeOn EXCEPT ![at] = FALSE]
  /\ UNCHANGED frame

(* A pipe cannot be had or committed: MDPComp gives the frame up and       *)
(* FBUpdate takes all layers; if it is FBUpdate that fails, it is off.     *)
PrepareFails ==
  /\ todo' = IF Fallback(frame[at]) THEN <<>> ELSE FbProgram
  /\ frame' = [frame EXCEPT ![at] = Frame(@.n)]
  /\ modeOn' = [modeOn EXCEPT ![at] = FALSE]

Step == phase = "prepare" /\ todo # <<>>

GetPipe ==
  /\ Step /\ Head(todo).do = "next"
  /\ \E types \in {PipeTypes(list[at], Head(todo).for)} :
        \/ \E p \in Pipes :
              /\ nextPipe(types, at, p)
              /\ frame' = [frame EXCEPT ![at].pipe[Head(todo).for] = p]
              /\ todo' = Tail(todo)
              /\ UNCHANGED modeOn
        \/ /\ Candidates(types, at) = {}
           /\ PrepareFails
           /\ UNCHANGED ovVars
  /\ UNCHANGED <<phase, at, ready, failures, scenario, list, yuvCount, cache, copybit, target, fbHandle,
                 dpyVars, flagVars>>

CommitPipe ==
  /\ Step /\ Head(todo).do = "commit"
  /\ \/ /\ commit(frame[at].pipe[Head(todo).for], TRUE)
        /\ todo' = Tail(todo)
        /\ modeOn' = [modeOn EXCEPT ![at] = @ \/ Head(todo).for = FB]
        /\ UNCHANGED <<frame, failures>>
     \/ /\ failures < MaxFailures
        /\ commit(frame[at].pipe[Head(todo).for], FALSE)
        /\ failures' = failures + 1
        /\ PrepareFails
  /\ UNCHANGED <<phase, at, ready, scenario, list, yuvCount, cache, copybit, target, fbHandle,
                 dpyVars, flagVars>>

(* The layers that are left to SurfaceFlinger.                             *)
GpuLayers(f) == IF f.redraw THEN f.fb ELSE {}

(* CopyBit::prepare may take them, all of them: it must be a frame without *)
(* skipped layers that shows the framebuffer.                              *)
CopyBit_prepare(f) ==
  IF at = DPY_PRIMARY /\ GpuLayers(f) # {} /\ modeOn[at] /\ ~isSkipPresent(list[at])
  THEN BOOLEAN ELSE {FALSE}

(* The end of a display's prepare: setMDPCompLayerFlags, the layer cache,  *)
(* the copybit.                                                            *)
Prepared ==
  /\ phase = "prepare" /\ at \in ready /\ todo = <<>>
  /\ frame' = [frame EXCEPT ![at].flagged = (1 .. frame[at].n) \ frame[at].fb]
  /\ cache' = [cache EXCEPT ![at] =
        [n |-> frame[at].n, fb |-> frame[at].fb,
         handles |-> IF frame[at].n > @.handles THEN frame[at].n ELSE @.handles]]
  /\ copybit' \in CopyBit_prepare(frame[at])
  /\ at' = After(at)
  /\ UNCHANGED <<ovVars, phase, todo, ready, failures, scenario, list, yuvCount, modeOn, target,
                 fbHandle, dpyVars, flagVars>>

PrepareDone ==
  /\ phase = "prepare" /\ at = DPY_UNUSED
  /\ configDone
  /\ phase' = "set" /\ at' = DPY_PRIMARY
  /\ UNCHANGED <<todo, ready, failures, scenario, frameVars, dpyVars, flagVars>>
-------------------------------------------------------------------------------
(* The pipes hwc_set queues buffers to: the base layer's, the flagged      *)
(* layers', the framebuffer's.  Queueing does not change the pipe book.    *)
DrawTargets(d) ==
  {t \in Targets : /\ frame[d].pipe[t] # OV_INVALID
                   /\ t = BASE \/ t \in frame[d].flagged \/ (t = FB /\ modeOn[d])}

Drawn(d) == {frame[d].pipe[t] : t \in DrawTargets(d)}

Draws(d) == phase = "set" /\ at = d /\ list[d] # <<>> /\ Composable(d)

(* SurfaceFlinger has drawn the layers left to it into its target.  MDPComp*)
(* shows the buffer it remembers when nothing was to be redrawn.           *)
Composed(f) == [layers |-> f.fb, fresh |-> TRUE]

hwc_set_primary ==
  /\ phase = "set" /\ at = DPY_PRIMARY
  /\ IF Draws(at)
       THEN \E f \in {frame[at]} :
              /\ target' = IF GpuLayers(f) # {} /\ ~copybit THEN Composed(f) ELSE target
              /\ fbHandle' = IF copybit THEN Composed(f)
                             ELSE IF f.fb # {} /\ ~f.redraw THEN fbHandle
                             ELSE target'
              /\ frame' = [frame EXCEPT ![at].flagged = {}]
       ELSE UNCHANGED <<target, fbHandle, frame>>
  /\ at' = DPY_EXTERNAL
  /\ UNCHANGED <<ovVars, phase, todo, ready, failures, scenario, list, yuvCount, cache,
                 modeOn, copybit, dpyVars, flagVars>>

(* The external display, under mExtSetLock, and the end of hwc_set.        *)
hwc_set_external ==
  /\ phase = "set" /\ at = DPY_EXTERNAL
  /\ frame' = IF Draws(at) THEN [frame EXCEPT ![at].flagged = {}] ELSE frame
  /\ phase' = "idle" /\ at' = DPY_PRIMARY /\ ready' = {} /\ failures' = 0
  /\ mVideoTransFlag' = FALSE
  /\ UNCHANGED <<ovVars, todo, scenario, list, yuvCount, cache, modeOn, copybit, target,
                 fbHandle, dpyVars, mExtDispConfiguring>>

(* hwc_blank: a round without any commit frees the pipes of both displays, *)
(* then the display goes off, unless the driver refuses.  SurfaceFlinger   *)
(* blanks a display that is on and unblanks one that is off.               *)
hwc_blank(d) ==
  /\ phase = "idle" /\ active[d]
  /\ configBegin
  /\ phase' = "blank" /\ at' = d
  /\ UNCHANGED <<todo, ready, failures, scenario, frameVars, dpyVars, flagVars>>

BlankDone(ok) ==
  /\ phase = "blank"
  /\ configDone
  /\ phase' = "idle" /\ at' = DPY_PRIMARY
  /\ active' = [active EXCEPT ![at] = @ /\ ~ok]
  /\ UNCHANGED <<todo, ready, failures, scenario, frameVars, connected, paused, flagVars>>

(* After an unblank SurfaceFlinger builds the layer list anew.             *)
hwc_unblank(d) ==
  /\ phase = "idle" /\ ~active[d]
  /\ active' = [active EXCEPT ![d] = TRUE]
  /\ list' = [list EXCEPT ![d] = <<>>]
  /\ UNCHANGED <<ovVars, sfVars, yuvCount, frame, cache, modeOn, copybit, target, fbHandle,
                 connected, paused, flagVars>>
-------------------------------------------------------------------------------
(* handle_uevent, on the uevent thread.  What it writes is read when a     *)
(* display's prepare begins and when the external display is set.  It is   *)
(* modelled at these points: an event at another one commutes with the     *)
(* steps up to the next of them.  The external display's FBUpdate and      *)
(* MDPComp are made and deleted with it; while hwc_prepare_external runs   *)
(* that is undefined behaviour and not modelled.                           *)
Observed ==
  \/ phase = "prepare" /\ at \in Displays \ ready
  \/ phase = "set" /\ at = DPY_EXTERNAL

NewObjects ==
  /\ frame' = [frame EXCEPT ![DPY_EXTERNAL] = Frame(0)]
  /\ cache' = [cache EXCEPT ![DPY_EXTERNAL] = NoCache]
  /\ modeOn' = [modeOn EXCEPT ![DPY_EXTERNAL] = FALSE]
  /\ UNCHANGED <<list, yuvCount, copybit, target, fbHandle>>

External_Online ==
  /\ Observed /\ scenario[DPY_EXTERNAL] # {}
  /\ active' = [active EXCEPT ![DPY_EXTERNAL] = FALSE]
  /\ mExtDispConfiguring' = TRUE
  /\ NewObjects
  /\ connected' = TRUE /\ paused' = FALSE
  /\ UNCHANGED <<ovVars, sfVars, mVideoTransFlag>>

(* Mutant: the uevent thread frees the display's pipes itself.             *)
External_Offline_Frees ==
  /\ Observed
  /\ active' = [active EXCEPT ![DPY_EXTERNAL] = FALSE]
  /\ NewObjects
  /\ connected' = FALSE
  /\ \E lost \in {{p \in Pipes : mDisplay[p] = DPY_EXTERNAL}} :
        /\ mDisplay' = [p \in Pipes |-> IF p \in lost THEN DPY_UNUSED ELSE mDisplay[p]]
        /\ mPipe' = [p \in Pipes |-> IF p \in lost THEN "none" ELSE mPipe[p]]
        /\ session' = session \ lost
        /\ used' = used \ lost
        /\ allocated' = allocated \ lost
  /\ UNCHANGED <<lastUsed, inRound, sfVars, paused, flagVars>>

External_Offline ==
  /\ Observed
  /\ active' = [active EXCEPT ![DPY_EXTERNAL] = FALSE]
  /\ NewObjects
  /\ connected' = FALSE
  /\ UNCHANGED <<ovVars, sfVars, paused, flagVars>>

(* A connected display is paused and resumed.                              *)
External_Pause ==
  /\ Observed /\ connected
  /\ mExtDispConfiguring' = TRUE
  /\ active' = [active EXCEPT ![DPY_EXTERNAL] = TRUE]
  /\ paused' = TRUE
  /\ UNCHANGED <<ovVars, sfVars, frameVars, connected, mVideoTransFlag>>

External_Resume ==
  /\ Observed /\ connected
  /\ active' = [active EXCEPT ![DPY_EXTERNAL] = TRUE]
  /\ paused' = FALSE
  /\ UNCHANGED <<ovVars, sfVars, frameVars, connected, flagVars>>

Prepare ==
  \/ hwc_prepare
  \/ at \in Displays /\ \E l \in {<<>>} \cup scenario[at] :
        \/ PassOver(l)
        \/ \E same \in SUBSET DOMAIN l, geometry \in BOOLEAN : MDPComp_prepare(l, same, geometry)
  \/ GetPipe
  \/ CommitPipe
  \/ Prepared
  \/ PrepareDone

Uevent == External_Online \/ External_Offline \/ External_Pause \/ External_Resume

Next ==
  \/ Prepare
  \/ hwc_set_primary
  \/ hwc_set_external
  \/ \E d \in Displays : hwc_blank(d) \/ hwc_unblank(d)
  \/ \E ok \in BOOLEAN : BlankDone(ok)
  \/ Uevent

Spec == Init /\ [][Next]_vars
-------------------------------------------------------------------------------
Layers(d) == 1 .. frame[d].n

(* What the comment on Overlay::nextPipe promises holds of the composer:   *)
(* it uses the pipe book as OvSpec allows.                                 *)
UsesPipeBook == OvSpec

(* The stacking order on the screen is the order of the list: pipes are    *)
(* blended by z-order, the base lowest, and the framebuffer takes the      *)
(* place of all of its layers.                                             *)
Above(i, d) == IF i \in frame[d].fb THEN FB ELSE i
Stacked(d) ==
  \A s, t \in {BASE} \cup Layers(d) :
    s < t /\ Above(s, d) # Above(t, d) /\ frame[d].pipe[Above(s, d)] # OV_INVALID
    => ZOrder(list[d], frame[d], Above(s, d)) < ZOrder(list[d], frame[d], Above(t, d))

(* SurfaceFlinger is told to skip redrawing only when the buffer that will *)
(* be shown holds the present content of exactly the framebuffer's layers. *)
Current ==
  phase = "set" /\ Draws(DPY_PRIMARY) /\ frame[DPY_PRIMARY].fb # {} /\ ~frame[DPY_PRIMARY].redraw
  => fbHandle = Composed(frame[DPY_PRIMARY])

(* A frame that MDPComp composes is shown as it is when it is set.  Each   *)
(* layer is in the framebuffer or has a pipe that can play it, no two      *)
(* share a pipe, the framebuffer is shown if it is needed, every pipe the  *)
(* round has used for the display is queued a buffer, the pipes stack as   *)
(* the list does, and an old framebuffer is only shown while it is right.  *)
(* It says nothing of the frame that falls back after a failed commit.     *)
FrameComplete ==
  /\ \A d \in ready : phase = "set" /\ Draws(d) /\ ~Fallback(frame[d]) =>
       /\ frame[d].flagged = Layers(d) \ frame[d].fb
       /\ \A t \in frame[d].flagged : frame[d].pipe[t] # OV_INVALID
       /\ frame[d].fb # {} => modeOn[d]
       /\ Cardinality(Drawn(d)) = Cardinality(DrawTargets(d))
       /\ Drawn(d) = {p \in used : mDisplay[p] = d}
       /\ Stacked(d)
  /\ Current
===============================================================================
