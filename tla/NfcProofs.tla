------------------------------ MODULE NfcProofs -------------------------------
(***************************************************************************)
(* NfcManager, whatever is called, answered, refused or lost, and in       *)
(* whatever order: first the invariant of the library and the layer below, *)
(* then that of the callback frames and of the calls, then the transceive  *)
(* timeouts, for every number of milliseconds.                             *)
(***************************************************************************)
EXTENDS NfcManager, QueueLemmas

(***************************************************************************)
(* The phases of the library and the layer below.                          *)
(***************************************************************************)
HalFields == {"hwref", "ctx", "cur", "next", "openCb", "closeCb", "ioctlCb", "ioctl", "cfgCb",
              "handler", "add", "tagNtf", "rdr", "hci", "used"}
LibFields == {"ctx", "hw", "cur", "next", "initCb", "shutCb", "gen", "opCb", "op", "reg", "se",
              "disc", "ntf", "held"}
HalLike(h) == DOMAIN h = HalFields
WorldLike(v) ==
  DOMAIN v = {"hal", "lib", "posted", "aborted"} /\ HalLike(v.hal) /\ DOMAIN v.lib = LibFields

(* Neither layer has a context.                                            *)
Shut(v) == v.lib = NoLib /\ v.hal = ClosedHal
(* The library's context of an Open that was refused at once.              *)
Refused(v) ==
  /\ v.lib.ctx /\ v.lib.cur = "Shutdown" /\ v.lib.next = "InitandIdle" /\ ~v.lib.gen /\ v.lib.opCb = 0
  /\ v.hal.ctx = "freed" /\ v.hal.hci = "none" /\ v.hal.cur = "Closed"
Opening(v) ==
  /\ v.lib.ctx /\ v.lib.cur = "Shutdown" /\ v.lib.next = "InitandIdle" /\ ~v.lib.gen /\ v.lib.opCb = 0 /\ v.lib.op = "none"
  /\ v.hal.ctx = "live" /\ v.hal.hci = "init" /\ v.hal.cur = "Closed" /\ v.hal.openCb = "InitCb"
  /\ v.hal.next \in {"SelfTestMode", "OpenAndReady"} /\ ~v.hal.handler
  /\ v.hal.closeCb = "none" /\ v.hal.ioctlCb = "none" /\ v.hal.cfgCb = "none"
Downloading(v) ==
  /\ v.lib.ctx /\ v.lib.cur = "Shutdown" /\ v.lib.next = "Invalid"
  /\ v.hal.ctx = "live" /\ v.hal.hci = "download" /\ v.hal.cur = "Closed" /\ v.hal.ioctlCb = "IoctlCb"
HalUp(h) ==
  /\ h.ctx = "live" /\ h.hwref /\ h.handler /\ h.openCb = "none"
  /\ h.hci \in {"none", "release", "ioctl", "test", "config"}
  /\ h.closeCb \in {"none", "ShutdownCb"} /\ h.ioctlCb \in {"none", "IoctlCb"}
  /\ h.cfgCb \in {"none", "ConfigCb"}
  /\ h.hci = "release" => h.closeCb = "ShutdownCb"
Up_(v) == v.lib.ctx /\ v.lib.cur # "Shutdown" /\ HalUp(v.hal)
WorldOk(v) ==
  /\ WorldLike(v) /\ v.posted = <<>> /\ ~v.hal.used
  /\ Shut(v) \/ Refused(v) \/ Opening(v) \/ Downloading(v) \/ Up_(v)

(* The phases this file's calls bring about.                               *)
Ready(v) ==
  /\ Up_(v) /\ v.lib.cur \in {"InitandIdle", "ConfigReady"}
  /\ v.hal.cur = "OpenAndReady" /\ v.hal.next # "Closed" /\ v.hal.hci \in {"none", "ioctl", "config"}
Idle(v) == Ready(v) /\ ~v.lib.gen /\ v.lib.opCb = 0 /\ v.lib.op = "none" /\ v.lib.next = "Invalid"
(* A request whose answer frame f waits for.                               *)
Asked(v, f) ==
  /\ Ready(v) /\ v.lib.gen /\ v.lib.opCb = f
  /\ \/ v.lib.op = "MEM_WRITE" /\ v.hal.hci = "ioctl" /\ v.hal.ioctlCb = "IoctlCb"
     \/ /\ v.lib.op \in {"config", "discovery"}
        /\ v.hal.hci = "config" /\ v.hal.cfgCb = "ConfigCb" /\ v.hal.next = "Configuring"
  /\ v.lib.next = IF v.lib.op = "discovery" THEN "ConfigReady" ELSE "Invalid"
Closing(v) ==
  /\ Up_(v) /\ v.lib.next = "Shutdown" /\ v.lib.gen /\ v.lib.opCb = 0
  /\ v.hal.hci = "release" /\ v.hal.next = "Closed"
Broken(v) ==
  /\ Up_(v) /\ v.lib.next = "Invalid" /\ ~v.lib.gen /\ v.lib.opCb = 0
  /\ v.hal.hci = "none" /\ v.hal.cur = "Closed"

(* Nothing is on its way; or the answer to an Open or a Close is.          *)
Settled(v) == Shut(v) \/ Refused(v) \/ Idle(v) \/ Broken(v)
Opens(v) == Opening(v) /\ v.hal.next = "OpenAndReady"
Quiet(v) == Settled(v) \/ Opens(v) \/ Closing(v)
(* The clients' contexts kept for callbacks, and those of callbacks to     *)
(* come.                                                                   *)
Contexts(v) == {v.lib.initCb, v.lib.shutCb, v.lib.opCb}
Owed(v) ==
  (IF v.hal.hci = "init" THEN {v.lib.initCb} ELSE {})
    \cup (IF v.lib.ctx /\ v.lib.next = "Shutdown" THEN {v.lib.shutCb} ELSE {})
    \cup {v.lib.opCb}

-------------------------------------------------------------------------------
(* Nothing opened yet.                                                     *)
LEMMA NothingOpen == DOMAIN NoLib = LibFields /\ HalLike(ClosedHal)
  BY DEF NoLib, ClosedHal, LibFields, HalFields, HalLike

(* phHal4Nfc_Open of a closed layer.                                       *)
LEMMA HalOpen ==
  ASSUME NEW mode, NEW fault \in {"none", "memory", "hci"}, NEW h,
         HalLike(h), ~h.hwref, ~h.used, h.ctx = "none", h.cur = "Closed", h.hci = "none"
  PROVE  LET r == phHal4Nfc_Open(h, mode, fault)
         IN /\ HalLike(r.h) /\ ~r.h.used /\ r.h.cur = "Closed"
            /\ r.st = "PENDING" =>
                 /\ r.h.ctx = "live" /\ r.h.hci = "init" /\ r.h.openCb = "InitCb" /\ ~r.h.handler
                 /\ r.h.next = IF mode = "test" THEN "SelfTestMode" ELSE "OpenAndReady"
                 /\ r.h.closeCb = "none" /\ r.h.ioctlCb = "none" /\ r.h.cfgCb = "none"
            /\ r.st # "PENDING" => r.h.ctx = "freed" /\ r.h.hci = "none"
<1>1. CASE fault = "none"
  BY <1>1 DEF phHal4Nfc_Open, ClosedHal, phHal4Nfc_Configure_Layers, Touch, Ret, HalLike, HalFields
<1>2. CASE fault = "memory"
  BY <1>2 DEF phHal4Nfc_Open, ClosedHal, phHal4Nfc_Configure_Layers, Touch, Ret, HalLike, HalFields
<1>3. CASE fault = "hci"
  BY <1>3 DEF phHal4Nfc_Open, ClosedHal, phHal4Nfc_Configure_Layers, Touch, Ret, HalLike, HalFields
<1> QED
  BY <1>1, <1>2, <1>3

(* Fields of the world that a call or a notification leaves alone.         *)
SameRest(v, u) == u.posted = v.posted /\ u.aborted = v.aborted
SameCbs(v, u) ==
  u.lib.initCb = v.lib.initCb /\ u.lib.shutCb = v.lib.shutCb /\ u.lib.opCb = v.lib.opCb

(* OpenWith: the layer below is opened, or refuses and stays half open.    *)
LEMMA OpenWithPhase ==
  ASSUME NEW v, WorldLike(v), Shut(v), NEW c, NEW mode, NEW fault \in {"none", "memory", "hci"}
  PROVE  LET r == OpenWith(v, c, mode, fault)
         IN /\ WorldLike(r.w) /\ SameRest(v, r.w) /\ ~r.w.hal.used
            /\ r.w.lib.initCb = c /\ r.w.lib.shutCb = 0 /\ r.w.lib.opCb = 0
            /\ r.st = "PENDING" =>
                 Opening(r.w) /\ (r.w.hal.next = IF mode = "test" THEN "SelfTestMode" ELSE "OpenAndReady")
            /\ r.st # "PENDING" => Refused(r.w)
<1> DEFINE lib == phLibNfc_UpdateNextState([NoLib EXCEPT !.ctx = TRUE, !.hw = TRUE, !.initCb = c], "InitandIdle")
           fresh == [v EXCEPT !.lib = lib, !.hal.ctx = "none"]
           o == phHal4Nfc_Open(fresh.hal, mode, fault)
           r == OpenWith(v, c, mode, fault)
<1>1. /\ DOMAIN lib = LibFields /\ lib.ctx /\ lib.cur = "Shutdown" /\ lib.next = "InitandIdle"
      /\ ~lib.gen /\ lib.initCb = c /\ lib.shutCb = 0 /\ lib.opCb = 0 /\ lib.op = "none"
  BY DEF phLibNfc_UpdateNextState, NoLib, LibFields, Successors
<1> HIDE DEF lib
<1>2. /\ DOMAIN fresh = {"hal", "lib", "posted", "aborted"} /\ fresh.lib = lib
      /\ fresh.posted = v.posted /\ fresh.aborted = v.aborted
      /\ HalLike(fresh.hal) /\ ~fresh.hal.hwref /\ ~fresh.hal.used /\ fresh.hal.ctx = "none"
      /\ fresh.hal.cur = "Closed" /\ fresh.hal.hci = "none"
  BY DEF WorldLike, Shut, ClosedHal, HalLike, HalFields
<1>3. r.st = o.st /\ r.w = [fresh EXCEPT !.hal = o.h]
  BY DEF OpenWith, WithHal, Result, lib
<1> HIDE DEF fresh
<1>4. /\ HalLike(o.h) /\ ~o.h.used /\ o.h.cur = "Closed"
      /\ o.st = "PENDING" =>
           /\ o.h.ctx = "live" /\ o.h.hci = "init" /\ o.h.openCb = "InitCb" /\ ~o.h.handler
           /\ o.h.next = IF mode = "test" THEN "SelfTestMode" ELSE "OpenAndReady"
           /\ o.h.closeCb = "none" /\ o.h.ioctlCb = "none" /\ o.h.cfgCb = "none"
      /\ o.st # "PENDING" => o.h.ctx = "freed" /\ o.h.hci = "none"
  BY <1>2, HalOpen
<1> HIDE DEF o, r
<1>5. /\ r.w.hal = o.h /\ r.w.lib = lib /\ r.w.posted = v.posted /\ r.w.aborted = v.aborted
      /\ DOMAIN r.w = {"hal", "lib", "posted", "aborted"}
  BY <1>2, <1>3
<1> QED
  BY <1>1, <1>3, <1>4, <1>5 DEF WorldLike, SameRest, Opening, Refused, r

(* phLibNfc_Mgt_Initialize: only a library without a context is opened.    *)
LEMMA InitializePhase ==
  ASSUME NEW v, WorldLike(v), Shut(v) \/ v.lib.ctx, ~v.hal.used, NEW c, NEW fault \in {"none", "memory", "hci"}
  PROVE  LET r == phLibNfc_Mgt_Initialize(v, c, fault)
         IN /\ r.st = "PENDING" =>
                 /\ Shut(v) /\ Opening(r.w) /\ r.w.hal.next = "OpenAndReady"
                 /\ WorldLike(r.w) /\ SameRest(v, r.w) /\ ~r.w.hal.used
                 /\ r.w.lib.initCb = c /\ r.w.lib.shutCb = 0 /\ r.w.lib.opCb = 0
            /\ r.st # "PENDING" =>
                 \/ r.w = v
                 \/ /\ Shut(v) /\ Refused(r.w)
                    /\ WorldLike(r.w) /\ SameRest(v, r.w) /\ ~r.w.hal.used
                    /\ r.w.lib.initCb = c /\ r.w.lib.shutCb = 0 /\ r.w.lib.opCb = 0
<1>1. CASE Shut(v)
  <2>1. phLibNfc_Mgt_Initialize(v, c, fault) = OpenWith(v, c, "normal", fault)
    BY <1>1 DEF Shut, NoLib, phLibNfc_Mgt_Initialize
  <2> QED
    BY <1>1, <2>1, OpenWithPhase
<1>2. CASE v.lib.ctx
  BY <1>2 DEF phLibNfc_Mgt_Initialize, Result
<1> QED
  BY <1>1, <1>2

(* The library's record of a shutdown asked for.                           *)
Booked(v, c) == [v EXCEPT !.lib.shutCb = c, !.lib.gen = TRUE, !.lib.next = "Shutdown"]

(* Booking it leaves everything else as it was.                            *)
LEMMA ShutdownBooked ==
  ASSUME NEW v, WorldLike(v), NEW c
  PROVE  LET u == Booked(v, c)
         IN /\ WorldLike(u) /\ SameRest(v, u) /\ u.hal = v.hal
            /\ u.lib.shutCb = c /\ u.lib.gen /\ u.lib.next = "Shutdown"
            /\ u.lib.initCb = v.lib.initCb /\ u.lib.opCb = v.lib.opCb /\ u.lib.ctx = v.lib.ctx
            /\ u.lib.cur = v.lib.cur /\ u.lib.op = v.lib.op
  BY DEF Booked, WorldLike, LibFields, SameRest

(* A request to close, on a library that is up.                            *)
LEMMA ClosePhase ==
  ASSUME NEW v, WorldLike(v), Up_(v), ~v.hal.used, NEW c, NEW refused \in BOOLEAN
  PROVE  LET r == CloseNowOrLater(v, c, refused)
         IN /\ WorldLike(r.w) /\ SameRest(v, r.w) /\ ~r.w.hal.used /\ Up_(r.w)
            /\ r.w.lib.initCb = v.lib.initCb /\ r.w.lib.opCb = v.lib.opCb
            /\ r.st = "PENDING" =>
                 /\ r.w.lib.shutCb = c /\ r.w.lib.gen /\ r.w.lib.next = "Shutdown"
                 /\ ~v.lib.gen => r.w.hal.hci = "release" /\ r.w.hal.next = "Closed"
            /\ r.st # "PENDING" =>
                 /\ r.w.lib = v.lib /\ r.w.hal.cur = v.hal.cur /\ r.w.hal.next = v.hal.next
                 /\ r.w.hal.hci = v.hal.hci
<1> DEFINE p == phHal4Nfc_Close(v.hal, refused)
           r == CloseNowOrLater(v, c, refused)
<1>1. /\ HalLike(p.h) /\ ~p.h.used /\ HalUp(p.h) /\ p.h.cur = v.hal.cur
      /\ p.st = "PENDING" => p.h.hci = "release" /\ p.h.next = "Closed"
      /\ p.st # "PENDING" => p.h.hci = v.hal.hci /\ p.h.next = v.hal.next
  BY DEF phHal4Nfc_Close, Ret, Touch, Up_, HalUp, WorldLike, HalLike, HalFields
<1> HIDE DEF p
<1> DEFINE x == [v EXCEPT !.hal = p.h]
<1>2. /\ WorldLike(x) /\ SameRest(v, x) /\ x.hal = p.h /\ x.lib = v.lib
  BY <1>1 DEF WorldLike, SameRest
<1> HIDE DEF x
<1>3. CASE v.lib.gen
  <2> DEFINE u == Booked(v, c)
  <2>1. r.st = "PENDING" /\ r.w = u
    BY <1>3 DEF CloseNowOrLater, Result, Booked
  <2>2. /\ WorldLike(u) /\ SameRest(v, u) /\ u.hal = v.hal
        /\ u.lib.shutCb = c /\ u.lib.gen /\ u.lib.next = "Shutdown"
        /\ u.lib.initCb = v.lib.initCb /\ u.lib.opCb = v.lib.opCb /\ u.lib.ctx = v.lib.ctx
        /\ u.lib.cur = v.lib.cur
    BY ShutdownBooked
  <2> HIDE DEF u, r
  <2> QED
    BY <1>3, <2>1, <2>2 DEF Up_, r
<1>4. CASE ~v.lib.gen /\ p.st = "PENDING"
  <2> DEFINE u == Booked(x, c)
  <2>1. r.st = "PENDING" /\ r.w = u
    BY <1>4 DEF CloseNowOrLater, Result, WithHal, p, x, Booked
  <2>2. /\ WorldLike(u) /\ SameRest(x, u) /\ u.hal = x.hal
        /\ u.lib.shutCb = c /\ u.lib.gen /\ u.lib.next = "Shutdown"
        /\ u.lib.initCb = x.lib.initCb /\ u.lib.opCb = x.lib.opCb /\ u.lib.ctx = x.lib.ctx
        /\ u.lib.cur = x.lib.cur
    BY <1>2, ShutdownBooked
  <2> HIDE DEF u
  <2>3. Up_(u) /\ ~u.hal.used
    BY <1>1, <1>2, <1>4, <2>2 DEF Up_
  <2>4. SameRest(v, u)
    BY <1>2, <2>2 DEF SameRest
  <2>5. u.lib.initCb = v.lib.initCb /\ u.lib.opCb = v.lib.opCb /\ u.hal.hci = "release" /\ u.hal.next = "Closed"
    BY <1>1, <1>2, <1>4, <2>2
  <2> HIDE DEF r
  <2> QED
    BY <2>1, <2>2, <2>3, <2>4, <2>5 DEF r
<1>5. CASE ~v.lib.gen /\ p.st # "PENDING"
  <2>1. r.st = "FAILED" /\ r.w = x
    BY <1>5 DEF CloseNowOrLater, Result, WithHal, p, x
  <2> HIDE DEF r
  <2> QED
    BY <1>1, <1>2, <1>5, <2>1 DEF Up_, r
<1> QED
  BY <1>3, <1>4, <1>5

(* Both contexts are freed at once.                                        *)
LEMMA ResetCloses ==
  ASSUME NEW v, WorldLike(v), ~v.hal.used, v.hal.ctx = "live", NEW h, h = phHal4Nfc_Hal4Reset(v.hal)
  PROVE  LET u == [v EXCEPT !.hal = h, !.lib = NoLib]
         IN WorldLike(u) /\ SameRest(v, u) /\ Shut(u) /\ ~u.hal.used
<1>1. h = [ClosedHal EXCEPT !.used = FALSE]
  BY DEF phHal4Nfc_Hal4Reset, FreeContext
<1>2. h = ClosedHal
  BY <1>1 DEF ClosedHal
<1> QED
  BY <1>2, NothingOpen DEF WorldLike, SameRest, Shut, ClosedHal

(* phLibNfc_Mgt_DeInitialize, with a callback and without one.             *)
LEMMA DeInitializePhase ==
  ASSUME NEW v, WorldLike(v), ~v.hal.used, Up_(v) \/ v.lib.cur = "Shutdown", NEW c, NEW refused \in BOOLEAN
  PROVE  LET r == phLibNfc_Mgt_DeInitialize(v, c, refused)
         IN \/ r.w = v /\ r.st # "PENDING" /\ v.lib.cur = "Shutdown"
            \/ Up_(v) /\ c # 0 /\ r = CloseNowOrLater(v, c, refused)
            \/ Up_(v) /\ c = 0 /\ r.st # "PENDING" /\ WorldLike(r.w) /\ SameRest(v, r.w) /\ Shut(r.w) /\ ~r.w.hal.used
<1>1. CASE v.lib.cur = "Shutdown"
  BY <1>1 DEF phLibNfc_Mgt_DeInitialize, Result
<1>2. CASE Up_(v) /\ c # 0
  BY <1>2 DEF phLibNfc_Mgt_DeInitialize, Up_
<1>3. CASE Up_(v) /\ c = 0
  <2> DEFINE h == phHal4Nfc_Hal4Reset(v.hal)
             u == [v EXCEPT !.hal = h, !.lib = NoLib]
  <2>1. phLibNfc_Mgt_DeInitialize(v, c, refused) = Result("SUCCESS", u)
    BY <1>3 DEF phLibNfc_Mgt_DeInitialize, Up_
  <2>2. WorldLike(u) /\ SameRest(v, u) /\ Shut(u) /\ ~u.hal.used
    BY <1>3, ResetCloses DEF Up_, HalUp
  <2> HIDE DEF u
  <2> QED
    BY <1>3, <2>1, <2>2 DEF Result
<1> QED
  BY <1>1, <1>2, <1>3

(* What of the layer below stays as it was when a request is refused.      *)
SameHal(h, k) ==
  /\ k.ctx = h.ctx /\ k.hwref = h.hwref /\ k.cur = h.cur /\ k.next = h.next /\ k.hci = h.hci
  /\ k.openCb = h.openCb /\ k.closeCb = h.closeCb /\ k.ioctlCb = h.ioctlCb /\ k.cfgCb = h.cfgCb
  /\ k.handler = h.handler

(* phHal4Nfc_Ioctl on a layer that is up.                                  *)
LEMMA IoctlPhase ==
  ASSUME NEW h, HalLike(h), HalUp(h), ~h.used, NEW code, NEW refused \in BOOLEAN
  PROVE  LET r == phHal4Nfc_Ioctl(h, code, refused)
         IN /\ HalLike(r.h) /\ HalUp(r.h) /\ ~r.h.used
            /\ r.st = "PENDING" =>
                 /\ r.h.cur = h.cur /\ r.h.next = h.next /\ r.h.ioctlCb = "IoctlCb"
                 /\ r.h.hci = IoctlOp(h, code)
            /\ r.st # "PENDING" => SameHal(h, r.h)
<1> DEFINE r == phHal4Nfc_Ioctl(h, code, refused)
<1>1. \/ r = Ret("BUSY", Touch(h)) \/ r = Ret("FAILED", Touch(h))
      \/ /\ IoctlOp(h, code) \in {"test", "ioctl"}
         /\ r = Ret("PENDING", [Touch(h) EXCEPT !.ioctlCb = "IoctlCb", !.ioctl = code, !.hci = IoctlOp(h, code)])
  BY DEF phHal4Nfc_Ioctl, HalUp, IoctlOp
<1> HIDE DEF r
<1>2. HalLike(Touch(h)) /\ HalUp(Touch(h)) /\ ~Touch(h).used /\ SameHal(h, Touch(h))
  BY DEF Touch, HalLike, HalFields, HalUp, SameHal
<1> DEFINE k == [Touch(h) EXCEPT !.ioctlCb = "IoctlCb", !.ioctl = code, !.hci = IoctlOp(h, code)]
<1>3. ASSUME IoctlOp(h, code) \in {"test", "ioctl"}
      PROVE  /\ HalLike(k) /\ HalUp(k) /\ ~k.used /\ k.cur = h.cur /\ k.next = h.next
             /\ k.ioctlCb = "IoctlCb" /\ k.hci = IoctlOp(h, code)
  <2> DEFINE t == Touch(h) 
             i == IoctlOp(h, code)
  <2>1. HalLike(t) /\ HalUp(t) /\ ~t.used /\ SameHal(h, t) /\ i \in {"test", "ioctl"}
    BY <1>2, <1>3
  <2> HIDE DEF t, i
  <2>2. LET x == [t EXCEPT !.ioctlCb = "IoctlCb", !.ioctl = code, !.hci = i]
        IN /\ HalLike(x) /\ HalUp(x) /\ ~x.used /\ x.cur = h.cur /\ x.next = h.next
           /\ x.ioctlCb = "IoctlCb" /\ x.hci = i
    BY <2>1 DEF HalLike, HalFields, HalUp, SameHal
  <2> QED
    BY <2>2 DEF t, i
<1> HIDE DEF k
<1>4. CASE r = Ret("BUSY", Touch(h)) \/ r = Ret("FAILED", Touch(h))
  BY <1>2, <1>4 DEF Ret, r
<1>5. CASE IoctlOp(h, code) \in {"test", "ioctl"} /\ r = Ret("PENDING", k)
  BY <1>3, <1>5 DEF Ret, r
<1> QED
  BY <1>1, <1>4, <1>5 DEF k

(* phHal4Nfc_ConfigParameters on a layer that is up.                       *)
LEMMA ConfigPhase ==
  ASSUME NEW h, HalLike(h), HalUp(h), ~h.used, NEW refused \in BOOLEAN
  PROVE  LET r == phHal4Nfc_ConfigParameters(h, "config", refused)
         IN /\ HalLike(r.h) /\ HalUp(r.h) /\ ~r.h.used
            /\ r.st = "PENDING" =>
                 /\ r.h.cur = h.cur /\ r.h.next = "Configuring" /\ r.h.cfgCb = "ConfigCb"
                 /\ r.h.hci = "config"
            /\ r.st # "PENDING" => SameHal(h, r.h)
  BY DEF phHal4Nfc_ConfigParameters, Ret, HalLike, HalFields, HalUp, SameHal

(* The operations of the library, on a layer that is up.                   *)
LEMMA LibOpPhase ==
  ASSUME NEW v, WorldLike(v), ~v.hal.used, Up_(v), NEW op, NEW c, NEW refused \in BOOLEAN
  PROVE  LET r == LibOp(v, op, c, refused)
         IN /\ WorldLike(r.w) /\ SameRest(v, r.w) /\ ~r.w.hal.used /\ Up_(r.w)
            /\ r.w.lib.initCb = v.lib.initCb /\ r.w.lib.shutCb = v.lib.shutCb
            /\ r.st = "PENDING" =>
                 /\ r.w.lib.gen /\ r.w.lib.opCb = c /\ r.w.lib.op = op /\ r.w.lib.cur = v.lib.cur
                 /\ r.w.hal.cur = v.hal.cur /\ v.lib.next # "Shutdown" /\ ~v.lib.gen
                 /\ r.w.lib.next = IF op \in DOMAIN Leads THEN Leads[op] ELSE v.lib.next
                 /\ IF Configures(op)
                    THEN r.w.hal.next = "Configuring" /\ r.w.hal.cfgCb = "ConfigCb" /\ r.w.hal.hci = "config"
                    ELSE /\ r.w.hal.next = v.hal.next /\ r.w.hal.ioctlCb = "IoctlCb"
                         /\ r.w.hal.hci = IoctlOp(v.hal, op)
            /\ r.st # "PENDING" => r.w.lib = v.lib /\ SameHal(v.hal, r.w.hal)
<1> DEFINE a == IF Configures(op) THEN phHal4Nfc_ConfigParameters(v.hal, "config", refused)
                ELSE phHal4Nfc_Ioctl(v.hal, op, refused)
           x == [v EXCEPT !.hal = a.h]
           n == IF op \in DOMAIN Leads THEN phLibNfc_UpdateNextState(v.lib, Leads[op]) ELSE v.lib
           l == [n EXCEPT !.gen = TRUE, !.opCb = c, !.op = op, !.disc = op = "continue"]
           r == LibOp(v, op, c, refused)
<1>1. /\ HalLike(a.h) /\ HalUp(a.h) /\ ~a.h.used
      /\ a.st = "PENDING" =>
           /\ a.h.cur = v.hal.cur
           /\ IF Configures(op)
              THEN a.h.next = "Configuring" /\ a.h.cfgCb = "ConfigCb" /\ a.h.hci = "config"
              ELSE a.h.next = v.hal.next /\ a.h.ioctlCb = "IoctlCb" /\ a.h.hci = IoctlOp(v.hal, op)
      /\ a.st # "PENDING" => SameHal(v.hal, a.h)
  <2>1. CASE Configures(op)
    BY <2>1, ConfigPhase DEF WorldLike, Up_
  <2>2. CASE ~Configures(op)
    BY <2>2, IoctlPhase DEF WorldLike, Up_
  <2> QED
    BY <2>1, <2>2
<1>2. CASE Busy(v) # "no"
  <2>1. r = Result(Busy(v), v) /\ Busy(v) # "PENDING"
    BY <1>2 DEF LibOp, Busy
  <2> QED
    BY <2>1 DEF Result, SameRest, SameHal
<1>3. CASE Busy(v) = "no" /\ op \in DOMAIN Leads /\ Leads[op] \notin Successors(v.lib.cur)
  <2>1. r = Result("INVALID_STATE", v)
    BY <1>3 DEF LibOp
  <2> QED
    BY <2>1 DEF Result, SameRest, SameHal
<1>4. CASE Busy(v) = "no" /\ ~(op \in DOMAIN Leads /\ Leads[op] \notin Successors(v.lib.cur))
  <2>1. r = IF a.st # "PENDING" THEN Result(a.st, x) ELSE Result("PENDING", [x EXCEPT !.lib = l])
    <3>1. WithHal(v, a) = Result(a.st, x)
      BY DEF WithHal
    <3> HIDE DEF a, x, n
    <3> QED
      BY <1>4, <3>1 DEF LibOp, Result, a, n
  <2>2. WorldLike(x) /\ SameRest(v, x) /\ x.hal = a.h /\ x.lib = v.lib
    BY <1>1 DEF WorldLike, SameRest
  <2>3. ~v.lib.gen /\ v.lib.next # "Shutdown"
    BY <1>4 DEF Busy, Up_
  <2>4. /\ DOMAIN l = LibFields /\ l.gen /\ l.opCb = c /\ l.op = op /\ l.cur = v.lib.cur
        /\ l.next = IF op \in DOMAIN Leads THEN Leads[op] ELSE v.lib.next
        /\ l.initCb = v.lib.initCb /\ l.shutCb = v.lib.shutCb /\ l.ctx = v.lib.ctx
    <3>1. /\ DOMAIN n = LibFields /\ n.cur = v.lib.cur
          /\ n.next = IF op \in DOMAIN Leads THEN Leads[op] ELSE v.lib.next
          /\ n.initCb = v.lib.initCb /\ n.shutCb = v.lib.shutCb /\ n.ctx = v.lib.ctx
      BY <1>4 DEF phLibNfc_UpdateNextState, WorldLike, LibFields
    <3> HIDE DEF n
    <3> QED
      BY <3>1 DEF LibFields
  <2> HIDE DEF a, x, l, r
  <2>5. CASE a.st # "PENDING"
    BY <1>1, <2>1, <2>2, <2>5 DEF Result, Up_, r
  <2>6. CASE a.st = "PENDING"
    <3> DEFINE u == [x EXCEPT !.lib = l]
    <3>1. u.lib = l /\ u.hal = a.h /\ WorldLike(u) /\ SameRest(v, u)
      BY <2>2, <2>4 DEF WorldLike, SameRest
    <3>2. r.st = "PENDING" /\ r.w = u
      BY <2>1, <2>6 DEF Result
    <3> HIDE DEF u
    <3>3. Up_(u) /\ ~u.hal.used
      BY <1>1, <2>4, <3>1 DEF Up_
    <3> QED
      BY <1>1, <2>3, <2>4, <2>6, <3>1, <3>2, <3>3 DEF r
  <2> QED
    BY <2>5, <2>6
<1> QED
  BY <1>2, <1>3, <1>4

(* A download runs only in a library without a context.                    *)
LEMMA DownloadPhase ==
  ASSUME NEW v, WorldLike(v), Shut(v) \/ v.lib.ctx, ~v.hal.used, NEW c, NEW refused \in BOOLEAN
  PROVE  LET r == Download(v, c, refused)
         IN /\ r.st = "PENDING" =>
                 /\ Shut(v) /\ Downloading(r.w) /\ WorldLike(r.w) /\ SameRest(v, r.w) /\ ~r.w.hal.used
                 /\ r.w.lib.opCb = c /\ r.w.lib.initCb = 0 /\ r.w.lib.shutCb = 0
            /\ r.st # "PENDING" =>
                 \/ r.w = v
                 \/ Shut(v) /\ WorldLike(r.w) /\ SameRest(v, r.w) /\ Shut(r.w) /\ ~r.w.hal.used
<1>1. CASE v.lib.ctx
  BY <1>1 DEF Download, Result
<1>2. CASE Shut(v)
  <2> DEFINE o == phHal4Nfc_Ioctl(v.hal, "FW_DOWNLOAD", refused)
             k == [ClosedHal EXCEPT !.ctx = "live", !.used = v.hal.used, !.ioctlCb = "IoctlCb", !.hci = "download"]
             l == [NoLib EXCEPT !.ctx = TRUE, !.next = "Invalid", !.opCb = c]
             r == Download(v, c, refused)
  <2>1. o = IF refused THEN Ret("FAILED", v.hal) ELSE Ret("PENDING", k)
    BY <1>2 DEF phHal4Nfc_Ioctl, IoctlClosed, Shut, ClosedHal
  <2>2. r = LET x == WithHal(v, o) IN IF x.st # "PENDING" THEN x ELSE [x EXCEPT !.w.lib = l]
    BY <1>2 DEF Download, Shut, NoLib
  <2>3. CASE refused
    <3> DEFINE u == [v EXCEPT !.hal = v.hal]
    <3>a. o.st = "FAILED" /\ o.h = v.hal
      <4>1. o = Ret("FAILED", v.hal)
        <5> HIDE DEF o, k
        <5> QED
          BY <2>1, <2>3
      <4> HIDE DEF o
      <4> QED
        BY <4>1 DEF Ret
    <3>0. WithHal(v, o) = Result("FAILED", u)
      <4> HIDE DEF o
      <4> QED
        BY <3>a DEF WithHal, Result
    <3>1. r = Result("FAILED", u)
      <4> HIDE DEF o, u
      <4> QED
        BY <2>2, <3>0 DEF Result
    <3>2. WorldLike(u) /\ SameRest(v, u) /\ Shut(u) /\ ~u.hal.used
      BY <1>2 DEF WorldLike, SameRest, Shut
    <3> HIDE DEF u
    <3> QED
      BY <1>2, <3>1, <3>2 DEF Result
  <2>4. CASE ~refused
    <3> DEFINE u == [v EXCEPT !.hal = k]
    <3>1. WithHal(v, o) = Result("PENDING", u)
      BY <2>1, <2>4 DEF WithHal, Ret
    <3>2. /\ DOMAIN k = HalFields /\ k.ctx = "live" /\ k.hci = "download" /\ k.cur = "Closed"
          /\ k.ioctlCb = "IoctlCb" /\ ~k.used
      BY DEF ClosedHal, HalFields
    <3>3. /\ DOMAIN l = LibFields /\ l.ctx /\ l.cur = "Shutdown" /\ l.next = "Invalid"
          /\ l.opCb = c /\ l.initCb = 0 /\ l.shutCb = 0
      BY DEF NoLib, LibFields
    <3> HIDE DEF k, l
    <3>4. WorldLike(u) /\ SameRest(v, u) /\ u.hal = k
      BY <3>2 DEF WorldLike, SameRest, HalLike
    <3> HIDE DEF u
    <3> DEFINE y == [u EXCEPT !.lib = l]
    <3>5. r = Result("PENDING", y)
      <4> HIDE DEF o
      <4> QED
        BY <2>2, <3>1 DEF Result, l
    <3>6. y.lib = l /\ y.hal = k /\ WorldLike(y) /\ SameRest(v, y)
      BY <3>3, <3>4 DEF WorldLike, SameRest
    <3> HIDE DEF y
    <3> QED
      BY <1>2, <3>2, <3>3, <3>5, <3>6 DEF Result, Downloading
  <2> QED
    BY <2>3, <2>4
<1> QED
  BY <1>1, <1>2

(* What the layer below makes of a notification while it is up: it stays   *)
(* up, is closed, or has no answer any more.                               *)
LEMMA LowerPhase ==
  ASSUME NEW h, HalLike(h), HalUp(h), ~h.used, NEW m \in Events \cup {"done", "error"},
         m \in {"done", "error"} => h.hci # "none"
  PROVE  LET r == phHal4Nfc_LowerNotificationHandler(h, m)
         IN /\ HalLike(r.h) /\ ~r.h.used
            /\ \/ r.h = ClosedHal /\ r.up = Up("ShutdownCb", TRUE) /\ h.hci = "release" /\ m = "done"
               \/ HalUp(r.h) /\ \/ r.up = Up("ShutdownCb", FALSE)
                                \/ \E ok \in BOOLEAN : r.up \in {Up("IoctlCb", ok), Up("ConfigCb", ok)}
                                \/ r.up \in {NoUp, Up("Default", TRUE), Up("none", TRUE), Up("none", FALSE), Up("p2p", TRUE)}
                                \/ \E e \in Emulation : r.up = Up(e, TRUE)
<1> DEFINE k == [Touch(h) EXCEPT !.hwref = TRUE]
           idle == [k EXCEPT !.hci = "none"]
           r == phHal4Nfc_LowerNotificationHandler(h, m)
<1>1. /\ DOMAIN k = HalFields /\ HalUp(k) /\ ~k.used /\ k.hci = h.hci /\ k.next = h.next
      /\ k.closeCb = h.closeCb /\ k.cfgCb = h.cfgCb /\ k.ioctlCb = h.ioctlCb /\ k.ioctl = h.ioctl
  BY DEF Touch, HalLike, HalFields, HalUp
<1> HIDE DEF k
<1>2. /\ DOMAIN idle = HalFields /\ HalUp(idle) /\ ~idle.used /\ idle.hci = "none" /\ idle.next = h.next
      /\ idle.closeCb = h.closeCb /\ idle.cfgCb = h.cfgCb /\ idle.ioctlCb = h.ioctlCb /\ idle.ioctl = h.ioctl
  BY <1>1 DEF HalFields, HalUp
<1> HIDE DEF idle
<1> DEFINE Fine(x) ==
      HalLike(x.h) /\ ~x.h.used /\ HalUp(x.h)
      /\ \/ x.up = Up("ShutdownCb", FALSE)
         \/ \E ok \in BOOLEAN : x.up \in {Up("IoctlCb", ok), Up("ConfigCb", ok)}
         \/ x.up \in {NoUp, Up("Default", TRUE), Up("none", TRUE), Up("none", FALSE), Up("p2p", TRUE)}
         \/ \E e \in Emulation : x.up = Up(e, TRUE)
<1>3. CASE m \in Events
  <2>1. r = phHal4Nfc_HandleEvent(k, m)
    BY <1>3 DEF phHal4Nfc_LowerNotificationHandler, Events, Emulation, k, idle
  <2>2. Fine(phHal4Nfc_HandleEvent(k, m))
    <3> DEFINE on == [k EXCEPT !.rdr = TRUE, !.add = TRUE,
                                !.next = IF k.hci = "none" THEN "Configuring" ELSE @,
                                !.hci = IF k.hci = "none" THEN "config" ELSE @]
               off == [k EXCEPT !.rdr = FALSE]
    <3>1. HalLike(k)
      BY <1>1 DEF HalLike
    <3>2. HalLike(on) /\ ~on.used /\ HalUp(on)
      BY <1>1 DEF HalLike, HalFields, HalUp
    <3>3. HalLike(off) /\ ~off.used /\ HalUp(off)
      BY <1>1 DEF HalLike, HalFields, HalUp
    <3> HIDE DEF on, off
    <3>4. CASE k.next = "Closed"
      <4>1. phHal4Nfc_HandleEvent(k, m) = [h |-> k, up |-> NoUp]
        BY <3>4 DEF phHal4Nfc_HandleEvent
      <4> QED
        BY <1>1, <3>1, <4>1
    <3>5. CASE k.next # "Closed" /\ m \in Emulation
      <4>1. phHal4Nfc_HandleEvent(k, m) = [h |-> k, up |-> Up(m, TRUE)]
        BY <3>5 DEF phHal4Nfc_HandleEvent, Emulation
      <4> DEFINE x == phHal4Nfc_HandleEvent(k, m)
      <4>2. x.h = k /\ x.up = Up(m, TRUE)
        BY <4>1
      <4> HIDE DEF x
      <4>3. Fine(x)
        BY <1>1, <3>1, <3>5, <4>2
      <4> QED
        BY <4>3 DEF x
    <3>6. CASE k.next # "Closed" /\ m = "p2p"
      <4>1. phHal4Nfc_HandleEvent(k, m) = [h |-> k, up |-> Up("p2p", TRUE)]
        BY <3>6 DEF phHal4Nfc_HandleEvent, Emulation
      <4> QED
        BY <1>1, <3>1, <4>1
    <3>7. CASE k.next # "Closed" /\ m = "rdOff"
      <4>1. phHal4Nfc_HandleEvent(k, m) = [h |-> off, up |-> NoUp]
        BY <3>7 DEF phHal4Nfc_HandleEvent, Emulation, off
      <4> QED
        BY <3>3, <4>1
    <3>8. CASE k.next # "Closed" /\ m = "rdOn"
      <4>1. phHal4Nfc_HandleEvent(k, m) = [h |-> on, up |-> NoUp]
        BY <3>8 DEF phHal4Nfc_HandleEvent, Emulation, on
      <4> QED
        BY <3>2, <4>1
    <3>9. CASE k.next # "Closed" /\ m = "exception"
      <4>1. phHal4Nfc_HandleEvent(k, m) = [h |-> k, up |-> Up("Default", TRUE)]
        BY <1>1, <3>9 DEF phHal4Nfc_HandleEvent, Emulation, HalUp
      <4> QED
        BY <1>1, <3>1, <4>1
    <3> QED
      BY <1>3, <3>4, <3>5, <3>6, <3>7, <3>8, <3>9 DEF Events
  <2> QED
    BY <2>1, <2>2
<1>4. CASE m \in {"done", "error"} /\ h.hci = "release"
  <2>1. r = phHal4Nfc_CloseComplete(idle, m = "done")
    BY <1>1, <1>4 DEF phHal4Nfc_LowerNotificationHandler, Events, Emulation, k, idle
  <2>2. CASE m = "done"
    <3>0. FreeContext(idle) = [ClosedHal EXCEPT !.used = FALSE]
      BY <1>2 DEF FreeContext, HalUp
    <3>1. FreeContext(idle) = ClosedHal
      BY <3>0 DEF ClosedHal
    <3>2. r.h = ClosedHal /\ r.up = Up("ShutdownCb", TRUE)
      <4> HIDE DEF r
      <4>1. m = "done" /\ idle.closeCb = "ShutdownCb"
        BY <1>2, <1>4, <2>2 DEF HalUp
      <4>2. phHal4Nfc_CloseComplete(idle, TRUE) = [h |-> FreeContext(idle), up |-> Up(idle.closeCb, TRUE)]
        BY DEF phHal4Nfc_CloseComplete
      <4>3. r = phHal4Nfc_CloseComplete(idle, TRUE)
        BY <2>1, <4>1
      <4>4. r = [h |-> ClosedHal, up |-> Up("ShutdownCb", TRUE)]
        BY <3>1, <4>1, <4>2, <4>3
      <4> QED
        BY <4>4
    <3>3. HalLike(ClosedHal) /\ ~ClosedHal.used
      BY NothingOpen DEF ClosedHal
    <3> HIDE DEF r
    <3> QED
      BY <1>4, <2>2, <3>2, <3>3 DEF r
  <2>3. CASE m = "error"
    <3>1. Fine(phHal4Nfc_CloseComplete(idle, FALSE))
      BY <1>2, <1>4 DEF phHal4Nfc_CloseComplete, HalLike, HalFields, HalUp
    <3> QED
      BY <2>1, <2>3, <3>1
  <2> QED
    BY <1>4, <2>2, <2>3
<1>5. CASE m \in {"done", "error"} /\ h.hci = "ioctl"
  <2>1. r = phHal4Nfc_IoctlComplete(idle, m = "done")
    BY <1>1, <1>5 DEF phHal4Nfc_LowerNotificationHandler, Events, Emulation, k, idle
  <2>2. Fine(phHal4Nfc_IoctlComplete(idle, m = "done"))
    BY <1>2 DEF phHal4Nfc_IoctlComplete, HalLike, HalFields, HalUp
  <2> QED
    BY <2>1, <2>2
<1>6. CASE m = "done" /\ h.hci = "test"
  <2>1. r = phHal4Nfc_SelfTestComplete(idle, TRUE)
    BY <1>1, <1>6 DEF phHal4Nfc_LowerNotificationHandler, Events, Emulation, k, idle
  <2>2. Fine(phHal4Nfc_SelfTestComplete(idle, TRUE))
    BY <1>2 DEF phHal4Nfc_SelfTestComplete, HalLike, HalFields, HalUp
  <2> QED
    BY <2>1, <2>2
<1>7. CASE m = "done" /\ h.hci = "config"
  <2>1. r = phHal4Nfc_ConfigureComplete(idle, TRUE)
    BY <1>1, <1>7 DEF phHal4Nfc_LowerNotificationHandler, Events, Emulation, k, idle
  <2>2. Fine(phHal4Nfc_ConfigureComplete(idle, TRUE))
    BY <1>2 DEF phHal4Nfc_ConfigureComplete, HalLike, HalFields, HalUp
  <2> QED
    BY <2>1, <2>2
<1>8. CASE m = "error" /\ h.hci \in {"test", "config"}
  <2>1. r = ErrorIn(idle)
    BY <1>1, <1>8 DEF phHal4Nfc_LowerNotificationHandler, Events, Emulation, k, idle
  <2>2. Fine(phHal4Nfc_CloseComplete(idle, FALSE))
    BY <1>2 DEF phHal4Nfc_CloseComplete, HalLike, HalFields, HalUp
  <2>3. Fine(phHal4Nfc_SelfTestComplete(idle, FALSE))
    BY <1>2 DEF phHal4Nfc_SelfTestComplete, HalLike, HalFields, HalUp
  <2>4. Fine(phHal4Nfc_ConfigureComplete(idle, FALSE))
    BY <1>2 DEF phHal4Nfc_ConfigureComplete, HalLike, HalFields, HalUp
  <2>5. Fine([h |-> idle, up |-> NoUp])
    BY <1>2 DEF HalLike
  <2> HIDE DEF Fine, r
  <2>6. Fine(r)
    BY <2>1, <2>2, <2>3, <2>4, <2>5 DEF ErrorIn
  <2> QED
    BY <2>6 DEF Fine, r
<1>9. m \in Events \/ h.hci \in {"release", "ioctl", "test", "config"}
  BY DEF HalUp
<1> HIDE DEF r
<1> QED
  BY <1>3, <1>4, <1>5, <1>6, <1>7, <1>8, <1>9 DEF r

(* Upper callbacks that end no operation.                                  *)
Harmless(up) ==
  \/ up \in {NoUp, Up("Default", TRUE), Up("none", TRUE), Up("none", FALSE), Up("p2p", TRUE)}
  \/ \E e \in Emulation : up = Up(e, TRUE)
HalReady(h) ==
  HalUp(h) /\ h.cur = "OpenAndReady" /\ h.next # "Closed" /\ h.hci \in {"none", "ioctl", "config"}

(* The layer below still waits for the answer that it waited for.          *)
StillAsked(h, k) ==
  k.hci = h.hci /\ k.next = h.next /\ k.ioctlCb = h.ioctlCb /\ k.cfgCb = h.cfgCb

(* An event of the chip, on a layer that is ready.                         *)
LEMMA EventReady ==
  ASSUME NEW h, HalLike(h), HalReady(h), ~h.used, NEW m \in Events
  PROVE  LET r == phHal4Nfc_LowerNotificationHandler(h, m)
         IN /\ HalLike(r.h) /\ ~r.h.used /\ HalReady(r.h) /\ Harmless(r.up)
            /\ h.hci # "none" => StillAsked(h, r.h)
<1> DEFINE k == [Touch(h) EXCEPT !.hwref = TRUE]
           r == phHal4Nfc_LowerNotificationHandler(h, m)
           on == [k EXCEPT !.rdr = TRUE, !.add = TRUE,
                           !.next = IF k.hci = "none" THEN "Configuring" ELSE @,
                           !.hci = IF k.hci = "none" THEN "config" ELSE @]
           off == [k EXCEPT !.rdr = FALSE]
           Fine(x) == /\ HalLike(x.h) /\ ~x.h.used /\ HalReady(x.h) /\ Harmless(x.up)
                      /\ h.hci # "none" => StillAsked(h, x.h)
<1>1. /\ DOMAIN k = HalFields /\ HalLike(k) /\ HalReady(k) /\ ~k.used /\ StillAsked(h, k)
  BY DEF Touch, HalLike, HalFields, HalUp, HalReady, StillAsked
<1>2. r = phHal4Nfc_HandleEvent(k, m)
  BY DEF phHal4Nfc_LowerNotificationHandler, Events, Emulation
<1> HIDE DEF k
<1>3. /\ HalLike(on) /\ ~on.used /\ HalReady(on)
      /\ h.hci # "none" => StillAsked(h, on)
  BY <1>1 DEF HalLike, HalFields, HalUp, HalReady, StillAsked
<1>4. HalLike(off) /\ ~off.used /\ HalReady(off) /\ StillAsked(h, off)
  BY <1>1 DEF HalLike, HalFields, HalUp, HalReady, StillAsked
<1> HIDE DEF on, off
<1>5. k.next # "Closed" /\ k.handler
  BY <1>1 DEF HalReady, HalUp
<1> DEFINE x == phHal4Nfc_HandleEvent(k, m)
<1>6. CASE m \in Emulation
  <2>1. x = [h |-> k, up |-> Up(m, TRUE)]
    BY <1>5, <1>6 DEF phHal4Nfc_HandleEvent, Emulation
  <2>2. x.h = k /\ x.up = Up(m, TRUE)
    BY <2>1
  <2> HIDE DEF x, r
  <2>3. Fine(x)
    BY <1>1, <1>6, <2>2 DEF Harmless
  <2> QED
    BY <1>2, <2>3 DEF x, r
<1>7. CASE m = "p2p"
  <2>1. x = [h |-> k, up |-> Up("p2p", TRUE)]
    BY <1>5, <1>7 DEF phHal4Nfc_HandleEvent, Emulation
  <2> QED
    BY <1>1, <1>2, <2>1 DEF Harmless
<1>8. CASE m = "rdOff"
  <2>1. x = [h |-> off, up |-> NoUp]
    BY <1>5, <1>8 DEF phHal4Nfc_HandleEvent, Emulation, off
  <2> QED
    BY <1>4, <1>2, <2>1 DEF Harmless
<1>9. CASE m = "rdOn"
  <2>1. x = [h |-> on, up |-> NoUp]
    BY <1>5, <1>9 DEF phHal4Nfc_HandleEvent, Emulation, on
  <2>2. x.h = on /\ x.up = NoUp
    BY <2>1
  <2> HIDE DEF x, r
  <2>3. Fine(x)
    BY <1>3, <2>2 DEF Harmless
  <2> QED
    BY <1>2, <2>3 DEF x, r
<1>10. CASE m = "exception"
  <2>1. x = [h |-> k, up |-> Up("Default", TRUE)]
    BY <1>5, <1>10 DEF phHal4Nfc_HandleEvent, Emulation
  <2> QED
    BY <1>1, <1>2, <2>1 DEF Harmless
<1> QED
  BY <1>6, <1>7, <1>8, <1>9, <1>10 DEF Events

(* The answer to a request, on a layer that is ready.                      *)
LEMMA AnswerReady ==
  ASSUME NEW h, HalLike(h), HalReady(h), ~h.used, h.hci # "none", NEW m \in {"done", "error"}
  PROVE  LET r == phHal4Nfc_LowerNotificationHandler(h, m)
         IN /\ HalLike(r.h) /\ ~r.h.used /\ HalReady(r.h)
            /\ \/ r.up = NoUp
               \/ \E ok \in BOOLEAN : r.up \in {Up(h.ioctlCb, ok), Up(h.cfgCb, ok)}
            /\ h.hci = "ioctl" => r.up = Up(h.ioctlCb, m = "done")
            /\ h.hci = "config" /\ h.next = "Configuring" => r.up = Up(h.cfgCb, m = "done")
<1> DEFINE k == [Touch(h) EXCEPT !.hwref = TRUE]
           idle == [k EXCEPT !.hci = "none"]
           r == phHal4Nfc_LowerNotificationHandler(h, m)
           Fine(x) == /\ HalLike(x.h) /\ ~x.h.used /\ HalReady(x.h)
                      /\ \/ x.up = NoUp
                         \/ \E ok \in BOOLEAN : x.up \in {Up(h.ioctlCb, ok), Up(h.cfgCb, ok)}
<1>1. /\ DOMAIN idle = HalFields /\ HalLike(idle) /\ HalReady(idle) /\ ~idle.used /\ idle.next = h.next
      /\ idle.ioctlCb = h.ioctlCb /\ idle.cfgCb = h.cfgCb
  BY DEF Touch, HalLike, HalFields, HalUp, HalReady
<1>2. /\ h.hci = "ioctl" => r = phHal4Nfc_IoctlComplete(idle, m = "done")
      /\ h.hci = "config" /\ m = "done" => r = phHal4Nfc_ConfigureComplete(idle, TRUE)
      /\ h.hci = "config" /\ m = "error" => r = ErrorIn(idle)
  <2>1. k.hci = h.hci
    BY DEF Touch, HalLike, HalFields
  <2> QED
    BY <2>1 DEF phHal4Nfc_LowerNotificationHandler, Events, Emulation
<1> HIDE DEF k, idle
<1>3. \A ok \in BOOLEAN : /\ Fine(phHal4Nfc_IoctlComplete(idle, ok))
                          /\ phHal4Nfc_IoctlComplete(idle, ok).up = Up(h.ioctlCb, ok)
  BY <1>1 DEF phHal4Nfc_IoctlComplete, HalLike, HalFields, HalUp, HalReady
<1>4. \A ok \in BOOLEAN : /\ Fine(phHal4Nfc_ConfigureComplete(idle, ok))
                          /\ phHal4Nfc_ConfigureComplete(idle, ok).up = Up(h.cfgCb, ok)
  BY <1>1 DEF phHal4Nfc_ConfigureComplete, HalLike, HalFields, HalUp, HalReady
<1>5. Fine(phHal4Nfc_SelfTestComplete(idle, FALSE))
  BY <1>1 DEF phHal4Nfc_SelfTestComplete
<1>6. Fine([h |-> idle, up |-> NoUp])
  BY <1>1
<1>7. idle.next # "Closed"
  BY <1>1 DEF HalReady
<1>8. CASE h.hci = "ioctl"
  BY <1>2, <1>3, <1>8
<1>9. CASE h.hci = "config" /\ m = "done"
  BY <1>2, <1>4, <1>9
<1>10. CASE h.hci = "config" /\ m = "error"
  <2> HIDE DEF Fine, r
  <2>1. Fine(r)
    BY <1>2, <1>4, <1>5, <1>6, <1>7, <1>10 DEF ErrorIn
  <2>2. h.next = "Configuring" => r.up = Up(h.cfgCb, FALSE)
    BY <1>1, <1>2, <1>4, <1>10 DEF ErrorIn
  <2>3. (m = "done") = FALSE
    BY <1>10
  <2> QED
    BY <1>10, <2>1, <2>2, <2>3 DEF Fine, r
<1> QED
  BY <1>8, <1>9, <1>10 DEF HalReady

(* The end of an operation, with no shutdown asked for meanwhile.          *)
Status(ok) == IF ok THEN "SUCCESS" ELSE "FAILED"
Ended(v, ok) ==
  LET lib == IF v.lib.op \in DOMAIN Leads THEN phLibNfc_UpdateCurState(v.lib, ok) ELSE v.lib
  IN [v EXCEPT !.lib = [lib EXCEPT !.gen = FALSE, !.op = "none", !.opCb = 0]]

(* It leaves the library up, with no request under way, and in the state   *)
(* that the request led to if it was done.                                 *)
LEMMA EndedPhase ==
  ASSUME NEW v, WorldLike(v), Up_(v), v.lib.next # "Shutdown", NEW ok \in BOOLEAN
  PROVE  LET u == Ended(v, ok)
         IN /\ WorldLike(u) /\ SameRest(v, u) /\ u.hal = v.hal /\ Up_(u)
            /\ ~u.lib.gen /\ u.lib.op = "none" /\ u.lib.opCb = 0
            /\ u.lib.initCb = v.lib.initCb /\ u.lib.shutCb = v.lib.shutCb
            /\ v.lib.op \notin DOMAIN Leads => u.lib.cur = v.lib.cur /\ u.lib.next = v.lib.next
            /\ v.lib.op \in DOMAIN Leads =>
                 /\ u.lib.next = "Invalid"
                 /\ v.lib.next = "ConfigReady" => u.lib.cur = IF ok THEN "ConfigReady" ELSE v.lib.cur
<1> DEFINE n == phLibNfc_UpdateCurState(v.lib, ok)
           lib == IF v.lib.op \in DOMAIN Leads THEN n ELSE v.lib
           l == [lib EXCEPT !.gen = FALSE, !.op = "none", !.opCb = 0]
           u == Ended(v, ok)
<1>1. /\ DOMAIN n = LibFields /\ n.ctx = v.lib.ctx /\ n.cur # "Shutdown" /\ n.next = "Invalid"
      /\ n.initCb = v.lib.initCb /\ n.shutCb = v.lib.shutCb
      /\ v.lib.next = "ConfigReady" => n.cur = IF ok THEN "ConfigReady" ELSE v.lib.cur
  BY DEF phLibNfc_UpdateCurState, WorldLike, LibFields, Up_
<1> HIDE DEF n
<1>2. /\ DOMAIN lib = LibFields /\ lib.ctx = v.lib.ctx /\ lib.cur # "Shutdown"
      /\ lib.initCb = v.lib.initCb /\ lib.shutCb = v.lib.shutCb
  BY <1>1 DEF WorldLike, Up_
<1>3. /\ v.lib.op \notin DOMAIN Leads => lib.cur = v.lib.cur /\ lib.next = v.lib.next
      /\ v.lib.op \in DOMAIN Leads =>
           /\ lib.next = "Invalid"
           /\ v.lib.next = "ConfigReady" => lib.cur = IF ok THEN "ConfigReady" ELSE v.lib.cur
  BY <1>1
<1>4. u = [v EXCEPT !.lib = l]
  BY DEF Ended, n
<1> HIDE DEF lib, u
<1>5. /\ DOMAIN l = LibFields /\ ~l.gen /\ l.op = "none" /\ l.opCb = 0 /\ l.ctx = lib.ctx /\ l.cur = lib.cur
      /\ l.next = lib.next /\ l.initCb = lib.initCb /\ l.shutCb = lib.shutCb
  BY <1>2 DEF LibFields
<1> HIDE DEF l
<1>6. u.lib = l /\ u.hal = v.hal /\ WorldLike(u) /\ SameRest(v, u)
  BY <1>4, <1>5 DEF WorldLike, SameRest
<1>7. Up_(u)
  BY <1>2, <1>5, <1>6 DEF Up_
<1> QED
  BY <1>2, <1>3, <1>5, <1>6, <1>7 DEF u

(* A callback posted to the client.                                        *)
LEMMA PostPhase ==
  ASSUME NEW v, WorldLike(v), NEW c, NEW ok \in BOOLEAN
  PROVE  LET u == Post(v, c, ok)
         IN /\ WorldLike(u) /\ u.hal = v.hal /\ u.lib = v.lib /\ u.aborted = v.aborted
            /\ v.posted = <<>> => u.posted = << <<c, Status(ok)>> >>
<1> DEFINE p == Append(v.posted, <<c, IF ok THEN "SUCCESS" ELSE "FAILED">>)
<1>1. v.posted = <<>> => p = << <<c, Status(ok)>> >>
  BY DEF Status
<1> HIDE DEF p
<1>2. LET u == [v EXCEPT !.posted = p]
      IN /\ WorldLike(u) /\ u.hal = v.hal /\ u.lib = v.lib /\ u.aborted = v.aborted /\ u.posted = p
  BY DEF WorldLike
<1>3. Post(v, c, ok) = [v EXCEPT !.posted = p]
  BY DEF Post, p
<1> QED
  BY <1>1, <1>2, <1>3

(* OpComplete, with no shutdown asked for.                                 *)
LEMMA OpEnds ==
  ASSUME NEW v, v.lib.next # "Shutdown", NEW ok \in BOOLEAN
  PROVE  OpComplete(v, ok) = IF v.lib.opCb = 0 THEN Ended(v, ok) ELSE Post(Ended(v, ok), v.lib.opCb, ok)
<1> DEFINE lib == IF v.lib.op \in DOMAIN Leads THEN phLibNfc_UpdateCurState(v.lib, ok) ELSE v.lib
           e == [v EXCEPT !.lib = [lib EXCEPT !.gen = FALSE, !.op = "none", !.opCb = 0]]
<1>1. Ended(v, ok) = e
  BY DEF Ended
<1>2. OpComplete(v, ok) = IF v.lib.opCb = 0 THEN e ELSE Post(e, v.lib.opCb, ok /\ e = e)
  <2>1. (v.lib.op \in DOMAIN Leads /\ v.lib.next # "Shutdown") = (v.lib.op \in DOMAIN Leads)
    OBVIOUS
  <2> QED
    BY <2>1 DEF OpComplete
<1> HIDE DEF e
<1>3. Post(e, v.lib.opCb, ok /\ e = e) = Post(e, v.lib.opCb, ok)
  BY DEF Post
<1> QED
  BY <1>1, <1>2, <1>3

(* The two posts there are.                                                *)
LEMMA PostEither ==
  ASSUME NEW v, WorldLike(v), v.posted = <<>>, NEW c
  PROVE  /\ LET u == Post(v, c, TRUE)
            IN /\ WorldLike(u) /\ u.hal = v.hal /\ u.lib = v.lib /\ u.aborted = v.aborted
               /\ u.posted = << <<c, "SUCCESS">> >>
         /\ LET u == Post(v, c, FALSE)
            IN /\ WorldLike(u) /\ u.hal = v.hal /\ u.lib = v.lib /\ u.aborted = v.aborted
               /\ u.posted = << <<c, "FAILED">> >>
<1>1. ASSUME NEW st
      PROVE  LET p == Append(v.posted, <<c, st>>)
                 u == [v EXCEPT !.posted = p]
             IN /\ WorldLike(u) /\ u.hal = v.hal /\ u.lib = v.lib /\ u.aborted = v.aborted
                /\ u.posted = << <<c, st>> >>
  <2> DEFINE p == Append(v.posted, <<c, st>>)
  <2>1. p = << <<c, st>> >>
    OBVIOUS
  <2> HIDE DEF p
  <2>2. LET u == [v EXCEPT !.posted = p]
        IN /\ WorldLike(u) /\ u.hal = v.hal /\ u.lib = v.lib /\ u.aborted = v.aborted /\ u.posted = p
    BY DEF WorldLike
  <2> QED
    BY <2>1, <2>2 DEF p
<1>2. Post(v, c, TRUE) = [v EXCEPT !.posted = Append(v.posted, <<c, "SUCCESS">>)]
  BY DEF Post
<1>3. Post(v, c, FALSE) = [v EXCEPT !.posted = Append(v.posted, <<c, "FAILED">>)]
  BY DEF Post
<1> QED
  BY <1>1, <1>2, <1>3

(* A message of the client thread makes callbacks in a world that goes on. *)
Wrapped(v, h) == [v EXCEPT !.hal = h]

(* The library, and what is posted, stay as they were.                     *)
LEMMA WrappedPhase ==
  ASSUME NEW v, WorldLike(v), NEW h, HalLike(h)
  PROVE  LET u == Wrapped(v, h) IN WorldLike(u) /\ SameRest(v, u) /\ u.hal = h /\ u.lib = v.lib
  BY DEF Wrapped, WorldLike, SameRest

(* Notified, but for the end of a download.                                *)
LEMMA NotifiedIs ==
  ASSUME NEW v, NEW m, v.hal.hci # "download"
  PROVE  LET r == phHal4Nfc_LowerNotificationHandler(v.hal, m)
         IN Notified(v, m, {}) = Dispatch(Wrapped(v, r.h), r.up, {})
  BY DEF Notified, Wrapped

(* What is true of an idle or a waiting library, besides its phase.        *)
Lives(v, n) ==
  WorldLike(n) /\ ~n.hal.used /\ n.aborted = v.aborted

(* Callbacks that are not one of the library's leave it alone.             *)
LEMMA HarmlessDispatch ==
  ASSUME NEW v, NEW up, Harmless(up)
  PROVE  Dispatch(v, up, {}) = v
<1>1. CASE up \in {NoUp, Up("none", TRUE), Up("none", FALSE), Up("p2p", TRUE)}
  BY <1>1 DEF NoUp, Up, Dispatch
<1>2. CASE up = Up("Default", TRUE)
  BY <1>2 DEF Up, Dispatch, phLibNfc_DefaultHandler
<1>3. CASE \E e \in Emulation : up = Up(e, TRUE)
  <2>1. PICK e \in Emulation : up = Up(e, TRUE)
    BY <1>3
  <2>2. up.cb \in Emulation
    BY <2>1 DEF Up
  <2> QED
    BY <2>2 DEF Dispatch, Emulation
<1> QED
  BY <1>1, <1>2, <1>3 DEF Harmless

(* An event or an answer that an idle library gets.                        *)
LEMMA IdleHears ==
  ASSUME NEW v, WorldLike(v), Idle(v), ~v.hal.used, v.posted = <<>>,
         NEW m \in Events \cup {"done", "error"}, m \in {"done", "error"} => v.hal.hci # "none"
  PROVE  LET n == Notified(v, m, {}) IN Lives(v, n) /\ n.posted = <<>> /\ Idle(n)
<1> DEFINE r == phHal4Nfc_LowerNotificationHandler(v.hal, m)
           u == Wrapped(v, r.h)
           n == Notified(v, m, {})
<1>1. HalReady(v.hal) /\ HalLike(v.hal)
  BY DEF Idle, Ready, Up_, HalReady, WorldLike
<1>2. /\ HalLike(r.h) /\ ~r.h.used /\ HalReady(r.h)
      /\ Harmless(r.up) \/ \E ok \in BOOLEAN : r.up \in {Up("IoctlCb", ok), Up("ConfigCb", ok)}
  <2>1. CASE m \in Events
    BY <1>1, <2>1, EventReady
  <2>2. CASE m \in {"done", "error"}
    <3>1. /\ HalLike(r.h) /\ ~r.h.used /\ HalReady(r.h)
          /\ \/ r.up = NoUp
             \/ \E ok \in BOOLEAN : r.up \in {Up(v.hal.ioctlCb, ok), Up(v.hal.cfgCb, ok)}
      BY <1>1, <2>2, AnswerReady
    <3>2. v.hal.ioctlCb \in {"none", "IoctlCb"} /\ v.hal.cfgCb \in {"none", "ConfigCb"}
      BY <1>1 DEF HalReady, HalUp
    <3> HIDE DEF r
    <3>3. CASE r.up = NoUp
      BY <3>1, <3>3 DEF Harmless
    <3>4. ASSUME NEW ok \in BOOLEAN, r.up \in {Up(v.hal.ioctlCb, ok), Up(v.hal.cfgCb, ok)}
          PROVE  Harmless(r.up) \/ r.up \in {Up("IoctlCb", ok), Up("ConfigCb", ok)}
      <4>1. r.up \in {Up("none", ok), Up("IoctlCb", ok), Up("ConfigCb", ok)}
        BY <3>2, <3>4
      <4>2. r.up = Up("none", ok) => Harmless(r.up)
        BY DEF Harmless
      <4> QED
        BY <4>1, <4>2
    <3> QED
      BY <3>1, <3>3, <3>4
  <2> QED
    BY <2>1, <2>2
<1>3. n = Dispatch(u, r.up, {})
  BY <1>1, NotifiedIs DEF HalReady
<1> HIDE DEF r
<1>4. WorldLike(u) /\ SameRest(v, u) /\ u.hal = r.h /\ u.lib = v.lib
  BY <1>2, WrappedPhase
<1> HIDE DEF u, n
<1>5. Idle(u) /\ ~u.hal.used
  BY <1>2, <1>4 DEF Idle, Ready, Up_, HalReady
<1>6. CASE Harmless(r.up)
  <2>1. n = u
    BY <1>3, <1>6, HarmlessDispatch
  <2> QED
    BY <1>4, <1>5, <2>1 DEF Lives, SameRest, n
<1>7. ASSUME NEW ok \in BOOLEAN, r.up \in {Up("IoctlCb", ok), Up("ConfigCb", ok)}
      PROVE  Lives(v, n) /\ n.posted = <<>> /\ Idle(n)
  <2>1. n = OpComplete(u, ok)
    BY <1>3, <1>7 DEF Dispatch, Up
  <2>2. u.lib.next # "Shutdown" /\ u.lib.opCb = 0 /\ u.lib.op \notin DOMAIN Leads /\ Up_(u)
    BY <1>5 DEF Idle, Ready, Leads
  <2>3. n = Ended(u, ok)
    BY <2>1, <2>2, OpEnds
  <2>4. /\ WorldLike(n) /\ SameRest(u, n) /\ n.hal = u.hal /\ Up_(n)
        /\ ~n.lib.gen /\ n.lib.op = "none" /\ n.lib.opCb = 0
        /\ n.lib.cur = u.lib.cur /\ n.lib.next = u.lib.next
    BY <1>4, <2>2, <2>3, EndedPhase
  <2> QED
    BY <1>4, <1>5, <2>4 DEF Lives, SameRest, Idle, Ready
<1> QED
  BY <1>2, <1>6, <1>7 DEF n

(* An event while a frame waits for its answer.                            *)
LEMMA AskedEvent ==
  ASSUME NEW v, WorldLike(v), NEW f, Asked(v, f), ~v.hal.used, v.posted = <<>>, NEW m \in Events
  PROVE  LET n == Notified(v, m, {}) IN Lives(v, n) /\ n.posted = <<>> /\ Asked(n, f)
<1> DEFINE r == phHal4Nfc_LowerNotificationHandler(v.hal, m)
           u == Wrapped(v, r.h)
           n == Notified(v, m, {})
<1>1. HalReady(v.hal) /\ HalLike(v.hal) /\ v.hal.hci # "none"
  BY DEF Asked, Ready, Up_, HalReady, WorldLike
<1>2. HalLike(r.h) /\ ~r.h.used /\ HalReady(r.h) /\ Harmless(r.up) /\ StillAsked(v.hal, r.h)
  BY <1>1, EventReady
<1>3. n = Dispatch(u, r.up, {})
  BY <1>1, NotifiedIs DEF HalReady
<1> HIDE DEF r
<1>4. WorldLike(u) /\ SameRest(v, u) /\ u.hal = r.h /\ u.lib = v.lib
  BY <1>2, WrappedPhase
<1> HIDE DEF u, n
<1>5. Asked(u, f) /\ ~u.hal.used
  BY <1>2, <1>4 DEF Asked, Ready, Up_, HalReady, StillAsked
<1>6. n = u
  BY <1>2, <1>3, HarmlessDispatch
<1> QED
  BY <1>4, <1>5, <1>6 DEF Lives, SameRest, n

(* The answer that a frame waits for.                                      *)
LEMMA AskedAnswer ==
  ASSUME NEW v, WorldLike(v), NEW f \in Nat \ {0}, Asked(v, f), ~v.hal.used, v.posted = <<>>,
         NEW m \in {"done", "error"}
  PROVE  LET n == Notified(v, m, {})
         IN Lives(v, n) /\ n.posted = << <<f, Status(m = "done")>> >> /\ Idle(n)
<1> DEFINE r == phHal4Nfc_LowerNotificationHandler(v.hal, m)
           u == Wrapped(v, r.h)
           n == Notified(v, m, {})
           ok == m = "done"
<1>1. HalReady(v.hal) /\ HalLike(v.hal) /\ v.hal.hci # "none"
  BY DEF Asked, Ready, Up_, HalReady, WorldLike
<1>2. HalLike(r.h) /\ ~r.h.used /\ HalReady(r.h) /\ r.up \in {Up("IoctlCb", ok), Up("ConfigCb", ok)}
  <2>1. /\ HalLike(r.h) /\ ~r.h.used /\ HalReady(r.h)
        /\ v.hal.hci = "ioctl" => r.up = Up(v.hal.ioctlCb, ok)
        /\ v.hal.hci = "config" /\ v.hal.next = "Configuring" => r.up = Up(v.hal.cfgCb, ok)
    BY <1>1, AnswerReady
  <2> HIDE DEF r, ok
  <2> QED
    BY <2>1 DEF Asked
<1>3. n = Dispatch(u, r.up, {})
  BY <1>1, NotifiedIs DEF HalReady
<1> HIDE DEF r
<1>4. WorldLike(u) /\ SameRest(v, u) /\ u.hal = r.h /\ u.lib = v.lib
  BY <1>2, WrappedPhase
<1> HIDE DEF u, n
<1>5. Up_(u) /\ ~u.hal.used /\ u.hal.cur = "OpenAndReady" /\ u.hal.next # "Closed" /\ HalReady(u.hal)
  BY <1>2, <1>4 DEF Asked, Ready, Up_, HalReady
<1>6. ok \in BOOLEAN
  OBVIOUS
<1>7. n = OpComplete(u, ok)
  <2> HIDE DEF ok
  <2> QED
    BY <1>2, <1>3, <1>6 DEF Dispatch, Up
<1> HIDE DEF ok
<1>8. u.lib.next # "Shutdown" /\ u.lib.opCb = f /\ f # 0
  BY <1>4 DEF Asked
<1> DEFINE e == Ended(u, ok)
<1>9. n = Post(e, f, ok)
  BY <1>6, <1>7, <1>8, OpEnds
<1>10. /\ WorldLike(e) /\ SameRest(u, e) /\ e.hal = u.hal /\ Up_(e)
       /\ ~e.lib.gen /\ e.lib.op = "none" /\ e.lib.opCb = 0
       /\ v.lib.op \notin DOMAIN Leads => e.lib.cur = u.lib.cur /\ e.lib.next = u.lib.next
       /\ v.lib.op \in DOMAIN Leads =>
            /\ e.lib.next = "Invalid"
            /\ v.lib.next = "ConfigReady" => e.lib.cur = IF ok THEN "ConfigReady" ELSE u.lib.cur
  BY <1>4, <1>5, <1>6, <1>8, EndedPhase
<1> HIDE DEF e
<1>11. Idle(e)
  BY <1>4, <1>5, <1>10 DEF Asked, Idle, Ready, Leads, HalReady
<1>12. e.posted = <<>> /\ e.aborted = v.aborted /\ ~e.hal.used
  BY <1>4, <1>5, <1>10 DEF SameRest
<1>13. /\ WorldLike(n) /\ n.hal = e.hal /\ n.lib = e.lib /\ n.aborted = e.aborted
       /\ n.posted = << <<f, Status(ok)>> >>
  BY <1>6, <1>9, <1>10, <1>12, PostPhase
<1> QED
  BY <1>11, <1>12, <1>13 DEF Lives, Idle, Ready, Up_, n, ok

(* The answer to Open.                                                     *)
LEMMA OpeningHears ==
  ASSUME NEW v, WorldLike(v), Opening(v), ~v.hal.used, v.posted = <<>>, NEW m \in {"done", "error", "device"}
  PROVE  LET n == Notified(v, m, {})
         IN /\ Lives(v, n) /\ n.posted = << <<v.lib.initCb, Status(m = "done")>> >>
            /\ m # "done" => Shut(n)
            /\ m = "done" => /\ v.hal.next = "OpenAndReady" => Idle(n)
                             /\ Up_(n) /\ n.lib.initCb = v.lib.initCb
                             /\ n.lib.shutCb = v.lib.shutCb /\ n.lib.opCb = 0
<1> DEFINE r == phHal4Nfc_LowerNotificationHandler(v.hal, m)
           u == Wrapped(v, r.h)
           n == Notified(v, m, {})
           k == [Touch(v.hal) EXCEPT !.hwref = TRUE]
           idle == [k EXCEPT !.hci = "none"]
           o == [idle EXCEPT !.cur = v.hal.next, !.next = "Invalid", !.openCb = "none"]
<1>1. /\ DOMAIN idle = HalFields /\ ~idle.used /\ idle.next = v.hal.next /\ idle.openCb = "InitCb"
      /\ idle.ctx = "live" /\ idle.hwref /\ idle.hci = "none" /\ ~idle.handler /\ k.hci = "init"
      /\ idle.closeCb = "none" /\ idle.ioctlCb = "none" /\ idle.cfgCb = "none"
  BY DEF Touch, WorldLike, HalLike, HalFields, Opening
<1>2. n = Dispatch(u, r.up, {})
  BY NotifiedIs DEF Opening
<1>3. r = IF m = "device" THEN DeviceError(idle) ELSE phHal4Nfc_OpenComplete(idle, m = "done")
  BY <1>1 DEF phHal4Nfc_LowerNotificationHandler, Events, Emulation
<1> HIDE DEF k, idle, u, r, n
<1>4. /\ DOMAIN o = HalFields /\ ~o.used /\ o.next = "Invalid" /\ o.openCb = "none"
      /\ o.ctx = "live" /\ o.hwref /\ o.hci = "none" /\ o.cur = v.hal.next
      /\ o.closeCb = "none" /\ o.ioctlCb = "none" /\ o.cfgCb = "none"
  BY <1>1 DEF HalFields
<1> HIDE DEF o
<1>5. FreeContext(idle) = ClosedHal
  <2>1. FreeContext(idle) = [ClosedHal EXCEPT !.used = FALSE]
    BY <1>1 DEF FreeContext
  <2> QED
    BY <2>1 DEF ClosedHal
<1>6. CASE m = "done"
  <2>1. r.h = o /\ r.up = Up("InitCb", TRUE)
    BY <1>1, <1>3, <1>6 DEF phHal4Nfc_OpenComplete, o
  <2>2. WorldLike(u) /\ SameRest(v, u) /\ u.hal = o /\ u.lib = v.lib
    BY <1>4, <2>1, WrappedPhase DEF HalLike, u
  <2> DEFINE lib == [phLibNfc_UpdateCurState(u.lib, TRUE) EXCEPT !.se = "Off"]
             p == phHal4Nfc_RegisterNotification(u.hal)
             x == [u EXCEPT !.lib = lib, !.hal = p]
  <2>3. /\ DOMAIN lib = LibFields /\ lib.ctx /\ lib.cur = "InitandIdle" /\ lib.next = "Invalid" /\ ~lib.gen
        /\ lib.opCb = 0 /\ lib.op = "none" /\ lib.initCb = v.lib.initCb /\ lib.shutCb = v.lib.shutCb
    BY <2>2 DEF phLibNfc_UpdateCurState, WorldLike, LibFields, Opening
  <2>4. /\ DOMAIN p = HalFields /\ ~p.used /\ HalUp(p) /\ p.cur = v.hal.next /\ p.next = "Invalid" /\ p.hci = "none"
    BY <1>4, <2>2 DEF phHal4Nfc_RegisterNotification, HalFields, HalUp
  <2>5. n = Post(x, lib.initCb, TRUE)
    BY <1>2, <2>1 DEF Dispatch, Up, phLibNfc_InitCb
  <2> HIDE DEF lib, p
  <2>6. WorldLike(x) /\ x.lib = lib /\ x.hal = p /\ x.posted = <<>> /\ x.aborted = v.aborted
    BY <2>2, <2>3, <2>4 DEF WorldLike, HalLike, SameRest
  <2> HIDE DEF x
  <2>7. /\ WorldLike(n) /\ n.hal = p /\ n.lib = lib /\ n.aborted = v.aborted
        /\ n.posted = << <<v.lib.initCb, "SUCCESS">> >>
    <3>1. \A c : LET y == Post(x, c, TRUE)
                 IN /\ WorldLike(y) /\ y.hal = x.hal /\ y.lib = x.lib /\ y.aborted = x.aborted
                    /\ y.posted = << <<c, "SUCCESS">> >>
      BY <2>6, PostEither
    <3>2. /\ WorldLike(n) /\ n.hal = x.hal /\ n.lib = x.lib /\ n.aborted = x.aborted
          /\ n.posted = << <<lib.initCb, "SUCCESS">> >>
      BY <2>5, <3>1
    <3> QED
      BY <2>3, <2>6, <3>2
  <2>8. Status(m = "done") = "SUCCESS"
    BY <1>6 DEF Status
  <2>9. Up_(n) /\ (v.hal.next = "OpenAndReady" => Idle(n))
    BY <2>3, <2>4, <2>7 DEF Up_, Idle, Ready
  <2> QED
    BY <1>6, <2>3, <2>4, <2>7, <2>8, <2>9 DEF Lives, n
<1>7. CASE m # "done"
  <2>1. r.h = ClosedHal /\ r.up = Up("InitCb", FALSE)
    <3>1. r = [h |-> FreeContext(idle), up |-> Up(idle.openCb, FALSE)]
      <4>1. CASE m = "device"
        BY <1>1, <1>3, <4>1 DEF DeviceError, Opening
      <4>2. CASE m = "error"
        BY <1>3, <4>2 DEF phHal4Nfc_OpenComplete
      <4> QED
        BY <1>7, <4>1, <4>2
    <3>2. r = [h |-> ClosedHal, up |-> Up("InitCb", FALSE)]
      BY <1>1, <1>5, <3>1
    <3> QED
      BY <3>2
  <2>2. WorldLike(u) /\ SameRest(v, u) /\ u.hal = ClosedHal /\ u.lib = v.lib
    BY <2>1, NothingOpen, WrappedPhase DEF u
  <2> DEFINE x == Post(u, u.lib.initCb, FALSE)
  <2>3. n = [x EXCEPT !.lib = NoLib]
    BY <1>2, <2>1 DEF Dispatch, Up, phLibNfc_InitCb
  <2>4. /\ WorldLike(x) /\ x.hal = ClosedHal /\ x.aborted = v.aborted
        /\ x.posted = << <<v.lib.initCb, "FAILED">> >>
    <3>1. u.posted = <<>> /\ u.aborted = v.aborted
      BY <2>2 DEF SameRest
    <3>2. \A c : LET y == Post(u, c, FALSE)
                 IN /\ WorldLike(y) /\ y.hal = u.hal /\ y.lib = u.lib /\ y.aborted = u.aborted
                    /\ y.posted = << <<c, "FAILED">> >>
      BY <2>2, <3>1, PostEither
    <3>3. /\ WorldLike(x) /\ x.hal = u.hal /\ x.lib = u.lib /\ x.aborted = u.aborted
          /\ x.posted = << <<u.lib.initCb, "FAILED">> >>
      BY <3>2
    <3> QED
      BY <2>2, <3>1, <3>3
  <2> HIDE DEF x
  <2>5. WorldLike(n) /\ n.lib = NoLib /\ n.hal = ClosedHal /\ n.aborted = v.aborted /\ n.posted = x.posted
    BY <2>3, <2>4, NothingOpen DEF WorldLike
  <2>6. Status(m = "done") = "FAILED"
    BY <1>7 DEF Status
  <2> QED
    BY <1>7, <2>4, <2>5, <2>6 DEF Lives, Shut, ClosedHal, n
<1> QED
  BY <1>6, <1>7

(* The end of a download.                                                  *)
LEMMA DownloadingHears ==
  ASSUME NEW v, WorldLike(v), Downloading(v), ~v.hal.used, v.posted = <<>>, NEW m
  PROVE  LET n == Notified(v, m, {})
         IN Lives(v, n) /\ n.posted = << <<v.lib.opCb, Status(m = "done")>> >> /\ Shut(n)
<1> DEFINE r == phHal4Nfc_DownloadComplete(v.hal, m = "done")
           x == [v EXCEPT !.hal = r.h, !.lib = NoLib]
           n == Notified(v, m, {})
           ok == m = "done"
<1>1. r.h = ClosedHal /\ r.up.ok = ok
  <2>1. FreeContext(v.hal) = [ClosedHal EXCEPT !.used = FALSE]
    BY DEF FreeContext, Downloading
  <2>2. FreeContext(v.hal) = ClosedHal
    BY <2>1 DEF ClosedHal
  <2> QED
    BY <2>2 DEF phHal4Nfc_DownloadComplete, Up
<1>2. n = Post(x, v.lib.opCb, r.up.ok)
  BY DEF Notified, Downloading
<1> HIDE DEF r, n
<1>3. WorldLike(x) /\ x.hal = ClosedHal /\ x.lib = NoLib /\ x.posted = <<>> /\ x.aborted = v.aborted
  BY <1>1, NothingOpen DEF WorldLike
<1> HIDE DEF x
<1>4. ok \in BOOLEAN
  OBVIOUS
<1> HIDE DEF ok
<1>5. /\ WorldLike(n) /\ n.hal = x.hal /\ n.lib = x.lib /\ n.aborted = x.aborted
      /\ n.posted = << <<v.lib.opCb, Status(ok)>> >>
  BY <1>1, <1>2, <1>3, <1>4, PostPhase
<1> QED
  BY <1>3, <1>5 DEF Lives, Shut, ClosedHal, n, ok

(* The end of a shutdown, and what a closing library hears before.         *)
LEMMA ClosingAnswer ==
  ASSUME NEW v, WorldLike(v), Closing(v), ~v.hal.used, v.posted = <<>>, NEW m \in {"done", "error"}
  PROVE  LET n == Notified(v, m, {})
         IN /\ Lives(v, n) /\ n.posted = << <<v.lib.shutCb, Status(m = "done")>> >>
            /\ m = "done" => Shut(n)
            /\ m = "error" => Broken(n)
<1> DEFINE r == phHal4Nfc_LowerNotificationHandler(v.hal, m)
           u == Wrapped(v, r.h)
           n == Notified(v, m, {})
           k == [Touch(v.hal) EXCEPT !.hwref = TRUE]
           idle == [k EXCEPT !.hci = "none"]
           o == [idle EXCEPT !.cur = idle.next, !.next = "Invalid"]
<1>1. /\ DOMAIN idle = HalFields /\ ~idle.used /\ idle.next = "Closed" /\ idle.closeCb = "ShutdownCb"
      /\ HalUp(idle) /\ idle.hci = "none" /\ k.hci = "release"
  BY DEF Touch, WorldLike, HalLike, HalFields, Closing, Up_, HalUp
<1>2. n = Dispatch(u, r.up, {})
  BY NotifiedIs DEF Closing
<1>3. r = phHal4Nfc_CloseComplete(idle, m = "done")
  BY <1>1 DEF phHal4Nfc_LowerNotificationHandler, Events, Emulation
<1> HIDE DEF k, idle, u, r, n
<1>4. DOMAIN o = HalFields /\ ~o.used /\ HalUp(o) /\ o.hci = "none" /\ o.cur = "Closed"
  BY <1>1 DEF HalFields, HalUp
<1> HIDE DEF o
<1>5. CASE m = "done"
  <2>1. r.h = ClosedHal /\ r.up = Up("ShutdownCb", TRUE)
    <3>1. FreeContext(idle) = [ClosedHal EXCEPT !.used = FALSE]
      BY <1>1 DEF FreeContext, HalUp
    <3>2. FreeContext(idle) = ClosedHal
      BY <3>1 DEF ClosedHal
    <3>3. r = [h |-> FreeContext(idle), up |-> Up(idle.closeCb, TRUE)]
      BY <1>3, <1>5 DEF phHal4Nfc_CloseComplete
    <3>4. r = [h |-> ClosedHal, up |-> Up("ShutdownCb", TRUE)]
      BY <1>1, <3>2, <3>3
    <3> QED
      BY <3>4
  <2>2. WorldLike(u) /\ SameRest(v, u) /\ u.hal = ClosedHal /\ u.lib = v.lib
    BY <2>1, NothingOpen, WrappedPhase DEF u
  <2> DEFINE x == Post(u, u.lib.shutCb, TRUE)
  <2>3. n = [x EXCEPT !.lib = NoLib]
    BY <1>2, <2>1, <2>2 DEF Dispatch, Up, phLibNfc_ShutdownCb, Closing, Up_
  <2>4. /\ WorldLike(x) /\ x.hal = ClosedHal /\ x.aborted = v.aborted
        /\ x.posted = << <<v.lib.shutCb, "SUCCESS">> >>
    <3>1. u.posted = <<>> /\ u.aborted = v.aborted
      BY <2>2 DEF SameRest
    <3>2. \A c : LET y == Post(u, c, TRUE)
                 IN /\ WorldLike(y) /\ y.hal = u.hal /\ y.lib = u.lib /\ y.aborted = u.aborted
                    /\ y.posted = << <<c, "SUCCESS">> >>
      BY <2>2, <3>1, PostEither
    <3>3. /\ WorldLike(x) /\ x.hal = u.hal /\ x.lib = u.lib /\ x.aborted = u.aborted
          /\ x.posted = << <<u.lib.shutCb, "SUCCESS">> >>
      BY <3>2
    <3> QED
      BY <2>2, <3>1, <3>3
  <2> HIDE DEF x
  <2>5. WorldLike(n) /\ n.lib = NoLib /\ n.hal = ClosedHal /\ n.aborted = v.aborted /\ n.posted = x.posted
    BY <2>3, <2>4, NothingOpen DEF WorldLike
  <2>6. Status(m = "done") = "SUCCESS"
    BY <1>5 DEF Status
  <2> QED
    BY <1>5, <2>4, <2>5, <2>6 DEF Lives, Shut, ClosedHal, n
<1>6. CASE m = "error"
  <2>1. r.h = o /\ r.up = Up("ShutdownCb", FALSE)
    <3>1. r = [h |-> o, up |-> Up(idle.closeCb, FALSE)]
      BY <1>3, <1>6 DEF phHal4Nfc_CloseComplete, o
    <3>2. r = [h |-> o, up |-> Up("ShutdownCb", FALSE)]
      BY <1>1, <3>1
    <3> QED
      BY <3>2
  <2>2. WorldLike(u) /\ SameRest(v, u) /\ u.hal = o /\ u.lib = v.lib
    BY <1>4, <2>1, WrappedPhase DEF u, HalLike
  <2> DEFINE lib == [phLibNfc_UpdateCurState(u.lib, FALSE) EXCEPT !.gen = FALSE]
             x == [u EXCEPT !.lib = lib]
  <2>3. /\ DOMAIN lib = LibFields /\ lib.ctx /\ lib.cur = v.lib.cur /\ lib.next = "Invalid" /\ ~lib.gen
        /\ lib.opCb = 0
    BY <2>2 DEF phLibNfc_UpdateCurState, WorldLike, LibFields, Closing, Up_
  <2>4. n = Post(x, u.lib.shutCb, FALSE)
    BY <1>2, <2>1, <2>2 DEF Dispatch, Up, phLibNfc_ShutdownCb, Closing, Up_
  <2> HIDE DEF lib
  <2>5. WorldLike(x) /\ x.lib = lib /\ x.hal = o /\ x.posted = <<>> /\ x.aborted = v.aborted
    BY <2>2, <2>3 DEF WorldLike, SameRest
  <2> HIDE DEF x
  <2>6. /\ WorldLike(n) /\ n.hal = o /\ n.lib = lib /\ n.aborted = v.aborted
        /\ n.posted = << <<v.lib.shutCb, "FAILED">> >>
    <3>1. \A c : LET y == Post(x, c, FALSE)
                 IN /\ WorldLike(y) /\ y.hal = x.hal /\ y.lib = x.lib /\ y.aborted = x.aborted
                    /\ y.posted = << <<c, "FAILED">> >>
      BY <2>5, PostEither
    <3>2. /\ WorldLike(n) /\ n.hal = x.hal /\ n.lib = x.lib /\ n.aborted = x.aborted
          /\ n.posted = << <<u.lib.shutCb, "FAILED">> >>
      BY <2>4, <3>1
    <3> QED
      BY <2>2, <2>5, <3>2
  <2>7. Status(m = "done") = "FAILED"
    BY <1>6 DEF Status
  <2>8. Broken(n)
    BY <1>4, <2>3, <2>6 DEF Broken, Up_, Closing
  <2> QED
    BY <1>4, <1>6, <2>6, <2>7, <2>8 DEF Lives, n
<1> QED
  BY <1>5, <1>6

(* Events no longer matter to a layer that is being closed.                *)
LEMMA ClosingEvent ==
  ASSUME NEW v, WorldLike(v), Closing(v), ~v.hal.used, v.posted = <<>>, NEW m \in Events
  PROVE  LET n == Notified(v, m, {})
         IN Lives(v, n) /\ n.posted = <<>> /\ Closing(n) /\ n.lib = v.lib
<1> DEFINE r == phHal4Nfc_LowerNotificationHandler(v.hal, m)
           u == Wrapped(v, r.h)
           n == Notified(v, m, {})
           k == [Touch(v.hal) EXCEPT !.hwref = TRUE]
<1>1. /\ DOMAIN k = HalFields /\ ~k.used /\ k.next = "Closed" /\ HalUp(k) /\ k.hci = "release"
  BY DEF Touch, WorldLike, HalLike, HalFields, Closing, Up_, HalUp
<1>2. n = Dispatch(u, r.up, {})
  BY NotifiedIs DEF Closing
<1>3. r = phHal4Nfc_HandleEvent(k, m)
  BY DEF phHal4Nfc_LowerNotificationHandler, Events, Emulation
<1>4. r = [h |-> k, up |-> NoUp]
  <2> HIDE DEF k, r
  <2> QED
    BY <1>1, <1>3 DEF phHal4Nfc_HandleEvent
<1> HIDE DEF k, r
<1>5. r.h = k /\ r.up = NoUp
  BY <1>4
<1>6. WorldLike(u) /\ SameRest(v, u) /\ u.hal = k /\ u.lib = v.lib
  BY <1>1, <1>5, WrappedPhase DEF HalLike
<1> HIDE DEF u, n
<1>7. n = u
  BY <1>2, <1>5, HarmlessDispatch DEF Harmless
<1> QED
  BY <1>1, <1>6, <1>7 DEF Lives, SameRest, Closing, Up_, n

(* A fatal error of the chip, once the library is up, ends the process:    *)
(* nothing is posted, and nothing new is waited for.                       *)
LEMMA UpDies ==
  ASSUME NEW v, WorldLike(v), Up_(v), ~v.hal.used, v.posted = <<>>
  PROVE  LET n == Notified(v, "device", {})
         IN /\ WorldLike(n) /\ ~n.hal.used /\ n.aborted /\ n.posted = <<>>
            /\ n.hal.hci = "none" /\ n.lib.next = "Invalid" /\ n.lib.opCb = v.lib.opCb
<1> DEFINE r == phHal4Nfc_LowerNotificationHandler(v.hal, "device")
           u == Wrapped(v, r.h)
           n == Notified(v, "device", {})
           k == [Touch(v.hal) EXCEPT !.hwref = TRUE]
           idle == [k EXCEPT !.hci = "none"]
           o == [idle EXCEPT !.next = "Invalid"]
<1>1. DOMAIN o = HalFields /\ ~o.used /\ o.hci = "none" /\ idle.handler
  BY DEF Touch, WorldLike, HalLike, HalFields, Up_, HalUp
<1>2. n = Dispatch(u, r.up, {})
  BY NotifiedIs DEF Up_, HalUp
<1>3. r = DeviceError(idle)
  BY DEF phHal4Nfc_LowerNotificationHandler, Events, Emulation
<1>4. r.h = o /\ r.up = Up("Default", FALSE)
  <2> HIDE DEF idle, r
  <2>1. r = [h |-> o, up |-> Up("Default", FALSE)]
    BY <1>1, <1>3 DEF DeviceError
  <2> QED
    BY <2>1
<1> HIDE DEF idle, o, r
<1>5. WorldLike(u) /\ SameRest(v, u) /\ u.hal = o /\ u.lib = v.lib
  BY <1>1, <1>4, WrappedPhase DEF HalLike
<1> HIDE DEF u, n
<1> DEFINE lib == phLibNfc_UpdateCurState(u.lib, FALSE)
<1>6. n = [u EXCEPT !.lib = lib, !.aborted = TRUE]
  BY <1>2, <1>4 DEF Dispatch, Up, phLibNfc_DefaultHandler
<1>7. DOMAIN lib = LibFields /\ lib.next = "Invalid" /\ lib.opCb = v.lib.opCb
  BY <1>5 DEF phLibNfc_UpdateCurState, WorldLike, LibFields
<1> HIDE DEF lib
<1>8. WorldLike(n) /\ n.lib = lib /\ n.hal = o /\ n.aborted /\ n.posted = <<>>
  BY <1>5, <1>6, <1>7 DEF WorldLike, SameRest
<1> QED
  BY <1>1, <1>7, <1>8 DEF n

(* Whoever uses the library, what it hears while it is up leaves it up, or *)
(* closed for good with the layer below.                                   *)
StaysUp(v, n) ==
  /\ Lives(v, n)
  /\ Up_(n) \/ Shut(n)
  /\ Contexts(n) \subseteq Contexts(v) \cup {0}

(* A callback posted changes nothing of that.                              *)
LEMMA PostStaysUp ==
  ASSUME NEW v, WorldLike(v), NEW x, StaysUp(v, x), NEW c, NEW ok \in BOOLEAN
  PROVE  StaysUp(v, Post(x, c, ok))
<1>1. WorldLike(x)
  BY DEF StaysUp, Lives
<1> DEFINE n == Post(x, c, ok)
<1>2. WorldLike(n) /\ n.hal = x.hal /\ n.lib = x.lib /\ n.aborted = x.aborted
  BY <1>1, PostPhase
<1> HIDE DEF n
<1> QED
  BY <1>2 DEF StaysUp, Lives, Up_, Shut, Contexts, n

(* A shutdown that waited for the operation: the layer below is asked now. *)
LEMMA PendingShutdownPhase ==
  ASSUME NEW v, WorldLike(v), Up_(v), ~v.hal.used
  PROVE  StaysUp(v, phLibNfc_Pending_Shutdown(v, FALSE))
<1> DEFINE p == phHal4Nfc_Close(v.hal, FALSE)
           n == phLibNfc_Pending_Shutdown(v, FALSE)
<1>1. HalLike(p.h) /\ ~p.h.used /\ HalUp(p.h)
  BY DEF phHal4Nfc_Close, Ret, Touch, Up_, HalUp, WorldLike, HalLike, HalFields
<1>2. n = [v EXCEPT !.lib.gen = FALSE, !.hal = p.h]
  BY DEF phLibNfc_Pending_Shutdown
<1> HIDE DEF p, n
<1>3. /\ WorldLike(n) /\ n.hal = p.h /\ n.aborted = v.aborted /\ n.lib.ctx = v.lib.ctx /\ n.lib.cur = v.lib.cur
      /\ n.lib.initCb = v.lib.initCb /\ n.lib.shutCb = v.lib.shutCb /\ n.lib.opCb = v.lib.opCb
  BY <1>1, <1>2 DEF WorldLike, LibFields
<1> QED
  BY <1>1, <1>3 DEF StaysUp, Lives, Up_, Contexts, n

(* The end of an operation that a shutdown waits for.                      *)
Stopped(v) == [v EXCEPT !.lib = [v.lib EXCEPT !.gen = FALSE, !.op = "none", !.opCb = 0]]

(* It leaves the library up.                                               *)
LEMMA StoppedPhase ==
  ASSUME NEW v, WorldLike(v), Up_(v), ~v.hal.used
  PROVE  WorldLike(Stopped(v)) /\ Up_(Stopped(v)) /\ ~Stopped(v).hal.used /\ StaysUp(v, Stopped(v))
<1> DEFINE l == [v.lib EXCEPT !.gen = FALSE, !.op = "none", !.opCb = 0]
           u == [v EXCEPT !.lib = l]
<1>1. /\ DOMAIN l = LibFields /\ l.ctx = v.lib.ctx /\ l.cur = v.lib.cur /\ l.opCb = 0
      /\ l.initCb = v.lib.initCb /\ l.shutCb = v.lib.shutCb
  BY DEF WorldLike, LibFields
<1> HIDE DEF l
<1>2. WorldLike(u) /\ u.lib = l /\ u.hal = v.hal /\ u.aborted = v.aborted
  BY <1>1 DEF WorldLike
<1>3. Stopped(v) = u
  BY DEF Stopped, l
<1> HIDE DEF u
<1> QED
  BY <1>1, <1>2, <1>3 DEF Up_, StaysUp, Lives, Contexts

(* OpComplete of a library that is up.                                     *)
LEMMA OpCompleteStaysUp ==
  ASSUME NEW v, WorldLike(v), Up_(v), ~v.hal.used, NEW ok \in BOOLEAN
  PROVE  StaysUp(v, OpComplete(v, ok))
<1>1. CASE v.lib.next # "Shutdown"
  <2> DEFINE e == Ended(v, ok)
  <2>1. /\ WorldLike(e) /\ SameRest(v, e) /\ e.hal = v.hal /\ Up_(e) /\ e.lib.opCb = 0
        /\ e.lib.initCb = v.lib.initCb /\ e.lib.shutCb = v.lib.shutCb
    BY <1>1, EndedPhase
  <2>2. OpComplete(v, ok) = IF v.lib.opCb = 0 THEN e ELSE Post(e, v.lib.opCb, ok)
    BY <1>1, OpEnds
  <2> HIDE DEF e
  <2>3. StaysUp(v, e)
    BY <2>1 DEF StaysUp, Lives, SameRest, Contexts
  <2>4. StaysUp(v, Post(e, v.lib.opCb, ok))
    BY <2>3, PostStaysUp
  <2> QED
    BY <2>2, <2>3, <2>4
<1>2. CASE v.lib.next = "Shutdown"
  <2> DEFINE d == Stopped(v)
             x == phLibNfc_Pending_Shutdown(d, FALSE)
             good == ok /\ x = d
  <2>1. OpComplete(v, ok) = IF v.lib.opCb = 0 THEN x ELSE Post(x, v.lib.opCb, good)
    <3>1. (v.lib.op \in DOMAIN Leads /\ v.lib.next # "Shutdown") = FALSE /\ (v.lib.ctx /\ v.lib.next = "Shutdown") = TRUE
      BY <1>2 DEF Up_
    <3> QED
      BY <3>1 DEF OpComplete, Stopped
  <2>2. WorldLike(d) /\ Up_(d) /\ ~d.hal.used /\ StaysUp(v, d)
    BY StoppedPhase
  <2> HIDE DEF d
  <2>3. StaysUp(d, x)
    BY <2>2, PendingShutdownPhase
  <2>4. StaysUp(v, x)
    BY <2>2, <2>3 DEF StaysUp, Lives
  <2> HIDE DEF x
  <2>5. good \in BOOLEAN
    OBVIOUS
  <2> HIDE DEF good
  <2>6. StaysUp(v, Post(x, v.lib.opCb, good))
    BY <2>4, <2>5, PostStaysUp
  <2> QED
    BY <2>1, <2>4, <2>6
<1> QED
  BY <1>1, <1>2

(* phLibNfc_ShutdownCb of a library that is up.                            *)
LEMMA ShutdownCbStaysUp ==
  ASSUME NEW v, WorldLike(v), v.lib.ctx, v.lib.cur # "Shutdown", ~v.hal.used
  PROVE  /\ v.hal = ClosedHal => StaysUp(v, phLibNfc_ShutdownCb(v, TRUE)) /\ Shut(phLibNfc_ShutdownCb(v, TRUE))
         /\ HalUp(v.hal) => StaysUp(v, phLibNfc_ShutdownCb(v, FALSE))
<1>1. ASSUME v.hal = ClosedHal
      PROVE  StaysUp(v, phLibNfc_ShutdownCb(v, TRUE)) /\ Shut(phLibNfc_ShutdownCb(v, TRUE))
  <2> DEFINE x == Post(v, v.lib.shutCb, TRUE)
             n == phLibNfc_ShutdownCb(v, TRUE)
  <2>1. n = [x EXCEPT !.lib = NoLib]
    BY DEF phLibNfc_ShutdownCb
  <2>2. WorldLike(x) /\ x.hal = v.hal /\ x.aborted = v.aborted
    BY PostPhase
  <2> HIDE DEF x, n
  <2>3. WorldLike(n) /\ n.lib = NoLib /\ n.hal = ClosedHal /\ n.aborted = v.aborted
    BY <1>1, <2>1, <2>2, NothingOpen DEF WorldLike
  <2>4. Contexts(n) \subseteq {0}
    BY <2>3 DEF Contexts, NoLib
  <2>5. Lives(v, n) /\ Shut(n)
    BY <2>3 DEF Lives, Shut, ClosedHal
  <2>6. Contexts(n) \subseteq Contexts(v) \cup {0}
    BY <2>4
  <2>7. StaysUp(v, n)
    BY <2>5, <2>6 DEF StaysUp
  <2> QED
    BY <2>5, <2>7 DEF n
<1>2. ASSUME HalUp(v.hal) PROVE StaysUp(v, phLibNfc_ShutdownCb(v, FALSE))
  <2> DEFINE l == [phLibNfc_UpdateCurState(v.lib, FALSE) EXCEPT !.gen = FALSE]
             x == [v EXCEPT !.lib = l]
  <2>1. phLibNfc_ShutdownCb(v, FALSE) = Post(x, v.lib.shutCb, FALSE)
    BY DEF phLibNfc_ShutdownCb
  <2>2. /\ DOMAIN l = LibFields /\ l.ctx /\ l.cur # "Shutdown" /\ l.initCb = v.lib.initCb
        /\ l.shutCb = v.lib.shutCb /\ l.opCb = v.lib.opCb
    BY DEF phLibNfc_UpdateCurState, WorldLike, LibFields
  <2> HIDE DEF l
  <2>3. WorldLike(x) /\ x.lib = l /\ x.hal = v.hal /\ x.aborted = v.aborted
    BY <2>2 DEF WorldLike
  <2> HIDE DEF x
  <2>4. StaysUp(v, x)
    BY <1>2, <2>2, <2>3 DEF StaysUp, Lives, Up_, Contexts
  <2> QED
    BY <2>1, <2>4, PostStaysUp
<1> QED
  BY <1>1, <1>2

(* A message that reaches a library that is up, but for a fatal error.     *)
LEMMA UpHears ==
  ASSUME NEW v, WorldLike(v), Up_(v), ~v.hal.used,
         NEW m \in Events \cup {"done", "error"}, m \in {"done", "error"} => v.hal.hci # "none"
  PROVE  StaysUp(v, Notified(v, m, {}))
<1> DEFINE r == phHal4Nfc_LowerNotificationHandler(v.hal, m)
           u == Wrapped(v, r.h)
           n == Notified(v, m, {})
<1>1. HalUp(v.hal) /\ HalLike(v.hal)
  BY DEF Up_, WorldLike
<1>2. /\ HalLike(r.h) /\ ~r.h.used
      /\ \/ r.h = ClosedHal /\ r.up = Up("ShutdownCb", TRUE)
         \/ HalUp(r.h) /\ \/ r.up = Up("ShutdownCb", FALSE)
                          \/ \E ok \in BOOLEAN : r.up \in {Up("IoctlCb", ok), Up("ConfigCb", ok)}
                          \/ Harmless(r.up)
  BY <1>1, LowerPhase DEF Harmless
<1>3. n = Dispatch(u, r.up, {})
  BY <1>1, NotifiedIs DEF HalUp
<1> HIDE DEF r
<1>4. WorldLike(u) /\ SameRest(v, u) /\ u.hal = r.h /\ u.lib = v.lib
  BY <1>2, WrappedPhase
<1> HIDE DEF u, n
<1>5. Contexts(u) = Contexts(v) /\ u.lib.ctx /\ u.lib.cur # "Shutdown" /\ ~u.hal.used
  BY <1>2, <1>4 DEF Contexts, Up_
<1>6. HalUp(r.h) => Up_(u)
  BY <1>4, <1>5 DEF Up_
<1>7. CASE r.h = ClosedHal /\ r.up = Up("ShutdownCb", TRUE)
  <2>1. n = phLibNfc_ShutdownCb(u, TRUE)
    BY <1>3, <1>7 DEF Dispatch, Up
  <2>2. StaysUp(u, n)
    BY <1>4, <1>5, <1>7, <2>1, ShutdownCbStaysUp
  <2> QED
    BY <1>4, <1>5, <2>2 DEF StaysUp, Lives, SameRest, n
<1>8. CASE HalUp(r.h) /\ r.up = Up("ShutdownCb", FALSE)
  <2>1. n = phLibNfc_ShutdownCb(u, FALSE)
    BY <1>3, <1>8 DEF Dispatch, Up
  <2>2. StaysUp(u, n)
    BY <1>4, <1>5, <1>8, <2>1, ShutdownCbStaysUp
  <2> QED
    BY <1>4, <1>5, <2>2 DEF StaysUp, Lives, SameRest, n
<1>9. ASSUME HalUp(r.h), NEW ok \in BOOLEAN, r.up \in {Up("IoctlCb", ok), Up("ConfigCb", ok)}
      PROVE  StaysUp(v, n)
  <2>1. n = OpComplete(u, ok)
    BY <1>3, <1>9 DEF Dispatch, Up
  <2>2. StaysUp(u, n)
    BY <1>4, <1>5, <1>6, <1>9, <2>1, OpCompleteStaysUp
  <2> QED
    BY <1>4, <1>5, <2>2 DEF StaysUp, Lives, SameRest
<1>10. CASE HalUp(r.h) /\ Harmless(r.up)
  <2>1. n = u
    BY <1>3, <1>10, HarmlessDispatch
  <2> QED
    BY <1>4, <1>5, <1>6, <1>10, <2>1 DEF StaysUp, Lives, SameRest, n
<1> QED
  BY <1>2, <1>7, <1>8, <1>9, <1>10 DEF n

(* phLibNfc_Mgt_Reset: registrations and callbacks are dropped.            *)
LEMMA ResetPhase ==
  ASSUME NEW v, WorldLike(v), ~v.hal.used, Up_(v) \/ v.lib.cur = "Shutdown"
  PROVE  LET n == phLibNfc_Mgt_Reset(v).w
         IN n = v \/ (WorldLike(n) /\ SameRest(v, n) /\ ~n.hal.used /\ Up_(n) /\ Contexts(n) = {0})
<1> DEFINE l == [v.lib EXCEPT !.reg = FALSE, !.held = {}, !.cur = "InitandIdle", !.initCb = 0, !.shutCb = 0,
                              !.opCb = 0, !.ntf = FALSE, !.gen = FALSE]
           u == [v EXCEPT !.lib = l]
           n == phLibNfc_Mgt_Reset(v).w
<1>1. n = v \/ (Up_(v) /\ n = u)
  BY DEF phLibNfc_Mgt_Reset, Result, Up_
<1> HIDE DEF n
<1>2. ASSUME Up_(v) PROVE WorldLike(u) /\ SameRest(v, u) /\ ~u.hal.used /\ Up_(u) /\ Contexts(u) = {0}
  <2>1. /\ DOMAIN l = LibFields /\ l.ctx /\ l.cur # "Shutdown" /\ l.initCb = 0 /\ l.shutCb = 0 /\ l.opCb = 0
    BY <1>2 DEF WorldLike, LibFields, Up_
  <2> HIDE DEF l
  <2>2. WorldLike(u) /\ SameRest(v, u) /\ u.lib = l /\ u.hal = v.hal
    BY <2>1 DEF WorldLike, SameRest
  <2> HIDE DEF u
  <2> QED
    BY <1>2, <2>1, <2>2 DEF Up_, Contexts
<1> HIDE DEF u
<1> QED
  BY <1>1, <1>2 DEF n

(* A call of a program that uses the library as it is meant to be used     *)
(* leaves one of the phases for one of the phases.                         *)
ToolMay(v, n) ==
  WorldOk(n) /\ n.aborted = v.aborted /\ Contexts(n) \subseteq Contexts(v) \cup {0, Tool}

(* So does every one of its calls.                                         *)
LEMMA ToolCallPhase ==
  ASSUME NEW fault \in {"none", "memory", "hci"}, WorldOk(w), NEW r \in ToolCalls(fault)
  PROVE  ToolMay(w, r.w)
<1> DEFINE refused == fault # "none"
<1>0. /\ WorldLike(w) /\ ~w.hal.used /\ w.posted = <<>> /\ refused \in BOOLEAN /\ Tool # 0
      /\ Up_(w) \/ w.lib.cur = "Shutdown"
      /\ Shut(w) \/ w.lib.ctx
  BY DEF WorldOk, Shut, NoLib, Refused, Opening, Downloading, Up_, Tool
<1>1. ToolMay(w, w)
  BY DEF ToolMay, WorldOk
<1>2. ToolMay(w, phLibNfc_Mgt_Initialize(w, Tool, fault).w)
  <2> DEFINE x == phLibNfc_Mgt_Initialize(w, Tool, fault)
  <2>1. \/ x.w = w
        \/ /\ WorldLike(x.w) /\ SameRest(w, x.w) /\ ~x.w.hal.used /\ (Opening(x.w) \/ Refused(x.w))
           /\ x.w.lib.initCb = Tool /\ x.w.lib.shutCb = 0 /\ x.w.lib.opCb = 0
    BY <1>0, InitializePhase
  <2> HIDE DEF x
  <2> QED
    BY <1>0, <1>1, <2>1 DEF ToolMay, WorldOk, SameRest, Contexts, x
<1>3. ASSUME NEW k \in BOOLEAN
      PROVE  ToolMay(w, CloseNowOrLater(w, Tool, k).w) \/ ~Up_(w)
  <2> DEFINE x == CloseNowOrLater(w, Tool, k)
  <2>1. CASE Up_(w)
    <3>1. /\ WorldLike(x.w) /\ SameRest(w, x.w) /\ ~x.w.hal.used /\ Up_(x.w)
          /\ x.w.lib.initCb = w.lib.initCb /\ x.w.lib.opCb = w.lib.opCb
          /\ x.w.lib.shutCb = Tool \/ x.w.lib = w.lib
      BY <1>0, <2>1, ClosePhase
    <3> HIDE DEF x
    <3> QED
      BY <1>0, <3>1 DEF ToolMay, WorldOk, SameRest, Contexts, x
  <2> QED
    BY <2>1
<1>4. ASSUME NEW c \in {0, Tool}
      PROVE  ToolMay(w, phLibNfc_Mgt_DeInitialize(w, c, refused).w)
  <2> DEFINE x == phLibNfc_Mgt_DeInitialize(w, c, refused)
  <2>1. \/ x.w = w
        \/ Up_(w) /\ c # 0 /\ x = CloseNowOrLater(w, c, refused)
        \/ WorldLike(x.w) /\ SameRest(w, x.w) /\ Shut(x.w) /\ ~x.w.hal.used
    BY <1>0, DeInitializePhase
  <2>2. CASE WorldLike(x.w) /\ SameRest(w, x.w) /\ Shut(x.w) /\ ~x.w.hal.used
    <3> HIDE DEF x
    <3>1. Contexts(x.w) = {0}
      BY <2>2 DEF Contexts, Shut, NoLib
    <3> QED
      BY <1>0, <2>2, <3>1 DEF ToolMay, WorldOk, SameRest, x
  <2> HIDE DEF refused
  <2>3. CASE Up_(w) /\ c # 0 /\ x = CloseNowOrLater(w, c, refused)
    BY <1>0, <1>3, <2>3
  <2> QED
    BY <1>1, <2>1, <2>2, <2>3
<1>5. ToolMay(w, phLibNfc_Mgt_Reset(w).w)
  <2> DEFINE x == phLibNfc_Mgt_Reset(w).w
  <2>1. x = w \/ (WorldLike(x) /\ SameRest(w, x) /\ ~x.hal.used /\ Up_(x) /\ Contexts(x) = {0})
    BY <1>0, ResetPhase
  <2> HIDE DEF x
  <2> QED
    BY <1>0, <1>1, <2>1 DEF ToolMay, WorldOk, SameRest, x
<1>6. ToolMay(w, phLibNfc_Mgt_ConfigureTestMode(w, Tool, TRUE, fault).w)
  <2> DEFINE x == phLibNfc_Mgt_ConfigureTestMode(w, Tool, TRUE, fault)
             o == OpenWith(w, Tool, "test", fault)
  <2>1. CASE w.lib.ctx
    <3>1. x.w = w
      BY <2>1 DEF phLibNfc_Mgt_ConfigureTestMode, Result
    <3> QED
      BY <1>1, <3>1
  <2>2. CASE Shut(w)
    <3>1. x = o
      BY <2>2 DEF phLibNfc_Mgt_ConfigureTestMode, Shut, NoLib
    <3>2. /\ WorldLike(o.w) /\ SameRest(w, o.w) /\ ~o.w.hal.used /\ (Opening(o.w) \/ Refused(o.w))
          /\ o.w.lib.initCb = Tool /\ o.w.lib.shutCb = 0 /\ o.w.lib.opCb = 0
      BY <1>0, <2>2, OpenWithPhase
    <3> HIDE DEF x, o
    <3> QED
      BY <1>0, <3>1, <3>2 DEF ToolMay, WorldOk, SameRest, Contexts, x
  <2> QED
    BY <1>0, <2>1, <2>2
<1>7. ASSUME w.lib.cur # "Shutdown"
      PROVE  ToolMay(w, phLibNfc_Mgt_ConfigureTestMode(w, Tool, FALSE, fault).w)
  <2>1. Up_(w)
    BY <1>0, <1>7
  <2>2. \/ phLibNfc_Mgt_ConfigureTestMode(w, Tool, FALSE, fault).w = w
        \/ phLibNfc_Mgt_ConfigureTestMode(w, Tool, FALSE, fault) = CloseNowOrLater(w, Tool, refused)
    BY <2>1 DEF phLibNfc_Mgt_ConfigureTestMode, Result, Up_
  <2> HIDE DEF refused
  <2> QED
    BY <1>0, <1>1, <1>3, <2>1, <2>2
<1>8. ToolMay(w, Download(w, Tool, refused).w)
  <2> DEFINE x == Download(w, Tool, refused)
  <2>1. \/ x.w = w
        \/ /\ WorldLike(x.w) /\ SameRest(w, x.w) /\ ~x.w.hal.used
           /\ \/ Downloading(x.w) /\ x.w.lib.opCb = Tool /\ x.w.lib.initCb = 0 /\ x.w.lib.shutCb = 0
              \/ Shut(x.w)
    BY <1>0, DownloadPhase
  <2> HIDE DEF x
  <2>2. Shut(x.w) => Contexts(x.w) = {0}
    BY DEF Contexts, Shut, NoLib
  <2> QED
    BY <1>0, <1>1, <2>1, <2>2 DEF ToolMay, WorldOk, SameRest, Contexts, x
<1>9. ASSUME NEW op PROVE ToolMay(w, LibOp(w, op, Tool, refused).w)
  <2> DEFINE x == LibOp(w, op, Tool, refused)
  <2>1. CASE Up_(w)
    <3>1. /\ WorldLike(x.w) /\ SameRest(w, x.w) /\ ~x.w.hal.used /\ Up_(x.w)
          /\ x.w.lib.initCb = w.lib.initCb /\ x.w.lib.shutCb = w.lib.shutCb
          /\ x.w.lib.opCb = Tool \/ x.w.lib = w.lib
      <4> HIDE DEF refused
      <4>1. /\ WorldLike(x.w) /\ SameRest(w, x.w) /\ ~x.w.hal.used /\ Up_(x.w)
            /\ x.w.lib.initCb = w.lib.initCb /\ x.w.lib.shutCb = w.lib.shutCb
            /\ x.st = "PENDING" => x.w.lib.opCb = Tool
            /\ x.st # "PENDING" => x.w.lib = w.lib
        BY <1>0, <2>1, LibOpPhase
      <4> HIDE DEF x
      <4> QED
        BY <4>1
    <3> HIDE DEF x
    <3> QED
      BY <1>0, <3>1 DEF ToolMay, WorldOk, SameRest, Contexts, x
  <2>2. CASE w.lib.cur = "Shutdown"
    <3>1. x.w = w
      BY <2>2 DEF LibOp, Busy, Result
    <3> QED
      BY <1>1, <3>1
  <2> QED
    BY <1>0, <2>1, <2>2
<1> QED
  <2> HIDE DEF refused
  <2> QED
    BY <1>2, <1>4, <1>5, <1>6, <1>7, <1>8, <1>9 DEF ToolCalls, refused

(* A message that the layer below passes on, in any of the phases: a fatal *)
(* error ends the process, everything else leads to a phase again.         *)
Calmed(n) == [n EXCEPT !.posted = <<>>]

(* The callbacks made, only the list of them is different.                 *)
LEMMA CalmedPhase ==
  ASSUME NEW n, WorldLike(n)
  PROVE  LET c == Calmed(n)
         IN WorldLike(c) /\ c.posted = <<>> /\ c.hal = n.hal /\ c.lib = n.lib /\ c.aborted = n.aborted
  BY DEF Calmed, WorldLike

(* The one exception is the fatal error: then nothing is posted and        *)
(* nothing is waited for any more.                                         *)
LEMMA WorldHears ==
  ASSUME WorldOk(w), NEW m \in Events \cup Answers, Heard(m)
  PROVE  LET n == Notified(w, m, {})
         IN \/ n.aborted /\ WorldLike(n) /\ ~n.hal.used /\ Up_(w) /\ m = "device" /\ n.posted = <<>>
               /\ n.hal.hci = "none" /\ n.lib.next = "Invalid" /\ n.lib.opCb = w.lib.opCb
            \/ WorldOk(Calmed(n)) /\ Lives(w, n) /\ Contexts(n) \subseteq Contexts(w) \cup {0}
<1> DEFINE n == Notified(w, m, {})
<1>0. WorldLike(w) /\ ~w.hal.used /\ w.posted = <<>>
  BY DEF WorldOk
<1>1. m \in Events => m \notin Answers
  BY DEF Events, Emulation, Answers
<1>2. ~Shut(w) /\ ~Refused(w)
  BY DEF Heard, Shut, Refused, ClosedHal
<1>3. ASSUME NEW x, Lives(w, x), Shut(x)
      PROVE  WorldOk(Calmed(x)) /\ Lives(w, x) /\ Contexts(x) \subseteq Contexts(w) \cup {0}
  <2>1. Contexts(x) = {0}
    BY <1>3 DEF Contexts, Shut, NoLib
  <2>2. WorldOk(Calmed(x))
    BY <1>3, CalmedPhase DEF WorldOk, Shut, Lives
  <2> QED
    BY <1>3, <2>1, <2>2
<1>4. ASSUME NEW x, Lives(w, x), Up_(x) PROVE WorldOk(Calmed(x))
  BY <1>4, CalmedPhase DEF WorldOk, Up_, Lives
<1>5. CASE Opening(w)
  <2>1. m \in {"done", "error", "device"}
    BY <1>1, <1>5 DEF Heard, Answers, Opening
  <2>2. /\ Lives(w, n)
        /\ m # "done" => Shut(n)
        /\ m = "done" => Up_(n) /\ n.lib.initCb = w.lib.initCb /\ n.lib.shutCb = w.lib.shutCb /\ n.lib.opCb = 0
    BY <1>0, <1>5, <2>1, OpeningHears
  <2> HIDE DEF n
  <2>3. m = "done" => Contexts(n) \subseteq Contexts(w) \cup {0}
    BY <2>2 DEF Contexts
  <2> QED
    BY <1>3, <1>4, <2>2, <2>3 DEF n
<1>6. CASE Downloading(w)
  <2>1. Lives(w, n) /\ Shut(n)
    BY <1>0, <1>6, DownloadingHears
  <2> HIDE DEF n
  <2> QED
    BY <1>3, <2>1 DEF n
<1>7. CASE Up_(w) /\ m # "device"
  <2>1. m \in Events \cup {"done", "error"} /\ (m \in {"done", "error"} => w.hal.hci # "none")
    BY <1>7 DEF Answers, Heard
  <2>2. StaysUp(w, n)
    BY <1>0, <1>7, <2>1, UpHears
  <2> HIDE DEF n
  <2> QED
    BY <1>3, <1>4, <2>2 DEF StaysUp, n
<1>8. CASE Up_(w) /\ m = "device"
  <2>1. Notified(w, "device", {}) = n
    BY <1>8
  <2>2. /\ WorldLike(n) /\ ~n.hal.used /\ n.aborted /\ n.posted = <<>>
        /\ n.hal.hci = "none" /\ n.lib.next = "Invalid" /\ n.lib.opCb = w.lib.opCb
    BY <1>0, <1>8, <2>1, UpDies
  <2> HIDE DEF n
  <2> QED
    BY <1>8, <2>2 DEF n
<1> QED
  BY <1>2, <1>5, <1>6, <1>7, <1>8 DEF WorldOk

(***************************************************************************)
(* The frames, and where each call of this file stands.                    *)
(***************************************************************************)
ApiFields == {"call", "pc", "stack", "update", "tries", "left", "was", "result", "restart"}
MgrFields == {"configured", "client", "service", "late", "stored", "llcp", "link", "up", "connected",
              "socks", "lastErr", "incoming", "p2p"}
Msgs == Answers \cup Events \cup DOMAIN Lists \cup {"kill", "linkUp", "linkDown", "incoming"}

FrameLike(f) == DOMAIN f = {"live", "mem", "st", "sem"} /\ f.sem \in Nat
(* The frames on the stack are live and distinct, and none is the link's.  *)
FramesOf(fr, s, link) ==
  /\ fr = [f \in FrameIds |-> fr[f]] /\ \A f \in FrameIds : FrameLike(fr[f])
  /\ s \in Seq(FrameIds) /\ Len(s) <= 3
  /\ \A i \in 1 .. Len(s) : fr[s[i]].live
  /\ \A i, j \in 1 .. Len(s) : i # j => s[i] # s[j]
  /\ link \in FrameIds \cup {0}
  /\ link # 0 => fr[link].mem /\ \A i \in 1 .. Len(s) : s[i] # link
FramesOk == FramesOf(frames, api.stack, mgr.link)

(* Nothing is on its way, unless a timed wait ran out.                     *)
Rests == Quiet(w) /\ (mgr.late \/ Settled(w))

(* Someone takes the messages.                                             *)
ClientOk ==
  /\ api.pc # "none" \/ mgr.service = "on" => ~KillPending
  /\ mgr.service = "on" => mgr.configured /\ mgr.client
  /\ \A i \in 1 .. Len(api.stack) : frames[api.stack[i]].sem > 0 => mgr.client

Sem(i) == frames[api.stack[i]].sem
(* An initialisation with n frames, the first not in use meanwhile.        *)
Starting == api.call = "initialize" /\ mgr.service # "on" /\ mgr.configured
Within(n) ==
  /\ Len(api.stack) = n /\ Starting /\ (mgr.service = "off" => mgr.client)
  /\ Sem(1) = 0 /\ api.stack[1] \notin Owed(w)

(* The second one is not in use either, unless a wait on it ran out.       *)
SecondRests == mgr.late \/ Sem(2) = 0
(* A download that the service asked for.                                  *)
ByItself == api.call = "doDownload" /\ mgr.service = "off"
(* The last frame waits for its answer, or has it.                         *)
Waits1 == (Asked(w, Top) /\ Sem(1) = 0) \/ (Idle(w) /\ Sem(1) = 1)

AtNone ==
  /\ api = NoCall /\ Rests
  /\ mgr.service = "on" => Idle(w)
  /\ mgr.service = "off" => Shut(w) /\ ~mgr.configured
AtHw ==
  /\ Len(api.stack) = 1 /\ api.call = "initialize" /\ mgr.service # "on"
  /\ mgr.service = "off" => ~mgr.configured
  /\ Sem(1) = 0 /\ api.stack[1] \notin Owed(w) /\ Rests
AtInit == Within(1) /\ Rests
AtInitWait ==
  /\ Len(api.stack) = 1 /\ Starting /\ (mgr.service = "off" => mgr.client)
  /\ \/ Opens(w) /\ w.lib.initCb = api.stack[1] /\ Sem(1) = 0
     \/ Sem(1) = 1 /\ Idle(w)
     \/ Sem(1) = 1 /\ Shut(w) /\ ~Good
AtCaps == Within(1) /\ Idle(w) /\ mgr.client
AtDl == Within(1) /\ Rests /\ (api.update => Idle(w))
AtDlDeinitWait ==
  /\ Within(2) /\ Quiet(w)
  /\ \/ mgr.late
     \/ Settled(w) /\ Sem(2) <= 1
     \/ Closing(w) /\ w.lib.shutCb = api.stack[2] /\ Sem(2) = 0
AtPd ==
  \/ Within(2) /\ Rests /\ SecondRests
  \/ ByItself /\ Len(api.stack) = 0 /\ Shut(w) /\ ~mgr.configured
AtPdWait ==
  /\ \/ Within(3) /\ SecondRests /\ ~api.was
     \/ ByItself /\ Len(api.stack) = 1 /\ api.was /\ mgr.client /\ mgr.configured
  /\ (Downloading(w) /\ w.lib.opCb = Top /\ frames[Top].sem = 0) \/ (Shut(w) /\ frames[Top].sem > 0)
AtPdEnd ==
  \/ Within(3) /\ SecondRests /\ ~api.was /\ Rests /\ (api.result => Shut(w) /\ mgr.client)
  \/ ByItself /\ Len(api.stack) = 1 /\ api.was /\ Shut(w)
AtDlInit == Within(2) /\ SecondRests /\ Shut(w) /\ mgr.client
AtDlInitWait ==
  /\ Within(2) /\ mgr.client
  /\ \/ Opens(w) /\ w.lib.initCb = Top /\ SecondRests
     \/ frames[Top].sem > 0 /\ (Shut(w) \/ Idle(w))
AtDlEnd == Within(2) /\ Rests
AtEeprom == Within(1) /\ Rests /\ mgr.client /\ (Shut(w) \/ Idle(w) \/ Opens(w))
AtAskedWait == Len(api.stack) = 1 /\ Starting /\ mgr.client /\ Waits1
AtAsk == Within(1) /\ Idle(w) /\ mgr.client
AtDiscovery == Len(api.stack) = 0 /\ mgr.service = "on" /\ Idle(w)
AtDiscoveryWait ==
  /\ Len(api.stack) = 1 /\ mgr.service = "on" /\ Waits1
  /\ api.pc = "checkWait" => frames[Top].mem
AtDeinitWait ==
  /\ Len(api.stack) = 1 /\ mgr.service = "on"
  /\ \/ Closing(w) /\ w.lib.shutCb = Top /\ Sem(1) = 0
     \/ Sem(1) > 0 /\ Shut(w)
     \/ Sem(1) > 0 /\ Broken(w) /\ ~Good
AtUnconfigure == Len(api.stack) = 0 /\ mgr.service = "on" /\ Shut(w)
AtRecovery == mgr.service = "on" /\ Rests

Pcs == {"none", "hw", "init", "initWait", "caps", "dl", "dlDeinitWait", "pd", "pdWait", "pdEnd", "dlInit",
        "dlInitWait", "dlEnd", "eeprom", "eepromWait", "se", "seWait", "llcp", "llcpWait", "ntf", "stop",
        "stopWait", "start", "startWait", "checkWait", "deinitWait", "unconfigure", "recovery"}
PcOk ==
  /\ api.pc \in Pcs
  /\ api.pc = "none" => AtNone
  /\ api.pc = "hw" => AtHw
  /\ api.pc = "init" => AtInit
  /\ api.pc = "initWait" => AtInitWait
  /\ api.pc = "caps" => AtCaps
  /\ api.pc = "dl" => AtDl
  /\ api.pc = "dlDeinitWait" => AtDlDeinitWait
  /\ api.pc = "pd" => AtPd
  /\ api.pc = "pdWait" => AtPdWait
  /\ api.pc = "pdEnd" => AtPdEnd
  /\ api.pc = "dlInit" => AtDlInit
  /\ api.pc = "dlInitWait" => AtDlInitWait
  /\ api.pc = "dlEnd" => AtDlEnd
  /\ api.pc = "eeprom" => AtEeprom
  /\ api.pc \in {"eepromWait", "seWait", "llcpWait"} => AtAskedWait
  /\ api.pc \in {"se", "llcp", "ntf"} => AtAsk
  /\ api.pc \in {"stop", "start"} => AtDiscovery
  /\ api.pc \in {"stopWait", "startWait", "checkWait"} => AtDiscoveryWait
  /\ api.pc = "deinitWait" => AtDeinitWait
  /\ api.pc = "unconfigure" => AtUnconfigure
  /\ api.pc = "recovery" => AtRecovery

Typed == q \in Seq(Msgs) /\ DOMAIN api = ApiFields /\ DOMAIN mgr = MgrFields
JniOk ==
  /\ FramesOk /\ ClientOk /\ WorldOk(w) /\ PcOk
  /\ mgr.service \in {"on", "off", "failed"}
ToolOk ==
  /\ WorldOk(w) /\ api = NoCall /\ mgr.link = 0 /\ frames = [f \in FrameIds |-> Free]
  /\ Contexts(w) \subseteq {0, Tool}
Inv ==
  /\ ~w.hal.used /\ user \in {"jni", "tool"}
  /\ Alive \/ CallbackFindsFrame
  /\ Alive => Typed
  /\ Jni => JniOk
  /\ Alive /\ user = "tool" => ToolOk

(* nfc_cb_data_init: the next frame is no other one, and nothing that is   *)
(* on its way is on its way to it.                                         *)
LEMMA Entered ==
  ASSUME FramesOk, Unused # {}, Len(api.stack) <= 2
  PROVE  /\ FreshFrame \in FrameIds /\ FreshFrame \in Nat \ {0} /\ FreshFrame \notin Owed(w)
         /\ FramesOf(Pushed, Append(api.stack, FreshFrame), mgr.link)
         /\ Len(Append(api.stack, FreshFrame)) = Len(api.stack) + 1
         /\ Append(api.stack, FreshFrame)[Len(api.stack) + 1] = FreshFrame
         /\ \A i \in 1 .. Len(api.stack) : /\ Append(api.stack, FreshFrame)[i] = api.stack[i]
                                           /\ api.stack[i] # FreshFrame
         /\ \A g \in FrameIds : g # FreshFrame => Pushed[g] = frames[g]
         /\ Pushed[FreshFrame].sem = 0 /\ Pushed[FreshFrame].live /\ FreshFrame # mgr.link
<1> DEFINE f == FreshFrame
           s == api.stack
           t == Append(s, f)
           p == Pushed
<1>1. f \in Unused
  BY DEF FreshFrame
<1>2. f \in FrameIds /\ ~frames[f].live /\ f \notin Owed(w) /\ f # mgr.link
  BY <1>1 DEF Unused, InFlight, Owed
<1>3. f \in Nat \ {0}
  BY <1>2, ConstantsAssumption
<1> HIDE DEF f
<1>4. s \in Seq(FrameIds) /\ Len(s) \in Nat
  BY DEF FramesOk, FramesOf
<1>5. /\ t \in Seq(FrameIds) /\ Len(t) = Len(s) + 1 /\ t[Len(s) + 1] = f
      /\ \A i \in 1 .. Len(s) : t[i] = s[i]
  BY <1>2, <1>4
<1>6. \A i \in 1 .. Len(s) : s[i] # f /\ s[i] \in FrameIds
  BY <1>2, <1>4 DEF FramesOk, FramesOf
<1> DEFINE fr == [Free EXCEPT !.live = TRUE]
<1>7. FrameLike(fr) /\ fr.live /\ fr.sem = 0
  BY DEF Free, FrameLike
<1>8. p = [frames EXCEPT ![f] = fr]
  BY DEF Pushed, f
<1> HIDE DEF fr, p
<1>9. frames = [g \in FrameIds |-> frames[g]] /\ \A g \in FrameIds : FrameLike(frames[g])
  BY DEF FramesOk, FramesOf
<1>10. /\ p = [g \in FrameIds |-> p[g]] /\ p[f] = fr /\ \A g \in FrameIds : g # f => p[g] = frames[g]
  BY <1>2, <1>8, <1>9
<1> HIDE DEF t
<1>11. FramesOf(p, t, mgr.link)
  <2>1. \A g \in FrameIds : FrameLike(p[g])
    BY <1>7, <1>9, <1>10
  <2>2. \A i \in 1 .. Len(t) : p[t[i]].live
    <3> TAKE i \in 1 .. Len(t)
    <3>1. CASE i = Len(s) + 1
      BY <1>5, <1>7, <1>10, <3>1
    <3>2. CASE i \in 1 .. Len(s)
      <4>1. t[i] = s[i] /\ s[i] # f /\ s[i] \in FrameIds
        BY <1>5, <1>6, <3>2
      <4>2. frames[s[i]].live
        BY <3>2 DEF FramesOk, FramesOf
      <4> QED
        BY <1>10, <4>1, <4>2
    <3> QED
      BY <1>4, <1>5, <3>1, <3>2
  <2>3. \A i, j \in 1 .. Len(t) : i # j => t[i] # t[j]
    <3> TAKE i, j \in 1 .. Len(t)
    <3>1. \A a, b \in 1 .. Len(s) : a # b => s[a] # s[b]
      BY DEF FramesOk, FramesOf
    <3>2. /\ i = Len(s) + 1 \/ i \in 1 .. Len(s)
          /\ j = Len(s) + 1 \/ j \in 1 .. Len(s)
      BY <1>4, <1>5
    <3> QED
      BY <1>5, <1>6, <3>1, <3>2
  <2>4. mgr.link # 0 => p[mgr.link].mem /\ \A i \in 1 .. Len(t) : t[i] # mgr.link
    <3> SUFFICES ASSUME mgr.link # 0 PROVE p[mgr.link].mem /\ \A i \in 1 .. Len(t) : t[i] # mgr.link
      OBVIOUS
    <3>1. mgr.link \in FrameIds /\ frames[mgr.link].mem /\ \A i \in 1 .. Len(s) : s[i] # mgr.link
      BY DEF FramesOk, FramesOf
    <3>2. \A i \in 1 .. Len(t) : i = Len(s) + 1 \/ i \in 1 .. Len(s)
      BY <1>4, <1>5
    <3> QED
      BY <1>2, <1>5, <1>10, <3>1, <3>2
  <2>5. Len(t) <= 3 /\ mgr.link \in FrameIds \cup {0}
    BY <1>4, <1>5 DEF FramesOk, FramesOf
  <2> QED
    BY <1>5, <1>10, <2>1, <2>2, <2>3, <2>4, <2>5 DEF FramesOf
<1> QED
  BY <1>2, <1>3, <1>5, <1>6, <1>7, <1>10, <1>11 DEF f, t, p

(* A change of one frame that is not the link's keeps the others.          *)
LEMMA FrameChanged ==
  ASSUME NEW s, NEW link, FramesOf(frames, s, link), NEW f \in FrameIds, NEW x, FrameLike(x),
         x.live = frames[f].live, x.mem = frames[f].mem
  PROVE  /\ FramesOf([frames EXCEPT ![f] = x], s, link)
         /\ [frames EXCEPT ![f] = x][f] = x
         /\ \A g \in FrameIds : g # f => [frames EXCEPT ![f] = x][g] = frames[g]
<1> DEFINE p == [frames EXCEPT ![f] = x]
<1>1. p = [g \in FrameIds |-> p[g]] /\ p[f] = x /\ \A g \in FrameIds : g # f => p[g] = frames[g]
  BY DEF FramesOf
<1> HIDE DEF p
<1>2. \A g \in FrameIds : FrameLike(p[g]) /\ p[g].live = frames[g].live /\ p[g].mem = frames[g].mem
  BY <1>1 DEF FramesOf
<1>3. s \in Seq(FrameIds) /\ \A i \in 1 .. Len(s) : s[i] \in FrameIds /\ p[s[i]].live
  BY <1>2 DEF FramesOf
<1>4. link # 0 => p[link].mem
  BY <1>2 DEF FramesOf
<1>5. FramesOf(p, s, link)
  BY <1>1, <1>2, <1>3, <1>4 DEF FramesOf
<1> QED
  BY <1>1, <1>5 DEF p

(* A semaphore taken.                                                      *)
LEMMA TakenFrame ==
  ASSUME FramesOk, Len(api.stack) > 0, Answered
  PROVE  /\ FramesOf(Taken, api.stack, mgr.link)
         /\ Top \in FrameIds /\ Taken[Top].sem = frames[Top].sem - 1
         /\ \A g \in FrameIds : g # Top => Taken[g] = frames[g]
<1> DEFINE x == [frames[Top] EXCEPT !.sem = @ - 1]
           f == Top
<1>1. f \in FrameIds /\ api.stack \in Seq(FrameIds) /\ Len(api.stack) \in Nat
  BY DEF FramesOk, FramesOf, Top
<1>2. DOMAIN frames[f] = {"live", "mem", "st", "sem"} /\ frames[f].sem \in Nat /\ frames[f].sem > 0
  BY <1>1 DEF FramesOk, FramesOf, FrameLike, Answered
<1>3. FrameLike(x) /\ x.live = frames[f].live /\ x.mem = frames[f].mem /\ x.sem = frames[f].sem - 1
  BY <1>2 DEF FrameLike
<1>4. Taken = [frames EXCEPT ![f] = x]
  BY DEF Taken
<1> HIDE DEF x, f
<1>5. /\ FramesOf([frames EXCEPT ![f] = x], api.stack, mgr.link)
      /\ [frames EXCEPT ![f] = x][f] = x
      /\ \A g \in FrameIds : g # f => [frames EXCEPT ![f] = x][g] = frames[g]
  BY <1>1, <1>3, FrameChanged DEF FramesOk
<1> QED
  BY <1>1, <1>3, <1>4, <1>5 DEF f

(* nfc_cb_data_deinit of the last frame.                                   *)
LEMMA LeftFrame ==
  ASSUME FramesOk, Len(api.stack) > 0
  PROVE  /\ FramesOf(Popped, Left, mgr.link)
         /\ Len(Left) = Len(api.stack) - 1
         /\ \A i \in 1 .. Len(Left) : Left[i] = api.stack[i] /\ Popped[api.stack[i]] = frames[api.stack[i]]
         /\ Top \in FrameIds /\ \A g \in FrameIds : g # Top => Popped[g] = frames[g]
<1> DEFINE s == api.stack
           t == Left
           f == Top
           x == [frames[Top] EXCEPT !.live = FALSE]
           p == Popped
<1>1. s \in Seq(FrameIds) /\ Len(s) \in Nat /\ Len(s) > 0 /\ Len(s) <= 3 /\ \A i \in 1 .. Len(s) : s[i] \in FrameIds
  BY DEF FramesOk, FramesOf
<1>2. f = s[Len(s)] /\ f \in FrameIds
  BY <1>1 DEF Top
<1>3. t \in Seq(FrameIds) /\ Len(t) = Len(s) - 1 /\ \A i \in 1 .. Len(t) : t[i] = s[i]
  BY <1>1 DEF Left
<1>4. DOMAIN frames[f] = {"live", "mem", "st", "sem"} /\ frames[f].sem \in Nat
  BY <1>2 DEF FramesOk, FramesOf, FrameLike
<1>5. FrameLike(x) /\ x.mem = frames[f].mem
  BY <1>4 DEF FrameLike
<1>6. p = [frames EXCEPT ![f] = x]
  BY DEF Popped
<1> HIDE DEF x, f, t, p
<1>7. p = [g \in FrameIds |-> p[g]] /\ p[f] = x /\ \A g \in FrameIds : g # f => p[g] = frames[g]
  BY <1>2, <1>6 DEF FramesOk, FramesOf
<1>8. \A g \in FrameIds : FrameLike(p[g]) /\ p[g].mem = frames[g].mem
  BY <1>5, <1>7 DEF FramesOk, FramesOf
<1>9. \A i, j \in 1 .. Len(s) : i # j => s[i] # s[j]
  BY DEF FramesOk, FramesOf
<1>10. \A i \in 1 .. Len(t) : i \in 1 .. Len(s) /\ i # Len(s)
  BY <1>1, <1>3
<1>11. \A i \in 1 .. Len(t) : t[i] = s[i] /\ s[i] # f /\ p[s[i]] = frames[s[i]] /\ frames[s[i]].live
  <2> TAKE i \in 1 .. Len(t)
  <2>1. i \in 1 .. Len(s) /\ i # Len(s) /\ Len(s) \in 1 .. Len(s)
    BY <1>1, <1>10
  <2>2. s[i] # f /\ s[i] \in FrameIds
    BY <1>1, <1>2, <1>9, <2>1
  <2>3. frames[s[i]].live
    BY <2>1 DEF FramesOk, FramesOf
  <2> QED
    BY <1>3, <1>7, <2>2, <2>3
<1>12. FramesOf(p, t, mgr.link)
  <2>1. mgr.link \in FrameIds \cup {0} /\ (mgr.link # 0 => frames[mgr.link].mem /\ \A i \in 1 .. Len(s) : s[i] # mgr.link)
    BY DEF FramesOk, FramesOf
  <2>2. mgr.link # 0 => p[mgr.link].mem /\ \A i \in 1 .. Len(t) : t[i] # mgr.link
    BY <1>8, <1>10, <1>11, <2>1
  <2>3. \A i, j \in 1 .. Len(t) : i # j => t[i] # t[j]
    BY <1>9, <1>10, <1>11
  <2>4. \A i \in 1 .. Len(t) : p[t[i]].live
    BY <1>11
  <2>5. Len(t) <= 3
    BY <1>1, <1>3
  <2> QED
    BY <1>3, <1>7, <1>8, <2>1, <2>2, <2>3, <2>4, <2>5 DEF FramesOf
<1> QED
  BY <1>2, <1>3, <1>7, <1>11, <1>12 DEF f, t, p

(* A call that ends gives back all of its frames.                          *)
LEMMA DroppedFrames ==
  ASSUME FramesOk
  PROVE  FramesOf(Dropped, <<>>, mgr.link)
<1> DEFINE p == Dropped
           s == api.stack
           OnStack(f) == \E i \in 1 .. Len(s) : s[i] = f
<1>1. p = [f \in FrameIds |-> IF OnStack(f) THEN [frames[f] EXCEPT !.live = FALSE] ELSE frames[f]]
  BY DEF Dropped
<1>2. \A f \in FrameIds : LET x == [frames[f] EXCEPT !.live = FALSE]
                          IN FrameLike(x) /\ x.mem = frames[f].mem
  BY DEF FramesOk, FramesOf, FrameLike
<1>3. \A f \in FrameIds : FrameLike(frames[f])
  BY DEF FramesOk, FramesOf
<1> HIDE DEF OnStack, p
<1>4. p = [f \in FrameIds |-> p[f]] /\ \A f \in FrameIds : FrameLike(p[f]) /\ p[f].mem = frames[f].mem
  BY <1>1, <1>2, <1>3
<1>5. mgr.link \in FrameIds \cup {0} /\ (mgr.link # 0 => frames[mgr.link].mem)
  BY DEF FramesOk, FramesOf
<1>6. FramesOf(p, <<>>, mgr.link)
  BY <1>4, <1>5 DEF FramesOf
<1> QED
  BY <1>6 DEF p

(* What the callbacks of one message do: nothing, or one answer to one     *)
(* frame, if it still is one.                                              *)
LEMMA CalledBack ==
  ASSUME FramesOk
  PROVE  /\ nfc_jni_callback(<<>>) = frames
         /\ \A c, st : LET p == nfc_jni_callback(<< <<c, st>> >>)
                       IN /\ FramesOf(p, api.stack, mgr.link)
                          /\ \A g \in FrameIds : /\ p[g].live = frames[g].live /\ p[g].mem = frames[g].mem
                                                 /\ g # c => p[g] = frames[g]
                          /\ c \in FrameIds /\ frames[c].live =>
                               p[c].sem = frames[c].sem + 1 /\ p[c].st = st
<1>0. frames = [f \in FrameIds |-> frames[f]] /\ \A f \in FrameIds : FrameLike(frames[f])
  BY DEF FramesOk, FramesOf
<1>1. nfc_jni_callback(<<>>) = frames
  <2>1. \A f \in FrameIds : {i \in 1 .. Len(<<>>) : <<>>[i][1] = f} = {}
    OBVIOUS
  <2>2. nfc_jni_callback(<<>>) = [f \in FrameIds |-> frames[f]]
    BY <2>1 DEF nfc_jni_callback
  <2> QED
    BY <1>0, <2>2
<1>2. ASSUME NEW c, NEW st
      PROVE  LET p == nfc_jni_callback(<< <<c, st>> >>)
             IN /\ FramesOf(p, api.stack, mgr.link)
                /\ \A g \in FrameIds : /\ p[g].live = frames[g].live /\ p[g].mem = frames[g].mem
                                       /\ g # c => p[g] = frames[g]
                /\ c \in FrameIds /\ frames[c].live => p[c].sem = frames[c].sem + 1 /\ p[c].st = st
  <2> DEFINE posted == << <<c, st>> >>
             p == nfc_jni_callback(posted)
             x(f) == [frames[f] EXCEPT !.st = st, !.sem = @ + 1]
             Mine(f) == {i \in 1 .. Len(posted) : posted[i][1] = f}
  <2>1. \A f : Mine(f) = IF f = c THEN {1} ELSE {}
    OBVIOUS
  <2>2. posted[1][2] = st
    OBVIOUS
  <2>3. p = [f \in FrameIds |-> IF Mine(f) = {} \/ ~frames[f].live THEN frames[f]
                                ELSE [frames[f] EXCEPT !.st = posted[CHOOSE i \in Mine(f) : TRUE][2], !.sem = @ + 1]]
    BY DEF nfc_jni_callback
  <2> HIDE DEF posted, p, Mine
  <2>4. (CHOOSE i \in {1} : TRUE) = 1
    OBVIOUS
  <2>5. p = [f \in FrameIds |-> IF f # c \/ ~frames[f].live THEN frames[f] ELSE x(f)]
    <3>1. \A f \in FrameIds :
            (IF Mine(f) = {} \/ ~frames[f].live THEN frames[f]
             ELSE [frames[f] EXCEPT !.st = posted[CHOOSE i \in Mine(f) : TRUE][2], !.sem = @ + 1])
            = (IF f # c \/ ~frames[f].live THEN frames[f] ELSE x(f))
      BY <2>1, <2>2, <2>4
    <3> QED
      BY <2>3, <3>1
  <2>6. \A f \in FrameIds : FrameLike(x(f)) /\ x(f).live = frames[f].live /\ x(f).mem = frames[f].mem
                            /\ x(f).sem = frames[f].sem + 1 /\ x(f).st = st
    BY <1>0 DEF FrameLike
  <2> HIDE DEF x
  <2>7. /\ \A g \in FrameIds : /\ FrameLike(p[g]) /\ p[g].live = frames[g].live /\ p[g].mem = frames[g].mem
                               /\ g # c => p[g] = frames[g]
        /\ c \in FrameIds /\ frames[c].live => p[c].sem = frames[c].sem + 1 /\ p[c].st = st
    BY <1>0, <2>5, <2>6
  <2>8. p = [g \in FrameIds |-> p[g]]
    BY <2>5
  <2>9. FramesOf(p, api.stack, mgr.link)
    BY <2>7, <2>8 DEF FramesOk, FramesOf
  <2> QED
    BY <2>7, <2>9 DEF p, posted
<1> QED
  BY <1>1, <1>2

-------------------------------------------------------------------------------
(* The contexts of callbacks to come are those of the phase.               *)
LEMMA OwedBy ==
  ASSUME NEW v
  PROVE  /\ Settled(v) => Owed(v) \subseteq {0}
         /\ Opens(v) => Owed(v) \subseteq {v.lib.initCb, 0}
         /\ Closing(v) => Owed(v) \subseteq {v.lib.shutCb, 0}
         /\ Downloading(v) => Owed(v) \subseteq {v.lib.opCb}
         /\ \A f : Asked(v, f) => Owed(v) \subseteq {f}
<1>1. Shut(v) => Owed(v) \subseteq {0}
  BY DEF Shut, Owed, NoLib, ClosedHal
<1>2. Refused(v) => Owed(v) \subseteq {0}
  BY DEF Refused, Owed
<1>3. Idle(v) => Owed(v) \subseteq {0}
  BY DEF Idle, Ready, Owed
<1>4. Broken(v) => Owed(v) \subseteq {0}
  BY DEF Broken, Owed
<1>5. Opens(v) => Owed(v) \subseteq {v.lib.initCb, 0}
  BY DEF Opens, Opening, Owed
<1>6. Closing(v) => Owed(v) \subseteq {v.lib.shutCb, 0}
  BY DEF Closing, Owed
<1>7. Downloading(v) => Owed(v) \subseteq {v.lib.opCb}
  BY DEF Downloading, Owed
<1>8. ASSUME NEW f, Asked(v, f)
      PROVE  Owed(v) \subseteq {f}
  BY <1>8 DEF Asked, Ready, Owed
<1> QED
  BY <1>1, <1>2, <1>3, <1>4, <1>5, <1>6, <1>7, <1>8 DEF Settled

(* Nothing ends in two ways: the phases exclude one another where it       *)
(* matters.                                                                *)
LEMMA PhaseIsOne ==
  ASSUME NEW v
  PROVE  /\ Settled(v) => v.hal.hci # "init" /\ v.hal.hci # "download"
         /\ Opens(v) => v.hal.hci = "init"
         /\ Closing(v) => v.hal.hci = "release" /\ v.lib.ctx /\ v.lib.next = "Shutdown"
         /\ Shut(v) => ~v.lib.ctx /\ v.hal.hci = "none" /\ v.lib.cur = "Shutdown"
         /\ Idle(v) => v.lib.ctx /\ v.lib.next = "Invalid" /\ Up_(v)
  BY DEF Settled, Shut, Refused, Idle, Ready, Up_, Broken, Opens, Opening, Closing, NoLib, ClosedHal

(* What is on its way finds the frame of the call that waits for it.       *)
LEMMA FindsFrame ==
  ASSUME JniOk
  PROVE  CallbackFindsFrame
<1> DEFINE OnStack(f) == \E i \in 1 .. Len(api.stack) : api.stack[i] = f
<1>1. InFlight = Owed(w) \cup {mgr.link}
  BY DEF InFlight, Owed
<1>2. \A f : OnStack(f) => frames[f].live
  BY DEF JniOk, FramesOk, FramesOf
<1>3. \/ mgr.late
      \/ \A f \in Owed(w) : f = 0 \/ OnStack(f)
  <2> USE OwedBy DEF JniOk
  <2>1. Rests => mgr.late \/ Owed(w) \subseteq {0}
    BY DEF Rests
  <2>2. Len(api.stack) > 0 => OnStack(Top)
    BY DEF Top, FramesOk, FramesOf
  <2>3. Waits1 /\ Len(api.stack) = 1 => \A f \in Owed(w) : f = 0 \/ OnStack(f)
    BY <2>2 DEF Waits1, Settled
  <2>4. Len(api.stack) > 1 => OnStack(api.stack[2])
    BY DEF FramesOk, FramesOf
  <2>5. Len(api.stack) > 0 => OnStack(api.stack[1])
    BY DEF FramesOk, FramesOf
  <2> HIDE DEF OnStack
  <2>6. CASE api.pc \in {"none", "hw", "init", "dl", "dlEnd", "eeprom", "recovery"}
    BY <2>1, <2>6 DEF PcOk, AtNone, AtHw, AtInit, AtDl, AtDlEnd, AtEeprom, AtRecovery
  <2>7. CASE api.pc \in {"caps", "se", "llcp", "ntf", "stop", "start", "unconfigure", "dlInit"}
    BY <2>7 DEF PcOk, AtCaps, AtAsk, AtDiscovery, AtUnconfigure, AtDlInit, Settled
  <2>8. CASE api.pc \in {"eepromWait", "seWait", "llcpWait", "stopWait", "startWait", "checkWait"}
    BY <2>3, <2>8 DEF PcOk, AtAskedWait, AtDiscoveryWait
  <2>9. CASE api.pc = "initWait"
    BY <2>5, <2>9 DEF PcOk, AtInitWait, Settled
  <2>10. CASE api.pc = "dlDeinitWait"
    BY <2>4, <2>10 DEF PcOk, AtDlDeinitWait, Within
  <2>11. CASE api.pc \in {"pd", "pdEnd"}
    BY <2>1, <2>11 DEF PcOk, AtPd, AtPdEnd, Settled
  <2>12. CASE api.pc = "pdWait"
    <3>1. AtPdWait
      BY <2>12 DEF PcOk
    <3> HIDE OwedBy DEF JniOk
    <3>2. OnStack(Top)
      <4>1. Len(api.stack) = 3 \/ Len(api.stack) = 1
        BY <3>1 DEF AtPdWait, Within
      <4>2. Len(api.stack) > 0
        BY <4>1
      <4> QED
        BY <2>2, <4>2
    <3>3. Owed(w) \subseteq {Top} \/ Owed(w) \subseteq {0}
      BY <3>1, OwedBy DEF AtPdWait, Settled
    <3> QED
      BY <3>2, <3>3
  <2>13. CASE api.pc = "dlInitWait"
    BY <2>2, <2>13 DEF PcOk, AtDlInitWait, Within, Settled
  <2>14. CASE api.pc = "deinitWait"
    <3>1. AtDeinitWait
      BY <2>14 DEF PcOk
    <3>2. OnStack(Top)
      BY <2>2, <3>1 DEF AtDeinitWait
    <3>3. Owed(w) \subseteq {Top, 0}
      BY <3>1 DEF AtDeinitWait, Settled
    <3> QED
      BY <3>2, <3>3
  <2> QED
    BY <2>6, <2>7, <2>8, <2>9, <2>10, <2>11, <2>12, <2>13, <2>14 DEF PcOk, Pcs
<1> QED
  BY <1>1, <1>2, <1>3 DEF CallbackFindsFrame, JniOk, FramesOk, FramesOf

-------------------------------------------------------------------------------
(* The queue: only kill_client puts "kill" into it.                        *)
KillAfter(m) == q' \in Seq(Msgs) /\ (KillPending' => KillPending \/ m = "kill")

(* A message more leaves a queue of messages.                              *)
LEMMA QueueAppended ==
  ASSUME q \in Seq(Msgs), NEW m \in Msgs, q' = Append(q, m)
  PROVE  KillAfter(m)
<1>1. q' \in Seq(Msgs) /\ Len(q') = Len(q) + 1 /\ q'[Len(q) + 1] = m /\ Len(q) \in Nat
  OBVIOUS
<1>2. \A i \in 1 .. Len(q) : q'[i] = q[i]
  OBVIOUS
<1>3. ASSUME NEW i \in 1 .. Len(q'), q'[i] = "kill"
      PROVE  KillPending \/ m = "kill"
  <2>1. i = Len(q) + 1 \/ i \in 1 .. Len(q)
    BY <1>1
  <2> QED
    BY <1>1, <1>2, <1>3, <2>1 DEF KillPending
<1> QED
  BY <1>1, <1>3 DEF KillAfter, KillPending

(* kill_client leaves a queue of messages.                                 *)
LEMMA QueueKilled ==
  ASSUME q \in Seq(Msgs), q' = kill_client
  PROVE  q' \in Seq(Msgs)
<1>1. "kill" \in Msgs
  BY DEF Msgs
<1> QED
  BY <1>1 DEF kill_client

(* The queue of a driver configured anew holds no kill.                    *)
LEMMA QueueEmptied ==
  ASSUME q' = <<>>
  PROVE  q' \in Seq(Msgs) /\ ~KillPending'
  BY DEF KillPending

(* A message taken was one of the messages, and adds no kill.              *)
LEMMA QueueTaken ==
  ASSUME q \in Seq(Msgs), q # <<>>, q' = Tail(q)
  PROVE  Head(q) \in Msgs /\ q' \in Seq(Msgs) /\ (Head(q) = "kill" => KillPending) /\ (KillPending' => KillPending)
<1>1. Len(q) \in Nat /\ Len(q) > 0 /\ Head(q) = q[1] /\ q[1] \in Msgs /\ q' \in Seq(Msgs)
  OBVIOUS
<1>2. Len(q') = Len(q) - 1 /\ \A i \in 1 .. Len(q') : q'[i] = q[i + 1]
  OBVIOUS
<1>3. ASSUME NEW i \in 1 .. Len(q'), q'[i] = "kill"
      PROVE  KillPending
  <2>1. i + 1 \in 1 .. Len(q) /\ q[i + 1] = "kill"
    BY <1>1, <1>2, <1>3
  <2> QED
    BY <2>1 DEF KillPending
<1>4. 1 \in 1 .. Len(q)
  BY <1>1
<1> QED
  BY <1>1, <1>3, <1>4 DEF KillPending

(* A step of this file that the invariant survives.                        *)
Survives == Typed' /\ JniOk' /\ UNCHANGED user /\ w'.aborted = w.aborted
(* Every failure of initialize leaves the frames to nobody.                *)
LEMMA FailedInit ==
  ASSUME Typed, FramesOk, InitFails, WorldOk(w'), Quiet(w'), mgr.late \/ Settled(w')
  PROVE  Typed' /\ JniOk'
<1>1. api' = NoCall /\ mgr' = [mgr EXCEPT !.service = "failed"] /\ frames' = Dropped /\ q' = kill_client
  BY DEF InitFails, Ends
<1>2. q' \in Seq(Msgs)
  BY <1>1, QueueKilled DEF Typed
<1>3. DOMAIN mgr' = MgrFields /\ mgr'.service = "failed" /\ mgr'.late = mgr.late /\ mgr'.link = mgr.link
  BY <1>1 DEF Typed, MgrFields
<1>4. DOMAIN api' = ApiFields /\ api'.stack = <<>> /\ api'.pc = "none"
  BY <1>1 DEF NoCall, ApiFields
<1>5. FramesOk'
  BY <1>1, <1>3, <1>4, DroppedFrames DEF FramesOk
<1>6. ClientOk'
  BY <1>3, <1>4 DEF ClientOk
<1>7. PcOk'
  <2>1. AtNone'
    BY <1>1, <1>3 DEF AtNone, Rests
  <2> QED
    BY <1>4, <2>1 DEF PcOk, Pcs
<1> QED
  BY <1>2, <1>3, <1>4, <1>5, <1>6, <1>7 DEF Typed, JniOk

(* Another round of the download: the second frame is given back.          *)
LEMMA TriesAgain ==
  ASSUME Typed, FramesOk, ClientOk, Within(2), api.pc # "none", mgr.service \in {"on", "off", "failed"}, NextTry,
         WorldOk(w'), Quiet(w'), mgr.late \/ Settled(w'), api.stack[1] \notin Owed(w')
  PROVE  Typed' /\ JniOk'
<1>1. CASE api.tries < 2
  <2>1. api' = [api EXCEPT !.stack = Left, !.pc = "dl", !.update = FALSE, !.tries = @ + 1]
        /\ frames' = Popped /\ mgr' = mgr /\ q' = q
    BY <1>1 DEF NextTry
  <2>2. /\ api'.stack = Left /\ api'.pc = "dl" /\ ~api'.update /\ api'.call = api.call /\ DOMAIN api' = ApiFields
    BY <2>1 DEF Typed, ApiFields
  <2>3. Len(api.stack) = 2
    BY DEF Within
  <2>4. FramesOk'
    BY <2>1, <2>2, <2>3, LeftFrame DEF FramesOk
  <2>5. Len(Left) = 1 /\ Left[1] = api.stack[1] /\ Popped[api.stack[1]] = frames[api.stack[1]]
    <3>1. Len(Left) = 1
      BY <2>3, LeftFrame
    <3>2. 1 \in 1 .. Len(Left)
      BY <3>1
    <3> QED
      BY <2>3, <3>1, <3>2, LeftFrame
  <2>6. KillPending' = KillPending
    BY <2>1 DEF KillPending
  <2> HIDE DEF Left, Popped
  <2>7. Len(api'.stack) = 1 /\ api'.stack[1] = api.stack[1] /\ frames'[api'.stack[1]] = frames[api.stack[1]]
    BY <2>1, <2>2, <2>5
  <2>8. ClientOk'
    <3>1. \A i \in 1 .. Len(api'.stack) : i = 1
      BY <2>7
    <3>2. frames[api.stack[1]].sem > 0 => mgr.client
      BY <2>3 DEF ClientOk
    <3>3. \A i \in 1 .. Len(api'.stack) : frames'[api'.stack[i]].sem > 0 => mgr'.client
      BY <2>1, <2>7, <3>1, <3>2
    <3> QED
      BY <2>1, <2>2, <2>6, <3>3 DEF ClientOk
  <2>9. AtDl'
    BY <2>1, <2>2, <2>3, <2>7 DEF AtDl, Within, Starting, Sem, Rests
  <2> QED
    BY <2>1, <2>2, <2>4, <2>8, <2>9 DEF Typed, JniOk, PcOk, Pcs
<1>2. CASE ~(api.tries < 2)
  BY <1>2, FailedInit DEF NextTry
<1> QED
  BY <1>1, <1>2
-------------------------------------------------------------------------------
(* initialize enters its frame.                                            *)
LEMMA InitializeSurvives ==
  ASSUME Jni, Typed, JniOk, initialize
  PROVE  Survives
<1>1. api.pc = "none" /\ api = NoCall /\ ~KillPending /\ Unused # {} /\ mgr.service # "on" /\ AtNone
  BY DEF initialize, Start, JniOk, PcOk, NoCall
<1>2. UNCHANGED <<w, q, mgr, user>> /\ frames' = Pushed
  BY DEF initialize
<1>3. api.stack = <<>>
  BY <1>1 DEF NoCall
<1>4. FramesOk /\ Len(api.stack) <= 2
  BY <1>3 DEF JniOk
<1> DEFINE f == FreshFrame
<1>5. /\ api'.stack = Append(api.stack, f) /\ api'.pc = "hw" /\ api'.call = "initialize"
      /\ DOMAIN api' = ApiFields
  BY DEF initialize, Enter, Typed, ApiFields
<1>6. FramesOk' /\ Len(api'.stack) = 1 /\ api'.stack[1] = f /\ f \notin Owed(w) /\ frames'[f].sem = 0
  BY <1>1, <1>2, <1>3, <1>4, <1>5, Entered DEF FramesOk
<1> HIDE DEF f
<1>7. ClientOk'
  BY <1>1, <1>2, <1>5, <1>6 DEF JniOk, ClientOk, KillPending
<1>8. AtHw'
  BY <1>1, <1>2, <1>5, <1>6 DEF AtHw, AtNone, Rests, Sem
<1> QED
  BY <1>2, <1>5, <1>6, <1>7, <1>8 DEF Survives, Typed, JniOk, PcOk, Pcs

(* The hardware module and the driver.                                     *)
LEMMA InitHwSurvives ==
  ASSUME Jni, Typed, JniOk, InitHw
  PROVE  Survives
<1>1. api.pc = "hw" /\ AtHw /\ w' = w /\ user' = user
  BY DEF InitHw, At, JniOk, PcOk
<1>2. CASE InitFails
  <2>1. Typed' /\ JniOk'
    BY <1>1, <1>2, FailedInit DEF JniOk, AtHw, Rests
  <2> QED
    BY <1>1, <2>1 DEF Survives
<1>3. CASE ~InitFails
  <2> DEFINE configured == IF mgr.configured THEN mgr ELSE nfc_jni_configure_driver
  <2>1. /\ mgr' = [configured EXCEPT !.connected = FALSE, !.stored = 0]
        /\ q' = IF mgr.configured THEN q ELSE <<>>
        /\ api' = [api EXCEPT !.pc = "init"] /\ frames' = frames
    BY <1>3 DEF InitHw, Goto
  <2>2. DOMAIN configured = MgrFields /\ configured.configured /\ configured.service = mgr.service
        /\ configured.late = mgr.late /\ configured.link = mgr.link
        /\ configured.client = (IF mgr.configured THEN mgr.client ELSE TRUE)
    BY <1>1 DEF nfc_jni_configure_driver, Typed, MgrFields, AtHw, JniOk, ClientOk
  <2> HIDE DEF configured
  <2>3. DOMAIN mgr' = MgrFields /\ mgr'.configured /\ mgr'.service = mgr.service
        /\ mgr'.late = mgr.late /\ mgr'.link = mgr.link
        /\ mgr'.client = (IF mgr.configured THEN mgr.client ELSE TRUE)
    BY <2>1, <2>2 DEF MgrFields
  <2>4. api'.pc = "init" /\ api'.stack = api.stack /\ api'.call = api.call /\ DOMAIN api' = ApiFields
    BY <2>1 DEF Typed, ApiFields
  <2>5. q' \in Seq(Msgs) /\ (KillPending' => KillPending)
    BY <2>1, QueueEmptied DEF KillPending, Typed
  <2>6. FramesOk'
    BY <2>1, <2>3, <2>4 DEF JniOk, FramesOk
  <2>7. ClientOk'
    BY <1>1, <2>1, <2>3, <2>4, <2>5 DEF AtHw, ClientOk, JniOk
  <2>8. AtInit'
    BY <1>1, <2>1, <2>3, <2>4 DEF AtInit, AtHw, Within, Starting, Rests, Sem
  <2> QED
    BY <1>1, <2>3, <2>4, <2>5, <2>6, <2>7, <2>8 DEF Survives, Typed, JniOk, PcOk, Pcs
<1> QED
  BY <1>2, <1>3

(* A step within a call that leaves the frames and the client thread alone.*)
LEMMA FramesKept ==
  ASSUME FramesOk, ClientOk, api.pc # "none", UNCHANGED <<q, frames, mgr>>, api'.stack = api.stack
  PROVE  FramesOk' /\ ClientOk'
<1>1. KillPending' = KillPending
  BY DEF KillPending
<1> QED
  BY <1>1 DEF FramesOk, ClientOk

(* Mgt_Initialize of an initialisation.                                    *)
LEMMA JniInitializeSurvives ==
  ASSUME Jni, Typed, JniOk, nfc_jni_initialize
  PROVE  Survives
<1>1. api.pc = "init" /\ AtInit /\ UNCHANGED <<q, frames, mgr, user>>
  BY DEF nfc_jni_initialize, At, JniOk, PcOk
<1>2. PICK fault \in {"none", "memory", "hci"} :
        LET r == phLibNfc_Mgt_Initialize(w, Top, fault)
        IN /\ w' = r.w
           /\ api' = IF r.st = "PENDING" THEN [api EXCEPT !.pc = "initWait"]
                     ELSE [api EXCEPT !.pc = "dl", !.update = FALSE, !.tries = 0]
  BY DEF nfc_jni_initialize
<1> DEFINE r == phLibNfc_Mgt_Initialize(w, Top, fault)
<1>3. w' = r.w /\ api' = IF r.st = "PENDING" THEN [api EXCEPT !.pc = "initWait"]
                         ELSE [api EXCEPT !.pc = "dl", !.update = FALSE, !.tries = 0]
  BY <1>2
<1>4. WorldLike(w) /\ w.posted = <<>> /\ ~w.hal.used /\ WorldOk(w) /\ FramesOk /\ ClientOk
  BY DEF JniOk, WorldOk
<1>5. Shut(w) \/ w.lib.ctx
  BY <1>4 DEF WorldOk, Refused, Opening, Downloading, Up_
<1>6. /\ r.st = "PENDING" =>
           /\ Shut(w) /\ Opening(r.w) /\ r.w.hal.next = "OpenAndReady"
           /\ WorldLike(r.w) /\ SameRest(w, r.w) /\ ~r.w.hal.used
           /\ r.w.lib.initCb = Top
      /\ r.st # "PENDING" =>
           r.w = w \/ (Refused(r.w) /\ WorldLike(r.w) /\ SameRest(w, r.w) /\ ~r.w.hal.used)
  BY <1>4, <1>5, InitializePhase
<1> HIDE DEF r
<1>7. WorldOk(w') /\ w'.aborted = w.aborted
  BY <1>3, <1>4, <1>6 DEF WorldOk, SameRest
<1>8. api'.stack = api.stack /\ api'.call = api.call /\ DOMAIN api' = ApiFields
  BY <1>3 DEF Typed, ApiFields
<1>9. Typed' /\ FramesOk' /\ ClientOk'
  BY <1>1, <1>4, <1>8, FramesKept DEF Typed
<1>10. Top = api.stack[1] /\ Len(api.stack) = 1
  BY <1>1 DEF Top, AtInit, Within
<1>11. PcOk'
  <2>1. CASE r.st = "PENDING"
    <3>1. api'.pc = "initWait"
      BY <1>3, <2>1 DEF Typed, ApiFields
    <3>2. Opens(w') /\ w'.lib.initCb = api.stack[1]
      BY <1>3, <1>6, <1>10, <2>1 DEF Opens
    <3>3. AtInitWait'
      BY <1>1, <1>8, <1>10, <3>2 DEF AtInit, AtInitWait, Within, Starting, Sem
    <3> QED
      BY <3>1, <3>3 DEF PcOk, Pcs
  <2>2. CASE r.st # "PENDING"
    <3>1. api'.pc = "dl" /\ ~api'.update
      BY <1>3, <2>2 DEF Typed, ApiFields
    <3>2. w' = w \/ Refused(w')
      BY <1>3, <1>6, <2>2
    <3>3. Rests'
      BY <1>1, <3>2 DEF AtInit, Rests, Quiet, Settled
    <3>4. api.stack[1] \in FrameIds /\ api.stack[1] # 0
      BY <1>4, <1>10, ConstantsAssumption DEF FramesOk, FramesOf
    <3>5. api.stack[1] \notin Owed(w')
      <4>1. Refused(w') => Owed(w') \subseteq {0}
        BY OwedBy DEF Settled
      <4> QED
        BY <1>1, <3>2, <3>4, <4>1 DEF AtInit, Within
    <3>6. AtDl'
      BY <1>1, <1>8, <3>1, <3>3, <3>5 DEF AtInit, AtDl, Within, Starting, Sem
    <3> QED
      BY <3>1, <3>6 DEF PcOk, Pcs
  <2> QED
    BY <2>1, <2>2
<1> QED
  BY <1>1, <1>7, <1>9, <1>11 DEF Survives, JniOk

(* The answer to it.                                                       *)
LEMMA InitWaitSurvives ==
  ASSUME Jni, Typed, JniOk, InitWait
  PROVE  Survives
<1>1. api.pc = "initWait" /\ AtInitWait /\ UNCHANGED <<w, q, mgr, user>> /\ Answered /\ frames' = Taken
  BY DEF InitWait, At, JniOk, PcOk
<1>2. api' = IF Good THEN [api EXCEPT !.pc = "caps"]
             ELSE [api EXCEPT !.pc = "dl", !.update = FALSE, !.tries = 0]
  BY DEF InitWait
<1>3. /\ api'.stack = api.stack /\ api'.call = api.call /\ DOMAIN api' = ApiFields
      /\ api'.pc = (IF Good THEN "caps" ELSE "dl") /\ (~Good => ~api'.update)
  BY <1>2 DEF Typed, ApiFields
<1>4. FramesOk /\ ClientOk /\ WorldOk(w) /\ Len(api.stack) = 1
  BY <1>1 DEF JniOk, AtInitWait
<1>5. /\ FramesOk' /\ Top = api.stack[1] /\ Top \in FrameIds
      /\ frames'[Top].sem = frames[Top].sem - 1
  BY <1>1, <1>3, <1>4, TakenFrame DEF FramesOk, Top
<1>6. Sem(1) = 1 /\ (Idle(w) \/ (Shut(w) /\ ~Good))
  BY <1>1, <1>4, <1>5 DEF AtInitWait, Answered, Top, Sem
<1>7. frames'[api'.stack[1]].sem = 0 /\ mgr.client
  BY <1>3, <1>4, <1>5, <1>6 DEF Sem, ClientOk
<1>8. api.stack[1] \notin Owed(w)
  BY <1>5, <1>6, OwedBy, ConstantsAssumption DEF Settled
<1>9. Typed' /\ ClientOk'
  BY <1>1, <1>3, <1>4, <1>7 DEF Typed, ClientOk, KillPending
<1>10. Within(1)'
  BY <1>1, <1>3, <1>4, <1>7, <1>8 DEF Within, AtInitWait, Starting, Sem
<1>11. Settled(w) /\ Rests'
  BY <1>1, <1>6 DEF Rests, Settled, Quiet
<1>12. PcOk'
  <2>1. CASE Good
    <3>1. AtCaps' /\ api'.pc = "caps"
      BY <1>1, <1>3, <1>6, <1>7, <1>10, <2>1 DEF AtCaps
    <3> QED
      BY <3>1 DEF PcOk, Pcs
  <2>2. CASE ~Good
    <3>1. AtDl' /\ api'.pc = "dl"
      BY <1>1, <1>3, <1>10, <1>11, <2>2 DEF AtDl
    <3> QED
      BY <3>1 DEF PcOk, Pcs
  <2> QED
    BY <2>1, <2>2
<1> QED
  BY <1>1, <1>4, <1>5, <1>9, <1>12 DEF Survives, JniOk

(* The chip's capabilities.                                                *)
LEMMA InitCapsSurvives ==
  ASSUME Jni, Typed, JniOk, InitCaps
  PROVE  Survives
<1>1. api.pc = "caps" /\ AtCaps /\ UNCHANGED <<w, q, frames, mgr, user>>
  BY DEF InitCaps, At, JniOk, PcOk
<1>2. \/ api' = [api EXCEPT !.pc = "dl", !.update = TRUE, !.tries = 0]
      \/ api' = [api EXCEPT !.pc = "eeprom", !.left = Settings[fw.type]]
  BY DEF InitCaps
<1>3. /\ api'.stack = api.stack /\ api'.call = api.call /\ DOMAIN api' = ApiFields
      /\ api'.pc \in {"dl", "eeprom"}
  BY <1>2 DEF Typed, ApiFields
<1>4. Typed' /\ FramesOk' /\ ClientOk' /\ WorldOk(w)
  BY <1>1, <1>3, FramesKept DEF JniOk, Typed
<1>5. Within(1)' /\ Rests' /\ mgr'.client /\ Idle(w')
  BY <1>1, <1>3 DEF AtCaps, Within, Starting, Sem, Rests, Quiet, Settled
<1>6. AtDl' /\ AtEeprom'
  BY <1>5 DEF AtDl, AtEeprom
<1>7. PcOk'
  BY <1>3, <1>6 DEF PcOk, Pcs
<1> QED
  BY <1>1, <1>4, <1>7 DEF Survives, JniOk

(* A refused request leaves an idle library idle.                          *)
LEMMA StaysIdle ==
  ASSUME NEW v, Idle(v), NEW n, Up_(n), n.lib = v.lib,
         n.hal.cur = v.hal.cur, n.hal.next = v.hal.next, n.hal.hci = v.hal.hci
  PROVE  Idle(n)
  BY DEF Idle, Ready

(* A shutdown asked of an idle library is under way, or it stays idle.     *)
LEMMA IdleCloses ==
  ASSUME WorldOk(w), Idle(w), NEW c \in Nat \ {0}, NEW refused \in BOOLEAN
  PROVE  LET r == phLibNfc_Mgt_DeInitialize(w, c, refused)
         IN /\ WorldOk(r.w) /\ r.w.aborted = w.aborted
            /\ IF r.st = "PENDING" THEN Closing(r.w) /\ r.w.lib.shutCb = c ELSE Idle(r.w)
<1>1. WorldLike(w) /\ ~w.hal.used /\ Up_(w) /\ w.posted = <<>> /\ w.lib.cur # "Shutdown" /\ ~w.lib.gen /\ w.lib.opCb = 0
  BY DEF WorldOk, Idle, Ready, Up_
<1>2. phLibNfc_Mgt_DeInitialize(w, c, refused) = CloseNowOrLater(w, c, refused)
  BY <1>1, DeInitializePhase
<1> DEFINE r == CloseNowOrLater(w, c, refused)
<1>3. /\ WorldLike(r.w) /\ SameRest(w, r.w) /\ ~r.w.hal.used /\ Up_(r.w)
      /\ r.w.lib.initCb = w.lib.initCb /\ r.w.lib.opCb = w.lib.opCb
      /\ r.st = "PENDING" =>
           /\ r.w.lib.shutCb = c /\ r.w.lib.gen /\ r.w.lib.next = "Shutdown"
           /\ r.w.hal.hci = "release" /\ r.w.hal.next = "Closed"
      /\ r.st # "PENDING" =>
           /\ r.w.lib = w.lib /\ r.w.hal.cur = w.hal.cur /\ r.w.hal.next = w.hal.next
           /\ r.w.hal.hci = w.hal.hci
  BY <1>1, ClosePhase
<1> HIDE DEF r
<1>4. WorldOk(r.w) /\ r.w.aborted = w.aborted
  BY <1>1, <1>3 DEF WorldOk, SameRest
<1>5. r.st = "PENDING" => Closing(r.w) /\ r.w.lib.shutCb = c
  BY <1>1, <1>3 DEF Closing
<1>6. r.st # "PENDING" => Idle(r.w)
  BY <1>3, StaysIdle
<1> QED
  BY <1>2, <1>4, <1>5, <1>6 DEF r
-------------------------------------------------------------------------------
(* A round of nfc_jni_download_locked begins.                              *)
LEMMA DownloadLockedSurvives ==
  ASSUME Jni, Typed, JniOk, nfc_jni_download_locked
  PROVE  Survives
<1> DEFINE f == FreshFrame
<1>1. api.pc = "dl" /\ AtDl /\ UNCHANGED <<q, mgr, user>> /\ Unused # {} /\ frames' = Pushed
  BY DEF nfc_jni_download_locked, At, JniOk, PcOk
<1>2. FramesOk /\ ClientOk /\ WorldOk(w) /\ Len(api.stack) = 1
  BY <1>1 DEF JniOk, AtDl, Within
<1>3. \/ /\ api.update /\ api' = Enter("dlDeinitWait")
         /\ \E refused \in BOOLEAN : w' = phLibNfc_Mgt_DeInitialize(w, f, refused).w
      \/ ~api.update /\ api' = Enter("pd") /\ w' = w
  BY DEF nfc_jni_download_locked
<1>4. /\ api'.stack = Append(api.stack, f) /\ api'.call = api.call /\ DOMAIN api' = ApiFields
      /\ api'.pc = IF api.update THEN "dlDeinitWait" ELSE "pd"
  BY <1>3 DEF Enter, Typed, ApiFields
<1>5. 1 \in 1 .. Len(api.stack)
  BY <1>2
<1>6. /\ FramesOk' /\ Len(api'.stack) = 2 /\ api'.stack[2] = f /\ f \notin Owed(w) /\ frames'[f].sem = 0
      /\ api'.stack[1] = api.stack[1] /\ f # api.stack[1] /\ frames'[api.stack[1]] = frames[api.stack[1]]
      /\ f \in Nat \ {0}
  <2>1. Len(api.stack) <= 2
    BY <1>2
  <2>2. api.stack[1] \in FrameIds
    BY <1>2, <1>5 DEF FramesOk, FramesOf
  <2> QED
    BY <1>1, <1>2, <1>4, <1>5, <2>1, <2>2, Entered DEF FramesOk
<1> HIDE DEF f
<1>7. \/ /\ api.update /\ WorldOk(w') /\ w'.aborted = w.aborted
         /\ (Closing(w') /\ w'.lib.shutCb = f) \/ Idle(w')
      \/ ~api.update /\ w' = w
  <2>1. CASE api.update
    <3>1. Idle(w)
      BY <1>1, <2>1 DEF AtDl
    <3>2. PICK refused \in BOOLEAN : w' = phLibNfc_Mgt_DeInitialize(w, f, refused).w
      BY <1>3, <2>1
    <3> QED
      BY <1>2, <1>6, <2>1, <3>1, <3>2, IdleCloses
  <2> QED
    BY <1>3, <2>1
<1>8. api.stack[1] \in FrameIds /\ api.stack[1] # 0
  BY <1>2, <1>5, ConstantsAssumption DEF FramesOk, FramesOf
<1>9. api.stack[1] \notin Owed(w')
  <2>1. Closing(w') => Owed(w') \subseteq {w'.lib.shutCb, 0}
    BY OwedBy
  <2>2. Idle(w') => Owed(w') \subseteq {0}
    BY OwedBy DEF Settled
  <2> QED
    BY <1>1, <1>6, <1>7, <1>8, <2>1, <2>2 DEF AtDl, Within
<1>10. Within(2)'
  BY <1>1, <1>4, <1>6, <1>9 DEF AtDl, Within, Starting, Sem
<1>11. ClientOk'
  <2>1. \A i \in 1 .. Len(api'.stack) : i = 1 \/ i = 2
    BY <1>6
  <2>2. frames'[api'.stack[1]].sem = 0 /\ frames'[api'.stack[2]].sem = 0
    BY <1>1, <1>6 DEF AtDl, Within, Sem
  <2>3. \A i \in 1 .. Len(api'.stack) : frames'[api'.stack[i]].sem = 0
    BY <2>1, <2>2
  <2> QED
    BY <1>1, <1>2, <2>3 DEF ClientOk, KillPending
<1>12. PcOk'
  <2>1. CASE api.update
    <3>1. AtDlDeinitWait'
      BY <1>6, <1>7, <1>10, <2>1 DEF AtDlDeinitWait, Quiet, Settled, Sem
    <3> QED
      BY <1>4, <2>1, <3>1 DEF PcOk, Pcs
  <2>2. CASE ~api.update
    <3>1. AtPd'
      BY <1>1, <1>6, <1>7, <1>10, <2>2 DEF AtPd, AtDl, Rests, SecondRests, Sem
    <3> QED
      BY <1>4, <2>2, <3>1 DEF PcOk, Pcs
  <2> QED
    BY <2>1, <2>2
<1> QED
  BY <1>1, <1>2, <1>4, <1>6, <1>7, <1>11, <1>12 DEF Survives, JniOk, Typed

(* The frames of a call that has entered some.                             *)
LEMMA TheirFrames ==
  ASSUME FramesOk
  PROVE  /\ \A i \in 1 .. Len(api.stack) : api.stack[i] \in FrameIds /\ api.stack[i] # 0
         /\ Len(api.stack) = 1 => Top = api.stack[1]
         /\ Len(api.stack) = 2 => Top = api.stack[2] /\ api.stack[2] # api.stack[1]
         /\ Len(api.stack) = 3 => Top = api.stack[3] /\ api.stack[2] # api.stack[1]
                                  /\ Top # api.stack[1] /\ Top # api.stack[2]
<1>1. \A i \in 1 .. Len(api.stack) : api.stack[i] \in FrameIds /\ api.stack[i] # 0
  BY ConstantsAssumption DEF FramesOk, FramesOf
<1>2. \A i, j \in 1 .. Len(api.stack) : i # j => api.stack[i] # api.stack[j]
  BY DEF FramesOk, FramesOf
<1>3. ASSUME Len(api.stack) = 2
      PROVE  Top = api.stack[2] /\ api.stack[2] # api.stack[1]
  <2>1. 1 \in 1 .. Len(api.stack) /\ 2 \in 1 .. Len(api.stack)
    BY <1>3
  <2> QED
    BY <1>2, <1>3, <2>1 DEF Top
<1>4. ASSUME Len(api.stack) = 3
      PROVE  Top = api.stack[3] /\ api.stack[2] # api.stack[1] /\ Top # api.stack[1] /\ Top # api.stack[2]
  <2>1. 1 \in 1 .. Len(api.stack) /\ 2 \in 1 .. Len(api.stack) /\ 3 \in 1 .. Len(api.stack)
    BY <1>4
  <2> QED
    BY <1>2, <1>4, <2>1 DEF Top
<1> QED
  BY <1>1, <1>3, <1>4 DEF Top

(* A timed or a plain wait that takes what was posted.                     *)
LEMMA SemTaken ==
  ASSUME FramesOk, ClientOk, Len(api.stack) > 0, Answered, frames' = Taken, api'.stack = api.stack, UNCHANGED mgr
  PROVE  /\ FramesOk' /\ frames'[Top].sem = frames[Top].sem - 1 /\ mgr.client
         /\ \A g \in FrameIds : g # Top => frames'[g] = frames[g]
         /\ \A i \in 1 .. Len(api'.stack) : frames'[api'.stack[i]].sem > 0 => mgr'.client
<1>1. FramesOk' /\ frames'[Top].sem = frames[Top].sem - 1 /\ \A g \in FrameIds : g # Top => frames'[g] = frames[g]
  BY TakenFrame DEF FramesOk
<1>2. Len(api.stack) \in 1 .. Len(api.stack)
  BY DEF FramesOk, FramesOf
<1>3. mgr.client
  BY <1>2 DEF ClientOk, Answered, Top
<1> QED
  BY <1>1, <1>3

(* The end of the deinitialisation's wait.                                 *)
LEMMA DlDeinitWaitSurvives ==
  ASSUME Jni, Typed, JniOk, DlDeinitWait
  PROVE  Survives
<1>1. api.pc = "dlDeinitWait" /\ AtDlDeinitWait /\ UNCHANGED <<w, q, user>> /\ api' = [api EXCEPT !.pc = "pd"]
  BY DEF DlDeinitWait, At, Goto, JniOk, PcOk
<1>2. FramesOk /\ ClientOk /\ WorldOk(w) /\ Len(api.stack) = 2 /\ Quiet(w)
  BY <1>1 DEF JniOk, AtDlDeinitWait, Within
<1>3. 1 \in 1 .. Len(api.stack) /\ 2 \in 1 .. Len(api.stack)
  BY <1>2
<1>4. Top = api.stack[2] /\ api.stack[1] # Top /\ api.stack[1] \in FrameIds /\ Top \in FrameIds /\ Top # 0
  BY <1>2, <1>3, TheirFrames
<1>5. api'.pc = "pd" /\ api'.stack = api.stack /\ api'.call = api.call /\ DOMAIN api' = ApiFields
  BY <1>1 DEF Typed, ApiFields
<1>6. frames[Top].sem \in Nat
  BY <1>2, <1>4 DEF FramesOk, FramesOf, FrameLike
<1>7. /\ FramesOk' /\ frames'[api.stack[1]] = frames[api.stack[1]]
      /\ mgr'.client = mgr.client /\ mgr'.configured = mgr.configured /\ mgr'.service = mgr.service
      /\ DOMAIN mgr' = MgrFields
      /\ mgr'.late \/ (mgr'.late = mgr.late /\ Settled(w) /\ frames'[Top].sem = 0)
      /\ \A i \in 1 .. Len(api'.stack) : frames'[api'.stack[i]].sem > 0 => mgr'.client
  <2>1. CASE Answered /\ frames' = Taken /\ mgr' = mgr
    <3>1. /\ FramesOk' /\ frames'[Top].sem = frames[Top].sem - 1
          /\ \A g \in FrameIds : g # Top => frames'[g] = frames[g]
          /\ \A i \in 1 .. Len(api'.stack) : frames'[api'.stack[i]].sem > 0 => mgr'.client
      BY <1>2, <1>5, <2>1, SemTaken
    <3>2. mgr.late \/ (Settled(w) /\ frames[Top].sem = 1)
      BY <1>1, <1>4, <1>6, <2>1 DEF AtDlDeinitWait, Answered, Sem
    <3> QED
      BY <1>4, <2>1, <3>1, <3>2 DEF Typed
  <2>2. CASE ~Answered /\ Top \notin InFlight /\ UNCHANGED <<frames, mgr>>
    <3>1. ~Closing(w) \/ w.lib.shutCb # Top
      BY <2>2, PhaseIsOne DEF InFlight
    <3>2. mgr.late \/ (Settled(w) /\ frames[Top].sem = 0)
      BY <1>1, <1>4, <1>6, <2>2, <3>1 DEF AtDlDeinitWait, Answered, Sem
    <3> QED
      BY <1>2, <1>5, <2>2, <3>2 DEF FramesOk, ClientOk, Typed
  <2>3. CASE mgr' = [mgr EXCEPT !.late = TRUE] /\ UNCHANGED frames
    <3>1. DOMAIN mgr' = MgrFields /\ mgr'.late /\ mgr'.link = mgr.link
          /\ mgr'.client = mgr.client /\ mgr'.configured = mgr.configured /\ mgr'.service = mgr.service
      BY <2>3 DEF Typed, MgrFields
    <3> QED
      BY <1>2, <1>5, <2>3, <3>1 DEF FramesOk, ClientOk
  <2> QED
    BY <2>1, <2>2, <2>3 DEF DlDeinitWait
<1>8. ClientOk'
  BY <1>1, <1>2, <1>5, <1>7 DEF ClientOk, KillPending
<1>9. Within(2)'
  BY <1>1, <1>2, <1>5, <1>7 DEF AtDlDeinitWait, Within, Starting, Sem
<1>10. Rests' /\ SecondRests'
  BY <1>1, <1>2, <1>4, <1>5, <1>7 DEF Rests, SecondRests, Sem
<1>11. PcOk'
  BY <1>5, <1>9, <1>10 DEF AtPd, PcOk, Pcs
<1> QED
  BY <1>1, <1>2, <1>5, <1>7, <1>8, <1>11 DEF Survives, JniOk, Typed

(* Mgt_Initialize after a download, on a library that is closed.           *)
LEMMA ShutOpens ==
  ASSUME WorldOk(w), Shut(w), NEW c, NEW fault \in {"none", "memory", "hci"}
  PROVE  LET r == phLibNfc_Mgt_Initialize(w, c, fault)
         IN /\ WorldOk(r.w) /\ r.w.aborted = w.aborted
            /\ IF r.st = "PENDING" THEN Opens(r.w) /\ r.w.lib.initCb = c ELSE Shut(r.w) \/ Refused(r.w)
<1> DEFINE r == phLibNfc_Mgt_Initialize(w, c, fault)
<1>1. WorldLike(w) /\ w.posted = <<>> /\ ~w.hal.used
  BY DEF WorldOk
<1>2. /\ r.st = "PENDING" =>
           /\ Shut(w) /\ Opening(r.w) /\ r.w.hal.next = "OpenAndReady"
           /\ WorldLike(r.w) /\ SameRest(w, r.w) /\ ~r.w.hal.used
           /\ r.w.lib.initCb = c
      /\ r.st # "PENDING" =>
           r.w = w \/ (Refused(r.w) /\ WorldLike(r.w) /\ SameRest(w, r.w) /\ ~r.w.hal.used)
  BY <1>1, InitializePhase
<1> HIDE DEF r
<1>3. WorldOk(r.w) /\ r.w.aborted = w.aborted
  BY <1>1, <1>2 DEF WorldOk, SameRest
<1> QED
  BY <1>2, <1>3 DEF Opens, r
-------------------------------------------------------------------------------
(* The download over, the stack is initialised again.                      *)
LEMMA DlInitSurvives ==
  ASSUME Jni, Typed, JniOk, DlInit
  PROVE  Survives
<1>1. api.pc = "dlInit" /\ AtDlInit /\ UNCHANGED user
  BY DEF DlInit, At, JniOk, PcOk
<1>2. PICK fault \in {"none", "memory", "hci"} :
        LET r == phLibNfc_Mgt_Initialize(w, Top, fault)
        IN /\ w' = r.w
           /\ IF r.st = "PENDING" THEN Goto("dlInitWait") /\ UNCHANGED <<frames, mgr, q>> ELSE NextTry
  BY DEF DlInit
<1> DEFINE r == phLibNfc_Mgt_Initialize(w, Top, fault)
<1>3. w' = r.w /\ IF r.st = "PENDING" THEN Goto("dlInitWait") /\ UNCHANGED <<frames, mgr, q>> ELSE NextTry
  BY <1>2
<1>4. FramesOk /\ ClientOk /\ WorldOk(w) /\ Shut(w) /\ Len(api.stack) = 2
  BY <1>1 DEF JniOk, AtDlInit, Within
<1>5. /\ WorldOk(r.w) /\ r.w.aborted = w.aborted
      /\ IF r.st = "PENDING" THEN Opens(r.w) /\ r.w.lib.initCb = Top ELSE Shut(r.w) \/ Refused(r.w)
  BY <1>4, ShutOpens
<1>6. 1 \in 1 .. Len(api.stack) /\ 2 \in 1 .. Len(api.stack)
  BY <1>4
<1>7. Top = api.stack[2] /\ api.stack[1] # Top /\ api.stack[1] \in FrameIds /\ api.stack[1] # 0
  BY <1>4, <1>6, TheirFrames
<1> HIDE DEF r
<1>8. api.stack[1] \notin Owed(w')
  BY <1>3, <1>5, <1>7, OwedBy DEF Settled
<1>9. CASE r.st = "PENDING"
  <2>1. api' = [api EXCEPT !.pc = "dlInitWait"] /\ UNCHANGED <<frames, mgr, q>>
    BY <1>3, <1>9 DEF Goto
  <2>2. api'.pc = "dlInitWait" /\ api'.stack = api.stack /\ api'.call = api.call /\ DOMAIN api' = ApiFields
    BY <2>1 DEF Typed, ApiFields
  <2>3. Typed' /\ FramesOk' /\ ClientOk'
    BY <1>1, <1>4, <2>1, <2>2, FramesKept DEF Typed
  <2>4. Within(2)' /\ SecondRests' /\ Top' = Top
    BY <1>1, <1>8, <2>1, <2>2 DEF AtDlInit, Within, Starting, SecondRests, Sem, Top
  <2>5. AtDlInitWait'
    BY <1>1, <1>3, <1>5, <1>9, <2>1, <2>4 DEF AtDlInit, AtDlInitWait
  <2>6. PcOk'
    BY <2>2, <2>5 DEF PcOk, Pcs
  <2> QED
    BY <1>1, <1>3, <1>5, <2>1, <2>3, <2>6 DEF Survives, JniOk
<1>10. CASE r.st # "PENDING"
  <2>1. NextTry /\ Settled(w') /\ Quiet(w') /\ WorldOk(w')
    BY <1>3, <1>5, <1>10 DEF Settled, Quiet
  <2>2. Typed' /\ JniOk'
    BY <1>1, <1>4, <1>8, <2>1, TriesAgain DEF AtDlInit, JniOk
  <2> QED
    BY <1>1, <1>3, <1>5, <2>2 DEF Survives
<1> QED
  BY <1>9, <1>10

(* Its answer.                                                             *)
LEMMA DlInitWaitSurvives ==
  ASSUME Jni, Typed, JniOk, DlInitWait
  PROVE  Survives
<1>1. api.pc = "dlInitWait" /\ AtDlInitWait /\ UNCHANGED <<w, user>> /\ Answered
  BY DEF DlInitWait, At, JniOk, PcOk
<1>2. FramesOk /\ ClientOk /\ WorldOk(w) /\ Len(api.stack) = 2 /\ Within(2)
  BY <1>1 DEF JniOk, AtDlInitWait, Within
<1>3. 1 \in 1 .. Len(api.stack) /\ 2 \in 1 .. Len(api.stack)
  BY <1>2
<1>4. Top = api.stack[2] /\ api.stack[1] # Top /\ api.stack[1] \in FrameIds /\ api.stack[1] # 0
  BY <1>2, <1>3, TheirFrames
<1>5. Rests /\ (Shut(w) \/ Idle(w) \/ Opens(w))
  BY <1>1, <1>4 DEF AtDlInitWait, Answered, SecondRests, Sem, Rests, Quiet, Settled
<1>6. CASE Good
  <2>1. api' = [api EXCEPT !.stack = Left, !.pc = "eeprom", !.left = Settings[fw.type]]
        /\ frames' = Popped /\ UNCHANGED <<mgr, q>>
    BY <1>6 DEF DlInitWait
  <2>2. api'.stack = Left /\ api'.pc = "eeprom" /\ api'.call = api.call /\ DOMAIN api' = ApiFields
    BY <2>1 DEF Typed, ApiFields
  <2>3. FramesOk'
    BY <1>2, <2>1, <2>2, LeftFrame DEF FramesOk
  <2>4. Len(Left) = 1 /\ 1 \in 1 .. Len(Left)
    <3>1. Len(Left) = 1
      BY <1>2, LeftFrame
    <3> QED
      BY <3>1
  <2>5. Left[1] = api.stack[1] /\ Popped[api.stack[1]] = frames[api.stack[1]]
    BY <1>2, <2>4, LeftFrame
  <2> HIDE DEF Left, Popped
  <2>6. Within(1)'
    BY <1>1, <1>2, <2>1, <2>2, <2>4, <2>5 DEF Within, Starting, Sem
  <2>7. \A i \in 1 .. Len(api'.stack) : frames'[api'.stack[i]].sem = 0
    <3>1. \A i \in 1 .. Len(api'.stack) : i = 1
      BY <2>2, <2>4
    <3> QED
      BY <2>6, <3>1 DEF Within, Sem
  <2>8. ClientOk'
    BY <1>1, <1>2, <2>1, <2>2, <2>7 DEF ClientOk, KillPending
  <2>9. AtEeprom'
    BY <1>1, <1>5, <2>1, <2>6 DEF AtEeprom, AtDlInitWait, Rests
  <2>10. PcOk'
    BY <2>2, <2>9 DEF PcOk, Pcs
  <2> QED
    BY <1>1, <1>2, <2>1, <2>2, <2>3, <2>8, <2>10 DEF Survives, JniOk, Typed
<1>7. CASE ~Good
  <2>1. NextTry
    BY <1>7 DEF DlInitWait
  <2>2. Typed' /\ JniOk'
    BY <1>1, <1>2, <1>5, <2>1, TriesAgain DEF Within, JniOk, Rests
  <2> QED
    BY <1>1, <2>2 DEF Survives
<1> QED
  BY <1>6, <1>7

(* A round that failed.                                                    *)
LEMMA DlEndSurvives ==
  ASSUME Jni, Typed, JniOk, DlEnd
  PROVE  Survives
<1>1. api.pc = "dlEnd" /\ AtDlEnd /\ UNCHANGED <<w, user>> /\ NextTry
  BY DEF DlEnd, At, JniOk, PcOk
<1>2. Typed' /\ JniOk'
  BY <1>1, TriesAgain DEF AtDlEnd, Within, JniOk, Rests
<1> QED
  BY <1>1, <1>2 DEF Survives

(* A download asked for while nothing, or only a late answer, is under way.*)
LEMMA DownloadBegins ==
  ASSUME WorldOk(w), NEW c, NEW refused \in BOOLEAN
  PROVE  LET r == Download(w, c, refused)
         IN /\ WorldOk(r.w) /\ r.w.aborted = w.aborted
            /\ IF r.st = "PENDING" THEN Downloading(r.w) /\ r.w.lib.opCb = c ELSE r.w = w \/ Shut(r.w)
<1> DEFINE r == Download(w, c, refused)
<1>1. WorldLike(w) /\ w.posted = <<>> /\ ~w.hal.used
  BY DEF WorldOk
<1>2. Shut(w) \/ w.lib.ctx
  BY DEF WorldOk, Refused, Opening, Downloading, Up_
<1>3. /\ r.st = "PENDING" =>
           /\ Shut(w) /\ Downloading(r.w) /\ WorldLike(r.w) /\ SameRest(w, r.w) /\ ~r.w.hal.used
           /\ r.w.lib.opCb = c
      /\ r.st # "PENDING" =>
           r.w = w \/ (WorldLike(r.w) /\ SameRest(w, r.w) /\ Shut(r.w) /\ ~r.w.hal.used)
  BY <1>1, <1>2, DownloadPhase
<1> HIDE DEF r
<1>4. WorldOk(r.w) /\ r.w.aborted = w.aborted
  BY <1>1, <1>3 DEF WorldOk, SameRest
<1> QED
  BY <1>3, <1>4 DEF r
-------------------------------------------------------------------------------
(* performDownload: a frame of its own, the driver if nobody configured    *)
(* it, and the download asked for or refused.                              *)
LEMMA PerformDownloadSurvives ==
  ASSUME Jni, Typed, JniOk, performDownload
  PROVE  Survives
<1> DEFINE f == FreshFrame
           configured == IF mgr.configured THEN mgr ELSE nfc_jni_configure_driver
<1>1. api.pc = "pd" /\ AtPd /\ UNCHANGED user /\ Unused # {} /\ frames' = Pushed
      /\ q' = (IF mgr.configured THEN q ELSE <<>>) /\ mgr' = configured
  BY DEF performDownload, At, JniOk, PcOk
<1>2. FramesOk /\ ClientOk /\ WorldOk(w) /\ Len(api.stack) <= 2
  <2>1. Len(api.stack) = 2 \/ Len(api.stack) = 0
    BY <1>1 DEF AtPd, Within
  <2>2. CASE Len(api.stack) = 2
    BY <2>2 DEF JniOk
  <2>3. CASE Len(api.stack) = 0
    BY <2>3 DEF JniOk
  <2> QED
    BY <2>1, <2>2, <2>3
<1>3. PICK refused \in BOOLEAN :
        LET image == phLibNfc_Load_Firmware_Image(w, fw.type, fw.files)
            r == IF image THEN Download(w, f, refused) ELSE Result("FAILED", w)
        IN /\ w' = r.w
           /\ api' = [Enter(IF r.st = "PENDING" THEN "pdWait" ELSE "pdEnd") EXCEPT
                        !.was = ~mgr.configured, !.result = FALSE]
  BY DEF performDownload
<1> DEFINE r == IF phLibNfc_Load_Firmware_Image(w, fw.type, fw.files) THEN Download(w, f, refused)
                ELSE Result("FAILED", w)
<1>4. /\ w' = r.w
      /\ api' = [Enter(IF r.st = "PENDING" THEN "pdWait" ELSE "pdEnd") EXCEPT
                   !.was = ~mgr.configured, !.result = FALSE]
  BY <1>3
<1>5. /\ WorldOk(r.w) /\ r.w.aborted = w.aborted
      /\ IF r.st = "PENDING" THEN Downloading(r.w) /\ r.w.lib.opCb = f ELSE r.w = w \/ Shut(r.w)
  <2>1. CASE r = Result("FAILED", w)
    BY <1>2, <2>1 DEF Result
  <2>2. CASE r = Download(w, f, refused)
    <3> DEFINE d == Download(w, f, refused)
    <3>1. /\ WorldOk(d.w) /\ d.w.aborted = w.aborted
          /\ IF d.st = "PENDING" THEN Downloading(d.w) /\ d.w.lib.opCb = f ELSE d.w = w \/ Shut(d.w)
      BY <1>2, DownloadBegins
    <3> QED
      BY <2>2, <3>1
  <2> QED
    BY <2>1, <2>2
<1> DEFINE pc == IF r.st = "PENDING" THEN "pdWait" ELSE "pdEnd"
<1>6. r.st = "PENDING" => pc = "pdWait"
  OBVIOUS
<1>7. r.st # "PENDING" => pc = "pdEnd"
  OBVIOUS
<1> HIDE DEF r
<1>8. /\ api'.stack = Append(api.stack, f) /\ api'.call = api.call /\ DOMAIN api' = ApiFields
      /\ api'.pc = pc /\ api'.was = ~mgr.configured /\ ~api'.result
  <2>1. DOMAIN Enter(pc) = ApiFields /\ Enter(pc).stack = Append(api.stack, f)
        /\ Enter(pc).call = api.call /\ Enter(pc).pc = pc
    BY DEF Enter, Typed, ApiFields
  <2> HIDE DEF pc, f
  <2>2. api' = [Enter(pc) EXCEPT !.was = ~mgr.configured, !.result = FALSE]
    BY <1>4 DEF pc
  <2> QED
    BY <2>1, <2>2 DEF ApiFields
<1> DEFINE n == Len(api.stack)
<1>9. /\ f \in Nat \ {0} /\ f \notin Owed(w)
      /\ FramesOf(frames', api'.stack, mgr.link)
      /\ Len(api'.stack) = n + 1 /\ api'.stack[n + 1] = f /\ frames'[f].sem = 0
      /\ \A i \in 1 .. n : api'.stack[i] = api.stack[i] /\ f # api.stack[i] /\ frames'[api.stack[i]] = frames[api.stack[i]]
  <2>1. \A i \in 1 .. Len(api.stack) : api.stack[i] \in FrameIds
    BY <1>2 DEF FramesOk, FramesOf
  <2> QED
    BY <1>1, <1>2, <1>8, <2>1, Entered
<1> HIDE DEF f, n, pc
<1>10. /\ DOMAIN mgr' = MgrFields /\ mgr'.configured /\ mgr'.service = mgr.service
       /\ mgr'.late = mgr.late /\ mgr'.link = mgr.link
       /\ mgr'.client = (IF mgr.configured THEN mgr.client ELSE TRUE)
       /\ (mgr.configured => mgr' = mgr)
  <2>1. CASE mgr.configured
    BY <1>1, <2>1 DEF Typed
  <2>2. CASE ~mgr.configured
    BY <1>1, <2>2 DEF nfc_jni_configure_driver, Typed, MgrFields
  <2> QED
    BY <2>1, <2>2
<1>11. FramesOk'
  BY <1>9, <1>10 DEF FramesOk
<1>12. q' \in Seq(Msgs) /\ (KillPending' => KillPending)
  BY <1>1, QueueEmptied DEF KillPending, Typed
<1>13. w'.aborted = w.aborted /\ WorldOk(w') /\ IF r.st = "PENDING" THEN Downloading(w') /\ w'.lib.opCb = f ELSE w' = w \/ Shut(w')
  BY <1>4, <1>5
<1>14. n \in Nat /\ Top' = f
  BY <1>2, <1>9 DEF Top, n, FramesOk, FramesOf
<1>15. \A i \in 1 .. Len(api'.stack) : frames'[api'.stack[i]].sem > 0 => mgr'.client
  <2>1. \A i \in 1 .. n : frames[api.stack[i]].sem > 0 => mgr'.client
    BY <1>2, <1>10 DEF ClientOk, n
  <2>2. ASSUME NEW i \in 1 .. Len(api'.stack), frames'[api'.stack[i]].sem > 0
        PROVE  mgr'.client
    <3>1. CASE i = n + 1
      BY <1>9, <2>2, <3>1
    <3>2. CASE i \in 1 .. n
      BY <1>9, <2>1, <2>2, <3>2
    <3> QED
      BY <1>9, <1>14, <3>1, <3>2
  <2> QED
    BY <2>2
<1>16. ClientOk'
  BY <1>1, <1>2, <1>8, <1>10, <1>12, <1>15 DEF ClientOk
<1>17. PcOk'
  <2>1. CASE Within(2) /\ Rests /\ SecondRests
    <3>1. n = 2 /\ 1 \in 1 .. n /\ 2 \in 1 .. n /\ mgr.configured
      BY <2>1 DEF Within, n, Starting
    <3>2. api.stack[1] # 0 /\ api.stack[1] # f
      BY <1>2, <1>9, <3>1, TheirFrames DEF n
    <3>3. api.stack[1] \notin Owed(w')
      <4>1. Downloading(w') => Owed(w') \subseteq {w'.lib.opCb}
        BY OwedBy
      <4>2. Shut(w') => Owed(w') \subseteq {0}
        BY OwedBy DEF Settled
      <4> QED
        BY <1>13, <2>1, <3>2, <4>1, <4>2 DEF Within
    <3>4. Within(3)'
      BY <1>8, <1>9, <1>10, <2>1, <3>1, <3>3 DEF Within, Starting, Sem
    <3>5. SecondRests'
      BY <1>9, <1>10, <2>1, <3>1 DEF SecondRests, Sem
    <3>6. ~api'.was
      BY <1>8, <3>1
    <3>7. CASE r.st = "PENDING"
      <4>1. AtPdWait'
        BY <1>9, <1>13, <1>14, <3>4, <3>5, <3>6, <3>7 DEF AtPdWait
      <4> QED
        BY <1>6, <1>8, <3>7, <4>1 DEF PcOk, Pcs
    <3>8. CASE r.st # "PENDING"
      <4>1. Rests'
        BY <1>10, <1>13, <2>1, <3>8 DEF Rests, Quiet, Settled
      <4>2. AtPdEnd'
        BY <1>8, <3>4, <3>5, <3>6, <4>1 DEF AtPdEnd
      <4> QED
        BY <1>7, <1>8, <3>8, <4>2 DEF PcOk, Pcs
    <3> QED
      BY <3>7, <3>8
  <2>2. CASE ByItself /\ Len(api.stack) = 0 /\ Shut(w) /\ ~mgr.configured
    <3>1. n = 0 /\ Len(api'.stack) = 1 /\ mgr'.client /\ mgr'.configured
      BY <1>9, <1>10, <2>2 DEF n
    <3>5. api'.was
      BY <1>8, <2>2
    <3>2. ByItself'
      BY <1>8, <1>10, <2>2 DEF ByItself
    <3>3. CASE r.st = "PENDING"
      <4>1. AtPdWait'
        BY <1>9, <1>13, <1>14, <3>1, <3>2, <3>3, <3>5 DEF AtPdWait
      <4> QED
        BY <1>6, <1>8, <3>3, <4>1 DEF PcOk, Pcs
    <3>4. CASE r.st # "PENDING"
      <4>1. Shut(w')
        BY <1>13, <2>2, <3>4
      <4>2. AtPdEnd'
        BY <3>1, <3>2, <3>5, <4>1 DEF AtPdEnd
      <4> QED
        BY <1>7, <1>8, <3>4, <4>2 DEF PcOk, Pcs
    <3> QED
      BY <3>3, <3>4
  <2> QED
    BY <1>1, <2>1, <2>2 DEF AtPd
<1> QED
  BY <1>1, <1>8, <1>10, <1>11, <1>12, <1>13, <1>16, <1>17 DEF Survives, JniOk, Typed

(* The end of the download is waited for.                                  *)
LEMMA PdWaitSurvives ==
  ASSUME Jni, Typed, JniOk, PdWait
  PROVE  Survives
<1>1. api.pc = "pdWait" /\ AtPdWait /\ UNCHANGED <<w, q, mgr, user>> /\ Answered /\ frames' = Taken
      /\ api' = [api EXCEPT !.pc = "pdEnd", !.result = Good]
  BY DEF PdWait, At, JniOk, PcOk
<1>2. FramesOk /\ ClientOk /\ WorldOk(w)
  BY DEF JniOk
<1>3. /\ api'.stack = api.stack /\ api'.call = api.call /\ DOMAIN api' = ApiFields
      /\ api'.pc = "pdEnd" /\ api'.was = api.was
  BY <1>1 DEF Typed, ApiFields
<1>4. Len(api.stack) = 3 \/ Len(api.stack) = 1
  BY <1>1 DEF AtPdWait, Within
<1>5. Len(api.stack) > 0
  <2>1. CASE Len(api.stack) = 3
    BY <2>1
  <2>2. CASE Len(api.stack) = 1
    BY <2>2
  <2> QED
    BY <1>4, <2>1, <2>2
<1>6. /\ FramesOk' /\ mgr.client
      /\ \A g \in FrameIds : g # Top => frames'[g] = frames[g]
      /\ \A i \in 1 .. Len(api'.stack) : frames'[api'.stack[i]].sem > 0 => mgr'.client
  BY <1>1, <1>2, <1>3, <1>5, SemTaken
<1>7. ClientOk'
  BY <1>1, <1>2, <1>3, <1>6 DEF ClientOk, KillPending
<1>8. Shut(w) /\ Rests'
  BY <1>1 DEF AtPdWait, Answered, Rests, Quiet, Settled
<1>9. AtPdEnd'
  <2>1. CASE Within(3) /\ SecondRests /\ ~api.was
    <3>1. Len(api.stack) = 3 /\ 1 \in 1 .. Len(api.stack) /\ 2 \in 1 .. Len(api.stack)
      BY <2>1 DEF Within
    <3>2. frames'[api.stack[1]] = frames[api.stack[1]] /\ frames'[api.stack[2]] = frames[api.stack[2]]
      BY <1>2, <1>6, <3>1, TheirFrames
    <3>3. Within(3)' /\ SecondRests'
      BY <1>1, <1>3, <2>1, <3>2 DEF Within, Starting, SecondRests, Sem
    <3> QED
      BY <1>1, <1>3, <1>6, <1>8, <2>1, <3>3 DEF AtPdEnd
  <2>2. CASE ByItself /\ Len(api.stack) = 1 /\ api.was
    BY <1>1, <1>3, <1>8, <2>2 DEF AtPdEnd, ByItself
  <2> QED
    BY <1>1, <2>1, <2>2 DEF AtPdWait
<1>10. PcOk'
  BY <1>3, <1>9 DEF PcOk, Pcs
<1> QED
  BY <1>1, <1>2, <1>3, <1>6, <1>7, <1>10 DEF Survives, JniOk, Typed

(* The frame of the download is given back.                                *)
LEMMA PdEndSurvives ==
  ASSUME Jni, Typed, JniOk, PdEnd
  PROVE  Survives
<1>1. api.pc = "pdEnd" /\ AtPdEnd /\ UNCHANGED <<w, q, user>> /\ frames' = Popped
      /\ mgr' = (IF api.was THEN nfc_jni_unconfigure_driver ELSE mgr)
  BY DEF PdEnd, At, JniOk, PcOk
<1>2. FramesOk /\ ClientOk /\ WorldOk(w)
  BY DEF JniOk
<1>3. CASE ByItself /\ Len(api.stack) = 1 /\ api.was /\ Shut(w)
  <2>1. api' = NoCall
    BY <1>3 DEF PdEnd, ByItself
  <2>2. DOMAIN mgr' = MgrFields /\ mgr'.service = "off" /\ ~mgr'.configured /\ mgr'.link = mgr.link
    BY <1>1, <1>3 DEF nfc_jni_unconfigure_driver, ByItself, Typed, MgrFields
  <2>3. DOMAIN api' = ApiFields /\ api'.stack = <<>> /\ api'.pc = "none"
    BY <2>1 DEF NoCall, ApiFields
  <2>4. FramesOk'
    <3>1. Left = <<>>
      BY <1>3 DEF Left
    <3> QED
      BY <1>1, <1>2, <1>3, <2>2, <2>3, <3>1, LeftFrame DEF FramesOk
  <2>5. ClientOk'
    BY <2>2, <2>3 DEF ClientOk
  <2>6. AtNone'
    BY <1>1, <1>3, <2>1, <2>2 DEF AtNone, Rests, Quiet, Settled
  <2>7. PcOk'
    BY <2>3, <2>6 DEF PcOk, Pcs
  <2> QED
    BY <1>1, <1>2, <2>2, <2>3, <2>4, <2>5, <2>7 DEF Survives, JniOk, Typed
<1>4. CASE Within(3) /\ SecondRests /\ ~api.was /\ Rests /\ (api.result => Shut(w) /\ mgr.client)
  <2>1. api.call = "initialize" /\ mgr' = mgr
    BY <1>1, <1>4 DEF Within, Starting
  <2>2. api' = IF api.result THEN [api EXCEPT !.stack = Left, !.pc = "dlInit"] ELSE [api EXCEPT !.stack = Left, !.pc = "dlEnd"]
    BY <2>1 DEF PdEnd
  <2>3. /\ api'.stack = Left /\ api'.call = api.call /\ DOMAIN api' = ApiFields
        /\ api'.pc = IF api.result THEN "dlInit" ELSE "dlEnd"
    BY <2>2 DEF Typed, ApiFields
  <2>4. Len(api.stack) = 3 /\ Len(Left) = 2
    <3>1. Len(api.stack) = 3
      BY <1>4 DEF Within
    <3> QED
      BY <1>2, <3>1, LeftFrame
  <2>5. 1 \in 1 .. Len(Left) /\ 2 \in 1 .. Len(Left)
    BY <2>4
  <2>6. FramesOk'
    BY <1>1, <1>2, <2>1, <2>3, <2>4, LeftFrame DEF FramesOk
  <2>7. \A i \in 1 .. Len(Left) : Left[i] = api.stack[i] /\ Popped[api.stack[i]] = frames[api.stack[i]]
    BY <1>2, <2>4, LeftFrame
  <2> HIDE DEF Left, Popped
  <2>8. Within(2)' /\ SecondRests'
    BY <1>1, <1>4, <2>1, <2>3, <2>4, <2>5, <2>7 DEF Within, Starting, SecondRests, Sem
  <2>9. ClientOk'
    <3>1. \A i \in 1 .. Len(Left) : i \in 1 .. Len(api.stack)
      BY <2>4
    <3> QED
      BY <1>1, <1>2, <2>1, <2>3, <2>7, <3>1 DEF ClientOk, KillPending
  <2>10. PcOk'
    <3>1. CASE api.result
      <4>1. AtDlInit' /\ api'.pc = "dlInit"
        BY <1>1, <1>4, <2>1, <2>3, <2>8, <3>1 DEF AtDlInit
      <4> QED
        BY <4>1 DEF PcOk, Pcs
    <3>2. CASE ~api.result
      <4>1. AtDlEnd' /\ api'.pc = "dlEnd"
        BY <1>1, <1>4, <2>1, <2>3, <2>8, <3>2 DEF AtDlEnd, Rests
      <4> QED
        BY <4>1 DEF PcOk, Pcs
    <3> QED
      BY <3>1, <3>2
  <2> QED
    BY <1>1, <1>2, <2>1, <2>3, <2>6, <2>9, <2>10 DEF Survives, JniOk, Typed
<1> QED
  BY <1>1, <1>3, <1>4 DEF AtPdEnd

(* A request to an idle library: it is asked, or stays idle.               *)
LEMMA IdleAsks ==
  ASSUME WorldOk(w), Idle(w), NEW op \in {"MEM_WRITE", "config", "discovery"}, NEW c, NEW refused \in BOOLEAN
  PROVE  LET r == LibOp(w, op, c, refused)
         IN /\ WorldOk(r.w) /\ r.w.aborted = w.aborted
            /\ IF r.st = "PENDING" THEN Asked(r.w, c) ELSE Idle(r.w)
<1>1. WorldLike(w) /\ ~w.hal.used /\ Up_(w) /\ w.posted = <<>> /\ w.lib.next = "Invalid"
  BY DEF WorldOk, Idle, Ready
<1> DEFINE r == LibOp(w, op, c, refused)
<1>2. /\ WorldLike(r.w) /\ SameRest(w, r.w) /\ ~r.w.hal.used /\ Up_(r.w)
      /\ r.st = "PENDING" =>
           /\ r.w.lib.gen /\ r.w.lib.opCb = c /\ r.w.lib.op = op /\ r.w.lib.cur = w.lib.cur
           /\ r.w.hal.cur = w.hal.cur
           /\ r.w.lib.next = IF op \in DOMAIN Leads THEN Leads[op] ELSE w.lib.next
           /\ IF Configures(op)
              THEN r.w.hal.next = "Configuring" /\ r.w.hal.cfgCb = "ConfigCb" /\ r.w.hal.hci = "config"
              ELSE /\ r.w.hal.next = w.hal.next /\ r.w.hal.ioctlCb = "IoctlCb"
                   /\ r.w.hal.hci = IoctlOp(w.hal, op)
      /\ r.st # "PENDING" => r.w.lib = w.lib /\ SameHal(w.hal, r.w.hal)
  BY <1>1, LibOpPhase
<1> HIDE DEF r
<1>3. WorldOk(r.w) /\ r.w.aborted = w.aborted
  BY <1>1, <1>2 DEF WorldOk, SameRest
<1>4. r.st # "PENDING" => Idle(r.w)
  BY <1>2, StaysIdle DEF SameHal
<1>5. ASSUME r.st = "PENDING"
      PROVE  Asked(r.w, c)
  <2>1. CASE op = "MEM_WRITE"
    <3>1. op \notin DOMAIN Leads /\ ~Configures(op) /\ IoctlOp(w.hal, op) = "ioctl"
      BY <2>1 DEF Leads, Configures, IoctlOp, Tests, Reads, Writes
    <3> QED
      BY <1>1, <1>2, <1>5, <2>1, <3>1 DEF Asked, Idle, Ready
  <2>2. CASE op = "config"
    <3>1. op \notin DOMAIN Leads /\ Configures(op)
      BY <2>2 DEF Leads, Configures
    <3> QED
      BY <1>1, <1>2, <1>5, <2>2, <3>1 DEF Asked, Idle, Ready
  <2>3. CASE op = "discovery"
    <3>1. op \in DOMAIN Leads /\ Configures(op) /\ Leads[op] = "ConfigReady"
      BY <2>3 DEF Leads, Configures
    <3> QED
      BY <1>1, <1>2, <1>5, <2>3, <3>1 DEF Asked, Idle, Ready
  <2> QED
    BY <2>1, <2>2, <2>3
<1> QED
  BY <1>3, <1>4, <1>5 DEF r

(* A library that is not open refuses.                                     *)
LEMMA ClosedRefuses ==
  ASSUME NEW v, ~v.lib.ctx \/ v.lib.cur = "Shutdown", NEW op, NEW c, NEW refused
  PROVE  LibOp(v, op, c, refused) = Result("NOT_INITIALISED", v)
  BY DEF LibOp, Busy
-------------------------------------------------------------------------------
(* One of the requests of an initialisation.                               *)
LEMMA AskSurvives ==
  ASSUME Jni, Typed, JniOk, NEW pc, NEW op \in {"MEM_WRITE", "config"}, NEW wait \in {"eepromWait", "seWait", "llcpWait"},
         Ask(pc, op, wait), api.pc # "none", Within(1), Rests, mgr.client, Shut(w) \/ Idle(w) \/ Opens(w)
  PROVE  Survives
<1>1. PICK refused \in BOOLEAN :
        LET r == LibOp(w, op, Top, refused)
        IN w' = r.w /\ IF r.st = "PENDING" THEN Goto(wait) /\ UNCHANGED <<frames, mgr, q>> ELSE InitFails
  BY DEF Ask
<1> DEFINE r == LibOp(w, op, Top, refused)
<1>2. w' = r.w /\ (IF r.st = "PENDING" THEN Goto(wait) /\ UNCHANGED <<frames, mgr, q>> ELSE InitFails) /\ UNCHANGED user
  BY <1>1 DEF Ask
<1>3. FramesOk /\ ClientOk /\ WorldOk(w) /\ Len(api.stack) = 1
  BY DEF JniOk, Within
<1>4. /\ WorldOk(r.w) /\ r.w.aborted = w.aborted
      /\ IF r.st = "PENDING" THEN Asked(r.w, Top) ELSE Quiet(r.w) /\ (mgr.late \/ Settled(r.w))
  <2>1. CASE Idle(w)
    <3>1. op \in {"MEM_WRITE", "config", "discovery"}
      OBVIOUS
    <3> HIDE DEF r
    <3>2. /\ WorldOk(r.w) /\ r.w.aborted = w.aborted
          /\ IF r.st = "PENDING" THEN Asked(r.w, Top) ELSE Idle(r.w)
      BY <1>3, <2>1, <3>1, IdleAsks DEF r
    <3> QED
      BY <3>2 DEF Quiet, Settled
  <2>2. CASE Shut(w) \/ Opens(w)
    <3>1. ~w.lib.ctx \/ w.lib.cur = "Shutdown"
      BY <2>2 DEF Shut, NoLib, Opens, Opening
    <3>2. r.w = w /\ r.st = "NOT_INITIALISED"
      BY <3>1, ClosedRefuses DEF Result
    <3> QED
      BY <1>3, <3>2 DEF Rests
  <2> QED
    BY <2>1, <2>2
<1> HIDE DEF r
<1>5. CASE r.st = "PENDING"
  <2>1. api' = [api EXCEPT !.pc = wait] /\ UNCHANGED <<frames, mgr, q>> /\ Asked(w', Top)
    BY <1>2, <1>4, <1>5 DEF Goto
  <2>2. api'.pc = wait /\ api'.stack = api.stack /\ api'.call = api.call /\ DOMAIN api' = ApiFields
    BY <2>1 DEF Typed, ApiFields
  <2>3. Typed' /\ FramesOk' /\ ClientOk'
    BY <1>3, <2>1, <2>2, FramesKept DEF Typed
  <2>4. AtAskedWait'
    BY <2>1, <2>2 DEF Within, AtAskedWait, Starting, Waits1, Sem, Top
  <2>5. PcOk'
    BY <2>2, <2>4 DEF PcOk, Pcs
  <2> QED
    BY <1>2, <1>4, <2>1, <2>3, <2>5 DEF Survives, JniOk
<1>6. CASE r.st # "PENDING"
  BY <1>2, <1>3, <1>4, <1>6, FailedInit DEF Survives
<1> QED
  BY <1>5, <1>6

(* The three requests of an initialisation.                                *)
LEMMA AsksSurvive ==
  ASSUME Jni, Typed, JniOk, WriteEeprom \/ SeSetMode \/ LlcpConfig
  PROVE  Survives
<1>1. CASE WriteEeprom
  <2>1. Ask("eeprom", "MEM_WRITE", "eepromWait") /\ api.pc = "eeprom" /\ AtEeprom
    BY <1>1 DEF WriteEeprom, Ask, At, JniOk, PcOk
  <2> QED
    BY <2>1, AskSurvives DEF AtEeprom
<1>2. CASE SeSetMode
  <2>1. Ask("se", "config", "seWait") /\ api.pc = "se" /\ AtAsk
    BY <1>2 DEF SeSetMode, Ask, At, JniOk, PcOk
  <2> QED
    BY <2>1, AskSurvives DEF AtAsk, Rests, Quiet, Settled
<1>3. CASE LlcpConfig
  <2>1. Ask("llcp", "config", "llcpWait") /\ api.pc = "llcp" /\ AtAsk
    BY <1>3 DEF LlcpConfig, Ask, At, JniOk, PcOk
  <2> QED
    BY <2>1, AskSurvives DEF AtAsk, Rests, Quiet, Settled
<1> QED
  BY <1>1, <1>2, <1>3

(* Its answer: the next one, or the end.                                   *)
LEMMA AwaitedSurvives ==
  ASSUME Jni, Typed, JniOk, NEW wait \in {"eepromWait", "seWait", "llcpWait"}, NEW next, NEW checked,
         Awaited(wait, next, checked),
         next.stack = api.stack, next.call = api.call, DOMAIN next = ApiFields,
         next.pc \in {"eeprom", "se", "llcp", "ntf"}
  PROVE  Survives
<1>1. api.pc = wait /\ AtAskedWait /\ UNCHANGED <<w, user>> /\ Answered
  BY DEF Awaited, At, JniOk, PcOk
<1>2. FramesOk /\ ClientOk /\ WorldOk(w) /\ Len(api.stack) = 1
  BY <1>1 DEF JniOk, AtAskedWait
<1>3. 1 \in 1 .. Len(api.stack)
  BY <1>2
<1>4. Top = api.stack[1] /\ api.stack[1] \in FrameIds /\ api.stack[1] # 0
  BY <1>2, <1>3, TheirFrames
<1>5. Idle(w) /\ Sem(1) = 1 /\ Rests
  BY <1>1, <1>4 DEF AtAskedWait, Waits1, Answered, Sem, Rests, Quiet, Settled
<1>6. CASE frames' = Taken /\ api' = next /\ UNCHANGED <<mgr, q>>
  <2>1. Len(api.stack) > 0
    BY <1>2
  <2>2. /\ FramesOk' /\ frames'[Top].sem = frames[Top].sem - 1
        /\ \A i \in 1 .. Len(api'.stack) : frames'[api'.stack[i]].sem > 0 => mgr'.client
    BY <1>1, <1>2, <1>6, <2>1, SemTaken
  <2>3. frames'[api'.stack[1]].sem = 0
    BY <1>4, <1>5, <1>6, <2>2 DEF Sem
  <2>4. api.stack[1] \notin Owed(w')
    BY <1>1, <1>4, <1>5, OwedBy DEF Settled
  <2>5. Within(1)' /\ Rests' /\ Idle(w') /\ mgr'.client
    BY <1>1, <1>2, <1>5, <1>6, <2>3, <2>4 DEF AtAskedWait, Within, Starting, Rests, Sem
  <2>6. ClientOk'
    BY <1>1, <1>2, <1>6, <2>2 DEF ClientOk, KillPending
  <2>7. AtEeprom' /\ AtAsk'
    BY <2>5 DEF AtEeprom, AtAsk
  <2>8. PcOk'
    BY <1>6, <2>7 DEF PcOk, Pcs
  <2> QED
    BY <1>1, <1>2, <1>6, <2>2, <2>6, <2>8 DEF Survives, JniOk, Typed
<1>7. CASE InitFails
  BY <1>1, <1>2, <1>5, <1>7, FailedInit DEF Survives, Rests
<1> QED
  BY <1>6, <1>7 DEF Awaited

(* And the waits for their answers.                                        *)
LEMMA AwaitsSurvive ==
  ASSUME Jni, Typed, JniOk, WriteEepromWait \/ SeSetModeWait \/ LlcpConfigWait
  PROVE  Survives
<1>1. CASE WriteEepromWait
  <2> DEFINE next == [api EXCEPT !.left = @ - 1, !.pc = IF api.left > 1 THEN "eeprom" ELSE "se"]
  <2>1. /\ next.stack = api.stack /\ next.call = api.call /\ DOMAIN next = ApiFields
        /\ next.pc \in {"eeprom", "se", "llcp", "ntf"}
    BY DEF Typed, ApiFields
  <2>2. Awaited("eepromWait", next, TRUE)
    BY <1>1 DEF WriteEepromWait
  <2> HIDE DEF next
  <2> QED
    BY <2>1, <2>2, AwaitedSurvives
<1>2. CASE SeSetModeWait
  <2> DEFINE next == [api EXCEPT !.pc = "llcp"]
  <2>1. /\ next.stack = api.stack /\ next.call = api.call /\ DOMAIN next = ApiFields
        /\ next.pc \in {"eeprom", "se", "llcp", "ntf"}
    BY DEF Typed, ApiFields
  <2>2. Awaited("seWait", next, FALSE)
    BY <1>2 DEF SeSetModeWait
  <2> HIDE DEF next
  <2> QED
    BY <2>1, <2>2, AwaitedSurvives
<1>3. CASE LlcpConfigWait
  <2> DEFINE next == [api EXCEPT !.pc = "ntf"]
  <2>1. /\ next.stack = api.stack /\ next.call = api.call /\ DOMAIN next = ApiFields
        /\ next.pc \in {"eeprom", "se", "llcp", "ntf"}
    BY DEF Typed, ApiFields
  <2>2. Awaited("llcpWait", next, FALSE)
    BY <1>3 DEF LlcpConfigWait
  <2> HIDE DEF next
  <2> QED
    BY <2>1, <2>2, AwaitedSurvives
<1> QED
  BY <1>1, <1>2, <1>3

(* The last frame of a call is given back.                                 *)
LEMMA LastLeft ==
  ASSUME FramesOk, Len(api.stack) = 1
  PROVE  FramesOf(Popped, <<>>, mgr.link) /\ Left = <<>>
<1>1. Left = <<>>
  BY DEF Left
<1> QED
  BY <1>1, LeftFrame

(* Registrations of the client do not matter to the phase.                 *)
LEMMA Registers ==
  ASSUME WorldOk(w), Idle(w), NEW v, v = [w EXCEPT !.lib.ntf = TRUE] \/ v = [w EXCEPT !.lib.reg = TRUE]
  PROVE  WorldOk(v) /\ Idle(v) /\ v.aborted = w.aborted
<1>1. /\ WorldLike(v) /\ v.hal = w.hal /\ v.posted = w.posted /\ v.aborted = w.aborted
      /\ v.lib.ctx = w.lib.ctx /\ v.lib.cur = w.lib.cur /\ v.lib.next = w.lib.next /\ v.lib.gen = w.lib.gen
      /\ v.lib.opCb = w.lib.opCb /\ v.lib.op = w.lib.op
  BY DEF WorldOk, WorldLike, LibFields
<1>2. Idle(v)
  BY <1>1 DEF Idle, Ready, Up_
<1> QED
  BY <1>1, <1>2 DEF WorldOk, Idle, Ready

(* The last step of initialize: the service is on.                         *)
LEMMA InitNtfSurvives ==
  ASSUME Jni, Typed, JniOk, InitNtf
  PROVE  Survives
<1>1. api.pc = "ntf" /\ AtAsk /\ UNCHANGED user
  BY DEF InitNtf, At, JniOk, PcOk
<1>2. FramesOk /\ ClientOk /\ WorldOk(w) /\ Len(api.stack) = 1 /\ Idle(w)
  BY <1>1 DEF JniOk, AtAsk, Within
<1>3. CASE InitFails /\ UNCHANGED w
  BY <1>1, <1>2, <1>3, FailedInit DEF Survives, Quiet, Settled
<1>4. CASE /\ w' = [w EXCEPT !.lib.ntf = TRUE] /\ frames' = Popped /\ api' = NoCall
           /\ mgr' = [mgr EXCEPT !.service = "on"] /\ q' = q
  <2>1. WorldOk(w') /\ Idle(w') /\ w'.aborted = w.aborted
    BY <1>2, <1>4, Registers
  <2>2. /\ DOMAIN mgr' = MgrFields /\ mgr'.service = "on" /\ mgr'.configured = mgr.configured
        /\ mgr'.client = mgr.client /\ mgr'.link = mgr.link
    BY <1>4 DEF Typed, MgrFields
  <2>3. DOMAIN api' = ApiFields /\ api'.stack = <<>> /\ api'.pc = "none"
    BY <1>4 DEF NoCall, ApiFields
  <2>4. FramesOk'
    BY <1>2, <1>4, <2>2, <2>3, LastLeft DEF FramesOk
  <2>5. ClientOk'
    BY <1>1, <1>2, <1>4, <2>2, <2>3 DEF ClientOk, KillPending, AtAsk, Within, Starting
  <2>6. AtNone'
    BY <1>4, <2>1, <2>2 DEF AtNone, Rests, Quiet, Settled
  <2>7. PcOk'
    BY <2>3, <2>6 DEF PcOk, Pcs
  <2> QED
    BY <1>1, <1>4, <2>1, <2>2, <2>3, <2>4, <2>5, <2>7 DEF Survives, JniOk, Typed
<1> QED
  BY <1>3, <1>4 DEF InitNtf, Ends
-------------------------------------------------------------------------------
(* A call begins with its first frame.                                     *)
LEMMA FirstFrame ==
  ASSUME Typed, JniOk, Start(api'.call), frames' = Pushed, DOMAIN api' = ApiFields,
         api'.stack = Append(api.stack, FreshFrame)
  PROVE  /\ api.pc = "none" /\ api = NoCall /\ ~KillPending /\ AtNone
         /\ FramesOf(frames', api'.stack, mgr.link) /\ Len(api'.stack) = 1 /\ api'.stack[1] = FreshFrame
         /\ FreshFrame \in Nat \ {0} /\ FreshFrame \notin Owed(w) /\ frames'[FreshFrame].sem = 0
         /\ FreshFrame \in FrameIds /\ FreshFrame # mgr.link
<1>1. api.pc = "none" /\ api = NoCall /\ ~KillPending /\ AtNone /\ Unused # {}
  BY DEF Start, JniOk, PcOk, NoCall
<1>2. api.stack = <<>>
  BY <1>1 DEF NoCall
<1>3. FramesOk /\ Len(api.stack) <= 2 /\ Len(api.stack) = 0
  BY <1>2 DEF JniOk
<1> QED
  BY <1>1, <1>3, Entered

(* deinitialize begins.                                                    *)
LEMMA DeinitializeSurvives ==
  ASSUME Jni, Typed, JniOk, deinitialize
  PROVE  Survives
<1> DEFINE f == FreshFrame
<1>1. mgr.service = "on" /\ frames' = Pushed /\ UNCHANGED <<q, mgr, user>>
  BY DEF deinitialize
<1>2. PICK refused \in BOOLEAN :
        LET r == phLibNfc_Mgt_DeInitialize(w, f, refused)
        IN /\ w' = r.w
           /\ api' = [Enter(IF r.st = "PENDING" THEN "deinitWait" ELSE "recovery") EXCEPT !.call = "deinitialize"]
  BY DEF deinitialize
<1> DEFINE r == phLibNfc_Mgt_DeInitialize(w, f, refused)
           pc == IF r.st = "PENDING" THEN "deinitWait" ELSE "recovery"
<1>3. w' = r.w /\ api' = [Enter(pc) EXCEPT !.call = "deinitialize"]
  BY <1>2
<1>4. (r.st = "PENDING" => pc = "deinitWait") /\ (r.st # "PENDING" => pc = "recovery")
  OBVIOUS
<1> HIDE DEF r, pc
<1>5. /\ api'.stack = Append(api.stack, f) /\ api'.call = "deinitialize" /\ DOMAIN api' = ApiFields
      /\ api'.pc = pc
  BY <1>3 DEF Enter, Typed, ApiFields
<1>6. Start(api'.call)
  BY <1>5 DEF deinitialize
<1>7. /\ api.pc = "none" /\ api = NoCall /\ ~KillPending /\ AtNone
      /\ FramesOf(frames', api'.stack, mgr.link) /\ Len(api'.stack) = 1 /\ api'.stack[1] = f
      /\ f \in Nat \ {0} /\ f \notin Owed(w) /\ frames'[f].sem = 0
  BY <1>1, <1>5, <1>6, FirstFrame
<1>8. WorldOk(w) /\ Idle(w)
  BY <1>1, <1>7 DEF JniOk, AtNone
<1>9. /\ WorldOk(r.w) /\ r.w.aborted = w.aborted
      /\ IF r.st = "PENDING" THEN Closing(r.w) /\ r.w.lib.shutCb = f ELSE Idle(r.w)
  BY <1>7, <1>8, IdleCloses DEF r
<1> HIDE DEF f
<1>10. FramesOk' /\ Typed'
  BY <1>1, <1>5, <1>7 DEF FramesOk, Typed
<1>11. ClientOk'
  <2>1. \A i \in 1 .. Len(api'.stack) : frames'[api'.stack[i]].sem = 0
    BY <1>7
  <2> QED
    BY <1>1, <1>7, <2>1 DEF JniOk, ClientOk, KillPending
<1>12. PcOk'
  <2>1. CASE r.st = "PENDING"
    <3>1. AtDeinitWait'
      BY <1>1, <1>3, <1>7, <1>9, <2>1 DEF AtDeinitWait, Top, Sem
    <3> QED
      BY <1>4, <1>5, <2>1, <3>1 DEF PcOk, Pcs
  <2>2. CASE r.st # "PENDING"
    <3>1. AtRecovery'
      BY <1>1, <1>3, <1>9, <2>2 DEF AtRecovery, Rests, Quiet, Settled
    <3> QED
      BY <1>4, <1>5, <2>2, <3>1 DEF PcOk, Pcs
  <2> QED
    BY <2>1, <2>2
<1> QED
  BY <1>1, <1>3, <1>9, <1>10, <1>11, <1>12 DEF Survives, JniOk

(* Its answer, or none in five seconds.                                    *)
LEMMA DeinitWaitSurvives ==
  ASSUME Jni, Typed, JniOk, DeinitWait
  PROVE  Survives
<1>1. api.pc = "deinitWait" /\ AtDeinitWait /\ UNCHANGED <<w, q, user>> /\ frames' = Popped
  BY DEF DeinitWait, At, JniOk, PcOk
<1>2. FramesOk /\ ClientOk /\ WorldOk(w) /\ Len(api.stack) = 1 /\ mgr.service = "on"
  BY <1>1 DEF JniOk, AtDeinitWait
<1>3. FramesOf(Popped, <<>>, mgr.link) /\ Left = <<>>
  BY <1>2, LastLeft
<1>4. 1 \in 1 .. Len(api.stack) /\ Top = api.stack[1]
  BY <1>2, TheirFrames
<1>5. /\ DOMAIN mgr' = MgrFields /\ mgr'.service = "on" /\ mgr'.configured = mgr.configured
      /\ mgr'.client = mgr.client /\ mgr'.link = mgr.link
  <2>1. CASE mgr' = mgr
    BY <1>2, <2>1 DEF Typed
  <2>2. CASE mgr' = [mgr EXCEPT !.late = TRUE]
    BY <1>2, <2>2 DEF Typed, MgrFields
  <2> QED
    BY <2>1, <2>2 DEF DeinitWait
<1>6. \/ Answered /\ Good /\ api' = [api EXCEPT !.stack = Left, !.pc = "unconfigure"] /\ mgr' = mgr
      \/ Answered /\ ~Good /\ api' = [api EXCEPT !.stack = Left, !.pc = "recovery"] /\ mgr' = mgr
      \/ ~Answered /\ api' = [api EXCEPT !.stack = Left, !.pc = "recovery"] /\ mgr' = [mgr EXCEPT !.late = TRUE]
  BY DEF DeinitWait
<1>7. /\ api'.stack = <<>> /\ DOMAIN api' = ApiFields
      /\ \/ api'.pc = "unconfigure" /\ Answered /\ Good
         \/ api'.pc = "recovery" /\ Answered /\ ~Good
         \/ api'.pc = "recovery" /\ ~Answered /\ mgr'.late
  BY <1>3, <1>6 DEF Typed, ApiFields, MgrFields
<1>8. FramesOk'
  BY <1>1, <1>3, <1>5, <1>7 DEF FramesOk
<1>9. ClientOk'
  BY <1>1, <1>2, <1>5, <1>7 DEF ClientOk, KillPending
<1>10. PcOk'
  <2>1. CASE api'.pc = "unconfigure" /\ Answered /\ Good
    <3>1. AtUnconfigure'
      BY <1>1, <1>4, <1>5, <1>7, <2>1 DEF AtUnconfigure, AtDeinitWait, Answered, Sem
    <3> QED
      BY <2>1, <3>1 DEF PcOk, Pcs
  <2>2. CASE api'.pc = "recovery" /\ (mgr'.late \/ Answered)
    <3>1. AtRecovery'
      BY <1>1, <1>4, <1>5, <2>2 DEF AtRecovery, AtDeinitWait, Answered, Sem, Rests, Quiet, Settled
    <3> QED
      BY <2>2, <3>1 DEF PcOk, Pcs
  <2> QED
    BY <1>7, <2>1, <2>2
<1> QED
  BY <1>1, <1>2, <1>5, <1>7, <1>8, <1>9, <1>10 DEF Survives, JniOk, Typed

(* The driver is released.                                                 *)
LEMMA UnconfigureSurvives ==
  ASSUME Jni, Typed, JniOk, Unconfigure
  PROVE  Survives
<1>1. api.pc = "unconfigure" /\ AtUnconfigure /\ UNCHANGED <<w, frames, user>> /\ q' = kill_client
      /\ mgr' = [nfc_jni_unconfigure_driver EXCEPT !.service = "off"] /\ api' = NoCall
  BY DEF Unconfigure, At, JniOk, PcOk
<1>2. /\ DOMAIN mgr' = MgrFields /\ mgr'.service = "off" /\ ~mgr'.configured /\ mgr'.link = mgr.link
  BY <1>1 DEF nfc_jni_unconfigure_driver, Typed, MgrFields
<1>3. DOMAIN api' = ApiFields /\ api'.stack = <<>> /\ api'.pc = "none"
  BY <1>1 DEF NoCall, ApiFields
<1>4. q' \in Seq(Msgs)
  BY <1>1, QueueKilled DEF Typed
<1>5. FramesOk'
  BY <1>1, <1>2, <1>3 DEF AtUnconfigure, JniOk, FramesOk, FramesOf
<1>6. ClientOk'
  BY <1>2, <1>3 DEF ClientOk
<1>7. AtNone'
  BY <1>1, <1>2 DEF AtNone, AtUnconfigure, Rests, Quiet, Settled
<1>8. PcOk'
  BY <1>3, <1>7 DEF PcOk, Pcs
<1> QED
  BY <1>1, <1>2, <1>3, <1>4, <1>5, <1>6, <1>8 DEF Survives, JniOk, Typed

(* emergency_recovery: what is on its way still finds its frame, nothing   *)
(* more happens.                                                           *)
Dies == w'.aborted /\ ~w'.hal.used /\ CallbackFindsFrame' /\ UNCHANGED user

(* emergency_recovery leaves what is on its way to the frames it was on    *)
(* its way to.                                                             *)
LEMMA RecoveryDies ==
  ASSUME JniOk, emergency_recovery, UNCHANGED <<frames, user>>, mgr'.late = mgr.late, mgr'.link = mgr.link
  PROVE  Dies
<1>1. w'.hal = w.hal /\ w'.lib = w.lib /\ w'.aborted /\ ~w.hal.used
  BY DEF emergency_recovery, JniOk, WorldOk, WorldLike
<1>2. InFlight' = InFlight
  BY <1>1 DEF InFlight
<1>3. CallbackFindsFrame
  BY FindsFrame
<1> QED
  BY <1>1, <1>2, <1>3 DEF Dies, CallbackFindsFrame

(* The end of a deinitialize that failed or timed out.                     *)
LEMMA RecoverySurvives ==
  ASSUME Jni, Typed, JniOk, Recovery
  PROVE  Dies
  BY RecoveryDies DEF Recovery

(* enableDiscovery and disableDiscovery begin.                             *)
LEMMA DiscoverySurvives ==
  ASSUME Jni, Typed, JniOk, enableDiscovery \/ disableDiscovery
  PROVE  Survives
<1>1. /\ api.pc = "none" /\ api = NoCall /\ ~KillPending /\ AtNone /\ mgr.service = "on"
      /\ UNCHANGED <<q, frames, user>>
  <2>1. CASE enableDiscovery
    BY <2>1 DEF enableDiscovery, Start, JniOk, PcOk, NoCall
  <2>2. CASE disableDiscovery
    BY <2>2 DEF disableDiscovery, Start, JniOk, PcOk, NoCall
  <2> QED
    BY <2>1, <2>2
<1>2. WorldOk(w) /\ Idle(w) /\ FramesOk /\ ClientOk
  BY <1>1 DEF JniOk, AtNone
<1>3. WorldOk(w') /\ Idle(w') /\ w'.aborted = w.aborted
  BY <1>2, Registers DEF enableDiscovery, disableDiscovery
<1>4. api'.pc \in {"stop", "start"} /\ api'.stack = <<>> /\ DOMAIN api' = ApiFields
  BY DEF enableDiscovery, disableDiscovery, NoCall, ApiFields
<1>5. /\ DOMAIN mgr' = MgrFields /\ mgr'.service = "on" /\ mgr'.configured = mgr.configured
      /\ mgr'.client = mgr.client /\ mgr'.link = mgr.link
  BY <1>1 DEF enableDiscovery, disableDiscovery, Typed, MgrFields
<1>6. FramesOk'
  BY <1>1, <1>2, <1>4, <1>5 DEF FramesOk, FramesOf
<1>7. ClientOk'
  BY <1>1, <1>2, <1>4, <1>5 DEF ClientOk, KillPending
<1>8. AtDiscovery'
  BY <1>3, <1>4, <1>5 DEF AtDiscovery
<1>9. PcOk'
  BY <1>4, <1>8 DEF PcOk, Pcs
<1> QED
  BY <1>1, <1>3, <1>4, <1>5, <1>6, <1>7, <1>9 DEF Survives, JniOk, Typed

(* The library is asked to discover, once more, or the process ends.       *)
LEMMA ConfigureSurvives ==
  ASSUME Jni, Typed, JniOk, api.pc \in {"stop", "start"}, NEW wait \in {"stopWait", "startWait"},
         Unused # {}, Configure(wait), UNCHANGED <<q, user>>,
         mgr' = mgr \/ mgr' = [mgr EXCEPT !.connected = FALSE]
  PROVE  Survives \/ Dies
<1> DEFINE f == FreshFrame
<1>1. AtDiscovery
  BY DEF JniOk, PcOk
<1>2. WorldOk(w) /\ Idle(w) /\ FramesOk /\ ClientOk /\ Len(api.stack) = 0 /\ mgr.service = "on"
  BY <1>1 DEF JniOk, AtDiscovery
<1>3. /\ DOMAIN mgr' = MgrFields /\ mgr'.service = "on" /\ mgr'.configured = mgr.configured
      /\ mgr'.client = mgr.client /\ mgr'.link = mgr.link /\ mgr'.late = mgr.late
  BY <1>2 DEF Typed, MgrFields
<1>4. PICK answer \in {"ask", "refused", "BUSY"} :
        LET r == IF answer = "BUSY" THEN Result("BUSY", w) ELSE LibOp(w, "discovery", f, answer = "refused")
        IN CASE r.st = "PENDING" -> w' = r.w /\ api' = Enter(wait) /\ frames' = Pushed
             [] r.st = "BUSY" /\ api.tries < 3 ->
                  api' = [api EXCEPT !.tries = @ + 1] /\ UNCHANGED <<w, frames>>
             [] OTHER -> emergency_recovery /\ UNCHANGED <<api, frames>>
  BY DEF Configure
<1> DEFINE r == IF answer = "BUSY" THEN Result("BUSY", w) ELSE LibOp(w, "discovery", f, answer = "refused")
<1>5. \/ r.st = "PENDING" /\ w' = r.w /\ api' = Enter(wait) /\ frames' = Pushed
      \/ api' = [api EXCEPT !.tries = @ + 1] /\ UNCHANGED <<w, frames>>
      \/ emergency_recovery /\ UNCHANGED <<api, frames>>
  BY <1>4
<1>6. r.st = "PENDING" => WorldOk(r.w) /\ r.w.aborted = w.aborted /\ Asked(r.w, f)
  <2>1. CASE answer = "BUSY"
    BY <2>1 DEF Result
  <2>2. CASE answer # "BUSY"
    <3> DEFINE d == LibOp(w, "discovery", f, answer = "refused")
    <3>1. (answer = "refused") \in BOOLEAN
      OBVIOUS
    <3>2. /\ WorldOk(d.w) /\ d.w.aborted = w.aborted
          /\ IF d.st = "PENDING" THEN Asked(d.w, f) ELSE Idle(d.w)
      BY <1>2, <3>1, IdleAsks
    <3>3. r = d
      BY <2>2
    <3> QED
      BY <3>2, <3>3
  <2> QED
    BY <2>1, <2>2
<1> HIDE DEF r
<1>7. CASE r.st = "PENDING" /\ w' = r.w /\ api' = Enter(wait) /\ frames' = Pushed
  <2>1. /\ api'.stack = Append(api.stack, f) /\ DOMAIN api' = ApiFields /\ api'.pc = wait
    BY <1>7 DEF Enter, Typed, ApiFields
  <2>2. /\ FramesOf(frames', api'.stack, mgr.link) /\ Len(api'.stack) = 1 /\ api'.stack[1] = f
        /\ frames'[f].sem = 0
    <3>1. Len(api.stack) <= 2
      BY <1>2
    <3> QED
      BY <1>2, <1>7, <2>1, <3>1, Entered
  <2> HIDE DEF f
  <2>3. FramesOk'
    BY <1>3, <2>2 DEF FramesOk
  <2>4. ClientOk'
    <3>1. \A i \in 1 .. Len(api'.stack) : frames'[api'.stack[i]].sem = 0
      BY <2>2
    <3> QED
      BY <1>2, <1>3, <3>1 DEF ClientOk, KillPending
  <2>5. AtDiscoveryWait'
    BY <1>3, <1>6, <1>7, <2>1, <2>2 DEF AtDiscoveryWait, Waits1, Sem, Top
  <2>6. PcOk'
    BY <2>1, <2>5 DEF PcOk, Pcs
  <2> QED
    BY <1>3, <1>6, <1>7, <2>1, <2>3, <2>4, <2>6 DEF Survives, JniOk, Typed
<1>8. CASE api' = [api EXCEPT !.tries = @ + 1] /\ UNCHANGED <<w, frames>>
  <2>1. api'.stack = api.stack /\ DOMAIN api' = ApiFields /\ api'.pc = api.pc
    BY <1>8 DEF Typed, ApiFields
  <2>2. FramesOk'
    BY <1>2, <1>3, <1>8, <2>1 DEF FramesOk
  <2>3. ClientOk'
    BY <1>2, <1>3, <1>8, <2>1 DEF ClientOk, KillPending
  <2>4. AtDiscovery'
    BY <1>1, <1>3, <1>8, <2>1 DEF AtDiscovery
  <2>5. PcOk'
    BY <2>1, <2>4 DEF PcOk, Pcs
  <2> QED
    BY <1>2, <1>3, <1>8, <2>1, <2>2, <2>3, <2>5 DEF Survives, JniOk, Typed
<1>9. CASE emergency_recovery /\ UNCHANGED <<api, frames>>
  BY <1>3, <1>9, RecoveryDies
<1> QED
  BY <1>5, <1>7, <1>8, <1>9

(* nfc_jni_stop_discovery_locked and nfc_jni_start_discovery_locked.       *)
LEMMA ConfiguresSurvive ==
  ASSUME Jni, Typed, JniOk, nfc_jni_stop_discovery_locked \/ nfc_jni_start_discovery_locked
  PROVE  Survives \/ Dies
<1>1. CASE nfc_jni_stop_discovery_locked
  BY <1>1, ConfigureSurvives DEF nfc_jni_stop_discovery_locked, At
<1>2. CASE nfc_jni_start_discovery_locked
  BY <1>2, ConfigureSurvives DEF nfc_jni_start_discovery_locked, At
<1> QED
  BY <1>1, <1>2

(* The answers to them, and to doCheckLlcp's: the frame is given back, or  *)
(* kept as the link's.                                                     *)
LEMMA LastWaitSurvives ==
  ASSUME Jni, Typed, JniOk, StopWait \/ StartWait \/ CheckWait
  PROVE  Survives
<1>1. api.pc \in {"stopWait", "startWait", "checkWait"} /\ AtDiscoveryWait /\ UNCHANGED <<w, q, user>> /\ Answered
  BY DEF StopWait, StartWait, CheckWait, At, JniOk, PcOk
<1>2. FramesOk /\ ClientOk /\ WorldOk(w) /\ Len(api.stack) = 1 /\ mgr.service = "on"
  BY <1>1 DEF JniOk, AtDiscoveryWait
<1>3. 1 \in 1 .. Len(api.stack) /\ Top = api.stack[1] /\ Top \in FrameIds /\ Top # mgr.link /\ Top # 0
  BY <1>2, TheirFrames DEF FramesOk, FramesOf
<1>4. FramesOf(Popped, <<>>, mgr.link) /\ Left = <<>>
  BY <1>2, LastLeft
<1>5. Idle(w)
  BY <1>1, <1>3 DEF AtDiscoveryWait, Waits1, Answered, Sem
<1>6. \/ api' = NoCall
      \/ api' = [api EXCEPT !.stack = Left, !.pc = "start", !.tries = 0]
  BY DEF StopWait, StartWait, CheckWait
<1>7. DOMAIN api' = ApiFields /\ api'.stack = <<>> /\ ((api' = NoCall /\ api'.pc = "none") \/ api'.pc = "start")
  <2>1. CASE api' = NoCall
    BY <2>1 DEF NoCall, ApiFields
  <2>2. CASE api' = [api EXCEPT !.stack = Left, !.pc = "start", !.tries = 0]
    <3> HIDE DEF Left
    <3>1. api'.stack = Left /\ api'.pc = "start" /\ DOMAIN api' = ApiFields
      BY <2>2 DEF Typed, ApiFields
    <3> QED
      BY <1>4, <3>1
  <2> QED
    BY <1>6, <2>1, <2>2
<1>8. /\ DOMAIN mgr' = MgrFields /\ mgr'.service = "on" /\ mgr'.configured = mgr.configured
      /\ mgr'.client = mgr.client /\ mgr'.late = mgr.late /\ FramesOf(frames', <<>>, mgr'.link)
  <2>1. CASE frames' = Popped /\ mgr' = mgr
    BY <1>2, <1>4, <2>1 DEF Typed
  <2>2. CASE api.pc = "checkWait" /\ frames' = Popped /\ mgr' = [mgr EXCEPT !.link = Top, !.up = FALSE]
    <3>1. /\ DOMAIN mgr' = MgrFields /\ mgr'.service = "on" /\ mgr'.configured = mgr.configured
          /\ mgr'.client = mgr.client /\ mgr'.late = mgr.late /\ mgr'.link = Top
      BY <1>2, <2>2 DEF Typed, MgrFields
    <3>2. frames[Top].mem
      BY <1>1, <2>2 DEF AtDiscoveryWait
    <3>3. Popped[Top].mem
      BY <1>2, <1>3, <3>2 DEF Popped, FramesOk, FramesOf, FrameLike
    <3> QED
      BY <1>3, <1>4, <2>2, <3>1, <3>3 DEF FramesOf
  <2>3. CASE frames' = [Popped EXCEPT ![Top].mem = FALSE] /\ mgr' = mgr
    <3> DEFINE p == Popped
               x == [p[Top] EXCEPT !.mem = FALSE]
    <3>1. p = [g \in FrameIds |-> p[g]] /\ \A g \in FrameIds : FrameLike(p[g])
      BY <1>4 DEF FramesOf
    <3> HIDE DEF p
    <3>2. FrameLike(x)
      BY <1>3, <3>1 DEF FrameLike
    <3>3. frames' = [p EXCEPT ![Top] = x]
      BY <2>3 DEF p
    <3> HIDE DEF x
    <3>4. /\ frames' = [g \in FrameIds |-> frames'[g]] /\ frames'[Top] = x
          /\ \A g \in FrameIds : g # Top => frames'[g] = p[g]
      BY <1>3, <3>1, <3>3
    <3>5. FramesOf(frames', <<>>, mgr.link)
      BY <1>3, <1>4, <3>1, <3>2, <3>4 DEF FramesOf, p
    <3> QED
      BY <1>2, <2>3, <3>5 DEF Typed
  <2> QED
    BY <1>1, <2>1, <2>2, <2>3 DEF StopWait, StartWait, CheckWait, At
<1>9. FramesOk'
  BY <1>7, <1>8 DEF FramesOk
<1>10. ClientOk'
  BY <1>1, <1>2, <1>7, <1>8 DEF ClientOk, KillPending
<1>11. PcOk'
  <2>1. CASE api' = NoCall /\ api'.pc = "none"
    <3>1. AtNone'
      BY <1>1, <1>5, <1>8, <2>1 DEF AtNone, Rests, Quiet, Settled
    <3> QED
      BY <2>1, <3>1 DEF PcOk, Pcs
  <2>2. CASE api'.pc = "start"
    <3>1. AtDiscovery'
      BY <1>1, <1>5, <1>7, <1>8 DEF AtDiscovery
    <3> QED
      BY <2>2, <3>1 DEF PcOk, Pcs
  <2> QED
    BY <1>7, <2>1, <2>2
<1> QED
  BY <1>1, <1>2, <1>7, <1>8, <1>9, <1>10, <1>11 DEF Survives, JniOk, Typed

(* doCheckLlcp begins: the frame is memory of the link's too.              *)
LEMMA CheckSurvives ==
  ASSUME Jni, Typed, JniOk, doCheckLlcp
  PROVE  Survives
<1> DEFINE f == FreshFrame
<1>1. /\ api.pc = "none" /\ api = NoCall /\ ~KillPending /\ AtNone /\ mgr.service = "on" /\ Unused # {}
      /\ UNCHANGED <<q, mgr, user>>
  BY DEF doCheckLlcp, Start, JniOk, PcOk, NoCall
<1>2. WorldOk(w) /\ Idle(w) /\ FramesOk /\ ClientOk
  BY <1>1 DEF JniOk, AtNone
<1>3. api.stack = <<>>
  BY <1>1 DEF NoCall
<1>4. PICK refused \in BOOLEAN :
        LET r == LibOp(w, "config", f, refused)
        IN /\ w' = r.w
           /\ IF r.st = "PENDING"
              THEN /\ frames' = [Pushed EXCEPT ![f].mem = TRUE]
                   /\ api' = [Enter("checkWait") EXCEPT !.call = "doCheckLlcp"]
              ELSE UNCHANGED <<api, frames>>
  BY DEF doCheckLlcp
<1> DEFINE r == LibOp(w, "config", f, refused)
<1>5. /\ WorldOk(r.w) /\ r.w.aborted = w.aborted
      /\ IF r.st = "PENDING" THEN Asked(r.w, f) ELSE Idle(r.w)
  BY <1>2, IdleAsks
<1>6. /\ w' = r.w
      /\ IF r.st = "PENDING"
         THEN /\ frames' = [Pushed EXCEPT ![f].mem = TRUE]
              /\ api' = [Enter("checkWait") EXCEPT !.call = "doCheckLlcp"]
         ELSE UNCHANGED <<api, frames>>
  BY <1>4
<1> HIDE DEF r
<1>7. CASE r.st = "PENDING"
  <2>1. /\ api'.stack = Append(api.stack, f) /\ DOMAIN api' = ApiFields /\ api'.pc = "checkWait"
    BY <1>6, <1>7 DEF Enter, Typed, ApiFields
  <2> DEFINE p == Pushed
             x == [p[f] EXCEPT !.mem = TRUE]
  <2>2. /\ FramesOf(p, Append(api.stack, f), mgr.link) /\ f \in FrameIds
        /\ Len(Append(api.stack, f)) = 1 /\ Append(api.stack, f)[1] = f /\ p[f].sem = 0 /\ p[f].live
    <3>1. Len(api.stack) <= 2 /\ Len(api.stack) = 0
      BY <1>3
    <3> QED
      BY <1>1, <1>2, <3>1, Entered
  <2>3. p = [g \in FrameIds |-> p[g]] /\ \A g \in FrameIds : FrameLike(p[g])
    BY <2>2 DEF FramesOf
  <2> HIDE DEF p, f
  <2>4. FrameLike(x) /\ x.live /\ x.mem /\ x.sem = 0
    BY <2>2, <2>3 DEF FrameLike
  <2>5. frames' = [p EXCEPT ![f] = x]
    BY <1>6, <1>7 DEF p
  <2> HIDE DEF x
  <2>6. /\ frames' = [g \in FrameIds |-> frames'[g]] /\ frames'[f] = x
        /\ \A g \in FrameIds : g # f => frames'[g] = p[g]
    BY <2>2, <2>3, <2>5
  <2>7. FramesOf(frames', Append(api.stack, f), mgr.link)
    <3>1. \A g \in FrameIds : FrameLike(frames'[g]) /\ (p[g].live => frames'[g].live) /\ (p[g].mem => frames'[g].mem)
      BY <2>3, <2>4, <2>6
    <3> HIDE DEF p
    <3> QED
      BY <2>2, <2>6, <3>1 DEF FramesOf
  <2>8. FramesOk'
    BY <1>1, <2>1, <2>7 DEF FramesOk
  <2>9. ClientOk'
    <3>1. \A i \in 1 .. Len(api'.stack) : frames'[api'.stack[i]].sem = 0
      BY <2>1, <2>2, <2>4, <2>6
    <3> QED
      BY <1>1, <1>2, <3>1 DEF ClientOk, KillPending
  <2>10. AtDiscoveryWait'
    BY <1>1, <1>5, <1>6, <1>7, <2>1, <2>2, <2>4, <2>6 DEF AtDiscoveryWait, Waits1, Sem, Top
  <2>11. PcOk'
    BY <2>1, <2>10 DEF PcOk, Pcs
  <2> QED
    BY <1>1, <1>5, <1>6, <1>7, <2>1, <2>8, <2>9, <2>11 DEF Survives, JniOk, Typed
<1>8. CASE r.st # "PENDING"
  <2>1. UNCHANGED <<api, frames, q, mgr, user>> /\ WorldOk(w') /\ w'.aborted = w.aborted /\ Idle(w')
    BY <1>1, <1>5, <1>6, <1>8
  <2>2. FramesOk' /\ ClientOk'
    BY <1>2, <2>1 DEF FramesOk, ClientOk, KillPending
  <2>3. AtNone'
    BY <1>1, <2>1 DEF AtNone, Rests, Quiet, Settled
  <2>4. PcOk'
    BY <1>1, <2>1, <2>3 DEF PcOk, Pcs
  <2> QED
    BY <1>1, <2>1, <2>2, <2>4 DEF Survives, JniOk, Typed
<1> QED
  BY <1>7, <1>8

(* doDownload begins.                                                      *)
LEMMA DoDownloadSurvives ==
  ASSUME Jni, Typed, JniOk, doDownload
  PROVE  Survives
<1>1. /\ api.pc = "none" /\ api = NoCall /\ ~KillPending /\ AtNone /\ mgr.service = "off"
      /\ UNCHANGED <<w, q, frames, mgr, user>> /\ api' = [NoCall EXCEPT !.call = "doDownload", !.pc = "pd"]
  BY DEF doDownload, Start, JniOk, PcOk, NoCall
<1>2. /\ api'.stack = <<>> /\ api.stack = <<>> /\ DOMAIN api' = ApiFields /\ api'.pc = "pd"
      /\ api'.call = "doDownload"
  BY <1>1 DEF NoCall, ApiFields
<1>3. FramesOk' /\ ClientOk'
  BY <1>1, <1>2 DEF JniOk, FramesOk, ClientOk, KillPending
<1>4. AtPd'
  BY <1>1, <1>2 DEF AtNone, AtPd, ByItself
<1>5. PcOk'
  BY <1>2, <1>4 DEF PcOk, Pcs
<1> QED
  BY <1>1, <1>2, <1>3, <1>5 DEF Survives, JniOk, Typed

-------------------------------------------------------------------------------
(* What is aside of the calls: nothing that they stand on changes.         *)
Aloof ==
  /\ UNCHANGED <<w, api, user>>
  /\ FramesOf(frames', api.stack, mgr'.link)
  /\ \A i \in 1 .. Len(api.stack) : frames'[api.stack[i]] = frames[api.stack[i]]
  /\ DOMAIN mgr' = MgrFields /\ mgr'.configured = mgr.configured /\ mgr'.client = mgr.client
  /\ mgr'.service = mgr.service /\ mgr'.late = mgr.late
  /\ q' \in Seq(Msgs) /\ (KillPending' => KillPending)

(* So the calls stand where they stood.                                    *)
LEMMA AloofSurvives ==
  ASSUME Typed, JniOk, Aloof
  PROVE  Survives
<1>1. FramesOk'
  BY DEF Aloof, FramesOk
<1>2. ClientOk'
  BY DEF Aloof, JniOk, ClientOk
<1>3. /\ Rests' = Rests /\ Top' = Top /\ Starting' = Starting /\ ByItself' = ByItself
  BY DEF Aloof, Rests, Top, Starting, ByItself
<1>4. /\ Len(api.stack) = 1 => frames'[api.stack[1]] = frames[api.stack[1]] /\ frames'[Top] = frames[Top]
      /\ Len(api.stack) = 2 => /\ frames'[api.stack[1]] = frames[api.stack[1]]
                               /\ frames'[api.stack[2]] = frames[api.stack[2]] /\ frames'[Top] = frames[Top]
      /\ Len(api.stack) = 3 => /\ frames'[api.stack[1]] = frames[api.stack[1]]
                               /\ frames'[api.stack[2]] = frames[api.stack[2]] /\ frames'[Top] = frames[Top]
  <2>1. Len(api.stack) = 1 => 1 \in 1 .. Len(api.stack)
    OBVIOUS
  <2>2. Len(api.stack) = 2 => 1 \in 1 .. Len(api.stack) /\ 2 \in 1 .. Len(api.stack)
    OBVIOUS
  <2>3. Len(api.stack) = 3 => 1 \in 1 .. Len(api.stack) /\ 2 \in 1 .. Len(api.stack) /\ 3 \in 1 .. Len(api.stack)
    OBVIOUS
  <2> QED
    BY <2>1, <2>2, <2>3 DEF Aloof, Top
<1>5. /\ Within(1) => Within(1)' /\ (Waits1 => Waits1')
      /\ Within(2) => Within(2)' /\ (SecondRests => SecondRests')
      /\ Within(3) => Within(3)' /\ (SecondRests => SecondRests')
      /\ Len(api.stack) = 1 => (Waits1 => Waits1')
  BY <1>3, <1>4 DEF Aloof, Within, Starting, SecondRests, Waits1, Sem
<1> USE DEF Aloof
<1>6. CASE api.pc \in {"none", "hw", "init", "initWait", "caps", "dl"}
  <2>1. /\ AtNone => AtNone'
        /\ AtHw => AtHw'
        /\ AtInit => AtInit'
        /\ AtCaps => AtCaps'
        /\ AtDl => AtDl'
    BY <1>3, <1>4, <1>5 DEF AtNone, AtHw, AtInit, AtCaps, AtDl, Sem
  <2>2. AtInitWait => AtInitWait'
    BY <1>3, <1>4 DEF AtInitWait, Sem, Good
  <2> QED
    BY <1>1, <1>2, <1>6, <2>1, <2>2 DEF Survives, JniOk, Typed, PcOk, Pcs
<1>7. CASE api.pc \in {"dlDeinitWait", "pd", "pdWait", "pdEnd", "dlInit", "dlInitWait", "dlEnd"}
  <2>1. AtDlDeinitWait => AtDlDeinitWait'
    BY <1>3, <1>4, <1>5 DEF AtDlDeinitWait, Within, Sem
  <2>2. /\ AtPd => AtPd'
        /\ AtPdEnd => AtPdEnd'
        /\ AtDlInit => AtDlInit'
        /\ AtDlEnd => AtDlEnd'
    BY <1>3, <1>5 DEF AtPd, AtPdEnd, AtDlInit, AtDlEnd
  <2>3. Len(api.stack) \in {1, 2, 3} => frames'[Top] = frames[Top]
    BY <1>4
  <2>4. AtPdWait => AtPdWait'
    BY <1>3, <1>5, <2>3 DEF AtPdWait, Within
  <2>5. AtDlInitWait => AtDlInitWait'
    BY <1>3, <1>5, <2>3 DEF AtDlInitWait, Within
  <2> QED
    BY <1>1, <1>2, <1>7, <2>1, <2>2, <2>4, <2>5 DEF Survives, JniOk, Typed, PcOk, Pcs
<1>8. CASE api.pc \in {"eeprom", "eepromWait", "seWait", "llcpWait", "se", "llcp", "ntf", "stop", "start",
                       "stopWait", "startWait", "checkWait", "deinitWait", "unconfigure", "recovery"}
  <2>1. /\ AtEeprom => AtEeprom'
        /\ AtAskedWait => AtAskedWait'
        /\ AtAsk => AtAsk'
        /\ AtDiscovery => AtDiscovery'
        /\ AtUnconfigure => AtUnconfigure'
        /\ AtRecovery => AtRecovery'
    BY <1>3, <1>5 DEF AtEeprom, AtAskedWait, AtAsk, AtDiscovery, AtUnconfigure, AtRecovery
  <2>2. AtDiscoveryWait => AtDiscoveryWait'
    BY <1>3, <1>4, <1>5 DEF AtDiscoveryWait
  <2>3. AtDeinitWait => AtDeinitWait'
    BY <1>3, <1>4 DEF AtDeinitWait, Sem, Good
  <2> QED
    BY <1>1, <1>2, <1>8, <2>1, <2>2, <2>3 DEF Survives, JniOk, Typed, PcOk, Pcs
<1> QED
  BY <1>6, <1>7, <1>8 DEF JniOk, PcOk, Pcs

(* Another program is not disturbed either.                                *)
ToolSurvives == Typed' /\ ToolOk' /\ UNCHANGED user /\ w'.aborted = w.aborted

(* And the frames, of which it has none, are as they were.                 *)
LEMMA AloofTool ==
  ASSUME Typed, ToolOk, Aloof, frames' = frames, mgr'.link = mgr.link
  PROVE  ToolSurvives
  BY DEF Aloof, ToolSurvives, Typed, ToolOk

(* The calls that are aside.                                               *)
LEMMA SideIsAloof ==
  ASSUME Jni, Typed, FramesOk,
         SetTimeout \/ ResetTimeouts \/ doActivateLlcp \/ doCreateLlcpConnectionlessSocket
           \/ doCreateLlcpServiceSocket \/ doCreateLlcpSocket \/ doSetP2pModes
  PROVE  Aloof
<1> USE DEF FramesOk
<1>1. CASE SetTimeout \/ ResetTimeouts
  <2>1. UNCHANGED <<w, q, api, frames, mgr, user>>
    BY <1>1 DEF SetTimeout, ResetTimeouts
  <2> QED
    BY <2>1 DEF Aloof, KillPending, Typed
<1>2. CASE doActivateLlcp
  <2>1. UNCHANGED <<w, api, frames, mgr, user>> /\ q' = Append(q, "linkUp") /\ "linkUp" \in Msgs
    BY <1>2 DEF doActivateLlcp, Msgs
  <2>2. KillAfter("linkUp")
    BY <2>1, QueueAppended DEF Typed
  <2> QED
    BY <2>1, <2>2 DEF Aloof, KillAfter, Typed
<1>3. CASE doCreateLlcpConnectionlessSocket \/ doCreateLlcpServiceSocket \/ doCreateLlcpSocket
  <2>1. PICK kind : Socket(kind)
    BY <1>3 DEF doCreateLlcpConnectionlessSocket, doCreateLlcpServiceSocket, doCreateLlcpSocket
  <2>2. \/ mgr' = [mgr EXCEPT !.socks = @ \cup {kind}]
        \/ \E err : mgr' = [mgr EXCEPT !.lastErr = err]
    BY <2>1 DEF Socket
  <2>3. UNCHANGED <<w, q, api, frames, user>>
    BY <2>1 DEF Socket
  <2> QED
    BY <2>2, <2>3 DEF Aloof, KillPending, Typed, MgrFields
<1>4. CASE doSetP2pModes
  <2>1. UNCHANGED <<w, q, api, frames, user>> /\ mgr' = [mgr EXCEPT !.p2p = ~@]
    BY <1>4 DEF doSetP2pModes
  <2> QED
    BY <2>1 DEF Aloof, KillPending, Typed, MgrFields
<1> QED
  BY <1>1, <1>2, <1>3, <1>4

(* The chip and the link speak: the queue grows.                           *)
LEMMA ChipIsAloof ==
  ASSUME Alive, Typed, FramesOk, ChipAnswers \/ ChipSpeaks \/ LinkLost
  PROVE  Aloof /\ frames' = frames /\ mgr'.link = mgr.link
<1>1. PICK m \in Msgs : q' = Append(q, m) /\ m # "kill"
  <2>1. CASE ChipAnswers
    BY <2>1 DEF ChipAnswers, Answers, Msgs
  <2>2. CASE ChipSpeaks
    <3>1. PICK m \in EventKinds \cup DOMAIN Lists \cup {"incoming"} : q' = Append(q, m)
      BY <2>2 DEF ChipSpeaks
    <3>2. m \in Msgs /\ m # "kill"
      BY <3>1, ConstantsAssumption DEF Msgs, Events, Emulation
    <3> QED
      BY <3>1, <3>2
  <2>3. CASE LinkLost
    BY <2>3 DEF LinkLost, Msgs
  <2> QED
    BY <2>1, <2>2, <2>3
<1>2. UNCHANGED <<w, api, frames, mgr, user>>
  BY DEF ChipAnswers, ChipSpeaks, LinkLost
<1>3. KillAfter(m)
  BY <1>1, QueueAppended DEF Typed
<1> QED
  BY <1>1, <1>2, <1>3 DEF Aloof, KillAfter, Typed, FramesOk

(* doAbort.                                                                *)
LEMMA AbortDies ==
  ASSUME JniOk, doAbort
  PROVE  Dies
  BY RecoveryDies DEF doAbort

(* The other program's call.                                               *)
LEMMA ToolCallSurvives ==
  ASSUME Alive, Typed, ToolOk, ToolCall
  PROVE  ToolSurvives
<1>1. PICK fault \in {"none", "memory", "hci"} : \E r \in ToolCalls(fault) : w' = r.w
  BY DEF ToolCall
<1>2. PICK r \in ToolCalls(fault) : w' = r.w
  BY <1>1
<1>3. ToolMay(w, w')
  BY <1>1, <1>2, ToolCallPhase DEF ToolOk
<1>4. UNCHANGED <<q, api, frames, user>> /\ mgr' = [mgr EXCEPT !.client = TRUE]
  BY DEF ToolCall
<1>5. DOMAIN mgr' = MgrFields /\ mgr'.link = mgr.link
  BY <1>4 DEF Typed, MgrFields
<1> QED
  BY <1>3, <1>4, <1>5 DEF ToolMay, ToolSurvives, Typed, ToolOk

-------------------------------------------------------------------------------
(* What the client thread does to the phase and to the frames when it      *)
(* passes on, or drops, a message of the layer below.                      *)
Told(c, st) ==
  c \in FrameIds /\ frames[c].live => frames'[c].sem = frames[c].sem + 1 /\ frames'[c].st = st
Turned ==
  /\ WorldOk(w') /\ w'.aborted = w.aborted
  /\ FramesOf(frames', api.stack, mgr.link) /\ \A g \in FrameIds : frames'[g].mem = frames[g].mem
  /\ \A g \in FrameIds \ Owed(w) : frames'[g] = frames[g]
  /\ Owed(w') \subseteq Owed(w) \cup {0}
  /\ Shut(w) => Shut(w') /\ frames' = frames
  /\ Refused(w) => Refused(w') /\ frames' = frames
  /\ Broken(w) => Broken(w') /\ frames' = frames
  /\ Idle(w) => Idle(w') /\ frames' = frames
  /\ Opens(w) => \/ Opens(w') /\ w'.lib.initCb = w.lib.initCb /\ frames' = frames
                 \/ Idle(w') /\ Told(w.lib.initCb, "SUCCESS")
                 \/ Shut(w') /\ Told(w.lib.initCb, "FAILED")
  /\ Closing(w) => \/ Closing(w') /\ w'.lib.shutCb = w.lib.shutCb /\ frames' = frames
                   \/ Shut(w') /\ Told(w.lib.shutCb, "SUCCESS")
                   \/ Broken(w') /\ Told(w.lib.shutCb, "FAILED")
  /\ Downloading(w) => \/ Downloading(w') /\ w'.lib.opCb = w.lib.opCb /\ frames' = frames
                       \/ Shut(w') /\ \E st : Told(w.lib.opCb, st)
  /\ \A f \in FrameIds : Asked(w, f) => \/ Asked(w', f) /\ frames' = frames
                                        \/ Idle(w') /\ \E st : Told(f, st)

(* The phases that this file brings about.                                 *)
Known == Quiet(w) \/ Downloading(w) \/ \E f \in FrameIds : Asked(w, f)

(* Wherever a call stands, it is one of them.                              *)
LEMMA JniKnows ==
  ASSUME JniOk
  PROVE  Known
<1> USE DEF Known, Quiet, Settled, JniOk
<1>1. Len(api.stack) = 1 => Top \in FrameIds
  <2>1. Len(api.stack) = 1 => 1 \in 1 .. Len(api.stack)
    OBVIOUS
  <2> QED
    BY <2>1, TheirFrames
<1>2. CASE api.pc \in {"none", "hw", "init", "initWait", "caps", "dl", "dlEnd", "eeprom", "recovery"}
  BY <1>2 DEF PcOk, AtNone, AtHw, AtInit, AtInitWait, AtCaps, AtDl, AtDlEnd, AtEeprom, AtRecovery, Rests
<1>3. CASE api.pc \in {"dlDeinitWait", "pd", "pdWait", "pdEnd", "dlInit", "dlInitWait"}
  BY <1>3 DEF PcOk, AtDlDeinitWait, AtPd, AtPdWait, AtPdEnd, AtDlInit, AtDlInitWait, Rests
<1>4. CASE api.pc \in {"se", "llcp", "ntf", "stop", "start", "unconfigure", "deinitWait"}
  BY <1>4 DEF PcOk, AtAsk, AtDiscovery, AtUnconfigure, AtDeinitWait
<1>5. CASE api.pc \in {"eepromWait", "seWait", "llcpWait", "stopWait", "startWait", "checkWait"}
  BY <1>1, <1>5 DEF PcOk, AtAskedWait, AtDiscoveryWait, Waits1
<1> QED
  BY <1>2, <1>3, <1>4, <1>5 DEF PcOk, Pcs

(* The phases look at the two layers only.                                 *)
LEMMA PhasesKept ==
  ASSUME NEW v, NEW u, u.hal = v.hal, u.lib = v.lib
  PROVE  /\ Shut(u) = Shut(v) /\ Refused(u) = Refused(v) /\ Broken(u) = Broken(v) /\ Idle(u) = Idle(v)
         /\ Opens(u) = Opens(v) /\ Closing(u) = Closing(v) /\ Downloading(u) = Downloading(v)
         /\ Opening(u) = Opening(v) /\ Up_(u) = Up_(v) /\ Owed(u) = Owed(v)
         /\ \A f : Asked(u, f) = Asked(v, f)
  BY DEF Shut, Refused, Broken, Idle, Ready, Up_, Opens, Opening, Closing, Downloading, Asked, Owed

(* What tells the phases apart where a message is heard.                   *)
LEMMA PhasesApart ==
  ASSUME NEW v
  PROVE  /\ Shut(v) \/ Refused(v) \/ Broken(v) =>
              /\ v.hal.hci = "none" /\ (v.hal.ctx # "live" \/ v.hal.cur = "Closed")
         /\ Idle(v) => ~v.lib.gen /\ v.lib.next = "Invalid" /\ v.lib.cur # "Shutdown"
         /\ \A f : Asked(v, f) => v.lib.gen /\ v.lib.next # "Shutdown" /\ v.lib.cur # "Shutdown" /\ v.lib.opCb = f
         /\ Opens(v) => v.hal.hci = "init" /\ v.hal.cur = "Closed" /\ v.lib.cur = "Shutdown"
         /\ Downloading(v) => v.hal.hci = "download" /\ v.hal.cur = "Closed" /\ v.lib.cur = "Shutdown"
         /\ Closing(v) => v.hal.hci = "release" /\ v.lib.next = "Shutdown" /\ v.lib.cur # "Shutdown"
         /\ (Idle(v) \/ Closing(v) \/ \E f : Asked(v, f)) => Up_(v)
  BY DEF Shut, Refused, Broken, Idle, Ready, Up_, Opens, Opening, Closing, Downloading, Asked, NoLib, ClosedHal

(* A message dropped.                                                      *)
LEMMA DroppedTurns ==
  ASSUME WorldOk(w), FramesOk, w' = Calmed(w), frames' = nfc_jni_callback(<<>>)
  PROVE  Turned
<1>1. WorldLike(w') /\ w'.posted = <<>> /\ w'.hal = w.hal /\ w'.lib = w.lib /\ w'.aborted = w.aborted
  BY CalmedPhase DEF WorldOk
<1>2. frames' = frames
  BY CalledBack
<1> HIDE DEF Calmed
<1>3. /\ Shut(w') = Shut(w) /\ Refused(w') = Refused(w) /\ Broken(w') = Broken(w) /\ Idle(w') = Idle(w)
      /\ Opens(w') = Opens(w) /\ Closing(w') = Closing(w) /\ Downloading(w') = Downloading(w)
      /\ Opening(w') = Opening(w) /\ Up_(w') = Up_(w) /\ Owed(w') = Owed(w)
      /\ \A f : Asked(w', f) = Asked(w, f)
  BY <1>1, PhasesKept
<1>4. WorldOk(w')
  BY <1>1, <1>3 DEF WorldOk
<1>5. FramesOf(frames', api.stack, mgr.link)
  BY <1>2 DEF FramesOk
<1> QED
  BY <1>1, <1>2, <1>3, <1>4, <1>5 DEF Turned

(* What is the same in every phase that hears a message.                   *)
LEMMA TurnedRest ==
  ASSUME FramesOk, NEW n, WorldLike(n), WorldOk(Calmed(n)), n.aborted = w.aborted, w' = Calmed(n),
         frames' = nfc_jni_callback(n.posted),
         NEW c, NEW st, n.posted = <<>> \/ (c \in Owed(w) /\ n.posted = << <<c, st>> >>)
  PROVE  /\ WorldOk(w') /\ w'.aborted = w.aborted /\ w'.hal = n.hal /\ w'.lib = n.lib
         /\ FramesOf(frames', api.stack, mgr.link) /\ \A g \in FrameIds : frames'[g].mem = frames[g].mem
         /\ \A g \in FrameIds \ Owed(w) : frames'[g] = frames[g]
         /\ n.posted = <<>> => frames' = frames
         /\ n.posted = << <<c, st>> >> => Told(c, st)
<1>1. WorldOk(w') /\ w'.aborted = w.aborted /\ w'.hal = n.hal /\ w'.lib = n.lib
  BY CalmedPhase
<1>2. CASE n.posted = <<>>
  <2>1. frames' = frames
    BY <1>2, CalledBack
  <2>2. n.posted # << <<c, st>> >>
    BY <1>2
  <2> QED
    BY <1>1, <1>2, <2>1, <2>2 DEF FramesOk
<1>3. CASE c \in Owed(w) /\ n.posted = << <<c, st>> >>
  <2> DEFINE p == nfc_jni_callback(<< <<c, st>> >>)
  <2>1. /\ FramesOf(p, api.stack, mgr.link)
        /\ \A g \in FrameIds : /\ p[g].live = frames[g].live /\ p[g].mem = frames[g].mem
                               /\ g # c => p[g] = frames[g]
        /\ c \in FrameIds /\ frames[c].live => p[c].sem = frames[c].sem + 1 /\ p[c].st = st
    BY CalledBack
  <2>2. frames' = p
    BY <1>3
  <2>3. n.posted # <<>>
    BY <1>3
  <2> HIDE DEF p
  <2> QED
    BY <1>1, <1>3, <2>1, <2>2, <2>3 DEF Told
<1> QED
  BY <1>2, <1>3
-------------------------------------------------------------------------------
(* A message heard that does not end the process.                          *)
LEMMA HeardTurns ==
  ASSUME Alive, FramesOk, WorldOk(w), Known, NEW m \in Events \cup Answers, Heard(m),
         NEW n, n = Notified(w, m, {}), ~n.aborted, w' = Calmed(n), frames' = nfc_jni_callback(n.posted)
  PROVE  Turned
<1>1. WorldLike(w) /\ w.posted = <<>> /\ ~w.hal.used
  BY DEF WorldOk
<1>2. WorldOk(Calmed(n)) /\ Lives(w, n)
  BY WorldHears
<1>3. n.aborted = w.aborted /\ WorldLike(n)
  BY <1>2 DEF Lives
<1> HIDE DEF Calmed
<1> USE DEF Answers
<1>4. ~Shut(w) /\ ~Refused(w) /\ ~Broken(w)
  BY PhasesApart DEF Heard
<1>5. m = "device" => ~Up_(w)
  BY <1>1, UpDies
<1>6. m \in {"done", "error"} => w.hal.hci # "none"
  BY DEF Heard
<1>7. m \in Events => w.hal.cur # "Closed"
  <2>1. "done" \notin Events /\ "error" \notin Events /\ "device" \notin Events
    BY DEF Events, Emulation
  <2> QED
    BY <2>1 DEF Heard
<1>8. 0 \notin FrameIds
  BY ConstantsAssumption
<1>9. CASE Idle(w)
  <2>1. m \in Events \cup {"done", "error"}
    BY <1>5, <1>9, PhasesApart
  <2>2. n.posted = <<>> /\ Idle(n)
    BY <1>1, <1>6, <1>9, <2>1, IdleHears
  <2>3. /\ WorldOk(w') /\ w'.aborted = w.aborted /\ w'.hal = n.hal /\ w'.lib = n.lib
        /\ FramesOf(frames', api.stack, mgr.link) /\ \A g \in FrameIds : frames'[g].mem = frames[g].mem
        /\ frames' = frames
    BY <1>2, <1>3, <2>2, TurnedRest
  <2>4. Idle(w') /\ Owed(w') \subseteq {0}
    BY <2>2, <2>3, PhasesKept, OwedBy DEF Settled
  <2>5. ~Opens(w) /\ ~Closing(w) /\ ~Downloading(w) /\ \A f : ~Asked(w, f)
    BY <1>9, PhasesApart
  <2> QED
    BY <1>4, <1>9, <2>3, <2>4, <2>5 DEF Turned
<1>10. CASE \E f \in FrameIds : Asked(w, f)
  <2>1. PICK f \in FrameIds : Asked(w, f)
    BY <1>10
  <2>2. /\ ~Idle(w) /\ ~Opens(w) /\ ~Closing(w) /\ ~Downloading(w)
        /\ \A g \in FrameIds : Asked(w, g) => g = f
        /\ Up_(w) /\ f \in Owed(w) /\ f \in Nat \ {0}
    BY <2>1, PhasesApart, ConstantsAssumption DEF Owed
  <2>3. CASE m \in Events
    <3>1. n.posted = <<>> /\ Asked(n, f)
      BY <1>1, <2>1, <2>3, AskedEvent
    <3>2. /\ WorldOk(w') /\ w'.aborted = w.aborted /\ w'.hal = n.hal /\ w'.lib = n.lib
          /\ FramesOf(frames', api.stack, mgr.link) /\ \A g \in FrameIds : frames'[g].mem = frames[g].mem
          /\ frames' = frames
      BY <1>2, <1>3, <3>1, TurnedRest
    <3>3. Asked(w', f) /\ Owed(w') \subseteq {f}
      BY <3>1, <3>2, PhasesKept, OwedBy
    <3> QED
      BY <1>4, <2>2, <3>2, <3>3 DEF Turned
  <2>4. CASE m \in {"done", "error"}
    <3> DEFINE st == Status(m = "done")
    <3>1. n.posted = << <<f, st>> >> /\ Idle(n)
      BY <1>1, <2>1, <2>2, <2>4, AskedAnswer
    <3>2. /\ WorldOk(w') /\ w'.aborted = w.aborted /\ w'.hal = n.hal /\ w'.lib = n.lib
          /\ FramesOf(frames', api.stack, mgr.link) /\ \A g \in FrameIds : frames'[g].mem = frames[g].mem
          /\ \A g \in FrameIds \ Owed(w) : frames'[g] = frames[g]
          /\ Told(f, st)
      BY <1>2, <1>3, <2>2, <3>1, TurnedRest
    <3> HIDE DEF st
    <3>3. Idle(w') /\ Owed(w') \subseteq {0}
      BY <3>1, <3>2, PhasesKept, OwedBy DEF Settled
    <3> QED
      BY <1>4, <2>2, <3>2, <3>3 DEF Turned
  <2> QED
    BY <1>5, <2>2, <2>3, <2>4
<1>11. CASE Opens(w)
  <2>1. m \in {"done", "error", "device"} /\ Opening(w) /\ w.hal.next = "OpenAndReady"
    BY <1>7, <1>11, PhasesApart DEF Opens
  <2> DEFINE c == w.lib.initCb
             st == Status(m = "done")
  <2>2. /\ n.posted = << <<c, st>> >>
        /\ m # "done" => Shut(n)
        /\ m = "done" => Idle(n)
    BY <1>1, <2>1, OpeningHears
  <2>3. c \in Owed(w)
    BY <1>11, PhasesApart DEF Owed
  <2>4. /\ WorldOk(w') /\ w'.aborted = w.aborted /\ w'.hal = n.hal /\ w'.lib = n.lib
        /\ FramesOf(frames', api.stack, mgr.link) /\ \A g \in FrameIds : frames'[g].mem = frames[g].mem
        /\ \A g \in FrameIds \ Owed(w) : frames'[g] = frames[g]
        /\ Told(c, st)
    <3> HIDE DEF c, st
    <3> QED
      BY <1>2, <1>3, <2>2, <2>3, TurnedRest
  <2>5. \/ Shut(w') /\ st = "FAILED"
        \/ Idle(w') /\ st = "SUCCESS"
    BY <2>2, <2>4, PhasesKept DEF Status
  <2>6. Owed(w') \subseteq {0}
    BY <2>5, OwedBy DEF Settled
  <2>7. ~Idle(w) /\ ~Closing(w) /\ ~Downloading(w) /\ \A f : ~Asked(w, f)
    BY <1>11, PhasesApart
  <2> QED
    BY <1>4, <2>4, <2>5, <2>6, <2>7 DEF Turned
<1>12. CASE Downloading(w)
  <2> DEFINE c == w.lib.opCb
             st == Status(m = "done")
  <2>1. n.posted = << <<c, st>> >> /\ Shut(n)
    BY <1>1, <1>12, DownloadingHears
  <2>2. c \in Owed(w)
    BY DEF Owed
  <2>3. /\ WorldOk(w') /\ w'.aborted = w.aborted /\ w'.hal = n.hal /\ w'.lib = n.lib
        /\ FramesOf(frames', api.stack, mgr.link) /\ \A g \in FrameIds : frames'[g].mem = frames[g].mem
        /\ \A g \in FrameIds \ Owed(w) : frames'[g] = frames[g]
        /\ Told(c, st)
    <3> HIDE DEF c, st
    <3> QED
      BY <1>2, <1>3, <2>1, <2>2, TurnedRest
  <2> HIDE DEF st
  <2>4. Shut(w') /\ Owed(w') \subseteq {0}
    BY <2>1, <2>3, PhasesKept, OwedBy DEF Settled
  <2>5. ~Idle(w) /\ ~Closing(w) /\ ~Opens(w) /\ \A f : ~Asked(w, f)
    BY <1>12, PhasesApart
  <2> QED
    BY <1>4, <2>3, <2>4, <2>5 DEF Turned
<1>13. CASE Closing(w)
  <2>1. ~Idle(w) /\ ~Downloading(w) /\ ~Opens(w) /\ (\A f : ~Asked(w, f)) /\ Up_(w)
    BY <1>13, PhasesApart
  <2>2. CASE m \in Events
    <3>1. n.posted = <<>> /\ Closing(n) /\ n.lib = w.lib
      BY <1>1, <1>13, <2>2, ClosingEvent
    <3>2. /\ WorldOk(w') /\ w'.aborted = w.aborted /\ w'.hal = n.hal /\ w'.lib = n.lib
          /\ FramesOf(frames', api.stack, mgr.link) /\ \A g \in FrameIds : frames'[g].mem = frames[g].mem
          /\ frames' = frames
      BY <1>2, <1>3, <3>1, TurnedRest
    <3>3. Closing(w') /\ w'.lib.shutCb = w.lib.shutCb
      BY <3>1, <3>2, PhasesKept
    <3>4. w.lib.shutCb \in Owed(w)
      BY <1>13, PhaseIsOne DEF Owed
    <3>5. Owed(w') \subseteq Owed(w) \cup {0}
      BY <3>3, <3>4, OwedBy
    <3> QED
      BY <1>4, <2>1, <3>2, <3>3, <3>5 DEF Turned
  <2>3. CASE m \in {"done", "error"}
    <3> DEFINE c == w.lib.shutCb
               st == Status(m = "done")
    <3>1. /\ n.posted = << <<c, st>> >>
          /\ m = "done" => Shut(n)
          /\ m = "error" => Broken(n)
      BY <1>1, <1>13, <2>3, ClosingAnswer
    <3>2. c \in Owed(w)
      BY <1>13, PhaseIsOne DEF Owed
    <3>3. /\ WorldOk(w') /\ w'.aborted = w.aborted /\ w'.hal = n.hal /\ w'.lib = n.lib
          /\ FramesOf(frames', api.stack, mgr.link) /\ \A g \in FrameIds : frames'[g].mem = frames[g].mem
          /\ \A g \in FrameIds \ Owed(w) : frames'[g] = frames[g]
          /\ Told(c, st)
      <4> HIDE DEF c, st
      <4> QED
        BY <1>2, <1>3, <3>1, <3>2, TurnedRest
    <3>4. \/ Shut(w') /\ st = "SUCCESS"
          \/ Broken(w') /\ st = "FAILED"
      BY <2>3, <3>1, <3>3, PhasesKept DEF Status
    <3>5. Owed(w') \subseteq {0}
      BY <3>4, OwedBy DEF Settled
    <3> QED
      BY <1>4, <2>1, <3>3, <3>4, <3>5 DEF Turned
  <2> QED
    BY <1>5, <2>1, <2>2, <2>3
<1> QED
  BY <1>4, <1>9, <1>10, <1>11, <1>12, <1>13 DEF Known, Quiet, Settled

(* Wherever the call of this file stands, it stands there still.           *)
LEMMA TurnedSurvives ==
  ASSUME Typed, JniOk, Turned, UNCHANGED <<api, mgr, user>>, mgr.client,
         q' \in Seq(Msgs), KillPending' => KillPending
  PROVE  Survives
<1>1. FramesOk /\ ClientOk /\ WorldOk(w)
  BY DEF JniOk
<1>2. FramesOk' /\ ClientOk' /\ Typed'
  BY <1>1 DEF Turned, FramesOk, ClientOk, Typed
<1>3. WorldOk(w') /\ w'.aborted = w.aborted
  BY DEF Turned
<1>4. /\ Top' = Top /\ Starting' = Starting /\ ByItself' = ByItself
  BY DEF Top, Starting, ByItself
<1>5. /\ Settled(w) => Settled(w') /\ frames' = frames
      /\ Quiet(w) => Quiet(w')
      /\ Rests => Rests'
  <2>1. Settled(w) => Settled(w') /\ frames' = frames
    BY DEF Turned, Settled
  <2>2. Quiet(w) => Quiet(w')
    BY DEF Turned, Settled, Quiet
  <2> QED
    BY <2>1, <2>2 DEF Rests
<1>6. Idle(w) => Settled(w)
  BY DEF Settled
<1>7. Shut(w) => Settled(w)
  BY DEF Settled
<1>8. \A i \in 1 .. Len(api.stack) : /\ api.stack[i] \in FrameIds /\ api.stack[i] # 0 /\ frames[api.stack[i]].live
                                     /\ frames[api.stack[i]].sem \in Nat
  BY <1>1, TheirFrames DEF FramesOk, FramesOf, FrameLike
<1> DEFINE One == Len(api.stack) = 1
           Two == Len(api.stack) = 2
           Three == Len(api.stack) = 3
<1>9. /\ One => 1 \in 1 .. Len(api.stack) /\ Top = api.stack[1]
      /\ Two => /\ 1 \in 1 .. Len(api.stack) /\ 2 \in 1 .. Len(api.stack)
                /\ Top = api.stack[2] /\ api.stack[1] # Top
      /\ Three => /\ 1 \in 1 .. Len(api.stack) /\ 2 \in 1 .. Len(api.stack) /\ 3 \in 1 .. Len(api.stack)
                  /\ Top = api.stack[3] /\ api.stack[1] # Top /\ api.stack[2] # Top
  <2>1. One => 1 \in 1 .. Len(api.stack) /\ Top = api.stack[1]
    BY <1>1, TheirFrames
  <2>2. Two => /\ 1 \in 1 .. Len(api.stack) /\ 2 \in 1 .. Len(api.stack)
               /\ Top = api.stack[2] /\ api.stack[1] # Top
    BY <1>1, TheirFrames
  <2>3. Three => /\ 1 \in 1 .. Len(api.stack) /\ 2 \in 1 .. Len(api.stack) /\ 3 \in 1 .. Len(api.stack)
                 /\ Top = api.stack[3] /\ api.stack[1] # Top /\ api.stack[2] # Top
    BY <1>1, TheirFrames
  <2> QED
    BY <2>1, <2>2, <2>3
<1>10. /\ Within(1) => Within(1)'
       /\ Within(2) => Within(2)'
       /\ Within(3) => Within(3)'
  <2>1. ASSUME NEW n \in {1, 2, 3}, Within(n)
        PROVE  Within(n)'
    <3>1. api.stack[1] \in FrameIds \ Owed(w) /\ api.stack[1] # 0
      BY <1>8, <1>9, <2>1 DEF Within
    <3>2. frames'[api.stack[1]] = frames[api.stack[1]] /\ api.stack[1] \notin Owed(w')
      BY <3>1 DEF Turned
    <3> QED
      BY <1>4, <2>1, <3>2 DEF Within, Sem
  <2> QED
    BY <2>1
<1>11. Rests /\ SecondRests => SecondRests'
  BY <1>5 DEF Rests, SecondRests, Sem
<1>12. \A c, st : Told(c, st) /\ c \in FrameIds /\ frames[c].live =>
         frames'[c].sem = frames[c].sem + 1 /\ frames'[c].st = st
  BY DEF Told
<1>13. One /\ Waits1 => Waits1'
  <2> SUFFICES ASSUME One, Waits1 PROVE Waits1'
    OBVIOUS
  <2>1. Top \in FrameIds /\ Top = api.stack[1] /\ frames[Top].live
    BY <1>8, <1>9
  <2>2. CASE Idle(w)
    BY <1>4, <2>1, <2>2, PhasesApart DEF Turned, Waits1, Sem
  <2>3. CASE Asked(w, Top) /\ Sem(1) = 0
    <3>1. \/ Asked(w', Top) /\ frames' = frames
          \/ Idle(w') /\ frames'[Top].sem = 1
      <4>1. \/ Asked(w', Top) /\ frames' = frames
            \/ Idle(w') /\ \E st : Told(Top, st)
        BY <2>1, <2>3 DEF Turned
      <4> QED
        BY <1>12, <2>1, <2>3, <4>1 DEF Sem
    <3> QED
      BY <1>4, <2>1, <2>3, <3>1 DEF Waits1, Sem
  <2> QED
    BY <2>2, <2>3 DEF Waits1
<1>14. CASE api.pc \in {"none", "hw", "init", "caps", "dl", "dlEnd", "eeprom", "recovery"}
  <2>1. AtNone => AtNone'
    BY <1>5 DEF AtNone, Turned
  <2>2. AtHw => AtHw'
    <3>1. ASSUME AtHw
          PROVE  frames'[api.stack[1]] = frames[api.stack[1]] /\ api.stack[1] \notin Owed(w')
      <4>1. One /\ api.stack[1] \notin Owed(w)
        BY <3>1 DEF AtHw
      <4> QED
        BY <1>8, <1>9, <4>1 DEF Turned
    <3> QED
      BY <1>5, <3>1 DEF AtHw, Sem
  <2>3. AtInit => AtInit'
    BY <1>5, <1>10 DEF AtInit
  <2>4. AtCaps => AtCaps'
    BY <1>10 DEF AtCaps, Turned
  <2>5. AtDl => AtDl'
    BY <1>5, <1>10 DEF AtDl, Turned
  <2>6. AtDlEnd => AtDlEnd'
    BY <1>5, <1>10 DEF AtDlEnd
  <2>7. AtEeprom => AtEeprom'
    BY <1>5, <1>10 DEF AtEeprom, Turned
  <2>8. AtRecovery => AtRecovery'
    BY <1>5 DEF AtRecovery
  <2> QED
    BY <1>2, <1>3, <1>14, <2>1, <2>2, <2>3, <2>4, <2>5, <2>6, <2>7, <2>8 DEF Survives, JniOk, PcOk, Pcs
<1>15. CASE api.pc = "initWait"
  <2> DEFINE first == api.stack[1]
  <2>1. AtInitWait
    BY <1>15 DEF JniOk, PcOk
  <2>2. Len(api.stack) = 1
    BY <2>1 DEF AtInitWait
  <2>3. Top = first /\ first \in FrameIds /\ frames[first].live
    BY <1>8, <1>9, <2>2
  <2>4. \/ Opens(w') /\ w'.lib.initCb = first /\ frames'[first].sem = 0
        \/ frames'[first].sem = 1 /\ Idle(w')
        \/ frames'[first].sem = 1 /\ Shut(w') /\ frames'[first].st # "SUCCESS"
    <3>1. CASE Opens(w) /\ w.lib.initCb = first /\ frames[first].sem = 0
      <4>1. \/ Opens(w') /\ w'.lib.initCb = w.lib.initCb /\ frames' = frames
            \/ Idle(w') /\ Told(w.lib.initCb, "SUCCESS")
            \/ Shut(w') /\ Told(w.lib.initCb, "FAILED")
        BY <3>1 DEF Turned
      <4>2. \A st : Told(first, st) => frames'[first].sem = 1 /\ frames'[first].st = st
        BY <1>12, <2>3, <3>1
      <4>3. CASE Opens(w') /\ w'.lib.initCb = w.lib.initCb /\ frames' = frames
        BY <3>1, <4>3
      <4>4. CASE Idle(w') /\ Told(w.lib.initCb, "SUCCESS")
        BY <3>1, <4>2, <4>4
      <4>5. CASE Shut(w') /\ Told(w.lib.initCb, "FAILED")
        BY <3>1, <4>2, <4>5
      <4> QED
        BY <4>1, <4>3, <4>4, <4>5
    <3>2. CASE frames[first].sem = 1 /\ Idle(w)
      BY <3>2 DEF Turned
    <3>3. CASE frames[first].sem = 1 /\ Shut(w) /\ ~Good
      BY <2>3, <3>3 DEF Turned, Good
    <3> QED
      BY <2>1, <3>1, <3>2, <3>3 DEF AtInitWait, Sem
  <2>5. Starting' /\ (mgr'.service = "off" => mgr'.client) /\ Len(api'.stack) = 1
    BY <1>4, <2>1, <2>2 DEF AtInitWait
  <2>6. Sem(1)' = frames'[first].sem /\ Good' = (frames'[first].st = "SUCCESS") /\ api'.stack[1] = first
    BY <1>4, <2>3 DEF Sem, Good
  <2> HIDE DEF first
  <2>7. AtInitWait'
    BY <2>4, <2>5, <2>6 DEF AtInitWait
  <2> QED
    BY <1>2, <1>3, <1>15, <2>7 DEF Survives, JniOk, PcOk, Pcs
<1>16. CASE api.pc = "dlDeinitWait"
  <2> DEFINE second == api.stack[2]
  <2>1. AtDlDeinitWait
    BY <1>16 DEF JniOk, PcOk
  <2>2. Len(api.stack) = 2
    BY <2>1 DEF AtDlDeinitWait, Within
  <2>3. second \in FrameIds /\ frames[second].live
    BY <1>8, <1>9, <2>2
  <2>4. \/ mgr'.late
        \/ Settled(w') /\ frames'[second].sem <= 1
        \/ Closing(w') /\ w'.lib.shutCb = second /\ frames'[second].sem = 0
    <3>1. CASE mgr.late
      BY <3>1
    <3>2. CASE Settled(w) /\ frames[second].sem <= 1
      BY <1>5, <3>2
    <3>3. CASE Closing(w) /\ w.lib.shutCb = second /\ frames[second].sem = 0
      <4>1. \/ Closing(w') /\ w'.lib.shutCb = w.lib.shutCb /\ frames' = frames
            \/ Shut(w') /\ Told(w.lib.shutCb, "SUCCESS")
            \/ Broken(w') /\ Told(w.lib.shutCb, "FAILED")
        BY <3>3 DEF Turned
      <4>2. \A st : Told(second, st) => frames'[second].sem = 1
        BY <1>12, <2>3, <3>3
      <4>3. CASE Closing(w') /\ w'.lib.shutCb = w.lib.shutCb /\ frames' = frames
        BY <3>3, <4>3
      <4>4. CASE Shut(w') /\ Told(w.lib.shutCb, "SUCCESS")
        BY <3>3, <4>2, <4>4 DEF Settled
      <4>5. CASE Broken(w') /\ Told(w.lib.shutCb, "FAILED")
        BY <3>3, <4>2, <4>5 DEF Settled
      <4> QED
        BY <4>1, <4>3, <4>4, <4>5
    <3> QED
      BY <2>1, <3>1, <3>2, <3>3 DEF AtDlDeinitWait, Sem
  <2>5. Within(2)' /\ Quiet(w')
    BY <1>5, <1>10, <2>1 DEF AtDlDeinitWait
  <2>6. Sem(2)' = frames'[second].sem /\ api'.stack[2] = second
    BY DEF Sem
  <2> HIDE DEF second
  <2>7. AtDlDeinitWait'
    BY <2>4, <2>5, <2>6 DEF AtDlDeinitWait
  <2> QED
    BY <1>2, <1>3, <1>16, <2>7 DEF Survives, JniOk, PcOk, Pcs
<1>17. CASE api.pc \in {"pd", "pdEnd", "dlInit"}
  <2>1. AtPd => AtPd'
    BY <1>4, <1>5, <1>10, <1>11 DEF AtPd, Turned
  <2>2. AtPdEnd => AtPdEnd'
    BY <1>4, <1>5, <1>10, <1>11 DEF AtPdEnd, Turned
  <2>3. AtDlInit => AtDlInit'
    <3>1. Shut(w) => Rests
      BY <1>7 DEF Rests, Quiet
    <3> QED
      BY <1>10, <1>11, <3>1 DEF AtDlInit, Turned
  <2> QED
    BY <1>2, <1>3, <1>17, <2>1, <2>2, <2>3 DEF Survives, JniOk, PcOk, Pcs
<1>18. CASE api.pc = "pdWait"
  <2>1. AtPdWait
    BY <1>18 DEF JniOk, PcOk
  <2>2. One \/ Three
    BY <2>1 DEF AtPdWait, Within
  <2>3. Top \in FrameIds /\ frames[Top].live
    BY <1>8, <1>9, <2>2
  <2>4. (Downloading(w') /\ w'.lib.opCb = Top /\ frames'[Top].sem = 0) \/ (Shut(w') /\ frames'[Top].sem > 0)
    <3>1. CASE Downloading(w) /\ w.lib.opCb = Top /\ frames[Top].sem = 0
      <4>1. \/ Downloading(w') /\ w'.lib.opCb = w.lib.opCb /\ frames' = frames
            \/ Shut(w') /\ \E st : Told(Top, st)
        BY <3>1 DEF Turned
      <4>2. (\E st : Told(Top, st)) => frames'[Top].sem = 1
        BY <1>12, <2>3, <3>1
      <4> QED
        BY <3>1, <4>1, <4>2
    <3>2. CASE Shut(w) /\ frames[Top].sem > 0
      BY <3>2 DEF Turned
    <3> QED
      BY <2>1, <3>1, <3>2 DEF AtPdWait
  <2>5. Within(3) /\ SecondRests => SecondRests'
    <3> SUFFICES ASSUME Within(3), SecondRests PROVE SecondRests'
      OBVIOUS
    <3>1. Three
      BY DEF Within
    <3>2. api.stack[2] # Top /\ api.stack[2] \in FrameIds /\ api.stack[2] # 0
      BY <1>8, <1>9, <3>1
    <3>3. Owed(w) \subseteq {Top, 0}
      BY <2>1, OwedBy DEF AtPdWait, Settled
    <3>4. frames'[api.stack[2]] = frames[api.stack[2]]
      BY <3>2, <3>3 DEF Turned
    <3> QED
      BY <3>4 DEF SecondRests, Sem
  <2>6. AtPdWait'
    BY <1>4, <1>10, <2>1, <2>4, <2>5 DEF AtPdWait
  <2> QED
    BY <1>2, <1>3, <1>18, <2>6 DEF Survives, JniOk, PcOk, Pcs
<1>19. CASE api.pc = "dlInitWait"
  <2>1. AtDlInitWait
    BY <1>19 DEF JniOk, PcOk
  <2>2. Two
    BY <2>1 DEF AtDlInitWait, Within
  <2>3. Top \in FrameIds /\ frames[Top].live /\ frames[Top].sem \in Nat
    BY <1>8, <1>9, <2>2
  <2>4. \/ Opens(w') /\ w'.lib.initCb = Top /\ SecondRests'
        \/ frames'[Top].sem > 0 /\ (Shut(w') \/ Idle(w'))
    <3>1. CASE Opens(w) /\ w.lib.initCb = Top /\ SecondRests
      <4>1. \/ Opens(w') /\ w'.lib.initCb = w.lib.initCb /\ frames' = frames
            \/ Idle(w') /\ Told(Top, "SUCCESS")
            \/ Shut(w') /\ Told(Top, "FAILED")
        BY <3>1 DEF Turned
      <4>2. \A st : Told(Top, st) => frames'[Top].sem > 0
        <5>1. \A st : Told(Top, st) => frames'[Top].sem = frames[Top].sem + 1
          BY <1>12, <2>3
        <5> QED
          BY <2>3, <5>1
      <4> QED
        BY <3>1, <4>1, <4>2 DEF SecondRests, Sem
    <3>2. CASE frames[Top].sem > 0 /\ (Shut(w) \/ Idle(w))
      BY <3>2 DEF Turned
    <3> QED
      BY <2>1, <3>1, <3>2 DEF AtDlInitWait
  <2>5. AtDlInitWait'
    BY <1>4, <1>10, <2>1, <2>4 DEF AtDlInitWait
  <2> QED
    BY <1>2, <1>3, <1>19, <2>5 DEF Survives, JniOk, PcOk, Pcs
<1>20. CASE api.pc \in {"eepromWait", "seWait", "llcpWait", "stopWait", "startWait", "checkWait"}
  <2>1. AtAskedWait => AtAskedWait'
    BY <1>4, <1>13 DEF AtAskedWait
  <2>2. AtDiscoveryWait => AtDiscoveryWait'
    <3>1. AtDiscoveryWait => One /\ Top \in FrameIds
      BY <1>8, <1>9 DEF AtDiscoveryWait
    <3>2. AtDiscoveryWait => frames'[Top].mem = frames[Top].mem
      BY <3>1 DEF Turned
    <3> QED
      BY <1>4, <1>13, <3>2 DEF AtDiscoveryWait
  <2> QED
    BY <1>2, <1>3, <1>20, <2>1, <2>2 DEF Survives, JniOk, PcOk, Pcs
<1>21. CASE api.pc \in {"se", "llcp", "ntf", "stop", "start", "unconfigure"}
  <2>1. AtAsk => AtAsk'
    BY <1>10 DEF AtAsk, Turned
  <2>2. AtDiscovery => AtDiscovery'
    BY DEF AtDiscovery, Turned
  <2>3. AtUnconfigure => AtUnconfigure'
    BY DEF AtUnconfigure, Turned
  <2> QED
    BY <1>2, <1>3, <1>21, <2>1, <2>2, <2>3 DEF Survives, JniOk, PcOk, Pcs
<1>22. CASE api.pc = "deinitWait"
  <2> DEFINE first == api.stack[1]
  <2>1. AtDeinitWait
    BY <1>22 DEF JniOk, PcOk
  <2>2. Len(api.stack) = 1
    BY <2>1 DEF AtDeinitWait
  <2>3. Top = first /\ first \in FrameIds /\ frames[first].live
    BY <1>8, <1>9, <2>2
  <2>4. \/ Closing(w') /\ w'.lib.shutCb = first /\ frames'[first].sem = 0
        \/ frames'[first].sem > 0 /\ Shut(w')
        \/ frames'[first].sem > 0 /\ Broken(w') /\ frames'[first].st # "SUCCESS"
    <3>1. CASE Closing(w) /\ w.lib.shutCb = first /\ frames[first].sem = 0
      <4>1. \/ Closing(w') /\ w'.lib.shutCb = w.lib.shutCb /\ frames' = frames
            \/ Shut(w') /\ Told(w.lib.shutCb, "SUCCESS")
            \/ Broken(w') /\ Told(w.lib.shutCb, "FAILED")
        BY <3>1 DEF Turned
      <4>2. \A st : Told(first, st) => frames'[first].sem = 1 /\ frames'[first].st = st
        BY <1>12, <2>3, <3>1
      <4>3. CASE Closing(w') /\ w'.lib.shutCb = w.lib.shutCb /\ frames' = frames
        BY <3>1, <4>3
      <4>4. CASE Shut(w') /\ Told(w.lib.shutCb, "SUCCESS")
        BY <3>1, <4>2, <4>4
      <4>5. CASE Broken(w') /\ Told(w.lib.shutCb, "FAILED")
        BY <3>1, <4>2, <4>5
      <4> QED
        BY <4>1, <4>3, <4>4, <4>5
    <3>2. CASE frames[first].sem > 0 /\ Shut(w)
      BY <3>2 DEF Turned
    <3>3. CASE frames[first].sem > 0 /\ Broken(w) /\ ~Good
      BY <2>3, <3>3 DEF Turned, Good
    <3> QED
      BY <2>1, <2>3, <3>1, <3>2, <3>3 DEF AtDeinitWait, Sem
  <2>5. mgr'.service = "on" /\ Len(api'.stack) = 1
    BY <2>1, <2>2 DEF AtDeinitWait
  <2>6. Sem(1)' = frames'[first].sem /\ Good' = (frames'[first].st = "SUCCESS") /\ Top' = first
    BY <1>4, <2>3 DEF Sem, Good
  <2> HIDE DEF first
  <2>7. AtDeinitWait'
    BY <2>4, <2>5, <2>6 DEF AtDeinitWait
  <2> QED
    BY <1>2, <1>3, <1>22, <2>7 DEF Survives, JniOk, PcOk, Pcs
<1> QED
  BY <1>14, <1>15, <1>16, <1>17, <1>18, <1>19, <1>20, <1>21, <1>22 DEF JniOk, PcOk, Pcs

-------------------------------------------------------------------------------
(* The client thread takes its next message: told to end, it ends; what    *)
(* the link and the devices found say is kept for Java; the rest comes     *)
(* from the layer below.                                                   *)
Benign ==
  /\ UNCHANGED w /\ DOMAIN mgr' = MgrFields /\ mgr'.configured = mgr.configured
  /\ mgr'.client = mgr.client /\ mgr'.service = mgr.service /\ mgr'.late = mgr.late
  /\ \/ mgr'.link = mgr.link /\ frames' = frames
     \/ mgr'.link = 0 /\ frames' = IF mgr.link = 0 THEN frames ELSE [frames EXCEPT ![mgr.link].mem = FALSE]
FromBelow(m) ==
  LET n == IF Heard(m) THEN Notified(w, m, {}) ELSE w
  IN w' = Calmed(n) /\ frames' = nfc_jni_callback(n.posted)

(* Every message is one of the three kinds.                                *)
LEMMA MessageTaken ==
  ASSUME Typed, nfc_jni_client_thread
  PROVE  /\ mgr.client /\ q' \in Seq(Msgs) /\ (KillPending' => KillPending) /\ UNCHANGED <<api, user>>
         /\ \/ KillPending /\ mgr' = [mgr EXCEPT !.client = FALSE] /\ UNCHANGED <<w, frames>>
            \/ Benign
            \/ \E m \in Events \cup Answers : FromBelow(m) /\ UNCHANGED mgr
<1> DEFINE m == Head(q)
<1>1. mgr.client /\ q # <<>> /\ q' = Tail(q) /\ UNCHANGED <<api, user>>
  BY DEF nfc_jni_client_thread
<1>2. m \in Msgs /\ q' \in Seq(Msgs) /\ (m = "kill" => KillPending) /\ (KillPending' => KillPending)
  BY <1>1, QueueTaken DEF Typed
<1>3. (CASE m = "kill" -> mgr' = [mgr EXCEPT !.client = FALSE] /\ UNCHANGED <<w, frames>>
         [] m \in {"linkUp", "linkDown"} -> nfc_jni_llcp_linkStatus_callback(m) /\ UNCHANGED w
         [] m = "incoming" -> mgr' = nfc_jni_llcp_transport_listen_socket_callback /\ UNCHANGED <<w, frames>>
         [] m \in DOMAIN Lists ->
              /\ mgr' = IF w.lib.reg THEN nfc_jni_Discovery_notification_callback(Lists[m]) ELSE mgr
              /\ UNCHANGED <<w, frames>>
         [] OTHER ->
              LET n == IF Heard(m) THEN Notified(w, m, {}) ELSE w
              IN /\ w' = [n EXCEPT !.posted = <<>>] /\ frames' = nfc_jni_callback(n.posted) /\ UNCHANGED mgr)
  BY DEF nfc_jni_client_thread
<1>4. m \in DOMAIN Lists => m \notin {"kill", "linkUp", "linkDown", "incoming"}
  BY ConstantsAssumption
<1> HIDE DEF m
<1>5. CASE m = "kill"
  <2>1. mgr' = [mgr EXCEPT !.client = FALSE] /\ UNCHANGED <<w, frames>>
    BY <1>3, <1>4, <1>5
  <2> QED
    BY <1>1, <1>2, <1>5, <2>1
<1>6. CASE m \in {"linkUp", "linkDown"}
  <2>1. nfc_jni_llcp_linkStatus_callback(m) /\ UNCHANGED w
    BY <1>3, <1>4, <1>6
  <2>2. CASE m = "linkUp"
    <3>1. mgr' = [mgr EXCEPT !.up = TRUE, !.connected = TRUE] /\ UNCHANGED frames
      BY <2>1, <2>2 DEF nfc_jni_llcp_linkStatus_callback
    <3>2. Benign
      BY <2>1, <3>1 DEF Benign, Typed, MgrFields
    <3> QED
      BY <1>1, <1>2, <3>2
  <2>3. CASE m = "linkDown"
    <3>1. /\ mgr' = [mgr EXCEPT !.up = FALSE, !.link = 0, !.connected = FALSE, !.incoming = 0]
          /\ frames' = IF mgr.link = 0 THEN frames ELSE [frames EXCEPT ![mgr.link].mem = FALSE]
      BY <2>1, <2>3 DEF nfc_jni_llcp_linkStatus_callback
    <3>2. DOMAIN mgr' = MgrFields /\ mgr'.configured = mgr.configured
          /\ mgr'.client = mgr.client /\ mgr'.service = mgr.service /\ mgr'.late = mgr.late /\ mgr'.link = 0
      BY <3>1 DEF Typed, MgrFields
    <3>3. Benign
      BY <2>1, <3>1, <3>2 DEF Benign
    <3> QED
      BY <1>1, <1>2, <3>3
  <2> QED
    BY <1>6, <2>2, <2>3
<1>7. CASE m = "incoming"
  <2>1. mgr' = nfc_jni_llcp_transport_listen_socket_callback /\ UNCHANGED <<w, frames>>
    BY <1>3, <1>4, <1>7
  <2>2. Benign
    BY <2>1 DEF Benign, Typed, MgrFields, nfc_jni_llcp_transport_listen_socket_callback
  <2> QED
    BY <1>1, <1>2, <2>2
<1>8. CASE m \in DOMAIN Lists
  <2> DEFINE found == nfc_jni_Discovery_notification_callback(Lists[m])
  <2>1. /\ m # "kill" /\ m \notin {"linkUp", "linkDown"} /\ m # "incoming"
    BY <1>8, ConstantsAssumption
  <2>2. (mgr' = IF w.lib.reg THEN found ELSE mgr) /\ UNCHANGED <<w, frames>>
    BY <1>3, <1>8, <2>1
  <2>3. /\ DOMAIN found = MgrFields /\ found.configured = mgr.configured /\ found.link = mgr.link
        /\ found.client = mgr.client /\ found.service = mgr.service /\ found.late = mgr.late
    <3> DEFINE list == Lists[m]
               d == list[find_preferred_target(list)]
               kept == IF IsPeer(d) THEN d.handle ELSE mgr.llcp
    <3>1. found = mgr \/ found = [mgr EXCEPT !.connected = TRUE, !.stored = d.handle, !.llcp = kept]
      BY DEF nfc_jni_Discovery_notification_callback
    <3> HIDE DEF found, d, kept
    <3> QED
      BY <3>1 DEF Typed, MgrFields
  <2> HIDE DEF found
  <2>4. Benign
    BY <2>2, <2>3 DEF Benign, Typed
  <2> QED
    BY <1>1, <1>2, <2>4
<1>9. CASE m \notin {"kill", "linkUp", "linkDown", "incoming"} /\ m \notin DOMAIN Lists
  <2>1. m \in Events \cup Answers
    BY <1>2, <1>9 DEF Msgs
  <2>2. LET n == IF Heard(m) THEN Notified(w, m, {}) ELSE w
        IN w' = [n EXCEPT !.posted = <<>>] /\ frames' = nfc_jni_callback(n.posted) /\ UNCHANGED mgr
    BY <1>3, <1>9
  <2>3. FromBelow(m) /\ UNCHANGED mgr
    BY <2>2 DEF FromBelow, Calmed
  <2> QED
    BY <1>1, <1>2, <2>1, <2>3
<1> QED
  BY <1>5, <1>6, <1>7, <1>8, <1>9

(* Told to end while this file uses the library: between two calls, with   *)
(* the service not on.                                                     *)
LEMMA KillSurvives ==
  ASSUME Typed, JniOk, KillPending, mgr' = [mgr EXCEPT !.client = FALSE], UNCHANGED <<w, frames, api, user>>,
         q' \in Seq(Msgs)
  PROVE  Survives
<1>1. api.pc = "none" /\ mgr.service # "on" /\ AtNone
  BY DEF JniOk, ClientOk, PcOk
<1>2. api.stack = <<>>
  BY <1>1 DEF AtNone, NoCall
<1>3. /\ DOMAIN mgr' = MgrFields /\ mgr'.service = mgr.service /\ mgr'.link = mgr.link
      /\ mgr'.late = mgr.late /\ mgr'.configured = mgr.configured
  BY DEF Typed, MgrFields
<1>4. FramesOk'
  BY <1>3 DEF JniOk, FramesOk
<1>5. ClientOk'
  BY <1>1, <1>2, <1>3 DEF ClientOk
<1>6. AtNone'
  BY <1>1, <1>3 DEF AtNone, Rests
<1>7. PcOk'
  BY <1>1, <1>6 DEF PcOk, Pcs
<1> QED
  BY <1>3, <1>4, <1>5, <1>7 DEF Survives, JniOk, Typed

(* What is kept for Java is aside of the calls.                            *)
LEMMA BenignIsAloof ==
  ASSUME Typed, FramesOk, Benign, q' \in Seq(Msgs), KillPending' => KillPending, UNCHANGED <<api, user>>
  PROVE  Aloof
<1>1. CASE frames' = frames /\ mgr'.link \in {mgr.link, 0}
  <2>1. FramesOf(frames', api.stack, mgr'.link)
    BY <1>1 DEF FramesOk, FramesOf
  <2> QED
    BY <1>1, <2>1 DEF Benign, Aloof
<1>2. CASE mgr.link # 0 /\ mgr'.link = 0 /\ frames' = [frames EXCEPT ![mgr.link].mem = FALSE]
  <2>1. mgr.link \in FrameIds /\ FrameLike(frames[mgr.link]) /\ \A i \in 1 .. Len(api.stack) : api.stack[i] # mgr.link
    BY <1>2 DEF FramesOk, FramesOf
  <2> DEFINE x == [frames[mgr.link] EXCEPT !.mem = FALSE]
  <2>2. FrameLike(x) /\ x.live = frames[mgr.link].live
    BY <2>1 DEF FrameLike
  <2>3. /\ frames' = [f \in FrameIds |-> frames'[f]]
        /\ \A f \in FrameIds : frames'[f] = IF f = mgr.link THEN x ELSE frames[f]
    BY <1>2 DEF FramesOk, FramesOf
  <2> HIDE DEF x
  <2>4. \A i \in 1 .. Len(api.stack) : api.stack[i] \in FrameIds
    BY DEF FramesOk, FramesOf
  <2>5. \A i \in 1 .. Len(api.stack) : frames'[api.stack[i]] = frames[api.stack[i]]
    BY <2>1, <2>3, <2>4
  <2>6. \A f \in FrameIds : FrameLike(frames'[f])
    BY <2>2, <2>3 DEF FramesOk, FramesOf
  <2>7. FramesOf(frames', api.stack, mgr'.link)
    BY <1>2, <2>3, <2>5, <2>6 DEF FramesOk, FramesOf
  <2> QED
    BY <2>5, <2>7 DEF Benign, Aloof
<1> QED
  BY <1>1, <1>2 DEF Benign

(* A message from the layer below, while this file uses the library.       *)
LEMMA BelowSurvives ==
  ASSUME Jni, Typed, JniOk, mgr.client, NEW m \in Events \cup Answers, FromBelow(m),
         q' \in Seq(Msgs), KillPending' => KillPending, UNCHANGED <<api, mgr, user>>
  PROVE  Survives \/ Dies
<1>1. FramesOk /\ WorldOk(w) /\ WorldLike(w) /\ w.posted = <<>> /\ Alive
  BY DEF JniOk, WorldOk, Jni
<1>2. CASE ~Heard(m)
  <2>1. w' = Calmed(w) /\ frames' = nfc_jni_callback(<<>>)
    BY <1>1, <1>2 DEF FromBelow
  <2>2. Turned
    BY <1>1, <2>1, DroppedTurns
  <2> QED
    BY <2>2, TurnedSurvives
<1>3. CASE Heard(m)
  <2> DEFINE n == Notified(w, m, {})
  <2>1. w' = Calmed(n) /\ frames' = nfc_jni_callback(n.posted)
    BY <1>3 DEF FromBelow
  <2>2. CASE ~n.aborted
    <3>1. Known
      BY JniKnows
    <3>2. Turned
      BY <1>1, <1>3, <2>1, <2>2, <3>1, HeardTurns
    <3> QED
      BY <3>2, TurnedSurvives
  <2>3. CASE n.aborted
    <3>1. /\ WorldLike(n) /\ ~n.hal.used /\ n.posted = <<>>
          /\ n.hal.hci = "none" /\ n.lib.next = "Invalid" /\ n.lib.opCb = w.lib.opCb
      <4>1. ~Lives(w, n)
        BY <1>1, <2>3 DEF Lives, Alive
      <4> QED
        BY <1>1, <1>3, <4>1, WorldHears
    <3> HIDE DEF n
    <3>2. w'.hal = n.hal /\ w'.lib = n.lib /\ w'.aborted = n.aborted
      BY <2>1, <3>1, CalmedPhase
    <3>3. frames' = frames
      BY <1>1, <2>1, <3>1, CalledBack
    <3>4. InFlight' \subseteq InFlight
      BY <3>1, <3>2 DEF InFlight
    <3>5. CallbackFindsFrame
      BY FindsFrame
    <3>6. CallbackFindsFrame'
      BY <3>3, <3>4, <3>5 DEF CallbackFindsFrame
    <3> QED
      BY <2>3, <3>1, <3>2, <3>6 DEF Dies
  <2> QED
    BY <2>2, <2>3
<1> QED
  BY <1>2, <1>3

(* The client thread's step while this file uses the library.              *)
LEMMA ClientSurvives ==
  ASSUME Jni, Typed, JniOk, nfc_jni_client_thread
  PROVE  Survives \/ Dies
<1>1. /\ mgr.client /\ q' \in Seq(Msgs) /\ (KillPending' => KillPending) /\ UNCHANGED <<api, user>>
      /\ \/ KillPending /\ mgr' = [mgr EXCEPT !.client = FALSE] /\ UNCHANGED <<w, frames>>
         \/ Benign
         \/ \E m \in Events \cup Answers : FromBelow(m) /\ UNCHANGED mgr
  BY MessageTaken
<1>2. CASE KillPending /\ mgr' = [mgr EXCEPT !.client = FALSE] /\ UNCHANGED <<w, frames>>
  BY <1>1, <1>2, KillSurvives
<1>3. CASE Benign
  BY <1>1, <1>3, BenignIsAloof, AloofSurvives DEF JniOk
<1>4. CASE \E m \in Events \cup Answers : FromBelow(m) /\ UNCHANGED mgr
  BY <1>1, <1>4, BelowSurvives
<1> QED
  BY <1>1, <1>2, <1>3, <1>4

(* The frames of another program: there are none.                          *)
LEMMA NoFrames ==
  ASSUME ToolOk
  PROVE  /\ FramesOk /\ CallbackFindsFrame
         /\ \A posted : nfc_jni_callback(posted) = frames
<1>1. FramesOk
  BY DEF ToolOk, FramesOk, FramesOf, NoCall, Free, FrameLike
<1>2. CallbackFindsFrame
  BY DEF ToolOk, CallbackFindsFrame, InFlight, Contexts
<1>3. \A posted : nfc_jni_callback(posted) = frames
  BY DEF ToolOk, nfc_jni_callback, Free
<1> QED
  BY <1>1, <1>2, <1>3

(* The client thread's step while another program uses the library.        *)
LEMMA ClientToolSurvives ==
  ASSUME Alive, Typed, ToolOk, nfc_jni_client_thread
  PROVE  ToolSurvives \/ Dies
<1>1. /\ q' \in Seq(Msgs) /\ (KillPending' => KillPending) /\ UNCHANGED <<api, user>>
      /\ \/ KillPending /\ mgr' = [mgr EXCEPT !.client = FALSE] /\ UNCHANGED <<w, frames>>
         \/ Benign
         \/ \E m \in Events \cup Answers : FromBelow(m) /\ UNCHANGED mgr
  BY MessageTaken
<1>2. CASE KillPending /\ mgr' = [mgr EXCEPT !.client = FALSE] /\ UNCHANGED <<w, frames>>
  <2>1. DOMAIN mgr' = MgrFields /\ mgr'.link = mgr.link
    BY <1>2 DEF Typed, MgrFields
  <2> QED
    BY <1>1, <1>2, <2>1 DEF ToolSurvives, ToolOk, Typed
<1>3. CASE Benign
  <2>1. frames' = frames /\ mgr'.link = mgr.link
    BY <1>3 DEF Benign, ToolOk
  <2>2. Aloof
    BY <1>1, <1>3, BenignIsAloof, NoFrames
  <2> QED
    BY <2>1, <2>2, AloofTool
<1>4. ASSUME NEW m \in Events \cup Answers, FromBelow(m), UNCHANGED mgr
      PROVE  ToolSurvives \/ Dies
  <2>1. WorldOk(w) /\ WorldLike(w) /\ w.posted = <<>> /\ Contexts(w) \subseteq {0, Tool} /\ mgr.link = 0
    BY DEF ToolOk, WorldOk
  <2>2. frames' = frames
    BY <1>4, NoFrames DEF FromBelow
  <2>3. CASE ~Heard(m)
    <3>1. w' = Calmed(w)
      BY <1>4, <2>3 DEF FromBelow
    <3>2. WorldLike(w') /\ w'.posted = <<>> /\ w'.hal = w.hal /\ w'.lib = w.lib /\ w'.aborted = w.aborted
      BY <2>1, <3>1, CalmedPhase
    <3>3. WorldOk(w') /\ Contexts(w') = Contexts(w)
      BY <2>1, <3>2, PhasesKept DEF WorldOk, Contexts
    <3> QED
      BY <1>1, <1>4, <2>1, <2>2, <3>2, <3>3 DEF ToolSurvives, ToolOk, Typed
  <2>4. CASE Heard(m)
    <3> DEFINE n == Notified(w, m, {})
    <3>1. w' = Calmed(n)
      BY <1>4, <2>4 DEF FromBelow
    <3>2. \/ n.aborted /\ WorldLike(n) /\ ~n.hal.used
             /\ n.hal.hci = "none" /\ n.lib.next = "Invalid" /\ n.lib.opCb = w.lib.opCb
          \/ WorldOk(Calmed(n)) /\ Lives(w, n) /\ Contexts(n) \subseteq Contexts(w) \cup {0}
      BY <2>1, <2>4, WorldHears
    <3> HIDE DEF n
    <3>3. w'.hal = n.hal /\ w'.lib = n.lib /\ w'.aborted = n.aborted
      BY <3>1, <3>2, CalmedPhase DEF Lives
    <3>4. CASE WorldOk(Calmed(n)) /\ Lives(w, n) /\ Contexts(n) \subseteq Contexts(w) \cup {0}
      <4>1. WorldOk(w') /\ w'.aborted = w.aborted
        BY <3>1, <3>3, <3>4 DEF Lives
      <4>2. Contexts(w') \subseteq {0, Tool}
        BY <2>1, <3>3, <3>4 DEF Contexts
      <4> QED
        BY <1>1, <1>4, <2>1, <2>2, <4>1, <4>2 DEF ToolSurvives, ToolOk, Typed
    <3>5. CASE n.aborted /\ WorldLike(n) /\ ~n.hal.used
               /\ n.hal.hci = "none" /\ n.lib.next = "Invalid" /\ n.lib.opCb = w.lib.opCb
      <4>1. InFlight' \subseteq {0, Tool}
        BY <1>4, <2>1, <3>3, <3>5 DEF InFlight, Contexts
      <4> QED
        BY <1>1, <3>3, <3>5, <4>1 DEF Dies, CallbackFindsFrame
    <3> QED
      BY <3>2, <3>4, <3>5
  <2> QED
    BY <2>3, <2>4
<1> QED
  BY <1>1, <1>2, <1>3, <1>4

-------------------------------------------------------------------------------
(* What the lemmas above conclude is the invariant again.                  *)
LEMMA Survived ==
  ASSUME Inv, Jni, Survives \/ Dies
  PROVE  Inv'
<1>1. CASE Survives
  <2>1. Jni' /\ Alive' /\ user' = "jni"
    BY <1>1 DEF Survives, Jni, Alive
  <2>2. ~w'.hal.used
    BY <1>1 DEF Survives, JniOk, WorldOk
  <2> QED
    BY <1>1, <2>1, <2>2 DEF Survives, Inv
<1>2. CASE Dies
  <2>1. ~Alive' /\ ~Jni'
    BY <1>2 DEF Dies, Jni, Alive
  <2> QED
    BY <1>2, <2>1 DEF Dies, Inv
<1> QED
  BY <1>1, <1>2

(* The same while another program uses the library.                        *)
LEMMA ToolSurvived ==
  ASSUME Inv, Alive, user = "tool", ToolSurvives \/ Dies
  PROVE  Inv'
<1>1. CASE ToolSurvives
  <2>1. ~Jni' /\ Alive' /\ user' = "tool"
    BY <1>1 DEF ToolSurvives, Jni, Alive
  <2>2. ~w'.hal.used
    BY <1>1 DEF ToolSurvives, ToolOk, WorldOk
  <2> QED
    BY <1>1, <2>1, <2>2 DEF ToolSurvives, Inv
<1>2. CASE Dies
  <2>1. ~Alive' /\ ~Jni'
    BY <1>2 DEF Dies, Jni, Alive
  <2> QED
    BY <1>2, <2>1 DEF Dies, Inv
<1> QED
  BY <1>1, <1>2

(* The initial states: nothing is open, nobody has called.                 *)
LEMMA InvInit ==
  ASSUME Init
  PROVE  Inv
<1>1. Shut(w) /\ WorldLike(w) /\ w.posted = <<>> /\ ~w.hal.used /\ ~w.aborted
  BY NothingOpen DEF Init, Shut, WorldLike, ClosedHal
<1>2. WorldOk(w) /\ Alive
  BY <1>1 DEF WorldOk, Alive
<1>3. api = NoCall /\ frames = [f \in FrameIds |-> Free]
  BY DEF Init
<1>4. /\ mgr.service = "off" /\ ~mgr.configured /\ mgr.link = 0 /\ q = <<>>
      /\ DOMAIN mgr = MgrFields
  BY DEF Init, MgrFields
<1>5. Typed
  BY <1>3, <1>4 DEF Typed, NoCall, ApiFields
<1>6. user \in {"jni", "tool"}
  BY ConstantsAssumption DEF Init
<1>7. FramesOk /\ ClientOk
  <2>1. FramesOk
    BY <1>3, <1>4 DEF FramesOk, FramesOf, NoCall, Free, FrameLike
  <2> QED
    BY <1>3, <1>4, <2>1 DEF ClientOk, NoCall, KillPending
<1>8. AtNone /\ api.pc = "none"
  BY <1>1, <1>3, <1>4 DEF AtNone, Rests, Quiet, Settled, NoCall
<1>9. JniOk
  BY <1>2, <1>4, <1>7, <1>8 DEF JniOk, PcOk, Pcs
<1>10. user = "tool" => ToolOk
  BY <1>1, <1>2, <1>3, <1>4 DEF ToolOk, Contexts, Shut, NoLib
<1> QED
  BY <1>1, <1>2, <1>5, <1>6, <1>9, <1>10 DEF Inv

(* A call begins.                                                          *)
LEMMA CallsKeep ==
  ASSUME Inv, Calls
  PROVE  Inv'
<1>1. Jni
  BY DEF Calls, initialize, doDownload, deinitialize, enableDiscovery, disableDiscovery,
         SetTimeout, ResetTimeouts, doCheckLlcp, doActivateLlcp, doCreateLlcpConnectionlessSocket,
         doCreateLlcpServiceSocket, doCreateLlcpSocket, Socket, doSetP2pModes, doAbort, Start, Aside
<1>2. Typed /\ JniOk
  BY <1>1 DEF Inv, Jni
<1>3. CASE SetTimeout \/ ResetTimeouts \/ doActivateLlcp \/ doCreateLlcpConnectionlessSocket
           \/ doCreateLlcpServiceSocket \/ doCreateLlcpSocket \/ doSetP2pModes
  <2>1. Aloof
    BY <1>1, <1>2, <1>3, SideIsAloof DEF JniOk
  <2> QED
    BY <1>1, <1>2, <2>1, AloofSurvives, Survived
<1>4. CASE doAbort
  BY <1>1, <1>2, <1>4, AbortDies, Survived
<1>5. CASE initialize \/ doDownload \/ deinitialize \/ enableDiscovery \/ disableDiscovery \/ doCheckLlcp
  <2>1. Survives
    BY <1>1, <1>2, <1>5, InitializeSurvives, DoDownloadSurvives, DeinitializeSurvives, DiscoverySurvives,
       CheckSurvives
  <2> QED
    BY <1>1, <2>1, Survived
<1> QED
  BY <1>3, <1>4, <1>5 DEF Calls

(* A call goes on.                                                         *)
LEMMA GoesKeep ==
  ASSUME Inv, Goes
  PROVE  Inv'
<1>1. Jni
  BY DEF Goes, InitHw, nfc_jni_initialize, InitWait, InitCaps, nfc_jni_download_locked, DlDeinitWait, DlInit,
         DlInitWait, performDownload, PdWait, PdEnd, DlEnd, WriteEeprom, WriteEepromWait, SeSetMode,
         SeSetModeWait, LlcpConfig, LlcpConfigWait, Ask, Awaited, InitNtf, DeinitWait, Unconfigure, Recovery,
         nfc_jni_stop_discovery_locked, StopWait, nfc_jni_start_discovery_locked, StartWait, CheckWait, At
<1>2. Typed /\ JniOk
  BY <1>1 DEF Inv, Jni
<1>3. CASE InitHw \/ nfc_jni_initialize \/ InitWait \/ InitCaps \/ nfc_jni_download_locked \/ DlDeinitWait
  BY <1>1, <1>2, <1>3, InitHwSurvives, JniInitializeSurvives, InitWaitSurvives, InitCapsSurvives,
     DownloadLockedSurvives, DlDeinitWaitSurvives, Survived
<1>4. CASE DlInit \/ DlInitWait \/ performDownload \/ PdWait \/ PdEnd \/ DlEnd
  BY <1>1, <1>2, <1>4, DlInitSurvives, DlInitWaitSurvives, PerformDownloadSurvives, PdWaitSurvives,
     PdEndSurvives, DlEndSurvives, Survived
<1>5. CASE WriteEeprom \/ WriteEepromWait \/ SeSetMode \/ SeSetModeWait \/ LlcpConfig \/ LlcpConfigWait \/ InitNtf
  BY <1>1, <1>2, <1>5, AsksSurvive, AwaitsSurvive, InitNtfSurvives, Survived
<1>6. CASE DeinitWait \/ Unconfigure \/ Recovery
  BY <1>1, <1>2, <1>6, DeinitWaitSurvives, UnconfigureSurvives, RecoverySurvives, Survived
<1>7. CASE nfc_jni_stop_discovery_locked \/ StopWait \/ nfc_jni_start_discovery_locked \/ StartWait \/ CheckWait
  BY <1>1, <1>2, <1>7, ConfiguresSurvive, LastWaitSurvives, Survived
<1> QED
  BY <1>3, <1>4, <1>5, <1>6, <1>7 DEF Goes

(* The other threads and the chip.                                         *)
LEMMA OthersKeep ==
  ASSUME Inv, nfc_jni_client_thread \/ ChipAnswers \/ ChipSpeaks \/ LinkLost \/ ToolCall
  PROVE  Inv'
<1>1. Alive /\ Typed /\ user \in {"jni", "tool"}
  BY DEF Inv, nfc_jni_client_thread, ChipAnswers, ChipSpeaks, LinkLost, ToolCall
<1>2. CASE user = "jni"
  <2>1. Jni /\ JniOk
    BY <1>1, <1>2 DEF Inv, Jni
  <2>2. CASE nfc_jni_client_thread
    BY <1>1, <2>1, <2>2, ClientSurvives, Survived
  <2>3. CASE ChipAnswers \/ ChipSpeaks \/ LinkLost
    <3>1. Aloof
      BY <1>1, <2>1, <2>3, ChipIsAloof DEF JniOk
    <3> QED
      BY <1>1, <2>1, <3>1, AloofSurvives, Survived
  <2>4. ~ToolCall
    BY <1>2 DEF ToolCall
  <2> QED
    BY <2>2, <2>3, <2>4
<1>3. CASE user = "tool"
  <2>1. ToolOk
    BY <1>1, <1>3 DEF Inv
  <2>2. CASE nfc_jni_client_thread
    BY <1>1, <1>3, <2>1, <2>2, ClientToolSurvives, ToolSurvived
  <2>3. CASE ChipAnswers \/ ChipSpeaks \/ LinkLost
    <3>1. Aloof /\ frames' = frames /\ mgr'.link = mgr.link
      BY <1>1, <2>1, <2>3, NoFrames, ChipIsAloof
    <3> QED
      BY <1>1, <1>3, <2>1, <3>1, AloofTool, ToolSurvived
  <2>4. CASE ToolCall
    BY <1>1, <1>3, <2>1, <2>4, ToolCallSurvives, ToolSurvived
  <2> QED
    BY <2>2, <2>3, <2>4
<1> QED
  BY <1>1, <1>2, <1>3

(* The invariant is inductive.                                             *)
THEOREM StackInvariant == Spec => []Inv
<1>1. Init => Inv
  BY InvInit
<1>2. Inv /\ [Next]_vars => Inv'
  <2> SUFFICES ASSUME Inv, [Next]_vars PROVE Inv'
    OBVIOUS
  <2>1. CASE Calls
    BY <2>1, CallsKeep
  <2>2. CASE Goes
    BY <2>2, GoesKeep
  <2>3. CASE nfc_jni_client_thread \/ ChipAnswers \/ ChipSpeaks \/ LinkLost \/ ToolCall
    BY <2>3, OthersKeep
  <2>4. CASE UNCHANGED vars
    <3> USE <2>4 DEF vars
    <3>1. /\ Jni' = Jni /\ Alive' = Alive /\ Typed' = Typed /\ CallbackFindsFrame' = CallbackFindsFrame
      BY DEF Jni, Alive, Typed, CallbackFindsFrame, InFlight
    <3>2. ToolOk' = ToolOk
      BY DEF ToolOk
    <3>3. JniOk => JniOk'
      <4>1. Alive /\ Jni /\ Typed /\ JniOk => Aloof
        BY DEF Aloof, JniOk, FramesOk, Typed, KillPending
      <4>2. FramesOk' = FramesOk /\ ClientOk' = ClientOk
        BY DEF FramesOk, ClientOk, KillPending
      <4>3. PcOk => PcOk'
        BY DEF PcOk, AtNone, AtHw, AtInit, AtInitWait, AtCaps, AtDl, AtDlDeinitWait, AtPd, AtPdWait, AtPdEnd,
               AtDlInit, AtDlInitWait, AtDlEnd, AtEeprom, AtAskedWait, AtAsk, AtDiscovery, AtDiscoveryWait,
               AtDeinitWait, AtUnconfigure, AtRecovery, Rests, Within, Starting, SecondRests, ByItself, Waits1,
               Sem, Good, Top
      <4> QED
        BY <4>2, <4>3 DEF JniOk
    <3> QED
      BY <3>1, <3>2, <3>3 DEF Inv
  <2> QED
    BY <2>1, <2>2, <2>3, <2>4 DEF Next
<1> QED
  BY <1>1, <1>2, PTL DEF Spec

(* Whatever calls, answers, faults and late messages come in whatever      *)
(* order: a callback on its way finds its cb_data.                         *)
THEOREM CallbacksFindTheirFrames == Spec => []CallbackFindsFrame
<1>1. Inv => CallbackFindsFrame
  BY FindsFrame, NoFrames DEF Inv, Jni
<1> QED
  BY <1>1, StackInvariant, PTL

(* Between calls the service, the library and the layer below agree, and   *)
(* no freed context is used.                                               *)
THEOREM StackAlwaysMatchesService == Spec => []StackMatchesService
<1>1. Inv => StackMatchesService
  <2> SUFFICES ASSUME Inv PROVE StackMatchesService
    OBVIOUS
  <2>1. Jni /\ api = NoCall => AtNone /\ ClientOk
    BY DEF Inv, JniOk, PcOk, NoCall
  <2>2. (Jni /\ api = NoCall /\ mgr.service = "on") =>
          /\ w.lib.ctx /\ w.lib.next # "Shutdown" /\ w.lib.cur \in {"InitandIdle", "ConfigReady"}
          /\ w.hal.ctx = "live" /\ w.hal.hwref /\ w.hal.cur = "OpenAndReady"
          /\ mgr.configured /\ mgr.client
    BY <2>1 DEF AtNone, ClientOk, Idle, Ready, Up_, HalUp
  <2>3. (Jni /\ api = NoCall /\ mgr.service = "off") => ~w.lib.ctx /\ ~mgr.configured
    BY <2>1 DEF AtNone, Shut, NoLib
  <2>4. (Alive /\ ~w.lib.ctx) => w.hal.ctx = "none" /\ ~w.hal.hwref
    <3>1. Alive => WorldOk(w)
      BY DEF Inv, Jni, JniOk, ToolOk
    <3> QED
      BY <3>1 DEF WorldOk, Shut, Refused, Opening, Downloading, Up_, ClosedHal
  <2> QED
    BY <2>2, <2>3, <2>4 DEF StackMatchesService, Inv
<1> QED
  BY <1>1, StackInvariant, PTL

(* A call that waits has its answer, or an answer is on its way and        *)
(* someone is there to take it; only a failed initialize leaves nobody.    *)
THEOREM WaitsAreAnswered == Spec => []WaitAnswered
<1>1. Inv => WaitAnswered
  <2> SUFFICES ASSUME Inv, Jni, api.pc \in Waits, ~Answered, mgr.service # "failed"
               PROVE  Top \in InFlight /\ mgr.client /\ w.hal.hci # "none"
    BY DEF WaitAnswered
  <2>1. JniOk
    BY DEF Inv
  <2>2. FramesOk /\ ClientOk /\ mgr.service \in {"on", "off"}
    BY <2>1 DEF JniOk
  <2>3. /\ Len(api.stack) = 1 => Top = api.stack[1]
        /\ Len(api.stack) = 2 => Top = api.stack[2]
    BY <2>2, TheirFrames
  <2>4. Owed(w) \subseteq InFlight
    BY DEF Owed, InFlight
  <2>5. frames[Top].sem \in Nat \/ Len(api.stack) = 0
    <3>1. Len(api.stack) \in Nat /\ Top = api.stack[Len(api.stack)]
      BY <2>2 DEF FramesOk, FramesOf, Top
    <3>2. Len(api.stack) # 0 => Top \in FrameIds
      BY <2>2, <3>1, TheirFrames
    <3> QED
      BY <2>2, <3>2 DEF FramesOk, FramesOf, FrameLike
  <2>6. CASE api.pc = "initWait"
    <3>1. AtInitWait
      BY <2>1, <2>6 DEF JniOk, PcOk
    <3>2. Opens(w) /\ w.lib.initCb = Top
      BY <2>3, <3>1 DEF AtInitWait, Answered, Sem
    <3>3. mgr.client
      BY <2>2, <3>1 DEF AtInitWait, Starting
    <3> QED
      BY <2>4, <3>2, <3>3, PhaseIsOne DEF Owed
  <2>7. CASE api.pc = "dlInitWait"
    <3>1. AtDlInitWait
      BY <2>1, <2>7 DEF JniOk, PcOk
    <3>2. Opens(w) /\ w.lib.initCb = Top /\ mgr.client
      BY <3>1 DEF AtDlInitWait, Answered
    <3> QED
      BY <2>4, <3>2, PhaseIsOne DEF Owed
  <2>8. CASE api.pc = "pdWait"
    <3>1. AtPdWait
      BY <2>1, <2>8 DEF JniOk, PcOk
    <3>2. Downloading(w) /\ w.lib.opCb = Top
      BY <3>1 DEF AtPdWait, Answered
    <3>3. mgr.client
      BY <2>2, <3>1 DEF AtPdWait, Within, Starting
    <3> QED
      BY <2>4, <3>2, <3>3, PhasesApart DEF Owed
  <2>9. CASE api.pc \in {"eepromWait", "seWait", "llcpWait", "stopWait", "startWait", "checkWait"}
    <3>1. AtAskedWait \/ AtDiscoveryWait
      BY <2>1, <2>9 DEF JniOk, PcOk
    <3>2. mgr.client /\ Waits1 /\ Len(api.stack) = 1
      BY <2>2, <3>1 DEF AtAskedWait, AtDiscoveryWait, ClientOk
    <3>3. Asked(w, Top)
      BY <2>3, <3>2 DEF Waits1, Answered, Sem
    <3>4. w.lib.opCb = Top /\ w.hal.hci # "none"
      BY <3>3 DEF Asked
    <3> QED
      BY <2>4, <3>2, <3>4 DEF Owed
  <2>10. CASE api.pc = "deinitWait"
    <3>1. AtDeinitWait
      BY <2>1, <2>10 DEF JniOk, PcOk
    <3>2. Closing(w) /\ w.lib.shutCb = Top /\ mgr.client
      BY <2>2, <2>3, <3>1 DEF AtDeinitWait, Answered, Sem, ClientOk
    <3> QED
      BY <2>4, <3>2, PhaseIsOne DEF Owed
  <2> QED
    BY <2>6, <2>7, <2>8, <2>9, <2>10 DEF Waits
<1> QED
  BY <1>1, StackInvariant, PTL
-------------------------------------------------------------------------------
(* One step of 1 << n.                                                     *)
Doubled(F, n) == IF n = 0 THEN 1 ELSE 2 * F[n - 1]

(* 1 << n (log2, setIsoDepTimeout) doubles with n: the recursion has a     *)
(* solution, by induction over how far it goes.                            *)
LEMMA TwoToDoubles ==
  /\ TwoTo[0] = 1 /\ \A n \in 1 .. 31 : TwoTo[n] = 2 * TwoTo[n - 1]
<1> DEFINE Upto(k) == \E F : F = [n \in 0 .. k |-> Doubled(F, n)]
           S == {k \in Nat : Upto(k)}
<1>1. 0 \in S
  <2> DEFINE F == [n \in 0 .. 0 |-> 1]
  <2>1. F = [n \in 0 .. 0 |-> Doubled(F, n)]
    BY DEF Doubled
  <2> HIDE DEF F
  <2> QED
    BY <2>1
<1>2. ASSUME NEW k \in Nat, k \in S PROVE k + 1 \in S
  <2>1. PICK F : F = [n \in 0 .. k |-> Doubled(F, n)]
    BY <1>2
  <2> DEFINE G == [n \in 0 .. k + 1 |-> IF n = k + 1 THEN Doubled(F, n) ELSE F[n]]
  <2>2. \A n \in 0 .. k + 1 : Doubled(F, n) = Doubled(G, n)
    BY DEF Doubled
  <2>3. \A n \in 0 .. k : F[n] = Doubled(F, n)
    BY <2>1
  <2>4. \A n \in 0 .. k + 1 : G[n] = Doubled(G, n)
    BY <2>2, <2>3
  <2>5. G = [n \in 0 .. k + 1 |-> G[n]]
    OBVIOUS
  <2> HIDE DEF G
  <2>6. G = [n \in 0 .. k + 1 |-> Doubled(G, n)]
    BY <2>4, <2>5
  <2> QED
    BY <2>6
<1>3. Upto(31)
  <2> HIDE DEF S
  <2>1. Nat \subseteq S
    BY <1>1, <1>2, Induction
  <2> QED
    BY <2>1 DEF S
<1>4. TwoTo = [n \in 0 .. 31 |-> Doubled(TwoTo, n)]
  BY <1>3 DEF TwoTo, Doubled
<1>5. \A n \in 0 .. 31 : TwoTo[n] = Doubled(TwoTo, n)
  BY <1>4
<1> QED
  BY <1>5 DEF Doubled

(* The powers that a timeout of at most 4.9 s can need.                    *)
LEMMA Powers ==
  /\ TwoTo[0] = 1 /\ TwoTo[1] = 2 /\ TwoTo[2] = 4 /\ TwoTo[3] = 8 /\ TwoTo[4] = 16
  /\ TwoTo[5] = 32 /\ TwoTo[6] = 64 /\ TwoTo[7] = 128 /\ TwoTo[8] = 256 /\ TwoTo[9] = 512
  /\ TwoTo[10] = 1024 /\ TwoTo[11] = 2048 /\ TwoTo[12] = 4096 /\ TwoTo[13] = 8192
  /\ TwoTo[14] = 16384
<1>1. \A n \in 1 .. 14 : TwoTo[n] = 2 * TwoTo[n - 1]
  BY TwoToDoubles
<1>2. /\ TwoTo[1] = 2 * TwoTo[0] /\ TwoTo[2] = 2 * TwoTo[1] /\ TwoTo[3] = 2 * TwoTo[2]
      /\ TwoTo[4] = 2 * TwoTo[3] /\ TwoTo[5] = 2 * TwoTo[4] /\ TwoTo[6] = 2 * TwoTo[5]
      /\ TwoTo[7] = 2 * TwoTo[6] /\ TwoTo[8] = 2 * TwoTo[7] /\ TwoTo[9] = 2 * TwoTo[8]
  BY <1>1
<1>3. /\ TwoTo[10] = 2 * TwoTo[9] /\ TwoTo[11] = 2 * TwoTo[10] /\ TwoTo[12] = 2 * TwoTo[11]
      /\ TwoTo[13] = 2 * TwoTo[12] /\ TwoTo[14] = 2 * TwoTo[13]
  BY <1>1
<1> QED
  BY <1>2, <1>3, TwoToDoubles

(* They are integers, and the larger ones are out of reach.                *)
LEMMA Rising == \A n \in 0 .. 31 : TwoTo[n] \in Nat /\ (n >= 15 => TwoTo[n] > 16384)
<1> DEFINE S == {k \in Nat : k <= 31 => TwoTo[k] \in Nat /\ (k >= 15 => TwoTo[k] > 16384)}
<1>1. 0 \in S
  BY Powers
<1>2. ASSUME NEW k \in Nat, k \in S PROVE k + 1 \in S
  <2>1. CASE k + 1 <= 31
    <3>1. TwoTo[k + 1] = 2 * TwoTo[k]
      <4>1. k + 1 \in 1 .. 31 /\ (k + 1) - 1 = k
        BY <2>1
      <4> QED
        BY <4>1, TwoToDoubles
    <3>2. TwoTo[k + 1] \in Nat
      BY <1>2, <2>1, <3>1
    <3>3. CASE k = 14
      BY <3>1, <3>2, <3>3, <2>1, Powers
    <3> QED
      BY <1>2, <2>1, <3>1, <3>2, <3>3
  <2> QED
    BY <2>1
<1>3. Nat \subseteq S
  <2> HIDE DEF S
  <2> QED
    BY <1>1, <1>2, Induction
<1> QED
  BY <1>3

(* The steps that the timeouts of 1 to 4900 ms come to.                    *)
StepCounts == 2 .. 16384

(* log2 returns the first power that is not less.                          *)
LEMMA Log2Covers ==
  ASSUME NEW value \in StepCounts
  PROVE  log2(value) \in 1 .. 14 /\ TwoTo[log2(value)] >= value
<1>0. value \in Int /\ 2 <= value /\ value <= 16384
  BY DEF StepCounts
<1>1. \E r \in 0 .. 14 : TwoTo[r] <= value /\ (r = 14 \/ value < TwoTo[r + 1])
  <2>1. \/ (2 <= value /\ value < 4) \/ (4 <= value /\ value < 8)
        \/ (8 <= value /\ value < 16) \/ (16 <= value /\ value < 32)
        \/ (32 <= value /\ value < 64) \/ (64 <= value /\ value < 128)
        \/ (128 <= value /\ value < 256) \/ (256 <= value /\ value < 512)
        \/ (512 <= value /\ value < 1024) \/ (1024 <= value /\ value < 2048)
        \/ (2048 <= value /\ value < 4096) \/ (4096 <= value /\ value < 8192)
        \/ (8192 <= value /\ value < 16384) \/ value = 16384
    BY <1>0
  <2> QED
    BY <2>1, Powers
<1>2. TwoTo[15] = 2 * TwoTo[14]
  BY TwoToDoubles
<1>3. \E r \in 0 .. 30 : TwoTo[r] <= value /\ value < TwoTo[r + 1]
  <2>1. PICK r \in 0 .. 14 : TwoTo[r] <= value /\ (r = 14 \/ value < TwoTo[r + 1])
    BY <1>1
  <2>2. CASE r = 14
    <3>1. r + 1 = 15
      BY <2>2
    <3>2. TwoTo[r + 1] = 32768
      BY <1>2, <3>1, Powers
    <3> QED
      BY <1>0, <2>1, <3>2
  <2>3. CASE r # 14
    BY <2>1, <2>3
  <2> QED
    BY <2>2, <2>3
<1>4. /\ Lowest(value) \in 0 .. 30 /\ TwoTo[Lowest(value)] <= value
      /\ value < TwoTo[Lowest(value) + 1]
  <2> DEFINE P(r) == TwoTo[r] <= value /\ value < TwoTo[r + 1]
  <2>1. \E r \in 0 .. 30 : P(r)
    BY <1>3
  <2>2. Lowest(value) = CHOOSE r \in 0 .. 30 : P(r)
    BY DEF Lowest
  <2> HIDE DEF P
  <2>3. Lowest(value) \in 0 .. 30 /\ P(Lowest(value))
    BY <2>1, <2>2
  <2> QED
    BY <2>3 DEF P
<1>5. ASSUME NEW r \in 0 .. 30, TwoTo[r] <= value, value < TwoTo[r + 1]
      PROVE  r \in 1 .. 14 /\ (r = 14 => TwoTo[r] = value)
  <2>1. r + 1 \in 0 .. 31 /\ TwoTo[r] \in Nat /\ TwoTo[r + 1] \in Nat
    BY Rising
  <2>2. r <= 14
    BY <1>0, <1>5, <2>1, Rising
  <2>3. r # 0
    BY <1>0, <1>5, Powers
  <2>4. r = 14 => TwoTo[r] = 16384
    BY Powers
  <2> QED
    BY <1>0, <1>5, <2>1, <2>2, <2>3, <2>4
<1>6. Lowest(value) \in 1 .. 14 /\ (Lowest(value) = 14 => TwoTo[Lowest(value)] = value)
  BY <1>4, <1>5
<1>7. Lowest(value) + 1 \in 0 .. 31 /\ TwoTo[Lowest(value) + 1] \in Nat
  BY <1>4, Rising
<1> QED
  BY <1>0, <1>4, <1>6, <1>7, Rising DEF log2

(* The timeouts that the chip keeps itself.                                *)
ShortTimes == 1 .. 4900

(* What they need of the chip's steps, and that it covers what was asked   *)
(* for (calcTimeout, the reading of doGetTimeout).                         *)
LEMMA StepsCover ==
  ASSUME NEW ms \in ShortTimes
  PROVE  calcTimeout(ms) \in 1 .. 14 /\ Duration(calcTimeout(ms)) >= ms
<1> DEFINE value == CeilDiv(ms * 13560, 4096)
<1>1. value \in 2 .. 16384 /\ 4096 * value >= 13560 * ms
  BY DEF CeilDiv, ShortTimes
<1>2. calcTimeout(ms) = log2(value)
  BY DEF calcTimeout
<1> HIDE DEF value
<1>3. calcTimeout(ms) \in 1 .. 14 /\ TwoTo[calcTimeout(ms)] >= value
  <2>1. value \in StepCounts
    BY <1>1 DEF StepCounts
  <2>2. log2(value) \in 1 .. 14 /\ TwoTo[log2(value)] >= value
    BY <2>1, Log2Covers
  <2> QED
    BY <1>2, <2>2
<1>4. TwoTo[calcTimeout(ms)] \in Nat
  BY <1>3, Rising
<1>5. ASSUME NEW p \in Nat, p >= value PROVE (4096 * p) \div 13560 >= ms
  BY <1>1, <1>5 DEF ShortTimes
<1> QED
  BY <1>3, <1>4, <1>5 DEF Duration

(* The four timeouts of the hardware layer.                                *)
Timeouts == [iso : Int, hci : Int, felica : Int, raw : Int]

(* Two of the four timeouts set in one call, as the longer ones are.       *)
LEMMA SetTwo ==
  ASSUME NEW t \in Timeouts, NEW a \in Int, NEW b \in Int
  PROVE  /\ /\ [t EXCEPT !.raw = a, !.hci = b] \in Timeouts
            /\ [t EXCEPT !.raw = a, !.hci = b].raw = a
            /\ [t EXCEPT !.raw = a, !.hci = b].hci = b
         /\ /\ [t EXCEPT !.iso = a, !.hci = b] \in Timeouts
            /\ [t EXCEPT !.iso = a, !.hci = b].iso = a
            /\ [t EXCEPT !.iso = a, !.hci = b].hci = b
         /\ /\ [t EXCEPT !.felica = a, !.hci = b] \in Timeouts
            /\ [t EXCEPT !.felica = a, !.hci = b].felica = a
            /\ [t EXCEPT !.felica = a, !.hci = b].hci = b
         /\ /\ [t EXCEPT !.hci = a, !.iso = b] \in Timeouts
            /\ [t EXCEPT !.hci = a, !.iso = b].iso = b
  BY DEF Timeouts

(* doGetTimeout after doSetTimeout reads at least what was asked for,      *)
(* whatever the timeouts were before.                                      *)
LEMMA SetIsRead ==
  ASSUME NEW t \in Timeouts, NEW tech \in Techs, NEW ms \in Int, ms > 0
  PROVE  /\ doSetTimeout(t, tech, ms) \in Timeouts
         /\ doGetTimeout(doSetTimeout(t, tech, ms), tech) >= ms
<1>0. ms \in Int /\ ms > 0
  OBVIOUS
<1>00. ms \in Int /\ 0 \in Int
  OBVIOUS
<1>1. CASE tech = "NfcA"
  <2>0. \A u : doGetTimeout(u, tech) = IF u.raw = 0 THEN u.hci ELSE Duration(u.raw)
    BY <1>1 DEF doGetTimeout
  <2>1. doSetTimeout(t, tech, ms) = setNfcATimeout(t, ms)
    BY <1>1 DEF doSetTimeout
  <2>2. CASE ms <= 4900
    <3>1. calcTimeout(ms) \in 1 .. 14 /\ Duration(calcTimeout(ms)) >= ms
      <4>1. ms \in ShortTimes
        BY <1>0, <2>2 DEF ShortTimes
      <4> QED
        BY <4>1, StepsCover
    <3>2. setNfcATimeout(t, ms) = [t EXCEPT !.raw = calcTimeout(ms)]
      BY <2>2 DEF setNfcATimeout
    <3> QED
      BY <1>0, <2>0, <2>1, <3>1, <3>2 DEF Timeouts
  <2>3. CASE ms > 4900
    <3> DEFINE u == [t EXCEPT !.raw = 0, !.hci = ms]
    <3>1. doSetTimeout(t, tech, ms) = u
      BY <1>0, <2>1, <2>3 DEF setNfcATimeout
    <3>2. u \in Timeouts /\ u.raw = 0 /\ u.hci = ms
      BY <1>00, SetTwo
    <3> HIDE DEF u
    <3>3. doGetTimeout(u, tech) = ms
      BY <2>0, <3>2
    <3> QED
      BY <1>0, <3>1, <3>2, <3>3
  <2> QED
    BY <2>2, <2>3
<1>2. CASE tech = "IsoDep"
  <2>0. \A u : doGetTimeout(u, tech) = IF u.iso % 16 = 0 THEN u.hci ELSE Duration(u.iso % 16)
    BY <1>2 DEF doGetTimeout
  <2>1. doSetTimeout(t, tech, ms) = setIsoDepTimeout(t, ms)
    BY <1>2 DEF doSetTimeout
  <2>2. CASE ms <= 4900
    <3> DEFINE v == calcTimeout(ms)
               hci == CeilDiv(4096 * TwoTo[v], 13560) + 500
               u == [t EXCEPT !.hci = hci, !.iso = 16 + v]
    <3>1. v \in 1 .. 14 /\ Duration(v) >= ms
      <4>1. ms \in ShortTimes
        BY <1>0, <2>2 DEF ShortTimes
      <4> QED
        BY <4>1, StepsCover
    <3>2. doSetTimeout(t, tech, ms) = u
      BY <2>1, <2>2 DEF setIsoDepTimeout
    <3>0. 16 + v \in Int
      BY <3>1
    <3>3. hci \in Int
      BY <3>1, Rising DEF CeilDiv
    <3> HIDE DEF v, hci
    <3>4. (16 + v) % 16 = v /\ v # 0
      BY <3>1
    <3>5. u \in Timeouts /\ u.iso = 16 + v
      BY <3>0, <3>3, SetTwo
    <3> HIDE DEF u
    <3>6. doGetTimeout(u, tech) = Duration(v)
      BY <2>0, <3>4, <3>5
    <3> QED
      BY <3>1, <3>2, <3>5, <3>6
  <2>3. CASE ms > 4900
    <3> DEFINE u == [t EXCEPT !.iso = 0, !.hci = ms]
    <3>1. doSetTimeout(t, tech, ms) = u
      BY <1>0, <2>1, <2>3 DEF setIsoDepTimeout
    <3>2. u \in Timeouts /\ u.iso = 0 /\ u.hci = ms
      BY <1>00, SetTwo
    <3> HIDE DEF u
    <3>3. doGetTimeout(u, tech) = ms
      BY <2>0, <3>2
    <3> QED
      BY <1>0, <3>1, <3>2, <3>3
  <2> QED
    BY <2>2, <2>3
<1>3. CASE tech = "Felica"
  <2>0. \A u : doGetTimeout(u, tech) = IF u.felica = 0 THEN u.hci ELSE u.felica
    BY <1>3 DEF doGetTimeout
  <2>1. doSetTimeout(t, tech, ms)
          = IF ms <= 255 THEN [t EXCEPT !.felica = ms] ELSE [t EXCEPT !.felica = 0, !.hci = ms]
    BY <1>3 DEF doSetTimeout, setFelicaTimeout
  <2>2. CASE ms <= 255
    BY <1>0, <2>0, <2>1, <2>2 DEF Timeouts
  <2>3. CASE ms > 255
    <3> DEFINE u == [t EXCEPT !.felica = 0, !.hci = ms]
    <3>1. doSetTimeout(t, tech, ms) = u
      BY <1>0, <2>1, <2>3
    <3>2. u \in Timeouts /\ u.felica = 0 /\ u.hci = ms
      BY <1>00, SetTwo
    <3> HIDE DEF u
    <3>3. doGetTimeout(u, tech) = ms
      BY <2>0, <3>2
    <3> QED
      BY <1>0, <3>1, <3>2, <3>3
  <2> QED
    BY <2>2, <2>3
<1> QED
  BY <1>1, <1>2, <1>3 DEF Techs

(* nfc_jni_reset_timeout_values, called.                                   *)
ResetTimes == times' = [t |-> nfc_jni_reset_timeout_values, tech |-> "none", ms |-> 0]

(* What a step of the manager, the chip or the client thread does to the   *)
(* timeouts: only doSetTimeout, doResetTimeouts and the start of discovery *)
(* touch them.                                                             *)
LEMMA TimesKept ==
  ASSUME [Next]_vars
  PROVE  SetTimeout \/ ResetTimes \/ UNCHANGED times
<1>1. CASE UNCHANGED vars
  BY <1>1 DEF vars
<1>2. CASE Calls
  <2>1. CASE initialize
    BY <2>1 DEF initialize
  <2>2. CASE doDownload
    BY <2>2 DEF doDownload
  <2>3. CASE deinitialize
    BY <2>3 DEF deinitialize
  <2>4. CASE enableDiscovery
    BY <2>4 DEF enableDiscovery
  <2>5. CASE disableDiscovery
    BY <2>5 DEF disableDiscovery
  <2>6. CASE SetTimeout
    BY <2>6
  <2>7. CASE ResetTimeouts
    BY <2>7 DEF ResetTimeouts, ResetTimes
  <2>8. CASE doCheckLlcp
    BY <2>8 DEF doCheckLlcp
  <2>9. CASE doActivateLlcp
    BY <2>9 DEF doActivateLlcp
  <2>10. CASE doCreateLlcpConnectionlessSocket
    BY <2>10 DEF doCreateLlcpConnectionlessSocket, Socket
  <2>11. CASE doCreateLlcpServiceSocket
    BY <2>11 DEF doCreateLlcpServiceSocket, Socket
  <2>12. CASE doCreateLlcpSocket
    BY <2>12 DEF doCreateLlcpSocket, Socket
  <2>13. CASE doSetP2pModes
    BY <2>13 DEF doSetP2pModes
  <2>14. CASE doAbort
    BY <2>14 DEF doAbort
  <2> QED
    BY <1>2, <2>1, <2>2, <2>3, <2>4, <2>5, <2>6, <2>7, <2>8, <2>9, <2>10, <2>11, <2>12,
       <2>13, <2>14 DEF Calls
<1>3. CASE Goes
  <2>1. CASE InitHw
    BY <2>1 DEF InitHw
  <2>2. CASE nfc_jni_initialize
    BY <2>2 DEF nfc_jni_initialize
  <2>3. CASE InitWait
    BY <2>3 DEF InitWait
  <2>4. CASE InitCaps
    BY <2>4 DEF InitCaps
  <2>5. CASE nfc_jni_download_locked
    BY <2>5 DEF nfc_jni_download_locked
  <2>6. CASE DlDeinitWait
    BY <2>6 DEF DlDeinitWait
  <2>7. CASE DlInit
    BY <2>7 DEF DlInit
  <2>8. CASE DlInitWait
    BY <2>8 DEF DlInitWait
  <2>9. CASE performDownload
    BY <2>9 DEF performDownload
  <2>10. CASE PdWait
    BY <2>10 DEF PdWait
  <2>11. CASE PdEnd
    BY <2>11 DEF PdEnd
  <2>12. CASE DlEnd
    BY <2>12 DEF DlEnd
  <2>13. CASE WriteEeprom
    BY <2>13 DEF WriteEeprom, Ask
  <2>14. CASE WriteEepromWait
    BY <2>14 DEF WriteEepromWait, Awaited
  <2>15. CASE SeSetMode
    BY <2>15 DEF SeSetMode, Ask
  <2>16. CASE SeSetModeWait
    BY <2>16 DEF SeSetModeWait, Awaited
  <2>17. CASE LlcpConfig
    BY <2>17 DEF LlcpConfig, Ask
  <2>18. CASE LlcpConfigWait
    BY <2>18 DEF LlcpConfigWait, Awaited
  <2>19. CASE InitNtf
    BY <2>19 DEF InitNtf
  <2>20. CASE DeinitWait
    BY <2>20 DEF DeinitWait
  <2>21. CASE Unconfigure
    BY <2>21 DEF Unconfigure
  <2>22. CASE Recovery
    BY <2>22 DEF Recovery
  <2>23. CASE nfc_jni_stop_discovery_locked
    BY <2>23 DEF nfc_jni_stop_discovery_locked
  <2>24. CASE StopWait
    BY <2>24 DEF StopWait
  <2>25. CASE nfc_jni_start_discovery_locked
    BY <2>25 DEF nfc_jni_start_discovery_locked, ResetTimes
  <2>26. CASE StartWait
    BY <2>26 DEF StartWait
  <2>27. CASE CheckWait
    BY <2>27 DEF CheckWait
  <2> QED
    BY <1>3, <2>1, <2>2, <2>3, <2>4, <2>5, <2>6, <2>7, <2>8, <2>9, <2>10, <2>11, <2>12,
       <2>13, <2>14, <2>15, <2>16, <2>17, <2>18, <2>19, <2>20, <2>21, <2>22, <2>23, <2>24,
       <2>25, <2>26, <2>27 DEF Goes
<1>4. CASE nfc_jni_client_thread
  BY <1>4 DEF nfc_jni_client_thread
<1>5. CASE ChipAnswers
  BY <1>5 DEF ChipAnswers
<1>6. CASE ChipSpeaks
  BY <1>6 DEF ChipSpeaks
<1>7. CASE LinkLost
  BY <1>7 DEF LinkLost
<1>8. CASE ToolCall
  BY <1>8 DEF ToolCall
<1> QED
  BY <1>1, <1>2, <1>3, <1>4, <1>5, <1>6, <1>7, <1>8 DEF Next

(* The timeouts are numbers, and the one set last is honoured.             *)
TimesOk ==
  /\ times.t \in Timeouts
  /\ times.tech # "none" => times.ms \in Int /\ doGetTimeout(times.t, times.tech) >= times.ms

(* Whatever the service asks for, in whichever order and for whichever     *)
(* technologies: the timeout set last is read back as at least what was    *)
(* asked for (doSetTimeout, doGetTimeout).                                 *)
THEOREM Timeout == Spec => []TimeoutHonoured
<1>1. ASSUME times' = [t |-> nfc_jni_reset_timeout_values, tech |-> "none", ms |-> 0]
      PROVE  TimesOk'
  BY <1>1 DEF TimesOk, Timeouts, nfc_jni_reset_timeout_values
<1>2. Init => TimesOk
  BY DEF Init, TimesOk, Timeouts, nfc_jni_reset_timeout_values
<1>3. TimesOk /\ [Next]_vars => TimesOk'
  <2> SUFFICES ASSUME TimesOk, [Next]_vars PROVE TimesOk'
    OBVIOUS
  <2>1. CASE SetTimeout
    <3>1. PICK tech \in Techs, ms \in Millis :
            times' = IF ms <= 0 THEN times
                     ELSE [t |-> doSetTimeout(times.t, tech, ms), tech |-> tech, ms |-> ms]
      BY <2>1 DEF SetTimeout
    <3>2. CASE ms <= 0
      BY <3>1, <3>2 DEF TimesOk
    <3>3. CASE ~(ms <= 0)
      <4>1. ms \in Int /\ ms > 0
        BY <3>3, ConstantsAssumption
      <4>2. /\ doSetTimeout(times.t, tech, ms) \in Timeouts
            /\ doGetTimeout(doSetTimeout(times.t, tech, ms), tech) >= ms
        BY <4>1, SetIsRead DEF TimesOk
      <4>3. times' = [t |-> doSetTimeout(times.t, tech, ms), tech |-> tech, ms |-> ms]
        BY <3>1, <3>3
      <4>4. times'.t = doSetTimeout(times.t, tech, ms) /\ times'.tech = tech /\ times'.ms = ms
        BY <4>3
      <4> QED
        BY <4>1, <4>2, <4>4 DEF TimesOk
    <3> QED
      BY <3>2, <3>3
  <2>2. CASE ResetTimes
    BY <1>1, <2>2 DEF ResetTimes
  <2>3. CASE UNCHANGED times
    BY <2>3 DEF TimesOk
  <2> QED
    BY <2>1, <2>2, <2>3, TimesKept
<1>4. TimesOk => TimeoutHonoured
  BY DEF TimesOk, TimeoutHonoured
<1> QED
  BY <1>2, <1>3, <1>4, PTL DEF Spec
===============================================================================
