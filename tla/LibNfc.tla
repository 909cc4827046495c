-------------------------------- MODULE LibNfc --------------------------------
(***************************************************************************)
(* phLibNfc.c: the NFC library's management of the stack.  A world w is    *)
(* [hal, lib, posted, aborted]: the two layers' state, the callbacks made  *)
(* to the client by the step, as pairs of the client's context and a       *)
(* status, and whether the process was ended.  A call returns [st, w].     *)
(* The library's other files (discovery, ioctl, secure elements, LLCP) are *)
(* external: only how they take part in the state kept here is modelled.   *)
(***************************************************************************)
EXTENDS Hal4Nfc, Sequences

States == {"Shutdown", "InitandIdle", "ConfigReady", "Connect", "Transaction", "PresenceChk",
           "Release", "Invalid"}
(* gpphLibContext and what it holds.  A client context is 0 when none.     *)
NoLib == [ctx |-> FALSE, hw |-> FALSE, cur |-> "Shutdown", next |-> "Shutdown", initCb |-> 0,
          shutCb |-> 0, gen |-> FALSE, opCb |-> 0, op |-> "none", reg |-> FALSE, se |-> "none",
          disc |-> FALSE, ntf |-> FALSE, held |-> {}]

Result(st, w) == [st |-> st, w |-> w]
Post(w, c, ok) == [w EXCEPT !.posted = Append(@, <<c, IF ok THEN "SUCCESS" ELSE "FAILED">>)]
WithHal(w, r) == Result(r.st, [w EXCEPT !.hal = r.h])
-------------------------------------------------------------------------------
phLibNfc_Get_Firmware_Type(w, type) == IF w.lib.ctx /\ w.lib.hw THEN type ELSE -1
phLibNfc_Load_Firmware_Image(w, type, files) ==
  dlopen_firmware(phLibNfc_Get_Firmware_Type(w, type), files)

(* Which state may be entered next; the others leave next_state alone.     *)
Successors(cur) ==
  CASE cur = "Shutdown" -> {"Shutdown", "InitandIdle"}
    [] cur = "ConfigReady" -> {"Shutdown", "ConfigReady", "InitandIdle", "Connect"}
    [] cur = "Connect" -> {"Shutdown", "Release", "Transaction", "PresenceChk"}
    [] cur = "PresenceChk" -> {"Shutdown", "ConfigReady", "Release", "Transaction", "PresenceChk"}
    [] cur = "InitandIdle" -> {"Shutdown", "ConfigReady"}
    [] OTHER -> {}
phLibNfc_UpdateNextState(lib, s) == [lib EXCEPT !.next = IF s \in Successors(lib.cur) THEN s ELSE @]
phLibNfc_UpdateCurState(lib, ok) ==
  [lib EXCEPT !.next = "Invalid",
              !.cur = CASE lib.next = "Transaction" -> "Connect"
                        [] lib.next = "Release" -> IF lib.disc THEN "InitandIdle" ELSE "ConfigReady"
                        [] lib.next = "Invalid" -> @
                        [] OTHER -> IF ok THEN lib.next ELSE @]
-------------------------------------------------------------------------------
(* A fresh context whose Open is under way.  It stays when Open is refused *)
(* at once.                                                                *)
OpenWith(w, c, mode, fault) ==
  LET lib == phLibNfc_UpdateNextState([NoLib EXCEPT !.ctx = TRUE, !.hw = TRUE, !.initCb = c], "InitandIdle")
      fresh == [w EXCEPT !.lib = lib, !.hal.ctx = "none"]
  IN WithHal(fresh, phHal4Nfc_Open(fresh.hal, mode, fault))
phLibNfc_Mgt_Initialize(w, c, fault) ==
  CASE ~w.lib.ctx -> OpenWith(w, c, "normal", fault)
    [] w.lib.ctx /\ w.lib.next = "Shutdown" -> Result("SHUTDOWN", w)
    [] OTHER -> Result("ALREADY_INITIALISED", w)

(* uicc and smx: the secure elements the chip reports.                     *)
phLibNfc_InitCb(w, ok, elements) ==
  IF ok
  THEN LET lib == [phLibNfc_UpdateCurState(w.lib, TRUE) EXCEPT
                     !.se = IF elements = {} THEN "Off" ELSE "Default"]
       IN Post([w EXCEPT !.lib = lib, !.hal = phHal4Nfc_RegisterNotification(@)], lib.initCb, TRUE)
  ELSE [Post(w, w.lib.initCb, FALSE) EXCEPT !.lib = NoLib]

(* The chip's fatal errors end the process (phOsalNfc_RaiseException).     *)
phLibNfc_DefaultHandler(w, ok) ==
  IF ok THEN w ELSE [w EXCEPT !.lib = phLibNfc_UpdateCurState(@, FALSE), !.aborted = TRUE]

(* An operation is under way: the shutdown waits for it.                   *)
CloseNowOrLater(w, c, refused) ==
  LET r == IF w.lib.gen THEN Result("PENDING", w) ELSE WithHal(w, phHal4Nfc_Close(w.hal, refused))
  IN IF r.st # "PENDING" THEN Result("FAILED", r.w)
     ELSE Result("PENDING", [r.w EXCEPT !.lib.shutCb = c, !.lib.gen = TRUE, !.lib.next = "Shutdown"])
(* c = 0: no callback, everything is torn down at once.                    *)
phLibNfc_Mgt_DeInitialize(w, c, refused) ==
  CASE ~w.lib.ctx \/ w.lib.cur = "Shutdown" -> Result("NOT_INITIALISED", w)
    [] w.lib.ctx /\ w.lib.cur # "Shutdown" /\ c = 0 ->
         Result("SUCCESS", [w EXCEPT !.hal = phHal4Nfc_Hal4Reset(@), !.lib = NoLib])
    [] OTHER -> CloseNowOrLater(w, c, refused)

phLibNfc_ShutdownCb_KeepsContext(w, ok) ==
  IF ~w.lib.ctx THEN w ELSE Post([w EXCEPT !.lib.gen = FALSE, !.lib.next = "Invalid"], w.lib.shutCb, ok)
(* The context is freed after the client was told.                         *)
phLibNfc_ShutdownCb(w, ok) ==
  CASE ~w.lib.ctx -> w
    [] w.lib.ctx /\ ok -> [Post(w, w.lib.shutCb, TRUE) EXCEPT !.lib = NoLib]
    [] OTHER -> Post([w EXCEPT !.lib = [phLibNfc_UpdateCurState(@, FALSE) EXCEPT !.gen = FALSE]],
                     w.lib.shutCb, FALSE)
phLibNfc_Pending_Shutdown(w, refused) ==
  LET r == phHal4Nfc_Close(w.hal, refused) IN [w EXCEPT !.lib.gen = FALSE, !.hal = r.h]

(* Every registration and buffer is dropped; what is pending stays so in   *)
(* the layer below.                                                        *)
phLibNfc_Mgt_Reset(w) ==
  CASE ~w.lib.ctx \/ w.lib.cur = "Shutdown" -> Result("NOT_INITIALISED", w)
    [] w.lib.ctx /\ w.lib.cur # "Shutdown" /\ w.lib.next = "Shutdown" -> Result("SHUTDOWN", w)
    [] OTHER -> Result("SUCCESS", [w EXCEPT !.lib.reg = FALSE, !.lib.held = {}, !.lib.cur = "InitandIdle",
                  !.lib.initCb = 0, !.lib.shutCb = 0, !.lib.opCb = 0, !.lib.ntf = FALSE, !.lib.gen = FALSE])

(* Why an operation cannot start: what every one of them asks first.       *)
Busy(w) ==
  CASE ~w.lib.ctx \/ w.lib.cur = "Shutdown" -> "NOT_INITIALISED"
    [] w.lib.ctx /\ w.lib.cur # "Shutdown" /\ w.lib.next = "Shutdown" -> "SHUTDOWN"
    [] w.lib.ctx /\ w.lib.cur # "Shutdown" /\ w.lib.next # "Shutdown" /\ w.lib.gen -> "BUSY"
    [] OTHER -> "no"
phLibNfc_Mgt_GetstackCapabilities(w) ==
  IF Busy(w) # "no" THEN Busy(w)
  ELSE IF phHal4Nfc_GetDeviceCapabilities(w.hal) = "SUCCESS" THEN "SUCCESS" ELSE "FAILED"

phLibNfc_Mgt_ConfigureTestMode(w, c, on, fault) ==
  CASE w.lib.ctx /\ w.lib.next = "Shutdown" -> Result("SHUTDOWN", w)
    [] w.lib.ctx /\ w.lib.next # "Shutdown" /\ on -> Result("ALREADY_INITIALISED", w)
    [] ~w.lib.ctx /\ ~on -> Result("NOT_INITIALISED", w)
    [] w.lib.ctx /\ w.lib.next # "Shutdown" /\ ~on ->
         IF w.lib.shutCb # 0 THEN Result("BUSY", w) ELSE CloseNowOrLater(w, c, fault # "none")
    [] OTHER -> OpenWith(w, c, "test", fault)
-------------------------------------------------------------------------------
(* The library's other operations share one pending flag.  Some of them    *)
(* lead to another state; the others are ioctl codes.                      *)
Leads == [discovery |-> "ConfigReady", connect |-> "Connect", transceive |-> "Transaction",
          presence |-> "PresenceChk", release |-> "Release", continue |-> "Release"]
Configures(op) == op \in DOMAIN Leads \cup {"config"}
LibOp(w, op, c, refused) ==
  IF Busy(w) # "no" THEN Result(Busy(w), w)
  ELSE IF op \in DOMAIN Leads /\ Leads[op] \notin Successors(w.lib.cur) THEN Result("INVALID_STATE", w)
  ELSE LET r == WithHal(w, IF Configures(op) THEN phHal4Nfc_ConfigParameters(w.hal, "config", refused)
                           ELSE phHal4Nfc_Ioctl(w.hal, op, refused))
           lib == IF op \in DOMAIN Leads THEN phLibNfc_UpdateNextState(w.lib, Leads[op]) ELSE w.lib
       IN IF r.st # "PENDING" THEN r
          ELSE Result("PENDING", [r.w EXCEPT !.lib = [lib EXCEPT !.gen = TRUE, !.opCb = c, !.op = op,
                                                                 !.disc = op = "continue"]])
(* A download runs in a context of its own, which its end frees.           *)
Download(w, c, refused) ==
  IF w.lib.ctx THEN Result("ALREADY_INITIALISED", w)
  ELSE LET r == WithHal(w, phHal4Nfc_Ioctl(w.hal, "FW_DOWNLOAD", refused))
       IN IF r.st # "PENDING" THEN r
          ELSE [r EXCEPT !.w.lib = [NoLib EXCEPT !.ctx = TRUE, !.next = "Invalid", !.opCb = c]]
(* The end of any of them: a shutdown asked for meanwhile starts now.      *)
OpComplete(w, ok) ==
  LET lib == IF w.lib.op \in DOMAIN Leads /\ w.lib.next # "Shutdown"
             THEN phLibNfc_UpdateCurState(w.lib, ok) ELSE w.lib
      done == [w EXCEPT !.lib = [lib EXCEPT !.gen = FALSE, !.op = "none", !.opCb = 0]]
      next == IF w.lib.ctx /\ w.lib.next = "Shutdown" THEN phLibNfc_Pending_Shutdown(done, FALSE) ELSE done
  IN IF w.lib.opCb = 0 THEN next ELSE Post(next, w.lib.opCb, ok /\ next = done)

(* The callback the layer below ends a notification in.                    *)
Dispatch(w, up, elements) ==
  CASE up.cb = "InitCb" -> phLibNfc_InitCb(w, up.ok, elements)
    [] up.cb = "ShutdownCb" -> phLibNfc_ShutdownCb(w, up.ok)
    [] up.cb \in {"IoctlCb", "ConfigCb"} -> OpComplete(w, up.ok)
    [] up.cb = "Default" -> phLibNfc_DefaultHandler(w, up.ok)
    [] up.cb = "Exception" -> [w EXCEPT !.aborted = TRUE]
    [] OTHER -> w
Notified(w, type, elements) ==
  IF w.hal.hci = "download"
  THEN LET r == phHal4Nfc_DownloadComplete(w.hal, type = "done")
       IN Post([w EXCEPT !.hal = r.h, !.lib = NoLib], w.lib.opCb, r.up.ok)
  ELSE LET r == phHal4Nfc_LowerNotificationHandler(w.hal, type)
       IN Dispatch([w EXCEPT !.hal = r.h], r.up, elements)
===============================================================================
