-------------------------------- MODULE Hal4Nfc --------------------------------
(***************************************************************************)
(* phHal4Nfc.c: the hardware abstraction of the NFC stack, between the     *)
(* library above it and the HCI layer below.  Its state h is one record:   *)
(* gpphHal4Nfc_Hwref and the context hal_context points to.  A call        *)
(* returns [st, h]; a notification from below returns [h, up], where up is *)
(* the callback of the library it ends in.  hci is what the HCI layer was  *)
(* asked for and has not answered; what it answers is the caller's choice. *)
(* Built with FW_DOWNLOAD and without the MERGE_SAK workarounds.           *)
(***************************************************************************)
EXTENDS Integers

(* ctx is "freed" when hal_context still points at memory given back, used *)
(* when such memory is read.                                               *)
ClosedHal ==
  [hwref |-> FALSE, ctx |-> "none", cur |-> "Closed", next |-> "Invalid", openCb |-> "none",
   closeCb |-> "none", ioctlCb |-> "none", ioctl |-> "none", cfgCb |-> "none", handler |-> FALSE, add |-> FALSE,
   tagNtf |-> FALSE, rdr |-> FALSE, hci |-> "none", used |-> FALSE]

NoUp == [cb |-> "none", ok |-> TRUE]
Up(cb, ok) == [cb |-> cb, ok |-> ok]
Ret(st, h) == [st |-> st, h |-> h]
Touch(h) == [h EXCEPT !.used = @ \/ h.ctx = "freed"]
(* The context and all it owns are given back and nothing points at it.    *)
FreeContext(h) == [ClosedHal EXCEPT !.used = h.used \/ h.ctx = "freed"]

(* A context from Open, its layers configured.                             *)
phHal4Nfc_Configure_Layers(h, mode) ==
  [ClosedHal EXCEPT !.ctx = "live", !.used = h.used, !.hwref = TRUE, !.openCb = "InitCb",
                    !.next = IF mode = "test" THEN "SelfTestMode" ELSE "OpenAndReady"]

(* fault: "none", "memory" (the layers cannot be allocated) or "hci" (the  *)
(* HCI layer refuses at once).  Both give the context back and leave       *)
(* hal_context pointing at it.                                             *)
phHal4Nfc_Open(h, mode, fault) ==
  LET opened == phHal4Nfc_Configure_Layers(Touch(h), mode)
  IN CASE h.hwref -> Ret("ALREADY_INITIALISED", h)
       [] ~h.hwref /\ fault = "memory" ->
            Ret("INSUFFICIENT_RESOURCES", [Touch(h) EXCEPT !.ctx = "freed"])
       [] ~h.hwref /\ fault = "hci" -> Ret("FAILED", [opened EXCEPT !.ctx = "freed"])
       [] OTHER -> Ret("PENDING", [opened EXCEPT !.hci = "init"])

phHal4Nfc_OpenComplete(h, ok) ==
  IF ok THEN [h |-> [h EXCEPT !.cur = h.next, !.next = "Invalid", !.openCb = "none"],
              up |-> Up(h.openCb, TRUE)]
        ELSE [h |-> FreeContext(h), up |-> Up(h.openCb, FALSE)]

Open(h) == h.cur # "Closed" /\ h.next # "Closed"
phHal4Nfc_Close(h, refused) ==
  IF h.ctx = "none" THEN Ret("NOT_INITIALISED", h)
  ELSE IF ~Open(h) THEN Ret("NOT_INITIALISED", Touch(h))
  ELSE LET c == [Touch(h) EXCEPT !.tagNtf = @ /\ ~h.add, !.closeCb = "ShutdownCb"]
       IN IF refused THEN Ret("FAILED", c)
          ELSE Ret("PENDING", [c EXCEPT !.next = "Closed", !.tagNtf = FALSE, !.hci = "release"])

phHal4Nfc_CloseComplete(h, ok) ==
  [h |-> IF ok THEN FreeContext(h) ELSE [h EXCEPT !.cur = h.next, !.next = "Invalid"],
   up |-> Up(h.closeCb, ok)]

(* The HCI layer is released without a notification and everything freed.  *)
phHal4Nfc_Hal4Reset(h) == IF h.ctx = "none" THEN h ELSE FreeContext(h)

phHal4Nfc_GetDeviceCapabilities(h) ==
  IF h.ctx = "none" \/ h.cur \in {"Closed", "SelfTestMode"} \/ h.next = "Closed"
  THEN "NOT_INITIALISED" ELSE "SUCCESS"

(* Whether an image can be loaded at all: one of the firmware libraries    *)
(* for the chip's type is there.                                           *)
dlopen_firmware(type, files) ==
  "fw" \in files \/ (type = 167 /\ "c2" \in files) \/ (type = 177 /\ "c3" \in files)

Tests == {"ANTENNA_TEST", "SWP_TEST", "NFCWI_TEST"}
Reads == {"GPIO_READ", "MEM_READ"}
Writes == {"MEM_WRITE"}
(* Without a context only a download, or the check for one.                *)
IoctlClosed(h, code, refused) ==
  CASE code = "FW_DOWNLOAD" /\ ~h.hwref /\ ~refused ->
         Ret("PENDING", [ClosedHal EXCEPT !.ctx = "live", !.used = h.used, !.ioctlCb = "IoctlCb",
                                          !.hci = "download"])
    [] code = "FW_DOWNLOAD" /\ ~h.hwref /\ refused -> Ret("FAILED", h)
    [] code = "FW_DOWNLOAD_CHECK" -> Ret(IF refused THEN "FAILED" ELSE "SUCCESS", h)
    [] OTHER -> Ret("NOT_INITIALISED", h)
(* What each code asks of the HCI layer, given well formed parameters.     *)
IoctlOp(h, code) ==
  CASE code \in Tests \cup {"ANTENNA_CWG"} -> IF h.cur # "SelfTestMode" THEN "none"
                                              ELSE IF code \in Tests THEN "test" ELSE "ioctl"
    [] code = "PRBS_TEST" -> "test"
    [] code \in Reads \cup Writes -> "ioctl"
    [] OTHER -> "none"
phHal4Nfc_Ioctl(h, code, refused) ==
  IF h.ctx = "none" THEN IoctlClosed(h, code, refused)
  ELSE CASE code \in {"FW_DOWNLOAD", "FW_DOWNLOAD_CHECK"} -> Ret("BUSY", Touch(h))
         [] IoctlOp(h, code) # "none" /\ h.hci = "none" /\ ~refused ->
              Ret("PENDING", [Touch(h) EXCEPT !.ioctlCb = "IoctlCb", !.ioctl = code, !.hci = IoctlOp(h, code)])
         [] OTHER -> Ret("FAILED", Touch(h))

phHal4Nfc_IoctlComplete(h, ok) ==
  [h |-> [h EXCEPT !.ioctlCb = "none"], up |-> Up(h.ioctlCb, ok)]
(* The callback stays registered.  These tests are passed whatever the     *)
(* chip says, their result is in the data.                                 *)
phHal4Nfc_SelfTestComplete(h, ok) ==
  [h |-> h, up |-> Up(h.ioctlCb, ok \/ h.ioctl \in {"SWP_TEST", "ANTENNA_TEST"})]
phHal4Nfc_DownloadComplete(h, ok) ==
  [h |-> FreeContext(h), up |-> Up(h.ioctlCb, ok)]

(* Discovery and the rest of the configuration: phHal4Nfc_ADD.c.           *)
phHal4Nfc_ConfigParameters(h, op, refused) ==
  IF ~Open(h) \/ h.ctx # "live" THEN Ret("NOT_INITIALISED", h)
  ELSE IF h.hci # "none" THEN Ret("BUSY", h)
  ELSE IF refused THEN Ret("FAILED", h)
  ELSE Ret("PENDING", [h EXCEPT !.next = "Configuring", !.add = TRUE, !.cfgCb = "ConfigCb", !.hci = op])
phHal4Nfc_ConfigureComplete(h, ok) ==
  [h |-> [h EXCEPT !.next = "Invalid", !.cfgCb = "none"], up |-> Up(h.cfgCb, ok)]
phHal4Nfc_RegisterNotification(h) == [h EXCEPT !.handler = TRUE]

(* An event of the chip on its own account.                                *)
Emulation == {"picc", "protected", "transaction", "fieldOn", "fieldOff"}
Events == Emulation \cup {"p2p", "rdOff", "rdOn", "exception"}
phHal4Nfc_HandleEvent(h, e) ==
  CASE h.next = "Closed" -> [h |-> h, up |-> NoUp]
    [] h.next # "Closed" /\ e \in Emulation -> [h |-> h, up |-> Up(e, TRUE)]
    [] h.next # "Closed" /\ e = "p2p" -> [h |-> h, up |-> Up("p2p", TRUE)]
    [] h.next # "Closed" /\ e = "rdOff" -> [h |-> [h EXCEPT !.rdr = FALSE], up |-> NoUp]
    [] h.next # "Closed" /\ e = "rdOn" ->
         [h |-> [h EXCEPT !.rdr = TRUE, !.add = TRUE,
                          !.next = IF h.hci = "none" THEN "Configuring" ELSE @,
                          !.hci = IF h.hci = "none" THEN "config" ELSE @], up |-> NoUp]
    [] OTHER -> [h |-> h, up |-> IF h.handler THEN Up("Default", TRUE) ELSE NoUp]

(* The chip no longer answers.                                             *)
DeviceError(h) ==
  CASE h.handler -> [h |-> [h EXCEPT !.next = "Invalid"], up |-> Up("Default", FALSE)]
    [] ~h.handler /\ h.next \in {"SelfTestMode", "OpenAndReady"} ->
         [h |-> FreeContext(h), up |-> Up(h.openCb, FALSE)]
    [] OTHER -> [h |-> [h EXCEPT !.next = "Invalid"], up |-> Up("Exception", FALSE)]

(* What a plain error ends depends on the state being entered.             *)
ErrorIn(h) ==
  CASE h.next = "Closed" -> phHal4Nfc_CloseComplete(h, FALSE)
    [] h.next = "SelfTestMode" -> phHal4Nfc_SelfTestComplete(h, FALSE)
    [] h.next = "Configuring" -> phHal4Nfc_ConfigureComplete(h, FALSE)
    [] OTHER -> [h |-> h, up |-> NoUp]

(* type: the answer to hci ("done", "error"), an event or "device".        *)
phHal4Nfc_LowerNotificationHandler(h0, type) ==
  LET h == [Touch(h0) EXCEPT !.hwref = TRUE]
      idle == [h EXCEPT !.hci = "none"]
      ok == type = "done"
  IN CASE type = "device" -> DeviceError(idle)
       [] type \in Events -> phHal4Nfc_HandleEvent(h, type)
       [] h.hci = "init" /\ type \in {"done", "error"} -> phHal4Nfc_OpenComplete(idle, ok)
       [] h.hci = "release" /\ type \in {"done", "error"} -> phHal4Nfc_CloseComplete(idle, ok)
       [] h.hci = "ioctl" /\ type \in {"done", "error"} -> phHal4Nfc_IoctlComplete(idle, ok)
       [] h.hci = "test" /\ ok -> phHal4Nfc_SelfTestComplete(idle, ok)
       [] h.hci = "config" /\ ok -> phHal4Nfc_ConfigureComplete(idle, ok)
       [] OTHER -> ErrorIn(idle)
===============================================================================
