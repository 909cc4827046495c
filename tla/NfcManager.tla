------------------------------ MODULE NfcManager ------------------------------
(***************************************************************************)
(* com_android_nfc_NativeNfcManager.cpp: the NFC service's native half on  *)
(* top of the library.  One API call at a time holds the concurrency lock; *)
(* it asks the library, and waits on the semaphore of a cb_data (a frame)  *)
(* that a callback posts.  The callbacks run in the client thread, which   *)
(* takes messages from a queue.  The reentrance lock makes a call of the   *)
(* library, and the handling of a message, one step each.                  *)
(*                                                                         *)
(* user says who uses the library: this file ("jni"), or some program that *)
(* calls the library directly and also uses what this file does not.       *)
(* Assumed of the world: no exception is thrown by the Java notified, and  *)
(* a thread told to end has ended before the next call configures the      *)
(* driver again.                                                           *)
(***************************************************************************)
EXTENDS LibNfc, NfcTimeouts

CONSTANTS
  FrameIds,   \* bound: callback frames
  Users,      \* who may use the library
  Millis,     \* bound: timeouts asked for
  Settings,   \* eeprom settings written, more by firmware type
  FwTypes,    \* types of firmware
  FwFiles,    \* sets of firmware libraries installed
  EventKinds, \* bound: the events of the chip
  Lists,      \* by name, the lists of remote devices found
  MaxCalls,   \* bound: API calls that drive the stack
  MaxSide,    \* bound: the other API calls
  MaxFaults,  \* bound: things that fail
  MaxEvents   \* bound: things that happen by themselves

ASSUME ConstantsAssumption ==
  /\ EventKinds \subseteq Events
  /\ Users \subseteq {"jni", "tool"}
  /\ FrameIds \subseteq Nat \ {0}
  /\ Millis \subseteq Int
  /\ DOMAIN Lists \cap (Events \cup {"done", "error", "device", "kill", "linkUp", "linkDown", "incoming"}) = {}

VARIABLES
  w,        \* the library and the layer below
  q,        \* the client thread's messages
  api,      \* the API call that holds the concurrency lock
  frames,   \* the callback frames
  mgr,      \* the statics and the nfc_jni_native_data
  times,    \* timeouts and the last one asked for
  user, fw, \* who uses the library; the firmware of the chip and on disk
  used      \* calls, faults and events so far

vars == <<w, q, api, frames, mgr, times, user, fw, used>>

NoCall == [call |-> "none", pc |-> "none", stack |-> <<>>, update |-> FALSE, tries |-> 0, left |-> 0,
           was |-> FALSE, result |-> FALSE, restart |-> FALSE]
Tool == 9
Free == [live |-> FALSE, mem |-> FALSE, st |-> "FAILED", sem |-> 0]
Init ==
  /\ w = [hal |-> ClosedHal, lib |-> NoLib, posted |-> <<>>, aborted |-> FALSE]
  /\ q = <<>> /\ api = NoCall
  /\ frames = [f \in FrameIds |-> Free]
  /\ mgr = [configured |-> FALSE, client |-> FALSE, service |-> "off", late |-> FALSE, stored |-> 0,
            llcp |-> 0, link |-> 0, up |-> FALSE, connected |-> FALSE, socks |-> {}, lastErr |-> "FAILED",
            incoming |-> 0, p2p |-> TRUE]
  /\ times = [t |-> nfc_jni_reset_timeout_values, tech |-> "none", ms |-> 0]
  /\ user \in Users /\ fw \in [type : FwTypes, files : FwFiles]
  /\ used = [calls |-> 0, side |-> 0, faults |-> 0, events |-> 0]

Alive == ~w.aborted
Jni == Alive /\ user = "jni"
Spend(kind) == used' = [used EXCEPT ![kind] = @ + 1]
(* A fault is a choice, paid for.                                          *)
Faulty(x) == IF x THEN used.faults < MaxFaults /\ Spend("faults") ELSE UNCHANGED used
-------------------------------------------------------------------------------
(* nfc_cb_data_init and nfc_cb_data_deinit.                                *)
InFlight ==
  (IF w.hal.hci = "init" THEN {w.lib.initCb} ELSE {})
    \cup (IF w.lib.ctx /\ w.lib.next = "Shutdown" THEN {w.lib.shutCb} ELSE {})
    \cup {w.lib.opCb} \cup {mgr.link}
Unused == {f \in FrameIds : ~frames[f].live /\ ~frames[f].mem /\ f \notin InFlight}
(* Bound: a call that needs one more finds one (there are enough).         *)
FreshFrame == CHOOSE f \in Unused : TRUE
Top == api.stack[Len(api.stack)]
Pushed == [frames EXCEPT ![FreshFrame] = [Free EXCEPT !.live = TRUE]]
Enter(pc) == [api EXCEPT !.stack = Append(@, FreshFrame), !.pc = pc]
Popped == [frames EXCEPT ![Top] = [@ EXCEPT !.live = FALSE]]
Left == SubSeq(api.stack, 1, Len(api.stack) - 1)
Dropped == [f \in FrameIds |-> IF \E i \in 1 .. Len(api.stack) : api.stack[i] = f
                               THEN [frames[f] EXCEPT !.live = FALSE] ELSE frames[f]]
Answered == frames[Top].sem > 0
Taken == [frames EXCEPT ![Top].sem = @ - 1]
Good == frames[Top].st = "SUCCESS"
(* The callbacks that set a frame's status and post its semaphore: a write *)
(* to memory that is no frame any more is lost here.                       *)
nfc_jni_callback_FailsQuietly(posted) ==
  [f \in FrameIds |-> IF \E i \in 1 .. Len(posted) : posted[i] = <<f, "SUCCESS">>
                      THEN [frames[f] EXCEPT !.st = "SUCCESS", !.sem = @ + 1] ELSE frames[f]]
nfc_jni_callback(posted) ==
  [f \in FrameIds |->
     LET mine == {i \in 1 .. Len(posted) : posted[i][1] = f}
     IN IF mine = {} \/ ~frames[f].live THEN frames[f]
        ELSE [frames[f] EXCEPT !.st = posted[CHOOSE i \in mine : TRUE][2], !.sem = @ + 1]]

(* A queue and a thread of its own.                                        *)
nfc_jni_configure_driver == [mgr EXCEPT !.configured = TRUE, !.client = TRUE]
nfc_jni_unconfigure_driver == [mgr EXCEPT !.configured = FALSE]
kill_client == IF mgr.client THEN Append(q, "kill") ELSE q
KillPending == \E i \in 1 .. Len(q) : q[i] = "kill"
-------------------------------------------------------------------------------
Start(call) ==
  /\ Jni /\ api = NoCall /\ used.calls < MaxCalls /\ ~KillPending /\ Unused # {}
  /\ Spend("calls")
(* A call that only touches the statics.                                   *)
Aside == Jni /\ used.side < MaxSide /\ Spend("side")

At(pc) == Jni /\ api.pc = pc
Goto(pc) == api' = [api EXCEPT !.pc = pc]
Ends(service) == api' = NoCall /\ mgr' = [mgr EXCEPT !.service = service]

(* Every failure of nfc_jni_initialize: the client thread is told to end,  *)
(* the driver stays configured.                                            *)
InitFails ==
  /\ Ends("failed") /\ frames' = Dropped /\ q' = kill_client

initialize ==
  /\ mgr.service # "on" /\ Start("initialize")
  /\ api' = [Enter("hw") EXCEPT !.call = "initialize"] /\ frames' = Pushed
  /\ UNCHANGED <<w, q, mgr, times, user, fw>>
(* The hardware module, the driver, then Mgt_Initialize.                   *)
InitHw ==
  /\ At("hw")
  /\ \E broken \in BOOLEAN :
       /\ Faulty(broken)
       /\ IF broken THEN InitFails
          ELSE LET configured == IF mgr.configured THEN mgr ELSE nfc_jni_configure_driver
               IN /\ mgr' = [configured EXCEPT !.connected = FALSE, !.stored = 0]
                  /\ q' = IF mgr.configured THEN q ELSE <<>>
                  /\ Goto("init") /\ UNCHANGED frames
  /\ UNCHANGED <<w, times, user, fw>>
nfc_jni_initialize ==
  /\ At("init")
  /\ \E fault \in {"none", "memory", "hci"} :
       /\ Faulty(fault # "none")
       /\ LET r == phLibNfc_Mgt_Initialize(w, Top, fault)
          IN /\ w' = r.w
             /\ api' = IF r.st = "PENDING" THEN [api EXCEPT !.pc = "initWait"]
                       ELSE [api EXCEPT !.pc = "dl", !.update = FALSE, !.tries = 0]
  /\ UNCHANGED <<q, frames, mgr, times, user, fw>>
InitWait ==
  /\ At("initWait") /\ Answered /\ frames' = Taken
  /\ api' = IF Good THEN [api EXCEPT !.pc = "caps"]
            ELSE [api EXCEPT !.pc = "dl", !.update = FALSE, !.tries = 0]
  /\ UNCHANGED <<w, q, mgr, times, user, fw, used>>
(* Unless the stack says otherwise the chip has the firmware on disk.      *)
InitCaps ==
  /\ At("caps")
  /\ \E newer \in BOOLEAN :
       /\ phLibNfc_Mgt_GetstackCapabilities(w) = "SUCCESS" \/ newer
       /\ api' = IF newer THEN [api EXCEPT !.pc = "dl", !.update = TRUE, !.tries = 0]
                 ELSE [api EXCEPT !.pc = "eeprom", !.left = Settings[fw.type]]
  /\ UNCHANGED <<w, q, frames, mgr, times, user, fw, used>>

(* nfc_jni_download_locked, tried three times.  The deinitialisation is    *)
(* waited for five seconds even when it was refused.                       *)
nfc_jni_download_locked ==
  /\ At("dl") /\ Unused # {} /\ frames' = Pushed
  /\ IF api.update
     THEN \E refused \in BOOLEAN :
            /\ Faulty(refused)
            /\ w' = phLibNfc_Mgt_DeInitialize(w, FreshFrame, refused).w
            /\ api' = Enter("dlDeinitWait")
     ELSE api' = Enter("pd") /\ UNCHANGED <<w, used>>
  /\ UNCHANGED <<q, mgr, times, user, fw>>
DlDeinitWait ==
  /\ At("dlDeinitWait") /\ Goto("pd")
  /\ \/ /\ Answered /\ frames' = Taken /\ UNCHANGED <<mgr, used>>
     \/ /\ ~Answered /\ Top \notin InFlight /\ UNCHANGED <<frames, mgr, used>>
     \/ /\ ~Answered /\ Top \in InFlight /\ Faulty(TRUE)
        /\ mgr' = [mgr EXCEPT !.late = TRUE] /\ UNCHANGED frames
  /\ UNCHANGED <<w, q, times, user, fw>>
NextTry ==
  IF api.tries < 2
  THEN /\ api' = [api EXCEPT !.stack = Left, !.pc = "dl", !.update = FALSE, !.tries = @ + 1]
       /\ frames' = Popped /\ UNCHANGED <<mgr, q>>
  ELSE InitFails
DlInit ==
  /\ At("dlInit")
  /\ \E fault \in {"none", "memory", "hci"} :
       /\ Faulty(fault # "none")
       /\ LET r == phLibNfc_Mgt_Initialize(w, Top, fault)
          IN /\ w' = r.w
             /\ IF r.st = "PENDING" THEN Goto("dlInitWait") /\ UNCHANGED <<frames, mgr, q>> ELSE NextTry
  /\ UNCHANGED <<times, user, fw>>
DlInitWait ==
  /\ At("dlInitWait") /\ Answered
  /\ IF Good THEN /\ api' = [api EXCEPT !.stack = Left, !.pc = "eeprom", !.left = Settings[fw.type]]
                  /\ frames' = Popped /\ UNCHANGED <<mgr, q>>
     ELSE NextTry
  /\ UNCHANGED <<w, times, user, fw, used>>

(* performDownload, within an initialisation or by itself.                 *)
doDownload ==
  /\ mgr.service = "off" /\ Start("doDownload")
  /\ api' = [NoCall EXCEPT !.call = "doDownload", !.pc = "pd"]
  /\ UNCHANGED <<w, q, frames, mgr, times, user, fw>>
performDownload ==
  /\ At("pd") /\ Unused # {} /\ frames' = Pushed
  /\ mgr' = IF mgr.configured THEN mgr ELSE nfc_jni_configure_driver
  /\ q' = IF mgr.configured THEN q ELSE <<>>
  /\ \E refused \in BOOLEAN :
       LET image == phLibNfc_Load_Firmware_Image(w, fw.type, fw.files)
           r == IF image THEN Download(w, FreshFrame, refused) ELSE Result("FAILED", w)
       IN /\ Faulty(refused)
          /\ w' = r.w
          /\ api' = [Enter(IF r.st = "PENDING" THEN "pdWait" ELSE "pdEnd") EXCEPT
                       !.was = ~mgr.configured, !.result = FALSE]
  /\ UNCHANGED <<times, user, fw>>
PdWait ==
  /\ At("pdWait") /\ Answered /\ frames' = Taken
  /\ api' = [api EXCEPT !.pc = "pdEnd", !.result = Good]
  /\ UNCHANGED <<w, q, mgr, times, user, fw, used>>
(* The chip is reset; a driver configured for this is released again, and  *)
(* then that is the result.                                                *)
PdEnd ==
  /\ At("pdEnd") /\ frames' = Popped
  /\ IF api.was THEN mgr' = nfc_jni_unconfigure_driver ELSE UNCHANGED mgr
  /\ api' = CASE api.call = "doDownload" -> NoCall
              [] api.call # "doDownload" /\ api.result -> [api EXCEPT !.stack = Left, !.pc = "dlInit"]
              [] OTHER -> [api EXCEPT !.stack = Left, !.pc = "dlEnd"]
  /\ UNCHANGED <<w, q, times, user, fw, used>>
DlEnd == At("dlEnd") /\ NextTry /\ UNCHANGED <<w, times, user, fw, used>>

(* The settings, the secure element off, the LLCP parameters: one request  *)
(* after the other, each waited for.                                       *)
Ask(pc, op, wait) ==
  /\ At(pc)
  /\ \E refused \in BOOLEAN :
       /\ Faulty(refused)
       /\ LET r == LibOp(w, op, Top, refused)
          IN /\ w' = r.w
             /\ IF r.st = "PENDING" THEN Goto(wait) /\ UNCHANGED <<frames, mgr, q>> ELSE InitFails
  /\ UNCHANGED <<times, user, fw>>
Awaited(wait, next, checked) ==
  /\ At(wait) /\ Answered
  /\ IF Good \/ ~checked THEN frames' = Taken /\ api' = next /\ UNCHANGED <<mgr, q>> ELSE InitFails
  /\ UNCHANGED <<w, times, user, fw, used>>
WriteEeprom == Ask("eeprom", "MEM_WRITE", "eepromWait")
WriteEepromWait ==
  Awaited("eepromWait", [api EXCEPT !.left = @ - 1, !.pc = IF api.left > 1 THEN "eeprom" ELSE "se"], TRUE)
SeSetMode == Ask("se", "config", "seWait")
SeSetModeWait == Awaited("seWait", [api EXCEPT !.pc = "llcp"], FALSE)
LlcpConfig == Ask("llcp", "config", "llcpWait")
LlcpConfigWait == Awaited("llcpWait", [api EXCEPT !.pc = "ntf"], FALSE)
(* phLibNfc_SE_NtfRegister, then the service is on.                        *)
InitNtf ==
  /\ At("ntf")
  /\ \E broken \in BOOLEAN :
       /\ Faulty(broken)
       /\ IF broken THEN InitFails /\ UNCHANGED w
          ELSE /\ w' = [w EXCEPT !.lib.ntf = TRUE] /\ frames' = Popped /\ Ends("on") /\ UNCHANGED q
  /\ UNCHANGED <<times, user, fw>>
-------------------------------------------------------------------------------
(* emergency_recovery: the process ends.                                   *)
emergency_recovery == w' = [w EXCEPT !.aborted = TRUE]

deinitialize_NoWait ==
  /\ mgr.service = "on" /\ Start("deinitialize") /\ q' = kill_client
  /\ LET r == phLibNfc_Mgt_DeInitialize(w, FreshFrame, FALSE)
     IN w' = r.w /\ mgr' = [nfc_jni_unconfigure_driver EXCEPT !.service = "off"]
  /\ UNCHANGED <<api, frames, times, user, fw>>
deinitialize ==
  /\ mgr.service = "on" /\ Start("deinitialize")
  /\ \E refused \in BOOLEAN :
       LET r == phLibNfc_Mgt_DeInitialize(w, FreshFrame, refused)
       IN /\ refused => used.faults < MaxFaults
          /\ w' = r.w /\ frames' = Pushed
          /\ api' = [Enter(IF r.st = "PENDING" THEN "deinitWait" ELSE "recovery") EXCEPT !.call = "deinitialize"]
  /\ UNCHANGED <<q, mgr, times, user, fw>>
(* Five seconds for the answer.  The frame is gone before the process is.  *)
DeinitWait ==
  /\ At("deinitWait")
  /\ \/ /\ Answered /\ frames' = Popped
        /\ api' = [api EXCEPT !.stack = Left, !.pc = IF Good THEN "unconfigure" ELSE "recovery"]
        /\ UNCHANGED <<mgr, used>>
     \/ /\ ~Answered /\ Faulty(TRUE) /\ frames' = Popped
        /\ mgr' = [mgr EXCEPT !.late = TRUE]
        /\ api' = [api EXCEPT !.stack = Left, !.pc = "recovery"]
  /\ UNCHANGED <<w, q, times, user, fw>>
Unconfigure ==
  /\ At("unconfigure") /\ q' = kill_client
  /\ mgr' = [nfc_jni_unconfigure_driver EXCEPT !.service = "off"] /\ api' = NoCall
  /\ UNCHANGED <<w, frames, times, user, fw, used>>
Recovery ==
  /\ At("recovery") /\ emergency_recovery /\ q' = kill_client
  /\ UNCHANGED <<api, frames, mgr, times, user, fw, used>>

(* enableDiscovery, disableDiscovery: stop and start are the same request, *)
(* a busy library is asked again up to three times.                        *)
enableDiscovery ==
  /\ mgr.service = "on" /\ Start("enableDiscovery")
  /\ \E restart, p2p \in BOOLEAN :
       /\ api' = [NoCall EXCEPT !.call = "enableDiscovery", !.pc = IF restart THEN "stop" ELSE "start"]
       /\ mgr' = [mgr EXCEPT !.p2p = p2p]
  /\ w' = [w EXCEPT !.lib.reg = TRUE]
  /\ UNCHANGED <<q, frames, times, user, fw>>
disableDiscovery ==
  /\ mgr.service = "on" /\ Start("disableDiscovery")
  /\ api' = [NoCall EXCEPT !.call = "disableDiscovery", !.pc = "stop"]
  /\ UNCHANGED <<w, q, frames, mgr, times, user, fw>>
Configure(wait) ==
  \E answer \in {"ask", "refused", "BUSY"} :
    LET r == IF answer = "BUSY" THEN Result("BUSY", w)
             ELSE LibOp(w, "discovery", FreshFrame, answer = "refused")
    IN /\ Faulty(answer # "ask")
       /\ CASE r.st = "PENDING" -> w' = r.w /\ api' = Enter(wait) /\ frames' = Pushed
            [] r.st = "BUSY" /\ api.tries < 3 ->
                 api' = [api EXCEPT !.tries = @ + 1] /\ UNCHANGED <<w, frames>>
            [] OTHER -> emergency_recovery /\ UNCHANGED <<api, frames>>
nfc_jni_stop_discovery_locked ==
  /\ At("stop") /\ Unused # {} /\ Configure("stopWait") /\ UNCHANGED <<q, mgr, times, user, fw>>
StopWait ==
  /\ At("stopWait") /\ Answered /\ frames' = Popped
  /\ api' = IF api.call = "enableDiscovery" THEN [api EXCEPT !.stack = Left, !.pc = "start", !.tries = 0]
            ELSE NoCall
  /\ UNCHANGED <<w, q, mgr, times, user, fw, used>>
nfc_jni_start_discovery_locked ==
  /\ At("start") /\ Unused # {} /\ Configure("startWait")
  /\ times' = [t |-> nfc_jni_reset_timeout_values, tech |-> "none", ms |-> 0]
  /\ mgr' = [mgr EXCEPT !.connected = FALSE]
  /\ UNCHANGED <<q, user, fw>>
StartWait ==
  /\ At("startWait") /\ Answered /\ frames' = Popped /\ api' = NoCall
  /\ UNCHANGED <<w, q, mgr, times, user, fw, used>>

SetTimeout ==
  /\ api = NoCall /\ Aside
  /\ \E tech \in Techs, ms \in Millis :
       times' = IF ms <= 0 THEN times ELSE [t |-> doSetTimeout(times.t, tech, ms), tech |-> tech, ms |-> ms]
  /\ UNCHANGED <<w, q, api, frames, mgr, user, fw>>
ResetTimeouts ==
  /\ api = NoCall /\ Aside
  /\ times' = [t |-> nfc_jni_reset_timeout_values, tech |-> "none", ms |-> 0]
  /\ UNCHANGED <<w, q, api, frames, mgr, user, fw>>
-------------------------------------------------------------------------------
(* The LLCP link.  doCheckLlcp's frame is on the heap: the link's end      *)
(* frees it.                                                               *)
doCheckLlcp ==
  /\ mgr.service = "on" /\ mgr.llcp # 0 /\ Start("doCheckLlcp")
  /\ \E refused \in BOOLEAN :
       LET r == LibOp(w, "config", FreshFrame, refused)
       IN /\ refused => used.faults < MaxFaults
          /\ w' = r.w
          /\ IF r.st = "PENDING"
             THEN /\ frames' = [Pushed EXCEPT ![FreshFrame].mem = TRUE]
                  /\ api' = [Enter("checkWait") EXCEPT !.call = "doCheckLlcp"]
             ELSE UNCHANGED <<api, frames>>
  /\ UNCHANGED <<q, mgr, times, user, fw>>
(* A failed check leaves the frame to nobody.                              *)
CheckWait ==
  /\ At("checkWait") /\ Answered /\ api' = NoCall
  /\ frames' = IF Good THEN Popped ELSE [Popped EXCEPT ![Top].mem = FALSE]
  /\ mgr' = IF Good THEN [mgr EXCEPT !.link = Top, !.up = FALSE] ELSE mgr
  /\ UNCHANGED <<w, q, times, user, fw, used>>
doActivateLlcp ==
  /\ mgr.service = "on" /\ mgr.link # 0 /\ ~mgr.up /\ Aside
  /\ q' = Append(q, "linkUp")
  /\ UNCHANGED <<w, api, frames, mgr, times, user, fw>>
nfc_jni_llcp_linkStatus_callback(m) ==
  IF m = "linkUp" THEN mgr' = [mgr EXCEPT !.up = TRUE, !.connected = TRUE] /\ UNCHANGED frames
  ELSE /\ mgr' = [mgr EXCEPT !.up = FALSE, !.link = 0, !.connected = FALSE, !.incoming = 0]
       /\ frames' = IF mgr.link = 0 THEN frames ELSE [frames EXCEPT ![mgr.link].mem = FALSE]

(* Sockets, made without the concurrency lock: the buffer of a service     *)
(* socket that cannot be bound is not given back.                          *)
Socket(kind) ==
  /\ Jni /\ mgr.service = "on" /\ kind \notin mgr.socks /\ used.side < MaxSide
  /\ \E err \in {"none", "INSUFFICIENT_RESOURCES", "FAILED"} :
       /\ used' = [used EXCEPT !.side = @ + 1, !.faults = @ + (IF err = "none" THEN 0 ELSE 1)]
       /\ err # "none" => used.faults < MaxFaults
       /\ mgr' = IF err = "none" THEN [mgr EXCEPT !.socks = @ \cup {kind}] ELSE [mgr EXCEPT !.lastErr = err]
  /\ UNCHANGED <<w, q, api, frames, times, user, fw>>
doCreateLlcpConnectionlessSocket == Socket("connectionless")
doCreateLlcpServiceSocket == Socket("service")
doCreateLlcpSocket == Socket("client")
nfc_jni_llcp_transport_listen_socket_callback ==
  IF "service" \in mgr.socks THEN [mgr EXCEPT !.incoming = @ + 1] ELSE mgr

doSetP2pModes ==
  /\ Aside
  /\ mgr' = [mgr EXCEPT !.p2p = ~@]
  /\ UNCHANGED <<w, q, api, frames, times, user, fw>>
doAbort ==
  /\ Aside /\ emergency_recovery
  /\ UNCHANGED <<q, api, frames, mgr, times, user, fw>>
-------------------------------------------------------------------------------
(* The last of the devices found that is a peer, else the first.           *)
IsPeer(d) == d.type = "p2p"
find_preferred_target(list) ==
  IF \E i \in 1 .. Len(list) : IsPeer(list[i])
  THEN CHOOSE i \in 1 .. Len(list) : IsPeer(list[i]) /\ \A j \in i + 1 .. Len(list) : ~IsPeer(list[j])
  ELSE 1
nfc_jni_Discovery_notification_callback(list) ==
  IF list = <<>> THEN mgr
  ELSE LET d == list[find_preferred_target(list)]
       IN [mgr EXCEPT !.connected = TRUE, !.stored = d.handle,
                      !.llcp = IF IsPeer(d) THEN d.handle ELSE @]

Answers == {"done", "error", "device"}
(* The HCI layer passes on an answer it waits for, and events while it is  *)
(* open; the rest came too late.                                           *)
Heard(m) == IF m \in Answers THEN w.hal.hci # "none" ELSE w.hal.ctx = "live" /\ w.hal.cur # "Closed"
(* A message in the client thread, under the reentrance lock.              *)
nfc_jni_client_thread ==
  /\ Alive /\ mgr.client /\ q # <<>> /\ q' = Tail(q)
  /\ LET m == Head(q)
     IN CASE m = "kill" -> mgr' = [mgr EXCEPT !.client = FALSE] /\ UNCHANGED <<w, frames>>
          [] m \in {"linkUp", "linkDown"} -> nfc_jni_llcp_linkStatus_callback(m) /\ UNCHANGED w
          [] m = "incoming" -> mgr' = nfc_jni_llcp_transport_listen_socket_callback /\ UNCHANGED <<w, frames>>
          [] m \in DOMAIN Lists ->
               /\ mgr' = IF w.lib.reg THEN nfc_jni_Discovery_notification_callback(Lists[m]) ELSE mgr
               /\ UNCHANGED <<w, frames>>
          [] OTHER ->
               LET n == IF Heard(m) THEN Notified(w, m, {}) ELSE w
               IN /\ w' = [n EXCEPT !.posted = <<>>] /\ frames' = nfc_jni_callback(n.posted) /\ UNCHANGED mgr
  /\ UNCHANGED <<api, times, user, fw, used>>

(* The chip: it answers what it was asked, stops working, or has something *)
(* to say by itself.                                                       *)
Said == \E i \in 1 .. Len(q) : q[i] \in Answers
ChipAnswers ==
  /\ Alive /\ w.hal.hci # "none" /\ ~Said
  /\ \E m \in Answers : Faulty(m # "done") /\ q' = Append(q, m)
  /\ UNCHANGED <<w, api, frames, mgr, times, user, fw>>
ChipSpeaks ==
  /\ Alive /\ used.events < MaxEvents /\ w.hal.ctx = "live" /\ w.hal.cur \notin {"Closed", "SelfTestMode"}
  /\ Spend("events")
  /\ \E m \in EventKinds
            \cup (IF w.lib.cur = "ConfigReady" THEN DOMAIN Lists ELSE {})
            \cup (IF "service" \in mgr.socks THEN {"incoming"} ELSE {}) :
       q' = Append(q, m)
  /\ UNCHANGED <<w, api, frames, mgr, times, user, fw>>
LinkLost ==
  /\ Alive /\ mgr.up /\ ~\E i \in 1 .. Len(q) : q[i] = "linkDown"
  /\ q' = Append(q, "linkDown")
  /\ UNCHANGED <<w, api, frames, mgr, times, user, fw, used>>
-------------------------------------------------------------------------------
(* Another client of the library, with a client thread of its own.  It     *)
(* leaves test mode only after it entered it.                              *)
ToolCalls(fault) ==
  LET refused == fault # "none"
  IN {phLibNfc_Mgt_Initialize(w, Tool, fault), phLibNfc_Mgt_DeInitialize(w, Tool, refused),
      phLibNfc_Mgt_DeInitialize(w, 0, refused), phLibNfc_Mgt_Reset(w),
      phLibNfc_Mgt_ConfigureTestMode(w, Tool, TRUE, fault), Download(w, Tool, refused)}
       \cup {LibOp(w, op, Tool, refused) : op \in DOMAIN Leads \cup {"SWP_TEST", "ANTENNA_CWG", "MEM_READ", "FW_DOWNLOAD"}}
       \cup (IF w.lib.cur = "Shutdown" THEN {} ELSE {phLibNfc_Mgt_ConfigureTestMode(w, Tool, FALSE, fault)})
ToolCall ==
  /\ Alive /\ user = "tool" /\ used.calls < MaxCalls
  /\ \E fault \in {"none", "memory", "hci"} :
       /\ used' = [used EXCEPT !.calls = @ + 1, !.faults = @ + (IF fault = "none" THEN 0 ELSE 1)]
       /\ fault # "none" => used.faults < MaxFaults
       /\ \E r \in ToolCalls(fault) : w' = r.w
  /\ mgr' = [mgr EXCEPT !.client = TRUE]
  /\ UNCHANGED <<q, api, frames, times, user, fw>>
-------------------------------------------------------------------------------
Calls == initialize \/ doDownload \/ deinitialize \/ enableDiscovery \/ disableDiscovery
           \/ SetTimeout \/ ResetTimeouts \/ doCheckLlcp \/ doActivateLlcp
           \/ doCreateLlcpConnectionlessSocket \/ doCreateLlcpServiceSocket \/ doCreateLlcpSocket
           \/ doSetP2pModes \/ doAbort
Goes == InitHw \/ nfc_jni_initialize \/ InitWait \/ InitCaps \/ nfc_jni_download_locked \/ DlDeinitWait
          \/ DlInit \/ DlInitWait \/ performDownload \/ PdWait \/ PdEnd \/ DlEnd \/ WriteEeprom
          \/ WriteEepromWait \/ SeSetMode \/ SeSetModeWait \/ LlcpConfig \/ LlcpConfigWait \/ InitNtf
          \/ DeinitWait \/ Unconfigure \/ Recovery \/ nfc_jni_stop_discovery_locked \/ StopWait
          \/ nfc_jni_start_discovery_locked \/ StartWait \/ CheckWait
Next == Calls \/ Goes \/ nfc_jni_client_thread \/ ChipAnswers \/ ChipSpeaks \/ LinkLost \/ ToolCall
Spec == Init /\ [][Next]_vars
Waits == {"initWait", "dlInitWait", "pdWait", "eepromWait", "seWait", "llcpWait", "deinitWait",
          "stopWait", "startWait", "checkWait"}
-------------------------------------------------------------------------------
(* A callback still to come finds the cb_data it was given: the frame of a *)
(* call that waits, or the link's memory.  Only after one of the two timed *)
(* waits ran out (deinitialize, nfc_jni_download_locked) may a late answer *)
(* be on its way to a frame that is gone.                                  *)
CallbackFindsFrame ==
  \A f \in InFlight \ {0, Tool} : mgr.late \/ frames[f].live \/ frames[f].mem

(* Between calls the service, the library and the layer below agree.  Once *)
(* initialize returned TRUE the library and the hardware layer are open    *)
(* and someone takes their messages; once deinitialize returned nothing of *)
(* them is left and the driver is released.  And whoever uses the library: *)
(* without a context of the library there is none below either, so that    *)
(* the next Open is not refused.                                           *)
StackMatchesService ==
  /\ (Jni /\ api = NoCall /\ mgr.service = "on") =>
       /\ w.lib.ctx /\ w.lib.next # "Shutdown" /\ w.lib.cur \in {"InitandIdle", "ConfigReady"}
       /\ w.hal.ctx = "live" /\ w.hal.hwref /\ w.hal.cur = "OpenAndReady"
       /\ mgr.configured /\ mgr.client
  /\ (Jni /\ api = NoCall /\ mgr.service = "off") => ~w.lib.ctx /\ ~mgr.configured
  /\ (Alive /\ ~w.lib.ctx) => w.hal.ctx = "none" /\ ~w.hal.hwref
  /\ ~w.hal.used

(* The timeout set last is honoured: read back it is at least what was     *)
(* asked for, although the chip counts in powers of two and the longer     *)
(* ones are kept in a timeout the technologies share.                      *)
TimeoutHonoured == times.tech = "none" \/ doGetTimeout(times.t, times.tech) >= times.ms

(* No wait is for nothing: a call that waits on its semaphore has a        *)
(* callback on its way to that frame, with a request in the HCI layer or   *)
(* an answer in the queue, and a thread to run it.  The exception is the   *)
(* code's: after a failed initialize the driver stays configured and the   *)
(* client thread is gone, so the next call that waits waits for ever.      *)
WaitAnswered ==
  (Jni /\ api.pc \in Waits /\ ~Answered /\ mgr.service # "failed") =>
     Top \in InFlight /\ mgr.client /\ w.hal.hci # "none"
===============================================================================
