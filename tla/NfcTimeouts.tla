------------------------------ MODULE NfcTimeouts ------------------------------
(***************************************************************************)
(* The transceive timeouts of com_android_nfc_NativeNfcManager.cpp.  The   *)
(* chip counts in steps of 4096/13560 ms raised to a power of two; what is *)
(* too long for it is left to the HCI response timeout, which all the      *)
(* technologies share.  Milliseconds are integers; the code's doubles are  *)
(* exact enough not to matter at the values used.                          *)
(***************************************************************************)
EXTENDS Integers

Techs == {"NfcA", "IsoDep", "Felica"}
(* nfc_jni_reset_timeout_values: NXP_ISO_XCHG_TIMEOUT and the others.      *)
nfc_jni_reset_timeout_values == [iso |-> 16 + 11, hci |-> 6000, felica |-> 0, raw |-> 11]

(* 1 << n, of a 32 bit integer that is not negative.                       *)
TwoTo[n \in 0 .. 31] == IF n = 0 THEN 1 ELSE 2 * TwoTo[n - 1]

(* ret: the value shifted right by it is 1.                                *)
Lowest(value) == CHOOSE r \in 0 .. 30 : TwoTo[r] <= value /\ value < TwoTo[r + 1]
log2_NoRoundUp(value) == Lowest(value)
log2(value) == IF TwoTo[Lowest(value)] = value THEN Lowest(value) ELSE Lowest(value) + 1
CeilDiv(a, b) == (a + b - 1) \div b
calcTimeout(ms) == log2(CeilDiv(ms * 13560, 4096))
Duration(steps) == (4096 * TwoTo[steps]) \div 13560

setFelicaTimeout(t, ms) ==
  IF ms <= 255 THEN [t EXCEPT !.felica = ms] ELSE [t EXCEPT !.felica = 0, !.hci = ms]
setIsoDepTimeout(t, ms) ==
  IF ms <= 4900
  THEN LET v == calcTimeout(ms)
       IN [t EXCEPT !.hci = CeilDiv(4096 * TwoTo[v], 13560) + 500, !.iso = 16 + v]
  ELSE [t EXCEPT !.iso = 0, !.hci = ms]
setNfcATimeout(t, ms) ==
  IF ms <= 4900 THEN [t EXCEPT !.raw = calcTimeout(ms)] ELSE [t EXCEPT !.raw = 0, !.hci = ms]

(* The timeouts after the call, unchanged when it is refused.              *)
doSetTimeout(t, tech, ms) ==
  CASE ms <= 0 -> t
    [] ms > 0 /\ tech = "NfcA" -> setNfcATimeout(t, ms)
    [] ms > 0 /\ tech = "IsoDep" -> setIsoDepTimeout(t, ms)
    [] OTHER -> setFelicaTimeout(t, ms)
doGetTimeout(t, tech) ==
  LET steps == CASE tech = "NfcA" -> t.raw [] tech = "IsoDep" -> t.iso % 16 [] OTHER -> t.felica
  IN IF steps = 0 THEN t.hci ELSE IF tech = "Felica" THEN steps ELSE Duration(steps)
===============================================================================
