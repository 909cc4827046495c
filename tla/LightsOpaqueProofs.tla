-------------------------- MODULE LightsOpaqueProofs --------------------------
(***************************************************************************)
(* Proofs about two modules that share no name and no state.               *)
(*                                                                         *)
(* Lights: the lights HAL, for any set of threads, colours and flash       *)
(* rates, and whichever attributes refuse a write.                         *)
(*                                                                         *)
(* VencOpaque: the order of the frames in the encoder's opaque input path, *)
(* for any set of frames, buffers and kinds of frame, and whichever calls  *)
(* fail.  Places are counted: every action moves a frame from one place to *)
(* another, so the sum over the places stays what it was.                  *)
(***************************************************************************)
EXTENDS Lights, VencOpaque, QueueLemmas
-------------------------------------------------------------------------------
(* The lights HAL.                                                         *)
Requests == LightState \cup {Dark}

(* What a stored request (g_battery, g_notification) is made of.           *)
LEMMA RequestTypes ==
  ASSUME NEW state \in Requests
  PROVE  /\ state.color \in [r : Byte, g : Byte, b : Byte]
         /\ state.flash # NoFlash => state.flash \in [on : Nat, off : Nat]
  BY LightsAssumption DEF Requests, LightState, Dark, LightColor, Black, Byte

(* The files of the LED are attributes; the two backlights are not the     *)
(* LED's.                                                                  *)
LEMMA AttributeFacts ==
  /\ \A k \in {"trigger", "delay_on", "delay_off", "brightness"}, c \in Channels :
       <<k, c>> \in LedAttributes
  /\ LedAttributes \subseteq Attributes
  /\ <<"lcd", "backlight">> \in Attributes \ LedAttributes
  /\ <<"button", "backlight">> \in Attributes \ LedAttributes
  BY DEF LedAttributes, Attributes, Channels

(* A write of a value to an attribute file is a write operation.           *)
LEMMA WriteType ==
  ASSUME NEW a \in Attributes, NEW v \in Nat
  PROVE  Write(a, v) \in WriteOp /\ Write(a, v).attribute = a /\ Write(a, v).value = v
  BY DEF Write, WriteOp

(* The weights of rgb_to_brightness add up to 256: whatever the colour,    *)
(* the LCD driver is given a byte.                                         *)
THEOREM BrightnessIsAByte ==
  ASSUME NEW state \in Requests
  PROVE  rgb_to_brightness(state) \in Byte
<1>1. ASSUME NEW r \in 0 .. 255, NEW g \in 0 .. 255, NEW b \in 0 .. 255
      PROVE  (77 * r + 150 * g + 29 * b) \div 256 \in 0 .. 255
  <2>1. PICK sum \in Int : sum = 77 * r + 150 * g + 29 * b
    OBVIOUS
  <2>2. 0 <= sum /\ sum <= 65280
    BY <2>1
  <2>3. sum \div 256 \in 0 .. 255
    BY <2>2
  <2> QED BY <2>1, <2>3
<1>2. /\ state.color.r \in 0 .. 255
      /\ state.color.g \in 0 .. 255
      /\ state.color.b \in 0 .. 255
  BY RequestTypes DEF Byte
<1> QED BY <1>1, <1>2 DEF rgb_to_brightness, Byte

(* What a set_shared_light_locked call writes: LED attributes only, none   *)
(* of them twice, so that a later write never undoes an earlier one.       *)
LEMMA SharedWrites ==
  ASSUME NEW state \in Requests
  PROVE  /\ set_shared_light_locked(state) \in Seq(WriteOp)
         /\ \A i \in 1 .. Len(set_shared_light_locked(state)) :
              set_shared_light_locked(state)[i].attribute \in LedAttributes
         /\ \A i, j \in 1 .. Len(set_shared_light_locked(state)) :
              i # j => set_shared_light_locked(state)[i].attribute
                         # set_shared_light_locked(state)[j].attribute
<1> DEFINE W == set_shared_light_locked(state)
           NoOverlap == \A i, j \in 1 .. Len(W) :
                          i # j => W[i].attribute # W[j].attribute
<1>1. /\ state.color.r \in Nat /\ state.color.g \in Nat /\ state.color.b \in Nat
      /\ state.flash # NoFlash => state.flash.on \in Nat /\ state.flash.off \in Nat
  BY RequestTypes DEF Byte
<1>2. None \in Nat /\ Timer \in Nat
  BY DEF None, Timer
<1>3. \A k \in {"trigger", "delay_on", "delay_off", "brightness"}, v \in Nat :
        /\ Write(<<k, "r">>, v) \in WriteOp
        /\ Write(<<k, "g">>, v) \in WriteOp
        /\ Write(<<k, "b">>, v) \in WriteOp
  BY AttributeFacts, WriteType DEF Channels
<1>4. CASE state.flash = NoFlash
  <2>1. W \in Seq(WriteOp) /\ Len(W) = 6
    BY <1>1, <1>2, <1>3, <1>4 DEF set_shared_light_locked
  <2>2. \A i \in 1 .. 6 : W[i].attribute \in LedAttributes
    BY <1>4, AttributeFacts DEF set_shared_light_locked, Write, Channels
  <2>3. NoOverlap
    BY <1>4, <2>1 DEF set_shared_light_locked, Write
  <2> QED BY <2>1, <2>2, <2>3
<1>5. CASE state.flash # NoFlash
  <2>1. W \in Seq(WriteOp) /\ Len(W) = 12
    BY <1>1, <1>2, <1>3, <1>5 DEF set_shared_light_locked
  <2>2. /\ W[1].attribute = <<"trigger", "r">>
        /\ W[2].attribute = <<"trigger", "g">>
        /\ W[3].attribute = <<"trigger", "b">>
        /\ W[4].attribute = <<"delay_on", "r">>
        /\ W[5].attribute = <<"delay_on", "g">>
        /\ W[6].attribute = <<"delay_on", "b">>
        /\ W[7].attribute = <<"delay_off", "r">>
        /\ W[8].attribute = <<"delay_off", "g">>
        /\ W[9].attribute = <<"delay_off", "b">>
        /\ W[10].attribute = <<"brightness", "r">>
        /\ W[11].attribute = <<"brightness", "g">>
        /\ W[12].attribute = <<"brightness", "b">>
    BY <1>5 DEF set_shared_light_locked, Write
  <2>3. \A i \in 1 .. 12 : W[i].attribute \in LedAttributes
    <3> HIDE DEF W
    <3>1. \A k \in {"trigger", "delay_on", "delay_off", "brightness"} :
            <<k, "r">> \in LedAttributes /\ <<k, "g">> \in LedAttributes
              /\ <<k, "b">> \in LedAttributes
      BY AttributeFacts DEF Channels
    <3>2. W[1].attribute \in LedAttributes /\ W[2].attribute \in LedAttributes
            /\ W[3].attribute \in LedAttributes
      BY <2>2, <3>1
    <3>3. W[4].attribute \in LedAttributes /\ W[5].attribute \in LedAttributes
            /\ W[6].attribute \in LedAttributes
      BY <2>2, <3>1
    <3>4. W[7].attribute \in LedAttributes /\ W[8].attribute \in LedAttributes
            /\ W[9].attribute \in LedAttributes
      BY <2>2, <3>1
    <3>5. W[10].attribute \in LedAttributes /\ W[11].attribute \in LedAttributes
            /\ W[12].attribute \in LedAttributes
      BY <2>2, <3>1
    <3> QED BY <3>2, <3>3, <3>4, <3>5
  <2>4. NoOverlap
    <3> HIDE DEF W
    <3>1. SUFFICES ASSUME NEW i \in 1 .. 12, NEW j \in 1 .. 12, i # j
                   PROVE  W[i].attribute # W[j].attribute
      BY <2>1
    <3>2. CASE i \in 1 .. 3
      BY <3>1, <3>2, <2>2
    <3>3. CASE i \in 4 .. 6
      BY <3>1, <3>3, <2>2
    <3>4. CASE i \in 7 .. 9
      BY <3>1, <3>4, <2>2
    <3>5. CASE i \in 10 .. 12
      BY <3>1, <3>5, <2>2
    <3> QED BY <3>2, <3>3, <3>4, <3>5
  <2> QED BY <2>1, <2>3, <2>4
<1> QED BY <1>4, <1>5

-------------------------------------------------------------------------------
(* The globals, the files and the progress of a call keep their types,     *)
(* whatever is called and whichever writes fail.                           *)
THEOREM Typing == Spec => []TypeOK
<1> USE LightsAssumption
<1>1. Init => TypeOK
  BY DEF Init, TypeOK, Ops
<1>2. TypeOK /\ [Next]_vars => TypeOK'
  <2> SUFFICES ASSUME TypeOK, [Next]_vars
               PROVE  TypeOK'
    OBVIOUS
  <2>1. ASSUME NEW t \in Threads, NEW state \in LightState,
               set_light_battery(t, state)
        PROVE  TypeOK'
    <3>1. handle_shared_battery_locked(g_notification, state) \in Seq(WriteOp)
      BY SharedWrites DEF handle_shared_battery_locked, Winner, Requests, TypeOK
    <3> QED BY <2>1, <3>1 DEF set_light_battery, Enter, TypeOK, Ops
  <2>2. ASSUME NEW t \in Threads, NEW state \in LightState,
               set_light_notifications(t, state)
        PROVE  TypeOK'
    <3>1. handle_shared_battery_locked(state, g_battery) \in Seq(WriteOp)
      BY SharedWrites DEF handle_shared_battery_locked, Winner, Requests, TypeOK
    <3> QED BY <2>2, <3>1 DEF set_light_notifications, Enter, TypeOK, Ops
  <2>3. ASSUME NEW t \in Threads, NEW state \in LightState,
               set_light_backlight(t, state)
        PROVE  TypeOK'
    <3>1. rgb_to_brightness(state) \in Nat
      BY BrightnessIsAByte DEF Byte, Requests
    <3>2. <<Write(<<"lcd", "backlight">>, rgb_to_brightness(state))>> \in Seq(WriteOp)
      BY <3>1, AttributeFacts, WriteType
    <3> QED BY <2>3, <3>2 DEF set_light_backlight, Enter, TypeOK, Ops
  <2>4. ASSUME NEW t \in Threads, NEW state \in LightState,
               set_light_buttons(t, state)
        PROVE  TypeOK'
    <3>1. <<Write(<<"button", "backlight">>, IF is_lit(state) THEN 255 ELSE 0)>>
            \in Seq(WriteOp)
      BY AttributeFacts, WriteType
    <3> QED BY <2>4, <3>1 DEF set_light_buttons, Enter, TypeOK, Ops
  <2>5. CASE WriteAttribute
    <3>1. writes[pos] \in WriteOp
      BY <2>5 DEF WriteAttribute, TypeOK
    <3> QED BY <2>5, <3>1 DEF WriteAttribute, TypeOK, WriteOp
  <2>6. CASE Return
    BY <2>6 DEF Return, TypeOK, Ops
  <2>7. CASE UNCHANGED vars
    BY <2>7 DEF vars, TypeOK
  <2> QED BY <2>1, <2>2, <2>3, <2>4, <2>5, <2>6, <2>7 DEF Next
<1> QED BY <1>1, <1>2, PTL DEF Spec
-------------------------------------------------------------------------------
(* The inductive invariant.  During a call on the shared LED the first     *)
(* pos - 1 writes are in effect; during any other call, and between calls, *)
(* all of them are; and a battery call under a lit notification is about   *)
(* to write what is already there.                                         *)
OnLed == op \in {"battery", "notifications"}

Progress ==
  /\ op = "none" <=> g_lock = NoThread
  /\ OnLed => writes = Shared /\ \A i \in 1 .. pos - 1 : InEffect(i)
  /\ ~ OnLed => \A i \in 1 .. Len(writes) : writes[i].attribute \notin LedAttributes
  /\ ~ OnLed => \A i \in 1 .. Len(Shared) : InEffect(i)
  /\ op = "battery" /\ is_lit(g_notification) =>
       \A i \in 1 .. Len(Shared) : InEffect(i)

Inv == TypeOK /\ Progress

(* The writes that the stored requests call for: each LED file once.       *)
LEMMA SharedFacts ==
  ASSUME TypeOK
  PROVE  /\ Shared \in Seq(WriteOp)
         /\ \A i \in 1 .. Len(Shared) : Shared[i].attribute \in LedAttributes
         /\ \A i, j \in 1 .. Len(Shared) :
              i # j => Shared[i].attribute # Shared[j].attribute
  BY SharedWrites DEF TypeOK, Requests, Shared, handle_shared_battery_locked, Winner

(* Every step of a call keeps the files in line with the stored requests,  *)
(* as far as the call has come.                                            *)
LEMMA InductiveStep == Inv /\ TypeOK' /\ [Next]_vars => Progress'
<1> SUFFICES ASSUME TypeOK, Progress, TypeOK', [Next]_vars
             PROVE  Progress'
  BY DEF Inv
<1> USE LightsAssumption
<1>1. ASSUME NEW t \in Threads, NEW state \in LightState,
             set_light_battery(t, state)
      PROVE  Progress'
  <2>1. writes' = Shared' /\ pos' = 1 /\ OnLed' /\ op' = "battery" /\ g_lock' # NoThread
    BY <1>1 DEF set_light_battery, Enter, Shared, OnLed
  <2>2. is_lit(g_notification)' => \A i \in 1 .. Len(Shared') : InEffect(i)'
    <3> SUFFICES ASSUME is_lit(g_notification)
                 PROVE  \A i \in 1 .. Len(Shared') : InEffect(i)'
      BY <1>1 DEF set_light_battery, is_lit
    <3>1. Shared' = Shared /\ UNCHANGED <<sysfs, stale>> /\ ~ OnLed
      BY <1>1 DEF set_light_battery, Enter, Shared, handle_shared_battery_locked,
                  Winner, Progress, OnLed
    <3> QED BY <3>1 DEF Progress, InEffect
  <2> QED BY <2>1, <2>2 DEF Progress
<1>2. ASSUME NEW t \in Threads, NEW state \in LightState,
             set_light_notifications(t, state)
      PROVE  Progress'
  <2>1. writes' = Shared' /\ pos' = 1 /\ OnLed' /\ op' = "notifications"
          /\ g_lock' # NoThread
    BY <1>2 DEF set_light_notifications, Enter, Shared, OnLed
  <2> QED BY <2>1 DEF Progress
<1>3. ASSUME NEW t \in Threads, NEW state \in LightState,
             set_light_backlight(t, state) \/ set_light_buttons(t, state)
      PROVE  Progress'
  <2>1. /\ Len(writes') = 1
        /\ writes'[1].attribute \notin LedAttributes
        /\ ~ OnLed' /\ op' # "none" /\ g_lock' # NoThread
    BY <1>3, AttributeFacts DEF set_light_backlight, set_light_buttons, Enter, Write, OnLed
  <2>2. Shared' = Shared /\ UNCHANGED <<sysfs, stale>> /\ ~ OnLed
    BY <1>3 DEF set_light_backlight, set_light_buttons, Enter, Shared, Progress, OnLed
  <2>3. \A i \in 1 .. Len(Shared') : InEffect(i)'
    BY <2>2 DEF Progress, InEffect
  <2>4. ~ (op' = "battery")
    BY <2>1 DEF OnLed
  <2> QED BY <2>1, <2>3, <2>4 DEF Progress
<1>4. CASE WriteAttribute
  <2> DEFINE w == writes[pos]
  <2>1. pos \in 1 .. Len(writes) /\ w \in WriteOp /\ pos' = pos + 1
    BY <1>4 DEF WriteAttribute, TypeOK
  <2>2. Shared' = Shared /\ UNCHANGED <<g_lock, g_notification, op, writes>>
    BY <1>4 DEF WriteAttribute, Shared
  <2>3. w.attribute \in stale' \/ sysfs'[w.attribute] = w.value
    BY <1>4, <2>1 DEF WriteAttribute, TypeOK, WriteOp
  <2>4. \A a \in Attributes : a # w.attribute =>
          sysfs'[a] = sysfs[a] /\ (a \in stale' <=> a \in stale)
    BY <1>4, <2>1 DEF WriteAttribute, TypeOK, WriteOp
  <2> HIDE DEF w
  <2>5. CASE OnLed
    <3>1. w = Shared[pos] /\ Len(writes) = Len(Shared)
      BY <2>5 DEF Progress, w
    <3>2. \A i \in 1 .. Len(Shared) : i = pos => InEffect(i)'
      BY <2>2, <2>3, <3>1 DEF InEffect
    <3>3. \A i \in 1 .. Len(Shared) : InEffect(i) => InEffect(i)'
      <4> SUFFICES ASSUME NEW i \in 1 .. Len(Shared), InEffect(i)
                   PROVE  InEffect(i)'
        OBVIOUS
      <4>1. CASE i = pos
        BY <4>1, <3>2
      <4>2. CASE i # pos
        <5>1. Shared[i].attribute # w.attribute /\ Shared[i].attribute \in Attributes
          BY <4>2, <3>1, <2>1, SharedFacts, AttributeFacts
        <5> QED BY <5>1, <2>2, <2>4 DEF InEffect
      <4> QED BY <4>1, <4>2
    <3>4. \A i \in 1 .. pos' - 1 : InEffect(i)'
      <4> SUFFICES ASSUME NEW i \in 1 .. pos' - 1
                   PROVE  InEffect(i)'
        OBVIOUS
      <4>1. i \in 1 .. Len(Shared) /\ (i = pos \/ i \in 1 .. pos - 1)
        BY <2>1, <3>1
      <4> QED BY <4>1, <3>2, <3>3, <2>5 DEF Progress
    <3>5. OnLed' /\ writes' = Shared' /\ (op' = "none" <=> g_lock' = NoThread)
      BY <2>2, <2>5 DEF Progress, OnLed
    <3>6. op' = "battery" /\ is_lit(g_notification)' =>
            \A i \in 1 .. Len(Shared') : InEffect(i)'
      BY <2>2, <3>3 DEF Progress, is_lit
    <3> QED BY <3>4, <3>5, <3>6 DEF Progress
  <2>6. CASE ~ OnLed
    <3>1. w.attribute \notin LedAttributes
      BY <2>1, <2>6 DEF Progress, w
    <3>2. \A i \in 1 .. Len(Shared') : InEffect(i)'
      <4> SUFFICES ASSUME NEW i \in 1 .. Len(Shared)
                   PROVE  InEffect(i)'
        BY <2>2
      <4>1. Shared[i].attribute # w.attribute /\ Shared[i].attribute \in Attributes
        BY <3>1, SharedFacts, AttributeFacts
      <4>2. InEffect(i)
        BY <2>6 DEF Progress
      <4> QED BY <4>1, <4>2, <2>2, <2>4 DEF InEffect
    <3> QED BY <3>2, <2>2, <2>6 DEF Progress, OnLed
  <2> QED BY <2>5, <2>6
<1>5. CASE Return
  <2>1. Shared' = Shared /\ UNCHANGED <<sysfs, stale>> /\ op' = "none" /\ ~ OnLed'
          /\ g_lock' = NoThread /\ Len(writes') = 0
    BY <1>5 DEF Return, Shared, OnLed
  <2>2. \A i \in 1 .. Len(Shared) : InEffect(i)
    <3>1. OnLed => Len(Shared) = Len(writes) /\ pos - 1 = Len(writes)
      BY <1>5 DEF Return, TypeOK, Progress
    <3> QED BY <3>1 DEF Progress
  <2>3. \A i \in 1 .. Len(Shared') : InEffect(i)'
    BY <2>1, <2>2 DEF InEffect
  <2> QED BY <2>1, <2>3 DEF Progress
<1>6. CASE UNCHANGED vars
  BY <1>6 DEF vars, Progress, OnLed, Shared, InEffect, is_lit
<1> QED BY <1>1, <1>2, <1>3, <1>4, <1>5, <1>6 DEF Next

(* Spec keeps the inductive invariant: the writes a call has made, and all *)
(* those of the last call, are in effect.                                  *)
THEOREM Invariance == Spec => []Inv
<1>1. Init => Inv
  <2> SUFFICES ASSUME Init
               PROVE  Inv
    OBVIOUS
  <2>1. TypeOK
    BY LightsAssumption DEF Init, TypeOK, Ops
  <2>2. \A i \in 1 .. Len(Shared) : InEffect(i)
    BY <2>1, SharedFacts, AttributeFacts DEF Init, InEffect
  <2> QED BY <2>1, <2>2 DEF Init, Inv, Progress, OnLed
<1>2. Inv /\ TypeOK' /\ [Next]_vars => Inv'
  BY InductiveStep DEF Inv
<1> QED BY <1>1, <1>2, Typing, PTL DEF Spec

(* LedShowsWinner, whatever the calls, their threads and the failures.     *)
THEOREM LedCorrect == Spec => []LedShowsWinner
<1>1. Inv => LedShowsWinner
  BY DEF Inv, Progress, LedShowsWinner, OnLed
<1> QED BY <1>1, Invariance, PTL

(* NotificationUndisturbed: a battery call never shows through a lit       *)
(* notification, not even between two of its writes.                       *)
THEOREM NotificationSafe == Spec => []NotificationUndisturbed
<1>1. Inv => NotificationUndisturbed
  BY DEF Inv, Progress, NotificationUndisturbed, OnLed
<1> QED BY <1>1, Invariance, PTL
-------------------------------------------------------------------------------
(* The encoder's opaque input path: sequences.                             *)
(* What holds of the empty sequence, and of a sequence with one more       *)
(* element when it holds of the sequence, holds of every sequence.         *)
LEMMA GrownSequences ==
  ASSUME NEW E, NEW S, << >> \in S,
         \A q \in Seq(E), e \in E : q \in S => Append(q, e) \in S
  PROVE  Seq(E) \subseteq S
<1> DEFINE T == {n \in Nat : \A q \in Seq(E) : Len(q) = n => q \in S}
<1>1. 0 \in T
  <2>1. \A q \in Seq(E) : Len(q) = 0 => q = << >>
    OBVIOUS
  <2> QED
    BY <2>1
<1>2. ASSUME NEW n \in Nat, n \in T PROVE n + 1 \in T
  <2> SUFFICES ASSUME NEW q \in Seq(E), Len(q) = n + 1 PROVE q \in S
    OBVIOUS
  <2> DEFINE r == SubSeq(q, 1, n)
  <2>1. r \in Seq(E) /\ Len(r) = n /\ q[n + 1] \in E /\ q = Append(r, q[n + 1])
    OBVIOUS
  <2>2. r \in S
    BY <1>2, <2>1
  <2> HIDE DEF r
  <2>3. Append(r, q[n + 1]) \in S
    BY <2>1, <2>2
  <2> QED
    BY <2>1, <2>3
<1>3. Nat \subseteq T
  <2> HIDE DEF T
  <2> QED
    BY <1>1, <1>2, Induction
<1> QED
  <2> SUFFICES ASSUME NEW q \in Seq(E) PROVE q \in S
    OBVIOUS
  <2>1. Len(q) \in T
    BY <1>3
  <2> QED
    BY <2>1

(* Chosen, worked out element by element.                                  *)
ChooseStep(q, K, F, i) ==
  IF i = 0 THEN << >> ELSE IF q[i] \in K THEN Append(F[i - 1], q[i]) ELSE F[i - 1]
Chooses(q, K, F) == F = [i \in 0 .. Len(q) |-> ChooseStep(q, K, F, i)]

(* The working out is one of the prefixes of q: such a function exists.    *)
LEMMA ChoosesExists == ASSUME NEW q, NEW K, Len(q) \in Nat PROVE \E F : Chooses(q, K, F)
<1> DEFINE Upto(n) == \E F : F = [i \in 0 .. n |-> ChooseStep(q, K, F, i)]
           S == {n \in Nat : Upto(n)}
<1>1. 0 \in S
  <2> DEFINE F == [i \in 0 .. 0 |-> << >>]
  <2>1. F = [i \in 0 .. 0 |-> ChooseStep(q, K, F, i)]
    BY DEF ChooseStep
  <2> HIDE DEF F
  <2> QED
    BY <2>1
<1>2. ASSUME NEW n \in Nat, n \in S PROVE n + 1 \in S
  <2>1. PICK F : F = [i \in 0 .. n |-> ChooseStep(q, K, F, i)]
    BY <1>2
  <2> DEFINE G == [i \in 0 .. n + 1 |-> IF i = n + 1 THEN ChooseStep(q, K, F, i) ELSE F[i]]
  <2>2. \A i \in 0 .. n + 1 : ChooseStep(q, K, F, i) = ChooseStep(q, K, G, i)
    BY DEF ChooseStep
  <2>3. \A i \in 0 .. n : F[i] = ChooseStep(q, K, F, i)
    BY <2>1
  <2>4. \A i \in 0 .. n + 1 : G[i] = ChooseStep(q, K, G, i)
    BY <2>2, <2>3
  <2>5. G = [i \in 0 .. n + 1 |-> G[i]]
    OBVIOUS
  <2> HIDE DEF G
  <2>6. G = [i \in 0 .. n + 1 |-> ChooseStep(q, K, G, i)]
    BY <2>4, <2>5
  <2> QED
    BY <2>6
<1>3. Nat \subseteq S
  <2> HIDE DEF S
  <2> QED
    BY <1>1, <1>2, Induction
<1> QED
  BY <1>3 DEF Chooses

(* The function of Chosen is that one.                                     *)
LEMMA ChosenIs ==
  ASSUME NEW q, NEW K, Len(q) \in Nat
  PROVE  \E F : Chooses(q, K, F) /\ Chosen(q, K) = F[Len(q)]
<1> DEFINE F0 == CHOOSE F : Chooses(q, K, F)
<1>1. Chooses(q, K, F0)
  BY ChoosesExists
<1>2. Chosen(q, K) = F0[Len(q)]
  BY DEF Chosen, Chooses, ChooseStep
<1> QED
  BY <1>1, <1>2

(* An element behind the others is chosen or not, and the others as        *)
(* before.                                                                 *)
LEMMA ChosenAppend ==
  ASSUME NEW E, NEW q \in Seq(E), NEW e \in E, NEW K
  PROVE  /\ e \in K => Chosen(Append(q, e), K) = Append(Chosen(q, K), e)
         /\ e \notin K => Chosen(Append(q, e), K) = Chosen(q, K)
<1> DEFINE r == Append(q, e)
<1>0. Len(q) \in Nat /\ Len(r) = Len(q) + 1 /\ r[Len(q) + 1] = e /\ \A i \in 1 .. Len(q) : r[i] = q[i]
  OBVIOUS
<1> HIDE DEF r
<1>1. PICK F : Chooses(q, K, F) /\ Chosen(q, K) = F[Len(q)]
  BY <1>0, ChosenIs
<1>2. PICK G : Chooses(r, K, G) /\ Chosen(r, K) = G[Len(r)]
  BY <1>0, ChosenIs
<1>3. \A i \in 0 .. Len(q) : F[i] = ChooseStep(q, K, F, i)
  BY <1>1 DEF Chooses
<1>4. \A i \in 0 .. Len(r) : G[i] = ChooseStep(r, K, G, i)
  BY <1>2 DEF Chooses
<1> DEFINE S == {n \in Nat : n <= Len(q) => F[n] = G[n]}
<1>5. 0 \in S
  BY <1>0, <1>3, <1>4 DEF ChooseStep
<1>6. ASSUME NEW n \in Nat, n \in S PROVE n + 1 \in S
  <2> SUFFICES ASSUME n + 1 <= Len(q) PROVE F[n + 1] = G[n + 1]
    OBVIOUS
  <2>1. n + 1 \in 1 .. Len(q) /\ F[n] = G[n] /\ n + 1 # 0 /\ (n + 1) - 1 = n
    BY <1>0, <1>6
  <2>2. r[n + 1] = q[n + 1] /\ n + 1 \in 0 .. Len(q) /\ n + 1 \in 0 .. Len(r)
    BY <1>0, <2>1
  <2>3. F[n + 1] = ChooseStep(q, K, F, n + 1) /\ G[n + 1] = ChooseStep(r, K, G, n + 1)
    BY <1>3, <1>4, <2>2
  <2> QED
    BY <2>1, <2>2, <2>3 DEF ChooseStep
<1>7. Nat \subseteq S
  <2> HIDE DEF S
  <2> QED
    BY <1>5, <1>6, Induction
<1>8. G[Len(q)] = F[Len(q)]
  BY <1>0, <1>7
<1>9. G[Len(r)] = IF e \in K THEN Append(G[Len(q)], e) ELSE G[Len(q)]
  BY <1>0, <1>4 DEF ChooseStep
<1> QED
  BY <1>1, <1>2, <1>8, <1>9 DEF r

(* Nothing is chosen from nothing.                                         *)
LEMMA ChosenEmpty == ASSUME NEW K PROVE Chosen(<< >>, K) = << >>
<1>0. Len(<< >>) = 0
  OBVIOUS
<1>1. PICK F : Chooses(<< >>, K, F) /\ Chosen(<< >>, K) = F[Len(<< >>)]
  BY <1>0, ChosenIs
<1> QED
  BY <1>0, <1>1 DEF Chooses, ChooseStep

(* What is chosen is in q and in K.                                        *)
LEMMA ChosenType ==
  ASSUME NEW E, NEW q \in Seq(E), NEW K
  PROVE  Chosen(q, K) \in Seq(E \cap K)
<1> DEFINE S == {p \in Seq(E) : Chosen(p, K) \in Seq(E \cap K)}
<1>1. << >> \in S
  <2>1. << >> \in Seq(E) /\ << >> \in Seq(E \cap K)
    OBVIOUS
  <2> QED
    BY <2>1, ChosenEmpty
<1>2. ASSUME NEW p \in Seq(E), NEW e \in E, p \in S PROVE Append(p, e) \in S
  <2>1. Chosen(p, K) \in Seq(E \cap K) /\ Append(p, e) \in Seq(E)
    BY <1>2
  <2>2. CASE e \in K
    <3>1. Append(Chosen(p, K), e) \in Seq(E \cap K)
      BY <2>1, <2>2
    <3> QED
      BY <2>1, <2>2, <3>1, ChosenAppend
  <2>3. CASE e \notin K
    BY <2>1, <2>3, ChosenAppend
  <2> QED
    BY <2>2, <2>3
<1>3. Seq(E) \subseteq S
  <2> HIDE DEF S
  <2> QED
    BY <1>1, <1>2, GrownSequences
<1> QED
  BY <1>3

(* A choice from two sequences is the two choices.                         *)
LEMMA ChosenConcat ==
  ASSUME NEW E, NEW q \in Seq(E), NEW r \in Seq(E), NEW K
  PROVE  Chosen(q \o r, K) = Chosen(q, K) \o Chosen(r, K)
<1> DEFINE S == {p \in Seq(E) : Chosen(q \o p, K) = Chosen(q, K) \o Chosen(p, K)}
<1>0. Chosen(q, K) \in Seq(E)
  <2>1. Chosen(q, K) \in Seq(E \cap K)
    BY ChosenType
  <2> QED
    BY <2>1
<1>1. << >> \in S
  BY <1>0, ChosenEmpty
<1>2. ASSUME NEW p \in Seq(E), NEW e \in E, p \in S PROVE Append(p, e) \in S
  <2>1. q \o Append(p, e) = Append(q \o p, e) /\ q \o p \in Seq(E) /\ Append(p, e) \in Seq(E)
    OBVIOUS
  <2>2. Chosen(p, K) \in Seq(E)
    <3>1. Chosen(p, K) \in Seq(E \cap K)
      BY ChosenType
    <3> QED
      BY <3>1
  <2>3. Chosen(q \o p, K) = Chosen(q, K) \o Chosen(p, K)
    BY <1>2
  <2>4. CASE e \in K
    <3>0. Chosen(Append(q \o p, e), K) = Append(Chosen(q \o p, K), e)
      BY <2>1, <2>4, ChosenAppend
    <3>1. Chosen(Append(q \o p, e), K) = Append(Chosen(q, K) \o Chosen(p, K), e)
      BY <2>3, <3>0
    <3>2. Chosen(Append(p, e), K) = Append(Chosen(p, K), e)
      BY <2>4, ChosenAppend
    <3>3. ASSUME NEW x \in Seq(E), NEW y \in Seq(E) PROVE x \o Append(y, e) = Append(x \o y, e)
      OBVIOUS
    <3> QED
      BY <1>0, <2>1, <2>2, <3>1, <3>2, <3>3
  <2>5. CASE e \notin K
    <3>1. Chosen(Append(q \o p, e), K) = Chosen(q, K) \o Chosen(p, K)
      BY <2>1, <2>3, <2>5, ChosenAppend
    <3>2. Chosen(Append(p, e), K) = Chosen(p, K)
      BY <2>5, ChosenAppend
    <3> QED
      BY <2>1, <3>1, <3>2
  <2> QED
    BY <2>4, <2>5
<1>3. Seq(E) \subseteq S
  <2> HIDE DEF S
  <2> QED
    BY <1>1, <1>2, GrownSequences
<1> QED
  BY <1>3

(* Everything is chosen when everything is in K.                           *)
LEMMA ChosenAll ==
  ASSUME NEW E, NEW q \in Seq(E), NEW K, \A i \in DOMAIN q : q[i] \in K
  PROVE  Chosen(q, K) = q
<1> DEFINE S == {p \in Seq(E) : (\A i \in DOMAIN p : p[i] \in K) => Chosen(p, K) = p}
<1>1. << >> \in S
  BY ChosenEmpty
<1>2. ASSUME NEW p \in Seq(E), NEW e \in E, p \in S PROVE Append(p, e) \in S
  <2>0. Append(p, e) \in Seq(E)
    OBVIOUS
  <2> SUFFICES ASSUME \A i \in DOMAIN Append(p, e) : Append(p, e)[i] \in K
               PROVE  Chosen(Append(p, e), K) = Append(p, e)
    BY <2>0
  <2>1. e \in K /\ \A i \in DOMAIN p : p[i] \in K
    BY AppendProperties
  <2> QED
    BY <1>2, <2>1, ChosenAppend
<1>3. Seq(E) \subseteq S
  <2> HIDE DEF S
  <2> QED
    BY <1>1, <1>2, GrownSequences
<1> QED
  BY <1>3

(* Nothing is chosen when nothing is in K.                                 *)
LEMMA ChosenNone ==
  ASSUME NEW E, NEW q \in Seq(E), NEW K, \A i \in DOMAIN q : q[i] \notin K
  PROVE  Chosen(q, K) = << >>
<1> DEFINE S == {p \in Seq(E) : (\A i \in DOMAIN p : p[i] \notin K) => Chosen(p, K) = << >>}
<1>1. << >> \in S
  BY ChosenEmpty
<1>2. ASSUME NEW p \in Seq(E), NEW e \in E, p \in S PROVE Append(p, e) \in S
  <2>0. Append(p, e) \in Seq(E)
    OBVIOUS
  <2> SUFFICES ASSUME \A i \in DOMAIN Append(p, e) : Append(p, e)[i] \notin K
               PROVE  Chosen(Append(p, e), K) = << >>
    BY <2>0
  <2>1. e \notin K /\ \A i \in DOMAIN p : p[i] \notin K
    BY AppendProperties
  <2> QED
    BY <1>2, <2>1, ChosenAppend
<1>3. Seq(E) \subseteq S
  <2> HIDE DEF S
  <2> QED
    BY <1>1, <1>2, GrownSequences
<1> QED
  BY <1>3
-------------------------------------------------------------------------------
(* 1 if e is b.                                                            *)
One(e, b) == IF e = b THEN 1 ELSE 0

(* How often b is in q is a number, 0 if it is not there.                  *)
LEMMA CountFinite ==
  ASSUME NEW E, NEW q \in Seq(E), NEW b
  PROVE  /\ IsFiniteSet({i \in DOMAIN q : q[i] = b}) /\ Count(q, b) \in Nat
         /\ Count(q, b) = 0 <=> \A i \in DOMAIN q : q[i] # b
<1>1. IsFiniteSet(1 .. Len(q)) /\ {i \in DOMAIN q : q[i] = b} \subseteq 1 .. Len(q)
  BY FS_Interval
<1>2. IsFiniteSet({i \in DOMAIN q : q[i] = b})
  BY <1>1, FS_Subset
<1> QED
  BY <1>2, FS_CardinalityType, FS_EmptySet DEF Count

(* An element behind the others counts once more.                          *)
LEMMA CountAppend ==
  ASSUME NEW E, NEW q \in Seq(E), NEW e \in E, NEW b
  PROVE  /\ Append(q, e) \in Seq(E)
         /\ Count(Append(q, e), b) = Count(q, b) + One(e, b)
<1>1. /\ DOMAIN Append(q, e) = DOMAIN q \cup {Len(q) + 1} /\ Len(q) + 1 \notin DOMAIN q
      /\ Append(q, e)[Len(q) + 1] = e /\ \A i \in DOMAIN q : Append(q, e)[i] = q[i]
  BY AppendProperties
<1> DEFINE A == {i \in DOMAIN q : q[i] = b}
<1>2. {i \in DOMAIN Append(q, e) : Append(q, e)[i] = b} = IF e = b THEN A \cup {Len(q) + 1} ELSE A
  BY <1>1
<1>3. IsFiniteSet(A) /\ Count(q, b) \in Nat /\ Count(q, b) = Cardinality(A)
  BY CountFinite DEF Count
<1>4. Len(q) + 1 \notin A
  BY <1>1
<1> DEFINE B == {i \in DOMAIN Append(q, e) : Append(q, e)[i] = b}
<1>5. Count(Append(q, e), b) = Cardinality(B) /\ Append(q, e) \in Seq(E)
  BY DEF Count
<1> HIDE DEF A, B
<1>6. CASE e = b
  <2>1. Cardinality(A \cup {Len(q) + 1}) = Cardinality(A) + 1
    BY <1>3, <1>4, FS_AddElement
  <2>2. B = A \cup {Len(q) + 1} /\ One(e, b) = 1
    BY <1>2, <1>6 DEF A, B, One
  <2> QED
    BY <1>3, <1>5, <2>1, <2>2
<1>7. CASE e # b
  <2>1. B = A /\ One(e, b) = 0
    BY <1>2, <1>7 DEF A, B, One
  <2> QED
    BY <1>3, <1>5, <2>1
<1> QED
  BY <1>6, <1>7

(* Nothing is in the empty queue.                                          *)
LEMMA CountEmpty == ASSUME NEW b PROVE Count(<< >>, b) = 0
  BY FS_EmptySet DEF Count

(* The counts of two queues add up.                                        *)
LEMMA CountConcat ==
  ASSUME NEW E, NEW q \in Seq(E), NEW r \in Seq(E), NEW b
  PROVE  Count(q \o r, b) = Count(q, b) + Count(r, b)
<1> DEFINE S == {p \in Seq(E) : Count(q \o p, b) = Count(q, b) + Count(p, b)}
<1>0. \A p \in Seq(E) : Count(p, b) \in Nat
  BY CountFinite
<1>1. << >> \in S
  BY <1>0, CountEmpty
<1>2. ASSUME NEW p \in Seq(E), NEW e \in E, p \in S PROVE Append(p, e) \in S
  <2>1. q \o Append(p, e) = Append(q \o p, e) /\ q \o p \in Seq(E) /\ Append(p, e) \in Seq(E)
    OBVIOUS
  <2>2. Count(Append(q \o p, e), b) = Count(q \o p, b) + One(e, b)
    BY <2>1, CountAppend
  <2>3. Count(Append(p, e), b) = Count(p, b) + One(e, b)
    BY CountAppend
  <2>4. Count(q \o p, b) = Count(q, b) + Count(p, b)
    BY <1>2
  <2>5. Count(q, b) \in Nat /\ Count(p, b) \in Nat /\ One(e, b) \in Nat
    BY <1>0 DEF One
  <2>6. Count(q \o Append(p, e), b) = Count(q, b) + Count(Append(p, e), b)
    BY <2>1, <2>2, <2>3, <2>4, <2>5
  <2> QED
    BY <2>1, <2>6
<1>3. Seq(E) \subseteq S
  <2> HIDE DEF S
  <2> QED
    BY <1>1, <1>2, GrownSequences
<1> QED
  BY <1>3

(* The first element taken counts once less.                               *)
LEMMA CountTail ==
  ASSUME NEW E, NEW q \in Seq(E), q # << >>, NEW b
  PROVE  /\ Tail(q) \in Seq(E) /\ Head(q) \in E /\ q = << Head(q) >> \o Tail(q)
         /\ Count(q, b) = Count(Tail(q), b) + One(Head(q), b)
<1>1. /\ Tail(q) \in Seq(E) /\ Head(q) \in E /\ q = << Head(q) >> \o Tail(q)
      /\ << Head(q) >> \in Seq(E)
  OBVIOUS
<1>2. Count(<< Head(q) >>, b) = One(Head(q), b)
  <2>1. << Head(q) >> = Append(<< >>, Head(q)) /\ << >> \in Seq(E)
    OBVIOUS
  <2>2. Count(Append(<< >>, Head(q)), b) = Count(<< >>, b) + One(Head(q), b)
    BY <1>1, <2>1, CountAppend
  <2>3. One(Head(q), b) \in Nat
    BY DEF One
  <2> QED
    BY <2>1, <2>2, <2>3, CountEmpty
<1>3. Count(q, b) = Count(<< Head(q) >>, b) + Count(Tail(q), b)
  BY <1>1, CountConcat
<1>4. Count(Tail(q), b) \in Nat /\ One(Head(q), b) \in Nat
  BY <1>1, CountFinite DEF One
<1> QED
  BY <1>1, <1>2, <1>3, <1>4

(* An element taken from any place (BufferDone) counts once less.          *)
LEMMA CountRemoved ==
  ASSUME NEW E, NEW q \in Seq(E), NEW i \in DOMAIN q, NEW b
  PROVE  /\ SubSeq(q, 1, i - 1) \o SubSeq(q, i + 1, Len(q)) \in Seq(E) /\ q[i] \in E
         /\ Count(q, b) = Count(SubSeq(q, 1, i - 1) \o SubSeq(q, i + 1, Len(q)), b)
                            + One(q[i], b)
<1> DEFINE x == SubSeq(q, 1, i - 1)
           y == SubSeq(q, i + 1, Len(q))
<1>1. x \in Seq(E) /\ y \in Seq(E) /\ q[i] \in E
  OBVIOUS
<1>2. q = Append(x, q[i]) \o y
  <2>1. /\ Len(x) = i - 1 /\ Len(y) = Len(q) - i /\ i \in 1 .. Len(q) /\ Len(q) \in Nat
        /\ \A j \in 1 .. i - 1 : x[j] = q[j]
        /\ \A j \in 1 .. Len(q) - i : y[j] = q[i + j]
    OBVIOUS
  <2> HIDE DEF x, y
  <2> DEFINE z == Append(x, q[i]) \o y
  <2>2. z \in Seq(E) /\ Len(z) = Len(q)
    BY <1>1, <2>1
  <2>3. ASSUME NEW j \in 1 .. Len(q) PROVE z[j] = q[j]
    BY <1>1, <2>1
  <2> HIDE DEF z
  <2>4. z = q
    BY <2>2, <2>3
  <2> QED
    BY <2>4 DEF z
<1> HIDE DEF x, y
<1>3. Count(q, b) = Count(Append(x, q[i]), b) + Count(y, b)
  <2>1. Append(x, q[i]) \in Seq(E)
    BY <1>1
  <2> QED
    <3>1. Count(Append(x, q[i]) \o y, b) = Count(Append(x, q[i]), b) + Count(y, b)
      BY <1>1, <2>1, CountConcat
    <3> QED
      BY <1>2, <3>1
<1>4. Count(Append(x, q[i]), b) = Count(x, b) + One(q[i], b)
  BY <1>1, CountAppend
<1>5. Count(x \o y, b) = Count(x, b) + Count(y, b)
  BY <1>1, CountConcat
<1>6. Count(x, b) \in Nat /\ Count(y, b) \in Nat /\ One(q[i], b) \in Nat
  BY <1>1, CountFinite DEF One
<1>7. x \o y \in Seq(E)
  BY <1>1
<1>8. Count(q, b) = Count(x \o y, b) + One(q[i], b)
  BY <1>3, <1>4, <1>5, <1>6
<1> QED
  BY <1>1, <1>7, <1>8 DEF x, y
-------------------------------------------------------------------------------
(* ETB_OPQ events, and every event m_etb_q may hold.                       *)
Asked == {Event("ETB_OPQ", s) : s \in Sources}
AllEvents == Asked \cup {Event("EBD", b) : b \in Sources \cup Dests}
(* The frames of the ETB_OPQ events of q.                                  *)
AskedIn(q) == Bufs(Chosen(q, Asked))

(* An ETB_OPQ event names a frame of the client, an EBD a frame or a       *)
(* buffer.                                                                 *)
LEMMA EventFacts ==
  ASSUME NEW e \in AllEvents
  PROVE  /\ e.buf \in Sources \cup Dests /\ (e.id = "ETB_OPQ" <=> e \in Asked)
         /\ e \in Asked => e.buf \in Sources
         /\ e.id = "ETB_OPQ" \/ e.id = "EBD"
  BY DEF AllEvents, Asked, Event

(* What the events name, with one more event.                              *)
LEMMA BufsAppend ==
  ASSUME NEW E, NEW q \in Seq(E), NEW e \in E
  PROVE  Bufs(Append(q, e)) = Append(Bufs(q), e.buf)
<1> DEFINE r == Append(q, e)
           x == Bufs(r)
           y == Append(Bufs(q), e.buf)
<1>1. /\ Len(q) \in Nat /\ Len(r) = Len(q) + 1 /\ r[Len(q) + 1] = e
      /\ \A i \in 1 .. Len(q) : r[i] = q[i]
  OBVIOUS
<1> HIDE DEF r
<1>2. /\ x = [i \in 1 .. Len(q) + 1 |-> r[i].buf]
  BY <1>1 DEF Bufs
<1>3. Bufs(q) \in Seq({q[i].buf : i \in 1 .. Len(q)}) /\ Len(Bufs(q)) = Len(q)
      /\ \A i \in 1 .. Len(q) : Bufs(q)[i] = q[i].buf
  BY <1>1 DEF Bufs
<1>4. y = [i \in 1 .. Len(q) + 1 |-> IF i = Len(q) + 1 THEN e.buf ELSE Bufs(q)[i]]
  BY <1>1, <1>3
<1>5. x = y
  BY <1>1, <1>2, <1>3, <1>4
<1> QED
  BY <1>5 DEF r

(* No event names nothing.                                                 *)
LEMMA BufsEmpty == Bufs(<< >>) = << >>
  BY DEF Bufs

(* The events name frames and buffers.                                     *)
LEMMA BufsType ==
  ASSUME NEW q \in Seq(AllEvents)
  PROVE  Bufs(q) \in Seq(Sources \cup Dests)
<1>1. /\ Len(q) \in Nat
      /\ \A i \in 1 .. Len(q) : q[i].buf \in Sources \cup Dests
  BY EventFacts
<1> QED
  BY <1>1 DEF Bufs

(* The frames of the ETB_OPQ events are among what the events name.        *)
LEMMA AskedFacts ==
  ASSUME NEW q \in Seq(AllEvents)
  PROVE  /\ AskedIn(q) \in Seq(Sources)
         /\ \A b : Count(AskedIn(q), b) <= Count(Bufs(q), b)
<1> DEFINE Fact(p) == /\ AskedIn(p) \in Seq(Sources)
                      /\ \A b : Count(AskedIn(p), b) <= Count(Bufs(p), b)
           S == {p \in Seq(AllEvents) : Fact(p)}
<1>1. << >> \in S
  <2>1. AskedIn(<< >>) = << >> /\ Bufs(<< >>) = << >>
    BY ChosenEmpty, BufsEmpty DEF AskedIn
  <2>2. << >> \in Seq(Sources) /\ << >> \in Seq(AllEvents)
    OBVIOUS
  <2>3. Fact(<< >>)
    <3>1. \A b : Count(<< >>, b) = 0
      BY CountEmpty
    <3>2. AskedIn(<< >>) \in Seq(Sources)
      BY <2>1, <2>2
    <3>3. \A b : Count(AskedIn(<< >>), b) = 0 /\ Count(Bufs(<< >>), b) = 0
      BY <2>1, <3>1
    <3>4. \A b : Count(AskedIn(<< >>), b) <= Count(Bufs(<< >>), b)
      BY <3>3
    <3> QED
      BY <3>2, <3>4
  <2> QED
    BY <2>2, <2>3
<1>2. ASSUME NEW p \in Seq(AllEvents), NEW e \in AllEvents, p \in S PROVE Append(p, e) \in S
  <2>1. Append(p, e) \in Seq(AllEvents) /\ Bufs(p) \in Seq(Sources \cup Dests)
        /\ Bufs(Append(p, e)) = Append(Bufs(p), e.buf) /\ e.buf \in Sources \cup Dests
    BY BufsAppend, BufsType, EventFacts
  <2>2. AskedIn(p) \in Seq(Sources) /\ \A b : Count(AskedIn(p), b) <= Count(Bufs(p), b)
    BY <1>2
  <2>3. \A b : /\ Count(Bufs(Append(p, e)), b) = Count(Bufs(p), b) + One(e.buf, b)
               /\ Count(Bufs(p), b) \in Nat /\ Count(AskedIn(p), b) \in Nat /\ One(e.buf, b) \in Nat
    <3> TAKE b
    <3>1. Count(Append(Bufs(p), e.buf), b) = Count(Bufs(p), b) + One(e.buf, b)
      BY <2>1, CountAppend
    <3>2. Count(Bufs(p), b) \in Nat
      BY <2>1, CountFinite
    <3>3. Count(AskedIn(p), b) \in Nat
      BY <2>2, CountFinite
    <3> QED
      BY <2>1, <3>1, <3>2, <3>3 DEF One
  <2>4. CASE e \in Asked
    <3>1. Chosen(p, Asked) \in Seq(AllEvents \cap Asked)
      BY ChosenType
    <3>2. Chosen(Append(p, e), Asked) = Append(Chosen(p, Asked), e)
      BY <2>4, ChosenAppend
    <3>3. AskedIn(Append(p, e)) = Append(AskedIn(p), e.buf)
      <4>1. e \in AllEvents \cap Asked
        BY <2>4
      <4> QED
        BY <3>1, <3>2, <4>1, BufsAppend DEF AskedIn
    <3>4. e.buf \in Sources
      BY <2>4, EventFacts
    <3>5. AskedIn(Append(p, e)) \in Seq(Sources)
      BY <2>2, <3>3, <3>4
    <3>6. \A b : Count(AskedIn(Append(p, e)), b) = Count(AskedIn(p), b) + One(e.buf, b)
      BY <2>2, <3>3, <3>4, CountAppend
    <3>7. \A b : Count(AskedIn(Append(p, e)), b) <= Count(Bufs(Append(p, e)), b)
      BY <2>2, <2>3, <3>6
    <3> QED
      BY <2>1, <3>5, <3>7
  <2>5. CASE e \notin Asked
    <3>1. AskedIn(Append(p, e)) = AskedIn(p)
      BY <2>5, ChosenAppend DEF AskedIn
    <3>2. \A b : Count(AskedIn(Append(p, e)), b) <= Count(Bufs(Append(p, e)), b)
      BY <2>2, <2>3, <3>1
    <3> QED
      BY <2>1, <2>2, <3>1, <3>2
  <2> QED
    BY <2>4, <2>5
<1>3. Seq(AllEvents) \subseteq S
  <2> HIDE DEF S
  <2> QED
    BY <1>1, <1>2, GrownSequences
<1> QED
  BY <1>3

(* An event is put behind the others (post_event).                         *)
LEMMA EventPut ==
  ASSUME NEW q \in Seq(AllEvents), NEW e \in AllEvents
  PROVE  /\ Append(q, e) \in Seq(AllEvents)
         /\ \A b : Count(Bufs(Append(q, e)), b) = Count(Bufs(q), b) + One(e.buf, b)
         /\ e \in Asked => AskedIn(Append(q, e)) = Append(AskedIn(q), e.buf)
         /\ e \notin Asked => AskedIn(Append(q, e)) = AskedIn(q)
<1>1. Append(q, e) \in Seq(AllEvents) /\ Bufs(q) \in Seq(Sources \cup Dests)
      /\ Bufs(Append(q, e)) = Append(Bufs(q), e.buf) /\ e.buf \in Sources \cup Dests
  BY BufsAppend, BufsType, EventFacts
<1>2. \A b : Count(Bufs(Append(q, e)), b) = Count(Bufs(q), b) + One(e.buf, b)
  BY <1>1, CountAppend
<1>3. ASSUME e \in Asked PROVE AskedIn(Append(q, e)) = Append(AskedIn(q), e.buf)
  <2>1. Chosen(q, Asked) \in Seq(AllEvents \cap Asked) /\ e \in AllEvents \cap Asked
    BY <1>3, ChosenType
  <2>2. Chosen(Append(q, e), Asked) = Append(Chosen(q, Asked), e)
    BY <1>3, ChosenAppend
  <2> QED
    BY <2>1, <2>2, BufsAppend DEF AskedIn
<1>4. ASSUME e \notin Asked PROVE AskedIn(Append(q, e)) = AskedIn(q)
  BY <1>4, ChosenAppend DEF AskedIn
<1> QED
  BY <1>1, <1>2, <1>3, <1>4

(* What the events name, with one event in front.                          *)
LEMMA BufsConcat ==
  ASSUME NEW E, NEW e \in E, NEW q \in Seq(E)
  PROVE  Bufs(<< e >> \o q) = << e.buf >> \o Bufs(q)
<1> DEFINE r == << e >> \o q
<1>1. Len(q) \in Nat /\ Len(r) = Len(q) + 1 /\ r[1] = e /\ \A i \in 2 .. Len(q) + 1 : r[i] = q[i - 1]
  OBVIOUS
<1> HIDE DEF r
<1>2. Bufs(r) = [i \in 1 .. Len(q) + 1 |-> r[i].buf]
  BY <1>1 DEF Bufs
<1>3. Bufs(q) \in Seq({q[i].buf : i \in 1 .. Len(q)}) /\ Len(Bufs(q)) = Len(q)
      /\ \A i \in 1 .. Len(q) : Bufs(q)[i] = q[i].buf
  BY <1>1 DEF Bufs
<1>4. << e.buf >> \o Bufs(q) = [i \in 1 .. Len(q) + 1 |-> IF i = 1 THEN e.buf ELSE Bufs(q)[i - 1]]
  BY <1>1, <1>3
<1>5. \A i \in 1 .. Len(q) + 1 : r[i].buf = IF i = 1 THEN e.buf ELSE Bufs(q)[i - 1]
  <2> TAKE i \in 1 .. Len(q) + 1
  <2>1. CASE i = 1
    BY <1>1, <2>1
  <2>2. CASE i # 1
    <3>1. i \in 2 .. Len(q) + 1 /\ i - 1 \in 1 .. Len(q)
      BY <1>1, <2>2
    <3> QED
      BY <1>1, <1>3, <2>2, <3>1
  <2> QED
    BY <2>1, <2>2
<1>6. Bufs(r) = << e.buf >> \o Bufs(q)
  BY <1>2, <1>4, <1>5
<1> QED
  BY <1>6 DEF r

(* The first event is taken.                                               *)
LEMMA EventTaken ==
  ASSUME NEW q \in Seq(AllEvents), q # << >>
  PROVE  /\ Tail(q) \in Seq(AllEvents) /\ Head(q) \in AllEvents
         /\ \A b : Count(Bufs(q), b) = Count(Bufs(Tail(q)), b) + One(Head(q).buf, b)
         /\ Head(q) \in Asked => AskedIn(q) = << Head(q).buf >> \o AskedIn(Tail(q))
         /\ Head(q) \notin Asked => AskedIn(q) = AskedIn(Tail(q))
<1> DEFINE h == Head(q)
           t == Tail(q)
<1>1. t \in Seq(AllEvents) /\ h \in AllEvents /\ q = << h >> \o t /\ << h >> \in Seq(AllEvents)
      /\ << h >> = Append(<< >>, h) /\ << >> \in Seq(AllEvents)
  OBVIOUS
<1> HIDE DEF h, t
<1>2. Bufs(q) = << h.buf >> \o Bufs(t) /\ Bufs(t) \in Seq(Sources \cup Dests) /\ h.buf \in Sources \cup Dests
  BY <1>1, BufsConcat, BufsType, EventFacts
<1>3. \A b : Count(Bufs(q), b) = Count(Bufs(t), b) + One(h.buf, b)
  <2> DEFINE x == << h.buf >> \o Bufs(t)
  <2>1. x \in Seq(Sources \cup Dests) /\ x # << >> /\ Head(x) = h.buf /\ Tail(x) = Bufs(t)
    BY <1>2
  <2> HIDE DEF x
  <2>2. \A b : Count(x, b) = Count(Tail(x), b) + One(Head(x), b)
    BY <2>1, CountTail
  <2> QED
    BY <1>2, <2>1, <2>2 DEF x
<1>4. Chosen(q, Asked) = Chosen(<< h >>, Asked) \o Chosen(t, Asked)
  <2>0. \A x, y \in Seq(AllEvents) : Chosen(x \o y, Asked) = Chosen(x, Asked) \o Chosen(y, Asked)
    BY ChosenConcat
  <2>1. Chosen(<< h >> \o t, Asked) = Chosen(<< h >>, Asked) \o Chosen(t, Asked)
    BY <1>1, <2>0
  <2> QED
    BY <1>1, <2>1
<1>5. Chosen(t, Asked) \in Seq(AllEvents \cap Asked)
  BY <1>1, ChosenType
<1>6. ASSUME h \in Asked PROVE AskedIn(q) = << h.buf >> \o AskedIn(t)
  <2>1. Chosen(<< h >>, Asked) = << h >>
    <3>1. Chosen(<< h >>, Asked) = Append(Chosen(<< >>, Asked), h)
      BY <1>1, <1>6, ChosenAppend
    <3> QED
      BY <1>1, <3>1, ChosenEmpty
  <2>2. h \in AllEvents \cap Asked
    BY <1>1, <1>6
  <2> QED
    BY <1>4, <1>5, <2>1, <2>2, BufsConcat DEF AskedIn
<1>7. ASSUME h \notin Asked PROVE AskedIn(q) = AskedIn(t)
  <2>1. Chosen(<< h >>, Asked) = << >>
    <3>1. Chosen(<< h >>, Asked) = Chosen(<< >>, Asked)
      <4>1. Chosen(Append(<< >>, h), Asked) = Chosen(<< >>, Asked)
        BY <1>1, <1>7, ChosenAppend
      <4> QED
        BY <1>1, <4>1
    <3> QED
      BY <3>1, ChosenEmpty
  <2>2. Chosen(q, Asked) = Chosen(t, Asked)
    BY <1>4, <1>5, <2>1
  <2> QED
    BY <2>2 DEF AskedIn
<1> QED
  BY <1>1, <1>3, <1>6, <1>7 DEF h, t

(* psource_frame as the head of the line: nothing or one frame.            *)
NextFrame(x) == IF x = NoFrame THEN << >> ELSE << x >>

(* The oldest element and the rest are the queue.                          *)
LEMMA OldestFacts ==
  ASSUME NEW E, NEW q \in Seq(E), NoFrame \notin E
  PROVE  /\ Oldest(q) \in E \cup {NoFrame} /\ Rest(q) \in Seq(E)
         /\ Oldest(q) = NoFrame => q = << >> /\ Rest(q) = << >>
         /\ q = << >> => Oldest(q) = NoFrame /\ Rest(q) = << >>
         /\ NextFrame(Oldest(q)) \o Rest(q) = q
         /\ \A b : b # NoFrame => Count(q, b) = Count(Rest(q), b) + One(Oldest(q), b)
<1>1. CASE q = << >>
  BY <1>1, CountEmpty DEF Oldest, Rest, NextFrame, One
<1>2. CASE q # << >>
  <2>1. /\ Oldest(q) = Head(q) /\ Rest(q) = Tail(q) /\ Head(q) \in E /\ Tail(q) \in Seq(E)
        /\ q = << Head(q) >> \o Tail(q)
        /\ \A b : Count(q, b) = Count(Tail(q), b) + One(Head(q), b)
    BY <1>2, CountTail DEF Oldest, Rest
  <2>2. Oldest(q) # NoFrame
    BY <2>1
  <2> QED
    BY <1>2, <2>1, <2>2 DEF NextFrame
<1> QED
  BY <1>1, <1>2

(* Taking out what is not there changes nothing.                           *)
LEMMA OthersStay ==
  ASSUME NEW q \in Seq(Sources), NEW X, \A s \in X : Count(q, s) = 0
  PROVE  Without(q, X) = q
<1>1. ASSUME NEW i \in DOMAIN q PROVE q[i] \in Sources \ X
  <2>1. q[i] \in Sources /\ Count(q, q[i]) # 0
    <3>1. Count(q, q[i]) = 0 <=> \A j \in DOMAIN q : q[j] # q[i]
      BY CountFinite
    <3> QED
      BY <3>1
  <2> QED
    BY <2>1
<1> QED
  BY <1>1, ChosenAll DEF Without

(* Taking out what is there once leaves what is before and behind it.      *)
LEMMA OneGoes ==
  ASSUME NEW q \in Seq(Sources), NEW r \in Seq(Sources), NEW s \in Sources,
         Count(q, s) = 0, Count(r, s) = 0
  PROVE  Without(q \o << s >> \o r, {s}) = q \o r
<1>1. << s >> \in Seq(Sources) /\ q \o << s >> \in Seq(Sources) /\ << >> \in Seq(Sources)
      /\ << s >> = Append(<< >>, s)
  OBVIOUS
<1>2. Chosen(<< s >>, Sources \ {s}) = << >>
  <2>1. \A i \in DOMAIN << s >> : << s >>[i] \notin Sources \ {s}
    OBVIOUS
  <2> QED
    BY <1>1, <2>1, ChosenNone
<1>3. Without(q, {s}) = q /\ Without(r, {s}) = r
  BY OthersStay
<1> DEFINE K == Sources \ {s}
<1>3a. \A x, y \in Seq(Sources) : Chosen(x \o y, K) = Chosen(x, K) \o Chosen(y, K)
  <2> HIDE DEF K
  <2> QED
    BY ChosenConcat
<1>4. Chosen(q \o << s >> \o r, K) = Chosen(q \o << s >>, K) \o Chosen(r, K)
  BY <1>1, <1>3a
<1>5. Chosen(q \o << s >>, K) = q
  <2>1. Chosen(q \o << s >>, K) = Chosen(q, K) \o Chosen(<< s >>, K)
    BY <1>1, <1>3a
  <2>2. Chosen(q, K) = q /\ q \o << >> = q
    BY <1>3 DEF Without
  <2> QED
    BY <1>2, <2>1, <2>2
<1>6. Chosen(r, K) = r
  BY <1>3 DEF Without
<1>7. Chosen(q \o << s >> \o r, K) = q \o r
  BY <1>4, <1>5, <1>6
<1> QED
  BY <1>7 DEF Without
-------------------------------------------------------------------------------
(* 1 if b is in h.                                                         *)
InSet(h, b) == IF b \in h THEN 1 ELSE 0

(* The number of places of b: in the events e, the queues m and p, with    *)
(* the device d, in the set h, and as x or y.                              *)
PlaceSum(e, m, p, d, h, x, y, b) ==
  Count(e, b) + Count(m, b) + Count(p, b) + Count(d, b) + InSet(h, b) + One(x, b) + One(y, b)

(* The number of places of a frame or buffer, as Places counts them.       *)
At(b) == PlaceSum(Bufs(m_etb_q), m_opq_meta_q, m_opq_pmem_q, drv_q, held, psource_frame, pdest_frame, b)

(* The frames not yet passed on, the oldest first.                         *)
Line == NextFrame(psource_frame) \o m_opq_meta_q \o AskedIn(m_etb_q)

(* The types of what the input path holds.                                 *)
Typed ==
  /\ held \subseteq Sources
  /\ m_etb_q \in Seq(AllEvents)
  /\ psource_frame \in Sources \cup {NoFrame}
  /\ pdest_frame \in Dests \cup {NoFrame}
  /\ m_opq_meta_q \in Seq(Sources)
  /\ m_opq_pmem_q \in Seq(Dests)
  /\ drv_q \in Seq(Sources \cup Dests)
  /\ order \in Seq(Sources)
  /\ failed \in BOOLEAN

(* Until a call failed, everything is in one place, nothing waits behind   *)
(* an empty psource_frame, and the line is the order of the client.        *)
Straight ==
  failed = FALSE =>
    /\ \A b \in Sources \cup Dests : At(b) = 1
    /\ psource_frame = NoFrame => m_opq_meta_q = << >>
    /\ order = Line

(* The inductive invariant but for the flush: no frame is in two places    *)
(* whatever failed.                                                        *)
Core ==
  /\ Typed
  /\ \A s \in Sources : At(s) <= 1
  /\ Straight

(* While execute_input_flush works on the queues the flush is running;     *)
(* between that and the answer of the device no frame waits.               *)
Flushing ==
  /\ pc \in {"flush", "flush_push"} => flush = "running"
  /\ flush \in {"driver", "acked"} => psource_frame = NoFrame /\ m_opq_meta_q = << >>

(* Concatenation is associative.                                           *)
LEMMA Assoc ==
  ASSUME NEW E, NEW x \in Seq(E), NEW y \in Seq(E), NEW z \in Seq(E)
  PROVE  (x \o y) \o z = x \o (y \o z)
  OBVIOUS

(* Frames and buffers are different things, and NoFrame is neither.        *)
LEMMA Apart == NoFrame \notin Sources /\ NoFrame \notin Dests /\ Sources \cap Dests = {}
               /\ NoFrame \notin Sources \cup Dests
  BY OpaqueAssumption

(* What the places are counted from, and the types of the line.            *)
LEMMA Summands ==
  ASSUME Typed
  PROVE  /\ \A b : /\ Count(Bufs(m_etb_q), b) \in Nat /\ Count(m_opq_meta_q, b) \in Nat
                   /\ Count(m_opq_pmem_q, b) \in Nat /\ Count(drv_q, b) \in Nat
         /\ \A b : Count(AskedIn(m_etb_q), b) <= Count(Bufs(m_etb_q), b)
                   /\ Count(AskedIn(m_etb_q), b) \in Nat
         /\ AskedIn(m_etb_q) \in Seq(Sources) /\ Line \in Seq(Sources)
<1>1. /\ Bufs(m_etb_q) \in Seq(Sources \cup Dests)
      /\ AskedIn(m_etb_q) \in Seq(Sources)
      /\ \A b : Count(AskedIn(m_etb_q), b) <= Count(Bufs(m_etb_q), b)
  BY BufsType, AskedFacts DEF Typed
<1>2. \A b : Count(Bufs(m_etb_q), b) \in Nat
  BY <1>1, CountFinite
<1>3. \A b : Count(m_opq_meta_q, b) \in Nat
  BY CountFinite DEF Typed
<1>4. \A b : Count(m_opq_pmem_q, b) \in Nat
  BY CountFinite DEF Typed
<1>5. \A b : Count(drv_q, b) \in Nat
  BY CountFinite DEF Typed
<1>6. \A b : Count(AskedIn(m_etb_q), b) \in Nat
  BY <1>1, CountFinite
<1>7. Line \in Seq(Sources)
  <2>1. NextFrame(psource_frame) \in Seq(Sources)
    BY DEF NextFrame, Typed
  <2> QED
    BY <1>1, <2>1 DEF Line, Typed
<1> QED
  BY <1>1, <1>2, <1>3, <1>4, <1>5, <1>6, <1>7

(* The summands of At(b) are numbers.                                      *)
Numbers(b) ==
  /\ Count(Bufs(m_etb_q), b) \in Nat /\ Count(m_opq_meta_q, b) \in Nat
  /\ Count(m_opq_pmem_q, b) \in Nat /\ Count(drv_q, b) \in Nat /\ InSet(held, b) \in 0 .. 1
  /\ One(psource_frame, b) \in 0 .. 1 /\ One(pdest_frame, b) \in 0 .. 1

(* They are.                                                               *)
LEMMA AreNumbers == ASSUME Typed, NEW b PROVE Numbers(b)
  BY Summands DEF Numbers, InSet, One

(* One and InSet are 1 or 0.                                               *)
LEMMA Bits == \A x, b : One(x, b) \in Nat /\ (x = b => One(x, b) = 1) /\ (x # b => One(x, b) = 0)
                        /\ InSet(x, b) \in Nat /\ (b \in x => InSet(x, b) = 1)
                        /\ (b \notin x => InSet(x, b) = 0)
  BY DEF One, InSet

(* empty_this_buffer: the frame goes from the client to the end of the     *)
(* line.                                                                   *)
LEMMA SentCore ==
  ASSUME Core, NEW s \in Sources, NEW f, empty_this_buffer(s, f)
  PROVE  Core'
<1> DEFINE e == Event("ETB_OPQ", s)
<1>1. e \in Asked /\ e \in AllEvents /\ e.buf = s
  BY DEF Asked, AllEvents, Event
<1>2. /\ UNCHANGED <<psource_frame, pdest_frame, m_opq_meta_q, m_opq_pmem_q>>
      /\ s \in held /\ held' = held \ {s} /\ m_etb_q' = Append(m_etb_q, e)
      /\ order' = Append(order, s)
      /\ UNCHANGED <<drv_q, failed>>
  BY DEF empty_this_buffer, opq
<1> HIDE DEF e
<1>3. /\ m_etb_q' \in Seq(AllEvents)
      /\ \A b : Count(Bufs(m_etb_q'), b) = Count(Bufs(m_etb_q), b) + One(s, b)
      /\ AskedIn(m_etb_q') = Append(AskedIn(m_etb_q), s)
  BY <1>1, <1>2, EventPut DEF Core, Typed
<1>4. Typed'
  BY <1>2, <1>3 DEF Core, Typed, opq
<1>5. \A b \in Sources \cup Dests : At(b)' = At(b)
  <2> TAKE b \in Sources \cup Dests
  <2>1. InSet(held, b) = InSet(held', b) + One(s, b)
    BY <1>2 DEF InSet, One
  <2>2. Numbers(b) /\ One(s, b) \in 0 .. 1 /\ InSet(held', b) \in 0 .. 1
    BY AreNumbers DEF Core, One, InSet
  <2> QED
    BY <1>2, <1>3, <2>1, <2>2 DEF At, PlaceSum, Numbers
<1>6. Straight'
  <2> SUFFICES ASSUME failed' = FALSE PROVE order' = Line'
    BY <1>2, <1>5 DEF Straight, Core, opq
  <2>1. order = Line
    BY <1>2 DEF Core, Straight
  <2>2. NextFrame(psource_frame) \in Seq(Sources) /\ m_opq_meta_q \in Seq(Sources)
        /\ AskedIn(m_etb_q) \in Seq(Sources)
    BY Summands DEF Core, Typed, NextFrame
  <2>3. Line' = NextFrame(psource_frame) \o m_opq_meta_q \o Append(AskedIn(m_etb_q), s)
    BY <1>2, <1>3 DEF Line, opq
  <2>4. Line' = Append(Line, s)
    BY <2>2, <2>3 DEF Line
  <2> QED
    BY <1>2, <2>1, <2>4
<1> QED
  BY <1>4, <1>5, <1>6 DEF Core

(* BufferDone: the device gives a frame or buffer back.                    *)
LEMMA DoneCore ==
  ASSUME Core, NEW i \in DOMAIN drv_q, BufferDone(i)
  PROVE  Core'
<1> DEFINE e == Event("EBD", drv_q[i])
           r == SubSeq(drv_q, 1, i - 1) \o SubSeq(drv_q, i + 1, Len(drv_q))
<1>1. /\ r \in Seq(Sources \cup Dests) /\ drv_q[i] \in Sources \cup Dests
      /\ \A b : Count(drv_q, b) = Count(r, b) + One(drv_q[i], b)
  BY CountRemoved DEF Core, Typed
<1>2. e \notin Asked /\ e \in AllEvents /\ e.buf = drv_q[i]
  BY <1>1 DEF Asked, AllEvents, Event
<1>3. m_etb_q' = Append(m_etb_q, e) /\ drv_q' = r /\ UNCHANGED <<held, order, failed>>
      /\ UNCHANGED <<psource_frame, pdest_frame, m_opq_meta_q, m_opq_pmem_q>>
  BY DEF BufferDone, opq
<1> HIDE DEF e, r
<1>4. /\ m_etb_q' \in Seq(AllEvents)
      /\ \A b : Count(Bufs(m_etb_q'), b) = Count(Bufs(m_etb_q), b) + One(drv_q[i], b)
      /\ AskedIn(m_etb_q') = AskedIn(m_etb_q)
  BY <1>2, <1>3, EventPut DEF Core, Typed
<1>5. Typed'
  BY <1>1, <1>3, <1>4 DEF Core, Typed, opq
<1>6. \A b \in Sources \cup Dests : At(b)' = At(b)
  <2> TAKE b \in Sources \cup Dests
  <2>1. Count(drv_q', b) \in Nat
    BY <1>5, CountFinite DEF Typed
  <2>2. Numbers(b) /\ One(drv_q[i], b) \in 0 .. 1
    BY AreNumbers DEF Core, One
  <2> QED
    BY <1>1, <1>3, <1>4, <2>1, <2>2 DEF At, PlaceSum, Numbers
<1>7. Straight'
  BY <1>3, <1>4, <1>6 DEF Core, Straight, Line, opq
<1> QED
  BY <1>5, <1>6, <1>7 DEF Core

(* The first event of m_etb_q.                                             *)
LEMMA HeadFacts ==
  ASSUME Core, m_etb_q # << >>
  PROVE  LET h == Head(m_etb_q)
             t == Tail(m_etb_q)
         IN /\ t \in Seq(AllEvents) /\ h \in AllEvents /\ h.buf \in Sources \cup Dests
            /\ \A b : Count(Bufs(m_etb_q), b) = Count(Bufs(t), b) + One(h.buf, b)
            /\ \A b : Count(Bufs(t), b) \in Nat
            /\ h.id = "ETB_OPQ" => h.buf \in Sources /\ AskedIn(m_etb_q) = << h.buf >> \o AskedIn(t)
            /\ h.id # "ETB_OPQ" => AskedIn(m_etb_q) = AskedIn(t)
            /\ AskedIn(t) \in Seq(Sources)
            /\ \A b : Count(AskedIn(t), b) <= Count(Bufs(t), b)
<1> DEFINE h == Head(m_etb_q)
           t == Tail(m_etb_q)
<1>1. /\ t \in Seq(AllEvents) /\ h \in AllEvents
      /\ \A b : Count(Bufs(m_etb_q), b) = Count(Bufs(t), b) + One(h.buf, b)
      /\ h \in Asked => AskedIn(m_etb_q) = << h.buf >> \o AskedIn(t)
      /\ h \notin Asked => AskedIn(m_etb_q) = AskedIn(t)
  BY EventTaken DEF Core, Typed
<1> HIDE DEF h, t
<1>2. /\ h.buf \in Sources \cup Dests /\ (h.id = "ETB_OPQ" <=> h \in Asked)
      /\ h \in Asked => h.buf \in Sources
  BY <1>1, EventFacts
<1>3. AskedIn(t) \in Seq(Sources) /\ \A b : Count(AskedIn(t), b) <= Count(Bufs(t), b)
  BY <1>1, AskedFacts
<1>4. \A b : Count(Bufs(t), b) \in Nat
  <2>1. Bufs(t) \in Seq(Sources \cup Dests)
    BY <1>1, BufsType
  <2> QED
    BY <2>1, CountFinite
<1> QED
  BY <1>1, <1>2, <1>3, <1>4 DEF h, t

(* GiveBack of the frame the first event names: an ETB_OPQ whose frame the *)
(* client has back, or the EBD of a frame.                                 *)
LEMMA BackCore ==
  ASSUME Core, m_etb_q # << >>, m_etb_q' = Tail(m_etb_q), NEW s \in Sources,
         s = Head(m_etb_q).buf, GiveBack(s), UNCHANGED <<opq, drv_q, failed>>
  PROVE  Core'
<1>0. /\ UNCHANGED <<psource_frame, pdest_frame, m_opq_meta_q, m_opq_pmem_q>>
      /\ held' = held \cup {s} /\ order' = Without(order, {s})
  BY DEF opq, GiveBack
<1> DEFINE h == Head(m_etb_q)
           t == Tail(m_etb_q)
<1>1. /\ t \in Seq(AllEvents) /\ h.buf = s
      /\ \A b : Count(Bufs(m_etb_q), b) = Count(Bufs(t), b) + One(s, b)
      /\ \A b : Count(Bufs(t), b) \in Nat
      /\ h.id = "ETB_OPQ" => AskedIn(m_etb_q) = << s >> \o AskedIn(t)
      /\ h.id # "ETB_OPQ" => AskedIn(m_etb_q) = AskedIn(t)
      /\ AskedIn(t) \in Seq(Sources)
      /\ \A b : Count(AskedIn(t), b) <= Count(Bufs(t), b)
      /\ m_etb_q' = t
  BY HeadFacts
<1> HIDE DEF h, t
<1>2. Without(order, {s}) \in Seq(Sources)
  <2>1. Chosen(order, Sources \ {s}) \in Seq(Sources \cap (Sources \ {s}))
    BY ChosenType DEF Core, Typed
  <2>2. Sources \cap (Sources \ {s}) \subseteq Sources
    OBVIOUS
  <2> QED
    BY <2>1, <2>2 DEF Without
<1>3. Typed'
  BY <1>0, <1>1, <1>2 DEF Core, Typed
<1>4. /\ s \notin held /\ Count(Bufs(t), s) = 0 /\ Count(m_opq_meta_q, s) = 0
      /\ One(psource_frame, s) = 0 /\ Count(AskedIn(t), s) = 0
  <2>1. Numbers(s) /\ At(s) <= 1 /\ One(s, s) = 1
    BY AreNumbers, Bits DEF Core
  <2>2. Count(Bufs(m_etb_q), s) = Count(Bufs(t), s) + 1 /\ Count(Bufs(t), s) \in Nat
    BY <1>1, <2>1
  <2>3. /\ InSet(held, s) = 0 /\ Count(Bufs(t), s) = 0 /\ Count(m_opq_meta_q, s) = 0
        /\ One(psource_frame, s) = 0
    BY <2>1, <2>2 DEF At, PlaceSum, Numbers
  <2>4. Count(AskedIn(t), s) \in Nat /\ Count(AskedIn(t), s) <= Count(Bufs(t), s)
    BY <1>1, CountFinite
  <2> QED
    BY <2>3, <2>4, Bits
<1>5. \A b \in Sources \cup Dests : At(b)' = At(b)
  <2> TAKE b \in Sources \cup Dests
  <2>1. InSet(held', b) = InSet(held, b) + One(s, b)
    BY <1>0, <1>4 DEF InSet, One
  <2>2. Numbers(b) /\ One(s, b) \in 0 .. 1
    BY AreNumbers DEF Core, One
  <2>3. /\ Count(Bufs(m_etb_q), b) = Count(Bufs(m_etb_q'), b) + One(s, b)
        /\ Count(Bufs(m_etb_q'), b) \in Nat
    BY <1>1
  <2> QED
    BY <1>0, <2>1, <2>2, <2>3 DEF At, PlaceSum, Numbers
<1>6. Straight'
  <2> SUFFICES ASSUME failed = FALSE PROVE order' = Line'
    BY <1>0, <1>5 DEF Straight, Core
  <2>1. order = Line
    BY DEF Core, Straight
  <2> DEFINE a == NextFrame(psource_frame) \o m_opq_meta_q
  <2>2. NextFrame(psource_frame) \in Seq(Sources) /\ m_opq_meta_q \in Seq(Sources) /\ a \in Seq(Sources)
    BY DEF Core, Typed, NextFrame
  <2>3. Count(a, s) = 0
    <3>1. Count(a, s) = Count(NextFrame(psource_frame), s) + Count(m_opq_meta_q, s)
      BY <2>2, CountConcat
    <3>2. Count(NextFrame(psource_frame), s) = 0
      <4>1. CASE psource_frame = NoFrame
        BY <4>1, CountEmpty DEF NextFrame
      <4>2. CASE psource_frame # NoFrame
        <5>1. psource_frame # s /\ NextFrame(psource_frame) = << psource_frame >>
          BY <1>4, <4>2, Bits DEF NextFrame
        <5>2. Count(NextFrame(psource_frame), s) = 0 <=> \A i \in DOMAIN NextFrame(psource_frame) : NextFrame(psource_frame)[i] # s
          BY <2>2, CountFinite
        <5> QED
          BY <5>1, <5>2
      <4> QED
        BY <4>1, <4>2
    <3> QED
      BY <1>4, <3>1, <3>2
  <2>4. Line' = a \o AskedIn(t)
    BY <1>0, <1>1 DEF Line
  <2>5. CASE h.id = "ETB_OPQ"
    <3>1. Line = a \o << s >> \o AskedIn(t)
      <4>1. Line = a \o (<< s >> \o AskedIn(t))
        BY <1>1, <2>5 DEF Line
      <4>2. << s >> \in Seq(Sources)
        OBVIOUS
      <4>3. AskedIn(t) \in Seq(Sources)
        BY <1>1
      <4>4. \A x, y, z \in Seq(Sources) : (x \o y) \o z = x \o (y \o z)
        BY Assoc
      <4> HIDE DEF a
      <4>5. (a \o << s >>) \o AskedIn(t) = a \o (<< s >> \o AskedIn(t))
        BY <2>2, <4>2, <4>3, <4>4
      <4> QED
        BY <4>1, <4>5
    <3> HIDE DEF a
    <3>2. Without(a \o << s >> \o AskedIn(t), {s}) = a \o AskedIn(t)
      BY <1>1, <1>4, <2>2, <2>3, OneGoes
    <3> QED
      BY <1>0, <2>1, <2>4, <3>1, <3>2
  <2>6. CASE h.id # "ETB_OPQ"
    <3>1. Line = a \o AskedIn(t)
      BY <1>1, <2>6 DEF Line
    <3> HIDE DEF a
    <3>2. Count(a \o AskedIn(t), s) = 0 /\ a \o AskedIn(t) \in Seq(Sources)
      <4>1. Count(a \o AskedIn(t), s) = Count(a, s) + Count(AskedIn(t), s)
        BY <1>1, <2>2, CountConcat
      <4> QED
        BY <1>1, <1>4, <2>2, <2>3, <4>1
    <3>3. Without(a \o AskedIn(t), {s}) = a \o AskedIn(t)
      BY <3>2, OthersStay
    <3> QED
      BY <1>0, <2>1, <2>4, <3>1, <3>3
  <2> QED
    BY <2>5, <2>6
<1> QED
  BY <1>3, <1>5, <1>6 DEF Core

(* push_input_buffer takes a free buffer if it has none.                   *)
LEMMA PopDestFacts ==
  ASSUME Core, PopDest
  PROVE  /\ pdest_frame' \in Dests \cup {NoFrame} /\ m_opq_pmem_q' \in Seq(Dests)
         /\ \A b \in Sources \cup Dests :
              /\ Count(m_opq_pmem_q', b) \in Nat /\ One(pdest_frame', b) \in 0 .. 1
              /\ Count(m_opq_pmem_q', b) + One(pdest_frame', b)
                   = Count(m_opq_pmem_q, b) + One(pdest_frame, b)
<1>1. pdest_frame \in Dests \cup {NoFrame} /\ m_opq_pmem_q \in Seq(Dests)
  BY DEF Core, Typed
<1>2. CASE pdest_frame = NoFrame
  <2>1. pdest_frame' = Oldest(m_opq_pmem_q) /\ m_opq_pmem_q' = Rest(m_opq_pmem_q)
    BY <1>2 DEF PopDest
  <2>2. /\ Oldest(m_opq_pmem_q) \in Dests \cup {NoFrame} /\ Rest(m_opq_pmem_q) \in Seq(Dests)
        /\ \A b : b # NoFrame => Count(m_opq_pmem_q, b) = Count(Rest(m_opq_pmem_q), b)
                                                        + One(Oldest(m_opq_pmem_q), b)
    BY <1>1, Apart, OldestFacts
  <2> SUFFICES ASSUME NEW b \in Sources \cup Dests
               PROVE  /\ Count(m_opq_pmem_q', b) \in Nat /\ One(pdest_frame', b) \in 0 .. 1
                      /\ Count(m_opq_pmem_q', b) + One(pdest_frame', b)
                           = Count(m_opq_pmem_q, b) + One(pdest_frame, b)
    BY <2>1, <2>2
  <2>3. b # NoFrame /\ One(pdest_frame, b) = 0
    BY <1>2, Apart DEF One
  <2>4. Count(Rest(m_opq_pmem_q), b) \in Nat /\ One(Oldest(m_opq_pmem_q), b) \in 0 .. 1
    <3>1. Count(Rest(m_opq_pmem_q), b) \in Nat
      BY <2>2, CountFinite
    <3> QED
      BY <3>1 DEF One
  <2>5. Count(m_opq_pmem_q, b) = Count(Rest(m_opq_pmem_q), b) + One(Oldest(m_opq_pmem_q), b)
    BY <2>2, <2>3
  <2> QED
    BY <2>1, <2>3, <2>4, <2>5
<1>3. CASE pdest_frame # NoFrame
  <2>1. pdest_frame' = pdest_frame /\ m_opq_pmem_q' = m_opq_pmem_q
    BY <1>3 DEF PopDest
  <2>2. \A b : Count(m_opq_pmem_q, b) \in Nat /\ One(pdest_frame, b) \in 0 .. 1
    <3>1. \A b : Count(m_opq_pmem_q, b) \in Nat
      BY <1>1, CountFinite
    <3> QED
      BY <3>1 DEF One
  <2> QED
    BY <1>1, <2>1, <2>2
<1> QED
  BY <1>2, <1>3

(* push_input_buffer takes the oldest frame if it has none.                *)
LEMMA PopSourceFacts ==
  ASSUME Core, PopSource
  PROVE  /\ psource_frame' \in Sources \cup {NoFrame} /\ m_opq_meta_q' \in Seq(Sources)
         /\ psource_frame' = NoFrame => m_opq_meta_q' = << >>
         /\ psource_frame = NoFrame /\ m_opq_meta_q = << >> => psource_frame' = NoFrame
         /\ NextFrame(psource_frame') \o m_opq_meta_q' = NextFrame(psource_frame) \o m_opq_meta_q
         /\ \A b \in Sources \cup Dests :
              /\ Count(m_opq_meta_q', b) \in Nat /\ One(psource_frame', b) \in 0 .. 1
              /\ Count(m_opq_meta_q', b) + One(psource_frame', b)
                   = Count(m_opq_meta_q, b) + One(psource_frame, b)
<1>1. psource_frame \in Sources \cup {NoFrame} /\ m_opq_meta_q \in Seq(Sources)
  BY DEF Core, Typed
<1>2. CASE psource_frame = NoFrame
  <2>1. psource_frame' = Oldest(m_opq_meta_q) /\ m_opq_meta_q' = Rest(m_opq_meta_q)
    BY <1>2 DEF PopSource
  <2>2. /\ Oldest(m_opq_meta_q) \in Sources \cup {NoFrame} /\ Rest(m_opq_meta_q) \in Seq(Sources)
        /\ Oldest(m_opq_meta_q) = NoFrame => Rest(m_opq_meta_q) = << >>
        /\ m_opq_meta_q = << >> => Oldest(m_opq_meta_q) = NoFrame
        /\ NextFrame(Oldest(m_opq_meta_q)) \o Rest(m_opq_meta_q) = m_opq_meta_q
        /\ \A b : b # NoFrame => Count(m_opq_meta_q, b) = Count(Rest(m_opq_meta_q), b)
                                                        + One(Oldest(m_opq_meta_q), b)
    BY <1>1, Apart, OldestFacts
  <2>3. NextFrame(psource_frame) \o m_opq_meta_q = m_opq_meta_q
    BY <1>1, <1>2 DEF NextFrame
  <2>4. ASSUME NEW b \in Sources \cup Dests
        PROVE  /\ Count(m_opq_meta_q', b) \in Nat /\ One(psource_frame', b) \in 0 .. 1
               /\ Count(m_opq_meta_q', b) + One(psource_frame', b)
                    = Count(m_opq_meta_q, b) + One(psource_frame, b)
    <3>3. b # NoFrame /\ One(psource_frame, b) = 0
      BY <1>2, Apart DEF One
    <3>4. Count(Rest(m_opq_meta_q), b) \in Nat /\ One(Oldest(m_opq_meta_q), b) \in 0 .. 1
      <4>1. Count(Rest(m_opq_meta_q), b) \in Nat
        BY <2>2, CountFinite
      <4> QED
        BY <4>1 DEF One
    <3>5. Count(m_opq_meta_q, b) = Count(Rest(m_opq_meta_q), b) + One(Oldest(m_opq_meta_q), b)
      BY <2>2, <3>3
    <3> QED
      BY <2>1, <3>3, <3>4, <3>5
  <2> QED
    BY <2>1, <2>2, <2>3, <2>4
<1>3. CASE psource_frame # NoFrame
  <2>1. psource_frame' = psource_frame /\ m_opq_meta_q' = m_opq_meta_q
    BY <1>3 DEF PopSource
  <2>2. \A b : Count(m_opq_meta_q, b) \in Nat /\ One(psource_frame, b) \in 0 .. 1
    <3>1. \A b : Count(m_opq_meta_q, b) \in Nat
      BY <1>1, CountFinite
    <3> QED
      BY <3>1 DEF One
  <2> QED
    BY <1>1, <1>3, <2>1, <2>2
<1> QED
  BY <1>2, <1>3

(* empty_this_buffer_opaque: the frame becomes the next one.               *)
LEMMA NextCore ==
  ASSUME Core, m_etb_q # << >>, Head(m_etb_q).id = "ETB_OPQ", m_etb_q' = Tail(m_etb_q),
         psource_frame = NoFrame, psource_frame' = Head(m_etb_q).buf, PopDest,
         UNCHANGED <<m_opq_meta_q, held, order, drv_q, failed>>
  PROVE  Core'
<1> DEFINE t == Tail(m_etb_q)
           s == Head(m_etb_q).buf
<1>1. /\ t \in Seq(AllEvents) /\ s \in Sources /\ m_etb_q' = t
      /\ \A b : Count(Bufs(m_etb_q), b) = Count(Bufs(t), b) + One(s, b)
      /\ \A b : Count(Bufs(t), b) \in Nat
      /\ AskedIn(m_etb_q) = << s >> \o AskedIn(t) /\ AskedIn(t) \in Seq(Sources)
      /\ psource_frame' = s
  BY HeadFacts
<1> HIDE DEF s, t
<1>2. /\ pdest_frame' \in Dests \cup {NoFrame} /\ m_opq_pmem_q' \in Seq(Dests)
      /\ \A b \in Sources \cup Dests :
           /\ Count(m_opq_pmem_q', b) \in Nat /\ One(pdest_frame', b) \in 0 .. 1
           /\ Count(m_opq_pmem_q', b) + One(pdest_frame', b)
                = Count(m_opq_pmem_q, b) + One(pdest_frame, b)
  BY PopDestFacts
<1>3. Typed'
  BY <1>1, <1>2 DEF Core, Typed
<1>4. \A b \in Sources \cup Dests : At(b)' = At(b)
  <2> TAKE b \in Sources \cup Dests
  <2>1. Numbers(b) /\ One(s, b) \in 0 .. 1 /\ One(psource_frame, b) = 0
    BY AreNumbers, Apart DEF Core, One
  <2>2. /\ Count(Bufs(m_etb_q), b) = Count(Bufs(m_etb_q'), b) + One(s, b)
        /\ Count(Bufs(m_etb_q'), b) \in Nat /\ One(psource_frame', b) = One(s, b)
    BY <1>1
  <2>3. /\ Count(m_opq_pmem_q', b) \in Nat /\ One(pdest_frame', b) \in 0 .. 1
        /\ Count(m_opq_pmem_q', b) + One(pdest_frame', b)
             = Count(m_opq_pmem_q, b) + One(pdest_frame, b)
    BY <1>2
  <2>4. At(b)' = Count(Bufs(m_etb_q'), b) + Count(m_opq_meta_q, b) + Count(m_opq_pmem_q', b)
                   + Count(drv_q, b) + InSet(held, b) + One(psource_frame', b) + One(pdest_frame', b)
    BY DEF At, PlaceSum
  <2>5. At(b) = Count(Bufs(m_etb_q), b) + Count(m_opq_meta_q, b) + Count(m_opq_pmem_q, b)
                  + Count(drv_q, b) + InSet(held, b) + One(psource_frame, b) + One(pdest_frame, b)
    BY DEF At, PlaceSum
  <2>6. /\ Count(Bufs(m_etb_q), b) \in Int /\ Count(m_opq_meta_q, b) \in Int
        /\ Count(m_opq_pmem_q, b) \in Int /\ Count(drv_q, b) \in Int /\ InSet(held, b) \in Int
        /\ One(pdest_frame, b) \in Int /\ One(s, b) \in Int /\ Count(Bufs(m_etb_q'), b) \in Int
        /\ Count(m_opq_pmem_q', b) \in Int /\ One(pdest_frame', b) \in Int
    BY <2>1, <2>2, <2>3 DEF Numbers
  <2>7. At(b)' = (Count(m_opq_pmem_q', b) + One(pdest_frame', b)) + (Count(Bufs(m_etb_q'), b) + One(s, b))
                   + Count(m_opq_meta_q, b) + Count(drv_q, b) + InSet(held, b)
    <3> DEFINE a == Count(Bufs(m_etb_q'), b)
               c == Count(m_opq_pmem_q', b)
               d == One(pdest_frame', b)
               e == One(s, b)
               f == Count(m_opq_meta_q, b)
               g == Count(drv_q, b)
               h == InSet(held, b)
    <3>1. At(b)' = a + f + c + g + h + e + d
      BY <2>2, <2>4
    <3>2. a \in Int /\ c \in Int /\ d \in Int /\ e \in Int /\ f \in Int /\ g \in Int /\ h \in Int
      BY <2>6
    <3> HIDE DEF a, c, d, e, f, g, h
    <3>3. At(b)' = (c + d) + (a + e) + f + g + h
      BY <3>1, <3>2
    <3> QED
      BY <3>3 DEF a, c, d, e, f, g, h
  <2>8. At(b) = (Count(m_opq_pmem_q, b) + One(pdest_frame, b)) + Count(Bufs(m_etb_q), b)
                  + Count(m_opq_meta_q, b) + Count(drv_q, b) + InSet(held, b)
    BY <2>1, <2>5, <2>6
  <2> QED
    BY <2>2, <2>3, <2>7, <2>8
<1>5. Straight'
  <2> SUFFICES ASSUME failed = FALSE PROVE order' = Line' /\ psource_frame' # NoFrame
    BY <1>4 DEF Straight, Core
  <2>1. order = Line /\ m_opq_meta_q = << >> /\ psource_frame' # NoFrame
    BY <1>1, Apart DEF Core, Straight
  <2>2. Line = << >> \o << >> \o (<< s >> \o AskedIn(t))
    BY <1>1, <2>1 DEF Line, NextFrame
  <2>3. Line' = << s >> \o << >> \o AskedIn(t)
    BY <1>1, <2>1 DEF Line, NextFrame
  <2>4. Line' = Line
    BY <1>1, <2>2, <2>3
  <2> QED
    BY <2>1, <2>4
<1> QED
  BY <1>3, <1>4, <1>5 DEF Core

(* empty_this_buffer_opaque: the frame waits behind the others.            *)
LEMMA WaitCore ==
  ASSUME Core, m_etb_q # << >>, Head(m_etb_q).id = "ETB_OPQ", m_etb_q' = Tail(m_etb_q),
         psource_frame # NoFrame, m_opq_meta_q' = Append(m_opq_meta_q, Head(m_etb_q).buf),
         UNCHANGED <<psource_frame, pdest_frame, m_opq_pmem_q, held, order, drv_q, failed>>
  PROVE  Core'
<1> DEFINE t == Tail(m_etb_q)
           s == Head(m_etb_q).buf
<1>1. /\ t \in Seq(AllEvents) /\ s \in Sources /\ m_etb_q' = t
      /\ \A b : Count(Bufs(m_etb_q), b) = Count(Bufs(t), b) + One(s, b)
      /\ \A b : Count(Bufs(t), b) \in Nat
      /\ AskedIn(m_etb_q) = << s >> \o AskedIn(t) /\ AskedIn(t) \in Seq(Sources)
      /\ m_opq_meta_q' = Append(m_opq_meta_q, s)
  BY HeadFacts
<1> HIDE DEF s, t
<1>2. /\ m_opq_meta_q \in Seq(Sources) /\ m_opq_meta_q' \in Seq(Sources)
      /\ \A b : Count(m_opq_meta_q', b) = Count(m_opq_meta_q, b) + One(s, b)
  BY <1>1, CountAppend DEF Core, Typed
<1>3. Typed'
  BY <1>1, <1>2 DEF Core, Typed
<1>4. \A b \in Sources \cup Dests : At(b)' = At(b)
  <2> TAKE b \in Sources \cup Dests
  <2>1. Numbers(b) /\ One(s, b) \in 0 .. 1
    BY AreNumbers DEF Core, One
  <2>2. /\ Count(Bufs(m_etb_q), b) = Count(Bufs(m_etb_q'), b) + One(s, b)
        /\ Count(Bufs(m_etb_q'), b) \in Nat
        /\ Count(m_opq_meta_q', b) = Count(m_opq_meta_q, b) + One(s, b)
    BY <1>1, <1>2
  <2> QED
    BY <2>1, <2>2 DEF At, PlaceSum, Numbers
<1>5. Straight'
  <2> SUFFICES ASSUME failed = FALSE PROVE order' = Line'
    BY <1>4 DEF Straight, Core
  <2>1. order = Line
    BY DEF Core, Straight
  <2> DEFINE p == NextFrame(psource_frame)
             c == AskedIn(t)
  <2>2. p \in Seq(Sources) /\ c \in Seq(Sources) /\ << s >> \in Seq(Sources)
    BY <1>1 DEF Core, Typed, NextFrame
  <2>3. Line = p \o m_opq_meta_q \o (<< s >> \o c) /\ Line' = p \o Append(m_opq_meta_q, s) \o c
    BY <1>1 DEF Line
  <2>4. \A x, y, z \in Seq(Sources) : (x \o y) \o z = x \o (y \o z)
    BY Assoc
  <2> HIDE DEF p, c
  <2>5. Append(m_opq_meta_q, s) = m_opq_meta_q \o << s >> /\ p \o m_opq_meta_q \in Seq(Sources)
        /\ m_opq_meta_q \o << s >> \in Seq(Sources)
    BY <1>1, <1>2, <2>2
  <2>6. Line = p \o m_opq_meta_q \o << s >> \o c
    BY <2>2, <2>3, <2>4, <2>5
  <2>7. Line' = p \o m_opq_meta_q \o << s >> \o c
    <3>1. p \o (m_opq_meta_q \o << s >>) = p \o m_opq_meta_q \o << s >>
      BY <1>2, <2>2, <2>4
    <3> QED
      BY <2>3, <2>5, <3>1
  <2> QED
    BY <2>1, <2>6, <2>7
<1> QED
  BY <1>3, <1>4, <1>5 DEF Core

(* Frames without some of them are frames.                                 *)
LEMMA WithoutType == ASSUME NEW q \in Seq(Sources), NEW X PROVE Without(q, X) \in Seq(Sources)
<1>1. Chosen(q, Sources \ X) \in Seq(Sources \cap (Sources \ X))
  BY ChosenType
<1>2. Sources \cap (Sources \ X) \subseteq Sources
  OBVIOUS
<1> QED
  BY <1>1, <1>2 DEF Without

(* EBD: a buffer of the component comes back and is the next to fill.      *)
LEMMA FillNextCore ==
  ASSUME Core, m_etb_q # << >>, Head(m_etb_q).buf \in Dests, m_etb_q' = Tail(m_etb_q),
         pdest_frame = NoFrame, pdest_frame' = Head(m_etb_q).buf, PopSource,
         UNCHANGED <<m_opq_pmem_q, held, order, drv_q, failed>>
  PROVE  Core'
<1> DEFINE t == Tail(m_etb_q)
           d == Head(m_etb_q).buf
<1>1. /\ t \in Seq(AllEvents) /\ d \in Dests /\ m_etb_q' = t
      /\ \A b : Count(Bufs(m_etb_q), b) = Count(Bufs(t), b) + One(d, b)
      /\ \A b : Count(Bufs(t), b) \in Nat
      /\ AskedIn(m_etb_q) = AskedIn(t) /\ AskedIn(t) \in Seq(Sources)
      /\ pdest_frame' = d
  BY HeadFacts, Apart
<1> HIDE DEF d, t
<1>2. /\ psource_frame' \in Sources \cup {NoFrame} /\ m_opq_meta_q' \in Seq(Sources)
      /\ psource_frame' = NoFrame => m_opq_meta_q' = << >>
      /\ NextFrame(psource_frame') \o m_opq_meta_q' = NextFrame(psource_frame) \o m_opq_meta_q
      /\ \A b \in Sources \cup Dests :
           /\ Count(m_opq_meta_q', b) \in Nat /\ One(psource_frame', b) \in 0 .. 1
           /\ Count(m_opq_meta_q', b) + One(psource_frame', b)
                = Count(m_opq_meta_q, b) + One(psource_frame, b)
  BY PopSourceFacts
<1>3. Typed'
  BY <1>1, <1>2 DEF Core, Typed
<1>4. \A b \in Sources \cup Dests : At(b)' = At(b)
  <2> TAKE b \in Sources \cup Dests
  <2>1. Numbers(b) /\ One(d, b) \in 0 .. 1 /\ One(pdest_frame, b) = 0
    BY AreNumbers, Apart DEF Core, One
  <2>2. /\ Count(Bufs(m_etb_q), b) = Count(Bufs(m_etb_q'), b) + One(d, b)
        /\ Count(Bufs(m_etb_q'), b) \in Nat /\ One(pdest_frame', b) = One(d, b)
    BY <1>1
  <2>3. /\ Count(m_opq_meta_q', b) \in Nat /\ One(psource_frame', b) \in 0 .. 1
        /\ Count(m_opq_meta_q', b) + One(psource_frame', b)
             = Count(m_opq_meta_q, b) + One(psource_frame, b)
    BY <1>2
  <2>4. At(b)' = Count(Bufs(m_etb_q'), b) + Count(m_opq_meta_q', b) + Count(m_opq_pmem_q, b)
                   + Count(drv_q, b) + InSet(held, b) + One(psource_frame', b) + One(d, b)
    BY <2>2 DEF At, PlaceSum
  <2>5. At(b) = Count(Bufs(m_etb_q), b) + Count(m_opq_meta_q, b) + Count(m_opq_pmem_q, b)
                  + Count(drv_q, b) + InSet(held, b) + One(psource_frame, b)
    BY <2>1 DEF At, PlaceSum, Numbers
  <2> DEFINE a == Count(Bufs(m_etb_q'), b)
             c == Count(m_opq_meta_q', b)
             e == One(psource_frame', b)
             f == One(d, b)
             a0 == Count(Bufs(m_etb_q), b)
             c0 == Count(m_opq_meta_q, b)
             e0 == One(psource_frame, b)
             g == Count(m_opq_pmem_q, b)
             h == Count(drv_q, b)
             i == InSet(held, b)
  <2>6. /\ c0 \in Int /\ e0 \in Int /\ g \in Int /\ h \in Int /\ i \in Int
    BY <2>1 DEF Numbers
  <2>7. /\ a \in Int /\ c \in Int /\ e \in Int /\ f \in Int
    BY <2>1, <2>2, <2>3
  <2>8. a0 = a + f /\ c + e = c0 + e0
    BY <2>2, <2>3
  <2>9. At(b)' = a + c + g + h + i + e + f
    BY <2>4
  <2>10. At(b) = a0 + c0 + g + h + i + e0
    BY <2>5
  <2> HIDE DEF a, c, e, f, a0, c0, e0, g, h, i
  <2> QED
    BY <2>6, <2>7, <2>8, <2>9, <2>10
<1>5. Straight'
  <2> SUFFICES ASSUME failed = FALSE PROVE order' = Line' /\ (psource_frame' = NoFrame => m_opq_meta_q' = << >>)
    BY <1>4 DEF Straight, Core
  <2>1. order = Line
    BY DEF Core, Straight
  <2>2. Line' = Line
    BY <1>1, <1>2 DEF Line
  <2> QED
    BY <1>2, <2>1, <2>2
<1> QED
  BY <1>3, <1>4, <1>5 DEF Core

(* EBD: a buffer of the component waits behind the others.                 *)
LEMMA FillLaterCore ==
  ASSUME Core, m_etb_q # << >>, Head(m_etb_q).buf \in Dests, m_etb_q' = Tail(m_etb_q),
         m_opq_pmem_q' = Append(m_opq_pmem_q, Head(m_etb_q).buf),
         UNCHANGED <<psource_frame, pdest_frame, m_opq_meta_q, held, order, drv_q, failed>>
  PROVE  Core'
<1> DEFINE t == Tail(m_etb_q)
           d == Head(m_etb_q).buf
<1>1. /\ t \in Seq(AllEvents) /\ d \in Dests /\ m_etb_q' = t
      /\ \A b : Count(Bufs(m_etb_q), b) = Count(Bufs(t), b) + One(d, b)
      /\ \A b : Count(Bufs(t), b) \in Nat
      /\ AskedIn(m_etb_q) = AskedIn(t) /\ AskedIn(t) \in Seq(Sources)
      /\ m_opq_pmem_q' = Append(m_opq_pmem_q, d)
  BY HeadFacts, Apart
<1> HIDE DEF d, t
<1>2. /\ m_opq_pmem_q' \in Seq(Dests)
      /\ \A b : Count(m_opq_pmem_q', b) = Count(m_opq_pmem_q, b) + One(d, b)
  BY <1>1, CountAppend DEF Core, Typed
<1>3. Typed'
  BY <1>1, <1>2 DEF Core, Typed
<1>4. \A b \in Sources \cup Dests : At(b)' = At(b)
  <2> TAKE b \in Sources \cup Dests
  <2>1. Numbers(b) /\ One(d, b) \in 0 .. 1
    BY AreNumbers DEF Core, One
  <2>2. /\ Count(Bufs(m_etb_q), b) = Count(Bufs(m_etb_q'), b) + One(d, b)
        /\ Count(Bufs(m_etb_q'), b) \in Nat
        /\ Count(m_opq_pmem_q', b) = Count(m_opq_pmem_q, b) + One(d, b)
    BY <1>1, <1>2
  <2> QED
    BY <2>1, <2>2 DEF At, PlaceSum, Numbers
<1>5. Straight'
  <2> SUFFICES ASSUME failed = FALSE PROVE order' = Line'
    BY <1>4 DEF Straight, Core
  <2> QED
    BY <1>1 DEF Core, Straight, Line
<1> QED
  BY <1>3, <1>4, <1>5 DEF Core

(* The first of the line is passed on.                                     *)
LEMMA FirstGone ==
  ASSUME Core, failed = FALSE, psource_frame # NoFrame
  PROVE  Without(order, {psource_frame}) = m_opq_meta_q \o AskedIn(m_etb_q)
<1> DEFINE s == psource_frame
           c == AskedIn(m_etb_q)
<1>1. /\ s \in Sources /\ m_opq_meta_q \in Seq(Sources) /\ c \in Seq(Sources)
      /\ << >> \in Seq(Sources) /\ << s >> \in Seq(Sources)
  BY Summands DEF Core, Typed
<1>2. order = << >> \o << s >> \o (m_opq_meta_q \o c)
  <2>1. order = << s >> \o m_opq_meta_q \o c
    BY DEF Core, Straight, Line, NextFrame
  <2>2. \A x, y, z \in Seq(Sources) : (x \o y) \o z = x \o (y \o z)
    BY Assoc
  <2>3. << >> \o << s >> = << s >>
    BY <1>1
  <2> HIDE DEF s, c
  <2> QED
    BY <1>1, <2>1, <2>2, <2>3
<1>3. Count(m_opq_meta_q, s) = 0 /\ Count(c, s) = 0
  <2>1. Numbers(s) /\ At(s) <= 1 /\ One(s, s) = 1
    BY <1>1, AreNumbers, Bits DEF Core
  <2>2. Count(Bufs(m_etb_q), s) = 0 /\ Count(m_opq_meta_q, s) = 0
    BY <2>1 DEF At, PlaceSum, Numbers
  <2>3. Count(c, s) <= Count(Bufs(m_etb_q), s) /\ Count(c, s) \in Nat
    BY Summands DEF Core
  <2> QED
    BY <2>2, <2>3
<1> HIDE DEF s, c
<1>4. m_opq_meta_q \o c \in Seq(Sources) /\ Count(m_opq_meta_q \o c, s) = 0
  <2>1. Count(m_opq_meta_q \o c, s) = Count(m_opq_meta_q, s) + Count(c, s)
    BY <1>1, CountConcat
  <2> QED
    BY <1>1, <1>3, <2>1
<1>5. Count(<< >>, s) = 0
  BY CountEmpty
<1>6. Without(<< >> \o << s >> \o (m_opq_meta_q \o c), {s}) = << >> \o (m_opq_meta_q \o c)
  BY <1>1, <1>4, <1>5, OneGoes
<1>7. << >> \o (m_opq_meta_q \o c) = m_opq_meta_q \o c
  BY <1>4
<1>8. Without(order, {s}) = m_opq_meta_q \o c
  BY <1>2, <1>6, <1>7
<1> QED
  BY <1>8 DEF s, c

(* The oldest of the frames behind is the next one.                        *)
LEMMA OldestNext ==
  ASSUME Core, psource_frame' = Oldest(m_opq_meta_q), m_opq_meta_q' = Rest(m_opq_meta_q)
  PROVE  /\ psource_frame' \in Sources \cup {NoFrame} /\ m_opq_meta_q' \in Seq(Sources)
         /\ psource_frame' = NoFrame => m_opq_meta_q' = << >>
         /\ NextFrame(psource_frame') \o m_opq_meta_q' = m_opq_meta_q
         /\ \A b \in Sources \cup Dests :
              /\ Count(m_opq_meta_q', b) \in Nat /\ One(psource_frame', b) \in 0 .. 1
              /\ Count(m_opq_meta_q, b) = Count(m_opq_meta_q', b) + One(psource_frame', b)
<1>1. m_opq_meta_q \in Seq(Sources)
  BY DEF Core, Typed
<1>2. /\ psource_frame' \in Sources \cup {NoFrame} /\ m_opq_meta_q' \in Seq(Sources)
      /\ psource_frame' = NoFrame => m_opq_meta_q' = << >>
      /\ NextFrame(psource_frame') \o m_opq_meta_q' = m_opq_meta_q
      /\ \A b : b # NoFrame => Count(m_opq_meta_q, b) = Count(m_opq_meta_q', b) + One(psource_frame', b)
  BY <1>1, Apart, OldestFacts
<1>3. \A b : Count(m_opq_meta_q', b) \in Nat
  BY <1>2, CountFinite
<1>4. \A b : One(psource_frame', b) \in 0 .. 1
  BY DEF One
<1> QED
  BY <1>2, <1>3, <1>4, Apart

(* queue_meta_buffer: the device has the frame.                            *)
LEMMA QueuedCore ==
  ASSUME Core, psource_frame # NoFrame, order' = Without(order, {psource_frame}),
         drv_q' = Append(drv_q, psource_frame),
         psource_frame' = Oldest(m_opq_meta_q), m_opq_meta_q' = Rest(m_opq_meta_q),
         UNCHANGED <<held, m_etb_q, pdest_frame, m_opq_pmem_q, failed>>
  PROVE  Core'
<1>1. /\ psource_frame' \in Sources \cup {NoFrame} /\ m_opq_meta_q' \in Seq(Sources)
      /\ psource_frame' = NoFrame => m_opq_meta_q' = << >>
      /\ NextFrame(psource_frame') \o m_opq_meta_q' = m_opq_meta_q
      /\ \A b \in Sources \cup Dests :
           /\ Count(m_opq_meta_q', b) \in Nat /\ One(psource_frame', b) \in 0 .. 1
           /\ Count(m_opq_meta_q, b) = Count(m_opq_meta_q', b) + One(psource_frame', b)
  BY OldestNext
<1>2. /\ psource_frame \in Sources /\ drv_q \in Seq(Sources \cup Dests)
      /\ psource_frame \in Sources \cup Dests
  BY DEF Core, Typed
<1>3. /\ drv_q' \in Seq(Sources \cup Dests)
      /\ \A b : Count(drv_q', b) = Count(drv_q, b) + One(psource_frame, b)
  BY <1>2, CountAppend
<1>4. Typed'
  BY <1>1, <1>2, <1>3, WithoutType DEF Core, Typed
<1>5. \A b \in Sources \cup Dests : At(b)' = At(b)
  <2> TAKE b \in Sources \cup Dests
  <2>1. Numbers(b)
    BY AreNumbers DEF Core
  <2> DEFINE a == Count(Bufs(m_etb_q), b)
             c == Count(m_opq_meta_q', b)
             e == One(psource_frame', b)
             c0 == Count(m_opq_meta_q, b)
             e0 == One(psource_frame, b)
             g == Count(m_opq_pmem_q, b)
             h == Count(drv_q, b)
             h1 == Count(drv_q', b)
             i == InSet(held, b)
             j == One(pdest_frame, b)
  <2>2. a \in Int /\ e0 \in Int /\ g \in Int /\ h \in Int /\ i \in Int /\ j \in Int
    BY <2>1 DEF Numbers
  <2>3. c \in Int /\ e \in Int /\ c0 = c + e /\ h1 = h + e0
    BY <1>1, <1>3
  <2>4. At(b)' = a + c + g + h1 + i + e + j
    BY DEF At, PlaceSum
  <2>5. At(b) = a + c0 + g + h + i + e0 + j
    BY DEF At, PlaceSum
  <2> HIDE DEF a, c, e, c0, e0, g, h, h1, i, j
  <2> QED
    BY <2>2, <2>3, <2>4, <2>5
<1>6. Straight'
  <2> SUFFICES ASSUME failed = FALSE PROVE order' = Line' /\ (psource_frame' = NoFrame => m_opq_meta_q' = << >>)
    BY <1>5 DEF Straight, Core
  <2>1. order' = m_opq_meta_q \o AskedIn(m_etb_q)
    BY FirstGone
  <2>2. Line' = m_opq_meta_q \o AskedIn(m_etb_q)
    BY <1>1 DEF Line
  <2> QED
    BY <1>1, <2>1, <2>2
<1> QED
  BY <1>4, <1>5, <1>6 DEF Core

(* A submission fails: the frame is no longer the next one, and an EBD     *)
(* names it or the buffer it was converted into.                           *)
LEMMA RefusedCore ==
  ASSUME Core, psource_frame # NoFrame, order' = Without(order, {psource_frame}),
         NEW b0 \in Sources \cup Dests, b0 \in Dests \/ b0 = psource_frame,
         m_etb_q' = Append(m_etb_q, Event("EBD", b0)),
         psource_frame' = NoFrame, failed' = TRUE,
         UNCHANGED <<held, drv_q, pdest_frame, m_opq_pmem_q, m_opq_meta_q>>
  PROVE  Core'
<1> DEFINE e == Event("EBD", b0)
<1>1. e \notin Asked /\ e \in AllEvents /\ e.buf = b0
  BY DEF Asked, AllEvents, Event
<1>2. m_etb_q' = Append(m_etb_q, e)
  OBVIOUS
<1> HIDE DEF e
<1>3. /\ m_etb_q' \in Seq(AllEvents)
      /\ \A b : Count(Bufs(m_etb_q'), b) = Count(Bufs(m_etb_q), b) + One(b0, b)
  BY <1>1, <1>2, EventPut DEF Core, Typed
<1>4. Typed'
  BY <1>3, WithoutType DEF Core, Typed
<1>5. ASSUME NEW b \in Sources PROVE At(b)' <= 1
  <2>1. Numbers(b) /\ At(b) <= 1
    BY AreNumbers DEF Core
  <2>2. Count(Bufs(m_etb_q'), b) = Count(Bufs(m_etb_q), b) + One(b0, b)
    BY <1>3
  <2>3. One(psource_frame', b) = 0
    BY Apart DEF One
  <2>4. One(b0, b) = 0 \/ One(b0, b) = One(psource_frame, b)
    BY Apart DEF One
  <2> DEFINE a == Count(Bufs(m_etb_q), b)
             a1 == Count(Bufs(m_etb_q'), b)
             x == One(b0, b)
             y == One(psource_frame, b)
             z == Count(m_opq_meta_q, b)
             u == Count(m_opq_pmem_q, b)
             v == Count(drv_q, b)
             w == InSet(held, b)
             k == One(pdest_frame, b)
  <2>5. a \in Int /\ y \in 0 .. 1 /\ z \in Int /\ u \in Int /\ v \in Int /\ w \in Int /\ k \in Int
    BY <2>1 DEF Numbers
  <2>6. At(b)' = a1 + z + u + v + w + 0 + k
    BY <2>3 DEF At, PlaceSum
  <2>7. a + z + u + v + w + y + k <= 1
    BY <2>1 DEF At, PlaceSum
  <2>8. a1 = a + x /\ (x = 0 \/ x = y)
    BY <2>2, <2>4
  <2> HIDE DEF a, a1, x, y, z, u, v, w, k
  <2> QED
    BY <2>5, <2>6, <2>7, <2>8
<1> QED
  BY <1>4, <1>5 DEF Core, Straight

(* A conversion fails: the frame is forgotten.                             *)
LEMMA ForgottenCore ==
  ASSUME Core, order' = Without(order, {psource_frame}),
         psource_frame' = NoFrame, failed' = TRUE,
         UNCHANGED <<held, m_etb_q, drv_q, pdest_frame, m_opq_pmem_q, m_opq_meta_q>>
  PROVE  Core'
<1>1. Typed'
  BY WithoutType DEF Core, Typed
<1>2. ASSUME NEW b \in Sources PROVE At(b)' <= 1
  <2>1. Numbers(b) /\ At(b) <= 1
    BY AreNumbers DEF Core
  <2>2. One(psource_frame', b) = 0
    BY Apart DEF One
  <2> DEFINE a == Count(Bufs(m_etb_q), b)
             y == One(psource_frame, b)
             z == Count(m_opq_meta_q, b)
             u == Count(m_opq_pmem_q, b)
             v == Count(drv_q, b)
             w == InSet(held, b)
             k == One(pdest_frame, b)
  <2>3. a \in Int /\ y \in 0 .. 1 /\ z \in Int /\ u \in Int /\ v \in Int /\ w \in Int /\ k \in Int
    BY <2>1 DEF Numbers
  <2>4. At(b)' = a + z + u + v + w + 0 + k
    BY <2>2 DEF At, PlaceSum
  <2>5. a + z + u + v + w + y + k <= 1
    BY <2>1 DEF At, PlaceSum
  <2> HIDE DEF a, y, z, u, v, w, k
  <2> QED
    BY <2>3, <2>4, <2>5
<1> QED
  BY <1>1, <1>2 DEF Core, Straight

(* convert_queue_buffer: the client has its frame, the device the copy.    *)
LEMMA ConvertedCore ==
  ASSUME Core, psource_frame # NoFrame, pdest_frame # NoFrame,
         order' = Without(order, {psource_frame}),
         drv_q' = Append(drv_q, pdest_frame), held' = held \cup {psource_frame},
         psource_frame' = Oldest(m_opq_meta_q), m_opq_meta_q' = Rest(m_opq_meta_q),
         pdest_frame' = Oldest(m_opq_pmem_q), m_opq_pmem_q' = Rest(m_opq_pmem_q),
         UNCHANGED <<m_etb_q, failed>>
  PROVE  Core'
<1>1. /\ psource_frame' \in Sources \cup {NoFrame} /\ m_opq_meta_q' \in Seq(Sources)
      /\ psource_frame' = NoFrame => m_opq_meta_q' = << >>
      /\ NextFrame(psource_frame') \o m_opq_meta_q' = m_opq_meta_q
      /\ \A b \in Sources \cup Dests :
           /\ Count(m_opq_meta_q', b) \in Nat /\ One(psource_frame', b) \in 0 .. 1
           /\ Count(m_opq_meta_q, b) = Count(m_opq_meta_q', b) + One(psource_frame', b)
  BY OldestNext
<1>2. /\ psource_frame \in Sources /\ drv_q \in Seq(Sources \cup Dests)
      /\ pdest_frame \in Sources \cup Dests /\ m_opq_pmem_q \in Seq(Dests)
  BY DEF Core, Typed
<1>3. /\ drv_q' \in Seq(Sources \cup Dests)
      /\ \A b : Count(drv_q', b) = Count(drv_q, b) + One(pdest_frame, b)
  BY <1>2, CountAppend
<1>4. /\ pdest_frame' \in Dests \cup {NoFrame} /\ m_opq_pmem_q' \in Seq(Dests)
      /\ \A b : b # NoFrame => Count(m_opq_pmem_q, b) = Count(m_opq_pmem_q', b) + One(pdest_frame', b)
  BY <1>2, Apart, OldestFacts
<1>5. Typed'
  BY <1>1, <1>2, <1>3, <1>4, WithoutType DEF Core, Typed
<1>6. psource_frame \notin held
  <2>1. Numbers(psource_frame) /\ At(psource_frame) <= 1 /\ One(psource_frame, psource_frame) = 1
    BY <1>2, AreNumbers, Bits DEF Core
  <2>2. InSet(held, psource_frame) = 0
    BY <2>1 DEF At, PlaceSum, Numbers
  <2> QED
    BY <2>2, Bits
<1>7. \A b \in Sources \cup Dests : At(b)' = At(b)
  <2> TAKE b \in Sources \cup Dests
  <2>1. Numbers(b) /\ b # NoFrame
    BY AreNumbers, Apart DEF Core
  <2> DEFINE a == Count(Bufs(m_etb_q), b)
             c == Count(m_opq_meta_q', b)
             e == One(psource_frame', b)
             c0 == Count(m_opq_meta_q, b)
             e0 == One(psource_frame, b)
             g0 == Count(m_opq_pmem_q, b)
             g == Count(m_opq_pmem_q', b)
             h0 == Count(drv_q, b)
             h == Count(drv_q', b)
             i0 == InSet(held, b)
             i == InSet(held', b)
             j0 == One(pdest_frame, b)
             j == One(pdest_frame', b)
  <2>2. a \in Int /\ e0 \in Int /\ h0 \in Int /\ i0 \in Int /\ j0 \in Int
    BY <2>1 DEF Numbers
  <2>3. c \in Int /\ e \in Int /\ c0 = c + e /\ h = h0 + j0
    BY <1>1, <1>3
  <2>4. g \in Int /\ j \in Int /\ g0 = g + j
    <3>1. g \in Nat
      BY <1>4, CountFinite
    <3>2. g0 = g + j
      BY <1>4, <2>1
    <3>3. j \in Int
      BY DEF One
    <3> HIDE DEF g, j, g0
    <3> QED
      BY <3>1, <3>2, <3>3
  <2>5. i = i0 + e0
    BY <1>6 DEF InSet, One
  <2>6. At(b)' = a + c + g + h + i + e + j
    BY DEF At, PlaceSum
  <2>7. At(b) = a + c0 + g0 + h0 + i0 + e0 + j0
    BY DEF At, PlaceSum
  <2> HIDE DEF a, c, e, c0, e0, g, g0, h, h0, i, i0, j, j0
  <2> QED
    BY <2>2, <2>3, <2>4, <2>5, <2>6, <2>7
<1>8. Straight'
  <2> SUFFICES ASSUME failed = FALSE PROVE order' = Line' /\ (psource_frame' = NoFrame => m_opq_meta_q' = << >>)
    BY <1>7 DEF Straight, Core
  <2>1. order' = m_opq_meta_q \o AskedIn(m_etb_q)
    BY FirstGone
  <2>2. Line' = m_opq_meta_q \o AskedIn(m_etb_q)
    BY <1>1 DEF Line
  <2> QED
    BY <1>1, <2>1, <2>2
<1> QED
  BY <1>5, <1>7, <1>8 DEF Core

(* FlushFrames: every frame that waits is the client's again.              *)
LEMMA FlushedCore ==
  ASSUME Core, FlushFrames
  PROVE  Core'
<1> DEFINE waiting == Elements(m_opq_meta_q) \cup ({psource_frame} \ {NoFrame})
<1>1. /\ m_etb_q = << >> /\ held' = held \cup waiting /\ order' = Without(order, waiting)
      /\ psource_frame' = NoFrame /\ m_opq_meta_q' = << >> /\ pdest_frame' = NoFrame
      /\ m_opq_pmem_q' = IF pdest_frame = NoFrame THEN m_opq_pmem_q
                         ELSE Append(m_opq_pmem_q, pdest_frame)
      /\ UNCHANGED <<m_etb_q, drv_q, failed>>
  BY DEF FlushFrames
<1>2. /\ psource_frame \in Sources \cup {NoFrame} /\ m_opq_meta_q \in Seq(Sources)
      /\ pdest_frame \in Dests \cup {NoFrame} /\ m_opq_pmem_q \in Seq(Dests)
      /\ held \subseteq Sources /\ waiting \subseteq Sources
  BY DEF Core, Typed, Elements
<1>3. /\ m_opq_pmem_q' \in Seq(Dests)
      /\ \A b : b # NoFrame => Count(m_opq_pmem_q', b) = Count(m_opq_pmem_q, b) + One(pdest_frame, b)
  <2>1. CASE pdest_frame = NoFrame
    <3>1. \A b : b # NoFrame => One(pdest_frame, b) = 0
      BY <2>1 DEF One
    <3>2. \A b : Count(m_opq_pmem_q, b) \in Nat
      BY <1>2, CountFinite
    <3> QED
      BY <1>1, <1>2, <2>1, <3>1, <3>2
  <2>2. CASE pdest_frame # NoFrame
    BY <1>1, <1>2, <2>2, CountAppend
  <2> QED
    BY <2>1, <2>2
<1>4. \A b : b \in Elements(m_opq_meta_q) <=> Count(m_opq_meta_q, b) # 0
  <2> TAKE b
  <2>1. Count(m_opq_meta_q, b) = 0 <=> \A i \in DOMAIN m_opq_meta_q : m_opq_meta_q[i] # b
    BY <1>2, CountFinite
  <2> QED
    BY <2>1 DEF Elements
<1>5. Typed'
  BY <1>1, <1>2, <1>3, WithoutType DEF Core, Typed
<1>6. \A b \in Sources \cup Dests : At(b)' = At(b)
  <2> TAKE b \in Sources \cup Dests
  <2>1. Numbers(b) /\ b # NoFrame /\ (b \in Sources => At(b) <= 1)
    BY AreNumbers, Apart DEF Core
  <2>2. InSet(held', b) = InSet(held, b) + Count(m_opq_meta_q, b) + One(psource_frame, b)
    <3>1. CASE b \in Sources
      <4>1. InSet(held, b) + Count(m_opq_meta_q, b) + One(psource_frame, b) <= 1
        <5> DEFINE a == Count(Bufs(m_etb_q), b)
                   y == One(psource_frame, b)
                   z == Count(m_opq_meta_q, b)
                   u == Count(m_opq_pmem_q, b)
                   v == Count(drv_q, b)
                   w == InSet(held, b)
                   k == One(pdest_frame, b)
        <5>1. a \in Nat /\ y \in Nat /\ z \in Nat /\ u \in Nat /\ v \in Nat /\ w \in Nat /\ k \in Nat
          BY <2>1 DEF Numbers
        <5>2. a + z + u + v + w + y + k <= 1
          BY <2>1, <3>1 DEF At, PlaceSum
        <5> HIDE DEF a, y, z, u, v, w, k
        <5>3. w + z + y <= 1
          BY <5>1, <5>2
        <5> QED
          BY <5>3 DEF w, y, z
      <4>2. /\ InSet(held, b) \in 0 .. 1 /\ Count(m_opq_meta_q, b) \in Nat
            /\ One(psource_frame, b) \in 0 .. 1
        BY <2>1 DEF Numbers
      <4>3. /\ b \in held <=> InSet(held, b) = 1
            /\ b = psource_frame <=> One(psource_frame, b) = 1
            /\ b \in held' <=> InSet(held', b) = 1
            /\ b \notin held' <=> InSet(held', b) = 0
        BY DEF InSet, One
      <4>4. b \in held' <=> \/ InSet(held, b) = 1 \/ Count(m_opq_meta_q, b) # 0
                            \/ One(psource_frame, b) = 1
        BY <1>1, <1>4, <2>1, <4>3
      <4> QED
        BY <4>1, <4>2, <4>3, <4>4
    <3>2. CASE b \notin Sources
      <4>1. b \notin held /\ b \notin held' /\ b # psource_frame
        BY <1>1, <1>2, <2>1, <3>2
      <4>2. b \notin Elements(m_opq_meta_q)
        BY <1>2, <3>2
      <4> QED
        BY <1>4, <4>1, <4>2 DEF InSet, One
    <3> QED
      BY <3>1, <3>2
  <2>3. One(psource_frame', b) = 0 /\ One(pdest_frame', b) = 0 /\ Count(m_opq_meta_q', b) = 0
    BY <1>1, <2>1, CountEmpty DEF One
  <2>4. Count(m_opq_pmem_q', b) = Count(m_opq_pmem_q, b) + One(pdest_frame, b)
    BY <1>3, <2>1
  <2> DEFINE a == Count(Bufs(m_etb_q), b)
             y == One(psource_frame, b)
             z == Count(m_opq_meta_q, b)
             u == Count(m_opq_pmem_q, b)
             u1 == Count(m_opq_pmem_q', b)
             v == Count(drv_q, b)
             w == InSet(held, b)
             w1 == InSet(held', b)
             k == One(pdest_frame, b)
  <2>5. a \in Int /\ y \in Int /\ z \in Int /\ u \in Int /\ v \in Int /\ w \in Int /\ k \in Int
    BY <2>1 DEF Numbers
  <2>6. At(b)' = a + 0 + u1 + v + w1 + 0 + 0
    BY <1>1, <2>3 DEF At, PlaceSum
  <2>7. At(b) = a + z + u + v + w + y + k
    BY DEF At, PlaceSum
  <2>8. u1 = u + k /\ w1 = w + z + y
    BY <2>2, <2>4
  <2> HIDE DEF a, y, z, u, u1, v, w, w1, k
  <2> QED
    BY <2>5, <2>6, <2>7, <2>8
<1>7. Straight'
  <2> SUFFICES ASSUME failed = FALSE PROVE order' = Line'
    BY <1>1, <1>6 DEF Straight, Core
  <2>1. AskedIn(m_etb_q) = << >>
    BY <1>1, ChosenEmpty, BufsEmpty DEF AskedIn
  <2>2. order = NextFrame(psource_frame) \o m_opq_meta_q /\ order \in Seq(Sources)
    <3>1. order = NextFrame(psource_frame) \o m_opq_meta_q \o << >>
      BY <2>1 DEF Core, Straight, Line
    <3>2. NextFrame(psource_frame) \o m_opq_meta_q \in Seq(Sources)
      BY <1>2 DEF NextFrame
    <3> QED
      BY <3>1, <3>2
  <2>3. \A i \in DOMAIN order : order[i] \notin Sources \ waiting
    <3> TAKE i \in DOMAIN order
    <3>1. CASE psource_frame = NoFrame
      <4>1. order = m_opq_meta_q
        BY <1>2, <2>2, <3>1 DEF NextFrame
      <4> QED
        BY <4>1 DEF Elements
    <3>2. CASE psource_frame # NoFrame
      <4>1. order = << psource_frame >> \o m_opq_meta_q
        BY <2>2, <3>2 DEF NextFrame
      <4>2. order[i] = psource_frame \/ (i - 1 \in DOMAIN m_opq_meta_q /\ order[i] = m_opq_meta_q[i - 1])
        BY <1>2, <4>1
      <4> QED
        BY <3>2, <4>2 DEF Elements
    <3> QED
      BY <3>1, <3>2
  <2> HIDE DEF waiting
  <2>4. order' = << >>
    BY <1>1, <2>2, <2>3, ChosenNone DEF Without
  <2>5. Line' = << >>
    <3>1. Line' = << >> \o << >> \o << >>
      BY <1>1, <2>1 DEF Line, NextFrame
    <3> QED
      BY <3>1
  <2> QED
    BY <2>4, <2>5
<1> QED
  BY <1>5, <1>6, <1>7 DEF Core

(* At first the client holds its frames and m_opq_pmem_q every buffer.     *)
LEMMA InitCore == ASSUME OpqInit PROVE Core /\ Flushing
<1>1. PICK n \in Nat : n = Cardinality(Dests)
  BY OpaqueAssumption, FS_CardinalityType
<1>2. /\ held = Sources /\ m_etb_q = << >> /\ psource_frame = NoFrame /\ pdest_frame = NoFrame
      /\ m_opq_meta_q = << >> /\ drv_q = << >> /\ flush = "none" /\ pc = "take"
      /\ failed = FALSE /\ order = << >>
      /\ m_opq_pmem_q \in [1 .. n -> Dests]
      /\ \A i, j \in DOMAIN m_opq_pmem_q : m_opq_pmem_q[i] = m_opq_pmem_q[j] => i = j
  BY <1>1 DEF OpqInit
<1>3. Typed
  <2>1. m_opq_pmem_q \in Seq(Dests) /\ << >> \in Seq(AllEvents)
        /\ << >> \in Seq(Sources) /\ << >> \in Seq(Sources \cup Dests)
    BY <1>2
  <2> QED
    BY <1>2, <2>1 DEF Typed
<1>4. AskedIn(m_etb_q) = << >> /\ Bufs(m_etb_q) = << >>
  BY <1>2, ChosenEmpty, BufsEmpty DEF AskedIn
<1>5. Line = << >>
  <2>1. Line = << >> \o << >> \o << >>
    BY <1>2, <1>4 DEF Line, NextFrame
  <2> QED
    BY <2>1
<1>6. \A b \in Sources \cup Dests : Count(m_opq_pmem_q, b) = IF b \in Dests THEN 1 ELSE 0
  <2> TAKE b \in Sources \cup Dests
  <2>1. CASE b \in Dests
    <3>1. PICK i \in 1 .. n : m_opq_pmem_q[i] = b
      <4>1. m_opq_pmem_q \in Injection(1 .. n, Dests)
        BY <1>2 DEF Injection, IsInjective
      <4>2. Cardinality(1 .. n) = n /\ IsFiniteSet(1 .. n)
        BY <1>1, FS_Interval
      <4>3. m_opq_pmem_q \in Surjection(1 .. n, Dests)
        BY <1>1, <4>1, <4>2, OpaqueAssumption, FS_SurjCardinalityBound, FS_Injection
      <4> QED
        BY <2>1, <4>3 DEF Surjection
    <3>2. {j \in DOMAIN m_opq_pmem_q : m_opq_pmem_q[j] = b} = {i}
      BY <1>2, <3>1
    <3> QED
      BY <2>1, <3>2, FS_Singleton DEF Count
  <2>2. CASE b \notin Dests
    <3>1. \A i \in DOMAIN m_opq_pmem_q : m_opq_pmem_q[i] # b
      BY <1>2, <2>2
    <3>2. m_opq_pmem_q \in Seq(Dests)
      BY <1>3 DEF Typed
    <3> QED
      BY <2>2, <3>1, <3>2, CountFinite
  <2> QED
    BY <2>1, <2>2
<1>7. \A b \in Sources \cup Dests : At(b) = 1
  <2> TAKE b \in Sources \cup Dests
  <2>1. Count(Bufs(m_etb_q), b) = 0 /\ Count(m_opq_meta_q, b) = 0 /\ Count(drv_q, b) = 0
    BY <1>2, <1>4, CountEmpty
  <2>2. One(psource_frame, b) = 0 /\ One(pdest_frame, b) = 0
    BY <1>2, Apart DEF One
  <2>3. Count(m_opq_pmem_q, b) + InSet(held, b) = 1
    BY <1>2, <1>6, Apart DEF InSet
  <2>4. At(b) = 0 + 0 + Count(m_opq_pmem_q, b) + 0 + InSet(held, b) + 0 + 0
    BY <2>1, <2>2 DEF At, PlaceSum
  <2>5. Count(m_opq_pmem_q, b) \in Int /\ InSet(held, b) \in Int
    BY <1>6 DEF InSet
  <2> QED
    BY <2>3, <2>4, <2>5
<1>8. Core
  BY <1>2, <1>3, <1>5, <1>7 DEF Core, Straight
<1> QED
  BY <1>2, <1>8 DEF Flushing

(* The inductive invariant.                                                *)
FramesInv == Core /\ Flushing

(* Steps that move no frame.                                               *)
LEMMA Same ==
  ASSUME Core, UNCHANGED <<held, m_etb_q, opq, drv_q, failed, order>>
  PROVE  Core'
<1>1. /\ UNCHANGED <<psource_frame, pdest_frame, m_opq_meta_q, m_opq_pmem_q>>
      /\ UNCHANGED <<held, m_etb_q, drv_q, failed, order>>
  BY DEF opq
<1>2. Typed'
  BY <1>1 DEF Core, Typed
<1>3. \A b : At(b)' = At(b)
  BY <1>1 DEF At, PlaceSum
<1>4. Line' = Line
  BY <1>1 DEF Line
<1>5. Straight'
  BY <1>1, <1>3, <1>4 DEF Core, Straight
<1> QED
  BY <1>2, <1>3, <1>5 DEF Core

(* BufferBack, for the buffer the first event names.                       *)
LEMMA BufferBackCore ==
  ASSUME Core, NEW push, m_etb_q # << >>, m_etb_q' = Tail(m_etb_q), BufferBack(Head(m_etb_q).buf, push),
         UNCHANGED <<drv_q, failed>>
  PROVE  /\ Core'
         /\ pc' \in {pc, push}
         /\ psource_frame = NoFrame /\ m_opq_meta_q = << >>
              => psource_frame' = NoFrame /\ m_opq_meta_q' = << >>
<1> DEFINE b == Head(m_etb_q).buf
<1>1. CASE b \in Sources /\ GiveBack(b) /\ UNCHANGED <<opq, pc>>
  BY <1>1, BackCore DEF opq
<1>2. CASE /\ b \in Dests /\ pdest_frame = NoFrame /\ pdest_frame' = b /\ PopSource
           /\ pc' = push /\ UNCHANGED <<m_opq_pmem_q, held, order>>
  <2>1. Core'
    BY <1>2, FillNextCore
  <2> QED
    BY <1>2, <2>1, PopSourceFacts
<1>3. CASE /\ b \in Dests /\ m_opq_pmem_q' = Append(m_opq_pmem_q, b)
           /\ UNCHANGED <<psource_frame, pdest_frame, m_opq_meta_q, pc, held, order>>
  BY <1>3, FillLaterCore
<1> QED
  BY <1>1, <1>2, <1>3 DEF BufferBack

(* ETB_OPQ keeps the invariant.                                            *)
LEMMA EtbStep == ASSUME FramesInv, empty_this_buffer_opaque PROVE FramesInv'
<1> DEFINE s == Head(m_etb_q).buf
<1>1. /\ m_etb_q # << >> /\ Head(m_etb_q).id = "ETB_OPQ" /\ pc = "take" /\ m_etb_q' = Tail(m_etb_q)
      /\ UNCHANGED <<drv_q, flush, failed>>
      /\ \/ GiveBack(s) /\ UNCHANGED <<opq, pc>>
         \/ /\ flush = "none" /\ psource_frame = NoFrame /\ psource_frame' = s /\ PopDest
            /\ pc' = "push" /\ UNCHANGED <<m_opq_meta_q, held, order>>
         \/ /\ flush = "none" /\ psource_frame # NoFrame /\ m_opq_meta_q' = Append(m_opq_meta_q, s)
            /\ UNCHANGED <<psource_frame, pdest_frame, m_opq_pmem_q, pc, held, order>>
  BY DEF empty_this_buffer_opaque, TakeEvent
<1>2. s \in Sources
  BY <1>1, HeadFacts DEF FramesInv
<1> HIDE DEF s
<1>3. CASE GiveBack(s) /\ UNCHANGED <<opq, pc>>
  <2>1. Core'
    BY <1>1, <1>2, <1>3, BackCore DEF FramesInv, s
  <2>2. Flushing'
    BY <1>1, <1>3 DEF FramesInv, Flushing, opq
  <2> QED
    BY <2>1, <2>2 DEF FramesInv
<1>4. CASE /\ flush = "none" /\ psource_frame = NoFrame /\ psource_frame' = s /\ PopDest
           /\ pc' = "push" /\ UNCHANGED <<m_opq_meta_q, held, order>>
  <2>1. Core'
    BY <1>1, <1>2, <1>4, NextCore DEF FramesInv, s
  <2>2. Flushing'
    BY <1>1, <1>4 DEF FramesInv, Flushing
  <2> QED
    BY <2>1, <2>2 DEF FramesInv
<1>5. CASE /\ flush = "none" /\ psource_frame # NoFrame /\ m_opq_meta_q' = Append(m_opq_meta_q, s)
           /\ UNCHANGED <<psource_frame, pdest_frame, m_opq_pmem_q, pc, held, order>>
  <2>1. Core'
    BY <1>1, <1>2, <1>5, WaitCore DEF FramesInv, s
  <2>2. Flushing'
    BY <1>1, <1>5 DEF FramesInv, Flushing
  <2> QED
    BY <2>1, <2>2 DEF FramesInv
<1> QED
  BY <1>1, <1>3, <1>4, <1>5

(* EBD keeps the invariant.                                                *)
LEMMA EbdStep == ASSUME FramesInv, empty_buffer_done PROVE FramesInv'
<1>1. /\ m_etb_q # << >> /\ pc = "take" /\ m_etb_q' = Tail(m_etb_q)
      /\ BufferBack(Head(m_etb_q).buf, "push") /\ UNCHANGED <<drv_q, failed, flush>>
  BY DEF empty_buffer_done, TakeEvent
<1>2. /\ Core' /\ pc' \in {pc, "push"}
      /\ psource_frame = NoFrame /\ m_opq_meta_q = << >>
           => psource_frame' = NoFrame /\ m_opq_meta_q' = << >>
  BY <1>1, BufferBackCore DEF FramesInv
<1>3. Flushing'
  BY <1>1, <1>2 DEF FramesInv, Flushing
<1> QED
  BY <1>2, <1>3 DEF FramesInv

(* Every way out of an iteration of push_input_buffer keeps the invariant. *)
LEMMA PushStep == ASSUME FramesInv, push_input_buffer PROVE FramesInv'
<1>1. CASE PushEnds
  <2>1. UNCHANGED <<held, m_etb_q, opq, drv_q, flush, order>> /\ failed' \in {failed, TRUE}
        /\ Pushing /\ Leave
    BY <1>1 DEF PushEnds
  <2>2. Core'
    <3>1. CASE failed' = failed
      BY <2>1, <3>1, Same DEF FramesInv
    <3>2. CASE failed' = TRUE
      <4>1. /\ UNCHANGED <<psource_frame, pdest_frame, m_opq_meta_q, m_opq_pmem_q>>
            /\ UNCHANGED <<held, m_etb_q, drv_q, order>>
        BY <2>1 DEF opq
      <4>2. Typed'
        BY <3>2, <4>1 DEF FramesInv, Core, Typed
      <4>3. \A b : At(b)' = At(b)
        BY <4>1 DEF At, PlaceSum
      <4> QED
        BY <3>2, <4>2, <4>3 DEF FramesInv, Core, Straight
    <3> QED
      BY <2>1, <3>1, <3>2
  <2>3. Flushing'
    BY <2>1 DEF FramesInv, Flushing, opq, Pushing, Leave
  <2> QED
    BY <2>2, <2>3 DEF FramesInv
<1>2. CASE queue_meta_buffer
  <2>1. /\ psource_frame # NoFrame /\ pc = "push" /\ order' = Without(order, {psource_frame})
        /\ UNCHANGED <<held, pdest_frame, m_opq_pmem_q, flush>>
        /\ \/ /\ drv_q' = Append(drv_q, psource_frame)
              /\ psource_frame' = Oldest(m_opq_meta_q) /\ m_opq_meta_q' = Rest(m_opq_meta_q)
              /\ UNCHANGED <<pc, m_etb_q, failed>>
           \/ /\ m_etb_q' = Append(m_etb_q, Event("EBD", psource_frame))
              /\ psource_frame' = NoFrame /\ failed' = TRUE /\ Leave
              /\ UNCHANGED <<m_opq_meta_q, drv_q>>
    BY <1>2 DEF queue_meta_buffer, Pair
  <2>2. psource_frame \in Sources /\ flush \notin {"driver", "acked"} /\ pc' \notin {"flush", "flush_push"}
    BY <2>1 DEF FramesInv, Core, Typed, Flushing, Leave
  <2>3. Flushing'
    BY <2>1, <2>2 DEF Flushing
  <2>4. Core'
    BY <2>1, <2>2, QueuedCore, RefusedCore DEF FramesInv
  <2> QED
    BY <2>3, <2>4 DEF FramesInv
<1>3. CASE ConvertFailed
  <2>1. /\ psource_frame # NoFrame /\ pc \in {"push", "flush_push"} /\ order' = Without(order, {psource_frame})
        /\ psource_frame' = NoFrame /\ failed' = TRUE /\ Leave
        /\ UNCHANGED <<held, m_etb_q, drv_q, pdest_frame, m_opq_pmem_q, m_opq_meta_q, flush>>
    BY <1>3 DEF ConvertFailed, Pair, Pushing
  <2>2. Flushing'
    BY <2>1 DEF FramesInv, Flushing, Leave
  <2>3. Core'
    BY <2>1, ForgottenCore DEF FramesInv
  <2> QED
    BY <2>2, <2>3 DEF FramesInv
<1>4. CASE convert_queue_buffer
  <2>1. /\ psource_frame # NoFrame /\ pdest_frame # NoFrame /\ pc = "push"
        /\ order' = Without(order, {psource_frame}) /\ flush' = flush
        /\ \/ /\ drv_q' = Append(drv_q, pdest_frame) /\ held' = held \cup {psource_frame}
              /\ psource_frame' = Oldest(m_opq_meta_q) /\ m_opq_meta_q' = Rest(m_opq_meta_q)
              /\ pdest_frame' = Oldest(m_opq_pmem_q) /\ m_opq_pmem_q' = Rest(m_opq_pmem_q)
              /\ UNCHANGED <<pc, m_etb_q, failed>>
           \/ /\ m_etb_q' = Append(m_etb_q, Event("EBD", pdest_frame))
              /\ psource_frame' = NoFrame /\ failed' = TRUE /\ Leave
              /\ UNCHANGED <<held, pdest_frame, m_opq_meta_q, m_opq_pmem_q, drv_q>>
    BY <1>4 DEF convert_queue_buffer, Pair
  <2>2. pdest_frame \in Dests /\ flush \notin {"driver", "acked"} /\ pc' \notin {"flush", "flush_push"}
    BY <2>1 DEF FramesInv, Core, Typed, Flushing, Leave
  <2>3. Flushing'
    BY <2>1, <2>2 DEF Flushing
  <2>4. Core'
    BY <2>1, <2>2, ConvertedCore, RefusedCore DEF FramesInv
  <2> QED
    BY <2>3, <2>4 DEF FramesInv
<1>5. CASE PostWhileLocked
  <2>1. /\ UNCHANGED <<held, m_etb_q, opq, drv_q, flush, failed, order>> /\ pc' = "stuck"
    BY <1>5 DEF PostWhileLocked
  <2>2. Core'
    BY <2>1, Same DEF FramesInv
  <2>3. Flushing'
    BY <2>1 DEF FramesInv, Flushing, opq
  <2> QED
    BY <2>2, <2>3 DEF FramesInv
<1> QED
  BY <1>1, <1>2, <1>3, <1>4, <1>5 DEF push_input_buffer

(* execute_input_flush keeps the invariant.                                *)
LEMMA FlushStep == ASSUME FramesInv, FlushStart \/ FlushEvent \/ FlushFrames \/ FlushDone PROVE FramesInv'
<1>1. CASE FlushStart \/ FlushDone
  <2>1. /\ UNCHANGED <<held, m_etb_q, opq, drv_q, failed, order>>
        /\ pc' \in {"flush", "flush_push"} => flush' = "running"
        /\ flush' \notin {"driver", "acked"}
    BY <1>1 DEF FlushStart, FlushDone
  <2> QED
    BY <2>1, Same DEF FramesInv, Flushing
<1>2. CASE FlushEvent
  <2>1. /\ pc = "flush" /\ m_etb_q # << >> /\ m_etb_q' = Tail(m_etb_q)
        /\ UNCHANGED <<drv_q, flush, failed>>
        /\ IF Head(m_etb_q).id = "ETB_OPQ" THEN GiveBack(Head(m_etb_q).buf) /\ UNCHANGED <<opq, pc>>
           ELSE BufferBack(Head(m_etb_q).buf, "flush_push")
    BY <1>2 DEF FlushEvent
  <2>2. flush' = "running"
    BY <2>1 DEF FramesInv, Flushing
  <2>3. CASE Head(m_etb_q).id = "ETB_OPQ"
    <3>1. Head(m_etb_q).buf \in Sources
      BY <2>1, <2>3, HeadFacts DEF FramesInv
    <3> QED
      BY <2>1, <2>2, <2>3, <3>1, BackCore DEF FramesInv, Flushing
  <2>4. CASE Head(m_etb_q).id # "ETB_OPQ"
    BY <2>1, <2>2, <2>4, BufferBackCore DEF FramesInv, Flushing
  <2> QED
    BY <2>3, <2>4
<1>3. CASE FlushFrames
  <2>1. Core'
    BY <1>3, FlushedCore DEF FramesInv
  <2>2. Flushing'
    BY <1>3 DEF FlushFrames, Flushing
  <2> QED
    BY <2>1, <2>2 DEF FramesInv
<1> QED
  BY <1>1, <1>2, <1>3

(* Every step keeps the invariant.                                         *)
LEMMA FramesInductive == ASSUME FramesInv, [OpqNext]_opqVars PROVE FramesInv'
<1>1. CASE empty_this_buffer_opaque
  BY <1>1, EtbStep
<1>2. CASE empty_buffer_done
  BY <1>2, EbdStep
<1>3. CASE push_input_buffer
  BY <1>3, PushStep
<1>4. CASE FlushStart \/ FlushEvent \/ FlushFrames \/ FlushDone
  BY <1>4, FlushStep
<1>5. CASE Client
  <2>1. CASE AskFlush
    <3>1. /\ UNCHANGED <<held, m_etb_q, opq, drv_q, failed, order>> /\ flush' = "asked" /\ pc' = pc
          /\ pc \notin {"flush", "flush_push"}
      BY <2>1 DEF AskFlush, Locked
    <3> QED
      BY <3>1, Same DEF FramesInv, Flushing
  <2>2. ASSUME NEW s \in Sources, NEW f \in FrameKinds, empty_this_buffer(s, f) PROVE FramesInv'
    <3>1. Core'
      BY <2>2, SentCore DEF FramesInv
    <3>2. Flushing'
      BY <2>2 DEF FramesInv, Flushing, empty_this_buffer, opq
    <3> QED
      BY <3>1, <3>2 DEF FramesInv
  <2> QED
    BY <1>5, <2>1, <2>2 DEF Client
<1>6. CASE Device
  <2>1. CASE DeviceFlushed
    <3>1. /\ UNCHANGED <<held, m_etb_q, opq, drv_q, failed, order>> /\ flush' = "acked" /\ pc' = pc
          /\ pc \notin {"flush", "flush_push"} /\ flush = "driver"
      BY <2>1 DEF DeviceFlushed, Locked
    <3> QED
      BY <3>1, Same DEF FramesInv, Flushing, opq
  <2>2. ASSUME NEW i \in DOMAIN drv_q, BufferDone(i) PROVE FramesInv'
    <3>1. Core'
      BY <2>2, DoneCore DEF FramesInv
    <3>2. Flushing'
      BY <2>2 DEF FramesInv, Flushing, BufferDone, opq
    <3> QED
      BY <3>1, <3>2 DEF FramesInv
  <2> QED
    BY <1>6, <2>1, <2>2 DEF Device
<1>7. CASE UNCHANGED opqVars
  BY <1>7, Same DEF FramesInv, Flushing, opqVars, opq
<1> QED
  BY <1>1, <1>2, <1>3, <1>4, <1>5, <1>6, <1>7 DEF OpqNext, MessageThread

(* The invariant says what FramesInOrder says.                             *)
LEMMA FramesHold == ASSUME FramesInv PROVE FramesInOrder
<1>1. \A b \in Sources \cup Dests : Places(b) = At(b)
  <2> TAKE b \in Sources \cup Dests
  <2>1. (IF b \in {psource_frame, pdest_frame} THEN 1 ELSE 0) = One(psource_frame, b) + One(pdest_frame, b)
    BY Apart DEF FramesInv, Core, Typed, One
  <2>2. Numbers(b)
    BY AreNumbers DEF FramesInv, Core
  <2>3. Places(b) = Count(Bufs(m_etb_q), b) + Count(m_opq_meta_q, b) + Count(m_opq_pmem_q, b)
                      + Count(drv_q, b) + InSet(held, b) + (One(psource_frame, b) + One(pdest_frame, b))
    BY <2>1 DEF Places, InSet
  <2> QED
    BY <2>2, <2>3 DEF At, PlaceSum, Numbers
<1>2. Arrived = AskedIn(m_etb_q)
  BY DEF Arrived, AskedIn, Asked
<1>3. \A s \in Sources : Places(s) <= 1
  BY <1>1 DEF FramesInv, Core
<1>4. ASSUME ~failed
      PROVE  /\ \A b \in Sources \cup Dests : Places(b) = 1
             /\ order = (IF psource_frame = NoFrame THEN << >> ELSE << psource_frame >>)
                          \o m_opq_meta_q \o Arrived
  <2>1. failed = FALSE
    BY <1>4 DEF FramesInv, Core, Typed
  <2> QED
    BY <1>1, <1>2, <2>1 DEF FramesInv, Core, Straight, Line, NextFrame
<1> QED
  BY <1>3, <1>4 DEF FramesInOrder, FramesInv, Flushing

(* The encoder's opaque input path passes the client's frames on once each *)
(* and in the order they were sent, and loses none until a conversion or a *)
(* submission fails, for any number of frames, buffers and kinds of frame, *)
(* any flushes and whichever calls fail (push_input_buffer,                *)
(* empty_buffer_done, execute_input_flush).                                *)
THEOREM FramesKeepOrder == OpqSpec => []FramesInOrder
<1>1. OpqInit => FramesInv
  BY InitCore DEF FramesInv
<1>2. FramesInv /\ [OpqNext]_opqVars => FramesInv'
  BY FramesInductive
<1>3. FramesInv => FramesInOrder
  BY FramesHold
<1> QED
  BY <1>1, <1>2, <1>3, PTL DEF OpqSpec
===============================================================================
