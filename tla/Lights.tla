-------------------------------- MODULE Lights --------------------------------
(***************************************************************************)
(* The lights HAL (liblight/lights.c).                                     *)
(*                                                                         *)
(* Framework threads call the set_light entry of four logical lights.  The *)
(* battery and the notification light share one RGB LED: each call stores  *)
(* its request in a global, decides which of the two requests is shown,    *)
(* and writes the sysfs attributes of the three channels one after another *)
(* while it holds g_lock.  A write may fail: the code ignores the error    *)
(* and goes on with the next attribute.                                    *)
(*                                                                         *)
(* A colour is the 32-bit word of the framework, kept as its bytes; the    *)
(* alpha byte is masked out by every reader and is left out.               *)
(***************************************************************************)
EXTENDS Integers, Sequences

CONSTANTS
  Threads,    \* framework threads that call into the HAL
  NoThread,   \* g_lock is free
  Colors,     \* the colours callers ask for: records of bytes r, g, b
  Flashes,    \* the flash requests: records [on |-> flashOnMS, off |-> flashOffMS]
  Fallible    \* the attributes whose file may refuse a write

Byte == 0 .. 255
Channels == {"r", "g", "b"}
LightColor == [r : Byte, g : Byte, b : Byte]

(* LIGHT_FLASH_NONE: the delays are not looked at.                         *)
NoFlash == [on |-> -1, off |-> -1]

(* The attribute files.                                                    *)
LedAttributes == {"trigger", "delay_on", "delay_off", "brightness"} \X Channels
Attributes == LedAttributes \cup {<<"lcd", "backlight">>, <<"button", "backlight">>}

(* The trigger names "none" and "timer", as numbers like every other value.*)
None == 0
Timer == 1

ASSUME LightsAssumption ==
  /\ NoThread \notin Threads
  /\ Colors \subseteq LightColor
  /\ Flashes \subseteq [on : Nat, off : Nat]
  /\ Fallible \subseteq Attributes

(* A request of the framework; the globals of a process that was just      *)
(* loaded are all zero.                                                    *)
Black == [r |-> 0, g |-> 0, b |-> 0]
Dark == [color |-> Black, flash |-> NoFlash]
LightState == [color : Colors, flash : Flashes \cup {NoFlash}]
-------------------------------------------------------------------------------
is_lit(state) == state.color # Black

rgb_to_brightness(state) ==
  (77 * state.color.r + 150 * state.color.g + 29 * state.color.b) \div 256

Write(attribute, value) == [attribute |-> attribute, value |-> value]

(* The writes of one call on the shared LED, in the order they are made.   *)
set_shared_light_locked(state) ==
  IF state.flash # NoFlash
    THEN << Write(<<"trigger", "r">>, Timer),
            Write(<<"trigger", "g">>, Timer),
            Write(<<"trigger", "b">>, Timer),
            Write(<<"delay_on", "r">>, state.flash.on),
            Write(<<"delay_on", "g">>, state.flash.on),
            Write(<<"delay_on", "b">>, state.flash.on),
            Write(<<"delay_off", "r">>, state.flash.off),
            Write(<<"delay_off", "g">>, state.flash.off),
            Write(<<"delay_off", "b">>, state.flash.off),
            Write(<<"brightness", "r">>, state.color.r),
            Write(<<"brightness", "g">>, state.color.g),
            Write(<<"brightness", "b">>, state.color.b) >>
    ELSE << Write(<<"trigger", "r">>, None),
            Write(<<"trigger", "g">>, None),
            Write(<<"trigger", "b">>, None),
            Write(<<"brightness", "r">>, state.color.r),
            Write(<<"brightness", "g">>, state.color.g),
            Write(<<"brightness", "b">>, state.color.b) >>

(* A lit notification wins over the battery light.                         *)
Winner(notification, battery) ==
  IF is_lit(notification) THEN notification ELSE battery

handle_shared_battery_locked(notification, battery) ==
  set_shared_light_locked(Winner(notification, battery))
-------------------------------------------------------------------------------
VARIABLES
  g_lock,          \* the thread that holds the mutex, or NoThread
  g_notification,  \* the last request for the notification light
  g_battery,       \* the last request for the battery light
  op,              \* the light whose set_light call is in progress, or "none"
  writes,          \* the sysfs writes of the call in progress
  pos,             \* the next of them to make
  sysfs,           \* the attribute files
  stale            \* the attributes no call has yet written, or whose last
                   \* write failed (history, never read by the code)

vars == <<g_lock, g_notification, g_battery, op, writes, pos, sysfs, stale>>

(* Nothing is known of the LED before the first call.                      *)
Init ==
  /\ g_lock = NoThread
  /\ g_notification = Dark
  /\ g_battery = Dark
  /\ op = "none"
  /\ writes = <<>>
  /\ pos = 1
  /\ sysfs = [a \in Attributes |-> 0]
  /\ stale = Attributes

(* Entering a set_light function: pthread_mutex_lock, then the stores, and *)
(* the choice of what to write.  Only the holder of g_lock looks at the    *)
(* globals, so all of it is one step.                                      *)
Enter(t, light, newWrites) ==
  /\ g_lock = NoThread
  /\ g_lock' = t
  /\ op' = light
  /\ writes' = newWrites
  /\ pos' = 1
  /\ UNCHANGED <<sysfs, stale>>

(* Mutant: the battery light bypasses the arbitration.                     *)
set_light_battery_NoArbitration(t, state) ==
  /\ g_battery' = state
  /\ Enter(t, "battery", set_shared_light_locked(state))
  /\ UNCHANGED g_notification

set_light_battery(t, state) ==
  /\ g_battery' = state
  /\ Enter(t, "battery", handle_shared_battery_locked(g_notification, state))
  /\ UNCHANGED g_notification

(* Mutant: the LED is driven before the request is stored.                 *)
set_light_notifications_StoreLast(t, state) ==
  /\ g_notification' = state
  /\ Enter(t, "notifications",
           handle_shared_battery_locked(g_notification, g_battery))
  /\ UNCHANGED g_battery

set_light_notifications(t, state) ==
  /\ g_notification' = state
  /\ Enter(t, "notifications", handle_shared_battery_locked(state, g_battery))
  /\ UNCHANGED g_battery

set_light_backlight(t, state) ==
  /\ Enter(t, "backlight", <<Write(<<"lcd", "backlight">>, rgb_to_brightness(state))>>)
  /\ UNCHANGED <<g_notification, g_battery>>

set_light_buttons(t, state) ==
  /\ Enter(t, "buttons",
           <<Write(<<"button", "backlight">>, IF is_lit(state) THEN 255 ELSE 0)>>)
  /\ UNCHANGED <<g_notification, g_battery>>

(* write_int and write_string: the next attribute is written, or the file  *)
(* cannot be opened and the call goes on all the same.                     *)
WriteAttribute ==
  /\ g_lock # NoThread
  /\ pos <= Len(writes)
  /\ LET w == writes[pos] IN
       \/ /\ sysfs' = [sysfs EXCEPT ![w.attribute] = w.value]
          /\ stale' = stale \ {w.attribute}
       \/ /\ w.attribute \in Fallible
          /\ stale' = stale \cup {w.attribute}
          /\ UNCHANGED sysfs
  /\ pos' = pos + 1
  /\ UNCHANGED <<g_lock, g_notification, g_battery, op, writes>>


(* pthread_mutex_unlock, and the return to the framework.                  *)
Return ==
  /\ g_lock # NoThread
  /\ pos > Len(writes)
  /\ g_lock' = NoThread
  /\ op' = "none"
  /\ writes' = <<>>
  /\ pos' = 1
  /\ UNCHANGED <<g_notification, g_battery, sysfs, stale>>

Next ==
  \/ \E t \in Threads, state \in LightState :
       \/ set_light_battery(t, state)
       \/ set_light_notifications(t, state)
       \/ set_light_backlight(t, state)
       \/ set_light_buttons(t, state)
  \/ WriteAttribute
  \/ Return

(* A thread inside a call keeps running.                                   *)
Spec == Init /\ [][Next]_vars /\ WF_vars(WriteAttribute) /\ WF_vars(Return)
-------------------------------------------------------------------------------
WriteOp == [attribute : Attributes, value : Nat]
Ops == {"none", "battery", "notifications", "backlight", "buttons"}

(* The type invariant of the HAL's globals and of the sysfs files.         *)
TypeOK ==
  /\ g_lock \in Threads \cup {NoThread}
  /\ g_notification \in LightState \cup {Dark}
  /\ g_battery \in LightState \cup {Dark}
  /\ op \in Ops
  /\ writes \in Seq(WriteOp)
  /\ pos \in 1 .. Len(writes) + 1
  /\ sysfs \in [Attributes -> Nat]
  /\ stale \subseteq Attributes

(* What the LED should show, and whether write i of it is in effect.       *)
Shared == handle_shared_battery_locked(g_notification, g_battery)
InEffect(i) ==
  \/ Shared[i].attribute \in stale
  \/ sysfs[Shared[i].attribute] = Shared[i].value

(* Whenever no call is in progress (g_lock is free) the shared LED shows   *)
(* the request that wins the arbitration of handle_shared_battery_locked:  *)
(* each attribute of it has the winner's value, but for the ones whose     *)
(* last write failed.  However the calls of several threads interleave,    *)
(* the LED never keeps a mixture of two requests.                          *)
LedShowsWinner ==
  g_lock = NoThread => \A i \in 1 .. Len(Shared) : InEffect(i)

(* Once set_light_notifications has returned, a lit notification is not    *)
(* disturbed even for a moment by the calls on the other lights: half-way  *)
(* through set_light_battery, which rewrites the whole LED, every          *)
(* attribute still shows the notification.                                 *)
NotificationUndisturbed ==
  is_lit(g_notification) /\ op # "notifications" =>
    \A i \in 1 .. Len(Shared) : InEffect(i)

===============================================================================
