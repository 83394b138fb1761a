----------------------------- MODULE TimeoutList -----------------------------
(***************************************************************************)
(* The list of timeouts of libdfu (src/dfu.c).  timeouts[] holds pointers  *)
(* in the order the timers are due.  The field timeout of the first one is *)
(* the time it is due; the field of every other one is how much later than *)
(* the one before it is due.                                               *)
(*                                                                         *)
(* dfu_idle() triggers the first timer when it is due: the callback runs   *)
(* first, and may set and cancel timers; then the timer is removed.        *)
(*                                                                         *)
(* Setting a timer is a loop over the slots; the loop is not interrupted,  *)
(* and is one step per round here so that its invariant can be stated.     *)
(*                                                                         *)
(* The clock: dfu_get_current_time() counts ms modulo ClockMod (Linux      *)
(* counts up to 2^64, the ESP8266 divides a 32 bits us counter by 1000).   *)
(* The field timeout is an int: IntMod is 2^32.                            *)
(***************************************************************************)
EXTENDS Integers

CONSTANTS
  Timer,      \* struct dfu_timeout objects
  Delay,      \* delays they are set with, in ms
  Slots,      \* CONFIG_DFU_MAX_TIMEOUTS
  ClockMod,   \* the clock wraps to 0 there
  IntMod,     \* number of values of an int
  Horizon,    \* the bound on time
  NoTimer,    \* null pointer
  Never       \* deadline of a timer that is not set

ASSUME ListSize == Slots \in Nat \ {0, 1}

ASSUME TimerSets ==
  /\ Delay \subseteq Nat \ {0}
  /\ NoTimer \notin Timer
  /\ Never \notin Nat

ASSUME Widths ==
  /\ ClockMod \in Nat \ {0} /\ IntMod \in Nat \ {0} /\ Horizon \in Nat

VARIABLES
  now,        \* ms since boot
  timeouts,   \* the slots
  timeout,    \* the field timeout of each timer
  due,        \* history: when each timer that is set is to fire
  firing,     \* timer whose callback is running
  setting,    \* timer that _insert_timeout() is inserting
  slot        \* i of _insert_timeout()

listVars == <<now, timeouts, timeout, due, firing, setting, slot>>

Slot == 0 .. Slots - 1

\* The value an int gets from x.
AsInt(x) == ((x + IntMod \div 2) % IntMod) - IntMod \div 2

Clock == now % ClockMod

TimeAfter(a, b) == b - a < 0

First == timeouts[0]

IsSet(t) == \E i \in Slot : timeouts[i] = t

ListInit ==
  /\ now = 0
  /\ timeouts = [i \in Slot |-> NoTimer]
  /\ timeout = [t \in Timer |-> 0]
  /\ due = [t \in Timer |-> 0]
  /\ firing = NoTimer
  /\ setting = NoTimer /\ slot = 0

-----------------------------------------------------------------------------
(* dfu_set_timeout() *)

\* Wrong: the timer keeps its delay.
SetTimeout_NoClock(t, d) ==
  /\ setting = NoTimer /\ ~IsSet(t)
  /\ timeout' = [timeout EXCEPT ![t] = d]
  /\ due' = [due EXCEPT ![t] = now + d]
  /\ setting' = t /\ slot' = 0
  /\ UNCHANGED <<now, timeouts, firing>>

\* The caller fills in the delay of a timer that is not set, and
\* _insert_timeout() adds the time.
SetTimeout(t, d) ==
  /\ setting = NoTimer /\ ~IsSet(t)
  /\ timeout' = [timeout EXCEPT ![t] = AsInt(Clock + d)]
  /\ due' = [due EXCEPT ![t] = now + d]
  /\ setting' = t /\ slot' = 0
  /\ UNCHANGED <<now, timeouts, firing>>

\* The loop ends, the timer set or not.
SetReturns == setting' = NoTimer /\ slot' = 0 /\ UNCHANGED <<now, firing>>

Inserting == setting # NoTimer

\* There is a timer in the slot _insert_timeout() looks at.
Occupied == slot \in Slot /\ timeouts[slot] # NoTimer

\* _insert_timeout(): the end of the list has been reached.
InsertLast ==
  /\ Inserting /\ slot \in Slot /\ timeouts[slot] = NoTimer
  /\ timeouts' = [timeouts EXCEPT ![slot] = setting]
  /\ SetReturns
  /\ UNCHANGED <<timeout, due>>

\* The timer in the slot is due first.
Earlier == TimeAfter(timeout[setting], timeout[timeouts[slot]])

\* _insert_timeout(): go past a timer that is due first.
InsertGoOn ==
  /\ Inserting /\ Occupied /\ Earlier
  /\ timeout' =
       [timeout EXCEPT ![setting] = AsInt(@ - timeout[timeouts[slot]])]
  /\ slot' = slot + 1
  /\ UNCHANGED <<now, timeouts, due, firing, setting>>

\* Wrong: the timer that comes next keeps its field.
InsertHere_NoDelta ==
  /\ Inserting /\ Occupied /\ ~Earlier
  /\ timeouts[Slots - 1] = NoTimer
  /\ timeouts' = [i \in Slot |-> IF i < slot THEN timeouts[i]
                                 ELSE IF i = slot THEN setting
                                 ELSE timeouts[i - 1]]
  /\ SetReturns
  /\ UNCHANGED <<timeout, due>>

\* _insert_timeout(): before a timer that is due later; shift the others right.
InsertHere ==
  /\ Inserting /\ Occupied /\ ~Earlier
  /\ timeouts[Slots - 1] = NoTimer
  /\ timeouts' = [i \in Slot |-> IF i < slot THEN timeouts[i]
                                 ELSE IF i = slot THEN setting
                                 ELSE timeouts[i - 1]]
  /\ timeout' =
       [timeout EXCEPT ![timeouts[slot]] = AsInt(@ - timeout[setting])]
  /\ SetReturns
  /\ UNCHANGED due

\* _insert_timeout() returns -1, the field already changed.
NoSpace ==
  /\ Inserting
  /\ \/ slot = Slots
     \/ Occupied /\ ~Earlier /\ timeouts[Slots - 1] # NoTimer
  /\ SetReturns
  /\ due' = [due EXCEPT ![setting] = 0]
  /\ UNCHANGED <<timeouts, timeout>>

-----------------------------------------------------------------------------
(* _remove_timeout() *)

\* The list without its slot s.
ShiftedLeft(s) ==
  [i \in Slot |-> IF i < s THEN timeouts[i]
                  ELSE IF i < Slots - 1 THEN timeouts[i + 1] ELSE NoTimer]

\* Wrong: the timer that comes next keeps its field.
Remove_NoDelta(t) ==
  \E s \in Slot :
    /\ timeouts[s] = t
    /\ timeouts' = ShiftedLeft(s)
    /\ due' = [due EXCEPT ![t] = 0]
    /\ UNCHANGED timeout

\* The timer that comes next is due after the one before from now on.
Remove(t) ==
  \E s \in Slot :
    /\ timeouts[s] = t
    /\ timeouts' = ShiftedLeft(s)
    /\ due' = [due EXCEPT ![t] = 0]
    /\ timeout' = IF s < Slots - 1 /\ timeouts[s + 1] # NoTimer
                  THEN [timeout EXCEPT ![timeouts[s + 1]] = AsInt(@ + timeout[t])]
                  ELSE timeout

\* dfu_cancel_timeout(); no callback cancels its own timer.
CancelTimeout(t) ==
  /\ ~Inserting /\ t # firing
  /\ Remove(t)
  /\ UNCHANGED <<now, firing, setting, slot>>

-----------------------------------------------------------------------------
(* dfu_idle() *)

\* dfu_idle(): time_after(now, next_timeout).
Expired == First # NoTimer /\ TimeAfter(Clock, timeout[First])

\* The host waited in its idle operation until the first timer is due.
HostTimeout == First # NoTimer /\ Clock = timeout[First]

\* _trigger_timeout(): the callback of the first timer starts.
Trigger ==
  /\ ~Inserting /\ firing = NoTimer
  /\ Expired \/ HostTimeout
  /\ firing' = First
  /\ UNCHANGED <<now, timeouts, timeout, due, setting, slot>>

\* _trigger_timeout(): the callback is over, the timer is removed.
CallbackReturns ==
  /\ ~Inserting /\ firing # NoTimer
  /\ Remove(firing)
  /\ firing' = NoTimer
  /\ UNCHANGED <<now, setting, slot>>

Tick ==
  /\ ~Inserting /\ now < Horizon
  /\ now' = now + 1
  /\ UNCHANGED <<timeouts, timeout, due, firing, setting, slot>>

ListNext ==
  \/ Tick
  \/ \E t \in Timer, d \in Delay : SetTimeout(t, d)
  \/ InsertLast \/ InsertGoOn \/ InsertHere \/ NoSpace
  \/ \E t \in Timer : CancelTimeout(t)
  \/ Trigger \/ CallbackReturns

ListSpec == ListInit /\ [][ListNext]_listVars

\* Time passes, calls return, and dfu_idle() is called again and again: it
\* looks at the first timer between any two calls of the clients.
ListFairSpec ==
  /\ ListSpec
  /\ SF_listVars(Tick)
  /\ WF_listVars(InsertLast \/ InsertGoOn \/ InsertHere \/ NoSpace)
  /\ SF_listVars(Trigger) /\ SF_listVars(CallbackReturns)

-----------------------------------------------------------------------------
(* Properties *)

ListTypeOK ==
  /\ now \in Nat
  /\ timeouts \in [Slot -> Timer \cup {NoTimer}]
  /\ timeout \in [Timer -> Int]
  /\ due \in [Timer -> Nat]
  /\ firing \in Timer \cup {NoTimer}
  /\ setting \in Timer \cup {NoTimer}
  /\ slot \in 0 .. Slots

\* No timer is in the list twice, and a timer that is being set is not in it.
OnceInList ==
  /\ \A i, j \in Slot : timeouts[i] = timeouts[j] /\ i # j => timeouts[i] = NoTimer
  /\ Inserting => ~IsSet(setting)

\* "Make sure unused slots always contain a NULL pointer": the timers are in
\* the first slots.
Packed ==
  \A i, j \in Slot : i < j /\ timeouts[i] = NoTimer => timeouts[j] = NoTimer

\* The first field is a time, the others are differences.
FieldsAreDeltas ==
  \A i \in Slot : timeouts[i] # NoTimer =>
    timeout[timeouts[i]] =
      IF i = 0 THEN due[timeouts[i]] ELSE due[timeouts[i]] - due[timeouts[i - 1]]

\* The timers are in the order they are due.
Ordered ==
  \A i, j \in Slot :
    i < j /\ timeouts[j] # NoTimer => due[timeouts[i]] <= due[timeouts[j]]

\* What _insert_timeout() has left is the time from the timers it went past.
InsertLoop ==
  Inserting =>
    /\ \A i \in Slot : i < slot =>
         timeouts[i] # NoTimer /\ due[timeouts[i]] < due[setting]
    /\ timeout[setting] =
         IF slot = 0 THEN due[setting]
         ELSE due[setting] - due[timeouts[slot - 1]]

\* A timer whose callback runs is still the first of the list.
FiringIsFirst == firing # NoTimer => First = firing

\* The list of timeouts is what _insert_timeout() and _remove_timeout() rely
\* on in each other: the timers are in the order they are due, packed, none
\* twice, and their fields are the differences of the times they are due.
DeltaList ==
  /\ OnceInList /\ Packed /\ FieldsAreDeltas /\ Ordered
  /\ InsertLoop /\ FiringIsFirst

\* A timer never fires before the delay it was set with is over: "Timeout in
\* millisecs" (struct dfu_cmdbuf).
NeverEarly == firing # NoTimer => due[firing] <= now

\* dfu_idle() finds the first timer of the list expired when its delay is
\* over: no timer is late by more than an iteration of the loop.
NeverLate == First # NoTimer /\ due[First] < now => Expired

\* Every timer that was set fires or is cancelled once its delay is over.
NoTimerForgotten ==
  \A t \in Timer : (IsSet(t) /\ due[t] < Horizon) ~> ~IsSet(t)

\* The list implements timers.
Promise == INSTANCE Timers WITH
  deadline <- [t \in Timer |-> IF IsSet(t) THEN due[t] ELSE Never]

\* Refinement: setting, cancelling and firing a timer through the list of
\* differences has the effect it would have on a set of deadlines.
ImplementsTimers == Promise!TimersSpec
=============================================================================
