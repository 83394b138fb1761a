------------------------------- MODULE Timers -------------------------------
(***************************************************************************)
(* What libdfu promises about timeouts (dfu_set_timeout(),                 *)
(* dfu_cancel_timeout() and dfu_idle() in src/dfu.c), whatever the way the *)
(* list of timeouts is kept: a timer that was set fires when its delay is  *)
(* over, never earlier, and after every timer that was due before it.      *)
(***************************************************************************)
EXTENDS Integers

CONSTANTS
  Timer,      \* struct dfu_timeout objects
  Delay,      \* delays they are set with, in ms
  Slots,      \* CONFIG_DFU_MAX_TIMEOUTS
  Horizon,    \* the bound on time
  NoTimer,    \* null pointer
  Never       \* deadline of a timer that is not set

VARIABLES
  now,        \* ms since boot
  deadline,   \* when each timer is due
  firing      \* timer whose callback is running

Armed == {t \in Timer : deadline[t] # Never}

\* The armed timers leave a slot free: they fit in the others.
Room ==
  \E place \in [Armed -> 1 .. Slots - 1] :
    \A t, u \in Armed : t # u => place[t] # place[u]

TimersInit ==
  /\ now = 0
  /\ deadline = [t \in Timer |-> Never]
  /\ firing = NoTimer

Pass ==
  /\ now < Horizon
  /\ now' = now + 1
  /\ UNCHANGED <<deadline, firing>>

\* dfu_set_timeout() fails only when every slot is taken: deadline stays.
Arm(t, d) ==
  /\ deadline[t] = Never
  /\ Room
  /\ deadline' = [deadline EXCEPT ![t] = now + d]
  /\ UNCHANGED <<now, firing>>

Disarm(t) ==
  /\ t \in Armed /\ t # firing
  /\ deadline' = [deadline EXCEPT ![t] = Never]
  /\ UNCHANGED <<now, firing>>

Fire(t) ==
  /\ firing = NoTimer
  /\ t \in Armed /\ deadline[t] <= now
  /\ \A u \in Armed : deadline[t] <= deadline[u]
  /\ firing' = t
  /\ UNCHANGED <<now, deadline>>

Fired ==
  /\ firing # NoTimer
  /\ deadline' = [deadline EXCEPT ![firing] = Never]
  /\ firing' = NoTimer
  /\ UNCHANGED now

TimersNext ==
  \/ Pass
  \/ \E t \in Timer, d \in Delay : Arm(t, d)
  \/ \E t \in Timer : Disarm(t) \/ Fire(t)
  \/ Fired

TimersSpec == TimersInit /\ [][TimersNext]_<<now, deadline, firing>>
=============================================================================
