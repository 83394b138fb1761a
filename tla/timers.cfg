SPECIFICATION ListFairSpec
CONSTANTS
  Timer = {t1, t2, t3, t4}
  Delay = {1, 2}
  Slots = 3
  ClockMod = 64
  IntMod = 64
  Horizon = 3
  NoTimer = NoTimer
  Never = Never
INVARIANTS DeltaList NeverEarly NeverLate
PROPERTIES ImplementsTimers NoTimerForgotten
