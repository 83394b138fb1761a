----------------------------- MODULE LoopProofs -----------------------------
(***************************************************************************)
(* Proofs about the two parts of the library that dfu_idle() runs, for     *)
(* any program around them.                                                *)
(*                                                                         *)
(* The list of timeouts (TimeoutList), for any number of timers and slots  *)
(* and any delays: the fields are the differences of the deadlines, no     *)
(* timer fires early or is missed, and the list implements a set of        *)
(* deadlines (Timers).                                                     *)
(*                                                                         *)
(* The command engine (DfuCmd), for any commands, answers and flush        *)
(* buffer: the callback of a command runs once, its timer is set exactly   *)
(* while it waits, it never runs past its last buffer, and it reads no     *)
(* answer to another one.                                                  *)
(***************************************************************************)
EXTENDS TimeoutList, DfuCmd, TLAPS

-----------------------------------------------------------------------------
(* The list of timeouts                                                    *)

\* The system does not run long enough for the clock to wrap, nor for the
\* deadline of a timer not to fit in an int.
NoOverflow ==
  /\ Horizon < ClockMod /\ Horizon < IntMod \div 2
  /\ \A d \in Delay : Horizon + d < IntMod \div 2

\* Deadlines fit in an int, and a timer being set is not due yet.
InRange ==
  /\ now <= Horizon
  /\ \A t \in Timer : due[t] < IntMod \div 2
  /\ Inserting => now < due[setting] /\ \E d \in Delay : due[setting] = now + d

\* The inductive invariant.
ListInv == ListTypeOK /\ DeltaList /\ InRange /\ NeverEarly

\* Half the range of an int.
LEMMA HalfRange == IntMod \div 2 \in Nat /\ 2 * (IntMod \div 2) <= IntMod
BY Widths

\* A number in the range of an int is left alone.
LEMMA AsIntInRange ==
  ASSUME NEW x \in Int, -(IntMod \div 2) <= x, x < IntMod \div 2
  PROVE  AsInt(x) = x
<1> DEFINE h == IntMod \div 2
<1>1. h \in Nat /\ 2 * h <= IntMod
  BY HalfRange
<1>0. -h <= x /\ x < h
  OBVIOUS
<1>4. AsInt(x) = ((x + h) % IntMod) - h
  BY DEF AsInt
<1> HIDE DEF h
<1>2. x + h \in 0 .. IntMod - 1
  BY <1>0, <1>1, Widths
<1>3. (x + h) % IntMod = x + h
  BY <1>1, <1>2, Widths
<1> QED
  BY <1>1, <1>3, <1>4

\* The clock does not wrap.
LEMMA ClockIsTime ==
  ASSUME NoOverflow, now \in Nat, now <= Horizon
  PROVE  Clock = now
BY Widths DEF NoOverflow, Clock

\* Any conversion to int yields an integer.
LEMMA AsIntIsInt == ASSUME NEW x \in Int PROVE AsInt(x) \in Int
BY HalfRange, Widths DEF AsInt

-----------------------------------------------------------------------------
(* Every step preserves the invariant *)

\* The empty list satisfies the invariant.
LEMMA IInvInit == ASSUME NoOverflow, ListInit PROVE ListInv
<1>1. ListTypeOK
  BY ListSize, TimerSets DEF ListInit, ListTypeOK, Slot
<1>2. DeltaList
  BY ListSize, TimerSets
  DEF ListInit, DeltaList, OnceInList, Packed, FieldsAreDeltas, Ordered, InsertLoop,
      FiringIsFirst, Inserting, IsSet, Slot, First
<1>3. InRange /\ NeverEarly
  BY HalfRange, Widths, TimerSets DEF ListInit, InRange, NeverEarly, NoOverflow, Inserting
<1> QED
  BY <1>1, <1>2, <1>3 DEF ListInv

\* _insert_timeout() begins: the field is a time.
LEMMA SetTimeoutKeeps ==
  ASSUME NoOverflow, ListInv, NEW t \in Timer, NEW d \in Delay, SetTimeout(t, d)
  PROVE  ListInv'
<1> USE DEF ListInv, SetTimeout
<1>1. d \in Nat /\ d > 0 /\ now + d \in Nat /\ now + d < IntMod \div 2
  BY TimerSets, Widths DEF NoOverflow, ListTypeOK, InRange
<1>2. timeout'[t] = now + d /\ due'[t] = now + d /\ AsInt(Clock + d) \in Int
  <2>1. AsInt(now + d) = now + d
    BY <1>1, AsIntInRange, HalfRange
  <2>2. Clock = now
    BY ClockIsTime DEF ListTypeOK, InRange
  <2> QED
    BY <2>1, <2>2, <1>1 DEF ListTypeOK
<1>3. ListTypeOK'
  <2>1. AsInt(Clock + d) \in Int
    BY <1>2
  <2> QED
    BY <2>1, <1>1, ListSize DEF ListTypeOK
<1>4. \A i \in Slot : timeouts[i] # t
  BY DEF IsSet
<1>5. \A i \in Slot : timeouts[i] # NoTimer =>
        /\ timeout'[timeouts[i]] = timeout[timeouts[i]]
        /\ due'[timeouts[i]] = due[timeouts[i]]
  BY <1>4 DEF ListTypeOK
<1>6. (OnceInList /\ Packed)'
  BY DEF DeltaList, OnceInList, Packed, Inserting, IsSet
<1>7. (FieldsAreDeltas /\ Ordered)'
  BY <1>5, ListSize DEF DeltaList, FieldsAreDeltas, Ordered, Packed, Slot
<1>8. InsertLoop'
  BY <1>2 DEF InsertLoop, Slot
<1>9. (FiringIsFirst /\ NeverEarly)'
  BY <1>4, <1>5, ListSize DEF DeltaList, FiringIsFirst, NeverEarly, First, Slot
<1>10. InRange'
  BY <1>1, <1>2 DEF InRange, ListTypeOK
<1> QED
  BY <1>3, <1>6, <1>7, <1>8, <1>9, <1>10 DEF DeltaList

\* The timer becomes the last of the list.
LEMMA InsertLastKeeps ==
  ASSUME NoOverflow, ListInv, InsertLast
  PROVE  ListInv'
<1> USE DEF ListInv, InsertLast, SetReturns
<1>1. setting \in Timer /\ slot \in Slot /\ setting # NoTimer
  BY DEF ListTypeOK, Inserting
<1>2. ListTypeOK'
  BY <1>1, ListSize DEF ListTypeOK, Slot
<1>3. \A i \in Slot : timeouts'[i] = IF i = slot THEN setting ELSE timeouts[i]
  BY <1>1 DEF ListTypeOK
<1>4. \A i \in Slot : i < slot <=> timeouts[i] # NoTimer
  BY <1>1 DEF DeltaList, InsertLoop, Packed, Slot
<1>5. OnceInList'
  BY <1>1, <1>3, TimerSets DEF DeltaList, OnceInList, IsSet, Inserting
<1>6. Packed'
  BY <1>1, <1>3, <1>4, TimerSets DEF Packed, Slot
<1>7. FieldsAreDeltas'
  BY <1>1, <1>3, <1>4, TimerSets DEF DeltaList, FieldsAreDeltas, InsertLoop, Slot
<1>8. Ordered'
  <2>1. \A i \in Slot : i < slot => due[timeouts[i]] <= due[setting]
    BY <1>1, <1>4 DEF DeltaList, InsertLoop, ListTypeOK
  <2> QED
    BY <2>1, <1>1, <1>3, <1>4, TimerSets DEF DeltaList, Ordered, Slot
<1>9. (InsertLoop /\ FiringIsFirst)'
  BY <1>1, <1>3, <1>4, ListSize DEF DeltaList, InsertLoop, FiringIsFirst, First, Inserting, Slot
<1>10. (InRange /\ NeverEarly)'
  BY DEF InRange, NeverEarly, Inserting
<1> QED
  BY <1>2, <1>5, <1>6, <1>7, <1>8, <1>9, <1>10 DEF DeltaList

\* A timer that is due first is passed, and its field taken off.
LEMMA InsertGoOnKeeps ==
  ASSUME NoOverflow, ListInv, InsertGoOn
  PROVE  ListInv'
<1> USE DEF ListInv, InsertGoOn
<1> DEFINE u == timeouts[slot]
<1>1. setting \in Timer /\ slot \in Slot /\ u \in Timer /\ u # setting
  BY DEF ListTypeOK, Inserting, Occupied, DeltaList, OnceInList, IsSet
<1>2. timeout[setting] = (IF slot = 0 THEN due[setting]
                          ELSE due[setting] - due[timeouts[slot - 1]])
  BY DEF DeltaList, InsertLoop
<1>3. timeout[u] = IF slot = 0 THEN due[u] ELSE due[u] - due[timeouts[slot - 1]]
  BY <1>1, TimerSets DEF DeltaList, FieldsAreDeltas, Occupied
<1>4. slot # 0 => slot - 1 \in Slot /\ timeouts[slot - 1] \in Timer
  <2>1. slot # 0 => slot - 1 \in Slot /\ slot - 1 < slot
    BY <1>1, ListSize DEF Slot
  <2>2. slot # 0 => timeouts[slot - 1] # NoTimer
    BY <2>1 DEF DeltaList, InsertLoop
  <2> QED
    BY <2>1, <2>2 DEF ListTypeOK
<1>5. due[u] \in Nat /\ due[setting] \in Nat /\ due[setting] < IntMod \div 2
  BY <1>1 DEF ListTypeOK, InRange
<1>6. slot # 0 => due[timeouts[slot - 1]] \in Nat
  BY <1>4 DEF ListTypeOK
<1>7. timeout[setting] - timeout[u] = due[setting] - due[u] /\ due[u] < due[setting]
  BY <1>2, <1>3, <1>5, <1>6 DEF Earlier, TimeAfter
<1>8. timeout'[setting] = due[setting] - due[u]
  <2>1. AsInt(due[setting] - due[u]) = due[setting] - due[u]
    BY <1>5, <1>7, AsIntInRange, HalfRange
  <2> QED
    BY <2>1, <1>1, <1>7 DEF ListTypeOK
<1>9. ListTypeOK'
  <2>1. slot + 1 \in 0 .. Slots
    BY <1>1, ListSize DEF Slot
  <2>2. AsInt(timeout[setting] - timeout[u]) \in Int
    BY <1>1, AsIntIsInt DEF ListTypeOK
  <2> QED
    BY <2>1, <2>2, <1>1 DEF ListTypeOK
<1>10. \A i \in Slot : timeouts[i] # NoTimer => timeout'[timeouts[i]] = timeout[timeouts[i]]
  BY <1>1 DEF ListTypeOK, DeltaList, OnceInList, IsSet, Inserting
<1>11. (OnceInList /\ Packed /\ Ordered /\ FiringIsFirst)'
  BY DEF DeltaList, OnceInList, Packed, Ordered, FiringIsFirst, Inserting, IsSet, First
<1>12. FieldsAreDeltas'
  BY <1>10 DEF DeltaList, FieldsAreDeltas
<1>13. InsertLoop'
  BY <1>1, <1>7, <1>8, <1>9 DEF DeltaList, InsertLoop, Occupied, ListTypeOK, Slot
<1>14. (InRange /\ NeverEarly)'
  BY DEF InRange, NeverEarly, Inserting
<1> QED
  BY <1>9, <1>11, <1>12, <1>13, <1>14 DEF DeltaList

\* The timer is put before one that is due later.
LEMMA InsertHereKeeps ==
  ASSUME NoOverflow, ListInv, InsertHere
  PROVE  ListInv'
<1> USE DEF ListInv, InsertHere, SetReturns
<1> DEFINE u == timeouts[slot]
<1>1. setting \in Timer /\ slot \in Slot /\ u \in Timer /\ u # setting
  BY DEF ListTypeOK, Inserting, Occupied, DeltaList, OnceInList, IsSet
<1>2. slot < Slots - 1
  BY <1>1, ListSize, TimerSets DEF Slot
<1>3. timeout[setting] = (IF slot = 0 THEN due[setting]
                          ELSE due[setting] - due[timeouts[slot - 1]])
  BY DEF DeltaList, InsertLoop
<1>4. timeout[u] = IF slot = 0 THEN due[u] ELSE due[u] - due[timeouts[slot - 1]]
  BY <1>1, TimerSets DEF DeltaList, FieldsAreDeltas, Occupied
<1>5. slot # 0 => slot - 1 \in Slot /\ timeouts[slot - 1] \in Timer
  <2>1. slot # 0 => slot - 1 \in Slot /\ slot - 1 < slot
    BY <1>1, ListSize DEF Slot
  <2>2. slot # 0 => timeouts[slot - 1] # NoTimer
    BY <2>1 DEF DeltaList, InsertLoop
  <2> QED
    BY <2>1, <2>2 DEF ListTypeOK
<1>6. due[u] \in Nat /\ due[setting] \in Nat /\ due[u] < IntMod \div 2
  BY <1>1 DEF ListTypeOK, InRange
<1>7. slot # 0 => due[timeouts[slot - 1]] \in Nat
  BY <1>5 DEF ListTypeOK
<1>8. timeout[u] - timeout[setting] = due[u] - due[setting] /\ due[setting] <= due[u]
  BY <1>3, <1>4, <1>6, <1>7 DEF Earlier, TimeAfter
<1>9. \A t \in Timer : timeout'[t] = IF t = u THEN due[u] - due[setting] ELSE timeout[t]
  <2>1. AsInt(due[u] - due[setting]) = due[u] - due[setting]
    BY <1>6, <1>8, AsIntInRange, HalfRange
  <2> QED
    BY <2>1, <1>1, <1>8 DEF ListTypeOK
<1>10. timeout' \in [Timer -> Int]
  BY <1>1, <1>8, AsIntIsInt DEF ListTypeOK
<1>11. \A i \in Slot : i - 1 \in Slot \/ i = 0
  BY ListSize DEF Slot
<1>12. \A i \in Slot : timeouts'[i] = IF i < slot THEN timeouts[i]
                                     ELSE IF i = slot THEN setting
                                     ELSE timeouts[i - 1]
  OBVIOUS
<1>13. ListTypeOK'
  <2>1. \A i \in Slot : timeouts'[i] \in Timer \cup {NoTimer}
    BY <1>1, <1>11, <1>12, ListSize DEF ListTypeOK, Slot
  <2>2. timeouts' \in [Slot -> Timer \cup {NoTimer}]
    BY <2>1
  <2> QED
    BY <1>10, <2>2, ListSize DEF ListTypeOK
<1>14. OnceInList'
  <2>1. \A i \in Slot : timeouts[i] # setting
    BY DEF DeltaList, OnceInList, IsSet
  <2> QED
    BY <2>1, <1>1, <1>11, <1>12, TimerSets DEF DeltaList, OnceInList, Inserting, Slot
<1>15. Packed'
  BY <1>1, <1>11, <1>12, TimerSets DEF DeltaList, Packed, Slot
<1>16. \A i, j \in Slot : timeouts[i] = timeouts[j] /\ timeouts[i] # NoTimer => i = j
  BY DEF DeltaList, OnceInList
<1>17. FieldsAreDeltas'
  <2> SUFFICES ASSUME NEW i \in Slot, timeouts'[i] # NoTimer
               PROVE  timeout'[timeouts'[i]] =
                        IF i = 0 THEN due[timeouts'[i]]
                        ELSE due[timeouts'[i]] - due[timeouts'[i - 1]]
    BY DEF FieldsAreDeltas
  <2>1. CASE i < slot
    <3>1. timeouts'[i] = timeouts[i] /\ (i # 0 => timeouts'[i - 1] = timeouts[i - 1])
      BY <2>1, <1>1, <1>11, <1>12 DEF Slot
    <3>2. timeouts[i] # u /\ timeouts[i] \in Timer
      <4>1. timeouts[i] # NoTimer /\ i # slot
        BY <2>1, <3>1, <1>1 DEF Slot
      <4>2. timeouts[i] # timeouts[slot]
        BY <4>1, <1>1, <1>16
      <4> QED
        BY <4>1, <4>2 DEF ListTypeOK
    <3> QED
      BY <3>1, <3>2, <1>9 DEF DeltaList, FieldsAreDeltas
  <2>2. CASE i = slot
    <3>1. timeouts'[i] = setting /\ (i # 0 => timeouts'[i - 1] = timeouts[i - 1])
      BY <2>2, <1>1, <1>11, <1>12 DEF Slot
    <3> QED
      BY <3>1, <2>2, <1>1, <1>3, <1>9
  <2>3. CASE i = slot + 1
    <3>1. timeouts'[i] = u /\ timeouts'[i - 1] = setting /\ i # 0
      BY <2>3, <1>1, <1>11, <1>12 DEF Slot
    <3> QED
      BY <3>1, <1>1, <1>9
  <2>4. CASE i > slot + 1
    <3>1. i - 1 \in Slot /\ i - 2 \in Slot /\ i - 1 # 0 /\ i - 1 # slot
      BY <2>4, <1>1, ListSize DEF Slot
    <3>2. timeouts'[i] = timeouts[i - 1] /\ timeouts'[i - 1] = timeouts[i - 2]
      BY <2>4, <3>1, <1>1, <1>12, ListSize DEF Slot
    <3>3. timeouts[i - 1] # u /\ timeouts[i - 1] \in Timer
      BY <3>1, <3>2, <1>1, <1>16, TimerSets DEF ListTypeOK
    <3>4. timeout[timeouts[i - 1]] = due[timeouts[i - 1]] - due[timeouts[i - 2]]
      BY <3>1, <3>2 DEF DeltaList, FieldsAreDeltas, Slot
    <3> QED
      BY <3>2, <3>3, <3>4, <1>9, <2>4, <1>1 DEF Slot
  <2> QED
    BY <2>1, <2>2, <2>3, <2>4, <1>1 DEF Slot
<1>18. \A i \in Slot : i < slot => timeouts[i] \in Timer /\ due[timeouts[i]] < due[setting]
  BY DEF DeltaList, InsertLoop, ListTypeOK
<1>19. \A i \in Slot : slot <= i /\ timeouts[i] # NoTimer =>
         timeouts[i] \in Timer /\ due[setting] <= due[timeouts[i]]
  <2> SUFFICES ASSUME NEW i \in Slot, slot <= i, timeouts[i] # NoTimer
               PROVE  timeouts[i] \in Timer /\ due[setting] <= due[timeouts[i]]
    OBVIOUS
  <2>1. timeouts[i] \in Timer /\ due[timeouts[i]] \in Nat
    BY DEF ListTypeOK
  <2>2. CASE i = slot
    BY <2>1, <2>2, <1>8
  <2>3. CASE i # slot
    <3>1. slot < i
      BY <2>3, <1>1 DEF Slot
    <3>2. due[u] <= due[timeouts[i]]
      BY <3>1, <1>1 DEF DeltaList, Ordered
    <3> QED
      BY <2>1, <3>2, <1>6, <1>8
  <2> QED
    BY <2>2, <2>3
<1>20. Ordered'
  <2> SUFFICES ASSUME NEW i \in Slot, NEW j \in Slot, i < j, timeouts'[j] # NoTimer
               PROVE  due[timeouts'[i]] <= due[timeouts'[j]]
    BY DEF Ordered
  <2>1. CASE j < slot
    BY <2>1, <1>1, <1>12 DEF DeltaList, Ordered, Slot
  <2>2. CASE j = slot
    <3>1. timeouts'[i] = timeouts[i] /\ timeouts'[j] = setting
      BY <2>2, <1>1, <1>12 DEF Slot
    <3> QED
      BY <3>1, <2>2, <1>6, <1>18 DEF ListTypeOK
  <2>3. CASE j > slot
    <3>1. j - 1 \in Slot /\ timeouts'[j] = timeouts[j - 1] /\ slot <= j - 1
      BY <2>3, <1>1, <1>11, <1>12 DEF Slot
    <3>2. timeouts[j - 1] \in Timer /\ due[setting] <= due[timeouts[j - 1]]
      BY <3>1, <1>19
    <3>3. CASE i < slot
      BY <3>1, <3>2, <3>3, <1>6, <1>12, <1>18 DEF ListTypeOK
    <3>4. CASE i = slot
      BY <3>1, <3>2, <3>4, <1>12 DEF Slot
    <3>5. CASE i > slot
      <4>1. i - 1 \in Slot /\ timeouts'[i] = timeouts[i - 1] /\ i - 1 < j - 1
        BY <3>5, <1>1, <1>11, <1>12 DEF Slot
      <4> QED
        BY <3>1, <4>1 DEF DeltaList, Ordered
    <3> QED
      BY <3>3, <3>4, <3>5, <1>1 DEF Slot
  <2> QED
    BY <2>1, <2>2, <2>3, <1>1 DEF Slot
<1>21. firing # NoTimer => slot # 0
  BY <1>1, <1>6, <1>19 DEF DeltaList, FiringIsFirst, First, InRange, NeverEarly, ListTypeOK
<1>22. (InsertLoop /\ FiringIsFirst)'
  BY <1>1, <1>12, <1>21, ListSize DEF DeltaList, InsertLoop, FiringIsFirst, First, Inserting, Slot
<1>23. (InRange /\ NeverEarly)'
  BY DEF InRange, NeverEarly, Inserting
<1> QED
  BY <1>13, <1>14, <1>15, <1>17, <1>20, <1>22, <1>23 DEF DeltaList

\* A timer that does not fit is left out.
LEMMA NoSpaceKeeps ==
  ASSUME NoOverflow, ListInv, NoSpace
  PROVE  ListInv'
<1> USE DEF ListInv, NoSpace, SetReturns
<1>1. setting \in Timer /\ \A i \in Slot : timeouts[i] # setting
  BY DEF ListTypeOK, Inserting, DeltaList, OnceInList, IsSet
<1>2. ListTypeOK'
  BY <1>1, ListSize DEF ListTypeOK
<1>3. \A i \in Slot : timeouts[i] # NoTimer => due'[timeouts[i]] = due[timeouts[i]]
  BY <1>1 DEF ListTypeOK
<1>4. (OnceInList /\ Packed /\ InsertLoop)'
  BY DEF DeltaList, OnceInList, Packed, InsertLoop, Inserting
<1>5. FieldsAreDeltas'
  BY <1>3, ListSize DEF DeltaList, FieldsAreDeltas, Packed, Slot
<1>6. Ordered'
  BY <1>3 DEF DeltaList, Ordered, Packed
<1>7. (FiringIsFirst /\ NeverEarly)'
  BY <1>3, ListSize DEF DeltaList, FiringIsFirst, NeverEarly, First, Slot
<1>8. InRange'
  BY <1>1, HalfRange, Widths DEF InRange, Inserting, ListTypeOK, NoOverflow
<1> QED
  BY <1>2, <1>4, <1>5, <1>6, <1>7, <1>8 DEF DeltaList

\* A timer is taken out of the list, and its field given to the next one.
LEMMA RemoveKeeps ==
  ASSUME NoOverflow, ListInv, ~Inserting, NEW t \in Timer, Remove(t),
         UNCHANGED <<now, setting, slot>>,
         firing' = NoTimer \/ (firing' = firing /\ t # firing)
  PROVE  ListInv'
<1> USE DEF ListInv
<1>1. PICK s \in Slot :
        /\ timeouts[s] = t
        /\ timeouts' = ShiftedLeft(s)
        /\ timeout' = IF s < Slots - 1 /\ timeouts[s + 1] # NoTimer
                      THEN [timeout EXCEPT ![timeouts[s + 1]] = AsInt(@ + timeout[t])]
                      ELSE timeout
  BY DEF Remove
<1>2. due' = [due EXCEPT ![t] = 0]
  BY DEF Remove
<1> DEFINE w == timeouts[s + 1]
<1> DEFINE more == s < Slots - 1 /\ w # NoTimer
<1>3. \A i, j \in Slot : timeouts[i] = timeouts[j] /\ timeouts[i] # NoTimer => i = j
  BY DEF DeltaList, OnceInList
<1>4. s < Slots - 1 => s + 1 \in Slot
  BY <1>1, ListSize DEF Slot
<1>5. more => w \in Timer /\ w # t
  BY <1>1, <1>3, <1>4, TimerSets DEF ListTypeOK, Slot
<1>6. t # NoTimer
  BY TimerSets
<1>7. \A i \in Slot : timeouts'[i] = IF i < s THEN timeouts[i]
                                    ELSE IF i < Slots - 1 THEN timeouts[i + 1] ELSE NoTimer
  BY <1>1 DEF ShiftedLeft
<1>8. \A i \in Slot : /\ i < Slots - 1 => i + 1 \in Slot
                     /\ (i - 1 \in Slot \/ i = 0)
  BY ListSize DEF Slot
<1>30. ASSUME NEW i \in Slot
       PROVE  \/ i < s /\ timeouts'[i] = timeouts[i]
              \/ i >= s /\ i + 1 \in Slot /\ timeouts'[i] = timeouts[i + 1]
              \/ i >= s /\ i = Slots - 1 /\ timeouts'[i] = NoTimer
  <2>1. i \in Int /\ s \in Int /\ i <= Slots - 1 /\ Slots \in Nat
    BY <1>1, ListSize DEF Slot
  <2>2. timeouts'[i] = IF i < s THEN timeouts[i]
                       ELSE IF i < Slots - 1 THEN timeouts[i + 1] ELSE NoTimer
    BY <1>7
  <2>3. i < Slots - 1 => i + 1 \in Slot
    BY <2>1, ListSize DEF Slot
  <2> HIDE DEF ListInv
  <2> QED
    BY ONLY <2>1, <2>2, <2>3
<1>9. timeouts' \in [Slot -> Timer \cup {NoTimer}]
  <2>1. \A i \in Slot : timeouts'[i] \in Timer \cup {NoTimer}
    BY <1>30 DEF ListTypeOK
  <2> QED
    BY <2>1, <1>1 DEF ShiftedLeft
<1>10. s # 0 => s - 1 \in Slot /\ timeouts[s - 1] \in Timer
  <2>1. s # 0 => s - 1 \in Slot /\ s - 1 < s
    BY <1>1, <1>8, ListSize DEF Slot
  <2>2. s # 0 => timeouts[s - 1] # NoTimer
    BY <2>1, <1>1, <1>6 DEF DeltaList, Packed
  <2> QED
    BY <2>1, <2>2 DEF ListTypeOK
<1>11. timeout[t] = IF s = 0 THEN due[t] ELSE due[t] - due[timeouts[s - 1]]
  BY <1>1, <1>6 DEF DeltaList, FieldsAreDeltas
<1>12. more => timeout[w] = due[w] - due[t]
  BY <1>1, <1>4 DEF DeltaList, FieldsAreDeltas, Slot
<1>13. due[t] \in Nat /\ (more => due[w] \in Nat /\ due[w] < IntMod \div 2)
  BY <1>5 DEF ListTypeOK, InRange
<1>14. s # 0 => due[timeouts[s - 1]] \in Nat
  BY <1>10 DEF ListTypeOK
<1>15. more => timeout[w] + timeout[t] =
                 IF s = 0 THEN due[w] ELSE due[w] - due[timeouts[s - 1]]
  BY <1>11, <1>12, <1>13, <1>14
<1>16. more /\ s # 0 => due[timeouts[s - 1]] <= due[w]
  BY <1>1, <1>4, <1>10 DEF DeltaList, Ordered, Slot
<1>17. more => AsInt(timeout[w] + timeout[t]) = timeout[w] + timeout[t]
  BY <1>13, <1>14, <1>15, <1>16, AsIntInRange, HalfRange
<1>18. more => timeout[w] + timeout[t] \in Int
  BY <1>5 DEF ListTypeOK
<1>19. \A v \in Timer : timeout'[v] = IF more /\ v = w THEN timeout[w] + timeout[t]
                                      ELSE timeout[v]
  BY <1>1, <1>5, <1>17 DEF ListTypeOK
<1>20. ListTypeOK'
  <2>1. timeout' \in [Timer -> Int]
    BY <1>1, <1>5, <1>17, <1>18 DEF ListTypeOK
  <2> QED
    BY <2>1, <1>2, <1>9, ListSize DEF ListTypeOK
<1>21. \A v \in Timer : v # t => due'[v] = due[v]
  BY <1>2 DEF ListTypeOK
<1>22. \A i \in Slot : timeouts'[i] # t
  <2> SUFFICES ASSUME NEW i \in Slot, timeouts'[i] = t PROVE FALSE
    OBVIOUS
  <2>1. i \in Int /\ s \in Int
    BY <1>1, ListSize DEF Slot
  <2>2. CASE i < s /\ timeouts'[i] = timeouts[i]
    BY <2>1, <2>2, <1>1, <1>3, <1>6
  <2>3. CASE i >= s /\ i + 1 \in Slot /\ timeouts'[i] = timeouts[i + 1]
    BY <2>1, <2>3, <1>1, <1>3, <1>6
  <2> QED
    BY <2>2, <2>3, <1>6, <1>30
<1>23. OnceInList'
  <2> SUFFICES ASSUME NEW i \in Slot, NEW j \in Slot, i # j, timeouts'[i] = timeouts'[j]
               PROVE  timeouts'[i] = NoTimer
    BY DEF OnceInList, Inserting
  <2>1. i \in Int /\ j \in Int /\ s \in Int
    BY <1>1, ListSize DEF Slot
  <2>2. \/ i < s /\ timeouts'[i] = timeouts[i]
        \/ i >= s /\ i + 1 \in Slot /\ timeouts'[i] = timeouts[i + 1]
        \/ timeouts'[i] = NoTimer
    BY <1>30
  <2>3. \/ j < s /\ timeouts'[j] = timeouts[j]
        \/ j >= s /\ j + 1 \in Slot /\ timeouts'[j] = timeouts[j + 1]
        \/ timeouts'[j] = NoTimer
    BY <1>30
  <2> QED
    BY <2>1, <2>2, <2>3, <1>3
<1>24. Packed'
  <2> SUFFICES ASSUME NEW i \in Slot, NEW j \in Slot, i < j, timeouts'[i] = NoTimer
               PROVE  timeouts'[j] = NoTimer
    BY DEF Packed
  <2>1. i \in Int /\ j \in Int /\ s \in Int /\ j <= Slots - 1 /\ Slots \in Nat
    BY <1>1, ListSize DEF Slot
  <2>2. \A k \in Slot : \A l \in Slot :
          k < l /\ timeouts[k] = NoTimer => timeouts[l] = NoTimer
    BY DEF DeltaList, Packed
  <2>3. CASE i < s /\ timeouts'[i] = timeouts[i]
    BY <2>1, <2>2, <2>3, <1>1, <1>6
  <2>4. CASE i >= s /\ i + 1 \in Slot /\ timeouts'[i] = timeouts[i + 1]
    <3>1. \/ j + 1 \in Slot /\ timeouts'[j] = timeouts[j + 1]
          \/ timeouts'[j] = NoTimer
      BY <2>1, <2>4, <1>30
    <3> QED
      BY <2>1, <2>2, <2>4, <3>1
  <2> QED
    BY <2>1, <2>3, <2>4, <1>30
<1>25. FieldsAreDeltas'
  <2> SUFFICES ASSUME NEW i \in Slot, timeouts'[i] # NoTimer
               PROVE  timeout'[timeouts'[i]] =
                        IF i = 0 THEN due'[timeouts'[i]]
                        ELSE due'[timeouts'[i]] - due'[timeouts'[i - 1]]
    BY DEF FieldsAreDeltas
  <2>1. timeouts'[i] \in Timer /\ due'[timeouts'[i]] = due[timeouts'[i]]
    BY <1>9, <1>21, <1>22
  <2>2. i # 0 => /\ i - 1 \in Slot /\ timeouts'[i - 1] \in Timer
                /\ due'[timeouts'[i - 1]] = due[timeouts'[i - 1]]
    BY <1>8, <1>9, <1>21, <1>22, <1>24 DEF Packed, Slot
  <2>3. CASE i < s
    <3>1. timeouts'[i] = timeouts[i] /\ (i # 0 => timeouts'[i - 1] = timeouts[i - 1])
      BY <2>2, <2>3, <1>1, <1>7 DEF Slot
    <3>2. ~(more /\ timeouts[i] = w)
      BY <2>3, <1>1, <1>3, <1>4 DEF Slot
    <3> QED
      BY <2>1, <2>2, <3>1, <3>2, <1>19 DEF DeltaList, FieldsAreDeltas
  <2>4. CASE i = s
    <3>1. more /\ timeouts'[i] = w /\ (i # 0 => timeouts'[i - 1] = timeouts[s - 1])
      BY <2>2, <2>4, <1>1, <1>7, ListSize DEF Slot
    <3> QED
      BY <2>1, <2>2, <2>4, <3>1, <1>15, <1>19
  <2>5. CASE i > s
    <3>1. /\ i + 1 \in Slot /\ timeouts'[i] = timeouts[i + 1]
          /\ timeouts'[i - 1] = timeouts[i] /\ i # 0
      BY <2>2, <2>5, <1>1, <1>7, <1>8, ListSize DEF Slot
    <3>2. ~(more /\ timeouts[i + 1] = w)
      BY <2>5, <3>1, <1>1, <1>3, <1>4 DEF Slot
    <3>3. timeout[timeouts[i + 1]] = due[timeouts[i + 1]] - due[timeouts[i]]
      BY <3>1 DEF DeltaList, FieldsAreDeltas, Slot
    <3> QED
      BY <2>1, <2>2, <3>1, <3>2, <3>3, <1>19
  <2> QED
    BY <2>3, <2>4, <2>5, <1>1 DEF Slot
<1>26. Ordered'
  <2> SUFFICES ASSUME NEW i \in Slot, NEW j \in Slot, i < j, timeouts'[j] # NoTimer
               PROVE  due'[timeouts'[i]] <= due'[timeouts'[j]]
    BY DEF Ordered
  <2>1. timeouts'[i] \in Timer /\ timeouts'[j] \in Timer
    BY <1>9, <1>24 DEF Packed
  <2>2. due[timeouts'[i]] <= due[timeouts'[j]]
    <3>1. CASE j < s
      BY <3>1, <1>1, <1>7 DEF DeltaList, Ordered, Slot
    <3>2. CASE j >= s
      <4>1. j + 1 \in Slot /\ timeouts'[j] = timeouts[j + 1]
        BY <3>2, <1>1, <1>7, <1>8, ListSize DEF Slot
      <4>2. \/ i < s /\ timeouts'[i] = timeouts[i]
            \/ i >= s /\ i + 1 \in Slot /\ timeouts'[i] = timeouts[i + 1]
        BY <1>1, <1>7, <1>8, ListSize DEF Slot
      <4> QED
        BY <4>1, <4>2, <1>1 DEF DeltaList, Ordered, Slot
    <3> QED
      BY <3>1, <3>2, <1>1 DEF Slot
  <2> QED
    BY <2>1, <2>2, <1>21, <1>22
<1>27. (InsertLoop /\ OnceInList)'
  BY <1>23 DEF InsertLoop, Inserting
<1>28. (FiringIsFirst /\ NeverEarly)'
  <2>1. CASE firing' = NoTimer
    BY <2>1 DEF FiringIsFirst, NeverEarly
  <2>2. CASE firing' # NoTimer
    <3>1. First = firing /\ firing' = firing /\ t # firing /\ firing \in Timer
      BY <2>2 DEF DeltaList, FiringIsFirst, ListTypeOK
    <3>2. 0 \in Slot /\ s # 0
      BY <3>1, <1>1, ListSize DEF First, Slot
    <3> QED
      BY <3>1, <3>2, <1>1, <1>7, <1>21 DEF First, FiringIsFirst, NeverEarly, Slot
  <2> QED
    BY <2>1, <2>2
<1>29. InRange'
  BY <1>2, HalfRange, Widths DEF InRange, Inserting, ListTypeOK, NoOverflow
<1> QED
  BY <1>20, <1>24, <1>25, <1>26, <1>27, <1>28, <1>29 DEF DeltaList

\* The first timer is due when it is found expired.
LEMMA TriggerKeeps ==
  ASSUME NoOverflow, ListInv, Trigger
  PROVE  ListInv'
<1> USE DEF ListInv, Trigger
<1>1. First \in Timer /\ First # NoTimer
  BY ListSize, TimerSets DEF Expired, HostTimeout, First, ListTypeOK, Slot
<1>2. timeout[First] = due[First]
  BY <1>1, ListSize DEF DeltaList, FieldsAreDeltas, First, Slot
<1>3. due[First] <= now
  <2>1. Clock = now /\ due[First] \in Nat
    BY <1>1, ClockIsTime DEF ListTypeOK, InRange
  <2> QED
    BY <2>1, <1>2 DEF Expired, HostTimeout, TimeAfter, ListTypeOK
<1>4. ListTypeOK'
  BY <1>1 DEF ListTypeOK
<1>5. DeltaList'
  BY DEF DeltaList, OnceInList, Packed, FieldsAreDeltas, Ordered, InsertLoop,
         FiringIsFirst, Inserting, IsSet, First
<1>6. (InRange /\ NeverEarly)'
  BY <1>3 DEF InRange, NeverEarly, Inserting
<1> QED
  BY <1>4, <1>5, <1>6

\* Time passes.
LEMMA TickKeeps ==
  ASSUME NoOverflow, ListInv, Tick
  PROVE  ListInv'
<1> USE DEF ListInv, Tick
<1>1. ListTypeOK'
  BY DEF ListTypeOK
<1>2. DeltaList'
  BY DEF DeltaList, OnceInList, Packed, FieldsAreDeltas, Ordered, InsertLoop,
         FiringIsFirst, Inserting, IsSet, First
<1>3. (InRange /\ NeverEarly)'
  BY Widths DEF InRange, NeverEarly, Inserting, ListTypeOK
<1> QED
  BY <1>1, <1>2, <1>3

\* Every step of the clients, of the clock and of dfu_idle() preserves it.
LEMMA IInvNext == ASSUME NoOverflow, ListInv, [ListNext]_listVars PROVE ListInv'
<1>1. ASSUME NEW t \in Timer, CancelTimeout(t) PROVE ListInv'
  BY <1>1, RemoveKeeps DEF CancelTimeout
<1>2. CASE CallbackReturns
  <2>1. firing \in Timer
    BY <1>2 DEF CallbackReturns, ListInv, ListTypeOK
  <2> QED
    BY <1>2, <2>1, RemoveKeeps DEF CallbackReturns
<1>3. CASE UNCHANGED listVars
  BY <1>3 DEF listVars, ListInv, ListTypeOK, DeltaList, OnceInList, Packed, FieldsAreDeltas, Ordered,
              InsertLoop, FiringIsFirst, Inserting, IsSet, First, InRange, NeverEarly
<1> QED
  BY <1>1, <1>2, <1>3, SetTimeoutKeeps, InsertLastKeeps, InsertGoOnKeeps, InsertHereKeeps,
     NoSpaceKeeps, TriggerKeeps, TickKeeps DEF ListNext

-----------------------------------------------------------------------------
(* Deltas and deadlines *)

\* The inductive invariant always holds.
LEMMA IInvAlways == ASSUME NoOverflow PROVE ListSpec => []ListInv
<1>1. ListInit => ListInv
  BY IInvInit
<1>2. ListInv /\ [ListNext]_listVars => ListInv'
  BY IInvNext
<1> QED
  BY <1>1, <1>2, PTL DEF ListSpec

\* The list is what _insert_timeout() and _remove_timeout() need it to be, for
\* any timers, delays and number of slots, as long as no deadline overflows.
THEOREM ListIsDeltas == ASSUME NoOverflow PROVE ListSpec => []DeltaList
<1>1. ListInv => DeltaList
  BY DEF ListInv
<1> QED
  BY <1>1, IInvAlways, PTL

\* No timer fires before its delay is over, in either branch of dfu_idle().
THEOREM NoTimerEarly == ASSUME NoOverflow PROVE ListSpec => []NeverEarly
<1>1. ListInv => NeverEarly
  BY DEF ListInv
<1> QED
  BY <1>1, IInvAlways, PTL

\* dfu_idle() finds the first timer expired once its delay is over.
THEOREM NoTimerLate == ASSUME NoOverflow PROVE ListSpec => []NeverLate
<1>1. ListInv => NeverLate
  <2> SUFFICES ASSUME ListInv, First # NoTimer, due[First] < now PROVE Expired
    BY DEF NeverLate
  <2>1. First \in Timer /\ timeout[First] = due[First]
    BY ListSize DEF ListInv, ListTypeOK, DeltaList, FieldsAreDeltas, First, Slot
  <2>2. Clock = now
    BY ClockIsTime DEF ListInv, ListTypeOK, InRange
  <2> QED
    BY <2>1, <2>2 DEF Expired, TimeAfter, ListInv, ListTypeOK
<1> QED
  BY <1>1, IInvAlways, PTL

-----------------------------------------------------------------------------
(* The list implements a set of deadlines *)

Deadlines == [t \in Timer |-> IF IsSet(t) THEN due[t] ELSE Never]

\* While the last slot is empty another timer can be armed: the others are
\* all in the slots before it.
LEMMA RoomLeft ==
  ASSUME ListInv, timeouts[Slots - 1] = NoTimer
  PROVE  Promise!Room
<1> DEFINE place == [t \in Promise!Armed |-> 1 + CHOOSE i \in Slot : timeouts[i] = t]
<1>1. ASSUME NEW t \in Promise!Armed
      PROVE  \E i \in Slot : timeouts[i] = t /\ place[t] = 1 + i /\ i < Slots - 1
  <2>1. t \in Timer /\ \E i \in Slot : timeouts[i] = t
    BY DEF Promise!Armed, IsSet
  <2>2. PICK i \in Slot : timeouts[i] = t /\ place[t] = 1 + i
    BY <2>1
  <2>3. i # Slots - 1
    BY <2>1, <2>2, TimerSets
  <2>4. i < Slots - 1
    BY <2>2, <2>3, ListSize DEF Slot
  <2> HIDE DEF place
  <2> QED
    BY <2>2, <2>4
<1> HIDE DEF place
<1>2. place \in [Promise!Armed -> 1 .. Slots - 1]
  <2>1. \A t \in Promise!Armed : place[t] \in 1 .. Slots - 1
    BY <1>1, ListSize DEF Slot
  <2> QED
    BY <2>1 DEF place
<1>3. \A t, u \in Promise!Armed : t # u => place[t] # place[u]
  BY <1>1, ListSize DEF Slot
<1> QED
  BY <1>2, <1>3 DEF Promise!Room

\* The end of _insert_timeout() arms the timer.
LEMMA InsertionArms ==
  ASSUME ListInv, Inserting, timeouts[Slots - 1] = NoTimer,
         \A t \in Timer : IsSet(t)' <=> IsSet(t) \/ t = setting,
         UNCHANGED <<now, firing, due>>
  PROVE  \E t \in Timer, d \in Delay : Promise!Arm(t, d)
<1>1. setting \in Timer /\ ~IsSet(setting)
  BY DEF ListInv, ListTypeOK, DeltaList, OnceInList, Inserting
<1>2. PICK d \in Delay : due[setting] = now + d
  BY DEF ListInv, InRange
<1>3. Deadlines' = [Deadlines EXCEPT ![setting] = now + d]
  BY <1>1, <1>2 DEF Deadlines
<1>4. Promise!Arm(setting, d)
  <2>1. Deadlines[setting] = Never
    BY <1>1 DEF Deadlines
  <2>2. Promise!Room
    BY RoomLeft
  <2> QED
    BY <1>3, <2>1, <2>2 DEF Promise!Arm, Deadlines
<1> QED
  BY <1>1, <1>4

\* Removing a timer leaves the others set.
LEMMA RemovalDisarms ==
  ASSUME ListInv, NEW t \in Timer, Remove(t)
  PROVE  IsSet(t) /\ Deadlines' = [Deadlines EXCEPT ![t] = Never]
<1>1. PICK s \in Slot : timeouts[s] = t /\ timeouts' = ShiftedLeft(s)
  BY DEF Remove
<1>2. due' = [due EXCEPT ![t] = 0]
  BY DEF Remove
<1>3. \A i, j \in Slot : timeouts[i] = timeouts[j] /\ timeouts[i] # NoTimer => i = j
  BY DEF ListInv, DeltaList, OnceInList
<1>4. ASSUME NEW i \in Slot
      PROVE  \/ i < s /\ timeouts'[i] = timeouts[i]
             \/ i >= s /\ i + 1 \in Slot /\ timeouts'[i] = timeouts[i + 1]
             \/ timeouts'[i] = NoTimer
  <2>1. i \in Int /\ s \in Int /\ i <= Slots - 1 /\ Slots \in Nat
    BY <1>1, ListSize DEF Slot
  <2>2. timeouts'[i] = IF i < s THEN timeouts[i]
                       ELSE IF i < Slots - 1 THEN timeouts[i + 1] ELSE NoTimer
    BY <1>1 DEF ShiftedLeft
  <2>3. i < Slots - 1 => i + 1 \in Slot
    BY <2>1, ListSize DEF Slot
  <2> QED
    BY ONLY <2>1, <2>2, <2>3
<1>5. ASSUME NEW u \in Timer, u # t, IsSet(u) PROVE IsSet(u)'
  <2>1. PICK i \in Slot : timeouts[i] = u
    BY <1>5 DEF IsSet
  <2>2. i \in Int /\ s \in Int /\ i # s /\ Slots \in Nat
    BY <1>1, <1>5, <2>1, ListSize DEF Slot
  <2>3. CASE i < s
    BY <2>1, <2>3, <1>1 DEF IsSet, ShiftedLeft
  <2>4. CASE i > s
    <3>1. i - 1 \in Slot /\ i - 1 >= s /\ i - 1 < Slots - 1 /\ (i - 1) + 1 = i
      BY <2>2, <2>4, <1>1, ListSize DEF Slot
    <3>2. timeouts'[i - 1] = timeouts[i]
      BY <2>2, <3>1, <1>1 DEF ShiftedLeft
    <3> QED
      BY <2>1, <3>1, <3>2 DEF IsSet
  <2> QED
    BY <2>2, <2>3, <2>4
<1>6. ASSUME NEW u \in Timer, IsSet(u)' PROVE IsSet(u) /\ u # t
  <2>1. PICK i \in Slot : timeouts'[i] = u
    BY <1>6 DEF IsSet
  <2>2. u # NoTimer /\ i \in Int /\ s \in Int
    BY <1>1, ListSize, TimerSets DEF Slot
  <2>3. CASE i < s /\ timeouts'[i] = timeouts[i]
    BY <2>1, <2>2, <2>3, <1>1, <1>3 DEF IsSet
  <2>4. CASE i >= s /\ i + 1 \in Slot /\ timeouts'[i] = timeouts[i + 1]
    BY <2>1, <2>2, <2>4, <1>1, <1>3 DEF IsSet
  <2> QED
    BY <2>1, <2>2, <2>3, <2>4, <1>4
<1>7. IsSet(t)
  BY <1>1 DEF IsSet
<1>8. \A u \in Timer : u # t => due'[u] = due[u]
  BY <1>2 DEF ListInv, ListTypeOK
<1> QED
  BY <1>5, <1>6, <1>7, <1>8 DEF Deadlines

\* Every step of the list is a step of the timers or changes nothing there.
LEMMA StepImplements ==
  ASSUME NoOverflow, ListInv, [ListNext]_listVars
  PROVE  Promise!TimersNext \/ UNCHANGED <<now, Deadlines, firing>>
<1>1. CASE Tick
  BY <1>1 DEF Tick, Promise!TimersNext, Promise!Pass, IsSet, Deadlines
<1>2. ASSUME NEW t \in Timer, NEW d \in Delay, SetTimeout(t, d)
      PROVE  UNCHANGED <<now, Deadlines, firing>>
  <2>1. \A u \in Timer : IsSet(u) => u # t /\ due'[u] = due[u]
    BY <1>2 DEF SetTimeout, ListInv, ListTypeOK
  <2> QED
    BY <1>2, <2>1 DEF SetTimeout, Deadlines, IsSet
<1>3. CASE InsertLast
  <2>1. timeouts[Slots - 1] = NoTimer
    BY <1>3, ListSize DEF InsertLast, ListInv, DeltaList, Packed, Slot
  <2>2. \A t \in Timer : IsSet(t)' <=> IsSet(t) \/ t = setting
    BY <1>3, TimerSets DEF InsertLast, IsSet, ListInv, ListTypeOK
  <2> QED
    BY <1>3, <2>1, <2>2, InsertionArms DEF InsertLast, SetReturns, Promise!TimersNext
<1>4. CASE InsertGoOn
  BY <1>4 DEF InsertGoOn, Deadlines, IsSet
<1>5. CASE InsertHere
  <2>1. \A i \in Slot : timeouts'[i] = IF i < slot THEN timeouts[i]
                                      ELSE IF i = slot THEN setting ELSE timeouts[i - 1]
    BY <1>5 DEF InsertHere
  <2>2. slot \in Slot /\ timeouts[Slots - 1] = NoTimer
    BY <1>5 DEF InsertHere, Occupied
  <2>3. ASSUME NEW t \in Timer, IsSet(t) \/ t = setting PROVE IsSet(t)'
    <3>1. CASE t = setting
      BY <3>1, <2>1, <2>2, ListSize DEF IsSet, Slot
    <3>2. ASSUME NEW i \in Slot, timeouts[i] = t PROVE IsSet(t)'
      <4>1. i + 1 \in Slot /\ (i + 1) - 1 = i /\ i \in Int /\ slot \in Int
        BY <2>2, <3>2, ListSize, TimerSets DEF Slot
      <4>2. timeouts'[i] = t \/ timeouts'[i + 1] = t
        BY <2>1, <3>2, <4>1
      <4> QED
        BY <4>1, <4>2 DEF IsSet
    <3> QED
      BY <2>3, <3>1, <3>2 DEF IsSet
  <2>4. ASSUME NEW t \in Timer, IsSet(t)' PROVE IsSet(t) \/ t = setting
    <3>1. PICK i \in Slot : timeouts'[i] = t
      BY <2>4 DEF IsSet
    <3>2. i < slot \/ i = slot \/ i - 1 \in Slot
      BY <2>2, ListSize DEF Slot
    <3> QED
      BY <2>1, <3>1, <3>2 DEF IsSet
  <2> QED
    BY <1>5, <2>2, <2>3, <2>4, InsertionArms DEF InsertHere, SetReturns, Promise!TimersNext
<1>6. CASE NoSpace
  <2>1. \A u \in Timer : IsSet(u) => due'[u] = due[u]
    BY <1>6 DEF NoSpace, ListInv, ListTypeOK, DeltaList, OnceInList
  <2> QED
    BY <1>6, <2>1 DEF NoSpace, SetReturns, Deadlines, IsSet
<1>7. ASSUME NEW t \in Timer, CancelTimeout(t) PROVE Promise!Disarm(t)
  <2>1. IsSet(t) /\ Deadlines' = [Deadlines EXCEPT ![t] = Never]
    BY <1>7, RemovalDisarms DEF CancelTimeout
  <2>2. t \in Promise!Armed
    BY <2>1, TimerSets DEF Promise!Armed, ListInv, ListTypeOK
  <2> QED
    BY <1>7, <2>1, <2>2 DEF CancelTimeout, Promise!Disarm, Deadlines
<1>8. CASE Trigger
  <2>1. First \in Timer /\ IsSet(First)
    BY <1>8, ListSize, TimerSets DEF Trigger, Expired, HostTimeout, First, IsSet, ListInv, ListTypeOK, Slot
  <2>2. due[First] <= now
    <3>1. ListInv'
      BY <1>8, TriggerKeeps
    <3> QED
      BY <1>8, <3>1, <2>1, TimerSets DEF ListInv, NeverEarly, Trigger
  <2>3. \A u \in Timer : IsSet(u) => due[First] <= due[u]
    <3> SUFFICES ASSUME NEW u \in Timer, NEW i \in Slot, timeouts[i] = u
                 PROVE  due[First] <= due[u]
      BY DEF IsSet
    <3> QED
      BY <2>1, ListSize, TimerSets DEF ListInv, DeltaList, Ordered, First, Slot, ListTypeOK
  <2>4. First \in Promise!Armed
    BY <2>1, TimerSets DEF Promise!Armed, ListInv, ListTypeOK
  <2>5. Promise!Fire(First)
    BY <1>8, <2>1, <2>2, <2>3, <2>4 DEF Trigger, Promise!Fire, Promise!Armed, IsSet
  <2> QED
    BY <2>1, <2>5 DEF Promise!TimersNext
<1>9. CASE CallbackReturns
  <2>1. firing \in Timer
    BY <1>9 DEF CallbackReturns, ListInv, ListTypeOK
  <2>2. Deadlines' = [Deadlines EXCEPT ![firing] = Never]
    BY <1>9, <2>1, RemovalDisarms DEF CallbackReturns
  <2>3. Promise!Fired
    BY <1>9, <2>2 DEF CallbackReturns, Promise!Fired, Deadlines
  <2> QED
    BY <2>3 DEF Promise!TimersNext
<1>10. CASE UNCHANGED listVars
  BY <1>10 DEF listVars, Deadlines, IsSet
<1> QED
  BY <1>1, <1>2, <1>3, <1>4, <1>5, <1>6, <1>7, <1>8, <1>9, <1>10
  DEF ListNext, Promise!TimersNext

\* The list of differences behaves like a set of deadlines: a timer fires when
\* and only when a timer with that deadline would, in the order of deadlines.
THEOREM ListImplementsTimers == ASSUME NoOverflow PROVE ListSpec => ImplementsTimers
<1>1. ListInit => Promise!TimersInit
  BY TimerSets DEF ListInit, Promise!TimersInit, IsSet
<1>2. ListInv /\ [ListNext]_listVars => Promise!TimersNext \/ UNCHANGED <<now, Deadlines, firing>>
  BY StepImplements
<1> QED
  BY <1>1, <1>2, IInvAlways, PTL DEF ListSpec, ImplementsTimers, Promise!TimersSpec, Deadlines

-----------------------------------------------------------------------------
(* The command engine                                                      *)

\* The commands the engine keeps its promises for: an exchange, which does not
\* wait, has no timeout.
ExchangesUntimed ==
  \A s \in Scripts : \A i \in DOMAIN s : s[i].dir = "OUT_IN" => ~s[i].timed

Kinds ==
  /\ script \in Scripts /\ status \in Statuses
  /\ index \in Nat /\ busy \in BOOLEAN
  /\ started \in Nat /\ reported \in Nat /\ armed \in Nat

\* What the status of a command says of the buffer it is at.
StatusFitsBuffer ==
  /\ status \in {"waiting", "ready"} => Buf.dir \in {"IN", "NONE"}
  /\ status = "retrying" => Buf.dir = "OUT"

\* The inductive invariant.
IInv ==
  /\ Kinds /\ StatusFitsBuffer
  /\ ReportedOnce /\ TimerWhileWaiting /\ InsideScript

-----------------------------------------------------------------------------
(* Scripts and their buffers *)

\* A buffer of a script.
LEMMA BufferOfScript ==
  ASSUME NEW s \in Scripts, NEW i \in DOMAIN s, ExchangesUntimed
  PROVE  /\ s[i] \in Buffers
         /\ i \in 1 .. Len(s) /\ Len(s) \in Nat
         /\ s[i].dir \in {"OUT", "OUT_IN"} => ~s[i].timed
         /\ s[i].retry # 0 =>
              /\ s[i].dir = "OUT_IN"
              /\ s[i].retry \in DOMAIN s /\ s[i].retry \in Nat
              /\ s[s[i].retry].dir = "OUT"
<1>1. s \in Seq(Buffers)
  BY ScriptsOK
<1>2. DOMAIN s = 1 .. Len(s) /\ Len(s) \in Nat /\ s[i] \in Buffers
  BY <1>1
<1>3. /\ s[i].dir = "OUT" => ~s[i].timed
      /\ s[i].retry # 0 =>
           /\ s[i].dir = "OUT_IN" /\ s[i].retry \in 1 .. i - 1
           /\ s[s[i].retry].dir = "OUT"
  BY ScriptsOK
<1>4. s[i].retry # 0 => s[i].retry \in DOMAIN s /\ s[i].retry \in Nat
  BY <1>2, <1>3
<1>5. s[i].dir = "OUT_IN" => ~s[i].timed
  BY DEF ExchangesUntimed
<1> QED
  BY <1>2, <1>3, <1>4, <1>5

\* A script has a first buffer, which sends.
LEMMA FirstBuffer ==
  ASSUME NEW s \in Scripts
  PROVE  1 \in DOMAIN s /\ s[1].dir = "OUT"
<1>1. s \in Seq(Buffers) /\ Len(s) > 0 /\ s[1].dir = "OUT"
  BY ScriptsOK
<1> QED
  BY <1>1

-----------------------------------------------------------------------------
(* Every step preserves the invariant *)

\* The end of a command that runs.
LEMMA EndPreserves ==
  ASSUME IInv, busy, NEW s \in Over, CmdEnd(s), armed' = 0,
         UNCHANGED <<script, started>>, index' \in Nat
  PROVE  IInv'
<1>1. status' = s /\ s \in Over /\ reported' = reported + 1 /\ busy' = FALSE
  BY DEF CmdEnd
<1>6. status' \in Statuses /\ script' \in Scripts
  BY <1>1 DEF IInv, Kinds, Over, Statuses
<1>7. /\ reported \in Nat /\ started \in Nat
      /\ reported' = reported + 1 /\ started' = started
  BY <1>1 DEF IInv, Kinds
<1>8. reported' \in Nat /\ started' \in Nat
  BY <1>7
<1>2. Kinds'
  BY <1>1, <1>6, <1>8 DEF Kinds
<1>5. StatusFitsBuffer' /\ InsideScript' /\ TimerWhileWaiting'
  BY <1>1 DEF StatusFitsBuffer, InsideScript, TimerWhileWaiting, Over
<1>3. reported + 1 = started /\ started' = started /\ reported \in Nat
  BY DEF IInv, Kinds, ReportedOnce
<1>4. ReportedOnce'
  BY <1>1, <1>3 DEF ReportedOnce
<1> QED
  BY <1>2, <1>4, <1>5 DEF IInv

\* The next buffer of a command that runs.
LEMMA AdvancePreserves ==
  ASSUME IInv, busy, ExchangesUntimed, index \in DOMAIN script,
         NEW i \in Nat, NEW s \in {"initialized", "retrying"}, Advance(i, s),
         \/ i = index + 1 /\ s = "initialized"
         \/ i \in DOMAIN script /\ script[i].dir = "OUT",
         armed' = 0, UNCHANGED <<script, started>>
  PROVE  IInv'
<1>1. index \in 1 .. Len(script) /\ Len(script) \in Nat /\ script \in Scripts
  BY BufferOfScript DEF IInv, Kinds
<1>2. DOMAIN script = 1 .. Len(script)
  BY <1>1, ScriptsOK
<1>3. CASE i > Len(script) /\ s # "retrying"
  <2>1. CmdEnd("ok") /\ index' = i
    BY <1>3 DEF Advance
  <2> QED
    BY <2>1, EndPreserves DEF Over
<1>4. CASE ~(i > Len(script) /\ s # "retrying")
  <2>1. index' = i /\ status' = s /\ UNCHANGED <<reported, busy>>
    BY <1>4 DEF Advance
  <2>2. i \in DOMAIN script
    BY <1>1, <1>2, <1>4
  <2>3. s = "retrying" => script[i].dir = "OUT"
    BY <2>2
  <2> QED
    BY <2>1, <2>2, <2>3, <1>1
    DEF IInv, Kinds, StatusFitsBuffer, ReportedOnce, TimerWhileWaiting, InsideScript,
        Statuses, Over, Buf
<1> QED
  BY <1>3, <1>4

\* A buffer that can run: what its status says of the timer.
LEMMA RunnableBuffer ==
  ASSUME IInv, Runnable, ExchangesUntimed
  PROVE  /\ busy /\ index \in DOMAIN script /\ script \in Scripts
         /\ Buf.dir \in {"OUT", "OUT_IN"} => Entries = 0 /\ status # "ready"
         /\ Buf.dir \in {"IN", "NONE"} => status # "retrying"
         /\ Buf.dir \in {"IN", "NONE"} /\ Buf.timed => Entries = 1
         /\ Buf.dir \in {"IN", "NONE"} /\ ~Buf.timed => armed = 0 /\ Entries = 0
<1>1. script \in Scripts /\ index \in DOMAIN script
  BY DEF IInv, Kinds, Runnable
<1>2. Buf.dir \in {"OUT", "OUT_IN"} => ~Buf.timed
  BY <1>1, BufferOfScript DEF Buf
<1> QED
  BY <1>1, <1>2
  DEF IInv, Kinds, StatusFitsBuffer, ReportedOnce, TimerWhileWaiting, Runnable, Entries, Over

\* The end of a buffer, its timer being in the list if it waited.
LEMMA NextBufPreserves ==
  ASSUME IInv, busy, ExchangesUntimed, index \in DOMAIN script,
         NEW ok \in BOOLEAN, NEW entries \in Nat, NextBuf(ok, entries),
         Buf.dir = "OUT_IN" => status \in {"initialized", "retrying"},
         \/ Buf.dir = "IN" /\ Buf.timed /\ entries = 1
         \/ entries = 0,
         UNCHANGED <<script, started>>
  PROVE  IInv'
<1>1. /\ script \in Scripts /\ index \in Nat
      /\ status = "retrying" => Buf.dir = "OUT"
  BY DEF IInv, Kinds, StatusFitsBuffer
<1>2. Buf.retry # 0 =>
           /\ Buf.dir = "OUT_IN" /\ Buf.retry \in DOMAIN script
           /\ Buf.retry \in Nat /\ script[Buf.retry].dir = "OUT"
  BY <1>1, BufferOfScript DEF Buf
<1>3. CASE Buf.retry # 0
  <2>1. armed' = 0
    BY <1>2, <1>3 DEF NextBuf
  <2>2. CASE ok
    <3>1. status = "initialized" /\ Advance(index + 1, "initialized")
      BY <1>1, <1>2, <1>3, <2>2 DEF NextBuf
    <3> QED
      BY <3>1, <2>1, <1>1, AdvancePreserves
  <2>3. CASE ~ok
    <3>1. Advance(Buf.retry, "retrying")
      BY <1>3, <2>3 DEF NextBuf
    <3> QED
      BY <3>1, <2>1, <1>2, <1>3, AdvancePreserves
  <2> QED
    BY <2>2, <2>3
<1>4. CASE Buf.retry = 0
  <2>1. armed' = 0
    BY <1>2, <1>4 DEF NextBuf
  <2>2. CASE ok
    <3>1. Advance(index + 1, "initialized")
      BY <1>4, <2>2 DEF NextBuf
    <3> QED
      BY <3>1, <2>1, <1>1, AdvancePreserves
  <2>3. CASE ~ok
    <3>1. CmdEnd("error") /\ index' = index
      BY <1>4, <2>3 DEF NextBuf
    <3> QED
      BY <3>1, <2>1, <1>1, EndPreserves DEF Over
  <2> QED
    BY <2>2, <2>3
<1> QED
  BY <1>3, <1>4

\* A buffer that waits.
LEMMA WaitPreserves ==
  ASSUME IInv, Runnable, Buf.dir \in {"IN", "NONE"},
         status' = "waiting", armed' = IF Buf.timed THEN 1 ELSE 0,
         UNCHANGED <<index, busy, reported, script, started>>
  PROVE  IInv'
BY DEF IInv, Kinds, StatusFitsBuffer, ReportedOnce, TimerWhileWaiting, InsideScript,
       Runnable, Statuses, Over, Buf

\* Every action preserves the invariant.
LEMMA StepPreserves ==
  ASSUME IInv, ExchangesUntimed, [Next]_vars
  PROVE  IInv'
<1>1. ASSUME NEW s \in Scripts, NEW wait \in BOOLEAN, Start(s, wait) PROVE IInv'
  <2>1. s[1].dir = "OUT" /\ 1 \in DOMAIN s
    BY FirstBuffer
  <2> QED
    BY <1>1, <2>1
    DEF Start, IInv, Kinds, StatusFitsBuffer, ReportedOnce, TimerWhileWaiting,
        InsideScript, Statuses, Over, Buf
<1>2. CASE SyncReturns \/ LoopFails \/ Answer
  BY <1>2 DEF SyncReturns, LoopFails, Answer, state, caller, IInv, Kinds, StatusFitsBuffer,
     ReportedOnce, TimerWhileWaiting, InsideScript, Buf
<1>3. CASE RunOut
  <2>1. /\ Runnable /\ Buf.dir = "OUT"
        /\ UNCHANGED <<script, started>>
        /\ \/ NextBuf(TRUE, Entries)
           \/ CmdEnd("error") /\ armed' = Entries /\ index' = index
    BY <1>3 DEF RunOut, BackInLoop
  <2>2. busy /\ index \in DOMAIN script /\ Entries = 0 /\ index \in Nat
    BY <2>1, RunnableBuffer DEF IInv, Kinds
  <2>3. CASE NextBuf(TRUE, Entries)
    BY ONLY IInv, ExchangesUntimed, <2>1, <2>2, <2>3, NextBufPreserves
  <2>4. CASE CmdEnd("error") /\ armed' = Entries /\ index' = index
    BY <2>1, <2>2, <2>4, EndPreserves DEF Over
  <2> QED
    BY <2>1, <2>3, <2>4
<1>4. CASE RunIn
  <2>1. /\ Runnable /\ Buf.dir = "IN" /\ Buf.timed
        /\ UNCHANGED <<script, started>>
        /\ \/ \E ok \in BOOLEAN : NextBuf(ok, Entries)
           \/ /\ status' = "waiting" /\ armed' = Entries
              /\ UNCHANGED <<index, busy, reported>>
    BY <1>4 DEF RunIn, BackInLoop
  <2>2. busy /\ index \in DOMAIN script /\ Entries = 1
    BY <2>1, RunnableBuffer
  <2>3. ASSUME NEW ok \in BOOLEAN, NextBuf(ok, Entries) PROVE IInv'
    BY ONLY IInv, ExchangesUntimed, <2>1, <2>2, <2>3, NextBufPreserves
  <2>4. CASE status' = "waiting" /\ armed' = Entries /\ UNCHANGED <<index, busy, reported>>
    BY <2>1, <2>2, <2>4, WaitPreserves
  <2> QED
    BY <2>1, <2>3, <2>4
<1>5. CASE RunInAtOnce
  <2>1. /\ Runnable /\ Buf.dir = "IN" /\ ~Buf.timed
        /\ UNCHANGED <<script, started>>
        /\ \/ CmdEnd("error") /\ armed' = armed /\ index' = index
           \/ \E ok \in BOOLEAN : NextBuf(ok, armed)
           \/ status' = "waiting" /\ UNCHANGED <<index, armed, busy, reported>>
    BY <1>5 DEF RunInAtOnce, BackInLoop
  <2>2. busy /\ index \in DOMAIN script /\ armed = 0 /\ index \in Nat
    BY <2>1, RunnableBuffer DEF IInv, Kinds
  <2>3. ASSUME NEW ok \in BOOLEAN, NextBuf(ok, armed) PROVE IInv'
    BY ONLY IInv, ExchangesUntimed, <2>1, <2>2, <2>3, NextBufPreserves
  <2>4. CASE CmdEnd("error") /\ armed' = armed /\ index' = index
    BY <2>1, <2>2, <2>4, EndPreserves DEF Over
  <2>5. CASE status' = "waiting" /\ UNCHANGED <<index, armed, busy, reported>>
    BY <2>1, <2>2, <2>5, WaitPreserves
  <2> QED
    BY <2>1, <2>3, <2>4, <2>5
<1>6. CASE RunOutIn
  <2>1. /\ Runnable /\ Buf.dir = "OUT_IN"
        /\ UNCHANGED <<script, started>>
        /\ \/ \E ok \in BOOLEAN : NextBuf(ok, Entries)
           \/ CmdEnd("error") /\ armed' = Entries /\ index' = index
    BY <1>6 DEF RunOutIn, BackInLoop
  <2>2. /\ busy /\ index \in DOMAIN script /\ Entries = 0 /\ index \in Nat
        /\ status \in {"initialized", "retrying"}
    BY <2>1, RunnableBuffer DEF IInv, Kinds, Runnable
  <2>3. ASSUME NEW ok \in BOOLEAN, NextBuf(ok, Entries) PROVE IInv'
    BY ONLY IInv, ExchangesUntimed, <2>1, <2>2, <2>3, NextBufPreserves
  <2>4. CASE CmdEnd("error") /\ armed' = Entries /\ index' = index
    BY <2>1, <2>2, <2>4, EndPreserves DEF Over
  <2> QED
    BY <2>1, <2>3, <2>4
<1>7. CASE RunNone
  <2>1. /\ Runnable /\ Buf.dir = "NONE"
        /\ UNCHANGED <<script, started>>
        /\ IF Buf.timed
           THEN /\ status' = "waiting" /\ armed' = Entries
                /\ UNCHANGED <<index, busy, reported>>
           ELSE NextBuf(TRUE, Entries)
    BY <1>7 DEF RunNone, BackInLoop
  <2>2. /\ busy /\ index \in DOMAIN script
        /\ Buf.timed => Entries = 1
        /\ ~Buf.timed => Entries = 0
    BY <2>1, RunnableBuffer
  <2>3. CASE Buf.timed
    BY <2>1, <2>2, <2>3, WaitPreserves
  <2>4. CASE ~Buf.timed
    <3>1. NextBuf(TRUE, Entries) /\ Entries = 0
      BY <2>1, <2>2, <2>4
    <3> QED
      BY ONLY IInv, ExchangesUntimed, <2>1, <2>2, <3>1, NextBufPreserves
  <2> QED
    BY <2>3, <2>4
<1>8. CASE TimerFires
  <2>1. /\ armed > 0 /\ UNCHANGED <<script, started>>
        /\ \/ index \in DOMAIN script /\ Buf.dir = "NONE" /\ NextBuf(TRUE, armed - 1)
           \/ CmdEnd("timeout") /\ armed' = armed - 1 /\ index' = index
    BY <1>8 DEF TimerFires, caller
  <2>2. armed = 1 /\ busy /\ index \in Nat
    BY <2>1 DEF IInv, Kinds, TimerWhileWaiting, ReportedOnce, Over
  <2>3. CASE index \in DOMAIN script /\ Buf.dir = "NONE" /\ NextBuf(TRUE, armed - 1)
    <3>0. armed - 1 = 0
      BY <2>2
    <3>1. NextBuf(TRUE, 0)
      BY <2>3, <3>0, Zenon
    <3> QED
      BY ONLY IInv, ExchangesUntimed, <2>1, <2>2, <2>3, <3>1, NextBufPreserves
  <2>4. CASE CmdEnd("timeout") /\ armed' = armed - 1 /\ index' = index
    BY <2>1, <2>2, <2>4, EndPreserves DEF Over
  <2> QED
    BY <2>1, <2>3, <2>4
<1>9. CASE InterfaceEvent
  BY <1>9 DEF InterfaceEvent, caller, IInv, Kinds, StatusFitsBuffer,
     ReportedOnce, TimerWhileWaiting, InsideScript, Buf, Statuses, Over
<1>10. CASE UNCHANGED vars
  BY <1>10 DEF vars, state, caller, IInv, Kinds, StatusFitsBuffer,
     ReportedOnce, TimerWhileWaiting, InsideScript, Buf
<1> QED
  BY <1>1, <1>2, <1>3, <1>4, <1>5, <1>6, <1>7, <1>8, <1>9, <1>10 DEF Next

\* The invariant holds in the initial states.
LEMMA InitEstablishes == Init => IInv
<1> SUFFICES ASSUME Init PROVE IInv
  OBVIOUS
<1>1. index \in Nat /\ Kinds
  BY DEF Init, Kinds, Statuses, Over
<1>2. StatusFitsBuffer /\ TimerWhileWaiting /\ InsideScript
  BY DEF Init, StatusFitsBuffer, TimerWhileWaiting, InsideScript
<1>3. reported = 0 /\ started = 0 /\ busy = FALSE /\ status \in Over
  BY DEF Init, Over
<1>4. ReportedOnce
  BY <1>3 DEF ReportedOnce
<1> QED
  BY <1>1, <1>2, <1>4 DEF IInv

LEMMA Invariance == ASSUME ExchangesUntimed PROVE Spec => []IInv
<1>1. IInv /\ [Next]_vars => IInv'
  BY StepPreserves
<1> QED
  BY <1>1, InitEstablishes, PTL DEF Spec

-----------------------------------------------------------------------------
(* A command reads its own answers *)

\* Bytes the device sends because of a buffer, and bytes the buffer reads.
SentFor(b) == IF b.dir = "OUT" THEN b.answer ELSE 0
ReadBy(b)  == IF b.dir = "IN" THEN b.len ELSE 0

\* These numbers bound what is sent and not read when command s gets to each buffer.
BoundsDue(s, m) ==
  /\ m \in [1 .. Len(s) + 1 -> 0 .. FlushLen]
  /\ \A i \in DOMAIN s :
       /\ m[i] + SentFor(s[i]) - ReadBy(s[i]) <= m[i + 1]
       /\ s[i].retry # 0 => m[i] <= m[s[i].retry]

\* What a command leaves unread is never more than one flush of the interface
\* drops.
FlushSuffices == \A s \in Scripts : \E m : BoundsDue(s, m)

DueOf(s) == CHOOSE m : BoundsDue(s, m)

\* Bytes the buffer that is waiting has read.
ReadSoFar == IF status \in {"waiting", "ready"} /\ Buf.dir = "IN" THEN received ELSE 0

\* dfu_cmd_start() runs the first buffer before anything else happens.
AtStart ==
  control = "start" =>
    /\ busy /\ status = "initialized" /\ index = 1 /\ owed = <<>> /\ got = {}

\* The bytes that are unread fit in what one flush drops.
UnreadBounded ==
  IF busy /\ control # "start"
  THEN Len(fifo) + Len(owed) + ReadSoFar <= DueOf(script)[index]
  ELSE Len(fifo) + Len(owed) <= FlushLen

\* But for the moment before that first buffer, they answer this command.
UnreadMatch ==
  control # "start" =>
    /\ \A i \in 1 .. Len(fifo) : fifo[i] = started
    /\ \A i \in 1 .. Len(owed) : owed[i] = started

WireKinds ==
  /\ fifo \in Seq(Nat) /\ owed \in Seq(Nat) /\ received \in Nat
  /\ status \in {"waiting", "ready"} /\ Buf.dir = "IN" => received <= Buf.len

AnswerInv == WireKinds /\ AtStart /\ UnreadBounded /\ UnreadMatch /\ AnswersMatch

\* What the device sends comes after what it owes.
LEMMA BytesAdded ==
  ASSUME NEW s \in Seq(Nat), NEW t \in Seq(Nat)
  PROVE  /\ s \o t \in Seq(Nat) /\ Len(s \o t) = Len(s) + Len(t)
         /\ \A i \in 1 .. Len(s \o t) :
              (s \o t)[i] = IF i <= Len(s) THEN s[i] ELSE t[i - Len(s)]
OBVIOUS

\* A buffer without a timeout is read again at once, and never past its end.
LEMMA TwoReads ==
  ASSUME NEW b \in Nat, NEW k \in Nat, k <= b, NEW l \in Nat, l >= b
  PROVE  LET more == IF l < 2 * b - k THEN l - b ELSE b - k
         IN  more \in Nat /\ more <= b - k /\ b + more \in Nat /\ b + more <= l
OBVIOUS

\* What is known of the bounds.
LEMMA DueBounds ==
  ASSUME FlushSuffices, NEW s \in Scripts, NEW i \in DOMAIN s
  PROVE  /\ i \in Nat
         /\ DueOf(s)[i] \in Nat /\ DueOf(s)[i] <= FlushLen
         /\ DueOf(s)[i + 1] \in Nat /\ DueOf(s)[i + 1] <= FlushLen
         /\ DueOf(s)[i] + SentFor(s[i]) - ReadBy(s[i]) <= DueOf(s)[i + 1]
         /\ s[i].retry # 0 => DueOf(s)[i] <= DueOf(s)[s[i].retry]
         /\ SentFor(s[i]) \in Nat /\ ReadBy(s[i]) \in Nat
<1>1. BoundsDue(s, DueOf(s))
  BY DEF FlushSuffices, DueOf
<1>2. s \in Seq(Buffers)
  BY ScriptsOK
<1>3. i \in 1 .. Len(s) /\ Len(s) \in Nat /\ s[i] \in Buffers
  BY <1>2
<1>4. i \in 1 .. Len(s) + 1 /\ i + 1 \in 1 .. Len(s) + 1
  BY <1>3
<1>5. SentFor(s[i]) \in Nat /\ ReadBy(s[i]) \in Nat
  BY <1>3 DEF SentFor, ReadBy, Buffers
<1>6. DueOf(s)[i] \in 0 .. FlushLen /\ DueOf(s)[i + 1] \in 0 .. FlushLen
  BY <1>1, <1>4 DEF BoundsDue
<1>7. /\ DueOf(s)[i] + SentFor(s[i]) - ReadBy(s[i]) <= DueOf(s)[i + 1]
      /\ s[i].retry # 0 => DueOf(s)[i] <= DueOf(s)[s[i].retry]
  BY <1>1 DEF BoundsDue
<1> QED
  BY <1>3, <1>5, <1>6, <1>7, BoundsOK

\* Reading takes the oldest bytes.
LEMMA DropTakes ==
  ASSUME fifo \in Seq(Nat), NEW n \in Nat
  PROVE  /\ Drop(n) \in Seq(Nat)
         /\ Taken(n) \in Nat /\ Taken(n) <= n /\ Taken(n) <= Len(fifo)
         /\ Len(fifo) <= n => Taken(n) = Len(fifo)
         /\ n <= Len(fifo) => Taken(n) = n
         /\ Len(Drop(n)) = Len(fifo) - Taken(n)
         /\ \A i \in 1 .. Len(Drop(n)) :
              Drop(n)[i] = fifo[i + Taken(n)] /\ i + Taken(n) \in 1 .. Len(fifo)
<1>1. Len(fifo) \in Nat
  OBVIOUS
<1>2. /\ Taken(n) \in Nat /\ Taken(n) <= n /\ Taken(n) <= Len(fifo)
      /\ Len(fifo) <= n => Taken(n) = Len(fifo)
      /\ n <= Len(fifo) => Taken(n) = n
  BY <1>1 DEF Taken
<1>3. Drop(n) = SubSeq(fifo, Taken(n) + 1, Len(fifo))
  BY DEF Drop
<1>4. /\ Drop(n) \in Seq(Nat) /\ Len(Drop(n)) = Len(fifo) - Taken(n)
      /\ \A i \in 1 .. Len(Drop(n)) : Drop(n)[i] = fifo[i + Taken(n)]
  BY <1>1, <1>2, <1>3
<1> QED
  BY <1>1, <1>2, <1>4

\* The bytes of this command that are left after a read answer it, too.
LEMMA DropMatches ==
  ASSUME fifo \in Seq(Nat), NEW n \in Nat, NEW c,
         \A i \in 1 .. Len(fifo) : fifo[i] = c
  PROVE  /\ \A i \in 1 .. Len(Drop(n)) : Drop(n)[i] = c
         /\ {fifo[i] : i \in 1 .. Taken(n)} \subseteq {c}
<1>1. Len(fifo) \in Nat
  OBVIOUS
<1>2. ASSUME NEW i \in 1 .. Len(Drop(n)) PROVE Drop(n)[i] = c
  <2>1. Drop(n)[i] = fifo[i + Taken(n)] /\ i + Taken(n) \in 1 .. Len(fifo)
    BY DropTakes
  <2> QED
    BY <2>1
<1>3. ASSUME NEW i \in 1 .. Taken(n) PROVE fifo[i] = c
  <2>1. Taken(n) \in Nat /\ Taken(n) <= Len(fifo)
    BY DropTakes
  <2> QED
    BY <1>1, <2>1
<1> QED
  BY <1>2, <1>3

\* A command that runs is at a buffer, and what is unread is bounded.
LEMMA UnreadOfRunning ==
  ASSUME IInv, AnswerInv, FlushSuffices
  PROVE  /\ Len(fifo) \in Nat /\ Len(owed) \in Nat /\ FlushLen \in Nat
         /\ ReadSoFar \in Nat
         /\ Len(fifo) + Len(owed) <= FlushLen
         /\ busy => script \in Scripts /\ index \in DOMAIN script
         /\ busy /\ control # "start" =>
              Len(fifo) + Len(owed) + ReadSoFar <= DueOf(script)[index]
<1>1. /\ Len(fifo) \in Nat /\ Len(owed) \in Nat /\ FlushLen \in Nat /\ ReadSoFar \in Nat
      /\ busy => script \in Scripts /\ index \in DOMAIN script
  BY BoundsOK DEF AnswerInv, WireKinds, ReadSoFar, IInv, Kinds, InsideScript
<1>2. busy /\ control # "start" =>
              Len(fifo) + Len(owed) + ReadSoFar <= DueOf(script)[index]
  BY DEF AnswerInv, UnreadBounded
<1>3. CASE busy /\ control # "start"
  <2>1. DueOf(script)[index] \in Nat /\ DueOf(script)[index] <= FlushLen
    BY <1>1, <1>3, DueBounds
  <2> QED
    BY <1>1, <1>2, <1>3, <2>1
<1>4. CASE ~(busy /\ control # "start")
  BY <1>1, <1>2, <1>4 DEF AnswerInv, UnreadBounded
<1> QED
  BY <1>1, <1>2, <1>3, <1>4

\* The end of a command leaves what it does not read.
LEMMA EndBounds ==
  ASSUME NEW s \in Over, CmdEnd(s), Len(fifo') + Len(owed') <= FlushLen
  PROVE  UnreadBounded' /\ status' \in Over
BY DEF CmdEnd, UnreadBounded

\* The bound holds at the buffer that is next.
LEMMA NextBufBounds ==
  ASSUME IInv, ExchangesUntimed, FlushSuffices, busy, index \in DOMAIN script,
         NEW ok \in BOOLEAN, NEW entries \in Nat, NextBuf(ok, entries),
         Buf.dir = "OUT_IN" => status \in {"initialized", "retrying"},
         script' = script, control' # "start",
         Len(fifo') \in Nat, Len(owed') \in Nat,
         Len(fifo') + Len(owed') <= DueOf(script)[index] + SentFor(Buf) - ReadBy(Buf)
  PROVE  UnreadBounded' /\ status' \notin {"waiting", "ready"}
<1> DEFINE n == Len(fifo') + Len(owed')
<1>1. /\ script \in Scripts /\ index \in Nat
      /\ status = "retrying" => Buf.dir = "OUT"
  BY DEF IInv, Kinds, StatusFitsBuffer
<1>2. /\ DueOf(script)[index] \in Nat /\ DueOf(script)[index] <= FlushLen
      /\ DueOf(script)[index + 1] \in Nat /\ DueOf(script)[index + 1] <= FlushLen
      /\ DueOf(script)[index] + SentFor(Buf) - ReadBy(Buf) <= DueOf(script)[index + 1]
      /\ Buf.retry # 0 => DueOf(script)[index] <= DueOf(script)[Buf.retry]
      /\ SentFor(Buf) \in Nat /\ ReadBy(Buf) \in Nat
  BY <1>1, DueBounds DEF Buf
<1>3. n \in Nat /\ n <= DueOf(script)[index + 1] /\ n <= FlushLen
  BY <1>2, BoundsOK
<1>4. Buf.retry # 0 =>
        Buf.dir = "OUT_IN" /\ Buf.retry \in DOMAIN script /\ Buf.retry \in Nat
  BY <1>1, BufferOfScript DEF Buf
<1>5. ASSUME NEW i \in Nat, NEW t \in {"initialized", "retrying"}, Advance(i, t),
             n <= DueOf(script)[i]
      PROVE  UnreadBounded' /\ status' \notin {"waiting", "ready"}
  <2>1. CASE CmdEnd("ok")
    BY <1>3, <2>1, EndBounds DEF Over
  <2>2. CASE ~CmdEnd("ok")
    <3>1. index' = i /\ status' = t /\ busy' = busy
      BY <1>5, <2>2 DEF Advance
    <3>2. ReadSoFar' = 0
      BY <3>1 DEF ReadSoFar
    <3>3. Len(fifo') + Len(owed') + ReadSoFar' <= DueOf(script')[index']
      BY <1>3, <1>5, <3>1, <3>2
    <3> QED
      BY <3>1, <3>3 DEF UnreadBounded
  <2> QED
    BY <2>1, <2>2
<1>6. CASE Buf.retry # 0
  <2>1. n <= DueOf(script)[Buf.retry]
    <3>1. SentFor(Buf) = 0 /\ ReadBy(Buf) = 0
      BY <1>4, <1>6 DEF SentFor, ReadBy
    <3>2. DueOf(script)[Buf.retry] \in Nat
      BY <1>1, <1>4, <1>6, DueBounds
    <3> QED
      BY <1>2, <1>3, <1>6, <3>1, <3>2
  <2>2. CASE ok
    <3>1. Advance(index + 1, "initialized")
      BY <1>1, <1>4, <1>6, <2>2 DEF NextBuf
    <3>2. index + 1 \in Nat
      BY <1>1
    <3> QED
      BY <1>3, <1>5, <3>1, <3>2
  <2>3. CASE ~ok
    <3>1. Advance(Buf.retry, "retrying")
      BY <1>6, <2>3 DEF NextBuf
    <3> QED
      BY <1>4, <1>5, <1>6, <2>1, <3>1
  <2> QED
    BY <2>2, <2>3
<1>7. CASE Buf.retry = 0
  <2>2. CASE ok
    <3>1. Advance(index + 1, "initialized")
      BY <1>7, <2>2 DEF NextBuf
    <3>2. index + 1 \in Nat
      BY <1>1
    <3> QED
      BY <1>3, <1>5, <3>1, <3>2
  <2>3. CASE ~ok
    <3>1. CmdEnd("error")
      BY <1>7, <2>3 DEF NextBuf
    <3> QED
      BY <1>3, <3>1, EndBounds DEF Over
  <2> QED
    BY <2>2, <2>3
<1> QED
  BY <1>6, <1>7

\* OUT: what was left of other commands is dropped.
LEMMA OutAnswers ==
  ASSUME IInv, AnswerInv, ExchangesUntimed, FlushSuffices, RunOut
  PROVE  AnswerInv'
<1>1. /\ Runnable /\ Buf.dir = "OUT" /\ fifo' = Drop(FlushLen)
      /\ control' = "loop" /\ UNCHANGED <<script, started, got, received>>
      /\ \/ /\ NextBuf(TRUE, Entries)
            /\ owed' = owed \o [i \in 1 .. Buf.answer |-> started]
         \/ CmdEnd("error") /\ owed' = owed
  BY DEF RunOut, BackInLoop
<1>2. /\ busy /\ index \in DOMAIN script /\ script \in Scripts
      /\ Entries = 0 /\ status \in {"initialized", "retrying"}
  BY <1>1, RunnableBuffer DEF Runnable
<1>3. /\ Len(fifo) \in Nat /\ Len(owed) \in Nat /\ Len(fifo) + Len(owed) <= FlushLen
      /\ fifo \in Seq(Nat) /\ owed \in Seq(Nat) /\ received \in Nat
      /\ FlushLen \in Nat /\ started \in Nat
  BY UnreadOfRunning DEF AnswerInv, WireKinds, IInv, Kinds
<1>4. fifo' = <<>>
  <2>1. Drop(FlushLen) \in Seq(Nat) /\ Len(Drop(FlushLen)) = Len(fifo) - Taken(FlushLen)
    BY <1>3, DropTakes
  <2>2. Taken(FlushLen) = Len(fifo)
    BY <1>3 DEF Taken
  <2>3. fifo' \in Seq(Nat) /\ Len(fifo') = 0
    BY ONLY <1>1, <1>3, <2>1, <2>2
  <2> QED
    BY <2>3
<1>5. \A i \in 1 .. Len(owed) : owed[i] = started
  BY <1>3 DEF AnswerInv, UnreadMatch, AtStart
<1>6. /\ DueOf(script)[index] \in Nat /\ DueOf(script)[index] <= FlushLen
      /\ Len(owed) <= DueOf(script)[index]
      /\ Buf \in Buffers
  <2>1. DueOf(script)[index] \in Nat /\ DueOf(script)[index] <= FlushLen
    BY <1>2, DueBounds
  <2>2. Buf \in Buffers
    BY <1>2, BufferOfScript DEF Buf
  <2>3. CASE control = "start"
    <3>1. Len(owed) = 0
      BY <2>3 DEF AnswerInv, AtStart
    <3> QED
      BY <2>1, <2>2, <3>1
  <2>4. CASE control # "start"
    <3>1. Len(fifo) + Len(owed) + ReadSoFar <= DueOf(script)[index] /\ ReadSoFar \in Nat
      BY <1>2, <2>4, UnreadOfRunning
    <3> QED
      BY <1>3, <2>1, <2>2, <3>1
  <2> QED
    BY <2>3, <2>4
<1>7. got' \subseteq {started}
  BY <1>1 DEF AnswerInv, AnswersMatch
<1>8. CASE NextBuf(TRUE, Entries) /\ owed' = owed \o [i \in 1 .. Buf.answer |-> started]
  <2> DEFINE more == [i \in 1 .. Buf.answer |-> started]
  <2>1. Buf.answer \in Nat
    BY <1>6 DEF Buffers
  <2>2. more \in Seq(Nat) /\ Len(more) = Buf.answer
    BY <1>3, <2>1
  <2>3. \A i \in 1 .. Len(more) : more[i] = started
    BY <2>1, <2>2
  <2> HIDE DEF more
  <2>0. owed' = owed \o more
    BY <1>8 DEF more
  <2>4. owed' \in Seq(Nat) /\ Len(owed') = Len(owed) + Buf.answer
    <3>1. owed \in Seq(Nat) /\ more \in Seq(Nat) /\ Len(more) = Buf.answer
      BY <1>3, <2>2
    <3>2. owed \o more \in Seq(Nat) /\ Len(owed \o more) = Len(owed) + Len(more)
      BY ONLY <3>1, BytesAdded
    <3> QED
      BY ONLY <2>0, <3>1, <3>2
  <2>5. \A i \in 1 .. Len(owed') : owed'[i] = started
    <3> SUFFICES ASSUME NEW i \in 1 .. Len(owed')
                 PROVE  owed'[i] = started
      OBVIOUS
    <3>1. owed'[i] = IF i <= Len(owed) THEN owed[i] ELSE more[i - Len(owed)]
      BY <1>3, <2>0, <2>2, BytesAdded
    <3>2. i <= Len(owed) => i \in 1 .. Len(owed)
      BY <1>3, <2>1, <2>4
    <3>3. ~(i <= Len(owed)) => i - Len(owed) \in 1 .. Len(more)
      BY <1>3, <2>1, <2>2, <2>4
    <3> QED
      BY <1>5, <2>3, <3>1, <3>2, <3>3
  <2>6. Len(fifo') = 0 /\ SentFor(Buf) = Buf.answer /\ ReadBy(Buf) = 0
    BY <1>1, <1>4 DEF SentFor, ReadBy
  <2>7. /\ Len(fifo') \in Nat /\ Len(owed') \in Nat
        /\ Len(fifo') + Len(owed') <= DueOf(script)[index] + SentFor(Buf) - ReadBy(Buf)
    BY <1>3, <1>6, <2>1, <2>4, <2>6
  <2>8. UnreadBounded' /\ status' \notin {"waiting", "ready"}
    <3>1. NextBuf(TRUE, 0)
      BY <1>2, <1>8, Zenon
    <3> QED
      BY ONLY IInv, ExchangesUntimed, FlushSuffices, <1>1, <1>2, <2>7, <3>1, NextBufBounds
  <2> QED
    BY <1>1, <1>3, <1>4, <1>7, <2>4, <2>5, <2>8
    DEF AnswerInv, WireKinds, AtStart, UnreadMatch, AnswersMatch
<1>9. CASE CmdEnd("error") /\ owed' = owed
  <2>1. Len(fifo') = 0 /\ Len(fifo') + Len(owed') <= FlushLen
    BY <1>3, <1>4, <1>9
  <2>2. UnreadBounded' /\ status' \in Over
    BY <1>9, <2>1, EndBounds DEF Over
  <2> QED
    BY <1>1, <1>3, <1>4, <1>5, <1>7, <1>9, <2>2
    DEF AnswerInv, WireKinds, AtStart, UnreadMatch, AnswersMatch, Over
<1> QED
  BY <1>1, <1>8, <1>9

\* IN: the bytes that are read answer this command.
LEMMA InAnswers ==
  ASSUME IInv, AnswerInv, ExchangesUntimed, FlushSuffices, RunIn \/ RunInAtOnce
  PROVE  AnswerInv'
<1>1. /\ Runnable /\ Buf.dir = "IN" /\ control' = "loop"
      /\ UNCHANGED <<script, started, owed>>
  BY DEF RunIn, RunInAtOnce, BackInLoop
<1>2. /\ busy /\ index \in DOMAIN script /\ script \in Scripts
      /\ status \in {"initialized", "ready"} /\ control # "start"
  <2>1. busy /\ index \in DOMAIN script /\ script \in Scripts /\ status # "retrying"
    BY <1>1, RunnableBuffer
  <2>2. control # "start"
    <3>1. script[1].dir = "OUT"
      BY <2>1, FirstBuffer
    <3> QED
      BY <1>1, <3>1 DEF AnswerInv, AtStart, Buf
  <2> QED
    BY <1>1, <2>1, <2>2 DEF Runnable
<1>3. /\ Len(fifo) \in Nat /\ Len(owed) \in Nat /\ FlushLen \in Nat
      /\ fifo \in Seq(Nat) /\ owed \in Seq(Nat) /\ received \in Nat
      /\ Len(fifo) + Len(owed) + ReadSoFar <= DueOf(script)[index]
      /\ DueOf(script)[index] \in Nat /\ DueOf(script)[index] <= FlushLen
      /\ Buf.len \in Nat \ {0}
  <2>1. Buf.len \in Nat \ {0}
    <3>1. Buf \in Buffers
      BY <1>2, BufferOfScript DEF Buf
    <3>2. Buf.len > 0
      BY <1>1, <1>2, ScriptsOK DEF Buf
    <3> QED
      BY <3>1, <3>2 DEF Buffers
  <2> QED
    BY <1>2, <2>1, UnreadOfRunning, DueBounds DEF AnswerInv, WireKinds
<1>4. /\ Kept \in Nat /\ Kept <= Buf.len /\ Kept = ReadSoFar
  BY <1>1, <1>2, <1>3 DEF Kept, ReadSoFar, AnswerInv, WireKinds
<1>5. /\ \A i \in 1 .. Len(fifo) : fifo[i] = started
      /\ \A i \in 1 .. Len(owed) : owed[i] = started
      /\ got \subseteq {started}
  BY <1>2 DEF AnswerInv, UnreadMatch, AnswersMatch
<1>6. ASSUME NEW m \in Nat, Take(m),
             received' \in Nat, received' <= Buf.len, received' <= Kept + Taken(m),
             \/ /\ received' = Buf.len
                /\ \/ \E ok \in BOOLEAN, entries \in {0, armed, Entries} : NextBuf(ok, entries)
                   \/ CmdEnd("error")
             \/ status' = "waiting" /\ UNCHANGED <<index, busy>>
             \/ CmdEnd("error")
      PROVE  AnswerInv'
  <2>1. fifo' = Drop(m) /\ got' = got \cup {fifo[i] : i \in 1 .. Taken(m)}
    BY <1>6 DEF Take
  <2>2. /\ fifo' \in Seq(Nat) /\ Len(fifo') = Len(fifo) - Taken(m)
        /\ Taken(m) \in Nat /\ Taken(m) <= Len(fifo)
    BY <1>3, <2>1, DropTakes
  <2>3. /\ \A i \in 1 .. Len(fifo') : fifo'[i] = started
        /\ got' \subseteq {started}
    BY <1>3, <1>5, <2>1, DropMatches
  <2>4. UnreadMatch' /\ AnswersMatch'
    BY <1>1, <1>5, <2>3 DEF UnreadMatch, AnswersMatch
  <2>5. Len(fifo') \in Nat /\ Len(owed') \in Nat
        /\ Len(fifo') + Len(owed') + received' <= DueOf(script)[index]
    BY <1>1, <1>3, <1>4, <1>6, <2>2
  <2>6. AtStart' /\ fifo' \in Seq(Nat) /\ owed' \in Seq(Nat)
    BY <1>1, <1>3, <2>2 DEF AtStart
  <2>7. CASE CmdEnd("error")
    <3>1. Len(fifo') + Len(owed') <= FlushLen
      BY <1>3, <1>6, <2>5
    <3>2. UnreadBounded' /\ status' \in Over
      BY <2>7, <3>1, EndBounds DEF Over
    <3> QED
      BY <1>6, <2>4, <2>6, <3>2 DEF AnswerInv, WireKinds, Over
  <2>8. CASE /\ received' = Buf.len
             /\ \E ok \in BOOLEAN, entries \in {0, armed, Entries} : NextBuf(ok, entries)
    <3>1. PICK ok \in BOOLEAN, entries \in {0, armed, Entries} : NextBuf(ok, entries)
      BY <2>8
    <3>2. entries \in Nat
      BY DEF Entries, IInv, Kinds
    <3>3. SentFor(Buf) = 0 /\ ReadBy(Buf) = Buf.len
      BY <1>1 DEF SentFor, ReadBy
    <3>4. Len(fifo') + Len(owed') <= DueOf(script)[index] + SentFor(Buf) - ReadBy(Buf)
      BY <1>3, <2>5, <2>8, <3>3
    <3>5. /\ Buf.dir = "OUT_IN" => status \in {"initialized", "retrying"}
          /\ control' # "start" /\ script' = script
      BY <1>1
    <3>6. UnreadBounded' /\ status' \notin {"waiting", "ready"}
      BY ONLY IInv, ExchangesUntimed, FlushSuffices, <1>2, <2>5, <3>1, <3>2, <3>4, <3>5,
              NextBufBounds
    <3> QED
      BY <1>6, <2>4, <2>6, <3>6 DEF AnswerInv, WireKinds
  <2>9. CASE status' = "waiting" /\ UNCHANGED <<index, busy>>
    <3>1. Buf' = Buf
      BY <1>1, <2>9 DEF Buf
    <3>2. ReadSoFar' = received'
      BY <1>1, <2>9, <3>1 DEF ReadSoFar
    <3>3. UnreadBounded'
      BY <1>1, <1>2, <2>5, <2>9, <3>2 DEF UnreadBounded
    <3> QED
      BY <1>6, <2>4, <2>6, <3>1, <3>3 DEF AnswerInv, WireKinds
  <2> QED
    BY <1>6, <2>7, <2>8, <2>9
<1>7. CASE RunIn
  <2> DEFINE m == Buf.len - Kept
  <2>1. m \in Nat
    BY <1>3, <1>4
  <2>2. Take(m) /\ received' = Kept + Taken(m)
    BY <1>7 DEF RunIn
  <2>3. IF received' = Buf.len
        THEN \E ok \in BOOLEAN : NextBuf(ok, Entries)
        ELSE status' = "waiting" /\ UNCHANGED <<index, busy>>
    BY <1>7 DEF RunIn
  <2>4. Taken(m) \in Nat /\ Taken(m) <= m
    BY <1>3, <2>1, DropTakes
  <2>5. received' \in Nat /\ received' <= Buf.len /\ received' <= Kept + Taken(m)
    BY <1>3, <1>4, <2>2, <2>4
  <2> HIDE DEF m
  <2> QED
    BY <1>6, <2>1, <2>2, <2>3, <2>5
<1>8. CASE RunInAtOnce /\ fifo = <<>> /\ CmdEnd("error") /\ UNCHANGED <<received, fifo, got>>
  <2>1. Len(fifo') + Len(owed') <= FlushLen
    BY <1>1, <1>3, <1>4, <1>8
  <2>2. UnreadBounded' /\ status' \in Over
    BY <1>8, <2>1, EndBounds DEF Over
  <2> QED
    BY <1>1, <1>3, <1>5, <1>8, <2>2
    DEF AnswerInv, WireKinds, AtStart, UnreadMatch, AnswersMatch, Over
<1>9. CASE RunInAtOnce /\ ~(fifo = <<>> /\ CmdEnd("error") /\ UNCHANGED <<received, fifo, got>>)
  <2> DEFINE more == IF Len(fifo) < 2 * Buf.len - Kept THEN Len(fifo) - Buf.len
                                                       ELSE Buf.len - Kept
             m    == Buf.len + more
  <2>0. Len(fifo) >= Buf.len /\ received' = Kept + more
    BY <1>9 DEF RunInAtOnce
  <2>1. /\ Take(m)
        /\ IF received' = Buf.len THEN \E ok \in BOOLEAN : NextBuf(ok, armed)
           ELSE status' = "waiting" /\ UNCHANGED <<index, busy>>
    BY <1>9 DEF RunInAtOnce
  <2>2. more \in Nat /\ more <= Buf.len - Kept /\ m \in Nat /\ m <= Len(fifo)
    <3>1. Buf.len \in Nat /\ Kept \in Nat /\ Kept <= Buf.len /\ Len(fifo) \in Nat
      BY <1>3, <1>4
    <3> QED
      BY ONLY <3>1, <2>0, TwoReads
  <2>3. Taken(m) = m
    BY <1>3, <2>2, DropTakes
  <2>4. received' \in Nat /\ received' <= Buf.len /\ received' <= Kept + Taken(m)
    <3>1. Buf.len \in Nat /\ Kept \in Nat
      BY <1>3, <1>4
    <3> HIDE DEF more
    <3>2. received' = Kept + more /\ Taken(m) = Buf.len + more
      BY <2>0, <2>3
    <3> QED
      BY ONLY <2>2, <3>1, <3>2
  <2> HIDE DEF m
  <2> QED
    BY <1>6, <2>1, <2>2, <2>4
<1> QED
  BY <1>7, <1>8, <1>9

\* OUT_IN, NONE and a timer that fires leave the wire alone.
LEMMA QuietAnswers ==
  ASSUME IInv, AnswerInv, ExchangesUntimed, FlushSuffices, busy,
         control # "start", control' # "start",
         UNCHANGED <<script, started, received, wire>>,
         \/ /\ Buf.dir \in {"OUT_IN", "NONE"}
            /\ Buf.dir = "OUT_IN" => status \in {"initialized", "retrying"}
            /\ \E ok \in BOOLEAN, entries \in Nat : NextBuf(ok, entries)
         \/ \E s \in Over : CmdEnd(s)
         \/ Buf.dir = "NONE" /\ status' = "waiting" /\ UNCHANGED <<index, busy>>
  PROVE  AnswerInv'
<1>1. /\ Len(fifo) \in Nat /\ Len(owed) \in Nat /\ Len(fifo) + Len(owed) <= FlushLen
      /\ ReadSoFar \in Nat /\ script \in Scripts /\ index \in DOMAIN script
      /\ Len(fifo) + Len(owed) + ReadSoFar <= DueOf(script)[index]
      /\ DueOf(script)[index] \in Nat
  BY UnreadOfRunning, DueBounds
<1>2. UNCHANGED <<fifo, owed, got>>
  BY DEF wire
<1>3. /\ AtStart' /\ UnreadMatch' /\ AnswersMatch'
      /\ fifo' \in Seq(Nat) /\ owed' \in Seq(Nat) /\ received' \in Nat
  BY <1>2 DEF AnswerInv, AtStart, UnreadMatch, AnswersMatch, WireKinds
<1>4. ASSUME NEW s \in Over, CmdEnd(s) PROVE AnswerInv'
  <2>1. UnreadBounded' /\ status' \in Over
    BY <1>1, <1>2, <1>4, EndBounds
  <2> QED
    BY <1>3, <2>1 DEF AnswerInv, WireKinds, Over
<1>5. CASE Buf.dir = "NONE" /\ status' = "waiting" /\ UNCHANGED <<index, busy>>
  <2>1. Buf' = Buf
    BY <1>5 DEF Buf
  <2>2. ReadSoFar' = 0
    BY <1>5, <2>1 DEF ReadSoFar
  <2>3. UnreadBounded'
    BY <1>1, <1>2, <1>5, <2>2 DEF UnreadBounded
  <2> QED
    BY <1>3, <1>5, <2>1, <2>3 DEF AnswerInv, WireKinds
<1>6. ASSUME Buf.dir \in {"OUT_IN", "NONE"},
             Buf.dir = "OUT_IN" => status \in {"initialized", "retrying"},
             NEW ok \in BOOLEAN, NEW entries \in Nat, NextBuf(ok, entries)
      PROVE  AnswerInv'
  <2>1. SentFor(Buf) = 0 /\ ReadBy(Buf) = 0
    BY <1>6 DEF SentFor, ReadBy
  <2>2. /\ Len(fifo') \in Nat /\ Len(owed') \in Nat
        /\ Len(fifo') + Len(owed') <= DueOf(script)[index] + SentFor(Buf) - ReadBy(Buf)
    BY <1>1, <1>2, <2>1
  <2>3. UnreadBounded' /\ status' \notin {"waiting", "ready"}
    BY ONLY IInv, ExchangesUntimed, FlushSuffices, busy, control' # "start",
            UNCHANGED script, <1>1, <1>6, <2>2, NextBufBounds
  <2> QED
    BY <1>3, <2>3 DEF AnswerInv, WireKinds
<1> QED
  BY <1>4, <1>5, <1>6

\* Every step keeps the answers apart.
LEMMA AnswerStep ==
  ASSUME IInv, AnswerInv, ExchangesUntimed, FlushSuffices, ~LateAnswers, [Next]_vars
  PROVE  AnswerInv'
<1>1. /\ Len(fifo) \in Nat /\ Len(owed) \in Nat /\ Len(fifo) + Len(owed) <= FlushLen
      /\ fifo \in Seq(Nat) /\ owed \in Seq(Nat) /\ received \in Nat
      /\ FlushLen \in Nat
  BY UnreadOfRunning DEF AnswerInv, WireKinds
<1>2. ASSUME NEW s \in Scripts, NEW wait \in BOOLEAN, Start(s, wait) PROVE AnswerInv'
  BY <1>1, <1>2
  DEF Start, AnswerInv, WireKinds, AtStart, UnreadBounded, UnreadMatch, AnswersMatch
<1>3. CASE SyncReturns \/ LoopFails
  <2>1. /\ control = "loop" /\ control' # "start"
        /\ UNCHANGED <<script, status, index, received, armed, busy, started, fifo, owed, got>>
    BY <1>3 DEF SyncReturns, LoopFails, state, wire
  <2> QED
    BY <2>1 DEF AnswerInv, WireKinds, AtStart, UnreadBounded, UnreadMatch, AnswersMatch,
                ReadSoFar, Buf
<1>4. CASE RunOut
  BY <1>4, OutAnswers
<1>5. CASE RunIn \/ RunInAtOnce
  BY <1>5, InAnswers
<1>6. CASE RunOutIn \/ RunNone
  <2>1. /\ Runnable /\ Buf.dir \in {"OUT_IN", "NONE"} /\ control' = "loop"
        /\ UNCHANGED <<script, started, received, wire>>
        /\ \/ \E ok \in BOOLEAN : NextBuf(ok, Entries)
           \/ CmdEnd("error")
           \/ Buf.dir = "NONE" /\ status' = "waiting" /\ UNCHANGED <<index, busy>>
    BY <1>6 DEF RunOutIn, RunNone, BackInLoop
  <2>2. /\ busy /\ script \in Scripts /\ Entries \in Nat
        /\ Buf.dir = "OUT_IN" => status \in {"initialized", "retrying"}
    BY <2>1, RunnableBuffer DEF Runnable, Entries, IInv, Kinds
  <2>3. control # "start"
    <3>1. script[1].dir = "OUT"
      BY <2>2, FirstBuffer
    <3> QED
      BY <2>1, <3>1 DEF AnswerInv, AtStart, Buf
  <2> QED
    BY <2>1, <2>2, <2>3, QuietAnswers DEF Over
<1>7. CASE TimerFires
  <2>1. /\ control = "loop" /\ armed > 0
        /\ UNCHANGED <<caller, script, received, wire>>
        /\ \/ Buf.dir = "NONE" /\ NextBuf(TRUE, armed - 1)
           \/ CmdEnd("timeout")
    BY <1>7 DEF TimerFires
  <2>2. busy /\ armed - 1 \in Nat
    BY <2>1 DEF IInv, Kinds, TimerWhileWaiting, ReportedOnce, Over
  <2>3. control' # "start" /\ started' = started
    BY <2>1 DEF caller
  <2> QED
    BY <2>1, <2>2, <2>3, QuietAnswers DEF Over
<1>8. CASE InterfaceEvent
  <2>1. /\ control = "loop" /\ control' = control
        /\ UNCHANGED <<script, index, received, busy, started, owed, got>>
        /\ \/ status = "waiting" /\ status' = "ready" /\ fifo' = fifo
           \/ status \in {"ok", "error"} /\ fifo' = Drop(FlushLen) /\ status' = status
    BY <1>8 DEF InterfaceEvent, caller
  <2>2. CASE status = "waiting" /\ status' = "ready" /\ fifo' = fifo
    BY <2>1, <2>2 DEF AnswerInv, WireKinds, AtStart, UnreadBounded, UnreadMatch, AnswersMatch,
                      ReadSoFar, Buf
  <2>3. CASE status \in {"ok", "error"} /\ fifo' = Drop(FlushLen) /\ status' = status
    <3>1. ~busy
      BY <2>3 DEF IInv, ReportedOnce, Over
    <3>2. fifo' \in Seq(Nat) /\ Len(fifo') \in Nat /\ Len(fifo') <= Len(fifo)
      BY <1>1, <2>3, DropTakes
    <3>3. \A i \in 1 .. Len(fifo') : fifo'[i] = started
      BY <1>1, <2>1, <2>3, DropMatches DEF AnswerInv, UnreadMatch
    <3>4. Len(fifo') + Len(owed') <= FlushLen
      BY <1>1, <2>1, <3>2
    <3> QED
      BY <2>1, <2>3, <3>1, <3>2, <3>3, <3>4
      DEF AnswerInv, WireKinds, AtStart, UnreadBounded, UnreadMatch, AnswersMatch
  <2> QED
    BY <2>1, <2>2, <2>3
<1>9. CASE Answer
  <2>1. /\ owed # <<>> /\ owed' = Tail(owed)
        /\ fifo' = Append(fifo, Head(owed)) \/ fifo' = fifo
        /\ UNCHANGED <<script, status, index, received, busy, control, started, got>>
    BY <1>9 DEF Answer, state, caller
  <2>2. control # "start"
    BY <2>1 DEF AnswerInv, AtStart
  <2>3. /\ owed' \in Seq(Nat) /\ Len(owed') = Len(owed) - 1 /\ Len(owed) >= 1
        /\ \A i \in 1 .. Len(owed') : owed'[i] = owed[i + 1]
        /\ Head(owed) = owed[1] /\ owed[1] \in Nat
    BY <1>1, <2>1
  <2>4. /\ \A i \in 1 .. Len(fifo) : fifo[i] = started
        /\ \A i \in 1 .. Len(owed) : owed[i] = started
    BY <2>2 DEF AnswerInv, UnreadMatch
  <2>5. \A i \in 1 .. Len(owed') : owed'[i] = started
    BY <1>1, <2>3, <2>4
  <2>6. /\ fifo' \in Seq(Nat) /\ Len(fifo') \in Nat /\ Len(fifo') <= Len(fifo) + 1
        /\ \A i \in 1 .. Len(fifo') : fifo'[i] = started
    <3>1. owed[1] = started
      BY <1>1, <2>3, <2>4
    <3>2. CASE fifo' = fifo
      BY <1>1, <2>4, <3>2
    <3>3. CASE fifo' = Append(fifo, owed[1])
      <4>1. /\ fifo' \in Seq(Nat) /\ Len(fifo') = Len(fifo) + 1
            /\ \A i \in 1 .. Len(fifo') :
                 fifo'[i] = IF i = Len(fifo) + 1 THEN owed[1] ELSE fifo[i]
        BY <1>1, <2>3, <3>3
      <4>2. Len(fifo') \in Nat /\ Len(fifo') <= Len(fifo) + 1
        BY ONLY <1>1, <4>1
      <4>3. ASSUME NEW i \in 1 .. Len(fifo') PROVE fifo'[i] = started
        <5>1. i # Len(fifo) + 1 => i \in 1 .. Len(fifo)
          BY ONLY <1>1, <4>1, i \in 1 .. Len(fifo')
        <5> QED
          BY <2>4, <3>1, <4>1, <5>1
      <4> QED
        BY <4>1, <4>2, <4>3
    <3> QED
      BY <2>1, <2>3, <3>2, <3>3
  <2>7. ReadSoFar' = ReadSoFar /\ Buf' = Buf
    BY <2>1 DEF ReadSoFar, Buf
  <2>8. Len(fifo') + Len(owed') <= Len(fifo) + Len(owed)
    BY <1>1, <2>3, <2>6
  <2>9. UnreadBounded'
    <3>1. CASE busy
      <4>1. /\ Len(fifo) + Len(owed) + ReadSoFar <= DueOf(script)[index]
            /\ DueOf(script)[index] \in Nat /\ ReadSoFar \in Nat
        BY <2>2, <3>1, UnreadOfRunning, DueBounds
      <4>2. Len(owed') \in Nat
        BY <2>3
      <4>3. Len(fifo') + Len(owed') + ReadSoFar' <= DueOf(script')[index']
        BY <1>1, <2>1, <2>6, <2>7, <2>8, <4>1, <4>2
      <4> QED
        BY <2>1, <2>2, <3>1, <4>3 DEF UnreadBounded
    <3>2. CASE ~busy
      <4>1. Len(fifo') + Len(owed') <= FlushLen
        BY <1>1, <2>3, <2>6, <2>8
      <4> QED
        BY <2>1, <3>2, <4>1 DEF UnreadBounded
    <3> QED
      BY <3>1, <3>2
  <2> QED
    BY <2>1, <2>2, <2>3, <2>5, <2>6, <2>7, <2>9
    DEF AnswerInv, WireKinds, AtStart, UnreadMatch, AnswersMatch
<1>10. CASE UNCHANGED vars
  BY <1>10 DEF vars, state, caller, wire, AnswerInv, WireKinds, AtStart, UnreadBounded,
               UnreadMatch, AnswersMatch, ReadSoFar, Buf
<1> QED
  BY <1>2, <1>3, <1>4, <1>5, <1>6, <1>7, <1>8, <1>9, <1>10 DEF Next

\* Nothing was sent and nothing read.
LEMMA AnswerInit == Init => AnswerInv
<1> SUFFICES ASSUME Init PROVE AnswerInv
  OBVIOUS
<1>1. fifo = <<>> /\ owed = <<>> /\ Len(fifo) = 0 /\ Len(owed) = 0 /\ FlushLen \in Nat
  BY BoundsOK DEF Init
<1>2. UnreadBounded
  BY <1>1 DEF Init, UnreadBounded
<1> QED
  BY <1>1, <1>2 DEF Init, AnswerInv, WireKinds, AtStart, UnreadMatch, AnswersMatch

-----------------------------------------------------------------------------
(* Theorems *)

\* The completed callback runs once for every command.
THEOREM CallbackRunsOnce == ASSUME ExchangesUntimed PROVE Spec => []ReportedOnce
<1>1. IInv => ReportedOnce
  BY DEF IInv
<1> QED
  BY <1>1, Invariance, PTL

\* The timer of a command is in the list exactly while it waits at a buffer
\* with a timeout.
THEOREM TimerIffWaiting == ASSUME ExchangesUntimed PROVE Spec => []TimerWhileWaiting
<1>1. IInv => TimerWhileWaiting
  BY DEF IInv
<1> QED
  BY <1>1, Invariance, PTL

\* A command never runs past its last buffer.
THEOREM NeverPastScript == ASSUME ExchangesUntimed PROVE Spec => []InsideScript
<1>1. IInv => InsideScript
  BY DEF IInv
<1> QED
  BY <1>1, Invariance, PTL

\* A command reads no answer to another one: whatever a command that failed or
\* timed out left unread is gone when the answer to the next is read, because
\* dfu_cmd_start() flushes the interface once before it sends.  The device must
\* have sent all it will send by then, and leave no more than dummy_buf holds.
THEOREM NoForeignAnswer ==
  ASSUME ExchangesUntimed, FlushSuffices, ~LateAnswers
  PROVE  Spec => []AnswersMatch
<1>1. Init => AnswerInv
  BY AnswerInit
<1>2. IInv /\ AnswerInv /\ [Next]_vars => AnswerInv'
  BY AnswerStep
<1>3. AnswerInv => AnswersMatch
  BY DEF AnswerInv
<1> QED
  BY <1>1, <1>2, <1>3, Invariance, PTL DEF Spec
=============================================================================
