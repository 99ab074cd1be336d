---------------------------- MODULE ClockProofs ----------------------------
(***************************************************************************)
(* Whoever keeps the clock keeps the real time, and the next tick is at    *)
(* most one period away: for every width of Count and of the milliseconds, *)
(* every period and every length of a critical section, as long as no      *)
(* U-Boot program runs for longer than about half a wrap of Count.         *)
(*                                                                         *)
(* Both need a bound on how far Count has run ahead of the place where the *)
(* clock was last looked after: a Count that laps it would lose a wrap.    *)
(***************************************************************************)
EXTENDS Clock, TLAPS

\* The remainder of a number at most one modulus away from the range.
LEMMA ModNear ==
  ASSUME NEW k \in Nat \ {0}, NEW a \in Int
  PROVE  /\ 0 <= a /\ a < k => a % k = a
         /\ -k <= a /\ a < 0 => a % k = a + k
         /\ k <= a /\ a < 2 * k => a % k = a - k
<1>1. ASSUME 0 <= a, a < k PROVE a % k = a
  BY <1>1
<1>2. ASSUME -k <= a, a < 0 PROVE a % k = a + k
  BY <1>2
<1>3. ASSUME k <= a, a < 2 * k PROVE a % k = a - k
  BY <1>3
<1> QED
  BY <1>1, <1>2, <1>3

\* Division with remainder.
LEMMA DivMod ==
  ASSUME NEW k \in Nat \ {0}, NEW a \in Int
  PROVE  a % k \in 0..(k - 1) /\ a \div k \in Int /\ a = k * (a \div k) + (a % k)
  OBVIOUS

\* Quotient and remainder are unique.
LEMMA ModUnique ==
  ASSUME NEW k \in Nat \ {0}, NEW q \in Int, NEW r \in Int, 0 <= r, r < k
  PROVE  (k * q + r) % k = r /\ (k * q + r) \div k = q
  OBVIOUS

\* Multiples of the modulus do not change the remainder.
LEMMA ModShift ==
  ASSUME NEW k \in Nat \ {0}, NEW q \in Int, NEW a \in Int
  PROVE  (a + k * q) % k = a % k /\ (a + k * q) \div k = (a \div k) + q
<1> DEFINE r == a % k
           d == a \div k
<1>1. r \in 0..(k - 1) /\ d \in Int /\ a = k * d + r
  BY DivMod
<1>2. a + k * q = k * (d + q) + r
  <2> HIDE DEF r, d
  <2> QED
    BY <1>1
<1>3. (k * (d + q) + r) % k = r /\ (k * (d + q) + r) \div k = d + q
  <2> HIDE DEF r, d
  <2> QED
    BY <1>1, ModUnique
<1> QED
  BY <1>2, <1>3

\* A sum may be reduced early.
LEMMA ModAdd ==
  ASSUME NEW k \in Nat \ {0}, NEW a \in Int, NEW b \in Int
  PROVE  ((a % k) + b) % k = (a + b) % k
<1> DEFINE r == a % k
           d == a \div k
<1>1. r \in 0..(k - 1) /\ d \in Int /\ a = k * d + r
  BY DivMod
<1> DEFINE s == r + b
<1>2. s \in Int /\ a + b = s + k * d
  <2> HIDE DEF r, d
  <2> QED
    BY <1>1
<1>3. (s + k * d) % k = s % k
  <2> HIDE DEF r, d, s
  <2> QED
    BY <1>1, <1>2, ModShift
<1> QED
  BY <1>2, <1>3

\* Counting on by one.
LEMMA DivStep ==
  ASSUME NEW k \in Nat \ {0}, NEW a \in Nat
  PROVE  /\ (a + 1) % k = IF (a % k) + 1 = k THEN 0 ELSE (a % k) + 1
         /\ (a + 1) \div k = (a \div k) + (IF (a % k) + 1 = k THEN 1 ELSE 0)
  OBVIOUS

\* The whole multiples in a number, and what taking some of them leaves.
LEMMA DivSub ==
  ASSUME NEW k \in Nat \ {0}, NEW a \in Nat
  PROVE  /\ a \div k \in Nat
         /\ (a \div k) * k <= a
         /\ a - (a \div k) * k = a % k
         /\ \A q \in Nat : (a - q * k) % k = a % k /\ (a - q * k) \div k = (a \div k) - q
<1>1. a \div k \in Nat /\ (a \div k) * k <= a /\ a - (a \div k) * k = a % k
  OBVIOUS
<1>2. ASSUME NEW q \in Nat
      PROVE  (a - q * k) % k = a % k /\ (a - q * k) \div k = (a \div k) - q
  <2>1. -q \in Int /\ a - q * k = a + k * (-q)
    OBVIOUS
  <2>2. (a + k * (-q)) % k = a % k /\ (a + k * (-q)) \div k = (a \div k) + (-q)
    <3> DEFINE p == -q
    <3>1. p \in Int /\ a \in Int
      OBVIOUS
    <3> HIDE DEF p
    <3>2. (a + k * p) % k = a % k /\ (a + k * p) \div k = (a \div k) + p
      BY <3>1, ModShift, Zenon
    <3> QED
      BY <3>2 DEF p
  <2>3. a \div k \in Int
    BY DivMod
  <2> QED
    BY <2>1, <2>2, <2>3
<1> QED
  BY <1>1, <1>2

\* The U-Boot programs are short: when the tick is taken again Compare is less
\* than half a wrap behind its next value, and Count has not lapped tm_count.
ShortPrograms ==
  /\ MaxLegacy + MaxOff <= M \div 2 + Period
  /\ Period + Jiffy + 3 * MaxOff + MaxLegacy <= M

\* The longest time a tick can be overdue before its handler begins.
Overdue == IF MaxLegacy > MaxOff THEN MaxLegacy ELSE MaxOff

\* The most that is uncounted when a tick is due.
Slack == Jiffy - 1 + Period + 2 * MaxOff

ToCompare == (compare - count) % M
PastCompare == (count - compare) % M

\* Who runs when.
Shape ==
  /\ patched = (mode # "uboot")
  /\ mode = "uboot" => pc \in {"run", "own"}
  /\ mode = "owned" => pc \in {"run", "start", "startck"}
  /\ mode = "rtos" => pc \in {"run", "isr", "isrck", "hook"}
  /\ mode \in {"legacy", "ended"} => pc = "run"
  /\ in_tm => mode \in {"owned", "rtos", "legacy"} /\ pc = "run" /\ (mode = "rtos" => ~ien)
  /\ pc = "own" => tm_ms = stamp
  /\ off <= IF mode = "legacy" THEN MaxLegacy ELSE MaxOff

\* What is uncounted where no tick runs.
UntickedLag ==
  /\ mode = "uboot" => Rest <= Jiffy - 1 + off
  /\ mode = "owned" => Rest <= Jiffy - 1 + MaxOff + off
  /\ mode = "ended" \/ pc \in {"isr", "isrck", "hook"} => Rest <= Slack + Overdue + off

\* What is uncounted where one does: the tick is ahead, or latched.
TickedLag ==
  mode \in {"rtos", "legacy"} /\ pc = "run" =>
    /\ ~ti => ToCompare \in 1..Period /\ Rest + ToCompare <= Slack
    /\ ti => /\ Rest <= Slack + PastCompare
             /\ PastCompare < off + (IF mode = "legacy" THEN 0 ELSE Overdue)

\* A task in tm_get_timer adds no more than has passed.
TmLag ==
  in_tm => /\ n * Jiffy <= Rest
           /\ mode = "owned" => Rest - n * Jiffy <= Jiffy - 1 + off

\* prvSetCompare: the value is ahead, and then no tick has been latched since it
\* was written, or it is less than half a wrap behind.
SetCompareInv ==
  /\ pc \in {"start", "startck", "isr", "isrck"} =>
       \/ /\ (next - count) % M \in 1..Period
          /\ Period <= ((next - count) % M) + Overdue + off
          /\ pc \in {"startck", "isrck"} => ~ti
       \/ (count - next) % M <= Overdue + off - Period
  /\ pc \in {"startck", "isrck"} => compare = next
  /\ pc = "hook" => /\ ~ti => ToCompare \in 1..Period
                    /\ ti => PastCompare < off

LagInv == UntickedLag /\ TickedLag /\ TmLag /\ SetCompareInv
IInv == TypeOK /\ Shape /\ LagInv /\ KeepsTime

----------------------------------------------------------------------------
(* Numbers.                                                                *)

LEMMA Numbers ==
  /\ M \in Nat \ {0} /\ MsMod \in Nat \ {0} /\ Jiffy \in Nat \ {0}
  /\ Period \in Nat \ {0} /\ MaxOff \in Nat \ {0} /\ MaxLegacy \in Nat \ {0}
  /\ M \div 2 \in Nat /\ M = 2 * (M \div 2)
  /\ Period + Jiffy + 3 * MaxOff < M \div 2
  BY ClockAssumption

LEMMA Positive == M \in Nat \ {0} /\ MsMod \in Nat \ {0} /\ Jiffy \in Nat \ {0}
  BY Numbers

\* Any remainder is in range.
LEMMA InRange ==
  ASSUME NEW x \in Int
  PROVE  x % M \in Counts /\ x % MsMod \in Millis /\ x % Jiffy \in 0..(Jiffy - 1)
  BY Numbers, DivMod DEF Counts, Millis

\* Flags and numbers are proved apart.
FlagType ==
  /\ ti \in BOOLEAN /\ ien \in BOOLEAN /\ patched \in BOOLEAN
  /\ in_tm \in BOOLEAN /\ st \in BOOLEAN

PlaceType ==
  /\ mode \in {"uboot", "owned", "rtos", "legacy", "ended"}
  /\ pc \in {"run", "own", "start", "startck", "isr", "isrck", "hook"}

CountType ==
  /\ count \in Counts /\ compare \in Counts /\ next \in Counts /\ tm_count \in Counts
  /\ off \in Nat /\ n \in Nat

MilliType ==
  /\ true_ms \in Millis /\ stamp \in Millis /\ tm_ms \in Millis
  /\ true_sub \in 0..(Jiffy - 1)

LEMMA TypeParts ==
  /\ TypeOK <=> FlagType /\ PlaceType /\ CountType /\ MilliType
  /\ TypeOK' <=> FlagType' /\ PlaceType' /\ CountType' /\ MilliType'
  BY DEF TypeOK, FlagType, PlaceType, CountType, MilliType

LEMMA TypeInit == Init => TypeOK
<1> SUFFICES ASSUME Init PROVE TypeOK
  OBVIOUS
<1>1. FlagType /\ PlaceType
  BY DEF Init, FlagType, PlaceType
<1>2. CountType
  BY Numbers DEF Init, CountType, Counts
<1>3. MilliType
  BY Numbers DEF Init, MilliType, Millis
<1> QED
  BY <1>1, <1>2, <1>3, TypeParts

LEMMA FlagTypeNext == TypeOK /\ [Next]_vars => FlagType' /\ PlaceType'
<1> SUFFICES ASSUME FlagType, PlaceType, [Next]_vars PROVE FlagType' /\ PlaceType'
  BY TypeParts
<1> USE DEF FlagType, PlaceType, tmVars, timeVars
<1>1. CASE Pass
  BY <1>1 DEF Pass
<1>2. CASE DisableInterrupts \/ EnableInterrupts
  BY <1>2 DEF DisableInterrupts, EnableInterrupts
<1>3. CASE EndScheduler \/ LegacyBegin \/ LegacyEnd
  BY <1>3 DEF EndScheduler, LegacyBegin, LegacyEnd
<1>4. CASE TickBegin \/ StartScheduler
  BY <1>4 DEF TickBegin, StartScheduler
<1>5. CASE TickWrite \/ StartWrite
  BY <1>5 DEF TickWrite, StartWrite, SetCompareWrite, WriteCompare
<1>6. CASE TickCheck
  BY <1>6 DEF TickCheck, SetCompareCheck
<1>7. CASE StartCheck
  BY <1>7 DEF StartCheck, SetCompareCheck, Ahead
<1>8. CASE TickHook
  BY <1>8 DEF TickHook
<1>9. CASE UbootGetTimer \/ OwnBegin
  BY <1>9 DEF UbootGetTimer, OwnBegin, UbootUpdate, WriteCompare
<1>10. CASE TmGetTimer
  BY <1>10 DEF TmGetTimer, TmMask
<1>11. CASE TmDone
  BY <1>11 DEF TmDone
<1>12. CASE OwnEnd \/ Release
  BY <1>12 DEF OwnEnd, Release, WriteCompare
<1>13. CASE UNCHANGED vars
  BY <1>13 DEF vars
<1> QED
  BY <1>1, <1>2, <1>3, <1>4, <1>5, <1>6, <1>7, <1>8, <1>9, <1>10, <1>11, <1>12, <1>13 DEF Next

\* The operators are numbers.
LEMMA OperatorTypes ==
  ASSUME TypeOK
  PROVE  /\ Passed \in Nat /\ Expired \in Nat
         /\ \A d \in Nat : TmAdd(d) => tm_ms' \in Millis /\ tm_count' \in Counts
<1>1. Counts \subseteq Int /\ Millis \subseteq Int /\ count \in Int /\ compare \in Int /\ tm_count \in Int
  BY TypeParts DEF Counts, Millis, CountType
<1>2. (count - tm_count) % M \in Nat /\ (count - compare) % M \in Nat
  <2>1. count - tm_count \in Int /\ count - compare \in Int
    BY <1>1
  <2> QED
    BY <2>1, InRange DEF Counts
<1>3. Passed \in Nat
  BY <1>2, Numbers, DivSub DEF Passed
<1>4. Expired \in Nat
  <2>1. ((count - compare) % M) \div Jiffy \in Nat
    BY <1>2, Numbers, DivSub
  <2> QED
    BY <2>1 DEF Expired
<1>5. ASSUME NEW d \in Nat, TmAdd(d) PROVE tm_ms' \in Millis /\ tm_count' \in Counts
  <2>1. d * Jiffy \in Int
    BY Numbers
  <2>2. tm_ms \in Int
    BY <1>1, TypeParts DEF MilliType
  <2>3. tm_ms + d \in Int /\ tm_count + d * Jiffy \in Int
    BY <1>1, <2>1, <2>2
  <2> QED
    BY <1>5, <2>3, InRange DEF TmAdd
<1> QED
  BY <1>3, <1>4, <1>5

LEMMA ValueTypeNext == TypeOK /\ [Next]_vars => CountType' /\ MilliType'
<1> SUFFICES ASSUME TypeOK, [Next]_vars PROVE CountType' /\ MilliType'
  OBVIOUS
<1>0. /\ CountType /\ MilliType /\ Counts \subseteq Int /\ Millis \subseteq Int /\ 0 \in Counts
      /\ count \in Int /\ compare \in Int /\ next \in Int /\ stamp \in Int /\ true_ms \in Int
      /\ true_sub \in Int
      /\ compare + Period \in Int /\ count + Period \in Int /\ compare - Jiffy \in Int
  BY TypeParts, Numbers DEF Counts, Millis, CountType, MilliType
<1> USE DEF tmVars, timeVars
<1>1. CASE Pass
  <2>1. count' \in Counts /\ true_sub' \in 0..(Jiffy - 1) /\ true_ms' \in Millis
    BY <1>0, <1>1, InRange DEF Pass, MilliType
  <2> QED
    BY <1>0, <1>1, <2>1 DEF Pass, CountType, MilliType
<1>2. CASE DisableInterrupts \/ EnableInterrupts \/ EndScheduler \/ LegacyBegin \/ LegacyEnd
  BY <1>0, <1>2 DEF DisableInterrupts, EnableInterrupts, EndScheduler, LegacyBegin, LegacyEnd,
                    CountType, MilliType
<1>3. CASE TickBegin \/ StartScheduler
  <2>1. (compare + Period) % M \in Counts /\ (count + Period) % M \in Counts
    BY <1>0, InRange
  <2> QED
    BY <1>0, <1>3, <2>1 DEF TickBegin, StartScheduler, CountType, MilliType
<1>4. CASE TickWrite \/ StartWrite
  BY <1>0, <1>4, InRange DEF TickWrite, StartWrite, SetCompareWrite, WriteCompare, CountType, MilliType
<1>5. CASE TickCheck \/ StartCheck
  <2>1. (count + Period) % M \in Counts
    BY <1>0, InRange
  <2> QED
    BY <1>0, <1>5, <2>1 DEF TickCheck, StartCheck, SetCompareCheck, CountType, MilliType
<1>6. CASE TickHook
  BY <1>0, <1>6, OperatorTypes DEF TickHook, CountType, MilliType
<1>7. ASSUME UbootUpdate PROVE stamp' \in Millis /\ compare' \in Counts
  <2>1. Expired * Jiffy \in Int /\ Expired \in Int
    BY Numbers, OperatorTypes
  <2>2. stamp + Expired \in Int /\ compare + Expired * Jiffy \in Int
    BY <1>0, <2>1
  <2> QED
    BY <1>7, <2>2, InRange DEF UbootUpdate, WriteCompare
<1>8. CASE UbootGetTimer \/ OwnBegin
  BY <1>0, <1>7, <1>8 DEF UbootGetTimer, OwnBegin, CountType, MilliType
<1>9. CASE TmGetTimer
  BY <1>0, <1>9, OperatorTypes DEF TmGetTimer, CountType, MilliType
<1>10. CASE TmDone
  BY <1>0, <1>10, OperatorTypes DEF TmDone, CountType, MilliType
<1>11. CASE OwnEnd
  <2>1. (compare - Jiffy) % M \in Counts
    BY <1>0, InRange
  <2> QED
    BY <1>0, <1>11, <2>1 DEF OwnEnd, CountType, MilliType
<1>12. CASE Release
  <2>1. tm_ms' \in Millis /\ tm_count' \in Counts
    BY <1>12, OperatorTypes DEF Release
  <2>2. (tm_count' + Jiffy) % M \in Counts
    BY <1>0, <2>1, Numbers, InRange
  <2> QED
    BY <1>0, <1>12, <2>1, <2>2 DEF Release, WriteCompare, CountType, MilliType
<1>13. CASE UNCHANGED vars
  BY <1>0, <1>13 DEF vars, CountType, MilliType
<1> QED
  BY <1>1, <1>2, <1>3, <1>4, <1>5, <1>6, <1>8, <1>9, <1>10, <1>11, <1>12, <1>13 DEF Next

\* Every counter of the clock keeps its width and every place its meaning.
THEOREM TypeCorrect == Spec => []TypeOK
<1>1. TypeOK /\ [Next]_vars => TypeOK'
  BY FlagTypeNext, ValueTypeNext, TypeParts
<1> QED
  BY <1>1, TypeInit, PTL DEF Spec

----------------------------------------------------------------------------
(* Distances on the wheel of Count.                                        *)

LEMMA Distance ==
  ASSUME NEW a \in Counts, NEW b \in Counts
  PROVE  (a - b) % M = (IF a >= b THEN a - b ELSE a - b + M) /\ (a - b) % M \in 0..(M - 1)
<1>1. a \in Int /\ b \in Int /\ 0 <= a /\ a < M /\ 0 <= b /\ b < M /\ a - b \in Int
  BY Numbers DEF Counts
<1>2. CASE a >= b
  <2>1. 0 <= a - b /\ a - b < M
    BY <1>1, <1>2, Numbers
  <2>2. (a - b) % M = a - b
    BY <1>1, <2>1, Numbers, ModNear
  <2> QED
    BY <1>1, <1>2, <2>1, <2>2, Numbers
<1>3. CASE ~(a >= b)
  <2>1. -M <= a - b /\ a - b < 0
    BY <1>1, <1>3, Numbers
  <2>2. (a - b) % M = a - b + M
    BY <1>1, <2>1, Numbers, ModNear
  <2> QED
    BY <1>1, <1>3, <2>1, <2>2, Numbers
<1> QED
  BY <1>2, <1>3

\* One way round and the other.
LEMMA Opposite ==
  ASSUME NEW a \in Counts, NEW b \in Counts
  PROVE  (a - b) % M = IF (b - a) % M = 0 THEN 0 ELSE M - ((b - a) % M)
<1>1. a \in Int /\ b \in Int /\ 0 <= a /\ a < M /\ 0 <= b /\ b < M
  BY Numbers DEF Counts
<1>2. /\ (a - b) % M = (IF a >= b THEN a - b ELSE a - b + M)
      /\ (b - a) % M = (IF b >= a THEN b - a ELSE b - a + M)
  BY Distance
<1> QED
  BY <1>1, <1>2, Numbers

\* A sum of a place and a distance.
LEMMA Forward ==
  ASSUME NEW a \in Counts, NEW d \in Nat, d <= M
  PROVE  (a + d) % M = (IF a + d < M THEN a + d ELSE (a + d) - M) /\ (a + d) % M \in Counts
<1> DEFINE e == a + d
<1>1. e \in Int /\ 0 <= e /\ e < 2 * M /\ M \in Nat \ {0}
  BY Numbers DEF Counts
<1> HIDE DEF e
<1>2. e % M \in Counts
  BY <1>1, InRange
<1>3. CASE e < M
  <2>1. e % M = e
    BY <1>1, <1>3, ModNear
  <2> QED
    BY <1>2, <1>3, <2>1 DEF e
<1>4. CASE ~(e < M)
  <2>1. M <= e
    BY <1>1, <1>4
  <2>2. e % M = e - M
    BY <1>1, <2>1, ModNear
  <2>3. e % M = (IF e < M THEN e ELSE e - M) /\ e % M \in Counts
    BY <1>2, <1>4, <2>2
  <2> QED
    BY <2>3 DEF e
<1> QED
  BY <1>3, <1>4

\* What a step of Count does to the distance of a fixed place.
LEMMA DistanceStep ==
  ASSUME TypeOK, NEW x \in Counts, count' = (count + 1) % M
  PROVE  /\ ((count - x) % M) + 1 < M => (count' - x) % M = ((count - x) % M) + 1
         /\ (x - count) % M >= 1 => (x - count') % M = ((x - count) % M) - 1
         /\ (count' = x) <=> ((x - count) % M = 1)
         /\ (count' = x) => (count' - x) % M = 0
<1>1. /\ count \in Counts /\ count \in Int /\ 0 <= count /\ count < M
      /\ x \in Int /\ 0 <= x /\ x < M
  BY TypeParts, Numbers DEF Counts, CountType
<1>2. /\ count' = (IF count + 1 < M THEN count + 1 ELSE count + 1 - M)
      /\ count' \in Counts
  BY <1>1, Numbers, Forward
<1>3. count' \in Int
  BY <1>2 DEF Counts
<1> DEFINE c == count'
<1>4. /\ c \in Counts /\ c \in Int
      /\ c = IF count + 1 < M THEN count + 1 ELSE count + 1 - M
  BY <1>2, <1>3
<1> HIDE DEF c
<1>5. /\ (c - x) % M = (IF c >= x THEN c - x ELSE c - x + M)
      /\ (x - c) % M = (IF x >= c THEN x - c ELSE x - c + M)
      /\ (count - x) % M = (IF count >= x THEN count - x ELSE count - x + M)
      /\ (x - count) % M = (IF x >= count THEN x - count ELSE x - count + M)
  BY <1>1, <1>4, Distance
<1>6. M >= 2
  BY Numbers
<1>7. /\ ((count - x) % M) + 1 < M => (c - x) % M = ((count - x) % M) + 1
      /\ (x - count) % M >= 1 => (x - c) % M = ((x - count) % M) - 1
      /\ (c = x) <=> ((x - count) % M = 1)
      /\ (c = x) => (c - x) % M = 0
  BY <1>1, <1>4, <1>5, <1>6, Numbers
<1> QED
  BY <1>7 DEF c

\* Where the milliseconds that have been counted end.
Base == IF patched THEN tm_count ELSE (compare - Jiffy) % M

LEMMA JiffyBefore ==
  ASSUME NEW c \in Counts, NEW x \in Counts
  PROVE  (x - Jiffy) % M \in Counts /\ (c - ((x - Jiffy) % M)) % M = (c - (x - Jiffy)) % M
<1> DEFINE b == x - Jiffy
<1>1. c \in Int /\ b \in Int /\ -M <= b /\ b < M
  BY Numbers DEF Counts
<1>2. b % M \in Counts /\ (b % M = b \/ b % M = b + M)
  <2> HIDE DEF b
  <2>1. 0 <= b \/ b < 0
    BY <1>1
  <2>2. b % M \in Counts
    BY <1>1, InRange
  <2> QED
    BY <1>1, <2>1, <2>2, Positive, ModNear
<1>3. CASE b % M = b
  BY <1>2, <1>3
<1>4. CASE b % M = b + M
  <2>1. c - (b % M) = (c - b) + M * (-1)
    BY <1>1, <1>4, Numbers
  <2>2. c - b \in Int /\ -1 \in Int
    BY <1>1
  <2>3. ((c - b) + M * (-1)) % M = (c - b) % M
    BY <2>2, Numbers, ModShift
  <2> QED
    BY <1>2, <2>1, <2>3
<1> QED
  BY <1>2, <1>3, <1>4

LEMMA RestIs ==
  ASSUME TypeOK
  PROVE  Base \in Counts /\ Rest = (count - Base) % M
<1>1. count \in Counts /\ compare \in Counts /\ tm_count \in Counts /\ patched \in BOOLEAN
  BY TypeParts DEF CountType, FlagType
<1> QED
  BY <1>1, JiffyBefore DEF Base, Rest

LEMMA LagTypes ==
  ASSUME TypeOK
  PROVE  /\ Rest \in 0..(M - 1) /\ Rest \in Nat
         /\ ToCompare \in 0..(M - 1) /\ PastCompare \in 0..(M - 1)
         /\ ToCompare = IF PastCompare = 0 THEN 0 ELSE M - PastCompare
<1>1. count \in Counts /\ compare \in Counts
  BY TypeParts DEF CountType
<1>2. Rest \in 0..(M - 1)
  BY <1>1, RestIs, Distance
<1> QED
  BY <1>1, <1>2, Distance, Opposite DEF ToCompare, PastCompare

\* The real time that a number of milliseconds and an uncounted rest stand for.
RealTime(ms, rest) == true_ms = (ms + rest \div Jiffy) % MsMod /\ true_sub = rest % Jiffy

\* Milliseconds may be moved from the rest to the count.
LEMMA MoveMillis ==
  ASSUME NEW ms \in Nat, NEW rest \in Nat, NEW d \in Nat, d * Jiffy <= rest, RealTime(ms, rest)
  PROVE  RealTime((ms + d) % MsMod, rest - d * Jiffy)
<1> DEFINE q == rest \div Jiffy
           r == rest - d * Jiffy
<1>1. q \in Nat /\ r \div Jiffy = q - d /\ r % Jiffy = rest % Jiffy
  BY Positive, DivSub, Zenon
<1>2. (((ms + d) % MsMod) + (q - d)) % MsMod = (ms + q) % MsMod
  <2> HIDE DEF q
  <2>1. ms + d \in Int /\ q - d \in Int /\ (ms + d) + (q - d) = ms + q
    BY <1>1
  <2>2. (((ms + d) % MsMod) + (q - d)) % MsMod = ((ms + d) + (q - d)) % MsMod
    BY <2>1, Numbers, ModAdd
  <2> QED
    BY <2>1, <2>2
<1>3. true_ms = (ms + q) % MsMod /\ true_sub = rest % Jiffy
  BY DEF RealTime
<1> HIDE DEF q, r
<1>4. RealTime((ms + d) % MsMod, r)
  BY <1>1, <1>2, <1>3 DEF RealTime
<1> QED
  BY <1>4 DEF r

\* tm_now: d milliseconds of the rest are added.
LEMMA TmAddKeeps ==
  ASSUME TypeOK, patched, KeepsTime, NEW d \in Nat, d * Jiffy <= Rest, TmAdd(d)
  PROVE  /\ (count - tm_count') % M = Rest - d * Jiffy
         /\ RealTime(tm_ms', Rest - d * Jiffy)
<1>1. count \in Counts /\ tm_count \in Counts /\ tm_ms \in Nat
  BY TypeParts DEF CountType, MilliType, Millis
<1>2. Rest = (count - tm_count) % M /\ Rest \in 0..(M - 1) /\ Rest \in Nat
  BY LagTypes DEF Rest
<1>3. RealTime(tm_ms', Rest - d * Jiffy)
  <2>1. RealTime(tm_ms, Rest)
    BY DEF KeepsTime, Ms, RealTime
  <2> QED
    BY <1>1, <1>2, <2>1, MoveMillis DEF TmAdd
<1> DEFINE e == d * Jiffy
           b == (tm_count + e) % M
           rest == Rest
<1>4. e \in Nat /\ e <= rest /\ rest \in 0..(M - 1) /\ e <= M
  BY <1>2, Numbers
<1>5. /\ b = (IF tm_count + e < M THEN tm_count + e ELSE (tm_count + e) - M)
      /\ b \in Counts
  <2> HIDE DEF e
  <2> QED
    BY <1>1, <1>4, Forward
<1>6. rest = (IF count >= tm_count THEN count - tm_count ELSE count - tm_count + M)
  BY <1>1, <1>2, Distance
<1>7. (count - b) % M = (IF count >= b THEN count - b ELSE count - b + M)
  <2> HIDE DEF b
  <2> QED
    BY <1>1, <1>5, Distance
<1>8. (count - b) % M = rest - e
  <2> HIDE DEF e, b, rest
  <2>1. /\ count \in Int /\ 0 <= count /\ count < M /\ tm_count \in Int /\ 0 <= tm_count
        /\ tm_count < M /\ b \in Int
    BY <1>1, <1>5, Numbers DEF Counts
  <2> QED
    BY <1>4, <1>5, <1>6, <1>7, <2>1, Numbers
<1> QED
  BY <1>3, <1>8 DEF TmAdd

\* The whole milliseconds of the rest.
LEMMA PassedAll ==
  ASSUME TypeOK, patched
  PROVE  /\ Passed \in Nat /\ Passed * Jiffy <= Rest
         /\ Rest - Passed * Jiffy \in 0..(Jiffy - 1)
<1>1. Rest = (count - tm_count) % M /\ Rest \in Nat
  BY LagTypes DEF Rest
<1>2. Passed = Rest \div Jiffy
  BY <1>1 DEF Passed
<1>3. Rest % Jiffy \in 0..(Jiffy - 1)
  <2>1. Rest \in Int
    BY <1>1
  <2> QED
    BY <2>1, Positive, DivMod, Zenon
<1> QED
  BY <1>1, <1>2, <1>3, Numbers, DivSub

\* U-Boot's get_timer counts all whole milliseconds of its rest.
LEMMA UbootKeeps ==
  ASSUME TypeOK, ~patched, KeepsTime, Rest <= Jiffy - 1 + MaxOff, UbootUpdate
  PROVE  /\ (count - (compare' - Jiffy)) % M \in 0..(Jiffy - 1)
         /\ RealTime(stamp', (count - (compare' - Jiffy)) % M)
<1>1. /\ count \in Counts /\ compare \in Counts /\ stamp \in Nat
      /\ count \in Int /\ compare \in Int
      /\ 0 <= count /\ count < M /\ 0 <= compare /\ compare < M
  BY TypeParts, Numbers DEF CountType, MilliType, Millis, Counts
<1>2. Rest = (count - Base) % M /\ Rest \in 0..(M - 1) /\ Rest \in Nat
  BY LagTypes, RestIs
<1>3. RealTime(stamp, Rest)
  BY DEF KeepsTime, Ms, RealTime
<1> DEFINE rest == Rest
           past == (count - compare) % M
           base == (compare - Jiffy) % M
<1>4. base \in Counts /\ rest = (count - base) % M
  BY RestIs DEF Base
<1>5. rest = (IF count >= base THEN count - base ELSE count - base + M)
  <2> HIDE DEF base
  <2> QED
    BY <1>1, <1>4, Distance
<1>6. past = (IF count >= compare THEN count - compare ELSE count - compare + M)
  BY <1>1, Distance
<1>7. base = (IF compare >= Jiffy THEN compare - Jiffy ELSE compare - Jiffy + M)
  <2>1. Jiffy \in Counts
    BY Numbers DEF Counts
  <2> QED
    BY <1>1, <2>1, Distance
<1>8. past = (IF rest >= Jiffy THEN rest - Jiffy ELSE rest - Jiffy + M)
  <2> HIDE DEF rest, past, base
  <2>1. base \in Int /\ 0 <= base /\ base < M
    BY <1>4, Numbers DEF Counts
  <2> QED
    BY <1>1, <1>5, <1>6, <1>7, <2>1, Numbers
<1> DEFINE x == Expired
           e == x * Jiffy
<1>9. x = rest \div Jiffy /\ x \in Nat /\ e \in Nat /\ e <= rest /\ rest - e = rest % Jiffy
  <2>0. rest \in Nat /\ rest \div Jiffy \in Nat /\ (rest \div Jiffy) * Jiffy <= rest
        /\ rest - (rest \div Jiffy) * Jiffy = rest % Jiffy
    BY <1>2, Numbers, DivSub
  <2>1. x = rest \div Jiffy
    <3>1. CASE rest >= Jiffy
      <4>1. past < M \div 2 - 1
        <5> HIDE DEF past
        <5> QED
          BY <1>2, <1>8, <3>1, Numbers
      <4>2. (rest - 1 * Jiffy) \div Jiffy = (rest \div Jiffy) - 1
        <5>1. rest \in Nat /\ 1 \in Nat
          BY <1>2
        <5> QED
          BY <5>1, Positive, DivSub, Zenon
      <4>3. past = rest - 1 * Jiffy
        BY <1>8, <3>1, <1>2, Numbers
      <4>4. x = (past \div Jiffy) + 1
        BY <4>1 DEF Expired
      <4> QED
        BY <4>2, <4>3, <4>4, <2>0
    <3>2. CASE ~(rest >= Jiffy)
      <4>1. ~(past < M \div 2 - 1)
        <5> HIDE DEF past
        <5> QED
          BY <1>2, <1>8, <3>2, Numbers
      <4>2. x = 0
        BY <4>1 DEF Expired
      <4>3. rest \div Jiffy = 0
        BY <1>2, <3>2, Numbers
      <4> QED
        BY <4>2, <4>3
    <3> QED
      BY <3>1, <3>2
  <2>2. x \in Nat /\ e = (rest \div Jiffy) * Jiffy
    BY <2>0, <2>1
  <2>3. e \in Nat
    BY <2>0, <2>2, Positive
  <2> HIDE DEF x, rest, e
  <2> QED
    BY <2>0, <2>1, <2>2, <2>3
<1> DEFINE c == (compare + e) % M
<1>10. /\ c = (IF compare + e < M THEN compare + e ELSE (compare + e) - M)
       /\ c \in Counts /\ c = compare'
  <2>1. e \in Nat /\ e <= M
    BY <1>2, <1>9, Numbers
  <2>2. c = compare'
    BY DEF UbootUpdate, WriteCompare
  <2> HIDE DEF e
  <2> QED
    BY <1>1, <2>1, <2>2, Forward
<1>11. (count - (c - Jiffy)) % M = rest - e
  <2> DEFINE v == count - (c - Jiffy)
             w == rest - e
  <2> HIDE DEF e, x, c, rest
  <2>1. w \in Int /\ 0 <= w /\ w < M /\ v \in Int /\ (v = w \/ v = w + M \/ v = w - M)
    <3>1. base \in Int /\ 0 <= base /\ base < M /\ c \in Int
      BY <1>4, <1>10, Numbers DEF Counts
    <3> HIDE DEF base
    <3> QED
      BY <1>1, <1>2, <1>5, <1>7, <1>9, <1>10, <3>1, Numbers DEF rest
  <2> HIDE DEF v, w
  <2>2. v % M = w % M
    <3>1. v = w + M * 0 \/ v = w + M * 1 \/ v = w + M * (-1)
      BY <2>1, Numbers
    <3> QED
      BY <2>1, <3>1, Numbers, ModShift
  <2>3. w % M = w
    BY <2>1, Numbers, ModNear
  <2> QED
    BY <2>2, <2>3 DEF v, w
<1>12. RealTime(stamp', rest - e)
  <2>1. stamp' = (stamp + x) % MsMod
    BY DEF UbootUpdate
  <2> HIDE DEF x
  <2> QED
    BY <1>1, <1>2, <1>3, <1>9, <2>1, MoveMillis
<1>13. rest - e \in 0..(Jiffy - 1)
  <2>1. rest \in Int
    BY <1>2
  <2>2. rest % Jiffy \in 0..(Jiffy - 1)
    BY <2>1, Positive, DivMod, Zenon
  <2> QED
    BY <1>9, <2>2
<1> HIDE DEF c, e, x, rest
<1> QED
  BY <1>10, <1>11, <1>12, <1>13

----------------------------------------------------------------------------
(* The steps.                                                              *)

LEMMA OverdueType ==
  Overdue \in Nat \ {0} /\ Overdue >= MaxLegacy /\ Overdue >= MaxOff /\ Slack \in Nat
  BY Numbers DEF Overdue, Slack

\* Count never laps the place up to which the clock has counted.
LEMMA NeverLaps ==
  ASSUME ShortPrograms, TypeOK, Shape, LagInv, Pass
  PROVE  /\ Rest + 1 < M
         /\ mode \in {"rtos", "legacy"} /\ pc = "run" /\ ti => PastCompare + 1 < M
<1>1. /\ off \in Nat /\ Rest \in Nat /\ ToCompare \in Nat /\ PastCompare \in Nat /\ ti \in BOOLEAN
      /\ mode \in {"uboot", "owned", "rtos", "legacy", "ended"}
  BY LagTypes, TypeParts DEF CountType, PlaceType, FlagType
<1>2. off < (IF mode = "legacy" THEN MaxLegacy ELSE MaxOff) \/ (Unmasked /\ ~ti)
  BY DEF Pass
<1>3. Slack + Overdue + MaxOff < M
  BY Numbers DEF ShortPrograms, Slack, Overdue
<1>4. CASE mode = "uboot" \/ mode = "owned"
  BY <1>1, <1>2, <1>4, Numbers DEF LagInv, UntickedLag, Unmasked
<1>5. CASE mode = "ended" \/ (mode = "rtos" /\ pc # "run")
  <2>1. mode = "rtos" /\ pc # "run" => pc \in {"isr", "isrck", "hook"}
    BY DEF Shape
  <2> QED
    BY <1>1, <1>2, <1>3, <1>5, <2>1, Numbers, OverdueType DEF LagInv, UntickedLag, Unmasked
<1>6. CASE mode \in {"rtos", "legacy"} /\ pc = "run"
  <2>1. CASE ~ti
    BY <1>1, <1>3, <1>6, <2>1, Numbers, OverdueType DEF LagInv, TickedLag
  <2>2. CASE ti
    BY <1>1, <1>2, <1>3, <1>6, <2>2, Numbers, OverdueType DEF LagInv, TickedLag
  <2> QED
    BY <1>1, <2>1, <2>2
<1>7. mode = "legacy" => pc = "run"
  BY DEF Shape
<1> QED
  BY <1>1, <1>4, <1>5, <1>6, <1>7

\* What a count does to the distances.
LEMMA PassDistances ==
  ASSUME ShortPrograms, TypeOK, Shape, LagInv, Pass
  PROVE  /\ Rest' = Rest + 1
         /\ ToCompare >= 1 => ToCompare' = ToCompare - 1
         /\ PastCompare + 1 < M => PastCompare' = PastCompare + 1
         /\ (count' = compare) <=> (ToCompare = 1)
         /\ (count' = compare) => PastCompare' = 0
<1>1. count' = (count + 1) % M /\ compare' = compare /\ tm_count' = tm_count /\ patched' = patched
  BY DEF Pass, tmVars
<1>2. Base \in Counts /\ Rest = (count - Base) % M /\ compare \in Counts
  BY RestIs, TypeParts DEF CountType
<1>3. count' \in Counts
  BY ValueTypeNext DEF Next, CountType
<1>4. Rest' = (count' - Base) % M
  <2>1. CASE patched
    BY <1>1, <2>1 DEF Rest, Base
  <2>2. CASE ~patched
    BY <1>1, <1>2, <1>3, <2>2, JiffyBefore DEF Rest, Base
  <2> QED
    BY <2>1, <2>2
<1>5. ((count - Base) % M) + 1 < M
  BY <1>2, NeverLaps
<1>6. Rest' = Rest + 1
  BY <1>1, <1>2, <1>4, <1>5, DistanceStep
<1>7. /\ ToCompare' = (compare - count') % M
      /\ PastCompare' = (count' - compare) % M
  BY <1>1 DEF ToCompare, PastCompare
<1> QED
  BY <1>1, <1>2, <1>6, <1>7, DistanceStep DEF ToCompare, PastCompare

LEMMA PassKeepsTime ==
  ASSUME ShortPrograms, TypeOK, Shape, LagInv, KeepsTime, Pass
  PROVE  KeepsTime'
<1>1. Rest \in Nat /\ Rest' = Rest + 1
  BY LagTypes, PassDistances
<1>2. Ms' = Ms /\ Ms \in Nat
  BY TypeParts DEF Pass, tmVars, Ms, MilliType, Millis
<1>3. /\ true_ms = (Ms + Rest \div Jiffy) % MsMod /\ true_sub = Rest % Jiffy
      /\ true_sub' = (true_sub + 1) % Jiffy
      /\ true_ms' = IF true_sub' = 0 THEN (true_ms + 1) % MsMod ELSE true_ms
  BY DEF KeepsTime, Pass
<1> DEFINE r == Rest % Jiffy
           q == Rest \div Jiffy
<1>4. /\ r \in 0..(Jiffy - 1) /\ q \in Nat
      /\ (Rest + 1) % Jiffy = IF r + 1 = Jiffy THEN 0 ELSE r + 1
      /\ (Rest + 1) \div Jiffy = q + (IF r + 1 = Jiffy THEN 1 ELSE 0)
  <2>1. r \in 0..(Jiffy - 1) /\ q \in Nat
    <3>1. Rest \in Int
      BY <1>1
    <3> QED
      BY <1>1, <3>1, Positive, DivMod, DivSub, Zenon
  <2> QED
    BY <1>1, <2>1, Positive, DivStep
<1>5. (r + 1) % Jiffy = IF r + 1 = Jiffy THEN 0 ELSE r + 1
  <2> HIDE DEF r
  <2>1. r + 1 \in Int /\ 0 <= r + 1 /\ (r + 1 < Jiffy \/ r + 1 = Jiffy)
    BY <1>4, Positive
  <2>2. CASE r + 1 < Jiffy
    BY <2>1, <2>2, Positive, ModNear
  <2>3. CASE r + 1 = Jiffy
    BY <2>3, Positive
  <2> QED
    BY <2>1, <2>2, <2>3
<1>6. true_sub' = (Rest + 1) % Jiffy
  BY <1>3, <1>4, <1>5
<1>7. true_ms' = (Ms + (Rest + 1) \div Jiffy) % MsMod
  <2> HIDE DEF r, q
  <2>1. true_ms = (Ms + q) % MsMod /\ true_sub' = IF r + 1 = Jiffy THEN 0 ELSE r + 1
    BY <1>3, <1>5 DEF r, q
  <2>2. CASE r + 1 = Jiffy
    <3>1. true_ms' = (((Ms + q) % MsMod) + 1) % MsMod
      BY <1>3, <2>1, <2>2
    <3>2. Ms + q \in Int /\ (Ms + q) + 1 = Ms + (q + 1)
      BY <1>2, <1>4
    <3>3. (((Ms + q) % MsMod) + 1) % MsMod = ((Ms + q) + 1) % MsMod
      BY <3>2, Positive, ModAdd
    <3> QED
      BY <1>4, <2>2, <3>1, <3>2, <3>3
  <2>3. CASE r + 1 # Jiffy
    BY <1>3, <1>4, <2>1, <2>3, Positive
  <2> QED
    BY <2>2, <2>3
<1> QED
  BY <1>1, <1>2, <1>6, <1>7 DEF KeepsTime

LEMMA ShapeNext ==
  ASSUME TypeOK, Shape, [Next]_vars
  PROVE  Shape'
<1>0. off \in Nat /\ FlagType /\ PlaceType
  BY TypeParts DEF CountType
<1> USE Numbers DEF Shape, tmVars, timeVars, FlagType, PlaceType
<1>1. CASE Pass
  BY <1>0, <1>1 DEF Pass, Unmasked
<1>2. CASE DisableInterrupts \/ EnableInterrupts
  BY <1>0, <1>2 DEF DisableInterrupts, EnableInterrupts
<1>3. CASE EndScheduler \/ LegacyBegin \/ LegacyEnd
  BY <1>0, <1>3 DEF EndScheduler, LegacyBegin, LegacyEnd, Unmasked, TaskRuns
<1>4. CASE TickBegin \/ StartScheduler
  BY <1>0, <1>4 DEF TickBegin, StartScheduler, Unmasked, TaskRuns
<1>5. CASE TickWrite \/ StartWrite
  BY <1>0, <1>5 DEF TickWrite, StartWrite, SetCompareWrite
<1>6. CASE TickCheck
  BY <1>0, <1>6 DEF TickCheck, SetCompareCheck
<1>7. CASE StartCheck
  BY <1>0, <1>7 DEF StartCheck, SetCompareCheck
<1>8. CASE TickHook
  BY <1>0, <1>8 DEF TickHook
<1>9. CASE UbootGetTimer \/ OwnBegin
  BY <1>0, <1>9 DEF UbootGetTimer, OwnBegin, UbootUpdate, TaskRuns
<1>10. CASE TmGetTimer
  <2>1. /\ pc = "run" /\ pc' = pc /\ mode' = mode /\ patched' = patched /\ tm_ms' = tm_ms
        /\ stamp' = stamp /\ ien' = FALSE /\ mode \in {"owned", "rtos", "legacy"} /\ patched
        /\ off' = 0 \/ off' = off
    BY <1>10 DEF TmGetTimer, TmMask, TaskRuns
  <2>2. off' <= IF mode' = "legacy" THEN MaxLegacy ELSE MaxOff
    BY <1>0, <2>1
  <2>3. patched' = (mode' # "uboot")
    BY <2>1
  <2> QED
    BY <2>1, <2>2, <2>3
<1>11. CASE TmDone
  BY <1>0, <1>11 DEF TmDone, TaskRuns
<1>12. CASE OwnEnd
  BY <1>0, <1>12 DEF OwnEnd
<1>13. CASE Release
  <2>1. /\ pc' = "run" /\ mode' = "uboot" /\ patched' = FALSE /\ in_tm' = in_tm /\ ~in_tm /\ off' = 0
    BY <1>13 DEF Release, TaskRuns
  <2>2. patched' = (mode' # "uboot") /\ ~in_tm'
    BY <2>1
  <2>3. off' <= IF mode' = "legacy" THEN MaxLegacy ELSE MaxOff
    BY <2>1
  <2> QED
    BY <2>1, <2>2, <2>3
<1>14. CASE UNCHANGED vars
  BY <1>0, <1>14 DEF vars
<1> QED
  BY <1>1, <1>2, <1>3, <1>4, <1>5, <1>6, <1>7, <1>8, <1>9, <1>10, <1>11, <1>12, <1>13, <1>14 DEF Next

LEMMA PassLag ==
  ASSUME ShortPrograms, TypeOK, Shape, LagInv, Pass
  PROVE  LagInv'
<1>1. /\ off \in Nat /\ Rest \in Nat /\ ToCompare \in Nat /\ PastCompare \in Nat
      /\ n \in Nat /\ n * Jiffy \in Nat
      /\ mode \in {"uboot", "owned", "rtos", "legacy", "ended"}
      /\ pc \in {"run", "own", "start", "startck", "isr", "isrck", "hook"}
      /\ count \in Counts /\ compare \in Counts /\ next \in Counts
  BY LagTypes, TypeParts, Positive DEF CountType, PlaceType
<1>2. /\ Rest' = Rest + 1
      /\ ToCompare >= 1 => ToCompare' = ToCompare - 1
      /\ PastCompare + 1 < M => PastCompare' = PastCompare + 1
      /\ (count' = compare) <=> (ToCompare = 1)
      /\ (count' = compare) => PastCompare' = 0
  BY PassDistances
<1>3. /\ ti' = (ti \/ count' = compare)
      /\ off' = IF Unmasked THEN 0 ELSE off + 1
      /\ UNCHANGED <<compare, ien, mode, pc, next, in_tm, n, patched>>
      /\ ~(Unmasked /\ ti)
      /\ Unmasked \/ off < (IF mode = "legacy" THEN MaxLegacy ELSE MaxOff)
  BY DEF Pass, tmVars
<1>4. ti \in BOOLEAN /\ ti' \in BOOLEAN /\ ien \in BOOLEAN
  BY FlagTypeNext, TypeParts DEF Next, FlagType
<1>5. UntickedLag'
  <2>1. mode = "uboot" \/ mode = "owned" \/ mode = "ended" \/ pc \in {"isr", "isrck", "hook"} => off' = off + 1
    BY <1>3 DEF Unmasked
  <2> QED
    BY <1>1, <1>2, <1>3, <2>1, Numbers, OverdueType DEF LagInv, UntickedLag, Slack
<1>6. TickedLag'
  <2> SUFFICES ASSUME mode \in {"rtos", "legacy"}, pc = "run" PROVE TickedLag'
    BY <1>3 DEF TickedLag
  <2>1. CASE ti
    <3>1. PastCompare' = PastCompare + 1 /\ off' = off + 1 /\ ti'
      BY <1>2, <1>3, <2>1, NeverLaps
    <3>2. Rest <= Slack + PastCompare /\ PastCompare < off + (IF mode = "legacy" THEN 0 ELSE Overdue)
      BY <2>1 DEF LagInv, TickedLag
    <3> QED
      BY <1>1, <1>2, <1>3, <3>1, <3>2, OverdueType DEF TickedLag
  <2>2. CASE ~ti
    <3>1. ToCompare \in 1..Period /\ Rest + ToCompare <= Slack
      BY <2>2 DEF LagInv, TickedLag
    <3>2. CASE ToCompare = 1
      <4>1. ti' /\ PastCompare' = 0
        BY <1>2, <1>3, <3>2
      <4>2. off' = 0 => mode # "legacy"
        BY <1>1, <1>3 DEF Unmasked
      <4> QED
        BY <1>1, <1>2, <1>3, <3>1, <3>2, <4>1, <4>2, OverdueType DEF TickedLag
    <3>3. CASE ToCompare # 1
      <4>1. ToCompare' = ToCompare - 1
        BY <1>1, <1>2, <3>1
      <4>2. ~ti'
        BY <1>2, <1>3, <2>2, <3>3
      <4> QED
        BY <1>1, <1>2, <1>3, <3>1, <3>3, <4>1, <4>2, OverdueType, Numbers DEF TickedLag
    <3> QED
      BY <3>2, <3>3
  <2> QED
    BY <1>4, <2>1, <2>2
<1>7. TmLag'
  <2>1. mode = "owned" => off' = off + 1
    BY <1>3 DEF Unmasked
  <2> QED
    BY <1>1, <1>2, <1>3, <2>1, Numbers DEF LagInv, TmLag
<1>8. SetCompareInv'
  <2> DEFINE toNext == (next - count) % M
             pastNext == (count - next) % M
             toNext1 == (next - count') % M
             pastNext1 == (count' - next) % M
  <2>1. /\ pastNext + 1 < M => pastNext1 = pastNext + 1
        /\ toNext >= 1 => toNext1 = toNext - 1
        /\ (count' = next) <=> (toNext = 1)
        /\ (count' = next) => pastNext1 = 0
    BY <1>1, DistanceStep DEF Pass
  <2>2. toNext \in Nat /\ pastNext \in Nat
    BY <1>1, Distance
  <2>3. CASE pc \in {"start", "startck", "isr", "isrck"}
    <3>0. off' = off + 1 /\ off < MaxOff
      BY <1>3, <2>3 DEF Unmasked, Shape
    <3>3. pc \in {"startck", "isrck"} => compare = next
      BY DEF LagInv, SetCompareInv
    <3>1. CASE /\ toNext \in 1..Period /\ Period <= toNext + Overdue + off
               /\ pc \in {"startck", "isrck"} => ~ti
      <4>1. CASE toNext = 1
        <5>1. pastNext1 = 0 /\ pastNext1 <= Overdue + (off + 1) - Period
          BY <1>1, <2>1, <3>1, <4>1, OverdueType, Numbers
        <5> HIDE DEF pastNext1
        <5> QED
          BY <1>3, <2>3, <3>0, <3>3, <5>1 DEF SetCompareInv, pastNext1
      <4>2. CASE toNext # 1
        <5>1. toNext1 \in 1..Period /\ Period <= toNext1 + Overdue + (off + 1)
          <6> HIDE DEF toNext, toNext1
          <6> QED
            BY <1>1, <2>1, <2>2, <3>1, <4>2, OverdueType, Numbers
        <5>2. pc \in {"startck", "isrck"} => ~ti'
          BY <1>3, <2>1, <3>1, <3>3, <4>2
        <5> HIDE DEF toNext1
        <5> QED
          BY <1>3, <2>3, <3>0, <3>3, <5>1, <5>2 DEF SetCompareInv, toNext1
      <4> QED
        BY <4>1, <4>2
    <3>2. CASE pastNext <= Overdue + off - Period
      <4>1. pastNext + 1 < M
        <5> HIDE DEF pastNext
        <5> QED
          BY <1>1, <2>2, <3>0, <3>2, Numbers DEF Overdue, ShortPrograms
      <4>2. pastNext1 <= Overdue + (off + 1) - Period
        <5> HIDE DEF pastNext, pastNext1
        <5> QED
          BY <1>1, <2>1, <2>2, <3>2, <4>1, OverdueType, Numbers
      <4> QED
        BY <1>3, <2>3, <3>0, <3>3, <4>2 DEF SetCompareInv
    <3> QED
      BY <2>3, <3>1, <3>2 DEF LagInv, SetCompareInv
  <2>4. CASE pc = "hook"
    <3>0. off' = off + 1 /\ off < MaxOff
      BY <1>3, <2>4 DEF Unmasked, Shape
    <3>1. (~ti => ToCompare \in 1..Period) /\ (ti => PastCompare < off)
      BY <2>4 DEF LagInv, SetCompareInv
    <3>2. (~ti' => ToCompare' \in 1..Period) /\ (ti' => PastCompare' < off + 1)
      <4>1. CASE ti
        <5>1. PastCompare + 1 < M
          BY <1>1, <3>0, <3>1, <4>1, Numbers
        <5>2. ti'
          BY <1>3, <4>1
        <5> QED
          BY <1>1, <1>2, <1>3, <3>1, <4>1, <5>1, <5>2
      <4>2. CASE ~ti /\ ToCompare = 1
        <5>1. ti' /\ PastCompare' = 0
          BY <1>2, <1>3, <4>2
        <5> QED
          BY <1>1, <5>1
      <4>3. CASE ~ti /\ ToCompare # 1
        <5>1. ToCompare' = ToCompare - 1 /\ ToCompare \in 2..Period
          BY <1>1, <1>2, <3>1, <4>3, Numbers
        <5>2. ~ti'
          BY <1>2, <1>3, <4>3
        <5> QED
          BY <1>1, <5>1, <5>2, Numbers
      <4> QED
        BY <1>4, <4>1, <4>2, <4>3
    <3> QED
      BY <1>3, <2>4, <3>0, <3>2 DEF SetCompareInv
  <2>5. CASE pc \notin {"start", "startck", "isr", "isrck", "hook"}
    BY <1>3, <2>5 DEF SetCompareInv
  <2> QED
    BY <1>1, <2>3, <2>4, <2>5
<1> QED
  BY <1>5, <1>6, <1>7, <1>8 DEF LagInv

\* The steps that leave Count, Compare and the counted milliseconds alone.
Still == UNCHANGED <<count, compare, tm_count, tm_ms, stamp, patched, true_ms, true_sub>>

LEMMA StillKeeps ==
  ASSUME Still
  PROVE  /\ Rest' = Rest /\ ToCompare' = ToCompare /\ PastCompare' = PastCompare
         /\ KeepsTime => KeepsTime'
  BY DEF Still, Rest, ToCompare, PastCompare, KeepsTime, Ms

\* What is known of the numbers in any state.
LEMMA LagNumbers ==
  ASSUME TypeOK, Shape
  PROVE  /\ off \in Nat /\ Rest \in Nat /\ ToCompare \in Nat /\ PastCompare \in Nat
         /\ n \in Nat /\ n * Jiffy \in Nat
         /\ mode # "legacy" => off <= MaxOff
         /\ mode = "legacy" => off <= MaxLegacy
         /\ mode \in {"uboot", "owned", "rtos", "legacy", "ended"}
         /\ pc \in {"run", "own", "start", "startck", "isr", "isrck", "hook"}
  BY LagTypes, TypeParts, Positive DEF CountType, PlaceType, Shape

\* Changes of hands and of the mask.
LEMMA QuietLag ==
  ASSUME TypeOK, Shape, LagInv,
         DisableInterrupts \/ EnableInterrupts \/ EndScheduler \/ LegacyBegin \/ LegacyEnd
  PROVE  LagInv' /\ Still
<1>1. Still
  BY DEF Still, DisableInterrupts, EnableInterrupts, EndScheduler, LegacyBegin, LegacyEnd, timeVars,
         tmVars
<1>2. Rest' = Rest /\ ToCompare' = ToCompare /\ PastCompare' = PastCompare
  BY <1>1, StillKeeps
<1>3. /\ UNCHANGED <<ti, pc, next, in_tm, n>> /\ pc = "run"
      /\ mode \in {"rtos", "legacy"}
  BY DEF DisableInterrupts, EnableInterrupts, EndScheduler, LegacyBegin, LegacyEnd, timeVars, tmVars,
         TaskRuns, Unmasked, Shape
<1>4. /\ ~ti => ToCompare \in 1..Period /\ Rest + ToCompare <= Slack
      /\ ti => /\ Rest <= Slack + PastCompare
               /\ PastCompare < off + (IF mode = "legacy" THEN 0 ELSE Overdue)
  BY <1>3 DEF LagInv, TickedLag
<1>5. \/ off' = off /\ mode' = mode
      \/ off' = 0 /\ ~ti /\ mode' \in {"rtos", "legacy"}
      \/ off' = 0 /\ mode = "legacy" /\ mode' = "rtos"
      \/ off' = off /\ mode = "rtos" /\ mode' = "ended"
  BY DEF DisableInterrupts, EnableInterrupts, EndScheduler, LegacyBegin, LegacyEnd, timeVars,
         TaskRuns, Unmasked
<1>6. UntickedLag'
  <2>1. CASE mode' # "ended"
    BY <1>3, <1>5, <2>1 DEF UntickedLag
  <2>2. CASE mode' = "ended"
    <3>1. Rest <= Slack + Overdue + off
      BY <1>4, <1>5, <2>2, LagNumbers, OverdueType, Numbers, TypeParts DEF FlagType
    <3> QED
      BY <1>2, <1>3, <1>5, <2>2, <3>1 DEF UntickedLag
  <2> QED
    BY <2>1, <2>2
<1>7. TickedLag'
  <2>1. ti => PastCompare < off' + (IF mode' = "legacy" THEN 0 ELSE Overdue)
    BY <1>4, <1>5, <1>3, LagNumbers, OverdueType, Numbers
  <2> QED
    BY <1>2, <1>3, <1>4, <2>1 DEF TickedLag
<1>8. TmLag'
  BY <1>2, <1>3, <1>5 DEF TmLag, LagInv
<1>9. SetCompareInv'
  BY <1>3 DEF SetCompareInv
<1> QED
  BY <1>1, <1>6, <1>7, <1>8, <1>9 DEF LagInv

\* A task reads Count in tm_get_timer.
LEMMA TmGetTimerLag ==
  ASSUME TypeOK, Shape, LagInv, TmGetTimer
  PROVE  LagInv' /\ Still
<1>1. Still
  BY DEF Still, TmGetTimer
<1>2. Rest' = Rest /\ ToCompare' = ToCompare /\ PastCompare' = PastCompare
  BY <1>1, StillKeeps
<1>3. /\ UNCHANGED <<ti, pc, next, mode>> /\ pc = "run" /\ n' = Passed /\ patched
      /\ mode \in {"owned", "rtos", "legacy"}
      /\ off' = off \/ (off' = 0 /\ mode = "rtos" /\ ~ti)
  BY DEF TmGetTimer, TaskRuns, Unmasked
<1>4. UntickedLag'
  BY <1>2, <1>3 DEF UntickedLag, LagInv
<1>5. TickedLag'
  BY <1>2, <1>3 DEF TickedLag, LagInv
<1>6. TmLag'
  <2>1. n' * Jiffy <= Rest /\ Rest - n' * Jiffy <= Jiffy - 1
    BY <1>3, PassedAll
  <2>2. n' \in Nat /\ n' * Jiffy \in Nat
    BY <1>3, PassedAll, Positive
  <2> DEFINE e == n' * Jiffy
  <2>3. e <= Rest /\ Rest - e <= Jiffy - 1 /\ e \in Nat
    BY <2>1, <2>2
  <2> HIDE DEF e
  <2>4. e <= Rest' /\ (mode' = "owned" => Rest' - e <= Jiffy - 1 + off')
    BY <1>2, <1>3, <2>3, LagNumbers, Positive
  <2> QED
    BY <2>4 DEF TmLag, e
<1>7. SetCompareInv'
  BY <1>3 DEF SetCompareInv
<1> QED
  BY <1>1, <1>4, <1>5, <1>6, <1>7 DEF LagInv

\* prvSetCompare is entered, or entered again, with a value one period ahead.
LEMMA PeriodAhead ==
  ASSUME TypeOK
  PROVE  /\ (((count + Period) % M) - count) % M = Period
         /\ PastCompare < Period =>
              (((compare + Period) % M) - count) % M = Period - PastCompare
         /\ PastCompare >= Period =>
              (count - ((compare + Period) % M)) % M = PastCompare - Period
<1>1. /\ count \in Counts /\ compare \in Counts /\ Period \in Nat /\ Period < M
      /\ count \in Int /\ compare \in Int /\ 0 <= count /\ count < M /\ 0 <= compare /\ compare < M
  BY TypeParts, Numbers DEF CountType, Counts
<1> DEFINE x == (count + Period) % M
           y == (compare + Period) % M
<1>2. /\ x = (IF count + Period < M THEN count + Period ELSE (count + Period) - M) /\ x \in Counts
      /\ y = (IF compare + Period < M THEN compare + Period ELSE (compare + Period) - M)
      /\ y \in Counts
  <2>1. Period <= M
    BY <1>1, Positive
  <2> QED
    BY <1>1, <2>1, Forward
<1>3. x \in Int /\ y \in Int
  BY <1>2 DEF Counts
<1> HIDE DEF x, y
<1>4. /\ (x - count) % M = (IF x >= count THEN x - count ELSE x - count + M)
      /\ (y - count) % M = (IF y >= count THEN y - count ELSE y - count + M)
      /\ (count - y) % M = (IF count >= y THEN count - y ELSE count - y + M)
      /\ PastCompare = (IF count >= compare THEN count - compare ELSE count - compare + M)
  BY <1>1, <1>2, Distance DEF PastCompare
<1>5. /\ (x - count) % M = Period
      /\ PastCompare < Period => (y - count) % M = Period - PastCompare
      /\ PastCompare >= Period => (count - y) % M = PastCompare - Period
  BY <1>1, <1>2, <1>3, <1>4, Numbers
<1> QED
  BY <1>5 DEF x, y

\* A tick begins, or the scheduler starts.
LEMMA EnterSetCompare ==
  ASSUME TypeOK, Shape, LagInv, TickBegin \/ StartScheduler
  PROVE  LagInv' /\ Still
<1>1. Still
  BY DEF Still, TickBegin, StartScheduler, timeVars, tmVars
<1>2. Rest' = Rest /\ ToCompare' = ToCompare /\ PastCompare' = PastCompare
  BY <1>1, StillKeeps
<1>3. UNCHANGED <<count, ti, off, mode, in_tm, n>> /\ pc = "run" /\ ~in_tm
  BY DEF TickBegin, StartScheduler, timeVars, tmVars, TaskRuns, Unmasked, Shape
<1>4. TmLag'
  BY <1>3 DEF TmLag
<1>5. CASE TickBegin
  <2>1. mode = "rtos" /\ ti /\ next' = (compare + Period) % M /\ pc' = "isr"
    BY <1>5 DEF TickBegin, Unmasked
  <2>2. Rest <= Slack + PastCompare /\ PastCompare < off + Overdue
    BY <1>3, <2>1 DEF LagInv, TickedLag
  <2>3. UntickedLag'
    BY <1>2, <1>3, <2>1, <2>2, LagNumbers, OverdueType DEF UntickedLag
  <2>4. TickedLag'
    BY <2>1 DEF TickedLag
  <2>5. SetCompareInv'
    <3>1. CASE PastCompare < Period
      <4>1. (next' - count) % M = Period - PastCompare
        BY <2>1, <3>1, PeriodAhead
      <4>2. /\ (next' - count) % M \in 1..Period
            /\ Period <= ((next' - count) % M) + Overdue + off
        BY <2>2, <3>1, <4>1, LagNumbers, OverdueType, Numbers
      <4> QED
        BY <1>3, <2>1, <4>2 DEF SetCompareInv
    <3>2. CASE ~(PastCompare < Period)
      <4>1. (count - next') % M = PastCompare - Period
        BY <2>1, <3>2, PeriodAhead, LagNumbers, Numbers
      <4>2. (count - next') % M <= Overdue + off - Period
        BY <2>2, <4>1, LagNumbers, OverdueType, Numbers
      <4> QED
        BY <1>3, <2>1, <4>2 DEF SetCompareInv
    <3> QED
      BY <3>1, <3>2
  <2> QED
    BY <1>1, <1>4, <2>3, <2>4, <2>5 DEF LagInv
<1>6. CASE StartScheduler
  <2>1. mode = "owned" /\ next' = (count + Period) % M /\ pc' = "start"
    BY <1>6 DEF StartScheduler
  <2>2. UntickedLag' /\ TickedLag'
    BY <1>2, <1>3, <2>1 DEF LagInv, UntickedLag, TickedLag
  <2>3. (next' - count) % M = Period
    BY <2>1, PeriodAhead
  <2>4. (next' - count) % M \in 1..Period /\ Period <= ((next' - count) % M) + Overdue + off
    BY <2>3, LagNumbers, OverdueType, Numbers
  <2>5. SetCompareInv'
    BY <1>3, <2>1, <2>4 DEF SetCompareInv
  <2> QED
    BY <1>1, <1>4, <2>2, <2>5 DEF LagInv
<1> QED
  BY <1>5, <1>6

\* prvSetCompare writes Compare: the counted milliseconds are not kept there.
LEMMA WriteLag ==
  ASSUME TypeOK, Shape, LagInv, KeepsTime, TickWrite \/ StartWrite
  PROVE  LagInv' /\ KeepsTime'
<1>1. /\ compare' = next % M /\ ti' = FALSE
      /\ UNCHANGED <<count, off, mode, next, in_tm, n, tm_count, tm_ms, stamp, patched, true_ms, true_sub>>
      /\ (pc = "isr" /\ pc' = "isrck") \/ (pc = "start" /\ pc' = "startck")
  BY DEF TickWrite, StartWrite, SetCompareWrite, WriteCompare, timeVars, tmVars
<1>2. next % M = next
  <2>1. next \in Int /\ 0 <= next /\ next < M
    BY TypeParts, Numbers DEF CountType, Counts
  <2> QED
    BY <2>1, Positive, ModNear
<1>3. patched /\ ~in_tm /\ mode \in {"owned", "rtos"}
  BY <1>1, TypeParts DEF Shape, PlaceType, FlagType
<1>4. Rest' = Rest /\ KeepsTime'
  BY <1>1, <1>3 DEF Rest, KeepsTime, Ms
<1>5. UntickedLag' /\ TickedLag' /\ TmLag'
  BY <1>1, <1>3, <1>4 DEF LagInv, UntickedLag, TickedLag, TmLag
<1>6. SetCompareInv'
  BY <1>1, <1>2 DEF LagInv, SetCompareInv
<1> QED
  BY <1>4, <1>5, <1>6 DEF LagInv

\* A value that prvSetCompare finds ahead is at most one period ahead, and no tick
\* has been latched since it was written; one that it finds behind is written anew.
LEMMA CheckLag ==
  ASSUME ShortPrograms, TypeOK, Shape, LagInv, TickCheck \/ StartCheck
  PROVE  LagInv' /\ Still
<1>1. Still
  BY DEF Still, TickCheck, StartCheck, SetCompareCheck, timeVars, tmVars
<1>2. Rest' = Rest /\ ToCompare' = ToCompare /\ PastCompare' = PastCompare
  BY <1>1, StillKeeps
<1>3. /\ UNCHANGED <<count, compare, ti, off, in_tm, n>> /\ pc \in {"isrck", "startck"} /\ ~in_tm
      /\ next' = (IF Ahead(next) THEN 0 ELSE (count + Period) % M)
      /\ compare = next
  BY DEF TickCheck, StartCheck, SetCompareCheck, timeVars, tmVars, Shape, LagInv, SetCompareInv
<1>4. TmLag'
  BY <1>3 DEF TmLag
<1>5. CASE Ahead(next)
  <2>1. ToCompare \in 1..Period /\ ~ti
    <3>1. (next - count) % M \in 1..(M \div 2 - 1)
      BY <1>5 DEF Ahead
    <3>2. ~((count - next) % M <= Overdue + off - Period)
      <4>1. (next - count) % M = IF (count - next) % M = 0 THEN 0 ELSE M - ((count - next) % M)
        BY TypeParts, Opposite DEF CountType
      <4>2. (count - next) % M \in Nat
        BY TypeParts, Distance DEF CountType
      <4>3. Overdue + off - Period <= M \div 2
        <5>1. off <= MaxOff
          BY <1>3, LagNumbers DEF Shape
        <5> QED
          BY <5>1, LagNumbers, Numbers DEF ShortPrograms, Overdue
      <4> QED
        BY <3>1, <4>1, <4>2, <4>3, Numbers, OverdueType, LagNumbers
    <3> QED
      BY <1>3, <3>2 DEF LagInv, SetCompareInv, ToCompare
  <2>2. CASE TickCheck
    <3>1. pc' = "hook" /\ mode' = mode /\ pc = "isrck"
      BY <1>5, <2>2 DEF TickCheck, SetCompareCheck
    <3> QED
      BY <1>1, <1>2, <1>3, <1>4, <2>1, <3>1 DEF LagInv, UntickedLag, TickedLag, SetCompareInv
  <2>3. CASE StartCheck
    <3>1. pc' = "run" /\ mode' = "rtos" /\ pc = "startck" /\ mode = "owned"
      BY <1>5, <2>3, TypeParts DEF StartCheck, SetCompareCheck, Shape, PlaceType
    <3>2. Rest + ToCompare <= Slack
      <4>1. Rest <= Jiffy - 1 + MaxOff + off /\ off <= MaxOff
        BY <3>1, LagNumbers DEF LagInv, UntickedLag
      <4> QED
        BY <2>1, <4>1, LagNumbers, Numbers DEF Slack
    <3> QED
      BY <1>1, <1>2, <1>3, <1>4, <2>1, <3>1, <3>2 DEF LagInv, UntickedLag, TickedLag, SetCompareInv
  <2> QED
    BY <2>2, <2>3
<1>6. CASE ~Ahead(next)
  <2>1. (next' - count) % M = Period
    BY <1>3, <1>6, PeriodAhead
  <2>2. (next' - count) % M \in 1..Period /\ Period <= ((next' - count) % M) + Overdue + off
    BY <2>1, LagNumbers, OverdueType, Numbers
  <2>3. mode' = mode /\ ((pc = "isrck" /\ pc' = "isr") \/ (pc = "startck" /\ pc' = "start"))
    BY <1>6 DEF TickCheck, StartCheck, SetCompareCheck
  <2>4. UntickedLag' /\ TickedLag'
    BY <1>2, <1>3, <2>3 DEF LagInv, UntickedLag, TickedLag
  <2>5. SetCompareInv'
    BY <1>3, <2>2, <2>3 DEF SetCompareInv
  <2> QED
    BY <1>1, <1>4, <2>4, <2>5 DEF LagInv
<1> QED
  BY <1>5, <1>6

\* The tick hook brings the milliseconds up to date, and the task goes on.
LEMMA HookLag ==
  ASSUME TypeOK, Shape, LagInv, KeepsTime, TickHook
  PROVE  LagInv' /\ KeepsTime'
<1>1. /\ pc = "hook" /\ pc' = "run" /\ off' = 0 /\ mode = "rtos" /\ patched /\ ~in_tm /\ TmAdd(Passed)
      /\ UNCHANGED <<count, compare, ti, mode, next, in_tm, n, stamp, patched, true_ms, true_sub>>
  BY TypeParts DEF TickHook, Shape, PlaceType, FlagType
<1>2. Rest' = Rest - Passed * Jiffy /\ Rest' \in 0..(Jiffy - 1) /\ KeepsTime'
  <2>1. (count - tm_count') % M = Rest - Passed * Jiffy /\ RealTime(tm_ms', Rest - Passed * Jiffy)
    BY <1>1, PassedAll, TmAddKeeps
  <2>2. Rest' = (count - tm_count') % M /\ Ms' = tm_ms'
    BY <1>1 DEF Rest, Ms
  <2> QED
    BY <1>1, <2>1, <2>2, PassedAll DEF RealTime, KeepsTime
<1>3. ToCompare' = ToCompare /\ PastCompare' = PastCompare
  BY <1>1 DEF ToCompare, PastCompare
<1>4. (~ti => ToCompare \in 1..Period) /\ (ti => PastCompare < off) /\ off <= MaxOff
  BY <1>1, LagNumbers DEF LagInv, SetCompareInv
<1>5. TickedLag'
  <2>1. CASE ti
    BY <1>1, <1>2, <1>3, <1>4, <2>1, LagNumbers, OverdueType, Numbers DEF TickedLag, Slack
  <2>2. CASE ~ti
    BY <1>1, <1>2, <1>3, <1>4, <2>2, LagNumbers, OverdueType, Numbers DEF TickedLag, Slack
  <2> QED
    BY <2>1, <2>2
<1>6. UntickedLag' /\ TmLag' /\ SetCompareInv'
  BY <1>1 DEF UntickedLag, TmLag, SetCompareInv
<1> QED
  BY <1>2, <1>5, <1>6 DEF LagInv

\* tm_get_timer adds what had passed when it read Count.
LEMMA TmDoneLag ==
  ASSUME TypeOK, Shape, LagInv, KeepsTime, TmDone
  PROVE  LagInv' /\ KeepsTime'
<1>1. /\ pc = "run" /\ in_tm /\ ~in_tm' /\ patched /\ TmAdd(n) /\ mode \in {"owned", "rtos", "legacy"}
      /\ off' = (IF mode = "owned" THEN 0 ELSE off)
      /\ UNCHANGED <<count, compare, ti, mode, pc, next, stamp, patched, true_ms, true_sub>>
  BY DEF TmDone, TaskRuns, Shape
<1> DEFINE e == n * Jiffy
<1>2. e \in Nat /\ e <= Rest /\ (mode = "owned" => Rest - e <= Jiffy - 1 + off)
  BY <1>1, LagNumbers DEF LagInv, TmLag
<1>3. (count - tm_count') % M = Rest - e /\ RealTime(tm_ms', Rest - e)
  BY <1>1, <1>2, LagNumbers, TmAddKeeps
<1> HIDE DEF e
<1>4. Rest' = Rest - e /\ KeepsTime'
  <2>1. Rest' = (count - tm_count') % M /\ Ms' = tm_ms'
    BY <1>1 DEF Rest, Ms
  <2> QED
    BY <1>1, <1>3, <2>1 DEF RealTime, KeepsTime
<1>5. ToCompare' = ToCompare /\ PastCompare' = PastCompare
  BY <1>1 DEF ToCompare, PastCompare
<1>6. UntickedLag'
  BY <1>1, <1>2, <1>4, LagNumbers, Numbers DEF LagInv, UntickedLag
<1>7. TickedLag'
  <2>1. CASE ti
    BY <1>1, <1>2, <1>4, <1>5, <2>1, LagNumbers, OverdueType DEF LagInv, TickedLag
  <2>2. CASE ~ti
    BY <1>1, <1>2, <1>4, <1>5, <2>2, LagNumbers, OverdueType DEF LagInv, TickedLag
  <2> QED
    BY <2>1, <2>2
<1>8. TmLag' /\ SetCompareInv'
  BY <1>1 DEF TmLag, SetCompareInv
<1> QED
  BY <1>4, <1>6, <1>7, <1>8 DEF LagInv

\* U-Boot's own get_timer, also as the first half of sdk_timer_own.
LEMMA UbootLag ==
  ASSUME TypeOK, Shape, LagInv, KeepsTime, UbootGetTimer \/ OwnBegin
  PROVE  LagInv' /\ KeepsTime'
<1>1. /\ pc = "run" /\ mode = "uboot" /\ ~patched /\ ~in_tm /\ UbootUpdate /\ off' = 0
      /\ pc' \in {"run", "own"}
      /\ UNCHANGED <<count, mode, next, in_tm, n, patched, true_ms, true_sub>>
  BY TypeParts DEF UbootGetTimer, OwnBegin, TaskRuns, Shape, tmVars, FlagType
<1>2. Rest <= Jiffy - 1 + MaxOff
  BY <1>1, LagNumbers, Numbers DEF LagInv, UntickedLag
<1>3. Rest' = (count - (compare' - Jiffy)) % M /\ Ms' = stamp'
  BY <1>1 DEF Rest, Ms
<1>4. Rest' \in 0..(Jiffy - 1) /\ KeepsTime'
  BY <1>1, <1>2, <1>3, UbootKeeps DEF RealTime, KeepsTime
<1>5. UntickedLag'
  BY <1>1, <1>4, Positive DEF UntickedLag
<1>6. TickedLag' /\ TmLag' /\ SetCompareInv'
  BY <1>1 DEF TickedLag, TmLag, SetCompareInv
<1> QED
  BY <1>4, <1>5, <1>6 DEF LagInv

\* sdk_timer_own takes over at U-Boot's last jiffy.
LEMMA OwnEndLag ==
  ASSUME TypeOK, Shape, LagInv, KeepsTime, OwnEnd
  PROVE  LagInv' /\ KeepsTime'
<1>1. /\ pc = "own" /\ pc' = "run" /\ mode = "uboot" /\ mode' = "owned" /\ ~patched /\ patched'
      /\ ~in_tm /\ tm_ms = stamp /\ tm_count' = (compare - Jiffy) % M
      /\ UNCHANGED <<count, off, compare, ti, next, in_tm, n, stamp, tm_ms, true_ms, true_sub>>
  BY TypeParts DEF OwnEnd, Shape, timeVars, FlagType, PlaceType
<1>2. Rest' = Rest /\ Ms' = Ms
  <2>1. Rest' = (count - tm_count') % M /\ Rest = (count - (compare - Jiffy)) % M
    BY <1>1 DEF Rest
  <2> QED
    BY <1>1, <2>1, TypeParts, JiffyBefore DEF Ms, CountType
<1>3. KeepsTime'
  BY <1>1, <1>2 DEF KeepsTime
<1>4. UntickedLag'
  BY <1>1, <1>2, LagNumbers, Numbers DEF LagInv, UntickedLag
<1>5. TickedLag' /\ TmLag' /\ SetCompareInv'
  BY <1>1 DEF TickedLag, TmLag, SetCompareInv
<1> QED
  BY <1>3, <1>4, <1>5 DEF LagInv

\* sdk_timer_release gives Compare back one jiffy after the last millisecond.
LEMMA ReleaseLag ==
  ASSUME TypeOK, Shape, LagInv, KeepsTime, Release
  PROVE  LagInv' /\ KeepsTime'
<1>1. /\ mode \in {"owned", "ended"} /\ pc = "run" /\ ~in_tm /\ patched /\ ~patched' /\ mode' = "uboot"
      /\ TmAdd(Passed) /\ stamp' = tm_ms' /\ compare' = (tm_count' + Jiffy) % M /\ off' = 0
      /\ UNCHANGED <<count, pc, next, in_tm, n, true_ms, true_sub>>
  BY TypeParts DEF Release, TaskRuns, WriteCompare, Shape, FlagType
<1>2. /\ (count - tm_count') % M = Rest - Passed * Jiffy
      /\ RealTime(tm_ms', Rest - Passed * Jiffy)
      /\ Rest - Passed * Jiffy \in 0..(Jiffy - 1)
  BY <1>1, PassedAll, TmAddKeeps
<1> DEFINE b == tm_count'
           c == (b + Jiffy) % M
<1>3. b \in Counts /\ count \in Counts /\ b \in Int /\ 0 <= b /\ b < M
  <2>1. b \in Counts
    BY <1>1, OperatorTypes
  <2> HIDE DEF b
  <2> QED
    BY <2>1, TypeParts, Numbers DEF CountType, Counts
<1>4. (count - (c - Jiffy)) % M = (count - b) % M
  <2> HIDE DEF b
  <2>1. c \in Counts /\ c = IF b + Jiffy < M THEN b + Jiffy ELSE (b + Jiffy) - M
    <3>1. Jiffy \in Nat /\ Jiffy <= M
      BY Numbers
    <3> QED
      BY <1>3, <3>1, Forward
  <2>2. c \in Int /\ count \in Int /\ 0 <= c /\ c < M
    BY <1>3, <2>1, Numbers DEF Counts
  <2> HIDE DEF c
  <2>3. (c - Jiffy) % M = b
    <3>1. c - Jiffy \in Int /\ -M <= c - Jiffy /\ c - Jiffy < M
      BY <2>2, Numbers
    <3>2. c - Jiffy = b \/ (c - Jiffy = b - M)
      BY <1>3, <2>1, <2>2, Numbers
    <3>3. CASE c - Jiffy = b
      BY <1>3, <3>3, Positive, ModNear
    <3>4. CASE c - Jiffy = b - M
      <4>1. c - Jiffy < 0 /\ (c - Jiffy) + M = b
        BY <1>3, <3>1, <3>4, Positive
      <4> QED
        BY <3>1, <4>1, Positive, ModNear
    <3> QED
      BY <3>2, <3>3, <3>4
  <2> QED
    BY <1>3, <2>1, <2>3, JiffyBefore
<1>5. Rest' = (count - (c - Jiffy)) % M /\ Ms' = tm_ms'
  BY <1>1 DEF Rest, Ms
<1>6. Rest' \in 0..(Jiffy - 1) /\ KeepsTime'
  BY <1>1, <1>2, <1>4, <1>5 DEF RealTime, KeepsTime
<1>7. UntickedLag'
  BY <1>1, <1>6, Positive DEF UntickedLag
<1>8. TickedLag' /\ TmLag' /\ SetCompareInv'
  BY <1>1 DEF TickedLag, TmLag, SetCompareInv
<1> QED
  BY <1>6, <1>7, <1>8 DEF LagInv

----------------------------------------------------------------------------
LEMMA IInvInit == Init => IInv
<1> SUFFICES ASSUME Init PROVE IInv
  OBVIOUS
<1>1. TypeOK
  BY TypeInit
<1>2. Shape
  <2>1. off <= (IF mode = "legacy" THEN MaxLegacy ELSE MaxOff) /\ mode = "uboot" /\ pc = "run"
    BY Numbers DEF Init
  <2>2. patched = (mode # "uboot") /\ ~in_tm
    BY DEF Init
  <2> QED
    BY <2>1, <2>2 DEF Shape
<1>3. Rest = 0 /\ Ms = 0
  <2>1. 0 - (Jiffy - Jiffy) = 0 /\ 0 % M = 0
    BY Positive
  <2> QED
    BY <2>1 DEF Init, Rest, Ms
<1>4. KeepsTime
  <2>1. 0 \div Jiffy = 0 /\ 0 % Jiffy = 0 /\ (0 + 0) % MsMod = 0
    BY Positive
  <2> QED
    BY <1>3, <2>1 DEF Init, KeepsTime
<1>5. LagInv
  BY <1>3, Numbers DEF Init, LagInv, UntickedLag, TickedLag, TmLag, SetCompareInv
<1> QED
  BY <1>1, <1>2, <1>4, <1>5 DEF IInv

LEMMA IInvNext ==
  ASSUME ShortPrograms, IInv, [Next]_vars
  PROVE  IInv'
<1>1. TypeOK /\ Shape /\ LagInv /\ KeepsTime
  BY DEF IInv
<1>2. TypeOK' /\ Shape'
  BY <1>1, FlagTypeNext, ValueTypeNext, TypeParts, ShapeNext
<1>3. LagInv' /\ KeepsTime'
  <2>1. CASE Pass
    BY <1>1, <2>1, PassLag, PassKeepsTime
  <2>2. CASE DisableInterrupts \/ EnableInterrupts \/ EndScheduler \/ LegacyBegin \/ LegacyEnd
    BY <1>1, <2>2, QuietLag, StillKeeps
  <2>3. CASE TmGetTimer
    BY <1>1, <2>3, TmGetTimerLag, StillKeeps
  <2>4. CASE TickBegin \/ StartScheduler
    BY <1>1, <2>4, EnterSetCompare, StillKeeps
  <2>5. CASE TickWrite \/ StartWrite
    BY <1>1, <2>5, WriteLag
  <2>6. CASE TickCheck \/ StartCheck
    BY <1>1, <2>6, CheckLag, StillKeeps
  <2>7. CASE TickHook
    BY <1>1, <2>7, HookLag
  <2>8. CASE TmDone
    BY <1>1, <2>8, TmDoneLag
  <2>9. CASE UbootGetTimer \/ OwnBegin
    BY <1>1, <2>9, UbootLag
  <2>10. CASE OwnEnd
    BY <1>1, <2>10, OwnEndLag
  <2>11. CASE Release
    BY <1>1, <2>11, ReleaseLag
  <2>12. CASE UNCHANGED vars
    <3>1. Still /\ UNCHANGED <<ti, off, mode, pc, next, in_tm, n>>
      BY <2>12 DEF vars, Still
    <3>2. Rest' = Rest /\ ToCompare' = ToCompare /\ PastCompare' = PastCompare /\ KeepsTime'
      BY <1>1, <3>1, StillKeeps
    <3> QED
      BY <1>1, <3>1, <3>2 DEF LagInv, UntickedLag, TickedLag, TmLag, SetCompareInv, Still
  <2> QED
    BY <2>1, <2>2, <2>3, <2>4, <2>5, <2>6, <2>7, <2>8, <2>9, <2>10, <2>11, <2>12 DEF Next
<1> QED
  BY <1>2, <1>3 DEF IInv

\* get_timer returns the real time whoever keeps the clock: no millisecond is lost
\* or counted twice by the hand-overs of Compare, the tick and the tasks that read
\* the clock, wherever Count and the milliseconds wrap.
THEOREM TimeIsKept ==
  ASSUME ShortPrograms
  PROVE  Spec => []KeepsTime
<1>1. IInv /\ [Next]_vars => IInv'
  BY IInvNext
<1>2. IInv => KeepsTime
  BY DEF IInv
<1> QED
  BY <1>1, <1>2, IInvInit, PTL DEF Spec

\* Outside of the port's own code the next tick is latched or at most one period
\* away, however long the interrupts were off before: prvSetCompare never leaves
\* Compare behind Count.
THEOREM NextTickIsSoon ==
  ASSUME ShortPrograms
  PROVE  Spec => []TickSoon
<1>1. IInv /\ [Next]_vars => IInv'
  BY IInvNext
<1>2. IInv => TickSoon
  BY DEF IInv, LagInv, TickedLag, ToCompare, TickSoon
<1> QED
  BY <1>1, <1>2, IInvInit, PTL DEF Spec
============================================================================
