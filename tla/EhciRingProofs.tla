--------------------------- MODULE EhciRingProofs --------------------------
(***************************************************************************)
(* The receive ring of ehci.h implements the queue of RxQueue, for a ring  *)
(* of any length, provided the controller does not visit the queue head    *)
(* between the two writes of ehci_qh_start (StartRace).                    *)
(*                                                                         *)
(* The proof follows one number, the length n of the filled part of the    *)
(* ring: the qTDs from rx_next on are n filled ones, then the one the      *)
(* controller works on or stopped at, then qTDs that wait for data.        *)
(***************************************************************************)
EXTENDS EhciRing, TLAPS, SequenceTheorems

\* The remainder of a number at most one modulus away from the range.
LEMMA ModNear ==
  ASSUME NEW w \in Nat \ {0}, NEW a \in Int
  PROVE  /\ 0 <= a /\ a < w => a % w = a
         /\ -w <= a /\ a < 0 => a % w = a + w
         /\ w <= a /\ a < 2 * w => a % w = a - w
<1>1. ASSUME 0 <= a, a < w PROVE a % w = a
  BY <1>1
<1>2. ASSUME -w <= a, a < 0 PROVE a % w = a + w
  BY <1>2
<1>3. ASSUME w <= a, a < 2 * w PROVE a % w = a - w
  BY <1>3
<1> QED
  BY <1>1, <1>2, <1>3

\* The j-th slot after r, without a division.
Pos(r, j) == IF r + j < RxN THEN r + j ELSE r + j - RxN

\* Only the buffer being handled has lines in the cache, and they hold what the
\* controller wrote.
CacheInv ==
    \A i \in Slots :
        line[i].st # "none" => pc = "handle" /\ i = rx_next /\ line[i].frame = mem[i]

\* What the handler has read is what the buffer holds.
HeldInv ==
    /\ seen # 0 => pc \in {"handle", "arm"}
    /\ pc = "handle" /\ seen # 0 => seen = mem[rx_next]
    /\ pc = "arm" => seen # 0
    /\ pc \in {"handle", "arm"} => k < RxN

\* A transfer under way writes the next frame into the current buffer.
DmaInv ==
    hc = "dma" => ov.st = "active" /\ sent < MaxFrames /\ mem[ov.cur] = sent + 1

\* The queue head before the ring is started.
StartInv ==
    /\ pc \in {"off", "link"} => ov = [cur |-> Term, next |-> Term, st |-> "idle"]
    /\ pc \in {"link", "clear"} => rx_next = 0 /\ \A i \in Slots : tok[i] = "active"
    /\ pc = "clear" => ov.st = "idle" /\ ov.next = 0

\* The queue head and the ring while an error is repaired.
FailInv ==
    pc \in {"fail", "relink", "reclear"} =>
        /\ ov.st = "halted" /\ ov.cur = rx_next
        /\ ov.next = IF pc = "reclear" THEN rx_next ELSE Pos(rx_next, 1)
        /\ \A i \in Slots : tok[i] = IF i = rx_next /\ pc = "fail" THEN "off" ELSE "active"

\* n qTDs are filled, from rx_next on.
Ring(n) ==
    /\ pc \in {"handle", "arm"} => n > 0
    /\ IF ov.st = "idle" THEN ov.next = Pos(rx_next, n)
       ELSE n < RxN /\ ov.cur = Pos(rx_next, n) /\ ov.next = Pos(ov.cur, 1)
    /\ \A j \in Slots :
        /\ j < n => /\ tok[Pos(rx_next, j)] = IF j = 0 /\ pc = "arm" THEN "off" ELSE "done"
                    /\ mem[Pos(rx_next, j)] # 0
        /\ j = n => tok[Pos(rx_next, j)] = IF ov.st = "halted" THEN "err" ELSE "active"
        /\ j > n => tok[Pos(rx_next, j)] = "active"

Running == pc \in {"poll", "handle", "arm", "idle"}

RingInv == Running => \E n \in 0..RxN : Ring(n)

IInv == TypeOK /\ CacheInv /\ HeldInv /\ DmaInv /\ StartInv /\ FailInv /\ RingInv

----------------------------------------------------------------------------
\* Positions in the ring.
LEMMA PosMod ==
    ASSUME NEW r \in Slots, NEW j \in 0..RxN
    PROVE  (r + j) % RxN = Pos(r, j) /\ Pos(r, j) \in Slots
<1>1. r + j \in Int /\ 0 <= r + j /\ r + j < 2 * RxN /\ RxN \in Nat \ {0}
  BY EhciRingAssumption DEF Slots
<1>2. (r + j) % RxN = Pos(r, j)
  <2>1. CASE r + j < RxN
    BY <1>1, <2>1, ModNear DEF Pos
  <2>2. CASE RxN <= r + j
    <3>1. (r + j) % RxN = (r + j) - RxN
      BY <1>1, <2>2, ModNear
    <3> QED BY <1>1, <2>2, <3>1 DEF Pos, Slots
  <2> QED BY <1>1, <2>1, <2>2
<1> QED BY <1>1, <1>2, EhciRingAssumption DEF Pos, Slots

LEMMA SuccPos ==
    ASSUME NEW r \in Slots
    PROVE  Succ(r) = Pos(r, 1) /\ Succ(r) \in Slots
<1>1. 1 \in 0..RxN
  BY EhciRingAssumption
<1> QED BY <1>1, PosMod DEF Succ

LEMMA PosFacts ==
    ASSUME NEW r \in Slots
    PROVE  /\ Pos(r, 0) = r /\ Pos(r, RxN) = r
           /\ \A j \in 0..RxN : Pos(r, j) \in Slots
           /\ \A i, j \in Slots : Pos(r, i) = Pos(r, j) => i = j
           /\ \A j \in Slots : Pos(Pos(r, 1), j) = Pos(r, j + 1) /\ Pos(Pos(r, j), 1) = Pos(r, j + 1)
BY EhciRingAssumption DEF Pos, Slots

LEMMA PosOnto ==
    ASSUME NEW r \in Slots, NEW i \in Slots
    PROVE  \E j \in Slots : i = Pos(r, j)
<1> USE EhciRingAssumption DEF Pos, Slots
<1>1. CASE r <= i
  <2>1. i - r \in Slots /\ i = Pos(r, i - r)
    BY <1>1
  <2> QED BY <2>1
<1>2. CASE i < r
  <2>1. (i + RxN) - r \in Slots /\ i = Pos(r, (i + RxN) - r)
    BY <1>2
  <2> QED BY <2>1
<1> QED BY <1>1, <1>2

\* What the writes to the overlay do.
OvType == [cur: Slots \union {Term}, next: Slots \union {Term}, st: {"idle", "active", "halted"}]

LEMMA OvState ==
    ASSUME NEW o \in OvType, NEW s \in {"idle", "active", "halted"}
    PROVE  [o EXCEPT !.st = s] = [cur |-> o.cur, next |-> o.next, st |-> s]
BY DEF OvType

LEMMA OvNext ==
    ASSUME NEW o \in OvType, NEW i \in Slots
    PROVE  [o EXCEPT !.next = i] = [cur |-> o.cur, next |-> i, st |-> o.st]
BY DEF OvType

\* The qTD the controller works on or stopped at.
LEMMA Current ==
    ASSUME IInv, ov.st # "idle"
    PROVE  /\ ov.cur \in Slots
           /\ pc \in {"handle", "arm"} => ov.cur # rx_next
           /\ ov.st = "active" => tok[ov.cur] = "active"
<1>1. CASE Running
  <2>1. PICK n \in 0..RxN : Ring(n)
    BY <1>1 DEF IInv, RingInv
  <2>2. n < RxN /\ ov.cur = Pos(rx_next, n) /\ rx_next \in Slots
    BY <2>1 DEF Ring, IInv, TypeOK
  <2> QED BY <2>1, <2>2, EhciRingAssumption DEF Ring, Pos, Slots
<1>2. CASE ~Running
  BY <1>2 DEF IInv, TypeOK, StartInv, FailInv, Running
<1> QED BY <1>1, <1>2

\* A running ring has no end.
LEMMA NoEnd ==
    ASSUME IInv, RingOn
    PROVE  ov.next \in Slots
<1>1. CASE Running
  <2>1. PICK n \in 0..RxN : Ring(n)
    BY <1>1 DEF IInv, RingInv
  <2>2. rx_next \in Slots
    BY DEF IInv, TypeOK
  <2>3. CASE ov.st = "idle"
    BY <2>1, <2>2, <2>3, PosFacts DEF Ring
  <2>4. CASE ov.st # "idle"
    <3>1. n \in Slots /\ 1 \in 0..RxN
      BY <2>1, <2>4, EhciRingAssumption DEF Ring, Slots
    <3>2. ov.cur \in Slots
      BY <2>1, <2>2, <2>4, PosFacts DEF Ring
    <3>3. Pos(ov.cur, 1) \in Slots
      BY <3>1, <3>2, PosFacts
    <3> QED BY <2>1, <2>4, <3>3 DEF Ring
  <2> QED BY <2>3, <2>4
<1>2. CASE ~Running
  <2>1. rx_next \in Slots /\ 0 \in Slots /\ 1 \in 0..RxN
    BY EhciRingAssumption DEF IInv, TypeOK, Slots
  <2>2. Pos(rx_next, 1) \in Slots
    BY <2>1, PosFacts
  <2> QED BY <1>2, <2>1, <2>2 DEF IInv, TypeOK, StartInv, FailInv, Running, RingOn
<1> QED BY <1>1, <1>2

LEMMA TypeOKNext ==
    ASSUME IInv, ~StartRace, [Next]_vars
    PROVE  TypeOK'
<1> USE EhciRingAssumption DEF IInv, TypeOK, DmaInv, HeldInv, Slots, driverVars, chipVars, Term
<1>1. CASE HcAdvance
  <2>1. ov.next \in Slots /\ Succ(ov.next) \in Slots
    BY <1>1, SuccPos DEF HcAdvance
  <2> QED BY <1>1, <2>1 DEF HcAdvance
<1>2. CASE HcReceive
  BY <1>2, Current DEF HcReceive
<1>3. CASE HcDone
  <2>1. ov' = [cur |-> ov.cur, next |-> ov.next, st |-> "idle"] /\ ov' \in OvType
    BY <1>3, OvState DEF HcDone, OvType
  <2>2. sent' \in 0..MaxFrames
    <3>1. hc = "dma" /\ sent' = sent + 1
      BY <1>3 DEF HcDone
    <3>2. sent < MaxFrames /\ sent \in 0..MaxFrames
      BY <3>1
    <3> QED BY <3>1, <3>2, EhciRingAssumption
  <2>3. tok' \in [Slots -> {"active", "done", "err", "off"}]
    BY <1>3 DEF HcDone
  <2> QED BY <1>3, <2>1, <2>2, <2>3 DEF HcDone, OvType
<1>4. CASE HcError
  <2>1. ov' = [cur |-> ov.cur, next |-> ov.next, st |-> "halted"] /\ ov' \in OvType
    BY <1>4, OvState DEF HcError, OvType
  <2>2. sent' \in 0..MaxFrames
    BY <1>4 DEF HcError
  <2>4. errors' \in 0..MaxErrors
    <3>1. errors < MaxErrors /\ errors' = errors + 1 /\ errors \in 0..MaxErrors
      BY <1>4 DEF HcError
    <3> QED BY <3>1
  <2>3. tok' \in [Slots -> {"active", "done", "err", "off"}]
    BY <1>4 DEF HcError
  <2> QED BY <1>4, <2>1, <2>2, <2>3, <2>4 DEF HcError, OvType
<1>5. CASE Evict
  BY <1>5 DEF Evict, ehci_cache_wbinv, WrittenBack, NoLine
<1>6. CASE RxStartArm
  BY <1>6 DEF RxStartArm, ehci_cache_wbinv, WrittenBack, NoLine
<1>7. CASE RxStartLink
  <2>1. 0 \in Slots
    OBVIOUS
  <2>2. ov' = [cur |-> ov.cur, next |-> 0, st |-> ov.st] /\ ov' \in OvType
    BY <1>7, <2>1, OvNext DEF RxStartLink, QhLink, OvType
  <2> QED BY <1>7, <2>2 DEF RxStartLink, OvType
<1>8. CASE RxStartClear
  <2>1. ov' = [cur |-> ov.cur, next |-> ov.next, st |-> "idle"] /\ ov' \in OvType
    BY <1>8, OvState DEF RxStartClear, QhClear, OvType
  <2> QED BY <1>8, <2>1 DEF RxStartClear, QhClear, OvType
<1>9. CASE Pump
  BY <1>9 DEF Pump
<1>10. CASE RxGetNone
  BY <1>10 DEF RxGetNone
<1>11. CASE RxGet
  BY <1>11 DEF RxGet, ehci_cache_wbinv, WrittenBack, NoLine
<1>12. CASE RxPut
  BY <1>12 DEF RxPut, ehci_cache_wbinv, WrittenBack, NoLine
<1>13. CASE RxPutArm
  <2>1. Succ(rx_next) \in Slots
    BY SuccPos
  <2>2. ov' = ov
    BY <1>13, NoEnd DEF RxPutArm, RingOn, Ended
  <2>3. tok' \in [Slots -> {"active", "done", "err", "off"}]
    BY <1>13 DEF RxPutArm
  <2>4. k' \in 0..RxN
    <3>1. k < RxN /\ k \in 0..RxN /\ k' = k + 1
      BY <1>13 DEF RxPutArm
    <3> QED BY <3>1
  <2>5. rx_next' \in Slots /\ seen' \in 0..MaxFrames /\ pc' = "poll"
    BY <1>13, <2>1 DEF RxPutArm
  <2>6. UNCHANGED <<mem, hc, sent, errors, opens, line>>
    BY <1>13 DEF RxPutArm
  <2> QED BY <2>2, <2>3, <2>4, <2>5, <2>6
<1>14. CASE RxGetError
  BY <1>14 DEF RxGetError, ehci_cache_wbinv, WrittenBack, NoLine
<1>15. CASE RxErrorArm
  BY <1>15 DEF RxErrorArm
<1>16. CASE RxErrorLink
  BY <1>16 DEF RxErrorLink, QhLink
<1>17. CASE RxErrorClear
  BY <1>17 DEF RxErrorClear, QhClear
<1>18. CASE HandleRx
  BY <1>18 DEF HandleRx, CacheRead
<1>19. CASE Reopen
  BY <1>19 DEF Reopen
<1>20. CASE UNCHANGED vars
  BY <1>20 DEF vars
<1> QED
  BY <1>1, <1>2, <1>3, <1>4, <1>5, <1>6, <1>7, <1>8, <1>9, <1>10,
     <1>11, <1>12, <1>13, <1>14, <1>15, <1>16, <1>17, <1>18, <1>19, <1>20
  DEF Next, Controller, Driver

LEMMA CacheInvNext ==
    ASSUME IInv, ~StartRace, [Next]_vars
    PROVE  CacheInv'
<1> USE EhciRingAssumption DEF IInv, TypeOK, CacheInv, DmaInv, Slots, driverVars, chipVars, Term
<1>1. CASE HcAdvance
  BY <1>1 DEF HcAdvance
<1>2. CASE HcReceive
  BY <1>2, Current DEF HcReceive
<1>3. CASE HcDone
  BY <1>3 DEF HcDone
<1>4. CASE HcError
  BY <1>4 DEF HcError
<1>5. CASE Evict
  BY <1>5 DEF Evict, ehci_cache_wbinv, WrittenBack, NoLine
<1>6. CASE RxStartArm
  BY <1>6 DEF RxStartArm, ehci_cache_wbinv, WrittenBack, NoLine
<1>7. CASE RxStartLink
  BY <1>7 DEF RxStartLink, QhLink
<1>8. CASE RxStartClear
  BY <1>8 DEF RxStartClear, QhClear
<1>9. CASE Pump
  BY <1>9 DEF Pump
<1>10. CASE RxGetNone
  BY <1>10 DEF RxGetNone
<1>11. CASE RxGet
  BY <1>11 DEF RxGet, ehci_cache_wbinv, WrittenBack, NoLine
<1>12. CASE RxPut
  BY <1>12 DEF RxPut, ehci_cache_wbinv, WrittenBack, NoLine
<1>13. CASE RxPutArm
  BY <1>13 DEF RxPutArm, Ended
<1>14. CASE RxGetError
  BY <1>14 DEF RxGetError, ehci_cache_wbinv, WrittenBack, NoLine
<1>15. CASE RxErrorArm
  BY <1>15 DEF RxErrorArm
<1>16. CASE RxErrorLink
  BY <1>16 DEF RxErrorLink, QhLink
<1>17. CASE RxErrorClear
  BY <1>17 DEF RxErrorClear, QhClear
<1>18. CASE HandleRx
  BY <1>18 DEF HandleRx, CacheRead
<1>19. CASE Reopen
  BY <1>19 DEF Reopen
<1>20. CASE UNCHANGED vars
  BY <1>20 DEF vars
<1> QED
  BY <1>1, <1>2, <1>3, <1>4, <1>5, <1>6, <1>7, <1>8, <1>9, <1>10,
     <1>11, <1>12, <1>13, <1>14, <1>15, <1>16, <1>17, <1>18, <1>19, <1>20
  DEF Next, Controller, Driver

LEMMA HeldInvNext ==
    ASSUME IInv, ~StartRace, [Next]_vars
    PROVE  HeldInv'
<1> USE EhciRingAssumption DEF IInv, TypeOK, HeldInv, CacheInv, driverVars, chipVars, Term
<1>1. CASE HcAdvance
  BY <1>1 DEF HcAdvance
<1>2. CASE HcReceive
  BY <1>2, Current DEF HcReceive
<1>3. CASE HcDone
  BY <1>3 DEF HcDone
<1>4. CASE HcError
  BY <1>4 DEF HcError
<1>5. CASE Evict
  BY <1>5 DEF Evict, ehci_cache_wbinv, WrittenBack, NoLine
<1>6. CASE RxStartArm
  BY <1>6 DEF RxStartArm, ehci_cache_wbinv, WrittenBack, NoLine
<1>7. CASE RxStartLink
  BY <1>7 DEF RxStartLink, QhLink
<1>8. CASE RxStartClear
  BY <1>8 DEF RxStartClear, QhClear
<1>9. CASE Pump
  BY <1>9 DEF Pump
<1>10. CASE RxGetNone
  BY <1>10 DEF RxGetNone
<1>11. CASE RxGet
  BY <1>11 DEF RxGet, ehci_cache_wbinv, WrittenBack, NoLine
<1>12. CASE RxPut
  BY <1>12 DEF RxPut, ehci_cache_wbinv, WrittenBack, NoLine
<1>13. CASE RxPutArm
  BY <1>13 DEF RxPutArm, Ended
<1>14. CASE RxGetError
  BY <1>14 DEF RxGetError, ehci_cache_wbinv, WrittenBack, NoLine
<1>15. CASE RxErrorArm
  BY <1>15 DEF RxErrorArm
<1>16. CASE RxErrorLink
  BY <1>16 DEF RxErrorLink, QhLink
<1>17. CASE RxErrorClear
  BY <1>17 DEF RxErrorClear, QhClear
<1>18. CASE HandleRx
  BY <1>18 DEF HandleRx, CacheRead
<1>19. CASE Reopen
  BY <1>19 DEF Reopen
<1>20. CASE UNCHANGED vars
  BY <1>20 DEF vars
<1> QED
  BY <1>1, <1>2, <1>3, <1>4, <1>5, <1>6, <1>7, <1>8, <1>9, <1>10,
     <1>11, <1>12, <1>13, <1>14, <1>15, <1>16, <1>17, <1>18, <1>19, <1>20
  DEF Next, Controller, Driver

LEMMA DmaInvNext ==
    ASSUME IInv, ~StartRace, [Next]_vars
    PROVE  DmaInv'
<1> USE EhciRingAssumption DEF IInv, TypeOK, DmaInv, StartInv, FailInv, CacheInv, driverVars, chipVars, Term
<1>1. CASE HcAdvance
  BY <1>1 DEF HcAdvance
<1>2. CASE HcReceive
  BY <1>2, Current DEF HcReceive
<1>3. CASE HcDone
  BY <1>3 DEF HcDone
<1>4. CASE HcError
  BY <1>4 DEF HcError
<1>5. CASE Evict
  BY <1>5 DEF Evict, ehci_cache_wbinv, WrittenBack, NoLine
<1>6. CASE RxStartArm
  BY <1>6 DEF RxStartArm, ehci_cache_wbinv, WrittenBack, NoLine
<1>7. CASE RxStartLink
  BY <1>7 DEF RxStartLink, QhLink
<1>8. CASE RxStartClear
  BY <1>8 DEF RxStartClear, QhClear
<1>9. CASE Pump
  BY <1>9 DEF Pump
<1>10. CASE RxGetNone
  BY <1>10 DEF RxGetNone
<1>11. CASE RxGet
  BY <1>11 DEF RxGet, ehci_cache_wbinv, WrittenBack, NoLine
<1>12. CASE RxPut
  BY <1>12 DEF RxPut, ehci_cache_wbinv, WrittenBack, NoLine
<1>13. CASE RxPutArm
  BY <1>13 DEF RxPutArm, Ended
<1>14. CASE RxGetError
  BY <1>14 DEF RxGetError, ehci_cache_wbinv, WrittenBack, NoLine
<1>15. CASE RxErrorArm
  BY <1>15 DEF RxErrorArm
<1>16. CASE RxErrorLink
  BY <1>16 DEF RxErrorLink, QhLink
<1>17. CASE RxErrorClear
  BY <1>17 DEF RxErrorClear, QhClear
<1>18. CASE HandleRx
  BY <1>18 DEF HandleRx, CacheRead
<1>19. CASE Reopen
  BY <1>19 DEF Reopen
<1>20. CASE UNCHANGED vars
  BY <1>20 DEF vars
<1> QED
  BY <1>1, <1>2, <1>3, <1>4, <1>5, <1>6, <1>7, <1>8, <1>9, <1>10,
     <1>11, <1>12, <1>13, <1>14, <1>15, <1>16, <1>17, <1>18, <1>19, <1>20
  DEF Next, Controller, Driver

LEMMA StartInvNext ==
    ASSUME IInv, ~StartRace, [Next]_vars
    PROVE  StartInv'
<1> USE EhciRingAssumption DEF IInv, TypeOK, StartInv, DmaInv, Slots, driverVars, chipVars, Term
<1>1. CASE HcAdvance
  BY <1>1 DEF HcAdvance
<1>2. CASE HcReceive
  BY <1>2 DEF HcReceive
<1>3. CASE HcDone
  BY <1>3 DEF HcDone
<1>4. CASE HcError
  <2>1. hc = "dma" /\ pc' = pc
    BY <1>4 DEF HcError
  <2>2. ov.st = "active"
    BY <2>1
  <2>3. pc \notin {"off", "link", "clear"}
    BY <2>2
  <2> QED BY <2>1, <2>3
<1>5. CASE Evict
  BY <1>5 DEF Evict, ehci_cache_wbinv, WrittenBack, NoLine
<1>6. CASE RxStartArm
  BY <1>6 DEF RxStartArm, ehci_cache_wbinv, WrittenBack, NoLine
<1>7. CASE RxStartLink
  BY <1>7 DEF RxStartLink, QhLink
<1>8. CASE RxStartClear
  BY <1>8 DEF RxStartClear, QhClear
<1>9. CASE Pump
  BY <1>9 DEF Pump
<1>10. CASE RxGetNone
  BY <1>10 DEF RxGetNone
<1>11. CASE RxGet
  BY <1>11 DEF RxGet, ehci_cache_wbinv, WrittenBack, NoLine
<1>12. CASE RxPut
  BY <1>12 DEF RxPut, ehci_cache_wbinv, WrittenBack, NoLine
<1>13. CASE RxPutArm
  BY <1>13 DEF RxPutArm, Ended
<1>14. CASE RxGetError
  BY <1>14 DEF RxGetError, ehci_cache_wbinv, WrittenBack, NoLine
<1>15. CASE RxErrorArm
  BY <1>15 DEF RxErrorArm
<1>16. CASE RxErrorLink
  BY <1>16 DEF RxErrorLink, QhLink
<1>17. CASE RxErrorClear
  BY <1>17 DEF RxErrorClear, QhClear
<1>18. CASE HandleRx
  BY <1>18 DEF HandleRx, CacheRead
<1>19. CASE Reopen
  BY <1>19 DEF Reopen
<1>20. CASE UNCHANGED vars
  BY <1>20 DEF vars
<1> QED
  BY <1>1, <1>2, <1>3, <1>4, <1>5, <1>6, <1>7, <1>8, <1>9, <1>10,
     <1>11, <1>12, <1>13, <1>14, <1>15, <1>16, <1>17, <1>18, <1>19, <1>20
  DEF Next, Controller, Driver

LEMMA FailInvNext ==
    ASSUME IInv, ~StartRace, [Next]_vars
    PROVE  FailInv'
<1> USE EhciRingAssumption DEF IInv, TypeOK, FailInv, DmaInv, RingInv, Running, Slots, driverVars,
         chipVars, Term
<1>1. CASE HcAdvance
  BY <1>1 DEF HcAdvance
<1>2. CASE HcReceive
  BY <1>2 DEF HcReceive
<1>3. CASE HcDone
  BY <1>3 DEF HcDone
<1>4. CASE HcError
  BY <1>4 DEF HcError
<1>5. CASE Evict
  BY <1>5 DEF Evict, ehci_cache_wbinv, WrittenBack, NoLine
<1>6. CASE RxStartArm
  BY <1>6 DEF RxStartArm, ehci_cache_wbinv, WrittenBack, NoLine
<1>7. CASE RxStartLink
  BY <1>7 DEF RxStartLink, QhLink
<1>8. CASE RxStartClear
  BY <1>8 DEF RxStartClear, QhClear
<1>9. CASE Pump
  BY <1>9 DEF Pump
<1>10. CASE RxGetNone
  BY <1>10 DEF RxGetNone
<1>11. CASE RxGet
  BY <1>11 DEF RxGet, ehci_cache_wbinv, WrittenBack, NoLine
<1>12. CASE RxPut
  BY <1>12 DEF RxPut, ehci_cache_wbinv, WrittenBack, NoLine
<1>13. CASE RxPutArm
  BY <1>13 DEF RxPutArm, Ended
<1>14. CASE RxGetError
  <2>1. PICK n \in 0..RxN : Ring(n)
    BY <1>14 DEF RxGetError
  <2>2. Pos(rx_next, 0) = rx_next /\ 0 \in Slots
    BY PosFacts
  <2>3. n = 0
    <3>1. 0 < n => tok[rx_next] = "done"
      BY <1>14, <2>1, <2>2 DEF RxGetError, Ring
    <3> QED BY <1>14, <3>1 DEF RxGetError
  <2>4. ov.st = "halted" /\ ov.cur = rx_next /\ ov.next = Pos(rx_next, 1)
    BY <1>14, <2>1, <2>2, <2>3 DEF RxGetError, Ring
  <2>5. \A i \in Slots : i # rx_next => tok[i] = "active"
    <3> TAKE i \in Slots
    <3>1. PICK j \in Slots : i = Pos(rx_next, j)
      BY PosOnto
    <3> QED BY <2>1, <2>2, <2>3, <3>1 DEF Ring
  <2> QED BY <1>14, <2>4, <2>5 DEF RxGetError
<1>15. CASE RxErrorArm
  BY <1>15 DEF RxErrorArm
<1>16. CASE RxErrorLink
  BY <1>16 DEF RxErrorLink, QhLink
<1>17. CASE RxErrorClear
  BY <1>17 DEF RxErrorClear, QhClear
<1>18. CASE HandleRx
  BY <1>18 DEF HandleRx, CacheRead
<1>19. CASE Reopen
  BY <1>19 DEF Reopen
<1>20. CASE UNCHANGED vars
  BY <1>20 DEF vars
<1> QED
  BY <1>1, <1>2, <1>3, <1>4, <1>5, <1>6, <1>7, <1>8, <1>9, <1>10,
     <1>11, <1>12, <1>13, <1>14, <1>15, <1>16, <1>17, <1>18, <1>19, <1>20
  DEF Next, Controller, Driver

----------------------------------------------------------------------------
\* The ring while the driver does not touch it: the controller.
LEMMA RingController ==
    ASSUME IInv, ~StartRace, Controller, Running, NEW n \in 0..RxN, Ring(n)
    PROVE  /\ HcAdvance \/ HcReceive \/ HcError => Ring(n)'
           /\ HcDone => n + 1 \in 0..RxN /\ Ring(n + 1)'
<1>1. Ring(n)
  OBVIOUS
<1>2. rx_next \in Slots /\ rx_next' = rx_next /\ pc' = pc /\ pc # "clear"
  BY DEF IInv, TypeOK, Controller, HcAdvance, HcReceive, HcDone, HcError, driverVars, Running
<1>3. ASSUME HcAdvance PROVE Ring(n)'
  <2>1. ov.st = "idle" /\ ov.next = Pos(rx_next, n) /\ tok[ov.next] = "active" /\ ov.next \in Slots
    BY <1>1, <1>2, <1>3, NoEnd DEF HcAdvance, Ring, Running, RingOn
  <2>2. n < RxN
    <3>1. n = RxN => ov.next = Pos(rx_next, 0) /\ 0 \in Slots
      BY <1>2, <2>1, PosFacts, EhciRingAssumption DEF Slots
    <3>2. n = RxN => tok[ov.next] \in {"off", "done"}
      BY <1>1, <3>1, EhciRingAssumption DEF Ring
    <3> QED BY <1>1, <2>1, <3>2, EhciRingAssumption
  <2>3. ov' = [cur |-> ov.next, next |-> Pos(ov.next, 1), st |-> "active"] /\ tok' = tok /\ mem' = mem
    BY <1>3, <2>1, SuccPos DEF HcAdvance
  <2>4. Ring(n)'
    BY <1>1, <1>2, <2>1, <2>2, <2>3 DEF Ring
  <2> QED BY <2>4
<1>4. ASSUME HcReceive PROVE Ring(n)'
  <2>1. ov.st = "active" /\ n \in Slots /\ ov.cur = Pos(rx_next, n) /\ ov' = ov /\ tok' = tok
    BY <1>1, <1>4, EhciRingAssumption DEF HcReceive, Ring, Slots
  <2>2. mem' = [mem EXCEPT ![ov.cur] = sent + 1] /\ mem \in [Slots -> 0..MaxFrames]
    BY <1>4 DEF HcReceive, IInv, TypeOK
  <2>3. \A j \in Slots : j < n => mem'[Pos(rx_next, j)] = mem[Pos(rx_next, j)]
    BY <1>2, <2>1, <2>2, PosFacts, EhciRingAssumption DEF Slots
  <2>4. Ring(n)'
    BY <1>1, <1>2, <2>1, <2>3 DEF Ring
  <2> QED BY <2>4
<1>5. ASSUME HcDone \/ HcError
      PROVE  (HcError => Ring(n)') /\ (HcDone => n + 1 \in 0..RxN /\ Ring(n + 1)')
  <2>1. ov.st = "active" /\ n \in Slots /\ ov.cur = Pos(rx_next, n) /\ ov.next = Pos(ov.cur, 1)
    BY <1>1, <1>5, EhciRingAssumption DEF HcDone, HcError, Ring, Slots, IInv, DmaInv
  <2>2. mem' = mem /\ mem[ov.cur] # 0 /\ tok \in [Slots -> {"active", "done", "err", "off"}] /\ ov \in OvType
    BY <1>5 DEF HcDone, HcError, IInv, DmaInv, TypeOK, OvType
  <2>3. \A i, j \in Slots : Pos(rx_next, i) \in Slots /\ (Pos(rx_next, i) = Pos(rx_next, j) => i = j)
    BY <1>2, PosFacts, EhciRingAssumption DEF Slots
  <2>4. ASSUME HcDone PROVE n + 1 \in 0..RxN /\ Ring(n + 1)'
    <3>1. ov' = [cur |-> ov.cur, next |-> ov.next, st |-> "idle"] /\ tok' = [tok EXCEPT ![ov.cur] = "done"]
      BY <2>2, <2>4, OvState DEF HcDone
    <3>2. ov'.next = Pos(rx_next, n + 1) /\ n + 1 \in 0..RxN
      BY <1>2, <2>1, <3>1, PosFacts, EhciRingAssumption DEF Slots
    <3>3. \A j \in Slots : tok'[Pos(rx_next, j)] = IF j = n THEN "done" ELSE tok[Pos(rx_next, j)]
      BY <2>1, <2>2, <2>3, <3>1
    <3>4. Ring(n + 1)'
      BY <1>1, <1>2, <2>1, <2>2, <3>1, <3>2, <3>3 DEF Ring, Slots
    <3> QED BY <3>2, <3>4
  <2>5. ASSUME HcError PROVE Ring(n)'
    <3>1. ov' = [cur |-> ov.cur, next |-> ov.next, st |-> "halted"] /\ tok' = [tok EXCEPT ![ov.cur] = "err"]
      BY <2>2, <2>5, OvState DEF HcError
    <3>2. \A j \in Slots : tok'[Pos(rx_next, j)] = IF j = n THEN "err" ELSE tok[Pos(rx_next, j)]
      BY <2>1, <2>2, <2>3, <3>1
    <3>3. Ring(n)'
      BY <1>1, <1>2, <2>1, <2>2, <3>1, <3>2 DEF Ring, Slots
    <3> QED BY <3>3
  <2> QED BY <2>4, <2>5
<1> QED BY <1>3, <1>4, <1>5

\* A write-back changes nothing: a dirty line holds what memory holds.
LEMMA Flush ==
    ASSUME IInv, NEW I \in SUBSET Slots, ehci_cache_wbinv(I)
    PROVE  mem' = mem
<1>1. mem \in [Slots -> 0..MaxFrames] /\ \A i \in Slots : WrittenBack(i) = mem[i]
  BY DEF IInv, TypeOK, CacheInv, WrittenBack
<1> QED BY <1>1 DEF ehci_cache_wbinv

\* The ring in the hands of the driver.
LEMMA RingDriver ==
    ASSUME IInv, Running, NEW n \in 0..RxN, Ring(n)
    PROVE  /\ Evict \/ HandleRx \/ Pump \/ RxGetNone \/ RxGet \/ RxPut => Ring(n)'
           /\ RxPutArm => n - 1 \in 0..RxN /\ Ring(n - 1)'
<1>1. rx_next \in Slots /\ 0 \in Slots /\ 0 \in 0..RxN /\ Pos(rx_next, 0) = rx_next
  BY PosFacts, EhciRingAssumption DEF IInv, TypeOK, Slots
<1>2. tok \in [Slots -> {"active", "done", "err", "off"}] /\ ov \in OvType
  BY DEF IInv, TypeOK, OvType
<1>3. \A i, j \in Slots : Pos(rx_next, i) \in Slots /\ (Pos(rx_next, i) = Pos(rx_next, j) => i = j)
  BY <1>1, PosFacts, EhciRingAssumption DEF Slots
<1>4. ASSUME UNCHANGED <<tok, ov, mem, rx_next>>,
             pc' = pc \/ (pc' \in {"poll", "idle"} /\ pc \in {"poll", "idle"})
      PROVE  Ring(n)'
  BY <1>4 DEF Ring
<1>5. ASSUME Evict PROVE Ring(n)'
  <2>1. UNCHANGED <<tok, ov, mem, rx_next, pc>>
    BY <1>5, Flush DEF Evict, driverVars
  <2> QED BY <1>4, <2>1 DEF Running
<1>6. ASSUME HandleRx PROVE Ring(n)'
  BY <1>4, <1>6 DEF HandleRx, Running
<1>7. ASSUME Pump \/ RxGetNone PROVE Ring(n)'
  BY <1>4, <1>7 DEF Pump, RxGetNone, Running
<1>8. ASSUME RxGet PROVE Ring(n)'
  <2>1. UNCHANGED <<tok, ov, mem, rx_next>> /\ pc = "poll" /\ pc' = "handle"
        /\ tok[rx_next] \in {"done", "off"}
    BY <1>1, <1>8, Flush DEF RxGet
  <2>2. Ring(n)
    OBVIOUS
  <2>3. n # 0
    BY <1>1, <2>1, <2>2 DEF Ring
  <2>4. Ring(n)'
    BY <2>1, <2>2, <2>3, EhciRingAssumption DEF Ring
  <2> QED BY <2>4
<1>9. ASSUME RxPut PROVE Ring(n)'
  <2>1. UNCHANGED <<ov, mem, rx_next>> /\ pc = "handle" /\ pc' = "arm"
        /\ tok' = [tok EXCEPT ![rx_next] = "off"]
    BY <1>1, <1>9, Flush DEF RxPut
  <2>2. Ring(n)
    OBVIOUS
  <2>3. \A j \in Slots : tok'[Pos(rx_next, j)] = IF j = 0 THEN "off" ELSE tok[Pos(rx_next, j)]
    BY <1>1, <1>2, <1>3, <2>1
  <2>4. Ring(n)'
    BY <2>1, <2>2, <2>3, EhciRingAssumption DEF Ring, Slots
  <2> QED BY <2>4
<1>10. ASSUME RxPutArm PROVE n - 1 \in 0..RxN /\ Ring(n - 1)'
  <2>1. /\ UNCHANGED <<ov, mem>> /\ pc = "arm" /\ pc' = "poll"
        /\ tok' = [tok EXCEPT ![rx_next] = "active"] /\ rx_next' = Pos(rx_next, 1)
    BY <1>1, <1>10, NoEnd, SuccPos, EhciRingAssumption DEF RxPutArm, RingOn, Ended, Term, Slots
  <2>2. Ring(n)
    OBVIOUS
  <2>3. n - 1 \in Slots /\ n - 1 \in 0..RxN /\ (n - 1) + 1 = n
    BY <2>1, <2>2, EhciRingAssumption DEF Ring, Slots
  <2>4. \A j \in Slots : Pos(rx_next', j) = Pos(rx_next, j + 1)
    BY <1>1, <2>1, PosFacts
  <2>5. \A j \in Slots : j + 1 \in Slots => tok'[Pos(rx_next', j)] = tok[Pos(rx_next, j + 1)]
    BY <1>1, <1>2, <1>3, <2>1, <2>4, EhciRingAssumption DEF Slots
  <2>6. \A j \in Slots : j + 1 \notin Slots => j + 1 = RxN /\ tok'[Pos(rx_next', j)] = "active"
    BY <1>1, <1>2, <2>1, <2>4, PosFacts, EhciRingAssumption DEF Slots
  <2>7. IF ov.st = "idle" THEN ov.next = Pos(rx_next', n - 1)
        ELSE n - 1 < RxN /\ ov.cur = Pos(rx_next', n - 1) /\ ov.next = Pos(ov.cur, 1)
    <3>1. Pos(rx_next', n - 1) = Pos(rx_next, n) /\ n - 1 < RxN
      BY <2>3, <2>4, EhciRingAssumption DEF Slots
    <3> QED BY <2>2, <3>1 DEF Ring
  <2>8. \A j \in Slots :
          /\ j < n - 1 => tok'[Pos(rx_next', j)] = "done" /\ mem[Pos(rx_next', j)] # 0
          /\ j = n - 1 => tok'[Pos(rx_next', j)] = IF ov.st = "halted" THEN "err" ELSE "active"
          /\ j > n - 1 => tok'[Pos(rx_next', j)] = "active"
    <3> TAKE j \in Slots
    <3>1. CASE j + 1 \in Slots
      BY <2>1, <2>2, <2>3, <2>4, <2>5, <3>1, EhciRingAssumption DEF Ring, Slots
    <3>2. CASE j + 1 \notin Slots
      BY <2>1, <2>2, <2>3, <2>6, <3>2, EhciRingAssumption DEF Ring, Slots
    <3> QED BY <3>1, <3>2
  <2>9. Ring(n - 1)'
    BY <2>1, <2>7, <2>8 DEF Ring
  <2> QED BY <2>3, <2>9
<1> QED BY <1>5, <1>6, <1>7, <1>8, <1>9, <1>10

\* The ring starts, for the first time or after an error, with nothing filled.
LEMMA RingStart ==
    ASSUME IInv, RxStartClear \/ RxErrorClear
    PROVE  Ring(0)'
<1>1. rx_next \in Slots /\ 0 \in Slots /\ Pos(rx_next, 0) = rx_next
  BY PosFacts, EhciRingAssumption DEF IInv, TypeOK, Slots
<1>2. \A j \in Slots : Pos(rx_next, j) \in Slots
  BY <1>1, PosFacts, EhciRingAssumption DEF Slots
<1>3. UNCHANGED <<tok, mem, rx_next>> /\ pc' \in {"poll", "idle"} /\ \A i \in Slots : tok[i] = "active"
  BY DEF RxStartClear, RxErrorClear, IInv, StartInv, FailInv
<1>4. ov \in OvType
  BY DEF IInv, TypeOK, OvType
<1>5. ov' = [cur |-> ov.cur, next |-> ov.next, st |-> "idle"] /\ ov.next = rx_next
  BY <1>4, OvState DEF RxStartClear, RxErrorClear, QhClear, IInv, StartInv, FailInv
<1> QED BY <1>1, <1>2, <1>3, <1>5 DEF Ring, Slots

LEMMA RingInvNext ==
    ASSUME IInv, ~StartRace, [Next]_vars
    PROVE  RingInv'
<1> SUFFICES ASSUME Running' PROVE \E n \in 0..RxN : Ring(n)'
  BY DEF RingInv
<1>1. CASE RxStartClear \/ RxErrorClear
  BY <1>1, RingStart, EhciRingAssumption
<1>2. CASE ~(RxStartClear \/ RxErrorClear)
  <2>1. Running
    BY <1>2 DEF Next, Running, Controller, HcAdvance, HcReceive, HcDone, HcError, Evict, Driver,
       RxStartArm, RxStartLink, Pump, RxGetNone, RxGet, RxPut, RxPutArm, RxGetError, RxErrorArm,
       RxErrorLink, HandleRx, Reopen, driverVars, vars
  <2>2. PICK n \in 0..RxN : Ring(n)
    BY <2>1 DEF IInv, RingInv
  <2>3. CASE Controller
    BY <2>1, <2>2, <2>3, RingController DEF Controller
  <2>4. CASE Evict \/ HandleRx \/ Pump \/ RxGetNone \/ RxGet \/ RxPut \/ RxPutArm
    BY <2>1, <2>2, <2>4, RingDriver
  <2>5. CASE UNCHANGED vars
    BY <2>2, <2>5 DEF vars, Ring
  <2>6. ~(RxStartArm \/ RxStartLink \/ RxGetError \/ RxErrorArm \/ RxErrorLink \/ Reopen)
    BY DEF Running, RxStartArm, RxStartLink, RxGetError, RxErrorArm, RxErrorLink, Reopen
  <2> QED BY <1>2, <2>3, <2>4, <2>5, <2>6 DEF Next, Driver
<1> QED BY <1>1, <1>2

LEMMA IInvInit == Init => IInv
<1> SUFFICES ASSUME Init PROVE IInv
  OBVIOUS
<1>1. TypeOK
  BY EhciRingAssumption DEF Init, TypeOK, Slots, NoLine, Term
<1> QED
  BY <1>1 DEF Init, IInv, CacheInv, HeldInv, DmaInv, StartInv, FailInv, RingInv, Running, NoLine

LEMMA IInvNext ==
    ASSUME ~StartRace
    PROVE  IInv /\ [Next]_vars => IInv'
BY TypeOKNext, CacheInvNext, HeldInvNext, DmaInvNext, StartInvNext, FailInvNext, RingInvNext DEF IInv

----------------------------------------------------------------------------
LEMMA IInvAlways ==
    ASSUME ~StartRace
    PROVE  Spec => []IInv
<1>1. IInv /\ [Next]_vars => IInv'
  BY IInvNext
<1> QED BY <1>1, IInvInit, PTL DEF Spec

\* The variables of driver, controller and cache keep their types.
THEOREM TypeCorrect ==
    ASSUME ~StartRace
    PROVE  Spec => []TypeOK
<1>1. IInv => TypeOK
  BY DEF IInv
<1> QED BY <1>1, IInvAlways, PTL

\* A filled buffer is never behind one that still waits for data, so ehci_rx_get
\* may look at one qTD only, for a ring of any length.
THEOREM FilledInOrder ==
    ASSUME ~StartRace
    PROVE  Spec => []NextFilled
<1>1. IInv => NextFilled
  <2> SUFFICES ASSUME IInv, RingOn, NEW j \in Slots \ {0}, tok[Nth(j)] = "done"
               PROVE  tok[Nth(j - 1)] # "active"
    BY DEF NextFilled
  <2>1. rx_next \in Slots /\ j \in 0..RxN /\ j - 1 \in 0..RxN /\ j - 1 \in Slots /\ j - 1 < j
    BY EhciRingAssumption DEF IInv, TypeOK, Slots
  <2>2. Nth(j) = Pos(rx_next, j) /\ Nth(j - 1) = Pos(rx_next, j - 1) /\ Pos(rx_next, j) \in Slots
    BY <2>1, PosMod DEF Nth
  <2>3. CASE Running
    <3>1. PICK n \in 0..RxN : Ring(n)
      BY <2>3 DEF IInv, RingInv
    <3>2. j < n
      BY <2>1, <2>2, <3>1, EhciRingAssumption DEF Ring, Slots
    <3> QED BY <2>1, <2>2, <3>1, <3>2, EhciRingAssumption DEF Ring, Slots
  <2>4. CASE ~Running
    BY <2>2, <2>4 DEF IInv, TypeOK, StartInv, FailInv, Running, RingOn
  <2> QED BY <2>3, <2>4
<1> QED BY <1>1, IInvAlways, PTL

\* The queue of a started ring never comes to an end: the restart in ehci_rx_put
\* is dead code ("should not happen in a ring").
THEOREM NeverEnds ==
    ASSUME ~StartRace
    PROVE  Spec => []RingNeverEnds
<1>1. IInv => RingNeverEnds
  BY NoEnd, EhciRingAssumption DEF RingNeverEnds, Term, Slots
<1> QED BY <1>1, IInvAlways, PTL

----------------------------------------------------------------------------
(* Refinement.                                                             *)

\* The filled frames when n qTDs are filled.
Frames(n) == [j \in 1..(n - First) |-> mem[Pos(rx_next, First + j - 1)]]

\* Filled is the n of the ring, without the buffer that is handed out.
LEMMA FilledIs ==
    \A n \in 0..RxN : IInv /\ Running /\ Ring(n) => FilledFrames = Frames(n) /\ First <= n
<1> SUFFICES ASSUME NEW n \in 0..RxN, IInv, Running, Ring(n)
             PROVE  FilledFrames = Frames(n) /\ First <= n
  OBVIOUS
<1>1. rx_next \in Slots /\ First \in {0, 1} /\ First <= n /\ n - First \in 0..(RxN - First)
  BY EhciRingAssumption DEF First, Holding, Ring, IInv, TypeOK, Slots
<1>2. \A j \in Slots : Nth(j) = Pos(rx_next, j)
  BY <1>1, PosMod, EhciRingAssumption DEF Nth, Slots
<1>3. \A j \in 0..(n - First - 1) : tok[Nth(First + j)] = "done"
  <2> TAKE j \in 0..(n - First - 1)
  <2>1. First + j \in Slots /\ First + j < n /\ (First + j = 0 => pc # "arm")
    BY <1>1, EhciRingAssumption DEF First, Holding, IInv, HeldInv, Slots
  <2> QED BY <1>2, <2>1 DEF Ring
<1>4. n - First < RxN - First => tok[Nth(First + (n - First))] # "done"
  <2> SUFFICES ASSUME n < RxN PROVE tok[Nth(n)] # "done"
    BY <1>1, EhciRingAssumption
  <2> QED BY <1>2, EhciRingAssumption DEF Ring, Slots
<1>5. ASSUME NEW m \in 0..(RxN - First),
             \A j \in 0..(m - 1) : tok[Nth(First + j)] = "done",
             m < RxN - First => tok[Nth(First + m)] # "done"
      PROVE  m = n - First
  <2>1. ~(m < n - First)
    BY <1>1, <1>3, <1>5, EhciRingAssumption
  <2>2. ~(n - First < m)
    <3> SUFFICES ASSUME n - First < m PROVE FALSE
      OBVIOUS
    <3>1. n - First \in 0..(m - 1) /\ n - First < RxN - First
      BY <1>1, <1>5, EhciRingAssumption
    <3>2. tok[Nth(First + (n - First))] = "done"
      BY <1>5, <3>1
    <3> QED BY <1>4, <3>1, <3>2
  <2> QED BY <1>1, <2>1, <2>2, EhciRingAssumption
<1>6. Filled = n - First
  BY <1>1, <1>3, <1>4, <1>5 DEF Filled
<1>7. \A j \in 1..(n - First) : Nth(First + j - 1) = Pos(rx_next, First + j - 1)
  BY <1>1, <1>2, EhciRingAssumption DEF Slots
<1> QED BY <1>1, <1>6, <1>7 DEF FilledFrames, Frames, Running, RingOn

LEMMA FilledIsNext ==
    (\A n \in 0..RxN : IInv /\ Running /\ Ring(n) => FilledFrames = Frames(n) /\ First <= n)'
BY FilledIs, PTL

\* There is nothing in a ring that starts or is repaired.
LEMMA EmptyIs == IInv /\ ~Running => FilledFrames = <<>> /\ seen = 0
<1> SUFFICES ASSUME IInv, ~Running PROVE FilledFrames = <<>> /\ seen = 0
  OBVIOUS
<1>1. seen = 0
  BY DEF IInv, HeldInv, Running
<1>2. CASE ~RingOn
  BY <1>1, <1>2 DEF FilledFrames
<1>3. CASE RingOn
  <2>1. First = 0 /\ rx_next \in Slots
    BY <1>1 DEF First, Holding, IInv, TypeOK
  <2>2. Nth(0) = rx_next
    BY <2>1, PosMod, PosFacts, EhciRingAssumption DEF Nth
  <2>3. tok[Nth(0)] # "done"
    BY <1>3, <2>1, <2>2 DEF IInv, TypeOK, StartInv, FailInv, Running, RingOn
  <2>4. \A m \in 0..RxN : (\A j \in 0..(m - 1) : tok[Nth(0 + j)] = "done") => m = 0
    BY <2>3, EhciRingAssumption
  <2>5. Filled = 0
    BY <2>1, <2>3, <2>4, EhciRingAssumption DEF Filled
  <2> QED BY <1>1, <1>3, <2>5 DEF FilledFrames
<1> QED BY <1>2, <1>3

LEMMA EmptyIsNext == (IInv /\ ~Running => FilledFrames = <<>> /\ seen = 0)'
BY EmptyIs, PTL
\* What is read of the ring's variables, for the steps below.
LEMMA Bounds ==
    ASSUME IInv, Running, NEW n \in 0..RxN, Ring(n)
    PROVE  /\ rx_next \in Slots /\ seen \in 0..MaxFrames /\ sent \in 0..MaxFrames
           /\ FilledFrames = Frames(n)
           /\ First = (IF seen = 0 THEN 0 ELSE 1) /\ First <= n
<1>1. FilledFrames = Frames(n) /\ First <= n
  BY FilledIs
<1> QED BY <1>1 DEF IInv, TypeOK, HeldInv, First, Holding

LEMMA BoundsNext ==
    ASSUME IInv', Running', NEW n \in 0..RxN, Ring(n)'
    PROVE  /\ rx_next' \in Slots /\ seen' \in 0..MaxFrames
           /\ FilledFrames' = Frames(n)'
           /\ First' = (IF seen' = 0 THEN 0 ELSE 1) /\ First' <= n
<1>1. FilledFrames' = Frames(n)' /\ First' <= n
  BY FilledIsNext
<1> QED BY <1>1 DEF IInv, TypeOK, HeldInv, First, Holding

\* Steps that leave the filled frames alone.
LEMMA SameFrames ==
    ASSUME IInv, IInv', Running, Running', NEW n \in 0..RxN, Ring(n), Ring(n)',
           UNCHANGED <<rx_next, seen>>,
           \A j \in Slots : j < n => mem'[Pos(rx_next, j)] = mem[Pos(rx_next, j)]
    PROVE  UNCHANGED FilledFrames
<1>1. FilledFrames = Frames(n) /\ FilledFrames' = Frames(n)' /\ First' = First /\ First \in {0, 1}
  BY Bounds, BoundsNext
<1>2. \A j \in 1..(n - First) : First + j - 1 \in Slots /\ First + j - 1 < n
  BY <1>1, EhciRingAssumption DEF Slots
<1> QED BY <1>1, <1>2 DEF Frames

\* A step of a running ring.
LEMMA RunningRefines ==
    ASSUME IInv, IInv', ~StartRace, [Next]_vars, Running, Running'
    PROVE  [Abs!Next]_(Abs!vars)
<1>1. PICK n \in 0..RxN : Ring(n)
  BY DEF IInv, RingInv
<1>2. /\ rx_next \in Slots /\ seen \in 0..MaxFrames /\ sent \in 0..MaxFrames
      /\ FilledFrames = Frames(n) /\ First = (IF seen = 0 THEN 0 ELSE 1) /\ First <= n
  BY <1>1, Bounds
<1>3. CASE HcAdvance \/ Evict \/ Pump \/ RxGetNone \/ RxGet \/ RxPut \/ (HandleRx /\ seen # 0)
  <2>1. Ring(n)' /\ UNCHANGED <<rx_next, mem, sent>>
    BY <1>1, <1>2, <1>3, RingController, RingDriver, Flush
       DEF Controller, HcAdvance, Evict, Pump, RxGetNone, RxGet, RxPut, HandleRx, driverVars, chipVars
  <2>2. UNCHANGED <<seen, errors, opens>>
    <3>1. CASE HandleRx /\ seen # 0
      BY <1>2, <3>1 DEF HandleRx, CacheRead, IInv, CacheInv, HeldInv, chipVars
    <3> QED
      BY <1>3, <3>1 DEF HcAdvance, Evict, Pump, RxGetNone, RxGet, RxPut, driverVars, chipVars
  <2>3. UNCHANGED FilledFrames
    BY <1>1, <2>1, <2>2, SameFrames
  <2> QED BY <2>1, <2>2, <2>3 DEF Abs!vars
<1>4. CASE HcReceive
  <2>1. Ring(n)' /\ UNCHANGED <<rx_next, seen, sent, errors, opens>>
    BY <1>1, <1>4, RingController DEF Controller, HcReceive, driverVars
  <2>2. n \in Slots /\ ov.cur = Pos(rx_next, n) /\ mem \in [Slots -> 0..MaxFrames]
    <3>1. mem \in [Slots -> 0..MaxFrames]
      BY DEF IInv, TypeOK
    <3>2. n < RxN /\ ov.cur = Pos(rx_next, n)
      BY <1>1, <1>4 DEF HcReceive, Ring
    <3> QED BY <3>1, <3>2, EhciRingAssumption DEF Slots
  <2>3. \A j \in Slots : j < n => mem'[Pos(rx_next, j)] = mem[Pos(rx_next, j)]
    BY <1>2, <1>4, <2>2, PosFacts, EhciRingAssumption DEF HcReceive, Slots
  <2>4. UNCHANGED FilledFrames
    BY <1>1, <2>1, <2>3, SameFrames
  <2> QED BY <2>1, <2>4 DEF Abs!vars
<1>5. CASE HcError
  <2>1. /\ Ring(n)' /\ UNCHANGED <<rx_next, seen, mem, opens>>
        /\ sent' \in {sent, sent + 1} /\ sent < MaxFrames /\ errors' = errors + 1
    BY <1>1, <1>5, RingController DEF Controller, HcError, driverVars, IInv, DmaInv
  <2>2. UNCHANGED FilledFrames
    BY <1>1, <2>1, SameFrames
  <2> QED BY <2>1, <2>2 DEF Abs!vars, Abs!Next, Abs!Fail
<1>6. CASE HcDone
  <2>1. n + 1 \in 0..RxN /\ Ring(n + 1)' /\ UNCHANGED <<rx_next, seen, mem, errors, opens>> /\ sent' = sent + 1
    BY <1>1, <1>6, RingController DEF Controller, HcDone, driverVars
  <2>2. sent < MaxFrames /\ mem[Pos(rx_next, n)] = sent + 1
    BY <1>1, <1>6 DEF HcDone, IInv, DmaInv, Ring
  <2>3. FilledFrames' = Frames(n + 1)' /\ First' = First
    BY <1>2, <2>1, BoundsNext
  <2>4. /\ FilledFrames = [j \in 1..(n - First) |-> mem[Pos(rx_next, First + j - 1)]]
        /\ FilledFrames' = [j \in 1..((n + 1) - First) |-> mem[Pos(rx_next, First + j - 1)]]
    BY <1>2, <2>1, <2>3 DEF Frames
  <2>5. Len(FilledFrames) = n - First /\ FilledFrames' = Append(FilledFrames, sent + 1)
    BY <1>2, <2>1, <2>2, <2>4
  <2>6. Abs!Used < RxN
    <3>1. Abs!Used = Len(FilledFrames) + First
      BY <1>2 DEF Abs!Used
    <3>2. (n - First) + First < RxN
      BY <1>2, <2>1, EhciRingAssumption
    <3> QED BY <2>5, <3>1, <3>2
  <2> QED BY <2>1, <2>2, <2>5, <2>6 DEF Abs!Next, Abs!Accept
<1>7. CASE HandleRx /\ seen = 0
  <2>1. Ring(n)' /\ UNCHANGED <<rx_next, mem, sent, errors, opens>>
    BY <1>1, <1>7, RingDriver DEF HandleRx, chipVars
  <2>2. 0 < n /\ seen' = mem[rx_next] /\ mem[rx_next] # 0
    BY <1>1, <1>2, <1>7, PosFacts, EhciRingAssumption
       DEF HandleRx, CacheRead, IInv, CacheInv, HeldInv, Ring, Slots
  <2>3. FilledFrames' = Frames(n)' /\ First' = 1 /\ First = 0
    BY <1>2, <1>7, <2>1, <2>2, BoundsNext
  <2>4. /\ FilledFrames = [j \in 1..n |-> mem[Pos(rx_next, 0 + j - 1)]]
        /\ FilledFrames' = [j \in 1..(n - 1) |-> mem[Pos(rx_next, 1 + j - 1)]]
    BY <1>2, <2>1, <2>3 DEF Frames
  <2>5. FilledFrames # <<>> /\ Head(FilledFrames) = mem[rx_next] /\ FilledFrames' = Tail(FilledFrames)
    <3>1. FilledFrames \in Seq(0..MaxFrames) /\ Len(FilledFrames) = n
      <4>1. \A j \in 1..n : mem[Pos(rx_next, 0 + j - 1)] \in 0..MaxFrames
        <5>1. \A j \in 1..n : 0 + j - 1 \in 0..RxN
          BY EhciRingAssumption
        <5>2. mem \in [Slots -> 0..MaxFrames]
          BY DEF IInv, TypeOK
        <5> QED BY <1>2, <5>1, <5>2, PosFacts
      <4> QED BY <2>4, <4>1
    <3>2. FilledFrames[1] = mem[rx_next]
      BY <1>2, <2>2, <2>4, PosFacts
    <3>3. FilledFrames # <<>> /\ Head(FilledFrames) = FilledFrames[1]
      BY <2>2, <3>1
    <3>4. /\ Tail(FilledFrames) \in Seq(0..MaxFrames) /\ Len(Tail(FilledFrames)) = n - 1
          /\ \A j \in 1..(n - 1) : Tail(FilledFrames)[j] = FilledFrames[j + 1]
      BY <3>1, <3>3, HeadTailProperties
    <3>5. \A j \in 1..(n - 1) : FilledFrames[j + 1] = mem[Pos(rx_next, 1 + j - 1)]
      BY <2>4
    <3>6. FilledFrames' = Tail(FilledFrames)
      <4>1. \A j \in 1..(n - 1) : mem[Pos(rx_next, 1 + j - 1)] \in 0..MaxFrames
        <5>1. \A j \in 1..(n - 1) : Tail(FilledFrames)[j] \in 0..MaxFrames
          BY <3>4, ElementOfSeq
        <5> QED BY <3>4, <3>5, <5>1
      <4>2. FilledFrames' \in Seq(0..MaxFrames) /\ Len(FilledFrames') = n - 1
        BY <2>2, <2>4, <4>1
      <4> QED BY <2>4, <3>4, <3>5, <4>2, SeqEqual
    <3> QED BY <3>2, <3>3, <3>6
  <2> QED BY <1>7, <2>1, <2>2, <2>5 DEF Abs!Next, Abs!HandOut
<1>8. CASE RxPutArm
  <2>1. n - 1 \in 0..RxN /\ Ring(n - 1)' /\ rx_next' = Pos(rx_next, 1) /\ UNCHANGED <<mem, sent, errors, opens>>
        /\ seen # 0 /\ seen' = 0
    BY <1>1, <1>2, <1>8, RingDriver, SuccPos DEF RxPutArm, chipVars, IInv, HeldInv
  <2>2. FilledFrames' = Frames(n - 1)' /\ First' = 0 /\ First = 1
    BY <1>2, <2>1, BoundsNext
  <2>3. /\ FilledFrames = [j \in 1..(n - 1) |-> mem[Pos(rx_next, 1 + j - 1)]]
        /\ FilledFrames' = [j \in 1..((n - 1) - 0) |-> mem[Pos(rx_next', 0 + j - 1)]]
    BY <1>2, <2>1, <2>2 DEF Frames
  <2>4. \A j \in 1..(n - 1) : Pos(rx_next', 0 + j - 1) = Pos(rx_next, 1 + j - 1)
    BY <1>2, <2>1, PosFacts, EhciRingAssumption DEF Slots
  <2>5. FilledFrames' = FilledFrames
    BY <2>1, <2>3, <2>4
  <2> QED BY <2>1, <2>5 DEF Abs!Next, Abs!GiveBack
<1>9. CASE UNCHANGED vars
  BY <1>9 DEF vars, Abs!vars, FilledFrames, RingOn, Filled, First, Holding, Nth
<1>10. ~(RxStartArm \/ RxStartLink \/ RxStartClear \/ RxGetError \/ RxErrorArm \/ RxErrorLink
         \/ RxErrorClear \/ Reopen)
  BY DEF Running, RxStartArm, RxStartLink, RxStartClear, RxGetError, RxErrorArm, RxErrorLink,
         RxErrorClear, Reopen
<1> QED
  BY <1>3, <1>4, <1>5, <1>6, <1>7, <1>8, <1>9, <1>10 DEF Next, Controller, Driver
LEMMA StepRefines ==
    ASSUME ~StartRace
    PROVE  IInv /\ IInv' /\ [Next]_vars => [Abs!Next]_(Abs!vars)
<1> SUFFICES ASSUME IInv, IInv', [Next]_vars PROVE [Abs!Next]_(Abs!vars)
  OBVIOUS
<1>1. CASE Running /\ Running'
  BY <1>1, RunningRefines
<1>2. CASE ~Running
  <2>1. FilledFrames = <<>> /\ seen = 0
    BY <1>2, EmptyIs
  <2>2. hc # "dma"
    BY <1>2 DEF IInv, DmaInv, StartInv, FailInv, Running, TypeOK
  <2>3. UNCHANGED <<sent, seen, errors, opens>>
    BY <1>2, <2>2 DEF Next, Running, Controller, HcAdvance, HcReceive, HcDone, HcError, Evict, Driver,
       RxStartArm, RxStartLink, RxStartClear, Pump, RxGetNone, RxGet, RxPut, RxPutArm, RxGetError,
       RxErrorArm, RxErrorLink, RxErrorClear, HandleRx, Reopen, driverVars, chipVars, vars
  <2>4. CASE ~Running'
    BY <2>1, <2>3, <2>4, EmptyIsNext DEF Abs!vars
  <2>5. CASE Running'
    <3>1. RxStartClear \/ RxErrorClear
      BY <1>2, <2>5 DEF Next, Running, Controller, HcAdvance, HcReceive, HcDone, HcError, Evict, Driver,
         RxStartArm, RxStartLink, Pump, RxGetNone, RxGet, RxPut, RxPutArm, RxGetError,
         RxErrorArm, RxErrorLink, HandleRx, Reopen, driverVars, vars
    <3>2. Ring(0)' /\ 0 \in 0..RxN
      BY <3>1, RingStart, EhciRingAssumption
    <3>3. FilledFrames' = Frames(0)' /\ First' = 0
      BY <2>1, <2>3, <2>5, <3>2, BoundsNext
    <3>4. FilledFrames' = <<>>
      BY <3>3 DEF Frames
    <3> QED BY <2>1, <2>3, <3>4 DEF Abs!vars
  <2> QED BY <2>4, <2>5
<1>3. CASE Running /\ ~Running'
  <2>1. FilledFrames' = <<>> /\ seen' = 0
    BY <1>3, EmptyIsNext
  <2>2. RxGetError \/ Reopen
    BY <1>3 DEF Next, Running, Controller, HcAdvance, HcReceive, HcDone, HcError, Evict, Driver,
       RxStartArm, RxStartLink, RxStartClear, Pump, RxGetNone, RxGet, RxPut, RxPutArm,
       RxErrorArm, RxErrorLink, RxErrorClear, HandleRx, driverVars, vars
  <2>3. UNCHANGED sent /\ seen = 0
    BY <2>2 DEF RxGetError, Reopen, IInv, HeldInv, chipVars
  <2>4. CASE Reopen
    BY <2>1, <2>3, <2>4 DEF Reopen, Abs!Next, Abs!Reset
  <2>5. CASE RxGetError
    <3>1. PICK n \in 0..RxN : Ring(n)
      BY <1>3 DEF IInv, RingInv
    <3>2. rx_next \in Slots /\ 0 \in Slots /\ Pos(rx_next, 0) = rx_next
      BY PosFacts, EhciRingAssumption DEF IInv, TypeOK, Slots
    <3>3. n = 0
      BY <2>5, <3>1, <3>2 DEF RxGetError, Ring
    <3>4. FilledFrames = Frames(0) /\ First = 0
      BY <1>3, <2>3, <3>1, <3>3, Bounds
    <3>5. FilledFrames = <<>>
      BY <3>4 DEF Frames
    <3> QED BY <2>1, <2>3, <2>5, <3>5 DEF RxGetError, chipVars, Abs!vars
  <2> QED BY <2>2, <2>4, <2>5
<1> QED BY <1>1, <1>2, <1>3

LEMMA InitRefines == Init => Abs!Init
BY DEF Init, Abs!Init, FilledFrames, RingOn

\* Ring, cache and controller together are the queue of RxQueue: a frame is handed
\* out once, in order and unchanged; a frame is lost only by a transfer error or a
\* reset of the controller, at most one by each error.
THEOREM RingIsQueue ==
    ASSUME ~StartRace
    PROVE  Spec => IsQueue
<1>1. IInv /\ IInv' /\ [Next]_vars => [Abs!Next]_(Abs!vars)
  BY StepRefines
<1>2. Init => Abs!Init
  BY InitRefines
<1> QED BY <1>1, <1>2, IInvAlways, PTL DEF Spec, IsQueue, Abs!Spec
=============================================================================
