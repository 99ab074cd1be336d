--------------------------- MODULE WlanStaProofs ---------------------------
(***************************************************************************)
(* The WPA2 station of wlan.h: the pairwise key and the group key in the   *)
(* chip are those of the access point, through lost and late frames,       *)
(* repeated messages, rekeyings of both kinds and new joins.  For every    *)
(* number of frames under way, tries, rekeyings and troubles.              *)
(*                                                                         *)
(* The argument rests on the order of frames and on fresh nonces.  When    *)
(* the station sends message 4 (a group answer) no other message of a      *)
(* handshake can still be on its way to it that it would accept; and what  *)
(* the access point takes for an answer was sent by a station that had     *)
(* just put the keys in place, and has them still.                         *)
(***************************************************************************)
EXTENDS WlanSta, TLAPS, SequenceTheorems, FiniteSetTheorems, WellFoundedInduction

\* Parts of TypeOK.
States ==
  /\ state \in {"IDLE", "SCAN", "SCANALL", "AUTH", "ASSOC", "4WAY", "DONE", "FAIL"}
  /\ jpc \in {"idle", "scanall", "scan", "forget", "auth", "assoc", "4way", "end", "up"}
  /\ tries \in 0..3
  /\ psk_ok \in BOOLEAN /\ wlan_keys_on \in BOOLEAN
Keys ==
  /\ snonce \in Nonces \cup {0} /\ ptk \in AllKeys /\ gtk \in Gtks \cup {0}
  /\ cam \in [tk : AllKeys, gtk : Gtks \cup {0}]
Queues ==
  /\ toSta \in Seq(Frames) /\ Len(toSta) <= Cap
  /\ toAp \in Seq(Frames) /\ Len(toAp) <= Cap
Sessions ==
  [st : {"none", "authed", "m1", "m3", "g1", "open"}, an : Nonces \cup {0},
   ptk : AllKeys, tk : AllKeys, gtk : Gtks \cup {0}, sent : 0..ApTries]
Counts == trouble \in 0..MaxTrouble /\ rekeys \in 0..MaxRekeys

\* The keys are in the chip while the net task pumps, and until it looks at the
\* state of a link that was lost.
Waits ==
  /\ wlan_keys_on => jpc \in {"up", "idle"}
  /\ jpc = "up" => wlan_keys_on

\* The session a of the access point.
Session(a) ==
  /\ a.st \in {"none", "authed"} => a.tk = NoKey
  /\ a.st = "m1" => a.an # 0 /\ a.tk.an # a.an
  /\ a.st = "m3" => a.ptk.ok /\ a.ptk.an = a.an /\ a.tk # a.ptk
  /\ a.st \in {"open", "g1"} => a.tk = a.ptk /\ a.tk.ok

\* A frame to the station.  A message 1 carries a nonce, a group message is never
\* plain.  A key that the access point is negotiating protects no frame yet, and a
\* message 3 that the link's key protects is of this rekeying.
Down(a, m) ==
  /\ m.k = "m1" => m.n \in Nonces \cup {0}
  /\ m.k = "g1" => m.enc # NoKey
  /\ a.st = "m1" => m.enc.an # a.an /\ (m.k = "m3" => m.mic.an # a.an)
  /\ a.st = "m3" => m.enc # a.ptk
  /\ a.st = "m3" /\ m.k = "m3" /\ m.mic = a.ptk => m.gtk = a.gtk
  /\ m.k = "m3" /\ a.tk # NoKey /\ m.enc = a.tk => a.st = "m3" /\ m.mic = a.ptk

\* Frame n behind frame m: what follows the present message 3 are copies of it,
\* what follows the present group message has its key.
Behind(a, m, n) ==
  /\ a.st = "m3" /\ m.k = "m3" /\ m.mic = a.ptk /\ n.k \in {"m1", "m3", "g1"} =>
       n.k = "m3" /\ n.mic = a.ptk /\ n.gtk = a.gtk
  /\ a.st = "g1" /\ m.k = "g1" /\ m.gtk = a.gtk /\ n.k \in {"m3", "g1"} =>
       n.gtk = a.gtk

DownAll(a, q) == \A m \in FramesOf(q) : Down(a, m)
Order(a, q) == \A i, j \in 1..Len(q) : i < j => Behind(a, q[i], q[j])

\* No message 4 with the nonce of a message 1 that nobody has answered.
UpAll(a, q) == a.st = "m1" => \A m \in FramesOf(q) : m.k = "m4" => m.mic.an # a.an

\* The station has pairwise key P in the chip, or would have at the end of its
\* join, and nothing in q that it could accept in a join changes that.
Holds(P) == IF wlan_keys_on THEN cam.tk = P ELSE state = "DONE" => ptk = P
Steady(P, q) ==
  \A m \in FramesOf(q) : m.enc = NoKey => m.k # "m1" /\ (m.k = "m3" => m.mic = P)
Follows(P) == Holds(P) /\ Steady(P, toSta)

\* The same for the group key g.
HoldsG(g) == IF wlan_keys_on THEN cam.gtk = g ELSE state = "DONE" => gtk = g
SteadyG(a, q) ==
  \A m \in FramesOf(q) : m.k \in {"m3", "g1"} /\ m.enc \in {NoKey, a.tk} => m.gtk = a.gtk
Agrees == HoldsG(ap.gtk) /\ SteadyG(ap, toSta)

\* An answer that the access point in session a will accept is under way.
Is4(a, m) == a.st = "m3" /\ m.k = "m4" /\ m.mic = a.ptk /\ m.enc = a.tk
IsG(a, m) == a.st = "g1" /\ m.k = "g2" /\ m.mic = a.ptk /\ m.enc = a.tk /\ m.gtk = a.gtk
Taken4(a, q) == \E m \in FramesOf(q) : Is4(a, m)
TakenG(a, q) == \E m \in FramesOf(q) : IsG(a, m)

KeyInv ==
  /\ ap.tk # NoKey => Follows(ap.tk) \/ (ap.st = "m3" /\ Follows(ap.ptk))
  /\ Taken4(ap, toAp) => Follows(ap.ptk)
GroupInv == ap.st = "open" \/ Taken4(ap, toAp) \/ TakenG(ap, toAp) => Agrees

Air == DownAll(ap, toSta) /\ Order(ap, toSta) /\ UpAll(ap, toAp)
Linked == Session(ap) /\ Air /\ KeyInv /\ GroupInv
IInv == TypeOK /\ Waits /\ Linked

LEMMA TypeParts ==
  /\ TypeOK <=> States /\ Keys /\ Queues /\ ap \in Sessions /\ Counts
  /\ TypeOK' <=> States' /\ Keys' /\ Queues' /\ ap' \in Sessions /\ Counts'
BY DEF TypeOK, States, Keys, Queues, Sessions, Counts

----------------------------------------------------------------------------
(* Queues of frames.                                                       *)

LEMMA TailFrames ==
  ASSUME NEW q \in Seq(Frames), q # <<>>
  PROVE  /\ Head(q) \in Frames /\ Head(q) \in FramesOf(q)
         /\ Tail(q) \in Seq(Frames) /\ Len(Tail(q)) = Len(q) - 1
         /\ FramesOf(Tail(q)) \subseteq FramesOf(q)
         /\ FramesOf(q) \subseteq Frames
<1>1. Len(q) \in Nat \ {0} /\ Head(q) = q[1] /\ Head(q) \in Frames
  BY EmptySeq, HeadTailProperties
<1>2. /\ Tail(q) \in Seq(Frames) /\ Len(Tail(q)) = Len(q) - 1
      /\ \A i \in 1..Len(Tail(q)) : Tail(q)[i] = q[i + 1]
  BY HeadTailProperties
<1>3. \A i \in 1..Len(Tail(q)) : Tail(q)[i] \in FramesOf(q)
  BY <1>1, <1>2 DEF FramesOf
<1>4. FramesOf(q) \subseteq Frames
  BY <1>1, ElementOfSeq DEF FramesOf
<1> QED
  BY <1>1, <1>2, <1>3, <1>4 DEF FramesOf

LEMMA PutFrames ==
  ASSUME NEW q \in Seq(Frames), NEW m \in Frames, Len(q) <= Cap
  PROVE  /\ Put(q, m) \in Seq(Frames) /\ Len(Put(q, m)) <= Cap
         /\ FramesOf(Put(q, m)) \subseteq FramesOf(q) \cup {m}
<1>1. CASE Len(q) < Cap
  <2>1. Append(q, m) \in Seq(Frames) /\ Len(Append(q, m)) = Len(q) + 1
    OBVIOUS
  <2>2. \A i \in 1..Len(Append(q, m)) : Append(q, m)[i] \in FramesOf(q) \cup {m}
    BY DEF FramesOf
  <2> QED BY <1>1, <2>1, <2>2, StaAssumption DEF Put, FramesOf
<1>2. CASE ~(Len(q) < Cap)
  BY <1>2 DEF Put, FramesOf
<1> QED BY <1>1, <1>2

LEMMA OrderTail ==
  ASSUME NEW a, NEW q \in Seq(Frames), q # <<>>, Order(a, q)
  PROVE  /\ Order(a, Tail(q))
         /\ \A n \in FramesOf(Tail(q)) : Behind(a, Head(q), n)
<1> DEFINE t == Tail(q)
<1>1. /\ Len(q) \in Nat \ {0} /\ Head(q) = q[1] /\ Len(t) = Len(q) - 1
      /\ \A i \in 1..Len(t) : t[i] = q[i + 1]
  BY EmptySeq, HeadTailProperties
<1>2. \A i, j \in 1..Len(t) : i < j => Behind(a, t[i], t[j])
  <2> TAKE i, j \in 1..Len(t)
  <2> HAVE i < j
  <2>1. i + 1 \in 1..Len(q) /\ j + 1 \in 1..Len(q) /\ i + 1 < j + 1
    BY <1>1
  <2>2. Behind(a, q[i + 1], q[j + 1])
    BY <2>1 DEF Order
  <2> QED BY <1>1, <2>2
<1>3. \A n \in FramesOf(t) : Behind(a, Head(q), n)
  <2> TAKE n \in FramesOf(t)
  <2>1. PICK i \in 1..Len(t) : n = t[i]
    BY DEF FramesOf
  <2>2. 1 \in 1..Len(q) /\ i + 1 \in 1..Len(q) /\ 1 < i + 1
    BY <1>1
  <2>3. Behind(a, q[1], q[i + 1])
    BY <2>2 DEF Order
  <2> QED BY <1>1, <2>1, <2>3
<1> QED BY <1>2, <1>3 DEF Order

LEMMA OrderPut ==
  ASSUME NEW a, NEW q \in Seq(Frames), NEW n \in Frames, Order(a, q),
         \A m \in FramesOf(q) : Behind(a, m, n)
  PROVE  Order(a, Put(q, n))
<1>1. CASE Len(q) < Cap
  <2> DEFINE p == Append(q, n)
  <2>1. /\ Len(p) = Len(q) + 1 /\ Len(q) \in Nat /\ p[Len(q) + 1] = n
        /\ \A i \in 1..Len(q) : p[i] = q[i]
    OBVIOUS
  <2>2. \A i, j \in 1..Len(p) : i < j => Behind(a, p[i], p[j])
    <3> TAKE i, j \in 1..Len(p)
    <3> HAVE i < j
    <3>1. i \in 1..Len(q) /\ p[i] = q[i] /\ q[i] \in FramesOf(q)
      BY <2>1 DEF FramesOf
    <3>2. CASE j \in 1..Len(q)
      <4>1. Behind(a, q[i], q[j])
        BY <3>1, <3>2 DEF Order
      <4> QED BY <2>1, <3>1, <3>2, <4>1
    <3>3. CASE j = Len(q) + 1
      BY <2>1, <3>1, <3>3
    <3> QED BY <2>1, <3>2, <3>3
  <2> QED BY <1>1, <2>2 DEF Order, Put
<1>2. CASE ~(Len(q) < Cap)
  BY <1>2 DEF Put
<1> QED BY <1>1, <1>2

----------------------------------------------------------------------------
(* The pools of nonces and group keys are never exhausted.                 *)

LEMMA SmallestInNat ==
  ASSUME NEW T, T \subseteq Nat, T # {}
  PROVE  \E x \in T : \A y \in T : x <= y
<1>1. PICK x \in T : \A y \in T : ~(<<y, x>> \in OpToRel(<, Nat))
  BY NatLessThanWellFounded, WFMin
<1>2. \A y \in T : ~(y < x)
  BY <1>1 DEF OpToRel
<1> QED BY <1>2

Small(S, k) == IsFiniteSet(S) /\ Cardinality(S) <= k

LEMMA SmallImage ==
  ASSUME NEW S, NEW k \in Nat, Small(S, k), NEW f
  PROVE  Small({f[x] : x \in S}, k)
<1> DEFINE T == {f[x] : x \in S}
           g == [x \in S |-> f[x]]
<1>1. g \in Surjection(S, T)
  BY DEF Surjection
<1>2. IsFiniteSet(T) /\ Cardinality(T) <= Cardinality(S)
  <2> HIDE DEF T, g
  <2> QED BY <1>1, FS_Surjection DEF Small
<1>3. Cardinality(S) \in Nat /\ Cardinality(T) \in Nat
  BY <1>2, FS_CardinalityType DEF Small
<1> QED BY <1>2, <1>3 DEF Small

LEMMA SmallUnion ==
  ASSUME NEW S, NEW T, NEW j \in Nat, NEW k \in Nat, Small(S, j), Small(T, k)
  PROVE  Small(S \cup T, j + k)
<1>1. IsFiniteSet(S) /\ IsFiniteSet(T) /\ IsFiniteSet(S \cup T) /\ IsFiniteSet(S \cap T)
  BY FS_Union, FS_Intersection DEF Small
<1>2. Cardinality(S \cup T) = Cardinality(S) + Cardinality(T) - Cardinality(S \cap T)
  BY <1>1, FS_Union
<1>3. /\ Cardinality(S) \in Nat /\ Cardinality(T) \in Nat /\ Cardinality(S \cap T) \in Nat
      /\ Cardinality(S \cup T) \in Nat
  BY <1>1, FS_CardinalityType
<1> QED BY <1>1, <1>2, <1>3 DEF Small

LEMMA SmallOne ==
  ASSUME NEW x
  PROVE  Small({x}, 1)
<1>1. IsFiniteSet({x}) /\ Cardinality({x}) = 1
  BY FS_Singleton
<1> QED BY <1>1 DEF Small

LEMMA SmallFew ==
  ASSUME NEW x, NEW y, NEW z, NEW w
  PROVE  Small({x, y}, 2) /\ Small({x, y, z}, 3) /\ Small({x, y, z, w}, 4)
<1>1. Small({x}, 1) /\ Small({y}, 1) /\ Small({z}, 1) /\ Small({w}, 1)
  BY SmallOne
<1>2. Small({x} \cup {y}, 1 + 1)
  BY <1>1, SmallUnion
<1>3. Small({x, y}, 2)
  <2>1. {x, y} = {x} \cup {y} /\ 1 + 1 = 2
    OBVIOUS
  <2> QED BY <1>2, <2>1
<1>4. Small({x, y} \cup {z}, 2 + 1)
  BY <1>1, <1>3, SmallUnion
<1>5. Small({x, y, z}, 3)
  <2>1. {x, y, z} = {x, y} \cup {z} /\ 2 + 1 = 3
    OBVIOUS
  <2> QED BY <1>4, <2>1
<1>6. Small({x, y, z} \cup {w}, 3 + 1)
  BY <1>1, <1>5, SmallUnion
<1>7. {x, y, z, w} = {x, y, z} \cup {w} /\ 3 + 1 = 4
  OBVIOUS
<1> QED BY <1>3, <1>5, <1>6, <1>7

LEMMA SmallQueue ==
  ASSUME NEW q \in Seq(Frames), Len(q) <= Cap
  PROVE  Small(FramesOf(q), Cap)
<1>1. Len(q) \in Nat /\ Cap \in Nat
  BY StaAssumption
<1>2. IsFiniteSet(1..Len(q)) /\ Cardinality(1..Len(q)) = Len(q)
  <2>1. ASSUME NEW n \in Nat
        PROVE  IsFiniteSet(1..n) /\ Cardinality(1..n) = n
    <3>1. 1 \in Int /\ n \in Int
      OBVIOUS
    <3>2. IsFiniteSet(1..n) /\ Cardinality(1..n) = IF 1 > n THEN 0 ELSE n - 1 + 1
      BY <3>1, FS_Interval, Zenon
    <3> QED BY <3>2
  <2> QED BY <1>1, <2>1
<1>3. Small(1..Len(q), Cap)
  BY <1>2 DEF Small
<1> QED BY <1>1, <1>3, SmallImage DEF FramesOf

\* What a set of at most k elements leaves of a larger pool.
LEMMA SmallLeaves ==
  ASSUME NEW P, IsFiniteSet(P), NEW k \in Nat, Cardinality(P) > k, NEW S, Small(S, k),
         P \subseteq Nat
  PROVE  OneOf(P \ S) \in P \ S
<1>1. IsFiniteSet(P \ S) /\ Cardinality(P \ S) = Cardinality(P) - Cardinality(P \cap S)
  BY FS_Difference
<1>2. IsFiniteSet(P \cap S) /\ Cardinality(P \cap S) <= Cardinality(S)
  BY FS_Intersection DEF Small
<1>3. Cardinality(P) \in Nat /\ Cardinality(P \cap S) \in Nat /\ Cardinality(S) \in Nat
  BY <1>2, FS_CardinalityType DEF Small
<1>4. P \ S # {}
  BY <1>1, <1>2, <1>3, FS_EmptySet DEF Small
<1>5. \E x \in P \ S : \A y \in P \ S : x <= y
  BY <1>4, SmallestInNat
<1> QED BY <1>5 DEF OneOf

LEMMA Pools ==
  ASSUME TypeOK
  PROVE  /\ OneOf(FreshNonces) \in FreshNonces
         /\ OneOf(FreshGtks) \in FreshGtks
<1> USE StaAssumption
<1>0. /\ Cap \in Nat /\ 2 * Cap \in Nat /\ 4 * Cap \in Nat /\ 4 * Cap + 4 \in Nat
      /\ 2 + 2 * Cap \in Nat /\ (2 + 2 * Cap) + (4 * Cap + 4) \in Nat
      /\ 2 * Cap + 3 \in Nat /\ 10 * Cap + 10 \in Nat
  OBVIOUS
<1>1. Small(Flying, 2 * Cap)
  <2>1. Small(FramesOf(toSta), Cap) /\ Small(FramesOf(toAp), Cap)
    BY SmallQueue DEF TypeOK
  <2>2. Small(FramesOf(toSta) \cup FramesOf(toAp), Cap + Cap)
    BY <2>1, SmallUnion
  <2> QED BY <2>2 DEF Flying
<1>2. Small(KeysInUse, 4 * Cap + 4)
  <2> DEFINE E == {m.enc : m \in Flying}
             F == {m.mic : m \in Flying}
             G == {[m \in Flying |-> m.enc][x] : x \in Flying}
             H == {[m \in Flying |-> m.mic][x] : x \in Flying}
  <2>1. Small(G, 2 * Cap) /\ Small(H, 2 * Cap)
    BY <1>0, <1>1, SmallImage
  <2>2. Small(E, 2 * Cap) /\ Small(F, 2 * Cap)
    <3>1. E = G /\ F = H
      OBVIOUS
    <3> QED BY <2>1, <3>1
  <2> HIDE DEF E, F, G, H
  <2>3. Small(E \cup F, 4 * Cap)
    <3>1. 2 * Cap \in Nat /\ 2 * Cap + 2 * Cap = 4 * Cap
      OBVIOUS
    <3>2. Small(E \cup F, 2 * Cap + 2 * Cap)
      BY <2>2, <3>1, SmallUnion
    <3> QED BY <3>1, <3>2
  <2>4. Small({ptk, cam.tk, ap.ptk, ap.tk}, 4)
    BY SmallFew
  <2>5. Small({ptk, cam.tk, ap.ptk, ap.tk} \cup (E \cup F), 4 + 4 * Cap)
    BY <2>3, <2>4, SmallUnion
  <2>6. KeysInUse = {ptk, cam.tk, ap.ptk, ap.tk} \cup (E \cup F)
    BY DEF KeysInUse, E, F
  <2> QED BY <2>5, <2>6
<1> DEFINE N == {m.n : m \in Flying}
           A == {x.an : x \in KeysInUse}
           B == {x.sn : x \in KeysInUse}
           K == {m.gtk : m \in Flying}
           N1 == {[m \in Flying |-> m.n][x] : x \in Flying}
           K1 == {[m \in Flying |-> m.gtk][x] : x \in Flying}
           A1 == {[k \in KeysInUse |-> k.an][x] : x \in KeysInUse}
           B1 == {[k \in KeysInUse |-> k.sn][x] : x \in KeysInUse}
<1>3. Small(N1, 2 * Cap) /\ Small(K1, 2 * Cap)
  BY <1>0, <1>1, SmallImage
<1>4. Small(A1, 4 * Cap + 4) /\ Small(B1, 4 * Cap + 4)
  BY <1>0, <1>2, SmallImage
<1>5. N = N1 /\ K = K1 /\ A = A1 /\ B = B1
  OBVIOUS
<1>6. Small(N, 2 * Cap) /\ Small(K, 2 * Cap) /\ Small(A, 4 * Cap + 4) /\ Small(B, 4 * Cap + 4)
  BY <1>3, <1>4, <1>5
<1>7. FreshNonces = Nonces \ ({snonce, ap.an} \cup N \cup A \cup B)
  BY DEF FreshNonces
<1>8. FreshGtks = Gtks \ ({gtk, cam.gtk, ap.gtk} \cup K)
  BY DEF FreshGtks
<1> HIDE DEF N, A, B, K, N1, A1, B1, K1
<1>9. Small({snonce, ap.an} \cup N \cup A \cup B, 10 * Cap + 10)
  <2>3. Small({snonce, ap.an}, 2)
    BY SmallFew
  <2>4. Small({snonce, ap.an} \cup N, 2 + 2 * Cap)
    BY <1>6, <2>3, SmallUnion
  <2>5. Small({snonce, ap.an} \cup N \cup A, (2 + 2 * Cap) + (4 * Cap + 4))
    BY <1>0, <1>6, <2>4, SmallUnion
  <2>6. Small({snonce, ap.an} \cup N \cup A \cup B,
              ((2 + 2 * Cap) + (4 * Cap + 4)) + (4 * Cap + 4))
    BY <1>0, <1>6, <2>5, SmallUnion
  <2>7. ((2 + 2 * Cap) + (4 * Cap + 4)) + (4 * Cap + 4) = 10 * Cap + 10
    OBVIOUS
  <2> QED BY <2>6, <2>7
<1>10. Small({gtk, cam.gtk, ap.gtk} \cup K, 2 * Cap + 3)
  <2>3. Small({gtk, cam.gtk, ap.gtk}, 3)
    BY SmallFew
  <2>5. Small({gtk, cam.gtk, ap.gtk} \cup K, 3 + 2 * Cap)
    BY <1>0, <1>6, <2>3, SmallUnion
  <2>6. 3 + 2 * Cap = 2 * Cap + 3
    OBVIOUS
  <2> QED BY <2>5, <2>6
<1>11. OneOf(FreshNonces) \in FreshNonces
  <2> DEFINE U == {snonce, ap.an} \cup N \cup A \cup B
             k == 10 * Cap + 10
  <2>1. IsFiniteSet(Nonces) /\ Cardinality(Nonces) > k /\ Nonces \subseteq Nat /\ k \in Nat
    BY <1>0
  <2>2. Small(U, k) /\ FreshNonces = Nonces \ U
    BY <1>7, <1>9
  <2> HIDE DEF U, k
  <2> QED BY <2>1, <2>2, SmallLeaves
<1>12. OneOf(FreshGtks) \in FreshGtks
  <2> DEFINE U == {gtk, cam.gtk, ap.gtk} \cup K
             k == 2 * Cap + 3
  <2>1. IsFiniteSet(Gtks) /\ Cardinality(Gtks) > k /\ Gtks \subseteq Nat /\ k \in Nat
    BY <1>0
  <2>2. Small(U, k) /\ FreshGtks = Gtks \ U
    BY <1>8, <1>10
  <2> HIDE DEF U, k
  <2> QED BY <2>1, <2>2, SmallLeaves
<1> QED BY <1>11, <1>12

\* What is drawn from the pools is in no key, frame or group key in use.
LEMMA Fresh ==
  ASSUME TypeOK, NEW x, x = OneOf(FreshNonces), NEW y, y = OneOf(FreshGtks)
  PROVE  /\ x \in Nonces /\ x # 0 /\ x # ap.an /\ x # ap.tk.an
         /\ \A m \in FramesOf(toSta) : m.enc.an # x /\ m.mic.an # x
         /\ \A m \in FramesOf(toAp) : m.mic.an # x
         /\ y \in Gtks
         /\ \A m \in FramesOf(toSta) \cup FramesOf(toAp) : m.gtk # y
<1>1. x \in FreshNonces /\ y \in FreshGtks
  BY Pools
<1>2. x \in Nonces /\ x # 0 /\ x # ap.an /\ y \in Gtks
  BY <1>1, StaAssumption DEF FreshNonces, FreshGtks
<1>3. \A k \in KeysInUse : k.an # x
  BY <1>1 DEF FreshNonces
<1>4. ap.tk \in KeysInUse /\ (\A m \in Flying : m.enc \in KeysInUse /\ m.mic \in KeysInUse)
  BY DEF KeysInUse
<1>5. \A m \in Flying : m.gtk # y
  BY <1>1 DEF FreshGtks
<1> QED BY <1>2, <1>3, <1>4, <1>5 DEF Flying

----------------------------------------------------------------------------
(* Types.                                                                  *)

Kinds == {"deauth", "auth", "authresp", "assoc", "assocresp", "m1", "m2", "m3",
          "m4", "g1", "g2", "data"}

LEMMA FrameTypes ==
  /\ NoKey \in AllKeys
  /\ \A ok \in BOOLEAN, an, sn \in Nonces \cup {0} : Key(ok, an, sn) \in AllKeys
  /\ \A k \in Kinds, enc, mic \in AllKeys, n \in Nonces \cup {0, 1}, g \in Gtks \cup {0} :
       Frame(k, enc, mic, n, g) \in Frames
  /\ \A k \in Kinds : Plain(k) \in Frames
  /\ \A m \in Frames : /\ m.enc \in AllKeys /\ m.mic \in AllKeys
                       /\ m.n \in Nonces \cup {0, 1} /\ m.gtk \in Gtks \cup {0}
<1>1. NoKey \in AllKeys
  BY DEF NoKey, Key, AllKeys
<1>2. \A k \in Kinds, enc, mic \in AllKeys, n \in Nonces \cup {0, 1}, g \in Gtks \cup {0} :
        Frame(k, enc, mic, n, g) \in Frames
  BY DEF Kinds, Frame, Frames
<1>3. \A k \in Kinds : Plain(k) \in Frames
  BY <1>1, <1>2 DEF Plain
<1> QED BY <1>1, <1>2, <1>3 DEF Key, AllKeys, Frames

LEMMA FrameFields ==
  /\ \A k, enc, mic, n, g :
       /\ Frame(k, enc, mic, n, g).k = k /\ Frame(k, enc, mic, n, g).enc = enc
       /\ Frame(k, enc, mic, n, g).mic = mic /\ Frame(k, enc, mic, n, g).n = n
       /\ Frame(k, enc, mic, n, g).gtk = g
  /\ \A k : Plain(k).k = k /\ Plain(k).enc = NoKey
BY DEF Frame, Plain

\* What a step does to a queue.
Moves(q, r) ==
  r = q \/ (q # <<>> /\ r = Tail(q)) \/ \E m \in Frames : r = Put(q, m)

LEMMA QueuesMove ==
  ASSUME Queues, Moves(toSta, toSta'), Moves(toAp, toAp')
  PROVE  Queues'
<1>1. ASSUME NEW q \in Seq(Frames), Len(q) <= Cap, NEW r, Moves(q, r)
      PROVE  r \in Seq(Frames) /\ Len(r) <= Cap
  <2>1. CASE r = q
    BY <1>1, <2>1
  <2>2. CASE q # <<>> /\ r = Tail(q)
    <3>1. r \in Seq(Frames) /\ Len(r) = Len(q) - 1 /\ Len(q) \in Nat
      BY <2>2, TailFrames
    <3> QED BY <1>1, <3>1, StaAssumption
  <2>3. CASE \E m \in Frames : r = Put(q, m)
    BY <1>1, <2>3, PutFrames
  <2> QED BY <1>1, <2>1, <2>2, <2>3 DEF Moves
<1> QED BY <1>1 DEF Queues

LEMMA CountsMove ==
  ASSUME Counts, UNCHANGED trouble \/ Mishap,
         UNCHANGED rekeys \/ (rekeys < MaxRekeys /\ rekeys' = rekeys + 1)
  PROVE  Counts'
BY StaAssumption DEF Counts, Mishap

LEMMA HeadTaken ==
  ASSUME Queues, NEW k, Hear(k)
  PROVE  /\ toSta # <<>> /\ Head(toSta) \in Frames /\ Head(toSta).k = k
         /\ Head(toSta) \in FramesOf(toSta)
         /\ toSta' = Tail(toSta) /\ Moves(toSta, toSta')
BY TailFrames DEF Hear, Queues, Moves

LEMMA AnswerMoves ==
  ASSUME Keys, NEW k \in Kinds, NEW mic \in AllKeys, NEW n \in Nonces \cup {0, 1},
         NEW g \in Gtks \cup {0}, Answer(k, mic, n, g)
  PROVE  Moves(toAp, toAp')
<1>1. (IF wlan_keys_on THEN cam.tk ELSE NoKey) \in AllKeys
  BY FrameTypes DEF Keys
<1>2. Frame(k, IF wlan_keys_on THEN cam.tk ELSE NoKey, mic, n, g) \in Frames
  BY <1>1, FrameTypes
<1> QED BY <1>2 DEF Answer, Moves

LEMMA PlainMoves ==
  ASSUME NEW q, NEW k \in Kinds
  PROVE  Moves(q, Put(q, Plain(k))) /\ Moves(q, q)
BY FrameTypes DEF Moves

LEMMA KindsNamed ==
  /\ "deauth" \in Kinds /\ "auth" \in Kinds /\ "authresp" \in Kinds /\ "assoc" \in Kinds
  /\ "assocresp" \in Kinds /\ "m1" \in Kinds /\ "m2" \in Kinds /\ "m3" \in Kinds
  /\ "m4" \in Kinds /\ "g1" \in Kinds /\ "g2" \in Kinds /\ "data" \in Kinds
BY DEF Kinds

\* The handlers of the station's receiving side.
LEMMA TypeRx ==
  ASSUME TypeOK, DownAll(ap, toSta), Rx \/ RxBeacon
  PROVE  TypeOK'
<1> USE TypeParts, KindsNamed
<1>1. States /\ Keys /\ Queues /\ ap \in Sessions /\ Counts
  OBVIOUS
<1>2. ap' \in Sessions /\ Counts' /\ UNCHANGED <<jpc, tries, psk_ok>>
  BY <1>1 DEF Rx, RxBeacon, RxIgnored, RxRefused, RxAuth, RxAssoc, RxDeauth, RxM1, RxM3,
              RxM3Wrong, RxG1, Rest, envVars, Counts
<1>3. CASE RxIgnored
  <2>1. Moves(toSta, toSta') /\ Moves(toAp, toAp')
    BY <1>3 DEF RxIgnored, Moves
  <2>2. States' /\ Keys'
    BY <1>1, <1>2, <1>3 DEF RxIgnored, keyVars, States, Keys
  <2> QED BY <1>1, <1>2, <2>1, <2>2, QueuesMove
<1>4. CASE RxBeacon
  <2>1. Moves(toSta, toSta') /\ Moves(toAp, toAp')
    BY <1>4 DEF RxBeacon, Moves
  <2>2. States' /\ Keys'
    BY <1>1, <1>2, <1>4 DEF RxBeacon, keyVars, States, Keys
  <2> QED BY <1>1, <1>2, <2>1, <2>2, QueuesMove
<1>5. CASE RxRefused \/ RxAssoc \/ RxDeauth \/ RxM3Wrong
  <2>1. Moves(toSta, toSta')
    BY <1>1, <1>5, HeadTaken DEF RxRefused, RxAssoc, RxDeauth, RxM3Wrong
  <2>2. Moves(toAp, toAp')
    BY <1>5 DEF RxRefused, RxAssoc, RxDeauth, RxM3Wrong, Moves
  <2>3. wlan_keys_on' = wlan_keys_on /\ state' \in {"FAIL", "4WAY"} /\ Keys'
    BY <1>1, <1>5 DEF RxRefused, RxAssoc, RxDeauth, RxM3Wrong, keyVars, Keys
  <2>4. States'
    BY <1>1, <1>2, <2>3 DEF States
  <2> QED BY <1>1, <1>2, <2>1, <2>2, <2>3, <2>4, QueuesMove
<1>6. CASE RxAuth
  <2>1. Moves(toSta, toSta')
    BY <1>1, <1>6, HeadTaken DEF RxAuth
  <2>2. Moves(toAp, toAp')
    BY <1>6, PlainMoves DEF RxAuth
  <2>3. States' /\ Keys'
    BY <1>1, <1>2, <1>6 DEF RxAuth, keyVars, States, Keys
  <2> QED BY <1>1, <1>2, <2>1, <2>2, <2>3, QueuesMove
<1>7. CASE RxM1
  <2>1. /\ Moves(toSta, toSta') /\ Head(toSta).k = "m1" /\ Head(toSta) \in FramesOf(toSta)
    BY <1>1, <1>7, HeadTaken DEF RxM1
  <2>2. Head(toSta).n \in Nonces \cup {0}
    BY <2>1 DEF DownAll, Down
  <2>3. OneOf(FreshNonces) \in Nonces
    BY Fresh
  <2>4. snonce' \in Nonces \cup {0}
    BY <1>1, <1>7, <2>3 DEF RxM1, Keys
  <2>5. ptk' \in AllKeys
    BY <1>1, <1>7, <2>2, <2>4, FrameTypes DEF RxM1, States
  <2>6. Moves(toAp, toAp')
    BY <1>1, <1>7, <2>4, <2>5, AnswerMoves DEF RxM1
  <2>7. States' /\ Keys'
    BY <1>1, <1>2, <1>7, <2>4, <2>5 DEF RxM1, States, Keys
  <2> QED BY <1>1, <1>2, <2>1, <2>6, <2>7, QueuesMove
<1>8. CASE RxM3
  <2>1. Moves(toSta, toSta') /\ Head(toSta) \in Frames
    BY <1>1, <1>8, HeadTaken DEF RxM3
  <2>2. gtk' \in Gtks \cup {0}
    BY <1>8, <2>1, FrameTypes DEF RxM3
  <2>3. cam' \in [tk : AllKeys, gtk : Gtks \cup {0}]
    BY <1>1, <1>8, <2>2 DEF RxM3, Installed, Keys
  <2>4. ptk \in AllKeys
    BY <1>1 DEF Keys
  <2>5. Moves(toAp, toAp')
    BY <1>1, <1>8, <2>4, AnswerMoves DEF RxM3
  <2>6. States' /\ Keys'
    BY <1>1, <1>2, <1>8, <2>2, <2>3 DEF RxM3, States, Keys
  <2> QED BY <1>1, <1>2, <2>1, <2>5, <2>6, QueuesMove
<1>9. CASE RxG1
  <2>1. Moves(toSta, toSta') /\ Head(toSta) \in Frames
    BY <1>1, <1>9, HeadTaken DEF RxG1
  <2>2. gtk' \in Gtks \cup {0}
    BY <1>1, <1>9, <2>1, FrameTypes DEF RxG1, Keys
  <2>3. cam' \in [tk : AllKeys, gtk : Gtks \cup {0}]
    BY <1>1, <1>9, <2>2 DEF RxG1, Keys
  <2>4. ptk \in AllKeys
    BY <1>1 DEF Keys
  <2>5. Moves(toAp, toAp')
    <3>1. CASE Head(toSta).mic = ptk
      BY <1>1, <1>9, <2>2, <2>4, <3>1, AnswerMoves DEF RxG1
    <3>2. CASE Head(toSta).mic # ptk
      BY <1>9, <3>2 DEF RxG1, Moves
    <3> QED BY <3>1, <3>2
  <2>6. States' /\ Keys'
    BY <1>1, <1>2, <1>9, <2>2, <2>3 DEF RxG1, States, Keys
  <2> QED BY <1>1, <1>2, <2>1, <2>5, <2>6, QueuesMove
<1> QED BY <1>3, <1>4, <1>5, <1>6, <1>7, <1>8, <1>9 DEF Rx

\* The steps of wlan_connect, wlan_scan and the net task.
Job == Connect \/ ScanAll \/ JoinStep \/ Data

LEMMA JobLeaves ==
  ASSUME Job
  PROVE  /\ toSta' = toSta /\ ap' = ap /\ rekeys' = rekeys /\ psk_ok' = psk_ok
         /\ UNCHANGED trouble \/ Mishap
BY DEF Job, JoinStep, Connect, ScanAll, ScanAllEnd, NotFound, Found, Authenticate,
       AuthAgain, AuthEnd, AssocAgain, AssocEnd, FourWayAgain, FourWayEnd, Joined,
       JoinFailed, LinkLost, Data, JoinRest, Again, Over, Timeout

LEMMA TypeJob ==
  ASSUME TypeOK, Job
  PROVE  TypeOK'
<1> USE TypeParts, KindsNamed
<1>1. States /\ Keys /\ Queues /\ ap \in Sessions /\ Counts
  OBVIOUS
<1>2. ap' \in Sessions /\ Counts' /\ Moves(toSta, toSta') /\ psk_ok' \in BOOLEAN
  BY <1>1, JobLeaves, CountsMove DEF Moves, States
<1>3. Moves(toAp, toAp')
  <2>1. CASE Data
    <3>1. 0 \in Nonces \cup {0, 1} /\ 0 \in Gtks \cup {0} /\ NoKey \in AllKeys
      BY FrameTypes
    <3> QED BY <1>1, <2>1, <3>1, AnswerMoves DEF Data
  <2>2. CASE Connect \/ ScanAll \/ JoinStep
    BY <2>2, PlainMoves
       DEF JoinStep, Connect, ScanAll, ScanAllEnd, NotFound, Found, Authenticate,
           AuthAgain, AuthEnd, AssocAgain, AssocEnd, FourWayAgain, FourWayEnd, Joined,
           JoinFailed, LinkLost
  <2> QED BY <2>1, <2>2 DEF Job
<1>4. Keys'
  <2>1. CASE Connect
    <3>1. OneOf(FreshNonces) \in Nonces
      BY Fresh
    <3> QED BY <1>1, <2>1, <3>1, FrameTypes DEF Connect, Keys
  <2>2. CASE ScanAll
    BY <1>1, <2>2, FrameTypes DEF ScanAll, Keys
  <2>3. CASE Joined
    BY <1>1, <2>3 DEF Joined, Installed, Keys
  <2>4. CASE Data \/ (JoinStep /\ ~Joined)
    BY <1>1, <2>4 DEF Data, JoinStep, ScanAllEnd, NotFound, Found, Authenticate, AuthAgain,
      AuthEnd, AssocAgain, AssocEnd, FourWayAgain, FourWayEnd, JoinFailed, LinkLost,
      keyVars, Keys
  <2> QED BY <2>1, <2>2, <2>3, <2>4 DEF Job
<1>5. States'
  <2>1. wlan_keys_on' \in BOOLEAN
    BY <1>1 DEF Job, JoinStep, Connect, ScanAll, ScanAllEnd, NotFound, Found, Authenticate,
      AuthAgain, AuthEnd, AssocAgain, AssocEnd, FourWayAgain, FourWayEnd, Joined,
      JoinFailed, LinkLost, Data, keyVars, States
  <2>2. state' \in {"IDLE", "SCAN", "SCANALL", "AUTH", "ASSOC", "4WAY", "DONE", "FAIL"}
    BY <1>1 DEF Job, JoinStep, Connect, ScanAll, ScanAllEnd, NotFound, Found, Authenticate,
      AuthAgain, AuthEnd, AssocAgain, AssocEnd, FourWayAgain, FourWayEnd, Joined,
      JoinFailed, LinkLost, Data, States
  <2>3. jpc' \in {"idle", "scanall", "scan", "forget", "auth", "assoc", "4way", "end", "up"}
    BY <1>1 DEF Job, JoinStep, Connect, ScanAll, ScanAllEnd, NotFound, Found, Authenticate,
      AuthAgain, AuthEnd, AssocAgain, AssocEnd, FourWayAgain, FourWayEnd, Joined,
      JoinFailed, LinkLost, Data, Go, Proceed, States
  <2>4. tries' \in 0..3
    BY <1>1 DEF Job, JoinStep, Connect, ScanAll, ScanAllEnd, NotFound, Found, Authenticate,
      AuthAgain, AuthEnd, AssocAgain, AssocEnd, FourWayAgain, FourWayEnd, Joined,
      JoinFailed, LinkLost, Data, Go, Proceed, Again, States
  <2> QED BY <1>2, <2>1, <2>2, <2>3, <2>4 DEF States
<1> QED BY <1>1, <1>2, <1>3, <1>4, <1>5, QueuesMove

\* The steps of the access point and of the air.
Far == ApReceive \/ ApRefuse \/ ApTimer \/ ApRekey \/ Trouble

LEMMA FarLeaves ==
  ASSUME Far
  PROVE  UNCHANGED Sta
BY DEF Far, ApReceive, ApRefuse, ApTimer, ApRekey, Trouble

LEMMA SessionEnds ==
  ASSUME ap \in Sessions
  PROVE  /\ NoSession(ap.gtk) \in Sessions
         /\ [NoSession(ap.gtk) EXCEPT !.st = "authed"] \in Sessions
         /\ \A x \in Nonces :
              [NoSession(ap.gtk) EXCEPT !.st = "m1", !.an = x] \in Sessions
<1>1. ap.gtk \in Gtks \cup {0} /\ NoKey \in AllKeys /\ 0 \in 0..ApTries
  BY FrameTypes, StaAssumption DEF Sessions
<1>2. NoSession(ap.gtk) \in Sessions
  BY <1>1 DEF NoSession, Sessions
<1> QED BY <1>2 DEF Sessions

LEMMA MessageTypes ==
  ASSUME ap \in Sessions, ap.st \in {"m1", "m3", "g1"}
  PROVE  ApMessage \in Frames
<1>1. /\ ap.tk \in AllKeys /\ ap.ptk \in AllKeys /\ NoKey \in AllKeys
      /\ ap.an \in Nonces \cup {0, 1} /\ 0 \in Nonces \cup {0, 1}
      /\ ap.gtk \in Gtks \cup {0} /\ 0 \in Gtks \cup {0}
  BY FrameTypes DEF Sessions
<1>2. CASE ap.st = "m1"
  <2>1. ApMessage = Frame("m1", ap.tk, NoKey, ap.an, 0)
    BY <1>2 DEF ApMessage
  <2> QED BY <1>1, <2>1, FrameTypes, KindsNamed
<1>3. CASE ap.st = "m3"
  <2>1. ApMessage = Frame("m3", ap.tk, ap.ptk, 0, ap.gtk)
    BY <1>3 DEF ApMessage
  <2> QED BY <1>1, <2>1, FrameTypes, KindsNamed
<1>4. CASE ap.st = "g1"
  <2>1. ApMessage = Frame("g1", ap.tk, ap.ptk, 0, ap.gtk)
    BY <1>4 DEF ApMessage
  <2> QED BY <1>1, <2>1, FrameTypes, KindsNamed
<1> QED BY <1>2, <1>3, <1>4

LEMMA TypeFar ==
  ASSUME TypeOK, Far
  PROVE  TypeOK'
<1> USE TypeParts, KindsNamed
<1>1. States /\ Keys /\ Queues /\ ap \in Sessions /\ Counts
  OBVIOUS
<1>2. States' /\ Keys'
  BY <1>1, FarLeaves DEF Sta, keyVars, States, Keys
<1>3. Counts'
  <2>1. UNCHANGED trouble \/ Mishap
    BY DEF Far, ApReceive, ApRefuse, ApTimer, ApTimeout, ApRekey, Trouble, envVars
  <2>2. UNCHANGED rekeys \/ (rekeys < MaxRekeys /\ rekeys' = rekeys + 1)
    BY DEF Far, ApReceive, ApRefuse, ApTimer, ApRekey, Trouble, envVars
  <2> QED BY <1>1, <2>1, <2>2, CountsMove
<1>4. Moves(toAp, toAp')
  BY DEF Far, ApReceive, ApRefuse, ApTimer, ApRekey, Trouble, Moves
<1>5. Moves(toSta, toSta')
  <2>1. CASE ApReceive
    BY <2>1, PlainMoves DEF ApReceive, ApSends
  <2>2. CASE ApRefuse
    <3>1. 0 \in Gtks \cup {0} /\ 1 \in Nonces \cup {0, 1}
      OBVIOUS
    <3>2. Frame(IF Head(toAp).k = "auth" THEN "authresp" ELSE "assocresp", NoKey, NoKey, 1, 0)
            \in Frames
      BY <3>1, FrameTypes
    <3> QED BY <2>2, <3>2 DEF ApRefuse, ApSends, Moves
  <2>3. CASE ApTimer
    <3>1. ApMessage \in Frames
      BY <1>1, <2>3, MessageTypes DEF ApTimer
    <3> QED BY <2>3, <3>1, PlainMoves DEF ApTimer, ApSends, Moves
  <2>4. CASE ApRekey
    BY <2>4 DEF ApRekey, Moves
  <2>5. CASE Trouble
    BY <2>5, PlainMoves DEF Trouble, ApSends, Moves
  <2> QED BY <2>1, <2>2, <2>3, <2>4, <2>5 DEF Far
<1>6. ap' \in Sessions
  <2>1. OneOf(FreshNonces) \in Nonces /\ OneOf(FreshGtks) \in Gtks
    BY Fresh
  <2>2. CASE ApReceive
    <3>1. Head(toAp).mic \in AllKeys
      BY <1>1, <2>2, TailFrames, FrameTypes DEF ApReceive, Queues
    <3>2. 0 \in 0..ApTries
      BY StaAssumption
    <3>3. CASE UNCHANGED ap
      BY <1>1, <3>3
    <3>4. CASE \/ ap' = NoSession(ap.gtk)
               \/ ap' = [NoSession(ap.gtk) EXCEPT !.st = "authed"]
               \/ ap' = [NoSession(ap.gtk) EXCEPT !.st = "m1", !.an = OneOf(FreshNonces)]
      BY <1>1, <2>1, <3>4, SessionEnds
    <3>5. CASE ap' = [ap EXCEPT !.st = "m3", !.ptk = Head(toAp).mic, !.sent = 0]
      BY <1>1, <3>1, <3>2, <3>5 DEF Sessions
    <3>6. CASE ap' = [ap EXCEPT !.st = "open", !.tk = ap.ptk, !.sent = 0]
      BY <1>1, <3>2, <3>6 DEF Sessions
    <3> QED BY <2>2, <3>3, <3>4, <3>5, <3>6 DEF ApReceive
  <2>3. CASE ApRefuse
    BY <1>1, <2>3, SessionEnds DEF ApRefuse
  <2>4. CASE ApTimer
    <3>1. CASE ap.sent < ApTries
      BY <1>1, <2>4, <3>1, StaAssumption DEF ApTimer, Sessions
    <3>2. CASE ~(ap.sent < ApTries)
      BY <1>1, <2>4, <3>2, SessionEnds DEF ApTimer
    <3> QED BY <3>1, <3>2
  <2>5. CASE ApRekey
    BY <1>1, <2>1, <2>5 DEF ApRekey, Sessions
  <2>6. CASE Trouble
    BY <1>1, <2>6, SessionEnds DEF Trouble
  <2> QED BY <2>2, <2>3, <2>4, <2>5, <2>6 DEF Far
<1> QED BY <1>1, <1>2, <1>3, <1>4, <1>5, <1>6, QueuesMove

\* Every step is one of these.
LEMMA NextParts ==
  ASSUME [Next]_vars
  PROVE  Rx \/ RxBeacon \/ Job \/ Far \/ UNCHANGED vars
BY DEF Next, Job, Far

LEMMA TypeNext ==
  ASSUME TypeOK, DownAll(ap, toSta), [Next]_vars
  PROVE  TypeOK'
<1>1. CASE UNCHANGED vars
  BY <1>1 DEF TypeOK, vars, keyVars, envVars
<1> QED BY <1>1, NextParts, TypeRx, TypeJob, TypeFar

\* When the keys are in the chip.
LEMMA WaitsNext ==
  ASSUME Waits, [Next]_vars
  PROVE  Waits'
<1>1. CASE Rx \/ RxBeacon
  BY <1>1 DEF Rx, RxBeacon, RxIgnored, RxRefused, RxAuth, RxAssoc, RxDeauth, RxM1, RxM3,
              RxM3Wrong, RxG1, Rest, keyVars, Waits
<1>2. CASE Job
  BY <1>2 DEF Job, JoinStep, Connect, ScanAll, ScanAllEnd, NotFound, Found, Authenticate,
      AuthAgain, AuthEnd, AssocAgain, AssocEnd, FourWayAgain, FourWayEnd, Joined,
      JoinFailed, LinkLost, Data, Go, Proceed, keyVars, Waits
<1>3. CASE Far
  BY <1>3, FarLeaves DEF Sta, keyVars, Waits
<1>4. CASE UNCHANGED vars
  BY <1>4 DEF vars, keyVars, Waits
<1> QED BY <1>1, <1>2, <1>3, <1>4, NextParts

----------------------------------------------------------------------------
(* Steps of the station that send no answer to the access point's key.     *)

Shrinks(q, r) == r = q \/ (q # <<>> /\ r = Tail(q))
Quiet(q, r) == \A m \in FramesOf(r) : m \in FramesOf(q) \/ m.k \notin {"m4", "g2"}

LEMMA ShrinksFrames ==
  ASSUME NEW q \in Seq(Frames), NEW r, Shrinks(q, r), NEW a
  PROVE  /\ FramesOf(r) \subseteq FramesOf(q)
         /\ DownAll(a, q) => DownAll(a, r)
         /\ Order(a, q) => Order(a, r)
         /\ \A P : Steady(P, q) => Steady(P, r)
         /\ SteadyG(a, q) => SteadyG(a, r)
<1>1. FramesOf(r) \subseteq FramesOf(q)
  BY TailFrames DEF Shrinks
<1>2. Order(a, q) => Order(a, r)
  BY OrderTail DEF Shrinks
<1> QED BY <1>1, <1>2 DEF DownAll, Steady, SteadyG

LEMMA QuietFrames ==
  ASSUME NEW q, NEW r, Quiet(q, r), NEW a
  PROVE  /\ UpAll(a, q) => UpAll(a, r)
         /\ Taken4(a, r) => Taken4(a, q)
         /\ TakenG(a, r) => TakenG(a, q)
BY DEF Quiet, UpAll, Taken4, TakenG, Is4, IsG

LEMMA QuietPut ==
  ASSUME NEW q \in Seq(Frames), Len(q) <= Cap, NEW m \in Frames, m.k \notin {"m4", "g2"}
  PROVE  Quiet(q, Put(q, m))
BY PutFrames DEF Quiet

\* The keys in the chip, or those it will have, stay as they are.
LEMMA KeysStay ==
  ASSUME Queues, Linked, ap' = ap, Shrinks(toSta, toSta'), Quiet(toAp, toAp'),
         \A P : Follows(P) => Holds(P)', Agrees => HoldsG(ap.gtk)'
  PROVE  Linked'
<1>1. Session(ap) /\ Air /\ KeyInv /\ GroupInv
  BY DEF Linked
<1>2. Session(ap)'
  BY <1>1 DEF Session
<1>3. Air'
  <2>1. DownAll(ap, toSta') /\ Order(ap, toSta')
    BY <1>1, ShrinksFrames DEF Queues, Air
  <2>2. UpAll(ap, toAp')
    BY <1>1, QuietFrames DEF Air
  <2>3. DownAll(ap', toSta') /\ Order(ap', toSta') /\ UpAll(ap', toAp')
    BY <2>1, <2>2
  <2> QED BY <2>3 DEF Air
<1>4. \A P : Steady(P, toSta) => Steady(P, toSta')
  BY ShrinksFrames DEF Queues
<1>5. \A P : Follows(P) => Follows(P)'
  BY <1>4 DEF Follows, Steady, Holds
<1>6. Taken4(ap', toAp') => Taken4(ap, toAp)
  BY QuietFrames
<1>7. TakenG(ap', toAp') => TakenG(ap, toAp)
  BY QuietFrames
<1>8. KeyInv'
  <2>1. Follows(ap.tk) => Follows(ap.tk)'
    BY <1>5 DEF Follows, Holds, Steady
  <2>2. Follows(ap.ptk) => Follows(ap.ptk)'
    BY <1>5 DEF Follows, Holds, Steady
  <2> QED BY <1>1, <1>6, <2>1, <2>2 DEF KeyInv
<1>9. Agrees => Agrees'
  <2>1. SteadyG(ap, toSta) => SteadyG(ap', toSta')
    BY ShrinksFrames DEF Queues
  <2> QED BY <2>1 DEF Agrees
<1>10. GroupInv'
  BY <1>1, <1>6, <1>7, <1>9 DEF GroupInv
<1> QED BY <1>2, <1>3, <1>8, <1>10 DEF Linked

LEMMA AnswerQuiet ==
  ASSUME Keys, Queues, NEW k \in {"m2", "data"}, NEW mic \in AllKeys,
         NEW n \in Nonces \cup {0, 1}, Answer(k, mic, n, 0)
  PROVE  Quiet(toAp, toAp')
<1> DEFINE e == IF wlan_keys_on THEN cam.tk ELSE NoKey
<1>1. e \in AllKeys /\ k \in Kinds /\ 0 \in Gtks \cup {0}
  BY FrameTypes, KindsNamed DEF Keys
<1>2. toAp' = Put(toAp, Frame(k, e, mic, n, 0))
  BY DEF Answer
<1> HIDE DEF e
<1>3. Frame(k, e, mic, n, 0) \in Frames /\ Frame(k, e, mic, n, 0).k \notin {"m4", "g2"}
  BY <1>1, FrameTypes, FrameFields
<1> QED BY <1>2, <1>3, QuietPut DEF Queues

LEMMA PlainQuiet ==
  ASSUME Queues, NEW k \in {"deauth", "auth", "assoc"}
  PROVE  Quiet(toAp, Put(toAp, Plain(k))) /\ Quiet(toAp, toAp)
<1>1. Plain(k) \in Frames /\ Plain(k).k \notin {"m4", "g2"}
  BY FrameTypes, FrameFields, KindsNamed
<1> QED BY <1>1, QuietPut DEF Queues, Quiet

\* The join fails, or goes on to a state before the handshake's end.
LEMMA LinkedRxBut ==
  ASSUME IInv, \/ RxIgnored \/ RxBeacon \/ RxRefused \/ RxAuth \/ RxAssoc \/ RxDeauth
               \/ RxM3Wrong
  PROVE  Linked'
<1>1. States /\ Keys /\ Queues /\ Linked
  BY TypeParts DEF IInv
<1>2. ap' = ap
  BY DEF RxIgnored, RxBeacon, RxRefused, RxAuth, RxAssoc, RxDeauth, RxM3Wrong, Rest
<1>3. Shrinks(toSta, toSta')
  BY DEF RxIgnored, RxBeacon, RxRefused, RxAuth, RxAssoc, RxDeauth, RxM3Wrong, Hear, Shrinks
<1>4. Quiet(toAp, toAp')
  BY <1>1, PlainQuiet
     DEF RxIgnored, RxBeacon, RxRefused, RxAuth, RxAssoc, RxDeauth, RxM3Wrong
<1>5. UNCHANGED keyVars /\ (state' = state \/ state' # "DONE")
  BY DEF RxIgnored, RxBeacon, RxRefused, RxAuth, RxAssoc, RxDeauth, RxM3Wrong
<1>6. \A P : Follows(P) => Holds(P)'
  BY <1>5 DEF Follows, Holds, keyVars
<1>7. Agrees => HoldsG(ap.gtk)'
  BY <1>2, <1>5 DEF Agrees, HoldsG, keyVars
<1> QED BY <1>1, <1>2, <1>3, <1>4, <1>6, <1>7, KeysStay

\* In a join a message 1 is plain; the link's handshake has ended by then.
LEMMA LinkedM1 ==
  ASSUME IInv, RxM1
  PROVE  Linked'
<1>1. TypeOK /\ States /\ Keys /\ Queues /\ Linked
  BY TypeParts DEF IInv
<1>2. ap' = ap /\ Shrinks(toSta, toSta')
  BY DEF RxM1, Rest, Hear, Shrinks
<1>3. /\ Head(toSta) \in FramesOf(toSta) /\ Head(toSta).k = "m1"
      /\ Head(toSta).n \in Nonces \cup {0}
      /\ ~wlan_keys_on => Head(toSta).enc = NoKey
  <2>1. Head(toSta) \in FramesOf(toSta) /\ Head(toSta).k = "m1"
    BY <1>1, HeadTaken DEF RxM1
  <2>2. Accepts(Head(toSta))
    BY <2>1 DEF RxM1, Hear, Handles
  <2> QED BY <1>1, <2>1, <2>2 DEF Accepts, Linked, Air, DownAll, Down
<1>4. Quiet(toAp, toAp')
  <2>1. snonce' \in Nonces \cup {0, 1}
    BY <1>1, Fresh DEF RxM1, Keys
  <2>2. ptk' \in AllKeys
    <3>1. snonce' \in Nonces \cup {0}
      BY <1>1, Fresh DEF RxM1, Keys
    <3> QED BY <1>1, <1>3, <3>1, FrameTypes DEF RxM1, States
  <2>3. Answer("m2", ptk', snonce', 0)
    BY DEF RxM1
  <2> QED BY <1>1, <2>1, <2>2, <2>3, AnswerQuiet
<1>5. UNCHANGED <<state, gtk, wlan_keys_on, cam>>
  BY DEF RxM1
<1>6. \A P : Follows(P) => Holds(P)'
  <2>1. ASSUME NEW P, Follows(P)
        PROVE  wlan_keys_on /\ cam.tk = P
    BY <1>3, <2>1 DEF Follows, Steady, Holds
  <2> QED BY <1>5, <2>1 DEF Holds
<1>7. Agrees => HoldsG(ap.gtk)'
  BY <1>2, <1>5 DEF Agrees, HoldsG
<1> QED BY <1>1, <1>2, <1>4, <1>6, <1>7, KeysStay

\* A join begins by clearing the chip's table and ends by writing it.
LEMMA LinkedJob ==
  ASSUME IInv, Job
  PROVE  Linked'
<1>1. TypeOK /\ States /\ Keys /\ Queues /\ Linked /\ Waits
  BY TypeParts DEF IInv
<1>2. ap' = ap /\ Shrinks(toSta, toSta')
  BY JobLeaves DEF Shrinks
<1>3. Quiet(toAp, toAp')
  <2>1. CASE Data
    <3>1. 0 \in Nonces \cup {0, 1} /\ NoKey \in AllKeys /\ "data" \in {"m2", "data"}
      BY FrameTypes
    <3> QED BY <1>1, <2>1, <3>1, AnswerQuiet DEF Data
  <2>2. CASE Connect \/ ScanAll \/ JoinStep
    BY <1>1, <2>2, PlainQuiet
       DEF JoinStep, Connect, ScanAll, ScanAllEnd, NotFound, Found, Authenticate,
           AuthAgain, AuthEnd, AssocAgain, AssocEnd, FourWayAgain, FourWayEnd, Joined,
           JoinFailed, LinkLost
  <2> QED BY <2>1, <2>2 DEF Job
<1>4. (\A P : Follows(P) => Holds(P)') /\ (Agrees => HoldsG(ap.gtk)')
  <2>1. CASE Connect \/ ScanAll
    <3>1. ~wlan_keys_on' /\ state' # "DONE"
      BY <2>1 DEF Connect, ScanAll
    <3> QED BY <3>1 DEF Holds, HoldsG
  <2>2. CASE Joined
    <3>1. ~wlan_keys_on /\ wlan_keys_on' /\ state = "DONE" /\ cam' = [tk |-> ptk, gtk |-> gtk]
      BY <1>1, <2>2 DEF Joined, Waits, Installed
    <3> QED BY <1>2, <3>1 DEF Follows, Agrees, Holds, HoldsG
  <2>3. CASE Data \/ (JoinStep /\ ~Joined)
    <3>1. UNCHANGED keyVars /\ (state' = state \/ state' # "DONE")
      BY <2>3 DEF JoinStep, ScanAllEnd, NotFound, Found, Authenticate, AuthAgain, AuthEnd,
        AssocAgain, AssocEnd, FourWayAgain, FourWayEnd, JoinFailed, LinkLost, Data
    <3>2. \A P : Follows(P) => Holds(P)'
      BY <3>1 DEF Follows, Holds, keyVars
    <3>3. Agrees => HoldsG(ap.gtk)'
      BY <1>2, <3>1 DEF Agrees, HoldsG, keyVars
    <3> QED BY <3>2, <3>3
  <2> QED BY <2>1, <2>2, <2>3 DEF Job
<1> QED BY <1>1, <1>2, <1>3, <1>4, KeysStay

----------------------------------------------------------------------------
(* The answers that the access point waits for.                            *)

LEMMA PutTaken ==
  ASSUME NEW q \in Seq(Frames), Len(q) <= Cap, NEW f \in Frames, NEW a
  PROVE  /\ Taken4(a, Put(q, f)) => Taken4(a, q) \/ Is4(a, f)
         /\ TakenG(a, Put(q, f)) => TakenG(a, q) \/ IsG(a, f)
         /\ UpAll(a, q) /\ (a.st = "m1" /\ f.k = "m4" => f.mic.an # a.an) =>
              UpAll(a, Put(q, f))
BY PutFrames DEF Taken4, TakenG, UpAll

\* What is behind the message that the station answers.
LEMMA BehindSteady ==
  ASSUME NEW q \in Seq(Frames), q # <<>>, NEW a, Order(a, q)
  PROVE  /\ a.st = "m3" /\ Head(q).k = "m3" /\ Head(q).mic = a.ptk =>
              Steady(a.ptk, Tail(q)) /\ SteadyG(a, Tail(q))
         /\ a.st = "g1" /\ Head(q).k = "g1" /\ Head(q).gtk = a.gtk => SteadyG(a, Tail(q))
<1>1. \A n \in FramesOf(Tail(q)) : Behind(a, Head(q), n)
  BY OrderTail
<1> QED BY <1>1 DEF Behind, Steady, SteadyG

\* An open session has a key, and the station has the same.
LEMMA OpenFollows ==
  ASSUME Linked, ap.st \in {"open", "g1"}
  PROVE  Follows(ap.tk)
<1>1. ap.tk # NoKey
  BY DEF Linked, Session, NoKey, Key
<1> QED BY <1>1 DEF Linked, KeyInv

\* Message 3: the station changes to the key that the access point changes to
\* when it gets message 4.
LEMMA LinkedM3 ==
  ASSUME IInv, RxM3
  PROVE  Linked'
<1> DEFINE m == Head(toSta)
           e == IF wlan_keys_on THEN cam.tk ELSE NoKey
           f == Frame("m4", e, ptk, 0, 0)
<1>1. /\ TypeOK /\ Keys /\ Queues /\ Linked
      /\ Session(ap) /\ DownAll(ap, toSta) /\ Order(ap, toSta) /\ UpAll(ap, toAp)
      /\ KeyInv /\ GroupInv
  BY TypeParts DEF IInv, Linked, Air
<1>2. /\ m.k = "m3" /\ m.mic = ptk /\ m \in FramesOf(toSta) /\ toSta # <<>>
      /\ toSta' = Tail(toSta) /\ Shrinks(toSta, toSta')
  BY <1>1, HeadTaken DEF RxM3, Shrinks
<1>3. m.enc = NoKey \/ (wlan_keys_on /\ m.enc = cam.tk)
  <2>1. Accepts(m)
    BY <1>2 DEF RxM3, Hear, Handles
  <2> QED BY <2>1 DEF Accepts
<1>4. Down(ap, m)
  BY <1>1, <1>2 DEF DownAll
<1>5. /\ ap' = ap /\ state' = "DONE" /\ ptk' = ptk /\ gtk' = m.gtk
      /\ wlan_keys_on' = wlan_keys_on
      /\ wlan_keys_on => cam' = [tk |-> ptk, gtk |-> m.gtk]
      /\ ~wlan_keys_on => cam' = cam
  BY DEF RxM3, Rest, Installed
<1>6. f \in Frames /\ f.k = "m4" /\ f.mic = ptk /\ toAp' = Put(toAp, f)
  <2>1. ptk \in AllKeys /\ e \in AllKeys /\ 0 \in Nonces \cup {0, 1} /\ 0 \in Gtks \cup {0}
    BY <1>1, FrameTypes DEF Keys
  <2>2. toAp' = Put(toAp, f)
    BY DEF RxM3, Answer
  <2> HIDE DEF e
  <2>3. f.k = "m4" /\ f.mic = ptk
    BY FrameFields
  <2>4. f \in Frames
    BY <2>1, FrameTypes, KindsNamed
  <2> QED BY <2>2, <2>3, <2>4
<1> HIDE DEF e, f
<1>7. /\ DownAll(ap, toSta') /\ Order(ap, toSta')
      /\ \A P : Steady(P, toSta) => Steady(P, toSta')
      /\ SteadyG(ap, toSta) => SteadyG(ap, toSta')
  BY <1>1, <1>2, ShrinksFrames DEF Queues
<1>8. /\ Taken4(ap, toAp') => Taken4(ap, toAp) \/ (ap.st = "m3" /\ ptk = ap.ptk)
      /\ TakenG(ap, toAp') => TakenG(ap, toAp)
      /\ UpAll(ap, toAp')
  <2>1. Is4(ap, f) => ap.st = "m3" /\ ptk = ap.ptk
    BY <1>6 DEF Is4
  <2>2. ~IsG(ap, f)
    BY <1>6 DEF IsG
  <2>3. ap.st = "m1" => ptk.an # ap.an
    BY <1>2, <1>4 DEF Down
  <2> HIDE DEF m
  <2> QED BY <1>1, <1>6, <2>1, <2>2, <2>3, PutTaken DEF Queues
<1>9. Air'
  BY <1>5, <1>7, <1>8 DEF Air
<1>10. Session(ap)'
  BY <1>1, <1>5 DEF Session
<1>11. ASSUME NEW P, ptk = P, Steady(P, toSta')
       PROVE  Follows(P)'
  <2>1. Holds(P)'
    BY <1>5, <1>11 DEF Holds
  <2> QED BY <1>11, <2>1 DEF Follows, Steady
<1>12. ASSUME m.gtk = ap.gtk, SteadyG(ap, toSta')
       PROVE  Agrees'
  <2>1. HoldsG(ap.gtk)'
    BY <1>5, <1>12 DEF HoldsG
  <2> QED BY <1>5, <1>12, <2>1 DEF Agrees
<1>13. ASSUME ap.st = "m3", ptk = ap.ptk
       PROVE  Follows(ap.ptk)' /\ Agrees'
  <2>1. Steady(ap.ptk, toSta') /\ SteadyG(ap, toSta') /\ m.gtk = ap.gtk
    BY <1>1, <1>2, <1>4, <1>13, BehindSteady DEF Queues, Down
  <2>2. Agrees'
    BY <1>12, <2>1
  <2>3. Holds(ap.ptk)'
    BY <1>5, <1>13 DEF Holds
  <2> QED BY <1>5, <2>1, <2>2, <2>3 DEF Follows, Steady
<1>14. ASSUME NEW P, Follows(P), m.enc = NoKey
       PROVE  ptk = P /\ Follows(P)'
  <2>1. ptk = P /\ Steady(P, toSta')
    BY <1>2, <1>7, <1>14 DEF Follows, Steady
  <2> QED BY <1>11, <2>1
<1>15. ASSUME ap.st = "m3", Follows(ap.ptk)
       PROVE  ptk = ap.ptk
  <2>1. m.enc = NoKey
    BY <1>3, <1>4, <1>15 DEF Down, Follows, Holds
  <2> QED BY <1>14, <1>15, <2>1
<1>16. KeyInv'
  <2>1. ASSUME ap.tk # NoKey, Follows(ap.tk)
        PROVE  Follows(ap.tk)' \/ (ap.st = "m3" /\ Follows(ap.ptk)')
    <3>1. CASE m.enc = NoKey
      <4>1. ptk = ap.tk /\ Steady(ap.tk, toSta')
        BY <1>2, <1>7, <2>1, <3>1 DEF Follows, Steady
      <4>2. Holds(ap.tk)'
        BY <1>5, <4>1 DEF Holds
      <4> QED BY <1>5, <4>1, <4>2 DEF Follows, Steady
    <3>2. CASE m.enc # NoKey
      <4>1. m.enc = ap.tk
        BY <1>3, <2>1, <3>2 DEF Follows, Holds
      <4>2. ap.st = "m3" /\ ptk = ap.ptk
        BY <1>2, <1>4, <2>1, <4>1 DEF Down
      <4> QED BY <1>13, <4>2
    <3> QED BY <3>1, <3>2
  <2>2. ap.st = "m3" /\ Follows(ap.ptk) => Follows(ap.ptk)'
    BY <1>13, <1>15
  <2>3. Taken4(ap, toAp') => Follows(ap.ptk)'
    BY <1>1, <1>8, <1>13, <2>2 DEF KeyInv, Taken4, Is4
  <2> QED BY <1>1, <1>5, <2>1, <2>2, <2>3 DEF KeyInv
<1>17. GroupInv'
  <2>1. ASSUME ap.st \in {"open", "g1"}, Agrees
        PROVE  Agrees'
    <3>1. Follows(ap.tk)
      BY <1>1, <2>1, OpenFollows
    <3>2. m.enc \in {NoKey, ap.tk}
      BY <1>3, <3>1 DEF Follows, Holds
    <3>3. m.gtk = ap.gtk /\ SteadyG(ap, toSta')
      BY <1>2, <1>7, <2>1, <3>2 DEF Agrees, SteadyG
    <3> QED BY <1>12, <3>3
  <2>2. ASSUME Taken4(ap, toAp')
        PROVE  Agrees'
    <3>1. ap.st = "m3"
      BY <2>2 DEF Taken4, Is4
    <3>2. ptk = ap.ptk
      BY <1>1, <1>8, <1>15, <2>2, <3>1 DEF KeyInv
    <3> QED BY <1>13, <3>1, <3>2
  <2>3. TakenG(ap, toAp) => ap.st = "g1"
    BY DEF TakenG, IsG
  <2>4. ap.st = "open" \/ TakenG(ap, toAp) => Agrees'
    BY <1>1, <2>1, <2>3 DEF GroupInv
  <2> QED BY <1>5, <1>8, <2>2, <2>4 DEF GroupInv
<1> QED BY <1>9, <1>10, <1>16, <1>17 DEF Linked

\* A group message: the link's key protects it, so it is of the session in
\* progress, and what the access point has sent last is its newest group key.
LEMMA LinkedG1 ==
  ASSUME IInv, RxG1
  PROVE  Linked'
<1> DEFINE m == Head(toSta)
           f == Frame("g2", cam.tk, ptk, 0, m.gtk)
<1>1. /\ TypeOK /\ Keys /\ Queues /\ Linked
      /\ Session(ap) /\ DownAll(ap, toSta) /\ Order(ap, toSta) /\ UpAll(ap, toAp)
      /\ KeyInv /\ GroupInv
  BY TypeParts DEF IInv, Linked, Air
<1>2. /\ m.k = "g1" /\ m \in FramesOf(toSta) /\ toSta # <<>> /\ m \in Frames
      /\ toSta' = Tail(toSta) /\ Shrinks(toSta, toSta')
  BY <1>1, HeadTaken DEF RxG1, Shrinks
<1>3. Down(ap, m)
  BY <1>1, <1>2 DEF DownAll
<1>4. wlan_keys_on /\ m.enc = cam.tk
  <2>1. Accepts(m)
    BY <1>2 DEF RxG1, Hear, Handles
  <2> QED BY <1>2, <1>3, <2>1 DEF Accepts, Down
<1>5. ap' = ap /\ state' = state /\ ptk' = ptk /\ wlan_keys_on'
  BY <1>4 DEF RxG1, Rest
<1>6. CASE m.mic # ptk
  <2>1. gtk' = gtk /\ cam' = cam /\ toAp' = toAp
    BY <1>6 DEF RxG1
  <2>2. \A P : Follows(P) => Holds(P)'
    BY <1>4, <1>5, <2>1 DEF Follows, Holds
  <2>3. Agrees => HoldsG(ap.gtk)'
    BY <1>4, <1>5, <2>1 DEF Agrees, HoldsG
  <2>4. Quiet(toAp, toAp')
    BY <2>1 DEF Quiet
  <2> QED BY <1>1, <1>2, <1>5, <2>2, <2>3, <2>4, KeysStay
<1>7. CASE m.mic = ptk
  <2>1. cam'.tk = cam.tk /\ cam'.gtk = m.gtk /\ toAp' = Put(toAp, f)
    <3>1. gtk' = m.gtk /\ cam' = [cam EXCEPT !.gtk = gtk'] /\ Answer("g2", ptk, 0, gtk')
      BY <1>4, <1>7 DEF RxG1
    <3> QED BY <1>1, <1>4, <3>1 DEF Answer, Keys
  <2>2. f \in Frames /\ f.k = "g2" /\ f.gtk = m.gtk
    <3>1. /\ ptk \in AllKeys /\ cam.tk \in AllKeys /\ 0 \in Nonces \cup {0, 1}
          /\ m.gtk \in Gtks \cup {0}
      BY <1>1, <1>2, FrameTypes DEF Keys
    <3>2. f.k = "g2" /\ f.gtk = m.gtk
      BY FrameFields
    <3> HIDE DEF m
    <3> QED BY <3>1, <3>2, FrameTypes, KindsNamed
  <2> HIDE DEF f
  <2>3. /\ DownAll(ap, toSta') /\ Order(ap, toSta')
        /\ \A P : Steady(P, toSta) => Steady(P, toSta')
        /\ SteadyG(ap, toSta) => SteadyG(ap, toSta')
    BY <1>1, <1>2, ShrinksFrames DEF Queues
  <2>4. /\ Taken4(ap, toAp') => Taken4(ap, toAp)
        /\ TakenG(ap, toAp') => TakenG(ap, toAp) \/ (ap.st = "g1" /\ m.gtk = ap.gtk)
        /\ UpAll(ap, toAp')
    <3>1. ~Is4(ap, f)
      BY <2>2 DEF Is4
    <3>2. IsG(ap, f) => ap.st = "g1" /\ m.gtk = ap.gtk
      BY <2>2 DEF IsG
    <3> HIDE DEF m
    <3> QED BY <1>1, <2>1, <2>2, <3>1, <3>2, PutTaken DEF Queues
  <2>5. Air'
    BY <1>5, <2>3, <2>4 DEF Air
  <2>6. Session(ap)'
    BY <1>1, <1>5 DEF Session
  <2>8. KeyInv'
    <3>1. Follows(ap.tk) => Follows(ap.tk)'
      BY <1>4, <1>5, <2>1, <2>3 DEF Follows, Holds, Steady
    <3>2. Follows(ap.ptk) => Follows(ap.ptk)'
      BY <1>4, <1>5, <2>1, <2>3 DEF Follows, Holds, Steady
    <3> QED BY <1>1, <1>5, <2>4, <3>1, <3>2 DEF KeyInv
  <2>9. ASSUME m.gtk = ap.gtk, SteadyG(ap, toSta')
        PROVE  Agrees'
    <3>1. HoldsG(ap.gtk)'
      BY <1>5, <2>1, <2>9 DEF HoldsG
    <3> QED BY <1>5, <2>9, <3>1 DEF Agrees
  <2>10. ASSUME ap.st \in {"open", "g1"}, Agrees
         PROVE  Agrees'
    <3>1. Follows(ap.tk)
      BY <1>1, <2>10, OpenFollows
    <3>2. m.enc = ap.tk
      BY <1>4, <3>1 DEF Follows, Holds
    <3>3. m.gtk = ap.gtk /\ SteadyG(ap, toSta')
      BY <1>2, <2>3, <2>10, <3>2 DEF Agrees, SteadyG
    <3> QED BY <2>9, <3>3
  <2>11. ~Taken4(ap, toAp')
    <3>1. SUFFICES ASSUME Taken4(ap, toAp)
                   PROVE  FALSE
      BY <2>4
    <3>2. ap.st = "m3" /\ Follows(ap.ptk)
      BY <1>1, <3>1 DEF KeyInv, Taken4, Is4
    <3>3. m.enc = ap.ptk
      BY <1>4, <3>2 DEF Follows, Holds
    <3> QED BY <1>3, <3>2, <3>3 DEF Down
  <2>12. TakenG(ap, toAp') => Agrees'
    <3>1. TakenG(ap, toAp) => ap.st = "g1" /\ Agrees
      BY <1>1 DEF GroupInv, TakenG, IsG
    <3>2. ap.st = "g1" /\ m.gtk = ap.gtk => Agrees'
      BY <1>1, <1>2, <2>9, BehindSteady DEF Queues
    <3> QED BY <2>4, <2>10, <3>1, <3>2
  <2>13. ap.st = "open" => Agrees'
    BY <1>1, <2>10 DEF GroupInv
  <2>14. GroupInv'
    BY <1>5, <2>11, <2>12, <2>13 DEF GroupInv
  <2> QED BY <2>5, <2>6, <2>8, <2>14 DEF Linked
<1> QED BY <1>6, <1>7

----------------------------------------------------------------------------
(* Steps of the access point and of the air: the station's keys stay.      *)

LEMMA FarHolds ==
  ASSUME UNCHANGED Sta
  PROVE  \A P : (Holds(P) <=> Holds(P)') /\ (HoldsG(P) <=> HoldsG(P)')
BY DEF Sta, keyVars, Holds, HoldsG

\* No message of a handshake is added.
Tame(q, r) == \A m \in FramesOf(r) : m \in FramesOf(q) \/ m.k \notin {"m1", "m3", "g1"}

LEMMA TamePut ==
  ASSUME NEW q \in Seq(Frames), Len(q) <= Cap, NEW f \in Frames, f.k \notin {"m1", "m3", "g1"}
  PROVE  Tame(q, Put(q, f))
BY PutFrames DEF Tame

LEMMA TamePlain ==
  ASSUME Queues, NEW k \in {"deauth", "authresp", "assocresp"}, NEW n \in {0, 1}
  PROVE  /\ Tame(toSta, Put(toSta, Frame(k, NoKey, NoKey, n, 0)))
         /\ Tame(toSta, Put(toSta, Plain(k)))
<1> DEFINE f == Frame(k, NoKey, NoKey, n, 0)
           g == Plain(k)
<1>1. k \in Kinds /\ NoKey \in AllKeys /\ n \in Nonces \cup {0, 1} /\ 0 \in Gtks \cup {0}
  BY FrameTypes, KindsNamed
<1>2. f \in Frames /\ f.k = k /\ g \in Frames /\ g.k = k
  BY <1>1, FrameTypes, FrameFields
<1> HIDE DEF f, g
<1>3. Tame(toSta, Put(toSta, f)) /\ Tame(toSta, Put(toSta, g))
  BY <1>2, TamePut DEF Queues
<1> QED BY <1>3 DEF f, g

\* A session without keys: it has ended, or has not got to a handshake.
LEMMA LinkedEnds ==
  ASSUME IInv, ap'.st \in {"none", "authed"}, ap'.tk = NoKey, Tame(toSta, toSta')
  PROVE  Linked'
<1>1. DownAll(ap, toSta)
  BY DEF IInv, Linked, Air
<1>2. Session(ap')
  BY DEF Session
<1>3. DownAll(ap', toSta')
  <2>1. ASSUME NEW m \in FramesOf(toSta')
        PROVE  Down(ap', m)
    <3>1. /\ m.k = "m1" => m.n \in Nonces \cup {0}
          /\ m.k = "g1" => m.enc # NoKey
      BY <1>1, <2>1 DEF Tame, DownAll, Down
    <3> QED BY <3>1 DEF Down
  <2> QED BY <2>1 DEF DownAll
<1>4. Order(ap', toSta') /\ UpAll(ap', toAp')
  BY DEF Order, Behind, UpAll
<1>5. KeyInv' /\ GroupInv'
  BY DEF KeyInv, GroupInv, Taken4, TakenG, Is4, IsG
<1> QED BY <1>2, <1>3, <1>4, <1>5 DEF Linked, Air

\* The session begins its handshake, or a new one, with a nonce never used.
LEMMA LinkedBegins ==
  ASSUME IInv, UNCHANGED Sta, ap'.st = "m1", ap'.an = OneOf(FreshNonces),
         \/ ap'.tk = NoKey
         \/ ap.st = "open" /\ ap'.tk = ap.tk,
         Tame(toSta, toSta'), \A m \in FramesOf(toSta') : m \in FramesOf(toSta) \/ m.enc = NoKey,
         FramesOf(toAp') \subseteq FramesOf(toAp),
         ap'.tk # NoKey => toSta' = toSta
  PROVE  Linked'
<1> DEFINE x == OneOf(FreshNonces)
<1>1. TypeOK /\ DownAll(ap, toSta) /\ KeyInv
  BY DEF IInv, Linked, Air
<1>2. /\ x # 0 /\ x # ap.tk.an
      /\ \A m \in FramesOf(toSta) : m.enc.an # x /\ m.mic.an # x
      /\ \A m \in FramesOf(toAp) : m.mic.an # x
  BY <1>1, Fresh
<1> HIDE DEF x
<1>3. ap'.an = x /\ NoKey.an = 0
  BY DEF x, NoKey, Key
<1>4. Session(ap')
  BY <1>2, <1>3 DEF Session
<1>5. DownAll(ap', toSta')
  <2>1. ASSUME NEW m \in FramesOf(toSta')
        PROVE  Down(ap', m)
    <3>1. m.k = "m3" \/ m.k = "g1" \/ m.k = "m1" => m \in FramesOf(toSta) /\ Down(ap, m)
      BY <1>1, <2>1 DEF Tame, DownAll
    <3>2. m.enc.an # x /\ (m.k = "m3" => m.mic.an # x)
      BY <1>2, <1>3, <2>1, <3>1
    <3>3. m.k = "m3" /\ ap'.tk # NoKey => m.enc # ap'.tk
      BY <3>1 DEF Down
    <3> QED BY <1>3, <3>1, <3>2, <3>3 DEF Down
  <2> QED BY <2>1 DEF DownAll
<1>6. Order(ap', toSta') /\ UpAll(ap', toAp')
  BY <1>2, <1>3 DEF Order, Behind, UpAll
<1>7. KeyInv'
  <2>1. CASE ap'.tk = NoKey
    BY <2>1 DEF KeyInv, Taken4, Is4
  <2>2. CASE ap'.tk # NoKey
    <3>1. Follows(ap.tk) /\ ap'.tk = ap.tk /\ toSta' = toSta
      BY <1>1, <2>2 DEF KeyInv
    <3>2. Follows(ap.tk)'
      BY <3>1, FarHolds DEF Follows, Holds, Steady, Sta, keyVars
    <3> QED BY <3>2 DEF KeyInv, Taken4, Is4
  <2> QED BY <2>1, <2>2
<1>8. GroupInv'
  BY DEF GroupInv, Taken4, TakenG, Is4, IsG
<1> QED BY <1>4, <1>5, <1>6, <1>7, <1>8 DEF Linked, Air

\* Message 2: the access point knows the key; no answer of its message 3 can be
\* under way yet.
LEMMA LinkedM2 ==
  ASSUME IInv, UNCHANGED Sta, ap.st = "m1", ap'.st = "m3", ap'.an = ap.an, ap'.tk = ap.tk,
         ap'.ptk.ok, ap'.ptk.an = ap.an, toSta' = toSta,
         FramesOf(toAp') \subseteq FramesOf(toAp)
  PROVE  Linked'
<1>1. /\ Session(ap) /\ DownAll(ap, toSta) /\ UpAll(ap, toAp) /\ KeyInv
      /\ toSta \in Seq(Frames)
  BY TypeParts DEF IInv, Linked, Air, Queues
<1>2. Session(ap')
  BY <1>1 DEF Session
<1>3. \A m \in FramesOf(toSta) : m.k = "m3" => m.mic # ap'.ptk
  BY <1>1 DEF DownAll, Down
<1>4. DownAll(ap', toSta')
  <2>1. ASSUME NEW m \in FramesOf(toSta)
        PROVE  Down(ap', m)
    <3>1. Down(ap, m)
      BY <1>1 DEF DownAll
    <3>2. m.enc # ap'.ptk
      BY <3>1 DEF Down
    <3> QED BY <1>3, <3>1, <3>2 DEF Down
  <2> QED BY <2>1 DEF DownAll
<1>5. Order(ap', toSta')
  <2>1. \A i \in 1..Len(toSta) : toSta[i] \in FramesOf(toSta)
    BY DEF FramesOf
  <2> QED BY <1>3, <2>1 DEF Order, Behind
<1>6. ~Taken4(ap', toAp')
  BY <1>1 DEF UpAll, Taken4, Is4
<1>7. KeyInv'
  <2>1. ASSUME ap.tk # NoKey
        PROVE  Follows(ap.tk)'
    <3>1. Follows(ap.tk)
      BY <1>1, <2>1 DEF KeyInv
    <3> QED BY <3>1, FarHolds DEF Follows, Holds, Steady, Sta, keyVars
  <2> QED BY <1>6, <2>1 DEF KeyInv
<1>8. GroupInv'
  BY <1>6 DEF GroupInv, TakenG, IsG
<1> QED BY <1>2, <1>4, <1>5, <1>7, <1>8 DEF Linked, Air, UpAll

\* The awaited answer: message 4 or that to a group message.
LEMMA LinkedOpens ==
  ASSUME IInv, UNCHANGED Sta, Taken4(ap, toAp) \/ TakenG(ap, toAp),
         ap'.st = "open", ap'.ptk = ap.ptk, ap'.tk = ap.ptk, ap'.gtk = ap.gtk,
         toSta' = toSta
  PROVE  Linked'
<1>1. Linked /\ Session(ap) /\ DownAll(ap, toSta) /\ KeyInv /\ GroupInv
  BY DEF IInv, Linked, Air
<1>2. ap.st = "m3" \/ (ap.st = "g1" /\ ap.tk = ap.ptk)
  BY <1>1 DEF Taken4, TakenG, Is4, IsG, Session
<1>3. ap.ptk.ok
  BY <1>1, <1>2 DEF Session
<1>4. Session(ap')
  BY <1>3 DEF Session
<1>5. \A m \in FramesOf(toSta) : Down(ap, m) /\ (ap.st = "m3" => m.enc # ap.ptk)
  BY <1>1 DEF DownAll, Down
<1>6. DownAll(ap', toSta')
  BY <1>2, <1>5 DEF DownAll, Down
<1>7. Order(ap', toSta') /\ UpAll(ap', toAp')
  BY DEF Order, Behind, UpAll
<1>8. Follows(ap.ptk)
  <2>1. CASE ap.st = "m3"
    BY <1>1, <2>1 DEF KeyInv, TakenG, IsG
  <2>2. CASE ap.st = "g1"
    BY <1>1, <1>2, <2>2, OpenFollows
  <2> QED BY <1>2, <2>1, <2>2
<1>9. KeyInv'
  <2>1. Follows(ap.ptk)'
    BY <1>8, FarHolds DEF Follows, Holds, Steady, Sta, keyVars
  <2> QED BY <2>1 DEF KeyInv, Taken4, Is4
<1>10. GroupInv'
  <2>1. Agrees
    BY <1>1 DEF GroupInv
  <2>2. HoldsG(ap.gtk)'
    BY <2>1 DEF Agrees, HoldsG, Sta, keyVars
  <2>3. SteadyG(ap', toSta')
    BY <1>2, <1>5, <2>1 DEF Agrees, SteadyG
  <2>4. Agrees'
    BY <2>2, <2>3 DEF Agrees
  <2> QED BY <2>4 DEF GroupInv
<1> QED BY <1>4, <1>6, <1>7, <1>9, <1>10 DEF Linked, Air

\* The access point's message, or a copy of it.
LEMMA MessageFits ==
  ASSUME ap \in Sessions, Session(ap), ap.st \in {"m1", "m3", "g1"}, NEW f, f = ApMessage
  PROVE  /\ f \in Frames /\ Down(ap, f)
         /\ \A m : Behind(ap, m, f)
         /\ f.k \in {"m3", "g1"} => f.gtk = ap.gtk
         /\ f.enc = ap.tk
         /\ ap.st = "m3" => f.k = "m3" /\ f.mic = ap.ptk
         /\ ap.st = "g1" => ap.tk # NoKey
<1>1. f \in Frames
  BY MessageTypes
<1>2. ap.an \in Nonces \cup {0} /\ ~NoKey.ok
  BY DEF Sessions, NoKey, Key
<1>3. CASE ap.st = "m1"
  <2>1. f = Frame("m1", ap.tk, NoKey, ap.an, 0)
    BY <1>3 DEF ApMessage
  <2>2. f.k = "m1" /\ f.enc = ap.tk /\ f.n = ap.an
    BY <2>1, FrameFields
  <2> QED BY <1>1, <1>2, <1>3, <2>2 DEF Down, Behind, Session
<1>4. CASE ap.st = "m3"
  <2>1. f = Frame("m3", ap.tk, ap.ptk, 0, ap.gtk)
    BY <1>4 DEF ApMessage
  <2>2. f.k = "m3" /\ f.enc = ap.tk /\ f.mic = ap.ptk /\ f.gtk = ap.gtk
    BY <2>1, FrameFields
  <2> QED BY <1>1, <1>4, <2>2 DEF Down, Behind, Session
<1>5. CASE ap.st = "g1"
  <2>1. f = Frame("g1", ap.tk, ap.ptk, 0, ap.gtk)
    BY <1>5 DEF ApMessage
  <2>2. f.k = "g1" /\ f.enc = ap.tk /\ f.gtk = ap.gtk
    BY <2>1, FrameFields
  <2>3. ap.tk # NoKey
    BY <1>1, <1>2, <1>5 DEF Session
  <2> QED BY <1>1, <1>5, <2>2, <2>3 DEF Down, Behind
<1> QED BY <1>3, <1>4, <1>5

LEMMA LinkedSends ==
  ASSUME IInv, UNCHANGED Sta, ap.st \in {"m1", "m3", "g1"},
         ap' = [ap EXCEPT !.sent = @ + 1], toSta' = Put(toSta, ApMessage), toAp' = toAp
  PROVE  Linked'
<1> DEFINE f == ApMessage
<1>1. /\ Session(ap) /\ DownAll(ap, toSta) /\ Order(ap, toSta) /\ UpAll(ap, toAp)
      /\ KeyInv /\ GroupInv /\ Queues /\ ap \in Sessions
  BY TypeParts DEF IInv, Linked, Air
<1>2. /\ ap'.st = ap.st /\ ap'.an = ap.an /\ ap'.ptk = ap.ptk /\ ap'.tk = ap.tk
      /\ ap'.gtk = ap.gtk
  BY <1>1 DEF Sessions
<1>3. /\ f \in Frames /\ Down(ap, f) /\ (\A m : Behind(ap, m, f))
      /\ f.k \in {"m3", "g1"} => f.gtk = ap.gtk
      /\ f.enc = ap.tk
      /\ ap.st = "m3" => f.k = "m3" /\ f.mic = ap.ptk
      /\ ap.st = "g1" => ap.tk # NoKey
  BY <1>1, MessageFits
<1> HIDE DEF f
<1>4. FramesOf(toSta') \subseteq FramesOf(toSta) \cup {f} /\ Order(ap, toSta')
  <2>1. toSta' = Put(toSta, f)
    BY DEF f
  <2> QED BY <1>1, <1>3, <2>1, PutFrames, OrderPut DEF Queues
<1>5. Air'
  <2>1. \A m \in FramesOf(toSta') : Down(ap, m)
    BY <1>1, <1>3, <1>4 DEF DownAll
  <2>2. DownAll(ap', toSta')
    BY <1>2, <2>1 DEF DownAll, Down
  <2>3. Order(ap', toSta')
    BY <1>2, <1>4 DEF Order, Behind
  <2>4. UpAll(ap', toAp')
    BY <1>1, <1>2 DEF UpAll
  <2> QED BY <2>2, <2>3, <2>4 DEF Air
<1>6. Session(ap')
  BY <1>1, <1>2 DEF Session
<1>7. Taken4(ap', toAp') => Taken4(ap, toAp)
  BY <1>2 DEF Taken4, Is4
<1>8. TakenG(ap', toAp') => TakenG(ap, toAp)
  BY <1>2 DEF TakenG, IsG
<1>9. KeyInv'
  <2>1. ap.tk # NoKey /\ Follows(ap.tk) => Follows(ap.tk)'
    <3>1. SUFFICES ASSUME ap.tk # NoKey, Follows(ap.tk)
                   PROVE  Follows(ap.tk)'
      OBVIOUS
    <3>2. Steady(ap.tk, toSta')
      BY <1>3, <1>4, <3>1 DEF Follows, Steady
    <3> QED BY <1>2, <3>1, <3>2 DEF Follows, Holds, Steady, Sta, keyVars
  <2>2. ap.st = "m3" /\ Follows(ap.ptk) => Follows(ap.ptk)'
    <3>1. SUFFICES ASSUME ap.st = "m3", Follows(ap.ptk)
                   PROVE  Follows(ap.ptk)'
      OBVIOUS
    <3>2. Steady(ap.ptk, toSta')
      BY <1>3, <1>4, <3>1 DEF Follows, Steady
    <3> QED BY <1>2, <3>1, <3>2 DEF Follows, Holds, Steady, Sta, keyVars
  <2>3. Taken4(ap, toAp) => ap.st = "m3"
    BY DEF Taken4, Is4
  <2> QED BY <1>1, <1>2, <1>7, <2>1, <2>2, <2>3 DEF KeyInv
<1>10. GroupInv'
  <2>1. Agrees => Agrees'
    <3>1. SUFFICES ASSUME Agrees
                   PROVE  Agrees'
      OBVIOUS
    <3>2. HoldsG(ap.gtk)'
      BY <1>2, <3>1 DEF Agrees, HoldsG, Sta, keyVars
    <3>3. SteadyG(ap', toSta')
      BY <1>2, <1>3, <1>4, <3>1 DEF Agrees, SteadyG
    <3> QED BY <1>2, <3>2, <3>3 DEF Agrees
  <2> QED BY <1>1, <1>2, <1>7, <1>8, <2>1 DEF GroupInv
<1> QED BY <1>5, <1>6, <1>9, <1>10 DEF Linked

\* The access point draws a new group key.
LEMMA LinkedRekeyG ==
  ASSUME IInv, UNCHANGED Sta, ap.st = "open",
         ap' = [ap EXCEPT !.st = "g1", !.gtk = OneOf(FreshGtks)],
         toSta' = toSta, toAp' = toAp
  PROVE  Linked'
<1> DEFINE y == OneOf(FreshGtks)
<1>1. /\ TypeOK /\ Linked /\ Session(ap) /\ DownAll(ap, toSta) /\ ap \in Sessions
      /\ toSta \in Seq(Frames)
  BY TypeParts DEF IInv, Linked, Air, Queues
<1>2. \A m \in FramesOf(toSta) \cup FramesOf(toAp) : m.gtk # y
  BY <1>1, Fresh
<1> HIDE DEF y
<1>3. ap'.st = "g1" /\ ap'.gtk = y /\ ap'.tk = ap.tk /\ ap'.ptk = ap.ptk
  BY <1>1 DEF Sessions, y
<1>4. Session(ap')
  BY <1>1, <1>3 DEF Session
<1>5. DownAll(ap', toSta')
  BY <1>1, <1>3 DEF DownAll, Down
<1>6. Order(ap', toSta') /\ UpAll(ap', toAp')
  <2>1. \A i \in 1..Len(toSta) : toSta[i] \in FramesOf(toSta)
    BY DEF FramesOf
  <2> QED BY <1>2, <1>3, <2>1 DEF Order, Behind, UpAll
<1>7. KeyInv'
  <2>1. Follows(ap.tk)
    BY <1>1, OpenFollows
  <2>2. Follows(ap.tk)'
    BY <1>3, <2>1 DEF Follows, Holds, Steady, Sta, keyVars
  <2> QED BY <1>3, <2>2 DEF KeyInv, Taken4, Is4
<1>8. GroupInv'
  BY <1>2, <1>3 DEF GroupInv, Taken4, TakenG, Is4, IsG
<1> QED BY <1>4, <1>5, <1>6, <1>7, <1>8 DEF Linked, Air

\* A frame is lost or taken without effect.
LEMMA LinkedLoses ==
  ASSUME IInv, UNCHANGED Sta, ap' = ap, Shrinks(toSta, toSta'),
         FramesOf(toAp') \subseteq FramesOf(toAp)
  PROVE  Linked'
<1>1. Queues /\ Linked
  BY TypeParts DEF IInv
<1>2. Quiet(toAp, toAp')
  BY DEF Quiet
<1>3. \A P : Follows(P) => Holds(P)'
  BY FarHolds DEF Follows, Holds, Sta, keyVars
<1>4. Agrees => HoldsG(ap.gtk)'
  BY DEF Agrees, HoldsG, Sta, keyVars
<1> QED BY <1>1, <1>2, <1>3, <1>4, KeysStay

LEMMA NoSessionFields ==
  ASSUME NEW g
  PROVE  /\ NoSession(g).st = "none" /\ NoSession(g).tk = NoKey
         /\ [NoSession(g) EXCEPT !.st = "authed"].st = "authed"
         /\ [NoSession(g) EXCEPT !.st = "authed"].tk = NoKey
         /\ \A x : /\ [NoSession(g) EXCEPT !.st = "m1", !.an = x].st = "m1"
                   /\ [NoSession(g) EXCEPT !.st = "m1", !.an = x].an = x
                   /\ [NoSession(g) EXCEPT !.st = "m1", !.an = x].tk = NoKey
BY DEF NoSession

LEMMA LinkedReceive ==
  ASSUME IInv, ApReceive
  PROVE  Linked'
<1> DEFINE m == Head(toAp)
<1>1. Queues /\ Session(ap) /\ ap \in Sessions
  BY TypeParts DEF IInv, Linked
<1>2. /\ UNCHANGED Sta /\ toAp # <<>> /\ toAp' = Tail(toAp)
      /\ m \in FramesOf(toAp) /\ FramesOf(toAp') \subseteq FramesOf(toAp)
  BY <1>1, TailFrames DEF ApReceive, Queues
<1>3. Tame(toSta, toSta)
  BY DEF Tame
<1>4. CASE m.k = "deauth" /\ ap' = NoSession(ap.gtk) /\ UNCHANGED toSta
  BY <1>3, <1>4, LinkedEnds, NoSessionFields
<1>5. CASE ap' = [NoSession(ap.gtk) EXCEPT !.st = "authed"] /\ ApSends(Plain("authresp"))
  <2>1. Tame(toSta, toSta')
    BY <1>1, <1>5, TamePlain DEF ApSends
  <2> QED BY <1>5, <2>1, LinkedEnds, NoSessionFields
<1>6. CASE /\ ap' = [NoSession(ap.gtk) EXCEPT !.st = "m1", !.an = OneOf(FreshNonces)]
           /\ ApSends(Plain("assocresp"))
  <2>1. Tame(toSta, toSta')
    BY <1>1, <1>6, TamePlain DEF ApSends
  <2>2. \A n \in FramesOf(toSta') : n \in FramesOf(toSta) \/ n.enc = NoKey
    <3>1. Plain("assocresp") \in Frames /\ Plain("assocresp").enc = NoKey
      BY FrameTypes, FrameFields, KindsNamed
    <3> QED BY <1>1, <1>6, <3>1, PutFrames DEF ApSends, Queues
  <2>3. ap'.st = "m1" /\ ap'.an = OneOf(FreshNonces) /\ ap'.tk = NoKey
    BY <1>6, NoSessionFields
  <2> QED BY <1>2, <2>1, <2>2, <2>3, LinkedBegins
<1>7. CASE Stranger(m) /\ ApSends(Plain("deauth")) /\ UNCHANGED ap
  <2>1. Tame(toSta, toSta')
    BY <1>1, <1>7, TamePlain DEF ApSends
  <2>2. ap.st \in {"none", "authed"} /\ ap.tk = NoKey
    BY <1>1, <1>7 DEF Stranger, Session
  <2> QED BY <1>7, <2>1, <2>2, LinkedEnds
<1>8. CASE /\ Answers(m) /\ m.k = "m2"
           /\ ap' = [ap EXCEPT !.st = "m3", !.ptk = m.mic, !.sent = 0] /\ UNCHANGED toSta
  <2>1. ap.st = "m1" /\ m.mic = Key(TRUE, ap.an, m.n)
    BY <1>8 DEF Answers
  <2>2. ap'.st = "m3" /\ ap'.an = ap.an /\ ap'.tk = ap.tk /\ ap'.ptk = m.mic
    BY <1>1, <1>8 DEF Sessions
  <2>3. ap'.ptk.ok /\ ap'.ptk.an = ap.an
    BY <2>1, <2>2 DEF Key
  <2> QED BY <1>2, <1>8, <2>1, <2>2, <2>3, LinkedM2
<1>9. CASE /\ Answers(m) /\ m.k \in {"m4", "g2"}
           /\ ap' = [ap EXCEPT !.st = "open", !.tk = ap.ptk, !.sent = 0] /\ UNCHANGED toSta
  <2>1. Is4(ap, m) \/ IsG(ap, m)
    BY <1>9 DEF Answers, Is4, IsG
  <2>2. Taken4(ap, toAp) \/ TakenG(ap, toAp)
    BY <1>2, <2>1 DEF Taken4, TakenG
  <2>3. ap'.st = "open" /\ ap'.ptk = ap.ptk /\ ap'.tk = ap.ptk /\ ap'.gtk = ap.gtk
    BY <1>1, <1>9 DEF Sessions
  <2> QED BY <1>2, <1>9, <2>2, <2>3, LinkedOpens
<1>10. CASE UNCHANGED <<ap, toSta>>
  BY <1>2, <1>10, LinkedLoses DEF Shrinks
<1> QED BY <1>4, <1>5, <1>6, <1>7, <1>8, <1>9, <1>10 DEF ApReceive

LEMMA LinkedFar ==
  ASSUME IInv, Far
  PROVE  Linked'
<1>1. Queues /\ Session(ap) /\ ap \in Sessions
  BY TypeParts DEF IInv, Linked
<1>2. UNCHANGED Sta
  BY FarLeaves
<1>3. Tame(toSta, Put(toSta, Plain("deauth")))
  BY <1>1, TamePlain
<1>4. CASE ApReceive
  BY <1>4, LinkedReceive
<1>5. CASE ApRefuse
  <2>1. Tame(toSta, toSta')
    BY <1>1, <1>5, TamePlain DEF ApRefuse, ApSends
  <2> QED BY <1>5, <2>1, LinkedEnds, NoSessionFields DEF ApRefuse
<1>6. CASE ApTimer
  <2>1. CASE ap.sent < ApTries
    BY <1>2, <1>6, <2>1, LinkedSends DEF ApTimer, ApSends
  <2>2. CASE ~(ap.sent < ApTries)
    <3>1. ap' = NoSession(ap.gtk) /\ Tame(toSta, toSta')
      BY <1>3, <1>6, <2>2 DEF ApTimer, ApSends
    <3> QED BY <3>1, LinkedEnds, NoSessionFields
  <2> QED BY <2>1, <2>2
<1>7. CASE ApRekey
  <2>1. CASE ap' = [ap EXCEPT !.st = "m1", !.an = OneOf(FreshNonces)]
    <3>1. /\ ap.st = "open" /\ ap'.st = "m1" /\ ap'.an = OneOf(FreshNonces)
          /\ ap'.tk = ap.tk /\ toSta' = toSta /\ toAp' = toAp
      BY <1>1, <1>7, <2>1 DEF ApRekey, Sessions
    <3> QED BY <1>2, <3>1, LinkedBegins DEF Tame
  <2>2. CASE ap' = [ap EXCEPT !.st = "g1", !.gtk = OneOf(FreshGtks)]
    BY <1>2, <1>7, <2>2, LinkedRekeyG DEF ApRekey
  <2> QED BY <1>7, <2>1, <2>2 DEF ApRekey
<1>8. CASE Trouble
  <2>1. CASE toSta # <<>> /\ toSta' = Tail(toSta) /\ UNCHANGED <<toAp, ap>>
    BY <1>2, <2>1, LinkedLoses DEF Shrinks
  <2>2. CASE toAp # <<>> /\ toAp' = Tail(toAp) /\ UNCHANGED <<toSta, ap>>
    <3>1. FramesOf(toAp') \subseteq FramesOf(toAp)
      BY <1>1, <2>2, TailFrames DEF Queues
    <3> QED BY <1>2, <2>2, <3>1, LinkedLoses DEF Shrinks
  <2>3. CASE ap' = NoSession(ap.gtk) /\ ApSends(Plain("deauth")) /\ UNCHANGED toAp
    BY <1>3, <2>3, LinkedEnds, NoSessionFields DEF ApSends
  <2> QED BY <1>8, <2>1, <2>2, <2>3 DEF Trouble
<1> QED BY <1>4, <1>5, <1>6, <1>7, <1>8 DEF Far

----------------------------------------------------------------------------
(* The inductive invariant.                                                *)

LEMMA IInvInit == Init => IInv
<1> SUFFICES ASSUME Init PROVE IInv
  OBVIOUS
<1>1. OneOf(Gtks) \in Gtks
  <2>1. IsFiniteSet(Gtks) /\ Gtks \subseteq Nat /\ Cardinality(Gtks) > 0
    <3>1. Cardinality(Gtks) \in Nat
      BY StaAssumption, FS_CardinalityType
    <3> QED BY <3>1, StaAssumption
  <2>2. Gtks # {}
    BY <2>1, FS_EmptySet
  <2>3. \E x \in Gtks : \A y \in Gtks : x <= y
    BY <2>1, <2>2, SmallestInNat
  <2> QED BY <2>3 DEF OneOf
<1>2. NoKey \in AllKeys /\ 0 \in 0..ApTries /\ ~NoKey.ok
  BY FrameTypes, StaAssumption DEF NoKey, Key
<1>3. States /\ Keys
  <2>1. States
    <3>1. tries = 0 /\ psk_ok \in BOOLEAN /\ wlan_keys_on = FALSE
      BY DEF Init
    <3>2. state = "IDLE" /\ jpc = "idle"
      BY DEF Init
    <3>3. tries \in 0..3
      BY <3>1
    <3>4. psk_ok \in BOOLEAN /\ wlan_keys_on \in BOOLEAN
      BY <3>1
    <3> QED BY <3>2, <3>3, <3>4, Zenon DEF States
  <2>2. Keys
    BY <1>2 DEF Init, Keys
  <2> QED BY <2>1, <2>2
<1>4. Queues /\ FramesOf(toSta) = {} /\ FramesOf(toAp) = {} /\ Len(toSta) = 0
  BY StaAssumption DEF Init, Queues, FramesOf
<1>5. ap \in Sessions /\ ap.st = "none" /\ ap.tk = NoKey
  BY <1>1, <1>2 DEF Init, NoSession, Sessions
<1>6. Counts
  BY StaAssumption DEF Init, Counts
<1>7. TypeOK
  BY <1>3, <1>4, <1>5, <1>6, TypeParts
<1>8. Waits
  BY DEF Init, Waits
<1>9. Linked
  BY <1>4, <1>5 DEF Linked, Session, Air, DownAll, Order, Behind, UpAll, KeyInv, GroupInv,
                    Taken4, TakenG
<1> QED BY <1>7, <1>8, <1>9 DEF IInv

LEMMA IInvNext == IInv /\ [Next]_vars => IInv'
<1> SUFFICES ASSUME IInv, [Next]_vars PROVE IInv'
  OBVIOUS
<1>1. TypeOK'
  BY TypeNext DEF IInv, Linked, Air
<1>2. Waits'
  BY WaitsNext DEF IInv
<1>3. Linked'
  <2>1. CASE Rx \/ RxBeacon
    BY <2>1, LinkedRxBut, LinkedM1, LinkedM3, LinkedG1 DEF Rx
  <2>2. CASE Job
    BY <2>2, LinkedJob
  <2>3. CASE Far
    BY <2>3, LinkedFar
  <2>4. CASE UNCHANGED vars
    <3>1. UNCHANGED Sta /\ ap' = ap /\ toSta' = toSta /\ toAp' = toAp
      BY <2>4 DEF vars, Sta
    <3> QED BY <3>1, LinkedLoses DEF Shrinks
  <2> QED BY <2>1, <2>2, <2>3, <2>4, NextParts
<1> QED BY <1>1, <1>2, <1>3 DEF IInv

LEMMA IInvAlways == Spec => []IInv
BY IInvInit, IInvNext, PTL DEF Spec

----------------------------------------------------------------------------
(* What the invariant gives.                                               *)

\* Whatever the frames bring, the variables of wlan.h, the key table and the
\* frames under way keep their types; the loops of wlan_connect end within their
\* tries and the receive ring is not overrun.
THEOREM TypeCorrect == Spec => []TypeOK
<1>1. IInv => TypeOK
  BY DEF IInv
<1> QED BY <1>1, IInvAlways, PTL

\* handle_eapol writes the new pairwise key after message 4 and do_connect at the
\* end of the join: the chip has the access point's key whenever both are linked,
\* through lost, late and repeated messages and any number of rekeyings.
THEOREM KeysAreShared == Spec => []KeyShared
<1>1. IInv => KeyShared
  <2> SUFFICES ASSUME IInv, jpc = "up", ap.tk # NoKey
               PROVE  cam.tk = ap.tk \/ (ap.st = "m3" /\ cam.tk = ap.ptk)
    BY DEF KeyShared
  <2>1. wlan_keys_on
    BY DEF IInv, Waits
  <2>2. Follows(ap.tk) \/ (ap.st = "m3" /\ Follows(ap.ptk))
    BY DEF IInv, Linked, KeyInv
  <2> QED BY <2>1, <2>2 DEF Follows, Holds
<1> QED BY <1>1, IInvAlways, PTL

\* handle_eapol takes group keys from messages 3 and group messages in any order and
\* number: once the access point has its answer, its group key is in the chip.
THEOREM GroupKeysAgree == Spec => []GroupAgrees
<1>1. IInv => GroupAgrees
  <2> SUFFICES ASSUME IInv, jpc = "up", ap.st = "open"
               PROVE  cam.gtk = ap.gtk
    BY DEF GroupAgrees
  <2>1. wlan_keys_on
    BY DEF IInv, Waits
  <2>2. Agrees
    BY DEF IInv, Linked, GroupInv
  <2> QED BY <2>1, <2>2 DEF Agrees, HoldsG
<1> QED BY <1>1, IInvAlways, PTL
=============================================================================
