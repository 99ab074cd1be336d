---------------------------- MODULE NetTcpProofs ---------------------------
(***************************************************************************)
(* The TCP client of netstack.h against a network that loses, repeats and  *)
(* reorders: the answer arrives unit by unit, an acknowledgement is never  *)
(* ahead of what was delivered, and tcp_write returns 0 only when the      *)
(* server has the request.  For every length, every initial sequence       *)
(* number and any number of segments under way, as long as the stream is   *)
(* shorter than half the sequence space.                                   *)
(*                                                                         *)
(* Sequence numbers are read as offsets: PSeq(x) is the number of unit x   *)
(* of the answer, CSeq(x) that of unit x of the request.                   *)
(***************************************************************************)
EXTENDS NetTcp, SequenceTheorems, TLAPS

\* The remainder of a number at most one modulus away from the range.
LEMMA ModNear ==
  ASSUME NEW k \in Nat \ {0}, NEW a \in Int
  PROVE  /\ 0 <= a /\ a < k => a % k = a
         /\ -k <= a /\ a < 0 => a % k = a + k
         /\ k <= a /\ a < 2 * k => a % k = a - k
<1>1. ASSUME 0 <= a, a < k PROVE a % k = a
  BY <1>1
<1>2. ASSUME -k <= a, a < 0 PROVE a % k = a + k
  BY <1>2
<1>3. ASSUME k <= a, a < 2 * k PROVE a % k = a - k
  BY <1>3
<1> QED
  BY <1>1, <1>2, <1>3

\* Division with remainder.
LEMMA DivMod ==
  ASSUME NEW k \in Nat \ {0}, NEW a \in Int
  PROVE  a % k \in 0..(k - 1) /\ a \div k \in Int /\ a = k * (a \div k) + (a % k)
  OBVIOUS

\* Quotient and remainder are unique.
LEMMA ModUnique ==
  ASSUME NEW k \in Nat \ {0}, NEW q \in Int, NEW r \in Int, 0 <= r, r < k
  PROVE  (k * q + r) % k = r /\ (k * q + r) \div k = q
  OBVIOUS

\* Multiples of the modulus do not change the remainder.
LEMMA ModShift ==
  ASSUME NEW k \in Nat \ {0}, NEW q \in Int, NEW a \in Int
  PROVE  (a + k * q) % k = a % k /\ (a + k * q) \div k = (a \div k) + q
<1> DEFINE r == a % k
           d == a \div k
<1>1. r \in 0..(k - 1) /\ d \in Int /\ a = k * d + r
  BY DivMod
<1>2. a + k * q = k * (d + q) + r
  <2> HIDE DEF r, d
  <2> QED
    BY <1>1
<1>3. (k * (d + q) + r) % k = r /\ (k * (d + q) + r) \div k = d + q
  <2> HIDE DEF r, d
  <2> QED
    BY <1>1, ModUnique
<1> QED
  BY <1>2, <1>3

\* A sum may be reduced early.
LEMMA ModAdd ==
  ASSUME NEW k \in Nat \ {0}, NEW a \in Int, NEW b \in Int
  PROVE  ((a % k) + b) % k = (a + b) % k
<1> DEFINE r == a % k
           d == a \div k
<1>1. r \in 0..(k - 1) /\ d \in Int /\ a = k * d + r
  BY DivMod
<1> DEFINE s == r + b
<1>2. s \in Int /\ a + b = s + k * d
  <2> HIDE DEF r, d
  <2> QED
    BY <1>1
<1>3. (s + k * d) % k = s % k
  <2> HIDE DEF r, d, s
  <2> QED
    BY <1>1, <1>2, ModShift
<1> QED
  BY <1>2, <1>3

\* A difference may be reduced early, on either side.
LEMMA ModDiff ==
  ASSUME NEW k \in Nat \ {0}, NEW a \in Int, NEW b \in Int
  PROVE  (a - (b % k)) % k = (a - b) % k /\ ((a % k) - (b % k)) % k = (a - b) % k
<1>1. ASSUME NEW c \in Int PROVE (c - (b % k)) % k = (c - b) % k
  <2> DEFINE r == b % k
             d == b \div k
  <2>1. r \in 0..(k - 1) /\ d \in Int /\ b = k * d + r
    BY DivMod
  <2> DEFINE s == c - b
  <2>2. s \in Int /\ c - r = s + k * d
    <3> HIDE DEF r, d
    <3> QED
      BY <2>1
  <2>3. (s + k * d) % k = s % k
    <3> HIDE DEF r, d, s
    <3> QED
      BY <2>1, <2>2, ModShift
  <2> QED
    BY <2>2, <2>3
<1>2. a % k \in Int
  BY DivMod
<1>3. ((a % k) - (b % k)) % k = ((a % k) - b) % k
  BY <1>1, <1>2
<1>4. -b \in Int
  OBVIOUS
<1>5. ((a % k) + (-b)) % k = (a + (-b)) % k
  BY <1>4, ModAdd, Zenon
<1>6. (a % k) + (-b) = (a % k) - b /\ a + (-b) = a - b
  BY <1>2
<1> QED
  BY <1>1, <1>3, <1>5, <1>6

\* Numbers less than a modulus apart are told apart by their remainders.
LEMMA ModInjective ==
  ASSUME NEW k \in Nat \ {0}, NEW a \in Int, NEW b \in Int,
         a - b < k, b - a < k, a % k = b % k
  PROVE  a = b
<1> DEFINE d == a \div k
           e == b \div k
           r == a % k
<1>1. d \in Int /\ e \in Int /\ r \in 0..(k - 1) /\ a = k * d + r /\ b = k * e + r
  BY DivMod
<1>2. a - b = k * (d - e)
  <2> HIDE DEF d, e, r
  <2> QED
    BY <1>1
<1>3. d - e \in Int /\ k * (d - e) < k /\ -k < k * (d - e)
  <2> HIDE DEF d, e, r
  <2> QED
    BY <1>1, <1>2
<1>4. d - e = 0
  <2> DEFINE g == d - e
  <2>1. ASSUME g >= 1 PROVE k * g >= k
    <3> HIDE DEF d, e, r, g
    <3>1. g \in Int
      BY <1>3 DEF g
    <3> QED
      BY <2>1, <3>1
  <2>2. ASSUME g <= -1 PROVE k * g <= -k
    <3> HIDE DEF d, e, r, g
    <3>1. g \in Int
      BY <1>3 DEF g
    <3> QED
      BY <2>2, <3>1
  <2> HIDE DEF d, e, r
  <2> QED
    BY <1>1, <1>3, <2>1, <2>2
<1> QED
  BY <1>2, <1>4

PSeq(x) == (PeerIsn + 1 + x) % SeqMod
CSeq(x) == (Isn + 1 + x) % SeqMod

\* Units of the request that tcp_write has begun to send.
Begun == (ReqLen - left) + wn

\* What the server has of our side, its FIN included, and what the client has of the
\* server's, with F = 1 when it has taken the FIN.
SrvGot == s_rcv + (IF s_fin THEN 1 ELSE 0)
ServerHas(x) == \E a \in 0..SrvGot : x = CSeq(a)
ClientHas(F, x) == \E g \in 0..(Len(got) + F) : x = PSeq(g)

Types ==
    /\ tcp_state \in {"CLOSED", "SYN_SENT", "ESTABLISHED", "DONE"}
    /\ pc \in {"start", "syn", "write", "wsend", "wwait", "read", "end", "noconn", "nowrite"}
    /\ left \in 0..ReqLen /\ wn \in 0..left
    /\ sst \in {"LISTEN", "SYN_RCVD", "ESTABLISHED", "ABORTED"}
    /\ s_una \in 0..(RespLen + 1) /\ s_nxt \in 0..(RespLen + 1)
    /\ s_rcv \in 0..ReqLen /\ s_fin \in BOOLEAN /\ reset \in BOOLEAN
    /\ Len(got) \in 0..RespLen /\ got = [i \in 1..Len(got) |-> i - 1]

\* Segments of the server say what it has, and carry the unit at their number.
DownSeg(m) ==
    /\ m.len \in Nat /\ m.off \in 0..(RespLen + 1)
    /\ ServerHas(m.ack)
    /\ "SYN" \in m.flags => m.seq = PeerIsn /\ m.len = 0 /\ "FIN" \notin m.flags
    /\ "SYN" \notin m.flags => m.seq = PSeq(m.off)
    /\ m.len > 0 => m.off + m.len <= RespLen
    /\ "FIN" \in m.flags => m.off + m.len = RespLen
DownSegs == \A m \in s2c : DownSeg(m)

\* Segments of the client acknowledge what was delivered and carry units that
\* tcp_write has begun to send; its FIN comes behind all of these.
UpSegs(F, f) ==
    \A m \in c2s :
        /\ m.len \in Nat
        /\ "SYN" \notin m.flags => ClientHas(F, m.ack)
        /\ m.len > 0 => \E o \in 0..ReqLen : m.seq = CSeq(o) /\ o + m.len <= Begun
        /\ "FIN" \in m.flags => f = 1 /\ m.seq = CSeq(Begun)

\* The connection before it is established, or one reset before that.
Closed ==
    /\ tcp_state \in {"CLOSED", "SYN_SENT", "DONE"} /\ (tcp_state = "DONE" => reset)
    /\ pc \in {"start", "syn", "noconn"} /\ (pc = "start" <=> tcp_state = "CLOSED")
    /\ tcp_state # "CLOSED" => tcp_snd_nxt = CSeq(0)
    /\ left = ReqLen /\ wn = 0 /\ tcp_ack_due = 0 /\ got = <<>>
    /\ sst # "ESTABLISHED" /\ s_una = 0 /\ s_nxt = 0 /\ s_rcv = 0 /\ ~s_fin
    /\ \A m \in c2s : m.flags = {"SYN"} /\ m.len = 0
    /\ \A m \in s2c : m.len = 0 /\ "FIN" \notin m.flags

\* The receive side; F = 1: the server's FIN was taken.
Recv(F) ==
    /\ tcp_state \in {"ESTABLISHED", "DONE"}
    /\ tcp_rcv_nxt = PSeq(Len(got) + F)
    /\ F = 1 => tcp_state = "DONE" /\ Len(got) = RespLen
    /\ tcp_state = "DONE" => reset \/ F = 1
    /\ s_una <= Len(got) + F

\* The send side; f = 1: our FIN was sent.
Send(f) ==
    /\ tcp_snd_nxt = CSeq(Begun + f)
    /\ f = 1 => tcp_state = "DONE"
    /\ ServerHas(tcp_snd_una)
    /\ s_rcv <= Begun
    /\ s_fin => f = 1 /\ s_rcv = Begun

\* tcp_write: every piece before the one being sent has arrived.
Prog ==
    /\ pc # "start"
    /\ pc \in {"wsend", "wwait"} => wseq = CSeq(ReqLen - left)
    /\ pc \in {"syn", "write"} => wn = 0
    /\ pc = "syn" => left = ReqLen
    /\ pc \in {"write", "wsend", "wwait"} => ReqLen - left <= s_rcv
    /\ pc \in {"read", "end"} => s_rcv = ReqLen

Open(F, f) == Recv(F) /\ Send(f) /\ Prog /\ UpSegs(F, f)

ConnInv == Closed \/ \E F, f \in {0, 1} : Open(F, f)

IInv == Types /\ DownSegs /\ ConnInv
----------------------------------------------------------------------------
\* Sequence numbers and offsets.
LEMMA SeqTypes ==
    /\ SeqMod \in Nat \ {0} /\ Isn \in Int /\ PeerIsn \in Int
    /\ Isn \in 0..(SeqMod - 1) /\ PeerIsn \in 0..(SeqMod - 1)
    /\ ReqLen \in Nat /\ RespLen \in Nat /\ MSS \in Nat
BY NetTcpAssumption

LEMMA SeqRange ==
    ASSUME NEW x \in Int
    PROVE  /\ PSeq(x) \in 0..(SeqMod - 1) /\ PSeq(x) % SeqMod = PSeq(x)
           /\ CSeq(x) \in 0..(SeqMod - 1) /\ CSeq(x) % SeqMod = CSeq(x)
<1>1. PeerIsn + 1 + x \in Int /\ Isn + 1 + x \in Int
  BY SeqTypes
<1>2. PSeq(x) \in 0..(SeqMod - 1) /\ CSeq(x) \in 0..(SeqMod - 1)
  BY <1>1, SeqTypes, DivMod DEF PSeq, CSeq
<1>3. \A y \in 0..(SeqMod - 1) : y % SeqMod = y
  BY SeqTypes, ModNear
<1> QED BY <1>2, <1>3

LEMMA SeqAdd ==
    ASSUME NEW x \in Int, NEW n \in Int
    PROVE  (PSeq(x) + n) % SeqMod = PSeq(x + n) /\ (CSeq(x) + n) % SeqMod = CSeq(x + n)
<1>1. PeerIsn + 1 + x \in Int /\ Isn + 1 + x \in Int
  BY SeqTypes
<1>2. /\ (PSeq(x) + n) % SeqMod = (PeerIsn + 1 + x + n) % SeqMod
      /\ (CSeq(x) + n) % SeqMod = (Isn + 1 + x + n) % SeqMod
  BY <1>1, SeqTypes, ModAdd DEF PSeq, CSeq
<1>3. PeerIsn + 1 + x + n = PeerIsn + 1 + (x + n) /\ Isn + 1 + x + n = Isn + 1 + (x + n)
  BY SeqTypes
<1> QED BY <1>2, <1>3 DEF PSeq, CSeq

LEMMA PSeqInjective ==
    ASSUME NEW x \in 0..(RespLen + 1), NEW y \in 0..(RespLen + 1), PSeq(x) = PSeq(y)
    PROVE  x = y
<1> DEFINE a == PeerIsn + 1 + x
           b == PeerIsn + 1 + y
<1>1. a \in Int /\ b \in Int /\ a - b < SeqMod /\ b - a < SeqMod
  BY NetTcpAssumption
<1>2. a % SeqMod = b % SeqMod
  BY DEF PSeq
<1>3. a = b
  <2> HIDE DEF a, b
  <2> QED BY <1>1, <1>2, SeqTypes, ModInjective
<1> QED BY <1>3, SeqTypes

LEMMA CSeqInjective ==
    ASSUME NEW x \in 0..(ReqLen + 1), NEW y \in 0..(ReqLen + 1), CSeq(x) = CSeq(y)
    PROVE  x = y
<1> DEFINE a == Isn + 1 + x
           b == Isn + 1 + y
<1>1. a \in Int /\ b \in Int /\ a - b < SeqMod /\ b - a < SeqMod
  BY NetTcpAssumption
<1>2. a % SeqMod = b % SeqMod
  BY DEF CSeq
<1>3. a = b
  <2> HIDE DEF a, b
  <2> QED BY <1>1, <1>2, SeqTypes, ModInjective
<1> QED BY <1>3, SeqTypes

\* The server reads an acknowledgement as an offset in its answer.
LEMMA PSeqOffset ==
    ASSUME NEW x \in 0..(RespLen + 1)
    PROVE  (PSeq(x) - PeerIsn - 1) % SeqMod = x
<1> DEFINE n == (0 - PeerIsn) - 1
<1>1. x \in Int /\ n \in Int /\ PSeq(x) - PeerIsn - 1 = PSeq(x) + n
  BY SeqTypes, SeqRange
<1>2. (PSeq(x) + n) % SeqMod = PSeq(x + n)
  <2> HIDE DEF n
  <2> QED BY <1>1, SeqAdd
<1>3. PeerIsn + 1 + (x + n) = x /\ 0 <= x /\ x < SeqMod
  BY NetTcpAssumption
<1> QED BY <1>1, <1>2, <1>3, SeqTypes, ModNear DEF PSeq

\* What is not acknowledged is after what is.
LEMMA CSeqAfter ==
    ASSUME NEW x \in 0..ReqLen, NEW n \in 0..ReqLen, x + n <= ReqLen,
           NEW u \in 0..(ReqLen + 1), u < x + n
    PROVE  After(CSeq(x) + n, CSeq(u))
<1> DEFINE a == Isn + 1 + x
           b == Isn + 1 + u
<1>1. a \in Int /\ b \in Int /\ n \in Int /\ a + n \in Int
  BY SeqTypes
<1>2. (((a % SeqMod) + n) - (b % SeqMod)) % SeqMod = ((a + n) - b) % SeqMod
  <2> DEFINE r == a % SeqMod
             t1 == r + n
  <2>1. r \in Int /\ t1 \in Int
    <3> HIDE DEF a, b
    <3> QED BY <1>1, SeqTypes, DivMod
  <2>2. (t1 - (b % SeqMod)) % SeqMod = ((t1 % SeqMod) - (b % SeqMod)) % SeqMod
    <3> HIDE DEF a, b, r, t1
    <3>1. SeqMod \in Nat \ {0} /\ t1 \in Int /\ b \in Int
      BY <1>1, <2>1, SeqTypes
    <3>2. (t1 - (b % SeqMod)) % SeqMod = (t1 - b) % SeqMod
      BY <3>1, ModDiff, Zenon
    <3>3. ((t1 % SeqMod) - (b % SeqMod)) % SeqMod = (t1 - b) % SeqMod
      BY <3>1, ModDiff, Zenon
    <3> QED BY <3>2, <3>3
  <2>3. t1 % SeqMod = (a + n) % SeqMod
    <3> HIDE DEF a, b
    <3> QED BY <1>1, SeqTypes, ModAdd
  <2>4. (((a + n) % SeqMod) - (b % SeqMod)) % SeqMod = ((a + n) - b) % SeqMod
    <3> HIDE DEF a, b
    <3> QED BY <1>1, SeqTypes, ModDiff
  <2> HIDE DEF a, b
  <2> QED BY <2>2, <2>3, <2>4
<1>3. (a + n) - b \in 1..((SeqMod \div 2) - 1) /\ (a + n) - b < SeqMod
  <2>1. SeqMod \div 2 \in Int /\ 2 * (SeqMod \div 2) <= SeqMod /\ SeqMod <= 2 * (SeqMod \div 2) + 1
    BY SeqTypes
  <2> QED BY <2>1, NetTcpAssumption
<1>4. ((a + n) - b) % SeqMod = (a + n) - b
  <2> HIDE DEF a, b
  <2> QED BY <1>1, <1>3, SeqTypes, ModNear
<1> QED BY <1>2, <1>3, <1>4 DEF After, CSeq

\* The segments of both sides.
LEMMA SegFields ==
    ASSUME NEW fl, NEW sq \in Int, NEW ak \in Int, NEW of, NEW ln
    PROVE  LET m == Seg(fl, sq, ak, of, ln)
           IN  /\ m.flags = fl /\ m.seq = sq % SeqMod /\ m.ack = ak % SeqMod
               /\ m.off = of /\ m.len = ln
BY DEF Seg

LEMMA SentIs ==
    ASSUME NEW net, NEW cap, NEW segs, NEW n \in Sent(net, cap, segs), NEW m \in n
    PROVE  m \in net \/ m \in segs
BY DEF Sent

LEMMA SynIs == Syn.flags = {"SYN"} /\ Syn.len = 0
BY DEF Syn, Seg

\* What the server has of our side is a number of units.
LEMMA SrvGotIs ==
    Types => /\ SrvGot \in Int /\ s_rcv \in Int /\ 0 <= s_rcv /\ s_rcv <= SrvGot
             /\ SrvGot \in 0..(ReqLen + 1)
             /\ (s_fin => SrvGot = s_rcv + 1) /\ (~s_fin => SrvGot = s_rcv)
BY SeqTypes DEF SrvGot, Types

LEMMA SrvGotNext ==
    (Types => /\ SrvGot \in Int /\ s_rcv \in Int /\ 0 <= s_rcv /\ s_rcv <= SrvGot
              /\ SrvGot \in 0..(ReqLen + 1)
              /\ (s_fin => SrvGot = s_rcv + 1) /\ (~s_fin => SrvGot = s_rcv))'
BY SrvGotIs, PTL

\* The segments the server sends carry what it has.
LEMMA SrvSegIs ==
    ASSUME Types, NEW off \in 0..(RespLen + 1), NEW len \in Nat, NEW flags
    PROVE  LET m == SrvSeg(off, len, flags)
           IN  /\ m.len = len /\ m.off = off /\ m.flags = flags \union {"ACK"}
               /\ m.seq = PSeq(m.off) /\ ServerHas(m.ack)
<1>1. PeerIsn + 1 + off \in Int /\ Isn + 1 + SrvGot \in Int /\ SrvGot \in 0..SrvGot
  BY SeqTypes, SrvGotIs
<1>2. Isn + 1 + s_rcv + (IF s_fin THEN 1 ELSE 0) = Isn + 1 + SrvGot
  BY SeqTypes DEF Types, SrvGot
<1>3. /\ SrvSeg(off, len, flags).len = len /\ SrvSeg(off, len, flags).off = off
      /\ SrvSeg(off, len, flags).flags = flags \union {"ACK"}
      /\ SrvSeg(off, len, flags).seq = PSeq(off)
      /\ SrvSeg(off, len, flags).ack = CSeq(SrvGot)
  BY <1>2 DEF SrvSeg, Seg, PSeq, CSeq
<1> QED BY <1>1, <1>3 DEF ServerHas

\* So does its SYN, whenever it is sent again.
LEMMA SynAckIs ==
    ASSUME Types
    PROVE  LET m == Seg({"SYN", "ACK"}, PeerIsn, Isn + 1, 0, 0)
           IN  /\ m.len = 0 /\ m.off = 0 /\ m.flags = {"SYN", "ACK"}
               /\ m.seq = PeerIsn /\ m.ack = CSeq(0) /\ ServerHas(m.ack)
<1>1. PeerIsn % SeqMod = PeerIsn
  BY SeqTypes, ModNear
<1>2. (Isn + 1) % SeqMod = CSeq(0) /\ 0 \in 0..SrvGot
  BY SeqTypes, SrvGotIs DEF CSeq
<1> QED BY <1>1, <1>2 DEF Seg, ServerHas

\* What the server has only grows.
LEMMA HadStays ==
    ASSUME Types, Types', SrvGot <= SrvGot', NEW x, ServerHas(x)
    PROVE  ServerHas(x)'
<1>1. PICK a \in 0..SrvGot : x = CSeq(a)
  BY DEF ServerHas
<1>2. SrvGot \in Int /\ SrvGot' \in Int
  BY SrvGotIs, SrvGotNext
<1>3. a \in 0..SrvGot'
  BY <1>1, <1>2
<1> QED BY <1>1, <1>3 DEF ServerHas

\* The network and a server that gets on do not disturb the segments of the server.
LEMMA DownKeep ==
    ASSUME Types, Types', DownSegs, s2c' \subseteq s2c, SrvGot <= SrvGot'
    PROVE  DownSegs'
<1>1. ASSUME NEW m \in s2c PROVE ServerHas(m.ack)'
  BY HadStays DEF DownSegs, DownSeg
<1> QED BY <1>1 DEF DownSegs, DownSeg

----------------------------------------------------------------------------
\* The program's steps on an open connection.
LEMMA ProgramOpen ==
    ASSUME Types, DownSegs, NEW F \in {0, 1}, NEW f \in {0, 1}, Open(F, f), Program
    PROVE  Types' /\ DownSegs' /\ Open(F, f)'
<1>1. ASSUME Types', UNCHANGED serverVars, s2c' \subseteq s2c PROVE DownSegs'
  <2>1. SrvGot' = SrvGot /\ SrvGot \in Int
    BY <1>1, SrvGotIs DEF serverVars, SrvGot
  <2> QED BY <1>1, <2>1, DownKeep
\* Steps that change neither the numbers nor what was sent.
<1>2. ASSUME UNCHANGED <<clientVars, serverVars, c2s, left, wn>>, s2c' \subseteq s2c,
             pc' \in {"noconn", "nowrite", "write", "wsend", "read", "end"}
      PROVE  Types' /\ DownSegs' /\ Recv(F)' /\ Send(f)' /\ UpSegs(F, f)'
  <2>1. Types'
    BY <1>2 DEF Types, clientVars, serverVars
  <2> QED BY <1>1, <1>2, <2>1
      DEF Open, Recv, Send, Begun, ServerHas, SrvGot, UpSegs, ClientHas, clientVars, serverVars
<1>3. CASE TcpConnect \/ SynAgain
  BY <1>3 DEF TcpConnect, SynAgain, Open, Recv, Prog
<1>4. CASE ConnectReturns
  <2>1. Prog'
    BY <1>4 DEF ConnectReturns, Goto, Returned, Open, Prog, serverVars, Types
  <2> QED BY <1>2, <1>4, <2>1 DEF ConnectReturns, Goto, Returned, Open
<1>5. CASE WritePiece
  <2>1. f = 0 /\ wn = 0 /\ Begun = ReqLen - left /\ Begun \in Int /\ pc = "write"
    BY <1>5, SeqTypes DEF WritePiece, Open, Send, Prog, Begun, Types
  <2>2. wn' \in 0..left /\ left' = left /\ Begun' = (ReqLen - left) + wn'
    BY <1>5, SeqTypes, NetTcpAssumption DEF WritePiece, Types, Begun
  <2>3. tcp_snd_nxt = CSeq(Begun)
    BY <2>1 DEF Open, Send
  <2>4. tcp_snd_nxt' = CSeq(Begun')
    <3>1. tcp_snd_nxt' = (CSeq(Begun) + wn') % SeqMod /\ Begun' = Begun + wn' /\ wn' \in Int
      BY <1>5, <2>1, <2>2, <2>3 DEF WritePiece, NxtAtPiece
    <3> QED BY <2>1, <3>1, SeqAdd
  <2>5. /\ UNCHANGED <<tcp_state, tcp_snd_una, tcp_rcv_nxt, got, reset, left, serverVars, c2s, s2c>>
        /\ pc' = "wsend" /\ wseq' = tcp_snd_nxt
    BY <1>5 DEF WritePiece
  <2>6. Types'
    BY <2>2, <2>5 DEF Types, serverVars
  <2>7. Recv(F)' /\ Prog'
    BY <2>1, <2>3, <2>5 DEF Open, Recv, Prog, serverVars
  <2>8. left \in Int /\ ReqLen \in Int /\ Begun <= Begun' /\ Begun' \in Int /\ Begun' + 0 = Begun'
    <3>1. left \in 0..ReqLen /\ ReqLen \in Int
      BY SeqTypes DEF Types
    <3>2. wn' \in Int /\ 0 <= wn' /\ ReqLen - left \in Int
      BY <2>2, <3>1
    <3>3. Begun' = Begun + wn'
      BY <2>1, <2>2
    <3>4. \A d, n \in Int : 0 <= n => d <= d + n /\ d + n \in Int /\ d + n + 0 = d + n
      OBVIOUS
    <3>5. left \in Int /\ Begun \in Int /\ wn' \in Int /\ 0 <= wn'
      BY <2>1, <3>1, <3>2
    <3> QED BY <3>1, <3>3, <3>4, <3>5
  <2>9. Send(f)'
    <3>1. s_rcv \in Int /\ s_rcv <= Begun /\ ~s_fin
      BY <2>1, SeqTypes DEF Open, Send, Types
    <3>2. s_rcv <= Begun'
      BY <2>1, <2>8, <3>1
    <3>3. ServerHas(tcp_snd_una)'
      BY <2>5 DEF Open, Send, ServerHas, SrvGot, serverVars
    <3> QED BY <2>1, <2>4, <2>5, <2>8, <3>1, <3>2, <3>3 DEF Send, serverVars
  <2>10. UpSegs(F, f)'
    BY <2>1, <2>2, <2>5, <2>8, SeqTypes DEF Open, UpSegs, ClientHas
  <2> QED BY <1>1, <2>5, <2>6, <2>7, <2>9, <2>10 DEF Open
<1>6. CASE WriteSend
  <2>1. /\ UNCHANGED <<clientVars, left, wseq, wn, serverVars, s2c>> /\ pc = "wsend" /\ pc' = "wwait"
        /\ \/ c2s' = c2s
           \/ c2s' \in Sent(c2s, UpCap, {Seg({"ACK"}, wseq, tcp_rcv_nxt, ReqOff(wseq), wn)})
    BY <1>6 DEF WriteSend
  <2>2. Types'
    BY <2>1 DEF Types, clientVars, serverVars
  <2>3. Recv(F)' /\ Send(f)' /\ Prog'
    BY <2>1 DEF Open, Recv, Send, Prog, Begun, ServerHas, SrvGot, clientVars, serverVars
  <2>4. /\ wseq = CSeq(ReqLen - left) /\ ReqLen - left \in 0..ReqLen /\ ReqLen - left \in Int
        /\ tcp_rcv_nxt = PSeq(Len(got) + F) /\ Len(got) + F \in Int /\ Len(got) \in Nat
    <3>1. Len(got) \in 0..RespLen /\ left \in 0..ReqLen
      BY DEF Types
    <3> QED BY <2>1, <3>1, SeqTypes DEF Open, Prog, Recv
  <2>5. ASSUME NEW m, m = Seg({"ACK"}, wseq, tcp_rcv_nxt, ReqOff(wseq), wn)
        PROVE  /\ m.len = wn /\ m.flags = {"ACK"}
               /\ m.seq = CSeq(ReqLen - left) /\ m.ack = PSeq(Len(got) + F)
    <3>1. wseq % SeqMod = wseq /\ tcp_rcv_nxt % SeqMod = tcp_rcv_nxt
      BY <2>4, SeqRange
    <3> QED BY <2>4, <2>5, <3>1 DEF Seg
  <2>6. UpSegs(F, f)'
    <3> SUFFICES ASSUME NEW m \in c2s'
                 PROVE  /\ m.len \in Nat
                        /\ "SYN" \notin m.flags => ClientHas(F, m.ack)
                        /\ m.len > 0 => \E o \in 0..ReqLen : m.seq = CSeq(o) /\ o + m.len <= Begun
                        /\ "FIN" \in m.flags => f = 1 /\ m.seq = CSeq(Begun)
      BY <2>1 DEF UpSegs, ClientHas, Begun, clientVars
    <3>1. CASE m \in c2s
      BY <3>1 DEF Open, UpSegs
    <3>2. CASE m = Seg({"ACK"}, wseq, tcp_rcv_nxt, ReqOff(wseq), wn)
      BY <2>4, <2>5, <3>2, SeqTypes DEF ClientHas, Begun, Types
    <3> QED BY <2>1, <3>1, <3>2, SentIs
  <2> QED BY <1>1, <2>1, <2>2, <2>3, <2>6 DEF Open
<1>7. CASE WriteTimeout
  BY <1>2, <1>7 DEF WriteTimeout, Open, Prog, serverVars
<1>8. CASE WriteDone
  <2>1. UNCHANGED <<clientVars, wseq, serverVars, c2s>> /\ s2c' \subseteq s2c /\ pc \in {"wsend", "wwait"}
    BY <1>8 DEF WriteDone, Goto
  <2>2. CASE PieceFailed
    BY <1>2, <1>8, <2>1, <2>2 DEF WriteDone, Goto, Returned, Open, Prog, serverVars
  <2>3. CASE ~PieceFailed
    <3>1. /\ wseq = CSeq(ReqLen - left) /\ ReqLen - left \in 0..ReqLen /\ ReqLen - left \in Int
          /\ wn \in 0..ReqLen /\ wn \in Int /\ Begun = (ReqLen - left) + wn /\ Begun \in 0..ReqLen
      BY <2>1, SeqTypes DEF Open, Prog, Types, Begun
    <3>2. PICK u \in 0..SrvGot : tcp_snd_una = CSeq(u)
      BY DEF Open, Send, ServerHas, SrvGot
    <3>3. u \in 0..(ReqLen + 1)
      BY <3>2, SrvGotIs, SeqTypes
    <3>4. Begun <= u
      <4>1. (wseq + wn) % SeqMod = CSeq(Begun)
        BY <3>1, SeqAdd
      <4>2. CASE Acked
        <5>1. CSeq(u) = CSeq(Begun) /\ Begun \in 0..(ReqLen + 1)
          BY <3>1, <3>2, <4>1, <4>2, SeqTypes DEF Acked
        <5>2. u = Begun
          BY <3>3, <5>1, CSeqInjective
        <5> QED BY <3>1, <5>2
      <4>3. CASE ~Acked
        <5>1. ~After(CSeq(ReqLen - left) + wn, CSeq(u))
          BY <2>3, <3>1, <3>2, <4>3 DEF PieceFailed
        <5>2. ~(u < (ReqLen - left) + wn)
          BY <3>1, <3>3, <5>1, CSeqAfter
        <5> QED BY <3>1, <3>3, <5>2
      <4> QED BY <4>2, <4>3
    <3>5. Begun <= s_rcv
      <4>1. CASE s_fin
        BY <3>1, <4>1 DEF Open, Send
      <4>2. CASE ~s_fin
        BY <3>1, <3>2, <3>4, <4>2, SrvGotIs
      <4> QED BY <4>1, <4>2
    <3>6. /\ left' = left - wn /\ wn' = 0 /\ pc' = "write" /\ Begun' = Begun
          /\ ReqLen - left' <= s_rcv'
      BY <1>8, <2>1, <2>3, <3>1, <3>5, SeqTypes
         DEF WriteDone, Goto, Returned, Begun, Types, serverVars
    <3>7. Types'
      BY <2>1, <3>6, SeqTypes DEF Types, clientVars, serverVars
    <3>8. Recv(F)' /\ Send(f)' /\ Prog' /\ UpSegs(F, f)'
      BY <2>1, <3>6 DEF Open, Recv, Send, Prog, UpSegs, ServerHas, SrvGot, ClientHas, clientVars, serverVars
    <3> QED BY <1>1, <2>1, <3>7, <3>8 DEF Open
  <2> QED BY <2>2, <2>3
<1>9. CASE WriteReturns
  <2>1. Prog'
    BY <1>9, SeqTypes DEF WriteReturns, Goto, Returned, Open, Prog, Send, Begun, serverVars, Types
  <2> QED BY <1>2, <1>9, <2>1 DEF WriteReturns, Goto, Returned, Open
<1>10. CASE ReadFlush
  <2>1. /\ UNCHANGED <<tcp_state, tcp_snd_una, tcp_snd_nxt, tcp_rcv_nxt, got, reset, progVars, serverVars, s2c>>
        /\ c2s' \in Sent(c2s, UpCap, {Ack(tcp_snd_nxt, tcp_rcv_nxt)})
    BY <1>10 DEF ReadFlush
  <2>2. Types'
    BY <2>1 DEF Types, progVars, serverVars
  <2>3. Recv(F)' /\ Send(f)' /\ Prog'
    BY <2>1 DEF Open, Recv, Send, Prog, Begun, ServerHas, SrvGot, progVars, serverVars
  <2>4. UpSegs(F, f)'
    <3> SUFFICES ASSUME NEW m \in c2s'
                 PROVE  /\ m.len \in Nat
                        /\ "SYN" \notin m.flags => ClientHas(F, m.ack)
                        /\ m.len > 0 => \E o \in 0..ReqLen : m.seq = CSeq(o) /\ o + m.len <= Begun
                        /\ "FIN" \in m.flags => f = 1 /\ m.seq = CSeq(Begun)
      BY <2>1 DEF UpSegs, ClientHas, Begun, progVars
    <3>1. CASE m \in c2s
      BY <3>1 DEF Open, UpSegs
    <3>2. CASE m = Ack(tcp_snd_nxt, tcp_rcv_nxt)
      <4>1. tcp_rcv_nxt = PSeq(Len(got) + F) /\ Len(got) + F \in Nat
        BY DEF Open, Recv, Types
      <4>2. tcp_rcv_nxt % SeqMod = PSeq(Len(got) + F)
        BY <4>1, SeqRange
      <4>3. m.flags = {"ACK"} /\ m.len = 0 /\ m.ack = PSeq(Len(got) + F)
        BY <3>2, <4>2 DEF Ack, Seg
      <4> QED BY <4>1, <4>3 DEF ClientHas
    <3> QED BY <2>1, <3>1, <3>2, SentIs
  <2> QED BY <1>1, <2>1, <2>2, <2>3, <2>4 DEF Open
<1>11. CASE ReadReturns
  BY <1>2, <1>11 DEF ReadReturns, Goto, Returned, Open, Prog, serverVars
<1> QED
  BY <1>3, <1>4, <1>5, <1>6, <1>7, <1>8, <1>9, <1>10, <1>11 DEF Program

----------------------------------------------------------------------------
\* tcp_rx on an open connection.
LEMMA GotGrows ==
    ASSUME NEW n \in Nat, NEW k \in Nat
    PROVE  LET s == [i \in 1..n |-> i - 1]
               r == s \o [i \in 1..k |-> n + i - 1]
           IN  r = [i \in 1..(n + k) |-> i - 1] /\ Len(r) = n + k
<1> DEFINE s == [i \in 1..n |-> i - 1]
           q == [i \in 1..k |-> n + i - 1]
           r == s \o q
<1>1. s \in Seq(Int) /\ q \in Seq(Int) /\ Len(s) = n /\ Len(q) = k
  OBVIOUS
<1>2. r \in Seq(Int) /\ Len(r) = n + k
  <2> HIDE DEF s, q
  <2> QED BY <1>1
<1>3. \A i \in 1..(n + k) : r[i] = IF i <= n THEN s[i] ELSE q[i - n]
  <2> HIDE DEF s, q
  <2> QED BY <1>1
<1>4. ASSUME NEW i \in 1..(n + k) PROVE r[i] = i - 1
  <2>1. CASE i <= n
    <3>1. r[i] = s[i] /\ i \in 1..n
      BY <1>3, <2>1
    <3> QED BY <3>1
  <2>2. CASE ~(i <= n)
    <3>1. r[i] = q[i - n] /\ i - n \in 1..k
      BY <1>3, <2>2
    <3>2. q[i - n] = n + (i - n) - 1
      BY <3>1
    <3> QED BY <3>1, <3>2
  <2> QED BY <2>1, <2>2
<1>5. r = [i \in 1..(n + k) |-> r[i]]
  <2> HIDE DEF r
  <2> QED BY <1>2
<1>6. r = [i \in 1..(n + k) |-> i - 1]
  <2> HIDE DEF r
  <2> QED BY <1>4, <1>5
<1> QED BY <1>2, <1>6

\* Data is taken only where the stream goes on, and a FIN only behind the last unit.
LEMMA TakenInOrder ==
    ASSUME Types, DownSegs, NEW F \in {0, 1}, Recv(F), NEW m \in s2c, InSequence(m)
    PROVE  /\ F = 0 /\ m.off = Len(got) /\ "SYN" \notin m.flags
           /\ m.len \in Nat /\ Len(got) + m.len <= RespLen
<1>1. /\ m.len \in Nat /\ m.off \in 0..(RespLen + 1) /\ "SYN" \notin m.flags
      /\ m.off + m.len <= RespLen /\ m.len > 0 /\ m.seq = PSeq(m.off)
  BY DEF InSequence, DownSegs, DownSeg
<1>2. PSeq(m.off) = PSeq(Len(got) + F) /\ Len(got) + F \in 0..(RespLen + 1)
  BY <1>1, SeqTypes DEF InSequence, Recv, Types
<1>3. m.off = Len(got) + F
  BY <1>1, <1>2, PSeqInjective
<1>4. F = 0
  BY <1>1, <1>3, SeqTypes DEF Recv
<1>5. m.off = Len(got)
  BY <1>3, <1>4 DEF Types
<1> QED BY <1>1, <1>4, <1>5

LEMMA RxOpen ==
    ASSUME Types, DownSegs, NEW F \in {0, 1}, NEW f \in {0, 1}, Open(F, f), TcpRx
    PROVE  Types' /\ DownSegs' /\ \E F2, f2 \in {0, 1} : Open(F2, f2)'
<1>1. PICK m \in s2c : /\ s2c' \subseteq s2c /\ UNCHANGED <<progVars, serverVars>>
                       /\ RxReset(m) \/ RxSynAck(m) \/ RxSegment(m)
  BY DEF TcpRx, Taken
<1>2. SrvGot' = SrvGot /\ SrvGot \in Int /\ Begun' = Begun
  BY <1>1, SrvGotIs DEF SrvGot, Begun, progVars, serverVars
<1>3. ASSUME Types' PROVE DownSegs'
  BY <1>1, <1>2, <1>3, DownKeep
<1>4. Prog'
  BY <1>1 DEF Open, Prog, progVars, serverVars
<1>5. CASE RxReset(m)
  <2>1. Types'
    BY <1>1, <1>5 DEF RxReset, Types, progVars, serverVars
  <2>2. Recv(F)' /\ Send(f)' /\ UpSegs(F, f)'
    BY <1>1, <1>2, <1>5 DEF RxReset, Open, Recv, Send, UpSegs, ServerHas, ClientHas, serverVars
  <2> QED BY <1>3, <1>4, <2>1, <2>2 DEF Open
<1>6. CASE RxSynAck(m)
  BY <1>6 DEF RxSynAck, Open, Recv
<1>7. CASE RxSegment(m)
  <2> DEFINE rcv == IF InSequence(m) THEN (tcp_rcv_nxt + m.len) % SeqMod ELSE tcp_rcv_nxt
             fin == FinInSequence(m, rcv)
             rcv2 == IF fin THEN (rcv + 1) % SeqMod ELSE rcv
             ourFin == fin /\ tcp_state = "ESTABLISHED"
             nxt == IF ourFin THEN (tcp_snd_nxt + 1) % SeqMod ELSE tcp_snd_nxt
             F2 == IF fin THEN 1 ELSE F
             f2 == IF ourFin THEN 1 ELSE f
             G == Len(got')
  <2>1. /\ tcp_snd_una' = NewUna(m)
        /\ got' = IF InSequence(m) THEN got \o [i \in 1..m.len |-> m.off + i - 1] ELSE got
        /\ tcp_rcv_nxt' = rcv2 /\ tcp_snd_nxt' = nxt
        /\ tcp_state' = IF fin THEN "DONE" ELSE tcp_state
        /\ reset' = reset
    BY <1>7 DEF RxSegment
  <2>2. \E now \in BOOLEAN : c2s' \in Sent(c2s, UpCap,
            (IF ourFin
             THEN {Seg({"FIN", "ACK"}, tcp_snd_nxt, rcv2, ReqOff(tcp_snd_nxt), 0)} ELSE {})
            \union (IF now THEN {Ack(nxt, rcv2)} ELSE {}))
    BY <1>7 DEF RxSegment, AckNow
  <2>a. /\ InSequence(m) => rcv = (tcp_rcv_nxt + m.len) % SeqMod
        /\ ~InSequence(m) => rcv = tcp_rcv_nxt
        /\ fin => "FIN" \in m.flags /\ (m.seq + m.len) % SeqMod = rcv
        /\ fin => rcv2 = (rcv + 1) % SeqMod /\ F2 = 1
        /\ ~fin => rcv2 = rcv /\ F2 = F
    BY DEF FinInSequence
  <2>b. /\ fin /\ tcp_state = "ESTABLISHED" => ourFin
        /\ ourFin => fin /\ tcp_state = "ESTABLISHED"
        /\ ourFin => nxt = (tcp_snd_nxt + 1) % SeqMod /\ f2 = 1
        /\ ~ourFin => nxt = tcp_snd_nxt /\ f2 = f
        /\ G = Len(got')
    OBVIOUS
  <2> HIDE DEF rcv, fin, rcv2, ourFin, nxt, F2, f2, G
  <2>3. tcp_rcv_nxt = PSeq(Len(got) + F) /\ Len(got) \in Nat /\ RespLen \in Nat /\ Len(got) <= RespLen
    <3>1. tcp_rcv_nxt = PSeq(Len(got) + F) /\ Len(got) \in 0..RespLen /\ RespLen \in Nat
      BY SeqTypes DEF Open, Recv, Types
    <3> QED BY <3>1
  <2>4. /\ G \in 0..RespLen /\ got' = [i \in 1..G |-> i - 1] /\ Len(got) <= G
        /\ rcv = PSeq(G + F) /\ (F = 1 => G = RespLen)
    <3>1. CASE InSequence(m)
      <4>1. F = 0 /\ m.off = Len(got) /\ m.len \in Nat /\ Len(got) + m.len <= RespLen
        BY <3>1, TakenInOrder DEF Open
      <4>2. got' = got \o [i \in 1..m.len |-> Len(got) + i - 1] /\ got = [i \in 1..Len(got) |-> i - 1]
        BY <2>1, <3>1, <4>1 DEF Types
      <4>3. got' = [i \in 1..(Len(got) + m.len) |-> i - 1] /\ Len(got') = Len(got) + m.len
        BY <2>3, <4>1, <4>2, GotGrows
      <4>4. rcv = (PSeq(Len(got) + F) + m.len) % SeqMod /\ Len(got) + F \in Int
        BY <2>3, <2>a, <3>1
      <4>5. rcv = PSeq(Len(got) + F + m.len) /\ Len(got) + F + m.len = G + F
        <5>1. rcv = PSeq(Len(got) + F + m.len)
          <6>1. m.len \in Int /\ Len(got) + F \in Int
            BY <4>1, <4>4
          <6>2. (PSeq(Len(got) + F) + m.len) % SeqMod = PSeq((Len(got) + F) + m.len)
            BY <6>1, SeqAdd
          <6> QED BY <4>4, <6>2
        <5>2. Len(got) + F + m.len = G + F
          BY <2>b, <2>3, <4>1, <4>3
        <5> QED BY <5>1, <5>2
      <4>6. G = Len(got) + m.len /\ G \in 0..RespLen /\ Len(got) <= G
        BY <2>b, <2>3, <4>1, <4>3
      <4> QED BY <4>1, <4>3, <4>5, <4>6
    <3>2. CASE ~InSequence(m)
      <4>1. got' = got /\ rcv = tcp_rcv_nxt
        BY <2>1, <2>a, <3>2
      <4>2. G = Len(got) /\ got = [i \in 1..Len(got) |-> i - 1]
        BY <2>b, <4>1 DEF Types
      <4>3. F = 1 => Len(got) = RespLen
        BY DEF Open, Recv
      <4>4. Len(got) \in 0..RespLen /\ Len(got) <= Len(got)
        BY <2>3
      <4> QED BY <2>3, <4>1, <4>2, <4>3, <4>4
    <3> QED BY <3>1, <3>2
  <2>5. fin => F = 0 /\ G = RespLen
    <3> SUFFICES ASSUME fin PROVE F = 0 /\ G = RespLen
      OBVIOUS
    <3>1. "FIN" \in m.flags /\ (m.seq + m.len) % SeqMod = rcv
      BY <2>a
    <3>2. m.seq = PSeq(m.off) /\ m.off \in Int /\ m.len \in Nat /\ m.off + m.len = RespLen
      BY <3>1, SeqTypes DEF DownSegs, DownSeg
    <3>3. PSeq(RespLen) = PSeq(G + F)
      <4>1. (PSeq(m.off) + m.len) % SeqMod = PSeq(m.off + m.len)
        <5>1. m.len \in Int /\ m.off \in Int
          BY <3>2
        <5> QED BY <5>1, SeqAdd
      <4> QED BY <2>4, <3>1, <3>2, <4>1
    <3>4. G + F \in 0..(RespLen + 1) /\ RespLen \in 0..(RespLen + 1)
      BY <2>3, <2>4
    <3>5. G + F = RespLen
      BY <3>3, <3>4, PSeqInjective
    <3>6. G \in Int /\ RespLen \in Int /\ (F = 1 => G = RespLen)
      BY <2>3, <2>4
    <3>7. F = 0
      BY <3>5, <3>6
    <3> QED BY <3>5, <3>6, <3>7
  <2>6. rcv2 = PSeq(G + F2) /\ F2 \in {0, 1} /\ Len(got) + F <= G + F2 /\ G + F2 \in Nat
    <3>1. CASE fin
      <4>1. rcv2 = (PSeq(G + F) + 1) % SeqMod /\ F = 0 /\ F2 = 1 /\ G \in Int
        BY <2>4, <2>5, <2>a, <3>1
      <4>2. rcv2 = PSeq(G + 0 + 1)
        BY <4>1, SeqAdd
      <4>3. G + 0 + 1 = G + F2 /\ Len(got) + F <= G + F2 /\ G + F2 \in Nat
        BY <2>3, <2>4, <4>1
      <4> QED BY <4>1, <4>2, <4>3
    <3>2. CASE ~fin
      <4>1. rcv2 = PSeq(G + F) /\ F2 = F
        BY <2>4, <2>a, <3>2
      <4>2. G \in Nat /\ Len(got) \in Nat /\ F \in {0, 1} /\ Len(got) <= G
        BY <2>3, <2>4
      <4>3. Len(got) + F <= G + F /\ G + F \in Nat
        BY <4>2
      <4> QED BY <4>1, <4>3
    <3> QED BY <3>1, <3>2
  <2>7. /\ nxt = CSeq(Begun + f2) /\ f2 \in {0, 1} /\ (f = 1 => f2 = 1)
        /\ (ourFin => tcp_snd_nxt = CSeq(Begun)) /\ Begun \in Int
    <3>1. Begun \in Int /\ tcp_snd_nxt = CSeq(Begun + f) /\ (f = 1 => tcp_state = "DONE")
      BY SeqTypes DEF Open, Send, Begun, Types
    <3>2. CASE ourFin
      <4>1. f = 0 /\ f2 = 1 /\ tcp_snd_nxt = CSeq(Begun)
        BY <2>b, <3>1, <3>2
      <4>2. nxt = CSeq(Begun + 1)
        BY <2>b, <3>1, <3>2, <4>1, SeqAdd
      <4> QED BY <3>1, <4>1, <4>2
    <3>3. CASE ~ourFin
      BY <2>b, <3>1, <3>3
    <3> QED BY <3>2, <3>3
  <2>8. Types'
    BY <1>1, <2>1, <2>4, <2>b DEF Types, progVars, serverVars, Open, Recv
  <2>c. PICK H \in {0, 1}, h \in {0, 1} : H = F2 /\ h = f2
    BY <2>6, <2>7
  <2>9. Recv(H)'
    <3>1. tcp_state' \in {"ESTABLISHED", "DONE"} /\ tcp_rcv_nxt' = PSeq(G + H)
      BY <2>1, <2>6, <2>c DEF Open, Recv
    <3>2. H = 1 => tcp_state' = "DONE" /\ G = RespLen
      BY <2>1, <2>4, <2>5, <2>a, <2>c DEF Open, Recv
    <3>3. tcp_state' = "DONE" => reset' \/ H = 1
      BY <2>1, <2>a, <2>c DEF Open, Recv
    <3>4. s_una' <= G + H
      <4>1. s_una' = s_una /\ s_una \in Int /\ s_una <= Len(got) + F
        <5>1. s_una \in 0..(RespLen + 1) /\ s_una' = s_una
          BY <1>1 DEF Types, serverVars
        <5>2. s_una <= Len(got) + F
          BY DEF Open, Recv
        <5> QED BY <2>3, <5>1, <5>2
      <4>2. Len(got) + F \in Int /\ G + H \in Int /\ Len(got) + F <= G + H
        BY <2>3, <2>6, <2>c
      <4> HIDE DEF G
      <4> QED BY <4>1, <4>2
    <3> QED BY <2>b, <3>1, <3>2, <3>3, <3>4 DEF Recv
  <2>10. Send(h)'
    <3>1. tcp_snd_nxt' = CSeq(Begun' + h)
      BY <1>2, <2>1, <2>7, <2>c
    <3>2. h = 1 => tcp_state' = "DONE"
      BY <2>1, <2>b, <2>c DEF Open, Send
    <3>3. ServerHas(tcp_snd_una)'
      BY <1>2, <2>1 DEF NewUna, Open, Send, DownSegs, DownSeg, ServerHas
    <3>4. s_rcv' <= Begun' /\ (s_fin' => h = 1 /\ s_rcv' = Begun')
      BY <1>1, <1>2, <2>7, <2>c DEF Open, Send, serverVars
    <3> QED BY <3>1, <3>2, <3>3, <3>4 DEF Send
  <2>11. UpSegs(H, h)'
    <3> SUFFICES ASSUME NEW q \in c2s'
                 PROVE  /\ q.len \in Nat
                        /\ "SYN" \notin q.flags => \E g \in 0..(G + H) : q.ack = PSeq(g)
                        /\ q.len > 0 => \E o \in 0..ReqLen : q.seq = CSeq(o) /\ o + q.len <= Begun
                        /\ "FIN" \in q.flags => h = 1 /\ q.seq = CSeq(Begun)
      <4>1. UpSegs(H, h)' <=>
              \A q \in c2s' :
                 /\ q.len \in Nat
                 /\ "SYN" \notin q.flags => \E g \in 0..(Len(got') + H) : q.ack = PSeq(g)
                 /\ q.len > 0 => \E o \in 0..ReqLen : q.seq = CSeq(o) /\ o + q.len <= Begun'
                 /\ "FIN" \in q.flags => h = 1 /\ q.seq = CSeq(Begun')
        BY DEF UpSegs, ClientHas
      <4> QED BY <1>2, <2>b, <4>1
    <3>1. CASE q \in c2s
      <4>1. /\ q.len \in Nat /\ ("SYN" \notin q.flags => ClientHas(F, q.ack))
            /\ q.len > 0 => \E o \in 0..ReqLen : q.seq = CSeq(o) /\ o + q.len <= Begun
            /\ "FIN" \in q.flags => f = 1 /\ q.seq = CSeq(Begun)
        BY <3>1 DEF Open, UpSegs
      <4>2. \A g \in 0..(Len(got) + F) : g \in 0..(G + H)
        BY <2>3, <2>6, <2>c
      <4>3. "SYN" \notin q.flags => \E g \in 0..(G + H) : q.ack = PSeq(g)
        BY <4>1, <4>2 DEF ClientHas
      <4> QED BY <2>7, <2>c, <4>1, <4>3
    <3>2. CASE ourFin /\ q = Seg({"FIN", "ACK"}, tcp_snd_nxt, rcv2, ReqOff(tcp_snd_nxt), 0)
      <4>1. tcp_snd_nxt % SeqMod = tcp_snd_nxt /\ rcv2 % SeqMod = rcv2
        BY <2>6, <2>c, <2>7, <3>2, SeqRange
      <4>2. q.flags = {"FIN", "ACK"} /\ q.len = 0 /\ q.ack = rcv2 /\ q.seq = tcp_snd_nxt
        BY <3>2, <4>1 DEF Seg
      <4> QED BY <2>6, <2>c, <2>7, <2>b, <3>2, <4>2
    <3>3. CASE q = Ack(nxt, rcv2)
      <4>1. rcv2 % SeqMod = rcv2
        BY <2>6, <2>c, SeqRange
      <4>2. q.flags = {"ACK"} /\ q.len = 0 /\ q.ack = rcv2
        BY <3>3, <4>1 DEF Ack, Seg
      <4> QED BY <2>6, <2>c, <4>2
    <3> HIDE DEF rcv2, nxt, ourFin
    <3> QED BY <2>2, <3>1, <3>2, <3>3, SentIs
  <2> QED BY <1>3, <1>4, <2>6, <2>c, <2>7, <2>8, <2>9, <2>10, <2>11 DEF Open
<1> QED BY <1>1, <1>5, <1>6, <1>7

----------------------------------------------------------------------------
\* The server's steps on an open connection.
LEMMA DownSent ==
    ASSUME Types, Types', DownSegs, SrvGot' = SrvGot, NEW x, DownSeg(x),
           s2c' \in Sent(s2c, DownCap, {x})
    PROVE  DownSegs'
<1>1. \A m : DownSeg(m) => DownSeg(m)'
  BY DEF DownSeg, ServerHas
<1>2. \A m \in s2c' : m \in s2c \/ m = x
  BY SentIs
<1> QED BY <1>1, <1>2 DEF DownSegs

\* Sending on the server's side does not disturb the connection.
LEMMA SendsOpen ==
    ASSUME Types, NEW F \in {0, 1}, NEW f \in {0, 1}, Open(F, f),
           UNCHANGED <<clientVars, progVars, s_una, s_rcv, s_fin>>, c2s' \subseteq c2s
    PROVE  Open(F, f)'
<1>1. Recv(F)' /\ Send(f)' /\ Prog'
  BY DEF Open, Recv, Send, Prog, Begun, ServerHas, SrvGot, clientVars, progVars
<1>2. UpSegs(F, f)'
  BY DEF Open, UpSegs, ClientHas, Begun, clientVars, progVars
<1> QED BY <1>1, <1>2 DEF Open

LEMMA SrvRxOpen ==
    ASSUME Types, DownSegs, NEW F \in {0, 1}, NEW f \in {0, 1}, Open(F, f), SrvRx
    PROVE  Types' /\ DownSegs' /\ Open(F, f)'
<1> DEFINE next == (Isn + 1 + s_rcv) % SeqMod
           acked(m) == (m.ack - PeerIsn - 1) % SeqMod
           new(m) == m.len > 0 /\ m.seq = next
<1>1. PICK m \in c2s :
        /\ "SYN" \notin m.flags /\ c2s' \subseteq c2s
        /\ s_una' = IF acked(m) \in s_una..s_nxt THEN acked(m) ELSE s_una
        /\ s_rcv' = IF new(m) THEN s_rcv + m.len ELSE s_rcv
        /\ s_fin' = (s_fin \/ ("FIN" \in m.flags /\ m.seq = next))
        /\ sst' = "ESTABLISHED"
        /\ UNCHANGED <<clientVars, progVars, s_nxt, s2c>>
  BY DEF SrvRx, Taken
<1>2. /\ next = CSeq(s_rcv) /\ s_rcv \in 0..ReqLen /\ s_rcv \in 0..(ReqLen + 1)
      /\ s_rcv <= Begun /\ Begun \in 0..ReqLen /\ Begun \in 0..(ReqLen + 1)
      /\ (s_fin => f = 1 /\ s_rcv = Begun)
  BY SeqTypes DEF CSeq, Types, Open, Send, Begun
<1>3. /\ m.len \in Nat /\ ClientHas(F, m.ack)
      /\ m.len > 0 => \E o \in 0..ReqLen : m.seq = CSeq(o) /\ o + m.len <= Begun
      /\ "FIN" \in m.flags => f = 1 /\ m.seq = CSeq(Begun)
  BY <1>1 DEF Open, UpSegs
<1> HIDE DEF next
\* The acknowledgement.
<1>4. s_una' \in 0..(RespLen + 1) /\ s_una' <= Len(got) + F
  <2>1. PICK g \in 0..(Len(got) + F) : m.ack = PSeq(g)
    BY <1>3 DEF ClientHas
  <2>2. Len(got) \in 0..RespLen /\ RespLen \in Nat
    BY SeqTypes DEF Types
  <2>3. g \in 0..(RespLen + 1) /\ g <= Len(got) + F
    BY <2>1, <2>2
  <2>4. acked(m) = g
    BY <2>1, <2>3, PSeqOffset
  <2>5. s_una \in 0..(RespLen + 1) /\ s_una <= Len(got) + F
    BY DEF Types, Open, Recv
  <2> QED BY <1>1, <2>3, <2>4, <2>5
\* The data, and our FIN.
<1>5. new(m) => s_rcv + m.len <= Begun /\ ~s_fin /\ ~("FIN" \in m.flags /\ m.seq = next)
  <2> SUFFICES ASSUME new(m)
               PROVE  s_rcv + m.len <= Begun /\ ~s_fin /\ ~("FIN" \in m.flags /\ m.seq = next)
    OBVIOUS
  <2>1. PICK o \in 0..ReqLen : m.seq = CSeq(o) /\ o + m.len <= Begun
    BY <1>3
  <2>2. CSeq(o) = CSeq(s_rcv) /\ o \in 0..(ReqLen + 1)
    BY <1>2, <2>1, SeqTypes
  <2>3. o = s_rcv
    BY <1>2, <2>2, CSeqInjective
  <2>4. s_rcv + m.len <= Begun /\ s_rcv # Begun
    BY <1>2, <1>3, <2>1, <2>3
  <2>5. "FIN" \in m.flags /\ m.seq = next => s_rcv = Begun
    BY <1>2, <1>3, CSeqInjective
  <2> QED BY <1>2, <2>4, <2>5
<1>6. "FIN" \in m.flags /\ m.seq = next => f = 1 /\ s_rcv = Begun
  BY <1>2, <1>3, CSeqInjective
<1> HIDE DEF acked, new
<1>7. /\ s_rcv' \in 0..ReqLen /\ s_rcv <= s_rcv' /\ s_rcv' <= Begun
      /\ s_fin' \in BOOLEAN /\ (s_fin => s_fin')
      /\ s_fin' => f = 1 /\ s_rcv' = Begun
  <2>1. CASE new(m)
    <3>1. s_rcv' = s_rcv + m.len /\ ~s_fin'
      BY <1>1, <1>5, <2>1
    <3>2. s_fin' = FALSE
      BY <1>1, <3>1
    <3>3. s_rcv' \in 0..ReqLen /\ s_rcv <= s_rcv' /\ s_rcv' <= Begun
      BY <1>2, <1>3, <1>5, <2>1, <3>1, SeqTypes
    <3> QED BY <1>5, <2>1, <3>2, <3>3
  <2>2. CASE ~new(m)
    <3>1. s_rcv' = s_rcv
      BY <1>1, <2>2
    <3>2. s_fin' \in BOOLEAN /\ (s_fin => s_fin') /\ (s_fin' => f = 1 /\ s_rcv = Begun)
      BY <1>1, <1>2, <1>6
    <3>3. s_rcv \in Int /\ s_rcv <= s_rcv
      BY <1>2
    <3> QED BY <1>2, <3>1, <3>2, <3>3
  <2> QED BY <2>1, <2>2
<1>8. Types'
  BY <1>1, <1>4, <1>7 DEF Types, clientVars, progVars
<1>9. SrvGot <= SrvGot'
  <2>1. /\ SrvGot \in Int /\ s_rcv \in Int /\ (s_fin => SrvGot = s_rcv + 1)
        /\ (~s_fin => SrvGot = s_rcv) /\ SrvGot' \in Int /\ s_rcv' \in Int
        /\ s_rcv' <= SrvGot' /\ (s_fin' => SrvGot' = s_rcv' + 1)
    BY <1>8, SrvGotIs, SrvGotNext
  <2>2. CASE s_fin
    <3>1. SrvGot = s_rcv + 1 /\ SrvGot' = s_rcv' + 1
      BY <1>7, <2>1, <2>2
    <3>2. \A x, y \in Int : x <= y => x + 1 <= y + 1
      OBVIOUS
    <3>3. s_rcv \in Int /\ s_rcv' \in Int /\ s_rcv <= s_rcv'
      BY <1>7, <2>1
    <3> QED BY <3>1, <3>2, <3>3
  <2>3. CASE ~s_fin
    BY <1>7, <2>1, <2>3
  <2> QED BY <2>2, <2>3
<1>10. DownSegs'
  BY <1>1, <1>8, <1>9, DownKeep
<1>11. Recv(F)' /\ UpSegs(F, f)'
  BY <1>1, <1>4 DEF Open, Recv, UpSegs, ClientHas, Begun, clientVars, progVars
<1>12. Send(f)'
  <2>1. ServerHas(tcp_snd_una)'
    <3>1. ServerHas(tcp_snd_una)
      BY DEF Open, Send
    <3>2. \E a \in 0..SrvGot' : tcp_snd_una = CSeq(a)
      BY <1>8, <1>9, <3>1, HadStays DEF ServerHas
    <3> QED BY <1>1, <3>2 DEF ServerHas, clientVars
  <2>2. Begun' = Begun
    BY <1>1 DEF Begun, progVars
  <2> QED BY <1>1, <1>7, <2>1, <2>2 DEF Open, Send, clientVars
<1>13. Prog'
  <2>1. pc' = pc /\ wseq' = wseq /\ left' = left /\ wn' = wn
    BY <1>1 DEF progVars
  <2>2. /\ ReqLen - left <= s_rcv => ReqLen - left <= s_rcv'
        /\ s_rcv = ReqLen => s_rcv' = ReqLen
    BY <1>2, <1>7, SeqTypes DEF Types
  <2> QED BY <2>1, <2>2 DEF Open, Prog
<1> QED BY <1>8, <1>10, <1>11, <1>12, <1>13 DEF Open

LEMMA ServerOpen ==
    ASSUME Types, DownSegs, NEW F \in {0, 1}, NEW f \in {0, 1}, Open(F, f), Server
    PROVE  Types' /\ DownSegs' /\ Open(F, f)'
<1> DEFINE synAck == Seg({"SYN", "ACK"}, PeerIsn, Isn + 1, 0, 0)
<1>1. DownSeg(synAck)
  <2>1. /\ synAck.len = 0 /\ synAck.off = 0 /\ synAck.flags = {"SYN", "ACK"}
        /\ synAck.seq = PeerIsn /\ ServerHas(synAck.ack)
    BY SynAckIs
  <2> HIDE DEF synAck
  <2> QED BY <2>1, SeqTypes DEF DownSeg
<1>2. ASSUME NEW off \in 0..(RespLen + 1), NEW len \in Nat, NEW flags \in {{}, {"FIN"}, {"RST"}},
             len > 0 => off + len <= RespLen, flags = {"FIN"} => off + len = RespLen
      PROVE  DownSeg(SrvSeg(off, len, flags))
  <2> DEFINE m == SrvSeg(off, len, flags)
  <2>1. /\ m.len = len /\ m.off = off /\ m.flags = flags \union {"ACK"}
        /\ m.seq = PSeq(m.off) /\ ServerHas(m.ack)
    BY SrvSegIs
  <2> HIDE DEF m
  <2>2. "SYN" \notin m.flags /\ ("FIN" \in m.flags => flags = {"FIN"})
    BY <2>1
  <2> QED BY <1>2, <2>1, <2>2 DEF DownSeg, m
<1>3. s_una \in 0..(RespLen + 1) /\ s_nxt \in 0..(RespLen + 1) /\ RespLen \in Nat
  BY SeqTypes DEF Types
<1>4. ASSUME UNCHANGED <<clientVars, progVars, s_una, s_rcv, s_fin>>, c2s' \subseteq c2s,
             s_nxt' \in 0..(RespLen + 1), sst' \in {"SYN_RCVD", "ESTABLISHED", "ABORTED"},
             NEW x, DownSeg(x), s2c' \in Sent(s2c, DownCap, {x})
      PROVE  Types' /\ DownSegs' /\ Open(F, f)'
  <2>1. Types'
    BY <1>4 DEF Types, clientVars, progVars
  <2>2. SrvGot' = SrvGot
    BY <1>4 DEF SrvGot
  <2> QED BY <1>4, <2>1, <2>2, DownSent, SendsOpen
<1>5. CASE SrvSyn
  BY <1>1, <1>3, <1>4, <1>5 DEF SrvSyn, Taken
<1>6. CASE SrvSynAckAgain
  BY <1>1, <1>3, <1>4, <1>6 DEF SrvSynAckAgain, serverVars
<1>7. CASE SrvRx
  BY <1>7, SrvRxOpen
<1>8. CASE SrvAck
  <2>1. DownSeg(SrvSeg(s_nxt, 0, {}))
    BY <1>2, <1>3
  <2> QED BY <1>3, <1>4, <1>8, <2>1 DEF SrvAck, serverVars
<1>9. CASE SrvSend
  <2>1. PICK off \in {s_una, s_nxt}, len \in 0..MSS, flags \in {{}, {"FIN"}} :
          /\ sst = "ESTABLISHED" /\ off + len <= RespLen
          /\ flags = {"FIN"} => off + len = RespLen
          /\ LET end == off + len + (IF flags = {} THEN 0 ELSE 1) IN
              s_nxt' = IF end > s_nxt THEN end ELSE s_nxt
          /\ s2c' \in Sent(s2c, DownCap, {SrvSeg(off, len, flags)})
          /\ UNCHANGED <<clientVars, progVars, sst, s_una, s_rcv, s_fin, c2s>>
    BY <1>9 DEF SrvSend
  <2>2. off \in 0..(RespLen + 1) /\ len \in Nat
    BY <1>3, <2>1, SeqTypes
  <2>3. DownSeg(SrvSeg(off, len, flags))
    BY <1>2, <2>1, <2>2
  <2>4. s_nxt' \in 0..(RespLen + 1)
    <3>1. s_nxt' = s_nxt \/ s_nxt' = off + len \/ s_nxt' = off + len + 1
      BY <2>1, <2>2, <1>3
    <3> QED BY <1>3, <2>1, <2>2, <3>1
  <2> QED BY <1>4, <2>1, <2>3, <2>4
<1>10. CASE SrvReset
  <2>1. DownSeg(SrvSeg(s_nxt, 0, {"RST"}))
    BY <1>2, <1>3
  <2> QED BY <1>3, <1>4, <1>10, <2>1 DEF SrvReset
<1> QED BY <1>5, <1>6, <1>7, <1>8, <1>9, <1>10 DEF Server

----------------------------------------------------------------------------
\* Before the connection is established.
LEMMA ClosedServer ==
    ASSUME Types, DownSegs, Closed, Server
    PROVE  Types' /\ DownSegs' /\ Closed'
<1> DEFINE synAck == Seg({"SYN", "ACK"}, PeerIsn, Isn + 1, 0, 0)
           rst == SrvSeg(s_nxt, 0, {"RST"})
<1>1. DownSeg(synAck) /\ synAck.len = 0 /\ "FIN" \notin synAck.flags
  <2>1. /\ synAck.len = 0 /\ synAck.off = 0 /\ synAck.flags = {"SYN", "ACK"}
        /\ synAck.seq = PeerIsn /\ ServerHas(synAck.ack)
    BY SynAckIs
  <2> HIDE DEF synAck
  <2> QED BY <2>1, SeqTypes DEF DownSeg
<1>2. DownSeg(rst) /\ rst.len = 0 /\ "FIN" \notin rst.flags
  <2>1. s_nxt \in 0..(RespLen + 1) /\ 0 \in Nat
    BY DEF Types
  <2>2. /\ rst.len = 0 /\ rst.off = s_nxt /\ rst.flags = {"RST", "ACK"}
        /\ rst.seq = PSeq(rst.off) /\ ServerHas(rst.ack)
    <3>1. /\ rst.len = 0 /\ rst.off = s_nxt /\ rst.flags = {"RST"} \union {"ACK"}
          /\ rst.seq = PSeq(rst.off) /\ ServerHas(rst.ack)
      BY <2>1, SrvSegIs
    <3> HIDE DEF rst
    <3> QED BY <3>1
  <2> HIDE DEF rst
  <2> QED BY <2>1, <2>2 DEF DownSeg
<1>3. ASSUME UNCHANGED <<clientVars, progVars, s_una, s_rcv, s_fin>>, c2s' \subseteq c2s,
             s_nxt' = 0, sst' \in {"SYN_RCVD", "ABORTED"},
             NEW x, DownSeg(x), x.len = 0, "FIN" \notin x.flags, s2c' \in Sent(s2c, DownCap, {x})
      PROVE  Types' /\ DownSegs' /\ Closed'
  <2>1. Types'
    BY <1>3, SeqTypes DEF Types, clientVars, progVars
  <2>2. SrvGot' = SrvGot
    BY <1>3 DEF SrvGot
  <2>3. \A m \in s2c' : m.len = 0 /\ "FIN" \notin m.flags
    BY <1>3, SentIs DEF Closed
  <2>4. Closed'
    BY <1>3, <2>3 DEF Closed, clientVars, progVars
  <2> QED BY <1>3, <2>1, <2>2, <2>4, DownSent
<1>4. CASE SrvSyn
  BY <1>1, <1>3, <1>4 DEF SrvSyn, Taken, Closed
<1>5. CASE SrvSynAckAgain
  BY <1>1, <1>3, <1>5 DEF SrvSynAckAgain, serverVars, Closed
<1>6. CASE SrvRx
  BY <1>6 DEF SrvRx, Closed
<1>7. CASE SrvAck \/ SrvSend
  BY <1>7 DEF SrvAck, SrvSend, Closed
<1>8. CASE SrvReset
  BY <1>2, <1>3, <1>8 DEF SrvReset, Closed
<1> QED BY <1>4, <1>5, <1>6, <1>7, <1>8 DEF Server

LEMMA ClosedProgram ==
    ASSUME Types, DownSegs, Closed, Program
    PROVE  Types' /\ DownSegs' /\ Closed'
<1>1. ASSUME Types', UNCHANGED serverVars, s2c' \subseteq s2c PROVE DownSegs'
  <2>1. SrvGot' = SrvGot /\ SrvGot \in Int
    BY <1>1, SrvGotIs DEF serverVars, SrvGot
  <2> QED BY <1>1, <2>1, DownKeep
<1>2. ASSUME c2s' \in Sent(c2s, UpCap, {Syn})
      PROVE  \A m \in c2s' : m.flags = {"SYN"} /\ m.len = 0
  BY <1>2, SentIs, SynIs DEF Closed
<1>3. CASE TcpConnect
  <2>1. tcp_snd_nxt' = CSeq(0)
    BY <1>3, SeqTypes DEF TcpConnect, CSeq
  <2>2. Types'
    BY <1>3 DEF TcpConnect, Types, serverVars
  <2>3. Closed'
    BY <1>2, <1>3, <2>1 DEF TcpConnect, Closed, serverVars
  <2> QED BY <1>1, <1>3, <2>2, <2>3 DEF TcpConnect
<1>4. CASE SynAgain
  <2>1. Types'
    BY <1>4 DEF SynAgain, Types, clientVars, serverVars
  <2>2. Closed'
    BY <1>2, <1>4 DEF SynAgain, Closed, clientVars, serverVars
  <2> QED BY <1>1, <1>4, <2>1, <2>2 DEF SynAgain
<1>5. CASE ConnectReturns
  <2>1. UNCHANGED <<clientVars, left, wn, serverVars, c2s>> /\ s2c' = {} /\ pc' = "noconn" /\ pc = "syn"
    BY <1>5 DEF ConnectReturns, Goto, Returned, Closed
  <2>2. Types'
    BY <2>1 DEF Types, clientVars, serverVars
  <2>3. Closed'
    BY <2>1 DEF Closed, clientVars, serverVars
  <2> QED BY <1>1, <2>1, <2>2, <2>3
<1>6. pc \in {"start", "syn", "noconn"}
  BY DEF Closed
<1> QED
  BY <1>3, <1>4, <1>5, <1>6
  DEF Program, WritePiece, WriteSend, WriteTimeout, WriteDone, WriteReturns, ReadFlush, ReadReturns

LEMMA ClosedRx ==
    ASSUME Types, DownSegs, Closed, TcpRx
    PROVE  Types' /\ DownSegs' /\ (Closed' \/ Open(0, 0)')
<1>1. PICK m \in s2c : /\ Polling /\ s2c' \subseteq s2c /\ UNCHANGED <<progVars, serverVars>>
                       /\ RxReset(m) \/ RxSynAck(m) \/ RxSegment(m)
  BY DEF TcpRx, Taken
<1>2. m.len = 0 /\ "FIN" \notin m.flags /\ pc = "syn" /\ DownSeg(m)
  BY <1>1 DEF Closed, Polling, DownSegs
<1>3. SrvGot' = SrvGot /\ SrvGot \in Int
  BY <1>1, SrvGotIs DEF SrvGot, serverVars
<1>4. ASSUME Types' PROVE DownSegs'
  BY <1>1, <1>3, <1>4, DownKeep
<1>5. CASE RxReset(m)
  <2>1. Types'
    BY <1>1, <1>5 DEF RxReset, Types, progVars, serverVars
  <2>2. Closed'
    BY <1>1, <1>2, <1>5 DEF RxReset, Closed, progVars, serverVars
  <2> QED BY <1>4, <2>1, <2>2
<1>6. CASE RxSynAck(m)
  <2>1. /\ tcp_state = "SYN_SENT" /\ UNCHANGED <<tcp_snd_nxt, tcp_ack_due, got, reset>>
        /\ \/ /\ "SYN" \in m.flags /\ m.ack = tcp_snd_nxt
              /\ tcp_rcv_nxt' = (m.seq + 1) % SeqMod /\ tcp_snd_una' = m.ack
              /\ tcp_state' = "ESTABLISHED"
              /\ c2s' \in Sent(c2s, UpCap, {Ack(tcp_snd_nxt, m.seq + 1)})
           \/ UNCHANGED <<tcp_rcv_nxt, tcp_snd_una, tcp_state, c2s>>
    BY <1>6 DEF RxSynAck
  <2>2. Types'
    BY <1>1, <2>1 DEF Types, progVars, serverVars
  <2>3. CASE UNCHANGED <<tcp_rcv_nxt, tcp_snd_una, tcp_state, c2s>>
    <3>1. Closed'
      BY <1>1, <2>1, <2>3 DEF Closed, progVars, serverVars
    <3> QED BY <1>4, <2>2, <3>1
  <2>4. CASE /\ "SYN" \in m.flags /\ m.ack = tcp_snd_nxt
             /\ tcp_rcv_nxt' = (m.seq + 1) % SeqMod /\ tcp_snd_una' = m.ack
             /\ tcp_state' = "ESTABLISHED"
             /\ c2s' \in Sent(c2s, UpCap, {Ack(tcp_snd_nxt, m.seq + 1)})
    <3>1. m.seq = PeerIsn /\ tcp_snd_nxt = CSeq(0) /\ (PeerIsn + 1) % SeqMod = PSeq(0)
      BY <1>2, <2>1, <2>4, SeqTypes DEF DownSeg, Closed, PSeq
    <3>2. /\ left' = left /\ wn' = wn /\ left = ReqLen /\ wn = 0 /\ pc' = "syn"
          /\ s_una' = 0 /\ s_rcv' = 0 /\ ~s_fin' /\ got' = <<>> /\ Len(got') = 0
      BY <1>1, <1>2, <2>1 DEF Closed, progVars, serverVars
    <3>3. Begun' = 0 /\ 0 + 0 = 0
      BY <3>2, SeqTypes DEF Begun
    <3>4. Recv(0)'
      <4>1. tcp_rcv_nxt' = PSeq(0) /\ tcp_state' = "ESTABLISHED" /\ Len(got') + 0 = 0
        BY <2>4, <3>1, <3>2
      <4> QED BY <3>2, <4>1 DEF Recv
    <3>5. Send(0)'
      <4>1. tcp_snd_nxt' = CSeq(0) /\ tcp_snd_una' = CSeq(0)
        BY <2>1, <2>4, <3>1
      <4>2. ServerHas(tcp_snd_una)'
        BY <1>3, <4>1, SrvGotIs DEF ServerHas
      <4>3. Begun' + 0 = 0 /\ s_rcv' <= Begun'
        BY <3>2, <3>3
      <4> QED BY <3>2, <4>1, <4>2, <4>3 DEF Send
    <3>6. Prog'
      BY <3>2 DEF Prog
    <3>7. UpSegs(0, 0)'
      <4> SUFFICES ASSUME NEW q \in c2s'
                   PROVE  q.len = 0 /\ "FIN" \notin q.flags
                          /\ ("SYN" \notin q.flags => q.ack = PSeq(0))
        BY <3>2 DEF UpSegs, ClientHas
      <4>1. CASE q \in c2s
        BY <4>1 DEF Closed
      <4>2. CASE q = Ack(tcp_snd_nxt, m.seq + 1)
        BY <3>1, <4>2 DEF Ack, Seg
      <4> QED BY <2>4, <4>1, <4>2, SentIs
    <3> QED BY <1>4, <2>2, <3>4, <3>5, <3>6, <3>7 DEF Open
  <2> QED BY <2>1, <2>3, <2>4
<1>7. CASE RxSegment(m)
  <2>1. ~InSequence(m) /\ (\A r : ~FinInSequence(m, r)) /\ ~AckNow(m, tcp_ack_due + 0)
    BY <1>2, SeqTypes DEF InSequence, FinInSequence, AckNow, Closed
  <2>2. /\ UNCHANGED <<tcp_snd_nxt, tcp_rcv_nxt, tcp_state, got, reset>>
        /\ tcp_ack_due' = tcp_ack_due + 0
        /\ c2s' \in Sent(c2s, UpCap, {} \union {})
    BY <1>2, <1>7, <2>1 DEF RxSegment
  <2>3. c2s' \subseteq c2s /\ tcp_ack_due' = 0
    BY <2>2 DEF Sent, Closed
  <2>4. Types'
    BY <1>1, <2>2 DEF Types, progVars, serverVars
  <2>5. Closed'
    BY <1>1, <2>2, <2>3 DEF Closed, progVars, serverVars
  <2> QED BY <1>4, <2>4, <2>5
<1> QED BY <1>1, <1>5, <1>6, <1>7

----------------------------------------------------------------------------
LEMMA IInvInit == Init => IInv
<1> SUFFICES ASSUME Init PROVE IInv
  OBVIOUS
<1>1. Types
  <2>1. got = <<>> /\ Len(got) = 0 /\ got = [i \in 1..0 |-> i - 1]
    BY DEF Init
  <2>2. Len(got) \in 0..RespLen /\ got = [i \in 1..Len(got) |-> i - 1]
    BY <2>1, SeqTypes
  <2>3. left \in 0..ReqLen /\ wn \in 0..left
    BY SeqTypes DEF Init
  <2>4. /\ s_una \in 0..(RespLen + 1) /\ s_nxt \in 0..(RespLen + 1)
        /\ s_rcv \in 0..ReqLen
    BY SeqTypes DEF Init
  <2>5. s_fin \in BOOLEAN /\ reset \in BOOLEAN
    BY DEF Init
  <2> QED BY <2>2, <2>3, <2>4, <2>5 DEF Init, Types
<1>2. DownSegs /\ Closed
  BY DEF Init, DownSegs, Closed
<1> QED BY <1>1, <1>2 DEF IInv, ConnInv

LEMMA IInvStay == IInv /\ UNCHANGED vars => IInv'
<1> SUFFICES ASSUME IInv, UNCHANGED vars PROVE IInv'
  OBVIOUS
<1>1. Types'
  BY DEF IInv, Types, vars, clientVars, progVars, serverVars
<1>2. DownSegs'
  BY DEF IInv, DownSegs, DownSeg, ServerHas, SrvGot, vars, serverVars
<1>3. Closed => Closed'
  BY DEF Closed, vars, clientVars, progVars, serverVars
<1>4. ASSUME NEW F \in {0, 1}, NEW f \in {0, 1}, Open(F, f) PROVE Open(F, f)'
  BY <1>4, SendsOpen DEF IInv, vars, serverVars
<1> QED BY <1>1, <1>2, <1>3, <1>4 DEF IInv, ConnInv

LEMMA IInvNext == IInv /\ [Next]_vars => IInv'
<1> SUFFICES ASSUME IInv, Next PROVE IInv'
  BY IInvStay
<1>1. Types /\ DownSegs /\ (Closed \/ \E F, f \in {0, 1} : Open(F, f))
  BY DEF IInv, ConnInv
<1>2. CASE Closed
  <2>1. Types' /\ DownSegs' /\ (Closed' \/ Open(0, 0)')
    BY <1>1, <1>2, ClosedServer, ClosedProgram, ClosedRx DEF Next
  <2> QED BY <2>1 DEF IInv, ConnInv
<1>3. ASSUME NEW F \in {0, 1}, NEW f \in {0, 1}, Open(F, f) PROVE IInv'
  <2>1. Types' /\ DownSegs' /\ \E F2, f2 \in {0, 1} : Open(F2, f2)'
    BY <1>1, <1>3, ProgramOpen, RxOpen, ServerOpen DEF Next
  <2> QED BY <2>1 DEF IInv, ConnInv
<1> QED BY <1>1, <1>2, <1>3

LEMMA IInvAlways == Spec => []IInv
BY IInvInit, IInvNext, PTL DEF Spec

----------------------------------------------------------------------------
\* What tcp_data_fn gets is the answer, unit by unit.
THEOREM AnswerInOrder == Spec => []StreamInOrder
<1>1. IInv => StreamInOrder
  BY DEF IInv, Types, StreamInOrder
<1> QED BY <1>1, IInvAlways, PTL

\* The server drops no unit of the answer that the program has not been given: an
\* acknowledgement of tcp_rx is never ahead of what tcp_data_fn got.
THEOREM AcksKeepTheirWord == Spec => []AckedIsDelivered
<1>1. ASSUME IInv PROVE AckedIsDelivered
  <2>1. RespLen \in Nat /\ Len(got) \in 0..RespLen /\ s_una \in 0..(RespLen + 1)
    BY <1>1, SeqTypes DEF IInv, Types
  <2>2. CASE Closed
    BY <2>1, <2>2 DEF Closed, AckedIsDelivered
  <2>3. ASSUME NEW F \in {0, 1}, NEW f \in {0, 1}, Open(F, f) PROVE AckedIsDelivered
    <3>1. s_una <= Len(got) + F /\ (F = 1 => Len(got) = RespLen)
      BY <2>3 DEF Open, Recv
    <3> QED BY <2>1, <3>1 DEF AckedIsDelivered
  <2> QED BY <1>1, <2>2, <2>3 DEF IInv, ConnInv
<1> QED BY <1>1, IInvAlways, PTL

\* TCP_DONE without a reset: the answer is complete.
THEOREM CloseMeansComplete == Spec => []ClosedIsComplete
<1>1. IInv => ClosedIsComplete
  BY DEF IInv, ConnInv, Closed, Open, Recv, ClosedIsComplete
<1> QED BY <1>1, IInvAlways, PTL

\* The server never takes our FIN for the end of the request before a piece that
\* tcp_write has begun to send.
THEOREM FinBehindData == Spec => []FinAfterData
<1>1. IInv => FinAfterData
  BY DEF IInv, ConnInv, Closed, Open, Send, Begun, FinAfterData
<1> QED BY <1>1, IInvAlways, PTL

\* tcp_write returns 0 only if the server has all of the request.
THEOREM WriteMeansReceived == Spec => []WrittenIsReceived
<1>1. IInv => WrittenIsReceived
  BY DEF IInv, ConnInv, Closed, Open, Prog, WrittenIsReceived
<1> QED BY <1>1, IInvAlways, PTL
=============================================================================
