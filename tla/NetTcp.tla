------------------------------- MODULE NetTcp ------------------------------
(***************************************************************************)
(* The TCP client of netstack.h as rtlhttp.c uses it: tcp_connect, then    *)
(* tcp_write of a request, then tcp_read_all, against a server over a      *)
(* network that loses, repeats and reorders segments.                      *)
(*                                                                         *)
(* Data is counted in units, MSS units to a full segment.  A segment       *)
(* carries its 32-bit sequence number (here modulo SeqMod) and, for the    *)
(* properties only, the true offset of its data in the stream.             *)
(* Segments are received only inside wlan_poll; the time of a wait is not  *)
(* counted, it may end while answers are still under way.  ip_send may     *)
(* fail for want of a MAC address: the segment is lost.                    *)
(***************************************************************************)
EXTENDS Integers, Sequences, FiniteSets

CONSTANTS
    SeqMod,         \* sequence numbers wrap here (2^32)
    Isn, PeerIsn,   \* initial sequence numbers
    MSS,            \* units in a full segment
    ReqLen,         \* units of the request
    RespLen,        \* units of the answer
    SynTries, WriteTries,   \* 5 and 6 in the code
    UpCap, DownCap, \* bounds: segments under way to the server, to the client
    MayReset        \* the server may reset the connection

ASSUME NetTcpAssumption ==
    /\ SeqMod \in Nat \ {0} /\ Isn \in 0..(SeqMod - 1) /\ PeerIsn \in 0..(SeqMod - 1)
    /\ MSS \in Nat \ {0} /\ ReqLen \in Nat \ {0} /\ RespLen \in Nat \ {0}
    /\ SynTries \in Nat \ {0} /\ WriteTries \in Nat \ {0}
    /\ UpCap \in Nat \ {0} /\ DownCap \in Nat \ {0}
    /\ SeqMod > 2 * (ReqLen + 2) /\ SeqMod > 2 * (RespLen + 2)
    /\ MayReset \in BOOLEAN

VARIABLES
    \* the client: netstack.h
    tcp_state, tcp_snd_una, tcp_snd_nxt, tcp_rcv_nxt, tcp_ack_due,
    got,            \* offsets handed to tcp_data_fn, in order
    \* its program: place, tries, units left, sequence and length of a piece
    pc, t, left, wseq, wn,
    reset,          \* a reset ended the connection
    \* the server
    sst, s_una, s_nxt, s_rcv, s_fin,
    \* segments under way
    c2s, s2c

clientVars == <<tcp_state, tcp_snd_una, tcp_snd_nxt, tcp_rcv_nxt, tcp_ack_due, got, reset>>
progVars == <<pc, t, left, wseq, wn>>
serverVars == <<sst, s_una, s_nxt, s_rcv, s_fin>>
vars == <<clientVars, progVars, serverVars, c2s, s2c>>

Seqs == 0..(SeqMod - 1)
Seg(flags, seq, ack, off, len) ==
    [flags |-> flags, seq |-> seq % SeqMod, ack |-> ack % SeqMod, off |-> off, len |-> len]

TypeOK ==
    /\ tcp_state \in {"CLOSED", "SYN_SENT", "ESTABLISHED", "DONE"}
    /\ tcp_snd_una \in Seqs /\ tcp_snd_nxt \in Seqs /\ tcp_rcv_nxt \in Seqs /\ wseq \in Seqs
    /\ tcp_ack_due \in 0..1
    /\ got \in Seq(0..(RespLen - 1))
    /\ pc \in {"start", "syn", "write", "wsend", "wwait", "read", "end",
               "noconn", "nowrite"}
    /\ t \in 0..(SynTries + WriteTries) /\ left \in 0..ReqLen /\ wn \in 0..MSS
    /\ reset \in BOOLEAN
    /\ sst \in {"LISTEN", "SYN_RCVD", "ESTABLISHED", "ABORTED"}
    /\ s_una \in 0..(RespLen + 1) /\ s_nxt \in 0..(RespLen + 1)
    /\ s_rcv \in 0..ReqLen /\ s_fin \in BOOLEAN
    /\ Cardinality(c2s) <= UpCap /\ Cardinality(s2c) <= DownCap

Init ==
    /\ tcp_state = "CLOSED" /\ tcp_snd_una = 0 /\ tcp_snd_nxt = 0 /\ tcp_rcv_nxt = 0
    /\ tcp_ack_due = 0 /\ got = <<>> /\ reset = FALSE
    /\ pc = "start" /\ t = 0 /\ left = ReqLen /\ wseq = 0 /\ wn = 0
    /\ sst = "LISTEN" /\ s_una = 0 /\ s_nxt = 0 /\ s_rcv = 0 /\ s_fin = FALSE
    /\ c2s = {} /\ s2c = {}

----------------------------------------------------------------------------
(* The network: any of the segments sent may be lost, one that is received *)
(* may stay and come again.                                                *)
Sent(net, cap, segs) ==
    {n \in {net \union q : q \in SUBSET segs} : Cardinality(n) <= cap}
Taken(net, m) == {net, net \ {m}}

(* (int) (a - b) > 0                                                       *)
After(a, b) == (a - b) % SeqMod \in 1..(SeqMod \div 2 - 1)

(* Offset of a sequence number of ours in the request, for the server.     *)
ReqOff(seq) == (seq - Isn - 1) % SeqMod

(* The program goes on at p.  When it has returned nobody receives what is *)
(* under way to it, and the server sends no more.                          *)
Returned == {"end", "noconn", "nowrite"}
Running == pc \notin Returned
Goto(p) == pc' = p /\ s2c' = IF p \in Returned THEN {} ELSE s2c

----------------------------------------------------------------------------
(* tcp_connect                                                             *)
Syn == Seg({"SYN"}, Isn, 0, 0, 0)

TcpConnect ==
    /\ pc = "start"
    /\ tcp_snd_una' = Isn /\ tcp_snd_nxt' = (Isn + 1) % SeqMod
    /\ tcp_rcv_nxt' = 0 /\ tcp_ack_due' = 0
    /\ tcp_state' = "SYN_SENT"
    /\ pc' = "syn" /\ t' = 1
    /\ c2s' \in Sent(c2s, UpCap, {Syn})
    /\ UNCHANGED <<got, reset, left, wseq, wn, serverVars, s2c>>

(* A second has passed without an answer.                                  *)
SynAgain ==
    /\ pc = "syn" /\ tcp_state = "SYN_SENT" /\ t < SynTries
    /\ t' = t + 1
    /\ c2s' \in Sent(c2s, UpCap, {Syn})
    /\ UNCHANGED <<clientVars, pc, left, wseq, wn, serverVars, s2c>>

ConnectReturns ==
    /\ pc = "syn"
    /\ tcp_state # "SYN_SENT" \/ t = SynTries
    /\ Goto(IF tcp_state = "ESTABLISHED" THEN "write" ELSE "noconn")
    /\ t' = 0
    /\ UNCHANGED <<clientVars, left, wseq, wn, serverVars, c2s>>

----------------------------------------------------------------------------
(* tcp_write: a piece at a time.  snd_nxt moves before the piece is sent.  *)

\* Mutant: snd_nxt only moves when the piece is acknowledged.
NxtAtPieceLate(n) == tcp_snd_nxt

NxtAtPiece(n) == (tcp_snd_nxt + n) % SeqMod

\* Mutant: a try is not counted.
SameTry == t

NextTry == t + 1

WritePiece ==
    /\ pc = "write" /\ left > 0 /\ tcp_state = "ESTABLISHED"
    /\ wn' = IF left > MSS THEN MSS ELSE left
    /\ wseq' = tcp_snd_nxt
    /\ tcp_snd_nxt' = NxtAtPiece(wn')
    /\ pc' = "wsend" /\ t' = 0
    /\ UNCHANGED <<tcp_state, tcp_snd_una, tcp_rcv_nxt, tcp_ack_due, got, reset,
                   left, serverVars, c2s, s2c>>

Acked == tcp_snd_una = (wseq + wn) % SeqMod

WriteSend ==
    /\ pc = "wsend" /\ ~Acked /\ t < WriteTries
    /\ t' = NextTry
    /\ pc' = "wwait"
    /\ c2s' \in IF tcp_state = "ESTABLISHED"
                THEN Sent(c2s, UpCap, {Seg({"ACK"}, wseq, tcp_rcv_nxt, ReqOff(wseq), wn)})
                ELSE {c2s}
    /\ UNCHANGED <<clientVars, left, wseq, wn, serverVars, s2c>>

WriteTimeout ==
    /\ pc = "wwait" /\ ~Acked
    /\ pc' = "wsend"
    /\ UNCHANGED <<clientVars, t, left, wseq, wn, serverVars, c2s, s2c>>

\* Mutant: the last try counts as an acknowledgement.
PieceFailedNever == FALSE

(* An acknowledgement beyond the piece (our FIN) counts as one.            *)
PieceFailed == ~Acked /\ After(wseq + wn, tcp_snd_una)

WriteDone ==
    /\ pc \in {"wsend", "wwait"}
    /\ Acked \/ (pc = "wsend" /\ t = WriteTries)
    /\ IF PieceFailed
       THEN Goto("nowrite") /\ UNCHANGED <<left, wn>>
       ELSE Goto("write") /\ left' = left - wn /\ wn' = 0
    /\ t' = 0
    /\ UNCHANGED <<clientVars, wseq, serverVars, c2s>>

WriteReturns ==
    /\ pc = "write"
    /\ left = 0 \/ tcp_state # "ESTABLISHED"
    /\ Goto(IF left > 0 THEN "nowrite"
            ELSE IF tcp_state = "ESTABLISHED" THEN "read" ELSE "end")
    /\ UNCHANGED <<clientVars, t, left, wseq, wn, serverVars, c2s>>

----------------------------------------------------------------------------
(* tcp_read_all: tcp_ack_flush after every poll, until the server closes   *)
(* or nothing has come for a while.                                        *)

\* Mutant: the acknowledgement is one unit ahead.
AckAhead(nxt, rcv) == Seg({"ACK"}, nxt, rcv + 1, 0, 0)

Ack(nxt, rcv) == Seg({"ACK"}, nxt, rcv, 0, 0)

ReadFlush ==
    /\ pc = "read" /\ tcp_ack_due > 0
    /\ c2s' \in Sent(c2s, UpCap, {Ack(tcp_snd_nxt, tcp_rcv_nxt)})
    /\ tcp_ack_due' = 0
    /\ UNCHANGED <<tcp_state, tcp_snd_una, tcp_snd_nxt, tcp_rcv_nxt, got, reset,
                   progVars, serverVars, s2c>>

ReadReturns ==
    /\ pc = "read" /\ tcp_ack_due = 0
    /\ Goto("end")
    /\ UNCHANGED <<clientVars, t, left, wseq, wn, serverVars, c2s>>

----------------------------------------------------------------------------
(* tcp_rx, called from wlan_poll.                                          *)
Polling == pc \in {"syn", "wwait", "read"}

RxReset(m) ==
    /\ "RST" \in m.flags
    /\ tcp_state' = "DONE" /\ reset' = TRUE
    /\ UNCHANGED <<tcp_snd_una, tcp_snd_nxt, tcp_rcv_nxt, tcp_ack_due, got, c2s>>

RxSynAck(m) ==
    /\ "RST" \notin m.flags
    /\ tcp_state = "SYN_SENT"
    /\ IF {"SYN", "ACK"} \subseteq m.flags /\ m.ack = tcp_snd_nxt
       THEN /\ tcp_rcv_nxt' = (m.seq + 1) % SeqMod
            /\ tcp_snd_una' = m.ack
            /\ tcp_state' = "ESTABLISHED"
            /\ c2s' \in Sent(c2s, UpCap, {Ack(tcp_snd_nxt, m.seq + 1)})
       ELSE UNCHANGED <<tcp_rcv_nxt, tcp_snd_una, tcp_state, c2s>>
    /\ UNCHANGED <<tcp_snd_nxt, tcp_ack_due, got, reset>>

(* An acknowledgement counts if it is new and not beyond what was sent.    *)
NewUna(m) ==
    IF "ACK" \in m.flags /\ After(m.ack, tcp_snd_una) /\ ~After(m.ack, tcp_snd_nxt)
    THEN m.ack ELSE tcp_snd_una

\* Mutant: data that overlaps what is there already is taken, too.
InSequenceLoose(m) == m.len > 0 /\ ~After(m.seq, tcp_rcv_nxt)

(* Data is taken only at the place where the stream goes on.               *)
InSequence(m) == m.len > 0 /\ m.seq = tcp_rcv_nxt

\* Mutant: a FIN counts wherever it is.
FinAnywhere(m, rcv) == "FIN" \in m.flags

FinInSequence(m, rcv) == "FIN" \in m.flags /\ (m.seq + m.len) % SeqMod = rcv

AckNow(m, due) == "FIN" \in m.flags \/ due >= 2 \/ m.len \in 1..(MSS - 1)

(* tcp_rx in the states after SYN_SENT.  Out-of-order data is answered at  *)
(* once, as are short segments and FIN; two full segments share an ACK.    *)
RxSegment(m) ==
    LET rcv == IF InSequence(m) THEN (tcp_rcv_nxt + m.len) % SeqMod ELSE tcp_rcv_nxt
        due == tcp_ack_due + (IF m.len = 0 THEN 0 ELSE IF InSequence(m) THEN 1 ELSE 2)
        fin == FinInSequence(m, rcv)
        rcv2 == IF fin THEN (rcv + 1) % SeqMod ELSE rcv
        ourFin == fin /\ tcp_state = "ESTABLISHED"
        nxt == IF ourFin THEN (tcp_snd_nxt + 1) % SeqMod ELSE tcp_snd_nxt
        ackNow == AckNow(m, due)
    IN
    /\ "RST" \notin m.flags
    /\ tcp_state \in {"ESTABLISHED", "DONE"}
    /\ tcp_snd_una' = NewUna(m)
    /\ got' = IF InSequence(m) THEN got \o [i \in 1..m.len |-> m.off + i - 1] ELSE got
    /\ tcp_rcv_nxt' = rcv2
    /\ tcp_snd_nxt' = nxt
    /\ tcp_state' = IF fin THEN "DONE" ELSE tcp_state
    /\ tcp_ack_due' = IF ackNow THEN 0 ELSE due
    /\ c2s' \in Sent(c2s, UpCap,
            (IF ourFin
             THEN {Seg({"FIN", "ACK"}, tcp_snd_nxt, rcv2, ReqOff(tcp_snd_nxt), 0)} ELSE {})
            \union (IF ackNow THEN {Ack(nxt, rcv2)} ELSE {}))
    /\ UNCHANGED reset

TcpRx ==
    \E m \in s2c :
        /\ Polling
        /\ s2c' \in Taken(s2c, m)
        /\ RxReset(m) \/ RxSynAck(m) \/ RxSegment(m)
        /\ UNCHANGED <<progVars, serverVars>>

----------------------------------------------------------------------------
(* The server (external): s_una and s_nxt are offsets in its answer, the   *)
(* FIN is the unit behind the last one; s_rcv counts units of the request. *)
SrvSeg(off, len, flags) ==
    Seg(flags \union {"ACK"}, PeerIsn + 1 + off,
        Isn + 1 + s_rcv + (IF s_fin THEN 1 ELSE 0), off, len)

SrvSyn ==
    \E m \in c2s :
        /\ Running /\ "SYN" \in m.flags /\ sst \in {"LISTEN", "SYN_RCVD"}
        /\ c2s' \in Taken(c2s, m)
        /\ sst' = "SYN_RCVD"
        /\ s2c' \in Sent(s2c, DownCap, {Seg({"SYN", "ACK"}, PeerIsn, Isn + 1, 0, 0)})
        /\ UNCHANGED <<clientVars, progVars, s_una, s_nxt, s_rcv, s_fin>>

SrvSynAckAgain ==
    /\ Running /\ sst = "SYN_RCVD"
    /\ s2c' \in Sent(s2c, DownCap, {Seg({"SYN", "ACK"}, PeerIsn, Isn + 1, 0, 0)})
    /\ UNCHANGED <<clientVars, progVars, serverVars, c2s>>

SrvRx ==
    \E m \in c2s :
        /\ "SYN" \notin m.flags /\ sst \in {"SYN_RCVD", "ESTABLISHED"}
        /\ c2s' \in Taken(c2s, m)
        /\ LET acked == (m.ack - PeerIsn - 1) % SeqMod IN
            s_una' = IF acked \in s_una..s_nxt THEN acked ELSE s_una
        /\ LET next == (Isn + 1 + s_rcv) % SeqMod
               new == m.len > 0 /\ m.seq = next
           IN /\ s_rcv' = IF new THEN s_rcv + m.len ELSE s_rcv
              /\ s_fin' = (s_fin \/ ("FIN" \in m.flags /\ m.seq = next))
        /\ sst' = "ESTABLISHED"
        /\ UNCHANGED <<clientVars, progVars, s_nxt, s2c>>

SrvAck ==
    /\ Running /\ sst = "ESTABLISHED"
    /\ s2c' \in Sent(s2c, DownCap, {SrvSeg(s_nxt, 0, {})})
    /\ UNCHANGED <<clientVars, progVars, serverVars, c2s>>

(* New data, or again from the first unit that is not acknowledged; the    *)
(* cut into segments may differ.  FIN goes with the last data or alone.    *)
SrvSend ==
    \E off \in {s_una, s_nxt} : \E len \in 0..MSS : \E flags \in {{}, {"FIN"}} :
        /\ Running /\ sst = "ESTABLISHED"
        /\ off + len <= RespLen
        /\ flags = {} => len > 0
        /\ flags = {"FIN"} => off + len = RespLen
        /\ LET end == off + len + (IF flags = {} THEN 0 ELSE 1) IN
            s_nxt' = IF end > s_nxt THEN end ELSE s_nxt
        /\ s2c' \in Sent(s2c, DownCap, {SrvSeg(off, len, flags)})
        /\ UNCHANGED <<clientVars, progVars, sst, s_una, s_rcv, s_fin, c2s>>

(* What the server had still to send and to read is gone.                  *)
SrvReset ==
    /\ MayReset /\ Running /\ sst \in {"SYN_RCVD", "ESTABLISHED"}
    /\ sst' = "ABORTED" /\ s_nxt' = s_una /\ c2s' = {}
    /\ s2c' \in Sent(s2c, DownCap, {SrvSeg(s_nxt, 0, {"RST"})})
    /\ UNCHANGED <<clientVars, progVars, s_una, s_rcv, s_fin>>

----------------------------------------------------------------------------
Program ==
    \/ TcpConnect \/ SynAgain \/ ConnectReturns
    \/ WritePiece \/ WriteSend \/ WriteTimeout \/ WriteDone \/ WriteReturns
    \/ ReadFlush \/ ReadReturns

Server == SrvSyn \/ SrvSynAckAgain \/ SrvRx \/ SrvAck \/ SrvSend \/ SrvReset

Next == Program \/ TcpRx \/ Server

Spec == Init /\ [][Next]_vars

(* The program runs, and its waits have limits.                            *)
FairSpec == Spec /\ WF_vars(Program)

----------------------------------------------------------------------------
(* Properties                                                              *)

(* What tcp_data_fn gets is the answer, unit by unit, nothing twice and    *)
(* nothing left out, whatever the network does and wherever the sequence   *)
(* numbers wrap.                                                           *)
StreamInOrder == \A i \in DOMAIN got : got[i] = i - 1

(* An acknowledgement is a promise: the server never drops a unit of the   *)
(* answer from its buffer that the program has not been given.             *)
AckedIsDelivered ==
    (IF s_una > RespLen THEN RespLen ELSE s_una) <= Len(got)

(* tcp_write returns 0 only if the server has all of the request.          *)
WrittenIsReceived == pc \in {"read", "end"} => s_rcv = ReqLen

(* TCP_DONE without a reset: the answer is complete.  rtlhttp.c prints     *)
(* "closed by the server" after a reset, too.                              *)
ClosedIsComplete == tcp_state = "DONE" /\ ~reset => Len(got) = RespLen

(* "a FIN from the server in the same burst as its ACK must get our FIN    *)
(* with the right sequence number": the server never takes our FIN for the *)
(* end of the request before a piece that tcp_write has begun to send.     *)
FinAfterData == s_fin => s_rcv = ReqLen - left + wn

(* Every call returns: no wait of the program is without a limit.          *)
Returns == <>~Running
============================================================================
