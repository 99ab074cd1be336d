------------------------------ MODULE EhciRing -----------------------------
(***************************************************************************)
(* The receive ring of ehci.h, pumped by the net task (wlan_rx_pump), and  *)
(* the EHCI controller that fills it.  Driver and controller share the     *)
(* qTD tokens, the overlay of the queue head and the buffers; nothing is   *)
(* locked and no interrupt tells the driver anything.                      *)
(*                                                                         *)
(* Buffers are in cached RAM: mem is what the controller wrote, line what  *)
(* the data cache holds of it.  A dirty line goes to memory whenever the   *)
(* cache wants to.  The links and buffer pointers of the ring never change *)
(* once written, so a qTD is its token.                                    *)
(***************************************************************************)
EXTENDS Naturals, Sequences, FiniteSets

CONSTANTS
    RxN,            \* qTDs of the ring (WLAN_RX_RING)
    MaxFrames,      \* bound: frames the chip sends
    MaxErrors,      \* bound: transfers that fail
    MaxOpens,       \* bound: resets of the controller
    StartRace       \* the controller may visit the queue head between the
                    \* two writes of ehci_qh_start

ASSUME EhciRingAssumption ==
    /\ RxN \in Nat /\ RxN >= 2          \* ehci_rx_start refuses n < 2
    /\ MaxFrames \in Nat /\ MaxErrors \in Nat /\ MaxOpens \in Nat
    /\ StartRace \in BOOLEAN

VARIABLES
    \* shared with the controller
    tok,            \* token of each qTD: "active", "done", "err", "off"
    ov,             \* overlay: current qTD, next qTD or Term, state
    mem,            \* frame in each buffer; 0: none
    \* controller and chip
    hc,             \* "look", or "dma" while a transfer is under way
    sent,           \* frames sent by the chip
    errors, opens,
    \* data cache: frame and state of the lines of each buffer
    line,
    \* driver
    rx_next,
    pc,
    k,              \* buffers handled in this pump
    seen            \* frame the handler has read from the buffer; 0: none

vars == <<tok, ov, mem, hc, sent, errors, opens, line, rx_next, pc, k, seen>>

Slots == 0..(RxN - 1)
Term == RxN + 1                         \* a link with the T bit

Succ(i) == (i + 1) % RxN

NoLine == [st |-> "none", frame |-> 0]

TypeOK ==
    /\ tok \in [Slots -> {"active", "done", "err", "off"}]
    /\ ov \in [cur: Slots \union {Term}, next: Slots \union {Term},
               st: {"idle", "active", "halted"}]
    /\ mem \in [Slots -> 0..MaxFrames]
    /\ hc \in {"look", "dma"}
    /\ sent \in 0..MaxFrames /\ errors \in 0..MaxErrors /\ opens \in 0..MaxOpens
    /\ line \in [Slots -> [st: {"none", "clean", "dirty"}, frame: 0..MaxFrames]]
    /\ rx_next \in Slots
    /\ pc \in {"off", "link", "clear", "poll", "handle", "arm", "idle",
               "fail", "relink", "reclear"}
    /\ k \in 0..RxN
    /\ seen \in 0..MaxFrames

(* After ehci_open: queue head initialised, ring not started.              *)
Init ==
    /\ tok = [i \in Slots |-> "off"]
    /\ ov = [cur |-> Term, next |-> Term, st |-> "idle"]
    /\ mem = [i \in Slots |-> 0]
    /\ hc = "look" /\ sent = 0 /\ errors = 0 /\ opens = 0
    /\ line = [i \in Slots |-> NoLine]
    /\ rx_next = 0 /\ pc = "off" /\ k = 0 /\ seen = 0

driverVars == <<rx_next, pc, k, seen>>
chipVars == <<hc, sent, errors>>

----------------------------------------------------------------------------
(* The data cache.  ehci_cache_wbinv writes dirty lines back and forgets   *)
(* all lines of a buffer.                                                  *)
WrittenBack(i) == IF line[i].st = "dirty" THEN line[i].frame ELSE mem[i]

\* Mutant: the buffer is handed back without a flush.
NoFlush(I) == UNCHANGED <<mem, line>>

ehci_cache_wbinv(I) ==
    /\ mem' = [i \in Slots |-> IF i \in I THEN WrittenBack(i) ELSE mem[i]]
    /\ line' = [i \in Slots |-> IF i \in I THEN NoLine ELSE line[i]]

(* A line is evicted on its own.                                           *)
Evict ==
    \E i \in Slots :
        /\ line[i].st # "none"
        /\ ehci_cache_wbinv({i})
        /\ UNCHANGED <<tok, ov, chipVars, opens, driverVars>>

----------------------------------------------------------------------------
(* The controller (external): on each pass of the asynchronous list it     *)
(* looks at the queue head.  An idle queue goes on with the next qTD, if   *)
(* that is active; an active one moves data, then the status is written    *)
(* back; an error halts the queue.                                         *)

HcAdvance ==
    /\ hc = "look" /\ ov.st = "idle" /\ ov.next # Term
    /\ tok[ov.next] = "active"
    /\ pc = "clear" => StartRace
    /\ ov' = [cur |-> ov.next, next |-> Succ(ov.next), st |-> "active"]
    /\ UNCHANGED <<tok, mem, chipVars, opens, line, driverVars>>

HcReceive ==
    /\ hc = "look" /\ ov.st = "active" /\ sent < MaxFrames
    /\ hc' = "dma"
    /\ mem' = [mem EXCEPT ![ov.cur] = sent + 1]
    /\ UNCHANGED <<tok, ov, sent, errors, opens, line, driverVars>>

HcDone ==
    /\ hc = "dma"
    /\ hc' = "look"
    /\ sent' = sent + 1
    /\ tok' = [tok EXCEPT ![ov.cur] = "done"]
    /\ ov' = [ov EXCEPT !.st = "idle"]
    /\ UNCHANGED <<mem, errors, opens, line, driverVars>>

(* The failed frame may be gone, or be sent again.                         *)
HcError ==
    /\ hc = "dma" /\ errors < MaxErrors
    /\ hc' = "look"
    /\ errors' = errors + 1
    /\ sent' \in {sent, sent + 1}
    /\ tok' = [tok EXCEPT ![ov.cur] = "err"]
    /\ ov' = [ov EXCEPT !.st = "halted"]
    /\ UNCHANGED <<mem, opens, line, driverVars>>

----------------------------------------------------------------------------
(* ehci_qh_start is two writes, with the controller running in between.    *)
\* Mutant: the queue goes on behind the qTD it is to start at.
QhLinkNext(i) == ov' = [ov EXCEPT !.next = Succ(i)]

QhLink(i) == ov' = [ov EXCEPT !.next = i]

\* Mutant: the queue is pointed at its first qTD but a halt is not cleared.
QhKeepHalt == UNCHANGED ov

QhClear == ov' = [ov EXCEPT !.st = "idle"]

(* ehci_rx_arm first flushes the buffer, then fills the qTD with its token *)
(* zero, and sets the token last.                                          *)

(* ehci_rx_start, called by the first pump: the controller does not look   *)
(* at these qTDs before the queue head is linked to them.                  *)
RxStartArm ==
    /\ pc = "off"
    /\ ehci_cache_wbinv(Slots)
    /\ tok' = [i \in Slots |-> "active"]
    /\ rx_next' = 0
    /\ pc' = "link"
    /\ UNCHANGED <<ov, chipVars, opens, k, seen>>

RxStartLink ==
    /\ pc = "link"
    /\ QhLink(0)
    /\ pc' = "clear"
    /\ UNCHANGED <<tok, mem, chipVars, opens, line, rx_next, k, seen>>

RxStartClear ==
    /\ pc = "clear"
    /\ QhClear
    /\ pc' = "poll" /\ k' = 0
    /\ UNCHANGED <<tok, mem, chipVars, opens, line, rx_next, seen>>

(* wlan_rx_pump is called again.                                           *)
Pump ==
    /\ pc = "idle"
    /\ pc' = "poll" /\ k' = 0
    /\ UNCHANGED <<tok, ov, mem, chipVars, opens, line, rx_next, seen>>

(* ehci_rx_get: nothing there (or the pump has handled a whole ring).      *)
RxGetNone ==
    /\ pc = "poll"
    /\ k = RxN \/ tok[rx_next] = "active"
    /\ pc' = "idle"
    /\ UNCHANGED <<tok, ov, mem, chipVars, opens, line, rx_next, k, seen>>

(* ehci_rx_get: an error; the flush and the token zero of ehci_rx_arm.     *)
RxGetError ==
    /\ pc = "poll" /\ k < RxN
    /\ tok[rx_next] = "err"
    /\ ehci_cache_wbinv({rx_next})
    /\ tok' = [tok EXCEPT ![rx_next] = "off"]
    /\ pc' = "fail"
    /\ UNCHANGED <<ov, chipVars, opens, rx_next, k, seen>>

RxErrorArm ==
    /\ pc = "fail"
    /\ tok' = [tok EXCEPT ![rx_next] = "active"]
    /\ pc' = "relink"
    /\ UNCHANGED <<ov, mem, chipVars, opens, line, rx_next, k, seen>>

RxErrorLink ==
    /\ pc = "relink"
    /\ QhLink(rx_next)
    /\ pc' = "reclear"
    /\ UNCHANGED <<tok, mem, chipVars, opens, line, rx_next, k, seen>>

RxErrorClear ==
    /\ pc = "reclear"
    /\ QhClear
    /\ pc' = "idle"
    /\ UNCHANGED <<tok, mem, chipVars, opens, line, rx_next, k, seen>>

(* ehci_rx_get: a filled buffer, its lines invalidated.  A token of zero   *)
(* would pass for one, too.                                                *)
RxGet ==
    /\ pc = "poll" /\ k < RxN
    /\ tok[rx_next] \in {"done", "off"}
    /\ ehci_cache_wbinv({rx_next})
    /\ pc' = "handle"
    /\ UNCHANGED <<tok, ov, chipVars, opens, rx_next, k, seen>>

(* handle_rx reads the buffer through the cache, again and again, and      *)
(* mic_ok writes into it (and restores what was there).                    *)
CacheRead(i) == IF line[i].st = "none" THEN mem[i] ELSE line[i].frame

HandleRx ==
    /\ pc = "handle"
    /\ seen' = CacheRead(rx_next)
    /\ \E st \in {"clean", "dirty"} :
        /\ line[rx_next].st = "dirty" => st = "dirty"
        /\ line' = [line EXCEPT ![rx_next] = [st |-> st, frame |-> CacheRead(rx_next)]]
    /\ UNCHANGED <<tok, ov, mem, chipVars, opens, rx_next, pc, k>>

(* ehci_rx_put: the flush and the token zero of ehci_rx_arm, ...           *)
RxPut ==
    /\ pc = "handle" /\ seen # 0
    /\ ehci_cache_wbinv({rx_next})
    /\ tok' = [tok EXCEPT ![rx_next] = "off"]
    /\ pc' = "arm"
    /\ UNCHANGED <<ov, chipVars, opens, rx_next, k, seen>>

(* ... its token, and the step to the next buffer.  A queue that has come  *)
(* to an end would be started again at this qTD.                           *)
Ended == ov.next = Term /\ ov.st # "active"

RxPutArm ==
    /\ pc = "arm"
    /\ tok' = [tok EXCEPT ![rx_next] = "active"]
    /\ rx_next' = Succ(rx_next)
    /\ ov' = IF Ended THEN [ov EXCEPT !.next = rx_next, !.st = "idle"] ELSE ov
    /\ k' = k + 1
    /\ seen' = 0
    /\ pc' = "poll"
    /\ UNCHANGED <<mem, chipVars, opens, line>>

\* Mutant: the ring goes on where it was.
ReopenRunning ==
    /\ pc = "idle" /\ opens < MaxOpens
    /\ opens' = opens + 1
    /\ ov' = [cur |-> Term, next |-> Term, st |-> "idle"]
    /\ hc' = "look"
    /\ UNCHANGED <<tok, mem, sent, errors, line, rx_next, k, seen, pc>>

(* wlan_up: rtl_open opens the controller again (ehci_hc_init resets it,   *)
(* ehci_qh_init) and wlan_rx_on is cleared, from any place between pumps.  *)
Reopen ==
    /\ pc = "idle" /\ opens < MaxOpens
    /\ opens' = opens + 1
    /\ ov' = [cur |-> Term, next |-> Term, st |-> "idle"]
    /\ hc' = "look"
    /\ pc' = "off"
    /\ UNCHANGED <<tok, mem, sent, errors, line, rx_next, k, seen>>

----------------------------------------------------------------------------
Controller == HcAdvance \/ HcReceive \/ HcDone \/ HcError

Driver ==
    \/ RxStartArm \/ RxStartLink \/ RxStartClear
    \/ Pump \/ RxGetNone \/ RxGet \/ RxPut \/ RxPutArm
    \/ RxGetError \/ RxErrorArm \/ RxErrorLink \/ RxErrorClear

Next == Controller \/ Evict \/ Driver \/ HandleRx \/ Reopen

Spec == Init /\ [][Next]_vars

(* The net task pumps for ever, the handler returns, the controller keeps  *)
(* passing its list and the chip keeps sending.                            *)
FairSpec ==
    /\ Spec
    /\ WF_vars(Driver) /\ WF_vars(HandleRx /\ seen = 0)
    /\ WF_vars(HcAdvance) /\ WF_vars(HcReceive) /\ WF_vars(HcDone)

----------------------------------------------------------------------------
(* Properties                                                              *)

Holding == pc \in {"handle", "arm"} /\ seen # 0
RingOn == pc \notin {"off", "link"}

(* The slots in the order the driver will look at them.                    *)
Nth(j) == (rx_next + j) % RxN

(* "ehci_rx_get: next filled buffer (or 0), never waits": a filled buffer  *)
(* is never behind one that still waits for data.                          *)
NextFilled ==
    RingOn => \A j \in Slots \ {0} :
        tok[Nth(j)] = "done" => tok[Nth(j - 1)] # "active"

(* ehci_rx_put: "next = terminate (should not happen in a ring)".          *)
RingNeverEnds == RingOn /\ pc # "clear" => ov.next # Term

(* The frames filled and not yet read, in the driver's order.              *)
First == IF Holding THEN 1 ELSE 0
Filled ==
    CHOOSE n \in 0..(RxN - First) :
        /\ \A j \in 0..(n - 1) : tok[Nth(First + j)] = "done"
        /\ n < RxN - First => tok[Nth(First + n)] # "done"
FilledFrames == IF RingOn THEN [j \in 1..Filled |-> mem[Nth(First + j - 1)]] ELSE <<>>

(* Refinement: ring, cache and controller together are a queue of frames.  *)
Abs == INSTANCE RxQueue WITH
    Capacity <- RxN, MaxFrames <- MaxFrames,
    sent <- sent, queue <- FilledFrames, held <- seen,
    errors <- errors, resets <- opens

IsQueue == Abs!Spec

(* A ring that halts on an error or was full comes to life again: the chip *)
(* gets rid of all its frames and the driver of all that were received.    *)
Drains == <>[](sent = MaxFrames /\ FilledFrames = <<>> /\ seen = 0)
============================================================================
