------------------------------ MODULE RxQueue ------------------------------
(***************************************************************************)
(* What the receive side of ehci.h promises to wlan_rx_pump, whatever the  *)
(* controller does with its descriptors: a bounded queue of frames.  A     *)
(* frame is a number, in the order the chip sends them.  A transfer error  *)
(* may lose the frame that was to come, a reset of the controller loses    *)
(* all that is queued, and nothing else loses any; a frame that is handed  *)
(* out is handed out once, in order, and stays what it is until it is      *)
(* given back.                                                             *)
(***************************************************************************)
EXTENDS Naturals, Sequences

CONSTANTS
    Capacity,       \* buffers of the ring (rx_n), at least one
    MaxFrames       \* bound: frames the chip sends

VARIABLES
    sent,           \* frames sent by the chip so far
    queue,          \* received, not yet handed out
    held,           \* the frame handed out; 0: none
    errors, resets  \* transfer errors and resets so far

vars == <<sent, queue, held, errors, resets>>

Init ==
    /\ sent = 0
    /\ queue = <<>>
    /\ held = 0
    /\ errors = 0 /\ resets = 0

(* The buffer that is handed out is not free.                              *)
Used == Len(queue) + (IF held = 0 THEN 0 ELSE 1)

Accept ==
    /\ sent < MaxFrames
    /\ Used < Capacity
    /\ sent' = sent + 1
    /\ queue' = Append(queue, sent + 1)
    /\ UNCHANGED <<held, errors, resets>>

(* A transfer error: one frame is gone, or will be sent again.             *)
Fail ==
    /\ sent < MaxFrames
    /\ errors' = errors + 1
    /\ sent' \in {sent, sent + 1}
    /\ UNCHANGED <<queue, held, resets>>

HandOut ==
    /\ held = 0
    /\ queue # <<>>
    /\ held' = Head(queue)
    /\ queue' = Tail(queue)
    /\ UNCHANGED <<sent, errors, resets>>

GiveBack ==
    /\ held # 0
    /\ held' = 0
    /\ UNCHANGED <<sent, queue, errors, resets>>

Reset ==
    /\ held = 0
    /\ resets' = resets + 1
    /\ queue' = <<>>
    /\ UNCHANGED <<sent, held, errors>>

Next == Accept \/ Fail \/ HandOut \/ GiveBack \/ Reset

Spec == Init /\ [][Next]_vars
============================================================================
