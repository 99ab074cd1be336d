---- MODULE MCEhciRing ----
(* Instances of EhciRing for TLC: a ring of 3, more frames than fit.       *)
EXTENDS EhciRing
====
