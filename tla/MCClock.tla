---- MODULE MCClock ----
(* Instances of Clock for TLC: a Count of 5 bits.                          *)
EXTENDS Clock
====
