------------------------------ MODULE MCNetSvc ------------------------------
(* Instances of NetSvc for TLC.  The networks are interchangeable, so the   *)
(* run of the invariants uses their symmetry.                               *)
EXTENDS NetSvc, TLC

Symmetry == Permutations(Nets)
=============================================================================
