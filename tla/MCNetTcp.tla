---- MODULE MCNetTcp ----
(* Instances of NetTcp for TLC: sequence numbers wrap inside the request   *)
(* and inside the answer.                                                  *)
EXTENDS NetTcp
====
