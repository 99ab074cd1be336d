------------------------------ MODULE MCMusic ------------------------------
(* Instances of Music for TLC: two songs per folder, so that "the next song" *)
(* wraps around, and enough storage changes for pulling the stick, putting   *)
(* it back and pulling it again.                                             *)
EXTENDS Music
=============================================================================
