---- MODULE MCHeap ----
(* Instances of Heap for TLC.                                              *)
EXTENDS Heap
Sizes == <<8, 6>>
FileSizes == [f \in {"wad", "cfg"} |-> IF f = "wad" THEN 3 ELSE 1]
====
