-------------------------------- MODULE Heap --------------------------------
(***************************************************************************)
(* The heap of the C library (libc.c): malloc, free and realloc over a     *)
(* list of blocks in several regions, and the files that fopen loads into  *)
(* it and keeps in file_cache.                                             *)
(*                                                                         *)
(* Addresses and sizes are counted in units of 16 bytes, to which malloc   *)
(* rounds; a header (block_t) is one unit.  The program, an app or the     *)
(* launcher, allocates in one thread and frees only what it has allocated. *)
(***************************************************************************)
EXTENDS Integers, Sequences, FiniteSets, SequencesExt

CONSTANTS
    RegionSizes,    \* units of each region, in the order of sdk_heap_region
    MinRest,        \* units beside a header for which a block is split: 4
    MaxRequest,     \* bound: units asked for
    MaxPtrs,        \* bound: pointers the program holds
    FileSize,       \* the files, and the units each one takes
    HandleSize,     \* units of a FILE
    MaxOpen,        \* bound: open files
    MaxCached       \* MAX_CACHED: 8

Files == DOMAIN FileSize

ASSUME HeapAssumption ==
    /\ RegionSizes \in Seq(Nat \ {0, 1}) /\ Len(RegionSizes) > 0
    /\ {MinRest, MaxRequest, HandleSize, MaxCached} \subseteq Nat \ {0}
    /\ {MaxPtrs, MaxOpen} \subseteq Nat
    /\ FileSize \in [Files -> Nat \ {0}]

VARIABLES
    blocks,         \* the list from heap_head: <<>> before the first malloc
    heap_in_use,
    ptrs,           \* what the program holds: [p, n], n units asked for
    cache,          \* file_cache: [name, data]
    open,           \* FILEs: [p, name, data]
    lost            \* data that no FILE and no cache entry points to any more

vars == <<blocks, heap_in_use, ptrs, cache, open, lost>>

Hdr == 1
NULL == 0

(* Regions are apart: there is a gap in front of each one.                 *)
RegionStart(r) == 2 * r + FoldLeft(LAMBDA a, b : a + b, 0, SubSeq(RegionSizes, 1, r - 1))
Top == RegionStart(Len(RegionSizes)) + RegionSizes[Len(RegionSizes)]

Block(a, s, u) == [addr |-> a, size |-> s, used |-> u]
Payload(b) == b.addr + Hdr
End(b) == b.addr + Hdr + b.size

TypeOK ==
    /\ blocks \in Seq([addr : 1..Top, size : 0..Top, used : BOOLEAN])
    /\ heap_in_use \in 0..Top
    /\ ptrs \subseteq [p : 1..Top, n : 1..MaxRequest]
    /\ cache \in Seq([name : Files, data : 1..Top]) /\ Len(cache) <= MaxCached
    /\ open \subseteq [p : 1..Top, name : Files, data : 1..Top]
    /\ lost \subseteq 1..Top

Init ==
    /\ blocks = <<>> /\ heap_in_use = 0
    /\ ptrs = {} /\ cache = <<>> /\ open = {} /\ lost = {}

----------------------------------------------------------------------------
(* A heap is a record [b |-> blocks, used |-> heap_in_use].                *)
heap == [b |-> blocks, used |-> heap_in_use]

heap_init ==
    [r \in DOMAIN RegionSizes |-> Block(RegionStart(r), RegionSizes[r] - Hdr, FALSE)]

Ready(h) == IF h.b = <<>> THEN [h EXCEPT !.b = heap_init] ELSE h

Splits(size, n) == size >= n + Hdr + MinRest

(* malloc: the first free block that is large enough, cut if it is worth   *)
(* it; index 0 when there is none.                                         *)
FirstFit(h, n) ==
    LET fits == {i \in DOMAIN h.b : ~h.b[i].used /\ h.b[i].size >= n}
    IN  IF fits = {} THEN 0 ELSE Min(fits)

Taken(b, n) ==
    IF Splits(b.size, n)
    THEN <<Block(b.addr, n, TRUE), Block(Payload(b) + n, b.size - n - Hdr, FALSE)>>
    ELSE <<Block(b.addr, b.size, TRUE)>>

Counted(b, n) == IF Splits(b.size, n) THEN n ELSE b.size

malloc(h0, n0) ==
    LET h == Ready(h0)
        n == IF n0 = 0 THEN 1 ELSE n0
        i == FirstFit(h, n)
    IN  IF i = 0 THEN [h |-> h, p |-> NULL]
        ELSE [h |-> [b |-> SubSeq(h.b, 1, i - 1) \o Taken(h.b[i], n)
                             \o SubSeq(h.b, i + 1, Len(h.b)),
                     used |-> h.used + Counted(h.b[i], n)],
              p |-> Payload(h.b[i])]

\* Mutant: neighbours in the list are joined although a gap is between them.
JoinsAny(a, b) == ~a.used /\ ~b.used

(* free: neighbours become one block if they are both free and touch.      *)
Joins(a, b) == ~a.used /\ ~b.used /\ End(a) = b.addr

Join(list, b) ==
    IF list # <<>> /\ Joins(Last(list), b)
    THEN [list EXCEPT ![Len(list)].size = @ + Hdr + b.size]
    ELSE Append(list, b)

BlockOf(h, p) == CHOOSE i \in DOMAIN h.b : Payload(h.b[i]) = p

free(h, p) ==
    LET i == BlockOf(h, p)
    IN  [b |-> FoldLeft(Join, <<>>, [h.b EXCEPT ![i].used = FALSE]),
         used |-> h.used - h.b[i].size]

Becomes(h) == blocks' = h.b /\ heap_in_use' = h.used

----------------------------------------------------------------------------
Malloc(n) ==
    /\ Cardinality(ptrs) < MaxPtrs
    /\ LET m == malloc(heap, n) IN
        /\ Becomes(m.h)
        /\ ptrs' = IF m.p = NULL THEN ptrs
                   ELSE ptrs \union {[p |-> m.p, n |-> IF n = 0 THEN 1 ELSE n]}
    /\ UNCHANGED <<cache, open, lost>>

Free(x) ==
    /\ Becomes(free(heap, x.p))
    /\ ptrs' = ptrs \ {x}
    /\ UNCHANGED <<cache, open, lost>>

\* Mutant: realloc never looks at the size of the block.
KeepsAlways(x, n) == TRUE

(* A block that is large enough stays; else a larger one is found before   *)
(* the old one is given back, and if there is none nothing changes.        *)
Keeps(x, n) == blocks[BlockOf(heap, x.p)].size >= n

ReallocStays(x, n) ==
    /\ Keeps(x, n)
    /\ ptrs' = (ptrs \ {x}) \union {[x EXCEPT !.n = n]}
    /\ UNCHANGED <<blocks, heap_in_use, cache, open, lost>>

ReallocMoves(x, n) ==
    /\ ~Keeps(x, n)
    /\ LET m == malloc(heap, n) IN
        IF m.p = NULL THEN UNCHANGED <<blocks, heap_in_use, ptrs>>
        ELSE /\ Becomes(free(m.h, x.p))
             /\ ptrs' = (ptrs \ {x}) \union {[p |-> m.p, n |-> n]}
    /\ UNCHANGED <<cache, open, lost>>

Realloc(x, n) == ReallocStays(x, n) \/ ReallocMoves(x, n)

(* fopen of a file that is cached: a FILE (calloc) for the same data.      *)
Entry(f) == {e \in ToSet(cache) : e.name = f}

FopenCached(f) ==
    /\ Entry(f) # {} /\ Cardinality(open) < MaxOpen
    /\ LET d == (CHOOSE e \in Entry(f) : TRUE).data
           m == malloc(heap, HandleSize)
       IN
       /\ Becomes(m.h)
       /\ open' = IF m.p = NULL THEN open ELSE open \union {[p |-> m.p, name |-> f, data |-> d]}
    /\ UNCHANGED <<ptrs, cache, lost>>

(* sdk_load_file did not find the file, there was no memory for it, or it  *)
(* could not be read and its buffer is free again.                         *)
FopenFails(f) ==
    /\ Entry(f) = {} /\ Cardinality(open) < MaxOpen
    /\ LET m == malloc(heap, FileSize[f]) IN
        \/ UNCHANGED <<blocks, heap_in_use>>
        \/ Becomes(IF m.p = NULL THEN m.h ELSE free(m.h, m.p))
    /\ UNCHANGED <<ptrs, cache, open, lost>>

(* The file is loaded; it is kept if file_cache has room, also when there  *)
(* is no memory for the FILE.                                              *)
FopenLoads(f) ==
    /\ Entry(f) = {} /\ Cardinality(open) < MaxOpen
    /\ LET m == malloc(heap, FileSize[f])
           h == malloc(m.h, HandleSize)
           room == Len(cache) < MaxCached
       IN
       /\ m.p # NULL
       /\ Becomes(h.h)
       /\ cache' = IF room THEN Append(cache, [name |-> f, data |-> m.p]) ELSE cache
       /\ open' = IF h.p = NULL THEN open
                  ELSE open \union {[p |-> h.p, name |-> f, data |-> m.p]}
       /\ lost' = IF ~room /\ h.p = NULL THEN lost \union {m.p} ELSE lost
    /\ UNCHANGED ptrs

(* "data stays cached"; without a cache entry nobody knows it any more.    *)
Fclose(x) ==
    /\ Becomes(free(heap, x.p))
    /\ open' = open \ {x}
    /\ lost' = IF \E e \in ToSet(cache) : e.data = x.data THEN lost ELSE lost \union {x.data}
    /\ UNCHANGED <<ptrs, cache>>

(* The launcher after an app, which used the same RAM: launch () is called *)
(* where no file is open and nothing is allocated but the cache.           *)
sdk_libc_reset ==
    /\ ptrs = {} /\ open = {}
    /\ blocks' = <<>> /\ heap_in_use' = 0
    /\ cache' = <<>> /\ lost' = {}
    /\ UNCHANGED <<ptrs, open>>

Next ==
    \/ \E n \in 0..MaxRequest : Malloc(n)
    \/ \E x \in ptrs : Free(x) \/ \E n \in 1..MaxRequest : Realloc(x, n)
    \/ \E f \in Files : FopenCached(f) \/ FopenFails(f) \/ FopenLoads(f)
    \/ \E x \in open : Fclose(x)
    \/ sdk_libc_reset

Spec == Init /\ [][Next]_vars

----------------------------------------------------------------------------
(* Properties                                                              *)

InRegion(r) ==
    SelectSeq(blocks, LAMBDA b : b.addr \in RegionStart(r)..(RegionStart(r) + RegionSizes[r] - 1))

(* Whatever was split and joined before, the blocks of a region still      *)
(* cover it without a gap or an overlap, in the order of their addresses   *)
(* ("Blocks of different regions are never adjacent, so they are never     *)
(* merged"), and two free ones are never neighbours: when all is given     *)
(* back every region is one block again.                                   *)
Tiled ==
    blocks # <<>> => \A r \in DOMAIN RegionSizes :
        LET s == InRegion(r) IN
        /\ s # <<>> /\ s[1].addr = RegionStart(r)
        /\ \A i \in 1..(Len(s) - 1) :
            End(s[i]) = s[i + 1].addr /\ (s[i].used \/ s[i + 1].used)
        /\ End(Last(s)) = RegionStart(r) + RegionSizes[r]

Owned ==
    {x.p : x \in ptrs} \union {x.p : x \in open} \union {x.data : x \in open}
        \union {e.data : e \in ToSet(cache)} \union lost

(* What somebody uses and nothing else is taken, and counted by            *)
(* heap_in_use: a pointer keeps its block with at least the size asked     *)
(* for, FILEs and cached data stay valid whichever of the handles of a     *)
(* file is closed first ("data stays cached").                             *)
OwnersKeepBlocks ==
    LET used == {i \in DOMAIN blocks : blocks[i].used} IN
    /\ {Payload(blocks[i]) : i \in used} = Owned
    /\ \A x \in ptrs : \E i \in used : Payload(blocks[i]) = x.p /\ blocks[i].size >= x.n
    /\ heap_in_use = MapThenSumSet(LAMBDA i : blocks[i].size, used)
=============================================================================
