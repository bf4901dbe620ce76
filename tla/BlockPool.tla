----------------------------- MODULE BlockPool -----------------------------
(***************************************************************************)
(* _BlockPool of hbserve/placement.py: the KV block pool with its          *)
(* incremental index of the free space.  Blocks from nextUnused upwards    *)
(* were never handed out (or were given back from the top); the free       *)
(* blocks below it are kept as maximal ranges in two dictionaries that     *)
(* are each other's inverse, and the starts of the ranges also sit in a    *)
(* heap from which stale entries are removed lazily.                       *)
(*                                                                         *)
(* allocate is the only operation with a loop over the index: its          *)
(* iterations are actions of their own (the pool is busy meanwhile), so    *)
(* that what the loop relies on can be stated.  retain and release take    *)
(* lists in the code and treat one block after the other; here a list is   *)
(* that many steps.  A call that raises changes nothing and is no step.    *)
(***************************************************************************)
EXTENDS Integers, FiniteSets, Functions

CONSTANTS
    Capacity,       \* capacity_blocks
    MaxReferences,  \* 2^64 - 1 in BlockReferences (array type "Q")
    TombstoneSlack  \* the 64 in "2 * len(_free_ranges) + 64"

ASSUME CapacityAssumption == Capacity \in Nat
ASSUME MaxReferencesAssumption == MaxReferences \in Nat \ {0}
ASSUME SlackAssumption == TombstoneSlack \in Nat

VARIABLES
    references,   \* BlockReferences: 0 stands for an absent block
    nextUnused,   \* _next_unused
    freeRanges,   \* _free_ranges: begin |-> end (exclusive), or Absent
    freeEnds,     \* _free_ends: end |-> begin, or Absent
    freeStarts,   \* _free_starts: the heap, as begin |-> number of entries
    busy,         \* an allocate call is in its loop
    asked,        \* ... how many blocks it was asked for
    count,        \* ... how many it still needs
    blocks,       \* ... the blocks collected so far
    result        \* the last list returned by allocate, with what was asked

index == <<nextUnused, freeRanges, freeEnds, freeStarts>>
call  == <<busy, asked, count, blocks>>
vars  == <<references, index, call, result>>

Blocks == 0 .. Capacity - 1
Ends   == 0 .. Capacity
Absent == -1

Allocated == {b \in Blocks : references[b] > 0}
FreeBlocks == Capacity - Cardinality(Allocated)

Starts(ranges) == {b \in Blocks : ranges[b] # Absent}
HeapSize(starts) == FoldFunction(+, 0, starts)

(* One entry per range: list(self._free_ranges), heapified.                *)
Rebuilt(ranges) == [b \in Blocks |-> IF ranges[b] # Absent THEN 1 ELSE 0]

(* Variant with a bug: the heap is only cleared with the last range.       *)
NeverRebuilt(ranges, ends, starts) ==
    /\ freeRanges' = ranges
    /\ freeEnds' = IF Starts(ranges) = {} THEN [e \in Ends |-> Absent] ELSE ends
    /\ freeStarts' = IF Starts(ranges) = {} THEN Rebuilt(ranges) ELSE starts

(* _compact_free_index on the index (ranges, ends, starts) that an         *)
(* operation is about to leave behind.  The dictionaries are also copied   *)
(* when they are much larger than their content, which changes no value.   *)
CompactFreeIndex(ranges, ends, starts) ==
    /\ freeRanges' = ranges
    /\ freeEnds' = IF Starts(ranges) = {} THEN [e \in Ends |-> Absent] ELSE ends
    /\ freeStarts' =
         IF \/ Starts(ranges) = {}
            \/ HeapSize(starts) > 2 * Cardinality(Starts(ranges)) + TombstoneSlack
         THEN Rebuilt(ranges)
         ELSE starts

Init ==
    /\ references = [b \in Blocks |-> 0]
    /\ nextUnused = 0
    /\ freeRanges = [b \in Blocks |-> Absent]
    /\ freeEnds = [e \in Ends |-> Absent]
    /\ freeStarts = [b \in Blocks |-> 0]
    /\ busy = FALSE /\ asked = 0 /\ count = 0 /\ blocks = {}
    /\ result = [asked |-> 0, blocks |-> {}]

----------------------------------------------------------------------------
(* Variant with a bug: the request is compared with the pool, not with     *)
(* what is left of it.                                                     *)
AllocateUnchecked(n) ==
    /\ ~busy
    /\ n <= Capacity
    /\ busy' = TRUE /\ asked' = n /\ count' = n /\ blocks' = {}
    /\ UNCHANGED <<references, index, result>>

(* allocate(n): refused with HBServeError when n > free_blocks.            *)
AllocateCall(n) ==
    /\ ~busy
    /\ n <= FreeBlocks
    /\ busy' = TRUE /\ asked' = n /\ count' = n /\ blocks' = {}
    /\ UNCHANGED <<references, index, result>>

(* Variant with a bug: a list that is not kept as a heap.                  *)
AnyStart(b) == freeStarts[b] > 0

(* heappop: b is the least entry of the heap.                              *)
HeapMinimum(b) ==
    /\ freeStarts[b] > 0
    /\ \A c \in Blocks : c < b => freeStarts[c] = 0

Looping == busy /\ count > 0 /\ Starts(freeRanges) # {}

(* Variant with a bug: the stale entry is looked at but not removed.       *)
PeekTombstone(b) ==
    /\ Looping
    /\ HeapMinimum(b)
    /\ freeRanges[b] = Absent
    /\ UNCHANGED vars

(* The popped start is no longer the start of a range: continue.           *)
PopTombstone(b) ==
    /\ Looping
    /\ HeapMinimum(b)
    /\ freeRanges[b] = Absent
    /\ freeStarts' = [freeStarts EXCEPT ![b] = @ - 1]
    /\ UNCHANGED <<references, nextUnused, freeRanges, freeEnds, call, result>>

(* The popped range covers all that is needed and more: its rest, from     *)
(* b + count on, is a range again.                                         *)
TakePartOfRange(b) ==
    /\ Looping
    /\ HeapMinimum(b)
    /\ LET end  == freeRanges[b]
           rest == b + count
       IN  /\ end # Absent
           /\ rest < end
           /\ freeRanges' = [freeRanges EXCEPT ![b] = Absent, ![rest] = end]
           /\ freeEnds' = [freeEnds EXCEPT ![end] = rest]
           /\ freeStarts' = [freeStarts EXCEPT ![b] = @ - 1, ![rest] = @ + 1]
           /\ blocks' = blocks \cup (b .. rest - 1)
           /\ count' = 0
    /\ UNCHANGED <<references, nextUnused, busy, asked, result>>

TakeWholeRange(b) ==
    /\ Looping
    /\ HeapMinimum(b)
    /\ LET end == freeRanges[b]
       IN  /\ end # Absent
           /\ end <= b + count
           /\ freeRanges' = [freeRanges EXCEPT ![b] = Absent]
           /\ freeEnds' = [freeEnds EXCEPT ![end] = Absent]
           /\ freeStarts' = [freeStarts EXCEPT ![b] = @ - 1]
           /\ blocks' = blocks \cup (b .. end - 1)
           /\ count' = count - (end - b)
    /\ UNCHANGED <<references, nextUnused, busy, asked, result>>

(* No range is left: the rest comes from the untouched blocks.             *)
TakeUnused ==
    /\ busy /\ count > 0 /\ Starts(freeRanges) = {}
    /\ blocks' = blocks \cup (nextUnused .. nextUnused + count - 1)
    /\ nextUnused' = nextUnused + count
    /\ count' = 0
    /\ UNCHANGED <<references, freeRanges, freeEnds, freeStarts, busy, asked, result>>

AllocateReturn ==
    /\ busy /\ count = 0
    /\ references' = [b \in Blocks |-> IF b \in blocks THEN 1 ELSE references[b]]
    /\ CompactFreeIndex(freeRanges, freeEnds, freeStarts)
    /\ result' = [asked |-> asked, blocks |-> blocks]
    /\ busy' = FALSE /\ asked' = 0 /\ count' = 0 /\ blocks' = {}
    /\ UNCHANGED nextUnused

----------------------------------------------------------------------------
Retain(b) ==
    /\ ~busy
    /\ references[b] \in 1 .. MaxReferences - 1
    /\ references' = [references EXCEPT ![b] = @ + 1]
    /\ UNCHANGED <<index, call, result>>

(* release of one block that has other holders.                            *)
ReleaseShared(b) ==
    /\ ~busy
    /\ references[b] > 1
    /\ references' = [references EXCEPT ![b] = @ - 1]
    /\ UNCHANGED <<index, call, result>>

(* Variant with a bug: only the range to the right is merged.              *)
NoLeftNeighbour(b) == Absent

(* The begin of the free range that ends where block b starts.             *)
LeftNeighbour(b) == freeEnds[b]

(* release of one block by its last holder: it is merged with the range    *)
(* that ends at b, with the range that starts at b + 1, and with the       *)
(* untouched blocks when it reaches them.                                  *)
ReleaseLast(b) ==
    /\ ~busy
    /\ references[b] = 1
    /\ references' = [references EXCEPT ![b] = 0]
    /\ LET left  == LeftNeighbour(b)
           begin == IF left = Absent THEN b ELSE left
           right == b + 1 \in Blocks /\ freeRanges[b + 1] # Absent
           end   == IF right THEN freeRanges[b + 1] ELSE b + 1
           ends1 == [e \in Ends |-> IF e = b \/ (right /\ e = end)
                                    THEN Absent ELSE freeEnds[e]]
           ranges1 == [c \in Blocks |-> IF c = b + 1 THEN Absent ELSE freeRanges[c]]
       IN  IF end = nextUnused
           THEN /\ nextUnused' = begin
                /\ CompactFreeIndex([ranges1 EXCEPT ![begin] = Absent], ends1, freeStarts)
           ELSE /\ UNCHANGED nextUnused
                /\ CompactFreeIndex([ranges1 EXCEPT ![begin] = end],
                                    [ends1 EXCEPT ![end] = begin],
                                    IF left = Absent
                                    THEN [freeStarts EXCEPT ![begin] = @ + 1]
                                    ELSE freeStarts)
    /\ UNCHANGED <<call, result>>

AllocateStep ==
    \/ \E b \in Blocks : PopTombstone(b) \/ TakePartOfRange(b) \/ TakeWholeRange(b)
    \/ TakeUnused
    \/ AllocateReturn

Next ==
    \/ \E n \in 0 .. Capacity : AllocateCall(n)
    \/ AllocateStep
    \/ \E b \in Blocks : Retain(b) \/ ReleaseShared(b) \/ ReleaseLast(b)

Spec == Init /\ [][Next]_vars

(* A call runs to its end: the program is a single thread.                 *)
FairSpec == Spec /\ WF_vars(AllocateStep)

----------------------------------------------------------------------------
TypeOK ==
    /\ references \in [Blocks -> 0 .. MaxReferences]
    /\ nextUnused \in 0 .. Capacity
    /\ freeRanges \in [Blocks -> Ends \cup {Absent}]
    /\ freeEnds \in [Ends -> Blocks \cup {Absent}]
    /\ freeStarts \in [Blocks -> Nat]
    /\ busy \in BOOLEAN
    /\ asked \in 0 .. Capacity
    /\ count \in 0 .. Capacity
    /\ blocks \subseteq Blocks
    /\ result \in [asked : 0 .. Capacity, blocks : SUBSET Blocks]

Held(b) == references[b] > 0 \/ b \in blocks
Covered(b) == \E c \in Blocks : freeRanges[c] # Absent /\ c <= b /\ b < freeRanges[c]

(* A range is not empty and stops short of the untouched blocks.           *)
RangesBelowFrontier ==
    \A b \in Blocks : freeRanges[b] # Absent =>
        b < freeRanges[b] /\ freeRanges[b] < nextUnused

(* The blocks next to a range on both sides are in use: ranges that touch  *)
(* were merged.                                                            *)
RangesMaximal ==
    \A b \in Blocks : freeRanges[b] # Absent =>
        /\ b > 0 => Held(b - 1)
        /\ freeRanges[b] \in Blocks => Held(freeRanges[b])

(* The two dictionaries are each other's inverse.                          *)
EndsMirrorRanges ==
    \A b \in Blocks : \A e \in Ends : freeRanges[b] = e <=> freeEnds[e] = b

(* The index lists exactly the free blocks.                                *)
IndexExact ==
    \A b \in Blocks : Held(b) <=> b < nextUnused /\ ~Covered(b)

(* Every range can be found through the heap, whatever stale entries it    *)
(* also has: heappop never meets an empty heap while a range is left.      *)
HeapCoversRanges ==
    \A b \in Blocks : freeRanges[b] # Absent => freeStarts[b] > 0

(* The blocks collected by an allocation are new ones, below every block   *)
(* still free, and with those still needed they fit in the pool.           *)
AllocationInProgress ==
    /\ \A x \in blocks : references[x] = 0
    /\ \A x \in blocks : \A y \in Blocks : ~Held(y) => x < y
    /\ Cardinality(blocks) + count = asked
    /\ Cardinality({b \in Blocks : Held(b)}) + count <= Capacity
    /\ ~busy => count = 0 /\ blocks = {}

(* The free-space index describes the free blocks exactly, with maximal    *)
(* ranges, between any two operations and within an allocation (allocate,  *)
(* release of _BlockPool).                                                 *)
IndexInv ==
    /\ RangesBelowFrontier
    /\ RangesMaximal
    /\ EndsMirrorRanges
    /\ IndexExact
    /\ HeapCoversRanges
    /\ AllocationInProgress

(* _compact_free_index keeps the number of stale heap entries bounded by   *)
(* the number of ranges "even when the pool always has some live           *)
(* allocations".                                                           *)
TombstonesBounded ==
    ~busy => HeapSize(freeStarts) <= 2 * Cardinality(Starts(freeRanges)) + TombstoneSlack

(* Blocks are collected in ascending order, so the list that allocate      *)
(* returns is sorted and its layers' blocks form as few runs as possible.  *)
CollectedAscending ==
    [][busy /\ busy' => \A x \in blocks : \A y \in blocks' \ blocks : x < y]_vars

(* The pool with its index implements the pool without one.                *)
Abstract == INSTANCE KvPoolSpec
ImplementsPool == Abstract!Spec

(* An accepted allocation is answered: no path through the loop stops on   *)
(* an empty heap, or pops stale entries for ever.                          *)
AllocationAnswered == busy ~> ~busy
=============================================================================
