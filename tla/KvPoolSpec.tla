---------------------------- MODULE KvPoolSpec ----------------------------
(***************************************************************************)
(* What a pool of equally sized KV blocks promises to the placement layer, *)
(* with no index of the free space: every block has a reference count, an  *)
(* allocation of n blocks is answered with the n lowest free ones, and a   *)
(* block becomes free exactly when its last reference is dropped.          *)
(*                                                                         *)
(* hbserve/placement.py keeps an incremental index instead (BlockPool);    *)
(* tests/test_block_pool.py compares that index with a naive pool like     *)
(* this one on random histories.                                           *)
(***************************************************************************)
EXTENDS Integers, FiniteSets

CONSTANTS
    Capacity,       \* capacity_blocks: number of blocks in the pool
    MaxReferences   \* largest storable count, 2^64 - 1 in BlockReferences

VARIABLES
    references,     \* references[b]: number of holders of block b, 0 = free
    result          \* the last answer: how many were asked for, which were given

vars == <<references, result>>

Blocks == 0 .. Capacity - 1

FreeIn(refs) == {b \in Blocks : refs[b] = 0}

(* given is what "lowest free block first" answers to a request for n.     *)
LowestFree(refs, given, n) ==
    /\ given \subseteq FreeIn(refs)
    /\ Cardinality(given) = n
    /\ \A x \in given : \A y \in FreeIn(refs) \ given : x < y

Init ==
    /\ references = [b \in Blocks |-> 0]
    /\ result = [asked |-> 0, blocks |-> {}]

Allocate ==
    \E n \in 0 .. Capacity : \E given \in SUBSET Blocks :
        /\ LowestFree(references, given, n)
        /\ references' = [b \in Blocks |-> IF b \in given THEN 1 ELSE references[b]]
        /\ result' = [asked |-> n, blocks |-> given]

Retain(b) ==
    /\ references[b] \in 1 .. MaxReferences - 1
    /\ references' = [references EXCEPT ![b] = @ + 1]
    /\ UNCHANGED result

Release(b) ==
    /\ references[b] > 0
    /\ references' = [references EXCEPT ![b] = @ - 1]
    /\ UNCHANGED result

Next == Allocate \/ \E b \in Blocks : Retain(b) \/ Release(b)

Spec == Init /\ [][Next]_vars

TypeOK ==
    /\ references \in [Blocks -> 0 .. MaxReferences]
    /\ result \in [asked : 0 .. Capacity, blocks : SUBSET Blocks]
===========================================================================
