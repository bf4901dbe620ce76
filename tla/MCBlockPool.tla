---------------------------- MODULE MCBlockPool ----------------------------
(* A pool of five blocks, counts up to two: ranges can be merged on either *)
(* side or on both, split, and reach the untouched blocks; the heap can    *)
(* hold stale and repeated entries before it is rebuilt.                   *)
EXTENDS BlockPool
=============================================================================
