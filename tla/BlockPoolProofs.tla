-------------------------- MODULE BlockPoolProofs --------------------------
(***************************************************************************)
(* Proofs about the KV block pool for every capacity: the index describes  *)
(* the free blocks exactly, and the pool with the index implements the     *)
(* pool without one.                                                       *)
(***************************************************************************)
EXTENDS BlockPool, FiniteSetTheorems, TLAPS

(* The inductive invariant: types and the exactness of the index depend on *)
(* each other, because only the count of held blocks keeps nextUnused      *)
(* within the pool.                                                        *)
Inv == TypeOK /\ IndexInv

HeldSet == {b \in Blocks : Held(b)}

USE CapacityAssumption, MaxReferencesAssumption, SlackAssumption

(* The blocks are finitely many, and so are those held.                    *)
LEMMA HeldFinite ==
    /\ IsFiniteSet(Blocks)
    /\ Cardinality(Blocks) = Capacity
    /\ IsFiniteSet(HeldSet)
    /\ Cardinality(HeldSet) \in Nat
<1>1. IsFiniteSet(Blocks) /\ Cardinality(Blocks) = Capacity
  <2>1. IsFiniteSet(Blocks) BY FS_Interval DEF Blocks
  <2>2. CASE Capacity = 0
    <3>1. Blocks = {} BY <2>2 DEF Blocks
    <3> QED BY <2>1, <2>2, <3>1, FS_EmptySet
  <2>3. CASE Capacity # 0
    BY <2>1, <2>3, FS_Interval DEF Blocks
  <2> QED BY <2>1, <2>2, <2>3
<1>2. HeldSet \in SUBSET Blocks BY DEF HeldSet
<1>3. IsFiniteSet(HeldSet) BY <1>1, <1>2, FS_Subset
<1> QED BY <1>1, <1>3, FS_CardinalityType

(* Adding an interval of free blocks to the collected ones adds its length *)
(* to both counts.                                                         *)
LEMMA CollectCount ==
    ASSUME TypeOK, NEW lo \in Nat, NEW hi \in Nat, lo < hi, hi <= Capacity,
           \A x \in lo .. hi - 1 : ~Held(x)
    PROVE  /\ Cardinality(blocks \cup (lo .. hi - 1)) = Cardinality(blocks) + (hi - lo)
           /\ Cardinality(HeldSet \cup (lo .. hi - 1)) = Cardinality(HeldSet) + (hi - lo)
<1> DEFINE I == lo .. hi - 1
<1>1. IsFiniteSet(I) /\ Cardinality(I) = hi - lo
  BY FS_Interval
<1>2. I \subseteq Blocks BY DEF Blocks
<1>3. IsFiniteSet(blocks) /\ IsFiniteSet(HeldSet)
  <2>1. blocks \in SUBSET Blocks BY DEF TypeOK
  <2> QED BY <2>1, HeldFinite, FS_Subset
<1>4. blocks \cap I = {} /\ HeldSet \cap I = {}
  BY <1>2 DEF HeldSet, Held
<1>5. Cardinality(blocks \cap I) = 0 /\ Cardinality(HeldSet \cap I) = 0
  BY <1>4, FS_EmptySet
<1>6. Cardinality(blocks) \in Nat /\ Cardinality(HeldSet) \in Nat
  BY <1>3, FS_CardinalityType
<1>7. Cardinality(blocks \cup I) = Cardinality(blocks) + Cardinality(I) - Cardinality(blocks \cap I)
  BY <1>1, <1>3, FS_Union
<1>8. Cardinality(HeldSet \cup I) = Cardinality(HeldSet) + Cardinality(I) - Cardinality(HeldSet \cap I)
  BY <1>1, <1>3, FS_Union
<1> HIDE DEF I
<1>9. hi - lo \in Nat OBVIOUS
<1>10. /\ Cardinality(blocks \cup I) = Cardinality(blocks) + (hi - lo)
       /\ Cardinality(HeldSet \cup I) = Cardinality(HeldSet) + (hi - lo)
  BY <1>1, <1>5, <1>6, <1>7, <1>8, <1>9
<1> QED BY <1>10 DEF I

----------------------------------------------------------------------------
(* The pool as constructed meets the invariant.                            *)
LEMMA InitInv == Init => Inv
<1> SUFFICES ASSUME Init PROVE Inv OBVIOUS
<1>1. TypeOK
  <2>1. 0 \in Ends /\ 0 \in 0 .. MaxReferences BY DEF Ends
  <2>2. result \in [asked : 0 .. Capacity, blocks : SUBSET Blocks] BY DEF Init
  <2> QED BY <2>1, <2>2 DEF Init, TypeOK, Ends
<1>2. HeldSet = {} BY DEF Init, HeldSet, Held
<1>3. Cardinality(HeldSet) = 0 /\ Cardinality(blocks) = 0
  BY <1>2, FS_EmptySet DEF Init
<1>4. AllocationInProgress BY <1>3 DEF Init, AllocationInProgress, HeldSet
<1>5. IndexExact BY DEF Init, IndexExact, Held, Covered, Blocks
<1>6. RangesBelowFrontier /\ RangesMaximal /\ EndsMirrorRanges /\ HeapCoversRanges
  BY DEF Init, RangesBelowFrontier, RangesMaximal, EndsMirrorRanges, HeapCoversRanges,
         Blocks, Ends, Absent
<1> QED BY <1>1, <1>4, <1>5, <1>6 DEF Inv, IndexInv

(* An action that keeps the index and what is held keeps the invariant on  *)
(* the index.                                                              *)
LEMMA SameIndex ==
    ASSUME Inv, UNCHANGED index, \A b \in Blocks : Held(b)' <=> Held(b)
    PROVE  /\ RangesBelowFrontier' /\ RangesMaximal' /\ EndsMirrorRanges'
           /\ IndexExact' /\ HeapCoversRanges'
<1>1. RangesBelowFrontier'
  BY DEF Inv, IndexInv, index, RangesBelowFrontier
<1>2. RangesMaximal'
  BY DEF Inv, IndexInv, index, RangesMaximal, Blocks
<1>3. EndsMirrorRanges'
  BY DEF Inv, IndexInv, index, EndsMirrorRanges
<1>4. IndexExact'
  BY DEF Inv, IndexInv, index, IndexExact, Covered
<1>5. HeapCoversRanges'
  BY DEF Inv, IndexInv, index, HeapCoversRanges
<1> QED BY <1>1, <1>2, <1>3, <1>4, <1>5

LEMMA AllocateCallInv ==
    ASSUME Inv, NEW n \in 0 .. Capacity, AllocateCall(n) PROVE Inv'
<1>1. TypeOK' BY DEF Inv, TypeOK, AllocateCall, index
<1>2. blocks = {} /\ blocks' = {}
  BY DEF Inv, IndexInv, AllocationInProgress, AllocateCall
<1>3. \A b \in Blocks : Held(b)' <=> Held(b)
  BY <1>2 DEF AllocateCall, Held
<1>4. Allocated = HeldSet BY <1>2 DEF Allocated, HeldSet, Held
<1>5. AllocationInProgress'
  <2>1. Cardinality(blocks') = 0 BY <1>2, FS_EmptySet
  <2>2. {b \in Blocks : Held(b)}' = HeldSet BY <1>3 DEF HeldSet
  <2>3. Cardinality(HeldSet) + n <= Capacity
    BY <1>4, HeldFinite DEF AllocateCall, FreeBlocks
  <2> QED BY <1>2, <2>1, <2>2, <2>3 DEF AllocationInProgress, AllocateCall
<1>6. UNCHANGED index BY DEF AllocateCall
<1> QED BY <1>1, <1>3, <1>5, <1>6, SameIndex DEF Inv, IndexInv

LEMMA PopTombstoneInv ==
    ASSUME Inv, NEW b \in Blocks, PopTombstone(b) PROVE Inv'
<1> USE DEF PopTombstone, call
<1>1. TypeOK' BY DEF Inv, TypeOK, HeapMinimum
<1>2. HeapCoversRanges'
  BY DEF Inv, IndexInv, TypeOK, HeapCoversRanges, HeapMinimum
<1>3. RangesBelowFrontier' /\ RangesMaximal' /\ EndsMirrorRanges' /\ IndexExact'
  BY DEF Inv, IndexInv, RangesBelowFrontier, RangesMaximal, EndsMirrorRanges,
         IndexExact, Held, Covered
<1>4. AllocationInProgress'
  BY DEF Inv, IndexInv, AllocationInProgress, Held
<1> QED BY <1>1, <1>2, <1>3, <1>4 DEF Inv, IndexInv

(* No free block lies below the range whose start is popped, and that      *)
(* range is free from end to end.                                          *)
LEMMA MinimumRange ==
    ASSUME Inv, NEW b \in Blocks, HeapMinimum(b), freeRanges[b] # Absent
    PROVE  /\ freeRanges[b] \in Nat /\ b < freeRanges[b] /\ freeRanges[b] < nextUnused
           /\ nextUnused \in 0 .. Capacity
           /\ \A y \in Blocks : ~Held(y) => b <= y
           /\ \A y \in b .. freeRanges[b] - 1 : y \in Blocks /\ ~Held(y)
           /\ \A c \in Blocks : freeRanges[c] # Absent /\ c # b => freeRanges[b] < c
<1>1. /\ freeRanges[b] \in Nat /\ b < freeRanges[b] /\ freeRanges[b] < nextUnused
      /\ nextUnused \in 0 .. Capacity
  BY DEF Inv, TypeOK, IndexInv, RangesBelowFrontier, Ends, Blocks
<1>2. \A c \in Blocks : freeRanges[c] # Absent => b <= c
  BY DEF Inv, TypeOK, IndexInv, HeapCoversRanges, HeapMinimum, Blocks
<1>3. \A y \in Blocks : ~Held(y) => b <= y
  <2> SUFFICES ASSUME NEW y \in Blocks, ~Held(y) PROVE b <= y OBVIOUS
  <2>1. y >= nextUnused \/ Covered(y)
    BY DEF Inv, TypeOK, IndexInv, IndexExact, Blocks
  <2>2. CASE y >= nextUnused BY <1>1, <2>2 DEF Blocks
  <2>3. CASE Covered(y) BY <1>2, <2>3 DEF Covered, Blocks
  <2> QED BY <2>1, <2>2, <2>3
<1>4. \A y \in b .. freeRanges[b] - 1 : y \in Blocks /\ ~Held(y)
  <2> SUFFICES ASSUME NEW y \in b .. freeRanges[b] - 1
               PROVE  y \in Blocks /\ ~Held(y)
    OBVIOUS
  <2>1. y \in Blocks BY <1>1 DEF Blocks
  <2>2. Covered(y) BY <1>1 DEF Covered, Blocks
  <2> QED BY <2>1, <2>2 DEF Inv, IndexInv, IndexExact
<1>5. \A c \in Blocks : freeRanges[c] # Absent /\ c # b => freeRanges[b] < c
  <2> SUFFICES ASSUME NEW c \in Blocks, freeRanges[c] # Absent, c # b
               PROVE  freeRanges[b] < c
    OBVIOUS
  <2>1. b < c BY <1>2 DEF Blocks
  <2>2. Held(c - 1)
    BY <2>1 DEF Inv, IndexInv, RangesMaximal, Blocks
  <2>3. ~(c - 1 \in b .. freeRanges[b] - 1) BY <1>4, <2>2
  <2>4. freeRanges[b] < c \/ freeRanges[b] = c
    BY <1>1, <2>1, <2>3 DEF Blocks
  <2>5. freeRanges[b] # c
    <3> SUFFICES ASSUME freeRanges[b] = c PROVE FALSE OBVIOUS
    <3>1. Held(c) BY DEF Inv, IndexInv, RangesMaximal
    <3>2. c < freeRanges[c]
      BY DEF Inv, IndexInv, RangesBelowFrontier
    <3>3. Covered(c) BY <3>2 DEF Covered, Blocks
    <3> QED BY <3>1, <3>3 DEF Inv, IndexInv, IndexExact
  <2> QED BY <2>4, <2>5
<1> QED BY <1>1, <1>3, <1>4, <1>5

----------------------------------------------------------------------------
LEMMA TakeWholeRangeInv ==
    ASSUME Inv, NEW b \in Blocks, TakeWholeRange(b) PROVE Inv'
<1> DEFINE end == freeRanges[b]
           got == b .. end - 1
<1>1. /\ HeapMinimum(b) /\ end # Absent /\ end <= b + count /\ busy /\ count > 0
      /\ freeRanges' = [freeRanges EXCEPT ![b] = Absent]
      /\ freeEnds' = [freeEnds EXCEPT ![end] = Absent]
      /\ freeStarts' = [freeStarts EXCEPT ![b] = @ - 1]
      /\ blocks' = blocks \cup got
      /\ count' = count - (end - b)
      /\ UNCHANGED <<references, nextUnused, busy, asked, result>>
  BY DEF TakeWholeRange, Looping
<1>2. /\ end \in Nat /\ b < end /\ end < nextUnused
      /\ nextUnused \in 0 .. Capacity
      /\ \A y \in Blocks : ~Held(y) => b <= y
      /\ \A y \in got : y \in Blocks /\ ~Held(y)
      /\ \A c \in Blocks : freeRanges[c] # Absent /\ c # b => end < c
  BY <1>1, MinimumRange
<1>3. TypeOK /\ b \in Nat /\ end \in Ends /\ count \in Nat
  <2>1. TypeOK BY DEF Inv
  <2>2. b \in Nat BY DEF Blocks
  <2>3. end \in Ends BY <1>2 DEF Ends
  <2>4. count \in Nat BY <2>1 DEF TypeOK
  <2> QED BY <2>1, <2>2, <2>3, <2>4
<1> HIDE DEF end
<1>4. \A y \in Blocks : Held(y)' <=> Held(y) \/ y \in got
  BY <1>1 DEF Held
<1>5. TypeOK'
  <2>1. freeStarts[b] - 1 \in Nat BY <1>1, <1>3 DEF HeapMinimum, TypeOK
  <2>2. count' \in 0 .. Capacity BY <1>1, <1>2, <1>3 DEF TypeOK
  <2>3. blocks' \subseteq Blocks BY <1>1, <1>2, <1>3 DEF TypeOK
  <2> QED BY <1>1, <1>3, <2>1, <2>2, <2>3 DEF TypeOK
<1>6. freeRanges[b] = end BY DEF end
<1>7. \A c \in Blocks : freeRanges'[c] = IF c = b THEN Absent ELSE freeRanges[c]
  BY <1>1, <1>3 DEF TypeOK
<1>8. RangesBelowFrontier'
  BY <1>1, <1>7 DEF Inv, IndexInv, RangesBelowFrontier
<1>9. RangesMaximal'
  BY <1>4, <1>7 DEF Inv, IndexInv, RangesMaximal, Blocks
<1>10. EndsMirrorRanges'
  <2> SUFFICES ASSUME NEW c \in Blocks, NEW e \in Ends
               PROVE  freeRanges'[c] = e <=> freeEnds'[e] = c
    BY DEF EndsMirrorRanges
  <2>1. freeRanges[c] = e <=> freeEnds[e] = c
    BY DEF Inv, IndexInv, EndsMirrorRanges
  <2>2. freeEnds[end] = b
    BY <1>3, <1>6 DEF Inv, IndexInv, EndsMirrorRanges
  <2>3. freeEnds'[e] = IF e = end THEN Absent ELSE freeEnds[e]
    BY <1>1, <1>3 DEF TypeOK
  <2>4. c # Absent /\ e # Absent BY DEF Blocks, Ends, Absent
  <2> QED BY <1>6, <1>7, <2>1, <2>2, <2>3, <2>4
<1>11. IndexExact'
  <2> SUFFICES ASSUME NEW y \in Blocks
               PROVE  Held(y)' <=> y < nextUnused /\ ~Covered(y)'
    BY <1>1 DEF IndexExact
  <2>1. Held(y) <=> y < nextUnused /\ ~Covered(y)
    BY DEF Inv, IndexInv, IndexExact
  <2>2. y \in got <=> b <= y /\ y < end BY <1>2, <1>3 DEF Blocks
  <2>3. Covered(y) <=> Covered(y)' \/ y \in got
    <3>1. Covered(y)' => Covered(y) BY <1>7 DEF Covered
    <3>2. y \in got => Covered(y) BY <1>1, <1>6, <2>2 DEF Covered
    <3>3. Covered(y) => Covered(y)' \/ y \in got
      BY <1>6, <1>7, <2>2 DEF Covered
    <3> QED BY <3>1, <3>2, <3>3
  <2>4. y \in got => ~Covered(y)'
    <3> SUFFICES ASSUME y \in got, NEW c \in Blocks, freeRanges'[c] # Absent, c <= y
                 PROVE  FALSE
      BY DEF Covered
    <3>1. end < c BY <1>2, <1>7
    <3> QED BY <1>2, <1>3, <2>2, <3>1 DEF Blocks
  <2>5. y \in got => y < nextUnused BY <1>2, <1>3, <2>2 DEF Blocks
  <2> QED BY <1>4, <2>1, <2>3, <2>4, <2>5
<1>12. HeapCoversRanges'
  BY <1>1, <1>3, <1>7 DEF Inv, IndexInv, HeapCoversRanges, TypeOK
<1>13. AllocationInProgress'
  <2>1. \A x \in blocks' : references'[x] = 0
    <3>1. \A x \in blocks : references[x] = 0
      BY DEF Inv, IndexInv, AllocationInProgress
    <3>2. \A x \in got : references[x] = 0
      BY <1>2, <1>3 DEF TypeOK, Held
    <3> QED BY <1>1, <3>1, <3>2
  <2>2. \A x \in blocks' : \A y \in Blocks : ~Held(y)' => x < y
    <3> SUFFICES ASSUME NEW x \in blocks', NEW y \in Blocks, ~Held(y)' PROVE x < y
      OBVIOUS
    <3>1. ~Held(y) /\ y \notin got BY <1>4
    <3>2. CASE x \in blocks
      BY <3>1, <3>2 DEF Inv, IndexInv, AllocationInProgress
    <3>3. CASE x \in got
      BY <1>2, <1>3, <3>1, <3>3 DEF Blocks
    <3> QED BY <1>1, <3>2, <3>3
  <2>3. /\ Cardinality(blocks') = Cardinality(blocks) + (end - b)
        /\ Cardinality(HeldSet \cup got) = Cardinality(HeldSet) + (end - b)
    <3>1. end <= Capacity BY <1>2
    <3> QED BY <1>1, <1>2, <1>3, <3>1, CollectCount
  <2>4. {y \in Blocks : Held(y)}' = HeldSet \cup got
    BY <1>2, <1>4 DEF HeldSet
  <2>5. /\ Cardinality(blocks) + count = asked
        /\ Cardinality(HeldSet) + count <= Capacity
    BY DEF Inv, IndexInv, AllocationInProgress, HeldSet
  <2>6. /\ Cardinality(blocks) \in Nat /\ Cardinality(HeldSet) \in Nat
    BY HeldFinite, <1>3, FS_Subset, FS_CardinalityType DEF TypeOK
  <2>7. /\ Cardinality(blocks') + count' = asked'
        /\ Cardinality({y \in Blocks : Held(y)}') + count' <= Capacity
    <3> DEFINE m == Cardinality(blocks)
               h == Cardinality(HeldSet)
    <3>1. m \in Nat /\ h \in Nat /\ m + count = asked /\ h + count <= Capacity
      BY <2>5, <2>6
    <3>2. /\ Cardinality(blocks') = m + (end - b)
          /\ Cardinality({y \in Blocks : Held(y)}') = h + (end - b)
          /\ count' = count - (end - b) /\ asked' = asked
      BY <1>1, <2>3, <2>4
    <3> HIDE DEF m, h
    <3>3. end \in Nat BY <1>2
    <3> QED BY <1>3, <3>1, <3>2, <3>3
  <2> QED BY <1>1, <2>1, <2>2, <2>7 DEF AllocationInProgress
<1> QED BY <1>5, <1>8, <1>9, <1>10, <1>11, <1>12, <1>13 DEF Inv, IndexInv

LEMMA TakePartOfRangeInv ==
    ASSUME Inv, NEW b \in Blocks, TakePartOfRange(b) PROVE Inv'
<1> DEFINE end == freeRanges[b]
           rest == b + count
           got == b .. rest - 1
           HeldNext(y) == references'[y] > 0 \/ y \in blocks'
<1>1. /\ HeapMinimum(b) /\ end # Absent /\ rest < end /\ busy /\ count > 0
      /\ freeRanges' = [freeRanges EXCEPT ![b] = Absent, ![rest] = end]
      /\ freeEnds' = [freeEnds EXCEPT ![end] = rest]
      /\ freeStarts' = [freeStarts EXCEPT ![b] = @ - 1, ![rest] = @ + 1]
      /\ blocks' = blocks \cup got
      /\ count' = 0
      /\ UNCHANGED <<references, nextUnused, busy, asked, result>>
  BY DEF TakePartOfRange, Looping
<1>2. /\ end \in Nat /\ b < end /\ end < nextUnused
      /\ nextUnused \in 0 .. Capacity
      /\ \A y \in Blocks : ~Held(y) => b <= y
      /\ \A y \in b .. end - 1 : y \in Blocks /\ ~Held(y)
      /\ \A c \in Blocks : freeRanges[c] # Absent /\ c # b => end < c
  BY <1>1, MinimumRange
<1>3. TypeOK BY DEF Inv
<1>4. b \in Nat /\ count \in Nat BY <1>3 DEF TypeOK, Blocks
<1>5. end \in Ends BY <1>2 DEF Ends
<1>6. freeRanges[b] = end BY DEF end
<1> HIDE DEF end
<1>7. rest \in Nat /\ b < rest /\ rest < end /\ rest \in Blocks
  BY <1>1, <1>2, <1>4 DEF Blocks
<1>8. rest = b + count OBVIOUS
<1> HIDE DEF rest
<1>9. \A y \in Int : y \in got <=> b <= y /\ y < rest
  BY <1>4, <1>7
<1>10. \A y \in got : y \in Blocks /\ ~Held(y)
  <2> SUFFICES ASSUME NEW y \in got PROVE y \in Blocks /\ ~Held(y) OBVIOUS
  <2>1. y \in b .. end - 1 BY <1>2, <1>4, <1>7
  <2> QED BY <1>2, <2>1
<1>11. \A y \in Blocks : Held(y)' <=> Held(y) \/ y \in got
  BY <1>1 DEF Held
<1>12. TypeOK'
  <2>1. freeStarts[b] - 1 \in Nat BY <1>1, <1>3 DEF HeapMinimum, TypeOK
  <2>2. freeStarts' \in [Blocks -> Nat] BY <1>1, <1>3, <1>7, <2>1 DEF TypeOK
  <2>3. blocks' \subseteq Blocks BY <1>1, <1>3, <1>10 DEF TypeOK
  <2> QED BY <1>1, <1>3, <1>5, <1>7, <2>2, <2>3 DEF TypeOK
<1>13. \A c \in Blocks : freeRanges'[c] = IF c = rest THEN end
                          ELSE IF c = b THEN Absent ELSE freeRanges[c]
  BY <1>1, <1>3, <1>7 DEF TypeOK
<1>14. RangesBelowFrontier'
  BY <1>1, <1>2, <1>7, <1>13 DEF Inv, IndexInv, RangesBelowFrontier
<1>15. RangesMaximal'
  <2> SUFFICES ASSUME NEW c \in Blocks, freeRanges'[c] # Absent
               PROVE  /\ c > 0 => HeldNext(c - 1)
                      /\ freeRanges'[c] \in Blocks => HeldNext(freeRanges'[c])
    BY DEF RangesMaximal, Held
  <2>3. \A y \in Blocks : Held(y) => HeldNext(y)
    BY <1>1 DEF Held
  <2>1. CASE c = rest
    <3>1. rest - 1 \in got BY <1>7, <1>4, <1>9
    <3>2. rest - 1 \in Blocks BY <1>10, <3>1
    <3>3. HeldNext(rest - 1) BY <1>1, <3>1
    <3>4. end \in Blocks => Held(end)
      BY <1>6, <1>1 DEF Inv, IndexInv, RangesMaximal
    <3> QED BY <1>13, <2>1, <2>3, <3>3, <3>4
  <2>2. CASE c # rest
    BY <1>13, <2>2, <2>3 DEF Inv, IndexInv, RangesMaximal, Blocks
  <2> QED BY <2>1, <2>2
<1>16. EndsMirrorRanges'
  <2> SUFFICES ASSUME NEW c \in Blocks, NEW e \in Ends
               PROVE  freeRanges'[c] = e <=> freeEnds'[e] = c
    BY DEF EndsMirrorRanges
  <2>1. freeRanges[c] = e <=> freeEnds[e] = c
    BY DEF Inv, IndexInv, EndsMirrorRanges
  <2>2. freeEnds[end] = b
    BY <1>5, <1>6 DEF Inv, IndexInv, EndsMirrorRanges
  <2>3. freeEnds'[e] = IF e = end THEN rest ELSE freeEnds[e]
    BY <1>1, <1>3 DEF TypeOK
  <2>4. c # Absent /\ e # Absent BY DEF Blocks, Ends, Absent
  <2>5. freeRanges[rest] = Absent BY <1>2, <1>7, <1>4
  <2> QED BY <1>6, <1>7, <1>13, <2>1, <2>2, <2>3, <2>4, <2>5
<1>17. IndexExact'
  <2> SUFFICES ASSUME NEW y \in Blocks
               PROVE  Held(y)' <=> y < nextUnused /\ ~Covered(y)'
    BY <1>1 DEF IndexExact
  <2>1. Held(y) <=> y < nextUnused /\ ~Covered(y)
    BY DEF Inv, IndexInv, IndexExact
  <2>2. y \in Nat BY DEF Blocks
  <2>3. Covered(y) <=> Covered(y)' \/ y \in got
    <3>1. ASSUME Covered(y)' PROVE Covered(y)
      <4>1. PICK c \in Blocks : freeRanges'[c] # Absent /\ c <= y /\ y < freeRanges'[c]
        BY <3>1 DEF Covered
      <4>2. CASE c = rest
        <5>1. b <= y /\ y < freeRanges[b] BY <1>4, <1>6, <1>7, <1>13, <2>2, <4>1, <4>2
        <5> QED BY <1>1, <1>6, <5>1 DEF Covered
      <4>3. CASE c # rest BY <1>13, <4>1, <4>3 DEF Covered
      <4> QED BY <4>2, <4>3
    <3>2. ASSUME y \in got PROVE Covered(y)
      <4>1. b <= y /\ y < freeRanges[b] BY <1>2, <1>4, <1>6, <1>7, <1>9, <2>2, <3>2
      <4> QED BY <1>1, <1>6, <4>1 DEF Covered
    <3>3. ASSUME Covered(y), y \notin got PROVE Covered(y)'
      <4>1. PICK c \in Blocks : freeRanges[c] # Absent /\ c <= y /\ y < freeRanges[c]
        BY <3>3 DEF Covered
      <4>2. CASE c = b
        <5>1. rest <= y /\ y < end
          BY <1>4, <1>6, <1>7, <1>9, <2>2, <3>3, <4>1, <4>2
        <5>2. freeRanges'[rest] = end BY <1>7, <1>13
        <5> QED BY <1>1, <1>7, <5>1, <5>2 DEF Covered
      <4>3. CASE c # b
        <5>1. c # rest BY <1>2, <1>4, <1>7, <4>1, <4>3
        <5> QED BY <1>13, <4>1, <4>3, <5>1 DEF Covered
      <4> QED BY <4>2, <4>3
    <3> QED BY <3>1, <3>2, <3>3
  <2>4. y \in got => ~Covered(y)'
    <3> SUFFICES ASSUME y \in got, NEW c \in Blocks, freeRanges'[c] # Absent, c <= y
                 PROVE  FALSE
      BY DEF Covered
    <3>1. rest <= c
      <4>1. CASE c = rest BY <1>7, <4>1
      <4>2. CASE c # rest
        <5>1. end < c BY <1>2, <1>13, <4>2
        <5> QED BY <1>2, <1>7, <5>1 DEF Blocks
      <4> QED BY <4>1, <4>2
    <3> QED BY <1>7, <1>9, <2>2, <3>1 DEF Blocks
  <2>5. y \in got => y < nextUnused BY <1>2, <1>7, <1>9, <2>2
  <2> QED BY <1>11, <2>1, <2>3, <2>4, <2>5
<1>18. HeapCoversRanges'
  <2> SUFFICES ASSUME NEW c \in Blocks, freeRanges'[c] # Absent PROVE freeStarts'[c] > 0
    BY DEF HeapCoversRanges
  <2>1. /\ freeStarts[c] \in Nat /\ freeStarts[rest] \in Nat
        /\ freeStarts'[c] = IF c = rest THEN freeStarts[rest] + 1
                            ELSE IF c = b THEN freeStarts[b] - 1 ELSE freeStarts[c]
    BY <1>1, <1>3, <1>7 DEF TypeOK
  <2> QED BY <1>13, <2>1 DEF Inv, IndexInv, HeapCoversRanges
<1>19. AllocationInProgress'
  <2>1. \A x \in blocks' : references'[x] = 0
    <3>1. \A x \in blocks : references[x] = 0
      BY DEF Inv, IndexInv, AllocationInProgress
    <3>2. \A x \in got : references[x] = 0
      BY <1>3, <1>10 DEF TypeOK, Held
    <3> QED BY <1>1, <3>1, <3>2
  <2>2. \A x \in blocks' : \A y \in Blocks : ~Held(y)' => x < y
    <3> SUFFICES ASSUME NEW x \in blocks', NEW y \in Blocks, ~Held(y)' PROVE x < y
      OBVIOUS
    <3>1. ~Held(y) /\ y \notin got BY <1>11
    <3>2. CASE x \in blocks
      BY <3>1, <3>2 DEF Inv, IndexInv, AllocationInProgress
    <3>3. CASE x \in got
      BY <1>2, <1>4, <1>7, <1>9, <3>1, <3>3 DEF Blocks
    <3> QED BY <1>1, <3>2, <3>3
  <2>3. /\ Cardinality(blocks') = Cardinality(blocks) + (rest - b)
        /\ Cardinality(HeldSet \cup got) = Cardinality(HeldSet) + (rest - b)
    <3>1. rest <= Capacity BY <1>2, <1>7
    <3> QED BY <1>1, <1>3, <1>4, <1>7, <1>10, <3>1, CollectCount
  <2>4. {y \in Blocks : Held(y)}' = HeldSet \cup got
    BY <1>10, <1>11 DEF HeldSet
  <2>5. /\ Cardinality(blocks) + count = asked
        /\ Cardinality(HeldSet) + count <= Capacity
    BY DEF Inv, IndexInv, AllocationInProgress, HeldSet
  <2>6. /\ Cardinality(blocks) \in Nat /\ Cardinality(HeldSet) \in Nat
    BY HeldFinite, <1>3, FS_Subset, FS_CardinalityType DEF TypeOK
  <2>7. rest - b = count BY <1>4, <1>8
  <2>8. /\ Cardinality(blocks') + count' = asked'
        /\ Cardinality({y \in Blocks : Held(y)}') + count' <= Capacity
    <3> DEFINE m == Cardinality(blocks)
               h == Cardinality(HeldSet)
    <3>1. m \in Nat /\ h \in Nat /\ m + count = asked /\ h + count <= Capacity
      BY <2>5, <2>6
    <3>2. /\ Cardinality(blocks') = m + count
          /\ Cardinality({y \in Blocks : Held(y)}') = h + count
          /\ count' = 0 /\ asked' = asked
      BY <1>1, <2>3, <2>4, <2>7
    <3> HIDE DEF m, h
    <3> QED BY <1>4, <3>1, <3>2
  <2> QED BY <1>1, <2>1, <2>2, <2>8 DEF AllocationInProgress
<1> QED BY <1>12, <1>14, <1>15, <1>16, <1>17, <1>18, <1>19 DEF Inv, IndexInv

(* Without ranges every block below nextUnused is held, so the blocks      *)
(* still needed fit above it.                                              *)
LEMMA UnusedSuffices ==
    ASSUME Inv, Starts(freeRanges) = {}
    PROVE  /\ \A y \in Blocks : Held(y) <=> y < nextUnused
           /\ Cardinality(HeldSet) = nextUnused
           /\ nextUnused + count <= Capacity
<1>1. \A y \in Blocks : Held(y) <=> y < nextUnused
  <2>1. \A y \in Blocks : ~Covered(y) BY DEF Covered, Starts
  <2> QED BY <2>1 DEF Inv, IndexInv, IndexExact
<1>2. nextUnused \in 0 .. Capacity BY DEF Inv, TypeOK
<1>3. HeldSet = 0 .. nextUnused - 1
  BY <1>1, <1>2 DEF HeldSet, Blocks
<1>4. Cardinality(HeldSet) = nextUnused
  <2>1. CASE nextUnused = 0
    <3>1. HeldSet = {} BY <1>3, <2>1
    <3> QED BY <2>1, <3>1, FS_EmptySet
  <2>2. CASE nextUnused # 0 BY <1>2, <1>3, <2>2, FS_Interval
  <2> QED BY <2>1, <2>2
<1>5. Cardinality(HeldSet) + count <= Capacity
  BY DEF Inv, IndexInv, AllocationInProgress, HeldSet
<1> QED BY <1>1, <1>4, <1>5

LEMMA TakeUnusedInv ==
    ASSUME Inv, TakeUnused PROVE Inv'
<1> DEFINE got == nextUnused .. nextUnused + count - 1
<1>1. /\ busy /\ count > 0 /\ Starts(freeRanges) = {}
      /\ blocks' = blocks \cup got
      /\ nextUnused' = nextUnused + count
      /\ count' = 0
      /\ UNCHANGED <<references, freeRanges, freeEnds, freeStarts, busy, asked, result>>
  BY DEF TakeUnused
<1>2. /\ \A y \in Blocks : Held(y) <=> y < nextUnused
      /\ Cardinality(HeldSet) = nextUnused
      /\ nextUnused + count <= Capacity
  BY <1>1, UnusedSuffices
<1>3. TypeOK /\ nextUnused \in Nat /\ count \in Nat
  BY DEF Inv, TypeOK
<1>4. \A y \in got : y \in Blocks /\ ~Held(y)
  BY <1>2, <1>3 DEF Blocks
<1>5. TypeOK'
  <2>1. blocks' \subseteq Blocks BY <1>1, <1>3, <1>4 DEF TypeOK
  <2>2. nextUnused' \in 0 .. Capacity BY <1>1, <1>2, <1>3
  <2> QED BY <1>1, <1>3, <2>1, <2>2 DEF TypeOK
<1>6. \A y \in Blocks : freeRanges[y] = Absent
  BY <1>1 DEF Starts
<1>7. RangesBelowFrontier' /\ RangesMaximal' /\ HeapCoversRanges'
  BY <1>1, <1>6 DEF RangesBelowFrontier, RangesMaximal, HeapCoversRanges
<1>8. EndsMirrorRanges'
  BY <1>1 DEF Inv, IndexInv, EndsMirrorRanges
<1>9. \A y \in Blocks : Held(y)' <=> Held(y) \/ y \in got
  BY <1>1 DEF Held
<1>10. IndexExact'
  <2> SUFFICES ASSUME NEW y \in Blocks
               PROVE  Held(y)' <=> y < nextUnused' /\ ~Covered(y)'
    BY DEF IndexExact
  <2>1. ~Covered(y)' BY <1>1, <1>6 DEF Covered
  <2>2. y \in Nat BY DEF Blocks
  <2>3. y < nextUnused' <=> y < nextUnused \/ y \in got BY <1>1, <1>3, <2>2
  <2> QED BY <1>2, <1>9, <2>1, <2>3
<1>11. AllocationInProgress'
  <2>1. \A x \in blocks' : references'[x] = 0
    <3>1. \A x \in blocks : references[x] = 0
      BY DEF Inv, IndexInv, AllocationInProgress
    <3>2. \A x \in got : references[x] = 0
      BY <1>3, <1>4 DEF TypeOK, Held
    <3> QED BY <1>1, <3>1, <3>2
  <2>2. \A x \in blocks' : \A y \in Blocks : ~Held(y)' => x < y
    <3> SUFFICES ASSUME NEW x \in blocks', NEW y \in Blocks, ~Held(y)' PROVE x < y
      OBVIOUS
    <3>1. ~Held(y) /\ y \notin got BY <1>9
    <3>2. CASE x \in blocks
      BY <3>1, <3>2 DEF Inv, IndexInv, AllocationInProgress
    <3>3. CASE x \in got
      BY <1>2, <1>3, <3>1, <3>3 DEF Blocks
    <3> QED BY <1>1, <3>2, <3>3
  <2>3. /\ Cardinality(blocks') = Cardinality(blocks) + count
        /\ Cardinality(HeldSet \cup got) = Cardinality(HeldSet) + count
    <3> DEFINE top == nextUnused + count
    <3>1. top \in Nat /\ nextUnused < top /\ top <= Capacity /\ top - nextUnused = count
      BY <1>1, <1>2, <1>3
    <3>2. got = nextUnused .. top - 1 BY <1>3
    <3> HIDE DEF top, got
    <3>3. \A y \in nextUnused .. top - 1 : ~Held(y) BY <1>4, <3>2
    <3>4. /\ Cardinality(blocks \cup (nextUnused .. top - 1))
               = Cardinality(blocks) + (top - nextUnused)
          /\ Cardinality(HeldSet \cup (nextUnused .. top - 1))
               = Cardinality(HeldSet) + (top - nextUnused)
      BY <1>3, <3>1, <3>3, CollectCount
    <3> QED BY <1>1, <3>1, <3>2, <3>4
  <2>4. {y \in Blocks : Held(y)}' = HeldSet \cup got
    BY <1>4, <1>9 DEF HeldSet
  <2>5. Cardinality(blocks) \in Nat /\ Cardinality(blocks) + count = asked
    BY HeldFinite, <1>3, FS_Subset, FS_CardinalityType
    DEF TypeOK, Inv, IndexInv, AllocationInProgress
  <2>6. /\ Cardinality(blocks') + count' = asked'
        /\ Cardinality({y \in Blocks : Held(y)}') + count' <= Capacity
    <3> DEFINE m == Cardinality(blocks)
    <3>1. Cardinality({y \in Blocks : Held(y)}') = nextUnused + count
      BY <1>2, <2>3, <2>4
    <3>2. m \in Nat /\ m + count = asked /\ Cardinality(blocks') = m + count
      BY <2>3, <2>5
    <3> HIDE DEF m
    <3> QED BY <1>1, <1>2, <1>3, <3>1, <3>2
  <2> QED BY <1>1, <2>1, <2>2, <2>6 DEF AllocationInProgress
<1> QED BY <1>5, <1>7, <1>8, <1>10, <1>11 DEF Inv, IndexInv

(* _compact_free_index changes nothing that the index is relied on for.    *)
LEMMA CompactKeeps ==
    ASSUME NEW ranges \in [Blocks -> Ends \cup {Absent}],
           NEW ends \in [Ends -> Blocks \cup {Absent}],
           NEW starts \in [Blocks -> Nat],
           CompactFreeIndex(ranges, ends, starts),
           \A b \in Blocks : \A e \in Ends : ranges[b] = e <=> ends[e] = b,
           \A b \in Blocks : ranges[b] # Absent => starts[b] > 0
    PROVE  /\ freeRanges' = ranges
           /\ freeEnds' \in [Ends -> Blocks \cup {Absent}]
           /\ freeStarts' \in [Blocks -> Nat]
           /\ EndsMirrorRanges' /\ HeapCoversRanges'
<1>1. freeRanges' = ranges BY DEF CompactFreeIndex
<1>2. /\ freeEnds' \in [Ends -> Blocks \cup {Absent}]
      /\ EndsMirrorRanges'
  <2>1. CASE Starts(ranges) = {}
    <3>1. freeEnds' = [e \in Ends |-> Absent] BY <2>1 DEF CompactFreeIndex
    <3>2. \A b \in Blocks : ranges[b] = Absent BY <2>1 DEF Starts
    <3> QED BY <1>1, <3>1, <3>2 DEF EndsMirrorRanges, Ends, Blocks, Absent
  <2>2. CASE Starts(ranges) # {}
    BY <1>1, <2>2 DEF CompactFreeIndex, EndsMirrorRanges
  <2> QED BY <2>1, <2>2
<1>3. /\ freeStarts' \in [Blocks -> Nat] /\ HeapCoversRanges'
  <2>1. CASE freeStarts' = Rebuilt(ranges)
    BY <1>1, <2>1 DEF Rebuilt, HeapCoversRanges
  <2>2. CASE freeStarts' = starts
    BY <1>1, <2>2 DEF HeapCoversRanges
  <2> QED BY <2>1, <2>2 DEF CompactFreeIndex
<1> QED BY <1>1, <1>2, <1>3

LEMMA AllocateReturnInv ==
    ASSUME Inv, AllocateReturn PROVE Inv'
<1>1. /\ busy /\ count = 0
      /\ references' = [b \in Blocks |-> IF b \in blocks THEN 1 ELSE references[b]]
      /\ CompactFreeIndex(freeRanges, freeEnds, freeStarts)
      /\ result' = [asked |-> asked, blocks |-> blocks]
      /\ busy' = FALSE /\ asked' = 0 /\ count' = 0 /\ blocks' = {}
      /\ UNCHANGED nextUnused
  BY DEF AllocateReturn
<1>2. TypeOK /\ IndexInv BY DEF Inv
<1>3. /\ freeRanges' = freeRanges
      /\ freeEnds' \in [Ends -> Blocks \cup {Absent}]
      /\ freeStarts' \in [Blocks -> Nat]
      /\ EndsMirrorRanges' /\ HeapCoversRanges'
  <2>1. \A b \in Blocks : \A e \in Ends : freeRanges[b] = e <=> freeEnds[e] = b
    BY <1>2 DEF IndexInv, EndsMirrorRanges
  <2>2. \A b \in Blocks : freeRanges[b] # Absent => freeStarts[b] > 0
    BY <1>2 DEF IndexInv, HeapCoversRanges
  <2>3. /\ freeRanges \in [Blocks -> Ends \cup {Absent}]
        /\ freeEnds \in [Ends -> Blocks \cup {Absent}]
        /\ freeStarts \in [Blocks -> Nat]
    BY <1>2 DEF TypeOK
  <2> QED BY <1>1, <2>1, <2>2, <2>3, CompactKeeps
<1>4. \A b \in Blocks : Held(b)' <=> Held(b)
  BY <1>1, <1>2 DEF Held
<1>5. TypeOK'
  <2>1. references' \in [Blocks -> 0 .. MaxReferences]
    <3>1. 1 \in 0 .. MaxReferences OBVIOUS
    <3>2. \A b \in Blocks : references[b] \in 0 .. MaxReferences
      BY <1>2 DEF TypeOK
    <3> QED BY <1>1, <3>1, <3>2
  <2>2. result' \in [asked : 0 .. Capacity, blocks : SUBSET Blocks]
    BY <1>1, <1>2 DEF TypeOK
  <2>3. /\ nextUnused' \in 0 .. Capacity
        /\ freeRanges' \in [Blocks -> Ends \cup {Absent}]
    BY <1>1, <1>2, <1>3 DEF TypeOK
  <2>4. asked' \in 0 .. Capacity /\ count' \in 0 .. Capacity /\ blocks' \subseteq Blocks
    BY <1>1
  <2> QED BY <1>1, <1>3, <2>1, <2>2, <2>3, <2>4 DEF TypeOK
<1>6. RangesBelowFrontier'
  BY <1>1, <1>2, <1>3 DEF IndexInv, RangesBelowFrontier
<1>7. RangesMaximal'
  BY <1>2, <1>3, <1>4 DEF IndexInv, RangesMaximal, Blocks
<1>8. IndexExact'
  BY <1>1, <1>2, <1>3, <1>4 DEF IndexInv, IndexExact, Covered
<1>9. AllocationInProgress'
  <2>1. {b \in Blocks : Held(b)}' = HeldSet BY <1>4 DEF HeldSet
  <2>2. Cardinality(HeldSet) + 0 <= Capacity
    BY <1>1, <1>2 DEF IndexInv, AllocationInProgress, HeldSet
  <2>3. Cardinality(blocks') + count' = asked'
    BY <1>1, FS_EmptySet
  <2> QED BY <1>1, <2>1, <2>2, <2>3 DEF AllocationInProgress
<1> QED BY <1>3, <1>5, <1>6, <1>7, <1>8, <1>9 DEF Inv, IndexInv

(* retain, and release by a holder that is not the last.                   *)
LEMMA CountOnlyInv ==
    ASSUME Inv, NEW b \in Blocks, Retain(b) \/ ReleaseShared(b) PROVE Inv'
<1>1. /\ UNCHANGED <<index, call, result>>
      /\ references' \in [Blocks -> 0 .. MaxReferences]
      /\ \A c \in Blocks : references'[c] > 0 <=> references[c] > 0
      /\ \A c \in Blocks : c # b => references'[c] = references[c]
      /\ references[b] > 0
      /\ ~busy
  <2>1. CASE Retain(b)
    <3>1. references[b] + 1 \in 0 .. MaxReferences BY <2>1 DEF Retain
    <3> QED BY <2>1, <3>1 DEF Retain, Inv, TypeOK
  <2>2. CASE ReleaseShared(b)
    <3>1. references[b] - 1 \in 1 .. MaxReferences
      BY <2>2 DEF ReleaseShared, Inv, TypeOK
    <3> QED BY <2>2, <3>1 DEF ReleaseShared, Inv, TypeOK
  <2> QED BY <2>1, <2>2
<1>2. TypeOK'
  <2>1. /\ UNCHANGED <<nextUnused, freeRanges, freeEnds, freeStarts>>
        /\ UNCHANGED <<busy, asked, count, blocks, result>>
    BY <1>1 DEF index, call
  <2>2. TypeOK BY DEF Inv
  <2>3. references' \in [Blocks -> 0 .. MaxReferences] BY <1>1
  <2> QED BY <2>1, <2>2, <2>3 DEF TypeOK
<1>3. \A c \in Blocks : Held(c)' <=> Held(c)
  BY <1>1 DEF Held, call
<1>4. AllocationInProgress'
  <2>1. {c \in Blocks : Held(c)}' = {c \in Blocks : Held(c)} BY <1>3
  <2>2. blocks = {} BY <1>1 DEF Inv, IndexInv, AllocationInProgress
  <2> QED BY <1>1, <2>1, <2>2 DEF Inv, IndexInv, AllocationInProgress, call
<1> QED BY <1>1, <1>2, <1>3, <1>4, SameIndex DEF Inv, IndexInv

----------------------------------------------------------------------------
(* Two ranges never touch: at least one held block lies between them.      *)
LEMMA RangesApart ==
    ASSUME Inv, NEW c \in Blocks, NEW d \in Blocks, c < d,
           freeRanges[c] # Absent, freeRanges[d] # Absent
    PROVE  freeRanges[c] < d
<1>1. /\ freeRanges[c] \in Nat /\ freeRanges[d] \in Nat
      /\ c \in Nat /\ d \in Nat /\ d < freeRanges[d]
  BY DEF Inv, TypeOK, IndexInv, RangesBelowFrontier, Ends, Blocks
<1>2. Held(d - 1) /\ d - 1 \in Blocks
  BY <1>1 DEF Inv, IndexInv, RangesMaximal, Blocks
<1>3. ~Covered(d - 1) BY <1>2 DEF Inv, IndexInv, IndexExact
<1>4. freeRanges[c] <= d - 1 BY <1>1, <1>3 DEF Covered
<1> QED BY <1>1, <1>4

(* What release finds around the block it frees: begin .. end - 1 is the   *)
(* merged range, and every other range lies clearly on one side of it.     *)
LEMMA ReleaseSurroundings ==
    ASSUME Inv, NEW b \in Blocks, Held(b), NEW begin, NEW end, NEW right,
           begin = IF freeEnds[b] = Absent THEN b ELSE freeEnds[b],
           right = (b + 1 \in Blocks /\ freeRanges[b + 1] # Absent),
           end = IF right THEN freeRanges[b + 1] ELSE b + 1
    PROVE  /\ begin \in Blocks /\ begin <= b /\ b < end /\ end \in Ends
           /\ b < nextUnused /\ end <= nextUnused
           /\ right => end < nextUnused /\ end > b + 1
           /\ freeEnds[b] # Absent => begin < b /\ freeRanges[begin] = b
           /\ freeEnds[b] = Absent => freeRanges[b] = Absent
           /\ \A c \in Blocks : freeRanges[c] # Absent /\ c # begin /\ c # b + 1 =>
                 (c < begin /\ freeRanges[c] < begin) \/ end < c
           /\ \A c \in Blocks : freeRanges[c] # Absent /\ c # begin => freeRanges[c] # b
           /\ \A y \in Blocks : begin <= y /\ y < end /\ y # b => ~Held(y)
           /\ begin > 0 => Held(begin - 1)
           /\ end \in Blocks /\ end < nextUnused => Held(end)
<1>1. TypeOK /\ b \in Nat /\ nextUnused \in 0 .. Capacity
  BY DEF Inv, TypeOK, Blocks
<1>2. b < nextUnused /\ ~Covered(b) BY DEF Inv, IndexInv, IndexExact
<1>3. \A c \in Blocks : freeRanges[c] # Absent =>
        /\ freeRanges[c] \in Nat /\ c < freeRanges[c] /\ freeRanges[c] < nextUnused
        /\ c <= b => freeRanges[c] <= b
  BY <1>1, <1>2 DEF Inv, TypeOK, IndexInv, RangesBelowFrontier, Covered, Ends, Blocks
<1>4. b \in Ends BY <1>1 DEF Ends, Blocks
<1>5. freeRanges[b] = Absent BY <1>1, <1>3
<1>6. \A c \in Blocks : freeRanges[c] = b <=> freeEnds[b] = c
  BY <1>4 DEF Inv, IndexInv, EndsMirrorRanges
<1>7. freeEnds[b] \in Blocks \cup {Absent} BY <1>1, <1>4 DEF TypeOK
<1>8. ASSUME freeEnds[b] # Absent
      PROVE  begin \in Blocks /\ freeRanges[begin] = b /\ begin < b
  <2>1. begin \in Blocks /\ freeRanges[begin] = b BY <1>6, <1>7, <1>8
  <2>2. b # Absent BY <1>1 DEF Absent
  <2> QED BY <1>3, <2>1, <2>2
<1>9. begin \in Blocks /\ begin <= b BY <1>1, <1>8
<1>10. ASSUME right PROVE end \in Nat /\ b + 1 < end /\ end < nextUnused
  BY <1>3, <1>10
<1>11. end \in Ends /\ b < end /\ end <= nextUnused
  BY <1>1, <1>2, <1>10 DEF Ends
<1>12. \A c \in Blocks : freeRanges[c] # Absent /\ c # begin => freeRanges[c] # b
  <2>1. \A c \in Blocks : c # Absent BY DEF Blocks, Absent
  <2> QED BY <1>6, <2>1
<1>13. ASSUME NEW c \in Blocks, freeRanges[c] # Absent, c # begin, c # b + 1
       PROVE  (c < begin /\ freeRanges[c] < begin) \/ end < c
  <2>1. c \in Nat /\ begin \in Nat /\ end \in Nat BY <1>9, <1>11 DEF Blocks, Ends
  <2>2. CASE c > b
    <3>1. c > b + 1 BY <1>1, <1>13, <2>1, <2>2
    <3>2. CASE right
      <4>1. freeRanges[b + 1] < c BY <1>13, <3>1, <3>2, RangesApart
      <4> QED BY <3>2, <4>1
    <3>3. CASE ~right BY <3>1, <3>3
    <3> QED BY <3>2, <3>3
  <2>3. CASE c <= b
    <3>1. freeRanges[c] \in Nat /\ c < freeRanges[c] /\ freeRanges[c] < b
      BY <1>1, <1>3, <1>12, <1>13, <2>3
    <3>2. CASE freeEnds[b] = Absent BY <2>1, <3>1, <3>2
    <3>3. CASE freeEnds[b] # Absent
      <4>1. begin \in Blocks /\ freeRanges[begin] = b /\ begin < b BY <1>8, <3>3
      <4>2. b # Absent BY <1>1 DEF Absent
      <4>3. ~(begin < c)
        <5> SUFFICES ASSUME begin < c PROVE FALSE OBVIOUS
        <5>1. b < c BY <1>13, <4>1, <4>2, RangesApart
        <5> QED BY <1>1, <2>1, <2>3, <5>1
      <4>4. c < begin BY <1>13, <2>1, <4>3
      <4>5. freeRanges[c] < begin BY <1>13, <4>1, <4>2, <4>4, RangesApart
      <4> QED BY <4>4, <4>5
    <3> QED BY <3>2, <3>3
  <2> QED BY <1>1, <2>1, <2>2, <2>3
<1>14. ASSUME NEW y \in Blocks, begin <= y, y < end, y # b PROVE ~Held(y)
  <2>1. y \in Nat /\ begin \in Nat /\ end \in Nat BY <1>9, <1>11 DEF Blocks, Ends
  <2>2. Covered(y)
    <3>1. CASE y < b
      <4>1. freeEnds[b] # Absent BY <1>14, <2>1, <3>1, <1>1
      <4>2. freeRanges[begin] = b /\ begin < b BY <1>8, <4>1
      <4>3. b # Absent BY <1>1 DEF Absent
      <4> QED BY <1>9, <1>14, <3>1, <4>2, <4>3 DEF Covered
    <3>2. CASE y > b
      <4>1. y >= b + 1 BY <1>1, <2>1, <3>2
      <4>2. right BY <1>1, <1>14, <2>1, <4>1
      <4> QED BY <1>14, <4>1, <4>2 DEF Covered
    <3> QED BY <1>1, <1>14, <2>1, <3>1, <3>2
  <2> QED BY <2>2 DEF Inv, IndexInv, IndexExact
<1>15. ASSUME begin > 0 PROVE Held(begin - 1)
  <2>1. CASE freeEnds[b] # Absent
    <3>1. freeRanges[begin] # Absent BY <1>1, <1>8, <2>1 DEF Absent
    <3> QED BY <1>9, <1>15, <3>1 DEF Inv, IndexInv, RangesMaximal
  <2>2. CASE freeEnds[b] = Absent
    <3> SUFFICES ASSUME ~Held(b - 1) PROVE FALSE BY <2>2
    <3>1. b - 1 \in Blocks /\ b - 1 < nextUnused BY <1>1, <1>2, <1>15, <2>2 DEF Blocks
    <3>2. Covered(b - 1) BY <3>1 DEF Inv, IndexInv, IndexExact
    <3>3. PICK c \in Blocks : freeRanges[c] # Absent /\ c <= b - 1 /\ b - 1 < freeRanges[c]
      BY <3>2 DEF Covered
    <3>4. c \in Nat BY DEF Blocks
    <3>5. freeRanges[c] = b BY <1>1, <1>3, <3>3, <3>4
    <3>6. c # Absent BY <3>4 DEF Absent
    <3> QED BY <1>6, <2>2, <3>5, <3>6
  <2> QED BY <2>1, <2>2
<1>16. ASSUME end \in Blocks, end < nextUnused PROVE Held(end)
  <2>1. CASE right BY <1>16, <2>1 DEF Inv, IndexInv, RangesMaximal
  <2>2. CASE ~right
    <3> SUFFICES ASSUME ~Held(end) PROVE FALSE OBVIOUS
    <3>1. end = b + 1 /\ freeRanges[b + 1] = Absent BY <1>16, <2>2
    <3>2. Covered(end) BY <1>16 DEF Inv, IndexInv, IndexExact
    <3>3. PICK c \in Blocks : freeRanges[c] # Absent /\ c <= end /\ end < freeRanges[c]
      BY <3>2 DEF Covered
    <3>4. c \in Nat BY DEF Blocks
    <3>5. c <= b BY <1>1, <3>1, <3>3, <3>4
    <3>6. freeRanges[c] \in Nat /\ freeRanges[c] <= b BY <1>3, <3>3, <3>5
    <3> QED BY <1>1, <3>1, <3>3, <3>6
  <2> QED BY <2>1, <2>2
<1> QED BY <1>2, <1>5, <1>8, <1>9, <1>10, <1>11, <1>12, <1>13, <1>14, <1>15, <1>16

LEMMA ReleaseLastInv ==
    ASSUME Inv, NEW b \in Blocks, ReleaseLast(b) PROVE Inv'
<1> DEFINE begin == IF freeEnds[b] = Absent THEN b ELSE freeEnds[b]
           right == b + 1 \in Blocks /\ freeRanges[b + 1] # Absent
           end == IF right THEN freeRanges[b + 1] ELSE b + 1
           ends1 == [e \in Ends |-> IF e = b \/ (right /\ e = end)
                                    THEN Absent ELSE freeEnds[e]]
           ranges1 == [c \in Blocks |-> IF c = b + 1 THEN Absent ELSE freeRanges[c]]
           ranges2 == [ranges1 EXCEPT ![begin] = IF end = nextUnused THEN Absent ELSE end]
           ends2 == IF end = nextUnused THEN ends1 ELSE [ends1 EXCEPT ![end] = begin]
           starts2 == IF end # nextUnused /\ freeEnds[b] = Absent
                      THEN [freeStarts EXCEPT ![begin] = @ + 1] ELSE freeStarts
<1>1. /\ ~busy /\ references[b] = 1
      /\ references' = [references EXCEPT ![b] = 0]
      /\ nextUnused' = IF end = nextUnused THEN begin ELSE nextUnused
      /\ CompactFreeIndex(ranges2, ends2, starts2)
      /\ UNCHANGED <<call, result>>
  <2>1. CASE end = nextUnused BY <2>1 DEF ReleaseLast, LeftNeighbour
  <2>2. CASE end # nextUnused BY <2>2 DEF ReleaseLast, LeftNeighbour
  <2> QED BY <2>1, <2>2
<1>2. TypeOK /\ IndexInv BY DEF Inv
<1>3. Held(b) BY <1>1 DEF Held
<1>5. /\ right = (b + 1 \in Blocks /\ freeRanges[b + 1] # Absent)
      /\ end = IF right THEN freeRanges[b + 1] ELSE b + 1
      /\ begin = IF freeEnds[b] = Absent THEN b ELSE freeEnds[b]
  OBVIOUS
<1> HIDE DEF begin, right, end
<1>4. /\ begin \in Blocks /\ begin <= b /\ b < end /\ end \in Ends
      /\ b < nextUnused /\ end <= nextUnused
      /\ right => end < nextUnused /\ end > b + 1
      /\ freeEnds[b] # Absent => begin < b /\ freeRanges[begin] = b
      /\ freeEnds[b] = Absent => freeRanges[b] = Absent
      /\ \A c \in Blocks : freeRanges[c] # Absent /\ c # begin /\ c # b + 1 =>
            (c < begin /\ freeRanges[c] < begin) \/ end < c
      /\ \A c \in Blocks : freeRanges[c] # Absent /\ c # begin => freeRanges[c] # b
      /\ \A y \in Blocks : begin <= y /\ y < end /\ y # b => ~Held(y)
      /\ begin > 0 => Held(begin - 1)
      /\ end \in Blocks /\ end < nextUnused => Held(end)
  BY <1>3, <1>5, ReleaseSurroundings
<1>6. b \in Nat /\ begin \in Nat /\ end \in Nat /\ nextUnused \in 0 .. Capacity
      /\ b \in Ends
  BY <1>2, <1>4 DEF TypeOK, Blocks, Ends
<1>7. \A c \in Blocks : ranges2[c] =
          IF c = begin THEN (IF end = nextUnused THEN Absent ELSE end)
          ELSE IF c = b + 1 THEN Absent ELSE freeRanges[c]
  BY <1>4
<1>8. \A e \in Ends : ends2[e] =
          IF end # nextUnused /\ e = end THEN begin
          ELSE IF e = b \/ (right /\ e = end) THEN Absent ELSE freeEnds[e]
  BY <1>4
<1>9. \A c \in Blocks : starts2[c] =
          IF end # nextUnused /\ freeEnds[b] = Absent /\ c = begin
          THEN freeStarts[c] + 1 ELSE freeStarts[c]
  BY <1>2, <1>4 DEF TypeOK
<1>10. ranges2 \in [Blocks -> Ends \cup {Absent}]
  BY <1>2, <1>4 DEF TypeOK
<1>11. ends2 \in [Ends -> Blocks \cup {Absent}]
  BY <1>2, <1>4 DEF TypeOK
<1>12. starts2 \in [Blocks -> Nat]
  BY <1>2, <1>4 DEF TypeOK
<1> HIDE DEF ranges1, ends1, ranges2, ends2, starts2
<1>13. ASSUME NEW c \in Blocks, NEW e \in Ends
       PROVE  ranges2[c] = e <=> ends2[e] = c
  <2>1. \A d \in Blocks : \A f \in Ends : freeRanges[d] = f <=> freeEnds[f] = d
    BY <1>2 DEF IndexInv, EndsMirrorRanges
  <2>2. c \in Nat /\ e \in Nat /\ c # Absent /\ e # Absent
    BY DEF Blocks, Ends, Absent
  <2>3. CASE c = begin
    <3>1. CASE end = nextUnused
      <4>1. ranges2[c] # e BY <1>7, <2>2, <2>3, <3>1
      <4>2. ~right BY <1>4, <1>6, <3>1
      <4>3. e # b => freeEnds[e] # begin
        BY <1>4, <1>5, <1>6, <2>1, <2>2, <2>3
      <4>4. ends2[e] # c BY <1>8, <2>2, <2>3, <3>1, <4>2, <4>3
      <4> QED BY <4>1, <4>4
    <3>2. CASE end # nextUnused
      <4>1. ranges2[c] = end BY <1>7, <2>3, <3>2
      <4>2. e # b => freeEnds[e] # begin
        BY <1>4, <1>5, <1>6, <2>1, <2>2, <2>3
      <4> QED BY <1>8, <2>2, <2>3, <3>2, <4>1, <4>2
    <3> QED BY <3>1, <3>2
  <2>4. CASE c = b + 1
    <3>1. c # begin BY <1>4, <1>6, <2>4
    <3>2. ranges2[c] # e BY <1>7, <2>2, <2>4, <3>1
    <3>3. CASE right
      <4>1. freeRanges[c] = end BY <1>5, <2>4, <3>3
      <4>2. freeEnds[e] = c => e = end BY <2>1, <4>1
      <4> QED BY <1>8, <2>2, <3>1, <3>2, <3>3, <4>2
    <3>4. CASE ~right
      <4>1. freeRanges[c] = Absent BY <1>5, <2>4, <3>4
      <4>2. freeEnds[e] # c BY <2>1, <2>2, <4>1
      <4> QED BY <1>8, <2>2, <3>1, <3>2, <4>2
    <3> QED BY <3>3, <3>4
  <2>5. CASE c # begin /\ c # b + 1
    <3>1. ranges2[c] = freeRanges[c] BY <1>7, <2>5
    <3>2. freeRanges[c] # b
      BY <1>4, <1>6, <2>5 DEF Absent
    <3>3. freeRanges[c] # end
      <4>1. CASE freeRanges[c] = Absent BY <1>6, <4>1 DEF Absent
      <4>2. CASE freeRanges[c] # Absent
        <5>1. c < freeRanges[c]
          BY <1>2, <4>2 DEF IndexInv, RangesBelowFrontier
        <5>2. (c < begin /\ freeRanges[c] < begin) \/ end < c BY <1>4, <2>5, <4>2
        <5>3. freeRanges[c] \in Nat BY <1>2, <4>2 DEF TypeOK, Ends
        <5> QED BY <1>4, <1>6, <2>2, <5>1, <5>2, <5>3
      <4> QED BY <4>1, <4>2
    <3>4. freeRanges[c] = e <=> freeEnds[e] = c BY <2>1
    <3> QED BY <1>8, <2>2, <2>5, <3>1, <3>2, <3>3, <3>4
  <2> QED BY <2>3, <2>4, <2>5
<1>14. ASSUME NEW c \in Blocks, ranges2[c] # Absent PROVE starts2[c] > 0
  <2>1. freeStarts[c] \in Nat BY <1>2 DEF TypeOK
  <2>2. CASE c = begin /\ freeEnds[b] = Absent
    BY <1>7, <1>9, <1>14, <2>1, <2>2
  <2>3. CASE ~(c = begin /\ freeEnds[b] = Absent)
    <3>1. freeRanges[c] # Absent
      BY <1>4, <1>6, <1>7, <1>14, <2>3 DEF Absent
    <3> QED BY <1>2, <1>9, <2>1, <2>3, <3>1 DEF IndexInv, HeapCoversRanges
  <2> QED BY <2>2, <2>3
<1>15. /\ freeRanges' = ranges2
       /\ freeEnds' \in [Ends -> Blocks \cup {Absent}]
       /\ freeStarts' \in [Blocks -> Nat]
       /\ EndsMirrorRanges' /\ HeapCoversRanges'
  BY <1>1, <1>10, <1>11, <1>12, <1>13, <1>14, CompactKeeps
<1>16. blocks = {} /\ blocks' = {} /\ count = 0 /\ ~busy'
  BY <1>1, <1>2 DEF IndexInv, AllocationInProgress, call
<1>17. \A y \in Blocks : Held(y)' <=> Held(y) /\ y # b
  BY <1>1, <1>2, <1>16 DEF Held, TypeOK
<1>18. TypeOK'
  <2>1. references' \in [Blocks -> 0 .. MaxReferences] BY <1>1, <1>2 DEF TypeOK
  <2>2. nextUnused' \in 0 .. Capacity BY <1>1, <1>4, <1>6
  <2>3. UNCHANGED <<busy, asked, count, blocks, result>> BY <1>1 DEF call
  <2> QED BY <1>2, <1>10, <1>15, <2>1, <2>2, <2>3 DEF TypeOK
(* Ranges other than the merged one are where they were, clear of it.      *)
<1>19. ASSUME NEW c \in Blocks, ranges2[c] # Absent, c # begin
       PROVE  /\ ranges2[c] = freeRanges[c] /\ freeRanges[c] # Absent
              /\ freeRanges[c] \in Nat /\ c < freeRanges[c] /\ freeRanges[c] < nextUnused
              /\ freeRanges[c] # b /\ c # b + 1
              /\ (c < begin /\ freeRanges[c] < begin) \/ end < c
              /\ c > 0 => Held(c - 1)
              /\ freeRanges[c] \in Blocks => Held(freeRanges[c])
  <2>1. ranges2[c] = freeRanges[c] /\ freeRanges[c] # Absent /\ c # b + 1
    BY <1>7, <1>19
  <2>2. freeRanges[c] \in Nat /\ c < freeRanges[c] /\ freeRanges[c] < nextUnused
    BY <1>2, <2>1 DEF TypeOK, IndexInv, RangesBelowFrontier, Ends
  <2>3. freeRanges[c] # b /\ ((c < begin /\ freeRanges[c] < begin) \/ end < c)
    BY <1>4, <1>19, <2>1
  <2>4. (c > 0 => Held(c - 1)) /\ (freeRanges[c] \in Blocks => Held(freeRanges[c]))
    BY <1>2, <2>1 DEF IndexInv, RangesMaximal
  <2> QED BY <2>1, <2>2, <2>3, <2>4
<1>20. RangesBelowFrontier'
  <2> SUFFICES ASSUME NEW c \in Blocks, ranges2[c] # Absent
               PROVE  c < ranges2[c] /\ ranges2[c] < nextUnused'
    BY <1>15 DEF RangesBelowFrontier
  <2>1. c \in Nat BY DEF Blocks
  <2>2. CASE c = begin
    BY <1>1, <1>4, <1>6, <1>7, <2>2
  <2>3. CASE c # begin
    <3>1. CASE end = nextUnused
      BY <1>1, <1>6, <1>19, <2>1, <2>3, <3>1
    <3>2. CASE end # nextUnused
      BY <1>1, <1>19, <2>3, <3>2
    <3> QED BY <3>1, <3>2
  <2> QED BY <2>2, <2>3
<1> DEFINE HeldNext(y) == references'[y] > 0 \/ y \in blocks'
<1>21. \A y \in Blocks : Held(y) /\ y # b => HeldNext(y)
  BY <1>17 DEF Held
<1>22. RangesMaximal'
  <2> SUFFICES ASSUME NEW c \in Blocks, ranges2[c] # Absent
               PROVE  /\ c > 0 => HeldNext(c - 1)
                      /\ ranges2[c] \in Blocks => HeldNext(ranges2[c])
    BY <1>15 DEF RangesMaximal, Held
  <2> HIDE DEF HeldNext
  <2>1. c \in Nat BY DEF Blocks
  <2>2. c > 0 => c - 1 \in Blocks BY <2>1 DEF Blocks
  <2>3. CASE c = begin
    <3>1. ranges2[c] = end /\ end # nextUnused BY <1>7, <2>3
    <3>2. end < nextUnused /\ end # b BY <1>4, <1>6, <3>1
    <3>3. begin > 0 => begin - 1 # b BY <1>4, <1>6
    <3> QED BY <1>4, <1>21, <2>2, <2>3, <3>1, <3>2, <3>3
  <2>4. CASE c # begin
    <3>1. c > 0 => c - 1 # b BY <1>6, <1>19, <2>1, <2>4
    <3> QED BY <1>19, <1>21, <2>2, <2>4, <3>1
  <2> QED BY <2>3, <2>4
<1>23. IndexExact'
  <2> SUFFICES ASSUME NEW y \in Blocks
               PROVE  Held(y)' <=> y < nextUnused' /\ ~Covered(y)'
    BY DEF IndexExact
  <2> DEFINE CoveredNext == \E c \in Blocks : ranges2[c] # Absent /\ c <= y /\ y < ranges2[c]
  <2>1. Covered(y)' <=> CoveredNext BY <1>15 DEF Covered
  <2>2. y \in Nat BY DEF Blocks
  <2>3. Held(y) <=> y < nextUnused /\ ~Covered(y)
    BY <1>2 DEF IndexInv, IndexExact
  <2>4. CASE begin <= y /\ y < end
    <3>1. ~Held(y)' BY <1>4, <1>17, <2>4
    <3>2. CASE end = nextUnused BY <1>1, <1>6, <2>2, <2>4, <3>1, <3>2
    <3>3. CASE end # nextUnused
      <4>1. ranges2[begin] = end /\ end # Absent BY <1>4, <1>6, <1>7, <3>3 DEF Absent
      <4>2. CoveredNext BY <1>4, <2>4, <4>1
      <4> QED BY <2>1, <3>1, <4>2
    <3> QED BY <3>2, <3>3
  <2>5. CASE ~(begin <= y /\ y < end)
    <3>1. y # b BY <1>4, <1>6, <2>5
    <3>2. Held(y)' <=> Held(y) BY <1>17, <3>1
    <3>3. ASSUME CoveredNext PROVE Covered(y)
      <4>1. PICK c \in Blocks : ranges2[c] # Absent /\ c <= y /\ y < ranges2[c]
        BY <3>3
      <4>2. c # begin BY <1>6, <1>7, <2>2, <2>5, <4>1
      <4> QED BY <1>19, <4>1, <4>2 DEF Covered
    <3>4. ASSUME Covered(y) PROVE CoveredNext
      <4>1. PICK c \in Blocks : freeRanges[c] # Absent /\ c <= y /\ y < freeRanges[c]
        BY <3>4 DEF Covered
      <4>2. c \in Nat BY DEF Blocks
      <4>3. c # begin
        <5> SUFFICES ASSUME c = begin PROVE FALSE OBVIOUS
        <5>1. freeEnds[b] # Absent BY <1>4, <1>5, <4>1
        <5>2. freeRanges[c] = b BY <1>4, <5>1
        <5> QED BY <1>4, <1>6, <2>2, <2>5, <4>1, <5>2
      <4>4. c # b + 1
        <5> SUFFICES ASSUME c = b + 1 PROVE FALSE OBVIOUS
        <5>1. right /\ freeRanges[c] = end BY <1>5, <4>1
        <5> QED BY <1>4, <1>6, <2>2, <2>5, <4>1, <5>1
      <4>5. ranges2[c] = freeRanges[c] BY <1>7, <4>3, <4>4
      <4> QED BY <4>1, <4>5
    <3>5. CASE end = nextUnused
      <4>1. ASSUME y >= end PROVE ~Held(y)'
        BY <1>6, <2>2, <2>3, <3>2, <3>5, <4>1
      <4>2. y < begin \/ y >= end BY <1>6, <2>2, <2>5
      <4>3. ASSUME y < begin PROVE y < nextUnused
        BY <1>4, <1>6, <2>2, <4>3
      <4>4. y >= end => ~(y < begin) BY <1>4, <1>6, <2>2
      <4> HIDE DEF CoveredNext
      <4> QED BY <1>1, <2>1, <2>3, <3>2, <3>3, <3>4, <3>5, <4>1, <4>2, <4>3, <4>4
    <3>6. CASE end # nextUnused
      <4> HIDE DEF CoveredNext
      <4> QED BY <1>1, <2>1, <2>3, <3>2, <3>3, <3>4, <3>6
    <3> QED BY <3>5, <3>6
  <2> QED BY <2>4, <2>5
<1>24. AllocationInProgress'
  <2>1. {y \in Blocks : Held(y)}' \subseteq Blocks BY <1>17
  <2>2. Cardinality({y \in Blocks : Held(y)}') <= Capacity
    BY <2>1, HeldFinite, FS_Subset
  <2>3. Cardinality({y \in Blocks : Held(y)}') \in Nat
    BY <2>1, HeldFinite, FS_Subset, FS_CardinalityType
  <2>4. count' = 0 /\ asked' = asked /\ Cardinality(blocks') + count' = asked'
    BY <1>1, <1>2, <1>16 DEF IndexInv, AllocationInProgress, call
  <2> QED BY <1>16, <2>2, <2>3, <2>4 DEF AllocationInProgress
<1> QED BY <1>15, <1>18, <1>20, <1>22, <1>23, <1>24 DEF Inv, IndexInv

----------------------------------------------------------------------------
(* Every step keeps the invariant.                                         *)
LEMMA StepInv == Inv /\ [Next]_vars => Inv'
<1> SUFFICES ASSUME Inv, [Next]_vars PROVE Inv' OBVIOUS
<1>1. ASSUME NEW n \in 0 .. Capacity, AllocateCall(n) PROVE Inv'
  BY <1>1, AllocateCallInv
<1>2. ASSUME NEW b \in Blocks, PopTombstone(b) PROVE Inv'
  BY <1>2, PopTombstoneInv
<1>3. ASSUME NEW b \in Blocks, TakePartOfRange(b) PROVE Inv'
  BY <1>3, TakePartOfRangeInv
<1>4. ASSUME NEW b \in Blocks, TakeWholeRange(b) PROVE Inv'
  BY <1>4, TakeWholeRangeInv
<1>5. CASE TakeUnused BY <1>5, TakeUnusedInv
<1>6. CASE AllocateReturn BY <1>6, AllocateReturnInv
<1>7. ASSUME NEW b \in Blocks, Retain(b) \/ ReleaseShared(b) PROVE Inv'
  BY <1>7, CountOnlyInv
<1>8. ASSUME NEW b \in Blocks, ReleaseLast(b) PROVE Inv'
  BY <1>8, ReleaseLastInv
<1>9. CASE UNCHANGED vars
  <2>1. /\ UNCHANGED <<references, nextUnused, freeRanges, freeEnds, freeStarts>>
        /\ UNCHANGED <<busy, asked, count, blocks, result>>
    BY <1>9 DEF vars, index, call
  <2> QED BY <2>1 DEF Inv, TypeOK, IndexInv, RangesBelowFrontier, RangesMaximal,
             EndsMirrorRanges, IndexExact, HeapCoversRanges, AllocationInProgress,
             Held, Covered
<1> QED BY <1>1, <1>2, <1>3, <1>4, <1>5, <1>6, <1>7, <1>8, <1>9 DEF Next, AllocateStep

(* The types of the pool's variables; in particular nextUnused never       *)
(* leaves the pool, whatever allocate and release do.                      *)
THEOREM TypeCorrect == Spec => []TypeOK
<1>1. Inv => TypeOK BY DEF Inv
<1> QED BY <1>1, InitInv, StepInv, PTL DEF Spec

(* The index of _BlockPool describes the free blocks exactly, with maximal *)
(* ranges, for every capacity and after every history of calls.            *)
THEOREM IndexCorrect == Spec => []IndexInv
<1>1. Inv => IndexInv BY DEF Inv
<1> QED BY <1>1, InitInv, StepInv, PTL DEF Spec

(* allocate collects the blocks of its answer in ascending order.          *)
THEOREM CollectsAscending == Spec => CollectedAscending
<1> DEFINE Ascends == busy /\ busy' => \A x \in blocks : \A y \in blocks' \ blocks : x < y
<1>1. Inv /\ Inv' /\ [Next]_vars => [Ascends]_vars
  <2> SUFFICES ASSUME Inv, Inv', Next, busy, busy' PROVE Ascends OBVIOUS
  <2>1. \A y \in Blocks : y \in blocks' /\ y \notin blocks => ~Held(y)
    <3>1. UNCHANGED references
      BY DEF Next, AllocateStep, AllocateCall, PopTombstone, TakePartOfRange,
             TakeWholeRange, TakeUnused, AllocateReturn, Retain, ReleaseShared, ReleaseLast
    <3>2. \A y \in blocks' : references'[y] = 0
      BY DEF Inv, IndexInv, AllocationInProgress
    <3> QED BY <3>1, <3>2 DEF Held
  <2>2. blocks' \subseteq Blocks BY DEF Inv, TypeOK
  <2>3. \A x \in blocks : \A y \in Blocks : ~Held(y) => x < y
    BY DEF Inv, IndexInv, AllocationInProgress
  <2> QED BY <2>1, <2>2, <2>3
<1> QED BY <1>1, InitInv, StepInv, PTL DEF Spec, CollectedAscending

(* The pool with the incremental index implements the pool that counts     *)
(* references and hands out the lowest free blocks.                        *)
THEOREM PoolRefinement == Spec => ImplementsPool
<1>1. Init => Abstract!Init
  BY DEF Init, Abstract!Init, Blocks, Abstract!Blocks
<1>2. Inv /\ [Next]_vars => [Abstract!Next]_(Abstract!vars)
  <2> SUFFICES ASSUME Inv, [Next]_vars
               PROVE  Abstract!Next \/ UNCHANGED <<references, result>>
    BY DEF Abstract!vars
  <2> USE DEF Abstract!Blocks
  <2>1. CASE AllocateReturn
    <3>1. blocks \in SUBSET (0 .. Capacity - 1) /\ asked \in 0 .. Capacity
      BY DEF Inv, TypeOK, Blocks
    <3>2. Abstract!LowestFree(references, blocks, asked)
      <4>1. blocks \subseteq {b \in 0 .. Capacity - 1 : references[b] = 0}
        BY <3>1 DEF Inv, IndexInv, AllocationInProgress
      <4>2. Cardinality(blocks) = asked
        <5>1. Cardinality(blocks) \in Nat
          BY <3>1, HeldFinite, FS_Subset, FS_CardinalityType DEF Blocks
        <5>2. Cardinality(blocks) + count = asked /\ count = 0
          BY <2>1 DEF Inv, IndexInv, AllocationInProgress, AllocateReturn
        <5> QED BY <5>1, <5>2
      <4>3. ASSUME NEW x \in blocks, NEW y \in 0 .. Capacity - 1,
                   references[y] = 0, y \notin blocks
            PROVE  x < y
        <5>1. y \in Blocks /\ ~Held(y) BY <4>3 DEF Held, Blocks
        <5> QED BY <5>1 DEF Inv, IndexInv, AllocationInProgress
      <4>4. blocks \subseteq Abstract!FreeIn(references)
        BY <4>1 DEF Abstract!FreeIn
      <4>5. \A x \in blocks : \A y \in Abstract!FreeIn(references) \ blocks : x < y
        BY <4>3 DEF Abstract!FreeIn
      <4>6. Abstract!Cardinality(blocks) = Cardinality(blocks)
        BY DEF Abstract!Cardinality, Cardinality
      <4> QED BY <4>2, <4>4, <4>5, <4>6 DEF Abstract!LowestFree
    <3>3. /\ references' = [b \in 0 .. Capacity - 1 |-> IF b \in blocks THEN 1 ELSE references[b]]
          /\ result' = [asked |-> asked, blocks |-> blocks]
      BY <2>1 DEF AllocateReturn, Blocks
    <3>4. Abstract!Allocate BY <3>1, <3>2, <3>3 DEF Abstract!Allocate
    <3> QED BY <3>4 DEF Abstract!Next
  <2>2. ASSUME NEW b \in Blocks, Retain(b) PROVE Abstract!Next
    <3>1. Abstract!Retain(b) BY <2>2 DEF Retain, Abstract!Retain
    <3> QED BY <3>1 DEF Abstract!Next, Blocks
  <2>3. ASSUME NEW b \in Blocks, ReleaseShared(b) \/ ReleaseLast(b) PROVE Abstract!Next
    <3>1. Abstract!Release(b)
      <4>1. CASE ReleaseShared(b)
        <5>1. references[b] > 0 BY <4>1 DEF ReleaseShared, Inv, TypeOK
        <5> QED BY <4>1, <5>1 DEF ReleaseShared, Abstract!Release
      <4>2. CASE ReleaseLast(b)
        BY <4>2 DEF ReleaseLast, Abstract!Release
      <4> QED BY <2>3, <4>1, <4>2
    <3> QED BY <3>1 DEF Abstract!Next, Blocks
  <2>4. ASSUME NEW n \in 0 .. Capacity, AllocateCall(n) PROVE UNCHANGED <<references, result>>
    BY <2>4 DEF AllocateCall
  <2>5. ASSUME NEW b \in Blocks, PopTombstone(b) \/ TakePartOfRange(b) \/ TakeWholeRange(b)
        PROVE  UNCHANGED <<references, result>>
    BY <2>5 DEF PopTombstone, TakePartOfRange, TakeWholeRange
  <2>6. CASE TakeUnused BY <2>6 DEF TakeUnused
  <2>7. CASE UNCHANGED vars BY <2>7 DEF vars
  <2> QED BY <2>1, <2>2, <2>3, <2>4, <2>5, <2>6, <2>7 DEF Next, AllocateStep
<1> QED BY <1>1, <1>2, InitInv, StepInv, PTL DEF Spec, ImplementsPool, Abstract!Spec

----------------------------------------------------------------------------
(* The size of the heap is a sum over the blocks, as FoldFunction adds it   *)
(* up.                                                                     *)
AddEntries(starts, unused, size, b) == starts[b] + size
Entries == INSTANCE FoldSetTheorems WITH Op <- AddEntries

LEMMA HeapSizeIsSum ==
    ASSUME NEW starts, DOMAIN starts = Blocks
    PROVE  HeapSize(starts) = Entries!FoldOver(starts, 0, 0, Blocks)
BY DEF HeapSize, FoldFunction, FoldFunctionOnSet, MapThenFoldSet, AddEntries,
       Entries!FoldOver, Entries!Shrinking

(* The sum over a finite set of blocks, with any block added last.         *)
LEMMA SumOfEntries ==
    ASSUME NEW starts, NEW S, IsFiniteSet(S), \A b \in S : starts[b] \in Nat
    PROVE  /\ Entries!FoldOver(starts, 0, 0, S) \in Nat
           /\ \A b \in S : Entries!FoldOver(starts, 0, 0, S)
                             = starts[b] + Entries!FoldOver(starts, 0, 0, S \ {b})
<1>1. Entries!Commutes(starts, 0, Nat, S) BY DEF Entries!Commutes, AddEntries
<1>2. 0 \in Nat OBVIOUS
<1>3. /\ Entries!FoldOver(starts, 0, 0, S) \in Nat
      /\ \A b \in S : Entries!FoldOver(starts, 0, 0, S)
                        = AddEntries(starts, 0, Entries!FoldOver(starts, 0, 0, S \ {b}), b)
  BY <1>1, <1>2, Entries!FoldOverRemove DEF IsFiniteSet, Entries!IsFiniteSet
<1> QED BY <1>3 DEF AddEntries

(* A rebuilt heap has as many entries as there are ranges.                 *)
LEMMA RebuiltSize ==
    ASSUME NEW ranges PROVE HeapSize(Rebuilt(ranges)) = Cardinality(Starts(ranges))
<1> DEFINE p == Rebuilt(ranges)
           Size(S) == Entries!FoldOver(p, 0, 0, S)
           K == {k \in Nat : \A S \in SUBSET Blocks : Cardinality(S) = k =>
                    Size(S) = Cardinality({b \in S : ranges[b] # Absent})}
<1>0. IsFiniteSet(Blocks) BY HeldFinite
<1>1. DOMAIN p = Blocks /\ \A b \in Blocks : p[b] = IF ranges[b] # Absent THEN 1 ELSE 0
  BY DEF Rebuilt
<1> HIDE DEF p
<1>2. 0 \in K
  <2>1. ASSUME NEW S \in SUBSET Blocks, Cardinality(S) = 0
        PROVE  Size(S) = Cardinality({b \in S : ranges[b] # Absent})
    <3>1. S = {} BY <1>0, <2>1, FS_Subset, FS_EmptySet
    <3>2. Size({}) = 0 BY Entries!FoldOverEmpty
    <3>3. {b \in S : ranges[b] # Absent} = {} BY <3>1
    <3> QED BY <3>1, <3>2, <3>3, FS_EmptySet
  <2> QED BY <2>1
<1>3. ASSUME NEW k \in K PROVE k + 1 \in K
  <2>0. k \in Nat OBVIOUS
  <2>1. ASSUME NEW S \in SUBSET Blocks, Cardinality(S) = k + 1
        PROVE  Size(S) = Cardinality({b \in S : ranges[b] # Absent})
    <3>0. IsFiniteSet(S) BY <1>0, FS_Subset
    <3>1. PICK b \in S : TRUE
      <4>1. S # {} BY <2>0, <2>1, FS_EmptySet
      <4> QED BY <4>1
    <3> DEFINE T == S \ {b}
               Of(A) == {c \in A : ranges[c] # Absent}
    <3>2. T \in SUBSET Blocks /\ Cardinality(T) = k
      BY <3>0, <3>1, <2>0, <2>1, FS_RemoveElement
    <3>3. Size(T) = Cardinality(Of(T)) BY <3>2
    <3>4. Size(S) = p[b] + Size(T)
      <4>1. \A c \in S : p[c] \in Nat BY <1>1
      <4> QED BY ONLY <3>0, <3>1, <4>1, SumOfEntries
    <3>5. IsFiniteSet(Of(T)) /\ Cardinality(Of(T)) \in Nat
      BY <3>0, FS_Subset, FS_CardinalityType
    <3>6. CASE ranges[b] # Absent
      <4>1. Of(S) = Of(T) \cup {b} /\ b \notin Of(T) BY <3>1, <3>6
      <4>2. Cardinality(Of(S)) = Cardinality(Of(T)) + 1
        <5> HIDE DEF Of
        <5> QED BY <4>1, <3>5, FS_AddElement
      <4>3. p[b] = 1 BY <3>1, <3>6, <1>1
      <4> HIDE DEF Size
      <4> QED BY <3>3, <3>4, <3>5, <4>2, <4>3
    <3>7. CASE ranges[b] = Absent
      <4>1. Of(S) = Of(T) BY <3>7
      <4>2. p[b] = 0 BY <3>1, <3>7, <1>1
      <4> HIDE DEF Size
      <4> QED BY <3>3, <3>4, <3>5, <4>1, <4>2
    <3> QED BY <3>6, <3>7
  <2> QED BY <2>0, <2>1
<1>4. K = Nat
  <2>1. K \in SUBSET Nat OBVIOUS
  <2> HIDE DEF K
  <2> QED BY <2>1, <1>2, <1>3, Entries!SetInduction
<1>5. Size(Blocks) = Cardinality({b \in Blocks : ranges[b] # Absent})
  BY <1>4, <1>0, FS_CardinalityType
<1>6. HeapSize(p) = Size(Blocks) BY <1>1, HeapSizeIsSum
<1> QED BY <1>5, <1>6 DEF Starts, p

(* After _compact_free_index the heap is within its bound.                 *)
LEMMA CompactBounds ==
    ASSUME NEW ranges \in [Blocks -> Ends \cup {Absent}], NEW ends,
           NEW starts \in [Blocks -> Nat], CompactFreeIndex(ranges, ends, starts)
    PROVE  HeapSize(freeStarts') <= 2 * Cardinality(Starts(freeRanges')) + TombstoneSlack
<1> DEFINE n == Cardinality(Starts(ranges))
<1>1. n \in Nat BY HeldFinite, FS_Subset, FS_CardinalityType DEF Starts
<1>2. freeRanges' = ranges BY DEF CompactFreeIndex
<1>3. CASE freeStarts' = Rebuilt(ranges)
  <2>1. HeapSize(freeStarts') = n BY <1>3, RebuiltSize
  <2> HIDE DEF n
  <2>2. HeapSize(freeStarts') <= 2 * n + TombstoneSlack BY <1>1, <2>1
  <2> QED BY <1>2, <2>2 DEF n
<1>4. CASE freeStarts' = starts /\ ~(HeapSize(starts) > 2 * n + TombstoneSlack)
  <2>1. HeapSize(starts) \in Nat
    <3>1. \A b \in Blocks : starts[b] \in Nat OBVIOUS
    <3>2. Entries!FoldOver(starts, 0, 0, Blocks) \in Nat BY <3>1, HeldFinite, SumOfEntries
    <3> QED BY <3>2, HeapSizeIsSum
  <2> DEFINE h == HeapSize(starts)
  <2> HIDE DEF n, h
  <2>2. h <= 2 * n + TombstoneSlack BY <1>1, <1>4, <2>1 DEF h
  <2> QED BY <1>2, <1>4, <2>2 DEF n, h
<1> QED BY <1>3, <1>4 DEF CompactFreeIndex

(* The index that release hands to _compact_free_index is well typed.      *)
LEMMA ReleaseLastCompacts ==
    ASSUME Inv, NEW b \in Blocks, ReleaseLast(b)
    PROVE  \E ranges \in [Blocks -> Ends \cup {Absent}] : \E ends : \E starts \in [Blocks -> Nat] :
             CompactFreeIndex(ranges, ends, starts)
<1> DEFINE left  == LeftNeighbour(b)
           begin == IF left = Absent THEN b ELSE left
           right == b + 1 \in Blocks /\ freeRanges[b + 1] # Absent
           end   == IF right THEN freeRanges[b + 1] ELSE b + 1
           ends1 == [e \in Ends |-> IF e = b \/ (right /\ e = end)
                                    THEN Absent ELSE freeEnds[e]]
           ranges1 == [c \in Blocks |-> IF c = b + 1 THEN Absent ELSE freeRanges[c]]
           starts1 == IF left = Absent THEN [freeStarts EXCEPT ![begin] = @ + 1] ELSE freeStarts
<1>0. /\ freeRanges \in [Blocks -> Ends \cup {Absent}]
      /\ freeEnds \in [Ends -> Blocks \cup {Absent}]
      /\ freeStarts \in [Blocks -> Nat]
  BY DEF Inv, TypeOK
<1>1. b \in Ends /\ b + 1 \in Ends BY DEF Blocks, Ends
<1>2. begin \in Blocks BY <1>0, <1>1 DEF LeftNeighbour
<1>3. end \in Ends BY <1>0, <1>1
<1>4. ranges1 \in [Blocks -> Ends \cup {Absent}] BY <1>0
<1>5. starts1 \in [Blocks -> Nat] BY <1>0, <1>2
<1>6. \/ CompactFreeIndex([ranges1 EXCEPT ![begin] = Absent], ends1, freeStarts)
      \/ CompactFreeIndex([ranges1 EXCEPT ![begin] = end], [ends1 EXCEPT ![end] = begin], starts1)
  BY DEF ReleaseLast
<1> HIDE DEF begin, end, ranges1, ends1, starts1
<1>7. /\ [ranges1 EXCEPT ![begin] = Absent] \in [Blocks -> Ends \cup {Absent}]
      /\ [ranges1 EXCEPT ![begin] = end] \in [Blocks -> Ends \cup {Absent}]
  BY <1>2, <1>3, <1>4
<1> QED BY <1>0, <1>5, <1>6, <1>7

(* _compact_free_index bounds the stale heap entries between any two       *)
(* operations, for every capacity and slack.  A loop of allocate may       *)
(* exceed the bound, its return restores it; no other operation leaves an  *)
(* entry behind without compaction.                                        *)
THEOREM TombstonesStayBounded == Spec => []TombstonesBounded
<1>1. Init => TombstonesBounded
  <2> SUFFICES ASSUME Init PROVE TombstonesBounded OBVIOUS
  <2>1. Starts(freeRanges) = {} BY DEF Init, Starts
  <2>2. freeStarts = Rebuilt(freeRanges) BY DEF Init, Rebuilt
  <2>3. HeapSize(freeStarts) = 0 BY <2>1, <2>2, RebuiltSize, FS_EmptySet
  <2> QED BY <2>1, <2>3, FS_EmptySet DEF TombstonesBounded
<1>2. Inv /\ TombstonesBounded /\ [Next]_vars => TombstonesBounded'
  <2> SUFFICES ASSUME Inv, TombstonesBounded, [Next]_vars, ~busy' PROVE TombstonesBounded'
    BY DEF TombstonesBounded
  <2>0. /\ freeRanges \in [Blocks -> Ends \cup {Absent}]
        /\ freeEnds \in [Ends -> Blocks \cup {Absent}]
        /\ freeStarts \in [Blocks -> Nat]
    BY DEF Inv, TypeOK
  <2>1. CASE AllocateReturn
    <3>1. CompactFreeIndex(freeRanges, freeEnds, freeStarts) BY <2>1 DEF AllocateReturn
    <3> QED BY <2>0, <3>1, CompactBounds DEF TombstonesBounded
  <2>2. ASSUME NEW b \in Blocks, ReleaseLast(b) PROVE TombstonesBounded'
    <3>1. \E ranges \in [Blocks -> Ends \cup {Absent}] : \E ends : \E starts \in [Blocks -> Nat] :
             CompactFreeIndex(ranges, ends, starts)
      BY <2>0, <2>2, ReleaseLastCompacts
    <3> QED BY <3>1, CompactBounds DEF TombstonesBounded
  <2>3. CASE UNCHANGED <<busy, freeStarts, freeRanges>>
    BY <2>3 DEF TombstonesBounded
  <2> QED BY <2>1, <2>2, <2>3
       DEF Next, AllocateStep, AllocateCall, PopTombstone, TakePartOfRange, TakeWholeRange,
           TakeUnused, Retain, ReleaseShared, vars, index, call, Looping
<1> QED BY <1>1, <1>2, InitInv, StepInv, PTL DEF Spec
=============================================================================
