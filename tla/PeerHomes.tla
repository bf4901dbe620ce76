----------------------------- MODULE PeerHomes -----------------------------
(***************************************************************************)
(* PeerKvMigrationRemapper (windows/peer.py): a KV unit is born in HBM by  *)
(* its first write and has one home at a time.  When HBM is full the unit  *)
(* issued least recently moves to a new home on HBF, where it stays and is *)
(* accessed in place; only what was written of it is copied.  Everything   *)
(* that is not KV lies on HBF, compacted around the KV range.              *)
(***************************************************************************)
EXTENDS CausalTraffic

CONSTANTS
    PeerBytes,          \* address space
    KvFirst, KvPast,    \* the KV range, half open
    UnitBytesOfPeer, CopyBytes, HbfPage,
    PeerSlots,          \* units that fit in HBM
    HbfBytes,           \* resolved logical capacity of HBF
    PeerPolicies,
    PeerAccesses,       \* <<address, bytes>>
    MaxPeerAccesses, MaxPeerBatches   \* bounds: accesses in a batch, batches

ASSUME PeerAssumption ==
    /\ 0 <= KvFirst /\ KvFirst < KvPast /\ KvPast <= PeerBytes /\ PeerSlots > 0
    /\ KvFirst % HbfPage = 0 /\ KvPast % HbfPage = 0
    /\ UnitBytesOfPeer % HbfPage = 0 /\ UnitBytesOfPeer % CopyBytes = 0
    /\ PeerPolicies \subseteq {"static", "capacity_migration"}

StaticBytes == PeerBytes - (KvPast - KvFirst)
HomeBase == ((StaticBytes + HbfPage - 1) \div HbfPage) * HbfPage
KvUnitCount == (KvPast - KvFirst + UnitBytesOfPeer - 1) \div UnitBytesOfPeer
Homes(policy) ==
    IF policy = "static" THEN 0
    ELSE Min({Max({0, KvUnitCount - PeerSlots}), (HbfBytes - HomeBase) \div UnitBytesOfPeer})

ASSUME ImageAssumption == HomeBase <= HbfBytes

PeerHbm(slot, offset) == <<"hbm", slot, offset>>
Hbf(address) == <<"hbf", address>>
InKv(x) == KvFirst <= x /\ x < KvPast
Compacted(x) == IF x < KvFirst THEN x ELSE x - (KvPast - KvFirst)

PeerInit ==
    /\ \E policy \in PeerPolicies :
         home = [system |-> "peer", policy |-> policy, units |-> <<>>, resident |-> <<>>,
                 nextSlot |-> 0, nextHome |-> 0, planned |-> <<>>, batches |-> 0]
    /\ traffic = NoTraffic(Preloaded({x \in 0 .. PeerBytes - 1 : ~InKv(x)},
                                     LAMBDA x : Hbf(Compacted(x))))
    /\ trace = <<>>

(* An access is cut at the ends of the KV range and of its units.          *)
UnitAt(x) == (x - KvFirst) \div UnitBytesOfPeer
OffsetAt(x) == (x - KvFirst) % UnitBytesOfPeer
Starts(first, past) ==
    {first} \cup {x \in first + 1 .. past - 1 :
                     x \in {KvFirst, KvPast} \/ (InKv(x) /\ OffsetAt(x) = 0)}
Parts(first, past) ==
    LET starts == SetToSortSeq(Starts(first, past), <)
    IN  [k \in DOMAIN starts |->
            starts[k] .. (IF k = Len(starts) THEN past ELSE starts[k + 1]) - 1]

(* A unit at its home. *)
Where(u, x) ==
    IF u.slot # Nothing THEN PeerHbm(u.slot, OffsetAt(x))
    ELSE Hbf(HomeBase + u.home * UnitBytesOfPeer + OffsetAt(x))

CapacityExceeded(policy, live) == live > PeerSlots + Homes(policy)

Issued(c, unit) ==
    [c EXCEPT !.resident = IF c.units[unit].slot = Nothing THEN @
                           ELSE Append(SelectSeq(@, LAMBDA v : v # unit), unit)]

(* Mutant: when the copy has been read. *)
VacatedEarly(t) == {t.next - 2}

(* When the place a chunk was copied from is free.                         *)
Vacated(t) == Copied(t)

(* The unit issued least recently moves to HBF; its slot is free when all  *)
(* of its copies are written.                                              *)
Demote(r, deps) ==
    LET unit == Head(r.c.resident)
        old == r.c.units[unit]
        new == [old EXCEPT !.slot = Nothing, !.home = r.c.nextHome]
        at(u, offset) == Where(u, KvFirst + unit * UnitBytesOfPeer + offset)
        copied(t, writes) == [t |-> t, writes |-> writes \cup Vacated(t)]
        moved(copies) ==
            [t |-> copies.t, slot |-> old.slot, released |-> copies.writes,
             c |-> [r.c EXCEPT !.units[unit] = [new EXCEPT !.last = copies.writes],
                               !.resident = Tail(@), !.nextHome = @ + 1]]
    IN  moved(FoldLeft(
            LAMBDA s, chunk :
                copied(Copy(s.t, {<<at(old, o), at(new, o)>> : o \in chunk}, deps \cup old.last, {}),
                       s.writes),
            [t |-> r.t, writes |-> {}], SetToSeq(Chunks(old.written, CopyBytes))))

(* Birth: a fresh slot, or that of the unit that has to leave.             *)
Birth(r, unit, deps) ==
    LET born(slot) == [written |-> {}, slot |-> slot, home |-> Nothing, last |-> {}]
        after(placed) ==
            [t |-> placed.t, done |-> r.done, released |-> placed.released,
             c |-> [placed.c EXCEPT !.units = (unit :> born(placed.slot)) @@ @,
                                    !.resident = Append(@, unit)]]
    IN  after(IF r.c.nextSlot < PeerSlots
              THEN [t |-> r.t, slot |-> r.c.nextSlot, released |-> {},
                    c |-> [r.c EXCEPT !.nextSlot = @ + 1]]
              ELSE Demote(r, deps))

AccessUnit(r, op, part, deps) ==
    LET unit == UnitAt(Min(part))
        offsets == {OffsetAt(x) : x \in part}
        known == unit \in DOMAIN r.c.units
        after(ready) ==
            LET u == ready.c.units[unit]
                user == {ready.t.next}
            IN  [t |-> Demand(ready.t, op, {<<x, Where(u, x)>> : x \in part},
                              deps \cup ready.released \cup u.last),
                 c |-> [Issued(ready.c, unit) EXCEPT
                           !.units[unit].last = user,
                           !.units[unit].written = IF op = "W" THEN @ \cup offsets ELSE @],
                 done |-> ready.done \cup user]
    IN  IF \/ op = "R" /\ ~(known /\ offsets \subseteq r.c.units[unit].written)
           \/ ~known /\ CapacityExceeded(r.c.policy, Cardinality(DOMAIN r.c.units) + 1)
        THEN [r EXCEPT !.t = Refuse(@)]
        ELSE after(IF known THEN [t |-> r.t, c |-> r.c, done |-> r.done, released |-> {}]
                   ELSE Birth(r, unit, deps))

AccessStatic(r, op, part, deps) ==
    [r EXCEPT !.t = Demand(@, op, {<<x, Hbf(Compacted(x))>> : x \in part}, deps),
              !.done = @ \cup {r.t.next}]

(* preflight walks the whole trace before any of it is remapped: every     *)
(* read of KV is covered by earlier writes, and the units born fit.        *)
PlannedAt(unit) == IF unit \in DOMAIN home.planned THEN home.planned[unit] ELSE {}
Preflight(op, parts) ==
    LET kv == {p \in ToSet(parts) : InKv(Min(p))}
        born == {UnitAt(Min(p)) : p \in kv} \cup DOMAIN home.planned
    IN  IF op = "R"
        THEN \A p \in kv : {OffsetAt(x) : x \in p} \subseteq PlannedAt(UnitAt(Min(p)))
        ELSE ~CapacityExceeded(home.policy, Cardinality(born))
Planned(op, parts) ==
    LET kv == {p \in ToSet(parts) : InKv(Min(p))}
    IN  IF op = "R" THEN home.planned
        ELSE [unit \in {UnitAt(Min(p)) : p \in kv} |->
                 PlannedAt(unit) \cup
                     UNION {{OffsetAt(x) : x \in p} : p \in {q \in kv : UnitAt(Min(q)) = unit}}]
             @@ home.planned

PeerAccessesOfBatch == Cardinality({i \in DOMAIN trace : trace[i].op # "barrier"})

PeerAccess(op, first, bytes, waits) ==
    LET addresses == first .. first + bytes - 1
        parts == Parts(first, first + bytes)
        parents == Parents(op, addresses, waits)
        deps == TerminalsOf(parents)
    IN  /\ PeerAccessesOfBatch < MaxPeerAccesses
        /\ waits => LatestBarrier # {}
        /\ Preflight(op, parts)
        /\ \E result \in {FoldLeft(
                  LAMBDA r, part : IF InKv(Min(part)) THEN AccessUnit(r, op, part, deps)
                                   ELSE AccessStatic(r, op, part, deps),
                  [t |-> traffic, c |-> [home EXCEPT !.planned = Planned(op, parts)], done |-> {}],
                  parts)} :
              /\ traffic' = result.t
              /\ home' = result.c
              /\ Traced(op, addresses, parents, FALSE, result.done)

RetainedByPeer(c) == UNION {u.last : u \in Range(c.units)}

PeerBatch ==
    /\ trace # <<>> /\ home.batches < MaxPeerBatches
    /\ traffic' = Retire(traffic, DOMAIN traffic.nodes)
    /\ home' = [home EXCEPT
                   !.units = [u \in DOMAIN @ |-> [@[u] EXCEPT !.last = Over(@, RetainedByPeer(home))]],
                   !.batches = @ + 1]
    /\ trace' = <<>>

PeerSteps ==
    \/ \E op \in {"R", "W"}, access \in PeerAccesses, waits \in BOOLEAN :
            PeerAccess(op, access[1], access[2], waits)
    \/ PeerAccessesOfBatch < MaxPeerAccesses /\ Barrier(FALSE)
    \/ PeerBatch

PeerNext == home.system = "peer" /\ PeerSteps

----------------------------------------------------------------------------
(* Every unit has one home, in HBM or on HBF, and no two share one; the    *)
(* image of what is not KV is never given out.                             *)
HomesExclusive ==
    home.system = "peer" =>
        /\ \A u \in DOMAIN home.units : home.units[u].slot = Nothing <=> home.units[u].home # Nothing
        /\ \A u, v \in DOMAIN home.units : u # v =>
              Where(home.units[u], KvFirst) # Where(home.units[v], KvFirst)
        /\ {u \in DOMAIN home.units : home.units[u].slot # Nothing} = ToSet(home.resident)
        /\ home.nextHome <= Homes(home.policy)
=============================================================================
