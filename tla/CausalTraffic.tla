--------------------------- MODULE CausalTraffic ---------------------------
(***************************************************************************)
(* The traffic of a batch, as the remappers build it (windows/remap.py,    *)
(* windows/peer.py, sglang/backend.py): a canonical trace of reads and     *)
(* writes of addresses is turned, access by access, into transactions on   *)
(* physical locations.  The engine may run them in any order their         *)
(* dependencies allow, so all that keeps an access from the wrong data is  *)
(* the set of transactions it depends on.                                  *)
(*                                                                         *)
(* A transaction is its number; a join barrier is the set of what it       *)
(* joins.  Links between the media have no location and are left out of    *)
(* the path from a read to the write it feeds.                             *)
(***************************************************************************)
EXTENDS Integers, FiniteSetsExt, Functions, SequencesExt

VARIABLES
    trace,      \* the canonical trace of the batch
    traffic,    \* its transactions, and what the locations hold after them
    home        \* the state of the remapper, which survives the batch

Nothing == -1     \* the address of no data
Completed == 0    \* a transaction of an earlier batch the engine still knows of
Forgotten == -1   \* one that it no longer knows of

(* cells[l] is the address whose newest data l holds in program order, and *)
(* the copies that brought it there.                                       *)
NoTraffic(cells) ==
    [next |-> 1, nodes |-> <<>>, cells |-> cells,
     needed |-> {}, wrong |-> FALSE, unknown |-> FALSE]

Preloaded(addresses, Where(_)) ==
    [l \in {Where(a) : a \in addresses} |->
        [of |-> CHOOSE a \in addresses : Where(a) = l, via |-> {}]]

Cell(t, l) == IF l \in DOMAIN t.cells THEN t.cells[l] ELSE [of |-> Nothing, via |-> {}]

Ancestors(t, ids) ==
    LET here == ids \cap DOMAIN t.nodes
    IN  here \cup UNION {t.nodes[i].before : i \in here}

Emit(t, reads, writes, deps) ==
    [t EXCEPT
        !.next = @ + 1,
        !.nodes = (t.next :> [reads |-> reads, writes |-> writes,
                              before |-> Ancestors(t, deps)]) @@ @,
        !.unknown = @ \/ ~(deps \subseteq DOMAIN t.nodes \cup {Completed})]

(* A copy between media: a read, and the write that waits for it.          *)
Sources(pairs) == {p[1] : p \in pairs}
Targets(pairs) == {p[2] : p \in pairs}

Copy(t, pairs, readDeps, writeDeps) ==
    LET read == Emit(t, Sources(pairs), {}, readDeps)
        done == Emit(read, {}, Targets(pairs), writeDeps \cup {t.next})
        arrived == [l \in Targets(pairs) |->
            LET source == Cell(t, CHOOSE s \in Sources(pairs) : <<s, l>> \in pairs)
            IN  [source EXCEPT !.via = @ \cup {t.next, read.next}]]
    IN  [done EXCEPT !.cells = arrived @@ @]

Copied(t) == {t.next - 1}   \* the write of the latest copy

(* Copies go in chunks, cut from the start of each run of what is copied.  *)
RunStart(set, x) == Max({y \in set : y <= x /\ y - 1 \notin set})
ChunkOf(set, size, x) == <<RunStart(set, x), (x - RunStart(set, x)) \div size>>
Chunks(set, size) ==
    {{y \in set : ChunkOf(set, size, y) = ChunkOf(set, size, x)} : x \in set}

(* The access itself; pairs are addresses and where they are served.       *)
Demand(t, op, pairs, deps) ==
    LET cells == {Cell(t, p[2]) : p \in pairs}
        stale == \E p \in pairs : Cell(t, p[2]).of # p[1]
    IN  IF op = "R"
        THEN [Emit(t, Targets(pairs), {}, deps) EXCEPT
                !.needed = @ \cup {t.next} \cup UNION {c.via : c \in cells},
                !.wrong = @ \/ stale]
        ELSE [Emit(t, {}, Targets(pairs), deps) EXCEPT
                !.cells = [l \in Targets(pairs) |->
                              [of |-> CHOOSE a \in Sources(pairs) : <<a, l>> \in pairs,
                               via |-> {}]]
                          @@ [l \in DOMAIN @ |->
                                 IF @[l].of \in Sources(pairs)
                                 THEN [of |-> Nothing, via |-> {}] ELSE @[l]]]

Refuse(t) == [t EXCEPT !.wrong = TRUE]

(* The frontier of the batch has completed: what is before it is over, the *)
(* rest goes on.                                                           *)
Retire(t, done) ==
    LET left == DOMAIN t.nodes \ done
    IN  [t EXCEPT
            !.nodes = [i \in left |-> [t.nodes[i] EXCEPT !.before = @ \cap left]],
            !.needed = @ \cap left,
            !.cells = [l \in DOMAIN @ |-> [@[l] EXCEPT !.via = @ \cap left]],
            !.next = IF left = {} THEN 1 ELSE @]

(* A release the remapper holds, once its batch is over.                   *)
Over(release, retained) ==
    {IF id \in retained \cup {Completed} THEN Completed ELSE Forgotten : id \in release}

----------------------------------------------------------------------------
(* The canonical trace: accesses, and barriers that stand for computation  *)
(* of some duration.  An access comes after those it conflicts with, and   *)
(* may come after the latest barrier.                                      *)
Overlapping(op, addresses) ==
    {i \in DOMAIN trace : /\ trace[i].addresses \cap addresses # {}
                          /\ "W" \in {op, trace[i].op}}

LatestBarrier == {i \in DOMAIN trace : trace[i].op = "barrier"
                    /\ \A j \in DOMAIN trace : trace[j].op = "barrier" => j <= i}

Parents(op, addresses, waits) ==
    LET barrier == IF waits THEN LatestBarrier ELSE {}
    IN  barrier \cup {i \in Overlapping(op, addresses) : \A b \in barrier : b < i}

TerminalsOf(items) == UNION {trace[i].terminal : i \in items}

Traced(op, addresses, parents, timed, terminal) ==
    trace' = Append(trace, [op |-> op, addresses |-> addresses, parents |-> parents,
                            timed |-> timed, terminal |-> terminal])

(* A barrier comes after everything before it and has no location.         *)
Barrier(timed) ==
    /\ trace # <<>> /\ Last(trace).op # "barrier"
    /\ traffic' = Emit(traffic, {}, {}, TerminalsOf(DOMAIN trace))
    /\ Traced("barrier", {}, DOMAIN trace, timed, {traffic.next})
    /\ UNCHANGED home

----------------------------------------------------------------------------
(* Every read of the trace is served, from a location that holds the       *)
(* newest data of its address when transactions run in program order...    *)
DemandsServed == ~traffic.wrong

(* ... and running them in any other order their dependencies allow makes  *)
(* no difference: two writes of a location, or a write and a read whose    *)
(* data an access uses, are ordered.                                       *)
Conflict(m, n, needed) ==
    \/ m.writes \cap n.writes # {}
    \/ needed /\ m.writes \cap n.reads # {}

NoRace ==
    \A j \in DOMAIN traffic.nodes :
        LET n == traffic.nodes[j]
        IN  \A i \in DOMAIN traffic.nodes \ n.before :
                i < j =>
                    /\ ~Conflict(traffic.nodes[i], n, j \in traffic.needed)
                    /\ ~Conflict(n, traffic.nodes[i], i \in traffic.needed)

(* No transaction depends on one that the engine has forgotten: what is    *)
(* held for later is named in the retain list of every batch.              *)
DependenciesKnown == ~traffic.unknown
=============================================================================
