---------------------------- MODULE KvPlacement ----------------------------
(***************************************************************************)
(* The KV plane of HBServePlacement (hbserve/placement.py) with its prefix *)
(* cache (hbserve/prefix.py): block tables of the live requests in the hot *)
(* (HBM) and cold pool, reference-counted sharing of full prompt blocks,   *)
(* LRU / TTL eviction of cached blocks, migration of waiting requests to   *)
(* the cold tier and back, and preemption.                                 *)
(*                                                                         *)
(* The plane's state is one record; an operation of the class is an        *)
(* operator from a state to the state it leaves (and a predicate that says *)
(* when it raises instead).  KvClients calls the operations in any order   *)
(* the class accepts; the serving engine, a far more orderly client, does  *)
(* so in ServingEngine.                                                    *)
(*                                                                         *)
(* Pools give out the lowest free blocks: BlockPool shows that the pools   *)
(* of the code do.  Data is a ghost: every physical block remembers what   *)
(* was last stored in it.  Migrations copy when they are planned, which is *)
(* the order their transactions are fenced into by map_batch.              *)
(***************************************************************************)
EXTENDS Integers, FiniteSets, SequencesExt

CONSTANTS
    NRequests,     \* the offered requests are 1 .. NRequests
    Prompt,        \* prompt_tokens of each request
    Lifetime,      \* processed_input_tokens: prompt + output - 1
    Content,       \* token identity of each full prompt block (<<>>: no token_ids)
    BlockTokens,   \* kv_block_tokens
    Layers,        \* num_layers
    HotCapacity,   \* blocks of the HBM pool
    ColdCapacity,  \* blocks of the cold pool
    HasCold,       \* kv_placement.cold is not None
    CacheBlocks,   \* prefix_cache_bytes in blocks
    Ttl            \* prefix_cache_ttl_ns in batches, 0 for None

Requests == 1 .. NRequests

ASSUME SizesAssumption ==
    /\ NRequests \in Nat \ {0} /\ BlockTokens \in Nat \ {0} /\ Layers \in Nat \ {0}
    /\ HotCapacity \in Nat /\ ColdCapacity \in Nat /\ CacheBlocks \in Nat /\ Ttl \in Nat
    /\ HasCold \in BOOLEAN
ASSUME RequestsAssumption ==
    /\ Prompt \in [Requests -> Nat \ {0}]
    /\ Lifetime \in [Requests -> Nat]
    /\ \A r \in Requests : /\ Prompt[r] <= Lifetime[r]
                           /\ Content[r] \in Seq(Range(Content[r]))
                           /\ Len(Content[r]) \in {0, Prompt[r] \div BlockTokens}

HotBlocks  == 0 .. HotCapacity - 1
ColdBlocks == 0 .. ColdCapacity - 1
Never == -1

AtMost(a, b)  == IF a < b THEN a ELSE b
Positive(n)   == IF n > 0 THEN n ELSE 0
BlocksFor(tokens) == (tokens + BlockTokens - 1) \div BlockTokens

(* In order: the n-th least of a set of numbers, the whole set, and what   *)
(* is left of a sequence when only the elements of a set are kept.         *)
NthLeast(S, n) == CHOOSE x \in S : Cardinality({y \in S : y < x}) = n - 1
Ascending(S) == [n \in 1 .. Cardinality(S) |-> NthLeast(S, n)]
Keep(seq, S) ==
    LET places == {i \in DOMAIN seq : seq[i] \in S}
    IN  [n \in 1 .. Cardinality(places) |-> seq[NthLeast(places, n)]]

(* block_keys: the hash chain over the prompt's full blocks names the      *)
(* whole prefix up to a block, and nothing else does.                      *)
Key(r, i) == SubSeq(Content[r], 1, i)

----------------------------------------------------------------------------
(* Ghost: what a block should hold for request r at ordinal i.             *)
Identity(r, i) ==
    IF i <= Len(Content[r])
    THEN [key |-> Key(r, i), of |-> 0, at |-> i]
    ELSE [key |-> <<>>, of |-> r, at |-> i]
Stored(r, i, layer, tokens) ==
    [identity |-> Identity(r, i), layer |-> layer,
     fill |-> AtMost(tokens - (i - 1) * BlockTokens, BlockTokens)]
Junk == [identity |-> [key |-> <<>>, of |-> 0, at |-> 0], layer |-> 0, fill |-> 0]

----------------------------------------------------------------------------
(* The plane.  req is defined on the live requests; a block table is a     *)
(* sequence over ordinals of sequences over layers.                        *)
EmptyPlane ==
    [hot |-> [b \in HotBlocks |-> 0], cold |-> [b \in ColdBlocks |-> 0],
     req |-> <<>>, nextOrder |-> 0, cache |-> <<>>, pending |-> FALSE,
     clock |-> 0, batchId |-> 0,
     hotData |-> [b \in HotBlocks |-> Junk], coldData |-> [b \in ColdBlocks |-> Junk]]

Live(kv) == DOMAIN kv.req
Tokens(slice) == slice.begin + slice.count
TableBlocks(table) == {table[i][l] : i \in DOMAIN table, l \in 1 .. Layers}
TotalBlocks(kv, r) == Len(kv.req[r].table) * Layers
IsHot(kv, r) == kv.req[r].tier = "hot"

Free(refs) == {b \in DOMAIN refs : refs[b] = 0}
(* The n-th element of the list that allocate returns.                     *)
NthFree(refs, n) == NthLeast(Free(refs), n)
Allocated(refs, given) == [b \in DOMAIN refs |-> IF b \in given THEN 1 ELSE refs[b]]
Retained(refs, held)   == [b \in DOMAIN refs |-> IF b \in held THEN refs[b] + 1 ELSE refs[b]]
(* Mutant: a release frees the block although others hold it. *)
ReleasedForAll(refs, held) == [b \in DOMAIN refs |-> IF b \in held THEN 0 ELSE refs[b]]
Released(refs, held)   == [b \in DOMAIN refs |-> IF b \in held THEN refs[b] - 1 ELSE refs[b]]

(* allocate(n) once per layer, in layer order: ordinal i of layer l.       *)
NewTable(refs, n) == [i \in 1 .. n |-> [l \in 1 .. Layers |-> NthFree(refs, (l - 1) * n + i)]]

----------------------------------------------------------------------------
(* PrefixCache                                                             *)
CacheKeys(kv) == {kv.cache[i].key : i \in DOMAIN kv.cache}
IndexOf(kv, key) == CHOOSE i \in DOMAIN kv.cache : kv.cache[i].key = key
EntryOf(kv, key) == kv.cache[IndexOf(kv, key)]

Evict(kv, key) ==
    [kv EXCEPT !.cache = RemoveAt(@, IndexOf(kv, key)),
               !.hot = Released(@, Range(EntryOf(kv, key).blocks))]

MoveToEnd(kv, key) ==
    [kv EXCEPT !.cache = Append(RemoveAt(@, IndexOf(kv, key)), EntryOf(kv, key))]

EvictOldest(kv, n) == FoldLeft(LAMBDA p, e : Evict(p, e.key), kv, SubSeq(kv.cache, 1, n))

Expire(kv, now) ==
    FoldLeft(LAMBDA p, e : IF e.expires # Never /\ e.expires <= now THEN Evict(p, e.key) ELSE p,
             kv, kv.cache)

ExpiresAt(now) == IF Ttl = 0 THEN Never ELSE now + Ttl

(* One block of publish: touch the entry that is there (a completed batch  *)
(* takes the pending mark off), or insert one, making room from the oldest *)
(* entry on.                                                               *)
PublishOne(kv, r, i, now, pending) ==
    LET key == Key(r, i)
        surplus == Positive(Len(kv.cache) + 1 - CacheBlocks \div Layers)
        roomy == EvictOldest(kv, surplus)
        blocks == kv.req[r].table[i]
    IN  IF key \in CacheKeys(kv)
        THEN MoveToEnd(IF EntryOf(kv, key).pending /\ ~pending
                       THEN [kv EXCEPT !.cache[IndexOf(kv, key)] =
                               [@ EXCEPT !.pending = FALSE, !.expires = ExpiresAt(now)]]
                       ELSE kv, key)
        ELSE IF Layers > CacheBlocks
        THEN kv
        ELSE [roomy EXCEPT
                !.hot = Retained(@, Range(blocks)),
                !.cache = Append(@, [key |-> key, blocks |-> blocks, pending |-> pending,
                                     expires |-> IF pending THEN Never ELSE ExpiresAt(now)])]

Publish(kv, r, complete, now, pending) ==
    FoldLeft(LAMBDA p, i : PublishOne(p, r, i, now, pending),
             Expire(kv, now), [i \in 1 .. AtMost(complete, Len(Content[r])) |-> i])

(* lookup: the longest cached prefix of at most limit blocks.              *)
HitLength(kv, r, limit) ==
    CHOOSE n \in 0 .. limit :
        /\ \A i \in 1 .. n : Key(r, i) \in CacheKeys(kv)
        /\ n < limit => Key(r, n + 1) \notin CacheKeys(kv)

(* release_order: the keys of a released request become the newest, from   *)
(* the last to the first, where the cache alone holds their blocks.        *)
ReleaseOrder(kv, r) ==
    FoldLeft(LAMBDA p, i :
               IF Key(r, i) \in CacheKeys(p)
                  /\ \A b \in Range(EntryOf(p, Key(r, i)).blocks) : p.hot[b] = 1
               THEN MoveToEnd(p, Key(r, i)) ELSE p,
             kv, [j \in 1 .. Len(Content[r]) |-> Len(Content[r]) + 1 - j])

----------------------------------------------------------------------------
(* admit_request of a request that is not live: AdmitHit is its answer in  *)
(* blocks.  At least the last prompt token is left to be executed.         *)
HitLimit(r) == AtMost(Len(Content[r]), (Prompt[r] - 1) \div BlockTokens)

AdmitHit(kv, r, now) ==
    IF CacheBlocks > 0 THEN HitLength(Expire(kv, now), r, HitLimit(r)) ELSE 0

(* Mutant: the hit blocks are put in the table without a reference. *)
AdmitUnretained(kv, r, now, arrival) ==
    LET n == AdmitHit(kv, r, now)
        state == [tier |-> "hot", order |-> kv.nextOrder, last |-> -1, hit |-> n,
                  arrival |-> arrival,
                  table |-> [i \in 1 .. n |-> EntryOf(kv, Key(r, i)).blocks]]
    IN  [kv EXCEPT !.req = [s \in Live(kv) \cup {r} |-> IF s = r THEN state ELSE kv.req[s]],
                   !.nextOrder = @ + 1]

Admit(kv, r, now, arrival) ==
    LET n == AdmitHit(kv, r, now)
        looked == IF CacheBlocks > 0 /\ Content[r] # <<>> THEN Expire(kv, now) ELSE kv
        touched == FoldLeft(LAMBDA p, i : MoveToEnd(p, Key(r, i)), looked, [i \in 1 .. n |-> i])
        table == [i \in 1 .. n |-> EntryOf(looked, Key(r, i)).blocks]
        state == [tier |-> "hot", table |-> table, order |-> kv.nextOrder, last |-> -1,
                  hit |-> n, arrival |-> arrival]
    IN  [touched EXCEPT !.hot = Retained(@, TableBlocks(table)),
                        !.req = [s \in Live(kv) \cup {r} |-> IF s = r THEN state ELSE kv.req[s]],
                        !.nextOrder = @ + 1]

----------------------------------------------------------------------------
(* _plan: what must be freed for the slices of an iteration, first from    *)
(* the cache, then by moving requests that are not in it to the cold tier. *)
Growth(kv, slice) ==
    Positive(BlocksFor(Tokens(slice)) - Len(kv.req[slice.req].table))

Needed(kv, slices) ==
    SumFunction([i \in DOMAIN slices |->
        Growth(kv, slices[i]) * Layers
        + IF IsHot(kv, slices[i].req) THEN 0 ELSE TotalBlocks(kv, slices[i].req)])

(* Mutant: cached blocks, which the cache itself holds, look in use. *)
NeverEvictable(kv) ==
    Keep(kv.cache, {e \in Range(kv.cache) : \A b \in Range(e.blocks) : kv.hot[b] < 1})

(* Entries no live request reads; the others are pinned.                   *)
Evictable(kv) ==
    Keep(kv.cache, {e \in Range(kv.cache) : \A b \in Range(e.blocks) : kv.hot[b] <= 1})

(* Blocks whose every reference goes when the entries are evicted and the  *)
(* victims leave.                                                          *)
Reclaimed(kv, entries, victims) ==
    {b \in HotBlocks :
        LET drops == Cardinality({i \in DOMAIN entries : b \in Range(entries[i].blocks)})
                     + Cardinality({i \in DOMAIN victims : b \in TableBlocks(kv.req[victims[i]].table)})
        IN  drops > 0 /\ drops = kv.hot[b]}

InBatch(slices) == {slices[i].req : i \in DOMAIN slices}

(* Mutant: requests of the iteration can be moved out to make room in it. *)
CandidatesInBatch(kv, slices) ==
    SetToSeq({r \in Live(kv) : IsHot(kv, r) /\ kv.req[r].table # <<>>})

(* Hot requests outside the iteration, the one least recently in a batch   *)
(* first.                                                                  *)
Candidates(kv, slices) ==
    LET C == {r \in Live(kv) \ InBatch(slices) : IsHot(kv, r) /\ kv.req[r].table # <<>>}
        Before(r, s) == \/ kv.req[r].last < kv.req[s].last
                        \/ kv.req[r].last = kv.req[s].last /\ kv.req[r].order < kv.req[s].order
    IN  [n \in 1 .. Cardinality(C) |->
            CHOOSE r \in C : Cardinality({s \in C : Before(s, r)}) = n - 1]

(* The shortest front of a sequence after which enough is reclaimed; the   *)
(* whole sequence when it never is.                                        *)
ShortestFront(seq, Enough(_)) ==
    SubSeq(seq, 1, CHOOSE n \in 0 .. Len(seq) :
        /\ n = Len(seq) \/ Enough(SubSeq(seq, 1, n))
        /\ \A m \in 0 .. n - 1 : ~Enough(SubSeq(seq, 1, m)))

Plan(kv, slices) ==
    LET deficit == Needed(kv, slices) - Cardinality(Free(kv.hot))
        entries == ShortestFront(Evictable(kv),
                         LAMBDA s : Cardinality(Reclaimed(kv, s, <<>>)) >= deficit)
        short == Cardinality(Reclaimed(kv, entries, <<>>)) < deficit
        victims == IF short /\ HasCold
                   THEN ShortestFront(Candidates(kv, slices),
                              LAMBDA s : Cardinality(Reclaimed(kv, entries, s)) >= deficit)
                   ELSE <<>>
        moved == SumFunction([i \in DOMAIN victims |-> TotalBlocks(kv, victims[i])])
    IN  [ok |-> /\ Cardinality(Reclaimed(kv, entries, victims)) >= deficit
                /\ moved <= Cardinality(Free(kv.cold)),
         evict |-> [i \in DOMAIN entries |-> entries[i].key],
         victims |-> victims]

CanReserve(kv, slices) == Plan(kv, slices).ok

----------------------------------------------------------------------------
(* _migrate: the whole block table moves, layer by layer.                  *)
SwapOut(kv, r) ==
    LET old == kv.req[r].table
        new == NewTable(kv.cold, Len(old))
    IN  [kv EXCEPT
          !.hot = Released(@, TableBlocks(old)),
          !.cold = Allocated(@, TableBlocks(new)),
          !.coldData = [b \in ColdBlocks |->
              IF b \in TableBlocks(new)
              THEN LET i == CHOOSE i \in DOMAIN new : b \in Range(new[i])
                       l == CHOOSE l \in 1 .. Layers : new[i][l] = b
                   IN  kv.hotData[old[i][l]]
              ELSE @[b]],
          !.req[r].table = new, !.req[r].tier = "cold"]

SwapIn(kv, r) ==
    LET old == kv.req[r].table
        new == NewTable(kv.hot, Len(old))
    IN  [kv EXCEPT
          !.cold = Released(@, TableBlocks(old)),
          !.hot = Allocated(@, TableBlocks(new)),
          !.hotData = [b \in HotBlocks |->
              IF b \in TableBlocks(new)
              THEN LET i == CHOOSE i \in DOMAIN new : b \in Range(new[i])
                       l == CHOOSE l \in 1 .. Layers : new[i][l] = b
                   IN  kv.coldData[old[i][l]]
              ELSE @[b]],
          !.req[r].table = new, !.req[r].tier = "hot"]

(* Mutant: a prompt block that the batch only partly fills is published. *)
GrowAndPublishPartial(kv, slice) ==
    LET r == slice.req
        grown == NewTable(kv.hot, Growth(kv, slice))
        reserved == [kv EXCEPT !.hot = Allocated(@, TableBlocks(grown)),
                               !.req[r].table = @ \o grown,
                               !.req[r].last = kv.batchId]
    IN  IF CacheBlocks > 0
        THEN Publish(reserved, r, BlocksFor(AtMost(Tokens(slice), Prompt[r])),
                     kv.req[r].arrival, TRUE)
        ELSE reserved

(* One slice of reserve: grow the block table, then publish the full       *)
(* prompt blocks the batch will have written, marked pending.              *)
GrowAndPublish(kv, slice) ==
    LET r == slice.req
        grown == NewTable(kv.hot, Growth(kv, slice))
        reserved == [kv EXCEPT !.hot = Allocated(@, TableBlocks(grown)),
                               !.req[r].table = @ \o grown,
                               !.req[r].last = kv.batchId]
    IN  IF CacheBlocks > 0
        THEN Publish(reserved, r, AtMost(Tokens(slice), Prompt[r]) \div BlockTokens,
                     kv.req[r].arrival, TRUE)
        ELSE reserved

(* reserve, for slices that can be reserved.                               *)
Reserve(kv, slices) ==
    LET plan == Plan(kv, slices)
        evicted == FoldLeft(Evict, kv, plan.evict)
        out == FoldLeft(SwapOut, evicted, plan.victims)
        cold == Keep(slices, {s \in Range(slices) : ~IsHot(kv, s.req)})
        in == FoldLeft(LAMBDA p, s : SwapIn(p, s.req), out, cold)
    IN  [FoldLeft(GrowAndPublish, in, slices) EXCEPT !.pending = TRUE]

----------------------------------------------------------------------------
(* preempt_request raises for a request without hot blocks.                *)
CanPreempt(kv, r) == IsHot(kv, r) /\ kv.req[r].table # <<>>

PreemptMode(kv, r) ==
    IF HasCold /\ Cardinality(Free(kv.cold)) >= TotalBlocks(kv, r)
    THEN "swap_out" ELSE "recompute"

Preempt(kv, r) ==
    IF PreemptMode(kv, r) = "swap_out"
    THEN SwapOut(kv, r)
    ELSE [kv EXCEPT !.hot = Released(@, TableBlocks(kv.req[r].table)),
                    !.req[r].table = <<>>]

(* Mutant: the blocks the request was admitted with are left to the cache. *)
ReleaseOwnOnly(kv, r) ==
    LET held == TableBlocks(SubSeq(kv.req[r].table, kv.req[r].hit + 1, Len(kv.req[r].table)))
        others == [kv EXCEPT !.req = [s \in Live(kv) \ {r} |-> kv.req[s]]]
    IN  IF IsHot(kv, r)
        THEN ReleaseOrder([others EXCEPT !.hot = Released(@, held)], r)
        ELSE [others EXCEPT !.cold = Released(@, held)]

ReleaseRequest(kv, r) ==
    LET held == TableBlocks(kv.req[r].table)
        others == [kv EXCEPT !.req = [s \in Live(kv) \ {r} |-> kv.req[s]]]
    IN  IF IsHot(kv, r)
        THEN ReleaseOrder([others EXCEPT !.hot = Released(@, held)], r)
        ELSE [others EXCEPT !.cold = Released(@, held)]

(* The batch runs: its appends are written (an external engine does it),   *)
(* then complete_batch publishes the prompt blocks that are complete.      *)
Written(kv, slice) ==
    LET r == slice.req
        table == kv.req[r].table
        touched == slice.begin \div BlockTokens + 1 .. BlocksFor(Tokens(slice))
    IN  [kv EXCEPT !.hotData = [b \in HotBlocks |->
            IF \E i \in touched : b \in Range(table[i])
            THEN LET i == CHOOSE i \in touched : b \in Range(table[i])
                     l == CHOOSE l \in 1 .. Layers : table[i][l] = b
                 IN  Stored(r, i, l, Tokens(slice))
            ELSE @[b]]]

(* Mutant: a prompt block that is only partly filled is published too. *)
PublishPartial(kv, slice) ==
    IF CacheBlocks > 0
    THEN Publish(kv, slice.req, BlocksFor(AtMost(Tokens(slice), Prompt[slice.req])),
                 kv.clock, FALSE)
    ELSE kv

PublishCompleted(kv, slice) ==
    IF CacheBlocks > 0
    THEN Publish(kv, slice.req, AtMost(Tokens(slice), Prompt[slice.req]) \div BlockTokens,
                 kv.clock, FALSE)
    ELSE kv

(* map_batch checks that every slice has its hot blocks, and takes the     *)
(* pending migrations and the reservation off.                             *)
Mappable(kv, slices) ==
    \A i \in DOMAIN slices :
        /\ slices[i].req \in Live(kv) /\ IsHot(kv, slices[i].req)
        /\ Len(kv.req[slices[i].req].table) >= BlocksFor(Tokens(slices[i]))

Execute(kv, slices) ==
    LET mapped == [kv EXCEPT !.pending = FALSE, !.batchId = @ + 1,
                             !.clock = IF Ttl = 0 THEN @ ELSE @ + 1]
    IN  FoldLeft(PublishCompleted, FoldLeft(Written, mapped, slices), slices)

(* Nothing may be read from a free block: its ghost contents are dropped.  *)
Settled(kv) ==
    [kv EXCEPT !.hotData = [b \in HotBlocks |-> IF kv.hot[b] = 0 THEN Junk ELSE @[b]],
               !.coldData = [b \in ColdBlocks |-> IF kv.cold[b] = 0 THEN Junk ELSE @[b]]]

----------------------------------------------------------------------------
(* What holds of the plane, whoever calls it.                              *)

HotHolds(kv, b) ==
    LET Holders == {h \in Live(kv) \X (1 .. HotCapacity) \X (1 .. Layers) :
                       /\ IsHot(kv, h[1]) /\ h[2] \in DOMAIN kv.req[h[1]].table
                       /\ kv.req[h[1]].table[h[2]][h[3]] = b}
        Entries == {e \in (DOMAIN kv.cache) \X (1 .. Layers) : kv.cache[e[1]].blocks[e[2]] = b}
    IN  Cardinality(Holders) + Cardinality(Entries)

ColdHolds(kv, b) ==
    Cardinality({h \in Live(kv) \X (1 .. ColdCapacity) \X (1 .. Layers) :
                    /\ ~IsHot(kv, h[1]) /\ h[2] \in DOMAIN kv.req[h[1]].table
                    /\ kv.req[h[1]].table[h[2]][h[3]] = b})

(* A block's count is the number of block tables and cache entries it is   *)
(* in, and a block in the cold pool has one owner.                         *)
CountsAreHolders(kv) ==
    /\ \A b \in HotBlocks : kv.hot[b] = HotHolds(kv, b)
    /\ \A b \in ColdBlocks : kv.cold[b] = ColdHolds(kv, b) /\ kv.cold[b] <= 1

(* The first tokens of request r are where its block table says.           *)
Holds(kv, r, tokens) ==
    LET data == IF IsHot(kv, r) THEN kv.hotData ELSE kv.coldData
        table == kv.req[r].table
    IN  /\ BlocksFor(tokens) <= Len(table)
        /\ \A i \in 1 .. BlocksFor(tokens) : \A l \in 1 .. Layers :
               data[table[i][l]] = Stored(r, i, l, tokens)

(* A cached block holds, complete, the tokens its key names.               *)
EntryHolds(kv, e) ==
    \A l \in 1 .. Layers :
        kv.hotData[e.blocks[l]] =
            [identity |-> [key |-> e.key, of |-> 0, at |-> Len(e.key)],
             layer |-> l, fill |-> BlockTokens]

CacheWithinBudget(kv) ==
    /\ Len(kv.cache) * Layers <= CacheBlocks
    /\ Cardinality(CacheKeys(kv)) = Len(kv.cache)

(* Cached blocks cost a request no capacity: when the other requests in    *)
(* the hot pool fit in the cold one, a slice up to t tokens is refused     *)
(* only if t tokens do not fit in the pool beside the entries that those   *)
(* others read, which stay although their readers are swapped out.         *)
OthersHot(kv, r) == {s \in Live(kv) \ {r} : IsHot(kv, s) /\ kv.req[s].table # <<>>}
PinnedBeside(kv, r) ==
    UNION {Range(e.blocks) : e \in {f \in Range(kv.cache) : \E s \in OthersHot(kv, r) :
                                       Range(f.blocks) \cap TableBlocks(kv.req[s].table) # {}}}
        \ (IF IsHot(kv, r) THEN TableBlocks(kv.req[r].table) ELSE {})

RefusedOnlyWhenTooLarge(kv, r, t) ==
    /\ OthersHot(kv, r) # {} =>
           /\ HasCold
           /\ SumFunction([s \in OthersHot(kv, r) |-> TotalBlocks(kv, s)]) <= Cardinality(Free(kv.cold))
    /\ BlocksFor(t) * Layers + Cardinality(PinnedBeside(kv, r)) <= HotCapacity
    => CanReserve(kv, <<[req |-> r, begin |-> 0, count |-> t]>>)
=============================================================================
