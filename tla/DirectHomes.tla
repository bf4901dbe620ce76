---------------------------- MODULE DirectHomes ----------------------------
(***************************************************************************)
(* DirectAttachedRemapper (windows/remap.py): every unit of the address    *)
(* space has a fixed home, in HBM or in the dense image on HBF.  Balanced  *)
(* homes are a Beatty partition that is never written down; a policy puts  *)
(* the units it ranks first in HBM.  Within a tier homes follow the order  *)
(* of the units, so a unit's place is the number of units before it.       *)
(***************************************************************************)
EXTENDS WindowLayout, HbfGeometry

CONSTANTS
    DirectLayouts,      \* <<weights, blocks, runtime, order>>
    DirectPolicies,     \* POLICIES
    DirectHbmBytes,     \* capacities of HBM; 0 without HBM stacks
    DirectHbfStacks,    \* BOOLEAN, or {TRUE}
    ReservedBytes,      \* controller metadata, in HBM if there is any
    DirectRanges,       \* accesses: <<address, bytes>>
    MaxDirectAccesses   \* bound: accesses

ASSUME DirectAssumption ==
    /\ PlacementUnit % LinkPage = 0
    /\ DirectPolicies \subseteq {"capacity_balanced", "weights_first", "kv_first", "profiled_hotset"}

DirectPlan(l, policy, profile, hbm, hbf, reserved) ==
    LET units == UnitCount(l)
        usable == IF hbm = 0 THEN 0 ELSE hbm - AlignUp(reserved, LinkPage)
        inHbm == IF hbf THEN Min({units, usable \div PlacementUnit}) ELSE units
        order == PlacementOrder(l, policy, profile)
    IN  [system |-> "direct", policy |-> policy, space |-> l.space, units |-> units,
         hbm |-> hbm, hbf |-> hbf, hbmUnits |-> inHbm,
         reservedHbm |-> IF hbm = 0 THEN 0 ELSE AlignUp(reserved, LinkPage),
         reservedHbf |-> IF hbm = 0 THEN AlignUp(reserved, LinkPage) ELSE 0,
         selected |-> IF policy = "capacity_balanced" THEN {}
                      ELSE {order[i] : i \in 1 .. inHbm}]

HbmUnitsBefore(plan, unit) ==
    IF plan.policy = "capacity_balanced" THEN (unit * plan.hbmUnits) \div plan.units
    ELSE Cardinality({u \in plan.selected : u < unit})

OnHbm(plan, unit) == HbmUnitsBefore(plan, unit + 1) > HbmUnitsBefore(plan, unit)
Rank(plan, unit) ==
    IF OnHbm(plan, unit) THEN HbmUnitsBefore(plan, unit) ELSE unit - HbmUnitsBefore(plan, unit)

FinalBytes(plan) == plan.space - (plan.units - 1) * PlacementUnit
(* Mutant: a unit at the end of the space counts whole. *)
ResidentWhole(plan) == plan.hbmUnits * PlacementUnit

ResidentHbm(plan) ==
    plan.hbmUnits * PlacementUnit
      - IF OnHbm(plan, plan.units - 1) THEN PlacementUnit - FinalBytes(plan) ELSE 0
HbfImage(plan) == plan.reservedHbf + plan.space - ResidentHbm(plan)

RawPages == Stacks * PlanesPerStack * PagesPerPlane

(* The constructor refuses what does not fit.                              *)
Accepted(plan) ==
    /\ plan.space % LinkPage = 0
    /\ plan.hbm > 0 \/ plan.hbf
    /\ plan.hbm > 0 => plan.reservedHbm < plan.hbm
    /\ ~plan.hbf => plan.space <= plan.hbm - plan.reservedHbm
    /\ plan.reservedHbm + ResidentHbm(plan) <= plan.hbm
    /\ (plan.hbmUnits < plan.units \/ plan.reservedHbf > 0) =>
          LET pages == HbfImage(plan) \div LinkPage
          IN  pages + DenseMappingPages(0, pages) < RawPages

(* resident_hbf_bytes: whole units by their number, the edges by place.    *)
UnitOfByte(x) == x \div PlacementUnit
ResidentHbf(plan, address, bytes) ==
    LET end == address + bytes
        first == UnitOfByte(address)
        last == UnitOfByte(end - 1)
        part(unit, from, past) == IF OnHbm(plan, unit) THEN 0 ELSE past - from
    IN  IF plan.hbmUnits = plan.units THEN 0
        ELSE IF plan.hbmUnits = 0 THEN bytes
        ELSE part(first, address, Min({end, (first + 1) * PlacementUnit}))
               + IF last = first THEN 0
                 ELSE part(last, last * PlacementUnit, end)
                        + PlacementUnit * (last - first - 1
                            - (HbmUnitsBefore(plan, last) - HbmUnitsBefore(plan, first + 1)))

(* _physical_segments: unit by unit, joined where homes are adjacent.      *)
UnitSegment(plan, unit, address, end) ==
    LET from == Max({address, unit * PlacementUnit})
        past == Min({end, (unit + 1) * PlacementUnit})
        hbm == OnHbm(plan, unit)
        base == IF hbm THEN plan.reservedHbm ELSE plan.reservedHbf
    IN  [hbm |-> hbm, at |-> base + Rank(plan, unit) * PlacementUnit + (from % PlacementUnit),
         logical |-> from, bytes |-> past - from]

(* Mutant: adjacent addresses of different tiers are joined. *)
JoinedAcross(segments, s) ==
    IF segments # <<>> /\ LET t == Last(segments) IN t.at + t.bytes = s.at
    THEN Front(segments) \o <<[Last(segments) EXCEPT !.bytes = @ + s.bytes]>>
    ELSE Append(segments, s)

Joined(segments, s) ==
    IF segments # <<>> /\ LET t == Last(segments) IN t.hbm = s.hbm /\ t.at + t.bytes = s.at
    THEN Front(segments) \o <<[Last(segments) EXCEPT !.bytes = @ + s.bytes]>>
    ELSE Append(segments, s)

Segments(plan, address, bytes) ==
    IF plan.hbmUnits \in {0, plan.units}
    THEN LET hbm == plan.hbmUnits # 0
         IN  <<[hbm |-> hbm, at |-> address + IF hbm THEN plan.reservedHbm ELSE plan.reservedHbf,
                logical |-> address, bytes |-> bytes]>>
    ELSE FoldLeft(Joined, <<>>,
                  [k \in 1 .. UnitOfByte(address + bytes - 1) - UnitOfByte(address) + 1 |->
                      UnitSegment(plan, UnitOfByte(address) + k - 1, address, address + bytes)])

DirectlyServed(segment, x) ==
    <<IF segment.hbm THEN "hbm" ELSE "hbf", segment.at + x - segment.logical>>
SegmentBytes(segment) == segment.logical .. segment.logical + segment.bytes - 1

----------------------------------------------------------------------------
(* Every byte with its home.                                               *)
ImageOf(plan) == {<<x, DirectlyServed(Segments(plan, x, 1)[1], x)>> : x \in 0 .. plan.space - 1}

DirectPlans ==
    {DirectPlan(Layout(d[1], d[2], d[3], d[4]), policy, profile, hbm, hbf, reserved) :
        d \in DirectLayouts, policy \in DirectPolicies, profile \in Profiles,
        hbm \in DirectHbmBytes, hbf \in DirectHbfStacks, reserved \in ReservedBytes}

DirectInit ==
    /\ home \in {plan \in DirectPlans : Accepted(plan)}
    /\ \E image \in {ImageOf(home)} :
         traffic = NoTraffic([l \in Targets(image) |->
             [of |-> CHOOSE x \in 0 .. home.space - 1 : <<x, l>> \in image, via |-> {}]])
    /\ trace = <<>>

DirectAccesses == Cardinality({i \in DOMAIN trace : trace[i].op # "barrier"})

(* remap: one transaction for each segment.                                *)
DirectAccess(op, address, bytes, waits) ==
    LET addresses == address .. address + bytes - 1
        parents == Parents(op, addresses, waits)
    IN  /\ DirectAccesses < MaxDirectAccesses
        /\ address + bytes <= home.space
        /\ waits => LatestBarrier # {}
        /\ \E result \in {FoldLeft(
                  LAMBDA r, s : [t |-> Demand(r.t, op, {<<x, DirectlyServed(s, x)>> : x \in SegmentBytes(s)},
                                              TerminalsOf(parents)),
                                 done |-> r.done \cup {r.t.next}],
                  [t |-> traffic, done |-> {}], Segments(home, address, bytes))} :
              /\ traffic' = result.t
              /\ Traced(op, addresses, parents, FALSE, result.done)
        /\ UNCHANGED home

DirectNext ==
    /\ home.system = "direct"
    /\ \/ \E op \in {"R", "W"}, range \in DirectRanges, waits \in BOOLEAN :
             DirectAccess(op, range[1], range[2], waits)
       \/ DirectAccesses < MaxDirectAccesses /\ Barrier(FALSE)

----------------------------------------------------------------------------
(* No two bytes share a home; each tier's image is dense, lies behind its  *)
(* reservation and within its capacity; the bytes counted as resident on   *)
(* HBF are those whose home is there.                                      *)
DirectExact ==
    home.system = "direct" /\ trace = <<>> =>
        LET image == ImageOf(home)
            at(tier) == {l[2] : l \in {m \in Targets(image) : m[1] = tier}}
            onHbf == Sources({pair \in image : pair[2][1] = "hbf"})
        IN  /\ Cardinality(Targets(image)) = home.space
            /\ at("hbm") = home.reservedHbm .. home.reservedHbm + ResidentHbm(home) - 1
            /\ at("hbf") = home.reservedHbf .. HbfImage(home) - 1
            /\ at("hbm") # {} => Max(at("hbm")) < home.hbm
            /\ \A address \in 0 .. home.space - 1 : \A end \in address + 1 .. home.space :
                   ResidentHbf(home, address, end - address)
                       = Cardinality((address .. end - 1) \cap onHbf)
=============================================================================
