---------------------------- MODULE HbfGeometry ----------------------------
(***************************************************************************)
(* HbfGeometry (hbfsim_client/transaction_protocol.py): how logical pages  *)
(* lie on stacks, on mapping pages and, without an FTL, on planes.  Pages  *)
(* go over the stacks in stripes; the stripes of one group of mapping      *)
(* pages are rotated by a hash of the group, here any function `rotation`. *)
(* Three callers split a transfer of bytes over the stacks in ways of      *)
(* their own (windows/peer.py, recovery.py, sglang/backend.py).            *)
(***************************************************************************)
EXTENDS CausalTraffic

CONSTANTS
    Stacks, EntriesPerPage,       \* mapping_entries_per_page
    PlanesPerStack, PagesPerPlane,
    LinkPage,                     \* bytes of a page
    MaxFirst, MaxTransfer         \* bounds: first page or byte, pages or bytes

ASSUME HbfAssumption ==
    {Stacks, EntriesPerPage, PlanesPerStack, PagesPerPlane, LinkPage} \subseteq Nat \ {0}

StackIds == 0 .. Stacks - 1
GroupPages == Stacks * EntriesPerPage
GroupOf(lpn) == (lpn \div Stacks) \div EntriesPerPage
Lane(lpn) == lpn % Stacks

StackOf(rotation, lpn) ==
    LET lane == Lane(lpn)
        turn == rotation[GroupOf(lpn)]
    IN  IF lane >= Stacks - turn THEN lane - (Stacks - turn) ELSE lane + turn

(* The mapping page of a logical page lies on the stack of that page.      *)
MappingPage(rotation, lpn) ==
    GroupOf(lpn) * Stacks + ((Lane(lpn) + rotation[GroupOf(lpn)]) % Stacks)

(* Without an FTL: the physical page of a logical page.                    *)
StaticPage(rotation, lpn) ==
    LET index == lpn \div Stacks
        plane == StackOf(rotation, lpn) * PlanesPerStack + (index % PlanesPerStack)
    IN  plane * PagesPerPlane + (index \div PlanesPerStack)

----------------------------------------------------------------------------
(* hbf_link_bytes_by_stack, in pages: group by group, full stripes and the *)
(* lanes of the rest.                                                      *)
Groups(first, pages) == GroupOf(first) .. GroupOf(first + pages - 1)

(* Mutant: the lanes of the rest are counted from the first stack. *)
InGroupUnstarted(rotation, first, past, group, stack) ==
    LET start == Max({first, group * GroupPages})
        take == Min({past, (group + 1) * GroupPages}) - start
        turned(lane) == (lane + rotation[group]) % Stacks
    IN  (take \div Stacks)
          + Cardinality({offset \in 0 .. (take % Stacks) - 1 : turned(offset) = stack})

InGroup(rotation, first, past, group, stack) ==
    LET start == Max({first, group * GroupPages})
        take == Min({past, (group + 1) * GroupPages}) - start
        turned(lane) == (lane + rotation[group]) % Stacks
    IN  (take \div Stacks)
          + Cardinality({offset \in 0 .. (take % Stacks) - 1 : turned(Lane(start + offset)) = stack})

LinkPages(rotation, first, pages) ==
    [s \in StackIds |->
        MapThenSumSet(LAMBDA g : InGroup(rotation, first, first + pages, g, s), Groups(first, pages))]

(* hbf_dense_mapping_pages.                                                *)
DenseMappingPages(first, pages) ==
    LET last == first + pages - 1
        groups == last \div GroupPages - first \div GroupPages
    IN  IF pages = 0 THEN 0
        ELSE IF groups = 0 THEN Min({Stacks, pages})
        ELSE Min({Stacks, (first \div GroupPages + 1) * GroupPages - first})
               + (groups - 1) * Stacks
               + Min({Stacks, (last % GroupPages) + 1})

----------------------------------------------------------------------------
(* Bytes [address, address + size) that need not start or end a page.      *)
OnStack(rotation, lpn, bytes) == [s \in StackIds |-> IF s = StackOf(rotation, lpn) THEN bytes ELSE 0]
Plus(f, g) == [s \in StackIds |-> f[s] + g[s]]
Zero == [s \in StackIds |-> 0]
WholePages(rotation, address, size) ==
    IF size = 0 THEN Zero
    ELSE [s \in StackIds |->
             LinkPage * LinkPages(rotation, address \div LinkPage, size \div LinkPage)[s]]

(* peer.py _transfer_bytes_by_stack: a head, whole pages, a tail.          *)
PeerLink(rotation, address, size) ==
    LET head == IF address % LinkPage = 0 THEN 0
                ELSE Min({size, LinkPage - (address % LinkPage)})
        middle == ((size - head) \div LinkPage) * LinkPage
        tail == size - head - middle
    IN  Plus(OnStack(rotation, address \div LinkPage, head),
             Plus(WholePages(rotation, address + head, middle),
                  OnStack(rotation, (address + head + middle) \div LinkPage, tail)))

(* recovery.py link_payload_by_stack: whole pages, less what sticks out.   *)
RecoveryLink(rotation, address, size) ==
    LET begin == (address \div LinkPage) * LinkPage
        end == ((address + size + LinkPage - 1) \div LinkPage) * LinkPage
    IN  Plus(WholePages(rotation, begin, end - begin),
             Plus(OnStack(rotation, address \div LinkPage, begin - address),
                  OnStack(rotation, (address + size - 1) \div LinkPage, address + size - end)))

(* backend.py _link: whole stripes evenly, the pages around them one by    *)
(* one.                                                                    *)
PageBytesIn(first, past, lpn) ==
    Max({0, Min({past, (lpn + 1) * LinkPage}) - Max({first, lpn * LinkPage})})
EdgePages(rotation, first, past) ==
    [s \in StackIds |->
        MapThenSumSet(LAMBDA lpn : IF StackOf(rotation, lpn) = s THEN PageBytesIn(first, past, lpn) ELSE 0,
                      first \div LinkPage .. past \div LinkPage)]
BackendLink(rotation, address, size) ==
    LET stripe == Stacks * LinkPage
        end == address + size
        begin == Min({end, ((address + stripe - 1) \div stripe) * stripe})
        past == Max({begin, (end \div stripe) * stripe})
    IN  Plus([s \in StackIds |-> (past - begin) \div Stacks],
             Plus(EdgePages(rotation, address, begin), EdgePages(rotation, past, end)))

----------------------------------------------------------------------------
GeometryInit ==
    /\ \E rotation \in [0 .. (MaxFirst + MaxTransfer) \div GroupPages -> StackIds],
          first \in 0 .. MaxFirst, count \in 1 .. MaxTransfer :
         home = [system |-> "geometry", rotation |-> rotation, first |-> first, count |-> count]
    /\ traffic = NoTraffic(<<>>)
    /\ trace = <<>>

(* Counted page by page: the pages of a range on every stack, and the      *)
(* mapping pages of the range.                                             *)
CountsMatch(rotation, first, pages) ==
    LET range == first .. first + pages - 1
    IN  /\ \A s \in StackIds :
              LinkPages(rotation, first, pages)[s]
                  = Cardinality({p \in range : StackOf(rotation, p) = s})
        /\ DenseMappingPages(first, pages) = Cardinality({MappingPage(rotation, p) : p \in range})

(* A page, its mapping page and its physical page lie on one stack, and no *)
(* two pages share a physical page.                                        *)
StackLocal(rotation, first, pages) ==
    \A p \in first .. first + pages - 1 :
        /\ MappingPage(rotation, p) % Stacks = StackOf(rotation, p)
        /\ StaticPage(rotation, p) \div (PlanesPerStack * PagesPerPlane) = StackOf(rotation, p)
        /\ \A q \in first .. p - 1 : StaticPage(rotation, p) # StaticPage(rotation, q)

(* Counted byte by byte: the three callers agree.                          *)
LinksAgree(rotation, address, size) ==
    LET bytes(s) == Cardinality({x \in address .. address + size - 1 :
                                    StackOf(rotation, x \div LinkPage) = s})
    IN  \A s \in StackIds :
            /\ PeerLink(rotation, address, size)[s] = bytes(s)
            /\ RecoveryLink(rotation, address, size)[s] = bytes(s)
            /\ BackendLink(rotation, address, size)[s] = bytes(s)

(* A transfer is charged to the stacks its bytes lie on, whichever caller  *)
(* splits it, whatever the hash, and wherever groups and stripes begin.    *)
GeometryExact ==
    home.system = "geometry" =>
        /\ CountsMatch(home.rotation, home.first, home.count)
        /\ StackLocal(home.rotation, home.first, home.count)
        /\ LinksAgree(home.rotation, home.first, home.count)
=============================================================================
