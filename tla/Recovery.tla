------------------------------ MODULE Recovery ------------------------------
(***************************************************************************)
(* RecoveryExecutor (hbserve/recovery.py): epochs of the KV of live        *)
(* requests are copied into an append-only arena of the HBF, their log is  *)
(* written behind them, and after a drain the root page names the epoch.   *)
(* The host then keeps an image of the medium, a record of the epoch and,  *)
(* last, published.json.  Every step of a publication is an action, so     *)
(* that power can be lost, or the step can raise, between any two.         *)
(*                                                                         *)
(* A request has one KV entry of one HBF page per token and a log takes    *)
(* one page.  HBF writes complete when they are buffered and reach the     *)
(* medium in any order, at the latest with a drain.  All checkpoints of a  *)
(* session go to one directory.  An optional record is a set with at most  *)
(* one element; equality of digests is equality of what they are taken of. *)
(***************************************************************************)
EXTENDS Integers, FiniteSets, SequencesExt

CONSTANTS
    Requests,
    Prompt, Lifetime,   \* tokens of a request before its first output, and in all
    ArenaPages,
    MaxEpochs, MaxBoots, MaxFailures   \* bounds: epochs, executors started, steps that
                                       \* raise

ASSUME BoundsAssumption == {ArenaPages, MaxEpochs, MaxBoots, MaxFailures} \subseteq Nat
ASSUME RequestsAssumption ==
    /\ Requests \subseteq Nat /\ IsFiniteSet(Requests)
    /\ {Prompt, Lifetime} \subseteq [Requests -> Nat \ {0}]

VARIABLES
    node,       \* the executor: placement, session and the attributes of the object
    medium,     \* what the HBF holds: its root and the pages of the arena
    buffered,   \* HBF writes that completed but have not reached the medium
    job,        \* the publish_checkpoint in progress
    files,      \* epochs with an image, records and published.json of the directory
    boots, failures

vars == <<node, medium, buffered, job, files, boots, failures>>
counters == <<boots, failures>>

Arena == 1 .. ArenaPages
Root == 0
Epochs == 0 .. MaxEpochs - 1
Off == [up |-> FALSE]
NoJob == [phase |-> "idle"]

(* tokens processed and emitted; requests without progress are not in it.  *)
NoProgress == [r \in {} |-> {}]

Fresh(media) ==
    [up |-> TRUE, media |-> media, fresh |-> media # {}, live |-> {}, progress |-> NoProgress,
     kv |-> [r \in Requests |-> <<>>], schedules |-> <<>>, initial |-> [r \in Requests |-> 0],
     published |-> {}, drained |-> {},
     epoch |-> IF media = {} THEN 0 ELSE (CHOOSE m \in media : TRUE).body.epoch + 1,
     cursor |-> IF media = {} THEN 1 ELSE (CHOOSE m \in media : TRUE).next]

Blank == [page \in {Root} \cup Arena |-> {}]

Init ==
    /\ node = Off /\ job = NoJob
    /\ medium = Blank /\ buffered = {}
    /\ files = [images |-> {}, records |-> {}, published |-> {}]
    /\ boots = 0 /\ failures = 0

Token(r, i) == [req |-> r, token |-> i]
Junk == Token(0, 0)
Idle == node.up /\ job = NoJob
Written(page, content) == [page |-> page, content |-> content]

----------------------------------------------------------------------------
(* An executor is started on the image of a record, or on a blank medium,  *)
(* which load_external_weights then fills (it is fresh no longer).         *)
Boot(media) ==
    /\ ~node.up /\ boots < MaxBoots
    /\ media \subseteq files.records /\ Cardinality(media) <= 1
    /\ node' = Fresh(media)
    /\ medium' = IF media = {} THEN Blank ELSE (CHOOSE m \in media : TRUE).image
    /\ boots' = boots + 1
    /\ UNCHANGED <<buffered, job, files, failures>>

Interrupt ==
    /\ node.up
    /\ node' = Off /\ job' = NoJob /\ buffered' = {}
    /\ medium' = Blank
    /\ UNCHANGED <<files, counters>>

Drained(held, writes) ==
    [page \in DOMAIN held |->
        IF \E w \in writes : w.page = page
        THEN {(CHOOSE w \in writes : w.page = page).content} ELSE held[page]]

----------------------------------------------------------------------------
(* _record_completed: a completed slice has to begin where the last ended. *)
ProgressOf(progress, initial, r) ==
    IF r \in DOMAIN progress THEN progress[r] ELSE [processed |-> 0, emitted |-> initial[r]]

Completed(progress, initial, slice) ==
    LET before == ProgressOf(progress, initial, slice.req)
    IN  [r \in DOMAIN progress \cup {slice.req} |->
            IF r # slice.req THEN progress[r]
            ELSE [processed |-> slice.begin + slice.count,
                  emitted |-> before.emitted + IF slice.emits THEN 1 ELSE 0]]

Execute(n, slice) ==
    [n EXCEPT !.live = @ \cup {slice.req}, !.progress = Completed(@, n.initial, slice),
              !.schedules = Append(@, slice),
              !.kv[slice.req] = @ \o [i \in 1 .. slice.count |-> Token(slice.req, slice.begin + i)]]

Compute(r) ==
    /\ Idle /\ (r \in node.live \/ r \notin DOMAIN node.progress)
    /\ LET begin == ProgressOf(node.progress, node.initial, r).processed
       IN  /\ begin < Lifetime[r]
           /\ node' = Execute(node, [req |-> r, begin |-> begin, count |-> 1,
                                     emits |-> begin + 1 >= Prompt[r]])
    /\ UNCHANGED <<medium, buffered, job, files, counters>>

----------------------------------------------------------------------------
(* A request that has all its tokens is released; the session cannot be    *)
(* published any more.                                                     *)
Release(r) ==
    /\ Idle /\ r \in node.live /\ node.progress[r].processed = Lifetime[r]
    /\ node' = [node EXCEPT !.live = @ \ {r}]
    /\ UNCHANGED <<medium, buffered, job, files, counters>>

(* publish_checkpoint.  Extents follow one another in the order of the     *)
(* requests, the log is behind them.                                       *)
Extent(n, r) ==
    n.cursor + FoldSet(LAMBDA s, sum : sum + Len(n.kv[s]), 0, {s \in DOMAIN n.progress : s < r})
LogPage(n) == n.cursor + FoldSet(LAMBDA s, sum : sum + Len(n.kv[s]), 0, DOMAIN n.progress)

Body(n) ==
    [epoch |-> n.epoch, progress |-> n.progress, schedules |-> n.schedules,
     initial |-> n.initial, begin |-> n.cursor, previous |-> {p.body : p \in n.published},
     versions |-> [r \in DOMAIN n.progress |-> Extent(n, r)], log |-> LogPage(n)]

Publishable == Idle /\ node.epoch \in Epochs /\ DOMAIN node.progress = node.live

(* Where the arena is exhausted is all the same.                           *)
Behind(page) == IF page \in Arena THEN page + 1 ELSE ArenaPages + 1

(* Mutant: an epoch that exists is written again. *)
BeginAgain(publish) ==
    /\ Publishable
    /\ node' = [node EXCEPT !.cursor = Behind(LogPage(node))]
    /\ job' = IF LogPage(node) \in Arena
              THEN [phase |-> "copy", publish |-> publish, body |-> Body(node), image |-> {}]
              ELSE NoJob
    /\ UNCHANGED <<medium, buffered, files, counters>>

(* The cursor has moved when the exhausted arena raises.                   *)
Begin(publish) ==
    /\ Publishable /\ node.epoch \notin files.images
    /\ node' = [node EXCEPT !.cursor = Behind(LogPage(node))]
    /\ job' = IF LogPage(node) \in Arena
              THEN [phase |-> "copy", publish |-> publish, body |-> Body(node), image |-> {}]
              ELSE NoJob
    /\ UNCHANGED <<medium, buffered, files, counters>>

At(phase) == node.up /\ job.phase = phase
GoTo(phase) == job' = [job EXCEPT !.phase = phase]

Copy ==
    /\ At("copy") /\ GoTo("log")
    /\ buffered' = buffered \cup
          UNION {{Written(job.body.versions[r] + i - 1, node.kv[r][i]) : i \in 1 .. Len(node.kv[r])} :
                 r \in DOMAIN job.body.versions}
    /\ node' = [node EXCEPT !.fresh = FALSE]
    /\ UNCHANGED <<medium, files, counters>>

WriteLog ==
    /\ At("log") /\ GoTo("drain")
    /\ buffered' = buffered \cup {Written(job.body.log, job.body)}
    /\ UNCHANGED <<node, medium, files, counters>>

AfterDrain == IF job.publish THEN "root" ELSE "image"

(* Mutant: data and log are not drained before the root is written. *)
Undrained ==
    /\ At("drain") /\ node.epoch \notin node.drained /\ GoTo(AfterDrain)
    /\ node' = [node EXCEPT !.drained = @ \cup {node.epoch}]
    /\ UNCHANGED <<medium, buffered, files, counters>>

(* The checkpoint is named after the epoch; its name cannot be used again. *)
Drain ==
    /\ At("drain") /\ node.epoch \notin node.drained /\ GoTo(AfterDrain)
    /\ node' = [node EXCEPT !.drained = @ \cup {node.epoch}]
    /\ medium' = Drained(medium, buffered) /\ buffered' = {}
    /\ UNCHANGED <<files, counters>>

WriteRoot ==
    /\ At("root") /\ GoTo("image")
    /\ buffered' = buffered \cup {Written(Root, job.body)}
    /\ UNCHANGED <<node, medium, files, counters>>

(* checkpoint_image drains as every checkpoint does.                       *)
TakeImage ==
    /\ At("image")
    /\ medium' = Drained(medium, buffered) /\ buffered' = {}
    /\ job' = [job EXCEPT !.phase = "record", !.image = medium']
    /\ files' = [files EXCEPT !.images = @ \cup {node.epoch}]
    /\ UNCHANGED <<node, counters>>

Record ==
    [body |-> job.body, image |-> job.image, next |-> node.cursor,
     publication |-> IF job.publish THEN "published" ELSE "staged_unpublished"]

WriteRecord ==
    /\ At("record")
    /\ files' = [files EXCEPT !.records = @ \cup {Record}]
    /\ IF job.publish
       THEN GoTo("replace") /\ UNCHANGED node
       ELSE job' = NoJob /\ node' = [node EXCEPT !.epoch = @ + 1]
    /\ UNCHANGED <<medium, buffered, counters>>

Replace ==
    /\ At("replace")
    /\ files' = [files EXCEPT !.published = {Record}]
    /\ job' = NoJob
    /\ node' = [node EXCEPT !.published = {Record}, !.epoch = @ + 1]
    /\ UNCHANGED <<medium, buffered, counters>>

(* A step raises: the executor stays, with the cursor where it is.         *)
Fail ==
    /\ node.up /\ job # NoJob /\ failures < MaxFailures
    /\ failures' = failures + 1
    /\ job' = NoJob
    /\ node' = [node EXCEPT !.fresh = FALSE]
    /\ UNCHANGED <<medium, buffered, files, boots>>

PublishStep == Copy \/ WriteLog \/ Drain \/ WriteRoot \/ TakeImage \/ WriteRecord \/ Replace

----------------------------------------------------------------------------
(* restore_checkpoint with what published.json holds.                      *)
(* Mutant: any medium is taken for a child of the published epoch. *)
AnyMedium(media, published) == published.publication = "published"

Restorable(media, published) ==
    /\ published.publication = "published"
    /\ media.body = published.body
       \/ /\ media.publication = "staged_unpublished"
          /\ media.body.previous = {published.body} /\ media.body.begin = published.next

(* Replaying the schedules gives the progress; anything else raises.       *)
(* Mutant: outputs acknowledged before a recomputation are not replayed. *)
ReplayedFromZero(body) ==
    FoldLeft(LAMBDA progress, slice : Completed(progress, [r \in Requests |-> 0], slice),
             NoProgress, body.schedules)

Replayed(body) ==
    FoldLeft(LAMBDA progress, slice : Completed(progress, body.initial, slice),
             NoProgress, body.schedules)

Stored(image, body, r) ==
    [i \in 1 .. body.progress[r].processed |-> image[body.versions[r] + i - 1]]

Found(pages) == [i \in DOMAIN pages |-> IF pages[i] = {} THEN Junk ELSE CHOOSE c \in pages[i] : TRUE]

Restore(media, published) ==
    LET body == published.body
    IN  /\ Idle /\ node.media = {media} /\ published \in files.published
        /\ node.fresh /\ node.schedules = <<>> /\ node.live = {}
        /\ Restorable(media, published) /\ Replayed(body) = body.progress
        /\ node' = [node EXCEPT
              !.fresh = FALSE, !.live = DOMAIN body.progress, !.progress = body.progress,
              !.schedules = body.schedules, !.initial = body.initial,
              !.published = {published},
              !.kv = [r \in Requests |-> IF r \in DOMAIN body.progress
                                         THEN Found(Stored(medium, body, r)) ELSE <<>>]]
        /\ UNCHANGED <<medium, buffered, job, files, counters>>

(* recompute_checkpoint: one prefill of the acknowledged context, whose    *)
(* output was emitted before.                                              *)
Recompute(published, r) ==
    LET state == published.body.progress[r]
    IN  /\ Idle /\ published \in files.published /\ published.publication = "published"
        /\ node.schedules = <<>> /\ node.progress = NoProgress /\ node.live = {}
        /\ DOMAIN published.body.progress = {r} /\ state.emitted >= 1
        /\ node' = Execute([node EXCEPT !.initial[r] = state.emitted - 1],
                           [req |-> r, begin |-> 0, count |-> state.processed, emits |-> TRUE])
        /\ UNCHANGED <<medium, buffered, job, files, counters>>

Next ==
    \/ \E media \in {{}} \cup {{m} : m \in files.records} : Boot(media)
    \/ Interrupt
    \/ \E r \in Requests : Compute(r) \/ Release(r)
    \/ (\E publish \in BOOLEAN : Begin(publish)) \/ PublishStep \/ Fail
    \/ \E media \in files.records, published \in files.published : Restore(media, published)
    \/ \E published \in files.published : \E r \in DOMAIN published.body.progress :
           Recompute(published, r)

Spec == Init /\ [][Next]_vars

----------------------------------------------------------------------------
Tokens(body, r) == [i \in 1 .. body.progress[r].processed |-> Token(r, i)]

(* Whatever was lost and restored or recomputed, the HBM holds the KV of   *)
(* every token a request has processed: a restore never works on a medium  *)
(* that holds other data where the published epoch had its own.            *)
ContextSurvives ==
    node.up => \A r \in DOMAIN node.progress : node.kv[r] = Tokens(node, r)

(* From the first publication on, wherever the power goes away, there is a *)
(* published epoch that can be restored from its own image: the log of the *)
(* epoch replays to its progress, outputs that were recomputed included,   *)
(* and the image holds root, log and KV; so does every other image the     *)
(* restore would accept, except for the root.                              *)
PublishedIsRestorable ==
    \A p \in files.published :
        /\ p \in files.records /\ p.image[Root] = {p.body}
        /\ Replayed(p.body) = p.body.progress
        /\ \A m \in files.records : Restorable(m, p) =>
              /\ m.image[p.body.log] = {p.body}
              /\ \A r \in DOMAIN p.body.progress :
                    Found(Stored(m.image, p.body, r)) = Tokens(p.body, r)

(* Whatever order buffered writes reach the medium in, its root never      *)
(* names an epoch whose log or KV is not there: when a root is written     *)
(* everything it names has been drained.                                   *)
RootAfterData ==
    \A body \in medium[Root] \cup {w.content : w \in {w \in buffered : w.page = Root}} :
        /\ medium[body.log] = {body}
        /\ \A r \in DOMAIN body.progress : Found(Stored(medium, body, r)) = Tokens(body, r)

(* published.json never goes back to an earlier epoch, and an epoch that   *)
(* was published is never replaced by another one with its number.         *)
PublicationAdvances ==
    [][\A p \in files.published : \E q \in files'.published :
          q = p \/ q.body.epoch > p.body.epoch]_vars
=============================================================================
