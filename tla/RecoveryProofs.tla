---------------------------- MODULE RecoveryProofs ----------------------------
(***************************************************************************)
(* Proofs that published epochs only advance and that what is published    *)
(* can be restored, for every number of requests, epochs, restarts and     *)
(* failed steps, any lengths and any size of the arena.                    *)
(*                                                                         *)
(* The number of an epoch is chosen by whoever started the executor: 0 on  *)
(* a blank medium, one more than its record's on an image.  That it is     *)
(* above every published number follows from what the directory holds: the *)
(* numbers that have an image form an initial segment, a number in it      *)
(* cannot be used again, and only those in it have been published.         *)
(*                                                                         *)
(* That its data survive follows from the arena being append-only: the     *)
(* epochs somebody may come back to are on the medium, every buffered      *)
(* write lies behind them, and a record is taken of a medium that holds    *)
(* whatever the record names.  The requests have the KV of what they       *)
(* processed because a restore only ever reads such a medium.              *)
(***************************************************************************)
EXTENDS Recovery, FiniteSetTheorems, TLAPS

JobFields == {"phase", "publish", "body", "image"}
NodeFields ==
    {"up", "media", "fresh", "live", "progress", "kv", "schedules", "initial", "published",
     "drained", "epoch", "cursor"}

EarlyPhases == {"copy", "log", "drain", "root", "image"}
LatePhases == {"record", "replace"}

(* The epochs with an image are an initial segment of the numbers.         *)
ImagesInitial ==
    /\ files.images \subseteq Nat
    /\ \A e \in files.images : \A k \in 0 .. e : k \in files.images

(* What is recorded or published has an image.                             *)
RecordsHaveImages ==
    /\ DOMAIN files = {"images", "records", "published"}
    /\ \A r \in files.records : r.body.epoch \in files.images
    /\ \A p \in files.published : p.body.epoch \in files.images

(* The next epoch comes right after one with an image.                     *)
EpochFollows ==
    node.up =>
        /\ DOMAIN node = NodeFields
        /\ node.epoch \in Nat
        /\ node.epoch = 0 \/ node.epoch - 1 \in files.images

(* A publication is of the next epoch, whose image is taken once.          *)
JobOfEpoch ==
    job # NoJob =>
        /\ node.up
        /\ DOMAIN job = JobFields /\ job.phase \in EarlyPhases \cup LatePhases
        /\ job.body.epoch = node.epoch
        /\ job.phase \in EarlyPhases => node.epoch \notin files.images
        /\ job.phase \in LatePhases =>
              /\ node.epoch \in files.images
              /\ \A p \in files.published : p.body.epoch < node.epoch

Inv == ImagesInitial /\ RecordsHaveImages /\ EpochFollows /\ JobOfEpoch

Advances ==
    \A p \in files.published : \E q \in files'.published :
        q = p \/ q.body.epoch > p.body.epoch

----------------------------------------------------------------------------
(* No phase of a job is that of having none.                               *)
LEMMA NoJobIsIdle == \A phase \in EarlyPhases \cup LatePhases : \A j :
    j.phase = phase => j # NoJob
BY DEF NoJob, EarlyPhases, LatePhases

(* The empty node and files meet the invariant.                            *)
LEMMA InitInv == Init => Inv
BY DEF Init, Inv, ImagesInitial, RecordsHaveImages, EpochFollows, JobOfEpoch, Off

(* A step that leaves the files and the epoch as they were.                *)
LEMMA SameEpochKeepsInv ==
    ASSUME Inv, files' = files, node.up,
           node'.up, DOMAIN node' = NodeFields, node'.epoch = node.epoch,
           \/ job' \in {job, NoJob}
           \/ \E phase \in EarlyPhases :
                job # NoJob /\ job.phase \in EarlyPhases /\ job' = [job EXCEPT !.phase = phase]
    PROVE  Inv' /\ Advances
<1>1. ImagesInitial' /\ RecordsHaveImages' /\ EpochFollows'
  BY DEF Inv, ImagesInitial, RecordsHaveImages, EpochFollows
<1>2. JobOfEpoch'
  <2>1. CASE job' = job BY <2>1 DEF Inv, JobOfEpoch
  <2>2. CASE job' = NoJob BY <2>2 DEF JobOfEpoch
  <2>3. ASSUME NEW phase \in EarlyPhases, job # NoJob, job.phase \in EarlyPhases,
               job' = [job EXCEPT !.phase = phase]
        PROVE JobOfEpoch'
    <3>1. /\ DOMAIN job' = JobFields /\ job'.phase = phase /\ job'.body = job.body
      BY <2>3 DEF Inv, JobOfEpoch, JobFields
    <3>2. phase \notin LatePhases BY DEF EarlyPhases, LatePhases
    <3> QED BY <2>3, <3>1, <3>2 DEF Inv, JobOfEpoch
  <2> QED BY <2>1, <2>2, <2>3
<1>3. Advances BY DEF Advances
<1> QED BY <1>1, <1>2, <1>3 DEF Inv

LEMMA BootKeepsInv ==
    ASSUME Inv, NEW media, Boot(media)
    PROVE  Inv' /\ Advances
<1>1. /\ ~node.up /\ media \subseteq files.records /\ node' = Fresh(media)
      /\ UNCHANGED <<job, files>>
  BY DEF Boot
<1>2. DOMAIN node' = NodeFields /\ node'.up
      /\ node'.epoch = IF media = {} THEN 0 ELSE (CHOOSE m \in media : TRUE).body.epoch + 1
  BY <1>1 DEF Fresh, NodeFields
<1>3. EpochFollows'
  <2>1. CASE media = {} BY <1>2, <2>1 DEF EpochFollows
  <2>2. CASE media # {}
    <3>1. PICK m \in media : m = CHOOSE x \in media : TRUE BY <2>2
    <3>2. m.body.epoch \in files.images /\ m.body.epoch \in Nat
      BY <1>1, <3>1 DEF Inv, RecordsHaveImages, ImagesInitial
    <3>3. node'.epoch = m.body.epoch + 1 BY <1>2, <2>2, <3>1
    <3> QED BY <1>1, <1>2, <3>2, <3>3 DEF EpochFollows
  <2> QED BY <2>1, <2>2
<1>4. job = NoJob BY <1>1 DEF Inv, JobOfEpoch
<1>5. JobOfEpoch' BY <1>1, <1>4 DEF JobOfEpoch
<1>6. ImagesInitial' /\ RecordsHaveImages' /\ Advances
  BY <1>1 DEF Inv, ImagesInitial, RecordsHaveImages, Advances
<1> QED BY <1>3, <1>5, <1>6 DEF Inv

LEMMA InterruptKeepsInv ==
    ASSUME Inv, Interrupt
    PROVE  Inv' /\ Advances
BY DEF Interrupt, Off, counters, Inv, ImagesInitial, RecordsHaveImages, EpochFollows, JobOfEpoch,
       Advances

(* A batch leaves the epoch alone.                                         *)
LEMMA ExecuteKeepsEpoch ==
    ASSUME NEW n, DOMAIN n = NodeFields, NEW slice
    PROVE  /\ DOMAIN Execute(n, slice) = NodeFields
           /\ Execute(n, slice).up = n.up /\ Execute(n, slice).epoch = n.epoch
BY DEF NodeFields, Execute

LEMMA RequestStepsKeepInv ==
    ASSUME Inv, \/ \E r \in Requests : Compute(r) \/ Release(r)
                \/ \E media \in files.records, published \in files.published :
                       Restore(media, published)
                \/ \E published \in files.published : \E r \in DOMAIN published.body.progress :
                       Recompute(published, r)
    PROVE  Inv' /\ Advances
<1>1. node.up /\ UNCHANGED <<job, files>>
  BY DEF Compute, Release, Restore, Recompute, Idle
<1>2. DOMAIN node = NodeFields BY <1>1 DEF Inv, EpochFollows
<1>3. DOMAIN node' = NodeFields /\ node'.up /\ node'.epoch = node.epoch
  <2>1. CASE \E r \in Requests : Compute(r)
    BY <1>1, <1>2, <2>1, ExecuteKeepsEpoch DEF Compute
  <2>2. CASE \E r \in Requests : Release(r)
    BY <1>1, <1>2, <2>2 DEF Release, NodeFields
  <2>3. CASE \E media \in files.records, published \in files.published :
                 Restore(media, published)
    <3>1. PICK media \in files.records, published \in files.published :
             Restore(media, published)
      BY <2>3
    <3> DEFINE body == published.body
               kv == [r \in Requests |-> IF r \in DOMAIN body.progress
                                         THEN Found(Stored(medium, body, r)) ELSE <<>>]
    <3>2. node' = [node EXCEPT
              !.fresh = FALSE, !.live = DOMAIN body.progress, !.progress = body.progress,
              !.schedules = body.schedules, !.initial = body.initial,
              !.published = {published}, !.kv = kv]
      BY <3>1 DEF Restore
    <3> HIDE DEF body, kv
    <3> QED BY <1>1, <1>2, <3>2 DEF NodeFields
  <2>4. CASE \E published \in files.published : \E r \in DOMAIN published.body.progress :
                 Recompute(published, r)
    <3>1. PICK r, value, slice : node' = Execute([node EXCEPT !.initial[r] = value], slice)
      BY <2>4 DEF Recompute
    <3>2. DOMAIN [node EXCEPT !.initial[r] = value] = NodeFields
          /\ [node EXCEPT !.initial[r] = value].up = node.up
          /\ [node EXCEPT !.initial[r] = value].epoch = node.epoch
      BY <1>2 DEF NodeFields
    <3> QED BY <1>1, <3>1, <3>2, ExecuteKeepsEpoch
  <2> QED BY <2>1, <2>2, <2>3, <2>4
<1> QED BY <1>1, <1>3, SameEpochKeepsInv

LEMMA BeginKeepsInv ==
    ASSUME Inv, NEW publish \in BOOLEAN, Begin(publish)
    PROVE  Inv' /\ Advances
<1>1. /\ node.up /\ node.epoch \notin files.images /\ files' = files
      /\ node' = [node EXCEPT !.cursor = Behind(LogPage(node))]
      /\ \/ job' = [phase |-> "copy", publish |-> publish, body |-> Body(node), image |-> {}]
         \/ job' = NoJob
  BY DEF Begin, Publishable, Idle
<1>2. DOMAIN node' = NodeFields /\ node'.up /\ node'.epoch = node.epoch
  BY <1>1 DEF Inv, EpochFollows, NodeFields
<1>3. CASE job' = NoJob BY <1>1, <1>2, <1>3, SameEpochKeepsInv
<1>4. CASE job' = [phase |-> "copy", publish |-> publish, body |-> Body(node), image |-> {}]
  <2>1. Body(node).epoch = node.epoch BY DEF Body
  <2>2. /\ DOMAIN job' = JobFields /\ job'.phase = "copy" /\ job'.body.epoch = node.epoch
    BY <1>4, <2>1 DEF JobFields
  <2>3. JobOfEpoch' BY <1>1, <1>2, <2>2 DEF JobOfEpoch, EarlyPhases, LatePhases
  <2>4. ImagesInitial' /\ RecordsHaveImages' /\ EpochFollows' /\ Advances
    BY <1>1, <1>2 DEF Inv, ImagesInitial, RecordsHaveImages, EpochFollows, Advances
  <2> QED BY <2>3, <2>4 DEF Inv
<1> QED BY <1>1, <1>3, <1>4

LEMMA EarlyStepsKeepInv ==
    ASSUME Inv, Copy \/ WriteLog \/ Drain \/ WriteRoot
    PROVE  Inv' /\ Advances
<1>1. PICK phase \in EarlyPhases :
         job' = [job EXCEPT !.phase = phase] /\ job.phase \in {"copy", "log", "drain", "root"}
  BY DEF Copy, WriteLog, Drain, WriteRoot, At, GoTo, AfterDrain, EarlyPhases
<1>2. node.up /\ files' = files
  BY DEF Copy, WriteLog, Drain, WriteRoot, At
<1>3. job # NoJob /\ job.phase \in EarlyPhases BY <1>1 DEF NoJob, EarlyPhases
<1>4. DOMAIN node = NodeFields BY <1>2 DEF Inv, EpochFollows
<1>5. DOMAIN node' = NodeFields /\ node'.up /\ node'.epoch = node.epoch
  BY <1>2, <1>4 DEF Copy, WriteLog, Drain, WriteRoot, NodeFields
<1> QED BY <1>1, <1>2, <1>3, <1>5, SameEpochKeepsInv

LEMMA FailKeepsInv ==
    ASSUME Inv, Fail
    PROVE  Inv' /\ Advances
<1>1. node.up /\ files' = files /\ job' = NoJob /\ node' = [node EXCEPT !.fresh = FALSE]
  BY DEF Fail
<1>2. DOMAIN node' = NodeFields /\ node'.up /\ node'.epoch = node.epoch
  BY <1>1 DEF Inv, EpochFollows, NodeFields
<1> QED BY <1>1, <1>2, SameEpochKeepsInv

(* The image extends the segment by the next number, which is therefore    *)
(* above all that have been published.                                     *)
LEMMA TakeImageKeepsInv ==
    ASSUME Inv, TakeImage
    PROVE  Inv' /\ Advances
<1>1. /\ node.up /\ job.phase = "image" /\ node' = node
      /\ job' = [job EXCEPT !.phase = "record", !.image = medium']
      /\ files' = [files EXCEPT !.images = @ \cup {node.epoch}]
  BY DEF TakeImage, At
<1>2. /\ job # NoJob /\ DOMAIN job = JobFields /\ job.body.epoch = node.epoch
      /\ node.epoch \notin files.images /\ node.epoch \in Nat
      /\ node.epoch = 0 \/ node.epoch - 1 \in files.images
  BY <1>1 DEF Inv, EpochFollows, JobOfEpoch, NoJob, EarlyPhases
<1>3. /\ DOMAIN files' = {"images", "records", "published"}
      /\ files'.images = files.images \cup {node.epoch}
      /\ files'.records = files.records /\ files'.published = files.published
  BY <1>1 DEF Inv, RecordsHaveImages
<1>4. ImagesInitial'
  <2>1. files'.images \subseteq Nat BY <1>2, <1>3 DEF Inv, ImagesInitial
  <2>2. ASSUME NEW e \in files'.images, NEW k \in 0 .. e PROVE k \in files'.images
    <3>1. CASE e \in files.images BY <1>3, <2>2, <3>1 DEF Inv, ImagesInitial
    <3>2. CASE e = node.epoch
      <4>1. CASE k = node.epoch BY <1>3, <4>1
      <4>2. CASE k # node.epoch
        <5>1. k \in 0 .. node.epoch - 1 /\ node.epoch - 1 \in files.images
          BY <1>2, <3>2, <4>2
        <5> QED BY <1>3, <5>1 DEF Inv, ImagesInitial
      <4> QED BY <4>1, <4>2
    <3> QED BY <1>3, <3>1, <3>2
  <2> QED BY <2>1, <2>2 DEF ImagesInitial
<1>5. RecordsHaveImages' BY <1>3 DEF Inv, RecordsHaveImages
<1>6. EpochFollows' BY <1>1, <1>3 DEF Inv, EpochFollows
<1>7. \A p \in files.published : p.body.epoch < node.epoch
  <2> SUFFICES ASSUME NEW p \in files.published PROVE p.body.epoch < node.epoch OBVIOUS
  <2>1. p.body.epoch \in files.images /\ p.body.epoch \in Nat
    BY DEF Inv, RecordsHaveImages, ImagesInitial
  <2>2. ~(node.epoch \in 0 .. p.body.epoch) BY <1>2, <2>1 DEF Inv, ImagesInitial
  <2> QED BY <1>2, <2>1, <2>2
<1>8. JobOfEpoch'
  <2>1. DOMAIN job' = JobFields /\ job'.phase = "record" /\ job'.body = job.body
    BY <1>1, <1>2 DEF JobFields
  <2> QED BY <1>1, <1>2, <1>3, <1>7, <2>1 DEF JobOfEpoch, EarlyPhases, LatePhases
<1>9. Advances BY <1>3 DEF Advances
<1> QED BY <1>4, <1>5, <1>6, <1>8, <1>9 DEF Inv

LEMMA WriteRecordKeepsInv ==
    ASSUME Inv, WriteRecord
    PROVE  Inv' /\ Advances
<1>1. /\ node.up /\ job.phase = "record"
      /\ files' = [files EXCEPT !.records = @ \cup {Record}]
      /\ \/ job' = [job EXCEPT !.phase = "replace"] /\ node' = node
         \/ job' = NoJob /\ node' = [node EXCEPT !.epoch = @ + 1]
  BY DEF WriteRecord, At, GoTo
<1>2. /\ job # NoJob /\ DOMAIN job = JobFields /\ job.body.epoch = node.epoch
      /\ node.epoch \in files.images /\ node.epoch \in Nat /\ DOMAIN node = NodeFields
      /\ \A p \in files.published : p.body.epoch < node.epoch
  BY <1>1 DEF Inv, EpochFollows, JobOfEpoch, NoJob, LatePhases
<1>3. /\ DOMAIN files' = {"images", "records", "published"}
      /\ files'.images = files.images /\ files'.published = files.published
      /\ files'.records = files.records \cup {Record}
  BY <1>1 DEF Inv, RecordsHaveImages
<1>4. Record.body.epoch = node.epoch BY <1>2 DEF Record
<1>5. ImagesInitial' /\ RecordsHaveImages' /\ Advances
  BY <1>2, <1>3, <1>4 DEF Inv, ImagesInitial, RecordsHaveImages, Advances
<1>6. CASE job' = [job EXCEPT !.phase = "replace"] /\ node' = node
  <2>1. DOMAIN job' = JobFields /\ job'.phase = "replace" /\ job'.body = job.body
    BY <1>2, <1>6 DEF JobFields
  <2>2. JobOfEpoch' BY <1>1, <1>2, <1>3, <1>6, <2>1 DEF JobOfEpoch, EarlyPhases, LatePhases
  <2>3. EpochFollows' BY <1>3, <1>6 DEF Inv, EpochFollows
  <2> QED BY <1>5, <2>2, <2>3 DEF Inv
<1>7. CASE job' = NoJob /\ node' = [node EXCEPT !.epoch = @ + 1]
  <2>1. DOMAIN node' = NodeFields /\ node'.epoch = node.epoch + 1
    BY <1>2, <1>7 DEF NodeFields
  <2>2. EpochFollows' BY <1>2, <1>3, <2>1 DEF EpochFollows
  <2>3. JobOfEpoch' BY <1>7 DEF JobOfEpoch
  <2> QED BY <1>5, <2>2, <2>3 DEF Inv
<1> QED BY <1>1, <1>6, <1>7

LEMMA ReplaceKeepsInv ==
    ASSUME Inv, Replace
    PROVE  Inv' /\ Advances
<1>1. /\ node.up /\ job.phase = "replace" /\ job' = NoJob
      /\ files' = [files EXCEPT !.published = {Record}]
      /\ node' = [node EXCEPT !.published = {Record}, !.epoch = @ + 1]
  BY DEF Replace, At
<1>2. /\ job # NoJob /\ job.body.epoch = node.epoch
      /\ node.epoch \in files.images /\ node.epoch \in Nat /\ DOMAIN node = NodeFields
      /\ \A p \in files.published : p.body.epoch < node.epoch
  BY <1>1 DEF Inv, EpochFollows, JobOfEpoch, NoJob, LatePhases
<1>3. /\ DOMAIN files' = {"images", "records", "published"}
      /\ files'.images = files.images /\ files'.records = files.records
      /\ files'.published = {Record}
  BY <1>1 DEF Inv, RecordsHaveImages
<1>4. Record.body.epoch = node.epoch BY <1>2 DEF Record
<1>5. ImagesInitial' /\ RecordsHaveImages'
  BY <1>2, <1>3, <1>4 DEF Inv, ImagesInitial, RecordsHaveImages
<1>6. EpochFollows'
  <2>1. DOMAIN node' = NodeFields /\ node'.epoch = node.epoch + 1
    BY <1>1, <1>2 DEF NodeFields
  <2> QED BY <1>2, <1>3, <2>1 DEF EpochFollows
<1>7. JobOfEpoch' BY <1>1 DEF JobOfEpoch
<1>8. Advances
  <2> SUFFICES ASSUME NEW p \in files.published PROVE Record.body.epoch > p.body.epoch
    BY <1>3 DEF Advances
  <2>1. p.body.epoch \in Nat BY DEF Inv, RecordsHaveImages, ImagesInitial
  <2> QED BY <1>2, <1>4, <2>1
<1> QED BY <1>5, <1>6, <1>7, <1>8 DEF Inv

LEMMA NextKeepsInv ==
    ASSUME Inv, [Next]_vars
    PROVE  Inv' /\ [Advances]_vars
<1>1. CASE Next
  BY <1>1, BootKeepsInv, InterruptKeepsInv, RequestStepsKeepInv, BeginKeepsInv,
     EarlyStepsKeepInv, FailKeepsInv, TakeImageKeepsInv, WriteRecordKeepsInv, ReplaceKeepsInv
     DEF Next, PublishStep
<1>2. CASE UNCHANGED vars
  BY <1>2 DEF vars, counters, Inv, ImagesInitial, RecordsHaveImages, EpochFollows, JobOfEpoch
<1> QED BY <1>1, <1>2

(* At every step of any publication, by any of the executors: the epochs   *)
(* with an image are an initial segment, what is published is among them,  *)
(* and the epoch an executor would write next is the one after an image.   *)
THEOREM EpochsInOrder == Spec => []Inv
BY InitInv, NextKeepsInv, PTL DEF Spec

(* published.json never goes back, whatever steps raise and however often  *)
(* the power is lost, and from whichever record an executor was started.   *)
THEOREM PublicationAdvancesHolds == Spec => PublicationAdvances
<1>1. Inv /\ [Next]_vars =>
        [\A p \in files.published : \E q \in files'.published :
            q = p \/ q.body.epoch > p.body.epoch]_vars
  BY NextKeepsInv DEF Advances
<1> QED BY <1>1, EpochsInOrder, PTL DEF Spec, PublicationAdvances

----------------------------------------------------------------------------
(* What is kept of an epoch.                                               *)
(* Slices of a schedule, and the progress of some of the requests.         *)
Slices == [req : Requests, begin : Nat, count : Nat, emits : BOOLEAN]
IsProgress(p) == \E S \in SUBSET Requests : p \in [S -> [processed : Nat, emitted : Nat]]

(* What an executor or an epoch knows of its requests: the schedules       *)
(* replay to the progress.                                                 *)
History(b) ==
    /\ IsProgress(b.progress) /\ b.initial \in [Requests -> Nat]
    /\ b.schedules \in Seq(Slices)
    /\ Replayed(b) = b.progress

(* The HBM holds the KV of what every request has processed.               *)
HoldsContext(n) ==
    /\ DOMAIN n.kv = Requests
    /\ \A r \in Requests : n.kv[r] = IF r \in DOMAIN n.progress THEN Tokens(n, r) ELSE <<>>

(* The extents of an epoch do not overlap and end before its log.          *)
Laid(b) ==
    /\ b.begin \in Arena /\ b.log \in Arena /\ b.begin <= b.log
    /\ DOMAIN b.versions = DOMAIN b.progress
    /\ \A r \in DOMAIN b.progress :
          /\ b.versions[r] \in Arena /\ b.begin <= b.versions[r]
          /\ b.versions[r] + b.progress[r].processed <= b.log
    /\ \A r, s \in DOMAIN b.progress :
          s < r => b.versions[s] + b.progress[s].processed <= b.versions[r]

Sound(b) == History(b) /\ Laid(b)

Place(b, r, i) == b.versions[r] + i - 1

(* An image that has the log of an epoch and the KV the log names.         *)
Holds(image, b) ==
    /\ image[b.log] = {b}
    /\ \A r \in DOMAIN b.progress : \A i \in 1 .. b.progress[r].processed :
          image[Place(b, r, i)] = {Token(r, i)}

(* The epochs somebody may come back to: those a root names, on the medium *)
(* or on its way there, and the one the executor has published or restored.*)
Named == medium[Root] \cup {w.content : w \in {w \in buffered : w.page = Root}}
         \cup {p.body : p \in node.published}

(* A record's image has the record's epoch, the one its root names and the *)
(* one the epoch is a child of.                                            *)
RecordSound(m) ==
    /\ m.next \in 1 .. ArenaPages + 1 /\ DOMAIN m.image = {Root} \cup Arena
    /\ \A b \in {m.body} \cup m.image[Root] \cup m.body.previous :
          Sound(b) /\ Holds(m.image, b) /\ b.log < m.next
    /\ m.publication = "published" => m.image[Root] = {m.body}

FilesSound ==
    /\ \A m \in files.records : RecordSound(m)
    /\ \A p \in files.published : p \in files.records /\ p.publication = "published"

NodeSound ==
    node.up =>
        /\ History(node) /\ node.live \subseteq Requests
        /\ node.cursor \in 1 .. ArenaPages + 1
        /\ HoldsContext(node)
        /\ \A m \in node.media : m \in files.records /\ m.next <= node.cursor

(* Until the first copy the medium is the image the executor started on.   *)
FreshMedium ==
    node.up /\ node.fresh =>
        /\ buffered = {} /\ \A m \in node.media : medium = m.image
        /\ job # NoJob => job.phase = "copy"

(* The arena is append-only: what is buffered lies behind every epoch that *)
(* somebody may come back to, and no two writes are to one page.           *)
MediumSound ==
    /\ DOMAIN medium = {Root} \cup Arena
    /\ ~node.up => medium = Blank /\ buffered = {}
    /\ node.up =>
          /\ \A b \in Named : Sound(b) /\ Holds(medium, b) /\ b.log < node.cursor
          /\ \A w \in buffered : w.page # Root =>
                /\ w.page \in Arena /\ w.page < node.cursor
                /\ \A b \in Named : b.log < w.page
          /\ \A w, x \in buffered : w.page = x.page => w = x

CopiedTo(writes, b) ==
    \A r \in DOMAIN b.progress : \A i \in 1 .. b.progress[r].processed :
        Written(Place(b, r, i), Token(r, i)) \in writes

(* What the steps of a publication have done so far.                       *)
JobSound ==
    job # NoJob =>
        /\ Sound(job.body) /\ job.body.log < node.cursor /\ job.publish \in BOOLEAN
        /\ job.body.progress = node.progress
        /\ job.body.previous = {p.body : p \in node.published}
        /\ job.phase \in {"copy", "log"} => \A b \in Named : b.log < job.body.begin
        /\ job.phase = "copy" => \A w \in buffered : w.page < job.body.begin
        /\ job.phase = "log" => \A w \in buffered : w.page < job.body.log
        /\ job.phase \in {"log", "drain"} => CopiedTo(buffered, job.body)
        /\ job.phase = "drain" => Written(job.body.log, job.body) \in buffered
        /\ job.phase \in {"root", "image", "record", "replace"} => Holds(medium, job.body)
        /\ job.phase = "root" => job.publish /\ buffered = {}
        /\ job.phase = "image" =>
              buffered = IF job.publish THEN {Written(Root, job.body)} ELSE {}
        /\ job.phase \in {"record", "replace"} =>
              /\ buffered = {} /\ job.image = medium
              /\ job.publish => medium[Root] = {job.body}
        /\ job.phase = "replace" => job.publish /\ Record \in files.records

DataInv == FilesSound /\ NodeSound /\ FreshMedium /\ MediumSound /\ JobSound

----------------------------------------------------------------------------
(* The two folds of the model: replaying schedules, and the room the KV of *)
(* some requests takes.                                                    *)
Replay == INSTANCE FoldTheorems WITH Op <- LAMBDA initial, q, progress, slice :
                                              Completed(progress, initial, slice)
AddRoom(kv, q, sum, r) == sum + Len(kv[r])
Room == INSTANCE FoldSetTheorems WITH Op <- AddRoom

(* A set of numbers that has 0 and the successor of each of its elements   *)
(* has all.                                                                *)
LEMMA Induction == \A S \in SUBSET Nat : (0 \in S /\ \A n \in S : n + 1 \in S) => S = Nat
BY Room!SetInduction

(* Replaying a log is a fold over its schedules.                           *)
LEMMA ReplayedIs == \A b :
    Replayed(b) = Replay!Fold(b.initial, 0, NoProgress, b.schedules)
BY DEF Replayed, Replay!Fold, Replay!Iter, Replay!Greatest,
       FoldLeft, MapThenFoldSet, Max

(* To replay one schedule more is one step more.                           *)
LEMMA ReplayedStep ==
    ASSUME NEW b, NEW c, NEW slice \in Slices, b.schedules \in Seq(Slices),
           c.schedules = Append(b.schedules, slice), c.initial = b.initial
    PROVE  Replayed(c) = Completed(Replayed(b), b.initial, slice)
<1>ind. Replay!Inductive BY Induction DEF Replay!Inductive
<1>1. Replay!Fold(b.initial, 0, NoProgress, Append(b.schedules, slice))
          = Completed(Replay!Fold(b.initial, 0, NoProgress, b.schedules), b.initial, slice)
  BY Replay!FoldAppend, <1>ind
<1> QED BY <1>1, ReplayedIs

(* To replay an empty log gives no progress.                               *)
LEMMA ReplayedNothing ==
    ASSUME NEW b, b.schedules = <<>>
    PROVE  Replayed(b) = NoProgress
<1>ind. Replay!Inductive BY Induction DEF Replay!Inductive
<1>1. Replay!Fold(b.initial, 0, NoProgress, <<>>) = NoProgress BY Replay!FoldEmpty, <1>ind
<1> QED BY <1>1, ReplayedIs

(* A history depends on the log and the progress only.                     *)
LEMMA SameHistory ==
    ASSUME NEW b, NEW c, History(b), c.progress = b.progress, c.initial = b.initial,
           c.schedules = b.schedules
    PROVE  History(c)
BY ReplayedIs DEF History

(* No request has progress at first.                                       *)
LEMMA NoProgressIs == DOMAIN NoProgress = {} /\ IsProgress(NoProgress)
BY DEF NoProgress, IsProgress

(* A slice completed moves its request on and leaves the others.           *)
LEMMA CompletedProgress ==
    ASSUME NEW progress, IsProgress(progress), NEW initial \in [Requests -> Nat],
           NEW slice \in Slices
    PROVE  /\ IsProgress(Completed(progress, initial, slice))
           /\ DOMAIN Completed(progress, initial, slice) = DOMAIN progress \cup {slice.req}
           /\ Completed(progress, initial, slice)[slice.req].processed = slice.begin + slice.count
           /\ \A r \in DOMAIN progress :
                 r # slice.req => Completed(progress, initial, slice)[r] = progress[r]
<1> DEFINE before == ProgressOf(progress, initial, slice.req)
           moved == [processed |-> slice.begin + slice.count,
                     emitted |-> before.emitted + IF slice.emits THEN 1 ELSE 0]
           after == [r \in DOMAIN progress \cup {slice.req} |->
                        IF r # slice.req THEN progress[r] ELSE moved]
<1>1. Completed(progress, initial, slice) = after BY DEF Completed
<1>2. PICK S \in SUBSET Requests : progress \in [S -> [processed : Nat, emitted : Nat]]
  BY DEF IsProgress
<1>3. /\ slice.req \in Requests /\ slice.begin \in Nat /\ slice.count \in Nat
      /\ slice.emits \in BOOLEAN
  BY DEF Slices
<1>4. before.emitted \in Nat BY <1>2, <1>3 DEF ProgressOf
<1>5. moved \in [processed : Nat, emitted : Nat] /\ moved.processed = slice.begin + slice.count
  BY <1>3, <1>4
<1> HIDE DEF moved
<1>6. after \in [S \cup {slice.req} -> [processed : Nat, emitted : Nat]] BY <1>2, <1>5
<1>7. S \cup {slice.req} \in SUBSET Requests BY <1>3
<1> QED BY <1>1, <1>2, <1>5, <1>6, <1>7 DEF IsProgress

(* The KV of a request grows by the tokens of the slice.                   *)
LEMMA TokensGrow ==
    ASSUME NEW r, NEW begin \in Nat, NEW count \in Nat
    PROVE  [i \in 1 .. begin |-> Token(r, i)] \o [i \in 1 .. count |-> Token(r, begin + i)]
               = [i \in 1 .. begin + count |-> Token(r, i)]
<1> DEFINE T(i) == Token(r, i)
           U == {T(i) : i \in Nat}
           a == [i \in 1 .. begin |-> T(i)]
           b == [i \in 1 .. count |-> T(begin + i)]
           c == [i \in 1 .. begin + count |-> T(i)]
<1> HIDE DEF T
<1>1. a \in Seq(U) /\ b \in Seq(U) /\ c \in Seq(U)
      /\ Len(a) = begin /\ Len(b) = count /\ Len(c) = begin + count
  OBVIOUS
<1>2. (a \o b) \in Seq(U) /\ Len(a \o b) = begin + count BY <1>1
<1>3. \A i \in 1 .. begin + count : (a \o b)[i] = c[i]
  <2>1. ASSUME NEW i \in 1 .. begin PROVE (a \o b)[i] = c[i] BY <1>1
  <2>2. ASSUME NEW i \in begin + 1 .. begin + count PROVE (a \o b)[i] = c[i]
    <3>1. (a \o b)[i] = b[i - begin] /\ i - begin \in 1 .. count BY <1>1, <2>2
    <3> QED BY <3>1
  <2> QED BY <2>1, <2>2
<1>4. a \o b = c BY <1>1, <1>2, <1>3
<1> QED BY <1>4 DEF T

(* A slice that begins where its request has got to keeps the history and  *)
(* the context.                                                            *)
LEMMA ExecuteSound ==
    ASSUME NEW n, DOMAIN n = NodeFields, History(n), HoldsContext(n), n.live \subseteq Requests,
           NEW slice \in Slices,
           slice.begin = ProgressOf(n.progress, n.initial, slice.req).processed
    PROVE  LET e == Execute(n, slice)
           IN  /\ History(e) /\ HoldsContext(e) /\ e.live \subseteq Requests
               /\ DOMAIN e = NodeFields
               /\ \A f \in NodeFields \ {"live", "progress", "schedules", "kv"} : e[f] = n[f]
<1> DEFINE e == Execute(n, slice)
           grown == [i \in 1 .. slice.count |-> Token(slice.req, slice.begin + i)]
<1>0. /\ slice.req \in Requests /\ slice.begin \in Nat /\ slice.count \in Nat
  BY DEF Slices
<1>1. /\ DOMAIN e = NodeFields /\ e.live = n.live \cup {slice.req}
      /\ e.progress = Completed(n.progress, n.initial, slice)
      /\ e.schedules = Append(n.schedules, slice)
      /\ e.kv = [n.kv EXCEPT ![slice.req] = @ \o grown]
      /\ \A f \in NodeFields \ {"live", "progress", "schedules", "kv"} : e[f] = n[f]
  BY DEF Execute, NodeFields
<1>2. e.initial = n.initial BY <1>1 DEF NodeFields
<1>3. IsProgress(n.progress) /\ n.initial \in [Requests -> Nat] /\ n.schedules \in Seq(Slices)
      /\ Replayed(n) = n.progress
  BY DEF History
<1> HIDE DEF e
<1>4. Replayed(e) = e.progress BY <1>1, <1>2, <1>3, ReplayedStep
<1>5. e.schedules \in Seq(Slices) BY <1>1, <1>3
<1> DEFINE c == Completed(n.progress, n.initial, slice)
<1>a. /\ IsProgress(c) /\ DOMAIN c = DOMAIN n.progress \cup {slice.req}
      /\ c[slice.req].processed = slice.begin + slice.count
      /\ \A r \in DOMAIN n.progress : r # slice.req => c[r] = n.progress[r]
  <2> DEFINE p == n.progress
             i == n.initial
  <2>1. IsProgress(p) /\ i \in [Requests -> Nat] BY <1>3
  <2> HIDE DEF p, i
  <2>2. /\ IsProgress(Completed(p, i, slice))
        /\ DOMAIN Completed(p, i, slice) = DOMAIN p \cup {slice.req}
        /\ Completed(p, i, slice)[slice.req].processed = slice.begin + slice.count
        /\ \A r \in DOMAIN p : r # slice.req => Completed(p, i, slice)[r] = p[r]
    BY <2>1, CompletedProgress
  <2> QED BY <2>2 DEF p, i
<1> HIDE DEF c
<1>6. /\ IsProgress(e.progress) /\ DOMAIN e.progress = DOMAIN n.progress \cup {slice.req}
      /\ e.progress[slice.req].processed = slice.begin + slice.count
      /\ \A r \in DOMAIN n.progress : r # slice.req => e.progress[r] = n.progress[r]
  BY <1>1, <1>a DEF c
<1>7. History(e) BY <1>2, <1>3, <1>4, <1>5, <1>6 DEF History
<1>8. HoldsContext(e)
  <2>1. DOMAIN e.kv = Requests BY <1>1 DEF HoldsContext
  <2>2. ASSUME NEW r \in Requests
        PROVE  e.kv[r] = IF r \in DOMAIN e.progress THEN Tokens(e, r) ELSE <<>>
    <3>1. CASE r # slice.req
      <4>1. e.kv[r] = n.kv[r] BY <1>1, <3>1 DEF HoldsContext
      <4>2. r \in DOMAIN n.progress <=> r \in DOMAIN e.progress BY <1>6, <3>1
      <4>3. r \in DOMAIN n.progress => Tokens(e, r) = Tokens(n, r) BY <1>6, <3>1 DEF Tokens
      <4> QED BY <4>1, <4>2, <4>3 DEF HoldsContext
    <3>2. CASE r = slice.req
      <4>1. e.kv[r] = n.kv[r] \o grown BY <1>1, <1>0, <3>2 DEF HoldsContext
      <4>2. n.kv[r] = [i \in 1 .. slice.begin |-> Token(r, i)]
        <5>1. CASE r \in DOMAIN n.progress
          <6>1. slice.begin = n.progress[r].processed BY <3>2, <5>1 DEF ProgressOf
          <6> QED BY <5>1, <6>1 DEF HoldsContext, Tokens
        <5>2. CASE r \notin DOMAIN n.progress
          <6>1. slice.begin = 0 BY <3>2, <5>2 DEF ProgressOf
          <6>2. n.kv[r] = <<>> BY <5>2 DEF HoldsContext
          <6>3. [i \in 1 .. 0 |-> Token(r, i)] = <<>> OBVIOUS
          <6> QED BY <6>1, <6>2, <6>3
        <5> QED BY <5>1, <5>2
      <4>3. [i \in 1 .. slice.begin |-> Token(r, i)]
                \o [i \in 1 .. slice.count |-> Token(r, slice.begin + i)]
             = [i \in 1 .. slice.begin + slice.count |-> Token(r, i)]
        BY ONLY <1>0, TokensGrow
      <4>5. grown = [i \in 1 .. slice.count |-> Token(r, slice.begin + i)] BY <3>2
      <4>6. n.kv[r] \o grown = [i \in 1 .. slice.begin + slice.count |-> Token(r, i)]
        BY ONLY <4>2, <4>3, <4>5
      <4> QED BY <4>1, <4>6, <1>6, <3>2 DEF Tokens
    <3> QED BY <3>1, <3>2
  <2> QED BY <2>1, <2>2 DEF HoldsContext
<1>9. e.live \subseteq Requests BY <1>1, <1>0
<1> QED BY <1>1, <1>7, <1>8, <1>9 DEF e

(* The room of a set of requests is that of one of them and of the others; *)
(* more requests take at least the room of fewer.                          *)
RoomOf(kv, S) == Room!FoldOver(kv, 0, 0, S)

(* Room is a number, and any one request can be taken out of it.           *)
LEMMA RoomOfAll ==
    ASSUME NEW kv, NEW S, IsFiniteSet(S), \A r \in S : Len(kv[r]) \in Nat
    PROVE  /\ RoomOf(kv, S) \in Nat
           /\ \A r \in S : RoomOf(kv, S) = RoomOf(kv, S \ {r}) + Len(kv[r])
<1>1. \A x, y, z \in Nat : (x + y) + z = (x + z) + y OBVIOUS
<1>2. Room!Commutes(kv, 0, Nat, S)
  <2>1. ASSUME NEW a \in Nat, NEW r \in S PROVE AddRoom(kv, 0, a, r) \in Nat BY DEF AddRoom
  <2>2. ASSUME NEW a \in Nat, NEW r \in S, NEW s \in S
        PROVE  AddRoom(kv, 0, AddRoom(kv, 0, a, r), s) = AddRoom(kv, 0, AddRoom(kv, 0, a, s), r)
    <3>1. Len(kv[r]) \in Nat /\ Len(kv[s]) \in Nat OBVIOUS
    <3> QED BY <3>1, <1>1 DEF AddRoom
  <2> QED BY <2>1, <2>2 DEF Room!Commutes
<1>3. 0 \in Nat OBVIOUS
<1>4. RoomOf(kv, S) \in Nat
      /\ \A r \in S : RoomOf(kv, S) = AddRoom(kv, 0, RoomOf(kv, S \ {r}), r)
  BY <1>2, <1>3, Room!FoldOverRemove DEF RoomOf, IsFiniteSet, Room!IsFiniteSet
<1> QED BY <1>4 DEF AddRoom

(* More requests take more room.                                           *)
LEMMA RoomGrows ==
    ASSUME NEW kv, NEW S, IsFiniteSet(S), \A r \in S : Len(kv[r]) \in Nat, NEW T \in SUBSET S
    PROVE  RoomOf(kv, T) <= RoomOf(kv, S)
<1> DEFINE K == {k \in Nat : \A R \in SUBSET S : Cardinality(R) <= k =>
                     RoomOf(kv, S \ R) <= RoomOf(kv, S)}
<1>1. ASSUME NEW R \in SUBSET S
      PROVE  /\ IsFiniteSet(R) /\ Cardinality(R) \in Nat /\ RoomOf(kv, R) \in Nat
             /\ \A r \in R : RoomOf(kv, R) = RoomOf(kv, R \ {r}) + Len(kv[r])
  BY FS_Subset, FS_CardinalityType, RoomOfAll
<1>2. 0 \in K
  <2>1. ASSUME NEW R \in SUBSET S, Cardinality(R) <= 0 PROVE RoomOf(kv, S \ R) <= RoomOf(kv, S)
    <3>1. R = {} BY <1>1, <2>1, FS_EmptySet
    <3>2. S \ R = S /\ S \in SUBSET S BY <3>1
    <3>3. RoomOf(kv, S) \in Nat BY <1>1, <3>2
    <3>4. RoomOf(kv, S \ R) = RoomOf(kv, S) BY <3>2
    <3> QED BY <3>3, <3>4
  <2> QED BY <2>1
<1>3. ASSUME NEW k \in K PROVE k + 1 \in K
  <2>0. k \in Nat OBVIOUS
  <2>1. ASSUME NEW R \in SUBSET S, Cardinality(R) <= k + 1
        PROVE  RoomOf(kv, S \ R) <= RoomOf(kv, S)
    <3>1. CASE R = {}
      <4>1. Cardinality(R) <= k BY <3>1, <2>0, FS_EmptySet
      <4> QED BY <4>1
    <3>2. CASE R # {}
      <4>1. PICK r \in R : TRUE BY <3>2
      <4> DEFINE Q == R \ {r}
                 rest == S \ R
                 more == S \ Q
      <4>2. Q \in SUBSET S /\ Cardinality(Q) <= k
        <5>1. Cardinality(Q) = Cardinality(R) - 1 BY <1>1, <4>1, FS_RemoveElement
        <5> QED BY <5>1, <1>1, <2>0, <2>1
      <4>3. RoomOf(kv, more) <= RoomOf(kv, S) BY <4>2
      <4>4. rest \in SUBSET S /\ more \in SUBSET S /\ S \in SUBSET S /\ r \in more /\ more \ {r} = rest
        BY <4>1
      <4> HIDE DEF rest, more
      <4>5. RoomOf(kv, more) = RoomOf(kv, rest) + Len(kv[r]) BY <1>1, <4>4
      <4>6. Len(kv[r]) \in Nat /\ RoomOf(kv, rest) \in Nat /\ RoomOf(kv, more) \in Nat
            /\ RoomOf(kv, S) \in Nat
        BY <1>1, <4>1, <4>4
      <4>7. RoomOf(kv, rest) <= RoomOf(kv, S) BY <4>3, <4>5, <4>6
      <4> QED BY <4>7 DEF rest
    <3> QED BY <3>1, <3>2
  <2> QED BY <2>0, <2>1
<1>4. K = Nat
  <2> HIDE DEF K
  <2>1. K \in SUBSET Nat BY DEF K
  <2> QED BY <2>1, <1>2, <1>3, Room!SetInduction
<1>5. S \ T \in SUBSET S /\ S \ (S \ T) = T /\ Cardinality(S \ T) \in Nat BY <1>1
<1> QED BY <1>4, <1>5

(* Extents and log are placed by the room of the requests before them.     *)
LEMMA PagesAre == \A n, r :
    /\ Extent(n, r) = n.cursor + RoomOf(n.kv, {s \in DOMAIN n.progress : s < r})
    /\ LogPage(n) = n.cursor + RoomOf(n.kv, DOMAIN n.progress)
BY DEF Extent, LogPage, RoomOf, Room!FoldOver, Room!Shrinking, AddRoom,
       FoldSet, MapThenFoldSet

(* What publish_checkpoint lays out: the extents follow one another and    *)
(* the log is behind them.                                                 *)
LEMMA BodySound ==
    ASSUME NEW n, History(n), HoldsContext(n), n.cursor \in Nat \ {0}, LogPage(n) \in Arena
    PROVE  Sound(Body(n)) /\ Body(n).log = LogPage(n) /\ n.cursor <= LogPage(n)
<1> DEFINE b == Body(n)
           D == DOMAIN n.progress
           below(r) == {s \in D : s < r}
<1>1. /\ b.progress = n.progress /\ b.initial = n.initial /\ b.schedules = n.schedules
      /\ b.begin = n.cursor /\ b.log = LogPage(n)
      /\ b.versions = [r \in D |-> Extent(n, r)]
  BY DEF Body
<1>2. PICK S \in SUBSET Requests : n.progress \in [S -> [processed : Nat, emitted : Nat]]
  BY DEF History, IsProgress
<1>3. D \subseteq Requests /\ IsFiniteSet(D) /\ \A r \in D : r \in Nat
  BY <1>2, RequestsAssumption, FS_Subset
<1>4. \A r \in D : n.progress[r].processed \in Nat /\ Len(n.kv[r]) = n.progress[r].processed
  <2>1. ASSUME NEW r \in D PROVE n.progress[r].processed \in Nat BY <1>2
  <2>2. ASSUME NEW r \in D PROVE n.kv[r] = [i \in 1 .. n.progress[r].processed |-> Token(r, i)]
    BY <1>3, <2>2 DEF HoldsContext, Tokens
  <2>3. ASSUME NEW r \in D PROVE Len(n.kv[r]) = n.progress[r].processed
    <3> DEFINE k == n.progress[r].processed
               T(i) == Token(r, i)
    <3>1. k \in Nat BY <2>1
    <3> HIDE DEF k, T
    <3>2. Len([i \in 1 .. k |-> T(i)]) = k BY <3>1
    <3> QED BY <2>2, <3>2 DEF k, T
  <2> QED BY <2>1, <2>3
<1>5. \A r \in D : Len(n.kv[r]) \in Nat BY <1>4
<1>6. RoomOf(n.kv, D) \in Nat BY <1>3, <1>5, RoomOfAll
<1>7. n.cursor <= LogPage(n) /\ n.cursor \in Arena BY <1>6, PagesAre, BoundsAssumption DEF Arena
<1>8. ASSUME NEW r \in D
      PROVE  /\ RoomOf(n.kv, below(r)) \in Nat /\ RoomOf(n.kv, below(r) \cup {r}) \in Nat
             /\ RoomOf(n.kv, below(r) \cup {r})
                    = RoomOf(n.kv, below(r)) + n.progress[r].processed
  <2> DEFINE upto == below(r) \cup {r}
  <2>1. below(r) \in SUBSET D /\ upto \in SUBSET D /\ r \in upto /\ upto \ {r} = below(r)
    BY <1>3
  <2>2. IsFiniteSet(upto) /\ IsFiniteSet(below(r)) BY <2>1, <1>3, FS_Subset
  <2> HIDE DEF below, upto
  <2>3. RoomOf(n.kv, below(r)) \in Nat /\ RoomOf(n.kv, upto) \in Nat
        /\ RoomOf(n.kv, upto) = RoomOf(n.kv, upto \ {r}) + Len(n.kv[r])
    BY <2>1, <2>2, <1>5, RoomOfAll
  <2> QED BY <2>1, <2>3, <1>4 DEF upto
<1>9. ASSUME NEW r \in D, NEW T \in SUBSET D, below(r) \cup {r} \subseteq T
      PROVE  RoomOf(n.kv, below(r)) + n.progress[r].processed <= RoomOf(n.kv, T)
  <2>1. IsFiniteSet(T) /\ \A s \in T : Len(n.kv[s]) \in Nat BY <1>3, <1>5, FS_Subset
  <2> HIDE DEF below
  <2>2. RoomOf(n.kv, below(r) \cup {r}) <= RoomOf(n.kv, T) BY <2>1, <1>9, RoomGrows
  <2> QED BY <2>2, <1>8
<1>10. \A r \in D : Extent(n, r) = n.cursor + RoomOf(n.kv, below(r)) BY PagesAre
<1>11. LogPage(n) = n.cursor + RoomOf(n.kv, D) BY PagesAre
<1>12. ASSUME NEW r \in D
       PROVE  /\ Extent(n, r) \in Arena /\ n.cursor <= Extent(n, r)
              /\ Extent(n, r) + n.progress[r].processed <= LogPage(n)
  <2>1. RoomOf(n.kv, below(r)) + n.progress[r].processed <= RoomOf(n.kv, D)
    <3>1. below(r) \cup {r} \subseteq D OBVIOUS
    <3> HIDE DEF below, D
    <3> QED BY <1>9, <3>1
  <2>2. RoomOf(n.kv, below(r)) \in Nat BY <1>8
  <2> HIDE DEF below
  <2> DEFINE x == Extent(n, r)
             h == n.progress[r].processed
             o == RoomOf(n.kv, below(r))
             t == RoomOf(n.kv, D)
             l == LogPage(n)
  <2>3. x = n.cursor + o /\ l = n.cursor + t BY <1>10, <1>11
  <2>4. h \in Nat /\ t \in Nat BY <1>4, <1>6
  <2>5. l \in 1 .. ArenaPages /\ ArenaPages \in Nat BY BoundsAssumption DEF Arena
  <2> HIDE DEF x, h, o, t, l, D
  <2>6. x \in 1 .. ArenaPages /\ n.cursor <= x /\ x + h <= l
    <3>1. o \in Nat /\ o + h <= t BY <2>1, <2>2 DEF o, h, t
    <3>2. n.cursor \in Nat \ {0} OBVIOUS
    <3>3. x + h <= l /\ n.cursor <= x BY <3>1, <3>2, <2>3, <2>4
    <3> QED BY <3>1, <3>2, <3>3, <2>3, <2>4, <2>5
  <2> QED BY <2>6 DEF x, h, l, Arena
<1>13. ASSUME NEW r \in D, NEW s \in D, s < r
       PROVE  Extent(n, s) + n.progress[s].processed <= Extent(n, r)
  <2>1. below(s) \cup {s} \subseteq below(r) /\ below(r) \in SUBSET D BY <1>3, <1>13
  <2> HIDE DEF below
  <2>2. RoomOf(n.kv, below(s)) + n.progress[s].processed <= RoomOf(n.kv, below(r))
    BY <1>9, <2>1
  <2>3. RoomOf(n.kv, below(s)) \in Nat /\ RoomOf(n.kv, below(r)) \in Nat BY <1>8
  <2> QED BY <2>2, <2>3, <1>4, <1>10
<1>14. History(b) BY <1>1, SameHistory
<1> HIDE DEF b
<1>15. Laid(b) BY <1>1, <1>7, <1>12, <1>13 DEF Laid
<1> QED BY <1>1, <1>7, <1>14, <1>15 DEF Sound, b

----------------------------------------------------------------------------
(* Where the pages of an epoch lie.                                        *)
LEMMA SoundPages ==
    ASSUME NEW b, Sound(b)
    PROVE  /\ b.begin \in Arena /\ b.log \in Arena /\ b.begin <= b.log
           /\ DOMAIN b.versions = DOMAIN b.progress /\ DOMAIN b.progress \subseteq Requests
           /\ \A r \in DOMAIN b.progress :
                 b.progress[r].processed \in Nat /\ b.progress[r].emitted \in Nat
           /\ \A r \in DOMAIN b.progress : \A i \in 1 .. b.progress[r].processed :
                 /\ Place(b, r, i) \in Arena
                 /\ b.begin <= Place(b, r, i) /\ Place(b, r, i) < b.log
           /\ \A r, s \in DOMAIN b.progress : \A i \in 1 .. b.progress[r].processed :
                 \A j \in 1 .. b.progress[s].processed :
                    Place(b, r, i) = Place(b, s, j) => r = s /\ i = j
<1>1. Laid(b) /\ History(b) BY DEF Sound
<1>2. PICK S \in SUBSET Requests : b.progress \in [S -> [processed : Nat, emitted : Nat]]
  BY <1>1 DEF History, IsProgress
<1>3. \A r \in DOMAIN b.progress :
         b.progress[r].processed \in Nat /\ b.progress[r].emitted \in Nat /\ r \in Nat
  BY <1>2, RequestsAssumption
<1>4. ASSUME NEW r \in DOMAIN b.progress, NEW i \in 1 .. b.progress[r].processed
      PROVE  /\ Place(b, r, i) \in Arena
             /\ b.begin <= Place(b, r, i) /\ Place(b, r, i) < b.log
             /\ b.versions[r] <= Place(b, r, i)
             /\ Place(b, r, i) < b.versions[r] + b.progress[r].processed
  BY <1>1, <1>3, BoundsAssumption DEF Laid, Place, Arena
<1>5. ASSUME NEW r \in DOMAIN b.progress, NEW i \in 1 .. b.progress[r].processed,
             NEW s \in DOMAIN b.progress, NEW j \in 1 .. b.progress[s].processed, s < r
      PROVE  Place(b, s, j) < Place(b, r, i)
  <2>1. b.versions[s] + b.progress[s].processed <= b.versions[r] BY <1>1, <1>5 DEF Laid
  <2>2. b.versions[s] \in Nat /\ b.versions[r] \in Nat BY <1>1, BoundsAssumption DEF Laid, Arena
  <2>3. b.versions[r] <= Place(b, r, i) /\ Place(b, r, i) \in Arena BY <1>4
  <2>4. Place(b, s, j) < b.versions[s] + b.progress[s].processed /\ Place(b, s, j) \in Arena BY <1>4
  <2>5. b.progress[s].processed \in Nat BY <1>3
  <2> QED BY <2>1, <2>2, <2>3, <2>4, <2>5, BoundsAssumption DEF Arena
<1>6. ASSUME NEW r \in DOMAIN b.progress, NEW i \in 1 .. b.progress[r].processed,
             NEW s \in DOMAIN b.progress, NEW j \in 1 .. b.progress[s].processed,
             Place(b, r, i) = Place(b, s, j)
      PROVE  r = s /\ i = j
  <2>1. Place(b, r, i) \in Nat /\ Place(b, s, j) \in Nat BY <1>4, BoundsAssumption DEF Arena
  <2>2. ~(s < r) /\ ~(r < s) BY <1>5, <1>6, <2>1
  <2>3. r = s BY <2>2, <1>3
  <2>4. b.versions[r] \in Nat BY <1>1, BoundsAssumption DEF Laid, Arena
  <2> QED BY <1>3, <1>6, <2>3, <2>4 DEF Place
<1>7. /\ b.begin \in Arena /\ b.log \in Arena /\ b.begin <= b.log
      /\ DOMAIN b.versions = DOMAIN b.progress
  BY <1>1 DEF Laid
<1>8. DOMAIN b.progress \subseteq Requests BY <1>2
<1> QED BY <1>3, <1>4, <1>6, <1>7, <1>8

(* The root slot is not a page of the arena.                               *)
LEMMA RootIsNoArena == Root \notin Arena /\ Arena \subseteq Nat \ {0}
BY BoundsAssumption DEF Root, Arena

(* What is read back of an extent that was written are the tokens of its   *)
(* request.                                                                *)
LEMMA StoredIs ==
    ASSUME NEW image, NEW b, Holds(image, b), NEW r \in DOMAIN b.progress
    PROVE  Found(Stored(image, b, r)) = Tokens(b, r)
<1> DEFINE n == b.progress[r].processed
           pages == [i \in 1 .. n |-> image[Place(b, r, i)]]
<1>1. Stored(image, b, r) = pages BY DEF Stored, Place
<1>2. \A i \in 1 .. n : image[Place(b, r, i)] = {Token(r, i)} BY DEF Holds
<1> HIDE DEF n
<1>3. DOMAIN pages = 1 .. n /\ \A i \in 1 .. n : pages[i] = {Token(r, i)} BY <1>2
<1> HIDE DEF pages
<1>4. Found(pages) = [i \in 1 .. n |-> Token(r, i)]
  <2>1. ASSUME NEW i \in 1 .. n
        PROVE  (IF pages[i] = {} THEN Junk ELSE CHOOSE c \in pages[i] : TRUE) = Token(r, i)
    <3>1. pages[i] = {Token(r, i)} BY <1>3
    <3>2. (CHOOSE c \in pages[i] : TRUE) \in pages[i] BY <3>1
    <3> QED BY <3>1, <3>2
  <2> QED BY <1>3, <2>1 DEF Found
<1> QED BY <1>1, <1>4 DEF Tokens, n

(* A drain puts every buffered write where it belongs, and nothing else.   *)
LEMMA DrainedPages ==
    ASSUME NEW held, NEW writes
    PROVE  /\ DOMAIN Drained(held, writes) = DOMAIN held
           /\ \A page \in DOMAIN held :
                 (\A w \in writes : w.page # page) => Drained(held, writes)[page] = held[page]
           /\ \A w \in writes :
                 w.page \in DOMAIN held /\ (\A x \in writes : x.page = w.page => x = w) =>
                    Drained(held, writes)[w.page] = {w.content}
<1>1. DOMAIN Drained(held, writes) = DOMAIN held BY DEF Drained
<1>2. ASSUME NEW page \in DOMAIN held, \A w \in writes : w.page # page
      PROVE  Drained(held, writes)[page] = held[page]
  BY <1>2 DEF Drained
<1>3. ASSUME NEW w \in writes, w.page \in DOMAIN held, \A x \in writes : x.page = w.page => x = w
      PROVE  Drained(held, writes)[w.page] = {w.content}
  <2>1. (CHOOSE x \in writes : x.page = w.page) = w BY <1>3
  <2>2. Drained(held, writes)[w.page] = {(CHOOSE x \in writes : x.page = w.page).content}
    BY <1>3 DEF Drained
  <2> QED BY <2>1, <2>2
<1> QED BY <1>1, <1>2, <1>3

(* Writes behind the log of a checkpoint leave it readable.                *)
LEMMA DrainedHolds ==
    ASSUME NEW held, NEW writes, NEW b, Sound(b), Holds(held, b), DOMAIN held = {Root} \cup Arena,
           \A w \in writes : w.page # Root => w.page \in Arena /\ b.log < w.page
    PROVE  Holds(Drained(held, writes), b)
<1> DEFINE after == Drained(held, writes)
<1>1. ASSUME NEW page \in Arena, page <= b.log PROVE after[page] = held[page]
  <2>1. \A w \in writes : w.page # page
    <3> SUFFICES ASSUME NEW w \in writes, w.page = page PROVE FALSE OBVIOUS
    <3>1. page # Root /\ page \in Nat /\ b.log \in Nat BY SoundPages, RootIsNoArena
    <3>2. b.log < page BY <3>1
    <3> QED BY <1>1, <3>1, <3>2
  <2> QED BY <2>1, DrainedPages
<1>0. b.log \in Arena /\ b.log \in Nat BY SoundPages, RootIsNoArena
<1>2. after[b.log] = held[b.log]
  <2>1. b.log <= b.log BY <1>0
  <2> QED BY <1>0, <1>1, <2>1
<1>3. ASSUME NEW r \in DOMAIN b.progress, NEW i \in 1 .. b.progress[r].processed
      PROVE  after[Place(b, r, i)] = held[Place(b, r, i)]
  <2>1. Place(b, r, i) \in Arena /\ Place(b, r, i) <= b.log
    <3>1. Place(b, r, i) \in Arena /\ Place(b, r, i) < b.log BY SoundPages
    <3>2. Place(b, r, i) \in Nat BY <3>1, RootIsNoArena
    <3> HIDE DEF after
    <3> QED BY <1>0, <3>1, <3>2
  <2> QED BY <2>1, <1>1
<1> HIDE DEF after
<1>4. Holds(after, b) BY <1>2, <1>3 DEF Holds
<1> QED BY <1>4 DEF after

----------------------------------------------------------------------------
(* What the invariant says of the three properties.                        *)
LEMMA DataInvSays ==
    ASSUME DataInv
    PROVE  ContextSurvives /\ PublishedIsRestorable /\ RootAfterData
<1>1. ContextSurvives
  <2> SUFFICES ASSUME node.up, NEW r \in DOMAIN node.progress PROVE node.kv[r] = Tokens(node, r)
    BY DEF ContextSurvives
  <2>1. HoldsContext(node) /\ History(node) BY DEF DataInv, NodeSound
  <2>2. r \in Requests BY <2>1 DEF History, IsProgress
  <2> QED BY <2>1, <2>2 DEF HoldsContext
<1>2. PublishedIsRestorable
  <2> SUFFICES ASSUME NEW p \in files.published
               PROVE  /\ p \in files.records /\ p.image[Root] = {p.body}
                      /\ Replayed(p.body) = p.body.progress
                      /\ \A m \in files.records : Restorable(m, p) =>
                            /\ m.image[p.body.log] = {p.body}
                            /\ \A r \in DOMAIN p.body.progress :
                                  Found(Stored(m.image, p.body, r)) = Tokens(p.body, r)
    BY DEF PublishedIsRestorable
  <2>1. p \in files.records /\ p.publication = "published" /\ RecordSound(p)
    BY DEF DataInv, FilesSound
  <2>2. p.image[Root] = {p.body} /\ Sound(p.body) BY <2>1 DEF RecordSound
  <2>3. Replayed(p.body) = p.body.progress BY <2>2 DEF Sound, History
  <2>4. ASSUME NEW m \in files.records, Restorable(m, p) PROVE Holds(m.image, p.body)
    <3>1. p.body \in {m.body} \cup m.image[Root] \cup m.body.previous BY <2>4 DEF Restorable
    <3> QED BY <3>1 DEF DataInv, FilesSound, RecordSound
  <2>5. ASSUME NEW m \in files.records, Restorable(m, p)
        PROVE  /\ m.image[p.body.log] = {p.body}
               /\ \A r \in DOMAIN p.body.progress :
                     Found(Stored(m.image, p.body, r)) = Tokens(p.body, r)
    <3>1. Holds(m.image, p.body) BY <2>4, <2>5
    <3> QED BY <3>1, StoredIs DEF Holds
  <2> QED BY <2>1, <2>2, <2>3, <2>5
<1>3. RootAfterData
  <2> DEFINE Roots == medium[Root] \cup {w.content : w \in {w \in buffered : w.page = Root}}
  <2> SUFFICES ASSUME NEW b \in Roots
               PROVE  /\ medium[b.log] = {b}
                      /\ \A r \in DOMAIN b.progress : Found(Stored(medium, b, r)) = Tokens(b, r)
    BY DEF RootAfterData
  <2>1. node.up
    <3> SUFFICES ASSUME ~node.up PROVE FALSE OBVIOUS
    <3>1. medium = Blank /\ buffered = {} BY DEF DataInv, MediumSound
    <3>2. Blank[Root] = {} BY DEF Blank
    <3> QED BY <3>1, <3>2
  <2>2. b \in Named BY DEF Named
  <2>3. Holds(medium, b) BY <2>1, <2>2 DEF DataInv, MediumSound
  <2> QED BY <2>3, StoredIs DEF Holds
<1> QED BY <1>1, <1>2, <1>3

(* The empty node and files meet the invariant on the data.                *)
LEMMA InitDataInv == Init => DataInv
BY DEF Init, DataInv, FilesSound, NodeSound, FreshMedium, MediumSound, JobSound, Off, Blank

----------------------------------------------------------------------------
(* Steps that leave the medium and the files alone and do not move the     *)
(* cursor back.                                                            *)
LEMMA MediumStays ==
    ASSUME DataInv, UNCHANGED <<medium, buffered, files>>, node.up, node'.up,
           node'.published = node.published, node'.cursor \in 1 .. ArenaPages + 1,
           node.cursor <= node'.cursor
    PROVE  FilesSound' /\ MediumSound' /\ Named' = Named
<1>1. FilesSound' BY DEF DataInv, FilesSound, RecordSound
<1>2. Named' = Named BY DEF Named
<1>3. /\ DOMAIN medium = {Root} \cup Arena /\ node.cursor \in 1 .. ArenaPages + 1
      /\ \A b \in Named : Sound(b) /\ Holds(medium, b) /\ b.log < node.cursor
      /\ \A w \in buffered : w.page # Root =>
            /\ w.page \in Arena /\ w.page < node.cursor
            /\ \A b \in Named : b.log < w.page
      /\ \A w, x \in buffered : w.page = x.page => w = x
  BY DEF DataInv, MediumSound, NodeSound
<1>4. \A b \in Named : b.log < node'.cursor
  <2> SUFFICES ASSUME NEW b \in Named PROVE b.log < node'.cursor OBVIOUS
  <2>1. b.log \in Arena /\ b.log < node.cursor BY <1>3, SoundPages
  <2> QED BY <2>1, <1>3, BoundsAssumption DEF Arena
<1>5. \A w \in buffered : w.page # Root => w.page < node'.cursor
  BY <1>3, BoundsAssumption DEF Arena
<1>6. MediumSound' BY <1>2, <1>3, <1>4, <1>5 DEF MediumSound
<1> QED BY <1>1, <1>2, <1>6

(* Steps of requests, which need the executor to be idle.                  *)
LEMMA RequestStepKeepsData ==
    ASSUME DataInv, Idle, UNCHANGED <<medium, buffered, job, files>>, node'.up,
           node'.published = node.published, node'.cursor = node.cursor,
           node'.media = node.media, node'.fresh = node.fresh,
           History(node'), HoldsContext(node'), node'.live \subseteq Requests
    PROVE  DataInv'
<1>1. node.up /\ job = NoJob BY DEF Idle
<1>2. node.cursor \in 1 .. ArenaPages + 1 BY <1>1 DEF DataInv, NodeSound
<1>3. FilesSound' /\ MediumSound' BY <1>1, <1>2, BoundsAssumption, MediumStays
<1>4. NodeSound' BY <1>1 DEF DataInv, NodeSound
<1>5. FreshMedium' BY <1>1 DEF DataInv, FreshMedium
<1>6. JobSound' BY <1>1 DEF JobSound
<1> QED BY <1>3, <1>4, <1>5, <1>6 DEF DataInv

LEMMA ComputeKeepsData ==
    ASSUME DataInv, Inv, NEW r \in Requests, Compute(r)
    PROVE  DataInv'
<1> DEFINE begin == ProgressOf(node.progress, node.initial, r).processed
           slice == [req |-> r, begin |-> begin, count |-> 1, emits |-> begin + 1 >= Prompt[r]]
<1>1. Idle /\ node' = Execute(node, slice) /\ UNCHANGED <<medium, buffered, job, files>>
  BY DEF Compute
<1>2. DOMAIN node = NodeFields /\ node.up BY <1>1 DEF Inv, EpochFollows, Idle
<1>3. History(node) /\ HoldsContext(node) /\ node.live \subseteq Requests
  BY <1>2 DEF DataInv, NodeSound
<1>4. begin \in Nat
  <2>1. IsProgress(node.progress) BY <1>3 DEF History
  <2> QED BY <2>1 DEF IsProgress, ProgressOf
<1>5. slice \in Slices /\ slice.req = r /\ slice.begin = begin BY <1>4 DEF Slices
<1> HIDE DEF slice
<1>6. /\ History(node') /\ HoldsContext(node') /\ node'.live \subseteq Requests
      /\ \A f \in NodeFields \ {"live", "progress", "schedules", "kv"} : node'[f] = node[f]
  BY <1>1, <1>2, <1>3, <1>5, ExecuteSound
<1>7. /\ node'.up /\ node'.published = node.published /\ node'.cursor = node.cursor
      /\ node'.media = node.media /\ node'.fresh = node.fresh
  BY <1>2, <1>6 DEF NodeFields
<1> QED BY <1>1, <1>6, <1>7, RequestStepKeepsData

LEMMA ReleaseKeepsData ==
    ASSUME DataInv, Inv, NEW r \in Requests, Release(r)
    PROVE  DataInv'
<1>1. /\ Idle /\ node' = [node EXCEPT !.live = @ \ {r}]
      /\ UNCHANGED <<medium, buffered, job, files>>
  BY DEF Release
<1>2. DOMAIN node = NodeFields /\ node.up BY <1>1 DEF Inv, EpochFollows, Idle
<1>3. History(node) /\ HoldsContext(node) /\ node.live \subseteq Requests
  BY <1>2 DEF DataInv, NodeSound
<1>4. /\ node'.up /\ node'.published = node.published /\ node'.cursor = node.cursor
      /\ node'.media = node.media /\ node'.fresh = node.fresh
      /\ node'.progress = node.progress /\ node'.kv = node.kv
      /\ node'.initial = node.initial /\ node'.schedules = node.schedules
      /\ node'.live = node.live \ {r}
  BY <1>1, <1>2 DEF NodeFields
<1>5. History(node') BY <1>3, <1>4, SameHistory
<1>6. HoldsContext(node') BY <1>3, <1>4 DEF HoldsContext, Tokens
<1>7. node'.live \subseteq Requests BY <1>3, <1>4
<1> QED BY <1>1, <1>4, <1>5, <1>6, <1>7, RequestStepKeepsData

LEMMA RecomputeKeepsData ==
    ASSUME DataInv, Inv, NEW p \in files.published, NEW r \in DOMAIN p.body.progress,
           Recompute(p, r)
    PROVE  DataInv'
<1> DEFINE state == p.body.progress[r]
           before == [node EXCEPT !.initial[r] = state.emitted - 1]
           slice == [req |-> r, begin |-> 0, count |-> state.processed, emits |-> TRUE]
<1>1. /\ Idle /\ node.schedules = <<>> /\ node.progress = NoProgress /\ node.live = {}
      /\ state.emitted >= 1 /\ node' = Execute(before, slice)
      /\ UNCHANGED <<medium, buffered, job, files>>
  BY DEF Recompute
<1>2. DOMAIN node = NodeFields /\ node.up BY <1>1 DEF Inv, EpochFollows, Idle
<1>3. History(node) /\ HoldsContext(node) BY <1>2 DEF DataInv, NodeSound
<1>4. Sound(p.body) BY DEF DataInv, FilesSound, RecordSound
<1>5. r \in Requests /\ state.processed \in Nat /\ state.emitted \in Nat BY <1>4, SoundPages
<1> HIDE DEF state
<1>6. /\ DOMAIN before = NodeFields /\ before.schedules = <<>> /\ before.progress = NoProgress
      /\ before.live = {} /\ before.kv = node.kv
      /\ before.initial = [node.initial EXCEPT ![r] = state.emitted - 1]
      /\ \A f \in NodeFields \ {"initial"} : before[f] = node[f]
  BY <1>1, <1>2 DEF NodeFields
<1> HIDE DEF before
<1>7. History(before)
  <2>1. before.initial \in [Requests -> Nat] BY <1>1, <1>3, <1>5, <1>6 DEF History
  <2>2. before.schedules \in Seq(Slices) BY <1>6
  <2>3. Replayed(before) = before.progress BY <1>6, ReplayedNothing
  <2> QED BY <1>6, <2>1, <2>2, <2>3, NoProgressIs DEF History
<1>8. HoldsContext(before)
  <2>1. before.progress = node.progress BY <1>1, <1>6
  <2> QED BY <1>3, <1>6, <2>1 DEF HoldsContext, Tokens
<1>9. slice \in Slices /\ slice.req = r /\ slice.begin = 0 BY <1>5 DEF Slices
<1>10. ProgressOf(before.progress, before.initial, r).processed = 0
  BY <1>6, NoProgressIs DEF ProgressOf
<1> HIDE DEF slice
<1>11. /\ History(node') /\ HoldsContext(node') /\ node'.live \subseteq Requests
       /\ \A f \in NodeFields \ {"live", "progress", "schedules", "kv"} : node'[f] = before[f]
  <2>1. before.live \subseteq Requests BY <1>6
  <2> QED BY <1>1, <1>6, <1>7, <1>8, <1>9, <1>10, <2>1, ExecuteSound
<1>12. /\ node'.up /\ node'.published = node.published /\ node'.cursor = node.cursor
       /\ node'.media = node.media /\ node'.fresh = node.fresh
  BY <1>2, <1>6, <1>11 DEF NodeFields
<1> QED BY <1>1, <1>11, <1>12, RequestStepKeepsData

LEMMA BootKeepsData ==
    ASSUME DataInv, Inv, NEW media, media = {} \/ \E m \in files.records : media = {m}, Boot(media)
    PROVE  DataInv'
<1>1. /\ ~node.up /\ node' = Fresh(media) /\ media \subseteq files.records
      /\ medium' = IF media = {} THEN Blank ELSE (CHOOSE m \in media : TRUE).image
      /\ UNCHANGED <<buffered, job, files>>
  BY DEF Boot
<1>2. buffered = {} /\ job = NoJob BY <1>1 DEF DataInv, MediumSound, Inv, JobOfEpoch
<1>3. /\ node'.up /\ node'.media = media /\ node'.fresh = (media # {}) /\ node'.live = {}
      /\ node'.progress = NoProgress /\ node'.kv = [r \in Requests |-> <<>>]
      /\ node'.schedules = <<>> /\ node'.initial = [r \in Requests |-> 0]
      /\ node'.published = {}
      /\ node'.cursor = IF media = {} THEN 1 ELSE (CHOOSE m \in media : TRUE).next
  BY <1>1 DEF Fresh
<1>4. \A m \in media : m = CHOOSE x \in media : TRUE OBVIOUS
<1>5. FilesSound' BY <1>1 DEF DataInv, FilesSound, RecordSound
<1>6. JobSound' BY <1>1, <1>2 DEF JobSound
<1>7. History(node')
  <2>1. Replayed(node') = node'.progress BY <1>3, ReplayedNothing
  <2> QED BY <1>3, <2>1, NoProgressIs DEF History
<1>8. HoldsContext(node') BY <1>3, NoProgressIs DEF HoldsContext
<1>9. \A m \in media : RecordSound(m) /\ m \in files.records
  BY <1>1 DEF DataInv, FilesSound
<1>10. node'.cursor \in 1 .. ArenaPages + 1 /\ \A m \in media : m.next = node'.cursor
  <2>1. CASE media = {} BY <1>3, <2>1, BoundsAssumption
  <2>2. CASE media # {}
    <3>1. \A m \in media : node'.cursor = m.next BY <1>3, <1>4, <2>2
    <3> QED BY <1>9, <2>2, <3>1 DEF RecordSound
  <2> QED BY <2>1, <2>2
<1>11. NodeSound'
  <2>1. \A m \in media : m.next <= node'.cursor BY <1>10, BoundsAssumption
  <2>2. \A m \in node'.media : m \in files'.records /\ m.next <= node'.cursor
    BY <1>1, <1>3, <2>1
  <2>3. node'.live \subseteq Requests BY <1>3
  <2> QED BY <1>7, <1>8, <1>10, <2>2, <2>3 DEF NodeSound
<1>12. \A m \in media : medium' = m.image BY <1>1, <1>4
<1>13. FreshMedium' BY <1>1, <1>2, <1>3, <1>12 DEF FreshMedium
<1>14. MediumSound'
  <2>1. Named' = medium'[Root] BY <1>1, <1>2, <1>3 DEF Named
  <2>2. DOMAIN medium' = {Root} \cup Arena
        /\ \A b \in medium'[Root] : Sound(b) /\ Holds(medium', b) /\ b.log < node'.cursor
    <3>1. CASE media = {} BY <1>1, <3>1 DEF Blank
    <3>2. CASE media # {}
      <4>1. PICK m \in media : TRUE BY <3>2
      <4>2. medium' = m.image /\ m.next = node'.cursor BY <4>1, <1>10, <1>12
      <4>3. RecordSound(m) BY <1>9
      <4>4. DOMAIN m.image = {Root} \cup Arena
            /\ \A b \in m.image[Root] : Sound(b) /\ Holds(m.image, b) /\ b.log < m.next
        BY <4>3 DEF RecordSound
      <4> QED BY <4>2, <4>4
    <3> QED BY <3>1, <3>2
  <2> QED BY <1>1, <1>2, <1>3, <2>1, <2>2 DEF MediumSound
<1> QED BY <1>5, <1>6, <1>11, <1>13, <1>14 DEF DataInv

LEMMA InterruptKeepsData ==
    ASSUME DataInv, Interrupt
    PROVE  DataInv'
<1>1. /\ node' = Off /\ job' = NoJob /\ buffered' = {} /\ medium' = Blank /\ files' = files
  BY DEF Interrupt
<1>2. FilesSound' BY <1>1 DEF DataInv, FilesSound, RecordSound
<1>3. ~node'.up BY <1>1 DEF Off
<1>4. DOMAIN medium' = {Root} \cup Arena BY <1>1 DEF Blank
<1> QED BY <1>1, <1>2, <1>3, <1>4 DEF DataInv, NodeSound, FreshMedium, MediumSound, JobSound

(* A restore works on the image the executor was started on, which holds   *)
(* the published epoch.                                                    *)
LEMMA RestoreKeepsData ==
    ASSUME DataInv, Inv, NEW m \in files.records, NEW p \in files.published, Restore(m, p)
    PROVE  DataInv'
<1> DEFINE body == p.body
           kv == [r \in Requests |-> IF r \in DOMAIN body.progress
                                     THEN Found(Stored(medium, body, r)) ELSE <<>>]
<1>1. /\ Idle /\ node.media = {m} /\ node.fresh /\ Restorable(m, p)
      /\ Replayed(body) = body.progress
      /\ node' = [node EXCEPT
            !.fresh = FALSE, !.live = DOMAIN body.progress, !.progress = body.progress,
            !.schedules = body.schedules, !.initial = body.initial,
            !.published = {p}, !.kv = kv]
      /\ UNCHANGED <<medium, buffered, job, files>>
  BY DEF Restore
<1>2. DOMAIN node = NodeFields /\ node.up /\ job = NoJob BY <1>1 DEF Inv, EpochFollows, Idle
<1>3. RecordSound(m) /\ medium = m.image /\ buffered = {} /\ m.next <= node.cursor
      /\ node.cursor \in 1 .. ArenaPages + 1
  BY <1>1, <1>2 DEF DataInv, FilesSound, NodeSound, FreshMedium
<1>4. Sound(body) /\ Holds(medium, body) /\ body.log < m.next
  <2>1. body \in {m.body} \cup m.image[Root] \cup m.body.previous BY <1>1 DEF Restorable
  <2> QED BY <1>3, <2>1 DEF RecordSound
<1>5. DOMAIN body.progress \subseteq Requests BY <1>4, SoundPages
<1> HIDE DEF kv, body
<1>6. /\ node'.up /\ node'.cursor = node.cursor /\ node'.media = node.media
      /\ ~node'.fresh /\ node'.published = {p} /\ node'.live = DOMAIN body.progress
      /\ node'.progress = body.progress /\ node'.schedules = body.schedules
      /\ node'.initial = body.initial /\ node'.kv = kv
  BY <1>1, <1>2 DEF NodeFields
<1>7. History(node') BY <1>4, <1>6, SameHistory DEF Sound
<1>8. HoldsContext(node')
  <2>1. ASSUME NEW r \in DOMAIN body.progress
        PROVE  Found(Stored(medium, body, r)) = Tokens(node', r)
    <3>1. Found(Stored(medium, body, r)) = Tokens(body, r) BY <1>4, StoredIs
    <3> QED BY <1>6, <3>1 DEF Tokens
  <2> QED BY <1>6, <2>1 DEF HoldsContext, kv
<1>9. FilesSound' BY <1>1 DEF DataInv, FilesSound, RecordSound
<1>10. NodeSound' BY <1>1, <1>3, <1>5, <1>6, <1>7, <1>8, <1>2 DEF DataInv, NodeSound
<1>11. FreshMedium' BY <1>6 DEF FreshMedium
<1>12. JobSound' BY <1>1, <1>2 DEF JobSound
<1>13. MediumSound'
  <2>1. Named' \subseteq Named \cup {body} BY <1>1, <1>6 DEF Named, body
  <2>2. \A b \in Named : Sound(b) /\ Holds(medium, b) /\ b.log < node.cursor
    BY <1>2 DEF DataInv, MediumSound
  <2>3. body.log < node.cursor
    <3>1. body.log \in Nat BY <1>4, SoundPages, RootIsNoArena
    <3>2. m.next \in 1 .. ArenaPages + 1 /\ node.cursor \in 1 .. ArenaPages + 1
      BY <1>3 DEF RecordSound
    <3> QED BY <1>3, <1>4, <3>1, <3>2
  <2>4. \A b \in Named' : Sound(b) /\ Holds(medium', b) /\ b.log < node'.cursor
    BY <1>1, <1>4, <1>6, <2>1, <2>2, <2>3
  <2>5. DOMAIN medium' = {Root} \cup Arena BY <1>1 DEF DataInv, MediumSound
  <2> QED BY <1>1, <1>3, <1>6, <2>4, <2>5 DEF MediumSound
<1> QED BY <1>9, <1>10, <1>11, <1>12, <1>13 DEF DataInv

(* A publication begins behind everything that was ever written.           *)
LEMMA BeginKeepsData ==
    ASSUME DataInv, Inv, NEW publish \in BOOLEAN, Begin(publish)
    PROVE  DataInv'
<1>1. /\ Idle /\ node' = [node EXCEPT !.cursor = Behind(LogPage(node))]
      /\ job' = IF LogPage(node) \in Arena
                THEN [phase |-> "copy", publish |-> publish, body |-> Body(node), image |-> {}]
                ELSE NoJob
      /\ UNCHANGED <<medium, buffered, files>>
  BY DEF Begin, Publishable
<1>2. DOMAIN node = NodeFields /\ node.up /\ job = NoJob BY <1>1 DEF Inv, EpochFollows, Idle
<1>3. /\ History(node) /\ HoldsContext(node) /\ node.live \subseteq Requests
      /\ node.cursor \in 1 .. ArenaPages + 1
      /\ \A m \in node.media : m \in files.records /\ m.next <= node.cursor
  BY <1>2 DEF DataInv, NodeSound
<1>4. /\ node'.up /\ node'.published = node.published /\ node'.media = node.media
      /\ node'.fresh = node.fresh /\ node'.live = node.live
      /\ node'.progress = node.progress /\ node'.kv = node.kv
      /\ node'.initial = node.initial /\ node'.schedules = node.schedules
      /\ node'.cursor = Behind(LogPage(node))
  BY <1>1, <1>2 DEF NodeFields
<1>5. LogPage(node) \in Arena =>
         Sound(Body(node)) /\ Body(node).log = LogPage(node) /\ node.cursor <= LogPage(node)
  <2>1. node.cursor \in Nat \ {0} BY <1>3, BoundsAssumption
  <2> QED BY <1>3, <2>1, BodySound
<1>6. /\ node'.cursor \in 1 .. ArenaPages + 1 /\ node.cursor <= node'.cursor
      /\ LogPage(node) \in Arena => LogPage(node) < node'.cursor
  BY <1>3, <1>4, <1>5, BoundsAssumption DEF Behind, Arena
<1>7. FilesSound' /\ MediumSound' /\ Named' = Named BY <1>1, <1>2, <1>4, <1>6, MediumStays
<1>8. NodeSound'
  <2>1. History(node') BY <1>3, <1>4, SameHistory
  <2>2. HoldsContext(node') BY <1>3, <1>4 DEF HoldsContext, Tokens
  <2>3. \A m \in node'.media : m \in files'.records /\ m.next <= node'.cursor
    <3> SUFFICES ASSUME NEW m \in node.media
                 PROVE  m \in files.records /\ m.next <= node'.cursor
      BY <1>1, <1>4
    <3>1. m \in files.records /\ m.next <= node.cursor BY <1>3
    <3>2. m.next \in 1 .. ArenaPages + 1 BY <3>1 DEF DataInv, FilesSound, RecordSound
    <3> QED BY <1>3, <1>6, <3>1, <3>2, BoundsAssumption
  <2> QED BY <1>3, <1>4, <1>6, <2>1, <2>2, <2>3 DEF NodeSound
<1>9. FreshMedium'
  <2>1. job' # NoJob => job'.phase = "copy" BY <1>1
  <2> QED BY <1>1, <1>2, <1>4, <2>1 DEF DataInv, FreshMedium
<1>10. JobSound'
  <2>1. CASE LogPage(node) \notin Arena BY <1>1, <2>1 DEF JobSound
  <2>2. CASE LogPage(node) \in Arena
    <3>1. /\ job'.phase = "copy" /\ job'.publish = publish /\ job'.body = Body(node)
      BY <1>1, <2>2
    <3>2. /\ Body(node).progress = node.progress /\ Body(node).begin = node.cursor
          /\ Body(node).previous = {p.body : p \in node.published}
      BY DEF Body
    <3>3. \A b \in Named : b.log < node.cursor BY <1>2 DEF DataInv, MediumSound
    <3>4. \A w \in buffered : w.page < node.cursor
      <4>1. \A w \in buffered : w.page # Root => w.page < node.cursor
        BY <1>2 DEF DataInv, MediumSound
      <4>2. Root < node.cursor BY <1>3, BoundsAssumption DEF Root
      <4> QED BY <4>1, <4>2
    <3>5. Sound(job'.body) /\ job'.body.log < node'.cursor BY <1>5, <1>6, <2>2, <3>1
    <3> HIDE DEF Named
    <3> QED BY <1>1, <1>4, <1>7, <3>1, <3>2, <3>3, <3>4, <3>5 DEF JobSound
  <2> QED BY <2>1, <2>2
<1> QED BY <1>7, <1>8, <1>9, <1>10 DEF DataInv

LEMMA FailKeepsData ==
    ASSUME DataInv, Inv, Fail
    PROVE  DataInv'
<1>1. /\ node.up /\ job' = NoJob /\ node' = [node EXCEPT !.fresh = FALSE]
      /\ UNCHANGED <<medium, buffered, files>>
  BY DEF Fail
<1>2. DOMAIN node = NodeFields BY <1>1 DEF Inv, EpochFollows
<1>3. /\ node'.up /\ node'.published = node.published /\ node'.media = node.media
      /\ ~node'.fresh /\ node'.live = node.live
      /\ node'.progress = node.progress /\ node'.kv = node.kv
      /\ node'.initial = node.initial /\ node'.schedules = node.schedules
      /\ node'.cursor = node.cursor
  BY <1>1, <1>2 DEF NodeFields
<1>4. node.cursor \in 1 .. ArenaPages + 1 /\ node.cursor <= node'.cursor
  BY <1>1, <1>3, BoundsAssumption DEF DataInv, NodeSound
<1>5. FilesSound' /\ MediumSound' BY <1>1, <1>3, <1>4, MediumStays
<1>6. NodeSound'
  <2>1. History(node') BY <1>1, <1>3, SameHistory DEF DataInv, NodeSound
  <2>2. HoldsContext(node') BY <1>1, <1>3 DEF DataInv, NodeSound, HoldsContext, Tokens
  <2> QED BY <1>1, <1>3, <2>1, <2>2 DEF DataInv, NodeSound
<1>7. FreshMedium' /\ JobSound' BY <1>1, <1>3 DEF FreshMedium, JobSound
<1> QED BY <1>5, <1>6, <1>7 DEF DataInv

(* Steps of a publication leave the requests alone.                        *)
LEMMA NodeStays ==
    ASSUME DataInv, node.up, node'.cursor = node.cursor, node'.kv = node.kv,
           node'.progress = node.progress, node'.initial = node.initial,
           node'.schedules = node.schedules, node'.live = node.live, node'.media = node.media,
           files.records \subseteq files'.records
    PROVE  NodeSound'
<1>1. History(node) /\ HoldsContext(node) BY DEF DataInv, NodeSound
<1>2. History(node') BY <1>1, SameHistory
<1>3. HoldsContext(node') BY <1>1 DEF HoldsContext, Tokens
<1> QED BY <1>2, <1>3 DEF DataInv, NodeSound

(* What the two invariants say of a publication in progress.               *)
LEMMA AtPhase ==
    ASSUME DataInv, Inv, NEW phase \in EarlyPhases \cup LatePhases, At(phase)
    PROVE  /\ node.up /\ job.phase = phase /\ job # NoJob
           /\ DOMAIN job = JobFields /\ DOMAIN node = NodeFields
           /\ node.cursor \in 1 .. ArenaPages + 1
           /\ Sound(job.body) /\ job.body.log < node.cursor /\ job.publish \in BOOLEAN
           /\ phase # "copy" => ~node.fresh
<1>1. node.up /\ job.phase = phase /\ job # NoJob BY NoJobIsIdle DEF At
<1> QED BY <1>1 DEF Inv, EpochFollows, JobOfEpoch, DataInv, NodeSound, JobSound, FreshMedium

LEMMA CopyKeepsData ==
    ASSUME DataInv, Inv, Copy
    PROVE  DataInv'
<1> DEFINE b == job.body
           New == UNION {{Written(b.versions[r] + i - 1, node.kv[r][i]) :
                            i \in 1 .. Len(node.kv[r])} : r \in DOMAIN b.versions}
<1>1. /\ At("copy") /\ job' = [job EXCEPT !.phase = "log"] /\ buffered' = buffered \cup New
      /\ node' = [node EXCEPT !.fresh = FALSE] /\ UNCHANGED <<medium, files>>
  BY DEF Copy, GoTo
<1>2. /\ node.up /\ job.phase = "copy" /\ job # NoJob
      /\ DOMAIN job = JobFields /\ DOMAIN node = NodeFields
      /\ node.cursor \in 1 .. ArenaPages + 1 /\ Sound(b) /\ b.log < node.cursor
  BY <1>1, AtPhase DEF EarlyPhases
<1>3. /\ b.progress = node.progress /\ job.publish \in BOOLEAN
      /\ b.previous = {p.body : p \in node.published}
      /\ \A c \in Named : c.log < b.begin
      /\ \A w \in buffered : w.page < b.begin
  BY <1>2 DEF DataInv, JobSound
<1>4. /\ node'.up /\ node'.published = node.published /\ node'.media = node.media
      /\ ~node'.fresh /\ node'.live = node.live
      /\ node'.progress = node.progress /\ node'.kv = node.kv
      /\ node'.initial = node.initial /\ node'.schedules = node.schedules
      /\ node'.cursor = node.cursor
  BY <1>1, <1>2 DEF NodeFields
<1>5. job' # NoJob /\ job'.phase = "log" /\ job'.publish = job.publish /\ job'.body = b
  BY <1>1, <1>2 DEF JobFields, NoJob
<1> HIDE DEF b
<1>6. /\ b.begin \in Arena /\ b.log \in Arena /\ b.begin <= b.log
      /\ DOMAIN b.versions = DOMAIN b.progress /\ DOMAIN b.progress \subseteq Requests
      /\ \A r \in DOMAIN b.progress : b.progress[r].processed \in Nat
  BY <1>2, SoundPages
<1>7. ASSUME NEW r \in DOMAIN b.progress
      PROVE  /\ Len(node.kv[r]) = b.progress[r].processed
             /\ \A i \in 1 .. b.progress[r].processed : node.kv[r][i] = Token(r, i)
  <2> DEFINE k == b.progress[r].processed
             T(i) == Token(r, i)
  <2>1. node.kv[r] = [i \in 1 .. k |-> T(i)]
    <3>1. HoldsContext(node) BY <1>2 DEF DataInv, NodeSound
    <3> QED BY <3>1, <1>3, <1>6 DEF HoldsContext, Tokens
  <2>2. k \in Nat BY <1>6
  <2> HIDE DEF k, T
  <2>3. Len(node.kv[r]) = k /\ \A i \in 1 .. k : node.kv[r][i] = T(i) BY <2>1, <2>2
  <2> QED BY <2>3 DEF k, T
<1>8. ASSUME NEW w \in New
      PROVE  \E r \in DOMAIN b.progress : \E i \in 1 .. b.progress[r].processed :
                w = Written(Place(b, r, i), Token(r, i))
  <2>1. PICK r \in DOMAIN b.versions : \E i \in 1 .. Len(node.kv[r]) :
           w = Written(b.versions[r] + i - 1, node.kv[r][i])
    OBVIOUS
  <2> QED BY <2>1, <1>6, <1>7 DEF Place
<1>9. ASSUME NEW r \in DOMAIN b.progress, NEW i \in 1 .. b.progress[r].processed
      PROVE  Written(Place(b, r, i), Token(r, i)) \in New
  BY <1>6, <1>7 DEF Place
<1> HIDE DEF New
<1>10. ASSUME NEW w \in New
       PROVE  w.page \in Arena /\ b.begin <= w.page /\ w.page < b.log /\ w.page # Root
  <2>1. PICK r \in DOMAIN b.progress : \E i \in 1 .. b.progress[r].processed :
                w = Written(Place(b, r, i), Token(r, i))
    BY <1>8
  <2>2. PICK i \in 1 .. b.progress[r].processed : w.page = Place(b, r, i)
    BY <2>1 DEF Written
  <2> QED BY <1>2, <2>2, SoundPages, RootIsNoArena
<1>11. ASSUME NEW w \in New, NEW x \in New, w.page = x.page PROVE w = x
  <2>1. PICK r \in DOMAIN b.progress : \E i \in 1 .. b.progress[r].processed :
                w = Written(Place(b, r, i), Token(r, i))
    BY <1>8
  <2>2. PICK i \in 1 .. b.progress[r].processed : w = Written(Place(b, r, i), Token(r, i))
    BY <2>1
  <2>3. PICK s \in DOMAIN b.progress : \E j \in 1 .. b.progress[s].processed :
                x = Written(Place(b, s, j), Token(s, j))
    BY <1>8
  <2>4. PICK j \in 1 .. b.progress[s].processed : x = Written(Place(b, s, j), Token(s, j))
    BY <2>3
  <2>5. Place(b, r, i) = Place(b, s, j) BY <1>11, <2>2, <2>4 DEF Written
  <2>6. r = s /\ i = j BY <1>2, <2>5, SoundPages
  <2> QED BY <2>2, <2>4, <2>6
<1>12. FilesSound' BY <1>1 DEF DataInv, FilesSound, RecordSound
<1>13. NodeSound' BY <1>1, <1>2, <1>4, NodeStays
<1>14. FreshMedium' BY <1>4 DEF FreshMedium
<1>15. Named' = Named
  <2>1. {w \in buffered' : w.page = Root} = {w \in buffered : w.page = Root} BY <1>1, <1>10
  <2> QED BY <1>1, <1>4, <2>1 DEF Named
<1>16. /\ DOMAIN medium = {Root} \cup Arena
       /\ \A c \in Named : Sound(c) /\ Holds(medium, c) /\ c.log < node.cursor
       /\ \A w \in buffered : w.page # Root =>
             /\ w.page \in Arena /\ w.page < node.cursor
             /\ \A c \in Named : c.log < w.page
       /\ \A w, x \in buffered : w.page = x.page => w = x
  BY <1>2 DEF DataInv, MediumSound
<1> HIDE DEF Named
<1>17. ASSUME NEW w \in New
       PROVE  w.page < node.cursor /\ \A c \in Named : c.log < w.page
  <2>0. node.cursor \in Nat BY <1>2
  <2>1. w.page \in Nat /\ b.begin \in Nat /\ b.log \in Nat /\ node.cursor \in Nat
    BY <1>6, <1>10, <2>0, RootIsNoArena
  <2>2. w.page < node.cursor BY <1>2, <1>10, <2>1
  <2>3. ASSUME NEW c \in Named PROVE c.log < w.page
    <3>1. c.log \in Nat BY <1>16, SoundPages, RootIsNoArena
    <3> QED BY <1>3, <1>10, <2>1, <3>1
  <2> QED BY <2>2, <2>3
<1>18. \A w \in buffered : \A x \in New : w.page # x.page
  <2> SUFFICES ASSUME NEW w \in buffered, NEW x \in New, w.page = x.page PROVE FALSE OBVIOUS
  <2>1. x.page \in Nat /\ b.begin \in Nat BY <1>6, <1>10, RootIsNoArena
  <2> QED BY <1>3, <1>10, <2>1
<1>19. MediumSound'
  <2>1. \A w, x \in buffered' : w.page = x.page => w = x BY <1>1, <1>11, <1>16, <1>18
  <2>2. \A w \in buffered' : w.page # Root =>
             /\ w.page \in Arena /\ w.page < node'.cursor
             /\ \A c \in Named' : c.log < w.page
    BY <1>1, <1>4, <1>10, <1>15, <1>16, <1>17
  <2> QED BY <1>1, <1>4, <1>15, <1>16, <2>1, <2>2 DEF MediumSound
<1>20. JobSound'
  <2>1. \A w \in buffered' : w.page < b.log
    <3> SUFFICES ASSUME NEW w \in buffered, w \notin New PROVE w.page < b.log BY <1>1, <1>10
    <3>0. b.begin \in Nat /\ b.log \in Nat BY <1>6, RootIsNoArena
    <3>1. w.page \in Nat
      <4>1. CASE w.page = Root BY <4>1 DEF Root
      <4>2. CASE w.page # Root BY <1>16, <4>2, RootIsNoArena
      <4> QED BY <4>1, <4>2
    <3> QED BY <1>3, <1>6, <3>0, <3>1
  <2>2. CopiedTo(buffered', b) BY <1>1, <1>9 DEF CopiedTo
  <2> QED BY <1>2, <1>3, <1>4, <1>5, <1>15, <2>1, <2>2 DEF JobSound
<1> QED BY <1>12, <1>13, <1>14, <1>19, <1>20 DEF DataInv

LEMMA WriteLogKeepsData ==
    ASSUME DataInv, Inv, WriteLog
    PROVE  DataInv'
<1> DEFINE b == job.body
           new == Written(b.log, b)
<1>1. /\ At("log") /\ job' = [job EXCEPT !.phase = "drain"] /\ buffered' = buffered \cup {new}
      /\ UNCHANGED <<node, medium, files>>
  BY DEF WriteLog, GoTo
<1>2. /\ node.up /\ job.phase = "log" /\ job # NoJob /\ ~node.fresh
      /\ DOMAIN job = JobFields /\ DOMAIN node = NodeFields
      /\ node.cursor \in 1 .. ArenaPages + 1 /\ Sound(b) /\ b.log < node.cursor
  BY <1>1, AtPhase DEF EarlyPhases
<1>3. /\ b.progress = node.progress /\ job.publish \in BOOLEAN
      /\ b.previous = {p.body : p \in node.published}
      /\ \A c \in Named : c.log < b.begin
      /\ \A w \in buffered : w.page < b.log
      /\ CopiedTo(buffered, b)
  BY <1>2 DEF DataInv, JobSound
<1>4. job' # NoJob /\ job'.phase = "drain" /\ job'.publish = job.publish /\ job'.body = b
  BY <1>1, <1>2 DEF JobFields, NoJob
<1>5. new.page = b.log /\ new.content = b BY DEF Written
<1> HIDE DEF b, new
<1>6. b.begin \in Arena /\ b.log \in Arena /\ b.begin <= b.log /\ b.log # Root /\ b.log \in Nat
      /\ b.begin \in Nat
  BY <1>2, SoundPages, RootIsNoArena
<1>7. FilesSound' BY <1>1 DEF DataInv, FilesSound, RecordSound
<1>8. NodeSound' BY <1>1, <1>2, NodeStays
<1>9. FreshMedium' BY <1>1, <1>2 DEF FreshMedium
<1>10. Named' = Named
  <2>1. {w \in buffered' : w.page = Root} = {w \in buffered : w.page = Root} BY <1>1, <1>5, <1>6
  <2> QED BY <1>1, <2>1 DEF Named
<1>11. /\ DOMAIN medium = {Root} \cup Arena
       /\ \A c \in Named : Sound(c) /\ Holds(medium, c) /\ c.log < node.cursor
       /\ \A w \in buffered : w.page # Root =>
             /\ w.page \in Arena /\ w.page < node.cursor
             /\ \A c \in Named : c.log < w.page
       /\ \A w, x \in buffered : w.page = x.page => w = x
  BY <1>2 DEF DataInv, MediumSound
<1> HIDE DEF Named
<1>12. \A c \in Named : c.log < b.log
  <2> SUFFICES ASSUME NEW c \in Named PROVE c.log < b.log OBVIOUS
  <2>1. c.log \in Nat BY <1>11, SoundPages, RootIsNoArena
  <2> QED BY <1>3, <1>6, <2>1
<1>13. \A w \in buffered : w.page # b.log BY <1>3, <1>6
<1>14. MediumSound'
  <2>1. \A w, x \in buffered' : w.page = x.page => w = x BY <1>1, <1>5, <1>11, <1>13
  <2>2. \A w \in buffered' : w.page # Root =>
             /\ w.page \in Arena /\ w.page < node'.cursor
             /\ \A c \in Named' : c.log < w.page
    BY <1>1, <1>2, <1>5, <1>6, <1>10, <1>11, <1>12
  <2> QED BY <1>1, <1>2, <1>10, <1>11, <2>1, <2>2 DEF MediumSound
<1>15. JobSound'
  <2>1. CopiedTo(buffered', b) BY <1>1, <1>3 DEF CopiedTo
  <2>2. Written(b.log, b) \in buffered' BY <1>1 DEF new
  <2> QED BY <1>1, <1>2, <1>3, <1>4, <2>1, <2>2 DEF JobSound
<1> QED BY <1>7, <1>8, <1>9, <1>14, <1>15 DEF DataInv

(* A drain keeps what the named epochs have on the medium.                 *)
LEMMA DrainKeepsNamed ==
    ASSUME DataInv, node.up, medium' = Drained(medium, buffered), buffered' = {},
           node'.published = node.published
    PROVE  /\ Named' \subseteq Named /\ DOMAIN medium' = {Root} \cup Arena
           /\ \A b \in Named' : Sound(b) /\ Holds(medium', b) /\ b.log < node.cursor
<1>1. /\ DOMAIN medium = {Root} \cup Arena
      /\ \A b \in Named : Sound(b) /\ Holds(medium, b) /\ b.log < node.cursor
      /\ \A w \in buffered : w.page # Root => w.page \in Arena /\ \A b \in Named : b.log < w.page
      /\ \A w, x \in buffered : w.page = x.page => w = x
  BY DEF DataInv, MediumSound
<1>2. medium'[Root] \subseteq medium[Root] \cup {w.content : w \in {w \in buffered : w.page = Root}}
  <2>1. CASE \A w \in buffered : w.page # Root
    <3>1. medium'[Root] = medium[Root] BY <1>1, <2>1, DrainedPages
    <3> QED BY <3>1
  <2>2. CASE \E w \in buffered : w.page = Root
    <3>1. PICK w \in buffered : w.page = Root BY <2>2
    <3>2. medium'[Root] = {w.content} BY <1>1, <3>1, DrainedPages
    <3> QED BY <3>1, <3>2
  <2> QED BY <2>1, <2>2
<1>3. Named' \subseteq Named BY <1>2 DEF Named
<1>4. ASSUME NEW b \in Named PROVE Holds(medium', b)
  <2>1. Sound(b) /\ Holds(medium, b) BY <1>1
  <2>2. \A w \in buffered : w.page # Root => w.page \in Arena /\ b.log < w.page BY <1>1
  <2> HIDE DEF Named
  <2> QED BY <1>1, <2>1, <2>2, DrainedHolds
<1>5. DOMAIN medium' = {Root} \cup Arena BY <1>1, DrainedPages
<1> QED BY <1>1, <1>3, <1>4, <1>5

(* What was copied and logged is on the medium after a drain.              *)
LEMMA DrainStores ==
    ASSUME NEW b, Sound(b), NEW held, DOMAIN held = {Root} \cup Arena, NEW writes,
           \A w, x \in writes : w.page = x.page => w = x,
           CopiedTo(writes, b), Written(b.log, b) \in writes
    PROVE  Holds(Drained(held, writes), b)
<1>1. \A w \in writes : w.page \in Arena => Drained(held, writes)[w.page] = {w.content}
  BY DrainedPages
<1>2. \A page, content : Written(page, content).page = page
                         /\ Written(page, content).content = content
  BY DEF Written
<1>3. Drained(held, writes)[b.log] = {b}
  <2>1. b.log \in Arena BY SoundPages
  <2> QED BY <1>1, <1>2, <2>1
<1>4. ASSUME NEW r \in DOMAIN b.progress, NEW i \in 1 .. b.progress[r].processed
      PROVE  Drained(held, writes)[Place(b, r, i)] = {Token(r, i)}
  <2>1. Place(b, r, i) \in Arena BY SoundPages
  <2>2. Written(Place(b, r, i), Token(r, i)) \in writes BY DEF CopiedTo
  <2> QED BY <1>1, <1>2, <2>1, <2>2
<1> QED BY <1>3, <1>4 DEF Holds

LEMMA DrainKeepsData ==
    ASSUME DataInv, Inv, Drain
    PROVE  DataInv'
<1> DEFINE b == job.body
<1>1. /\ At("drain") /\ job' = [job EXCEPT !.phase = AfterDrain]
      /\ node' = [node EXCEPT !.drained = @ \cup {node.epoch}]
      /\ medium' = Drained(medium, buffered) /\ buffered' = {} /\ files' = files
  BY DEF Drain, GoTo
<1>2. /\ node.up /\ job.phase = "drain" /\ job # NoJob /\ ~node.fresh
      /\ DOMAIN job = JobFields /\ DOMAIN node = NodeFields
      /\ Sound(b) /\ b.log < node.cursor /\ job.publish \in BOOLEAN
  BY <1>1, AtPhase DEF EarlyPhases
<1>3. /\ b.progress = node.progress /\ b.previous = {p.body : p \in node.published}
      /\ CopiedTo(buffered, b) /\ Written(b.log, b) \in buffered
  BY <1>2 DEF DataInv, JobSound
<1>4. /\ node'.up /\ node'.published = node.published /\ node'.media = node.media
      /\ ~node'.fresh /\ node'.live = node.live
      /\ node'.progress = node.progress /\ node'.kv = node.kv
      /\ node'.initial = node.initial /\ node'.schedules = node.schedules
      /\ node'.cursor = node.cursor
  BY <1>1, <1>2 DEF NodeFields
<1>5. /\ job' # NoJob /\ job'.publish = job.publish /\ job'.body = b
      /\ job'.phase = IF job.publish THEN "root" ELSE "image"
  BY <1>1, <1>2 DEF JobFields, NoJob, AfterDrain
<1> HIDE DEF b
<1>6. FilesSound' BY <1>1 DEF DataInv, FilesSound, RecordSound
<1>7. NodeSound' BY <1>1, <1>2, <1>4, NodeStays
<1>8. FreshMedium' BY <1>4 DEF FreshMedium
<1>9. /\ DOMAIN medium' = {Root} \cup Arena
      /\ \A c \in Named' : Sound(c) /\ Holds(medium', c) /\ c.log < node.cursor
  BY <1>1, <1>2, <1>4, DrainKeepsNamed
<1>10. MediumSound'
  <2> HIDE DEF Named
  <2> QED BY <1>1, <1>4, <1>9 DEF MediumSound
<1>11. Holds(medium', b)
  <2>1. DOMAIN medium = {Root} \cup Arena /\ \A w, x \in buffered : w.page = x.page => w = x
    BY <1>2 DEF DataInv, MediumSound
  <2> QED BY <1>1, <1>2, <1>3, <2>1, DrainStores
<1>12. JobSound' BY <1>1, <1>2, <1>3, <1>4, <1>5, <1>11 DEF JobSound
<1> QED BY <1>6, <1>7, <1>8, <1>10, <1>12 DEF DataInv

LEMMA WriteRootKeepsData ==
    ASSUME DataInv, Inv, WriteRoot
    PROVE  DataInv'
<1> DEFINE b == job.body
           new == Written(Root, b)
<1>1. /\ At("root") /\ job' = [job EXCEPT !.phase = "image"] /\ buffered' = buffered \cup {new}
      /\ UNCHANGED <<node, medium, files>>
  BY DEF WriteRoot, GoTo
<1>2. /\ node.up /\ job.phase = "root" /\ job # NoJob /\ ~node.fresh
      /\ DOMAIN job = JobFields /\ DOMAIN node = NodeFields
      /\ Sound(b) /\ b.log < node.cursor
  BY <1>1, AtPhase DEF EarlyPhases
<1>3. /\ b.progress = node.progress /\ job.publish = TRUE
      /\ b.previous = {p.body : p \in node.published}
      /\ Holds(medium, b) /\ buffered = {}
  BY <1>2 DEF DataInv, JobSound
<1>4. job' # NoJob /\ job'.phase = "image" /\ job'.publish = TRUE /\ job'.body = b
  BY <1>1, <1>2, <1>3 DEF JobFields, NoJob
<1>5. new.page = Root /\ new.content = b /\ buffered' = {Written(Root, b)} BY <1>1, <1>3 DEF Written
<1> HIDE DEF b, new
<1>6. FilesSound' BY <1>1 DEF DataInv, FilesSound, RecordSound
<1>7. NodeSound' BY <1>1, <1>2, NodeStays
<1>8. FreshMedium' BY <1>1, <1>2 DEF FreshMedium
<1>9. Named' \subseteq Named \cup {b} /\ \A w \in buffered' : w = new
  <2>1. {w \in buffered' : w.page = Root} = {new} BY <1>1, <1>3, <1>5
  <2> QED BY <1>1, <1>3, <1>5, <2>1 DEF Named
<1>10. /\ DOMAIN medium = {Root} \cup Arena
       /\ \A c \in Named : Sound(c) /\ Holds(medium, c) /\ c.log < node.cursor
  BY <1>2 DEF DataInv, MediumSound
<1>11. MediumSound'
  <2> HIDE DEF Named
  <2> QED BY <1>1, <1>2, <1>3, <1>5, <1>9, <1>10 DEF MediumSound
<1>12. JobSound' BY <1>1, <1>2, <1>3, <1>4, <1>5 DEF JobSound
<1> QED BY <1>6, <1>7, <1>8, <1>11, <1>12 DEF DataInv

LEMMA TakeImageKeepsData ==
    ASSUME DataInv, Inv, TakeImage
    PROVE  DataInv'
<1> DEFINE b == job.body
<1>1. /\ At("image") /\ job' = [job EXCEPT !.phase = "record", !.image = medium']
      /\ medium' = Drained(medium, buffered) /\ buffered' = {} /\ node' = node
      /\ files' = [files EXCEPT !.images = @ \cup {node.epoch}]
  BY DEF TakeImage
<1>2. /\ node.up /\ job.phase = "image" /\ job # NoJob /\ ~node.fresh
      /\ DOMAIN job = JobFields /\ DOMAIN node = NodeFields
      /\ Sound(b) /\ b.log < node.cursor /\ job.publish \in BOOLEAN
  BY <1>1, AtPhase DEF EarlyPhases
<1>3. /\ b.progress = node.progress /\ b.previous = {p.body : p \in node.published}
      /\ Holds(medium, b) /\ buffered = IF job.publish THEN {Written(Root, b)} ELSE {}
  BY <1>2 DEF DataInv, JobSound
<1>4. /\ job' # NoJob /\ job'.publish = job.publish /\ job'.body = b
      /\ job'.phase = "record" /\ job'.image = medium'
  BY <1>1, <1>2 DEF JobFields, NoJob
<1>5. files'.records = files.records /\ files'.published = files.published
  BY <1>1 DEF Inv, RecordsHaveImages
<1>6. Written(Root, b).page = Root /\ Written(Root, b).content = b BY DEF Written
<1> HIDE DEF b
<1>7. FilesSound' BY <1>5 DEF DataInv, FilesSound, RecordSound
<1>8. NodeSound' BY <1>1, <1>2, <1>5, NodeStays
<1>9. FreshMedium' BY <1>1, <1>2 DEF FreshMedium
<1>10. /\ DOMAIN medium' = {Root} \cup Arena
       /\ \A c \in Named' : Sound(c) /\ Holds(medium', c) /\ c.log < node.cursor
  BY <1>1, <1>2, DrainKeepsNamed
<1>11. MediumSound'
  <2> HIDE DEF Named
  <2> QED BY <1>1, <1>2, <1>10 DEF MediumSound
<1>12. DOMAIN medium = {Root} \cup Arena BY <1>2 DEF DataInv, MediumSound
<1>13. \A w \in buffered : w.page = Root /\ w.content = b BY <1>3, <1>6
<1>14. Holds(medium', b) BY <1>1, <1>2, <1>3, <1>12, <1>13, DrainedHolds
<1>15. job.publish => medium'[Root] = {b}
  <2> SUFFICES ASSUME job.publish PROVE medium'[Root] = {b} OBVIOUS
  <2>1. buffered = {Written(Root, b)} BY <1>3
  <2> QED BY <1>1, <1>6, <1>12, <2>1, DrainedPages
<1>16. JobSound' BY <1>1, <1>2, <1>3, <1>4, <1>14, <1>15 DEF JobSound
<1> QED BY <1>7, <1>8, <1>9, <1>11, <1>16 DEF DataInv

(* The record is sound because everything it names is on the medium.       *)
LEMMA WriteRecordKeepsData ==
    ASSUME DataInv, Inv, WriteRecord
    PROVE  DataInv'
<1> DEFINE b == job.body
<1>1. /\ At("record") /\ files' = [files EXCEPT !.records = @ \cup {Record}]
      /\ \/ job.publish /\ job' = [job EXCEPT !.phase = "replace"] /\ node' = node
         \/ job' = NoJob /\ node' = [node EXCEPT !.epoch = @ + 1]
      /\ UNCHANGED <<medium, buffered>>
  BY DEF WriteRecord, GoTo
<1>2. /\ node.up /\ job.phase = "record" /\ job # NoJob /\ ~node.fresh
      /\ DOMAIN job = JobFields /\ DOMAIN node = NodeFields
      /\ node.cursor \in 1 .. ArenaPages + 1
      /\ Sound(b) /\ b.log < node.cursor /\ job.publish \in BOOLEAN
  BY <1>1, AtPhase DEF LatePhases
<1>3. /\ b.progress = node.progress /\ b.previous = {p.body : p \in node.published}
      /\ Holds(medium, b) /\ buffered = {} /\ job.image = medium
      /\ job.publish => medium[Root] = {b}
  BY <1>2 DEF DataInv, JobSound
<1>4. /\ node'.up /\ node'.published = node.published /\ node'.media = node.media
      /\ ~node'.fresh /\ node'.live = node.live
      /\ node'.progress = node.progress /\ node'.kv = node.kv
      /\ node'.initial = node.initial /\ node'.schedules = node.schedules
      /\ node'.cursor = node.cursor
  BY <1>1, <1>2 DEF NodeFields
<1>5. files'.records = files.records \cup {Record} /\ files'.published = files.published
  BY <1>1 DEF Inv, RecordsHaveImages
<1>6. /\ Record.body = b /\ Record.image = medium /\ Record.next = node.cursor
      /\ Record.publication = "published" => job.publish
  BY <1>3 DEF Record
<1> HIDE DEF b
<1>7. /\ DOMAIN medium = {Root} \cup Arena
      /\ \A c \in Named : Sound(c) /\ Holds(medium, c) /\ c.log < node.cursor
  BY <1>2 DEF DataInv, MediumSound
<1>8. medium[Root] \cup b.previous \subseteq Named BY <1>3 DEF Named
<1>9. RecordSound(Record)
  <2> HIDE DEF Named
  <2> QED BY <1>2, <1>3, <1>6, <1>7, <1>8 DEF RecordSound
<1>10. FilesSound' BY <1>5, <1>9 DEF DataInv, FilesSound, RecordSound
<1>11. NodeSound' BY <1>2, <1>4, <1>5, NodeStays
<1>12. FreshMedium' BY <1>4 DEF FreshMedium
<1>13. Named' = Named BY <1>1, <1>4 DEF Named
<1>14. MediumSound'
  <2> HIDE DEF Named
  <2> QED BY <1>1, <1>3, <1>4, <1>7, <1>13 DEF MediumSound
<1>15. JobSound'
  <2>1. CASE job' = NoJob BY <2>1 DEF JobSound
  <2>2. CASE job.publish /\ job' = [job EXCEPT !.phase = "replace"] /\ node' = node
    <3>1. /\ job'.phase = "replace" /\ job'.publish = job.publish /\ job'.body = b
          /\ job'.image = job.image
      BY <1>2, <2>2 DEF JobFields, b
    <3>2. Record' = Record BY <2>2, <3>1 DEF Record, b
    <3> QED BY <1>1, <1>2, <1>3, <1>4, <1>5, <2>2, <3>1, <3>2 DEF JobSound
  <2> QED BY <1>1, <2>1, <2>2
<1> QED BY <1>10, <1>11, <1>12, <1>14, <1>15 DEF DataInv

LEMMA ReplaceKeepsData ==
    ASSUME DataInv, Inv, Replace
    PROVE  DataInv'
<1> DEFINE b == job.body
<1>1. /\ At("replace") /\ files' = [files EXCEPT !.published = {Record}] /\ job' = NoJob
      /\ node' = [node EXCEPT !.published = {Record}, !.epoch = @ + 1]
      /\ UNCHANGED <<medium, buffered>>
  BY DEF Replace
<1>2. /\ node.up /\ job.phase = "replace" /\ job # NoJob /\ ~node.fresh
      /\ DOMAIN node = NodeFields /\ Sound(b) /\ b.log < node.cursor
  BY <1>1, AtPhase DEF LatePhases
<1>3. Holds(medium, b) /\ buffered = {} /\ job.publish = TRUE /\ Record \in files.records
  BY <1>2 DEF DataInv, JobSound
<1>4. /\ node'.up /\ node'.published = {Record} /\ node'.media = node.media
      /\ ~node'.fresh /\ node'.live = node.live
      /\ node'.progress = node.progress /\ node'.kv = node.kv
      /\ node'.initial = node.initial /\ node'.schedules = node.schedules
      /\ node'.cursor = node.cursor
  BY <1>1, <1>2 DEF NodeFields
<1>5. files'.records = files.records /\ files'.published = {Record}
  BY <1>1 DEF Inv, RecordsHaveImages
<1>6. Record.body = b /\ Record.publication = "published" BY <1>3 DEF Record
<1> HIDE DEF b
<1>7. FilesSound' BY <1>3, <1>5, <1>6 DEF DataInv, FilesSound, RecordSound
<1>8. NodeSound' BY <1>2, <1>4, <1>5, NodeStays
<1>9. FreshMedium' BY <1>4 DEF FreshMedium
<1>10. JobSound' BY <1>1 DEF JobSound
<1>11. Named' \subseteq Named \cup {b} BY <1>1, <1>4, <1>6 DEF Named
<1>12. /\ DOMAIN medium = {Root} \cup Arena
       /\ \A c \in Named : Sound(c) /\ Holds(medium, c) /\ c.log < node.cursor
  BY <1>2 DEF DataInv, MediumSound
<1>13. MediumSound'
  <2> HIDE DEF Named
  <2> QED BY <1>1, <1>2, <1>3, <1>4, <1>11, <1>12 DEF MediumSound
<1> QED BY <1>7, <1>8, <1>9, <1>10, <1>13 DEF DataInv

LEMMA NextKeepsData ==
    ASSUME DataInv, Inv, [Next]_vars
    PROVE  DataInv'
<1>1. CASE Next
  <2>1. CASE \E media \in {{}} \cup {{m} : m \in files.records} : Boot(media)
    BY <2>1, BootKeepsData
  <2>2. CASE \E r \in Requests : Compute(r) \/ Release(r)
    BY <2>2, ComputeKeepsData, ReleaseKeepsData
  <2>3. CASE (\E publish \in BOOLEAN : Begin(publish)) \/ Interrupt \/ Fail
    BY <2>3, BeginKeepsData, InterruptKeepsData, FailKeepsData
  <2>4. CASE PublishStep
    BY <2>4, CopyKeepsData, WriteLogKeepsData, DrainKeepsData, WriteRootKeepsData,
       TakeImageKeepsData, WriteRecordKeepsData, ReplaceKeepsData DEF PublishStep
  <2>5. CASE \E m \in files.records, p \in files.published : Restore(m, p)
    BY <2>5, RestoreKeepsData
  <2>6. CASE \E p \in files.published : \E r \in DOMAIN p.body.progress : Recompute(p, r)
    BY <2>6, RecomputeKeepsData
  <2> QED BY <1>1, <2>1, <2>2, <2>3, <2>4, <2>5, <2>6 DEF Next
<1>2. CASE UNCHANGED vars
  <2>1. UNCHANGED <<node, medium, buffered, job, files>> BY <1>2 DEF vars
  <2>2. FilesSound' BY <2>1 DEF DataInv, FilesSound, RecordSound
  <2>3. NodeSound' BY <2>1 DEF DataInv, NodeSound
  <2>4. FreshMedium' BY <2>1 DEF DataInv, FreshMedium
  <2>5. Named' = Named BY <2>1 DEF Named
  <2>6. MediumSound' BY <2>1, <2>5 DEF DataInv, MediumSound
  <2>7. JobSound'
    <3>1. Record' = Record BY <2>1 DEF Record
    <3> QED BY <2>1, <2>5, <3>1 DEF DataInv, JobSound
  <2> QED BY <2>2, <2>3, <2>4, <2>6, <2>7 DEF DataInv
<1> QED BY <1>1, <1>2

(* At every step, however often the power was lost and steps have raised:  *)
(* the log and the KV of every epoch that a root, a record or an executor  *)
(* names are where they belong, and all later writes lie behind them.      *)
THEOREM EpochsAreKept == Spec => []DataInv
BY InitDataInv, NextKeepsData, EpochsInOrder, PTL DEF Spec

(* The KV of every token a request has processed is in the HBM, whatever   *)
(* the executor was restored from.                                         *)
THEOREM ContextSurvivesAlways == Spec => []ContextSurvives
BY DataInvSays, EpochsAreKept, PTL

(* What is published can be restored, from its own image and from that of  *)
(* every child the restore accepts.                                        *)
THEOREM PublishedIsRestorableAlways == Spec => []PublishedIsRestorable
BY DataInvSays, EpochsAreKept, PTL

(* No root is written before what it names.                                *)
THEOREM RootAfterDataAlways == Spec => []RootAfterData
BY DataInvSays, EpochsAreKept, PTL
=============================================================================
