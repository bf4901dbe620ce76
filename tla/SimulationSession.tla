------------------------- MODULE SimulationSession -------------------------
(***************************************************************************)
(* SimulationSession (hbfsim_client/simulation_session.py): a caller's     *)
(* dialogue with the HBFSim process over two pipes.  Every call writes one *)
(* command, waits for one line and checks it against what was asked before *)
(* it moves the sequence number or a frontier.  The process may be slow or *)
(* hang (no step of it has to happen), die at any time, refuse a batch, or *)
(* answer with a line that does not conserve or whose clock is wrong, and  *)
(* the wait itself may fail and leave the answer in the pipe for the next  *)
(* call.                                                                   *)
(*                                                                         *)
(* A call that raises leaves `session` as it was, except that a timeout, a *)
(* crash, a close and a failed start always end with _force_close.         *)
(***************************************************************************)
EXTENDS Naturals, Bags, SequencesExt

CONSTANTS
    RunWork,       \* contents of the batches given to run; digests and census stand
                   \* for contents
    CheckpointIds, WearIds,
    SubmitWork,    \* <<id, contents>> that callers of submit choose; run numbers its own
    HasHbf,        \* enable_hbf
    HasTimeout,    \* read_timeout_s is not None
    MaxCalls, MaxFaults, MaxTime   \* bounds: calls, faults, clock

ASSUME BoundsAssumption == {MaxCalls, MaxFaults, MaxTime} \subseteq Nat
ASSUME OptionsAssumption == HasHbf \in BOOLEAN /\ HasTimeout \in BOOLEAN
ASSUME SubmitAssumption == \A work \in SubmitWork : work[1] \in 0 .. MaxCalls

VARIABLES
    session,    \* the attributes of the SimulationSession object
    call,       \* the call in progress and how far it is
    requests,   \* lines on their way to the process
    answers,    \* lines on their way back
    engine,     \* the HBFSim process
    accepted,   \* ghost: commands whose receipt was returned to the caller
    calls, faults

vars == <<session, call, requests, answers, engine, accepted, calls, faults>>
counters == <<calls, faults>>

Idle == [kind |-> "none", id |-> 0, body |-> "none", numbered |-> FALSE, phase |-> "idle"]
Times == 0 .. MaxTime
Larger(x, y) == IF x > y THEN x ELSE y

Bodies == RunWork \cup {work[2] : work \in SubmitWork}
Work == [id : 0 .. MaxCalls, body : Bodies] \cup [id : CheckpointIds, body : {"none"}]
WorkOf(command) == [id |-> command.id, body |-> command.body]

Init ==
    /\ session = [closed |-> FALSE, sequence |-> 0, checkpoints |-> 0, last |-> 0,
                  issued |-> 0, nextRun |-> 0, ids |-> {}, wearIds |-> {},
                  census |-> EmptyBag, stopped |-> FALSE]
    /\ call = [Idle EXCEPT !.kind = "start", !.phase = "reading"]
    /\ requests = <<call>>
    /\ answers = <<>>
    /\ engine = [state |-> "running", code |-> 0, last |-> 0, issued |-> 0,
                 batch |-> <<>>, checkpoint |-> <<>>]
    /\ accepted = [batch |-> <<>>, checkpoint |-> <<>>]
    /\ calls = 0 /\ faults = 0

----------------------------------------------------------------------------
(* The HBFSim process.                                                     *)
Running == engine.state = "running"
Dead == engine.state = "dead"

(* The accounts a line carries, whose entries have to add up.              *)
Accounts(kind) ==
    CASE kind = "batch" -> {"latency", "completions", "traffic", "device"}
      [] kind = "invalidate" -> {"pages", "device"}
      [] kind \in {"checkpoint", "snapshot", "crash"} -> {"device", "quiescence"}
      [] kind = "close" -> {"latency", "device", "quiescence"}
      [] kind = "start" -> {"identity"}

Answer(command, result) ==
    [kind |-> command.kind, id |-> command.id, body |-> command.body, result |-> result,
     number |-> 0, other |-> 0, census |-> EmptyBag, origin |-> engine.last,
     first |-> engine.last, blocking |-> engine.last, finish |-> engine.issued,
     accounts |-> Accounts(command.kind)]

CensusOf(log) == FoldLeft(LAMBDA census, work : census (+) SetToBag({work.body}), EmptyBag, log)

Reply(answer, state) ==
    /\ requests # <<>> /\ Running
    /\ requests' = Tail(requests)
    /\ answers' = Append(answers, answer)
    /\ engine' = state
    /\ UNCHANGED <<session, call, accepted, counters>>

(* blocking is the completion of the batch's frontier, finish that of all  *)
(* its transactions.                                                       *)
ExecuteBatch ==
    \E blocking, finish \in Times :
        /\ requests # <<>> /\ Head(requests).kind = "batch"
        /\ blocking = engine.last + 1 /\ finish \in {blocking, blocking + 1}
        /\ Reply([Answer(Head(requests), "pass") EXCEPT
                     !.number = Len(engine.batch), !.blocking = blocking, !.finish = finish],
                 [engine EXCEPT !.batch = Append(@, WorkOf(Head(requests))),
                     !.last = blocking, !.issued = Larger(@, finish)])

Reject ==
    /\ requests # <<>> /\ Head(requests).kind \in {"batch", "invalidate"}
    /\ Reply(Answer(Head(requests), "error"), engine)

(* Invalidation and checkpoint begin when everything issued has completed. *)
ExecuteInvalidation ==
    \E finish \in Times :
        /\ requests # <<>> /\ Head(requests).kind = "invalidate"
        /\ finish = engine.issued + 1
        /\ Reply([Answer(Head(requests), "pass") EXCEPT
                     !.origin = engine.issued, !.finish = finish],
                 [engine EXCEPT !.last = finish, !.issued = finish])

ExecuteCheckpoint ==
    \E finish \in Times :
        /\ requests # <<>> /\ Head(requests).kind = "checkpoint"
        /\ engine.issued <= finish /\ finish <= engine.issued + 1
        /\ Reply([Answer(Head(requests), "pass") EXCEPT
                     !.number = Len(engine.checkpoint),
                     !.origin = engine.issued, !.finish = finish],
                 [engine EXCEPT !.checkpoint = Append(@, WorkOf(Head(requests))),
                     !.last = finish, !.issued = finish])

Observe ==
    /\ requests # <<>> /\ Head(requests).kind \in {"start", "snapshot"}
    /\ Reply(Answer(Head(requests), "pass"), engine)

(* QUIT drains and CRASH does not; both report the totals and end, well or *)
(* not.                                                                    *)
Stop ==
  \E code \in {0, 1} :
    /\ requests # <<>> /\ Head(requests).kind \in {"close", "crash"}
    /\ Reply([Answer(Head(requests), "pass") EXCEPT
                 !.number = Len(engine.batch), !.other = Len(engine.checkpoint),
                 !.census = CensusOf(engine.batch)],
             [engine EXCEPT !.state = "dead", !.code = code])

EngineStep ==
    \/ ExecuteBatch \/ Reject \/ ExecuteInvalidation \/ ExecuteCheckpoint
    \/ Observe \/ Stop

(* End of input: the process ends by itself once it has nothing to do.     *)
EndOfInput ==
    /\ session.closed /\ Running /\ requests = <<>>
    /\ engine' = [engine EXCEPT !.state = "dead"]
    /\ UNCHANGED <<session, call, requests, answers, accepted, counters>>

Fault ==
    /\ faults < MaxFaults /\ ~session.closed
    /\ faults' = faults + 1
    /\ UNCHANGED calls

Die ==
    /\ Fault /\ ~Dead
    /\ engine' = [engine EXCEPT !.state = "dead", !.code = 1]
    /\ requests' = <<>>
    /\ UNCHANGED <<session, call, answers, accepted>>

(* A line with an account that does not add up, or whose clock is not the  *)
(* one of the process.  A line that is not JSON is refused like the first. *)
Corrupt ==
    /\ Fault /\ answers # <<>>
    /\ Last(answers).accounts = Accounts(Last(answers).kind)
    /\ \/ \E account \in Last(answers).accounts :
            answers' = [answers EXCEPT ![Len(answers)].accounts = @ \ {account}]
       \/ \E field \in {"origin", "blocking", "finish"}, time \in {0, MaxTime} :
            answers' = [answers EXCEPT ![Len(answers)][field] = time]
    /\ UNCHANGED <<session, call, requests, engine, accepted>>

----------------------------------------------------------------------------
(* Calls.  A call on a closed session, or for a tier or an id that is not  *)
(* allowed, raises and is no step; so is a write to a process that has     *)
(* died, unless the call ends the session.                                 *)
Ending(s) == [s EXCEPT !.closed = TRUE]

Send(kind, id, body, numbered) ==
    /\ call = Idle /\ ~session.closed /\ ~Dead
    /\ call' = [kind |-> kind, id |-> id, body |-> body, numbered |-> numbered, phase |-> "reading"]
    /\ requests' = Append(requests, call')
    /\ UNCHANGED <<session, answers, engine, accepted, faults>>

Counted == calls < MaxCalls /\ calls' = calls + 1

Submit(id, body) == Counted /\ Send("batch", id, body, FALSE)
Run(body) == Counted /\ Send("batch", session.nextRun, body, TRUE)
InvalidateHbfPages == Counted /\ HasHbf /\ Send("invalidate", 0, "none", FALSE)
Checkpoint(id) ==
    Counted /\ HasHbf /\ id \notin session.ids /\ Send("checkpoint", id, "none", FALSE)
HbfWearSnapshot(id) ==
    Counted /\ HasHbf /\ id \notin session.wearIds /\ Send("snapshot", id, "none", FALSE)

CrashOrClose(kind) == UNCHANGED calls /\ Send(kind, 0, "none", FALSE)

ForceClose ==
    /\ session' = Ending(session)
    /\ call' = [call EXCEPT !.phase = "ending"]

(* crash, or close, on a process that is already dead; __exit__ after an   *)
(* exception and the finalizer in any state.                               *)
Abandon ==
    /\ call = Idle /\ ~session.closed
    /\ ForceClose
    /\ UNCHANGED <<requests, answers, engine, accepted, counters>>

----------------------------------------------------------------------------
(* What a call accepts as its receipt.                                     *)
Answers(a, kind) == a.kind = kind /\ a.result = "pass" /\ a.id = call.id

(* The latency of every target and operation, and its sum over the         *)
(* completions of the single transactions.                                 *)
LatencyConserves(a) == "latency" \in a.accounts
CompletionsConserve(a) == "completions" \in a.accounts

(* The pages, bursts and requests each engine saw against those asked for. *)
TrafficConserves(a) == "traffic" \in a.accounts

DeviceConserves(a) == "device" \in a.accounts

(* The pending state agrees with the flag that sums it up; after a         *)
(* checkpoint and a close nothing is pending.                              *)
PendingHolds(a) == "quiescence" \in a.accounts

ReadyAccepts(a) == Answers(a, "start") /\ "identity" \in a.accounts

(* Mutant: the digests of the batch are not compared. *)
SameNumber(a) == a.number = session.sequence

SameWork(a) == a.body = call.body /\ a.number = session.sequence

ClockHolds(a) ==
    /\ a.origin = session.last
    /\ a.origin <= a.first /\ a.first <= a.blocking /\ a.blocking <= a.finish

SubmitAccepts(a) ==
    /\ Answers(a, "batch") /\ SameWork(a)
    /\ LatencyConserves(a) /\ DeviceConserves(a) /\ TrafficConserves(a)
    /\ ClockHolds(a)
    /\ CompletionsConserve(a)

(* Mutant: the arrival of an invalidation is not compared. *)
InvalidationUntimed(a) == Answers(a, "invalidate") /\ a.origin <= a.finish

InvalidationAccepts(a) ==
    /\ Answers(a, "invalidate") /\ "pages" \in a.accounts
    /\ session.issued <= a.origin /\ a.origin <= a.finish
    /\ DeviceConserves(a)

CheckpointAccepts(a) ==
    /\ Answers(a, "checkpoint") /\ a.number = session.checkpoints
    /\ a.origin = session.issued /\ a.origin <= a.finish
    /\ DeviceConserves(a) /\ PendingHolds(a)

SnapshotAccepts(a) ==
    /\ Answers(a, "snapshot") /\ a.blocking = session.last
    /\ DeviceConserves(a) /\ PendingHolds(a)

(* Mutant: the totals of the process are not compared. *)
TotalsUnchecked(a) == a.blocking = session.last

TotalsHold(a) ==
    a.number = session.sequence /\ a.other = session.checkpoints /\ a.blocking = session.last

CrashAccepts(a) ==
    Answers(a, "crash") /\ TotalsHold(a) /\ DeviceConserves(a) /\ PendingHolds(a)

CloseAccepts(a) ==
    /\ Answers(a, "close") /\ TotalsHold(a)
    /\ LatencyConserves(a) /\ a.census = session.census
    /\ DeviceConserves(a) /\ PendingHolds(a)
    /\ a.finish = session.issued /\ a.blocking <= a.finish

----------------------------------------------------------------------------
(* _read_response.                                                         *)
Reading == call.phase = "reading"

Raise ==
    IF call.kind \in {"start", "crash", "close"}
    THEN ForceClose
    ELSE UNCHANGED session /\ call' = Idle

Return(s) == session' = s /\ call' = Idle

(* The line a call waits for is the next one, whatever it answers.         *)
Take ==
    /\ Reading /\ answers # <<>>
    /\ answers' = Tail(answers)
    /\ UNCHANGED <<requests, engine, counters>>

Accepts(a) ==
    \/ call.kind = "start" /\ ReadyAccepts(a)
    \/ call.kind = "batch" /\ SubmitAccepts(a)
    \/ call.kind = "invalidate" /\ InvalidationAccepts(a)
    \/ call.kind = "checkpoint" /\ CheckpointAccepts(a)
    \/ call.kind = "snapshot" /\ SnapshotAccepts(a)
    \/ call.kind = "crash" /\ CrashAccepts(a)
    \/ call.kind = "close" /\ CloseAccepts(a)

Received(kind) == Take /\ call.kind = kind /\ Accepts(Head(answers))

BatchReceived ==
    /\ Received("batch")
    /\ Return([session EXCEPT
           !.last = Head(answers).blocking, !.issued = Larger(@, Head(answers).finish),
           !.sequence = @ + 1, !.census = @ (+) SetToBag({call.body}),
           !.nextRun = IF call.numbered THEN @ + 1 ELSE @])
    /\ accepted' = [accepted EXCEPT !.batch = Append(@, WorkOf(call))]

InvalidationReceived ==
    /\ Received("invalidate")
    /\ Return([session EXCEPT !.last = Head(answers).finish, !.issued = Head(answers).finish])
    /\ UNCHANGED accepted

CheckpointReceived ==
    /\ Received("checkpoint")
    /\ Return([session EXCEPT !.last = Head(answers).finish, !.issued = Head(answers).finish,
                              !.ids = @ \cup {call.id}, !.checkpoints = @ + 1])
    /\ accepted' = [accepted EXCEPT !.checkpoint = Append(@, WorkOf(call))]

SnapshotReceived ==
    /\ Received("snapshot")
    /\ Return([session EXCEPT !.wearIds = @ \cup {call.id}])
    /\ UNCHANGED accepted

ReadyReceived == Received("start") /\ Return(session) /\ UNCHANGED accepted

CrashReceived ==
    /\ Received("crash")
    /\ call' = [call EXCEPT !.phase = "waiting"]
    /\ UNCHANGED <<session, accepted>>

StopReceived ==
    /\ Received("close")
    /\ session' = [Ending(session) EXCEPT !.stopped = TRUE]
    /\ call' = [call EXCEPT !.phase = "ending"]
    /\ UNCHANGED accepted

Refused == Take /\ ~Accepts(Head(answers)) /\ Raise /\ UNCHANGED accepted

ReadAnswer ==
    \/ BatchReceived \/ InvalidationReceived \/ CheckpointReceived \/ SnapshotReceived
    \/ ReadyReceived \/ CrashReceived \/ StopReceived \/ Refused

ReadEnd ==
    /\ Reading /\ answers = <<>> /\ Dead
    /\ Raise
    /\ UNCHANGED <<requests, answers, engine, accepted, counters>>

(* Mutant: the wait for a line has no deadline. *)
NoDeadline ==
    /\ Reading /\ ~HasTimeout /\ answers = <<>> /\ ~Dead
    /\ ForceClose
    /\ UNCHANGED <<requests, answers, engine, accepted, counters>>

(* _wait_for_output: the deadline passes, or select fails.                 *)
TimeOut ==
    /\ Reading /\ HasTimeout /\ answers = <<>> /\ ~Dead
    /\ ForceClose
    /\ UNCHANGED <<requests, answers, engine, accepted, counters>>

WaitFails ==
    /\ Reading /\ HasTimeout /\ Fault
    /\ Raise
    /\ UNCHANGED <<requests, answers, engine, accepted>>

(* crash waits for the process, for a while, and for its exit code.        *)
CrashWaits ==
    /\ call.phase = "waiting"
    /\ session' = [Ending(session) EXCEPT !.stopped = Dead /\ engine.code = 0]
    /\ call' = [call EXCEPT !.phase = "ending"]
    /\ UNCHANGED <<requests, answers, engine, accepted, counters>>

(* _force_close: end of input, then terminate, then kill.                  *)
Escalate ==
    /\ call.phase \in {"ending", "terminating"} /\ ~Dead
    /\ call' = [call EXCEPT !.phase =
                    IF call.phase = "ending" THEN "terminating" ELSE "killed"]
    /\ engine' = [engine EXCEPT !.state =
                    IF call.phase = "ending" THEN @ ELSE "dead"]
    /\ UNCHANGED <<session, requests, answers, accepted, counters>>

(* Mutant: the process is not waited for after it was told to terminate. *)
ReapTerminated ==
    /\ call.phase \in {"ending", "terminating", "killed"} /\ (Dead \/ call.phase = "terminating")
    /\ call' = Idle
    /\ requests' = <<>> /\ answers' = <<>>
    /\ UNCHANGED <<session, engine, accepted, counters>>

Reap ==
    /\ call.phase \in {"ending", "terminating", "killed"} /\ Dead
    /\ call' = Idle
    /\ requests' = <<>> /\ answers' = <<>>
    /\ UNCHANGED <<session, engine, accepted, counters>>

CallStep == ReadAnswer \/ ReadEnd \/ TimeOut \/ CrashWaits \/ Escalate \/ Reap

Caller ==
    \/ \E work \in SubmitWork : Submit(work[1], work[2])
    \/ \E body \in RunWork : Run(body)
    \/ InvalidateHbfPages
    \/ \E id \in CheckpointIds : Checkpoint(id)
    \/ \E id \in WearIds : HbfWearSnapshot(id)
    \/ \E kind \in {"crash", "close"} : CrashOrClose(kind)
    \/ Abandon

Closed == session.closed /\ call = Idle /\ UNCHANGED vars

Next ==
    \/ Caller \/ CallStep \/ WaitFails
    \/ EngineStep \/ EndOfInput \/ Die \/ Corrupt
    \/ Closed

Spec == Init /\ [][Next]_vars

(* The caller's thread goes on and its clock passes any deadline; nothing  *)
(* is assumed of the process.                                              *)
FairSpec == Spec /\ WF_vars(CallStep)

----------------------------------------------------------------------------
(* Whatever is late, lost, repeated or refused, the caller is told of      *)
(* batches and of checkpoints in the order the simulator executed them,    *)
(* each with the contents it was executed with: a late answer is never     *)
(* taken for the answer to another call.                                   *)
Log == INSTANCE SessionLog WITH
           executed <- [batch |-> engine.batch, checkpoint |-> engine.checkpoint],
           closed <- session.closed
ImplementsLog == Log!Spec

(* A run is only reported as complete (stop or crash receipt) if every     *)
(* batch and every checkpoint that was executed is in the report.          *)
StopIsComplete ==
    session.stopped =>
        accepted.batch = engine.batch /\ accepted.checkpoint = engine.checkpoint

(* The clock of the caller never goes back and the blocking frontier never *)
(* passes the completion of what was issued, even if the process reports   *)
(* times that are wrong.                                                   *)
FrontiersAdvance ==
    [][/\ session.last <= session'.last /\ session.issued <= session'.issued
       /\ session'.last <= session'.issued]_vars

(* With a read timeout no call waits for ever, whatever the process does.  *)
EveryCallReturns == call # Idle ~> call = Idle

(* No process is left behind by a session that was closed, by a timeout, a *)
(* crash or a failed start.                                                *)
NoProcessLeft == session.closed /\ call = Idle => Dead
=============================================================================
