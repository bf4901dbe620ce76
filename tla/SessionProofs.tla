--------------------------- MODULE SessionProofs ---------------------------
(***************************************************************************)
(* Proofs about a session with the simulator, for every number of calls,   *)
(* faults and ticks and any contents: it implements the log, a stop is     *)
(* complete, its frontiers advance and it leaves no process behind.        *)
(***************************************************************************)
EXTENDS SimulationSession, SequenceTheorems, TLAPS

CommandKinds == {"start", "batch", "invalidate", "checkpoint", "snapshot", "crash", "close"}
Phases == {"idle", "reading", "waiting", "ending", "terminating", "killed"}
AccountNames == {"latency", "completions", "traffic", "device", "pages", "quiescence", "identity"}

Ids == Nat \cup CheckpointIds \cup WearIds
Commands ==
    [kind : CommandKinds \cup {"none"}, id : Ids, body : Bodies \cup {"none"},
     numbered : BOOLEAN, phase : Phases]
Censuses == {EmptyBag} \cup {CensusOf(log) : log \in Seq(Work)}
Lines ==
    [kind : CommandKinds, id : Ids, body : Bodies \cup {"none"}, result : {"pass", "error"},
     number : Nat, other : Nat, census : Censuses,
     origin : Nat, first : Nat, blocking : Nat, finish : Nat, accounts : SUBSET AccountNames]

Engines ==
    [state : {"running", "dead"}, code : {0, 1}, last : Nat, issued : Nat,
     batch : Seq(Work), checkpoint : Seq(Work)]

(* A command that is written to the log is one of those the log knows.     *)
Loggable(command) ==
    /\ command.kind = "batch" => command.id \in 0 .. MaxCalls /\ command.body \in Bodies
    /\ command.kind = "checkpoint" => command.id \in CheckpointIds /\ command.body = "none"

SessionFields ==
    {"closed", "sequence", "checkpoints", "last", "issued", "nextRun", "ids", "wearIds",
     "census", "stopped"}

(* Every variable has its type. *)
TypeOK ==
    /\ DOMAIN session = SessionFields
    /\ session.closed \in BOOLEAN /\ session.stopped \in BOOLEAN
    /\ session.sequence \in Nat /\ session.checkpoints \in Nat
    /\ session.last \in Nat /\ session.issued \in Nat /\ session.nextRun \in Nat
    /\ call \in Commands /\ Loggable(call)
    /\ requests \in Seq(Commands)
    /\ answers \in Seq(Lines)
    /\ engine \in Engines
    /\ accepted \in [batch : Seq(Work), checkpoint : Seq(Work)]
    /\ calls \in Nat

(* What waits to be executed can be logged. *)
RequestsLoggable ==
    \A i \in 1 .. Len(requests) : requests[i].kind \in CommandKinds /\ Loggable(requests[i])

(* A call that reads has not closed the session, and a closed session has  *)
(* seen the end of the process or is bringing it about.                    *)
EndsOnce ==
    /\ call.phase \in {"reading", "waiting"} => ~session.closed
    /\ session.closed => Dead \/ call.phase \in {"ending", "terminating"}

(* A line says what was executed: which entry of the log it is, and how    *)
(* long the log was at the end.                                            *)
Truthful(a, state) ==
    a.result = "pass" =>
        /\ a.kind = "batch" =>
              /\ a.number < Len(state.batch)
              /\ state.batch[a.number + 1] = [id |-> a.id, body |-> a.body]
        /\ a.kind = "checkpoint" =>
              /\ a.number < Len(state.checkpoint)
              /\ state.checkpoint[a.number + 1] = [id |-> a.id, body |-> "none"]
        /\ a.kind \in {"crash", "close"} =>
              /\ state.state = "dead"
              /\ a.number = Len(state.batch) /\ a.other = Len(state.checkpoint)

AnswersTruthful == \A i \in 1 .. Len(answers) : Truthful(answers[i], engine)

(* What was accepted is the beginning of what was executed.                *)
Begins(part, whole) ==
    Len(part) <= Len(whole) /\ \A i \in 1 .. Len(part) : part[i] = whole[i]

(* The counts of the session are those of the receipts it handed out.      *)
AcceptedBegins ==
    /\ Begins(accepted.batch, engine.batch) /\ Len(accepted.batch) = session.sequence
    /\ Begins(accepted.checkpoint, engine.checkpoint)
    /\ Len(accepted.checkpoint) = session.checkpoints

(* Once the process has reported its totals it writes no more to the log.  *)
Complete ==
    /\ Dead
    /\ session.sequence = Len(engine.batch) /\ session.checkpoints = Len(engine.checkpoint)

StopsComplete ==
    /\ call.phase = "waiting" => Complete
    /\ session.stopped => session.closed /\ Complete

(* run has numbered no more batches than there were calls.                 *)
Numbered ==
    /\ session.nextRun <= calls /\ calls <= MaxCalls
    /\ call.numbered /\ call.phase = "reading" => session.nextRun < calls

FrontierIssued == session.last <= session.issued

(* The inductive invariant.  What the properties say is about the counts   *)
(* of the session and the log of the process; a step from one to the other *)
(* goes through the lines in the pipe, so the invariant speaks of these.   *)
Inv ==
    /\ TypeOK /\ RequestsLoggable /\ EndsOnce /\ AnswersTruthful
    /\ AcceptedBegins /\ StopsComplete /\ Numbered /\ FrontierIssued

USE OptionsAssumption, SubmitAssumption

----------------------------------------------------------------------------
(* The bounds on calls and times are numbers.                              *)
LEMMA BoundsAreNaturals == MaxCalls \in Nat /\ MaxTime \in Nat
BY BoundsAssumption

(* The session as started meets the invariant.                             *)
LEMMA InitInv == Init => Inv
<1> SUFFICES ASSUME Init PROVE Inv OBVIOUS
<1>1. call = [kind |-> "start", id |-> 0, body |-> "none", numbered |-> FALSE, phase |-> "reading"]
  BY DEF Init, Idle
<1>2. TypeOK
  <2>1. call \in Commands /\ Loggable(call)
    BY <1>1 DEF Commands, CommandKinds, Phases, Ids, Loggable
  <2>2. requests \in Seq(Commands) BY <2>1 DEF Init
  <2>3. answers \in Seq(Lines) BY DEF Init
  <2>4. engine \in Engines BY DEF Init, Engines
  <2>5. accepted \in [batch : Seq(Work), checkpoint : Seq(Work)] BY DEF Init
  <2> QED BY <2>1, <2>2, <2>3, <2>4, <2>5 DEF Init, TypeOK, SessionFields
<1>3. RequestsLoggable
  <2>1. Len(requests) = 1 /\ requests[1] = call BY DEF Init
  <2>2. call.kind \in CommandKinds /\ Loggable(call) BY <1>1 DEF CommandKinds, Loggable
  <2> QED BY <2>1, <2>2 DEF RequestsLoggable
<1>4. EndsOnce /\ StopsComplete /\ FrontierIssued
  BY <1>1 DEF Init, EndsOnce, StopsComplete, FrontierIssued
<1>5. Numbered
  <2>1. ~call.numbered BY <1>1
  <2>2. session.nextRun = 0 /\ calls = 0 BY DEF Init
  <2> QED BY <2>1, <2>2, BoundsAreNaturals DEF Numbered
<1>6. AnswersTruthful
  <2>1. answers = <<>> BY DEF Init
  <2> QED BY <2>1 DEF AnswersTruthful
<1>7. AcceptedBegins
  <2>1. /\ accepted.batch = <<>> /\ accepted.checkpoint = <<>>
        /\ engine.batch = <<>> /\ engine.checkpoint = <<>>
        /\ session.sequence = 0 /\ session.checkpoints = 0
    BY DEF Init
  <2>2. Begins(<<>>, <<>>) BY DEF Begins
  <2> QED BY <2>1, <2>2 DEF AcceptedBegins
<1> QED BY <1>2, <1>3, <1>4, <1>5, <1>6, <1>7 DEF Inv

(* To be a beginning of is transitive.                                     *)
LEMMA BeginsTransitive ==
    ASSUME NEW part \in Seq(Work), NEW whole \in Seq(Work), NEW longer \in Seq(Work),
           Begins(part, whole), Begins(whole, longer)
    PROVE  Begins(part, longer)
<1>1. Len(part) \in Nat /\ Len(whole) \in Nat /\ Len(longer) \in Nat
  OBVIOUS
<1>2. Len(part) <= Len(whole) /\ Len(whole) <= Len(longer)
  BY DEF Begins
<1>3. ASSUME NEW i \in 1 .. Len(part) PROVE part[i] = longer[i]
  <2>1. i \in 1 .. Len(whole) BY <1>1, <1>2
  <2> QED BY <2>1 DEF Begins
<1> QED BY <1>1, <1>2, <1>3 DEF Begins

(* What a line says of the log stays true while the log grows and the      *)
(* process does not come back.                                             *)
LEMMA LaterTruthful ==
    ASSUME NEW a \in Lines, NEW before \in Engines, NEW after \in Engines,
           Truthful(a, before), before.state = "running",
           Begins(before.batch, after.batch), Begins(before.checkpoint, after.checkpoint)
    PROVE  Truthful(a, after)
<1>1. a.number \in Nat /\ before.batch \in Seq(Work) /\ before.checkpoint \in Seq(Work)
      /\ after.batch \in Seq(Work) /\ after.checkpoint \in Seq(Work)
  BY DEF Lines, Engines
<1>2. CASE a.result # "pass" BY <1>2 DEF Truthful
<1>3. CASE a.result = "pass" /\ a.kind = "batch"
  <2>1. a.number < Len(before.batch) /\ before.batch[a.number + 1] = [id |-> a.id, body |-> a.body]
    BY <1>3 DEF Truthful
  <2>2. a.number + 1 \in 1 .. Len(before.batch) /\ a.number < Len(after.batch)
    BY <1>1, <2>1 DEF Begins
  <2> QED BY <1>3, <2>1, <2>2 DEF Truthful, Begins
<1>4. CASE a.result = "pass" /\ a.kind = "checkpoint"
  <2>1. a.number < Len(before.checkpoint)
        /\ before.checkpoint[a.number + 1] = [id |-> a.id, body |-> "none"]
    BY <1>4 DEF Truthful
  <2>2. a.number + 1 \in 1 .. Len(before.checkpoint) /\ a.number < Len(after.checkpoint)
    BY <1>1, <2>1 DEF Begins
  <2> QED BY <1>4, <2>1, <2>2 DEF Truthful, Begins
<1>5. CASE a.result = "pass" /\ a.kind \notin {"batch", "checkpoint"}
  BY <1>5 DEF Truthful
<1> QED BY <1>2, <1>3, <1>4, <1>5

(* The process answers a command and writes at most one entry to its log.  *)
LEMMA ReplyKeepsInv ==
    ASSUME Inv, NEW line \in Lines, NEW state \in Engines,
           Reply(line, state), Truthful(line, state),
           Begins(engine.batch, state.batch), Begins(engine.checkpoint, state.checkpoint)
    PROVE  Inv'
<1>1. /\ requests # <<>> /\ requests' = Tail(requests)
      /\ answers' = Append(answers, line)
      /\ engine' = state /\ engine.state = "running"
      /\ UNCHANGED <<session, call, accepted, calls>>
  BY DEF Reply, Running, counters
<1>2. /\ requests \in Seq(Commands) /\ answers \in Seq(Lines) /\ engine \in Engines
      /\ accepted \in [batch : Seq(Work), checkpoint : Seq(Work)]
  BY DEF Inv, TypeOK
<1>3. /\ requests' \in Seq(Commands) /\ Len(requests') = Len(requests) - 1
      /\ \A i \in 1 .. Len(requests') : requests'[i] = requests[i + 1]
  BY <1>1, <1>2, HeadTailProperties
<1>4. /\ answers' \in Seq(Lines) /\ Len(answers') = Len(answers) + 1
      /\ answers'[Len(answers')] = line
      /\ \A i \in 1 .. Len(answers) : answers'[i] = answers[i] /\ answers[i] \in Lines
  BY <1>1, <1>2, AppendProperties
<1>5. TypeOK'
  BY <1>1, <1>3, <1>4 DEF Inv, TypeOK, Loggable
<1>6. RequestsLoggable'
  <2>1. \A i \in 1 .. Len(requests') : i + 1 \in 1 .. Len(requests)
    BY <1>2, <1>3
  <2> QED BY <1>3, <2>1 DEF Inv, RequestsLoggable, Loggable
<1>7. EndsOnce'
  BY <1>1 DEF Inv, EndsOnce, Dead
<1>8. AnswersTruthful'
  <2> SUFFICES ASSUME NEW i \in 1 .. Len(answers') PROVE Truthful(answers'[i], state)
    BY <1>1 DEF AnswersTruthful
  <2>1. CASE i = Len(answers')
    BY <1>4, <2>1
  <2>2. CASE i \in 1 .. Len(answers)
    <3>1. answers'[i] = answers[i] /\ answers[i] \in Lines /\ Truthful(answers[i], engine)
      BY <1>4, <2>2 DEF Inv, AnswersTruthful
    <3> QED BY <1>1, <1>2, <3>1, LaterTruthful
  <2> QED BY <1>2, <1>4, <2>1, <2>2
<1>9. AcceptedBegins'
  <2>1. \A part, whole, longer \in Seq(Work) :
            Begins(part, whole) /\ Begins(whole, longer) => Begins(part, longer)
    BY BeginsTransitive
  <2>2. /\ engine.batch \in Seq(Work) /\ engine.checkpoint \in Seq(Work)
        /\ state.batch \in Seq(Work) /\ state.checkpoint \in Seq(Work)
        /\ accepted.batch \in Seq(Work) /\ accepted.checkpoint \in Seq(Work)
    BY <1>2 DEF Engines
  <2> QED BY <1>1, <2>1, <2>2 DEF Inv, AcceptedBegins
<1>10. StopsComplete'
  BY <1>1 DEF Inv, StopsComplete, Complete, Dead
<1>11. Numbered' /\ FrontierIssued'
  BY <1>1 DEF Inv, Numbered, FrontierIssued
<1> QED BY <1>5, <1>6, <1>7, <1>8, <1>9, <1>10, <1>11 DEF Inv

(* What the engine takes from its pipe is a command.                       *)
LEMMA CommandTaken ==
    ASSUME Inv, requests # <<>>
    PROVE  /\ Head(requests) \in Commands /\ Head(requests).kind \in CommandKinds
           /\ Loggable(Head(requests))
<1>1. requests \in Seq(Commands) BY DEF Inv, TypeOK
<1>2. Head(requests) = requests[1] /\ 1 \in 1 .. Len(requests)
  BY <1>1, HeadTailProperties, EmptySeq
<1> QED BY <1>1, <1>2 DEF Inv, RequestsLoggable

(* An answer is a line with what it answers.                               *)
LEMMA AnswerIsLine ==
    ASSUME Inv, NEW command \in Commands, command.kind \in CommandKinds,
           NEW result \in {"pass", "error"}
    PROVE  /\ Answer(command, result) \in Lines
           /\ Answer(command, result).kind = command.kind
           /\ Answer(command, result).id = command.id
           /\ Answer(command, result).body = command.body
           /\ Answer(command, result).result = result
<1>1. Accounts(command.kind) \in SUBSET AccountNames
  BY DEF Accounts, AccountNames, CommandKinds
<1>2. EmptyBag \in Censuses BY DEF Censuses
<1>3. engine.last \in Nat /\ engine.issued \in Nat BY DEF Inv, TypeOK, Engines
<1> QED BY <1>1, <1>2, <1>3 DEF Answer, Lines, Commands

(* An entry at the end of a log: what was there stays where it was.        *)
LEMMA AppendBegins ==
    ASSUME NEW log \in Seq(Work), NEW work \in Work
    PROVE  /\ Append(log, work) \in Seq(Work) /\ Len(Append(log, work)) = Len(log) + 1
           /\ Append(log, work)[Len(log) + 1] = work
           /\ Begins(log, Append(log, work)) /\ Begins(log, log)
<1>1. /\ Append(log, work) \in Seq(Work) /\ Len(Append(log, work)) = Len(log) + 1
      /\ \A i \in 1 .. Len(log) : Append(log, work)[i] = log[i]
      /\ Append(log, work)[Len(log) + 1] = work
  BY AppendProperties
<1> QED BY <1>1 DEF Begins

LEMMA ExecuteBatchKeepsInv == Inv /\ ExecuteBatch => Inv'
<1> SUFFICES ASSUME Inv, NEW blocking \in Times, NEW finish \in Times,
                    requests # <<>>, Head(requests).kind = "batch",
                    Reply([Answer(Head(requests), "pass") EXCEPT
                              !.number = Len(engine.batch), !.blocking = blocking,
                              !.finish = finish],
                          [engine EXCEPT !.batch = Append(@, WorkOf(Head(requests))),
                              !.last = blocking, !.issued = Larger(@, finish)])
             PROVE Inv'
  BY DEF ExecuteBatch
<1> DEFINE command == Head(requests)
           answer == Answer(command, "pass")
           line == [answer EXCEPT !.number = Len(engine.batch), !.blocking = blocking,
                                  !.finish = finish]
           state == [engine EXCEPT !.batch = Append(@, WorkOf(command)),
                                   !.last = blocking, !.issued = Larger(@, finish)]
<1>1. command \in Commands /\ Loggable(command) /\ command.kind = "batch"
  BY CommandTaken
<1>2. answer \in Lines /\ answer.kind = "batch" /\ answer.id = command.id
      /\ answer.body = command.body /\ answer.result = "pass"
  BY <1>1, AnswerIsLine DEF CommandKinds
<1>3. WorkOf(command) \in Work
  BY <1>1 DEF Loggable, WorkOf, Work
<1>4. engine \in Engines /\ blocking \in Nat /\ finish \in Nat
  BY BoundsAreNaturals DEF Inv, TypeOK, Times
<1> HIDE DEF command, answer
<1>5. engine.batch \in Seq(Work) /\ engine.checkpoint \in Seq(Work) /\ engine.issued \in Nat
  BY <1>4 DEF Engines
<1>6. Larger(engine.issued, finish) \in Nat
  BY <1>4, <1>5 DEF Larger
<1>7. Append(engine.batch, WorkOf(command)) \in Seq(Work)
  BY <1>3, <1>5, AppendBegins
<1>8. line \in Lines
  <2>1. \A number \in Nat : [answer EXCEPT !.number = number, !.blocking = blocking,
                                           !.finish = finish] \in Lines
    BY <1>2, <1>4, <1>5 DEF Lines
  <2> QED BY <1>5, <2>1, LenProperties
<1>9. state \in Engines /\ state.batch = Append(engine.batch, WorkOf(command))
      /\ state.checkpoint = engine.checkpoint
  BY <1>4, <1>6, <1>7 DEF Engines
<1>10. line.kind = "batch" /\ line.id = command.id /\ line.body = command.body
       /\ line.number = Len(engine.batch)
  BY <1>2 DEF Lines
<1> HIDE DEF line, state
<1>11. Truthful(line, state)
  BY <1>3, <1>5, <1>9, <1>10, AppendBegins DEF Truthful, WorkOf
<1>12. Begins(engine.batch, state.batch) /\ Begins(engine.checkpoint, state.checkpoint)
  BY <1>3, <1>5, <1>9, AppendBegins
<1>13. Reply(line, state)
  BY DEF line, state, answer, command
<1> QED BY <1>8, <1>9, <1>11, <1>12, <1>13, ReplyKeepsInv

LEMMA ExecuteCheckpointKeepsInv == Inv /\ ExecuteCheckpoint => Inv'
<1> SUFFICES ASSUME Inv, NEW finish \in Times,
                    requests # <<>>, Head(requests).kind = "checkpoint",
                    Reply([Answer(Head(requests), "pass") EXCEPT
                              !.number = Len(engine.checkpoint),
                              !.origin = engine.issued, !.finish = finish],
                          [engine EXCEPT !.checkpoint = Append(@, WorkOf(Head(requests))),
                              !.last = finish, !.issued = finish])
             PROVE Inv'
  BY DEF ExecuteCheckpoint
<1> DEFINE command == Head(requests)
           answer == Answer(command, "pass")
           line == [answer EXCEPT !.number = Len(engine.checkpoint),
                                  !.origin = engine.issued, !.finish = finish]
           state == [engine EXCEPT !.checkpoint = Append(@, WorkOf(command)),
                                   !.last = finish, !.issued = finish]
<1>1. command \in Commands /\ Loggable(command) /\ command.kind = "checkpoint"
  BY CommandTaken
<1>2. answer \in Lines /\ answer.kind = "checkpoint" /\ answer.id = command.id
      /\ answer.body = command.body /\ answer.result = "pass"
  BY <1>1, AnswerIsLine DEF CommandKinds
<1>3. WorkOf(command) \in Work /\ command.body = "none"
  BY <1>1 DEF Loggable, WorkOf, Work
<1>4. engine \in Engines /\ finish \in Nat
  BY BoundsAreNaturals DEF Inv, TypeOK, Times
<1> HIDE DEF command, answer
<1>5. engine.batch \in Seq(Work) /\ engine.checkpoint \in Seq(Work) /\ engine.issued \in Nat
  BY <1>4 DEF Engines
<1>7. Append(engine.checkpoint, WorkOf(command)) \in Seq(Work)
  BY <1>3, <1>5, AppendBegins
<1>8. line \in Lines
  <2>1. \A number \in Nat : [answer EXCEPT !.number = number, !.origin = engine.issued,
                                           !.finish = finish] \in Lines
    BY <1>2, <1>4, <1>5 DEF Lines
  <2> QED BY <1>5, <2>1, LenProperties
<1>9. state \in Engines /\ state.checkpoint = Append(engine.checkpoint, WorkOf(command))
      /\ state.batch = engine.batch
  BY <1>4, <1>7 DEF Engines
<1>10. line.kind = "checkpoint" /\ line.id = command.id /\ line.number = Len(engine.checkpoint)
  BY <1>2 DEF Lines
<1> HIDE DEF line, state
<1>11. Truthful(line, state)
  BY <1>3, <1>5, <1>9, <1>10, AppendBegins DEF Truthful, WorkOf
<1>12. Begins(engine.batch, state.batch) /\ Begins(engine.checkpoint, state.checkpoint)
  BY <1>3, <1>5, <1>9, AppendBegins
<1>13. Reply(line, state)
  BY DEF line, state, answer, command
<1> QED BY <1>8, <1>9, <1>11, <1>12, <1>13, ReplyKeepsInv

LEMMA RejectKeepsInv == Inv /\ Reject => Inv'
<1> SUFFICES ASSUME Inv, Reject PROVE Inv' OBVIOUS
<1> DEFINE line == Answer(Head(requests), "error")
<1>1. requests # <<>> /\ Reply(line, engine) BY DEF Reject
<1>2. line \in Lines /\ line.result = "error" BY <1>1, CommandTaken, AnswerIsLine
<1>3. engine \in Engines BY DEF Inv, TypeOK
<1>4. Begins(engine.batch, engine.batch) /\ Begins(engine.checkpoint, engine.checkpoint)
  BY <1>3 DEF Begins, Engines
<1> HIDE DEF line
<1>5. Truthful(line, engine) BY <1>2 DEF Truthful
<1> QED BY <1>1, <1>2, <1>3, <1>4, <1>5, ReplyKeepsInv

LEMMA ObserveKeepsInv == Inv /\ Observe => Inv'
<1> SUFFICES ASSUME Inv, Observe PROVE Inv' OBVIOUS
<1> DEFINE line == Answer(Head(requests), "pass")
<1>1. requests # <<>> /\ Reply(line, engine) /\ Head(requests).kind \in {"start", "snapshot"}
  BY DEF Observe
<1>2. line \in Lines /\ line.kind \in {"start", "snapshot"}
  BY <1>1, CommandTaken, AnswerIsLine
<1>3. engine \in Engines BY DEF Inv, TypeOK
<1>4. Begins(engine.batch, engine.batch) /\ Begins(engine.checkpoint, engine.checkpoint)
  BY <1>3 DEF Begins, Engines
<1> HIDE DEF line
<1>5. Truthful(line, engine) BY <1>2 DEF Truthful
<1> QED BY <1>1, <1>2, <1>3, <1>4, <1>5, ReplyKeepsInv

LEMMA ExecuteInvalidationKeepsInv == Inv /\ ExecuteInvalidation => Inv'
<1> SUFFICES ASSUME Inv, NEW finish \in Times,
                    requests # <<>>, Head(requests).kind = "invalidate",
                    Reply([Answer(Head(requests), "pass") EXCEPT
                              !.origin = engine.issued, !.finish = finish],
                          [engine EXCEPT !.last = finish, !.issued = finish])
             PROVE Inv'
  BY DEF ExecuteInvalidation
<1> DEFINE answer == Answer(Head(requests), "pass")
           line == [answer EXCEPT !.origin = engine.issued, !.finish = finish]
           state == [engine EXCEPT !.last = finish, !.issued = finish]
<1>1. answer \in Lines /\ answer.kind = "invalidate"
  BY CommandTaken, AnswerIsLine
<1>2. engine \in Engines /\ finish \in Nat
  BY BoundsAreNaturals DEF Inv, TypeOK, Times
<1> HIDE DEF answer
<1>3. line \in Lines /\ line.kind = "invalidate"
  BY <1>1, <1>2 DEF Lines, Engines
<1>4. state \in Engines /\ state.batch = engine.batch /\ state.checkpoint = engine.checkpoint
  BY <1>2 DEF Engines
<1>5. Begins(engine.batch, state.batch) /\ Begins(engine.checkpoint, state.checkpoint)
  BY <1>2, <1>4 DEF Begins, Engines
<1> HIDE DEF line, state
<1>6. Truthful(line, state) BY <1>3 DEF Truthful
<1>7. Reply(line, state) BY DEF line, state, answer
<1> QED BY <1>3, <1>4, <1>5, <1>6, <1>7, ReplyKeepsInv

LEMMA StopKeepsInv == Inv /\ Stop => Inv'
<1> SUFFICES ASSUME Inv, NEW code \in {0, 1},
                    requests # <<>>, Head(requests).kind \in {"close", "crash"},
                    Reply([Answer(Head(requests), "pass") EXCEPT
                              !.number = Len(engine.batch), !.other = Len(engine.checkpoint),
                              !.census = CensusOf(engine.batch)],
                          [engine EXCEPT !.state = "dead", !.code = code])
             PROVE Inv'
  BY DEF Stop
<1> DEFINE answer == Answer(Head(requests), "pass")
           line == [answer EXCEPT !.number = Len(engine.batch),
                        !.other = Len(engine.checkpoint), !.census = CensusOf(engine.batch)]
           state == [engine EXCEPT !.state = "dead", !.code = code]
<1>1. answer \in Lines /\ answer.kind \in {"close", "crash"}
  BY CommandTaken, AnswerIsLine
<1>2. engine \in Engines BY DEF Inv, TypeOK
<1> HIDE DEF answer
<1>3. /\ CensusOf(engine.batch) \in Censuses
      /\ Len(engine.batch) \in Nat /\ Len(engine.checkpoint) \in Nat
  BY <1>2 DEF Censuses, Engines
<1>4. line \in Lines /\ line.kind \in {"close", "crash"}
      /\ line.number = Len(engine.batch) /\ line.other = Len(engine.checkpoint)
  <2>1. \A number, other \in Nat, census \in Censuses :
            [answer EXCEPT !.number = number, !.other = other, !.census = census] \in Lines
    BY <1>1 DEF Lines
  <2>2. line \in Lines BY <1>3, <2>1
  <2> QED BY <1>1, <2>2 DEF Lines
<1>5. state \in Engines /\ state.batch = engine.batch /\ state.checkpoint = engine.checkpoint
      /\ state.state = "dead"
  BY <1>2 DEF Engines
<1>6. Begins(engine.batch, state.batch) /\ Begins(engine.checkpoint, state.checkpoint)
  BY <1>2, <1>5 DEF Begins, Engines
<1> HIDE DEF line, state
<1>7. Truthful(line, state) BY <1>4, <1>5 DEF Truthful
<1>8. Reply(line, state) BY DEF line, state, answer
<1> QED BY <1>4, <1>5, <1>6, <1>7, <1>8, ReplyKeepsInv

LEMMA EngineStepKeepsInv == Inv /\ EngineStep => Inv'
BY ExecuteBatchKeepsInv, ExecuteCheckpointKeepsInv, RejectKeepsInv, ObserveKeepsInv,
   ExecuteInvalidationKeepsInv, StopKeepsInv DEF EngineStep

----------------------------------------------------------------------------
(* The process ends or spoils a line.                                      *)
LEMMA DeathKeepsInv ==
    ASSUME Inv, NEW code \in {0, 1}, requests' \in {requests, <<>>},
           engine' = [engine EXCEPT !.state = "dead", !.code = code],
           UNCHANGED <<session, call, answers, accepted, calls>>
    PROVE  Inv'
<1>1. engine \in Engines /\ answers \in Seq(Lines) BY DEF Inv, TypeOK
<1>2. engine' \in Engines /\ engine'.batch = engine.batch
      /\ engine'.checkpoint = engine.checkpoint /\ engine'.state = "dead"
  BY <1>1 DEF Engines
<1>3. TypeOK'
  <2>1. CASE requests' = requests BY <1>2, <2>1 DEF Inv, TypeOK, Loggable
  <2>2. CASE requests' = <<>> BY <1>2, <2>2 DEF Inv, TypeOK, Loggable
  <2> QED BY <2>1, <2>2
<1>4. RequestsLoggable' BY DEF Inv, RequestsLoggable, Loggable
<1>5. EndsOnce' BY <1>2 DEF Inv, EndsOnce, Dead
<1>6. AnswersTruthful'
  BY <1>2 DEF Inv, AnswersTruthful, Truthful
<1>7. AcceptedBegins' BY <1>2 DEF Inv, AcceptedBegins
<1>8. StopsComplete' BY <1>2 DEF Inv, StopsComplete, Complete, Dead
<1>9. Numbered' /\ FrontierIssued' BY DEF Inv, Numbered, FrontierIssued
<1> QED BY <1>3, <1>4, <1>5, <1>6, <1>7, <1>8, <1>9 DEF Inv

LEMMA EndOfInputKeepsInv == Inv /\ EndOfInput => Inv'
<1> SUFFICES ASSUME Inv, EndOfInput PROVE Inv' OBVIOUS
<1>1. engine \in Engines BY DEF Inv, TypeOK
<1>2. engine.code \in {0, 1}
      /\ engine' = [engine EXCEPT !.state = "dead", !.code = engine.code]
  BY <1>1 DEF EndOfInput, Engines
<1> QED BY <1>2, DeathKeepsInv DEF EndOfInput, counters

LEMMA DieKeepsInv == Inv /\ Die => Inv'
BY DeathKeepsInv DEF Die, Fault

(* A line with another time is still a line.                               *)
LEMMA WrongTimeIsLine ==
    ASSUME NEW a \in Lines, NEW field \in {"origin", "blocking", "finish"}, NEW time \in Nat
    PROVE  [a EXCEPT ![field] = time] \in Lines
<1>1. CASE field = "origin" BY <1>1 DEF Lines
<1>2. CASE field = "blocking" BY <1>2 DEF Lines
<1>3. CASE field = "finish" BY <1>3 DEF Lines
<1> QED BY <1>1, <1>2, <1>3

LEMMA CorruptKeepsInv == Inv /\ Corrupt => Inv'
<1> SUFFICES ASSUME Inv, Corrupt PROVE Inv' OBVIOUS
<1>1. answers \in Seq(Lines) /\ answers # <<>> /\ MaxTime \in Nat
      /\ UNCHANGED <<session, call, requests, engine, accepted, calls>>
  BY BoundsAreNaturals DEF Inv, TypeOK, Corrupt, Fault
<1>2. Len(answers) \in 1 .. Len(answers) BY <1>1, EmptySeq, LenProperties
<1> DEFINE last == answers[Len(answers)]
<1>3. PICK spoiled \in Lines :
         /\ answers' = [answers EXCEPT ![Len(answers)] = spoiled]
         /\ spoiled.kind = last.kind /\ spoiled.id = last.id /\ spoiled.body = last.body
         /\ spoiled.result = last.result /\ spoiled.number = last.number
         /\ spoiled.other = last.other
  <2>1. last \in Lines BY <1>1, <1>2, ElementOfSeq
  <2>2. CASE \E account \in Last(answers).accounts :
                 answers' = [answers EXCEPT ![Len(answers)].accounts = @ \ {account}]
    <3>1. PICK account : answers' = [answers EXCEPT ![Len(answers)].accounts = @ \ {account}]
      BY <2>2
    <3> DEFINE spoiled == [last EXCEPT !.accounts = @ \ {account}]
    <3>2. spoiled \in Lines BY <2>1 DEF Lines
    <3>3. answers' = [answers EXCEPT ![Len(answers)] = spoiled] BY <3>1
    <3> QED BY <2>1, <3>2, <3>3 DEF Lines
  <2>3. CASE \E field \in {"origin", "blocking", "finish"}, time \in {0, MaxTime} :
                 answers' = [answers EXCEPT ![Len(answers)][field] = time]
    <3>1. PICK field \in {"origin", "blocking", "finish"}, time \in {0, MaxTime} :
             answers' = [answers EXCEPT ![Len(answers)][field] = time]
      BY <2>3
    <3> DEFINE spoiled == [last EXCEPT ![field] = time]
    <3>2. time \in Nat BY <1>1
    <3>3. spoiled \in Lines BY <2>1, <3>2, WrongTimeIsLine
    <3>4. answers' = [answers EXCEPT ![Len(answers)] = spoiled] BY <3>1
    <3> QED BY <2>1, <3>3, <3>4 DEF Lines
  <2> QED BY <2>2, <2>3 DEF Corrupt
<1>4. /\ answers' \in Seq(Lines) /\ Len(answers') = Len(answers)
      /\ \A i \in 1 .. Len(answers) :
            answers'[i] = IF i = Len(answers) THEN spoiled ELSE answers[i]
  BY <1>1, <1>3, ExceptSeq
<1> HIDE DEF last
<1>5. AnswersTruthful'
  <2> SUFFICES ASSUME NEW i \in 1 .. Len(answers) PROVE Truthful(answers'[i], engine)
    BY <1>1, <1>4 DEF AnswersTruthful
  <2>1. Truthful(answers[i], engine) BY DEF Inv, AnswersTruthful
  <2>2. CASE i # Len(answers) BY <1>4, <2>1, <2>2
  <2>3. CASE i = Len(answers)
    <3>1. Truthful(last, engine) /\ answers'[i] = spoiled BY <1>4, <2>1, <2>3 DEF last
    <3>2. Truthful(spoiled, engine) BY <1>3, <3>1 DEF Truthful
    <3> QED BY <3>1, <3>2
  <2> QED BY <2>2, <2>3
<1>6. TypeOK' BY <1>1, <1>4 DEF Inv, TypeOK, Loggable
<1>7. RequestsLoggable' BY <1>1 DEF Inv, RequestsLoggable, Loggable
<1>8. EndsOnce' /\ AcceptedBegins' /\ StopsComplete'
  BY <1>1 DEF Inv, EndsOnce, AcceptedBegins, StopsComplete, Complete, Dead
<1>9. Numbered' /\ FrontierIssued' BY <1>1 DEF Inv, Numbered, FrontierIssued
<1> QED BY <1>5, <1>6, <1>7, <1>8, <1>9 DEF Inv

----------------------------------------------------------------------------
(* The caller begins a call.                                               *)
LEMMA SendKeepsInv ==
    ASSUME Inv, NEW kind \in CommandKinds, NEW id \in Ids, NEW body \in Bodies \cup {"none"},
           NEW numbered \in BOOLEAN, Send(kind, id, body, numbered),
           kind = "batch" => id \in 0 .. MaxCalls /\ body \in Bodies,
           kind = "checkpoint" => id \in CheckpointIds /\ body = "none",
           calls' \in {calls, calls + 1}, calls' <= MaxCalls,
           numbered => session.nextRun < calls'
    PROVE  Inv'
<1>1. /\ call' = [kind |-> kind, id |-> id, body |-> body, numbered |-> numbered,
                  phase |-> "reading"]
      /\ requests' = Append(requests, call') /\ ~session.closed
      /\ UNCHANGED <<session, answers, engine, accepted>>
  BY DEF Send
<1>2. call' \in Commands /\ Loggable(call)' /\ call'.kind \in CommandKinds
  BY <1>1 DEF Commands, Loggable, Phases
<1>3. requests \in Seq(Commands) /\ calls \in Nat BY DEF Inv, TypeOK
<1>4. /\ requests' \in Seq(Commands) /\ Len(requests') = Len(requests) + 1
      /\ requests'[Len(requests')] = call'
      /\ \A i \in 1 .. Len(requests) : requests'[i] = requests[i]
  BY <1>1, <1>2, <1>3, AppendProperties
<1>5. TypeOK' BY <1>1, <1>2, <1>3, <1>4 DEF Inv, TypeOK
<1>6. RequestsLoggable'
  <2> SUFFICES ASSUME NEW i \in 1 .. Len(requests')
               PROVE requests'[i].kind \in CommandKinds /\ Loggable(requests'[i])
    BY DEF RequestsLoggable, Loggable
  <2>1. CASE i = Len(requests') BY <1>2, <1>4, <2>1 DEF Loggable
  <2>2. CASE i \in 1 .. Len(requests) BY <1>4, <2>2 DEF Inv, RequestsLoggable
  <2> QED BY <1>3, <1>4, <2>1, <2>2
<1>7. EndsOnce' /\ AnswersTruthful' /\ AcceptedBegins' /\ StopsComplete' /\ FrontierIssued'
  BY <1>1 DEF Inv, EndsOnce, AnswersTruthful, AcceptedBegins, StopsComplete, Complete, Dead,
              FrontierIssued
<1>8. Numbered'
  <2>1. session'.nextRun <= calls' BY <1>1, <1>3 DEF Inv, Numbered, TypeOK
  <2>2. call'.numbered => session'.nextRun < calls' BY <1>1
  <2> QED BY <2>1, <2>2 DEF Numbered
<1> QED BY <1>5, <1>6, <1>7, <1>8 DEF Inv

LEMMA CallerKeepsInv == Inv /\ Caller => Inv' \/ Abandon
<1> SUFFICES ASSUME Inv, Caller PROVE Inv' \/ Abandon OBVIOUS
<1>1. /\ calls \in Nat /\ calls <= MaxCalls /\ MaxCalls \in Nat
      /\ session.nextRun \in Nat /\ session.nextRun <= calls
  BY BoundsAreNaturals DEF Inv, TypeOK, Numbered
<1>2. Counted => calls' = calls + 1 /\ calls' <= MaxCalls
  BY <1>1 DEF Counted
<1>3. ASSUME NEW work \in SubmitWork, Submit(work[1], work[2]) PROVE Inv'
  <2>1. work[1] \in 0 .. MaxCalls /\ work[1] \in Ids /\ work[2] \in Bodies
    BY <1>1 DEF Bodies, Ids
  <2> QED BY <1>2, <1>3, <2>1, SendKeepsInv DEF Submit, CommandKinds
<1>4. ASSUME NEW body \in RunWork, Run(body) PROVE Inv'
  <2>1. session.nextRun \in 0 .. MaxCalls /\ session.nextRun \in Ids /\ body \in Bodies
    BY <1>1 DEF Bodies, Ids
  <2>2. calls' = calls + 1 /\ calls' <= MaxCalls /\ session.nextRun < calls'
    BY <1>1, <1>2, <1>4 DEF Run
  <2> QED BY <1>4, <2>1, <2>2, SendKeepsInv DEF Run, CommandKinds
<1>5. CASE InvalidateHbfPages
  BY <1>2, <1>5, SendKeepsInv DEF InvalidateHbfPages, CommandKinds, Ids
<1>6. ASSUME NEW id \in CheckpointIds, Checkpoint(id) PROVE Inv'
  BY <1>2, <1>6, SendKeepsInv DEF Checkpoint, CommandKinds, Ids
<1>7. ASSUME NEW id \in WearIds, HbfWearSnapshot(id) PROVE Inv'
  BY <1>2, <1>7, SendKeepsInv DEF HbfWearSnapshot, CommandKinds, Ids
<1>8. ASSUME NEW kind \in {"crash", "close"}, CrashOrClose(kind) PROVE Inv'
  BY <1>1, <1>8, SendKeepsInv DEF CrashOrClose, CommandKinds, Ids
<1> QED BY <1>3, <1>4, <1>5, <1>6, <1>7, <1>8 DEF Caller

----------------------------------------------------------------------------
(* The caller reads a line, or stops waiting for it.                       *)
LEMMA FirstAnswer ==
    ASSUME Inv, answers # <<>>
    PROVE  Head(answers) \in Lines /\ Truthful(Head(answers), engine)
<1>1. answers \in Seq(Lines) BY DEF Inv, TypeOK
<1>2. Head(answers) = answers[1] /\ 1 \in 1 .. Len(answers)
  BY <1>1, HeadTailProperties, EmptySeq
<1> QED BY <1>1, <1>2 DEF Inv, AnswersTruthful

(* What is left in the pipes is what was there.                            *)
PipesDrain ==
    /\ requests' \in {requests, <<>>}
    /\ \/ answers' \in {answers, <<>>}
       \/ answers # <<>> /\ answers' = Tail(answers)

(* With both pipes empty, what they hold is as it should be.               *)
LEMMA PipesDrained ==
    ASSUME Inv, PipesDrain, engine' = engine
    PROVE  /\ requests' \in Seq(Commands) /\ answers' \in Seq(Lines) /\ engine' \in Engines
           /\ RequestsLoggable' /\ AnswersTruthful'
<1>1. requests \in Seq(Commands) /\ answers \in Seq(Lines) /\ engine \in Engines
  BY DEF Inv, TypeOK
<1>2. requests' \in Seq(Commands) /\ RequestsLoggable'
  <2>1. CASE requests' = requests BY <1>1, <2>1 DEF Inv, RequestsLoggable, Loggable
  <2>2. CASE requests' = <<>> BY <2>2 DEF RequestsLoggable
  <2> QED BY <2>1, <2>2 DEF PipesDrain
<1>3. answers' \in Seq(Lines) /\ AnswersTruthful'
  <2>1. CASE answers' = answers BY <1>1, <2>1 DEF Inv, AnswersTruthful
  <2>2. CASE answers' = <<>> BY <2>2 DEF AnswersTruthful
  <2>3. CASE answers # <<>> /\ answers' = Tail(answers)
    <3>1. /\ answers' \in Seq(Lines) /\ Len(answers') = Len(answers) - 1
          /\ \A i \in 1 .. Len(answers') : answers'[i] = answers[i + 1]
      BY <1>1, <2>3, HeadTailProperties
    <3>2. \A i \in 1 .. Len(answers') : i + 1 \in 1 .. Len(answers)
      BY <1>1, <3>1
    <3> QED BY <3>1, <3>2 DEF Inv, AnswersTruthful
  <2> QED BY <2>1, <2>2, <2>3 DEF PipesDrain
<1> QED BY <1>1, <1>2, <1>3

(* Having no call is a command of its own.                                 *)
LEMMA IdleIsCommand == Idle \in Commands /\ Loggable(Idle) /\ ~Idle.numbered /\ Idle.phase = "idle"
BY DEF Idle, Commands, Ids, Phases, Loggable

(* A call that returns keeps the invariant.                                *)
LEMMA ReturnKeepsInv ==
    ASSUME Inv, call.phase = "reading", call' = Idle, PipesDrain, engine' = engine,
           calls' = calls, DOMAIN session' = SessionFields,
           session'.closed = session.closed, session'.stopped = session.stopped,
           session'.last \in Nat, session'.issued \in Nat, session'.last <= session'.issued,
           session'.nextRun \in Nat, session'.nextRun <= calls,
           session'.sequence \in Nat, session'.checkpoints \in Nat,
           accepted' \in [batch : Seq(Work), checkpoint : Seq(Work)], AcceptedBegins'
    PROVE  Inv'
<1>1. TypeOK' /\ RequestsLoggable' /\ AnswersTruthful'
  BY PipesDrained, IdleIsCommand DEF Inv, TypeOK
<1>2. ~session.closed /\ ~session.stopped
  BY DEF Inv, EndsOnce, StopsComplete
<1>3. EndsOnce' /\ StopsComplete'
  BY <1>2, IdleIsCommand DEF EndsOnce, StopsComplete
<1>4. Numbered' /\ FrontierIssued'
  BY IdleIsCommand DEF Inv, Numbered, FrontierIssued
<1> QED BY <1>1, <1>3, <1>4 DEF Inv

(* A session that ends keeps its counts and its frontiers.                 *)
Kept(before, after) ==
    /\ DOMAIN after = SessionFields
    /\ after.last = before.last /\ after.issued = before.issued
    /\ after.nextRun = before.nextRun
    /\ after.sequence = before.sequence /\ after.checkpoints = before.checkpoints

(* A call that begins to end the session keeps the invariant.              *)
LEMMA EndKeepsInv ==
    ASSUME Inv, call' = [call EXCEPT !.phase = "ending"], PipesDrain, engine' = engine,
           UNCHANGED <<accepted, calls>>, Kept(session, session'),
           session'.closed = TRUE, session'.stopped \in BOOLEAN,
           session'.stopped => Complete
    PROVE  Inv'
<1>1. call' \in Commands /\ Loggable(call)' /\ call'.phase = "ending"
  BY DEF Inv, TypeOK, Commands, Loggable, Phases
<1>2. TypeOK' /\ RequestsLoggable' /\ AnswersTruthful'
  BY <1>1, PipesDrained DEF Inv, TypeOK, Kept
<1>3. EndsOnce' BY <1>1 DEF EndsOnce
<1>4. StopsComplete' BY <1>1 DEF StopsComplete, Complete, Kept, Dead
<1>5. AcceptedBegins' BY DEF Inv, AcceptedBegins, Kept
<1>6. Numbered' /\ FrontierIssued' BY <1>1 DEF Inv, Numbered, FrontierIssued, Kept
<1> QED BY <1>2, <1>3, <1>4, <1>5, <1>6 DEF Inv

LEMMA ForceCloseKeepsInv ==
    ASSUME Inv, ForceClose, PipesDrain, UNCHANGED <<engine, accepted, calls>>
    PROVE  Inv' /\ Kept(session, session') /\ session'.closed
<1>1. /\ session' = [session EXCEPT !.closed = TRUE]
      /\ call' = [call EXCEPT !.phase = "ending"]
  BY DEF ForceClose, Ending
<1>2. DOMAIN session = SessionFields /\ session.stopped \in BOOLEAN BY DEF Inv, TypeOK
<1>3. Kept(session, session') /\ session'.closed = TRUE /\ session'.stopped = session.stopped
  BY <1>1, <1>2 DEF Kept, SessionFields
<1>4. session.stopped => Complete BY DEF Inv, StopsComplete
<1> QED BY <1>1, <1>2, <1>3, <1>4, EndKeepsInv

LEMMA RaiseKeepsInv ==
    ASSUME Inv, Raise, call.phase = "reading", PipesDrain, UNCHANGED <<engine, accepted, calls>>
    PROVE  Inv' /\ Kept(session, session')
<1>1. CASE ForceClose BY <1>1, ForceCloseKeepsInv
<1>2. CASE session' = session /\ call' = Idle
  <2>1. AcceptedBegins' BY <1>2 DEF Inv, AcceptedBegins
  <2>2. Kept(session, session') BY <1>2 DEF Inv, TypeOK, Kept
  <2> QED BY <1>2, <2>1, <2>2, ReturnKeepsInv DEF Inv, TypeOK, Numbered, FrontierIssued
<1> QED BY <1>1, <1>2 DEF Raise

(* The receipt that is accepted for a command is one of that command.      *)
LEMMA ReceivedFacts ==
    ASSUME Inv, NEW kind, Received(kind)
    PROVE  /\ Head(answers) \in Lines /\ Truthful(Head(answers), engine)
           /\ call.kind = kind /\ call.phase = "reading" /\ ~session.closed
           /\ Accepts(Head(answers)) /\ PipesDrain
           /\ UNCHANGED <<engine, calls>>
<1>1. answers # <<>> /\ answers' = Tail(answers) /\ UNCHANGED <<requests, engine, calls>>
      /\ call.phase = "reading" /\ call.kind = kind /\ Accepts(Head(answers))
  BY DEF Received, Take, Reading, counters
<1>2. PipesDrain BY <1>1 DEF PipesDrain
<1> QED BY <1>1, <1>2, FirstAnswer DEF Inv, EndsOnce

Advances == session.last <= session'.last /\ session.issued <= session'.issued

LEMMA BatchReceivedKeepsInv ==
    ASSUME Inv, BatchReceived
    PROVE  /\ Inv' /\ Advances
           /\ Len(accepted.batch) < Len(engine.batch)
           /\ accepted' = [accepted EXCEPT
                  !.batch = Append(@, engine.batch[Len(accepted.batch) + 1])]
<1> DEFINE a == Head(answers)
           next == [session EXCEPT
                      !.last = a.blocking, !.issued = Larger(@, a.finish),
                      !.sequence = @ + 1, !.census = @ (+) SetToBag({call.body}),
                      !.nextRun = IF call.numbered THEN @ + 1 ELSE @]
<1>1. Received("batch") /\ session' = next /\ call' = Idle
      /\ accepted' = [accepted EXCEPT !.batch = Append(@, WorkOf(call))]
  BY DEF BatchReceived, Return
<1>2. /\ a \in Lines /\ Truthful(a, engine) /\ call.kind = "batch"
      /\ call.phase = "reading" /\ Accepts(a) /\ PipesDrain
      /\ UNCHANGED <<engine, calls>>
  BY <1>1, ReceivedFacts
<1> HIDE DEF a
<1>3. SubmitAccepts(a) BY <1>2 DEF Accepts
<1>4. /\ a.kind = "batch" /\ a.result = "pass" /\ a.id = call.id /\ a.body = call.body
      /\ a.number = session.sequence
      /\ a.origin = session.last /\ a.origin <= a.first /\ a.first <= a.blocking
      /\ a.blocking <= a.finish
  BY <1>3 DEF SubmitAccepts, Answers, SameWork, ClockHolds
<1>5. session.sequence < Len(engine.batch)
      /\ engine.batch[session.sequence + 1] = WorkOf(call)
  BY <1>2, <1>4 DEF Truthful, WorkOf
<1>6. WorkOf(call) \in Work
  BY <1>2 DEF Inv, TypeOK, Loggable, WorkOf, Work
<1>7. /\ a.blocking \in Nat /\ a.finish \in Nat /\ a.origin \in Nat /\ a.first \in Nat
      /\ session.last \in Nat /\ session.issued \in Nat /\ session.nextRun \in Nat
      /\ session.sequence \in Nat /\ session.checkpoints \in Nat /\ calls \in Nat
      /\ session.last <= session.issued
      /\ DOMAIN session = SessionFields
  BY <1>2 DEF Inv, TypeOK, Lines, FrontierIssued
<1>8. session.nextRun <= calls /\ (call.numbered => session.nextRun < calls)
  BY <1>2 DEF Inv, Numbered
<1>9. /\ DOMAIN session' = SessionFields
      /\ session'.closed = session.closed /\ session'.stopped = session.stopped
      /\ session'.last = a.blocking
      /\ session'.issued = Larger(session.issued, a.finish)
      /\ session'.sequence = session.sequence + 1
      /\ session'.checkpoints = session.checkpoints
      /\ session'.nextRun = IF call.numbered THEN session.nextRun + 1 ELSE session.nextRun
  BY <1>1, <1>7 DEF SessionFields
<1>10. /\ Larger(session.issued, a.finish) \in Nat
       /\ session.issued <= Larger(session.issued, a.finish)
       /\ a.blocking <= Larger(session.issued, a.finish)
  BY <1>4, <1>7 DEF Larger
<1>11. session'.nextRun \in Nat /\ session'.nextRun <= calls
  BY <1>7, <1>8, <1>9
<1>12. /\ accepted \in [batch : Seq(Work), checkpoint : Seq(Work)]
       /\ accepted.batch \in Seq(Work) /\ engine.batch \in Seq(Work)
       /\ Len(accepted.batch) = session.sequence
  BY DEF Inv, TypeOK, Engines, AcceptedBegins
<1>13. Append(accepted.batch, WorkOf(call)) \in Seq(Work)
       /\ Len(Append(accepted.batch, WorkOf(call))) = session.sequence + 1
       /\ \A i \in 1 .. session.sequence :
             Append(accepted.batch, WorkOf(call))[i] = accepted.batch[i]
       /\ Append(accepted.batch, WorkOf(call))[session.sequence + 1] = WorkOf(call)
  BY <1>6, <1>12, AppendProperties
<1>14. /\ accepted' \in [batch : Seq(Work), checkpoint : Seq(Work)]
       /\ accepted'.batch = Append(accepted.batch, WorkOf(call))
       /\ accepted'.checkpoint = accepted.checkpoint
  BY <1>1, <1>12, <1>13
<1>15. Begins(accepted'.batch, engine.batch)
  <2>1. \A i \in 1 .. session.sequence : accepted.batch[i] = engine.batch[i]
    BY <1>12 DEF Inv, AcceptedBegins, Begins
  <2>2. \A i \in 1 .. session.sequence + 1 : i \in 1 .. session.sequence \/ i = session.sequence + 1
    BY <1>7
  <2>3. session.sequence + 1 <= Len(engine.batch) BY <1>5, <1>7, <1>12
  <2> QED BY <1>5, <1>13, <1>14, <2>1, <2>2, <2>3 DEF Begins
<1>16. AcceptedBegins'
  BY <1>2, <1>9, <1>13, <1>14, <1>15 DEF Inv, AcceptedBegins
<1>17. Inv'
  BY <1>1, <1>2, <1>4, <1>7, <1>9, <1>10, <1>11, <1>14, <1>16, ReturnKeepsInv
<1>18. Advances BY <1>4, <1>7, <1>9, <1>10 DEF Advances
<1> QED BY <1>1, <1>5, <1>12, <1>17, <1>18

LEMMA CheckpointReceivedKeepsInv ==
    ASSUME Inv, CheckpointReceived
    PROVE  /\ Inv' /\ Advances
           /\ Len(accepted.checkpoint) < Len(engine.checkpoint)
           /\ accepted' = [accepted EXCEPT
                  !.checkpoint = Append(@, engine.checkpoint[Len(accepted.checkpoint) + 1])]
<1> DEFINE a == Head(answers)
<1>1. Received("checkpoint") /\ call' = Idle
      /\ session' = [session EXCEPT !.last = a.finish, !.issued = a.finish,
                                     !.ids = @ \cup {call.id}, !.checkpoints = @ + 1]
      /\ accepted' = [accepted EXCEPT !.checkpoint = Append(@, WorkOf(call))]
  BY DEF CheckpointReceived, Return
<1>2. /\ a \in Lines /\ Truthful(a, engine) /\ call.kind = "checkpoint"
      /\ call.phase = "reading" /\ Accepts(a) /\ PipesDrain
      /\ UNCHANGED <<engine, calls>>
  BY <1>1, ReceivedFacts
<1> HIDE DEF a
<1>3. CheckpointAccepts(a) BY <1>2 DEF Accepts
<1>4. /\ a.kind = "checkpoint" /\ a.result = "pass" /\ a.id = call.id
      /\ a.number = session.checkpoints
      /\ a.origin = session.issued /\ a.origin <= a.finish
  BY <1>3 DEF CheckpointAccepts, Answers
<1>5. session.checkpoints < Len(engine.checkpoint)
      /\ engine.checkpoint[session.checkpoints + 1] = WorkOf(call)
  BY <1>2, <1>4 DEF Inv, TypeOK, Loggable, Truthful, WorkOf
<1>6. WorkOf(call) \in Work
  BY <1>2 DEF Inv, TypeOK, Loggable, WorkOf, Work
<1>7. /\ a.finish \in Nat
      /\ session.last \in Nat /\ session.issued \in Nat /\ session.nextRun \in Nat
      /\ session.sequence \in Nat /\ session.checkpoints \in Nat
      /\ session.last <= session.issued /\ session.nextRun <= calls
      /\ DOMAIN session = SessionFields
  BY <1>2 DEF Inv, TypeOK, Lines, FrontierIssued, Numbered
<1>9. /\ DOMAIN session' = SessionFields
      /\ session'.closed = session.closed /\ session'.stopped = session.stopped
      /\ session'.last = a.finish /\ session'.issued = a.finish
      /\ session'.sequence = session.sequence
      /\ session'.checkpoints = session.checkpoints + 1
      /\ session'.nextRun = session.nextRun
  BY <1>1, <1>7 DEF SessionFields
<1>12. /\ accepted \in [batch : Seq(Work), checkpoint : Seq(Work)]
       /\ accepted.checkpoint \in Seq(Work) /\ engine.checkpoint \in Seq(Work)
       /\ Len(accepted.checkpoint) = session.checkpoints
  BY DEF Inv, TypeOK, Engines, AcceptedBegins
<1>13. Append(accepted.checkpoint, WorkOf(call)) \in Seq(Work)
       /\ Len(Append(accepted.checkpoint, WorkOf(call))) = session.checkpoints + 1
       /\ \A i \in 1 .. session.checkpoints :
             Append(accepted.checkpoint, WorkOf(call))[i] = accepted.checkpoint[i]
       /\ Append(accepted.checkpoint, WorkOf(call))[session.checkpoints + 1] = WorkOf(call)
  BY <1>6, <1>12, AppendProperties
<1>14. /\ accepted' \in [batch : Seq(Work), checkpoint : Seq(Work)]
       /\ accepted'.checkpoint = Append(accepted.checkpoint, WorkOf(call))
       /\ accepted'.batch = accepted.batch
  BY <1>1, <1>12, <1>13
<1>15. Begins(accepted'.checkpoint, engine.checkpoint)
  <2>1. \A i \in 1 .. session.checkpoints : accepted.checkpoint[i] = engine.checkpoint[i]
    BY <1>12 DEF Inv, AcceptedBegins, Begins
  <2>2. \A i \in 1 .. session.checkpoints + 1 :
            i \in 1 .. session.checkpoints \/ i = session.checkpoints + 1
    BY <1>7
  <2>3. session.checkpoints + 1 <= Len(engine.checkpoint) BY <1>5, <1>7, <1>12
  <2> QED BY <1>5, <1>13, <1>14, <2>1, <2>2, <2>3 DEF Begins
<1>16. AcceptedBegins'
  BY <1>2, <1>9, <1>13, <1>14, <1>15 DEF Inv, AcceptedBegins
<1>17. Inv'
  BY <1>1, <1>2, <1>7, <1>9, <1>14, <1>16, ReturnKeepsInv
<1>18. Advances BY <1>4, <1>7, <1>9 DEF Advances
<1> QED BY <1>1, <1>5, <1>12, <1>17, <1>18

LEMMA InvalidationReceivedKeepsInv ==
    ASSUME Inv, InvalidationReceived
    PROVE  Inv' /\ Advances
<1> DEFINE a == Head(answers)
<1>1. Received("invalidate") /\ call' = Idle /\ UNCHANGED accepted
      /\ session' = [session EXCEPT !.last = a.finish, !.issued = a.finish]
  BY DEF InvalidationReceived, Return
<1>2. /\ a \in Lines /\ call.kind = "invalidate" /\ call.phase = "reading" /\ Accepts(a)
      /\ PipesDrain /\ UNCHANGED <<engine, calls>>
  BY <1>1, ReceivedFacts
<1> HIDE DEF a
<1>3. session.issued <= a.origin /\ a.origin <= a.finish
  BY <1>2 DEF Accepts, InvalidationAccepts
<1>4. /\ a.finish \in Nat /\ a.origin \in Nat
      /\ session.last \in Nat /\ session.issued \in Nat /\ session.nextRun \in Nat
      /\ session.sequence \in Nat /\ session.checkpoints \in Nat
      /\ session.last <= session.issued /\ session.nextRun <= calls
      /\ DOMAIN session = SessionFields
      /\ accepted \in [batch : Seq(Work), checkpoint : Seq(Work)]
  BY <1>2 DEF Inv, TypeOK, Lines, FrontierIssued, Numbered
<1>5. /\ DOMAIN session' = SessionFields
      /\ session'.closed = session.closed /\ session'.stopped = session.stopped
      /\ session'.last = a.finish /\ session'.issued = a.finish
      /\ session'.sequence = session.sequence
      /\ session'.checkpoints = session.checkpoints
      /\ session'.nextRun = session.nextRun
  BY <1>1, <1>4 DEF SessionFields
<1>6. AcceptedBegins' BY <1>1, <1>2, <1>5 DEF Inv, AcceptedBegins
<1>7. Inv' BY <1>1, <1>2, <1>4, <1>5, <1>6, ReturnKeepsInv
<1> QED BY <1>3, <1>4, <1>5, <1>7 DEF Advances

LEMMA SnapshotReceivedKeepsInv ==
    ASSUME Inv, SnapshotReceived
    PROVE  Inv' /\ Kept(session, session')
<1>1. Received("snapshot") /\ call' = Idle /\ UNCHANGED accepted
      /\ session' = [session EXCEPT !.wearIds = @ \cup {call.id}]
  BY DEF SnapshotReceived, Return
<1>2. call.phase = "reading" /\ PipesDrain /\ UNCHANGED <<engine, calls>>
  BY <1>1, ReceivedFacts
<1>3. /\ session.last \in Nat /\ session.issued \in Nat /\ session.nextRun \in Nat
      /\ session.sequence \in Nat /\ session.checkpoints \in Nat
      /\ session.last <= session.issued /\ session.nextRun <= calls
      /\ DOMAIN session = SessionFields
      /\ accepted \in [batch : Seq(Work), checkpoint : Seq(Work)]
  BY DEF Inv, TypeOK, FrontierIssued, Numbered
<1>4. Kept(session, session')
      /\ session'.closed = session.closed /\ session'.stopped = session.stopped
  BY <1>1, <1>3 DEF Kept, SessionFields
<1>5. AcceptedBegins' BY <1>1, <1>2, <1>4 DEF Inv, AcceptedBegins, Kept
<1> QED BY <1>1, <1>2, <1>3, <1>4, <1>5, ReturnKeepsInv DEF Kept

LEMMA ReadyReceivedKeepsInv ==
    ASSUME Inv, ReadyReceived
    PROVE  Inv' /\ Kept(session, session')
<1>1. Received("start") /\ call' = Idle /\ UNCHANGED <<session, accepted>>
  BY DEF ReadyReceived, Return
<1>2. call.phase = "reading" /\ PipesDrain /\ UNCHANGED <<engine, calls>>
  BY <1>1, ReceivedFacts
<1>3. /\ session.last \in Nat /\ session.issued \in Nat /\ session.nextRun \in Nat
      /\ session.sequence \in Nat /\ session.checkpoints \in Nat
      /\ session.last <= session.issued /\ session.nextRun <= calls
      /\ DOMAIN session = SessionFields
      /\ accepted \in [batch : Seq(Work), checkpoint : Seq(Work)]
  BY DEF Inv, TypeOK, FrontierIssued, Numbered
<1>4. Kept(session, session') BY <1>1, <1>3 DEF Kept
<1>5. AcceptedBegins' BY <1>1, <1>2 DEF Inv, AcceptedBegins
<1> QED BY <1>1, <1>2, <1>3, <1>4, <1>5, ReturnKeepsInv

(* What a stop receipt says is all there is: the process has ended.        *)
LEMMA TotalsComplete ==
    ASSUME Inv, NEW a \in Lines, Truthful(a, engine), a.result = "pass",
           a.kind \in {"crash", "close"}, TotalsHold(a)
    PROVE  Complete
BY DEF Truthful, TotalsHold, Complete, Dead

LEMMA CrashReceivedKeepsInv ==
    ASSUME Inv, CrashReceived
    PROVE  Inv' /\ Kept(session, session')
<1> DEFINE a == Head(answers)
<1>1. Received("crash") /\ UNCHANGED <<session, accepted>>
      /\ call' = [call EXCEPT !.phase = "waiting"]
  BY DEF CrashReceived
<1>2. /\ a \in Lines /\ Truthful(a, engine) /\ call.kind = "crash" /\ ~session.closed
      /\ Accepts(a) /\ PipesDrain /\ UNCHANGED <<engine, calls>>
  BY <1>1, ReceivedFacts
<1> HIDE DEF a
<1>3. Complete
  BY <1>2, TotalsComplete DEF Accepts, CrashAccepts, Answers
<1>4. call' \in Commands /\ Loggable(call)' /\ call'.phase = "waiting"
  BY <1>1 DEF Inv, TypeOK, Commands, Loggable, Phases
<1>5. TypeOK' /\ RequestsLoggable' /\ AnswersTruthful'
  BY <1>1, <1>2, <1>4, PipesDrained DEF Inv, TypeOK
<1>6. EndsOnce' /\ AcceptedBegins' /\ FrontierIssued'
  BY <1>1, <1>2, <1>4 DEF Inv, EndsOnce, AcceptedBegins, FrontierIssued
<1>7. StopsComplete'
  BY <1>1, <1>2, <1>3 DEF Inv, StopsComplete, Complete, Dead
<1>8. Numbered' BY <1>1, <1>2, <1>4 DEF Inv, Numbered
<1>9. Kept(session, session') BY <1>1 DEF Inv, TypeOK, Kept
<1> QED BY <1>5, <1>6, <1>7, <1>8, <1>9 DEF Inv

LEMMA StopReceivedKeepsInv ==
    ASSUME Inv, StopReceived
    PROVE  Inv' /\ Kept(session, session') /\ session'.closed
<1> DEFINE a == Head(answers)
<1>1. Received("close") /\ UNCHANGED accepted
      /\ session' = [session EXCEPT !.closed = TRUE, !.stopped = TRUE]
      /\ call' = [call EXCEPT !.phase = "ending"]
  BY DEF StopReceived, Ending
<1>2. /\ a \in Lines /\ Truthful(a, engine) /\ call.kind = "close"
      /\ Accepts(a) /\ PipesDrain /\ UNCHANGED <<engine, calls>>
  BY <1>1, ReceivedFacts
<1> HIDE DEF a
<1>3. Complete
  BY <1>2, TotalsComplete DEF Accepts, CloseAccepts, Answers
<1>4. DOMAIN session = SessionFields BY DEF Inv, TypeOK
<1>5. Kept(session, session') /\ session'.closed = TRUE /\ session'.stopped = TRUE
  BY <1>1, <1>4 DEF Kept, SessionFields
<1> QED BY <1>1, <1>2, <1>3, <1>5, EndKeepsInv

LEMMA CrashWaitsKeepsInv ==
    ASSUME Inv, CrashWaits
    PROVE  Inv' /\ Kept(session, session') /\ session'.closed
<1> DEFINE well == Dead /\ engine.code = 0
<1> HIDE DEF well
<1>1. /\ session' = [session EXCEPT !.closed = TRUE, !.stopped = well]
      /\ call' = [call EXCEPT !.phase = "ending"] /\ PipesDrain
      /\ UNCHANGED <<engine, accepted, calls>>
  BY DEF CrashWaits, Ending, counters, PipesDrain, well
<1>2. Complete BY DEF CrashWaits, Inv, StopsComplete
<1>3. DOMAIN session = SessionFields BY DEF Inv, TypeOK
<1>4. Kept(session, session') /\ session'.closed = TRUE /\ session'.stopped = well
  BY <1>1, <1>3 DEF Kept, SessionFields
<1>5. session'.stopped \in BOOLEAN BY <1>4 DEF well
<1> QED BY <1>1, <1>2, <1>4, <1>5, EndKeepsInv

LEMMA RefusedKeepsInv ==
    ASSUME Inv, Refused
    PROVE  Inv' /\ Kept(session, session')
<1>1. /\ call.phase = "reading" /\ Raise /\ PipesDrain
      /\ UNCHANGED <<engine, accepted, calls>>
  BY DEF Refused, Take, Reading, counters, PipesDrain
<1> QED BY <1>1, RaiseKeepsInv

LEMMA ReadEndKeepsInv ==
    ASSUME Inv, ReadEnd
    PROVE  Inv' /\ Kept(session, session')
<1>1. /\ call.phase = "reading" /\ Raise /\ PipesDrain
      /\ UNCHANGED <<engine, accepted, calls>>
  BY DEF ReadEnd, Reading, counters, PipesDrain
<1> QED BY <1>1, RaiseKeepsInv

LEMMA WaitFailsKeepsInv ==
    ASSUME Inv, WaitFails
    PROVE  Inv' /\ Kept(session, session')
<1>1. /\ call.phase = "reading" /\ Raise /\ PipesDrain
      /\ UNCHANGED <<engine, accepted, calls>>
  BY DEF WaitFails, Fault, Reading, PipesDrain
<1> QED BY <1>1, RaiseKeepsInv

LEMMA TimeOutKeepsInv ==
    ASSUME Inv, TimeOut
    PROVE  Inv' /\ Kept(session, session')
<1>1. ForceClose /\ PipesDrain /\ UNCHANGED <<engine, accepted, calls>>
  BY DEF TimeOut, counters, PipesDrain
<1> QED BY <1>1, ForceCloseKeepsInv

LEMMA AbandonKeepsInv ==
    ASSUME Inv, Abandon
    PROVE  Inv' /\ Kept(session, session')
<1>1. ForceClose /\ PipesDrain /\ UNCHANGED <<engine, accepted, calls>>
  BY DEF Abandon, counters, PipesDrain
<1> QED BY <1>1, ForceCloseKeepsInv

LEMMA EscalateKeepsInv ==
    ASSUME Inv, Escalate
    PROVE  Inv' /\ engine'.batch = engine.batch /\ engine'.checkpoint = engine.checkpoint
<1>1. /\ call.phase \in {"ending", "terminating"} /\ ~Dead
      /\ call' = [call EXCEPT !.phase =
                      IF call.phase = "ending" THEN "terminating" ELSE "killed"]
      /\ engine' = [engine EXCEPT !.state = IF call.phase = "ending" THEN @ ELSE "dead"]
      /\ UNCHANGED <<session, requests, answers, accepted, calls>>
  BY DEF Escalate, counters
<1>2. call \in Commands /\ Loggable(call) /\ engine \in Engines BY DEF Inv, TypeOK
<1>3. call' \in Commands /\ Loggable(call)'
      /\ call'.phase = IF call.phase = "ending" THEN "terminating" ELSE "killed"
  BY <1>1, <1>2 DEF Commands, Loggable, Phases
<1>4. /\ engine' \in Engines
      /\ engine'.batch = engine.batch /\ engine'.checkpoint = engine.checkpoint
      /\ engine'.state = IF call.phase = "ending" THEN engine.state ELSE "dead"
  BY <1>1, <1>2 DEF Engines
<1>5. ~session.stopped /\ engine.state = "running"
  BY <1>1, <1>2 DEF Inv, StopsComplete, Complete, Dead, Engines
<1>6. TypeOK' BY <1>1, <1>3, <1>4 DEF Inv, TypeOK
<1>7. RequestsLoggable' BY <1>1 DEF Inv, RequestsLoggable, Loggable
<1>8. AnswersTruthful'
  <2> SUFFICES ASSUME NEW i \in 1 .. Len(answers) PROVE Truthful(answers[i], engine')
    BY <1>1 DEF AnswersTruthful
  <2>1. Truthful(answers[i], engine) BY DEF Inv, AnswersTruthful
  <2> QED BY <1>4, <1>5, <2>1 DEF Truthful
<1>9. EndsOnce' BY <1>1, <1>3, <1>4 DEF EndsOnce, Dead
<1>10. AcceptedBegins' BY <1>1, <1>4 DEF Inv, AcceptedBegins
<1>11. StopsComplete' BY <1>1, <1>3, <1>5 DEF StopsComplete
<1>12. Numbered' /\ FrontierIssued' BY <1>1, <1>3 DEF Inv, Numbered, FrontierIssued
<1> QED BY <1>4, <1>6, <1>7, <1>8, <1>9, <1>10, <1>11, <1>12 DEF Inv

LEMMA ReapKeepsInv == Inv /\ Reap => Inv'
<1> SUFFICES ASSUME Inv, Reap PROVE Inv' OBVIOUS
<1>1. /\ Dead /\ call' = Idle /\ PipesDrain
      /\ UNCHANGED <<session, engine, accepted, calls>>
  BY DEF Reap, counters, PipesDrain
<1>2. TypeOK' /\ RequestsLoggable' /\ AnswersTruthful'
  BY <1>1, PipesDrained, IdleIsCommand DEF Inv, TypeOK
<1>3. EndsOnce' /\ StopsComplete' /\ Numbered'
  BY <1>1, IdleIsCommand DEF Inv, EndsOnce, StopsComplete, Complete, Numbered, Dead
<1>4. AcceptedBegins' /\ FrontierIssued' BY <1>1 DEF Inv, AcceptedBegins, FrontierIssued
<1> QED BY <1>2, <1>3, <1>4 DEF Inv

LEMMA StutterKeepsInv == Inv /\ UNCHANGED vars => Inv'
BY DEF vars, counters, Inv, TypeOK, Loggable, RequestsLoggable, EndsOnce, AnswersTruthful,
       AcceptedBegins, StopsComplete, Complete, Numbered, FrontierIssued, Dead

LEMMA NextKeepsInv == Inv /\ [Next]_vars => Inv'
<1> SUFFICES ASSUME Inv, [Next]_vars PROVE Inv' OBVIOUS
<1>1. CASE Caller BY <1>1, CallerKeepsInv, AbandonKeepsInv
<1>2. CASE ReadAnswer
  BY <1>2, BatchReceivedKeepsInv, InvalidationReceivedKeepsInv, CheckpointReceivedKeepsInv,
     SnapshotReceivedKeepsInv, ReadyReceivedKeepsInv, CrashReceivedKeepsInv,
     StopReceivedKeepsInv, RefusedKeepsInv DEF ReadAnswer
<1>3. CASE ReadEnd \/ TimeOut \/ CrashWaits \/ Escalate \/ Reap
  BY <1>3, ReadEndKeepsInv, TimeOutKeepsInv, CrashWaitsKeepsInv, EscalateKeepsInv, ReapKeepsInv
<1>4. CASE WaitFails BY <1>4, WaitFailsKeepsInv
<1>5. CASE EngineStep BY <1>5, EngineStepKeepsInv
<1>6. CASE EndOfInput \/ Die \/ Corrupt
  BY <1>6, EndOfInputKeepsInv, DieKeepsInv, CorruptKeepsInv
<1>7. CASE Closed \/ UNCHANGED vars BY <1>7, StutterKeepsInv DEF Closed
<1> QED BY <1>1, <1>2, <1>3, <1>4, <1>5, <1>6, <1>7 DEF Next, CallStep

(* The dialogue stays consistent through every answer, fault and end: the  *)
(* receipts of the caller are the beginning of what the process executed,  *)
(* every line in the pipe tells the truth about the log, and what waits to *)
(* be executed can be logged.                                              *)
THEOREM InvIsInvariant == Spec => []Inv
BY InitInv, NextKeepsInv, PTL DEF Spec

(* Nothing is missing from the report of a run that was stopped well,      *)
(* however many calls failed, timed out or were refused before.            *)
THEOREM StopIsCompleteHolds == Spec => []StopIsComplete
<1>1. Inv => StopIsComplete
  <2> SUFFICES ASSUME Inv, session.stopped
               PROVE accepted.batch = engine.batch /\ accepted.checkpoint = engine.checkpoint
    BY DEF StopIsComplete
  <2>1. /\ accepted.batch \in Seq(Work) /\ accepted.checkpoint \in Seq(Work)
        /\ engine.batch \in Seq(Work) /\ engine.checkpoint \in Seq(Work)
    BY DEF Inv, TypeOK, Engines
  <2>2. Len(accepted.batch) = Len(engine.batch)
        /\ Len(accepted.checkpoint) = Len(engine.checkpoint)
    BY DEF Inv, AcceptedBegins, StopsComplete, Complete
  <2>3. accepted.batch = engine.batch
    BY <2>1, <2>2, SeqEqual DEF Inv, AcceptedBegins, Begins
  <2>4. accepted.checkpoint = engine.checkpoint
    BY <2>1, <2>2, SeqEqual DEF Inv, AcceptedBegins, Begins
  <2> QED BY <2>3, <2>4
<1> QED BY <1>1, InvIsInvariant, PTL

(* A closed session whose last call has returned has no process left.      *)
THEOREM NoProcessLeftHolds == Spec => []NoProcessLeft
<1>1. Inv => NoProcessLeft
  BY IdleIsCommand DEF Inv, EndsOnce, NoProcessLeft
<1> QED BY <1>1, InvIsInvariant, PTL

----------------------------------------------------------------------------
(* Steps of the process do not touch what the caller keeps.                *)
LEMMA EngineLeavesSession ==
    ASSUME EngineStep
    PROVE  UNCHANGED <<session, accepted>>
BY DEF EngineStep, ExecuteBatch, Reject, ExecuteInvalidation, ExecuteCheckpoint, Observe, Stop,
       Reply

(* Nor does a caller who begins a call.                                    *)
LEMMA CallerLeavesSession ==
    ASSUME Caller
    PROVE  UNCHANGED <<session, accepted, engine>> \/ Abandon
BY DEF Caller, Submit, Run, InvalidateHbfPages, Checkpoint, HbfWearSnapshot, CrashOrClose, Send

(* Every step advances the session or leaves it.                           *)
LEMMA StepAdvances ==
    ASSUME Inv, [Next]_vars
    PROVE  Advances
<1>1. session.last \in Nat /\ session.issued \in Nat BY DEF Inv, TypeOK
<1>2. session' = session \/ Kept(session, session') => Advances
  BY <1>1 DEF Kept, Advances
<1>3. CASE Caller BY <1>2, <1>3, CallerLeavesSession, AbandonKeepsInv
<1>4. CASE ReadAnswer
  BY <1>2, <1>4, BatchReceivedKeepsInv, InvalidationReceivedKeepsInv,
     CheckpointReceivedKeepsInv, SnapshotReceivedKeepsInv, ReadyReceivedKeepsInv,
     CrashReceivedKeepsInv, StopReceivedKeepsInv, RefusedKeepsInv DEF ReadAnswer
<1>5. CASE ReadEnd \/ TimeOut \/ CrashWaits \/ WaitFails
  BY <1>2, <1>5, ReadEndKeepsInv, TimeOutKeepsInv, CrashWaitsKeepsInv, WaitFailsKeepsInv
<1>6. CASE Escalate \/ Reap BY <1>2, <1>6 DEF Escalate, Reap
<1>7. CASE EngineStep BY <1>2, <1>7, EngineLeavesSession
<1>8. CASE EndOfInput \/ Die \/ Corrupt \/ Closed \/ UNCHANGED vars
  BY <1>2, <1>8 DEF EndOfInput, Die, Corrupt, Closed, vars
<1> QED BY <1>3, <1>4, <1>5, <1>6, <1>7, <1>8 DEF Next, CallStep

(* Whatever times the process reports, the frontiers of the caller only    *)
(* advance and stay in order.                                              *)
THEOREM FrontiersAdvanceHolds == Spec => FrontiersAdvance
<1>1. Inv /\ Inv' /\ [Next]_vars =>
        [/\ session.last <= session'.last /\ session.issued <= session'.issued
         /\ session'.last <= session'.issued]_vars
  BY StepAdvances DEF Advances, Inv, FrontierIssued
<1> QED BY <1>1, InvIsInvariant, PTL DEF Spec, FrontiersAdvance

----------------------------------------------------------------------------
(* The session implements the log.                                         *)
LogStutters ==
    /\ engine'.batch = engine.batch /\ engine'.checkpoint = engine.checkpoint
    /\ UNCHANGED accepted /\ session'.closed = session.closed

LogCloses ==
    /\ engine'.batch = engine.batch /\ engine'.checkpoint = engine.checkpoint
    /\ UNCHANGED accepted /\ ~session.closed /\ session'.closed = TRUE

(* What the log module allows besides accepting work.                      *)
LEMMA StutterOrClose ==
    ASSUME LogStutters \/ LogCloses, session.closed \in BOOLEAN
    PROVE  [Log!Next]_(Log!vars)
<1>1. CASE LogStutters BY <1>1 DEF LogStutters, Log!vars
<1>2. CASE LogCloses BY <1>2 DEF LogCloses, Log!Next, Log!Close
<1> QED BY <1>1, <1>2

(* To accept a batch, as the log module writes it.                         *)
LEMMA BatchesGrow ==
    ASSUME NEW batches, NEW points, NEW work
    PROVE  [batch |-> Append(batches, work), checkpoint |-> points] =
             [[batch |-> batches, checkpoint |-> points] EXCEPT !["batch"] = Append(@, work)]
OBVIOUS

(* To accept a checkpoint, as the log module writes it.                    *)
LEMMA CheckpointsGrow ==
    ASSUME NEW batches, NEW points, NEW work
    PROVE  [batch |-> batches, checkpoint |-> Append(points, work)] =
             [[batch |-> batches, checkpoint |-> points] EXCEPT
                 !["checkpoint"] = Append(@, work)]
OBVIOUS

LEMMA ExecuteBatchLogs ==
    ASSUME Inv, ExecuteBatch
    PROVE  Log!Next
<1>1. PICK blocking \in Times, finish \in Times :
         /\ requests # <<>> /\ Head(requests).kind = "batch"
         /\ engine' = [engine EXCEPT !.batch = Append(@, WorkOf(Head(requests))),
                           !.last = blocking, !.issued = Larger(@, finish)]
         /\ UNCHANGED <<session, accepted>>
  BY DEF ExecuteBatch, Reply
<1> DEFINE work == WorkOf(Head(requests))
<1>2. work \in Work
  BY <1>1, CommandTaken DEF Loggable, WorkOf, Work
<1>3. engine \in Engines BY DEF Inv, TypeOK
<1> HIDE DEF work
<1>4. engine'.batch = Append(engine.batch, work) /\ engine'.checkpoint = engine.checkpoint
  BY <1>1, <1>3 DEF Engines, work
<1>5. [batch |-> engine'.batch, checkpoint |-> engine'.checkpoint] =
        [[batch |-> engine.batch, checkpoint |-> engine.checkpoint] EXCEPT
            !["batch"] = Append(@, work)]
  <2>1. [batch |-> Append(engine.batch, work), checkpoint |-> engine.checkpoint] =
          [[batch |-> engine.batch, checkpoint |-> engine.checkpoint] EXCEPT
              !["batch"] = Append(@, work)]
    BY BatchesGrow
  <2> QED BY <1>4, <2>1
<1> QED BY <1>1, <1>2, <1>5 DEF Log!Next, Log!Execute, Log!Kinds

LEMMA ExecuteCheckpointLogs ==
    ASSUME Inv, ExecuteCheckpoint
    PROVE  Log!Next
<1>1. PICK finish \in Times :
         /\ requests # <<>> /\ Head(requests).kind = "checkpoint"
         /\ engine' = [engine EXCEPT !.checkpoint = Append(@, WorkOf(Head(requests))),
                           !.last = finish, !.issued = finish]
         /\ UNCHANGED <<session, accepted>>
  BY DEF ExecuteCheckpoint, Reply
<1> DEFINE work == WorkOf(Head(requests))
<1>2. work \in Work
  BY <1>1, CommandTaken DEF Loggable, WorkOf, Work
<1>3. engine \in Engines BY DEF Inv, TypeOK
<1> HIDE DEF work
<1>4. engine'.checkpoint = Append(engine.checkpoint, work) /\ engine'.batch = engine.batch
  BY <1>1, <1>3 DEF Engines, work
<1>5. [batch |-> engine'.batch, checkpoint |-> engine'.checkpoint] =
        [[batch |-> engine.batch, checkpoint |-> engine.checkpoint] EXCEPT
            !["checkpoint"] = Append(@, work)]
  <2>1. [batch |-> engine.batch, checkpoint |-> Append(engine.checkpoint, work)] =
          [[batch |-> engine.batch, checkpoint |-> engine.checkpoint] EXCEPT
              !["checkpoint"] = Append(@, work)]
    BY CheckpointsGrow
  <2> QED BY <1>4, <2>1
<1> QED BY <1>1, <1>2, <1>5 DEF Log!Next, Log!Execute, Log!Kinds

LEMMA EngineLogs ==
    ASSUME Inv, EngineStep
    PROVE  [Log!Next]_(Log!vars)
<1>1. engine \in Engines /\ session.closed \in BOOLEAN BY DEF Inv, TypeOK
<1>2. CASE ExecuteBatch BY <1>2, ExecuteBatchLogs
<1>3. CASE ExecuteCheckpoint BY <1>3, ExecuteCheckpointLogs
<1>4. CASE Reject \/ Observe \/ Stop \/ ExecuteInvalidation
  <2>1. LogStutters
    BY <1>1, <1>4 DEF Reject, Observe, Stop, ExecuteInvalidation, Reply, LogStutters, Engines
  <2> QED BY <1>1, <2>1, StutterOrClose
<1> QED BY <1>2, <1>3, <1>4 DEF EngineStep

LEMMA BatchReceivedLogs ==
    ASSUME Inv, BatchReceived
    PROVE  Log!Next
<1>1. /\ Len(accepted.batch) < Len(engine.batch)
      /\ accepted' = [accepted EXCEPT
             !["batch"] = Append(@, engine.batch[Len(accepted.batch) + 1])]
  BY BatchReceivedKeepsInv
<1>2. Received("batch") BY DEF BatchReceived
<1>3. ~session.closed /\ engine' = engine BY <1>2, ReceivedFacts
<1>4. session'.closed = session.closed
  BY DEF BatchReceived, Return, Inv, TypeOK, SessionFields
<1> QED BY <1>1, <1>3, <1>4 DEF Log!Next, Log!Accept, Log!Kinds

LEMMA CheckpointReceivedLogs ==
    ASSUME Inv, CheckpointReceived
    PROVE  Log!Next
<1>1. /\ Len(accepted.checkpoint) < Len(engine.checkpoint)
      /\ accepted' = [accepted EXCEPT
             !["checkpoint"] = Append(@, engine.checkpoint[Len(accepted.checkpoint) + 1])]
  BY CheckpointReceivedKeepsInv
<1>2. Received("checkpoint") BY DEF CheckpointReceived
<1>3. ~session.closed /\ engine' = engine BY <1>2, ReceivedFacts
<1>4. session'.closed = session.closed
  BY DEF CheckpointReceived, Return, Inv, TypeOK, SessionFields
<1> QED BY <1>1, <1>3, <1>4 DEF Log!Next, Log!Accept, Log!Kinds

LEMMA ForceCloseLogs ==
    ASSUME Inv, ForceClose, ~session.closed, UNCHANGED <<engine, accepted>>
    PROVE  LogCloses
BY DEF ForceClose, Ending, Inv, TypeOK, SessionFields, LogCloses

(* The other answers, and waits that end without one.                      *)
LEMMA ReadingLogs ==
    ASSUME Inv, \/ InvalidationReceived \/ SnapshotReceived \/ ReadyReceived
                \/ CrashReceived \/ StopReceived \/ Refused \/ ReadEnd \/ TimeOut \/ WaitFails
    PROVE  LogStutters \/ LogCloses
<1>1. DOMAIN session = SessionFields BY DEF Inv, TypeOK
<1>2. ~session.closed /\ UNCHANGED <<engine, accepted>>
  BY DEF Inv, EndsOnce, InvalidationReceived, SnapshotReceived, ReadyReceived, CrashReceived,
         StopReceived, Refused, ReadEnd, TimeOut, WaitFails, Received, Take, Reading
<1>3. CASE InvalidationReceived \/ SnapshotReceived \/ ReadyReceived \/ CrashReceived
  BY <1>1, <1>2, <1>3 DEF InvalidationReceived, SnapshotReceived, ReadyReceived, CrashReceived,
                          Return, SessionFields, LogStutters
<1>4. CASE StopReceived
  BY <1>1, <1>2, <1>4 DEF StopReceived, Ending, SessionFields, LogCloses
<1>5. CASE Refused \/ ReadEnd \/ TimeOut \/ WaitFails
  <2>1. ForceClose \/ UNCHANGED session
    BY <1>5 DEF Refused, ReadEnd, TimeOut, WaitFails, Raise
  <2> QED BY <1>2, <2>1, ForceCloseLogs DEF LogStutters
<1> QED BY <1>3, <1>4, <1>5

LEMMA NextLogs ==
    ASSUME Inv, [Next]_vars
    PROVE  [Log!Next]_(Log!vars)
<1>1. engine \in Engines /\ session.closed \in BOOLEAN /\ DOMAIN session = SessionFields
  BY DEF Inv, TypeOK
<1>2. CASE Caller
  <2>1. CASE UNCHANGED <<session, accepted, engine>>
    BY <1>1, <2>1, StutterOrClose DEF LogStutters
  <2>2. CASE Abandon
    <3>1. LogCloses BY <2>2, ForceCloseLogs DEF Abandon
    <3> QED BY <1>1, <3>1, StutterOrClose
  <2> QED BY <1>2, <2>1, <2>2, CallerLeavesSession
<1>3. CASE BatchReceived \/ CheckpointReceived
  BY <1>3, BatchReceivedLogs, CheckpointReceivedLogs
<1>4. CASE \/ InvalidationReceived \/ SnapshotReceived \/ ReadyReceived
           \/ CrashReceived \/ StopReceived \/ Refused \/ ReadEnd \/ TimeOut \/ WaitFails
  BY <1>1, <1>4, ReadingLogs, StutterOrClose
<1>5. CASE CrashWaits
  <2>1. ~session.closed /\ session' = [Ending(session) EXCEPT
                              !.stopped = Dead /\ engine.code = 0]
        /\ UNCHANGED <<engine, accepted>>
    BY <1>5 DEF CrashWaits, Inv, EndsOnce
  <2>2. session'.closed = TRUE BY <1>1, <2>1 DEF Ending, SessionFields
  <2> QED BY <1>1, <2>1, <2>2, StutterOrClose DEF LogCloses
<1>6. CASE Escalate
  BY <1>1, <1>6, EscalateKeepsInv, StutterOrClose DEF Escalate, LogStutters
<1>7. CASE Reap \/ Corrupt \/ Closed \/ UNCHANGED vars
  BY <1>1, <1>7, StutterOrClose DEF Reap, Corrupt, Closed, vars, LogStutters
<1>8. CASE EndOfInput \/ Die
  <2>1. LogStutters BY <1>1, <1>8 DEF EndOfInput, Die, LogStutters, Engines
  <2> QED BY <1>1, <2>1, StutterOrClose
<1>9. CASE EngineStep BY <1>9, EngineLogs
<1> QED BY <1>2, <1>3, <1>4, <1>5, <1>6, <1>7, <1>8, <1>9 DEF Next, CallStep, ReadAnswer

(* The caller is told of batches and checkpoints in the order and with the *)
(* contents the simulator executed them with, whatever is lost, late,      *)
(* wrong or refused on the way.                                            *)
THEOREM ImplementsLogHolds == Spec => ImplementsLog
<1>1. Init => Log!Init
  <2> SUFFICES ASSUME Init PROVE Log!Init OBVIOUS
  <2>1. /\ engine.batch = <<>> /\ engine.checkpoint = <<>> /\ session.closed = FALSE
        /\ accepted = [batch |-> <<>>, checkpoint |-> <<>>]
    BY DEF Init
  <2> QED BY <2>1 DEF Log!Init, Log!Kinds
<1>2. Inv /\ [Next]_vars => [Log!Next]_(Log!vars)
  BY NextLogs
<1> QED BY <1>1, <1>2, InvIsInvariant, PTL DEF Spec, ImplementsLog, Log!Spec
=============================================================================
