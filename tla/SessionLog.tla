----------------------------- MODULE SessionLog -----------------------------
(***************************************************************************)
(* What a session with the memory simulator promises to its caller, with   *)
(* no process, pipes, receipts or faults: the simulator executes commands  *)
(* of each kind in some order, and the caller is told of them in the same  *)
(* order, each at most once, until the session is closed.  A command that  *)
(* was executed may never be told of; what was never executed is not.      *)
(*                                                                         *)
(* hbfsim_client/simulation_session.py keeps this with sequence numbers    *)
(* over a dialogue that can break anywhere (SimulationSession).            *)
(***************************************************************************)
EXTENDS Naturals, Sequences

CONSTANTS
    Work    \* what a command asks for

VARIABLES
    executed,   \* executed[kind]: commands carried out by the simulator
    accepted,   \* accepted[kind]: commands whose completion the caller was given
    closed

vars == <<executed, accepted, closed>>

Kinds == {"batch", "checkpoint"}

Init ==
    /\ executed = [kind \in Kinds |-> <<>>]
    /\ accepted = [kind \in Kinds |-> <<>>]
    /\ closed = FALSE

(* The simulator may still finish what it was sent after the caller has    *)
(* begun to close the session.                                             *)
Execute ==
    \E kind \in Kinds, work \in Work :
        /\ executed' = [executed EXCEPT ![kind] = Append(@, work)]
        /\ UNCHANGED <<accepted, closed>>

Accept ==
    \E kind \in Kinds :
        /\ ~closed
        /\ Len(accepted[kind]) < Len(executed[kind])
        /\ accepted' = [accepted EXCEPT
                ![kind] = Append(@, executed[kind][Len(@) + 1])]
        /\ UNCHANGED <<executed, closed>>

Close ==
    /\ ~closed /\ closed' = TRUE
    /\ UNCHANGED <<executed, accepted>>

Next == Execute \/ Accept \/ Close

Spec == Init /\ [][Next]_vars
=============================================================================
