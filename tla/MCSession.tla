----------------------------- MODULE MCSession -----------------------------
(* Callers of run, and one of submit who uses the first number of run for  *)
(* a batch with other contents.                                            *)
EXTENDS SimulationSession

CONSTANTS a, b, c, w

MCRunWork == {a}
MCSubmitWork == {<<0, b>>}
MCCheckpointIds == {c}
MCWearIds == {w}
=============================================================================
