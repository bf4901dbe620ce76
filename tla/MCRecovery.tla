----------------------------- MODULE MCRecovery -----------------------------
(* One request emits with each of its tokens, the other is still prefilling *)
(* with its only one.                                                        *)
EXTENDS Recovery

MCPrompt == <<1, 2>>
MCLifetime == <<2, 1>>
=============================================================================
