----------------------------- MODULE MCServing -----------------------------
(* Workloads for the serving engine, with blocks of two tokens.            *)
EXTENDS ServingEngine

CONSTANTS a, b, c   \* the contents of a full prompt block

(* Five requests of one group and two of a second one.  Three share both   *)
(* full prompt blocks, one only the first block, and two are of another    *)
(* model, whose keys differ.  Every request fits the pools alone.          *)
MixPrompt   == <<5, 5, 4, 5, 3, 4, 3>>
MixLifetime == <<8, 7, 7, 7, 4, 6, 5>>
MixContent  == <<<<a, b>>, <<a, b>>, <<c, c>>, <<a, b>>, <<a>>, <<a, b>>, <<c>>>>
MixModel    == <<1, 1, 2, 1, 1, 1, 2>>
MixGroup    == <<1, 1, 1, 1, 1, 2, 2>>
(* The second request outgrows the pool of five blocks.                    *)
LargePrompt   == <<3, 4, 5, 3>>
LargeLifetime == <<6, 12, 7, 4>>
LargeContent  == <<<<a>>, <<a, b>>, <<a, b>>, <<a>>>>
LargeModel    == <<1, 1, 1, 1>>
LargeGroup    == <<1, 1, 1, 1>>
=============================================================================
