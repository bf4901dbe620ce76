---------------------------- MODULE MCKvClients ----------------------------
(* Three requests with prompts of two, two and one full blocks: the first  *)
(* two share both blocks, the third has its first block in common with     *)
(* them.  Pools are too small for all of them and the cache for all keys.  *)
EXTENDS KvClients

CONSTANTS a, b

MCPrompt   == <<4, 4, 3>>
MCLifetime == <<5, 4, 3>>
MCContent  == <<<<a, b>>, <<a, b>>, <<a>>>>
=============================================================================
