---------------------------- MODULE MCBatchGraph ----------------------------
EXTENDS BatchGraph

CONSTANTS a

(* Two requests that share a prefix. *)
SharedPrompt   == <<3, 3>>
SharedLifetime == <<4, 4>>
SharedContent  == <<<<a>>, <<a>>>>

(* Three requests of one block that move between the tiers. *)
MovedPrompt   == <<2, 1, 1>>
MovedLifetime == <<2, 1, 1>>
MovedContent  == <<<<>>, <<>>, <<>>>>
=============================================================================
