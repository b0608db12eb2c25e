----------------------------- MODULE MCEventHub -----------------------------
(* One client of each channel.                                             *)
EXTENDS EventHub, TLC

CONSTANTS c1, c2, news, jobs

MCWants == (c1 :> {news}) @@ (c2 :> {jobs})
=============================================================================
