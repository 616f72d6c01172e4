---------------------------- MODULE MCRateLimiter -----------------------------
(***************************************************************************)
(* An instance of RateLimiter for TLC: the backstop g1 and the key e1 of   *)
(* login, the global cap n1 and a recipient r1, and a user u1 who posts.   *)
(***************************************************************************)
EXTENDS RateLimiterProperties, TLC

CONSTANTS e1, g1, n1, r1, u1

MCBurst == (e1 :> 2) @@ (g1 :> 1) @@ (n1 :> 1) @@ (r1 :> 1) @@ (u1 :> 1)
MCWindow == (e1 :> 1) @@ (g1 :> 1) @@ (n1 :> 2) @@ (r1 :> 1) @@ (u1 :> 1)
MCGlobalOf == (e1 :> g1) @@ (u1 :> NoKey)
===============================================================================
