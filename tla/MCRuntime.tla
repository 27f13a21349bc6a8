----------------------------- MODULE MCRuntime -----------------------------
(* Values for TLC: two handlers share a project, one of them also has global *)
(* calls, the other a second project, so that they compete for a cache of    *)
(* one handle.                                                               *)
EXTENDS Runtime, TLC

CONSTANTS k1, k2, c1, c2

CallsAsk == (c1 :> {k1, NoKey}) @@ (c2 :> {k1, k2})

===========================================================================
