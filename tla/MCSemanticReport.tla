-------------------------- MODULE MCSemanticReport --------------------------
(***************************************************************************)
(* Values for TLC: databases a semantic report finds.                       *)
(***************************************************************************)
EXTENDS SemanticReport

CONSTANTS a, b, x, y

Row(n, c) == [ent |-> n, content |-> c, type |-> NoType, event |-> NoEvent,
              created |-> 0, deleted |-> FALSE, by |-> NoObs, run |-> NoRun]

\* Two facts of one entity in the given state, a vector for the rows of V,
\* and an edge.
Known(state, V) ==
    [EmptyDatabase EXCEPT
        !.ent = [n \in Names |->
                   [state |-> IF n = a THEN state ELSE "live",
                    type  |-> NoType]],
        !.obs = <<Row(a, x), Row(a, y)>>,
        !.fts = {[id |-> 1, ent |-> a, content |-> x, type |-> NoType],
                 [id |-> 2, ent |-> a, content |-> y, type |-> NoType]},
        !.rel = {[from |-> a, to |-> b, kind |-> k] : k \in Kinds},
        !.emb = V]

\* A live entity, its rows without a vector; and a drifted import: rows, an
\* edge and a vector under an entity that is a tombstone.
ReportSeeds == {Known("live", {}), Known("tombstone", {1})}

LiveSeed == {Known("live", {})}

===========================================================================
