------------------------- MODULE MCProjectRegistry -------------------------
(***************************************************************************)
(* Values for TLC: the roots a history may start on.                        *)
(***************************************************************************)
EXTENDS ProjectRegistry, TLC

\* One project with memory at path p, its registry kept or lost.
Used(p, kept) ==
    [EmptyRoot EXCEPT
        !.exists = kept,
        !.records = IF kept THEN {[id |-> 1, path |-> p, init |-> TRUE]} ELSE {},
        !.store[1] = "memory",
        !.issued = 1]

\* From an empty root, that of a project in use is a few steps away.
FreshOrLost == {EmptyRoot} \cup {Used(p, FALSE) : p \in Paths}
InUse == {Used(p, TRUE) : p \in Paths}

Crew(servers, commands, ids, roots) ==
    [servers : {S \in SUBSET Servers : Cardinality(S) = servers},
     commands : {C \in SUBSET Commands : Cardinality(C) = commands},
     ids : {ids}, root : roots]

\* Servers alone and with one command, one server with two commands, and two
\* commands alone.  A third id is one more store than a path needs: that of a
\* path registered again after its store was moved or discarded.
SmallCrews ==
    Crew(2, 0, 2, FreshOrLost) \cup Crew(1, 1, 2, FreshOrLost)
    \cup Crew(2, 1, 2, InUse) \cup Crew(1, 1, 3, InUse)
    \cup Crew(1, 2, 2, InUse) \cup Crew(0, 2, 3, InUse)
Pair == Crew(1, 1, 2, InUse)

Symmetry == Permutations(Servers) \cup Permutations(Commands)
            \cup Permutations(Paths)

===========================================================================
