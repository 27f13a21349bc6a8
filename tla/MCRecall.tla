----------------------------- MODULE MCRecall -----------------------------
(***************************************************************************)
(* Values for TLC: a query most channels answer, on a database of two       *)
(* entities, one of whose rows hangs on an event that will end.             *)
(***************************************************************************)
EXTENDS Recall

CONSTANTS a, b, x, y

Row(n, c, e) == [ent |-> n, content |-> c, type |-> NoType, event |-> e,
                 created |-> 0, deleted |-> FALSE, by |-> NoObs, run |-> NoRun]

Posted(o, n, c) == [id |-> o, ent |-> n, content |-> c, type |-> NoType]

Stored ==
    [EmptyDatabase EXCEPT
        !.ent = [n \in Names |-> [state |-> "live", type |-> NoType]],
        !.obs = <<Row(a, x, 1), Row(a, x, 0), Row(a, y, 0), Row(b, x, 0)>>,
        !.fts = {Posted(1, a, x), Posted(2, a, x), Posted(3, a, y),
                 Posted(4, b, x)},
        !.events = <<1>>]

StoredSeed == {Stored}

\* Two words: found as a phrase in x only, the first of them inside a word
\* of y; the name a is the query and b contains it.
AnyChannel == [phrase |-> {x},
             words  |-> {x, a},
             exact  |-> {a},
             names  |-> {a, b},
             terms  |-> <<[content |-> {x, y}, type |-> {}],
                          [content |-> {x}, type |-> {}]>>,
             events |-> {1}]

SomeQueries == {AnyChannel}
SomeIds     == {{1, 4}}

===========================================================================
