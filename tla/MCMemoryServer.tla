-------------------------- MODULE MCMemoryServer --------------------------
(***************************************************************************)
(* Values for TLC: the databases a server may be started on.  Besides the   *)
(* empty one they are imported databases that hold several copies of a      *)
(* fact, as databases written before AddObservation reused duplicates do.   *)
(***************************************************************************)
EXTENDS MemoryServer, TLC

CONSTANTS a, b, x, y

\* The database with one untyped row for every <<entity, content, event>> of
\* a sequence, and the events that expire at the given seconds.
Imported(rows, expiries) ==
    LET Row(f) == [ent |-> f[1], content |-> f[2], type |-> NoType,
                   event |-> f[3], created |-> 0, deleted |-> FALSE,
                   by |-> NoObs, run |-> NoRun]
    IN  [EmptyDatabase EXCEPT
            !.ent = [n \in Names |->
                       [state |-> IF \E i \in DOMAIN rows : rows[i][1] = n
                                  THEN "live" ELSE "absent",
                        type  |-> NoType]],
            !.obs = [i \in DOMAIN rows |-> Row(rows[i])],
            !.fts = {[id |-> i, ent |-> rows[i][1],
                      content |-> rows[i][2], type |-> NoType] :
                        i \in DOMAIN rows},
            !.events = expiries]

EmptySeed == {EmptyDatabase}

\* Two copies of a fact; two of each of two entities' facts; and two lasting
\* copies beside a newer one whose event will expire.
DuplicateSeeds ==
    {Imported(<< <<a, x, 0>>, <<a, x, 0>> >>, <<>>),
     Imported(<< <<a, x, 0>>, <<b, x, 0>>, <<a, x, 0>>, <<b, x, 0>> >>, <<>>),
     Imported(<< <<a, x, 0>>, <<a, x, 0>>, <<a, x, 1>> >>, <<1>>)}

\* Entity names are interchangeable when every seed is.
NameSymmetry == Permutations(Names)

===========================================================================
