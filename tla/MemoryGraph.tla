---------------------------- MODULE MemoryGraph ----------------------------
(***************************************************************************)
(* What a memory database promises its clients, without rows, indexes or    *)
(* audit tables: a set of facts that can be recalled, a set of edges        *)
(* between entities, the entities and the events that are listed, the time, *)
(* and the number of reconcile runs so far.                                 *)
(***************************************************************************)
EXTENDS Integers

CONSTANTS Names, Contents, Kinds

VARIABLES facts, edges, listed, events, clock, runs

vars == <<facts, edges, listed, events, clock, runs>>

Edge == [from : Names, to : Names, kind : Kinds]

\* An entity is listed while it has a fact or an edge.
Shown == {f[1] : f \in facts} \cup UNION {{e.from, e.to} : e \in edges}

\* Remembering only adds facts, and perhaps the event they happened at.
Learn(F) ==
    /\ facts' = facts \cup F
    /\ events \subseteq events'
    /\ \A e, f \in events' \ events : e = f
    /\ UNCHANGED <<edges, clock, runs>>

\* Relating adds one edge between two entities and, though it revives a
\* forgotten endpoint, brings no fact and no other edge of it back.
Link(e) ==
    /\ e.from # e.to
    /\ edges' = edges \cup {e}
    /\ UNCHANGED <<facts, events, clock, runs>>

\* Forgetting an observation takes at most its own fact away.
ForgetFact(f) ==
    /\ facts' = facts \ {f}
    /\ UNCHANGED <<edges, events, clock, runs>>

\* Forgetting an entity takes all its facts and every edge that touches it.
ForgetEntity(n) ==
    /\ facts' = {f \in facts : f[1] # n}
    /\ edges' = {e \in edges : e.from # n /\ e.to # n}
    /\ UNCHANGED <<events, clock, runs>>

\* Time only takes away: events that are over, and the facts that hang on them.
Expire ==
    /\ clock' = clock + 1
    /\ facts' \subseteq facts
    /\ events' \subseteq events
    /\ UNCHANGED <<edges, runs>>

\* A reconcile run, apply or rollback, is invisible but for its audit row.
Reconcile ==
    /\ runs' = runs + 1
    /\ UNCHANGED <<facts, edges, events, clock>>

Init == /\ facts \subseteq Names \X Contents
        /\ edges \subseteq Edge
        /\ listed = Shown
        /\ events \subseteq Nat
        /\ clock = 0
        /\ runs \in Nat

Next ==
    /\ \/ \E F \in SUBSET (Names \X Contents) : Learn(F)
       \/ \E e \in Edge : Link(e)
       \/ \E f \in Names \X Contents : ForgetFact(f)
       \/ \E n \in Names : ForgetEntity(n)
       \/ Expire
       \/ Reconcile
    /\ listed' = Shown'

Spec == Init /\ [][Next]_vars

===========================================================================
