------------------------ MODULE ProjectRegistryProofs ------------------------
(***************************************************************************)
(* The registry's promises for any number of servers, commands, paths and   *)
(* ids, processes killed anywhere.  Nothing but the file system ties the    *)
(* processes together, so the invariant says which of them may still touch  *)
(* which id: an id is either registered, and then its store is there and    *)
(* stays, or belongs to the one import that generated it.                   *)
(***************************************************************************)
EXTENDS ProjectRegistry, TLAPS

Importing == {"import", "copied", "checked-copy"}
Holding == {"begun", "archived"}
Moving == {"move", "checked"} \cup Holding

\* Where an acquisition has an id, and where it is sure of the file.
Looking == {"found", "made"}
Resolved == {"resolved", "opened"} \cup Looking

Acquisition == [pc : {"idle", "register", "converge"} \cup Resolved,
                path : Paths \cup {NoPath}, id : Ids \cup {NoId},
                init : BOOLEAN, moved : BOOLEAN]
Order == [pc : {"idle"} \cup Moving \cup Importing,
          from : Paths \cup {NoPath}, to : Paths \cup {NoPath},
          id : Ids \cup {NoId}, gone : Ids \cup {NoId}]

Shape ==
    /\ crew \in [servers : SUBSET Servers, commands : SUBSET Commands,
                 ids : 0 .. MaxIds]
    /\ root \in Root
    /\ lock \in Commands \cup {NoOne}
    /\ acq \in [Servers -> Acquisition]
    /\ handle \in [Servers -> [Ids -> HandleState]]
    /\ leases \in [Servers -> SUBSET (Paths \X Ids)]
    /\ cmd \in [Commands -> Order]

\* Ids that are or were registered: rows are kept.
Known == {r.id : r \in root.records}
Present(i) == HasFile(root.store[i]) \/ HasFile(root.archive[i])

\* A server that looked for an initialized record's file still has it, unless
\* the directory was renamed since.
Found(s) ==
    acq[s].pc \in Looking /\ acq[s].init /\ ~acq[s].moved =>
        HasFile(root.store[acq[s].id])

\* A server only knows registered ids, and what it has open exists.
ServerOK(s) ==
    /\ acq[s].pc # "idle" => acq[s].path \in Paths
    /\ acq[s].pc \in Resolved => acq[s].id \in Known
    /\ acq[s].pc \in Looking => handle[s][acq[s].id] = "closed"
    /\ Found(s)
    /\ acq[s].pc = "opened" =>
          /\ handle[s][acq[s].id] # "closed"
          /\ \A l \in leases[s] : l[2] # acq[s].id
    /\ \A i \in Ids : handle[s][i] # "closed" => i \in Known /\ Present(i)
    /\ \A i \in Ids : handle[s][i] = "store" => HasFile(root.store[i])
    /\ \A l \in leases[s] : handle[s][l[2]] # "closed"

\* A move works on registered ids and, while it holds the registry, on a free
\* destination; an import on an id that nobody can have registered.
CommandOK(c) ==
    /\ cmd[c].pc \in Moving =>
          /\ cmd[c].id \in Known /\ cmd[c].gone \in Known \cup {NoId}
          /\ cmd[c].to \in Paths
    /\ lock = c <=> cmd[c].pc \in Holding
    /\ lock = c => \A r \in At(cmd[c].to) : r.id \in {cmd[c].gone, cmd[c].id}
    /\ cmd[c].pc \in Importing =>
          /\ cmd[c].id \in Ids /\ cmd[c].id <= root.issued
          /\ cmd[c].id \notin Known /\ cmd[c].to \in Paths
    /\ cmd[c].pc = "checked-copy" =>
          root.store[cmd[c].id] \in {"empty", "memory"}

OwnIds ==
    \A c, b \in Commands :
        c # b /\ cmd[c].pc \in Importing /\ cmd[b].pc \in Importing =>
            cmd[c].id # cmd[b].id

IInv ==
    /\ Shape
    /\ AtRest(root)
    /\ \A s \in Servers : ServerOK(s)
    /\ \A c \in Commands : CommandOK(c)
    /\ OwnIds

---------------------------------------------------------------------------

LEMMA InvInit == Init => IInv
  <1>. SUFFICES ASSUME Init PROVE IInv
    OBVIOUS
  <1>1. PICK c \in Crews :
          /\ crew = [servers |-> c.servers, commands |-> c.commands, ids |-> c.ids]
          /\ root = c.root
    BY DEF Init
  <1>2. /\ c.servers \in SUBSET Servers /\ c.commands \in SUBSET Commands
        /\ c.ids \in 0 .. MaxIds /\ c.root \in Root /\ AtRest(c.root)
    BY CrewsAssumption, RootsAssumption
  <1>3. Shape
    <2>1. crew \in [servers : SUBSET Servers, commands : SUBSET Commands,
                    ids : 0 .. MaxIds]
      BY <1>1, <1>2
    <2>2. NoAcq \in Acquisition /\ NoCmd \in Order
      BY DEF NoAcq, NoCmd, Acquisition, Order, NoId
    <2>. QED  BY <1>1, <1>2, <2>1, <2>2 DEF Shape, Init, HandleState
  <1>4. ASSUME NEW s \in Servers PROVE ServerOK(s)
    BY DEF Init, ServerOK, NoAcq, Found, Looking, Resolved
  <1>5. ASSUME NEW b \in Commands PROVE CommandOK(b)
    BY NoValuesAssumption DEF Init, CommandOK, NoCmd, Moving, Holding, Importing
  <1>6. OwnIds
    BY DEF Init, OwnIds, NoCmd, Importing
  <1>. QED  BY <1>1, <1>2, <1>3, <1>4, <1>5, <1>6 DEF IInv

\* What a step may do to the shared root while others are at work on it.
RootStep ==
    /\ root' \in Root /\ AtRest(root)'
    /\ Known \subseteq Known' /\ root.issued <= root'.issued
    /\ \A i \in Known : Present(i) => Present(i)'

\* The import of c has its id and its copy for itself.
Spared(c) == cmd[c].pc \in Importing =>
    cmd[c].id \notin Known' /\ root'.store[cmd[c].id] = root.store[cmd[c].id]

\* No entry has come to the path of a move that holds the registry.
Stable(c) == lock = c =>
    \A r \in At(cmd[c].to)' : \E q \in At(cmd[c].to) : q.id = r.id

\* What a step of somebody else leaves of an acquisition.
SameCall(s) ==
    /\ acq'[s].pc = acq[s].pc /\ acq'[s].path = acq[s].path
    /\ acq'[s].id = acq[s].id

\* A server at rest in a step of somebody else.
LEMMA ServerKeeps ==
  ASSUME IInv, RootStep, NEW s \in Servers,
         SameCall(s), Found(s)', leases'[s] = leases[s],
         handle'[s] \in [Ids -> HandleState],
         \A i \in Ids : handle'[s][i] = "closed" <=> handle[s][i] = "closed",
         \A i \in Ids : handle'[s][i] = "store" => HasFile(root'.store[i])
  PROVE  ServerOK(s)'
  <1>1. ServerOK(s) /\ leases[s] \in SUBSET (Paths \X Ids)
    BY DEF IInv, Shape
  <1>2. acq[s].pc \in Resolved => acq[s].id \in Known /\ acq[s].id \in Ids
    BY <1>1 DEF ServerOK, IInv, Shape, Known, Root, Record
  <1>3. \A l \in leases[s] : l[2] \in Ids
    BY <1>1
  <1>4. \A i \in Ids : handle'[s][i] # "closed" => i \in Known' /\ Present(i)'
    BY <1>1 DEF ServerOK, RootStep
  <1>5. /\ acq[s].pc # "idle" => acq[s].path \in Paths
        /\ acq[s].pc \in Resolved => acq[s].id \in Known'
        /\ acq[s].pc \in Looking => handle'[s][acq[s].id] = "closed"
        /\ acq[s].pc = "opened" =>
              /\ handle'[s][acq[s].id] # "closed"
              /\ \A l \in leases[s] : l[2] # acq[s].id
    BY <1>1, <1>2 DEF ServerOK, RootStep, Looking, Resolved
  <1>6. \A l \in leases[s] : handle'[s][l[2]] # "closed"
    BY <1>1, <1>3 DEF ServerOK
  <1>. QED  BY <1>4, <1>5, <1>6 DEF ServerOK, SameCall

\* Where files only come, what was found is there.
LEMMA FoundKeeps ==
  ASSUME IInv, NEW s \in Servers, acq'[s] = acq[s],
         \A i \in Known : HasFile(root.store[i]) => HasFile(root'.store[i])
  PROVE  SameCall(s) /\ Found(s)'
  <1>1. ServerOK(s)
    BY DEF IInv
  <1>. QED  BY <1>1 DEF ServerOK, Found, SameCall, Looking, Resolved

\* A command at rest in a step of somebody else.
LEMMA CommandKeeps ==
  ASSUME IInv, RootStep, NEW c \in Commands, Spared(c), Stable(c),
         cmd'[c] = cmd[c], lock' = c <=> lock = c
  PROVE  CommandOK(c)'
  <1>1. CommandOK(c) /\ root.issued \in Nat /\ root'.issued \in Nat
    BY DEF IInv, Shape, RootStep, Root
  <1>2. /\ cmd[c].pc \in Moving =>
              /\ cmd[c].id \in Known' /\ cmd[c].gone \in Known' \cup {NoId}
              /\ cmd[c].to \in Paths
        /\ lock' = c <=> cmd[c].pc \in Holding
    BY <1>1 DEF CommandOK, RootStep
  <1>3. lock' = c => \A r \in At(cmd[c].to)' : r.id \in {cmd[c].gone, cmd[c].id}
    BY <1>1 DEF CommandOK, Stable
  <1>4. cmd[c].pc \in Importing =>
          /\ cmd[c].id \in Ids /\ cmd[c].id <= root'.issued
          /\ cmd[c].id \notin Known' /\ cmd[c].to \in Paths
    BY <1>1 DEF CommandOK, Spared, RootStep, Ids
  <1>5. cmd[c].pc = "checked-copy" => root'.store[cmd[c].id] \in {"empty", "memory"}
    BY <1>1 DEF CommandOK, Spared, Importing
  <1>6. At(cmd[c].to)' = {r \in root'.records : r.path = cmd[c].to}
    BY DEF At
  <1>. QED  BY <1>2, <1>3, <1>4, <1>5 DEF CommandOK, At

\* A step of server s: it may only add to the root.
LEMMA ServerMoves ==
  ASSUME IInv, RootStep, NEW s \in Servers, UNCHANGED <<crew, lock, cmd>>,
         \A c \in Commands : Spared(c) /\ Stable(c),
         \A i \in Ids : HasFile(root.store[i]) => HasFile(root'.store[i]),
         NEW a \in Acquisition, acq' = [acq EXCEPT ![s] = a],
         NEW h \in [Ids -> HandleState], handle' = [handle EXCEPT ![s] = h],
         NEW L \in SUBSET (Paths \X Ids), leases' = [leases EXCEPT ![s] = L],
         ServerOK(s)'
  PROVE  IInv'
  <1>1. Shape'
    BY DEF IInv, Shape, RootStep
  <1>2. ASSUME NEW t \in Servers PROVE ServerOK(t)'
    <2>1. CASE t # s
      <3>1. acq'[t] = acq[t] /\ handle'[t] = handle[t] /\ leases'[t] = leases[t]
        BY <2>1 DEF IInv, Shape
      <3>2. handle[t] \in [Ids -> HandleState] /\ ServerOK(t)
        BY DEF IInv, Shape
      <3>3. \A i \in Ids : handle'[t][i] = "store" => HasFile(root'.store[i])
        BY <3>1, <3>2 DEF ServerOK
      <3>4. Known \subseteq Ids
        BY DEF IInv, Shape, Known, Root, Record
      <3>5. SameCall(t) /\ Found(t)'
        BY <3>1, <3>4, FoundKeeps
      <3>. QED  BY <3>1, <3>2, <3>3, <3>5, ServerKeeps
    <2>. QED  BY <2>1
  <1>3. \A c \in Commands : CommandOK(c)'
    BY CommandKeeps
  <1>4. OwnIds'
    BY DEF IInv, OwnIds
  <1>. QED  BY <1>1, <1>2, <1>3, <1>4 DEF IInv, RootStep

LEMMA RootSame ==
  ASSUME IInv, root' = root
  PROVE  /\ RootStep
         /\ \A c \in Commands : Spared(c) /\ (UNCHANGED cmd => Stable(c))
         /\ \A i \in Ids : HasFile(root.store[i]) => HasFile(root'.store[i])
  <1>1. RootStep
    BY DEF IInv, Shape, RootStep, AtRest, Known, Present, Root
  <1>2. ASSUME NEW c \in Commands
        PROVE  Spared(c) /\ (UNCHANGED cmd => Stable(c))
    BY DEF IInv, CommandOK, Spared, Stable, Known, At
  <1>. QED  BY <1>1, <1>2

---------------------------------------------------------------------------
(* The steps of a server.                                                  *)

LEMMA TypesOf ==
  ASSUME IInv, NEW s \in Servers
  PROVE  /\ acq[s] \in Acquisition /\ handle[s] \in [Ids -> HandleState]
         /\ leases[s] \in SUBSET (Paths \X Ids) /\ ServerOK(s)
         /\ acq[s].path \in Paths \cup {NoPath} /\ acq[s].id \in Ids \cup {NoId}
         /\ Known \subseteq Ids /\ root.records \subseteq Record
         /\ acq = [acq EXCEPT ![s] = acq[s]]
         /\ handle = [handle EXCEPT ![s] = handle[s]]
         /\ leases = [leases EXCEPT ![s] = leases[s]]
  BY DEF IInv, Shape, Acquisition, Known, Root, Record

\* A step that only moves the acquisition on.
LEMMA AcquireMoves ==
  ASSUME IInv, RootStep, NEW s \in Servers,
         UNCHANGED <<crew, lock, handle, leases, cmd>>,
         \A c \in Commands : Spared(c) /\ Stable(c),
         \A i \in Ids : HasFile(root.store[i]) => HasFile(root'.store[i]),
         NEW a \in Acquisition, acq' = [acq EXCEPT ![s] = a],
         a.pc # "opened",
         a.pc # "idle" => a.path \in Paths,
         a.pc \in Resolved => a.id \in Known',
         a.pc \in Looking => handle[s][a.id] = "closed",
         a.pc \in Looking /\ a.init /\ ~a.moved => HasFile(root'.store[a.id])
  PROVE  IInv'
  <1>1. acq'[s] = a /\ a.pc # "opened"
    BY DEF IInv, Shape
  <1>2. /\ handle[s] \in [Ids -> HandleState] /\ ServerOK(s)
        /\ leases[s] \in SUBSET (Paths \X Ids)
    BY DEF IInv, Shape
  <1>3. \A i \in Ids : handle[s][i] # "closed" => i \in Known' /\ Present(i)'
    BY <1>2 DEF ServerOK, RootStep
  <1>4. \A i \in Ids : handle[s][i] = "store" => HasFile(root'.store[i])
    BY <1>2 DEF ServerOK
  <1>5. \A l \in leases[s] : handle[s][l[2]] # "closed"
    BY <1>2 DEF ServerOK
  <1>6. ServerOK(s)'
    BY <1>1, <1>3, <1>4, <1>5 DEF ServerOK, Found
  <1>. QED  BY <1>2, <1>6, ServerMoves, TypesOf

\* ... before it looks for the file.
LEMMA LookupMoves ==
  ASSUME IInv, RootStep, NEW s \in Servers,
         UNCHANGED <<crew, lock, handle, leases, cmd>>,
         \A c \in Commands : Spared(c) /\ Stable(c),
         \A i \in Ids : HasFile(root.store[i]) => HasFile(root'.store[i]),
         NEW a \in Acquisition, acq' = [acq EXCEPT ![s] = a],
         a.pc \in {"idle", "register", "converge", "resolved"},
         a.pc # "idle" => a.path \in Paths,
         a.pc = "resolved" => a.id \in Known'
  PROVE  IInv'
  BY AcquireMoves DEF Looking, Resolved

\* Adding an entry for a path that has none, under the next id.
LEMMA EntryAdded ==
  ASSUME IInv, lock = NoOne, UNCHANGED cmd, NEW p \in Paths, At(p) = {},
         root.issued + 1 \in Ids,
         NEW r \in Record, r.id = root.issued + 1, r.path = p, r.init = FALSE,
         root' = [root EXCEPT !.issued = root.issued + 1,
                              !.records = root.records \cup {r}]
  PROVE  /\ RootStep
         /\ \A c \in Commands : Spared(c) /\ Stable(c)
         /\ \A i \in Ids : HasFile(root.store[i]) => HasFile(root'.store[i])
         /\ At(p)' = {r}
  <1>1. /\ root \in Root /\ root.issued \in Nat
        /\ root'.store = root.store /\ root'.archive = root.archive
        /\ root'.exists = root.exists
        /\ root'.records = root.records \cup {r} /\ root'.issued = root.issued + 1
    BY DEF IInv, Shape, Root
  <1>2. root' \in Root
    <2>1. root.records \cup {r} \in SUBSET Record /\ root.issued + 1 \in 0 .. MaxIds
      BY <1>1 DEF Root, Ids
    <2>. QED  BY <1>1, <2>1 DEF Root
  <1>3. \A q \in root.records : q.id <= root.issued /\ q.id \in Ids /\ q.path # p
    BY DEF IInv, AtRest, At, Shape, Root, Record
  <1>4. \A q \in root.records : q.id # r.id
    BY <1>1, <1>3 DEF Ids
  <1>5. root.store[r.id] = "none"
    BY <1>1 DEF IInv, AtRest
  <1>6. AtRest(root)'
    <2>1. \A x, y \in root'.records :
             x.id = y.id \/ (x.path = y.path /\ y.path # NoPath) => x = y
      BY <1>1, <1>3, <1>4 DEF IInv, AtRest
    <2>2. \A x \in root'.records :
            /\ x.id <= root'.issued
            /\ root'.store[x.id] # "partial"
            /\ x.init => HasFile(root'.store[x.id]) \/ HasFile(root'.archive[x.id])
      <3>1. ASSUME NEW x \in root.records
            PROVE  /\ x.id <= root.issued + 1
                   /\ root.store[x.id] # "partial"
                   /\ x.init => HasFile(root.store[x.id]) \/ HasFile(root.archive[x.id])
        BY <1>1, <1>3 DEF IInv, AtRest, Ids
      <3>2. /\ r.id <= root.issued + 1 /\ ~r.init
            /\ root.store[r.id] # "partial"
        BY <1>1, <1>5
      <3>. QED  BY <1>1, <3>1, <3>2
    <2>3. \A i \in Ids : i > root'.issued => root'.store[i] = "none"
      BY <1>1 DEF IInv, AtRest, Ids
    <2>4. \A k \in Ids : root'.archive[k] # "partial"
      BY <1>1 DEF IInv, AtRest
    <2>. QED  BY <2>1, <2>2, <2>3, <2>4 DEF AtRest
  <1>7. Known' = Known \cup {r.id}
    BY <1>1 DEF Known
  <1>8. RootStep
    BY <1>1, <1>2, <1>6, <1>7 DEF RootStep, Present
  <1>9. ASSUME NEW c \in Commands PROVE Spared(c) /\ Stable(c)
    <2>1. lock # c
      BY NoValuesAssumption
    <2>2. Spared(c)
      BY <1>1, <1>7 DEF Spared, IInv, CommandOK, Ids
    <2>. QED  BY <2>1, <2>2 DEF Stable
  <1>10. At(p)' = {r}
    BY <1>1, <1>3 DEF At
  <1>. QED  BY <1>1, <1>8, <1>9, <1>10

LEMMA LookupKeeps ==
  ASSUME IInv, NEW s \in Servers, NEW p \in Paths, UNCHANGED crew, Lookup(s, p)
  PROVE  IInv'
  <1>. DEFINE a == acq'[s]
  <1>1. /\ root' = [root EXCEPT !.exists = TRUE] /\ root \in Root
        /\ UNCHANGED <<crew, lock, handle, leases, cmd>>
    BY DEF Lookup, IInv, Shape
  <1>2. /\ root' \in Root /\ root'.records = root.records
        /\ root'.store = root.store /\ root'.archive = root.archive
        /\ root'.issued = root.issued
    BY <1>1 DEF Root
  <1>3. Known' = Known /\ \A q : At(q)' = At(q)
    BY <1>2 DEF Known, At
  <1>4. RootStep
    BY <1>2, <1>3 DEF RootStep, AtRest, IInv, Shape, Root, Present
  <1>5. \A c \in Commands : Spared(c) /\ Stable(c)
    BY <1>1, <1>2, <1>3 DEF Spared, Stable, IInv, CommandOK, At
  <1>6. /\ acq' = [acq EXCEPT ![s] = a] /\ a \in Acquisition
        /\ a.pc \in {"register", "resolved"}
        /\ a.pc # "idle" => a.path \in Paths
        /\ a.pc = "resolved" => a.id \in Known
    <2>1. CASE At(p) = {}
      <3>1. acq' = [acq EXCEPT ![s] = [NoAcq EXCEPT !.pc = "register", !.path = p]]
        BY <2>1 DEF Lookup
      <3>. QED  BY <3>1 DEF NoAcq, Acquisition, IInv, Shape
    <2>2. CASE At(p) # {}
      <3>1. PICK r \in At(p) :
              acq' = [acq EXCEPT ![s] = [pc |-> "resolved", path |-> p,
                                         id |-> r.id, init |-> r.init,
                                         moved |-> FALSE]]
        BY <2>2 DEF Lookup
      <3>2. r \in root.records /\ r \in Record
        BY <1>1 DEF At, Root
      <3>. QED  BY <3>1, <3>2 DEF Acquisition, IInv, Shape, Record, Known, Resolved
    <2>. QED  BY <2>1, <2>2
  <1>. HIDE DEF a
  <1>. QED  BY <1>1, <1>2, <1>3, <1>4, <1>5, <1>6, LookupMoves

LEMMA RegisterKeeps ==
  ASSUME IInv, NEW s \in Servers, UNCHANGED crew, Register(s)
  PROVE  IInv'
  <1>. DEFINE p == acq[s].path
              i == root.issued + 1
              r == [id |-> i, path |-> p, init |-> FALSE]
              a == [acq[s] EXCEPT !.pc = "converge"]
  <1>1. /\ acq[s].pc = "register" /\ lock = NoOne /\ p \in Paths
        /\ UNCHANGED <<lock, handle, leases, cmd>>
        /\ acq' = [acq EXCEPT ![s] = a]
    BY TypesOf DEF Register, Free, ServerOK
  <1>2. a \in Acquisition /\ a.pc = "converge" /\ a.path = p
    BY TypesOf DEF Acquisition
  <1>3. /\ RootStep /\ \A c \in Commands : Spared(c) /\ Stable(c)
        /\ \A j \in Ids : HasFile(root.store[j]) => HasFile(root'.store[j])
    <2>1. CASE At(p) # {}
      BY <1>1, <2>1, RootSame DEF Register
    <2>2. CASE At(p) = {}
      <3>1. /\ i <= crew.ids
            /\ root' = [root EXCEPT !.issued = i, !.records = @ \cup {r}]
        BY <2>2 DEF Register
      <3>2. i \in Ids
        BY <3>1, BoundsAssumption DEF IInv, Shape, Root, Ids
      <3>3. r \in Record
        BY <1>1, <3>2 DEF Record
      <3>. QED  BY <1>1, <2>2, <3>1, <3>2, <3>3, EntryAdded
    <2>. QED  BY <2>1, <2>2
  <1>. HIDE DEF a
  <1>. QED  BY <1>1, <1>2, <1>3, LookupMoves

LEMMA ConvergeKeeps ==
  ASSUME IInv, NEW s \in Servers, UNCHANGED crew, Converge(s)
  PROVE  IInv'
  <1>. DEFINE a == acq'[s]
  <1>1. /\ acq[s].pc = "converge" /\ UNCHANGED <<root, lock, handle, leases, cmd>>
        /\ acq[s].path \in Paths
    BY TypesOf DEF Converge, ServerOK
  <1>2. /\ acq' = [acq EXCEPT ![s] = a] /\ a \in Acquisition
        /\ a.pc \in {"idle", "resolved"}
        /\ a.pc # "idle" => a.path \in Paths
        /\ a.pc = "resolved" => a.id \in Known
    <2>1. CASE At(acq[s].path) = {}
      <3>1. acq' = [acq EXCEPT ![s] = NoAcq]
        BY <2>1 DEF Converge
      <3>. QED  BY <3>1 DEF NoAcq, Acquisition, IInv, Shape
    <2>2. CASE At(acq[s].path) # {}
      <3>1. PICK r \in At(acq[s].path) :
              acq' = [acq EXCEPT ![s] = [acq[s] EXCEPT !.pc = "resolved",
                                           !.id = r.id, !.init = r.init]]
        BY <2>2 DEF Converge
      <3>2. r \in root.records /\ r \in Record
        BY DEF At, Root, IInv, Shape
      <3>3. /\ a = [acq[s] EXCEPT !.pc = "resolved", !.id = r.id, !.init = r.init]
            /\ acq[s] \in Acquisition
        BY <3>1 DEF IInv, Shape
      <3>4. r.id \in Ids /\ r.init \in BOOLEAN /\ r.id \in Known
        BY <3>2 DEF Record, Known
      <3>5. acq' = [acq EXCEPT ![s] = a]
        BY <3>1, <3>3
      <3>. HIDE DEF a
      <3>6. a \in Acquisition /\ a.pc = "resolved" /\ a.path = acq[s].path /\ a.id = r.id
        BY <3>3, <3>4 DEF Acquisition, Resolved
      <3>. QED  BY <1>1, <3>4, <3>5, <3>6
    <2>. QED  BY <2>1, <2>2
  <1>3. Known' = Known
    BY <1>1 DEF Known
  <1>. HIDE DEF a
  <1>. QED  BY <1>1, <1>2, <1>3, RootSame, LookupMoves

\* A store or an archived store of a registered id gets a content, or its
\* directory is made.
LEMMA ContentSet ==
  ASSUME IInv, UNCHANGED cmd, NEW i \in Known,
         NEW x \in {"bare", "empty", "memory"},
         \/ root' = [root EXCEPT !.store[i] = x]
         \/ root' = [root EXCEPT !.archive[i] = x] /\ x # "bare",
         x = "bare" => root.store[i] = "none"
  PROVE  /\ RootStep
         /\ \A c \in Commands : Spared(c) /\ Stable(c)
         /\ \A j \in Ids : HasFile(root.store[j]) => HasFile(root'.store[j])
         /\ root' = [root EXCEPT !.store[i] = x] /\ x # "bare" =>
               HasFile(root'.store[i])
  <1>1. /\ root \in Root /\ i \in Ids /\ \A j \in Known : j \in Ids
        /\ x \in Content /\ x \notin {"none", "partial"}
        /\ (x # "bare" => HasFile(x)) /\ ~HasFile("none")
    BY DEF IInv, Shape, Root, Known, Record, Content, HasFile
  <1>2. /\ root'.records = root.records /\ root'.issued = root.issued
        /\ root'.exists = root.exists
        /\ root'.store \in [Ids -> Content] /\ root'.archive \in [Ids -> Content]
        /\ \A j \in Ids : \/ root'.store[j] = root.store[j]
                          \/ (j = i /\ root'.store[j] = x)
        /\ \A j \in Ids : \/ root'.archive[j] = root.archive[j]
                          \/ (j = i /\ root'.archive[j] = x /\ x # "bare")
        /\ root' = [root EXCEPT !.store[i] = x] => root'.store[i] = x
    <2>1. CASE root' = [root EXCEPT !.store[i] = x]
      BY <1>1, <2>1 DEF Root
    <2>2. CASE root' = [root EXCEPT !.archive[i] = x]
      BY <1>1, <2>2 DEF Root
    <2>. QED  BY <2>1, <2>2
  <1>3. root' \in Root
    <2>1. root' = [root EXCEPT !.store = root'.store, !.archive = root'.archive]
      BY <1>1 DEF Root
    <2>. QED  BY <1>1, <1>2, <2>1 DEF Root
  <1>4. Known' = Known /\ \A q : At(q)' = At(q)
    BY <1>2 DEF Known, At
  <1>5. \A j \in Known : Present(j) => Present(j)'
    BY <1>1, <1>2 DEF Present
  <1>6. i <= root.issued
    BY DEF IInv, AtRest, Known
  <1>7. AtRest(root)'
    <2>1. \A r \in root.records : r.id \in Ids
      BY <1>1 DEF Root, Record
    <2>2. \A r \in root'.records :
            /\ r.id <= root'.issued
            /\ root'.store[r.id] # "partial"
            /\ r.init => HasFile(root'.store[r.id]) \/ HasFile(root'.archive[r.id])
      BY <1>1, <1>2, <2>1 DEF IInv, AtRest
    <2>3. \A j \in Ids : j > root'.issued => root'.store[j] = "none"
      BY <1>1, <1>2, <1>6 DEF IInv, AtRest, Ids, Root
    <2>. QED  BY <1>2, <2>2, <2>3 DEF IInv, AtRest
  <1>8. RootStep
    BY <1>1, <1>2, <1>3, <1>4, <1>5, <1>7 DEF RootStep, Root
  <1>9. ASSUME NEW c \in Commands PROVE Spared(c) /\ Stable(c)
    <2>1. CommandOK(c)
      BY DEF IInv
    <2>2. Spared(c)
      BY <1>2, <1>4, <2>1 DEF Spared, CommandOK
    <2>. QED  BY <1>4, <2>2 DEF Stable, At
  <1>. QED  BY <1>1, <1>2, <1>8, <1>9

\* A call gets its lease: its id is registered and its handle open.
LEMMA LeaseTaken ==
  ASSUME IInv, RootStep, NEW s \in Servers, UNCHANGED <<crew, lock, cmd>>,
         \A c \in Commands : Spared(c) /\ Stable(c),
         \A i \in Ids : HasFile(root.store[i]) => HasFile(root'.store[i]),
         acq[s].pc \in Resolved,
         acq' = [acq EXCEPT ![s] = NoAcq], Lease(s),
         NEW h \in [Ids -> HandleState], handle' = [handle EXCEPT ![s] = h],
         h[acq[s].id] # "closed",
         \A i \in Ids : h[i] # "closed" => i \in Known' /\ Present(i)',
         \A i \in Ids : h[i] = "store" => HasFile(root'.store[i]),
         \A l \in leases[s] : h[l[2]] # "closed"
  PROVE  IInv'
  <1>. DEFINE L == leases[s] \cup {<<acq[s].path, acq[s].id>>}
  <1>1. acq[s].path \in Paths /\ acq[s].id \in Ids
    BY TypesOf DEF ServerOK, Looking, Resolved
  <1>2. L \in SUBSET (Paths \X Ids) /\ leases' = [leases EXCEPT ![s] = L]
    BY <1>1, TypesOf DEF Lease
  <1>3. NoAcq \in Acquisition /\ NoAcq.pc = "idle"
    BY DEF NoAcq, Acquisition
  <1>4. acq'[s] = NoAcq /\ handle'[s] = h /\ leases'[s] = L
    BY <1>2 DEF IInv, Shape
  <1>5. \A l \in L : h[l[2]] # "closed"
    OBVIOUS
  <1>. HIDE DEF L
  <1>6. ServerOK(s)'
    BY <1>3, <1>4, <1>5 DEF ServerOK, Found, Looking, Resolved
  <1>. QED  BY <1>2, <1>3, <1>6, ServerMoves

LEMMA CacheHitKeeps ==
  ASSUME IInv, NEW s \in Servers, UNCHANGED crew, CacheHit(s)
  PROVE  IInv'
  <1>1. /\ acq[s].pc = "resolved" /\ handle[s][acq[s].id] # "closed" /\ Lease(s)
        /\ acq' = [acq EXCEPT ![s] = NoAcq] /\ UNCHANGED <<root, lock, handle, cmd>>
    BY DEF CacheHit
  <1>2. ServerOK(s) /\ handle[s] \in [Ids -> HandleState]
    BY TypesOf
  <1>3. RootStep
    BY <1>1, RootSame
  <1>4. \A i \in Ids : handle[s][i] # "closed" => i \in Known' /\ Present(i)'
    BY <1>2, <1>3 DEF ServerOK, RootStep
  <1>5. \A i \in Ids : handle[s][i] = "store" => HasFile(root'.store[i])
    BY <1>1, <1>2 DEF ServerOK
  <1>6. \A l \in leases[s] : handle[s][l[2]] # "closed"
    BY <1>2 DEF ServerOK
  <1>7. handle' = [handle EXCEPT ![s] = handle[s]]
    BY <1>1, TypesOf
  <1>8. acq[s].pc \in Resolved
    BY <1>1 DEF Resolved
  <1>. QED  BY <1>1, <1>2, <1>3, <1>4, <1>5, <1>6, <1>7, <1>8, RootSame, LeaseTaken

LEMMA StatStoreKeeps ==
  ASSUME IInv, NEW s \in Servers, UNCHANGED crew, StatStore(s)
  PROVE  IInv'
  <1>. DEFINE a == [acq[s] EXCEPT !.pc = "found"]
  <1>1. /\ acq[s].pc = "resolved" /\ UNCHANGED <<root, lock, handle, leases, cmd>>
        /\ acq[s].init => HasFile(root.store[acq[s].id])
        /\ acq' = [acq EXCEPT ![s] = a]
    BY DEF StatStore
  <1>2. /\ a \in Acquisition /\ a.pc = "found" /\ a.id = acq[s].id
        /\ a.path = acq[s].path /\ a.init = acq[s].init
    BY TypesOf DEF Acquisition, Looking, Resolved
  <1>. HIDE DEF a
  <1>3. a.path \in Paths /\ a.id \in Known
    BY <1>1, <1>2, TypesOf DEF ServerOK, Resolved
  <1>4. Known' = Known
    BY <1>1 DEF Known
  <1>5. /\ a.pc \in Looking /\ a.init /\ ~a.moved => HasFile(root'.store[a.id])
        /\ handle[s][a.id] = "closed"
    BY <1>1, <1>2 DEF StatStore
  <1>. QED  BY <1>1, <1>2, <1>3, <1>4, <1>5, RootSame, AcquireMoves

LEMMA MakeStoreDirKeeps ==
  ASSUME IInv, NEW s \in Servers, UNCHANGED crew, MakeStoreDir(s)
  PROVE  IInv'
  <1>. DEFINE i == acq[s].id
              a == [acq[s] EXCEPT !.pc = "made"]
  <1>1. /\ acq[s].pc = "found" /\ UNCHANGED <<lock, handle, leases, cmd>>
        /\ root' = [root EXCEPT !.store[i] = IF @ = "none" THEN "bare" ELSE @]
        /\ acq' = [acq EXCEPT ![s] = a]
    BY DEF MakeStoreDir
  <1>2. /\ a \in Acquisition /\ a.pc = "made" /\ a.id = i
        /\ a.path = acq[s].path /\ a.init = acq[s].init /\ a.moved = acq[s].moved
    BY TypesOf DEF Acquisition, Looking, Resolved
  <1>. HIDE DEF a
  <1>3. a.path \in Paths /\ i \in Known /\ i \in Ids /\ root \in Root
    BY <1>1, <1>2, TypesOf DEF ServerOK, Looking, Resolved, IInv, Shape
  <1>4. /\ RootStep /\ \A c \in Commands : Spared(c) /\ Stable(c)
        /\ \A j \in Ids : HasFile(root.store[j]) => HasFile(root'.store[j])
    <2>1. CASE root.store[i] = "none"
      <3>1. root' = [root EXCEPT !.store[i] = "bare"]
        BY <1>1, <2>1
      <3>. QED  BY <1>1, <1>3, <2>1, <3>1, ContentSet
    <2>2. CASE root.store[i] # "none"
      <3>1. root' = root
        BY <1>1, <1>3, <2>2 DEF Root
      <3>. QED  BY <1>1, <3>1, RootSame
    <2>. QED  BY <2>1, <2>2
  <1>5. /\ a.init /\ ~a.moved => HasFile(root'.store[a.id])
        /\ handle[s][a.id] = "closed"
    BY <1>1, <1>2, <1>3, <1>4, TypesOf DEF ServerOK, Found, Looking
  <1>6. a.id \in Known'
    BY <1>2, <1>3, <1>4 DEF RootStep
  <1>. QED  BY <1>1, <1>2, <1>3, <1>4, <1>5, <1>6, TypesOf, AcquireMoves

LEMMA OpenKeeps ==
  ASSUME IInv, NEW s \in Servers, UNCHANGED crew, Open(s)
  PROVE  IInv'
  <1>. DEFINE i == acq[s].id
              x == Opened(root.store[i])
              h == [j \in Ids |->
                      CASE j = i -> "store"
                        [] j # i /\ (\E l \in leases[s] : l[2] = j) -> handle[s][j]
                        [] OTHER -> "closed"]
  <1>1. /\ acq[s].pc = "made" /\ root' = [root EXCEPT !.store[i] = x]
        /\ handle' = [handle EXCEPT ![s] = h] /\ UNCHANGED <<lock, cmd>>
        /\ \/ Lease(s) /\ acq' = [acq EXCEPT ![s] = NoAcq]
           \/ /\ acq' = [acq EXCEPT ![s] = [acq[s] EXCEPT !.pc = "opened"]]
              /\ UNCHANGED leases
    BY DEF Open, Cache
  <1>2. ServerOK(s) /\ handle[s] \in [Ids -> HandleState] /\ acq[s] \in Acquisition
        /\ leases[s] \in SUBSET (Paths \X Ids)
    BY TypesOf
  <1>3. i \in Known /\ i \in Ids /\ acq[s].pc \in Resolved
    BY <1>1, TypesOf DEF ServerOK, Looking, Resolved
  <1>4. x \in {"empty", "memory"}
    BY DEF Opened
  <1>. HIDE DEF x
  <1>5. /\ RootStep /\ \A c \in Commands : Spared(c) /\ Stable(c)
        /\ \A j \in Ids : HasFile(root.store[j]) => HasFile(root'.store[j])
        /\ HasFile(root'.store[i])
    BY <1>1, <1>3, <1>4, ContentSet
  <1>6. h \in [Ids -> HandleState]
    BY <1>2 DEF HandleState
  <1>7. h[i] = "store" /\ \A j \in Ids : j # i /\ h[j] # "closed" => h[j] = handle[s][j]
    BY <1>3
  <1>8. \A l \in leases[s] : l[2] # i /\ l[2] \in Ids /\ handle[s][l[2]] # "closed"
    BY <1>1, <1>2 DEF ServerOK, Looking
  <1>9. \A l \in leases[s] : h[l[2]] # "closed"
    BY <1>8
  <1>. HIDE DEF h
  <1>10. \A j \in Ids : h[j] # "closed" => j \in Known' /\ Present(j)'
    <2>. TAKE j \in Ids
    <2>1. CASE j = i
      BY <1>3, <1>5, <2>1 DEF RootStep, Present
    <2>2. CASE j # i
      BY <1>2, <1>5, <1>7, <2>2 DEF RootStep, ServerOK
    <2>. QED  BY <2>1, <2>2
  <1>11. \A j \in Ids : h[j] = "store" => HasFile(root'.store[j])
    BY <1>2, <1>5, <1>7 DEF ServerOK
  <1>12. CASE Lease(s) /\ acq' = [acq EXCEPT ![s] = NoAcq]
    BY <1>1, <1>3, <1>5, <1>6, <1>7, <1>9, <1>10, <1>11, <1>12, LeaseTaken
  <1>13. CASE acq' = [acq EXCEPT ![s] = [acq[s] EXCEPT !.pc = "opened"]]
              /\ UNCHANGED leases
    <2>. DEFINE a == [acq[s] EXCEPT !.pc = "opened"]
    <2>1. /\ a \in Acquisition /\ a.pc = "opened" /\ a.id = i /\ a.path = acq[s].path
          /\ a.path \in Paths /\ a.pc \notin Looking
      BY <1>1, <1>2 DEF Acquisition, ServerOK, Looking, Resolved
    <2>. HIDE DEF a
    <2>2. acq' = [acq EXCEPT ![s] = a]
      BY <1>13 DEF a
    <2>3. acq'[s] = a /\ handle'[s] = h /\ leases'[s] = leases[s]
      BY <1>1, <1>13, <2>2 DEF IInv, Shape
    <2>4. ServerOK(s)'
      BY <1>3, <1>5, <1>7, <1>8, <1>9, <1>10, <1>11, <2>1, <2>3
         DEF ServerOK, RootStep, Found
    <2>5. leases' = [leases EXCEPT ![s] = leases[s]]
      BY <1>13, TypesOf
    <2>. QED  BY <1>1, <1>2, <1>5, <1>6, <2>1, <2>2, <2>4, <2>5, ServerMoves
  <1>. QED  BY <1>1, <1>12, <1>13

LEMMA MarkKeeps ==
  ASSUME IInv, NEW s \in Servers, UNCHANGED crew, MarkInitialized(s)
  PROVE  IInv'
  <1>. DEFINE i == acq[s].id
              Mark(r) == IF r.id = i /\ r.path # NoPath THEN [r EXCEPT !.init = TRUE]
                                                        ELSE r
  <1>1. /\ acq[s].pc = "opened" /\ lock = NoOne /\ Lease(s)
        /\ root' = [root EXCEPT !.records = {Mark(r) : r \in @}]
        /\ acq' = [acq EXCEPT ![s] = NoAcq] /\ UNCHANGED <<lock, handle, cmd>>
    BY DEF MarkInitialized, Free
  <1>2. /\ ServerOK(s) /\ handle[s] \in [Ids -> HandleState] /\ i \in Ids
        /\ acq[s].pc \in Resolved
    BY <1>1, TypesOf DEF ServerOK, Resolved
  <1>3. /\ root \in Root /\ root'.records = {Mark(r) : r \in root.records}
        /\ root'.store = root.store /\ root'.archive = root.archive
        /\ root'.issued = root.issued
    BY <1>1 DEF IInv, Shape, Root
  <1>4. ASSUME NEW r \in root.records
        PROVE  /\ r \in Record /\ Mark(r) \in Record
               /\ Mark(r).id = r.id /\ Mark(r).path = r.path
               /\ Mark(r).init => r.init \/ r.id = i
    BY <1>3 DEF Root, Record
  <1>. HIDE DEF Mark
  <1>5. root' \in Root
    <2>1. root'.records \in SUBSET Record
      BY <1>3, <1>4
    <2>2. root' = [root EXCEPT !.records = root'.records]
      BY <1>1, <1>3
    <2>. QED  BY <1>3, <2>1, <2>2 DEF Root
  <1>6. Known' = Known
    BY <1>3, <1>4 DEF Known
  <1>7. Present(i)
    BY <1>1, <1>2 DEF ServerOK
  <1>8. AtRest(root)'
    <2>1. \A x, y \in root'.records :
             x.id = y.id \/ (x.path = y.path /\ y.path # NoPath) => x = y
      <3>. SUFFICES ASSUME NEW q \in root.records, NEW r \in root.records,
                           \/ Mark(q).id = Mark(r).id
                           \/ Mark(q).path = Mark(r).path /\ Mark(r).path # NoPath
                    PROVE  Mark(q) = Mark(r)
        BY <1>3
      <3>1. q = r
        BY <1>4 DEF IInv, AtRest
      <3>. QED  BY <3>1
    <2>2. \A x \in root'.records :
            /\ x.id <= root'.issued
            /\ root'.store[x.id] # "partial"
            /\ x.init => HasFile(root'.store[x.id]) \/ HasFile(root'.archive[x.id])
      <3>. SUFFICES ASSUME NEW r \in root.records
                    PROVE  /\ r.id <= root.issued
                           /\ root.store[r.id] # "partial"
                           /\ Mark(r).init =>
                                 HasFile(root.store[r.id]) \/ HasFile(root.archive[r.id])
        BY <1>3, <1>4
      <3>. QED  BY <1>4, <1>7 DEF IInv, AtRest, Present
    <2>3. \A j \in Ids : j > root'.issued => root'.store[j] = "none"
      BY <1>3 DEF IInv, AtRest
    <2>4. \A k \in Ids : root'.archive[k] # "partial"
      BY <1>3 DEF IInv, AtRest
    <2>. QED  BY <2>1, <2>2, <2>3, <2>4 DEF AtRest
  <1>9. RootStep
    BY <1>3, <1>5, <1>6, <1>8 DEF RootStep, Root, Present
  <1>10. ASSUME NEW c \in Commands PROVE Spared(c) /\ Stable(c)
    <2>1. lock # c
      BY <1>1, NoValuesAssumption
    <2>. QED  BY <1>3, <1>6, <2>1 DEF Spared, Stable, IInv, CommandOK
  <1>11. \A j \in Ids : handle[s][j] # "closed" => j \in Known' /\ Present(j)'
    BY <1>2, <1>9 DEF ServerOK, RootStep
  <1>12. \A j \in Ids : handle[s][j] = "store" => HasFile(root'.store[j])
    BY <1>2, <1>3 DEF ServerOK
  <1>13. handle[s][i] # "closed" /\ \A l \in leases[s] : handle[s][l[2]] # "closed"
    BY <1>1, <1>2 DEF ServerOK
  <1>14. handle' = [handle EXCEPT ![s] = handle[s]]
    BY <1>1, TypesOf
  <1>. QED
    BY <1>1, <1>2, <1>3, <1>9, <1>10, <1>11, <1>12, <1>13, <1>14, LeaseTaken

LEMMA FailAcquireKeeps ==
  ASSUME IInv, NEW s \in Servers, UNCHANGED crew, FailAcquire(s)
  PROVE  IInv'
  <1>. DEFINE i == acq[s].id
              h == handle'[s]
  <1>1. /\ acq' = [acq EXCEPT ![s] = NoAcq] /\ UNCHANGED <<root, lock, leases, cmd>>
        /\ \/ acq[s].pc # "opened" /\ handle' = handle
           \/ /\ acq[s].pc = "opened"
              /\ handle' = [handle EXCEPT ![s] = [handle[s] EXCEPT ![i] = "closed"]]
    BY DEF FailAcquire
  <1>2. ServerOK(s) /\ handle[s] \in [Ids -> HandleState]
        /\ leases[s] \in SUBSET (Paths \X Ids)
    BY TypesOf
  <1>3. /\ handle' = [handle EXCEPT ![s] = h] /\ h \in [Ids -> HandleState]
        /\ \A j \in Ids : h[j] = handle[s][j] \/ h[j] = "closed"
        /\ \A j \in Ids : h[j] = handle[s][j] \/ (acq[s].pc = "opened" /\ j = i)
    <2>1. CASE handle' = handle
      BY <1>2, <2>1, TypesOf
    <2>2. CASE /\ acq[s].pc = "opened"
               /\ handle' = [handle EXCEPT ![s] = [handle[s] EXCEPT ![i] = "closed"]]
      <3>1. h = [handle[s] EXCEPT ![i] = "closed"]
        BY <2>2 DEF IInv, Shape
      <3>2. handle' = [handle EXCEPT ![s] = h]
        BY <2>2, <3>1
      <3>. HIDE DEF h
      <3>. QED  BY <1>2, <2>2, <3>1, <3>2 DEF HandleState
    <2>. QED  BY <1>1, <2>1, <2>2
  <1>. HIDE DEF h
  <1>4. NoAcq \in Acquisition /\ NoAcq.pc = "idle"
    BY DEF NoAcq, Acquisition
  <1>5. acq'[s] = NoAcq /\ handle'[s] = h /\ leases'[s] = leases[s]
    BY <1>1, <1>3 DEF IInv, Shape
  <1>6. \A l \in leases[s] : h[l[2]] # "closed"
    BY <1>2, <1>3 DEF ServerOK
  <1>7. RootStep
    BY <1>1, RootSame
  <1>8. \A j \in Ids : h[j] # "closed" => j \in Known' /\ Present(j)'
    BY <1>2, <1>3, <1>7 DEF ServerOK, RootStep
  <1>9. \A j \in Ids : h[j] = "store" => HasFile(root'.store[j])
    BY <1>1, <1>2, <1>3 DEF ServerOK
  <1>10. ServerOK(s)'
    BY <1>4, <1>5, <1>6, <1>8, <1>9 DEF ServerOK, Found, Looking, Resolved
  <1>11. leases' = [leases EXCEPT ![s] = leases[s]]
    BY <1>1, TypesOf
  <1>. QED  BY <1>1, <1>2, <1>3, <1>4, <1>7, <1>10, <1>11, RootSame, ServerMoves

LEMMA WriteKeeps ==
  ASSUME IInv, NEW s \in Servers, UNCHANGED crew, NEW l \in leases[s], Write(s, l)
  PROVE  IInv'
  <1>. DEFINE i == l[2]
  <1>1. ServerOK(s) /\ handle[s] \in [Ids -> HandleState] /\ i \in Ids
    BY TypesOf
  <1>2. i \in Known
    BY <1>1 DEF ServerOK
  <1>3. /\ UNCHANGED <<lock, acq, handle, leases, cmd>>
        /\ \/ root' = [root EXCEPT !.store[i] = "memory"]
           \/ root' = [root EXCEPT !.archive[i] = "memory"]
    BY DEF Write
  <1>4. /\ RootStep /\ \A c \in Commands : Spared(c) /\ Stable(c)
        /\ \A j \in Ids : HasFile(root.store[j]) => HasFile(root'.store[j])
    BY <1>2, <1>3, ContentSet
  <1>5. \A j \in Ids : handle[s][j] = "store" => HasFile(root'.store[j])
    BY <1>1, <1>4 DEF ServerOK
  <1>6. ServerOK(s)'
    <2>1. Known \subseteq Ids
      BY TypesOf
    <2>2. SameCall(s) /\ Found(s)'
      BY <1>3, <1>4, <2>1, FoundKeeps
    <2>. QED  BY <1>1, <1>3, <1>4, <1>5, <2>2, ServerKeeps
  <1>. QED  BY <1>3, <1>4, <1>6, TypesOf, ServerMoves

LEMMA ReleaseKeeps ==
  ASSUME IInv, NEW s \in Servers, UNCHANGED crew, NEW l \in leases[s], Release(s, l)
  PROVE  IInv'
  <1>. DEFINE L == leases[s] \ {l}
  <1>1. /\ UNCHANGED <<root, lock, acq, handle, cmd>>
        /\ leases' = [leases EXCEPT ![s] = L]
    BY DEF Release
  <1>2. L \in SUBSET (Paths \X Ids) /\ L \subseteq leases[s] /\ ServerOK(s)
    BY TypesOf
  <1>3. leases'[s] = L
    BY <1>1 DEF IInv, Shape
  <1>. HIDE DEF L
  <1>4. ServerOK(s)'
    BY <1>1, <1>2, <1>3 DEF ServerOK, Present, Known, Found
  <1>. QED  BY <1>1, <1>2, <1>4, RootSame, TypesOf, ServerMoves

LEMMA RestartKeeps ==
  ASSUME IInv, NEW s \in Servers, UNCHANGED crew, Restart(s)
  PROVE  IInv'
  <1>. DEFINE h == [i \in Ids |-> "closed"]
  <1>1. /\ UNCHANGED <<root, lock, cmd>>
        /\ acq' = [acq EXCEPT ![s] = NoAcq] /\ handle' = [handle EXCEPT ![s] = h]
        /\ leases' = [leases EXCEPT ![s] = {}]
    BY DEF Restart
  <1>2. /\ NoAcq \in Acquisition /\ NoAcq.pc = "idle"
        /\ h \in [Ids -> HandleState] /\ \A i \in Ids : h[i] = "closed"
    BY DEF NoAcq, Acquisition, HandleState
  <1>3. acq'[s] = NoAcq /\ handle'[s] = h /\ leases'[s] = {}
    BY <1>1 DEF IInv, Shape
  <1>. HIDE DEF h
  <1>4. ServerOK(s)'
    BY <1>2, <1>3 DEF ServerOK, Found, Looking, Resolved
  <1>. QED  BY <1>1, <1>2, <1>4, RootSame, ServerMoves

LEMMA ServerStepKeeps ==
  ASSUME IInv, NEW s \in Servers, UNCHANGED crew, ServerStep(s)
  PROVE  IInv'
  BY LookupKeeps, RegisterKeeps, ConvergeKeeps, CacheHitKeeps,
     StatStoreKeeps, MakeStoreDirKeeps, OpenKeeps, MarkKeeps, FailAcquireKeeps, WriteKeeps, ReleaseKeeps, RestartKeeps
     DEF ServerStep

---------------------------------------------------------------------------
(* The steps of a command.                                                 *)

\* A step of command c, whatever becomes of the files that are open.
LEMMA CommandMoves ==
  ASSUME IInv, RootStep, NEW c \in Commands, UNCHANGED <<crew, leases>>,
         acq' \in [Servers -> Acquisition],
         \A s \in Servers : SameCall(s) /\ Found(s)',
         \A b \in Commands \ {c} :
            (Spared(b) /\ Stable(b)) /\ (lock' = b <=> lock = b),
         lock' \in Commands \cup {NoOne},
         NEW m \in Order, cmd' = [cmd EXCEPT ![c] = m], CommandOK(c)',
         m.pc \in Importing =>
            \A b \in Commands \ {c} : cmd[b].pc \in Importing => cmd[b].id # m.id,
         handle' \in [Servers -> [Ids -> HandleState]],
         \A s \in Servers, i \in Ids :
            /\ handle'[s][i] = "closed" <=> handle[s][i] = "closed"
            /\ handle'[s][i] = "store" => HasFile(root'.store[i])
  PROVE  IInv'
  <1>1. Shape'
    BY DEF IInv, Shape, RootStep
  <1>2. \A s \in Servers : ServerOK(s)'
    BY ServerKeeps
  <1>3. \A b \in Commands \ {c} : cmd'[b] = cmd[b]
    BY DEF IInv, Shape
  <1>4. ASSUME NEW b \in Commands PROVE CommandOK(b)'
    BY <1>3, CommandKeeps
  <1>5. cmd'[c] = m
    BY DEF IInv, Shape
  <1>6. OwnIds'
    BY <1>3, <1>5 DEF IInv, OwnIds
  <1>. QED  BY <1>1, <1>2, <1>4, <1>6 DEF IInv, RootStep

\* ... and when nothing that is open is moved.
LEMMA CommandMovesOn ==
  ASSUME IInv, RootStep, NEW c \in Commands, UNCHANGED <<crew, acq, handle, leases>>,
         \A b \in Commands \ {c} :
            (Spared(b) /\ Stable(b)) /\ (lock' = b <=> lock = b),
         lock' \in Commands \cup {NoOne},
         NEW m \in Order, cmd' = [cmd EXCEPT ![c] = m], CommandOK(c)',
         m.pc \in Importing =>
            \A b \in Commands \ {c} : cmd[b].pc \in Importing => cmd[b].id # m.id,
         \A i \in Known : HasFile(root.store[i]) => HasFile(root'.store[i])
  PROVE  IInv'
  <1>1. ASSUME NEW s \in Servers, NEW i \in Ids, handle[s][i] = "store"
        PROVE  HasFile(root'.store[i])
    <2>1. ServerOK(s)
      BY DEF IInv
    <2>2. i \in Known /\ HasFile(root.store[i])
      BY <1>1, <2>1 DEF ServerOK
    <2>. QED  BY <2>2
  <1>2. /\ handle' \in [Servers -> [Ids -> HandleState]]
        /\ acq' \in [Servers -> Acquisition]
    BY DEF IInv, Shape
  <1>3. \A s \in Servers : SameCall(s) /\ Found(s)'
    BY FoundKeeps
  <1>. QED  BY <1>1, <1>2, <1>3, CommandMoves

\* ... and when the root stays as it is.
LEMMA CommandMovesAlone ==
  ASSUME IInv, NEW c \in Commands, UNCHANGED <<crew, root, acq, handle, leases>>,
         \A b \in Commands \ {c} : lock' = b <=> lock = b,
         lock' \in Commands \cup {NoOne},
         NEW m \in Order, cmd' = [cmd EXCEPT ![c] = m], CommandOK(c)',
         m.pc \notin Importing
  PROVE  IInv'
  <1>1. \A b \in Commands \ {c} : cmd'[b] = cmd[b]
    BY DEF IInv, Shape
  <1>2. ASSUME NEW b \in Commands \ {c} PROVE Spared(b) /\ Stable(b)
    <2>1. Spared(b)
      BY RootSame
    <2>2. Stable(b)
      BY <1>1 DEF Stable, At
    <2>. QED  BY <2>1, <2>2
  <1>3. RootStep /\ \A i \in Known : HasFile(root.store[i]) => HasFile(root'.store[i])
    BY RootSame
  <1>. QED  BY <1>2, <1>3, CommandMovesOn

LEMMA CommandTypes ==
  ASSUME IInv, NEW c \in Commands
  PROVE  /\ cmd[c] \in Order /\ CommandOK(c)
         /\ cmd[c].id \in Ids \cup {NoId} /\ cmd[c].gone \in Ids \cup {NoId}
         /\ cmd[c].to \in Paths \cup {NoPath} /\ cmd[c].pc \in {"idle"} \cup Moving \cup Importing
         /\ root \in Root /\ root.issued \in Nat /\ Known \subseteq Ids
         /\ \A r \in root.records : r \in Record /\ r.id \in Ids /\ r.id <= root.issued
  BY DEF IInv, Shape, Order, Root, Record, Known, AtRest

LEMMA Ended ==
  ASSUME IInv, NEW c \in Commands, cmd' = [cmd EXCEPT ![c] = NoCmd], lock' # c
  PROVE  /\ NoCmd \in Order /\ NoCmd.pc = "idle" /\ CommandOK(c)'
         /\ NoCmd.pc \notin Importing
  <1>1. NoCmd \in Order /\ NoCmd.pc = "idle"
    BY DEF NoCmd, Order
  <1>2. cmd'[c] = NoCmd
    BY DEF IInv, Shape
  <1>. QED  BY <1>1, <1>2 DEF CommandOK, Moving, Holding, Importing

LEMMA MoveLookupKeeps ==
  ASSUME IInv, NEW c \in Commands, NEW from \in Paths, NEW to \in Paths,
         UNCHANGED crew, MoveLookup(c, from, to)
  PROVE  IInv'
  <1>1. PICK r \in At(from) :
          cmd' = [cmd EXCEPT ![c] = [NoCmd EXCEPT !.pc = "move", !.from = from,
                                                  !.to = to, !.id = r.id]]
    BY DEF MoveLookup
  <1>. DEFINE m == [NoCmd EXCEPT !.pc = "move", !.from = from, !.to = to, !.id = r.id]
  <1>2. r \in root.records /\ r.id \in Ids /\ r.id \in Known
    BY CommandTypes DEF At, Known
  <1>3. /\ m \in Order /\ m.pc = "move" /\ m.id = r.id /\ m.gone = NoId /\ m.to = to
    BY <1>2 DEF NoCmd, Order, Moving
  <1>4. cmd' = [cmd EXCEPT ![c] = m]
    BY <1>1
  <1>. HIDE DEF m
  <1>5. cmd'[c] = m /\ cmd[c].pc = "idle" /\ UNCHANGED <<root, lock, acq, handle, leases>>
    BY <1>4 DEF MoveLookup, IInv, Shape
  <1>6. lock # c
    BY <1>5, CommandTypes DEF CommandOK, Holding
  <1>7. CommandOK(c)'
    BY <1>2, <1>3, <1>5, <1>6 DEF CommandOK, Moving, Holding, Importing, Known
  <1>8. m.pc \notin Importing /\ lock' \in Commands \cup {NoOne}
    BY <1>3, <1>5 DEF Importing, IInv, Shape
  <1>. QED  BY <1>3, <1>4, <1>5, <1>7, <1>8, CommandMovesAlone

LEMMA MoveCheckKeeps ==
  ASSUME IInv, NEW c \in Commands, UNCHANGED crew, MoveCheck(c)
  PROVE  IInv'
  <1>. DEFINE g == IF At(cmd[c].to) = {} THEN NoId
                   ELSE (CHOOSE r \in At(cmd[c].to) : TRUE).id
              m == [cmd[c] EXCEPT !.pc = "checked", !.gone = g]
  <1>1. /\ cmd[c].pc = "move" /\ UNCHANGED <<root, lock, acq, handle, leases>>
        /\ cmd' = [cmd EXCEPT ![c] = m]
    BY DEF MoveCheck
  <1>2. g \in Known \cup {NoId} /\ g \in Ids \cup {NoId}
    BY CommandTypes DEF At, Known
  <1>. HIDE DEF g
  <1>3. /\ m \in Order /\ m.pc = "checked" /\ m.id = cmd[c].id /\ m.gone = g
        /\ m.to = cmd[c].to
    BY <1>2, CommandTypes DEF Order, Moving
  <1>. HIDE DEF m
  <1>4. cmd'[c] = m
    BY <1>1 DEF IInv, Shape
  <1>5. CommandOK(c) /\ lock # c
    BY <1>1, CommandTypes DEF CommandOK, Holding
  <1>6. CommandOK(c)'
    BY <1>1, <1>2, <1>3, <1>4, <1>5 DEF CommandOK, Moving, Holding, Importing, Known
  <1>7. m.pc \notin Importing /\ lock' \in Commands \cup {NoOne}
    BY <1>1, <1>3 DEF Importing, IInv, Shape
  <1>. QED  BY <1>1, <1>3, <1>6, <1>7, CommandMovesAlone

LEMMA MoveBeginKeeps ==
  ASSUME IInv, NEW c \in Commands, UNCHANGED crew, MoveBegin(c)
  PROVE  IInv'
  <1>. DEFINE m == [cmd[c] EXCEPT !.pc = "begun"]
  <1>1. /\ cmd[c].pc = "checked" /\ lock = NoOne /\ lock' = c
        /\ \A r \in At(cmd[c].to) : r.id \in {cmd[c].gone, cmd[c].id}
        /\ UNCHANGED <<root, acq, handle, leases>> /\ cmd' = [cmd EXCEPT ![c] = m]
    BY DEF MoveBegin, Free
  <1>2. /\ m \in Order /\ m.pc = "begun" /\ m.id = cmd[c].id /\ m.gone = cmd[c].gone
        /\ m.to = cmd[c].to
    BY CommandTypes DEF Order, Moving, Holding
  <1>. HIDE DEF m
  <1>3. cmd'[c] = m /\ CommandOK(c)
    BY <1>1, CommandTypes DEF IInv, Shape
  <1>4. CommandOK(c)'
    BY <1>1, <1>2, <1>3 DEF CommandOK, Moving, Holding, Importing, Known, At
  <1>5. m.pc \notin Importing /\ \A b \in Commands \ {c} : lock' = b <=> lock = b
    BY <1>1, <1>2, NoValuesAssumption DEF Importing
  <1>. QED  BY <1>1, <1>2, <1>4, <1>5, CommandMovesAlone

LEMMA KillKeeps ==
  ASSUME IInv, NEW c \in Commands, UNCHANGED crew, Kill(c)
  PROVE  IInv'
  <1>1. /\ lock' = IF lock = c THEN NoOne ELSE lock
        /\ cmd' = [cmd EXCEPT ![c] = NoCmd] /\ UNCHANGED <<root, acq, handle, leases>>
    BY DEF Kill
  <1>2. /\ lock' # c /\ lock' \in Commands \cup {NoOne}
        /\ \A b \in Commands \ {c} : lock' = b <=> lock = b
    BY <1>1, NoValuesAssumption DEF IInv, Shape
  <1>. QED  BY <1>1, <1>2, Ended, CommandMovesAlone

\* A registered store is moved into the archive or back.
LEMMA FileMoved ==
  ASSUME IInv, NEW c \in Commands, lock = c, NEW i \in Known,
         root' \in Root, root'.records = root.records, root'.issued = root.issued,
         \A j \in Ids \ {i} : /\ root'.store[j] = root.store[j]
                              /\ root'.archive[j] = root.archive[j],
         HasFile(root.store[i]) \/ HasFile(root.archive[i])
            => HasFile(root'.store[i]) \/ HasFile(root'.archive[i]),
         "partial" \notin {root'.store[i], root'.archive[i]}
  PROVE  RootStep /\ \A b \in Commands \ {c} : Spared(b) /\ Stable(b)
  <1>1. root \in Root /\ i \in Ids /\ i <= root.issued
    BY DEF IInv, Shape, Root, Known, Record, AtRest
  <1>3. Known' = Known /\ Known \subseteq Ids
    BY <1>1 DEF Known, Root, Record
  <1>4. \A j \in Known : Present(j) => Present(j)'
    BY <1>1, <1>3 DEF Present
  <1>5. AtRest(root)'
    <2>1. \A r \in root.records :
            /\ r.id <= root.issued
            /\ root'.store[r.id] # "partial"
            /\ r.init => HasFile(root'.store[r.id]) \/ HasFile(root'.archive[r.id])
      <3>. TAKE r \in root.records
      <3>1. /\ r.id \in Ids /\ r.id <= root.issued
            /\ root.store[r.id] # "partial"
            /\ r.init => HasFile(root.store[r.id]) \/ HasFile(root.archive[r.id])
        BY CommandTypes DEF IInv, AtRest
      <3>2. CASE r.id = i
        BY <3>1, <3>2 DEF Present
      <3>3. CASE r.id # i
        BY <3>1, <3>3
      <3>. QED  BY <3>2, <3>3
    <2>2. \A j \in Ids : j > root.issued => root'.store[j] = "none"
      BY <1>1 DEF IInv, AtRest, Ids, Root
    <2>3. \A j \in Ids : root'.archive[j] # "partial"
      BY DEF IInv, AtRest
    <2>. QED  BY <1>1, <2>1, <2>2, <2>3 DEF IInv, AtRest
  <1>6. RootStep
    BY <1>1, <1>3, <1>4, <1>5 DEF RootStep, Root
  <1>7. ASSUME NEW b \in Commands \ {c} PROVE Spared(b) /\ Stable(b)
    BY <1>1, <1>3 DEF Spared, Stable, IInv, CommandOK
  <1>. QED  BY <1>6, <1>7

\* The handles on id i, on the file's new place.
Swapped(i, old, new) ==
    [s \in Servers |-> [handle[s] EXCEPT ![i] = IF @ = old THEN new ELSE @]]

\* The files that the handles on id i are on, after it has been moved.
LEMMA HandlesFollow ==
  ASSUME IInv, NEW i \in Ids, NEW old \in HandleState \ {"closed"},
         NEW new \in HandleState \ {"closed"},
         NEW H, H = Swapped(i, old, new)
  PROVE  /\ H \in [Servers -> [Ids -> HandleState]]
         /\ \A s \in Servers, j \in Ids :
               /\ H[s][j] = "closed" <=> handle[s][j] = "closed"
               /\ j # i => H[s][j] = handle[s][j]
               /\ old # new => H[s][i] # old
  <1>1. ASSUME NEW s \in Servers
        PROVE  /\ H[s] = [handle[s] EXCEPT ![i] = IF @ = old THEN new ELSE @]
               /\ handle[s] \in [Ids -> HandleState]
    BY DEF IInv, Shape, Swapped
  <1>2. ASSUME NEW s \in Servers
        PROVE  /\ H[s] \in [Ids -> HandleState]
               /\ H[s][i] = IF handle[s][i] = old THEN new ELSE handle[s][i]
               /\ \A j \in Ids : j # i => H[s][j] = handle[s][j]
    <2>1. PICK v \in HandleState :
            /\ v = IF handle[s][i] = old THEN new ELSE handle[s][i]
            /\ H[s] = [handle[s] EXCEPT ![i] = v]
      BY <1>1
    <2>2. handle[s] \in [Ids -> HandleState]
      BY <1>1
    <2>. QED  BY <2>1, <2>2
  <1>3. H \in [Servers -> [Ids -> HandleState]]
    BY <1>2 DEF Swapped
  <1>. QED  BY <1>2, <1>3

LEMMA MoveArchiveKeeps ==
  ASSUME IInv, NEW c \in Commands, UNCHANGED crew, MoveArchive(c)
  PROVE  IInv'
  <1>. DEFINE i == cmd[c].gone
              m == [cmd[c] EXCEPT !.pc = "archived"]
  <1>1. /\ cmd[c].pc = "begun" /\ ArchiveRoom(i) /\ UNCHANGED <<lock, leases>>
        /\ cmd' = [cmd EXCEPT ![c] = m]
    BY DEF MoveArchive
  <1>2. /\ m \in Order /\ m.pc = "archived" /\ m.id = cmd[c].id /\ m.gone = i
        /\ m.to = cmd[c].to
    BY CommandTypes DEF Order, Moving, Holding
  <1>. HIDE DEF m
  <1>3. cmd'[c] = m /\ CommandOK(c) /\ lock = c
    BY <1>1, CommandTypes DEF IInv, Shape, CommandOK, Holding
  <1>4. ASSUME root'.records = root.records PROVE CommandOK(c)'
    BY <1>1, <1>2, <1>3, <1>4 DEF CommandOK, Moving, Holding, Importing, Known, At
  <1>5. m.pc \notin Importing /\ lock' \in Commands \cup {NoOne}
    BY <1>1, <1>2 DEF Importing, IInv, Shape
  <1>6. CASE UNCHANGED <<root, handle, acq>>
    BY <1>1, <1>2, <1>4, <1>5, <1>6, CommandMovesAlone
  <1>7. CASE ~UNCHANGED <<root, handle, acq>>
    <2>1. /\ i # NoId /\ root.store[i] # "none" /\ root.archive[i] = "none"
          /\ root' = [root EXCEPT !.archive[i] = root.store[i], !.store[i] = "none"]
          /\ handle' = Follow(i) /\ acq' = Moved(i)
      BY <1>1, <1>7 DEF MoveArchive, ArchiveRoom
    <2>2. i \in Known /\ i \in Ids /\ root \in Root
      BY <1>1, <1>3, <2>1, CommandTypes DEF CommandOK, Moving, Holding
    <2>3. root.store[i] \in Content \ {"none", "partial"} /\ ~HasFile("none")
      BY <2>1, <2>2 DEF Root, IInv, AtRest, Known, HasFile
    <2>4. /\ root' \in Root /\ root'.records = root.records
          /\ root'.issued = root.issued
          /\ root'.store[i] = "none" /\ root'.archive[i] = root.store[i]
          /\ \A j \in Ids \ {i} : /\ root'.store[j] = root.store[j]
                                  /\ root'.archive[j] = root.archive[j]
      BY <2>1, <2>2, <2>3 DEF Root, Content
    <2>5. RootStep /\ \A b \in Commands \ {c} : Spared(b) /\ Stable(b)
      <3>1. "partial" \notin {root'.store[i], root'.archive[i]}
        BY <2>3, <2>4
      <3>2. HasFile(root.store[i]) \/ HasFile(root.archive[i])
               => HasFile(root'.store[i]) \/ HasFile(root'.archive[i])
        BY <2>1, <2>3, <2>4
      <3>. QED  BY <1>3, <2>2, <2>4, <3>1, <3>2, FileMoved
    <2>6. handle' = Swapped(i, "store", "archive")
      BY <2>1 DEF Follow, Swapped
    <2>7. /\ handle' \in [Servers -> [Ids -> HandleState]]
          /\ \A s \in Servers, j \in Ids :
                /\ handle'[s][j] = "closed" <=> handle[s][j] = "closed"
                /\ j # i => handle'[s][j] = handle[s][j]
                /\ handle'[s][i] # "store"
      BY <2>2, <2>6, HandlesFollow DEF HandleState
    <2>9. ASSUME NEW s \in Servers, NEW j \in Ids, handle'[s][j] = "store"
          PROVE  HasFile(root'.store[j])
      <3>1. j # i /\ handle[s][j] = "store"
        BY <2>7, <2>9
      <3>2. HasFile(root.store[j])
        BY <3>1 DEF IInv, ServerOK
      <3>. QED  BY <2>4, <3>1, <3>2
    <2>10. ASSUME NEW s \in Servers
           PROVE  /\ acq'[s] \in Acquisition /\ SameCall(s)
                  /\ \/ acq'[s] = acq[s] /\ (acq[s].id # i \/ acq[s].pc \notin Looking)
                     \/ acq'[s].moved
      <3>1. acq'[s] = IF acq[s].id = i /\ acq[s].pc \in {"found", "made"}
                      THEN [acq[s] EXCEPT !.moved = TRUE] ELSE acq[s]
        BY <2>1 DEF Moved
      <3>2. acq[s] \in Acquisition
        BY TypesOf
      <3>. QED  BY <3>1, <3>2 DEF Acquisition, SameCall, Looking
    <2>11. ASSUME NEW s \in Servers PROVE Found(s)'
      <3>1. CASE acq'[s].moved
        BY <3>1 DEF Found
      <3>2. CASE acq'[s] = acq[s] /\ (acq[s].id # i \/ acq[s].pc \notin Looking)
        <4>1. ServerOK(s) /\ Known \subseteq Ids
          BY TypesOf
        <4>. QED  BY <2>4, <3>2, <4>1 DEF Found, ServerOK, Looking, Resolved
      <3>. QED  BY <2>10, <3>1, <3>2
    <2>12. acq' \in [Servers -> Acquisition]
      BY <2>1, <2>10 DEF Moved
    <2>13. \A s \in Servers : SameCall(s) /\ Found(s)'
      BY <2>10, <2>11
    <2>14. CommandOK(c)'
      BY <1>4, <2>4
    <2>15. \A s \in Servers, j \in Ids :
              /\ handle'[s][j] = "closed" <=> handle[s][j] = "closed"
              /\ handle'[s][j] = "store" => HasFile(root'.store[j])
      BY <2>7, <2>9
    <2>. QED
      BY <1>1, <1>2, <1>5, <2>5, <2>7, <2>12, <2>13, <2>14, <2>15, CommandMoves
  <1>. QED  BY <1>6, <1>7

LEMMA MoveRollbackKeeps ==
  ASSUME IInv, NEW c \in Commands, UNCHANGED crew, MoveRollback(c)
  PROVE  IInv'
  <1>. DEFINE i == cmd[c].gone
  <1>1. /\ cmd[c].pc = "archived" /\ lock' = NoOne /\ UNCHANGED <<acq, leases>>
        /\ cmd' = [cmd EXCEPT ![c] = NoCmd]
    BY DEF MoveRollback
  <1>2. /\ CommandOK(c) /\ lock = c /\ lock' # c /\ lock' \in Commands \cup {NoOne}
        /\ \A b \in Commands \ {c} : lock' = b <=> lock = b
    BY <1>1, CommandTypes, NoValuesAssumption DEF CommandOK, Holding
  <1>3. CASE UNCHANGED <<root, handle>>
    BY <1>1, <1>2, <1>3, Ended, CommandMovesAlone
  <1>4. CASE ~UNCHANGED <<root, handle>>
    <2>1. /\ i # NoId /\ root.archive[i] # "none" /\ root.store[i] = "none"
          /\ root' = [root EXCEPT !.store[i] = root.archive[i], !.archive[i] = "none"]
          /\ handle' = [s \in Servers |->
                [handle[s] EXCEPT ![i] = IF @ = "archive" THEN "store" ELSE @]]
      BY <1>4 DEF MoveRollback
    <2>2. i \in Known /\ i \in Ids /\ root \in Root
      BY <1>1, <1>2, <2>1, CommandTypes DEF CommandOK, Moving, Holding
    <2>3. root.archive[i] \in Content \ {"none", "partial"} /\ ~HasFile("none")
      BY <2>1, <2>2 DEF Root, IInv, AtRest, Known, HasFile
    <2>4. /\ root' \in Root /\ root'.records = root.records
          /\ root'.issued = root.issued
          /\ root'.store[i] = root.archive[i] /\ root'.archive[i] = "none"
          /\ \A j \in Ids \ {i} : /\ root'.store[j] = root.store[j]
                                  /\ root'.archive[j] = root.archive[j]
      BY <2>1, <2>2, <2>3 DEF Root, Content
    <2>5. RootStep /\ \A b \in Commands \ {c} : Spared(b) /\ Stable(b)
      <3>1. "partial" \notin {root'.store[i], root'.archive[i]}
        BY <2>3, <2>4
      <3>2. HasFile(root.store[i]) \/ HasFile(root.archive[i])
               => HasFile(root'.store[i]) \/ HasFile(root'.archive[i])
        BY <2>1, <2>3, <2>4
      <3>. QED  BY <1>2, <2>2, <2>4, <3>1, <3>2, FileMoved
    <2>6. handle' = Swapped(i, "archive", "store")
      BY <2>1 DEF Swapped
    <2>7. /\ handle' \in [Servers -> [Ids -> HandleState]]
          /\ \A s \in Servers, j \in Ids :
                /\ handle'[s][j] = "closed" <=> handle[s][j] = "closed"
                /\ j # i => handle'[s][j] = handle[s][j]
      BY <2>2, <2>6, HandlesFollow DEF HandleState
    <2>8. ASSUME NEW s \in Servers, NEW j \in Ids, handle'[s][j] = "store"
          PROVE  HasFile(root'.store[j])
      <3>1. CASE j = i
        <4>1. handle[s][i] # "closed" /\ ServerOK(s)
          BY <2>2, <2>7, <2>8, <3>1, TypesOf
        <4>2. Present(i)
          BY <2>2, <4>1 DEF ServerOK
        <4>. QED  BY <2>1, <2>3, <2>4, <3>1, <4>2 DEF Present
      <3>2. CASE j # i
        <4>1. handle[s][j] = "store"
          BY <2>7, <2>8, <3>2
        <4>2. HasFile(root.store[j])
          BY <4>1 DEF IInv, ServerOK
        <4>. QED  BY <2>4, <3>2, <4>2
      <3>. QED  BY <3>1, <3>2
    <2>9. \A j \in Known : HasFile(root.store[j]) => HasFile(root'.store[j])
      BY <2>1, <2>3, <2>4, TypesOf, CommandTypes
    <2>10. \A s \in Servers : SameCall(s) /\ Found(s)'
      BY <1>1, <2>9, FoundKeeps
    <2>11. acq' \in [Servers -> Acquisition]
      BY <1>1 DEF IInv, Shape
    <2>. QED
      BY <1>1, <1>2, <2>5, <2>7, <2>8, <2>10, <2>11, Ended, CommandMoves
  <1>. QED  BY <1>3, <1>4

LEMMA MoveCommitKeeps ==
  ASSUME IInv, NEW c \in Commands, UNCHANGED crew, MoveCommit(c)
  PROVE  IInv'
  <1>. DEFINE m == cmd[c]
              Put(r) == CASE r.id = m.gone -> [r EXCEPT !.path = NoPath]
                          [] r.id = m.id /\ r.id # m.gone /\ r.path # NoPath ->
                                [r EXCEPT !.path = m.to]
                          [] OTHER -> r
  <1>1. /\ m.pc = "archived" /\ lock' = NoOne /\ UNCHANGED <<acq, handle, leases>>
        /\ root' = [root EXCEPT !.records = {Put(r) : r \in @}]
        /\ cmd' = [cmd EXCEPT ![c] = NoCmd]
    BY DEF MoveCommit
  <1>2. /\ CommandOK(c) /\ lock = c /\ lock' # c /\ lock' \in Commands \cup {NoOne}
        /\ \A b \in Commands \ {c} : lock' = b <=> lock = b
        /\ m.to \in Paths /\ \A r \in At(m.to) : r.id \in {m.gone, m.id}
    BY <1>1, CommandTypes, NoValuesAssumption DEF CommandOK, Holding, Moving
  <1>3. /\ root \in Root /\ root'.records = {Put(r) : r \in root.records}
        /\ root'.store = root.store /\ root'.archive = root.archive
        /\ root'.issued = root.issued
    BY <1>1 DEF IInv, Shape, Root
  <1>4. ASSUME NEW r \in root.records
        PROVE  /\ Put(r) \in Record /\ Put(r).id = r.id /\ Put(r).init = r.init
               /\ \/ Put(r).path = NoPath
                  \/ Put(r).path = m.to /\ r.id = m.id
                  \/ Put(r) = r /\ r.id # m.gone /\ (r.id # m.id \/ r.path = NoPath)
    <2>1. r \in Record
      BY <1>3 DEF Root
    <2>. QED  BY <1>2, <2>1 DEF Record
  <1>5. m.to # NoPath
    BY <1>2, NoValuesAssumption
  <1>. HIDE DEF Put
  <1>6. root' \in Root
    <2>1. root'.records \in SUBSET Record
      BY <1>3, <1>4
    <2>2. root' = [root EXCEPT !.records = root'.records]
      BY <1>1, <1>3
    <2>. QED  BY <1>3, <2>1, <2>2 DEF Root
  <1>7. Known' = Known
    BY <1>3, <1>4 DEF Known
  <1>8. AtRest(root)'
    <2>1. ASSUME NEW q \in root.records, NEW r \in root.records,
                 \/ Put(q).id = Put(r).id
                 \/ Put(q).path = Put(r).path /\ Put(r).path # NoPath
          PROVE  q = r
      <3>1. \A x, y \in root.records :
               x.id = y.id \/ (x.path = y.path /\ y.path # NoPath) => x = y
        BY DEF IInv, AtRest
      <3>2. CASE q.id = r.id
        BY <3>1, <3>2
      <3>3. CASE q.id # r.id
        <4>1. Put(q).path = Put(r).path /\ Put(r).path # NoPath
          BY <1>4, <2>1, <3>3
        <4>2. \A x \in root.records : x.path = m.to => x.id \in {m.gone, m.id}
          BY <1>2 DEF At
        <4>. QED  BY <1>4, <1>5, <3>1, <3>3, <4>1, <4>2
      <3>. QED  BY <3>2, <3>3
    <2>2. \A x, y \in root'.records :
             x.id = y.id \/ (x.path = y.path /\ y.path # NoPath) => x = y
      BY <1>3, <2>1
    <2>3. \A x \in root'.records :
            /\ x.id <= root'.issued
            /\ root'.store[x.id] # "partial"
            /\ x.init => HasFile(root'.store[x.id]) \/ HasFile(root'.archive[x.id])
      BY <1>3, <1>4 DEF IInv, AtRest
    <2>4. /\ \A j \in Ids : root'.archive[j] # "partial"
          /\ \A j \in Ids : j > root'.issued => root'.store[j] = "none"
      BY <1>3 DEF IInv, AtRest
    <2>. QED  BY <2>2, <2>3, <2>4 DEF AtRest
  <1>9. RootStep
    BY <1>3, <1>6, <1>7, <1>8 DEF RootStep, Root, Present
  <1>10. ASSUME NEW b \in Commands \ {c} PROVE Spared(b) /\ Stable(b)
    BY <1>2, <1>3, <1>7 DEF Spared, Stable, IInv, CommandOK
  <1>11. \A i \in Known : HasFile(root.store[i]) => HasFile(root'.store[i])
    BY <1>3
  <1>. QED  BY <1>1, <1>2, <1>9, <1>10, <1>11, Ended, CommandMovesOn

---------------------------------------------------------------------------
(* The steps of an import.                                                 *)

LEMMA ImportStartKeeps ==
  ASSUME IInv, NEW c \in Commands, NEW p \in Paths, UNCHANGED crew, ImportStart(c, p)
  PROVE  IInv'
  <1>. DEFINE i == root.issued + 1
              m == [NoCmd EXCEPT !.pc = "import", !.to = p, !.id = i]
  <1>1. /\ cmd[c].pc = "idle" /\ i <= crew.ids
        /\ root' = [root EXCEPT !.exists = TRUE, !.issued = i, !.store[i] = "bare"]
        /\ UNCHANGED <<lock, acq, handle, leases>> /\ cmd' = [cmd EXCEPT ![c] = m]
    BY DEF ImportStart
  <1>2. /\ i \in Ids /\ i \in 0 .. MaxIds /\ root \in Root /\ root.issued \in Nat
    BY <1>1, BoundsAssumption, CommandTypes DEF IInv, Shape, Ids
  <1>3. /\ root' \in Root /\ root'.records = root.records /\ root'.issued = i
        /\ root'.archive = root.archive /\ root'.store \in [Ids -> Content]
        /\ \A j \in Ids \ {i} : root'.store[j] = root.store[j]
    BY <1>1, <1>2 DEF Root, Content
  <1>4. Known' = Known /\ \A q : At(q)' = At(q)
    BY <1>3 DEF Known, At
  <1>14. \A r \in root.records : r.id <= i /\ r.id \in Ids \ {i}
    BY <1>2, CommandTypes DEF Ids
  <1>15. \A j \in Known : j \in Ids \ {i}
    BY <1>14 DEF Known
  <1>5. AtRest(root)'
    <2>2. \A j \in Ids : j > i => j \in Ids \ {i} /\ root.store[j] = "none"
      BY <1>2 DEF IInv, AtRest, Ids
    <2>3. \A r \in root.records :
            /\ root'.store[r.id] # "partial"
            /\ r.init => HasFile(root'.store[r.id]) \/ HasFile(root.archive[r.id])
      BY <1>3, <1>14 DEF IInv, AtRest
    <2>. QED  BY <1>3, <1>14, <2>2, <2>3 DEF IInv, AtRest
  <1>6. RootStep
    BY <1>2, <1>3, <1>4, <1>5, <1>15 DEF RootStep, Present
  <1>7. ASSUME NEW b \in Commands \ {c} PROVE Spared(b) /\ Stable(b)
    <2>1. cmd'[b] = cmd[b] /\ CommandOK(b)
      BY <1>1, CommandTypes DEF IInv, Shape
    <2>2. cmd[b].pc \in Importing => cmd[b].id \in Ids \ {i}
      BY <1>2, <2>1 DEF CommandOK, Ids
    <2>. QED  BY <1>3, <1>4, <2>1, <2>2 DEF Spared, Stable, CommandOK
  <1>8. /\ m \in Order /\ m.pc = "import" /\ m.id = i /\ m.to = p
    BY <1>2 DEF NoCmd, Order, Importing
  <1>. HIDE DEF m
  <1>9. cmd'[c] = m
    BY <1>1 DEF IInv, Shape
  <1>10. lock # c /\ lock' \in Commands \cup {NoOne}
    BY <1>1, CommandTypes DEF CommandOK, Holding, IInv, Shape
  <1>11. i \notin Known
    BY <1>15
  <1>12. CommandOK(c)'
    BY <1>1, <1>2, <1>3, <1>4, <1>8, <1>9, <1>10, <1>11
       DEF CommandOK, Moving, Holding, Importing
  <1>13. ASSUME NEW b \in Commands \ {c}, cmd[b].pc \in Importing PROVE cmd[b].id # i
    BY <1>2, <1>13, CommandTypes DEF CommandOK, Ids
  <1>16. \A j \in Known : HasFile(root.store[j]) => HasFile(root'.store[j])
    BY <1>3, <1>15
  <1>. QED  BY <1>1, <1>6, <1>7, <1>8, <1>10, <1>12, <1>13, <1>16, CommandMovesOn

\* An import does something to its copy.
LEMMA CopySet ==
  ASSUME IInv, NEW c \in Commands, cmd[c].pc \in Importing, NEW x \in Content,
         root' = [root EXCEPT !.store[cmd[c].id] = x]
  PROVE  /\ RootStep /\ root'.store[cmd[c].id] = x /\ Known' = Known
         /\ root'.issued = root.issued
         /\ \A b \in Commands \ {c} : Spared(b) /\ (cmd'[b] = cmd[b] => Stable(b))
         /\ \A j \in Known : HasFile(root.store[j]) => HasFile(root'.store[j])
  <1>. DEFINE i == cmd[c].id
  <1>1. /\ i \in Ids \ Known /\ i <= root.issued /\ root \in Root
        /\ root.issued \in Nat /\ Known \subseteq Ids
    BY CommandTypes DEF CommandOK
  <1>2. /\ root'.records = root.records /\ root'.issued = root.issued
        /\ root'.archive = root.archive /\ root'.store \in [Ids -> Content]
        /\ root'.store[i] = x /\ \A j \in Ids \ {i} : root'.store[j] = root.store[j]
    BY <1>1 DEF Root
  <1>3. root' \in Root
    <2>1. root' = [root EXCEPT !.store = root'.store]
      BY <1>1 DEF Root
    <2>. QED  BY <1>1, <1>2, <2>1 DEF Root
  <1>4. Known' = Known /\ \A q : At(q)' = At(q)
    BY <1>2 DEF Known, At
  <1>5. \A r \in root.records : r.id \in Ids \ {i}
    BY <1>1, CommandTypes DEF Known
  <1>6. AtRest(root)'
    <2>1. \A r \in root.records :
            /\ r.id <= root.issued
            /\ root'.store[r.id] # "partial"
            /\ r.init => HasFile(root'.store[r.id]) \/ HasFile(root.archive[r.id])
      BY <1>2, <1>5 DEF IInv, AtRest
    <2>2. \A j \in Ids : j > root.issued => root'.store[j] = "none"
      BY <1>1, <1>2 DEF IInv, AtRest, Ids
    <2>. QED  BY <1>2, <2>1, <2>2 DEF IInv, AtRest
  <1>7. RootStep
    BY <1>1, <1>2, <1>3, <1>4, <1>6 DEF RootStep, Present
  <1>8. ASSUME NEW b \in Commands \ {c} PROVE Spared(b)
    BY <1>2, <1>4, CommandTypes DEF Spared, IInv, OwnIds, CommandOK
  <1>9. ASSUME NEW b \in Commands, cmd'[b] = cmd[b] PROVE Stable(b)
    BY <1>4, <1>9 DEF Stable, At
  <1>. QED  BY <1>1, <1>2, <1>4, <1>7, <1>8, <1>9

LEMMA ImportCopyKeeps ==
  ASSUME IInv, NEW c \in Commands, UNCHANGED crew, ImportCopy(c) \/ ImportMigrate(c)
  PROVE  IInv'
  <1>. DEFINE m == cmd'[c]
  <1>1. PICK x \in {"partial", "empty", "memory"} :
          /\ root' = [root EXCEPT !.store[cmd[c].id] = x]
          /\ \/ /\ cmd[c].pc = "import"
                /\ cmd' = [cmd EXCEPT ![c] = [cmd[c] EXCEPT !.pc = "copied"]]
             \/ /\ cmd[c].pc = "copied" /\ x # "partial"
                /\ cmd' = [cmd EXCEPT ![c] = [cmd[c] EXCEPT !.pc = "checked-copy"]]
    BY DEF ImportCopy, ImportMigrate
  <1>2. UNCHANGED <<lock, acq, handle, leases>> /\ cmd[c].pc \in Importing
    BY <1>1 DEF ImportCopy, ImportMigrate, Importing
  <1>3. CommandOK(c) /\ cmd[c] \in Order /\ lock # c /\ lock' \in Commands \cup {NoOne}
    BY <1>1, <1>2, CommandTypes DEF CommandOK, Holding, IInv, Shape
  <1>4. /\ cmd' = [cmd EXCEPT ![c] = m] /\ m \in Order /\ m.pc \in Importing
        /\ m.id = cmd[c].id /\ m.to = cmd[c].to
        /\ m.pc = "checked-copy" => x # "partial"
        /\ \A b \in Commands \ {c} : cmd'[b] = cmd[b]
    <2>1. PICK y \in {"copied", "checked-copy"} :
            /\ cmd' = [cmd EXCEPT ![c] = [cmd[c] EXCEPT !.pc = y]]
            /\ y = "checked-copy" => x # "partial"
      BY <1>1
    <2>2. m = [cmd[c] EXCEPT !.pc = y]
      BY <2>1 DEF IInv, Shape
    <2>3. /\ cmd' = [cmd EXCEPT ![c] = m] /\ \A b \in Commands \ {c} : cmd'[b] = cmd[b]
      BY <2>1, <2>2 DEF IInv, Shape
    <2>. HIDE DEF m
    <2>4. m \in Order /\ m.pc = y /\ m.id = cmd[c].id /\ m.to = cmd[c].to
      BY <1>3, <2>2 DEF Order, Importing
    <2>. QED  BY <2>1, <2>3, <2>4 DEF Importing
  <1>. HIDE DEF m
  <1>5. x \in Content /\ x # "none"
    BY DEF Content
  <1>6. /\ RootStep /\ root'.store[cmd[c].id] = x /\ Known' = Known
        /\ root'.issued = root.issued
        /\ \A b \in Commands \ {c} : Spared(b) /\ Stable(b)
        /\ \A j \in Known : HasFile(root.store[j]) => HasFile(root'.store[j])
    BY <1>1, <1>2, <1>4, <1>5, CopySet
  <1>7. cmd'[c] = m
    BY DEF m
  <1>8. CommandOK(c)'
    BY <1>1, <1>2, <1>3, <1>4, <1>5, <1>6, <1>7 DEF CommandOK, Moving, Holding, Importing
  <1>9. \A b \in Commands \ {c} : cmd[b].pc \in Importing => cmd[b].id # m.id
    BY <1>2, <1>4 DEF IInv, OwnIds
  <1>. QED  BY <1>2, <1>3, <1>4, <1>6, <1>8, <1>9, CommandMovesOn

LEMMA ImportFailKeeps ==
  ASSUME IInv, NEW c \in Commands, UNCHANGED crew, ImportFail(c)
  PROVE  IInv'
  <1>1. /\ cmd[c].pc \in Importing /\ UNCHANGED <<lock, acq, handle, leases>>
        /\ root' = [root EXCEPT !.store[cmd[c].id] = "none"]
        /\ cmd' = [cmd EXCEPT ![c] = NoCmd]
    BY DEF ImportFail, Importing
  <1>2. lock # c /\ lock' \in Commands \cup {NoOne}
    BY <1>1, CommandTypes DEF CommandOK, Holding, Importing, IInv, Shape
  <1>3. \A b \in Commands \ {c} : cmd'[b] = cmd[b]
    BY <1>1 DEF IInv, Shape
  <1>4. /\ RootStep /\ \A b \in Commands \ {c} : Spared(b) /\ Stable(b)
        /\ \A j \in Known : HasFile(root.store[j]) => HasFile(root'.store[j])
    BY <1>1, <1>3, CopySet DEF Content
  <1>. QED  BY <1>1, <1>2, <1>4, Ended, CommandMovesOn

LEMMA ImportRegisterKeeps ==
  ASSUME IInv, NEW c \in Commands, UNCHANGED crew, ImportRegister(c)
  PROVE  IInv'
  <1>. DEFINE i == cmd[c].id
              r == [id |-> i, path |-> cmd[c].to, init |-> TRUE]
  <1>1. /\ cmd[c].pc = "checked-copy" /\ lock = NoOne /\ At(cmd[c].to) = {}
        /\ root' = [root EXCEPT !.records = @ \cup {r}]
        /\ cmd' = [cmd EXCEPT ![c] = NoCmd]
        /\ UNCHANGED <<lock, acq, handle, leases>>
    BY DEF ImportRegister, Free
  <1>2. /\ i \in Ids /\ i <= root.issued /\ i \notin Known /\ cmd[c].to \in Paths
        /\ root.store[i] # "partial" /\ HasFile(root.store[i]) /\ root \in Root
    BY <1>1, CommandTypes DEF CommandOK, Importing, HasFile
  <1>3. /\ r \in Record /\ r.id = i /\ r.path = cmd[c].to
    BY <1>2 DEF Record
  <1>. HIDE DEF r
  <1>4. /\ root' \in Root /\ root'.records = root.records \cup {r}
        /\ root'.store = root.store /\ root'.archive = root.archive
        /\ root'.issued = root.issued
    <2>1. root.records \cup {r} \in SUBSET Record
      BY <1>2, <1>3 DEF Root
    <2>. QED  BY <1>1, <1>2, <2>1 DEF Root
  <1>5. Known' = Known \cup {i}
    BY <1>3, <1>4 DEF Known
  <1>6. \A q \in root.records : q.id # r.id /\ q.path # r.path
    BY <1>1, <1>2, <1>3 DEF Known, At
  <1>7. AtRest(root)'
    <2>1. \A x, y \in root'.records :
             x.id = y.id \/ (x.path = y.path /\ y.path # NoPath) => x = y
      BY <1>4, <1>6 DEF IInv, AtRest
    <2>2. \A x \in root'.records :
            /\ x.id <= root.issued
            /\ root.store[x.id] # "partial"
            /\ x.init => HasFile(root.store[x.id]) \/ HasFile(root.archive[x.id])
      BY <1>2, <1>3, <1>4 DEF IInv, AtRest
    <2>. QED  BY <1>4, <2>1, <2>2 DEF IInv, AtRest
  <1>8. RootStep
    BY <1>2, <1>4, <1>5, <1>7 DEF RootStep, Root, Present
  <1>9. ASSUME NEW b \in Commands \ {c} PROVE Spared(b) /\ Stable(b)
    <2>1. lock # b
      BY <1>1, NoValuesAssumption
    <2>2. cmd[b].pc \in Importing => cmd[b].id \notin Known /\ cmd[b].id # i
      BY <1>1, CommandTypes DEF CommandOK, IInv, OwnIds, Importing
    <2>. QED  BY <1>4, <1>5, <2>1, <2>2 DEF Spared, Stable
  <1>10. lock' # c /\ lock' \in Commands \cup {NoOne}
    BY <1>1, NoValuesAssumption
  <1>11. \A j \in Known : HasFile(root.store[j]) => HasFile(root'.store[j])
    BY <1>4
  <1>. QED  BY <1>1, <1>8, <1>9, <1>10, <1>11, Ended, CommandMovesOn

LEMMA CommandStepKeeps ==
  ASSUME IInv, NEW c \in Commands, UNCHANGED crew, CommandStep(c)
  PROVE  IInv'
  BY MoveLookupKeeps, MoveCheckKeeps, MoveBeginKeeps, MoveArchiveKeeps,
     MoveCommitKeeps, MoveRollbackKeeps, ImportStartKeeps, ImportCopyKeeps,
     ImportRegisterKeeps, ImportFailKeeps, KillKeeps DEF CommandStep

LEMMA InvStep == IInv /\ [Next]_vars => IInv'
  <1>. SUFFICES ASSUME IInv, [Next]_vars PROVE IInv'
    OBVIOUS
  <1>1. crew.servers \subseteq Servers /\ crew.commands \subseteq Commands
    BY DEF IInv, Shape
  <1>2. CASE UNCHANGED vars
    BY <1>2 DEF vars, IInv, Shape, AtRest, ServerOK, CommandOK, OwnIds, Known,
                Present, Found, At
  <1>3. CASE Next
    BY <1>1, <1>3, ServerStepKeeps, CommandStepKeeps DEF Next
  <1>. QED  BY <1>2, <1>3

LEMMA InvAlways == Spec => []IInv
  BY InvInit, InvStep, PTL DEF Spec

---------------------------------------------------------------------------
(* What the registry promises.                                             *)

\* Ids and paths of registry entries are unique whoever inserts or moves them
\* at the same time (INSERT ... DO NOTHING, the move's DELETE and UPDATE), and
\* a call in progress has its handle open.
THEOREM RegistryTypes == Spec => []TypeOK
  <1>1. IInv => TypeOK
    <2>. SUFFICES ASSUME IInv PROVE TypeOK
      OBVIOUS
    <2>1. \A s \in Servers : \A l \in leases[s] : handle[s][l[2]] # "closed"
      BY DEF IInv, ServerOK
    <2>. QED  BY <2>1 DEF TypeOK, IInv, Shape, AtRest, Acquisition, Order,
                          Looking, Resolved, Moving, Holding, Importing
  <1>. QED  BY <1>1, InvAlways, PTL

\* No server can observe a partial import: importProject registers the copy
\* only after it has been migrated and checked, and nobody else writes it.
THEOREM StoresAreWhole == Spec => []RegisteredStoreIsWhole
  <1>1. IInv => RegisteredStoreIsWhole
    BY DEF IInv, AtRest, RegisteredStoreIsWhole
  <1>. QED  BY <1>1, InvAlways, PTL

\* markProjectInitialized runs on a store that is there, and from then on it
\* is in its place or archived, whatever is killed half-way.
THEOREM InitializedStores == Spec => []InitializedStoreExists
  <1>1. IInv => InitializedStoreExists
    BY DEF IInv, AtRest, InitializedStoreExists
  <1>. QED  BY <1>1, InvAlways, PTL

\* Processes that use one path converge on one store: the ids two calls work
\* with are registered (registerProject, then the row that won), and a path has
\* one entry, so one of the two entries has been moved or discarded since.
THEOREM Convergence == Spec => []CallsConverge
  <1>1. IInv => CallsConverge
    <2>. SUFFICES ASSUME IInv, NEW s \in Servers, NEW t \in Servers,
                         NEW l \in leases[s], NEW m \in leases[t],
                         l[1] = m[1], l[2] # m[2]
                  PROVE  \E r \in root.records : r.id \in {l[2], m[2]} /\ r.path # l[1]
      BY DEF CallsConverge
    <2>1. l \in Paths \X Ids /\ m \in Paths \X Ids
      BY TypesOf
    <2>2. l[2] \in Known /\ m[2] \in Known
      BY <2>1, TypesOf DEF ServerOK
    <2>3. PICK r \in root.records, q \in root.records : r.id = l[2] /\ q.id = m[2]
      BY <2>2 DEF Known
    <2>4. l[1] # NoPath
      BY <2>1, NoValuesAssumption
    <2>. QED  BY <2>3, <2>4 DEF IInv, AtRest
  <1>. QED  BY <1>1, InvAlways, PTL

\* A server that may make the file of id i: it found one, did not look for an
\* uninitialized record, or the directory was renamed since it looked.
Opener(i) ==
    \E s \in Servers :
        /\ acq[s].id = i
        /\ acq[s].init /\ ~acq[s].moved => HasFile(root.store[i])

\* The files of id i, in one step: a server makes the directory or opens the
\* store, a call writes to the store or to the archived store it still has
\* open, a move archives the directory or puts it back, an import works on an
\* id that nobody knows.
FileStep(i) ==
    \/ /\ root.store[i] = "none" /\ root'.store[i] = "bare"
       /\ root'.archive[i] = root.archive[i]
    \/ /\ Opener(i) /\ root'.store[i] = Opened(root.store[i])
       /\ root'.archive[i] = root.archive[i]
    \/ /\ HasFile(root.store[i]) /\ root'.store[i] = "memory"
       /\ root'.archive[i] = root.archive[i]
    \/ root'.archive[i] = "memory" /\ root'.store[i] = root.store[i]
    \/ /\ root.archive[i] = "none" /\ root'.archive[i] = root.store[i]
       /\ root'.store[i] = "none"
    \/ /\ root.store[i] = "none" /\ root'.store[i] = root.archive[i]
       /\ root'.archive[i] = "none"
    \/ i \notin Known /\ root'.archive[i] = root.archive[i]

SameFiles(i) == root'.store[i] = root.store[i] /\ root'.archive[i] = root.archive[i]

LEMMA ServerFiles ==
  ASSUME IInv, NEW s \in Servers, ServerStep(s), NEW i \in Ids
  PROVE  SameFiles(i) \/ FileStep(i)
  <1>1. /\ root \in Root /\ ServerOK(s) /\ handle[s] \in [Ids -> HandleState]
        /\ leases[s] \in SUBSET (Paths \X Ids)
    BY TypesOf DEF IInv, Shape
  <1>2. CASE Open(s)
    <2>1. root' = [root EXCEPT !.store[acq[s].id] = Opened(root.store[acq[s].id])]
      BY <1>2 DEF Open
    <2>2. acq[s].init /\ ~acq[s].moved => HasFile(root.store[acq[s].id])
      BY <1>1, <1>2 DEF Open, ServerOK, Found, Looking
    <2>3. CASE i = acq[s].id
      BY <1>1, <2>1, <2>2, <2>3 DEF Root, FileStep, Opener
    <2>4. CASE i # acq[s].id
      BY <1>1, <2>1, <2>4 DEF Root, SameFiles
    <2>. QED  BY <2>3, <2>4
  <1>3. ASSUME NEW l \in leases[s], Write(s, l) PROVE SameFiles(i) \/ FileStep(i)
    <2>1. l[2] \in Ids /\ handle[s][l[2]] \in {"store", "archive"}
      BY <1>1 DEF ServerOK, HandleState
    <2>2. CASE handle[s][l[2]] = "store"
      <3>1. root' = [root EXCEPT !.store[l[2]] = "memory"] /\ HasFile(root.store[l[2]])
        BY <1>1, <1>3, <2>1, <2>2 DEF Write, ServerOK
      <3>. QED  BY <1>1, <2>1, <3>1 DEF Root, FileStep, SameFiles
    <2>3. CASE handle[s][l[2]] = "archive"
      <3>1. root' = [root EXCEPT !.archive[l[2]] = "memory"]
        BY <1>3, <2>3 DEF Write
      <3>. QED  BY <1>1, <2>1, <3>1 DEF Root, FileStep, SameFiles
    <2>. QED  BY <2>1, <2>2, <2>3
  <1>4. CASE Register(s)
    BY <1>1, <1>4 DEF Register, Root, SameFiles
  <1>5. CASE MarkInitialized(s)
    BY <1>1, <1>5 DEF MarkInitialized, Root, SameFiles
  <1>6. ASSUME NEW p \in Paths, Lookup(s, p) PROVE SameFiles(i)
    BY <1>1, <1>6 DEF Lookup, Root, SameFiles
  <1>7. CASE UNCHANGED root
    BY <1>7 DEF SameFiles
  <1>8. Converge(s) \/ CacheHit(s) \/ StatStore(s) \/ FailAcquire(s) \/ Restart(s)
          => UNCHANGED root
    BY DEF Converge, CacheHit, StatStore, FailAcquire, Restart
  <1>9. \A l \in leases[s] : Release(s, l) => UNCHANGED root
    BY DEF Release
  <1>10. CASE MakeStoreDir(s)
    <2>1. \/ UNCHANGED root
          \/ /\ root.store[acq[s].id] = "none"
             /\ root' = [root EXCEPT !.store[acq[s].id] = "bare"]
      BY <1>1, <1>10 DEF MakeStoreDir, Root
    <2>. QED  BY <1>1, <1>7, <2>1 DEF Root, FileStep, SameFiles
  <1>. QED
    BY <1>2, <1>3, <1>4, <1>5, <1>6, <1>7, <1>8, <1>9, <1>10 DEF ServerStep

LEMMA CommandFiles ==
  ASSUME IInv, NEW c \in Commands, CommandStep(c), NEW i \in Ids
  PROVE  SameFiles(i) \/ FileStep(i)
  <1>1. root \in Root /\ CommandOK(c)
    BY CommandTypes
  <1>2. CASE MoveArchive(c)
    <2>1. CASE UNCHANGED root
      BY <2>1 DEF SameFiles
    <2>2. CASE ~UNCHANGED root
      <3>1. /\ cmd[c].gone # NoId /\ root.archive[cmd[c].gone] = "none"
            /\ root' = [root EXCEPT !.archive[cmd[c].gone] = root.store[cmd[c].gone],
                                    !.store[cmd[c].gone] = "none"]
        BY <1>2, <2>2 DEF MoveArchive, ArchiveRoom
      <3>. QED  BY <1>1, <3>1 DEF Root, FileStep, SameFiles
    <2>. QED  BY <2>1, <2>2
  <1>3. CASE MoveRollback(c)
    <2>1. CASE UNCHANGED root
      BY <2>1 DEF SameFiles
    <2>2. CASE ~UNCHANGED root
      <3>1. /\ root.store[cmd[c].gone] = "none"
            /\ root' = [root EXCEPT !.store[cmd[c].gone] = root.archive[cmd[c].gone],
                                    !.archive[cmd[c].gone] = "none"]
        BY <1>3, <2>2 DEF MoveRollback
      <3>. QED  BY <1>1, <3>1 DEF Root, FileStep, SameFiles
    <2>. QED  BY <2>1, <2>2
  <1>4. CASE ImportCopy(c) \/ ImportMigrate(c) \/ ImportFail(c)
    <2>1. PICK x : root' = [root EXCEPT !.store[cmd[c].id] = x]
      BY <1>4 DEF ImportCopy, ImportMigrate, ImportFail
    <2>2. cmd[c].id \notin Known
      BY <1>1, <1>4 DEF ImportCopy, ImportMigrate, ImportFail, CommandOK, Importing
    <2>. QED  BY <1>1, <2>1, <2>2 DEF Root, FileStep, SameFiles
  <1>5. CASE MoveCommit(c)
    BY <1>1, <1>5 DEF MoveCommit, Root, SameFiles
  <1>6. CASE ImportRegister(c)
    BY <1>1, <1>6 DEF ImportRegister, Root, SameFiles
  <1>7. ASSUME NEW p \in Paths, ImportStart(c, p) PROVE SameFiles(i) \/ FileStep(i)
    <2>1. root' = [root EXCEPT !.exists = TRUE, !.issued = root.issued + 1,
                               !.store[root.issued + 1] = "bare"]
      BY <1>7 DEF ImportStart
    <2>2. root.issued + 1 \notin Known
      BY CommandTypes DEF Known, Ids
    <2>. QED  BY <1>1, <2>1, <2>2 DEF Root, FileStep, SameFiles
  <1>8. MoveCheck(c) \/ MoveBegin(c) \/ Kill(c) => UNCHANGED root
    BY DEF MoveCheck, MoveBegin, Kill
  <1>9. \A p, q \in Paths : MoveLookup(c, p, q) => UNCHANGED root
    BY DEF MoveLookup
  <1>10. CASE UNCHANGED root
    BY <1>10 DEF SameFiles
  <1>. QED
    BY <1>2, <1>3, <1>4, <1>5, <1>6, <1>7, <1>8, <1>9, <1>10 DEF CommandStep

LEMMA Files ==
  ASSUME IInv, [Next]_vars, NEW i \in Ids
  PROVE  SameFiles(i) \/ FileStep(i)
  <1>1. crew.servers \subseteq Servers /\ crew.commands \subseteq Commands
    BY DEF IInv, Shape
  <1>2. UNCHANGED vars => SameFiles(i)
    BY DEF vars, SameFiles
  <1>. QED  BY <1>1, <1>2, ServerFiles, CommandFiles DEF Next

\* openCentralProjectDBLocked fails on an initialized record whose file is
\* missing when it looks; it looks only then, so a move that renames the
\* directory afterwards leaves room for an empty file.  Otherwise only a server
\* that read the record before markProjectInitialized may make the file again,
\* and a failed move may put it back.
THEOREM LostStores == Spec => LostStoreStaysLost
  <1>. DEFINE P == \A r \in root.records :
                r.init /\ ~HasFile(root.store[r.id]) /\ HasFile(root'.store[r.id])
                => \/ \E s \in Servers : acq[s].id = r.id
                                          /\ (~acq[s].init \/ acq[s].moved)
                   \/ root'.store[r.id] = root.archive[r.id]
  <1>1. IInv /\ [Next]_vars => P
    <2>. SUFFICES ASSUME IInv, [Next]_vars, NEW r \in root.records,
                         ~HasFile(root.store[r.id]), HasFile(root'.store[r.id])
                  PROVE  \/ \E s \in Servers : acq[s].id = r.id
                                                 /\ (~acq[s].init \/ acq[s].moved)
                         \/ root'.store[r.id] = root.archive[r.id]
      OBVIOUS
    <2>1. r.id \in Ids /\ r.id \in Known
      BY DEF IInv, Shape, Root, Record, Known
    <2>2. FileStep(r.id)
      BY <2>1, Files DEF SameFiles
    <2>3. CASE Opener(r.id)
      <3>1. PICK s \in Servers :
              /\ acq[s].id = r.id
              /\ acq[s].init /\ ~acq[s].moved => HasFile(root.store[r.id])
        BY <2>3 DEF Opener
      <3>2. acq[s].init \in BOOLEAN /\ acq[s].moved \in BOOLEAN
        BY TypesOf DEF Acquisition
      <3>. QED  BY <3>1, <3>2
    <2>4. CASE root'.store[r.id] = root.archive[r.id]
      BY <2>4
    <2>5. CASE root'.store[r.id] \in {"none", "bare"}
      BY <2>5 DEF HasFile
    <2>6. CASE root'.store[r.id] = root.store[r.id]
      BY <2>6
    <2>7. HasFile(root.store[r.id]) => FALSE
      OBVIOUS
    <2>8. \/ root'.store[r.id] \in {"none", "bare"}
          \/ Opener(r.id)
          \/ HasFile(root.store[r.id])
          \/ root'.store[r.id] = root.store[r.id]
          \/ root'.store[r.id] = root.archive[r.id]
      BY <2>1, <2>2 DEF FileStep
    <2>. QED  BY <2>3, <2>4, <2>5, <2>6, <2>7, <2>8
  <1>. QED  BY <1>1, InvAlways, PTL DEF Spec, LostStoreStaysLost

\* No failed import and no move, killed half-way or not, deletes the memory of
\* a registered project or of an archived one.
THEOREM MemorySurvives == Spec => MemoryIsNeverDeleted
  <1>. DEFINE P == \A i \in Ids :
                \/ root.archive[i] = "memory"
                \/ root.store[i] = "memory" /\ Registered(i)
                => "memory" \in {root'.store[i], root'.archive[i]}
  <1>1. IInv /\ [Next]_vars => P
    <2>. SUFFICES ASSUME IInv, [Next]_vars, NEW i \in Ids,
                         \/ root.archive[i] = "memory"
                         \/ root.store[i] = "memory" /\ Registered(i)
                  PROVE  "memory" \in {root'.store[i], root'.archive[i]}
      OBVIOUS
    <2>1. Registered(i) => i \in Known
      BY DEF Registered, Known
    <2>2. SameFiles(i) \/ FileStep(i)
      BY Files
    <2>. QED  BY <2>1, <2>2 DEF SameFiles, FileStep, Opened
  <1>. QED  BY <1>1, InvAlways, PTL DEF Spec, MemoryIsNeverDeleted

=============================================================================
