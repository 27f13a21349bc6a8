------------------------- MODULE TelemetryStoreProofs -------------------------
(***************************************************************************)
(* What contention costs a server is its telemetry and never the file: for  *)
(* any number of openers of a file of any release, killed anywhere, the     *)
(* registry of versions tells the truth.  A transaction publishes the view  *)
(* it began with and its own changes, so the invariant says that the view   *)
(* of whoever may still write, or writes, is the file.                      *)
(***************************************************************************)
EXTENDS TelemetryStore, TLAPS

Transacting == {"alter", "record", "commit"}

Shape ==
    /\ file \in Schema
    /\ commits \in Nat
    /\ work \in [Openers -> Schema]
    /\ read \in [Openers -> Nat]
    /\ at \in [Openers -> {"idle", "create", "check", "serving", "refused", "failed"}
                          \cup Transacting]
    /\ step \in [Openers -> 1..4]
    /\ \A p \in Openers : at[p] \in {"check"} \cup Transacting => step[p] \in Migrations
    /\ lock \subseteq Openers

\* A version of f is recorded only if its column is there.
Sound(f) == f.recorded \subseteq f.cols

\* What the transaction of p sees: the file, if it can still upgrade, or the
\* file and its own changes, while it holds the lock.
View(p) ==
    /\ Sound(work[p])
    /\ at[p] = "record" => step[p] \in work[p].cols
    /\ at[p] = "commit" => step[p] \in work[p].recorded
    /\ at[p] = "commit" => lock = {p}
    /\ lock = {p} \/ commits = read[p] => file.recorded \subseteq work[p].recorded

\* The versions p has been through are recorded.
Passed(p) ==
    /\ at[p] \in {"check"} \cup Transacting => 1..(step[p] - 1) \subseteq file.recorded
    /\ at[p] = "serving" => Migrations \subseteq file.recorded

Views ==
    \A p \in Openers :
        /\ read[p] =< commits
        /\ lock = {p} => at[p] \in Transacting
        /\ at[p] \in Transacting => View(p)
        /\ Passed(p)

IInv == Shape /\ Sound(file) /\ Views

---------------------------------------------------------------------------

LEMMA FilesSound ==
  ASSUME NEW f \in Files
  PROVE  f \in Schema /\ Sound(f)
  BY DEF Files, Schema, Sound, Migrations

LEMMA InvInit == Init => IInv
  <1>. SUFFICES ASSUME Init PROVE IInv
    OBVIOUS
  <1>1. file \in Schema /\ Sound(file)
    BY FilesSound DEF Init
  <1>2. Shape
    <2>1. work \in [Openers -> Schema] /\ read \in [Openers -> Nat]
      BY <1>1 DEF Init
    <2>2. ASSUME NEW p \in Openers
          PROVE  at[p] \notin {"check"} \cup Transacting
      BY DEF Init, Transacting
    <2>. QED  BY <1>1, <2>1, <2>2 DEF Init, Shape
  <1>3. Views
    <2>1. ASSUME NEW p \in Openers
          PROVE  read[p] = 0 /\ commits = 0 /\ at[p] = "idle" /\ lock # {p}
      BY DEF Init
    <2>2. ASSUME NEW p \in Openers
          PROVE  read[p] =< commits /\ at[p] \notin Transacting /\ Passed(p)
      BY <2>1 DEF Passed, Transacting
    <2>. QED  BY <2>1, <2>2 DEF Views
  <1>. QED  BY <1>1, <1>2, <1>3 DEF IInv

\* A step of p that leaves the file and everybody else alone keeps what is
\* known of the others.
LEMMA OthersKeep ==
  ASSUME IInv, NEW p \in Openers, NEW q \in Openers, q # p,
         file' = file, commits' = commits,
         work'[q] = work[q], read'[q] = read[q], at'[q] = at[q], step'[q] = step[q],
         lock' = {q} <=> lock = {q}
  PROVE  /\ read'[q] =< commits'
         /\ lock' = {q} => at'[q] \in Transacting
         /\ at'[q] \in Transacting => View(q)'
         /\ Passed(q)'
  BY DEF IInv, Views, View, Passed, Sound

\* A step of p that changes the file only adds to it, and nobody else holds
\* the lock: who has read before cannot upgrade any more.
LEMMA OthersLate ==
  ASSUME IInv, NEW p \in Openers, NEW q \in Openers, q # p,
         file.recorded \subseteq file'.recorded, commits' = commits + 1,
         work'[q] = work[q], read'[q] = read[q], at'[q] = at[q], step'[q] = step[q],
         lock # {q}, lock' # {q}
  PROVE  /\ read'[q] =< commits'
         /\ lock' = {q} => at'[q] \in Transacting
         /\ at'[q] \in Transacting => View(q)'
         /\ Passed(q)'
  <1>1. read[q] \in Nat /\ commits \in Nat /\ read[q] =< commits
    BY DEF IInv, Shape, Views
  <1>2. read'[q] =< commits' /\ commits' # read'[q]
    BY <1>1
  <1>3. Passed(q)'
    BY DEF IInv, Views, Passed
  <1>4. at[q] \in Transacting => View(q)
    BY DEF IInv, Views
  <1>5. at'[q] \in Transacting => View(q)'
    BY <1>2, <1>4 DEF View
  <1>. QED  BY <1>2, <1>3, <1>5

LEMMA StartKeeps ==
  ASSUME IInv, NEW p \in Openers, Start(p)
  PROVE  IInv'
  <1>1. Shape'
    BY DEF IInv, Shape, Start, Goto, Transacting
  <1>2. Sound(file)'
    BY DEF IInv, Start, Sound
  <1>3. ASSUME NEW q \in Openers
        PROVE  /\ read'[q] =< commits'
               /\ lock' = {q} => at'[q] \in Transacting
               /\ at'[q] \in Transacting => View(q)'
               /\ Passed(q)'
    <2>1. CASE q # p
      BY <2>1, OthersKeep DEF IInv, Shape, Start, Goto
    <2>2. CASE q = p
      BY <2>2 DEF IInv, Shape, Views, Start, Goto, Passed, Transacting
    <2>. QED  BY <2>1, <2>2
  <1>. QED  BY <1>1, <1>2, <1>3 DEF IInv, Views

LEMMA CreateKeeps ==
  ASSUME IInv, NEW p \in Openers, CreateObject(p)
  PROVE  IInv'
  <1>. DEFINE i == step[p]
  <1>0. /\ at[p] = "create" /\ i \in 1..4 /\ Len(Objects) = 4
        /\ lock # {p}
    BY DEF CreateObject, IInv, Shape, Views, Objects, Transacting
  <1>1. \/ file' = file /\ commits' = commits
        \/ /\ file'.recorded = file.recorded /\ file.cols \subseteq file'.cols
           /\ file' \in Schema /\ commits' = commits + 1 /\ lock = {}
    <2>1. CASE i \in file.made
      BY <2>1 DEF CreateObject
    <2>2. CASE i \notin file.made
      <3>1. /\ lock = {} /\ commits' = commits + 1
            /\ file' = [file EXCEPT
                 !.made = @ \cup {i},
                 !.cols = @ \cup {v \in Migrations : TableOf[v] = Objects[i]}]
        BY <2>2 DEF CreateObject
      <3>. QED  BY <1>0, <3>1 DEF IInv, Shape, Schema
    <2>. QED  BY <2>1, <2>2
  <1>2. /\ UNCHANGED <<lock, work, read>>
        /\ \/ at' = at /\ step' = [step EXCEPT ![p] = i + 1] /\ i # 4
           \/ at' = [at EXCEPT ![p] = "check"] /\ step' = [step EXCEPT ![p] = 1]
    BY <1>0 DEF CreateObject, Goto
  <1>. HIDE DEF i
  <1>3. Shape'
    <2>1. step' \in [Openers -> 1..4]
      BY <1>0, <1>2 DEF IInv, Shape
    <2>2. at' \in [Openers -> {"idle", "create", "check", "serving", "refused",
                               "failed"} \cup Transacting]
      BY <1>2 DEF IInv, Shape
    <2>3. ASSUME NEW q \in Openers, at'[q] \in {"check"} \cup Transacting
          PROVE  step'[q] \in Migrations
      BY <1>0, <1>2, <2>3 DEF IInv, Shape, Migrations, Transacting
    <2>4. file' \in Schema /\ commits' \in Nat
      BY <1>1 DEF IInv, Shape
    <2>. QED  BY <1>2, <2>1, <2>2, <2>3, <2>4 DEF IInv, Shape
  <1>4. Sound(file)'
    BY <1>1 DEF IInv, Sound
  <1>5. ASSUME NEW q \in Openers
        PROVE  /\ read'[q] =< commits'
               /\ lock' = {q} => at'[q] \in Transacting
               /\ at'[q] \in Transacting => View(q)'
               /\ Passed(q)'
    <2>1. CASE q # p
      <3>1. at'[q] = at[q] /\ step'[q] = step[q]
        BY <1>2, <2>1 DEF IInv, Shape
      <3>2. CASE file' = file /\ commits' = commits
        BY <1>2, <2>1, <3>1, <3>2, OthersKeep
      <3>3. CASE commits' = commits + 1 /\ file'.recorded = file.recorded /\ lock = {}
        BY <1>2, <2>1, <3>1, <3>3, OthersLate
      <3>. QED  BY <1>1, <3>2, <3>3
    <2>2. CASE q = p
      <3>1. at'[p] \in {"create", "check"} /\ (at'[p] = "check" => step'[p] = 1)
        BY <1>0, <1>2 DEF IInv, Shape
      <3>2. read'[p] =< commits'
        BY <1>1, <1>2 DEF IInv, Shape, Views
      <3>3. 1..(1 - 1) = {}
        OBVIOUS
      <3>4. Passed(p)'
        BY <3>1, <3>3 DEF Passed, Transacting
      <3>. QED  BY <1>0, <1>2, <2>2, <3>1, <3>2, <3>4 DEF Transacting
    <2>. QED  BY <2>1, <2>2
  <1>. QED  BY <1>3, <1>4, <1>5 DEF IInv, Views

LEMMA CheckKeeps ==
  ASSUME IInv, NEW p \in Openers, CheckApplied(p)
  PROVE  IInv'
  <1>0. /\ at[p] = "check" /\ lock # {p} /\ step[p] \in Migrations
        /\ UNCHANGED <<file, commits, lock>>
        /\ work' = [work EXCEPT ![p] = file] /\ read' = [read EXCEPT ![p] = commits]
    BY DEF CheckApplied, IInv, Shape, Views, Transacting
  <1>1. \/ /\ at' = [at EXCEPT ![p] = "record"] /\ step' = step
           /\ step[p] \in file.cols
        \/ at' = [at EXCEPT ![p] = "alter"] /\ step' = step
        \/ /\ at' = [at EXCEPT ![p] = "serving"] /\ step[p] = 3
           /\ step' = [step EXCEPT ![p] = step[p] + 1] /\ step[p] \in file.recorded
        \/ /\ at' = [at EXCEPT ![p] = "check"] /\ step[p] # 3
           /\ step' = [step EXCEPT ![p] = step[p] + 1] /\ step[p] \in file.recorded
    BY DEF CheckApplied, Goto
  <1>2. Shape'
    <2>1. step' \in [Openers -> 1..4]
      BY <1>0, <1>1 DEF IInv, Shape, Migrations
    <2>2. at' \in [Openers -> {"idle", "create", "check", "serving", "refused",
                               "failed"} \cup Transacting]
      BY <1>1 DEF IInv, Shape, Transacting
    <2>3. ASSUME NEW q \in Openers, at'[q] \in {"check"} \cup Transacting
          PROVE  step'[q] \in Migrations
      BY <1>0, <1>1, <2>3 DEF IInv, Shape, Migrations, Transacting
    <2>4. work' \in [Openers -> Schema] /\ read' \in [Openers -> Nat]
      BY <1>0 DEF IInv, Shape
    <2>. QED  BY <1>0, <2>1, <2>2, <2>3, <2>4 DEF IInv, Shape
  <1>3. Sound(file)'
    BY <1>0 DEF IInv, Sound
  <1>4. ASSUME NEW q \in Openers
        PROVE  /\ read'[q] =< commits'
               /\ lock' = {q} => at'[q] \in Transacting
               /\ at'[q] \in Transacting => View(q)'
               /\ Passed(q)'
    <2>1. CASE q # p
      BY <1>0, <1>1, <2>1, OthersKeep DEF IInv, Shape
    <2>2. CASE q = p
      <3>1. work'[p] = file /\ read'[p] = commits
        BY <1>0 DEF IInv, Shape
      <3>2. 1..(step[p] - 1) \subseteq file.recorded
        BY <1>0 DEF IInv, Views, Passed
      <3>3. step[p] \in file.recorded => 1..step[p] \subseteq file.recorded
        BY <1>0, <3>2 DEF Migrations
      <3>4. Passed(p)'
        BY <1>0, <1>1, <3>2, <3>3 DEF Passed, IInv, Shape, Migrations, Transacting
      <3>5. at'[p] \in Transacting => View(p)'
        BY <1>0, <1>1, <3>1 DEF View, IInv, Shape, Sound, Transacting
      <3>6. read'[p] =< commits'
        BY <1>0, <3>1 DEF IInv, Shape
      <3>. QED  BY <1>0, <2>2, <3>4, <3>5, <3>6
    <2>. QED  BY <2>1, <2>2
  <1>. QED  BY <1>2, <1>3, <1>4 DEF IInv, Views

\* The two writes of a migration: ALTER and the INSERT into the registry.
LEMMA WriteKeeps ==
  ASSUME IInv, NEW p \in Openers, AlterTable(p) \/ Record(p)
  PROVE  IInv'
  <1>0. /\ at[p] \in {"alter", "record"} /\ step[p] \in Migrations
        /\ lock = {p} \/ (lock = {} /\ commits = read[p])
        /\ lock' = {p} /\ UNCHANGED <<file, commits, read, step>>
    BY DEF AlterTable, Record, CanUpgrade, IInv, Shape, Transacting
  <1>1. View(p) /\ Passed(p)
    BY <1>0 DEF IInv, Views, Transacting
  <1>2. \/ /\ work' = [work EXCEPT ![p].cols = @ \cup {step[p]}]
           /\ at' = [at EXCEPT ![p] = "record"]
        \/ /\ work' = [work EXCEPT ![p].recorded = @ \cup {step[p]}]
           /\ at' = [at EXCEPT ![p] = "commit"] /\ at[p] = "record"
    BY DEF AlterTable, Record, Goto
  <1>3. /\ work'[p] \in Schema /\ Sound(work'[p])
        /\ work[p].recorded \subseteq work'[p].recorded
        /\ at'[p] = "record" => step[p] \in work'[p].cols
        /\ at'[p] = "commit" => step[p] \in work'[p].recorded
        /\ at'[p] \in {"record", "commit"}
    <2>1. work[p] \in Schema
      BY DEF IInv, Shape
    <2>2. CASE /\ work' = [work EXCEPT ![p].cols = @ \cup {step[p]}]
               /\ at' = [at EXCEPT ![p] = "record"]
      <3>1. /\ work'[p] = [work[p] EXCEPT !.cols = @ \cup {step[p]}]
            /\ at'[p] = "record"
        BY <2>2 DEF IInv, Shape
      <3>. QED  BY <1>0, <1>1, <2>1, <3>1 DEF View, Schema, Sound
    <2>3. CASE /\ work' = [work EXCEPT ![p].recorded = @ \cup {step[p]}]
               /\ at' = [at EXCEPT ![p] = "commit"] /\ at[p] = "record"
      <3>1. /\ work'[p] = [work[p] EXCEPT !.recorded = @ \cup {step[p]}]
            /\ at'[p] = "commit"
        BY <2>3 DEF IInv, Shape
      <3>. QED  BY <1>0, <1>1, <2>1, <2>3, <3>1 DEF View, Schema, Sound
    <2>. QED  BY <1>2, <2>2, <2>3
  <1>4. work' = [work EXCEPT ![p] = work'[p]] /\ at' = [at EXCEPT ![p] = at'[p]]
    BY <1>2 DEF IInv, Shape
  <1>5. Shape'
    <2>1. work' \in [Openers -> Schema]
      BY <1>3, <1>4 DEF IInv, Shape
    <2>2. at' \in [Openers -> {"idle", "create", "check", "serving", "refused",
                               "failed"} \cup Transacting]
      BY <1>3, <1>4 DEF IInv, Shape, Transacting
    <2>3. ASSUME NEW q \in Openers, at'[q] \in {"check"} \cup Transacting
          PROVE  step'[q] \in Migrations
      BY <1>0, <1>4, <2>3 DEF IInv, Shape
    <2>. QED  BY <1>0, <2>1, <2>2, <2>3 DEF IInv, Shape
  <1>6. Sound(file)'
    BY <1>0 DEF IInv, Sound
  <1>7. ASSUME NEW q \in Openers
        PROVE  /\ read'[q] =< commits'
               /\ lock' = {q} => at'[q] \in Transacting
               /\ at'[q] \in Transacting => View(q)'
               /\ Passed(q)'
    <2>1. CASE q # p
      <3>1. work'[q] = work[q] /\ at'[q] = at[q]
        BY <1>4, <2>1 DEF IInv, Shape
      <3>. QED  BY <1>0, <2>1, <3>1, OthersKeep
    <2>2. CASE q = p
      <3>1. View(p)'
        BY <1>0, <1>1, <1>3 DEF View
      <3>2. Passed(p)'
        BY <1>0, <1>1, <1>3 DEF Passed, Transacting
      <3>3. read'[p] =< commits'
        BY <1>0 DEF IInv, Views
      <3>. QED  BY <1>0, <1>3, <2>2, <3>1, <3>2, <3>3 DEF Transacting
    <2>. QED  BY <2>1, <2>2
  <1>. QED  BY <1>5, <1>6, <1>7 DEF IInv, Views

LEMMA CommitKeeps ==
  ASSUME IInv, NEW p \in Openers, CommitMigration(p)
  PROVE  IInv'
  <1>0. /\ at[p] = "commit" /\ step[p] \in Migrations
        /\ file' = work[p] /\ commits' = commits + 1 /\ lock' = {}
        /\ UNCHANGED <<work, read>>
    BY DEF CommitMigration, IInv, Shape, Transacting
  <1>1. /\ step' = [step EXCEPT ![p] = step[p] + 1]
        /\ \/ at' = [at EXCEPT ![p] = "serving"] /\ step[p] = 3
           \/ at' = [at EXCEPT ![p] = "check"] /\ step[p] # 3
    BY DEF CommitMigration, Goto
  <1>2. View(p) /\ Passed(p)
    BY <1>0 DEF IInv, Views, Transacting
  <1>3. /\ lock = {p} /\ Sound(work[p]) /\ step[p] \in work[p].recorded
        /\ file.recorded \subseteq work[p].recorded
        /\ 1..(step[p] - 1) \subseteq file.recorded
    BY <1>0, <1>2 DEF View, Passed, Transacting
  <1>4. Shape'
    <2>1. step' \in [Openers -> 1..4]
      BY <1>0, <1>1 DEF IInv, Shape, Migrations
    <2>2. at' \in [Openers -> {"idle", "create", "check", "serving", "refused",
                               "failed"} \cup Transacting]
      BY <1>1 DEF IInv, Shape, Transacting
    <2>3. ASSUME NEW q \in Openers, at'[q] \in {"check"} \cup Transacting
          PROVE  step'[q] \in Migrations
      BY <1>0, <1>1, <2>3 DEF IInv, Shape, Migrations, Transacting
    <2>. QED  BY <1>0, <2>1, <2>2, <2>3 DEF IInv, Shape
  <1>5. Sound(file)'
    BY <1>0, <1>3 DEF Sound
  <1>6. ASSUME NEW q \in Openers
        PROVE  /\ read'[q] =< commits'
               /\ lock' = {q} => at'[q] \in Transacting
               /\ at'[q] \in Transacting => View(q)'
               /\ Passed(q)'
    <2>1. CASE q # p
      <3>1. step'[q] = step[q] /\ at'[q] = at[q]
        BY <1>1, <2>1 DEF IInv, Shape
      <3>. QED  BY <1>0, <1>3, <2>1, <3>1, OthersLate
    <2>2. CASE q = p
      <3>1. 1..step[p] \subseteq work[p].recorded
        BY <1>0, <1>3 DEF Migrations
      <3>2. Passed(p)'
        BY <1>0, <1>1, <3>1 DEF Passed, IInv, Shape, Migrations, Transacting
      <3>3. read'[p] =< commits'
        BY <1>0 DEF IInv, Shape, Views
      <3>4. at'[p] \notin Transacting
        BY <1>1 DEF IInv, Shape, Transacting
      <3>. QED  BY <1>0, <2>2, <3>2, <3>3, <3>4
    <2>. QED  BY <2>1, <2>2
  <1>. QED  BY <1>4, <1>5, <1>6 DEF IInv, Views

\* A refused upgrade, an error or a kill drops the view.
LEMMA EndKeeps ==
  ASSUME IInv, NEW p \in Openers, GiveUp(p) \/ Fail(p)
  PROVE  IInv'
  <1>0. /\ UNCHANGED <<file, commits, work, read, step>>
        /\ \/ at' = [at EXCEPT ![p] = "refused"]
           \/ at' = [at EXCEPT ![p] = "failed"]
        /\ lock' # {p}
        /\ lock' = lock \/ (lock' = {} /\ lock = {p})
    BY DEF GiveUp, Fail, Goto
  <1>1. Shape'
    <2>1. at' \in [Openers -> {"idle", "create", "check", "serving", "refused",
                               "failed"} \cup Transacting]
      BY <1>0 DEF IInv, Shape
    <2>2. ASSUME NEW q \in Openers, at'[q] \in {"check"} \cup Transacting
          PROVE  step'[q] \in Migrations
      BY <1>0, <2>2 DEF IInv, Shape, Transacting
    <2>. QED  BY <1>0, <2>1, <2>2 DEF IInv, Shape
  <1>2. Sound(file)'
    BY <1>0 DEF IInv, Sound
  <1>3. ASSUME NEW q \in Openers
        PROVE  /\ read'[q] =< commits'
               /\ lock' = {q} => at'[q] \in Transacting
               /\ at'[q] \in Transacting => View(q)'
               /\ Passed(q)'
    <2>1. CASE q # p
      <3>1. at'[q] = at[q]
        BY <1>0, <2>1 DEF IInv, Shape
      <3>. QED  BY <1>0, <2>1, <3>1, OthersKeep
    <2>2. CASE q = p
      <3>1. at'[p] \in {"refused", "failed"}
        BY <1>0 DEF IInv, Shape
      <3>2. read'[p] =< commits'
        BY <1>0 DEF IInv, Views
      <3>. QED  BY <1>0, <2>2, <3>1, <3>2 DEF Passed, Transacting
    <2>. QED  BY <2>1, <2>2
  <1>. QED  BY <1>1, <1>2, <1>3 DEF IInv, Views

LEMMA InvStep == IInv /\ [Next]_vars => IInv'
  <1>. SUFFICES ASSUME IInv, [Next]_vars PROVE IInv'
    OBVIOUS
  <1>1. CASE UNCHANGED vars
    BY <1>1 DEF vars, IInv, Shape, Sound, Views, View, Passed
  <1>2. ASSUME NEW p \in Openers,
               \/ Start(p) \/ CreateObject(p) \/ CheckApplied(p) \/ AlterTable(p)
               \/ Record(p) \/ CommitMigration(p) \/ GiveUp(p) \/ Fail(p)
        PROVE  IInv'
    BY <1>2, StartKeeps, CreateKeeps, CheckKeeps, WriteKeeps, CommitKeeps, EndKeeps
  <1>. QED  BY <1>1, <1>2 DEF Next

\* Whatever the contention and wherever openers are killed, a version that is
\* recorded has its column, and a server that has telemetry has all of it.
THEOREM TelemetryRecordsCorrect == Spec => []RecordedIsPresent
  <1>1. IInv => RecordedIsPresent
    <2>. SUFFICES ASSUME IInv PROVE RecordedIsPresent
      OBVIOUS
    <2>1. /\ file.recorded \subseteq file.cols
          /\ file.recorded \subseteq Migrations /\ file.cols \subseteq Migrations
      BY DEF IInv, Sound, Shape, Schema
    <2>2. ASSUME NEW p \in Openers, at[p] = "serving"
          PROVE  file.cols = Migrations /\ file.recorded = Migrations
      BY <2>1, <2>2 DEF IInv, Views, Passed
    <2>. QED  BY <2>1, <2>2 DEF RecordedIsPresent
  <1>. QED  BY <1>1, InvInit, InvStep, PTL DEF Spec

=============================================================================
