----------------------------- MODULE BackupProofs -----------------------------
(***************************************************************************)
(* The backup's promises for any number of runs and transactions: by the    *)
(* time a run renames its file, the file is whole, synced and at least as   *)
(* recent as every file that was published before the run began; what a     *)
(* rename or a loss of power puts at the destination is therefore a whole   *)
(* backup, and a run that has synced the directory is overtaken only by     *)
(* runs that renamed after it.                                              *)
(***************************************************************************)
EXTENDS Backup, TLAPS

Snapshot == [of : Versions, whole : BOOLEAN]

\* Steps before the rename, and those after which the run has failed.
Before == {"idle", "begun", "ping", "vacuum", "open", "create", "copy", "sync", "rename"}
Failing == {"remove temp", "remove dir", "failed"}

Shape ==
    /\ version \in Versions
    /\ began \in [Runs -> Nat]
    /\ at \in [Runs -> {"idle"} \cup Working \cup Cleaning \cup Over]
    /\ cancelled \subseteq Runs
    /\ snap \in [Runs -> Snapshot \cup {NoFile}]
    /\ temp \in [Runs -> File \cup {NoFile}]
    /\ dest \in File \cup {NoFile}
    /\ safe \in File \cup {NoFile}
    /\ published \in Seq(Runs)
    /\ settled \subseteq Runs

\* What a run has made by the time it is at a step.
Made(p) ==
    /\ at[p] \in {"idle", "begun", "ping", "ok", "failed"} => snap[p] = NoFile
    /\ at[p] \in {"vacuum", "open", "create", "copy", "sync"} => snap[p] # NoFile
    /\ at[p] \in {"open", "create", "copy"} => snap[p].whole
    /\ at[p] \notin {"copy", "sync", "rename", "remove temp", "killed"} =>
          temp[p] = NoFile
    /\ at[p] \in {"copy", "sync", "rename"} =>
          temp[p] # NoFile /\ temp[p].by = p
    /\ at[p] \in {"sync", "rename"} => temp[p].whole
    /\ at[p] = "rename" => temp[p].synced
    /\ began[p] <= Len(published)

\* f was there, or had been published, before run p began.
Known(p, f) ==
    f # NoFile /\ (f.by = NoRun \/ \E i \in 1..began[p] : published[i] = f.by)

\* What p has read or copied is no older than f.
Newer(p, f) ==
    /\ at[p] \in {"vacuum", "open", "create"} => f.of <= snap[p].of
    /\ at[p] \in {"copy", "sync", "rename"} => f.of <= temp[p].of

\* What may be at the destination.
Good(f) ==
    f # NoFile =>
        /\ f.whole /\ f.synced
        /\ f.of <= version
        /\ f.by = NoRun \/ \E i \in 1..Len(published) : published[i] = f.by

\* No run holds a snapshot from the future or older than what it knew.
Fresh(p) ==
    /\ at[p] \in {"vacuum", "open", "create"} => snap[p].of <= version
    /\ at[p] \in {"copy", "sync", "rename"} => temp[p].of <= version
    /\ \A f \in {dest, safe} : Known(p, f) => Newer(p, f)

\* f is the backup of p, or of a run that published after p.
Holds(f, p) ==
    /\ f # NoFile /\ f.by # NoRun
    /\ \E i, j \in 1..Len(published) :
          i <= j /\ published[i] = p /\ published[j] = f.by

\* A run is among the published from its rename on; until the next loss of
\* power the destination is that of the last of them.
Place(p) ==
    /\ at[p] \in Before \cup Failing => \A i \in 1..Len(published) : published[i] # p
    /\ at[p] = "settle" =>
          /\ dest # NoFile /\ published # <<>>
          /\ dest.by = published[Len(published)]
          /\ \E i \in 1..Len(published) : published[i] = p
    /\ at[p] \in {"tidy", "ok"} /\ p \in settled => Holds(dest, p) /\ Holds(safe, p)
    /\ p \in settled =>
          /\ at[p] \in {"tidy", "ok", "killed"}
          /\ \E i \in 1..Len(published) : published[i] = p

Once == \A i, j \in 1..Len(published) : published[i] = published[j] => i = j

IInv ==
    /\ Shape
    /\ \A p \in Runs : Made(p) /\ Place(p) /\ Fresh(p)
    /\ Good(dest) /\ Good(safe) /\ (dest = NoFile => safe = NoFile)
    /\ Once

---------------------------------------------------------------------------

LEMMA FilesDiffer ==
  /\ \A f \in File : f # NoFile
  /\ \A f \in Snapshot : f # NoFile
  BY NoFileAssumption DEF File, Snapshot, Versions

LEMMA InvInit == Init => IInv
  <1>. SUFFICES ASSUME Init PROVE IInv
    OBVIOUS
  <1>0. OldBackup \in File
    BY VersionAssumption DEF OldBackup, File, Versions
  <1>1. dest \in File \cup {NoFile} /\ (dest # NoFile => dest = OldBackup)
    BY <1>0 DEF Init
  <1>2. Shape
    BY <1>1, VersionAssumption DEF Init, Shape, Versions
  <1>3. ASSUME NEW p \in Runs
        PROVE  /\ at[p] = "idle" /\ snap[p] = NoFile /\ temp[p] = NoFile
               /\ began[p] = 0 /\ Len(published) = 0 /\ p \notin settled
    BY DEF Init
  <1>4. ASSUME NEW p \in Runs PROVE Made(p)
    <2>1. began[p] <= Len(published)
      BY <1>3
    <2>. QED  BY <1>3, <2>1 DEF Made
  <1>5. \A p \in Runs : Place(p)
    BY <1>3 DEF Place
  <1>6. Good(dest) /\ Good(safe)
    BY <1>1 DEF Init, Good, OldBackup
  <1>7. Once
    BY DEF Init, Once
  <1>8. \A p \in Runs : Fresh(p)
    BY <1>3 DEF Fresh, Newer
  <1>. QED  BY <1>2, <1>4, <1>5, <1>6, <1>7, <1>8 DEF Init, IInv

\* A step of one run that only changes its place and its own files.  What it
\* has to show is that the run's own files are what the new place asks for.
LEMMA OwnStep ==
  ASSUME IInv, NEW p \in Runs,
         UNCHANGED <<version, cancelled, dest, safe, published, settled>>,
         NEW a \in Working \cup Cleaning \cup Over,
         at' = [at EXCEPT ![p] = a],
         began' = [began EXCEPT ![p] = began'[p]], began'[p] \in Nat,
         snap' = [snap EXCEPT ![p] = snap'[p]], snap'[p] \in Snapshot \cup {NoFile},
         temp' = [temp EXCEPT ![p] = temp'[p]], temp'[p] \in File \cup {NoFile},
         Made(p)', Fresh(p)',
         \/ a \in Before \cup Failing /\ at[p] \in Before \cup Failing
         \/ a = "killed"
         \/ a = "ok" /\ at[p] = "tidy"
  PROVE  IInv'
  <1>1. Shape'
    BY DEF IInv, Shape
  <1>2. ASSUME NEW q \in Runs, q # p
        PROVE  /\ at'[q] = at[q] /\ snap'[q] = snap[q] /\ temp'[q] = temp[q]
               /\ began'[q] = began[q]
    BY <1>2 DEF IInv, Shape
  <1>3. at'[p] = a
    BY DEF IInv, Shape
  <1>4. ASSUME NEW q \in Runs PROVE Made(q)'
    <2>1. CASE q # p
      <3>1. Made(q)
        BY DEF IInv
      <3>2. /\ at'[q] = at[q] /\ snap'[q] = snap[q] /\ temp'[q] = temp[q]
            /\ began'[q] = began[q]
        BY <1>2, <2>1
      <3>. QED  BY <3>1, <3>2 DEF Made
    <2>. QED  BY <2>1
  <1>5. ASSUME NEW q \in Runs PROVE Place(q)'
    <2>1. CASE q # p
      <3>1. Place(q)
        BY DEF IInv
      <3>. QED  BY <1>2, <2>1, <3>1 DEF Place, Holds
    <2>2. CASE q = p
      <3>1. Place(p)
        BY DEF IInv
      <3>. QED  BY <1>3, <2>2, <3>1 DEF Place, Holds, Before, Failing
    <2>. QED  BY <2>1, <2>2
  <1>6. ASSUME NEW q \in Runs PROVE Fresh(q)'
    <2>1. CASE q # p
      <3>1. Fresh(q)
        BY DEF IInv
      <3>2. /\ at'[q] = at[q] /\ snap'[q] = snap[q] /\ temp'[q] = temp[q]
            /\ began'[q] = began[q]
        BY <1>2, <2>1
      <3>. QED  BY <3>1, <3>2 DEF Fresh, Known, Newer
    <2>. QED  BY <2>1
  <1>7. Good(dest)' /\ Good(safe)'
    BY DEF IInv, Good
  <1>8. Once' /\ (dest' = NoFile => safe' = NoFile)
    BY DEF IInv, Once
  <1>. QED  BY <1>1, <1>4, <1>5, <1>6, <1>7, <1>8 DEF IInv

\* The steps of a run up to its rename, and those of a run that fails or is
\* killed.
LEMMA WorkKeeps ==
  ASSUME IInv, NEW p \in Runs,
         \/ Begin(p) \/ Refuse(p) \/ MakeDir(p) \/ StartVacuum(p) \/ EndVacuum(p)
         \/ OpenSnapshot(p) \/ CreateTemp(p) \/ EndCopy(p) \/ Sync(p) \/ Fail(p)
         \/ RemoveTemp(p) \/ RemoveDir(p) \/ Kill(p)
  PROVE  IInv'
  <1>0. /\ Made(p) /\ Fresh(p) /\ at[p] \in {"idle"} \cup Working \cup Cleaning \cup Over
        /\ snap[p] \in Snapshot \cup {NoFile} /\ temp[p] \in File \cup {NoFile}
        /\ began[p] \in Nat /\ version \in Versions
        /\ began = [began EXCEPT ![p] = began[p]]
        /\ snap = [snap EXCEPT ![p] = snap[p]]
        /\ temp = [temp EXCEPT ![p] = temp[p]]
    BY DEF IInv, Shape
  <1>. USE DEF Goto, Working, Cleaning, Over, Before, Failing
  <1>1. CASE Refuse(p)
    <2>1. at' = [at EXCEPT ![p] = "failed"] /\ at'[p] = "failed" /\ at[p] = "begun"
      BY <1>1 DEF Refuse, IInv, Shape
    <2>2. Made(p)'
      BY <1>0, <1>1, <2>1 DEF Refuse, Made
    <2>3. Fresh(p)'
      BY <2>1 DEF Fresh, Newer
    <2>. QED  BY <1>0, <1>1, <2>1, <2>2, <2>3, OwnStep DEF Refuse
  <1>12. CASE Begin(p)
    <2>1. /\ at' = [at EXCEPT ![p] = "begun"] /\ at'[p] = "begun" /\ at[p] = "idle"
          /\ began' = [began EXCEPT ![p] = Len(published)]
          /\ began'[p] = Len(published)
          /\ UNCHANGED <<version, cancelled, snap, temp, dest, safe, published, settled>>
      BY <1>12 DEF Begin, IInv, Shape
    <2>2. Len(published) \in Nat
      <3>1. published \in Seq(Runs)
        BY DEF IInv, Shape
      <3>. QED  BY <3>1
    <2>3. Made(p)'
      <3>1. began'[p] <= Len(published')
        BY <2>1, <2>2
      <3>. QED  BY <1>0, <2>1, <3>1 DEF Made
    <2>4. Fresh(p)'
      BY <2>1 DEF Fresh, Newer
    <2>5. began' = [began EXCEPT ![p] = began'[p]]
      BY <2>1
    <2>. QED  BY <1>0, <2>1, <2>2, <2>3, <2>4, <2>5, OwnStep
  <1>13. CASE MakeDir(p)
    <2>1. at' = [at EXCEPT ![p] = "ping"] /\ at'[p] = "ping" /\ at[p] = "begun"
      BY <1>13 DEF MakeDir, IInv, Shape
    <2>2. Made(p)'
      BY <1>0, <1>13, <2>1 DEF MakeDir, Made
    <2>3. Fresh(p)'
      BY <2>1 DEF Fresh, Newer
    <2>. QED  BY <1>0, <1>13, <2>1, <2>2, <2>3, OwnStep DEF MakeDir
  <1>2. CASE StartVacuum(p)
    <2>1. /\ at' = [at EXCEPT ![p] = "vacuum"] /\ at'[p] = "vacuum" /\ at[p] = "ping"
          /\ snap'[p] = [of |-> version, whole |-> FALSE]
          /\ UNCHANGED <<version, began, cancelled, temp, dest, safe, published, settled>>
      BY <1>2 DEF StartVacuum, IInv, Shape
    <2>2. /\ snap'[p] \in Snapshot
          /\ snap'[p] # NoFile
          /\ snap'[p].of = version
      <3>. DEFINE s == [of |-> version, whole |-> FALSE]
      <3>1. s \in Snapshot /\ s.of = version /\ snap'[p] = s
        BY <1>0, <2>1 DEF Snapshot
      <3>. HIDE DEF s
      <3>2. s # NoFile
        BY <3>1, FilesDiffer
      <3>. QED  BY <3>1, <3>2
    <2>3. Made(p)'
      BY <1>0, <2>1, <2>2 DEF Made
    <2>4. Fresh(p)'
      <3>1. version \in Nat
        <4>1. version \in 0..MaxVersion
          BY DEF IInv, Shape, Versions
        <4>. QED  BY <4>1
      <3>2. ASSUME NEW f \in {dest, safe}, f # NoFile PROVE f.of <= version
        BY <3>2 DEF IInv, Good
      <3>. QED  BY <2>1, <2>2, <3>1, <3>2 DEF Fresh, Known, Newer
    <2>5. snap' = [snap EXCEPT ![p] = snap'[p]]
      BY <1>2, <2>1 DEF StartVacuum
    <2>. QED  BY <1>0, <2>1, <2>2, <2>3, <2>4, <2>5, OwnStep
  <1>3. CASE EndVacuum(p)
    <2>1. /\ at' = [at EXCEPT ![p] = "open"] /\ at'[p] = "open" /\ at[p] = "vacuum"
          /\ snap' = [snap EXCEPT ![p].whole = TRUE]
          /\ UNCHANGED <<version, began, cancelled, temp, dest, safe, published, settled>>
      BY <1>3 DEF EndVacuum, IInv, Shape
    <2>2. /\ snap[p] \in Snapshot
          /\ snap'[p] = [snap[p] EXCEPT !.whole = TRUE]
      BY <1>0, <2>1 DEF Made, IInv, Shape
    <2>3. snap'[p] \in Snapshot /\ snap'[p].whole /\ snap'[p].of = snap[p].of /\ snap'[p] # NoFile
      BY <2>2, FilesDiffer DEF Snapshot
    <2>4. Made(p)'
      BY <1>0, <2>1, <2>3 DEF Made
    <2>5. snap' = [snap EXCEPT ![p] = snap'[p]]
      BY <2>1, <2>2
    <2>6. Fresh(p)'
      BY <1>0, <2>1, <2>3 DEF Fresh, Known, Newer
    <2>. QED  BY <1>0, <2>1, <2>3, <2>4, <2>5, <2>6, OwnStep
  <1>4. CASE OpenSnapshot(p)
    <2>1. at' = [at EXCEPT ![p] = "create"] /\ at'[p] = "create" /\ at[p] = "open"
      BY <1>4 DEF OpenSnapshot, IInv, Shape
    <2>2. Made(p)'
      BY <1>0, <1>4, <2>1 DEF OpenSnapshot, Made
    <2>3. Fresh(p)'
      BY <1>0, <1>4, <2>1 DEF OpenSnapshot, Fresh, Known, Newer
    <2>. QED  BY <1>0, <1>4, <2>1, <2>2, <2>3, OwnStep DEF OpenSnapshot
  <1>5. CASE CreateTemp(p)
    <2>. DEFINE f == [by |-> p, of |-> snap[p].of, whole |-> FALSE, synced |-> FALSE]
    <2>1. /\ at' = [at EXCEPT ![p] = "copy"] /\ at'[p] = "copy" /\ at[p] = "create"
          /\ temp' = [temp EXCEPT ![p] = f] /\ temp'[p] = f
          /\ UNCHANGED <<version, began, cancelled, snap, dest, safe, published, settled>>
      BY <1>5 DEF CreateTemp, IInv, Shape
    <2>2. snap[p] \in Snapshot
      BY <1>0, <2>1 DEF Made
    <2>3. f \in File /\ f.by = p /\ f.of = snap[p].of
      BY <1>0, <2>2 DEF File, Snapshot
    <2>. HIDE DEF f
    <2>4. f # NoFile
      BY <2>3, FilesDiffer
    <2>5. Made(p)'
      BY <1>0, <2>1, <2>3, <2>4 DEF Made
    <2>6. Fresh(p)'
      BY <1>0, <2>1, <2>3 DEF Fresh, Known, Newer
    <2>. QED  BY <1>0, <2>1, <2>3, <2>5, <2>6, OwnStep
  <1>6. CASE EndCopy(p)
    <2>1. /\ at' = [at EXCEPT ![p] = "sync"] /\ at'[p] = "sync" /\ at[p] = "copy"
          /\ temp' = [temp EXCEPT ![p].whole = snap[p].whole]
          /\ UNCHANGED <<version, began, cancelled, snap, dest, safe, published, settled>>
      BY <1>6 DEF EndCopy, IInv, Shape
    <2>2. /\ snap[p] \in Snapshot /\ snap[p].whole
          /\ temp[p] \in File /\ temp[p].by = p
          /\ temp'[p] = [temp[p] EXCEPT !.whole = snap[p].whole]
      BY <1>0, <2>1 DEF Made, IInv, Shape
    <2>3. snap[p].whole \in BOOLEAN
      BY <2>2 DEF Snapshot
    <2>4. /\ temp'[p] \in File /\ temp'[p].by = p /\ temp'[p].of = temp[p].of
          /\ temp'[p].whole = snap[p].whole
      BY <2>2, <2>3 DEF File
    <2>5. temp'[p] # NoFile
      BY <2>4, FilesDiffer
    <2>6. Made(p)'
      BY <1>0, <2>1, <2>2, <2>4, <2>5 DEF Made
    <2>7. temp' = [temp EXCEPT ![p] = temp'[p]]
      BY <2>1, <2>2
    <2>8. Fresh(p)'
      BY <1>0, <2>1, <2>4 DEF Fresh, Known, Newer
    <2>. QED  BY <1>0, <2>1, <2>4, <2>6, <2>7, <2>8, OwnStep
  <1>7. CASE Sync(p)
    <2>1. /\ at' = [at EXCEPT ![p] = "rename"] /\ at'[p] = "rename" /\ at[p] = "sync"
          /\ temp' = [temp EXCEPT ![p].synced = TRUE]
          /\ UNCHANGED <<version, began, cancelled, snap, dest, safe, published, settled>>
      BY <1>7 DEF Sync, IInv, Shape
    <2>2. /\ temp[p] \in File /\ temp[p].by = p /\ temp[p].whole
          /\ temp'[p] = [temp[p] EXCEPT !.synced = TRUE]
      BY <1>0, <2>1 DEF Made, IInv, Shape
    <2>3. /\ temp'[p] \in File /\ temp'[p].by = p /\ temp'[p].of = temp[p].of
          /\ temp'[p].whole /\ temp'[p].synced
      BY <2>2 DEF File
    <2>4. temp'[p] # NoFile
      BY <2>3, FilesDiffer
    <2>5. Made(p)'
      BY <1>0, <2>1, <2>3, <2>4 DEF Made
    <2>6. temp' = [temp EXCEPT ![p] = temp'[p]]
      BY <2>1, <2>2
    <2>7. Fresh(p)'
      BY <1>0, <2>1, <2>3 DEF Fresh, Known, Newer
    <2>. QED  BY <1>0, <2>1, <2>3, <2>5, <2>6, <2>7, OwnStep
  <1>8. CASE Fail(p)
    <2>1. /\ UNCHANGED <<version, began, cancelled, snap, temp, dest, safe, published, settled>>
          /\ \/ at[p] \in {"ping", "vacuum", "open", "create"} /\ at' = [at EXCEPT ![p] = "remove dir"]
             \/ at[p] \in {"copy", "sync", "rename"} /\ at' = [at EXCEPT ![p] = "remove temp"]
      BY <1>8 DEF Fail
    <2>2. Made(p)'
      <3>1. \/ at'[p] = "remove dir" /\ at[p] \in {"ping", "vacuum", "open", "create"}
            \/ at'[p] = "remove temp"
        BY <2>1 DEF IInv, Shape
      <3>2. CASE at'[p] = "remove dir" /\ at[p] \in {"ping", "vacuum", "open", "create"}
        BY <1>0, <2>1, <3>2 DEF Made
      <3>3. CASE at'[p] = "remove temp"
        BY <1>0, <2>1, <3>3 DEF Made
      <3>. QED  BY <3>1, <3>2, <3>3
    <2>5. Fresh(p)'
      <3>1. at'[p] \in {"remove dir", "remove temp"}
        BY <2>1 DEF IInv, Shape
      <3>. QED  BY <3>1 DEF Fresh, Newer
    <2>3. CASE at' = [at EXCEPT ![p] = "remove dir"]
      BY <1>0, <2>1, <2>2, <2>3, <2>5, OwnStep
    <2>4. CASE at' = [at EXCEPT ![p] = "remove temp"]
      BY <1>0, <2>1, <2>2, <2>4, <2>5, OwnStep
    <2>. QED  BY <2>1, <2>3, <2>4
  <1>9. CASE RemoveTemp(p)
    <2>1. /\ at' = [at EXCEPT ![p] = "remove dir"] /\ at'[p] = "remove dir"
          /\ at[p] = "remove temp" /\ temp' = [temp EXCEPT ![p] = NoFile]
          /\ temp'[p] = NoFile
          /\ UNCHANGED <<version, began, cancelled, snap, dest, safe, published, settled>>
      BY <1>9 DEF RemoveTemp, IInv, Shape
    <2>2. Made(p)'
      BY <1>0, <2>1 DEF Made
    <2>3. Fresh(p)'
      BY <2>1 DEF Fresh, Newer
    <2>. QED  BY <1>0, <2>1, <2>2, <2>3, OwnStep
  <1>10. CASE RemoveDir(p)
    <2>1. /\ snap' = [snap EXCEPT ![p] = NoFile] /\ snap'[p] = NoFile
          /\ UNCHANGED <<version, began, cancelled, temp, dest, safe, published, settled>>
          /\ \/ at[p] = "remove dir" /\ at' = [at EXCEPT ![p] = "failed"]
             \/ at[p] = "tidy" /\ at' = [at EXCEPT ![p] = "ok"]
      BY <1>10 DEF RemoveDir, IInv, Shape
    <2>2. Made(p)'
      <3>1. temp'[p] = NoFile
        BY <1>0, <2>1 DEF Made
      <3>2. at'[p] \in {"failed", "ok"}
        BY <2>1 DEF IInv, Shape
      <3>. QED  BY <1>0, <2>1, <3>1, <3>2 DEF Made
    <2>5. Fresh(p)'
      <3>1. at'[p] \in {"failed", "ok"}
        BY <2>1 DEF IInv, Shape
      <3>. QED  BY <3>1 DEF Fresh, Newer
    <2>3. CASE at[p] = "remove dir" /\ at' = [at EXCEPT ![p] = "failed"]
      BY <1>0, <2>1, <2>2, <2>3, <2>5, OwnStep
    <2>4. CASE at[p] = "tidy" /\ at' = [at EXCEPT ![p] = "ok"]
      BY <1>0, <2>1, <2>2, <2>4, <2>5, OwnStep
    <2>. QED  BY <2>1, <2>3, <2>4
  <1>11. CASE Kill(p)
    <2>1. /\ at' = [at EXCEPT ![p] = "killed"] /\ at'[p] = "killed"
          /\ UNCHANGED <<version, began, cancelled, snap, temp, dest, safe, published, settled>>
      BY <1>11 DEF Kill, IInv, Shape
    <2>2. Made(p)'
      BY <1>0, <2>1 DEF Made
    <2>3. Fresh(p)'
      BY <2>1 DEF Fresh, Newer
    <2>. QED  BY <1>0, <2>1, <2>2, <2>3, OwnStep
  <1>. QED
    BY <1>1, <1>2, <1>3, <1>4, <1>5, <1>6, <1>7, <1>8, <1>9, <1>10, <1>11,
       <1>12, <1>13

\* The rename puts a whole, synced and current file at the destination and
\* makes its run the last of the published.
LEMMA RenameKeeps ==
  ASSUME IInv, NEW p \in Runs, Rename(p)
  PROVE  IInv'
  <1>. DEFINE n == Len(published)
  <1>0. /\ at[p] = "rename" /\ at' = [at EXCEPT ![p] = "settle"] /\ at'[p] = "settle"
        /\ dest' = temp[p] /\ temp' = [temp EXCEPT ![p] = NoFile]
        /\ published' = Append(published, p)
        /\ UNCHANGED <<version, began, cancelled, snap, safe, settled>>
    BY DEF Rename, Goto, IInv, Shape
  <1>1. /\ Made(p) /\ temp[p] \in File /\ temp[p].by = p
        /\ temp[p].whole /\ temp[p].synced /\ temp[p] # NoFile
    BY <1>0 DEF IInv, Shape, Made
  <1>2. /\ published \in Seq(Runs) /\ n \in Nat
        /\ published' \in Seq(Runs) /\ Len(published') = n + 1
        /\ published'[n + 1] = p /\ \A i \in 1..n : published'[i] = published[i]
    BY <1>0 DEF IInv, Shape
  <1>. HIDE DEF n
  <1>3. Shape'
    BY <1>0, <1>1, <1>2 DEF IInv, Shape, Working
  <1>4. ASSUME NEW q \in Runs PROVE Made(q)'
    <2>1. /\ Made(q) /\ (q # p => at'[q] = at[q] /\ temp'[q] = temp[q])
          /\ began'[q] = began[q] /\ began[q] \in Nat /\ began[q] <= n
      BY <1>0 DEF IInv, Shape, Made, n
    <2>2. began'[q] <= Len(published')
      BY <1>2, <2>1
    <2>3. CASE q # p
      BY <1>0, <2>1, <2>2, <2>3 DEF Made
    <2>4. CASE q = p
      <3>1. temp'[p] = NoFile
        BY <1>0 DEF IInv, Shape
      <3>. QED  BY <1>0, <2>2, <2>4, <3>1 DEF Made
    <2>. QED  BY <2>3, <2>4
  <1>5. ASSUME NEW q \in Runs PROVE Place(q)'
    <2>1. Place(q) /\ (q # p => at'[q] = at[q])
      BY <1>0 DEF IInv, Shape
    <2>2. dest' # NoFile /\ dest'.by = p /\ p # NoRun
      BY <1>0, <1>1, NoRunAssumption
    <2>3. CASE q = p
      <3>1. n + 1 \in 1..Len(published') /\ published' # <<>>
        BY <1>2
      <3>2. p \notin settled
        BY <1>0, <2>1, <2>3 DEF Place
      <3>. QED  BY <1>0, <1>2, <2>2, <2>3, <3>1, <3>2 DEF Place, Before, Failing
    <2>4. CASE q # p
      <3>1. at[q] \in Before \cup Failing =>
              \A i \in 1..Len(published') : published'[i] # q
        BY <1>2, <2>1, <2>4 DEF Place, n
      <3>2. at[q] = "settle" => \E i \in 1..Len(published') : published'[i] = q
        BY <1>2, <2>1 DEF Place, n
      <3>3. ASSUME at[q] \in {"tidy", "ok"}, q \in settled
            PROVE  Holds(dest, q)' /\ Holds(safe, q)'
        <4>1. PICK i \in 1..n, j \in 1..n :
                i <= j /\ published[i] = q /\ published[j] = safe.by
          BY <2>1, <3>3 DEF Place, Holds, n
        <4>2. i \in 1..Len(published') /\ j \in 1..Len(published')
              /\ n + 1 \in 1..Len(published') /\ i <= n + 1
          BY <1>2
        <4>3. published'[i] = q /\ published'[j] = safe.by
          BY <1>2, <4>1
        <4>4. safe # NoFile /\ safe.by # NoRun
          BY <2>1, <3>3 DEF Place, Holds
        <4>. QED  BY <1>0, <1>2, <2>2, <4>1, <4>2, <4>3, <4>4 DEF Holds
      <3>4. published' # <<>> /\ published'[Len(published')] = p
        BY <1>2
      <3>5. q \in settled => \E i \in 1..Len(published') : published'[i] = q
        BY <1>2, <2>1 DEF Place, n
      <3>. QED  BY <1>0, <2>1, <2>2, <2>4, <3>1, <3>2, <3>3, <3>4, <3>5 DEF Place
    <2>. QED  BY <2>3, <2>4
  <1>6. Good(dest)'
    <2>1. temp[p].of <= version
      BY <1>0 DEF IInv, Fresh
    <2>2. n + 1 \in 1..Len(published')
      BY <1>2
    <2>. QED  BY <1>0, <1>1, <1>2, <2>1, <2>2 DEF Good
  <1>7. Good(safe)'
    <2>1. Good(safe) /\ safe' = safe /\ version' = version
      BY <1>0 DEF IInv
    <2>2. ASSUME NEW i \in 1..n PROVE i \in 1..Len(published') /\ published'[i] = published[i]
      BY <1>2
    <2>. QED  BY <2>1, <2>2 DEF Good, n
  <1>10. ASSUME NEW q \in Runs PROVE Fresh(q)'
    <2>1. CASE q = p
      BY <1>0, <2>1 DEF Fresh, Newer
    <2>2. CASE q # p
      <3>1. /\ Fresh(q) /\ at'[q] = at[q] /\ temp'[q] = temp[q]
            /\ snap'[q] = snap[q] /\ began'[q] = began[q]
            /\ began[q] \in Nat /\ began[q] <= n
        BY <1>0, <2>2 DEF IInv, Shape, Made, n
      <3>2. ASSUME NEW i \in 1..began[q]
            PROVE  published'[i] = published[i] /\ published[i] # p
        <4>1. i \in 1..n
          BY <1>2, <3>1
        <4>. QED  BY <1>0, <1>2, <4>1 DEF IInv, Place, Before, n
      <3>3. ~Known(q, dest)'
        BY <1>0, <1>1, <3>1, <3>2, NoRunAssumption DEF Known
      <3>4. Known(q, safe)' => Newer(q, safe)'
        <4>1. Known(q, safe)' => Known(q, safe)
          BY <1>0, <3>1, <3>2 DEF Known
        <4>. QED  BY <1>0, <3>1, <4>1 DEF Fresh, Newer
      <3>5. /\ at'[q] \in {"vacuum", "open", "create"} => snap'[q].of <= version'
            /\ at'[q] \in {"copy", "sync", "rename"} => temp'[q].of <= version'
        BY <1>0, <3>1 DEF Fresh
      <3>. QED  BY <3>3, <3>4, <3>5 DEF Fresh, Known, Newer
    <2>. QED  BY <2>1, <2>2
  <1>8. Once'
    <2>1. \A i \in 1..n : published[i] # p
      BY <1>0 DEF IInv, Place, Before, n
    <2>2. Once
      BY DEF IInv
    <2>3. ASSUME NEW i \in 1..(n + 1), NEW j \in 1..(n + 1), published'[i] = published'[j]
          PROVE  i = j
      <3>1. CASE i \in 1..n /\ j \in 1..n
        BY <1>2, <2>2, <2>3, <3>1 DEF Once, n
      <3>2. CASE i = n + 1 \/ j = n + 1
        BY <1>2, <2>1, <2>3, <3>2
      <3>. QED  BY <1>2, <3>1, <3>2
    <2>. QED  BY <1>2, <2>3 DEF Once
  <1>9. dest' = NoFile => safe' = NoFile
    BY <1>0, <1>1
  <1>. QED  BY <1>3, <1>4, <1>5, <1>6, <1>7, <1>8, <1>9, <1>10 DEF IInv

\* The sync of the directory makes what the run renamed, or what was renamed
\* over it since, safe; where it fails nothing is claimed.
LEMMA SettleKeeps ==
  ASSUME IInv, NEW p \in Runs, Settle(p)
  PROVE  IInv'
  <1>0. /\ at[p] = "settle" /\ at' = [at EXCEPT ![p] = "tidy"] /\ at'[p] = "tidy"
        /\ \/ safe' = dest /\ settled' = settled \cup {p}
           \/ safe' = safe /\ settled' = settled
        /\ UNCHANGED <<version, began, cancelled, snap, temp, dest, published>>
    BY DEF Settle, Goto, IInv, Shape
  <1>1. ASSUME NEW q \in Runs, q # p PROVE at'[q] = at[q]
    BY <1>0, <1>1 DEF IInv, Shape
  <1>2. Shape'
    BY <1>0 DEF IInv, Shape, Cleaning
  <1>3. ASSUME NEW q \in Runs PROVE Made(q)'
    BY <1>0, <1>1 DEF IInv, Made
  <1>4. ASSUME NEW q \in Runs PROVE Place(q)'
    <2>1. Place(q)
      BY DEF IInv
    <2>2. CASE q # p
      <3>1. at'[q] = at[q] /\ (q \in settled' <=> q \in settled)
        BY <1>0, <1>1, <2>2
      <3>2. safe' = dest \/ safe' = safe
        BY <1>0
      <3>. QED  BY <1>0, <2>1, <3>1, <3>2 DEF Place, Holds
    <2>3. CASE q = p
      <3>0. p \notin settled
        BY <1>0, <2>1, <2>3 DEF Place
      <3>1. /\ dest # NoFile /\ published # <<>> /\ published \in Seq(Runs)
            /\ dest.by = published[Len(published)]
        BY <1>0, <2>1, <2>3 DEF Place, IInv, Shape
      <3>2. Len(published) \in 1..Len(published)
        BY <3>1
      <3>3. dest.by \in Runs /\ dest.by # NoRun
        BY <3>1, <3>2, NoRunAssumption
      <3>4. PICK i \in 1..Len(published) : published[i] = p
        BY <1>0, <2>1, <2>3 DEF Place
      <3>5. i <= Len(published)
        BY <3>2, <3>4
      <3>6. Holds(dest, p)
        BY <3>1, <3>2, <3>3, <3>4, <3>5 DEF Holds
      <3>7. CASE safe' = dest /\ settled' = settled \cup {p}
        BY <1>0, <2>3, <3>4, <3>6, <3>7 DEF Place, Holds, Before, Failing
      <3>8. CASE safe' = safe /\ settled' = settled
        BY <1>0, <2>3, <3>0, <3>8 DEF Place, Before, Failing
      <3>. QED  BY <1>0, <3>7, <3>8
    <2>. QED  BY <2>2, <2>3
  <1>5. Good(dest)' /\ Good(safe)'
    BY <1>0 DEF IInv, Good
  <1>6. ASSUME NEW q \in Runs PROVE Fresh(q)'
    <2>1. CASE q = p
      BY <1>0, <2>1 DEF Fresh, Newer
    <2>2. CASE q # p
      <3>1. Fresh(q) /\ at'[q] = at[q] /\ (safe' = dest \/ safe' = safe)
        BY <1>0, <1>1, <2>2 DEF IInv
      <3>. QED  BY <1>0, <3>1 DEF Fresh, Known, Newer
    <2>. QED  BY <2>1, <2>2
  <1>7. Once' /\ (dest' = NoFile => safe' = NoFile)
    BY <1>0 DEF IInv, Once
  <1>. QED  BY <1>2, <1>3, <1>4, <1>5, <1>6, <1>7 DEF IInv

\* Servers that commit, signals, and directories written back.
LEMMA AroundKeeps ==
  ASSUME IInv, Commit \/ WriteBack \/ (\E p \in Runs : Cancel(p))
  PROVE  IInv'
  <1>1. /\ UNCHANGED <<began, at, snap, temp, dest, published, settled>>
        /\ safe' \in {safe, dest}
    BY DEF Commit, WriteBack, Cancel
  <1>0. version' \in {version, version + 1} /\ version \in Nat
    BY DEF Commit, WriteBack, Cancel, IInv, Shape, Versions
  <1>2. Shape'
    <2>1. version' \in Versions
      BY VersionAssumption DEF Commit, WriteBack, Cancel, IInv, Shape, Versions
    <2>2. cancelled' \subseteq Runs
      BY DEF Commit, WriteBack, Cancel, IInv, Shape
    <2>. QED  BY <1>1, <2>1, <2>2 DEF IInv, Shape
  <1>3. ASSUME NEW p \in Runs PROVE Made(p)' /\ Place(p)' /\ Fresh(p)'
    <2>1. Made(p) /\ Place(p) /\ Fresh(p)
      BY DEF IInv
    <2>2. Made(p)'
      BY <1>1, <2>1 DEF Made
    <2>3. Place(p)'
      BY <1>1, <2>1 DEF Place, Holds
    <2>4. ASSUME at[p] \in {"vacuum", "open", "create"} PROVE snap[p].of \in Int
      <3>1. snap[p] \in Snapshot
        BY <2>1, <2>4 DEF IInv, Shape, Made
      <3>. QED  BY <3>1 DEF Snapshot, Versions
    <2>5. ASSUME at[p] \in {"copy", "sync", "rename"} PROVE temp[p].of \in Int
      <3>1. temp[p] \in File
        BY <2>1, <2>5 DEF IInv, Shape, Made
      <3>. QED  BY <3>1 DEF File, Versions
    <2>6. /\ at'[p] \in {"vacuum", "open", "create"} => snap'[p].of <= version'
          /\ at'[p] \in {"copy", "sync", "rename"} => temp'[p].of <= version'
      BY <1>0, <1>1, <2>1, <2>4, <2>5 DEF Fresh
    <2>7. \A f \in {dest', safe'} : Known(p, f)' => Newer(p, f)'
      BY <1>1, <2>1 DEF Fresh, Known, Newer
    <2>8. Fresh(p)'
      BY <2>6, <2>7 DEF Fresh, Known, Newer
    <2>. QED  BY <2>2, <2>3, <2>8
  <1>4. Good(dest)' /\ Good(safe)'
    <2>1. ASSUME NEW f \in {dest, safe}, f # NoFile PROVE f.of \in Int /\ Good(f)
      <3>1. f \in File
        BY <2>1 DEF IInv, Shape
      <3>. QED  BY <2>1, <3>1 DEF IInv, File, Versions
    <2>. QED  BY <1>0, <1>1, <2>1 DEF Good
  <1>5. Once' /\ (dest' = NoFile => safe' = NoFile)
    BY <1>1 DEF IInv, Once
  <1>. QED  BY <1>2, <1>3, <1>4, <1>5 DEF IInv

\* What survives a loss of power is what was synced, which is all that is ever
\* at the destination.
LEMMA PowerLossKeeps ==
  ASSUME IInv, PowerLoss
  PROVE  IInv'
  <1>0. /\ at' = [p \in Runs |-> IF at[p] \in Working \cup Cleaning THEN "killed"
                                 ELSE at[p]]
        /\ temp' = [p \in Runs |-> Survivor(temp[p])]
        /\ UNCHANGED <<version, began, cancelled, snap, published, settled>>
    BY DEF PowerLoss
  <1>1. dest' = safe /\ safe' = safe
    BY DEF PowerLoss, Survivor, IInv, Good
  <1>2. ASSUME NEW f \in File \cup {NoFile} PROVE Survivor(f) \in File \cup {NoFile}
    BY DEF Survivor, File
  <1>3. ASSUME NEW p \in Runs
        PROVE  \/ at'[p] = "killed"
               \/ at'[p] = at[p] /\ at[p] \in {"idle"} \cup Over
    BY <1>0 DEF IInv, Shape
  <1>4. Shape'
    <2>1. temp' \in [Runs -> File \cup {NoFile}]
      BY <1>0, <1>2 DEF IInv, Shape
    <2>2. at' \in [Runs -> {"idle"} \cup Working \cup Cleaning \cup Over]
      BY <1>0 DEF IInv, Shape, Over
    <2>. QED  BY <1>0, <1>1, <2>1, <2>2 DEF IInv, Shape
  <1>5. ASSUME NEW p \in Runs PROVE Made(p)'
    <2>1. /\ Made(p) /\ temp'[p] = Survivor(temp[p])
          /\ began' = began /\ snap' = snap /\ published' = published
      BY <1>0 DEF IInv
    <2>2. CASE at'[p] = "killed"
      BY <2>1, <2>2 DEF Made
    <2>3. CASE at'[p] = at[p] /\ at[p] \in {"idle", "ok", "failed"}
      BY <2>1, <2>3 DEF Made, Survivor
    <2>. QED  BY <1>3, <2>2, <2>3 DEF Over
  <1>6. ASSUME NEW p \in Runs PROVE Place(p)'
    <2>1. Place(p)
      BY DEF IInv
    <2>2. CASE at'[p] = "killed"
      BY <1>0, <2>1, <2>2 DEF Place, Before, Failing
    <2>3. CASE at'[p] = at[p] /\ at[p] \in {"idle", "ok", "failed"}
      BY <1>0, <1>1, <2>1, <2>3 DEF Place, Holds
    <2>. QED  BY <1>3, <2>2, <2>3 DEF Over
  <1>7. Good(dest)' /\ Good(safe)'
    BY <1>0, <1>1 DEF IInv, Good
  <1>8. ASSUME NEW p \in Runs PROVE Fresh(p)'
    BY <1>3 DEF Fresh, Newer, Over
  <1>9. Once' /\ (dest' = NoFile => safe' = NoFile)
    BY <1>0, <1>1 DEF IInv, Once
  <1>. QED  BY <1>4, <1>5, <1>6, <1>7, <1>8, <1>9 DEF IInv

LEMMA InvStep == IInv /\ [Next]_vars => IInv'
  <1>. SUFFICES ASSUME IInv, [Next]_vars PROVE IInv'
    OBVIOUS
  <1>1. CASE UNCHANGED vars
    <2>1. Shape' /\ Once'
      BY <1>1 DEF vars, IInv, Shape, Once
    <2>2. ASSUME NEW p \in Runs PROVE Made(p)'
      BY <1>1 DEF vars, IInv, Made
    <2>3. ASSUME NEW p \in Runs PROVE Place(p)'
      BY <1>1 DEF vars, IInv, Place, Holds
    <2>4. Good(dest)' /\ Good(safe)' /\ (dest' = NoFile => safe' = NoFile)
      BY <1>1 DEF vars, IInv, Good
    <2>5. ASSUME NEW p \in Runs PROVE Fresh(p)'
      BY <1>1 DEF vars, IInv, Fresh, Known, Newer
    <2>. QED  BY <2>1, <2>2, <2>3, <2>4, <2>5 DEF IInv
  <1>2. CASE Next
    BY <1>2, WorkKeeps, RenameKeeps, SettleKeeps, AroundKeeps, PowerLossKeeps
       DEF Next, Step
  <1>. QED  BY <1>1, <1>2

LEMMA Inductive == Spec => []IInv
  BY InvInit, InvStep, PTL DEF Spec

\* The variables keep their shape, no run publishes twice, and only a killed
\* run leaves files that no later step of it removes.
THEOREM BackupTypeCorrect == Spec => []TypeOK
  <1>1. IInv => TypeOK
    <2>. SUFFICES ASSUME IInv PROVE TypeOK
      OBVIOUS
    <2>1. IsInjective(published)
      <3>1. DOMAIN published = 1..Len(published)
        BY DEF IInv, Shape
      <3>. QED  BY <3>1 DEF IInv, Once, IsInjective
    <2>3. settled \subseteq Range(published)
      <3>1. DOMAIN published = 1..Len(published)
        BY DEF IInv, Shape
      <3>2. ASSUME NEW p \in settled PROVE p \in Range(published)
        BY <3>1, <3>2 DEF IInv, Shape, Place, Range
      <3>. QED  BY <3>2
    <2>2. ASSUME NEW p \in Runs
          PROVE  /\ temp[p] # NoFile =>
                      at[p] \in {"copy", "sync", "rename", "remove temp", "killed"}
                 /\ at[p] \in {"vacuum", "open", "create", "copy", "sync"} =>
                      snap[p] # NoFile
                 /\ began[p] <= Len(published)
      BY DEF IInv, Made
    <2>. QED  BY <2>1, <2>2, <2>3 DEF IInv, Shape, TypeOK, Snapshot
  <1>. QED  BY <1>1, Inductive, PTL

\* Whatever fails, is killed or loses power, the destination is a whole backup
\* once it has been one.
THEOREM DestCorrect == Spec => []DestIsWhole
  <1>1. IInv => DestIsWhole
    BY DEF IInv, Good, DestIsWhole
  <1>. QED  BY <1>1, Inductive, PTL

\* A backup that was acknowledged, its directory synced, is lost only to one
\* that was published after it, whatever became of the other runs' syncs.
THEOREM AcknowledgedCorrect == Spec => []AcknowledgedSurvives
  <1>1. IInv => AcknowledgedSurvives
    <2>. SUFFICES ASSUME IInv, NEW p \in Runs, at[p] = "ok", p \in settled
                  PROVE  /\ safe # NoFile /\ safe.by # NoRun
                         /\ \E i, j \in DOMAIN published :
                               i <= j /\ published[i] = p /\ published[j] = safe.by
      BY DEF AcknowledgedSurvives
    <2>1. Holds(safe, p)
      BY DEF IInv, Place
    <2>2. DOMAIN published = 1..Len(published)
      BY DEF IInv, Shape
    <2>. QED  BY <2>1, <2>2 DEF Holds
  <1>. QED  BY <1>1, Inductive, PTL

\* Only a run that had begun when a backup was published replaces it by one
\* with fewer of the source's transactions.
THEOREM OverlapsCorrect == Spec => OnlyOverlapsGoBack
  <1>1. IInv /\ [Next]_vars =>
          [\A p \in Runs :
             (/\ published' = Append(published, p)
              /\ dest # NoFile /\ dest'.of < dest.of)
             => \E i \in DOMAIN published : began[p] < i /\ published[i] = dest.by]_vars
    <2>. SUFFICES ASSUME IInv, Next, NEW p \in Runs,
                         published' = Append(published, p),
                         dest # NoFile, dest'.of < dest.of
                  PROVE  \E i \in DOMAIN published :
                            began[p] < i /\ published[i] = dest.by
      OBVIOUS
    <2>1. /\ published \in Seq(Runs) /\ Len(published) \in Nat
          /\ DOMAIN published = 1..Len(published)
          /\ began[p] \in Nat
      BY DEF IInv, Shape
    <2>2. published' # published
      <3>1. Len(Append(published, p)) = Len(published) + 1
        BY <2>1
      <3>2. published' = Append(published, p)
        OBVIOUS
      <3>3. Len(published') = Len(published) + 1
        BY <3>1, <3>2, Zenon
      <3>4. \A n \in Nat : n + 1 # n
        OBVIOUS
      <3>. QED  BY <2>1, <3>3, <3>4, Zenon
    <2>3. PICK q \in Runs : Rename(q)
      BY <2>2 DEF Next, Step, Commit, WriteBack, PowerLoss, Begin, Refuse, MakeDir,
         StartVacuum, EndVacuum, OpenSnapshot, CreateTemp, EndCopy, Sync, Settle,
         Fail, RemoveTemp, RemoveDir, Cancel, Kill
    <2>4. q = p
      <3>1. Append(published, q)[Len(published) + 1] = q
        BY <2>1
      <3>2. Append(published, p)[Len(published) + 1] = p
        BY <2>1
      <3>. QED  BY <2>3, <3>1, <3>2 DEF Rename
    <2>5. at[p] = "rename" /\ dest' = temp[p]
      BY <2>3, <2>4 DEF Rename
    <2>6. temp[p].of \in Int /\ dest.of \in Int
      <3>1. temp[p] \in File /\ dest \in File
        BY <2>5 DEF IInv, Shape, Made
      <3>. QED  BY <3>1 DEF File, Versions
    <2>7. ~Known(p, dest)
      BY <2>5, <2>6 DEF IInv, Fresh, Newer
    <2>8. PICK i \in 1..Len(published) : published[i] = dest.by
      BY <2>7 DEF IInv, Good, Known
    <2>9. i \notin 1..began[p]
      BY <2>7, <2>8 DEF Known
    <2>. QED  BY <2>1, <2>8, <2>9
  <1>. QED  BY <1>1, Inductive, PTL DEF Spec, OnlyOverlapsGoBack

\* Every way a run can end by itself removes its plaintext and its temporary
\* file.
THEOREM CleanupCorrect == Spec => []NothingLeftBehind
  <1>1. IInv => NothingLeftBehind
    BY DEF IInv, Made, NothingLeftBehind
  <1>. QED  BY <1>1, Inductive, PTL

=============================================================================
