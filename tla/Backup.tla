------------------------------- MODULE Backup -------------------------------
(***************************************************************************)
(* `workmem backup' (internal/backup/backup.go): a snapshot of the source   *)
(* database is encrypted into a temporary file beside the destination,      *)
(* synced and renamed onto it, while servers go on writing to the source    *)
(* and other backups may run to the same destination.  A step may fail, the *)
(* command may be cancelled or killed, and the machine may lose power.      *)
(*                                                                          *)
(* The source is the number of transactions committed to it, a backup the   *)
(* number it was taken at and whether all of it is there.  A directory      *)
(* entry that was not synced may be what it was before a power loss, and a  *)
(* file that was not synced may be cut short.  External: an fsync that      *)
(* returns has made its file durable, and a file of one's own can be        *)
(* removed.                                                                 *)
(***************************************************************************)
EXTENDS Integers, Sequences, SequencesExt

CONSTANTS
    Runs,           \* backup commands
    MaxVersion,     \* bound: transactions committed to the source
    NoRun,
    NoFile

ASSUME VersionAssumption == MaxVersion \in Nat
ASSUME NoRunAssumption == NoRun \notin Runs
ASSUME NoFileAssumption ==
    NoFile \notin [by : Runs \cup {NoRun}, of : 0..MaxVersion, whole : BOOLEAN,
                  synced : BOOLEAN] \cup [of : 0..MaxVersion, whole : BOOLEAN]

VARIABLES
    version,        \* of the source
    began,          \* per run: how many had published when it began
    at,             \* per run: its next step
    cancelled,      \* runs whose context is cancelled
    snap,           \* per run: the plaintext snapshot in its temporary directory
    temp,           \* per run: the temporary file beside the destination
    dest,           \* the destination
    safe,           \* the destination as the disk has it
    published,      \* the runs that renamed their file, in order
    settled         \* the runs to which the directory's sync reported no error

vars == <<version, began, at, cancelled, snap, temp, dest, safe, published, settled>>

Versions == 0..MaxVersion

File == [by : Runs \cup {NoRun}, of : Versions, whole : BOOLEAN,
         synced : BOOLEAN]

\* The backup of an earlier day.
OldBackup == [by |-> NoRun, of |-> 0, whole |-> TRUE, synced |-> TRUE]

\* While it works, while it removes what it made, and when it is over.
Working == {"begun", "ping", "vacuum", "open", "create", "copy", "sync", "rename", "settle"}
Cleaning == {"remove temp", "remove dir", "tidy"}
Over == {"ok", "failed", "killed"}

Goto(p, step) == at' = [at EXCEPT ![p] = step]

---------------------------------------------------------------------------

\* A server's transaction, committed during a backup as at any other time.
Commit ==
    /\ version < MaxVersion
    /\ version' = version + 1
    /\ UNCHANGED <<began, at, cancelled, snap, temp, dest, safe, published, settled>>

Begin(p) ==
    /\ at[p] = "idle"
    /\ began' = [began EXCEPT ![p] = Len(published)]
    /\ Goto(p, "begun")
    /\ UNCHANGED <<version, cancelled, snap, temp, dest, safe, published, settled>>

\* Bad paths, no recipients, a destination that is the source, no temporary
\* directory.
Refuse(p) ==
    /\ at[p] = "begun"
    /\ Goto(p, "failed")
    /\ UNCHANGED <<version, began, cancelled, snap, temp, dest, safe, published, settled>>

\* The temporary directory, empty and the run's own.
MakeDir(p) ==
    /\ at[p] = "begun"
    /\ Goto(p, "ping")
    /\ UNCHANGED <<version, began, cancelled, snap, temp, dest, safe, published, settled>>

\* Mutant: the database file is copied without its write-ahead log, which
\* holds the latest transactions until a checkpoint.
StartCopyOfFile(p) ==
    /\ at[p] = "ping" /\ p \notin cancelled
    /\ \E v \in 0..version : snap' = [snap EXCEPT ![p] = [of |-> v, whole |-> FALSE]]
    /\ Goto(p, "vacuum")
    /\ UNCHANGED <<version, began, cancelled, temp, dest, safe, published, settled>>

\* The source is opened and answers; VACUUM INTO works on the read snapshot it
\* opens here.
StartVacuum(p) ==
    /\ at[p] = "ping" /\ p \notin cancelled
    /\ snap' = [snap EXCEPT ![p] = [of |-> version, whole |-> FALSE]]
    /\ Goto(p, "vacuum")
    /\ UNCHANGED <<version, began, cancelled, temp, dest, safe, published, settled>>

EndVacuum(p) ==
    /\ at[p] = "vacuum"
    /\ snap' = [snap EXCEPT ![p].whole = TRUE]
    /\ Goto(p, "open")
    /\ UNCHANGED <<version, began, cancelled, temp, dest, safe, published, settled>>

\* encryptToFile looks at the context once more before it opens the snapshot.
OpenSnapshot(p) ==
    /\ at[p] = "open" /\ p \notin cancelled
    /\ Goto(p, "create")
    /\ UNCHANGED <<version, began, cancelled, snap, temp, dest, safe, published, settled>>

\* CreateTemp in the destination's directory: the name is the run's own.
CreateTemp(p) ==
    /\ at[p] = "create"
    /\ temp' = [temp EXCEPT ![p] = [by |-> p, of |-> snap[p].of,
                                    whole |-> FALSE, synced |-> FALSE]]
    /\ Goto(p, "copy")
    /\ UNCHANGED <<version, began, cancelled, snap, dest, safe, published, settled>>

\* The last read of the copy, which a cancelled context refuses, and the end
\* of the encryption.
EndCopy(p) ==
    /\ at[p] = "copy" /\ p \notin cancelled
    /\ temp' = [temp EXCEPT ![p].whole = snap[p].whole]
    /\ Goto(p, "sync")
    /\ UNCHANGED <<version, began, cancelled, snap, dest, safe, published, settled>>

\* Mutant: the file is closed without a sync.
SyncNothing(p) ==
    /\ at[p] = "sync"
    /\ Goto(p, "rename")
    /\ UNCHANGED <<version, began, cancelled, snap, temp, dest, safe, published, settled>>

Sync(p) ==
    /\ at[p] = "sync"
    /\ temp' = [temp EXCEPT ![p].synced = TRUE]
    /\ Goto(p, "rename")
    /\ UNCHANGED <<version, began, cancelled, snap, dest, safe, published, settled>>

Rename(p) ==
    /\ at[p] = "rename"
    /\ dest' = temp[p]
    /\ temp' = [temp EXCEPT ![p] = NoFile]
    /\ published' = Append(published, p)
    /\ Goto(p, "settle")
    /\ UNCHANGED <<version, began, cancelled, snap, safe, settled>>

\* Mutant: the directory is opened and closed again without a sync.
SettleNothing(p) ==
    /\ at[p] = "settle"
    /\ settled' \in {settled, settled \cup {p}}
    /\ Goto(p, "tidy")
    /\ UNCHANGED <<version, began, cancelled, snap, temp, dest, safe, published>>

\* The sync of the directory, as best effort: the error of its open or of the
\* sync itself is dropped.
Settle(p) ==
    /\ at[p] = "settle"
    /\ \/ safe' = dest /\ settled' = settled \cup {p}
       \/ UNCHANGED <<safe, settled>>
    /\ Goto(p, "tidy")
    /\ UNCHANGED <<version, began, cancelled, snap, temp, dest, published>>

\* Mutant: only the directory is removed.
FailKeepingTemp(p) ==
    /\ at[p] \in Working \ {"begun", "settle"}
    /\ Goto(p, "remove dir")
    /\ UNCHANGED <<version, began, cancelled, snap, temp, dest, safe, published, settled>>

\* A step reports an error, for the cancelled context or any other reason;
\* the deferred removals follow.
Fail(p) ==
    /\ \/ /\ at[p] \in {"ping", "vacuum", "open", "create"}
          /\ Goto(p, "remove dir")
       \/ /\ at[p] \in {"copy", "sync", "rename"}
          /\ Goto(p, "remove temp")
    /\ UNCHANGED <<version, began, cancelled, snap, temp, dest, safe, published, settled>>

RemoveTemp(p) ==
    /\ at[p] = "remove temp"
    /\ temp' = [temp EXCEPT ![p] = NoFile]
    /\ Goto(p, "remove dir")
    /\ UNCHANGED <<version, began, cancelled, snap, dest, safe, published, settled>>

\* Mutant: a failure leaves the directory, as only the last statement of a
\* successful run removes it.
RemoveDirOnSuccess(p) ==
    \/ /\ at[p] = "remove dir"
       /\ Goto(p, "failed")
       /\ UNCHANGED <<version, began, cancelled, snap, temp, dest, safe, published, settled>>
    \/ /\ at[p] = "tidy"
       /\ snap' = [snap EXCEPT ![p] = NoFile]
       /\ Goto(p, "ok")
       /\ UNCHANGED <<version, began, cancelled, temp, dest, safe, published, settled>>

\* os.RemoveAll of the temporary directory, on either way out.
RemoveDir(p) ==
    /\ \/ at[p] = "remove dir" /\ Goto(p, "failed")
       \/ at[p] = "tidy" /\ Goto(p, "ok")
    /\ snap' = [snap EXCEPT ![p] = NoFile]
    /\ UNCHANGED <<version, began, cancelled, temp, dest, safe, published, settled>>

\* SIGINT or SIGTERM: noticed at the next look at the context, if there is one.
Cancel(p) ==
    /\ at[p] \in Working /\ p \notin cancelled
    /\ cancelled' = cancelled \cup {p}
    /\ UNCHANGED <<version, began, at, snap, temp, dest, safe, published, settled>>

Kill(p) ==
    /\ at[p] \in Working \cup Cleaning
    /\ Goto(p, "killed")
    /\ UNCHANGED <<version, began, cancelled, snap, temp, dest, safe, published, settled>>

\* The system writes a directory back whenever it likes.
WriteBack ==
    /\ safe # dest
    /\ safe' = dest
    /\ UNCHANGED <<version, began, at, cancelled, snap, temp, dest, published, settled>>

\* What the loss of power makes of a file.
Survivor(f) == IF f = NoFile \/ f.synced THEN f ELSE [f EXCEPT !.whole = FALSE]

PowerLoss ==
    /\ \E p \in Runs : at[p] \in Working \cup Cleaning
    /\ at' = [p \in Runs |-> IF at[p] \in Working \cup Cleaning THEN "killed"
                             ELSE at[p]]
    /\ temp' = [p \in Runs |-> Survivor(temp[p])]
    /\ dest' = Survivor(safe)
    /\ safe' = Survivor(safe)
    /\ UNCHANGED <<version, began, cancelled, snap, published, settled>>

---------------------------------------------------------------------------

Init ==
    /\ version = 0
    /\ began = [p \in Runs |-> 0]
    /\ at = [p \in Runs |-> "idle"]
    /\ cancelled = {}
    /\ snap = [p \in Runs |-> NoFile]
    /\ temp = [p \in Runs |-> NoFile]
    /\ dest \in {NoFile, OldBackup}
    /\ safe = dest
    /\ published = <<>>
    /\ settled = {}

Step(p) ==
    \/ Begin(p) \/ Refuse(p) \/ MakeDir(p) \/ StartVacuum(p) \/ EndVacuum(p)
    \/ OpenSnapshot(p) \/ CreateTemp(p) \/ EndCopy(p) \/ Sync(p) \/ Rename(p) \/ Settle(p)
    \/ Fail(p) \/ RemoveTemp(p) \/ RemoveDir(p)

Next ==
    \/ Commit \/ WriteBack \/ PowerLoss
    \/ \E p \in Runs : Step(p) \/ Cancel(p) \/ Kill(p)

Spec == Init /\ [][Next]_vars

---------------------------------------------------------------------------

\* Every variable has its shape, no run publishes twice, and a run has files
\* only while a step that removes them is ahead, unless it was killed.
TypeOK ==
    /\ version \in Versions
    /\ began \in [Runs -> Nat]
    /\ at \in [Runs -> {"idle"} \cup Working \cup Cleaning \cup Over]
    /\ cancelled \subseteq Runs
    /\ snap \in [Runs -> [of : Versions, whole : BOOLEAN] \cup {NoFile}]
    /\ temp \in [Runs -> File \cup {NoFile}]
    /\ dest \in File \cup {NoFile}
    /\ safe \in File \cup {NoFile}
    /\ published \in Seq(Runs) /\ IsInjective(published)
    /\ settled \subseteq Range(published)
    /\ \A p \in Runs :
          /\ temp[p] # NoFile =>
                at[p] \in {"copy", "sync", "rename", "remove temp", "killed"}
          /\ at[p] \in {"vacuum", "open", "create", "copy", "sync"} =>
                snap[p] # NoFile
          /\ began[p] <= Len(published)

\* The destination is the previous backup or the new one, never a part of one,
\* to a reader, after a kill, and after the power came back.
DestIsWhole ==
    /\ \A f \in {dest, safe} : f = NoFile \/ f.whole
    /\ dest = NoFile => safe = NoFile

\* A backup that was reported as written, and whose directory took the sync,
\* survives everything: what the disk has is it, or one that another run
\* published after it, whatever the syncs of the others came to.
AcknowledgedSurvives ==
    \A p \in Runs :
        (at[p] = "ok" /\ p \in settled) =>
            /\ safe # NoFile /\ safe.by # NoRun
            /\ \E i, j \in DOMAIN published :
                  i <= j /\ published[i] = p /\ published[j] = safe.by

\* A backup is replaced by one with fewer of the source's transactions only by
\* a run that had begun when the other was published: of two runs one after the
\* other, the second has all the first has, whoever commits meanwhile.
OnlyOverlapsGoBack ==
    [][\A p \in Runs :
          (/\ published' = Append(published, p)
           /\ dest # NoFile /\ dest'.of < dest.of)
          => \E i \in DOMAIN published : began[p] < i /\ published[i] = dest.by]_vars

\* A run that ends by itself leaves no plaintext and no temporary file, however
\* far it came.
NothingLeftBehind ==
    \A p \in Runs :
        at[p] \in {"ok", "failed"} => snap[p] = NoFile /\ temp[p] = NoFile

=============================================================================
