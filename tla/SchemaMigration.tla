---------------------------- MODULE SchemaMigration ----------------------------
(***************************************************************************)
(* The migrator of the schema.  A release is a sequence of files; the      *)
(* ledger in the database names the files that were applied.  A run takes  *)
(* a session lock, proves that the ledger is a prefix of its release, and  *)
(* applies the rest, each file in one transaction with its row of the      *)
(* ledger.  A commit whose outcome is unknown ends the run; the operator   *)
(* runs the command again.  Runs of several releases may overlap.          *)
(***************************************************************************)
EXTENDS Integers, Sequences, SequencesExt

CONSTANTS
    Runners,        \* slots for the runs of the command
    Releases,       \* sequences of files, an older one or one that drifted among them
    Nobody,
    MaxFaults       \* bound

VARIABLES
    table,    \* the history table: absent, of the right shape, or of another
    ledger,   \* its rows, in the order of their versions
    schema,   \* history: the files whose statements took effect, in order
    lock,     \* the session that holds the advisory lock
    run,      \* what each run is doing
    serving,  \* releases whose process last proved the ledger to be theirs
    faults    \* consumed part of the bound

vars == <<table, ledger, schema, lock, run, serving, faults>>

Files == UNION {ToSet(release) : release \in Releases}
Steps == {"idle", "lock", "ensure", "read", "apply", "verify", "unlock", "close"}

\* What a run may find or leave, shorter than every release or not.
Histories == UNION {{SubSeq(release, 1, n) : n \in 0..Len(release)} : release \in Releases}

TypeOK ==
    /\ table \in {"absent", "trusted", "foreign"}
    /\ ledger \in Histories /\ schema \in Seq(Files)
    /\ lock \in Runners \cup {Nobody}
    /\ run \in [Runners -> [step : Steps, release : Releases, pending : Seq(Files),
                            result : {"none", "failed", "applied"}]]
    /\ serving \subseteq Releases
    /\ faults \in 0..MaxFaults

Init ==
    /\ table \in {"absent", "foreign"}
    /\ ledger = <<>> /\ schema = <<>>
    /\ lock = Nobody
    /\ \E release \in [Runners -> Releases] :
         run = [r \in Runners |->
                  [step |-> "idle", release |-> release[r], pending |-> <<>>, result |-> "none"]]
    /\ serving = {} /\ faults = 0

Goes(r, step) == run' = [run EXCEPT ![r].step = step]
Fails(r, step) == run' = [run EXCEPT ![r].step = step, ![r].pending = <<>>, ![r].result = "failed"]

\* One fault: a statement, a connection or a process that fails.
Fault == faults < MaxFaults /\ faults' = faults + 1

-----------------------------------------------------------------------------
(* The history. *)

attestHistoryTable == table = "trusted"

\* As many rows as the release has files, and one more if there is one.
readAppliedMigrations(count) == SubSeq(ledger, 1, IF Len(ledger) <= count THEN Len(ledger) ELSE count + 1)

Refused == <<"refused">>

\* Mutation of pendingMigrations: the rows are counted and not compared.
PendingByCount(files, applied) ==
    IF Len(applied) > Len(files) THEN Refused ELSE SubSeq(files, Len(applied) + 1, Len(files))

\* The files that are left, if what was applied is a prefix: version, name and
\* digest of each row, which the file stands for.
pendingMigrations(files, applied) ==
    IF Len(applied) <= Len(files) /\ \A i \in 1..Len(applied) : applied[i] = files[i]
      THEN SubSeq(files, Len(applied) + 1, Len(files))
      ELSE Refused

Pending(release) == pendingMigrations(release, readAppliedMigrations(Len(release)))

-----------------------------------------------------------------------------
(* A run. *)

\* The operator runs the command, again after a failure.
Start(r) ==
    /\ run[r].step = "idle" /\ run[r].result # "applied"
    /\ Goes(r, "lock")
    /\ UNCHANGED <<table, ledger, schema, lock, serving, faults>>

\* Mutation of withMigrationLock: the lock is tried, and not held by the session.
GoUnlocked(r) ==
    /\ run[r].step = "lock"
    /\ Goes(r, "ensure")
    /\ UNCHANGED <<table, ledger, schema, lock, serving, faults>>

withMigrationLock(r) ==
    /\ run[r].step = "lock" /\ lock = Nobody
    /\ lock' = r /\ Goes(r, "ensure")
    /\ UNCHANGED <<table, ledger, schema, serving, faults>>

ensureHistoryTable(r) ==
    /\ run[r].step = "ensure"
    /\ table' = IF table = "absent" THEN "trusted" ELSE table
    /\ Goes(r, "read")
    /\ UNCHANGED <<ledger, schema, lock, serving, faults>>

\* Attest, read and compare.
applyRelease(r) ==
    /\ run[r].step = "read"
    /\ LET pending == Pending(run[r].release) IN
       IF ~attestHistoryTable \/ pending = Refused THEN Fails(r, "unlock")
       ELSE run' = [run EXCEPT ![r].pending = pending,
                               ![r].step = IF pending = <<>> THEN "unlock" ELSE "apply",
                               ![r].result = IF pending = <<>> THEN "applied" ELSE @]
    /\ UNCHANGED <<table, ledger, schema, lock, serving, faults>>

\* The file's statements, twice or on another schema, are an error; so is a
\* second row of one version.
Executes(r) ==
    LET file == Head(run[r].pending) IN
    /\ ~Contains(schema, file)
    /\ Len(ledger) = Len(run[r].release) - Len(run[r].pending)

Advance(r) ==
    run' = [run EXCEPT ![r].pending = Tail(@),
                       ![r].step = IF Len(run[r].pending) = 1 THEN "verify" ELSE "apply"]

\* Mutation of applyMigration: the row is written in a transaction of its own,
\* so that a run may end between the two.
RecordApart(r) ==
    /\ run[r].step = "apply"
    /\ LET file == Head(run[r].pending) IN
       \/ /\ schema' = Append(schema, file) /\ ledger' = Append(ledger, file)
          /\ Advance(r)
          /\ UNCHANGED faults
       \/ Fault /\ schema' = Append(schema, file) /\ Fails(r, "unlock") /\ UNCHANGED ledger
    /\ UNCHANGED <<table, lock, serving>>

\* Begin, execute, record, commit: a failure before the commit changes nothing,
\* one of the commit leaves both or nothing.
applyMigration(r) ==
    /\ run[r].step = "apply"
    /\ LET file == Head(run[r].pending) IN
       \/ /\ Executes(r)
          /\ schema' = Append(schema, file) /\ ledger' = Append(ledger, file)
          /\ \/ /\ Advance(r)
                /\ UNCHANGED faults
             \/ Fault /\ Fails(r, "unlock")
       \/ ~Executes(r) /\ Fails(r, "unlock") /\ UNCHANGED <<schema, ledger, faults>>
       \/ Fault /\ Fails(r, "unlock") /\ UNCHANGED <<schema, ledger>>
    /\ UNCHANGED <<table, lock, serving>>

\* Attest and read once more: the release is at its head.
VerifyHead(r) ==
    /\ run[r].step = "verify"
    /\ IF attestHistoryTable /\ Pending(run[r].release) = <<>>
         THEN run' = [run EXCEPT ![r].step = "unlock", ![r].result = "applied"]
         ELSE Fails(r, "unlock")
    /\ UNCHANGED <<table, ledger, schema, lock, serving, faults>>

\* A statement fails before the first file or after the last.
QueryFails(r) ==
    /\ run[r].step \in {"ensure", "read", "verify"} /\ Fault
    /\ Fails(r, "unlock")
    /\ UNCHANGED <<table, ledger, schema, lock, serving>>

\* The unlock has a deadline of its own; it may fail all the same.
ReleaseLock(r) ==
    /\ run[r].step = "unlock"
    /\ \/ lock' = Nobody /\ Goes(r, "close") /\ UNCHANGED faults
       \/ Fault /\ UNCHANGED lock /\ Fails(r, "close")
    /\ UNCHANGED <<table, ledger, schema, serving>>

\* Mutation of applyWithConnector: the connection goes back to a pool.
KeepConnection(r) ==
    /\ run[r].step = "close"
    /\ Goes(r, "idle")
    /\ UNCHANGED <<table, ledger, schema, lock, serving, faults>>

\* The owner closes the connection, and a lock of the session goes with it.
applyWithConnector(r) ==
    /\ run[r].step = "close"
    /\ lock' = IF lock = r THEN Nobody ELSE lock
    /\ Goes(r, "idle")
    /\ UNCHANGED <<table, ledger, schema, serving, faults>>

\* The process or its connection ends; a transaction under way is undone.
Crash(r) ==
    /\ run[r].step # "idle" /\ Fault
    /\ lock' = IF lock = r THEN Nobody ELSE lock
    /\ Fails(r, "idle")
    /\ UNCHANGED <<table, ledger, schema, serving>>

\* A serving process probes the ledger, without the lock.
Verify(release) ==
    /\ serving' = IF attestHistoryTable /\ Pending(release) = <<>>
                    THEN serving \cup {release} ELSE serving \ {release}
    /\ serving' # serving
    /\ UNCHANGED <<table, ledger, schema, lock, run, faults>>

RunStep(r) ==
    \/ withMigrationLock(r) \/ ensureHistoryTable(r) \/ applyRelease(r) \/ applyMigration(r)
    \/ VerifyHead(r) \/ ReleaseLock(r) \/ applyWithConnector(r)

Next ==
    \/ \E r \in Runners : Start(r) \/ RunStep(r) \/ QueryFails(r) \/ Crash(r)
    \/ \E release \in Releases : Verify(release)

\* A run goes on, and the operator runs a command that failed again.
Fairness == \A r \in Runners : WF_vars(RunStep(r)) /\ WF_vars(Start(r)) /\ SF_vars(withMigrationLock(r))

Spec == Init /\ [][Next]_vars /\ Fairness

-----------------------------------------------------------------------------
(* Properties. *)

\* Every file took effect once, in order, and the ledger says so, whatever
\* commits were unknown and whatever runs overlapped.
LedgerIsTheSchema == schema = ledger

\* What a run holds as pending is what the ledger lacks of its release: no
\* other run writes between its reading and its last file.
PendingIsCurrent ==
    \A r \in Runners : run[r].step = "apply" => ledger \o run[r].pending = run[r].release

\* A run that reports success, and a process that reports the release to be at
\* its head, had the ledger of their own release; a later release may follow.
SuccessIsTheRelease ==
    /\ \A r \in Runners : run[r].result = "applied" => IsPrefix(run[r].release, ledger)
    /\ \A release \in serving : IsPrefix(release, ledger)

\* All three: what the ledger, a run and a process say is what happened.
SchemaIsItsLedger == LedgerIsTheSchema /\ PendingIsCurrent /\ SuccessIsTheRelease

\* If no release drifted and the history table is the migrator's, the newest
\* release is applied in the end, however runs of older ones interfere.
NewestIsReached ==
    \A r \in Runners :
      /\ table # "foreign"
      /\ \A s \in Runners : IsPrefix(run[s].release, run[r].release)
      => <>(ledger = run[r].release)

=============================================================================
