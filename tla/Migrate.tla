------------------------------- MODULE Migrate -------------------------------
(***************************************************************************)
(* RunMigrations (store/sqlite/migrate.go), as several processes run it on *)
(* one database: each asks of every version whether it is applied, and     *)
(* runs the script of one that is not, with the row that records it, in a  *)
(* transaction under TxRetry.                                              *)
(*                                                                         *)
(* Between the question and the transaction the other processes act.  A    *)
(* transaction may be rolled back, or applied and its answer lost; the     *)
(* retry then runs the script again.  Most scripts can be run again, since *)
(* they say IF NOT EXISTS; one that adds columns (0004_mfa.sql) cannot.    *)
(* A process that fails or is killed is started again by its operator.     *)
(***************************************************************************)
EXTENDS Naturals, FiniteSets

CONSTANTS
    Procs,         \* processes
    Last,          \* the number of scripts that each process has
    Unrepeatable,  \* versions whose script fails the second time
    MaxFaults      \* bound on rollbacks, lost answers, failed reads and kills

ASSUME MigrateAssumption ==
    /\ Last \in [Procs -> Nat]
    /\ Unrepeatable \subseteq Nat
    /\ MaxFaults \in Nat

VARIABLES
    applied,  \* the schema_migrations table
    schema,   \* versions whose script has taken effect
    procs,    \* what each process does, and with which version
    faults    \* faults so far

vars == <<applied, schema, procs, faults>>

\* "stuck": the script has failed; "failed": anything else has.
States   == {"off", "check", "apply", "ok", "stuck", "failed"}
Versions == UNION {1..Last[p] : p \in Procs}

\* Types of the database and the processes.
TypeOK ==
    /\ applied \subseteq Versions
    /\ schema \subseteq Versions
    /\ procs \in [Procs -> [at: States, v: Nat]]
    /\ faults \in 0..MaxFaults

Init ==
    /\ applied = {}
    /\ schema = {}
    /\ procs = [p \in Procs |-> [at |-> "off", v |-> 1]]
    /\ faults = 0

At(p, l) == procs[p].at = l
Go(p, l) == procs' = [procs EXCEPT ![p].at = l]

\* Fault: the last file is left out.
AfterVersionButOne(p, v) ==
    IF v + 1 < Last[p] THEN [at |-> "check", v |-> v + 1] ELSE [at |-> "ok", v |-> v]

\* The loop over the files, in the order of their names.
AfterVersion(p, v) ==
    IF v < Last[p] THEN [at |-> "check", v |-> v + 1] ELSE [at |-> "ok", v |-> v]

GoOn(p) == procs' = [procs EXCEPT ![p] = AfterVersion(p, procs[p].v)]

MayFail == faults < MaxFaults /\ faults' = faults + 1

-----------------------------------------------------------------------------

\* A process is started, or started again, and creates the table if need be.
Start(p) ==
    /\ procs[p].at \in {"off", "stuck", "failed"}
    /\ procs' = [procs EXCEPT ![p] = AfterVersion(p, 0)]
    /\ UNCHANGED <<applied, schema, faults>>

\* Fault: the table is not asked.
IsAppliedNever(v) == FALSE

\* isApplied.
IsApplied(v) == v \in applied

Check(p) ==
    /\ At(p, "check")
    /\ IF IsApplied(procs[p].v) THEN GoOn(p) ELSE Go(p, "apply")
    /\ UNCHANGED <<applied, schema, faults>>

\* The script can be run: its columns are not there yet.
Runs(v) == v \in Unrepeatable => v \notin schema

\* The transaction: the script, and the row unless another process has put it.
Commit(v) ==
    /\ Runs(v)
    /\ schema' = schema \cup {v}
    /\ applied' = applied \cup {v}

Apply(p) ==
    /\ At(p, "apply")
    /\ Commit(procs[p].v)
    /\ GoOn(p)
    /\ UNCHANGED faults

\* The commit takes effect and its answer is lost: the closure is run again, or
\* the process gives up.
ApplyUnanswered(p) ==
    /\ At(p, "apply")
    /\ Commit(procs[p].v)
    /\ MayFail
    /\ UNCHANGED procs \/ Go(p, "failed")

\* Fault: the script runs outside of the transaction.
ScriptStays(v) == schema' = schema \cup {v} /\ UNCHANGED applied

\* Nothing of the transaction stays.
RollBack(v) == UNCHANGED <<schema, applied>>

\* The transaction is rolled back, since the database is busy or not reached.
ApplyFails(p) ==
    /\ At(p, "apply")
    /\ RollBack(procs[p].v)
    /\ MayFail
    /\ UNCHANGED procs \/ Go(p, "failed")

\* "duplicate column name" is not transient: the process fails at once.
ScriptFails(p) ==
    /\ At(p, "apply")
    /\ ~Runs(procs[p].v)
    /\ Go(p, "stuck")
    /\ UNCHANGED <<applied, schema, faults>>

\* A question fails, or the process is killed.
Die(p) ==
    /\ procs[p].at \in {"check", "apply"}
    /\ MayFail
    /\ Go(p, "failed")
    /\ UNCHANGED <<applied, schema>>

Work(p) == Start(p) \/ Check(p) \/ Apply(p) \/ ScriptFails(p)

Next == \E p \in Procs : Work(p) \/ ApplyUnanswered(p) \/ ApplyFails(p) \/ Die(p)

\* A process runs on, and is started again, when nothing else is in its way.
Spec == Init /\ [][Next]_vars /\ \A p \in Procs : WF_vars(Work(p))

-----------------------------------------------------------------------------
(* Properties *)

\* Versions take effect in the order of their files and none is left out, though
\* processes overtake each other; what is recorded is what has taken effect.
InOrder ==
    /\ schema = applied
    /\ \A v \in applied : 1..v \subseteq applied

\* A process that reports success has a schema with all of its versions.
SuccessMeansAll == \A p \in Procs : At(p, "ok") => 1..Last[p] \subseteq applied

\* A script fails only for a version that is already applied: by another
\* process, or by the own transaction whose answer was lost.  The next start
\* goes past it.
StuckOnlyIfApplied == \A p \in Procs : At(p, "stuck") => procs[p].v \in applied

\* What a process that is at version v has gone past.
Passed(p) ==
    /\ procs[p].at \in {"check", "apply"} =>
          procs[p].v \in 1..Last[p] /\ 1..(procs[p].v - 1) \subseteq applied
    /\ At(p, "ok") => 1..Last[p] \subseteq applied
    /\ At(p, "stuck") => procs[p].v \in applied

\* The inductive invariant of InOrder, SuccessMeansAll and StuckOnlyIfApplied:
\* versions stay applied, and so what a process has gone past stays behind it.
IInv == TypeOK /\ InOrder /\ \A p \in Procs : Passed(p)

\* Once the faults end, every process succeeds.
AllSucceed == \A p \in Procs : <>[]At(p, "ok")
=============================================================================
