------------------------------ MODULE JobQueue ------------------------------
(***************************************************************************)
(* What the job queue promises, without its table, its transactions and    *)
(* its clocks: a job that was submitted is begun by one process at a time, *)
(* only the process that began it last may end it, and every beginning     *)
(* uses up one of the job's tries.  Jobs implements it.                    *)
(***************************************************************************)
EXTENDS Integers

CONSTANTS
    Procs,       \* server processes
    JobKeys,     \* jobs
    Recurring,   \* jobs that are submitted again when they succeed
    MaxAttempts  \* tries of a job that fails

VARIABLES
    state,    \* of each job, as in the column status
    workers,  \* the processes whose report of the job would count
    left      \* tries that the job has left

vars == <<state, workers, left>>

Init ==
    /\ state = [j \in JobKeys |-> "absent"]
    /\ workers = [j \in JobKeys |-> {}]
    /\ left = [j \in JobKeys |-> MaxAttempts]

\* Jobs are submitted, or armed again after they have failed for good.
Submit(J) ==
    /\ \A j \in J : state[j] \in {"absent", "failed"}
    /\ state' = [j \in JobKeys |-> IF j \in J THEN "pending" ELSE state[j]]
    /\ left' = [j \in JobKeys |-> IF j \in J THEN MaxAttempts ELSE left[j]]
    /\ UNCHANGED workers

\* Process w begins job j, or takes it over: nobody else may end it any more, and
\* w forgets the job it had before.
Begin(w, j) ==
    /\ state[j] \in {"pending", "running"}
    /\ state' = [state EXCEPT ![j] = "running"]
    /\ workers' = [k \in JobKeys |-> IF k = j THEN {w} ELSE workers[k] \ {w}]
    /\ left' = [left EXCEPT ![j] = IF @ > 0 THEN @ - 1 ELSE 0]

\* Process w crashes, or its report is lost: its job stays running.
Drop(w) ==
    /\ UNCHANGED <<state, left>>
    /\ workers' = [j \in JobKeys |-> workers[j] \ {w}]

Succeed(w, j) ==
    /\ w \in workers[j]
    /\ state' = [state EXCEPT ![j] = IF j \in Recurring THEN "pending" ELSE "succeeded"]
    /\ workers' = [workers EXCEPT ![j] = {}]
    /\ left' = [left EXCEPT ![j] = IF j \in Recurring THEN MaxAttempts ELSE @]

Fail(w, j) ==
    /\ w \in workers[j]
    /\ state' = [state EXCEPT ![j] = IF left[j] = 0 THEN "failed" ELSE "pending"]
    /\ workers' = [workers EXCEPT ![j] = {}]
    /\ UNCHANGED left

Next ==
    \/ \E w \in Procs : Drop(w)
    \/ \E w \in Procs, j \in JobKeys : Begin(w, j) \/ Succeed(w, j) \/ Fail(w, j)
    \/ \E J \in SUBSET JobKeys : Submit(J)

Spec == Init /\ [][Next]_vars
=============================================================================
