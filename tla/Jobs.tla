-------------------------------- MODULE Jobs --------------------------------
(***************************************************************************)
(* The durable job queue of kcNotes: the jobs table with its guarded       *)
(* UPDATEs (store/sqlite/jobs_store.go), the retry loop around the claim   *)
(* transaction (store/sqlite/retry.go) and the polling goroutine that runs *)
(* one claimed job at a time (app/jobs.go).                                *)
(*                                                                         *)
(* Several server processes share one database: one goroutine per process  *)
(* polls.  A process may crash and restart between any two steps.  Every   *)
(* SQL statement or transaction is atomic; what the goroutine does between *)
(* two of them interleaves with every other process.                       *)
(*                                                                         *)
(* Time is abstracted to the two comparisons the code makes: ripe says     *)
(* that run_at has been reached (pending row) or that locked_at is at      *)
(* least five minutes old (running row).  A timestamp written to locked_at *)
(* is a Stamp: the code formats it with nanoseconds, so two polls never    *)
(* carry the same one.                                                     *)
(***************************************************************************)
EXTENDS Integers

CONSTANTS
    Procs,        \* server processes, each with one job goroutine
    JobKeys,      \* job_key values; the column is UNIQUE
    Recurring,    \* keys whose handler asks to be rescheduled (autosave-cleanup)
    Stamps,       \* RFC3339Nano timestamps read by polls
    NoStamp,      \* locked_at IS NULL, or a nil LockedAt
    NoJob,        \* the empty ID of a zero Job value
    MaxAttempts,  \* max_attempts of every job
    MaxTries,     \* RetryConfig.MaxAttempts
    AttemptsCap   \* bound on the attempts column, above every value compared

ASSUME JobsAssumption ==
    /\ Recurring \subseteq JobKeys
    /\ NoStamp \notin Stamps
    /\ NoJob \notin JobKeys
    /\ MaxAttempts \in Nat \ {0}
    /\ MaxTries \in Nat \ {0}
    /\ AttemptsCap \in Nat
    /\ AttemptsCap >= MaxAttempts

VARIABLES
    jobs,     \* the jobs table, by key
    pc,       \* where each process' goroutine is
    now,      \* the time runJobsOnceAt was called with
    tries,    \* attempt number of the retry loop around the claim
    claimed   \* ClaimDueJob's local variable, then the job being run

vars == <<jobs, pc, now, tries, claimed>>

Status == {"absent", "pending", "running", "succeeded", "failed"}
Stamp  == Stamps \cup {NoStamp}
Row    == [status: Status, attempts: 0..AttemptsCap, lockedAt: Stamp, ripe: BOOLEAN]
Job    == [key: JobKeys \cup {NoJob}, attempts: 0..AttemptsCap, lockedAt: Stamp]
PC     == {"down", "idle", "claim", "retry", "run"}

ZeroJob == [key |-> NoJob, attempts |-> 0, lockedAt |-> NoStamp]

\* Types of the jobs table and of the goroutines' variables.
TypeOK ==
    /\ jobs \in [JobKeys -> Row]
    /\ pc \in [Procs -> PC]
    /\ now \in [Procs -> Stamp]
    /\ tries \in [Procs -> 0..MaxTries]
    /\ claimed \in [Procs -> Job]

Init ==
    /\ jobs = [j \in JobKeys |->
                 [status |-> "absent", attempts |-> 0, lockedAt |-> NoStamp, ripe |-> FALSE]]
    /\ pc = [p \in Procs |-> "down"]
    /\ now = [p \in Procs |-> NoStamp]
    /\ tries = [p \in Procs |-> 0]
    /\ claimed = [p \in Procs |-> ZeroJob]

\* The goroutine's locals go out of scope and it is in state s.
Leave(p, s) ==
    /\ pc' = [pc EXCEPT ![p] = s]
    /\ now' = [now EXCEPT ![p] = NoStamp]
    /\ tries' = [tries EXCEPT ![p] = 0]
    /\ claimed' = [claimed EXCEPT ![p] = ZeroJob]

-----------------------------------------------------------------------------
\* Fault: every row is re-armed, a running one too.
EnsuredAlways(row) ==
    [status |-> "pending", attempts |-> 0, lockedAt |-> NoStamp, ripe |-> TRUE]

\* EnsureJob's upsert: insert a due pending row; on a key conflict re-arm the
\* row only if it has failed.
Ensured(row) ==
    IF row.status \in {"absent", "failed"}
    THEN [status |-> "pending", attempts |-> 0, lockedAt |-> NoStamp, ripe |-> TRUE]
    ELSE row

\* StartBackgroundJobs: make sure the recurring job exists, then poll.
Start(p) ==
    /\ pc[p] = "down"
    /\ jobs' = [j \in JobKeys |-> IF j \in Recurring THEN Ensured(jobs[j]) ELSE jobs[j]]
    /\ Leave(p, "idle")

\* A caller of EnsureJob for a one-shot job.
Enqueue(j) ==
    /\ j \notin Recurring
    /\ jobs' = [jobs EXCEPT ![j] = Ensured(@)]
    /\ UNCHANGED <<pc, now, tries, claimed>>

\* The process stops: killed, or its context is cancelled.  Nothing is written.
Crash(p) ==
    /\ pc[p] # "down"
    /\ Leave(p, "down")
    /\ UNCHANGED jobs

\* p is inside ClaimDueJob.
Claiming(p) == pc[p] \in {"claim", "retry"}

\* Time passes for row j: its run_at is reached, or its lock becomes stale.  A
\* lock needs five minutes for that, and ClaimDueJob stops retrying after three
\* seconds: the call that took the lock has returned by then.
Ripen(j) ==
    /\ \/ jobs[j].status = "pending"
       \/ /\ jobs[j].status = "running"
          /\ \A p \in Procs : Claiming(p) => now[p] # jobs[j].lockedAt
    /\ ~jobs[j].ripe
    /\ jobs' = [jobs EXCEPT ![j].ripe = TRUE]
    /\ UNCHANGED <<pc, now, tries, claimed>>

-----------------------------------------------------------------------------
(* ClaimDueJob *)

\* No timestamp still in use anywhere: stamps are only compared for equality, so
\* one that nobody remembers may be reused, and any fresh one will do.
Fresh(s) ==
    /\ \A p \in Procs : now[p] # s /\ claimed[p].lockedAt # s
    /\ \A j \in JobKeys : jobs[j].lockedAt # s

\* Fault: locked_at is kept in seconds, so two polls may carry the same.
PollInSeconds(p) ==
    /\ pc[p] = "idle"
    /\ now' = [now EXCEPT ![p] = CHOOSE s \in Stamps : TRUE]
    /\ tries' = [tries EXCEPT ![p] = 1]
    /\ pc' = [pc EXCEPT ![p] = "claim"]
    /\ UNCHANGED <<jobs, claimed>>

\* A tick of runJobs: runJobsOnce reads the clock and calls ClaimDueJob.
Poll(p) ==
    /\ pc[p] = "idle"
    /\ \E s \in Stamps : Fresh(s)
    /\ now' = [now EXCEPT ![p] = CHOOSE s \in Stamps : Fresh(s)]
    /\ tries' = [tries EXCEPT ![p] = 1]
    /\ pc' = [pc EXCEPT ![p] = "claim"]
    /\ UNCHANGED <<jobs, claimed>>

\* Fault: only jobs that were never tried are due.
DueOnce(j) == jobs[j].status = "pending" /\ jobs[j].ripe /\ jobs[j].attempts = 0

Due(j) == jobs[j].status = "pending" /\ jobs[j].ripe

\* Fault: the age of the lock is not tested.
StaleAtOnce(j) == jobs[j].status = "running"

Stale(j) == jobs[j].status = "running" /\ (jobs[j].lockedAt = NoStamp \/ jobs[j].ripe)

\* Fault: running rows are never taken over.
CandidatesDue == {j \in JobKeys : jobs[j].status = "pending" /\ jobs[j].ripe}

\* The rows the SELECT may return: due pending rows before stale running ones.
\* Its order by run_at and created_at inside a class is left open.
Candidates ==
    LET due == {j \in JobKeys : Due(j)}
    IN  IF due # {} THEN due ELSE {j \in JobKeys : Stale(j)}

Bump(n) == IF n < AttemptsCap THEN n + 1 ELSE n

\* The row after the claim's UPDATE.
Locked(p, j) ==
    [status |-> "running", attempts |-> Bump(jobs[j].attempts),
     lockedAt |-> now[p], ripe |-> FALSE]

\* claimed after the row was scanned: LockedAt is assigned only if not NULL.
Scanned(p, j) ==
    [key |-> j, attempts |-> jobs[j].attempts,
     lockedAt |-> IF jobs[j].lockedAt = NoStamp THEN claimed[p].lockedAt
                                                ELSE jobs[j].lockedAt]

\* Fault: claimed keeps the attempts that the SELECT read.
TakenUncounted(p, j) ==
    [key |-> j, attempts |-> jobs[j].attempts, lockedAt |-> now[p]]

\* claimed after the UPDATE reported one row.
Taken(p, j) ==
    [key |-> j, attempts |-> Bump(jobs[j].attempts), lockedAt |-> now[p]]

\* The transaction commits: the job is ours and its handler starts.
ClaimCommits(p) ==
    /\ pc[p] = "claim"
    /\ \E j \in Candidates :
         /\ jobs' = [jobs EXCEPT ![j] = Locked(p, j)]
         /\ claimed' = [claimed EXCEPT ![p] = Taken(p, j)]
    /\ pc' = [pc EXCEPT ![p] = "run"]
    /\ tries' = [tries EXCEPT ![p] = 0]
    /\ UNCHANGED now

\* The SELECT finds nothing.  claimed is tested, not the outcome of this try:
\* what an earlier, failed try left in it is returned as a claimed job.
ClaimFindsNone(p) ==
    /\ pc[p] = "claim"
    /\ Candidates = {}
    /\ IF claimed[p].key = NoJob
       THEN Leave(p, "idle")
       ELSE /\ pc' = [pc EXCEPT ![p] = "run"]
            /\ tries' = [tries EXCEPT ![p] = 0]
            /\ UNCHANGED <<now, claimed>>
    /\ UNCHANGED jobs

\* A try fails before a row was scanned.
SelectFails(p) ==
    /\ pc[p] = "claim"
    /\ pc' = [pc EXCEPT ![p] = "retry"]
    /\ UNCHANGED <<jobs, now, tries, claimed>>

\* A try fails at its UPDATE (database is locked); it rolls back.
UpdateFails(p) ==
    /\ pc[p] = "claim"
    /\ \E j \in Candidates : claimed' = [claimed EXCEPT ![p] = Scanned(p, j)]
    /\ pc' = [pc EXCEPT ![p] = "retry"]
    /\ UNCHANGED <<jobs, now, tries>>

\* A try fails at COMMIT, after claimed was filled in: the transaction was
\* rolled back, or it was applied and only the answer was lost.
CommitFails(p) ==
    /\ pc[p] = "claim"
    /\ \E j \in Candidates :
         /\ claimed' = [claimed EXCEPT ![p] = Taken(p, j)]
         /\ \/ UNCHANGED jobs
            \/ jobs' = [jobs EXCEPT ![j] = Locked(p, j)]
    /\ pc' = [pc EXCEPT ![p] = "retry"]
    /\ UNCHANGED <<now, tries>>

\* Fault: the retry loop does not count.
RetryForEver(p) ==
    /\ pc[p] = "retry"
    /\ tries' = [tries EXCEPT ![p] = @ + 1]
    /\ pc' = [pc EXCEPT ![p] = "claim"]
    /\ UNCHANGED <<jobs, now, claimed>>

\* The error is transient and there is a try left: fn runs again, with the
\* claimed variable it captured.
Retry(p) ==
    /\ pc[p] = "retry"
    /\ tries[p] < MaxTries
    /\ tries' = [tries EXCEPT ![p] = @ + 1]
    /\ pc' = [pc EXCEPT ![p] = "claim"]
    /\ UNCHANGED <<jobs, now, claimed>>

\* The error is permanent, or the tries or the elapsed time are used up:
\* ClaimDueJob returns it and runJobsOnceAt only logs it.
GiveUp(p) ==
    /\ pc[p] = "retry"
    /\ Leave(p, "idle")
    /\ UNCHANGED jobs

-----------------------------------------------------------------------------
(* The handler runs for any length of time in state "run": there is no timeout.
   When it returns, its result decides which UPDATE reports it.  The result is
   local to the goroutine, so returning and reporting are one step. *)

\* Fault: the UPDATE does not ask for locked_at.
MatchesAnyLock(p, j) ==
    /\ claimed[p].key = j
    /\ jobs[j].status = "running"

\* WHERE id = ? AND status = 'running' AND locked_at = ?
Matches(p, j) ==
    /\ claimed[p].key = j
    /\ claimed[p].lockedAt # NoStamp
    /\ jobs[j].status = "running"
    /\ jobs[j].lockedAt = claimed[p].lockedAt

\* Fault: the outcome of a recurring job is recorded like any other.
RescheduledNever ==
    [status |-> "succeeded", attempts |-> 0, lockedAt |-> NoStamp, ripe |-> FALSE]

Rescheduled ==
    [status |-> "pending", attempts |-> 0, lockedAt |-> NoStamp, ripe |-> FALSE]

Completed(row) ==
    [row EXCEPT !.status = "succeeded", !.lockedAt = NoStamp, !.ripe = FALSE]

\* Fault: one more try than max_attempts.
FailedLate(row, attempts) ==
    [row EXCEPT !.status = IF attempts > MaxAttempts THEN "failed" ELSE "pending",
                !.lockedAt = NoStamp,
                !.ripe = FALSE]

\* FailJob decides on the attempts the claim read, not on the row's.
Failed(row, attempts) ==
    [row EXCEPT !.status = IF attempts >= MaxAttempts THEN "failed" ELSE "pending",
                !.lockedAt = NoStamp,
                !.ripe = FALSE]

\* The handler succeeds: RescheduleJob or CompleteJob.  If no row matches, the
\* error is ErrConflict, which is only logged.
FinishOK(p) ==
    /\ pc[p] = "run"
    /\ jobs' = [j \in JobKeys |->
                  IF ~Matches(p, j) THEN jobs[j]
                  ELSE IF j \in Recurring THEN Rescheduled ELSE Completed(jobs[j])]
    /\ Leave(p, "idle")

\* The handler fails: FailJob, whose own error is discarded.
FinishErr(p) ==
    /\ pc[p] = "run"
    /\ jobs' = [j \in JobKeys |->
                  IF Matches(p, j) THEN Failed(jobs[j], claimed[p].attempts) ELSE jobs[j]]
    /\ Leave(p, "idle")

\* The finishing UPDATE fails: it is not retried and the row stays running.
FinishLost(p) ==
    /\ pc[p] = "run"
    /\ Leave(p, "idle")
    /\ UNCHANGED jobs

-----------------------------------------------------------------------------
Proc(p) ==
    \/ Start(p) \/ Crash(p) \/ Poll(p)
    \/ ClaimCommits(p) \/ ClaimFindsNone(p)
    \/ SelectFails(p) \/ UpdateFails(p) \/ CommitFails(p) \/ Retry(p) \/ GiveUp(p)
    \/ FinishOK(p) \/ FinishErr(p) \/ FinishLost(p)

Next ==
    \/ \E p \in Procs : Proc(p)
    \/ \E j \in JobKeys : Enqueue(j) \/ Ripen(j)

Spec == Init /\ [][Next]_vars

\* Fairness of a process that stays up: its goroutine keeps polling, the retry
\* loop ends, handlers return, and the database does not refuse the claim for
\* ever (the last by strong fairness: a try may fail, not every try).
Fairness ==
    /\ \A p \in Procs :
         /\ WF_vars(Poll(p))
         /\ WF_vars(Retry(p) \/ GiveUp(p))
         /\ SF_vars(ClaimCommits(p))
         /\ WF_vars(ClaimCommits(p) \/ ClaimFindsNone(p) \/ SelectFails(p))
         /\ WF_vars(FinishOK(p) \/ FinishErr(p) \/ FinishLost(p))
    /\ \A j \in JobKeys : WF_vars(Ripen(j))

FairSpec == Spec /\ Fairness

-----------------------------------------------------------------------------
(* Properties *)

\* Process p runs the handler of job j and its finishing UPDATE would match.
Owns(p, j) == pc[p] = "run" /\ Matches(p, j)

\* At most one process can record the outcome of a job: a worker that was
\* overtaken as stale, or that a failed claim left with somebody else's
\* locked_at, never matches the row that a live owner holds.
SingleOwner ==
    \A j \in JobKeys : \A p, q \in Procs : Owns(p, j) /\ Owns(q, j) => p = q

\* The owner's copy of the attempts is the row's: FailJob decides on the copy.
OwnerCountsRight ==
    \A j \in JobKeys : \A p \in Procs : Owns(p, j) => claimed[p].attempts = jobs[j].attempts

\* A job waits for another try only while it has tries left, and is failed only
\* when they are used up, whoever reported the failures.
RetryBudget ==
    \A j \in JobKeys :
        /\ jobs[j].status = "pending" => jobs[j].attempts < MaxAttempts
        /\ jobs[j].status = "failed" => jobs[j].attempts >= MaxAttempts

\* A running row changes in three ways only: its lock grows stale, a claim takes
\* the stale lock over, or the process that owns it reports the outcome.  A
\* restarting process, an overtaken worker or a duplicate cannot touch it.
FencedFinish ==
    [][\A j \in JobKeys :
         jobs[j].status = "running" /\ jobs'[j] # jobs[j] =>
            \/ jobs'[j] = [jobs[j] EXCEPT !.ripe = TRUE]
            \/ /\ jobs[j].ripe
               /\ jobs'[j].status = "running"
               /\ jobs'[j].lockedAt # jobs[j].lockedAt
            \/ \E p \in Procs : Owns(p, j) /\ pc'[p] = "idle"]_vars

\* What the comment on ClaimDueJob says: a claim is atomic.  The handler starts
\* only if the row is locked under the claimer's own timestamp at that moment.
ClaimIsAtomic ==
    [][\A p \in Procs :
         pc[p] = "claim" /\ pc'[p] = "run" =>
            /\ claimed'[p].lockedAt = now[p]
            /\ jobs'[claimed'[p].key].lockedAt = now[p]]_vars

(* The inductive strengthening of SingleOwner, OwnerCountsRight and RetryBudget. *)

\* Exactly the running rows carry a lock.
LockedRows ==
    \A j \in JobKeys : jobs[j].status = "running" <=> jobs[j].lockedAt # NoStamp

\* A goroutine carries a timestamp from its poll until it is idle again, and no
\* two goroutines carry the same.
OwnStamps ==
    /\ \A p \in Procs : pc[p] \in {"down", "idle"} <=> now[p] = NoStamp
    /\ \A p \in Procs : pc[p] \in {"down", "idle"} => claimed[p] = ZeroJob
    /\ \A p, q \in Procs : now[p] = now[q] /\ now[p] # NoStamp => p = q

\* A stale lock belongs to a call that has returned.
StaleAfterClaim ==
    \A p \in Procs : \A j \in JobKeys :
        Claiming(p) /\ jobs[j].lockedAt = now[p] => ~jobs[j].ripe

\* Somebody else's timestamp in claimed was scanned from a stale row.
ForeignStamps ==
    \A p, q \in Procs :
        Claiming(q) /\ claimed[p].lockedAt = now[q] => p = q

\* While a claimer holds a foreign timestamp that still locks the row, the row
\* is stale: a further try would find it again.
ScannedIsStale ==
    \A p \in Procs : \A j \in JobKeys :
        Claiming(p) /\ Matches(p, j) /\ claimed[p].lockedAt # now[p] => jobs[j].ripe

\* A handler whose finishing UPDATE matches runs under its own timestamp.
RunsUnderOwnStamp ==
    \A p \in Procs : \A j \in JobKeys : Owns(p, j) => claimed[p].lockedAt = now[p]

\* A copy made under the own timestamp counts the attempts as the row does.
CopyIsExact ==
    \A p \in Procs : \A j \in JobKeys :
        Matches(p, j) /\ claimed[p].lockedAt = now[p] =>
            claimed[p].attempts = jobs[j].attempts

\* The inductive invariant: the conjuncts that every step of the queue needs of
\* the state before it, RetryBudget of the table included.
IInv ==
    /\ TypeOK /\ LockedRows /\ OwnStamps /\ StaleAfterClaim /\ ForeignStamps
    /\ ScannedIsStale /\ RunsUnderOwnStamp /\ CopyIsExact /\ RetryBudget

-----------------------------------------------------------------------------
(* The abstract queue *)

\* Process p has locked job j, or has learnt that it has, and may report it.
Holds(p, j) == Matches(p, j) /\ claimed[p].lockedAt = now[p]

\* max_attempts less the attempts made, takeovers included.
TriesLeft(j) ==
    IF jobs[j].attempts < MaxAttempts THEN MaxAttempts - jobs[j].attempts ELSE 0

Queue == INSTANCE JobQueue WITH
    state   <- [j \in JobKeys |-> jobs[j].status],
    workers <- [j \in JobKeys |-> {p \in Procs : Holds(p, j)}],
    left    <- [j \in JobKeys |-> TriesLeft(j)]

\* Polling, retried claims, lost answers, stale locks and crashes together
\* behave as a queue in which only the process that began a job last ends it.
ImplementsQueue == Queue!Spec

-----------------------------------------------------------------------------
(* Liveness *)

SomeProcStaysUp == \E p \in Procs : <>[](pc[p] # "down")

\* As long as some process stays up, no lock is held for ever: a crashed owner,
\* or a finishing UPDATE that was lost, does not stop the job.
LocksAreReleased ==
    SomeProcStaysUp =>
        \A j \in JobKeys : \A s \in Stamps :
            jobs[j].lockedAt = s ~> jobs[j].lockedAt # s

\* As long as some process stays up, a pending job is claimed.
PendingIsClaimed ==
    SomeProcStaysUp =>
        \A j \in JobKeys : jobs[j].status = "pending" ~> jobs[j].status # "pending"

\* A recurring job is started again and again as long as some process stays up,
\* unless it used up its attempts and nobody restarts a process: nothing in a
\* running process re-arms a failed row.
RecurringGoesOn ==
    SomeProcStaysUp =>
        \A j \in Recurring :
            []<>(jobs[j].status = "running") \/ <>[](jobs[j].status = "failed")
=============================================================================
