----------------------------- MODULE JobsProofs -----------------------------
(***************************************************************************)
(* Proofs about the job queue, for any number of processes, jobs, attempts *)
(* and retries: type correctness, the inductive invariant behind single    *)
(* ownership, and the refinement of the abstract queue of JobQueue.        *)
(***************************************************************************)
EXTENDS Jobs, TLAPS

USE JobsAssumption

\* The capped increment of the attempts column stays in its range.
LEMMA BumpType == ASSUME NEW n \in 0..AttemptsCap PROVE Bump(n) \in 0..AttemptsCap
  BY DEF Bump

\* The initial state is well typed.
LEMMA InitTypeOK == Init => TypeOK
  BY DEF Init, TypeOK, Row, Job, Stamp, Status, PC, ZeroJob

\* Leaving the job loop keeps the types of the goroutine's variables.
LEMMA LeaveType ==
  ASSUME TypeOK, NEW p \in Procs, NEW s \in PC, Leave(p, s)
  PROVE  /\ pc' \in [Procs -> PC]
         /\ now' \in [Procs -> Stamp]
         /\ tries' \in [Procs -> 0..MaxTries]
         /\ claimed' \in [Procs -> Job]
  BY DEF TypeOK, Leave, Stamp, Job, ZeroJob

\* The four rows and two copies that a step can write are of their types.
LEMMA RowTypes ==
  ASSUME TypeOK, NEW p \in Procs, NEW j \in JobKeys
  PROVE  /\ Ensured(jobs[j]) \in Row
         /\ Rescheduled \in Row
         /\ Completed(jobs[j]) \in Row
         /\ Failed(jobs[j], claimed[p].attempts) \in Row
         /\ Locked(p, j) \in Row
         /\ Taken(p, j) \in Job
         /\ Scanned(p, j) \in Job
  <1>1. /\ jobs[j] \in Row
        /\ claimed[p] \in Job
        /\ now[p] \in Stamp
    BY DEF TypeOK
  <1>2. Bump(jobs[j].attempts) \in 0..AttemptsCap
    BY <1>1, BumpType DEF Row
  <1>3. Locked(p, j) \in Row /\ Taken(p, j) \in Job
    BY <1>1, <1>2 DEF Locked, Taken, Row, Job, Status
  <1>4. Scanned(p, j) \in Job
    BY <1>1 DEF Scanned, Row, Job
  <1>5. /\ Ensured(jobs[j]) \in Row
        /\ Rescheduled \in Row
    BY <1>1 DEF Ensured, Rescheduled, Row, Status, Stamp
  <1>6. /\ Completed(jobs[j]) \in Row
        /\ Failed(jobs[j], claimed[p].attempts) \in Row
    BY <1>1 DEF Completed, Failed, Row, Status, Stamp
  <1>7. QED BY <1>3, <1>4, <1>5, <1>6

\* Every step of a goroutine keeps the types.
LEMMA ProcTypeOK ==
  ASSUME TypeOK, NEW p \in Procs, Proc(p)
  PROVE  TypeOK'
  <1> USE DEF TypeOK
  <1>a. "down" \in PC /\ "idle" \in PC /\ "claim" \in PC /\ "retry" \in PC /\ "run" \in PC
    BY DEF PC
  <1>1. CASE Start(p)
    BY <1>1, <1>a, LeaveType, RowTypes DEF Start
  <1>2. CASE Crash(p) \/ GiveUp(p) \/ FinishLost(p)
    BY <1>2, <1>a, LeaveType DEF Crash, GiveUp, FinishLost
  <1>3. CASE Poll(p)
    BY <1>3, <1>a DEF Poll, Stamp
  <1>4. CASE ClaimCommits(p)
    BY <1>4, <1>a, RowTypes DEF ClaimCommits, Candidates
  <1>5. CASE ClaimFindsNone(p)
    BY <1>5, <1>a, LeaveType DEF ClaimFindsNone
  <1>6. CASE SelectFails(p)
    BY <1>6, <1>a DEF SelectFails
  <1>7. CASE UpdateFails(p)
    BY <1>7, <1>a, RowTypes DEF UpdateFails, Candidates
  <1>8. CASE CommitFails(p)
    BY <1>8, <1>a, RowTypes DEF CommitFails, Candidates
  <1>9. CASE Retry(p)
    BY <1>9, <1>a DEF Retry
  <1>10. CASE FinishOK(p)
    BY <1>10, <1>a, LeaveType, RowTypes DEF FinishOK
  <1>11. CASE FinishErr(p)
    BY <1>11, <1>a, LeaveType, RowTypes DEF FinishErr
  <1>12. QED
    BY <1>1, <1>2, <1>3, <1>4, <1>5, <1>6, <1>7, <1>8, <1>9, <1>10, <1>11 DEF Proc

\* Every step, or none, keeps the types.
LEMMA NextTypeOK == TypeOK /\ [Next]_vars => TypeOK'
  <1> SUFFICES ASSUME TypeOK, [Next]_vars PROVE TypeOK'
    OBVIOUS
  <1>1. ASSUME NEW p \in Procs, Proc(p) PROVE TypeOK'
    BY <1>1, ProcTypeOK
  <1>2. ASSUME NEW j \in JobKeys, Enqueue(j) PROVE TypeOK'
    <2>1. Ensured(jobs[j]) \in Row
      BY DEF TypeOK, Ensured, Row, Status, Stamp
    <2> QED BY <1>2, <2>1 DEF Enqueue, TypeOK
  <1>3. ASSUME NEW j \in JobKeys, Ripen(j) PROVE TypeOK'
    BY <1>3 DEF Ripen, TypeOK, Row
  <1>4. CASE UNCHANGED vars
    BY <1>4 DEF vars, TypeOK
  <1>5. QED
    BY <1>1, <1>2, <1>3, <1>4 DEF Next

\* Type correctness of the job queue.
THEOREM TypeCorrect == Spec => []TypeOK
  <1>1. QED BY InitTypeOK, NextTypeOK, PTL DEF Spec

-----------------------------------------------------------------------------
(* The inductive invariant *)

Inv == /\ LockedRows /\ OwnStamps /\ StaleAfterClaim /\ ForeignStamps
       /\ ScannedIsStale /\ RunsUnderOwnStamp /\ CopyIsExact /\ RetryBudget

\* An empty jobs table and no running process satisfy the invariant.
LEMMA InitIInv == Init => IInv
  <1>1. Init => TypeOK BY InitTypeOK
  <1>2. Init => Inv
    BY DEF Init, Inv, LockedRows, OwnStamps, StaleAfterClaim, ForeignStamps, ScannedIsStale,
           RunsUnderOwnStamp, CopyIsExact, RetryBudget, Owns, Matches, Claiming, ZeroJob
  <1>3. QED BY <1>1, <1>2 DEF IInv, Inv

\* The fields of the rows a finishing UPDATE writes.
LEMMA FinishedRows ==
  ASSUME NEW row \in Row, NEW n \in 0..AttemptsCap
  PROVE  /\ Completed(row).status = "succeeded"
         /\ Completed(row).lockedAt = NoStamp
         /\ Failed(row, n).status = IF n >= MaxAttempts THEN "failed" ELSE "pending"
         /\ Failed(row, n).lockedAt = NoStamp
         /\ Failed(row, n).attempts = row.attempts
  BY DEF Completed, Failed, Row

\* A process that returns to idle or goes down, while every row it leaves
\* behind is unchanged or unlocked, disturbs nobody.
LEMMA LeavePreserves ==
  ASSUME IInv, TypeOK', NEW p \in Procs, NEW s \in {"idle", "down"}, Leave(p, s),
         \A j \in JobKeys :
            \/ jobs'[j] = jobs[j]
            \/ /\ jobs'[j].status # "running"
               /\ jobs'[j].lockedAt = NoStamp
               /\ jobs'[j].status = "pending" => jobs'[j].attempts < MaxAttempts
               /\ jobs'[j].status = "failed" => jobs'[j].attempts >= MaxAttempts
  PROVE  Inv'
  <1> USE DEF IInv, TypeOK, Leave
  <1>1. LockedRows'
    BY DEF LockedRows
  <1>2. OwnStamps'
    BY DEF OwnStamps
  <1>3. StaleAfterClaim'
    BY DEF StaleAfterClaim, Claiming, OwnStamps
  <1>4. ForeignStamps'
    BY DEF ForeignStamps, Claiming, OwnStamps, ZeroJob
  <1>5. ScannedIsStale'
    BY DEF ScannedIsStale, Claiming, Matches, OwnStamps
  <1>6. RunsUnderOwnStamp'
    BY DEF RunsUnderOwnStamp, Owns, Matches, OwnStamps
  <1>7. CopyIsExact'
    BY DEF CopyIsExact, Matches, ZeroJob
  <1>8. RetryBudget'
    BY DEF RetryBudget
  <1>9. QED BY <1>1, <1>2, <1>3, <1>4, <1>5, <1>6, <1>7, <1>8 DEF Inv

\* A new row for a key that had none or had failed disturbs nobody.
LEMMA EnsurePreserves ==
  ASSUME IInv, NEW K \in SUBSET JobKeys,
         jobs' = [j \in JobKeys |-> IF j \in K THEN Ensured(jobs[j]) ELSE jobs[j]]
  PROVE  \A j \in JobKeys :
            \/ jobs'[j] = jobs[j]
            \/ /\ jobs'[j].status # "running"
               /\ jobs'[j].lockedAt = NoStamp
               /\ jobs'[j].status = "pending" => jobs'[j].attempts < MaxAttempts
               /\ jobs'[j].status = "failed" => jobs'[j].attempts >= MaxAttempts
  BY DEF Ensured

\* EnsureJob for a one-shot job preserves the invariant.
LEMMA EnqueueIInv ==
  ASSUME IInv, TypeOK', NEW k \in JobKeys, Enqueue(k)
  PROVE  Inv'
  <1> USE DEF IInv, TypeOK, Enqueue, Ensured
  <1>1. LockedRows'
    BY DEF LockedRows
  <1>2. OwnStamps'
    BY DEF OwnStamps
  <1>3. StaleAfterClaim'
    BY DEF StaleAfterClaim, Claiming, OwnStamps, LockedRows
  <1>4. ForeignStamps'
    BY DEF ForeignStamps, Claiming, OwnStamps, StaleAfterClaim, LockedRows, ZeroJob
  <1>5. ScannedIsStale'
    BY DEF ScannedIsStale, Claiming, Matches, OwnStamps, ForeignStamps, LockedRows, ZeroJob
  <1>6. RunsUnderOwnStamp'
    BY DEF RunsUnderOwnStamp, Owns, Claiming, Matches, OwnStamps, ForeignStamps, LockedRows
  <1>7. CopyIsExact'
    BY DEF CopyIsExact, Matches, OwnStamps, ForeignStamps, LockedRows, Claiming, ZeroJob
  <1>8. RetryBudget'
    BY DEF RetryBudget
  <1>9. QED BY <1>1, <1>2, <1>3, <1>4, <1>5, <1>6, <1>7, <1>8 DEF Inv

\* The passing of time preserves the invariant: a lock only grows stale
\* when no claim call under its timestamp is still retrying.
LEMMA RipenIInv ==
  ASSUME IInv, TypeOK', NEW k \in JobKeys, Ripen(k)
  PROVE  Inv'
  <1> USE DEF IInv, TypeOK, Ripen
  <1>a. \A j \in JobKeys : /\ jobs'[j].status = jobs[j].status
                           /\ jobs'[j].lockedAt = jobs[j].lockedAt
                           /\ jobs'[j].attempts = jobs[j].attempts
                           /\ jobs[j].ripe => jobs'[j].ripe
                           /\ jobs'[j].ripe => jobs[j].ripe \/ j = k
    BY DEF Row
  <1>1. LockedRows'
    BY <1>a DEF LockedRows
  <1>2. OwnStamps'
    BY <1>a DEF OwnStamps
  <1>3. StaleAfterClaim'
    BY <1>a DEF StaleAfterClaim, Claiming, OwnStamps, LockedRows
  <1>4. ForeignStamps'
    BY <1>a DEF ForeignStamps, Claiming, OwnStamps, StaleAfterClaim, LockedRows, ZeroJob
  <1>5. ScannedIsStale'
    BY <1>a DEF ScannedIsStale, Claiming, Matches, OwnStamps, ForeignStamps, LockedRows, ZeroJob
  <1>6. RunsUnderOwnStamp'
    BY <1>a DEF RunsUnderOwnStamp, Owns, Claiming, Matches, OwnStamps, ForeignStamps, LockedRows
  <1>7. CopyIsExact'
    BY <1>a DEF CopyIsExact, Matches, OwnStamps, ForeignStamps, LockedRows, Claiming, ZeroJob
  <1>8. RetryBudget'
    BY <1>a DEF RetryBudget
  <1>9. QED BY <1>1, <1>2, <1>3, <1>4, <1>5, <1>6, <1>7, <1>8 DEF Inv

\* A poll preserves the invariant, because its timestamp is fresh.
LEMMA PollIInv ==
  ASSUME IInv, TypeOK', NEW r \in Procs, Poll(r)
  PROVE  Inv'
  <1> USE DEF IInv, TypeOK
  <1>a. /\ now'[r] \in Stamps
        /\ Fresh(now'[r])
        /\ claimed[r] = ZeroJob
        /\ pc[r] = "idle" /\ pc'[r] = "claim"
        /\ \A p \in Procs \ {r} : now'[p] = now[p] /\ pc'[p] = pc[p]
        /\ UNCHANGED <<jobs, claimed>>
    BY DEF Poll, OwnStamps
  <1>1. LockedRows'
    BY <1>a DEF LockedRows, Fresh
  <1>2. OwnStamps'
    BY <1>a DEF OwnStamps, Fresh
  <1>3. StaleAfterClaim'
    BY <1>a DEF StaleAfterClaim, Claiming, OwnStamps, LockedRows, Fresh
  <1>4. ForeignStamps'
    BY <1>a DEF ForeignStamps, Claiming, OwnStamps, StaleAfterClaim, LockedRows, ZeroJob, Fresh
  <1>5. ScannedIsStale'
    BY <1>a DEF ScannedIsStale, Claiming, Matches, OwnStamps, ForeignStamps, LockedRows, ZeroJob, Fresh
  <1>6. RunsUnderOwnStamp'
    BY <1>a DEF RunsUnderOwnStamp, Owns, Claiming, Matches, OwnStamps, ForeignStamps, LockedRows, Fresh
  <1>7. CopyIsExact'
    BY <1>a DEF CopyIsExact, Matches, OwnStamps, ForeignStamps, LockedRows, Claiming, ZeroJob, Fresh
  <1>8. RetryBudget'
    BY <1>a DEF RetryBudget, Fresh
  <1>9. QED BY <1>1, <1>2, <1>3, <1>4, <1>5, <1>6, <1>7, <1>8 DEF Inv

\* A committed claim preserves the invariant: it overwrites the lock of an
\* overtaken owner with a timestamp nobody else carries.
LEMMA ClaimCommitsIInv ==
  ASSUME IInv, TypeOK', NEW r \in Procs, ClaimCommits(r)
  PROVE  Inv'
  <1> USE DEF IInv, TypeOK
  <1> PICK k \in Candidates : /\ jobs' = [jobs EXCEPT ![k] = Locked(r, k)]
                              /\ claimed' = [claimed EXCEPT ![r] = Taken(r, k)]
    BY DEF ClaimCommits
  <1>a. /\ k \in JobKeys
        /\ jobs'[k] = Locked(r, k)
        /\ \A j \in JobKeys \ {k} : jobs'[j] = jobs[j]
        /\ claimed'[r] = Taken(r, k)
        /\ \A p \in Procs \ {r} : claimed'[p] = claimed[p] /\ pc'[p] = pc[p]
        /\ now' = now /\ now[r] \in Stamps
        /\ pc[r] = "claim" /\ pc'[r] = "run"
    BY DEF ClaimCommits, Candidates, OwnStamps, Stamp
  <1>1. LockedRows'
    BY <1>a DEF LockedRows, Locked, Taken
  <1>2. OwnStamps'
    BY <1>a DEF OwnStamps, Locked, Taken
  <1>3. StaleAfterClaim'
    BY <1>a DEF StaleAfterClaim, Claiming, OwnStamps, LockedRows, Locked, Taken
  <1>4. ForeignStamps'
    BY <1>a DEF ForeignStamps, Claiming, OwnStamps, StaleAfterClaim, LockedRows, ZeroJob, Locked, Taken
  <1>5. ScannedIsStale'
    BY <1>a DEF ScannedIsStale, Claiming, Matches, OwnStamps, ForeignStamps, LockedRows, ZeroJob, Locked, Taken
  <1>6. RunsUnderOwnStamp'
    BY <1>a DEF RunsUnderOwnStamp, Owns, Claiming, Matches, OwnStamps, ForeignStamps, LockedRows, Locked, Taken
  <1>7. CopyIsExact'
    BY <1>a DEF CopyIsExact, Matches, OwnStamps, ForeignStamps, LockedRows, Claiming, ZeroJob, Locked, Taken
  <1>8. RetryBudget'
    BY <1>a DEF RetryBudget, Locked, Taken
  <1>9. QED BY <1>1, <1>2, <1>3, <1>4, <1>5, <1>6, <1>7, <1>8 DEF Inv

\* A claim that finds no row preserves the invariant, even when it hands out
\* what a failed try left in claimed.
LEMMA ClaimFindsNoneIInv ==
  ASSUME IInv, TypeOK', NEW r \in Procs, ClaimFindsNone(r)
  PROVE  Inv'
  <1> USE DEF IInv, TypeOK
  <1>1. CASE claimed[r].key = NoJob
    BY <1>1, LeavePreserves DEF ClaimFindsNone
  <1>2. CASE claimed[r].key # NoJob
    <2>a. /\ UNCHANGED <<jobs, now, claimed>>
          /\ pc[r] = "claim" /\ pc'[r] = "run"
          /\ \A p \in Procs \ {r} : pc'[p] = pc[p]
          /\ \A j \in JobKeys : jobs[j].status = "running" => ~jobs[j].ripe
      BY <1>2 DEF ClaimFindsNone, Candidates, Stale
    <2>1. LockedRows'
      BY <2>a DEF LockedRows
    <2>2. OwnStamps'
      BY <2>a DEF OwnStamps
    <2>3. StaleAfterClaim'
      BY <2>a DEF StaleAfterClaim, Claiming, OwnStamps, LockedRows
    <2>4. ForeignStamps'
      BY <2>a DEF ForeignStamps, Claiming, OwnStamps, StaleAfterClaim, LockedRows, ZeroJob
    <2>5. ScannedIsStale'
      BY <2>a DEF ScannedIsStale, Claiming, Matches, OwnStamps, ForeignStamps, LockedRows, ZeroJob
    <2>6. RunsUnderOwnStamp'
      BY <2>a DEF RunsUnderOwnStamp, Owns, Claiming, Matches, OwnStamps, ForeignStamps, LockedRows, ScannedIsStale
    <2>7. CopyIsExact'
      BY <2>a DEF CopyIsExact, Matches, OwnStamps, ForeignStamps, LockedRows, Claiming, ZeroJob
    <2>8. RetryBudget'
      BY <2>a DEF RetryBudget
    <2>9. QED BY <2>1, <2>2, <2>3, <2>4, <2>5, <2>6, <2>7, <2>8 DEF Inv
  <1>3. QED BY <1>1, <1>2

\* What every failed try of the claim has in common preserves the invariant.
LEMMA FailedTryIInv ==
  ASSUME IInv, TypeOK', NEW r \in Procs, SelectFails(r) \/ Retry(r)
  PROVE  Inv'
  <1> USE DEF IInv, TypeOK
  <1>a. /\ UNCHANGED <<jobs, now, claimed>>
        /\ Claiming(r) /\ Claiming(r)'
        /\ \A p \in Procs \ {r} : pc'[p] = pc[p]
    BY DEF SelectFails, Retry, Claiming
  <1>1. LockedRows'
    BY <1>a DEF LockedRows
  <1>2. OwnStamps'
    BY <1>a DEF OwnStamps, Claiming
  <1>3. StaleAfterClaim'
    BY <1>a DEF StaleAfterClaim, Claiming, OwnStamps, LockedRows
  <1>4. ForeignStamps'
    BY <1>a DEF ForeignStamps, Claiming, OwnStamps, StaleAfterClaim, LockedRows, ZeroJob
  <1>5. ScannedIsStale'
    BY <1>a DEF ScannedIsStale, Claiming, Matches, OwnStamps, ForeignStamps, LockedRows, ZeroJob
  <1>6. RunsUnderOwnStamp'
    BY <1>a DEF RunsUnderOwnStamp, Owns, Claiming, Matches, OwnStamps, ForeignStamps, LockedRows
  <1>7. CopyIsExact'
    BY <1>a DEF CopyIsExact, Matches, OwnStamps, ForeignStamps, LockedRows, Claiming, ZeroJob
  <1>8. RetryBudget'
    BY <1>a DEF RetryBudget
  <1>9. QED BY <1>1, <1>2, <1>3, <1>4, <1>5, <1>6, <1>7, <1>8 DEF Inv

\* A claim that fails at its UPDATE preserves the invariant.
LEMMA UpdateFailsIInv ==
  ASSUME IInv, TypeOK', NEW r \in Procs, UpdateFails(r)
  PROVE  Inv'
  <1> USE DEF IInv, TypeOK
  <1> PICK k \in Candidates : claimed' = [claimed EXCEPT ![r] = Scanned(r, k)]
    BY DEF UpdateFails
  <1>a. /\ k \in JobKeys
        /\ UNCHANGED <<jobs, now>>
        /\ claimed'[r] = Scanned(r, k)
        /\ \A p \in Procs \ {r} : claimed'[p] = claimed[p] /\ pc'[p] = pc[p]
        /\ pc[r] = "claim" /\ pc'[r] = "retry"
        /\ jobs[k].status \in {"pending", "running"} /\ (jobs[k].status = "running" => jobs[k].ripe)
    BY DEF UpdateFails, Candidates, Due, Stale, LockedRows
  <1>1. LockedRows'
    BY <1>a DEF LockedRows
  <1>2. OwnStamps'
    BY <1>a DEF OwnStamps
  <1>3. StaleAfterClaim'
    BY <1>a DEF StaleAfterClaim, Claiming, OwnStamps, LockedRows, Scanned
  <1>4. ForeignStamps'
    BY <1>a DEF ForeignStamps, Claiming, OwnStamps, StaleAfterClaim, LockedRows, ZeroJob, Scanned
  <1>5. ScannedIsStale'
    BY <1>a DEF ScannedIsStale, Claiming, Matches, OwnStamps, ForeignStamps, LockedRows, ZeroJob, Scanned, StaleAfterClaim
  <1>6. RunsUnderOwnStamp'
    BY <1>a DEF RunsUnderOwnStamp, Owns, Claiming, Matches, OwnStamps, ForeignStamps, LockedRows, Scanned, StaleAfterClaim
  <1>7. CopyIsExact'
    BY <1>a DEF CopyIsExact, Matches, OwnStamps, ForeignStamps, LockedRows, Claiming, ZeroJob, Scanned, StaleAfterClaim
  <1>8. RetryBudget'
    BY <1>a DEF RetryBudget
  <1>9. QED BY <1>1, <1>2, <1>3, <1>4, <1>5, <1>6, <1>7, <1>8 DEF Inv

\* A claim that fails at COMMIT preserves the invariant, applied or not.
LEMMA CommitFailsIInv ==
  ASSUME IInv, TypeOK', NEW r \in Procs, CommitFails(r)
  PROVE  Inv'
  <1> USE DEF IInv, TypeOK
  <1> PICK k \in Candidates : /\ claimed' = [claimed EXCEPT ![r] = Taken(r, k)]
                              /\ \/ UNCHANGED jobs
                                 \/ jobs' = [jobs EXCEPT ![k] = Locked(r, k)]
    BY DEF CommitFails
  <1>a. /\ k \in JobKeys
        /\ jobs'[k] = jobs[k] \/ jobs'[k] = Locked(r, k)
        /\ \A j \in JobKeys \ {k} : jobs'[j] = jobs[j]
        /\ claimed'[r] = Taken(r, k)
        /\ \A p \in Procs \ {r} : claimed'[p] = claimed[p] /\ pc'[p] = pc[p]
        /\ now' = now /\ now[r] \in Stamps
        /\ pc[r] = "claim" /\ pc'[r] = "retry"
        /\ jobs[k].status \in {"pending", "running"} /\ (jobs[k].status = "running" => jobs[k].ripe)
    BY DEF CommitFails, Candidates, OwnStamps, Stamp, Due, Stale, LockedRows
  <1>1. LockedRows'
    BY <1>a DEF LockedRows, Locked, Taken
  <1>2. OwnStamps'
    BY <1>a DEF OwnStamps, Locked, Taken
  <1>3. StaleAfterClaim'
    BY <1>a DEF StaleAfterClaim, Claiming, OwnStamps, LockedRows, Locked, Taken
  <1>4. ForeignStamps'
    BY <1>a DEF ForeignStamps, Claiming, OwnStamps, StaleAfterClaim, LockedRows, ZeroJob, Locked, Taken
  <1>5. ScannedIsStale'
    BY <1>a DEF ScannedIsStale, Claiming, Matches, OwnStamps, ForeignStamps, LockedRows, ZeroJob, Locked, Taken
  <1>6. RunsUnderOwnStamp'
    BY <1>a DEF RunsUnderOwnStamp, Owns, Claiming, Matches, OwnStamps, ForeignStamps, LockedRows, Locked, Taken
  <1>7. CopyIsExact'
    BY <1>a DEF CopyIsExact, Matches, StaleAfterClaim, OwnStamps, ForeignStamps, LockedRows, Claiming, ZeroJob, Locked, Taken
  <1>8. RetryBudget'
    BY <1>a DEF RetryBudget, Locked, Taken
  <1>9. QED BY <1>1, <1>2, <1>3, <1>4, <1>5, <1>6, <1>7, <1>8 DEF Inv

\* Reporting a job's outcome preserves the invariant.
LEMMA FinishIInv ==
  ASSUME IInv, TypeOK', NEW r \in Procs, FinishOK(r) \/ FinishErr(r)
  PROVE  Inv'
  <1>1. \A j \in JobKeys : jobs[j] \in Row /\ claimed[r].attempts \in 0..AttemptsCap
    BY DEF IInv, TypeOK, Job
  <1>2. \A j \in JobKeys : Matches(r, j) => claimed[r].attempts = jobs[j].attempts
    BY DEF IInv, RunsUnderOwnStamp, CopyIsExact, Owns, FinishOK, FinishErr
  <1>3. \A j \in JobKeys :
           \/ jobs'[j] = jobs[j]
           \/ /\ jobs'[j].status # "running"
              /\ jobs'[j].lockedAt = NoStamp
              /\ jobs'[j].status = "pending" => jobs'[j].attempts < MaxAttempts
              /\ jobs'[j].status = "failed" => jobs'[j].attempts >= MaxAttempts
    <2>1. CASE FinishOK(r)
      BY <2>1, <1>1, FinishedRows DEF FinishOK, Rescheduled
    <2>2. CASE FinishErr(r)
      BY <2>2, <1>1, <1>2, FinishedRows DEF FinishErr, Row
    <2>3. QED BY <2>1, <2>2
  <1>4. Leave(r, "idle")
    BY DEF FinishOK, FinishErr
  <1>5. QED BY <1>3, <1>4, LeavePreserves

\* Every step, or none, preserves the inductive invariant.
LEMMA NextIInv == IInv /\ [Next]_vars => IInv'
  <1> SUFFICES ASSUME IInv, [Next]_vars PROVE IInv'
    OBVIOUS
  <1>t. TypeOK'
    BY NextTypeOK DEF IInv
  <1> SUFFICES Inv'
    BY <1>t DEF IInv, Inv
  <1>1. ASSUME NEW p \in Procs, Proc(p) PROVE Inv'
    <2>1. CASE Start(p)
      <3>1. Leave(p, "idle")
        BY <2>1 DEF Start
      <3>2. Recurring \in SUBSET JobKeys
        OBVIOUS
      <3>3. jobs' = [j \in JobKeys |-> IF j \in Recurring THEN Ensured(jobs[j]) ELSE jobs[j]]
        BY <2>1 DEF Start
      <3>4. QED BY <3>1, <3>2, <3>3, <1>t, EnsurePreserves, LeavePreserves
    <2>2. CASE Crash(p) \/ GiveUp(p) \/ FinishLost(p)
      BY <2>2, <1>t, LeavePreserves DEF Crash, GiveUp, FinishLost
    <2>3. QED
      BY <1>1, <1>t, <2>1, <2>2, PollIInv, ClaimCommitsIInv, ClaimFindsNoneIInv, FailedTryIInv,
         UpdateFailsIInv, CommitFailsIInv, FinishIInv DEF Proc
  <1>2. ASSUME NEW j \in JobKeys, Enqueue(j) \/ Ripen(j) PROVE Inv'
    BY <1>2, <1>t, EnqueueIInv, RipenIInv
  <1>3. CASE UNCHANGED vars
    BY <1>3 DEF vars, IInv, Inv, LockedRows, OwnStamps, StaleAfterClaim, ForeignStamps,
                ScannedIsStale, RunsUnderOwnStamp, CopyIsExact, RetryBudget, Owns, Matches, Claiming
  <1>4. QED BY <1>1, <1>2, <1>3 DEF Next

\* The inductive invariant holds in every reachable state.
THEOREM Inductive == Spec => []IInv
  <1>1. QED BY InitIInv, NextIInv, PTL DEF Spec

\* At most one process can record the outcome of a job.
THEOREM SingleOwnerHolds == Spec => []SingleOwner
  <1>1. IInv => SingleOwner
    <2> SUFFICES ASSUME IInv, NEW j \in JobKeys, NEW p \in Procs, NEW q \in Procs,
                        Owns(p, j), Owns(q, j)
                 PROVE  p = q
      BY DEF SingleOwner
    <2>1. now[p] = jobs[j].lockedAt /\ now[q] = jobs[j].lockedAt
      BY DEF IInv, RunsUnderOwnStamp, Owns, Matches
    <2>2. jobs[j].lockedAt # NoStamp
      BY DEF Owns, Matches
    <2>3. QED BY <2>1, <2>2 DEF IInv, OwnStamps
  <1>2. QED BY <1>1, Inductive, PTL

\* An owner reports the attempts that the row holds.
THEOREM OwnerCountsRightHolds == Spec => []OwnerCountsRight
  <1>1. IInv => OwnerCountsRight
    BY DEF IInv, OwnerCountsRight, RunsUnderOwnStamp, CopyIsExact, Owns
  <1>2. QED BY <1>1, Inductive, PTL

\* A job is retried while it has tries left and failed when it has none.
THEOREM RetryBudgetHolds == Spec => []RetryBudget
  <1>1. IInv => RetryBudget
    BY DEF IInv
  <1>2. QED BY <1>1, Inductive, PTL

-----------------------------------------------------------------------------
(* The action property *)

\* What FencedFinish says of one step.
FencedStep ==
    \A j \in JobKeys :
        jobs[j].status = "running" /\ jobs'[j] # jobs[j] =>
            \/ jobs'[j] = [jobs[j] EXCEPT !.ripe = TRUE]
            \/ /\ jobs[j].ripe
               /\ jobs'[j].status = "running"
               /\ jobs'[j].lockedAt # jobs[j].lockedAt
            \/ \E p \in Procs : Owns(p, j) /\ pc'[p] = "idle"

\* A claim takes over a running row only when its lock is stale.
LEMMA ClaimFenced ==
  ASSUME IInv, NEW r \in Procs, pc[r] = "claim", NEW k \in Candidates,
         jobs' = [jobs EXCEPT ![k] = Locked(r, k)]
  PROVE  FencedStep
  <1> SUFFICES ASSUME NEW j \in JobKeys, jobs[j].status = "running", jobs'[j] # jobs[j]
               PROVE  /\ jobs[j].ripe
                      /\ jobs'[j].status = "running"
                      /\ jobs'[j].lockedAt # jobs[j].lockedAt
    BY DEF FencedStep
  <1>1. k \in JobKeys /\ j = k
    BY DEF Candidates, IInv, TypeOK
  <1>2. jobs[j].ripe
    BY <1>1 DEF Candidates, Due, Stale, IInv, LockedRows
  <1>3. jobs'[j] = Locked(r, j)
    BY <1>1 DEF IInv, TypeOK
  <1>4. jobs[j].lockedAt # now[r]
    BY <1>2 DEF IInv, StaleAfterClaim, Claiming
  <1>5. QED BY <1>2, <1>3, <1>4 DEF Locked

\* Every step from a state of the invariant respects the fence around running rows.
LEMMA NextFenced == IInv /\ [Next]_vars => [FencedStep]_vars
  <1> SUFFICES ASSUME IInv, Next PROVE FencedStep
    OBVIOUS
  <1> USE DEF FencedStep
  <1>1. ASSUME NEW p \in Procs, Proc(p) PROVE FencedStep
    <2>1. CASE Start(p)
      BY <2>1 DEF Start, Ensured
    <2>2. CASE UNCHANGED jobs
      BY <2>2
    <2>3. CASE ClaimCommits(p) \/ CommitFails(p)
      BY <2>2, <2>3, ClaimFenced DEF ClaimCommits, CommitFails
    <2>4. CASE FinishOK(p) \/ FinishErr(p)
      <3>1. pc[p] = "run" /\ pc'[p] = "idle"
        BY <2>4 DEF FinishOK, FinishErr, Leave, IInv, TypeOK
      <3>2. ASSUME NEW j \in JobKeys, jobs'[j] # jobs[j] PROVE Matches(p, j)
        BY <2>4, <3>2 DEF FinishOK, FinishErr
      <3>3. QED BY <3>1, <3>2 DEF Owns
    <2>5. QED
      BY <1>1, <2>1, <2>2, <2>3, <2>4
         DEF Proc, Crash, Poll, ClaimFindsNone, SelectFails, UpdateFails, Retry, GiveUp, FinishLost
  <1>2. ASSUME NEW k \in JobKeys, Enqueue(k) PROVE FencedStep
    BY <1>2 DEF Enqueue, Ensured, IInv, TypeOK
  <1>3. ASSUME NEW k \in JobKeys, Ripen(k) PROVE FencedStep
    <2>1. jobs' = [jobs EXCEPT ![k] = [jobs[k] EXCEPT !.ripe = TRUE]]
      BY <1>3 DEF Ripen
    <2>2. QED BY <2>1 DEF IInv, TypeOK
  <1>4. QED BY <1>1, <1>2, <1>3 DEF Next

\* Only the owner, a stale takeover or time changes a running row.
THEOREM FencedFinishHolds == Spec => FencedFinish
  <1>1. QED BY NextFenced, Inductive, PTL DEF Spec, FencedFinish, FencedStep

-----------------------------------------------------------------------------
(* The state maps by Jobs' instance Queue, and every step of Jobs maps to    *)
(* one step of the abstract queue or to none.                                *)

\* The initial table maps to the initial queue.
LEMMA InitRefines == Init => Queue!Init
  BY DEF Init, Queue!Init, Holds, Matches, TriesLeft, ZeroJob

\* A step that changes no status, no count and no hold is none of the queue's.
LEMMA KeepsQueue ==
  ASSUME \A j \in JobKeys : /\ jobs'[j].status = jobs[j].status
                            /\ jobs'[j].attempts = jobs[j].attempts,
         \A p \in Procs : \A j \in JobKeys : Holds(p, j)' <=> Holds(p, j)
  PROVE  UNCHANGED Queue!vars
  BY DEF Queue!vars, TriesLeft

\* A step after which r holds nothing, and that changes nothing else, drops what
\* r had.
LEMMA DropsJob ==
  ASSUME NEW r \in Procs,
         \A j \in JobKeys : /\ jobs'[j].status = jobs[j].status
                            /\ jobs'[j].attempts = jobs[j].attempts,
         \A p \in Procs \ {r} : \A j \in JobKeys : Holds(p, j)' <=> Holds(p, j),
         \A j \in JobKeys : ~Holds(r, j)'
  PROVE  Queue!Next
  <1>1. Queue!Drop(r)
    BY DEF Queue!Drop, TriesLeft
  <1>2. QED BY <1>1 DEF Queue!Next

\* Whoever leaves the loop without touching the table drops the job.
LEMMA LeaveRefines ==
  ASSUME IInv, NEW r \in Procs, NEW s \in PC, Leave(r, s), UNCHANGED jobs
  PROVE  Queue!Next
  <1>1. \A j \in JobKeys : ~Holds(r, j)'
    BY DEF Holds, Matches, Leave, IInv, TypeOK, ZeroJob
  <1>2. \A p \in Procs \ {r} : \A j \in JobKeys : Holds(p, j)' <=> Holds(p, j)
    BY DEF Holds, Matches, Leave, IInv, TypeOK
  <1>3. QED BY <1>1, <1>2, DropsJob

\* EnsureJob for the keys in K submits those that it inserts or re-arms.
LEMMA EnsureRefines ==
  ASSUME IInv, NEW K \in SUBSET JobKeys,
         jobs' = [j \in JobKeys |-> IF j \in K THEN Ensured(jobs[j]) ELSE jobs[j]],
         \A p \in Procs : \A j \in JobKeys : Holds(p, j)' <=> Holds(p, j)
  PROVE  Queue!Next
  <1> PICK J \in SUBSET JobKeys : J = {j \in K : jobs[j].status \in {"absent", "failed"}}
    OBVIOUS
  <1>1. \A j \in JobKeys : jobs'[j].status = IF j \in J THEN "pending" ELSE jobs[j].status
    BY DEF Ensured
  <1>2. \A j \in JobKeys : TriesLeft(j)' = IF j \in J THEN MaxAttempts ELSE TriesLeft(j)
    BY DEF Ensured, TriesLeft
  <1>3. \A j \in J : j \in JobKeys /\ jobs[j].status \in {"absent", "failed"}
    OBVIOUS
  <1>4. Queue!Submit(J)
    BY <1>1, <1>2, <1>3 DEF Queue!Submit
  <1>5. QED BY <1>4 DEF Queue!Next

\* The lock that a claim has written begins the job under the claimer.
LEMMA LockedRefines ==
  ASSUME IInv, NEW r \in Procs, pc[r] = "claim", NEW k \in Candidates,
         jobs' = [jobs EXCEPT ![k] = Locked(r, k)],
         claimed' = [claimed EXCEPT ![r] = Taken(r, k)],
         UNCHANGED now
  PROVE  Queue!Next
  <1>1. /\ k \in JobKeys
        /\ jobs[k].status \in {"pending", "running"}
    BY DEF Candidates, Due, Stale
  <1>2. /\ jobs'[k] = Locked(r, k)
        /\ \A j \in JobKeys \ {k} : jobs'[j] = jobs[j]
        /\ claimed'[r] = Taken(r, k)
        /\ \A p \in Procs \ {r} : claimed'[p] = claimed[p]
    BY <1>1 DEF IInv, TypeOK
  <1>3. now[r] # NoStamp /\ \A p \in Procs \ {r} : now[p] # now[r]
    BY DEF IInv, OwnStamps
  <1>4. Holds(r, k)'
    BY <1>1, <1>2, <1>3 DEF Holds, Matches, Locked, Taken
  <1>5. \A p \in Procs \ {r} : ~Holds(p, k)'
    BY <1>1, <1>2, <1>3 DEF Holds, Matches, Locked
  <1>6. \A j \in JobKeys \ {k} : ~Holds(r, j)'
    BY <1>2 DEF Holds, Matches, Taken
  <1>7. \A p \in Procs \ {r} : \A j \in JobKeys \ {k} : Holds(p, j)' <=> Holds(p, j)
    BY <1>2 DEF Holds, Matches
  <1>8. \A j \in JobKeys :
           {p \in Procs : Holds(p, j)}' =
              IF j = k THEN {r} ELSE {p \in Procs : Holds(p, j)} \ {r}
    BY <1>4, <1>5, <1>6, <1>7
  <1>9. TriesLeft(k)' = IF TriesLeft(k) > 0 THEN TriesLeft(k) - 1 ELSE 0
    <2>1. jobs[k].attempts \in 0..AttemptsCap
      BY <1>1 DEF IInv, TypeOK, Row
    <2>2. jobs'[k].attempts = Bump(jobs[k].attempts)
      BY <1>2 DEF Locked
    <2>3. QED BY <2>1, <2>2 DEF TriesLeft, Bump
  <1>10. \A j \in JobKeys \ {k} : TriesLeft(j)' = TriesLeft(j)
    BY <1>2 DEF TriesLeft
  <1>11. \A j \in JobKeys : jobs'[j].status = IF j = k THEN "running" ELSE jobs[j].status
    BY <1>2 DEF Locked
  <1>12. Queue!Begin(r, k)
    BY <1>1, <1>8, <1>9, <1>10, <1>11 DEF Queue!Begin
  <1>13. QED BY <1>1, <1>12 DEF Queue!Next

\* A try that wrote no row leaves its process with a copy that holds nothing:
\* the row it has scanned is not running, or locked under an older timestamp.
LEMMA ScannedRefines ==
  ASSUME IInv, NEW r \in Procs, pc[r] = "claim", NEW k \in Candidates,
         UNCHANGED <<jobs, now>>,
         \/ claimed' = [claimed EXCEPT ![r] = Scanned(r, k)]
         \/ claimed' = [claimed EXCEPT ![r] = Taken(r, k)]
  PROVE  Queue!Next
  <1>1. /\ k \in JobKeys
        /\ jobs[k].status = "running" => jobs[k].ripe
    BY DEF Candidates, Due, Stale, IInv, LockedRows
  <1>2. /\ claimed'[r].key = k
        /\ \A p \in Procs \ {r} : claimed'[p] = claimed[p]
    BY DEF IInv, TypeOK, Scanned, Taken
  <1>3. jobs[k].status = "running" => jobs[k].lockedAt # now[r]
    BY <1>1 DEF IInv, StaleAfterClaim, Claiming
  <1>4. \A j \in JobKeys : ~Holds(r, j)'
    BY <1>2, <1>3 DEF Holds, Matches
  <1>5. \A p \in Procs \ {r} : \A j \in JobKeys : Holds(p, j)' <=> Holds(p, j)
    BY <1>2 DEF Holds, Matches
  <1>6. QED BY <1>4, <1>5, DropsJob

\* A report that matches a row ends the job of its owner; one that matches none
\* ends nothing.
LEMMA FinishRefines ==
  ASSUME IInv, NEW r \in Procs, FinishOK(r) \/ FinishErr(r)
  PROVE  Queue!Next
  <1>1. /\ Leave(r, "idle")
        /\ pc[r] = "run"
        /\ \A j \in JobKeys : ~Matches(r, j) => jobs'[j] = jobs[j]
    BY DEF FinishOK, FinishErr
  <1>2. CASE \A j \in JobKeys : ~Matches(r, j)
    <2>1. UNCHANGED jobs
      BY <1>2 DEF FinishOK, FinishErr, IInv, TypeOK
    <2>2. QED BY <1>1, <2>1, LeaveRefines DEF PC
  <1>3. ASSUME NEW k \in JobKeys, Matches(r, k) PROVE Queue!Next
    <2>1. Holds(r, k) /\ claimed[r].attempts = jobs[k].attempts
      BY <1>1, <1>3 DEF Holds, Owns, IInv, RunsUnderOwnStamp, CopyIsExact
    <2>2. \A j \in JobKeys \ {k} : ~Matches(r, j) /\ jobs'[j] = jobs[j]
      BY <1>1, <1>3 DEF Matches
    <2>3. /\ jobs[k] \in Row /\ jobs[k].attempts \in 0..AttemptsCap
          /\ claimed[r].attempts \in 0..AttemptsCap
      BY DEF IInv, TypeOK, Row, Job
    <2>4. jobs'[k].status # "running"
      BY <1>3, <2>3, FinishedRows DEF FinishOK, FinishErr, Rescheduled
    <2>5. \A p \in Procs : ~Holds(p, k)'
      BY <2>4 DEF Holds, Matches
    <2>6. \A p \in Procs : \A j \in JobKeys \ {k} : Holds(p, j)' <=> Holds(p, j)
      BY <1>1, <2>2 DEF Holds, Matches, Leave, IInv, TypeOK, ZeroJob
    <2>7. \A j \in JobKeys :
             {p \in Procs : Holds(p, j)}' = IF j = k THEN {} ELSE {p \in Procs : Holds(p, j)}
      BY <2>5, <2>6
    <2>8. \A j \in JobKeys \ {k} : TriesLeft(j)' = TriesLeft(j)
      BY <2>2 DEF TriesLeft
    <2>9. CASE FinishOK(r)
      <3>1. jobs'[k] = IF k \in Recurring THEN Rescheduled ELSE Completed(jobs[k])
        BY <1>3, <2>9 DEF FinishOK
      <3>2. TriesLeft(k)' = IF k \in Recurring THEN MaxAttempts ELSE TriesLeft(k)
        BY <2>3, <3>1 DEF TriesLeft, Rescheduled, Completed, Row
      <3>3. jobs'[k].status = IF k \in Recurring THEN "pending" ELSE "succeeded"
        BY <2>3, <3>1, FinishedRows DEF Rescheduled
      <3>4. Queue!Succeed(r, k)
        BY <2>1, <2>2, <2>7, <2>8, <3>2, <3>3 DEF Queue!Succeed
      <3>5. QED BY <3>4 DEF Queue!Next
    <2>10. CASE FinishErr(r)
      <3>1. jobs'[k] = Failed(jobs[k], jobs[k].attempts)
        BY <1>3, <2>1, <2>10 DEF FinishErr
      <3>2. TriesLeft(k)' = TriesLeft(k)
        BY <2>3, <3>1, FinishedRows DEF TriesLeft, Row
      <3>3. jobs'[k].status = IF TriesLeft(k) = 0 THEN "failed" ELSE "pending"
        BY <2>3, <3>1, FinishedRows DEF TriesLeft
      <3>4. Queue!Fail(r, k)
        BY <2>1, <2>2, <2>7, <2>8, <3>2, <3>3 DEF Queue!Fail
      <3>5. QED BY <3>4 DEF Queue!Next
    <2>11. QED BY <2>9, <2>10
  <1>4. QED BY <1>2, <1>3

\* Every step of the job queue is a step of the abstract queue, or none.
LEMMA NextRefines == IInv /\ [Next]_vars => [Queue!Next]_(Queue!vars)
  <1> SUFFICES ASSUME IInv, [Next]_vars PROVE Queue!Next \/ UNCHANGED Queue!vars
    OBVIOUS
  <1>1. ASSUME NEW p \in Procs, Proc(p) PROVE Queue!Next \/ UNCHANGED Queue!vars
    <2>1. CASE Start(p)
      <3>1. \A q \in Procs : \A j \in JobKeys : Holds(q, j)' <=> Holds(q, j)
        BY <2>1 DEF Start, Leave, Holds, Matches, Ensured, IInv, TypeOK, OwnStamps, ZeroJob
      <3>2. QED BY <2>1, <3>1, EnsureRefines DEF Start
    <2>2. CASE Crash(p) \/ GiveUp(p) \/ FinishLost(p)
      BY <2>2, LeaveRefines DEF Crash, GiveUp, FinishLost, PC
    <2>3. CASE Poll(p)
      <3>1. \A q \in Procs : \A j \in JobKeys : Holds(q, j)' <=> Holds(q, j)
        BY <2>3 DEF Poll, Holds, Matches, IInv, TypeOK, OwnStamps, ZeroJob
      <3>2. QED BY <2>3, <3>1, KeepsQueue DEF Poll
    <2>4. CASE ClaimCommits(p)
      BY <2>4, LockedRefines DEF ClaimCommits
    <2>5. CASE ClaimFindsNone(p) \/ SelectFails(p) \/ Retry(p)
      <3>1. CASE Leave(p, "idle") /\ UNCHANGED jobs
        BY <3>1, LeaveRefines DEF PC
      <3>2. CASE UNCHANGED <<jobs, now, claimed>>
        BY <3>2, KeepsQueue DEF Holds, Matches
      <3>3. QED BY <2>5, <3>1, <3>2 DEF ClaimFindsNone, SelectFails, Retry
    <2>6. CASE UpdateFails(p)
      BY <2>6, ScannedRefines DEF UpdateFails
    <2>7. CASE CommitFails(p)
      BY <2>7, ScannedRefines, LockedRefines DEF CommitFails
    <2>8. CASE FinishOK(p) \/ FinishErr(p)
      BY <2>8, FinishRefines
    <2>9. QED
      BY <1>1, <2>1, <2>2, <2>3, <2>4, <2>5, <2>6, <2>7, <2>8 DEF Proc
  <1>2. ASSUME NEW k \in JobKeys, Enqueue(k) PROVE Queue!Next
    <2>1. jobs' = [j \in JobKeys |-> IF j \in {k} THEN Ensured(jobs[j]) ELSE jobs[j]]
      BY <1>2 DEF Enqueue, IInv, TypeOK
    <2>2. \A q \in Procs : \A j \in JobKeys : Holds(q, j)' <=> Holds(q, j)
      BY <1>2, <2>1 DEF Enqueue, Holds, Matches, Ensured
    <2>3. QED BY <2>1, <2>2, EnsureRefines
  <1>3. ASSUME NEW k \in JobKeys, Ripen(k) PROVE UNCHANGED Queue!vars
    <2>1. \A j \in JobKeys : /\ jobs'[j].status = jobs[j].status
                             /\ jobs'[j].lockedAt = jobs[j].lockedAt
                             /\ jobs'[j].attempts = jobs[j].attempts
      BY <1>3 DEF Ripen, IInv, TypeOK, Row
    <2>2. QED BY <1>3, <2>1, KeepsQueue DEF Ripen, Holds, Matches
  <1>4. CASE UNCHANGED vars
    BY <1>4, KeepsQueue DEF vars, Holds, Matches
  <1>5. QED BY <1>1, <1>2, <1>3, <1>4 DEF Next

\* The job queue with its table, retries, lost answers and crashes implements the
\* abstract queue.
THEOREM QueueImplemented == Spec => ImplementsQueue
  <1>1. QED BY InitRefines, NextRefines, Inductive, PTL DEF Spec, ImplementsQueue, Queue!Spec
=============================================================================
