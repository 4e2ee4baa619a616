------------------------------- MODULE Limits -------------------------------
(***************************************************************************)
(* What stands before a passkey login: FixedWindowLimiter behind           *)
(* SensitiveRateLimit (http/middleware/rate_limit.go) and                  *)
(* loginFailureTracker in PasskeyLoginFinish (http/handlers/admin.go).     *)
(*                                                                         *)
(* Both are maps under a mutex, in memory, keyed by the client's address:  *)
(* each call is one step.  A request calls Allow, IsLocked and, after the  *)
(* database and the passkey have been asked, RecordFailure, RecordSuccess  *)
(* or neither; other requests and the clock act in between.                *)
(*                                                                         *)
(* Instants are kept as their distance from now, so that the clock has no  *)
(* bound: what lies further back than any comparison reaches stays where   *)
(* it is.                                                                  *)
(***************************************************************************)
EXTENDS Integers, FiniteSets

CONSTANTS
    Keys,        \* addresses of clients
    Conns,       \* requests served at the same time
    None,        \* no entry, no instant
    Limit,       \* requests of a client in a window
    Window,      \* the limiter's window, in ticks
    MaxKeys,     \* entries of the limiter
    Threshold,   \* LOGIN_LOCKOUT_THRESHOLD
    FailWindow,  \* LOGIN_LOCKOUT_WINDOW, in ticks
    LockFor      \* LOGIN_LOCKOUT_DURATION, in ticks

\* left: from now to resetTime.
Entry == [count: 1..Limit, left: -Window..Window]

\* age: from firstFailed to now; lock: from now to lockedUntil.
Failures == [failures: Nat \ {0}, age: 0..FailWindow + 1, lock: 0..LockFor \cup {None}]

ASSUME LimitsAssumption ==
    /\ {Limit, Window, MaxKeys, Threshold, FailWindow, LockFor} \subseteq Nat \ {0}
    /\ None \notin Int \cup Entry \cup Failures
    /\ IsFiniteSet(Keys)

VARIABLES
    entries,   \* FixedWindowLimiter.entries
    sinceGC,   \* ticks since lastGC, up to Window
    tracker,   \* loginFailureTracker.entries
    requests,  \* the logins being served
    passed     \* how many of each client Allow let in, within so many ticks

vars == <<entries, sinceGC, tracker, requests, passed>>

\* A request; before: whether it was let in before the lock on record was set.
Idle    == [at |-> "idle", key |-> None, before |-> FALSE]
Request == [at: {"admitted", "verify"}, key: Keys, before: BOOLEAN]

\* Types of the two maps and the requests.
TypeOK ==
    /\ entries \in [Keys -> Entry \cup {None}]
    /\ sinceGC \in 0..Window
    /\ tracker \in [Keys -> Failures \cup {None}]
    /\ requests \in [Conns -> Request \cup {Idle}]
    /\ passed \in [Keys -> [0..Window -> Nat]]

Init ==
    /\ entries = [k \in Keys |-> None]
    /\ sinceGC = Window        \* lastGC.IsZero(): the first call prunes
    /\ tracker = [k \in Keys |-> None]
    /\ requests = [c \in Conns |-> Idle]
    /\ passed = [k \in Keys |-> [a \in 0..Window |-> 0]]

At(c, l) == requests[c].at = l

-----------------------------------------------------------------------------
(* FixedWindowLimiter *)

\* Fault: an entry is expired at its reset time already.
ExpiredAtReset(e) == e.left <= 0

\* now.After(entry.resetTime).
Expired(e) == e.left < 0

\* Fault: nothing is pruned.
Unpruned(m) == m

\* pruneExpired, when a window has passed since the last time.
Pruned(m) ==
    IF sinceGC < Window THEN m
    ELSE [k \in Keys |-> IF m[k] # None /\ Expired(m[k]) THEN None ELSE m[k]]

Held(m) == Cardinality({k \in Keys : m[k] # None})

\* A newcomer finds all places taken.
NoRoom(m, k)   == m[k] = None /\ Held(m) >= MaxKeys
Starts(m, k)   == (m[k] = None /\ Held(m) < MaxKeys) \/ (m[k] # None /\ Expired(m[k]))
Continues(m, k) == m[k] # None /\ ~Expired(m[k]) /\ m[k].count < Limit

\* Fault: a refused request starts the window anew.
RefusedAgain(m, k) ==
    IF m[k] = None THEN m ELSE [m EXCEPT ![k].left = Window]

\* The map after a refusal.
Refused(m, k) == m

\* Allow lets the request in.
Allow(c, k) ==
    LET m == Pruned(entries)
    IN  /\ At(c, "idle")
        /\ \/ Starts(m, k) /\ entries' = [m EXCEPT ![k] = [count |-> 1, left |-> Window]]
           \/ Continues(m, k) /\ entries' = [m EXCEPT ![k].count = @ + 1]
        /\ sinceGC' = IF sinceGC < Window THEN sinceGC ELSE 0
        /\ passed' = [passed EXCEPT ![k] = [a \in 0..Window |-> @[a] + 1]]
        /\ requests' = [requests EXCEPT ![c] = [at |-> "admitted", key |-> k, before |-> FALSE]]
        /\ UNCHANGED tracker

\* Allow refuses the request, which is answered at once.
Refuse(k) ==
    LET m == Pruned(entries)
    IN  /\ ~Starts(m, k) /\ ~Continues(m, k)
        /\ entries' = Refused(m, k)
        /\ sinceGC' = IF sinceGC < Window THEN sinceGC ELSE 0
        /\ UNCHANGED <<tracker, requests, passed>>

-----------------------------------------------------------------------------
(* loginFailureTracker, and what PasskeyLoginFinish does with it *)

\* now.Before(entry.lockedUntil).
Locked(f) == f # None /\ f.lock # None /\ f.lock > 0

\* Fault: IsLocked leaves an expired lock on record.
LeftOnRecord(f) == f

\* Fault: a login attempt restarts the lock.
LockRestarted(f) == IF Locked(f) THEN [f EXCEPT !.lock = LockFor] ELSE f

\* IsLocked deletes an entry whose lock has expired.
LookedUp(f) == IF f # None /\ f.lock = 0 THEN None ELSE f

\* PasskeyLoginFinish asks IsLocked, and answers a locked client.
IsLocked(c) ==
    LET k == requests[c].key
    IN  /\ At(c, "admitted")
        /\ tracker' = [tracker EXCEPT ![k] = LookedUp(@)]
        /\ requests' = [requests EXCEPT ![c] = IF Locked(tracker[k]) THEN Idle
                                               ELSE [@ EXCEPT !.at = "verify"]]
        /\ UNCHANGED <<entries, sinceGC, passed>>

First == [failures |-> 1, age |-> 0, lock |-> None]

\* One failure more, and a lock at the threshold.
Counted(f) ==
    [f EXCEPT !.failures = @ + 1,
              !.lock = IF f.failures + 1 >= Threshold THEN LockFor ELSE @]

\* Fault: the failure of a locked client is counted as well.
FailureCounted(f) ==
    IF f = None \/ f.age > FailWindow THEN First ELSE Counted(f)

\* RecordFailure.
AfterFailure(f) ==
    IF Locked(f) THEN f
    ELSE IF f = None \/ f.age > FailWindow THEN First ELSE Counted(f)

\* The requests of client k, when RecordFailure has set a lock.
Overtaken(k, done) ==
    [c \in Conns |->
        IF c = done THEN Idle
        ELSE IF At(c, "verify") /\ requests[c].key = k
             THEN [requests[c] EXCEPT !.before = TRUE] ELSE requests[c]]

\* The challenge, the passkey or the user is refused.
RecordFailure(c) ==
    LET k == requests[c].key
    IN  /\ At(c, "verify")
        /\ tracker' = [tracker EXCEPT ![k] = AfterFailure(@)]
        /\ requests' = IF ~Locked(tracker[k]) /\ Locked(tracker'[k]) THEN Overtaken(k, c)
                       ELSE [requests EXCEPT ![c] = Idle]
        /\ UNCHANGED <<entries, sinceGC, passed>>

\* The passkey is good: the client's entry is deleted, a lock included.
RecordSuccess(c) ==
    /\ At(c, "verify")
    /\ tracker' = [tracker EXCEPT ![requests[c].key] = None]
    /\ requests' = [requests EXCEPT ![c] = Idle]
    /\ UNCHANGED <<entries, sinceGC, passed>>

\* Answers that count as no failure: before the lookup, passkeys that are not
\* configured or a missing challenge; after it, a session or a credential that
\* cannot be decoded.
GiveUp(c) ==
    /\ At(c, "admitted") \/ At(c, "verify")
    /\ requests' = [requests EXCEPT ![c] = Idle]
    /\ UNCHANGED <<entries, sinceGC, tracker, passed>>

-----------------------------------------------------------------------------
(* The clock *)

\* Nothing asks whether an entry expired longer ago than a window: there left stops,
\* and stands for any time.
Older(e)   == [e EXCEPT !.left = IF @ > -Window THEN @ - 1 ELSE @]
Passing(f) ==
    [f EXCEPT !.age = IF @ <= FailWindow THEN @ + 1 ELSE @,
              !.lock = IF @ # None /\ @ > 0 THEN @ - 1 ELSE @]

Tick ==
    /\ entries' = [k \in Keys |-> IF entries[k] = None THEN None ELSE Older(entries[k])]
    /\ sinceGC' = IF sinceGC < Window THEN sinceGC + 1 ELSE sinceGC
    /\ tracker' = [k \in Keys |-> IF tracker[k] = None THEN None ELSE Passing(tracker[k])]
    /\ passed' = [k \in Keys |-> [a \in 0..Window |-> IF a = 0 THEN 0 ELSE passed[k][a - 1]]]
    /\ UNCHANGED requests

Next ==
    \/ \E c \in Conns :
          \/ \E k \in Keys : Allow(c, k)
          \/ IsLocked(c) \/ RecordFailure(c) \/ RecordSuccess(c) \/ GiveUp(c)
    \/ \E k \in Keys : Refuse(k)
    \/ Tick

\* Time passes, whatever the clients do.
Spec == Init /\ [][Next]_vars /\ WF_vars(Tick)

-----------------------------------------------------------------------------
(* Properties *)

\* However a window is laid, a client gets less than twice its limit through it:
\* the end of one window of the limiter and the start of the next.
WindowBound == \A k \in Keys : passed[k][Window] <= 2 * Limit - 1

\* A newcomer is refused for want of room only when as many clients as the map
\* may hold have opened their windows within the last two windows: entries that
\* are older go in time, though they are looked at once in a window only.
RoomIsTakenRecently ==
    [][\A k \in Keys :
          Refuse(k) /\ entries[k] = None =>
             Cardinality({j \in Keys : entries'[j] # None /\ entries'[j].left > -Window})
                >= MaxKeys]_vars

\* While a lock of a client is on record, running or expired, only those of its
\* logins are verified that were let in before the lock was set.
LockKeepsOut ==
    \A k \in Keys, c \in Conns :
        /\ tracker[k] # None /\ tracker[k].lock # None
        /\ At(c, "verify") /\ requests[c].key = k
        => requests[c].before

\* Since the last pruning, no entry has been expired for longer than that.  (Only
\* Allow prunes: in an idle limiter the last pruning may be any time ago.)
Recent ==
    \A k \in Keys :
        entries[k] # None /\ sinceGC < Window => entries[k].left >= -sinceGC

\* No more got through in a shorter time.
Cumulative(p) == \A a, b \in 0..Window : a <= b => p[a] <= p[b]

\* Entry e counts what got through since its window was opened, by the first of them.
\* Before that, and when the entry is expired or gone, less than a limit got through
\* in the time of a window.
Counts(e, p) ==
    IF e # None /\ ~Expired(e)
    THEN LET opened == Window - e.left
         IN  /\ p[opened] = e.count
             /\ opened > 0 => p[opened - 1] <= e.count - 1
             /\ p[Window] <= e.count + Limit - 1
    ELSE p[0] = 0 /\ p[Window] <= Limit - 1

\* The inductive invariant of LockKeepsOut and of the two action properties.
IInv == TypeOK /\ Recent /\ LockKeepsOut

\* That of WindowBound.
CountInv == IInv /\ \A k \in Keys : Cumulative(passed[k]) /\ Counts(entries[k], passed[k])

\* A lock lasts for its time, unless a login succeeds that was being verified
\* when the lock was set.
LockEndsEarlyOnlyBySuccess ==
    [][\A k \in Keys :
          Locked(tracker[k]) /\ ~Locked(tracker'[k]) =>
             \/ Tick /\ tracker[k].lock = 1
             \/ \E c \in Conns : /\ RecordSuccess(c)
                                 /\ requests[c].key = k /\ requests[c].before]_vars

Full(k) == entries[k] # None /\ ~Expired(entries[k]) /\ entries[k].count = Limit

\* No client is kept out for good by its own requests: its lock and its used-up
\* window end, however often it comes back meanwhile.
RefusalsEnd ==
    \A k \in Keys : /\ Locked(tracker[k]) ~> ~Locked(tracker[k])
                    /\ Full(k) ~> ~Full(k)
=============================================================================
