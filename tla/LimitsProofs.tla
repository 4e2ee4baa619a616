---------------------------- MODULE LimitsProofs ----------------------------
(***************************************************************************)
(* Proofs about Limits, for every set of clients and every configuration   *)
(* of the limiter and the lockout.                                         *)
(***************************************************************************)
EXTENDS Limits, FiniteSetTheorems, TLAPS

\* The parameters are positive integers, and None is none of them.
LEMMA Parameters ==
    /\ Limit \in Nat \ {0} /\ Window \in Nat \ {0} /\ MaxKeys \in Nat \ {0}
    /\ Threshold \in Nat \ {0} /\ FailWindow \in Nat \ {0} /\ LockFor \in Nat \ {0}
    /\ None \notin Int \cup Entry \cup Failures
BY LimitsAssumption DEF LimitsAssumption

\* A function with one value replaced.
LEMMA ExceptFits ==
    ASSUME NEW S, NEW T, NEW f \in [S -> T], NEW x \in S, NEW y \in T
    PROVE  [f EXCEPT ![x] = y] \in [S -> T]
OBVIOUS

-----------------------------------------------------------------------------
(* The limiter's map *)

\* Pruning keeps the map well typed, and keeps or removes each entry.
LEMMA PrunedFits ==
    ASSUME TypeOK
    PROVE  /\ Pruned(entries) \in [Keys -> Entry \cup {None}]
           /\ \A k \in Keys : Pruned(entries)[k] \in {entries[k], None}
BY DEF TypeOK, Pruned

\* Past a pruning, or since the last one, no entry is older than the last pruning.
LEMMA PrunedIsRecent ==
    ASSUME IInv, NEW k \in Keys, Pruned(entries)[k] # None
    PROVE  /\ Pruned(entries)[k].left > -Window
           /\ Pruned(entries)[k].left >= -(IF sinceGC < Window THEN sinceGC ELSE 0)
<1>1. sinceGC \in 0..Window /\ entries[k] \in Entry \cup {None}
  BY DEF IInv, TypeOK
<1>2. CASE sinceGC < Window
  BY <1>1, <1>2, Parameters DEF Pruned, IInv, Recent, Entry
<1>3. CASE ~(sinceGC < Window)
  <2>1. entries[k] # None /\ ~Expired(entries[k]) /\ Pruned(entries)[k] = entries[k]
    BY <1>3 DEF Pruned
  <2> QED BY <1>1, <1>3, <2>1, Parameters DEF Expired, Entry
<1> QED BY <1>2, <1>3

-----------------------------------------------------------------------------
(* The lockout's map *)

\* A failure keeps an entry well typed.
LEMMA AfterFailureFits ==
    ASSUME NEW f \in Failures \cup {None}
    PROVE  AfterFailure(f) \in Failures \cup {None}
<1>1. CASE Locked(f)
  BY <1>1 DEF AfterFailure
<1>2. CASE ~Locked(f) /\ (f = None \/ f.age > FailWindow)
  <2>1. First \in Failures
    BY Parameters DEF First, Failures
  <2> QED BY <1>2, <2>1 DEF AfterFailure
<1>3. CASE ~Locked(f) /\ ~(f = None \/ f.age > FailWindow)
  <2>1. f \in Failures
    BY <1>3
  <2>2. /\ f.failures + 1 \in Nat \ {0}
        /\ f.age \in 0..FailWindow + 1
        /\ f.lock \in 0..LockFor \cup {None} /\ LockFor \in 0..LockFor
    BY <2>1, Parameters DEF Failures
  <2>3. Counted(f) \in Failures
    BY <2>1, <2>2 DEF Counted, Failures
  <2> QED BY <1>3, <2>3 DEF AfterFailure
<1> QED BY <1>1, <1>2, <1>3

\* A failure puts no lock on record but one that runs, or leaves the one it found.
LEMMA AfterFailureLock ==
    ASSUME NEW f \in Failures \cup {None},
           AfterFailure(f) # None, AfterFailure(f).lock # None
    PROVE  \/ Locked(AfterFailure(f))
           \/ f # None /\ f.lock # None
<1>1. CASE f = None \/ f.age > FailWindow
  BY <1>1 DEF AfterFailure, First, Locked
<1>2. CASE ~(f = None \/ f.age > FailWindow)
  BY <1>2, Parameters DEF AfterFailure, Counted, Locked, Failures
<1> QED BY <1>1, <1>2

\* A lookup keeps an entry or removes it; one that stays with a lock is locked.
LEMMA LookedUpFits ==
    ASSUME NEW f \in Failures \cup {None}
    PROVE  /\ LookedUp(f) \in {f, None}
           /\ LookedUp(f) # None /\ LookedUp(f).lock # None => Locked(f)
           /\ Locked(f) => LookedUp(f) = f
<1>1. CASE f = None
  BY <1>1 DEF LookedUp, Locked
<1>2. CASE f \in Failures /\ f # None
  <2>1. f.lock = None \/ f.lock \in 0..LockFor
    BY <1>2 DEF Failures
  <2> QED BY <1>2, <2>1, Parameters DEF LookedUp, Locked
<1> QED BY <1>1, <1>2

\* A tick keeps an entry well typed, and its lock on record.
LEMMA PassingFits ==
    ASSUME NEW f \in Failures
    PROVE  /\ Passing(f) \in Failures
           /\ Passing(f).lock # None <=> f.lock # None
           /\ f.lock # None /\ f.lock > 1 => Passing(f).lock > 0
<1>1. /\ f.failures \in Nat \ {0}
      /\ f.age \in 0..FailWindow + 1
      /\ f.lock \in 0..LockFor \cup {None}
  BY DEF Failures
<1>2. (IF f.age <= FailWindow THEN f.age + 1 ELSE f.age) \in 0..FailWindow + 1
  BY <1>1, Parameters
<1> DEFINE l == IF f.lock # None /\ f.lock > 0 THEN f.lock - 1 ELSE f.lock
<1>3. CASE f.lock = None
  <2>1. l = None
    BY <1>3
  <2>2. Passing(f).lock = l
    BY DEF Passing, Failures
  <2>3. Passing(f) \in Failures
    BY <1>1, <1>2, <2>1 DEF Passing, Failures
  <2> QED BY <1>3, <2>1, <2>2, <2>3
<1>4. CASE f.lock # None
  <2>1. f.lock \in 0..LockFor
    BY <1>1, <1>4
  <2>2. l \in 0..LockFor /\ (f.lock > 1 => l > 0)
    BY <2>1, <1>4, Parameters
  <2>3. l # None
    BY <2>2, Parameters
  <2>4. Passing(f).lock = l
    BY DEF Passing, Failures
  <2>5. Passing(f) \in Failures
    BY <1>1, <1>2, <2>2 DEF Passing, Failures
  <2> QED BY <1>4, <2>2, <2>3, <2>4, <2>5
<1> QED BY <1>3, <1>4

\* The requests that a new lock overtakes stay well typed.
LEMMA OvertakenFits ==
    ASSUME TypeOK, NEW k \in Keys, NEW c \in Conns
    PROVE  Overtaken(k, c) \in [Conns -> Request \cup {Idle}]
<1>1. ASSUME NEW d \in Conns, At(d, "verify")
      PROVE  requests[d] \in Request
  BY <1>1 DEF TypeOK, At, Idle
<1>2. ASSUME NEW r \in Request
      PROVE  [r EXCEPT !.before = TRUE] \in Request
  BY DEF Request
<1> QED BY <1>1, <1>2 DEF TypeOK, Overtaken

\* A request that is past the limiter has a client.
LEMMA ServedHasKey ==
    ASSUME TypeOK, NEW c \in Conns, requests[c].at \in {"admitted", "verify"}
    PROVE  requests[c] \in Request /\ requests[c].key \in Keys
BY DEF TypeOK, Request, Idle

-----------------------------------------------------------------------------
(* The invariant, action by action *)

LEMMA InitFits ==
    ASSUME Init
    PROVE  IInv
BY Parameters DEF Init, IInv, TypeOK, Recent, LockKeepsOut, At, Idle

LEMMA AllowFits ==
    ASSUME IInv, NEW c \in Conns, NEW k \in Keys, Allow(c, k)
    PROVE  IInv'
<1> DEFINE m == Pruned(entries)
<1>1. m \in [Keys -> Entry \cup {None}]
  BY PrunedFits DEF IInv
<1>2. PICK e \in Entry : /\ entries' = [m EXCEPT ![k] = e]
                         /\ e.left >= 0 \/ (m[k] # None /\ e.left = m[k].left)
  <2>1. CASE Starts(m, k) /\ entries' = [m EXCEPT ![k] = [count |-> 1, left |-> Window]]
    <3>1. [count |-> 1, left |-> Window] \in Entry
      BY Parameters DEF Entry
    <3>2. [count |-> 1, left |-> Window].left >= 0
      BY Parameters
    <3> QED BY <2>1, <3>1, <3>2
  <2>2. CASE Continues(m, k) /\ entries' = [m EXCEPT ![k].count = @ + 1]
    <3>1. m[k] \in Entry /\ m[k].count < Limit
      BY <1>1, <2>2 DEF Continues
    <3>2. [m[k] EXCEPT !.count = @ + 1] \in Entry
      BY <3>1, Parameters DEF Entry
    <3>3. [m[k] EXCEPT !.count = @ + 1].left = m[k].left
      BY <3>1 DEF Entry
    <3> QED BY <2>2, <3>2, <3>3 DEF Continues
  <2> QED BY <2>1, <2>2 DEF Allow
<1>3. entries' \in [Keys -> Entry \cup {None}]
  BY <1>1, <1>2
<1>4. sinceGC' \in 0..Window /\ sinceGC' = IF sinceGC < Window THEN sinceGC ELSE 0
  BY Parameters DEF Allow, IInv, TypeOK
<1>5. passed' \in [Keys -> [0..Window -> Nat]]
  <2>1. PICK f : f = passed[k]
    OBVIOUS
  <2>2. f \in [0..Window -> Nat]
    BY <2>1 DEF IInv, TypeOK
  <2>3. [a \in 0..Window |-> f[a] + 1] \in [0..Window -> Nat]
    BY <2>2
  <2>4. passed' = [passed EXCEPT ![k] = [a \in 0..Window |-> f[a] + 1]]
    BY <2>1 DEF Allow
  <2> HIDE DEF m
  <2> QED BY <2>3, <2>4, ExceptFits DEF IInv, TypeOK
<1>6. requests' \in [Conns -> Request \cup {Idle}]
  BY DEF Allow, IInv, TypeOK, Request
<1>7. Recent'
  <2> SUFFICES ASSUME NEW j \in Keys, entries'[j] # None, sinceGC' < Window
               PROVE  entries'[j].left >= -sinceGC'
    BY DEF Recent
  <2>1. entries'[j] = m[j] \/ entries'[j].left >= 0 \/ (m[j] # None /\ entries'[j].left = m[j].left)
    BY <1>1, <1>2
  <2>2. m[j] # None => m[j].left >= -sinceGC'
    BY <1>4, PrunedIsRecent
  <2>3. CASE entries'[j].left >= 0
    BY <1>3, <1>4, <2>3 DEF Entry
  <2> QED BY <2>1, <2>2, <2>3
<1>8. LockKeepsOut'
  BY DEF Allow, IInv, TypeOK, LockKeepsOut, At
<1> QED BY <1>3, <1>4, <1>5, <1>6, <1>7, <1>8 DEF IInv, TypeOK, Allow

LEMMA RefuseFits ==
    ASSUME IInv, NEW k \in Keys, Refuse(k)
    PROVE  IInv'
<1>1. entries' = Pruned(entries)
  BY DEF Refuse, Refused
<1>2. sinceGC' \in 0..Window /\ sinceGC' = IF sinceGC < Window THEN sinceGC ELSE 0
  BY Parameters DEF Refuse, IInv, TypeOK
<1>3. Recent'
  BY <1>1, <1>2, PrunedIsRecent DEF Recent
<1>4. LockKeepsOut'
  BY DEF Refuse, IInv, LockKeepsOut, At
<1> QED BY <1>1, <1>2, <1>3, <1>4, PrunedFits DEF Refuse, IInv, TypeOK

\* The limiter's map is left alone by everything behind it.
LEMMA RecentStays ==
    ASSUME Recent, UNCHANGED <<entries, sinceGC>>
    PROVE  Recent'
BY DEF Recent

LEMMA IsLockedFits ==
    ASSUME IInv, NEW c \in Conns, IsLocked(c)
    PROVE  IInv'
<1> DEFINE k == requests[c].key
<1>1. requests[c] \in Request /\ k \in Keys
  BY ServedHasKey DEF IsLocked, At, IInv
<1>2. tracker[k] \in Failures \cup {None}
  BY <1>1 DEF IInv, TypeOK
<1>3. tracker' = [tracker EXCEPT ![k] = LookedUp(tracker[k])]
  BY DEF IsLocked
<1>4. tracker' \in [Keys -> Failures \cup {None}]
  BY <1>1, <1>2, <1>3, LookedUpFits DEF IInv, TypeOK
<1>5. requests' \in [Conns -> Request \cup {Idle}]
  BY <1>1 DEF IsLocked, IInv, TypeOK, Request
<1>6. ASSUME NEW j \in Keys, NEW d \in Conns,
             tracker'[j] # None, tracker'[j].lock # None,
             At(d, "verify")', requests'[d].key = j
      PROVE  requests'[d].before
  <2>1. tracker'[j] = tracker[j]
    BY <1>1, <1>2, <1>3, <1>6, LookedUpFits DEF IInv, TypeOK
  <2>2. CASE d = c
    <3>1. ~Locked(tracker[k])
      BY <1>6, <2>2 DEF IsLocked, IInv, TypeOK, At, Idle
    <3>2. j = k
      BY <1>1, <1>6, <2>2, <3>1 DEF IsLocked, IInv, TypeOK, Request
    <3> QED BY <1>1, <1>2, <1>3, <1>6, <3>1, <3>2, LookedUpFits DEF IInv, TypeOK
  <2>3. CASE d # c
    <3>1. requests'[d] = requests[d]
      BY <2>3 DEF IsLocked, IInv, TypeOK
    <3> QED BY <1>6, <2>1, <3>1 DEF IInv, LockKeepsOut, At
  <2> QED BY <2>2, <2>3
<1>7. LockKeepsOut'
  BY <1>6 DEF LockKeepsOut
<1> QED BY <1>4, <1>5, <1>7, RecentStays DEF IsLocked, IInv, TypeOK

LEMMA RecordFailureFits ==
    ASSUME IInv, NEW c \in Conns, RecordFailure(c)
    PROVE  IInv'
<1> DEFINE k == requests[c].key
<1>1. requests[c] \in Request /\ k \in Keys
  BY ServedHasKey DEF RecordFailure, At, IInv
<1>2. tracker[k] \in Failures \cup {None}
  BY <1>1 DEF IInv, TypeOK
<1>3. /\ tracker' = [tracker EXCEPT ![k] = AfterFailure(tracker[k])]
      /\ tracker'[k] = AfterFailure(tracker[k])
  BY <1>1 DEF RecordFailure, IInv, TypeOK
<1>4. tracker' \in [Keys -> Failures \cup {None}]
  BY <1>1, <1>2, <1>3, AfterFailureFits DEF IInv, TypeOK
<1>5. CASE ~Locked(tracker[k]) /\ Locked(tracker'[k])
  <2>1. requests' = Overtaken(k, c)
    BY <1>5 DEF RecordFailure
  <2>2. requests' \in [Conns -> Request \cup {Idle}]
    BY <1>1, <2>1, OvertakenFits DEF IInv
  <2>3. ASSUME NEW j \in Keys, NEW d \in Conns,
               tracker'[j] # None, tracker'[j].lock # None,
               At(d, "verify")', requests'[d].key = j
        PROVE  requests'[d].before
    <3>1. d # c
      BY <2>1, <2>3 DEF Overtaken, At, Idle
    <3>2. CASE At(d, "verify") /\ requests[d].key = k
      <4>1. requests'[d] = [requests[d] EXCEPT !.before = TRUE]
        BY <2>1, <3>1, <3>2 DEF Overtaken
      <4>2. requests[d] \in Request
        BY <3>2, ServedHasKey DEF At, IInv
      <4> QED BY <4>1, <4>2 DEF Request
    <3>3. CASE ~(At(d, "verify") /\ requests[d].key = k)
      <4>1. requests'[d] = requests[d]
        BY <2>1, <3>1, <3>3 DEF Overtaken
      <4>2. j # k
        BY <2>3, <3>3, <4>1 DEF At
      <4>3. tracker'[j] = tracker[j]
        BY <1>3, <4>2 DEF IInv, TypeOK
      <4> QED BY <2>3, <4>1, <4>3 DEF IInv, LockKeepsOut, At
    <3> QED BY <3>2, <3>3
  <2>4. LockKeepsOut'
    BY <2>3 DEF LockKeepsOut
  <2> QED BY <1>4, <2>2, <2>4, RecentStays DEF RecordFailure, IInv, TypeOK
<1>6. CASE ~(~Locked(tracker[k]) /\ Locked(tracker'[k]))
  <2>1. requests' = [requests EXCEPT ![c] = Idle]
    BY <1>6 DEF RecordFailure
  <2>2. requests' \in [Conns -> Request \cup {Idle}]
    BY <2>1 DEF IInv, TypeOK
  <2>3. ASSUME NEW j \in Keys, NEW d \in Conns,
               tracker'[j] # None, tracker'[j].lock # None,
               At(d, "verify")', requests'[d].key = j
        PROVE  requests'[d].before
    <3>1. requests'[d] = requests[d]
      BY <2>1, <2>3 DEF IInv, TypeOK, At, Idle
    <3>2. tracker[j] # None /\ tracker[j].lock # None
      <4>1. CASE j # k
        BY <1>3, <2>3, <4>1 DEF IInv, TypeOK
      <4>2. CASE j = k
        <5>1. Locked(tracker[k]) => tracker[k] # None /\ tracker[k].lock # None
          BY DEF Locked
        <5> QED BY <1>2, <1>3, <1>6, <2>3, <4>2, <5>1, AfterFailureLock
      <4> QED BY <4>1, <4>2
    <3> QED BY <2>3, <3>1, <3>2 DEF IInv, LockKeepsOut, At
  <2>4. LockKeepsOut'
    BY <2>3 DEF LockKeepsOut
  <2> QED BY <1>4, <2>2, <2>4, RecentStays DEF RecordFailure, IInv, TypeOK
<1> QED BY <1>5, <1>6

LEMMA RecordSuccessFits ==
    ASSUME IInv, NEW c \in Conns, RecordSuccess(c)
    PROVE  IInv'
<1>1. /\ tracker' \in [Keys -> Failures \cup {None}]
      /\ \A j \in Keys : tracker'[j] \in {tracker[j], None}
  BY DEF RecordSuccess, IInv, TypeOK
<1>2. requests' \in [Conns -> Request \cup {Idle}]
  BY DEF RecordSuccess, IInv, TypeOK
<1>3. LockKeepsOut'
  BY <1>1 DEF RecordSuccess, IInv, TypeOK, LockKeepsOut, At, Idle
<1> QED BY <1>1, <1>2, <1>3, RecentStays DEF RecordSuccess, IInv, TypeOK

LEMMA GiveUpFits ==
    ASSUME IInv, NEW c \in Conns, GiveUp(c)
    PROVE  IInv'
<1>1. LockKeepsOut'
  BY DEF GiveUp, IInv, TypeOK, LockKeepsOut, At, Idle
<1> QED BY <1>1, RecentStays DEF GiveUp, IInv, TypeOK

LEMMA TickFits ==
    ASSUME IInv, Tick
    PROVE  IInv'
<1>1. ASSUME NEW k \in Keys, entries[k] # None
      PROVE  Older(entries[k]) \in Entry /\ Older(entries[k]).left >= entries[k].left - 1
  <2>1. entries[k] \in Entry
    BY <1>1 DEF IInv, TypeOK
  <2> QED BY <2>1, Parameters DEF Older, Entry
<1>2. entries' \in [Keys -> Entry \cup {None}]
  BY <1>1 DEF Tick
<1>3. sinceGC' \in 0..Window
  BY Parameters DEF Tick, IInv, TypeOK
<1>4. tracker' \in [Keys -> Failures \cup {None}]
  BY PassingFits DEF Tick, IInv, TypeOK
<1>5. passed' \in [Keys -> [0..Window -> Nat]]
  BY Parameters DEF Tick, IInv, TypeOK
<1>6. Recent'
  <2> SUFFICES ASSUME NEW k \in Keys, entries'[k] # None, sinceGC' < Window
               PROVE  entries'[k].left >= -sinceGC'
    BY DEF Recent
  <2>1. entries[k] # None /\ entries'[k] = Older(entries[k])
    BY DEF Tick
  <2>2. sinceGC < Window /\ sinceGC' = sinceGC + 1 /\ sinceGC \in 0..Window
    BY DEF Tick, IInv, TypeOK
  <2>3. entries[k].left >= -sinceGC
    BY <2>1, <2>2 DEF IInv, Recent
  <2>4. entries[k].left \in Int /\ Older(entries[k]).left \in Int
    BY <1>1, <2>1, Parameters DEF IInv, TypeOK, Entry
  <2> QED BY <1>1, <2>1, <2>2, <2>3, <2>4
<1>7. \A k \in Keys : tracker'[k] # None /\ tracker'[k].lock # None
                        => tracker[k] # None /\ tracker[k].lock # None
  BY PassingFits DEF Tick, IInv, TypeOK
<1>8. LockKeepsOut'
  BY <1>7 DEF Tick, IInv, LockKeepsOut, At
<1> QED BY <1>2, <1>3, <1>4, <1>5, <1>6, <1>8 DEF Tick, IInv, TypeOK

LEMMA NextFits ==
    ASSUME IInv, [Next]_vars
    PROVE  IInv'
<1>1. CASE UNCHANGED vars
  BY <1>1 DEF vars, IInv, TypeOK, Recent, LockKeepsOut, At
<1> QED BY <1>1, AllowFits, RefuseFits, IsLockedFits, RecordFailureFits,
           RecordSuccessFits, GiveUpFits, TickFits DEF Next

-----------------------------------------------------------------------------
(* Theorems *)

\* The inductive invariant.
THEOREM Inductive == Spec => []IInv
BY InitFits, NextFits, PTL DEF Spec

\* Less than a window after a pruning, no entry has been expired for longer than
\* that pruning is ago, and so for less than a window: there left has not stopped,
\* and is the real distance.
THEOREM EntriesStayRecent == Spec => []Recent
<1>1. IInv => Recent
  BY DEF IInv
<1> QED BY <1>1, Inductive, PTL

\* The maps and the requests are well typed.
THEOREM TypeCorrect == Spec => []TypeOK
<1>1. IInv => TypeOK
  BY DEF IInv
<1> QED BY <1>1, Inductive, PTL

\* A lock on record keeps out every login that was not let in before it was set,
\* in whatever order lookups, failures and successes of the client's other
\* logins come.
THEOREM LocksKeepOut == Spec => []LockKeepsOut
<1>1. IInv => LockKeepsOut
  BY DEF IInv
<1> QED BY <1>1, Inductive, PTL

\* A newcomer is refused only while the map is full of windows that were opened
\* lately, though expired entries are looked for once in a window only.
THEOREM RefusedOnlyWhenFull == Spec => RoomIsTakenRecently
<1> DEFINE Taken == {j \in Keys : entries'[j] # None /\ entries'[j].left > -Window}
<1>1. ASSUME IInv, NEW k \in Keys, Refuse(k), entries[k] = None
      PROVE  Cardinality(Taken) >= MaxKeys
  <2> DEFINE m == Pruned(entries)
  <2>1. entries' = m
    BY <1>1 DEF Refuse, Refused
  <2>2. m[k] = None
    BY <1>1, PrunedFits DEF IInv
  <2>3. ~(Held(m) < MaxKeys)
    BY <1>1, <2>2 DEF Refuse, Starts
  <2>4. Taken = {j \in Keys : m[j] # None}
    BY <1>1, <2>1, PrunedIsRecent
  <2>5. Cardinality(Taken) \in Nat
    BY LimitsAssumption, FS_Subset, FS_CardinalityType DEF LimitsAssumption
  <2>6. Cardinality(Taken) = Held(m)
    BY <2>4 DEF Held
  <2> HIDE DEF Taken, m
  <2> QED BY <2>3, <2>5, <2>6, Parameters
<1>2. IInv => (\A k \in Keys : Refuse(k) /\ entries[k] = None => Cardinality(Taken) >= MaxKeys)
  BY <1>1
<1> QED BY <1>2, Inductive, PTL DEF RoomIsTakenRecently

\* A lock ends by the clock, or by a login that was being verified when it was set.
THEOREM LocksLast == Spec => LockEndsEarlyOnlyBySuccess
<1> DEFINE Ends(k) == \/ Tick /\ tracker[k].lock = 1
                      \/ \E c \in Conns : /\ RecordSuccess(c)
                                          /\ requests[c].key = k /\ requests[c].before
<1>1. ASSUME IInv, [Next]_vars, NEW k \in Keys, Locked(tracker[k]), ~Locked(tracker'[k])
      PROVE  Ends(k)
  <2>1. tracker[k] \in Failures /\ tracker[k].lock # None /\ tracker[k].lock > 0
    BY <1>1 DEF IInv, TypeOK, Locked
  <2>2. tracker'[k] # tracker[k]
    BY <1>1
  <2>3. ASSUME NEW c \in Conns, IsLocked(c)
        PROVE  FALSE
    BY <1>1, <2>1, <2>2, <2>3, LookedUpFits DEF IsLocked, IInv, TypeOK
  <2>4. ASSUME NEW c \in Conns, RecordFailure(c)
        PROVE  FALSE
    BY <1>1, <2>2, <2>4 DEF RecordFailure, AfterFailure, IInv, TypeOK
  <2>5. ASSUME NEW c \in Conns, RecordSuccess(c)
        PROVE  requests[c].key = k /\ requests[c].before
    <3>1. requests[c].key = k
      BY <2>2, <2>5 DEF RecordSuccess, IInv, TypeOK
    <3> QED BY <1>1, <2>1, <2>5, <3>1 DEF RecordSuccess, IInv, LockKeepsOut
  <2>6. ASSUME Tick
        PROVE  tracker[k].lock = 1
    <3>1. tracker'[k] = Passing(tracker[k])
      BY <1>1, <2>1, <2>6 DEF Tick, Locked
    <3>2. ~(tracker[k].lock > 1)
      BY <1>1, <2>1, <3>1, PassingFits, Parameters DEF Locked
    <3>3. tracker[k].lock \in 0..LockFor
      BY <2>1 DEF Failures
    <3> QED BY <2>1, <3>2, <3>3, Parameters
  <2> QED BY <1>1, <2>2, <2>3, <2>4, <2>5, <2>6
          DEF Next, vars, Allow, Refuse, GiveUp
<1>2. IInv /\ [Next]_vars =>
         (\A k \in Keys : Locked(tracker[k]) /\ ~Locked(tracker'[k]) => Ends(k))
  BY <1>1
<1> QED BY <1>2, Inductive, PTL DEF Spec, LockEndsEarlyOnlyBySuccess

-----------------------------------------------------------------------------
(* What gets through in the time of a window                                 *)

\* p is what got through within so many ticks, q after one more has got through,
\* later after a tick.
Through(p)   == p \in [0..Window -> Nat]
OneMore(p)   == [a \in 0..Window |-> p[a] + 1]
TickAfter(p) == [a \in 0..Window |-> IF a = 0 THEN 0 ELSE p[a - 1]]

\* A new window is opened.
LEMMA OpenedCounts ==
    ASSUME NEW p, Through(p), NEW e \in Entry \cup {None}, Counts(e, p),
           e = None \/ Expired(e)
    PROVE  Counts([count |-> 1, left |-> Window], OneMore(p))
<1>1. p[0] = 0 /\ p[Window] <= Limit - 1 /\ p[Window] \in Nat
  BY Parameters DEF Counts, Through
<1>2. OneMore(p)[0] = 1 /\ OneMore(p)[Window] = p[Window] + 1
  BY <1>1, Parameters DEF OneMore
<1>3. [count |-> 1, left |-> Window] \in Entry
  BY Parameters DEF Entry
<1>4. [count |-> 1, left |-> Window] # None /\ ~Expired([count |-> 1, left |-> Window])
  BY <1>3, Parameters DEF Expired
<1> QED BY <1>1, <1>2, <1>4, Parameters DEF Counts

\* A window that is open lets one more through.
LEMMA ContinuedCounts ==
    ASSUME NEW p, Through(p), NEW e \in Entry, Counts(e, p), e # None, ~Expired(e),
           NEW f \in Entry, f # None, f.count = e.count + 1, f.left = e.left
    PROVE  Counts(f, OneMore(p))
<1> DEFINE w == Window - e.left
<1>1. e.left \in 0..Window /\ e.count \in 1..Limit /\ w \in 0..Window
  BY Parameters DEF Entry, Expired
<1>2. p[w] = e.count /\ (w > 0 => p[w - 1] <= e.count - 1) /\ p[Window] <= e.count + Limit - 1
  BY DEF Counts
<1>3. /\ OneMore(p)[w] = p[w] + 1
      /\ w > 0 => OneMore(p)[w - 1] = p[w - 1] + 1 /\ p[w - 1] \in Nat
      /\ OneMore(p)[Window] = p[Window] + 1 /\ p[Window] \in Nat
  <2>1. w > 0 => w - 1 \in 0..Window
    BY <1>1, Parameters
  <2>2. Window \in 0..Window
    BY Parameters
  <2> HIDE DEF w
  <2> QED BY <1>1, <2>1, <2>2 DEF OneMore, Through
<1>4. ~Expired(f) /\ Window - f.left = w
  BY DEF Expired
<1> HIDE DEF w
<1>5. /\ OneMore(p)[w] = f.count
      /\ w > 0 => OneMore(p)[w - 1] <= f.count - 1
      /\ OneMore(p)[Window] <= f.count + Limit - 1
  BY <1>1, <1>2, <1>3, Parameters
<1> QED BY <1>4, <1>5 DEF Counts

\* Time passes.
LEMMA OlderCounts ==
    ASSUME NEW p, Through(p), Cumulative(p), NEW e \in Entry, Counts(e, p), e # None,
           Older(e) # None
    PROVE  Counts(Older(e), TickAfter(p))
<1>1. e.left \in -Window..Window /\ e.count \in 1..Limit
  BY DEF Entry
<1>2. Older(e).count = e.count /\ Older(e).left = IF e.left > -Window THEN e.left - 1 ELSE e.left
  BY DEF Older, Entry
<1>3. /\ TickAfter(p)[0] = 0 /\ TickAfter(p)[Window] = p[Window - 1]
      /\ \A a \in 0..Window - 1 : TickAfter(p)[a + 1] = p[a]
      /\ p[Window - 1] <= p[Window] /\ p[Window] \in Nat /\ p[Window - 1] \in Nat
  BY Parameters DEF TickAfter, Through, Cumulative
<1>4. CASE e.left > 0
  <2> DEFINE w == Window - e.left
  <2>1. w \in 0..Window - 1
    BY <1>1, <1>4, Parameters
  <2>2. p[w] = e.count /\ (w > 0 => p[w - 1] <= e.count - 1) /\ p[Window] <= e.count + Limit - 1
    BY <1>1, <1>4 DEF Counts, Expired
  <2>3. Older(e).left = e.left - 1 /\ ~Expired(Older(e)) /\ Window - Older(e).left = w + 1
    BY <1>1, <1>2, <1>4, Parameters DEF Expired
  <2>4. TickAfter(p)[w + 1] = e.count
    BY <1>3, <2>1, <2>2
  <2>5. TickAfter(p)[w] <= e.count - 1
    <3>1. CASE w = 0
      BY <1>1, <1>3, <3>1, Parameters
    <3>2. CASE w > 0
      <4>1. w - 1 \in 0..Window - 1 /\ (w - 1) + 1 = w
        BY <2>1, <3>2, Parameters
      <4>2. TickAfter(p)[w] = p[w - 1]
        BY <1>3, <4>1
      <4> QED BY <2>2, <3>2, <4>2
    <3> QED BY <2>1, <3>1, <3>2
  <2>6. TickAfter(p)[Window] <= e.count + Limit - 1
    BY <1>1, <1>3, <2>2, Parameters
  <2>7. (w + 1) - 1 = w /\ w + 1 > 0
    BY <2>1, Parameters
  <2> HIDE DEF w
  <2> QED BY <1>2, <2>3, <2>4, <2>5, <2>6, <2>7 DEF Counts
<1>5. CASE e.left = 0
  <2>1. p[Window - 1] <= e.count - 1
    <3>1. Window - e.left = Window /\ Window > 0
      BY <1>5, Parameters
    <3> QED BY <1>5, <3>1 DEF Counts, Expired
  <2>2. Expired(Older(e))
    BY <1>2, <1>5, Parameters DEF Expired
  <2> QED BY <1>1, <1>3, <2>1, <2>2, Parameters DEF Counts
<1>6. CASE e.left < 0
  <2>1. p[Window] <= Limit - 1
    BY <1>6 DEF Counts, Expired
  <2>2. Expired(Older(e))
    BY <1>1, <1>2, <1>6, Parameters DEF Expired
  <2> QED BY <1>3, <2>1, <2>2, Parameters DEF Counts
<1> QED BY <1>1, <1>4, <1>5, <1>6, Parameters

LEMMA CumulativeStays ==
    ASSUME NEW p, Through(p), Cumulative(p)
    PROVE  Cumulative(OneMore(p)) /\ Cumulative(TickAfter(p))
<1>1. ASSUME NEW a \in 0..Window, NEW b \in 0..Window, a <= b
      PROVE  OneMore(p)[a] <= OneMore(p)[b]
  BY <1>1 DEF OneMore, Through, Cumulative
<1>2. ASSUME NEW a \in 0..Window, NEW b \in 0..Window, a <= b
      PROVE  TickAfter(p)[a] <= TickAfter(p)[b]
  <2>1. CASE a = 0
    <3>1. TickAfter(p)[a] = 0 /\ TickAfter(p)[b] \in Nat
      BY <1>2, <2>1, Parameters DEF TickAfter, Through
    <3> QED BY <3>1
  <2>2. CASE a # 0
    <3>1. a - 1 \in 0..Window /\ b - 1 \in 0..Window /\ a - 1 <= b - 1 /\ b # 0
      BY <1>2, <2>2, Parameters
    <3>2. TickAfter(p)[a] = p[a - 1] /\ TickAfter(p)[b] = p[b - 1]
      BY <2>2, <3>1 DEF TickAfter
    <3> QED BY <3>1, <3>2 DEF Cumulative
  <2> QED BY <2>1, <2>2
<1> QED BY <1>1, <1>2 DEF Cumulative

\* An entry that is pruned counts nothing any more.
LEMMA PrunedCounts ==
    ASSUME IInv, NEW k \in Keys, NEW p, Counts(entries[k], p)
    PROVE  Counts(Pruned(entries)[k], p)
<1>1. CASE Pruned(entries)[k] = entries[k]
  BY <1>1
<1>2. CASE Pruned(entries)[k] # entries[k]
  <2>1. Expired(entries[k]) /\ Pruned(entries)[k] = None
    BY <1>2 DEF Pruned, IInv, TypeOK
  <2> QED BY <2>1 DEF Counts
<1> QED BY <1>1, <1>2

LEMMA AllowCounts ==
    ASSUME CountInv, NEW c \in Conns, NEW k \in Keys, Allow(c, k), NEW j \in Keys
    PROVE  Cumulative(passed'[j]) /\ Counts(entries'[j], passed'[j])
<1> DEFINE m == Pruned(entries)
<1>1. m \in [Keys -> Entry \cup {None}] /\ Counts(m[j], passed[j]) /\ Cumulative(passed[j])
  BY PrunedFits, PrunedCounts DEF CountInv, IInv
<1>2. Through(passed[j])
  BY DEF CountInv, IInv, TypeOK, Through
<1>3. CASE j # k
  <2>1. passed'[j] = passed[j]
    BY <1>3 DEF Allow, CountInv, IInv, TypeOK
  <2>2. entries'[j] = m[j]
    BY <1>1, <1>3 DEF Allow
  <2> QED BY <1>1, <2>1, <2>2
<1>4. CASE j = k
  <2>1. passed'[j] = OneMore(passed[j])
    BY <1>4 DEF Allow, OneMore, CountInv, IInv, TypeOK
  <2>2. CASE Starts(m, k) /\ entries' = [m EXCEPT ![k] = [count |-> 1, left |-> Window]]
    <3>1. entries'[j] = [count |-> 1, left |-> Window]
      BY <1>1, <1>4, <2>2
    <3>2. m[j] = None \/ Expired(m[j])
      BY <1>4, <2>2 DEF Starts
    <3>3. Counts([count |-> 1, left |-> Window], OneMore(passed[j]))
      BY <1>1, <1>2, <3>2, OpenedCounts
    <3> QED BY <1>1, <1>2, <2>1, <3>1, <3>3, CumulativeStays
  <2>3. CASE Continues(m, k) /\ entries' = [m EXCEPT ![k].count = @ + 1]
    <3>1. PICK e : e = m[j]
      OBVIOUS
    <3>2. e \in Entry /\ e # None /\ ~Expired(e) /\ e.count < Limit
      BY <1>1, <1>4, <2>3, <3>1 DEF Continues
    <3>3. PICK f : f = [e EXCEPT !.count = @ + 1]
      OBVIOUS
    <3>4. f \in Entry /\ f.count = e.count + 1 /\ f.left = e.left /\ f # None
      BY <3>2, <3>3, Parameters DEF Entry
    <3>5. entries'[j] = f
      BY <1>1, <1>4, <2>3, <3>1, <3>3
    <3>6. Counts(f, OneMore(passed[j]))
      BY <1>1, <1>2, <3>1, <3>2, <3>4, ContinuedCounts
    <3> QED BY <1>1, <1>2, <2>1, <3>5, <3>6, CumulativeStays
  <2> QED BY <2>2, <2>3 DEF Allow
<1> QED BY <1>3, <1>4

LEMMA TickCounts ==
    ASSUME CountInv, Tick, NEW j \in Keys
    PROVE  Cumulative(passed'[j]) /\ Counts(entries'[j], passed'[j])
<1>1. passed'[j] = TickAfter(passed[j])
  BY DEF Tick, TickAfter
<1>2. Through(passed[j]) /\ Cumulative(passed[j]) /\ Counts(entries[j], passed[j])
  BY DEF CountInv, IInv, TypeOK, Through
<1>3. CASE entries[j] = None
  <2>1. entries'[j] = None
    BY <1>3 DEF Tick
  <2>2. passed[j][Window] <= Limit - 1
    BY <1>2, <1>3 DEF Counts
  <2>3. TickAfter(passed[j])[0] = 0 /\ TickAfter(passed[j])[Window] = passed[j][Window - 1]
    BY Parameters DEF TickAfter
  <2>4. /\ passed[j][Window - 1] <= passed[j][Window]
        /\ passed[j][Window] \in Nat /\ passed[j][Window - 1] \in Nat
    BY <1>2, Parameters DEF Through, Cumulative
  <2>5. Counts(None, TickAfter(passed[j]))
    BY <2>2, <2>3, <2>4, Parameters DEF Counts
  <2> QED BY <1>1, <1>2, <2>1, <2>5, CumulativeStays
<1>4. CASE entries[j] # None
  <2>1. PICK e \in Entry : e = entries[j]
    BY <1>4 DEF CountInv, IInv, TypeOK
  <2>2. entries'[j] = Older(e)
    BY <1>4, <2>1 DEF Tick
  <2>3. Older(e) \in Entry
    BY Parameters DEF Older, Entry
  <2>4. Counts(Older(e), TickAfter(passed[j]))
    BY <1>2, <1>4, <2>1, <2>3, OlderCounts, Parameters
  <2> QED BY <1>1, <1>2, <2>2, <2>4, CumulativeStays
<1> QED BY <1>3, <1>4

LEMMA NextCounts ==
    ASSUME CountInv, [Next]_vars
    PROVE  CountInv'
<1>1. IInv'
  BY NextFits DEF CountInv
<1>2. ASSUME NEW j \in Keys
      PROVE  Cumulative(passed'[j]) /\ Counts(entries'[j], passed'[j])
  <2>1. CASE UNCHANGED <<entries, passed>>
    BY <2>1 DEF CountInv
  <2>2. ASSUME NEW k \in Keys, Refuse(k)
        PROVE  Cumulative(passed'[j]) /\ Counts(entries'[j], passed'[j])
    BY <2>2, PrunedCounts DEF CountInv, Refuse, Refused
  <2> QED BY <2>1, <2>2, AllowCounts, TickCounts
          DEF Next, vars, IsLocked, RecordFailure, RecordSuccess, GiveUp
<1> QED BY <1>1, <1>2 DEF CountInv

LEMMA InitCounts ==
    ASSUME Init
    PROVE  CountInv
<1>1. ASSUME NEW k \in Keys
      PROVE  Cumulative(passed[k]) /\ Counts(entries[k], passed[k])
  <2>1. entries[k] = None /\ \A a \in 0..Window : passed[k][a] = 0
    BY DEF Init
  <2> QED BY <2>1, Parameters DEF Counts, Cumulative
<1> QED BY <1>1, InitFits DEF CountInv

\* In the time of a window, wherever it is laid, a client gets less than twice its
\* limit through the limiter, whatever is pruned and refused meanwhile.
THEOREM WindowsAreBounded == Spec => []WindowBound
<1>1. CountInv => WindowBound
  <2> SUFFICES ASSUME CountInv, NEW k \in Keys
               PROVE  passed[k][Window] <= 2 * Limit - 1
    BY DEF WindowBound
  <2>1. passed[k][Window] \in Nat /\ entries[k] \in Entry \cup {None}
    BY Parameters DEF CountInv, IInv, TypeOK
  <2>2. CASE entries[k] # None /\ ~Expired(entries[k])
    <3>1. passed[k][Window] <= entries[k].count + Limit - 1 /\ entries[k].count \in 1..Limit
      BY <2>1, <2>2 DEF CountInv, Counts, Entry
    <3> QED BY <2>1, <3>1, Parameters
  <2>3. CASE ~(entries[k] # None /\ ~Expired(entries[k]))
    <3>1. passed[k][Window] <= Limit - 1
      BY <2>3 DEF CountInv, Counts
    <3> QED BY <2>1, <3>1, Parameters
  <2> QED BY <2>2, <2>3
<1> QED BY <1>1, InitCounts, NextCounts, PTL DEF Spec
=============================================================================
