---------------------------- MODULE MigrateProofs ----------------------------
(***************************************************************************)
(* Proofs about Migrate, for every set of processes, every number of       *)
(* scripts and every choice of the scripts that cannot run twice.          *)
(***************************************************************************)
EXTENDS Migrate, TLAPS

-----------------------------------------------------------------------------
(* The loop over the versions *)

\* A process that has all versions up to v behind it is in order at the next one,
\* or has succeeded.
LEMMA AfterVersionFits ==
    ASSUME MigrateAssumption, TypeOK,
           NEW p \in Procs, NEW v \in 0..Last[p],
           1..v \subseteq applied',
           procs' = [procs EXCEPT ![p] = AfterVersion(p, v)]
    PROVE  /\ procs' \in [Procs -> [at: States, v: Nat]]
           /\ Passed(p)'
<1>1. Last[p] \in Nat
  BY DEF MigrateAssumption
<1>2. procs'[p] = AfterVersion(p, v)
  BY DEF TypeOK
<1>3. CASE v < Last[p]
  <2>1. procs'[p].at = "check" /\ procs'[p].v = v + 1
    BY <1>2, <1>3 DEF AfterVersion
  <2>2. v + 1 \in 1..Last[p] /\ 1..((v + 1) - 1) \subseteq applied'
    BY <1>1, <1>3
  <2>3. Passed(p)'
    BY <2>1, <2>2 DEF Passed, At
  <2>4. AfterVersion(p, v) \in [at: States, v: Nat]
    BY <1>1, <1>3 DEF AfterVersion, States
  <2> QED BY <2>3, <2>4 DEF TypeOK
<1>4. CASE ~(v < Last[p])
  <2>1. procs'[p].at = "ok"
    BY <1>2, <1>4 DEF AfterVersion
  <2>2. 1..Last[p] \subseteq applied'
    BY <1>1, <1>4
  <2>3. Passed(p)'
    BY <2>1, <2>2 DEF Passed, At
  <2>4. AfterVersion(p, v) \in [at: States, v: Nat]
    BY <1>1, <1>4 DEF AfterVersion, States
  <2> QED BY <2>3, <2>4 DEF TypeOK
<1> QED BY <1>3, <1>4

\* What is behind a process stays behind it while others add versions.
LEMMA PassedStays ==
    ASSUME NEW q \in Procs, Passed(q), applied \subseteq applied', procs'[q] = procs[q]
    PROVE  Passed(q)'
BY DEF Passed, At

\* A transaction keeps the versions in order.
LEMMA CommitFits ==
    ASSUME MigrateAssumption, IInv, NEW p \in Procs, At(p, "apply"), Commit(procs[p].v)
    PROVE  /\ applied' \subseteq Versions /\ schema' \subseteq Versions
           /\ InOrder'
           /\ applied \subseteq applied'
           /\ procs[p].v \in 1..Last[p]
           /\ 1..(procs[p].v) \subseteq applied'
<1> DEFINE v == procs[p].v
<1>1. v \in 1..Last[p] /\ 1..(v - 1) \subseteq applied
  BY DEF IInv, Passed, At
<1>2. Last[p] \in Nat
  BY DEF MigrateAssumption
<1>3. v \in Versions
  BY <1>1 DEF Versions
<1>4. applied' = applied \cup {v} /\ schema' = schema \cup {v}
  BY DEF Commit
<1>5. 1..v \subseteq applied'
  BY <1>1, <1>2, <1>4
<1>6. \A w \in applied' : 1..w \subseteq applied'
  BY <1>4, <1>5 DEF IInv, InOrder
<1> QED BY <1>1, <1>3, <1>4, <1>5, <1>6 DEF IInv, TypeOK, InOrder

\* A process changes its place, and nothing else changes.
LEMMA MoveFits ==
    ASSUME MigrateAssumption, IInv, NEW p \in Procs, NEW l \in States, Go(p, l),
           UNCHANGED <<applied, schema>>, faults' \in 0..MaxFaults,
           l \in {"check", "apply"} => procs[p].at \in {"check", "apply"},
           l = "stuck" => procs[p].v \in applied,
           l # "ok"
    PROVE  IInv'
<1>1. procs' \in [Procs -> [at: States, v: Nat]]
  BY DEF IInv, TypeOK, Go
<1>2. procs'[p].at = l /\ procs'[p].v = procs[p].v
  BY DEF IInv, TypeOK, Go
<1>3. Passed(p)'
  BY <1>2 DEF IInv, Passed, At
<1>4. \A q \in Procs \ {p} : procs'[q] = procs[q]
  BY DEF IInv, TypeOK, Go
<1>5. \A q \in Procs : Passed(q)'
  BY <1>3, <1>4, PassedStays DEF IInv
<1> QED BY <1>1, <1>5 DEF IInv, TypeOK, InOrder

\* A process goes past version v, which is applied.
LEMMA AdvanceFits ==
    ASSUME MigrateAssumption, IInv, NEW p \in Procs, NEW v \in 0..Last[p],
           procs' = [procs EXCEPT ![p] = AfterVersion(p, v)],
           applied' \subseteq Versions, schema' \subseteq Versions, faults' = faults,
           InOrder', applied \subseteq applied', 1..v \subseteq applied'
    PROVE  IInv'
<1>1. procs' \in [Procs -> [at: States, v: Nat]] /\ Passed(p)'
  BY AfterVersionFits DEF IInv
<1>2. \A q \in Procs \ {p} : procs'[q] = procs[q]
  BY DEF IInv, TypeOK
<1>3. \A q \in Procs : Passed(q)'
  BY <1>1, <1>2, PassedStays DEF IInv
<1> QED BY <1>1, <1>3 DEF IInv, TypeOK

-----------------------------------------------------------------------------
(* The invariant *)

LEMMA InitFits ==
    ASSUME MigrateAssumption, Init
    PROVE  IInv
BY DEF MigrateAssumption, Init, IInv, TypeOK, InOrder, Passed, At, States

LEMMA NextFits ==
    ASSUME MigrateAssumption, IInv, [Next]_vars
    PROVE  IInv'
<1>1. ASSUME NEW p \in Procs, Start(p)
      PROVE  IInv'
  <2>1. 0 \in 0..Last[p] /\ 1..0 \subseteq applied'
    BY DEF MigrateAssumption
  <2> QED BY <1>1, <2>1, AdvanceFits DEF Start, IInv, TypeOK, InOrder
<1>2. ASSUME NEW p \in Procs, Check(p)
      PROVE  IInv'
  <2>1. CASE IsApplied(procs[p].v)
    <3>1. procs[p].v \in 0..Last[p] /\ 1..(procs[p].v) \subseteq applied
      BY <1>2, <2>1 DEF MigrateAssumption, IInv, Check, At, Passed, IsApplied, InOrder
    <3> QED BY <1>2, <2>1, <3>1, AdvanceFits DEF Check, GoOn, IInv, TypeOK, InOrder
  <2>2. CASE ~IsApplied(procs[p].v)
    BY <1>2, <2>2, MoveFits DEF Check, At, States, IInv, TypeOK
  <2> QED BY <2>1, <2>2
<1>3. ASSUME NEW p \in Procs, Apply(p)
      PROVE  IInv'
  <2>1. procs[p].v \in 0..Last[p]
    BY <1>3, CommitFits DEF Apply, MigrateAssumption
  <2> QED BY <1>3, <2>1, CommitFits, AdvanceFits DEF Apply, GoOn
<1>4. ASSUME NEW p \in Procs, ScriptFails(p)
      PROVE  IInv'
  <2>1. procs[p].v \in applied
    BY <1>4 DEF ScriptFails, Runs, IInv, InOrder
  <2> QED BY <1>4, <2>1, MoveFits DEF ScriptFails, At, States, IInv, TypeOK
<1>5. ASSUME NEW p \in Procs, ApplyUnanswered(p)
      PROVE  IInv'
  <2>1. /\ applied' \subseteq Versions /\ schema' \subseteq Versions
        /\ InOrder' /\ applied \subseteq applied'
    BY <1>5, CommitFits DEF ApplyUnanswered
  <2>2. faults' \in 0..MaxFaults
    BY <1>5 DEF ApplyUnanswered, MayFail, IInv, TypeOK, MigrateAssumption
  <2>3. procs' \in [Procs -> [at: States, v: Nat]]
    BY <1>5 DEF ApplyUnanswered, Go, IInv, TypeOK, States
  <2>4. ASSUME NEW q \in Procs
        PROVE  Passed(q)'
    <3>1. CASE procs'[q] = procs[q]
      BY <2>1, <3>1, PassedStays DEF IInv
    <3>2. CASE procs'[q].at = "failed"
      BY <3>2 DEF Passed, At
    <3> QED BY <1>5, <3>1, <3>2 DEF ApplyUnanswered, Go, IInv, TypeOK
  <2> QED BY <2>1, <2>2, <2>3, <2>4 DEF IInv, TypeOK
<1>6. ASSUME NEW p \in Procs, ApplyFails(p)
      PROVE  IInv'
  <2>1. faults' \in 0..MaxFaults
    BY <1>6 DEF ApplyFails, MayFail, IInv, TypeOK, MigrateAssumption
  <2>2. CASE UNCHANGED procs
    BY <1>6, <2>1, <2>2 DEF ApplyFails, RollBack, IInv, TypeOK, InOrder, Passed, At
  <2>3. CASE Go(p, "failed")
    BY <1>6, <2>1, <2>3, MoveFits DEF ApplyFails, RollBack, States
  <2> QED BY <1>6, <2>2, <2>3 DEF ApplyFails
<1>7. ASSUME NEW p \in Procs, Die(p)
      PROVE  IInv'
  <2>1. faults' \in 0..MaxFaults
    BY <1>7 DEF Die, MayFail, IInv, TypeOK, MigrateAssumption
  <2> QED BY <1>7, <2>1, MoveFits DEF Die, States
<1>8. CASE UNCHANGED vars
  BY <1>8 DEF vars, IInv, TypeOK, InOrder, Passed, At
<1> QED BY <1>1, <1>2, <1>3, <1>4, <1>5, <1>6, <1>7, <1>8 DEF Next, Work

\* Every state is well typed, in order, and fits what each process has gone past.
THEOREM Inductive == Spec => []IInv
BY InitFits, NextFits, MigrateAssumption, PTL DEF Spec

\* The table and the processes are well typed.
THEOREM TypeCorrect == Spec => []TypeOK
<1>1. IInv => TypeOK
  BY DEF IInv
<1> QED BY <1>1, Inductive, PTL

\* Versions take effect in the order of their files and none is left out, however
\* many processes run the scripts at once.
THEOREM AlwaysInOrder == Spec => []InOrder
<1>1. IInv => InOrder
  BY DEF IInv
<1> QED BY <1>1, Inductive, PTL

\* A process that reports success finds all of its versions applied, then and for
\* ever after.
THEOREM SuccessIsComplete == Spec => []SuccessMeansAll
<1>1. IInv => SuccessMeansAll
  BY DEF IInv, Passed, SuccessMeansAll
<1> QED BY <1>1, Inductive, PTL

\* A script fails only for a version that is applied already, so that the next
\* start goes past it.
THEOREM NeverStuckForGood == Spec => []StuckOnlyIfApplied
<1>1. IInv => StuckOnlyIfApplied
  BY DEF IInv, Passed, StuckOnlyIfApplied
<1> QED BY <1>1, Inductive, PTL
=============================================================================
