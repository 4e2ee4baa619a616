---------------------------- MODULE PostsProofs ----------------------------
(***************************************************************************)
(* Proofs about Posts, for every set of posts, users, slugs and requests,  *)
(* every length of a second and every bound on the clock.                  *)
(***************************************************************************)
EXTENDS Posts, TLAPS

LEMMA Parameters ==
    /\ PerSecond \in Nat \ {0} /\ MaxTick \in Nat /\ Retention \in Nat
    /\ None \notin Nat \cup PostIds \cup Slugs \cup Post \cup Snapshot \cup Editor
BY PostsAssumption DEF PostsAssumption

-----------------------------------------------------------------------------
(* Ticks and seconds *)

\* A second begins at a multiple of PerSecond.
LEMMA SecondBounds ==
    ASSUME NEW t \in Nat
    PROVE  /\ Second(t) \in Nat
           /\ Second(t) * PerSecond <= t
           /\ t < (Second(t) + 1) * PerSecond
BY Parameters DEF Second

\* Products keep the order of their first factors.
LEMMA TimesGrows ==
    ASSUME NEW m \in Nat, NEW n \in Nat, m <= n
    PROVE  m * PerSecond <= n * PerSecond
BY Parameters

\* A later tick is in no earlier second.
LEMMA SecondGrows ==
    ASSUME NEW s \in Nat, NEW t \in Nat, s <= t
    PROVE  Second(s) <= Second(t)
<1> SUFFICES ASSUME Second(t) + 1 <= Second(s)
             PROVE  FALSE
  BY SecondBounds
<1>1. (Second(t) + 1) * PerSecond <= Second(s) * PerSecond
  BY TimesGrows, SecondBounds
<1>2. t < (Second(t) + 1) * PerSecond /\ Second(s) * PerSecond <= s
  BY SecondBounds
<1>3. (Second(t) + 1) * PerSecond \in Int /\ Second(s) * PerSecond \in Int
  BY SecondBounds, Parameters
<1> QED BY <1>1, <1>2, <1>3

\* Ticks after the beginning of the current second are in it.
LEMMA SameSecond ==
    ASSUME NEW s \in Nat, NEW t \in Nat, s <= t, s > Second(t) * PerSecond
    PROVE  Second(s) = Second(t)
<1>1. Second(s) <= Second(t)
  BY SecondGrows
<1> SUFFICES ASSUME Second(s) + 1 <= Second(t)
             PROVE  FALSE
  BY <1>1, SecondBounds
<1>2. (Second(s) + 1) * PerSecond <= Second(t) * PerSecond
  BY TimesGrows, SecondBounds
<1>3. s < (Second(s) + 1) * PerSecond
  BY SecondBounds
<1>4. (Second(s) + 1) * PerSecond \in Int /\ Second(t) * PerSecond \in Int
  BY SecondBounds, Parameters
<1> QED BY <1>2, <1>3, <1>4

\* The stamps of the tables are of the right type, and never None.
LEMMA TicksFit ==
    ASSUME NEW t \in Ticks
    PROVE  t \in Nat /\ Second(t) \in Seconds /\ Second(t) # None
<1>1. t \in Nat /\ t <= MaxTick
  BY Parameters DEF Ticks
<1>2. Second(t) <= Second(MaxTick) /\ Second(t) \in Nat /\ Second(MaxTick) \in Nat
  BY <1>1, SecondGrows, SecondBounds, Parameters
<1> QED BY <1>1, <1>2, Parameters DEF Seconds

-----------------------------------------------------------------------------
(* Rows *)

\* An inserted row is well typed, not deleted, and dated if it is published.
LEMMA InsertedFits ==
    ASSUME TypeOK, NEW r, Fits(r), r.op = "create"
    PROVE  /\ Inserted(r) \in Post
           /\ Inserted(r).deletedAt = None
           /\ Inserted(r).updated = Second(clock)
           /\ Inserted(r).status = "published" => Inserted(r).dated
<1>1. Second(clock) \in Seconds
  BY TicksFit DEF TypeOK
<1> QED BY <1>1 DEF Fits, Request, Inserted, Post

\* The operations that write a row that is there.
Edits == {"edit", "quick", "publish", "unpublish", "delete"}

\* A written row is well typed and of the same author; it is not deleted but by
\* a deletion, never undeleted, and loses its date only when it is not published
\* or by a quick edit of a row without one.
LEMMA ResultFits ==
    ASSUME TypeOK, NEW r, Fits(r), r.op \in Edits, NEW row \in Post
    PROVE  /\ Result(row, r) \in Post
           /\ Result(row, r).author = row.author
           /\ Result(row, r).updated = Second(clock)
           /\ Result(row, r).deletedAt \in {row.deletedAt, Second(clock)}
           /\ Result(row, r).status = "published" /\ ~Result(row, r).dated
              => r.op = "quick" /\ r.status = "published" /\ ~row.dated
<1>1. Second(clock) \in Seconds
  BY TicksFit DEF TypeOK
<1>2. CASE r.op \in {"edit", "quick"}
  <2>1. Result(row, r) = Updated(row, r)
    BY <1>2 DEF Result
  <2>2. r.slug \in Slugs /\ r.status \in Status
    BY <1>2 DEF Fits, Request
  <2> QED BY <1>1, <1>2, <2>1, <2>2 DEF Updated, Written, Post
<1>3. CASE r.op \in {"publish", "unpublish"}
  <2>1. Result(row, r) = StatusSet(row, r)
    BY <1>3 DEF Result
  <2>2. r.status \in Status /\ (r.status = "published" => r.op = "publish")
    BY <1>3 DEF Fits, Status, FormStatus
  <2> QED BY <1>1, <1>3, <2>1, <2>2 DEF StatusSet, Written, Post
<1>4. CASE r.op = "delete"
  <2>1. Result(row, r) = SoftDeleted(row)
    BY <1>4 DEF Result
  <2> QED BY <1>1, <2>1 DEF SoftDeleted, Written, Post, Status
<1> QED BY <1>2, <1>3, <1>4 DEF Edits

-----------------------------------------------------------------------------
(* Statements *)

\* A table with one value replaced.
LEMMA NestedFits ==
    ASSUME NEW S, NEW T, NEW V, NEW f \in [S -> [T -> V]],
           NEW x \in S, NEW y \in T, NEW v \in V
    PROVE  /\ [f EXCEPT ![x][y] = v] \in [S -> [T -> V]]
           /\ \A a \in S : \A b \in T :
                 [f EXCEPT ![x][y] = v][a][b] = IF a = x /\ b = y THEN v ELSE f[a][b]
<1>1. [f EXCEPT ![x][y] = v] = [f EXCEPT ![x] = [f[x] EXCEPT ![y] = v]]
  OBVIOUS
<1>2. f[x] \in [T -> V] /\ [f[x] EXCEPT ![y] = v] \in [T -> V]
  OBVIOUS
<1> QED BY <1>1, <1>2

\* What a statement does to the posts: an INSERT adds a row, and every other row
\* that changes is the one named by a statement that matched it.
LEMMA PostsApplied ==
    ASSUME IInv, NEW r, Fits(r), Apply(r)
    PROVE  \/ posts' = posts
           \/ /\ r.op = "create" /\ ~Exists(r.post) /\ snaps' = snaps
              /\ posts' = [posts EXCEPT ![r.post] = Inserted(r)]
           \/ /\ r.op \in Edits /\ Matches(r) /\ snaps' = snaps
              /\ posts' = [posts EXCEPT ![r.post] = Result(posts[r.post], r)]
BY DEF Apply, Fits, Request, Ops, Edits

\* What a statement does to the snapshots: an autosave that matches writes one, a
\* dismissal removes one.
LEMMA SnapsApplied ==
    ASSUME IInv, NEW r, Fits(r), Apply(r)
    PROVE  \/ snaps' = snaps
           \/ /\ r.op = "autosave" /\ Matches(r) /\ posts' = posts
              /\ snaps' = [snaps EXCEPT ![r.post][r.user] = [base |-> r.base, at |-> clock]]
           \/ /\ r.op = "dismiss" /\ posts' = posts
              /\ snaps' = [snaps EXCEPT ![r.post][r.user] = None]
<1>1. CASE r.op = "autosave"
  BY <1>1 DEF Apply
<1>2. CASE r.op = "dismiss"
  BY <1>2 DEF Apply
<1>3. CASE r.op \notin {"autosave", "dismiss"}
  BY <1>3 DEF Apply
<1> QED BY <1>1, <1>2, <1>3

\* A statement keeps the tables well typed.
LEMMA AppliedFits ==
    ASSUME IInv, NEW r, Fits(r), Apply(r)
    PROVE  /\ posts' \in [PostIds -> Post \cup {None}]
           /\ snaps' \in [PostIds -> [Users -> Snapshot \cup {None}]]
<1>1. /\ r.post \in PostIds /\ r.user \in Users /\ TypeOK
      /\ posts \in [PostIds -> Post \cup {None}]
      /\ snaps \in [PostIds -> [Users -> Snapshot \cup {None}]]
  BY DEF Fits, Request, IInv, TypeOK
<1>2. r.op = "create" => Inserted(r) \in Post
  BY <1>1, InsertedFits
<1>3. r.op \in Edits /\ Matches(r) => Result(posts[r.post], r) \in Post
  BY <1>1, ResultFits DEF Matches, Exists
<1>4. r.op = "autosave" => [base |-> r.base, at |-> clock] \in Snapshot
  BY <1>1 DEF TypeOK, Fits, Request, Snapshot
<1>5. posts' \in [PostIds -> Post \cup {None}]
  BY <1>1, <1>2, <1>3, PostsApplied
<1>6. snaps' \in [PostIds -> [Users -> Snapshot \cup {None}]]
  <2>1. CASE snaps' = snaps
    BY <1>1, <2>1
  <2>2. ASSUME NEW v \in Snapshot \cup {None}, snaps' = [snaps EXCEPT ![r.post][r.user] = v]
        PROVE  snaps' \in [PostIds -> [Users -> Snapshot \cup {None}]]
    BY <1>1, <2>2, NestedFits
  <2> QED BY <1>4, <2>1, <2>2, SnapsApplied
<1> QED BY <1>5, <1>6

\* What a statement does to one row.
LEMMA RowApplied ==
    ASSUME IInv, NEW r, Fits(r), Apply(r), NEW i \in PostIds
    PROVE  \/ posts'[i] = posts[i]
           \/ /\ i = r.post /\ r.op = "create" /\ posts[i] = None
              /\ posts'[i] = Inserted(r)
           \/ /\ i = r.post /\ r.op \in Edits /\ Matches(r)
              /\ posts[i] \in Post /\ posts'[i] = Result(posts[i], r)
<1>1. posts \in [PostIds -> Post \cup {None}]
  BY DEF IInv, TypeOK
<1> QED BY <1>1, PostsApplied DEF Exists, Matches

\* What a statement does to one snapshot.
LEMMA SnapApplied ==
    ASSUME IInv, NEW r, Fits(r), Apply(r), NEW i \in PostIds, NEW u \in Users
    PROVE  \/ snaps'[i][u] = snaps[i][u]
           \/ snaps'[i][u] = None
           \/ /\ i = r.post /\ u = r.user /\ r.op = "autosave" /\ Matches(r)
              /\ posts' = posts
              /\ snaps'[i][u] = [base |-> r.base, at |-> clock]
<1>1. /\ snaps \in [PostIds -> [Users -> Snapshot \cup {None}]] /\ clock \in Ticks
      /\ r.post \in PostIds /\ r.user \in Users
  BY DEF IInv, TypeOK, Fits, Request
<1>2. r.op = "autosave" => [base |-> r.base, at |-> clock] \in Snapshot
  BY <1>1 DEF Fits, Request, Snapshot
<1>3. ASSUME NEW v \in Snapshot \cup {None}, snaps' = [snaps EXCEPT ![r.post][r.user] = v]
      PROVE  snaps'[i][u] = IF i = r.post /\ u = r.user THEN v ELSE snaps[i][u]
  BY <1>1, <1>3, NestedFits
<1> QED BY <1>2, <1>3, SnapsApplied

\* A statement keeps what the invariant says of one post and one user.
LEMMA PairApplied ==
    ASSUME IInv, NEW r, Fits(r), Apply(r), clock' = clock,
           NEW i \in PostIds, NEW u \in Users
    PROVE  /\ Kept(i, u)'
           /\ Exists(i)' /\ Deleted(i)' /\ snaps'[i][u] # None =>
                  Second(snaps'[i][u].at) <= posts'[i].deletedAt
           /\ Offered(i, u)' =>
                  \/ snaps'[i][u].base = posts'[i].updated
                  \/ Second(snaps'[i][u].at) = posts'[i].updated
<1>1. /\ TypeOK /\ posts[i] \in Post \cup {None} /\ snaps[i][u] \in Snapshot \cup {None}
      /\ clock \in Nat /\ Second(clock) \in Nat
  BY TicksFit, SecondBounds DEF IInv, TypeOK
<1>2. CASE posts'[i] = posts[i] /\ snaps'[i][u] = snaps[i][u]
  BY <1>2 DEF IInv, Kept, NoSnapshotAfterDelete, NewerIsCurrent, Exists, Deleted, Offered
<1>3. CASE snaps'[i][u] = None
  BY <1>3 DEF Kept, Offered
<1>4. CASE /\ i = r.post /\ r.op = "autosave" /\ Matches(r) /\ posts' = posts
           /\ snaps'[i][u] = [base |-> r.base, at |-> clock]
  <2>1. Exists(i) /\ ~Deleted(i) /\ posts[i].updated = r.base
    BY <1>4 DEF Matches
  <2> QED BY <1>1, <1>4, <2>1 DEF Kept, Exists, Deleted, Offered
<1>5. CASE /\ snaps'[i][u] = snaps[i][u] /\ snaps[i][u] # None
           /\ i = r.post /\ r.op = "create" /\ posts[i] = None
  BY <1>5 DEF IInv, Kept, Exists
<1>6. CASE /\ snaps'[i][u] = snaps[i][u] /\ snaps[i][u] # None
           /\ i = r.post /\ r.op \in Edits /\ Matches(r)
           /\ posts[i] \in Post /\ posts'[i] = Result(posts[i], r)
  <2>1. snaps[i][u].at \in Nat /\ snaps[i][u].at <= clock
    BY <1>1, <1>6, TicksFit DEF IInv, Kept, Snapshot
  <2>2. Second(snaps[i][u].at) <= Second(clock)
    BY <1>1, <2>1, SecondGrows
  <2>3. /\ posts'[i] \in Post /\ posts'[i].updated = Second(clock)
        /\ posts'[i].deletedAt \in {posts[i].deletedAt, Second(clock)}
    BY <1>1, <1>6, ResultFits
  <2>4. Kept(i, u)'
    BY <1>6, <2>1, <2>3, Parameters DEF Kept, Exists
  <2>5. posts'[i].deletedAt # None => Second(snaps'[i][u].at) <= posts'[i].deletedAt
    BY <1>6, <2>2, <2>3 DEF IInv, NoSnapshotAfterDelete, Exists, Deleted, Matches
  <2>6. Offered(i, u)' => Second(snaps'[i][u].at) = posts'[i].updated
    BY <1>1, <1>6, <2>1, <2>3, SameSecond DEF Offered
  <2> QED BY <2>4, <2>5, <2>6 DEF Deleted
<1> QED BY <1>2, <1>3, <1>4, <1>5, <1>6, RowApplied, SnapApplied

-----------------------------------------------------------------------------
(* Steps *)

LEMMA InitFits == Init => IInv
<1> SUFFICES ASSUME Init PROVE IInv
  OBVIOUS
<1>1. 0 \in Ticks
  BY Parameters DEF Ticks
<1>2. requests \in [Conns -> Idle]
  BY DEF Init, Idle, Replies
<1>3. TypeOK
  BY <1>1, <1>2 DEF Init, TypeOK
<1>4. \A i \in PostIds : \A u \in Users : snaps[i][u] = None
  BY DEF Init
<1> QED BY <1>2, <1>3, <1>4
        DEF Init, Idle, IInv, Kept, NoSnapshotAfterDelete, NewerIsCurrent, Offered

\* A handler remembers a statement.
LEMMA BeginFits ==
    ASSUME IInv, NEW c \in Conns, NEW r, Fits(r), Begin(c, r)
    PROVE  IInv'
<1>1. TypeOK'
  BY DEF Begin, Fits, IInv, TypeOK
<1>2. \A d \in Conns : requests'[d] = IF d = c THEN r ELSE requests[d]
  BY DEF Begin, IInv, TypeOK
<1>3. \A d \in Conns : requests'[d].op # "idle" => Fits(requests'[d])
  BY <1>2 DEF IInv
<1> QED BY <1>1, <1>3
        DEF Begin, IInv, Kept, NoSnapshotAfterDelete, NewerIsCurrent, Offered, Exists, Deleted

\* The statements of the handlers are well formed.
LEMMA ServeBegins ==
    ASSUME IInv, NEW c \in Conns, NEW u \in Users,
           \/ Create(c, u) \/ Save(c, u) \/ QuickEdit(c, u) \/ SetStatus(c, u)
           \/ Delete(c, u) \/ Autosave(c, u) \/ Dismiss(c, u)
    PROVE  \E r : Fits(r) /\ Begin(c, r)
<1>1. \A i \in PostIds : posts[i] # None =>
          posts[i].status \in Status /\ posts[i].updated \in Seconds /\ posts[i].updated # None
  BY Parameters DEF IInv, TypeOK, Post, Seconds
<1>2. editor[u] # None => editor[u].post \in PostIds /\ editor[u].base \in Seconds
  BY DEF IInv, TypeOK, Editor
<1>3. \A s \in Slugs \cup Seconds : s # None
  BY Parameters DEF Seconds
<1>4. CASE Create(c, u)
  <2>1. PICK i \in PostIds, s \in Slugs, st \in FormStatus :
            Begin(c, [Request0(u, i, "create") EXCEPT !.slug = s, !.status = st])
    BY <1>4 DEF Create
  <2>2. Fits([Request0(u, i, "create") EXCEPT !.slug = s, !.status = st])
    BY <1>3 DEF Fits, Request0, Request, Ops, Status
  <2> QED BY <2>1, <2>2
<1>5. CASE Save(c, u)
  <2>1. PICK s \in Slugs, st \in FormStatus :
            /\ editor[u] # None
            /\ Begin(c, [Request0(u, editor[u].post, "edit") EXCEPT !.slug = s, !.status = st])
    BY <1>5 DEF Save
  <2>2. Fits([Request0(u, editor[u].post, "edit") EXCEPT !.slug = s, !.status = st])
    BY <1>2, <1>3, <2>1 DEF Fits, Request0, Request, Ops, Status
  <2> QED BY <2>1, <2>2
<1>6. CASE QuickEdit(c, u)
  <2>1. PICK i \in PostIds, s \in Slugs :
            /\ Exists(i)
            /\ Begin(c, [Request0(u, i, "quick") EXCEPT !.slug = s, !.status = posts[i].status])
    BY <1>6 DEF QuickEdit, Writable
  <2>2. Fits([Request0(u, i, "quick") EXCEPT !.slug = s, !.status = posts[i].status])
    BY <1>1, <1>3, <2>1 DEF Fits, Request0, Request, Ops, Exists
  <2> QED BY <2>1, <2>2
<1>7. CASE SetStatus(c, u)
  <2>1. PICK i \in PostIds :
            \/ Begin(c, [Request0(u, i, "publish") EXCEPT !.status = "published"])
            \/ Begin(c, [Request0(u, i, "unpublish") EXCEPT !.status = "draft"])
    BY <1>7 DEF SetStatus
  <2>2. /\ Fits([Request0(u, i, "publish") EXCEPT !.status = "published"])
        /\ Fits([Request0(u, i, "unpublish") EXCEPT !.status = "draft"])
    BY DEF Fits, Request0, Request, Ops, Status, FormStatus
  <2> QED BY <2>1, <2>2
<1>8. CASE Delete(c, u)
  <2>1. PICK i \in PostIds : Begin(c, Request0(u, i, "delete"))
    BY <1>8 DEF Delete
  <2>2. Fits(Request0(u, i, "delete"))
    BY DEF Fits, Request0, Request, Ops
  <2> QED BY <2>1, <2>2
<1>9. CASE Autosave(c, u)
  <2>1. Fits([Request0(u, editor[u].post, "autosave") EXCEPT !.base = editor[u].base])
    BY <1>2, <1>3, <1>9 DEF Autosave, Fits, Request0, Request, Ops
  <2> QED BY <1>9, <2>1 DEF Autosave
<1>10. CASE Dismiss(c, u)
  <2>1. PICK i \in PostIds :
            /\ Exists(i)
            /\ Begin(c, [Request0(u, i, "dismiss") EXCEPT !.base = posts[i].updated])
    BY <1>10 DEF Dismiss, Writable
  <2>2. Fits([Request0(u, i, "dismiss") EXCEPT !.base = posts[i].updated])
    BY <1>1, <2>1 DEF Fits, Request0, Request, Ops, Exists
  <2> QED BY <2>1, <2>2
<1> QED BY <1>4, <1>5, <1>6, <1>7, <1>8, <1>9, <1>10

\* An answer keeps the forms and the other requests as they should be.
LEMMA AnsweredFits ==
    ASSUME IInv, NEW c \in Conns, requests[c].op # "idle", NEW reply \in Replies,
           Answered(c, reply)
    PROVE  /\ requests' \in [Conns -> Request \cup Idle]
           /\ editor' \in [Users -> Editor \cup {None}]
           /\ \A d \in Conns : requests'[d].op # "idle" => Fits(requests'[d])
<1>1. Fits(requests[c]) /\ requests \in [Conns -> Request \cup Idle]
      /\ editor \in [Users -> Editor \cup {None}]
  BY DEF IInv, TypeOK
<1>2. requests' = [requests EXCEPT ![c] = [op |-> "idle", reply |-> reply]]
  BY DEF Answered
<1>3. [op |-> "idle", reply |-> reply] \in Idle
  BY DEF Idle
<1>4. \A d \in Conns : requests'[d].op # "idle" => requests'[d] = requests[d]
  BY <1>1, <1>2
<1>5. requests[c].op = "dismiss" =>
          [post |-> requests[c].post, base |-> requests[c].base] \in Editor
  BY <1>1 DEF Fits, Request, Editor
<1>6. requests[c].user \in Users
  BY <1>1 DEF Fits, Request
<1>7. editor' \in [Users -> Editor \cup {None}]
  BY <1>1, <1>5, <1>6 DEF Answered
<1> QED BY <1>1, <1>2, <1>3, <1>4, <1>7 DEF IInv

LEMMA RepliesFit ==
    ASSUME NEW r
    PROVE  Reply(r) \in Replies
BY DEF Reply, Replies

\* A statement is executed, whether or not its answer arrives.
LEMMA ExecuteFits ==
    ASSUME IInv, NEW c \in Conns, Execute(c) \/ AnswerLost(c)
    PROVE  IInv'
<1>1. PICK r : r = requests[c]
  OBVIOUS
<1>2. Fits(r) /\ Apply(r) /\ clock' = clock
  BY <1>1 DEF Execute, AnswerLost, IInv
<1>3. /\ requests' \in [Conns -> Request \cup Idle]
      /\ editor' \in [Users -> Editor \cup {None}]
      /\ \A d \in Conns : requests'[d].op # "idle" => Fits(requests'[d])
  BY AnsweredFits, RepliesFit DEF Execute, AnswerLost, IInv, TypeOK
<1>4. TypeOK'
  BY <1>2, <1>3, AppliedFits DEF IInv, TypeOK
<1>5. \A i \in PostIds : \A u \in Users : Kept(i, u)'
  BY <1>2, PairApplied
<1>6. NoSnapshotAfterDelete'
  BY <1>2, PairApplied DEF NoSnapshotAfterDelete
<1>7. NewerIsCurrent'
  BY <1>2, PairApplied DEF NewerIsCurrent
<1> QED BY <1>3, <1>4, <1>5, <1>6, <1>7 DEF IInv

\* Every other step leaves the rows, and keeps or removes each snapshot.
LEMMA QuietStep ==
    ASSUME IInv, TypeOK', posts' = posts, clock <= clock', clock \in Nat, clock' \in Nat,
           \A d \in Conns : requests'[d].op # "idle" => Fits(requests'[d]),
           \A i \in PostIds : \A u \in Users : snaps'[i][u] \in {snaps[i][u], None}
    PROVE  IInv'
<1>1. ASSUME NEW i \in PostIds, NEW u \in Users, snaps[i][u] # None
      PROVE  snaps[i][u].at \in Nat
  <2>1. snaps[i][u] \in Snapshot
    BY <1>1 DEF IInv, TypeOK
  <2> QED BY <2>1, TicksFit DEF Snapshot
<1>2. \A i \in PostIds : \A u \in Users : Kept(i, u)'
  BY <1>1 DEF IInv, Kept, Exists
<1>3. NoSnapshotAfterDelete'
  BY DEF IInv, NoSnapshotAfterDelete, Exists, Deleted
<1>4. NewerIsCurrent'
  BY DEF IInv, NewerIsCurrent, Offered
<1> QED BY <1>2, <1>3, <1>4 DEF IInv

\* Every step keeps the invariant.
LEMMA NextFits == IInv /\ [Next]_vars => IInv'
<1> SUFFICES ASSUME IInv, [Next]_vars PROVE IInv'
  OBVIOUS
<1>0. TypeOK /\ clock \in Nat
  BY TicksFit DEF IInv, TypeOK
<1>1. ASSUME NEW c \in Conns, Serve(c)
      PROVE  IInv'
  <2>1. CASE GiveUp(c)
    <3>1. TypeOK' /\ \A d \in Conns : requests'[d].op # "idle" => Fits(requests'[d])
      BY <2>1, AnsweredFits DEF GiveUp, Replies, IInv, TypeOK
    <3> QED BY <1>0, <2>1, <3>1, QuietStep DEF GiveUp
  <2> QED BY <1>1, <2>1, ServeBegins, BeginFits, ExecuteFits DEF Serve
<1>2. ASSUME NEW u \in Users, OpenEditor(u) \/ Restore(u)
      PROVE  IInv'
  <2>1. PICK i \in PostIds :
            /\ Exists(i)
            /\ editor' = [editor EXCEPT ![u] = [post |-> i, base |-> posts[i].updated]]
            /\ UNCHANGED <<clock, posts, snaps, requests>>
    BY <1>2 DEF OpenEditor, Restore, Writable
  <2>2. [post |-> i, base |-> posts[i].updated] \in Editor
    BY <1>0, <2>1 DEF TypeOK, Exists, Post, Editor
  <2>3. TypeOK'
    BY <1>0, <2>1, <2>2 DEF TypeOK
  <2> QED BY <1>0, <2>1, <2>3, QuietStep DEF IInv
<1>3. CASE Cleanup
  <2>1. /\ snaps' \in [PostIds -> [Users -> Snapshot \cup {None}]]
        /\ \A i \in PostIds : \A u \in Users : snaps'[i][u] \in {snaps[i][u], None}
    BY <1>0, <1>3 DEF Cleanup, TypeOK
  <2>2. TypeOK'
    BY <1>0, <1>3, <2>1 DEF Cleanup, TypeOK
  <2> QED BY <1>0, <1>3, <2>1, <2>2, QuietStep DEF Cleanup, IInv
<1>4. CASE Tick
  <2>1. clock' \in Ticks /\ clock' \in Nat /\ clock <= clock'
    BY <1>0, <1>4, Parameters DEF Tick, Ticks
  <2>2. TypeOK'
    BY <1>0, <1>4, <2>1 DEF Tick, TypeOK
  <2> QED BY <1>0, <1>4, <2>1, <2>2, QuietStep DEF Tick, IInv
<1>5. CASE UNCHANGED vars
  <2>1. TypeOK'
    BY <1>0, <1>5 DEF vars, TypeOK
  <2> QED BY <1>0, <1>5, <2>1, QuietStep DEF vars, IInv
<1> QED BY <1>1, <1>2, <1>3, <1>4, <1>5 DEF Next

\* The only steps that change a row or write a snapshot execute a statement.
LEMMA ChangedByStatement ==
    ASSUME IInv, [Next]_vars
    PROVE  \/ /\ posts' = posts
              /\ \A i \in PostIds : \A u \in Users : snaps'[i][u] \in {snaps[i][u], None}
           \/ \E c \in Conns : /\ requests[c].op # "idle"
                               /\ Fits(requests[c])
                               /\ Apply(requests[c])
<1>1. ASSUME NEW c \in Conns, Serve(c)
      PROVE  \/ posts' = posts /\ snaps' = snaps
             \/ requests[c].op # "idle" /\ Fits(requests[c]) /\ Apply(requests[c])
  <2>1. CASE Execute(c) \/ AnswerLost(c)
    BY <2>1 DEF Execute, AnswerLost, IInv
  <2>2. CASE GiveUp(c)
    BY <2>2 DEF GiveUp
  <2> QED BY <1>1, <2>1, <2>2, ServeBegins DEF Serve, Begin
<1>2. CASE Cleanup
  BY <1>2 DEF Cleanup
<1> QED BY <1>1, <1>2 DEF Next, OpenEditor, Restore, Tick, vars

-----------------------------------------------------------------------------
(* Theorems *)

\* The inductive invariant.
THEOREM Inductive == Spec => []IInv
BY InitFits, NextFits, PTL DEF Spec

\* The tables, the open forms and the pending statements are well typed.
THEOREM TypeCorrect == Spec => []TypeOK
<1>1. IInv => TypeOK
  BY DEF IInv
<1> QED BY <1>1, Inductive, PTL

\* No autosave under way at a deletion leaves a snapshot behind.
THEOREM NoLateSnapshots == Spec => []NoSnapshotAfterDelete
<1>1. IInv => NoSnapshotAfterDelete
  BY DEF IInv
<1> QED BY <1>1, Inductive, PTL

\* A snapshot that is offered was made from the row as it is, to the second.
THEOREM OffersAreCurrent == Spec => []NewerIsCurrent
<1>1. IInv => NewerIsCurrent
  BY DEF IInv
<1> QED BY <1>1, Inductive, PTL

\* No interleaving of edits, quick edits and deletions brings a deleted post back.
THEOREM DeletionIsFinal == Spec => DeletedStaysHidden
<1>1. ASSUME IInv, [Next]_vars, NEW i \in PostIds, Exists(i), Deleted(i)
      PROVE  Exists(i)' /\ Deleted(i)' /\ ~Public(i)'
  <2>1. posts[i] \in Post /\ Second(clock) # None /\ TypeOK
    BY <1>1, TicksFit DEF IInv, TypeOK, Exists
  <2>2. \/ posts'[i] = posts[i]
        \/ posts'[i] \in Post /\ posts'[i].deletedAt \in {posts[i].deletedAt, Second(clock)}
    BY <1>1, <2>1, ChangedByStatement, RowApplied, ResultFits DEF Exists
  <2> QED BY <1>1, <2>1, <2>2, Parameters DEF Exists, Deleted, Public
<1>2. IInv /\ [Next]_vars =>
        [\A i \in PostIds :
           Exists(i) /\ Deleted(i) => Exists(i)' /\ Deleted(i)' /\ ~Public(i)']_vars
  BY <1>1
<1> QED BY <1>2, Inductive, PTL DEF Spec, DeletedStaysHidden

\* A published row is without a date only after a quick edit that read it before
\* it was unpublished.
THEOREM DatesAreLostByRaceOnly == Spec => DateIsLostOnlyByRace
<1>1. ASSUME IInv, [Next]_vars, NEW i \in PostIds, Exists(i)',
             posts'[i].status = "published", ~posts'[i].dated,
             Exists(i) => posts[i].status # "published" \/ posts[i].dated
      PROVE  \E c \in Conns : /\ requests[c].op = "quick"
                              /\ requests[c].post = i
                              /\ requests[c].status = "published"
                              /\ posts[i].status # "published"
  <2>1. posts'[i] # posts[i]
    BY <1>1 DEF Exists
  <2>2. PICK c \in Conns : Fits(requests[c]) /\ Apply(requests[c])
    BY <1>1, <2>1, ChangedByStatement
  <2>3. PICK r : r = requests[c]
    OBVIOUS
  <2>4. TypeOK
    BY <1>1 DEF IInv
  <2>5. ~(r.op = "create" /\ posts'[i] = Inserted(r))
    BY <1>1, <2>2, <2>3, <2>4, InsertedFits
  <2>6. /\ i = r.post /\ r.op \in Edits /\ posts[i] \in Post /\ Exists(i)
        /\ posts'[i] = Result(posts[i], r)
    BY <1>1, <2>1, <2>2, <2>3, <2>5, RowApplied DEF Matches
  <2>7. r.op = "quick" /\ r.status = "published" /\ ~posts[i].dated
    BY <1>1, <2>2, <2>3, <2>4, <2>6, ResultFits
  <2> QED BY <1>1, <2>3, <2>6, <2>7
<1>2. IInv /\ [Next]_vars =>
        [\A i \in PostIds :
           /\ Exists(i)'
           /\ posts'[i].status = "published"
           /\ ~posts'[i].dated
           /\ Exists(i) => posts[i].status # "published" \/ posts[i].dated
           => \E c \in Conns :
                  /\ requests[c].op = "quick"
                  /\ requests[c].post = i
                  /\ requests[c].status = "published"
                  /\ posts[i].status # "published"]_vars
  BY <1>1
<1> QED BY <1>2, Inductive, PTL DEF Spec, DateIsLostOnlyByRace

\* Rows are changed, and snapshots written, only for users who may access them.
THEOREM AuthorsAreKeptOut == Spec => AuthorsKeepOut
<1>1. ASSUME IInv, [Next]_vars, NEW i \in PostIds, Exists(i), posts'[i] # posts[i]
      PROVE  \E c \in Conns : /\ requests[c].op # "idle"
                              /\ requests[c].post = i
                              /\ CanAccess(requests[c].user, i)
  <2>1. PICK c \in Conns : requests[c].op # "idle" /\ Fits(requests[c]) /\ Apply(requests[c])
    BY <1>1, ChangedByStatement
  <2>2. PICK r : r = requests[c]
    OBVIOUS
  <2>3. i = r.post /\ Matches(r)
    BY <1>1, <2>1, <2>2, RowApplied DEF Exists
  <2> QED BY <2>1, <2>2, <2>3 DEF Matches
<1>2. ASSUME IInv, [Next]_vars, NEW i \in PostIds, NEW u \in Users,
             snaps'[i][u] # snaps[i][u], snaps'[i][u] # None
      PROVE  CanAccess(u, i)
  <2>1. PICK c \in Conns : Fits(requests[c]) /\ Apply(requests[c])
    BY <1>2, ChangedByStatement
  <2>2. PICK r : r = requests[c]
    OBVIOUS
  <2>3. i = r.post /\ u = r.user /\ Matches(r)
    BY <1>2, <2>1, <2>2, SnapApplied
  <2> QED BY <2>3 DEF Matches
<1>3. IInv /\ [Next]_vars =>
        [\A i \in PostIds :
           /\ Exists(i) /\ posts'[i] # posts[i] =>
                  \E c \in Conns :
                      /\ requests[c].op # "idle"
                      /\ requests[c].post = i
                      /\ CanAccess(requests[c].user, i)
           /\ \A u \in Users :
                  snaps'[i][u] # snaps[i][u] /\ snaps'[i][u] # None => CanAccess(u, i)]_vars
  BY <1>1, <1>2
<1> QED BY <1>3, Inductive, PTL DEF Spec, AuthorsKeepOut

=============================================================================
