------------------------------- MODULE Posts -------------------------------
(***************************************************************************)
(* Posts, pages and their autosave snapshots: the SQL statements of        *)
(* store/sqlite/post_store.go and the admin handlers of                    *)
(* http/handlers/posts.go that read, check and then execute one of them.   *)
(*                                                                         *)
(* A handler runs in a connection c in Conns.  It begins by reading what   *)
(* it checks, remembers the statement it will execute, and executes it in  *)
(* a later step: everybody else may act in between.  The database may      *)
(* apply a statement and lose the answer (a remote libSQL connection that  *)
(* times out); ExecRetry then executes the same statement again.           *)
(*                                                                         *)
(* Time: posts.updated_at and deleted_at are written by CURRENT_TIMESTAMP  *)
(* in whole seconds, autosave_snapshots.updated_at in milliseconds.  The   *)
(* clock counts ticks, PerSecond of them to a second.                      *)
(*                                                                         *)
(* Titles, bodies and types are not kept: no property tells them apart.    *)
(***************************************************************************)
EXTENDS Integers

CONSTANTS
    PostIds,    \* ids that randomID may return
    Users,      \* admin users
    Authors,    \* those of them with the role author
    Slugs,      \* values of posts.slug
    Conns,      \* requests served at the same time
    None,       \* NULL, and no record
    PerSecond,  \* ticks of the millisecond clock in a second
    MaxTick,    \* bound on the clock
    Retention   \* AUTOSAVE_RETENTION_DURATION in ticks

Ticks   == 0..MaxTick
Second(t) == t \div PerSecond
Seconds == 0..Second(MaxTick)

FormStatus == {"draft", "published", "archived"}
Status     == FormStatus \cup {"deleted"}

Post == [author: Users, slug: Slugs, status: Status, dated: BOOLEAN,
         updated: Seconds, deletedAt: Seconds \cup {None}]

Snapshot == [base: Seconds, at: Ticks]
Editor   == [post: PostIds, base: Seconds]

Ops     == {"create", "edit", "quick", "publish", "unpublish", "delete", "autosave", "dismiss"}
Replies == {"ok", "conflict", "notfound", "error"}
Request == [op: Ops, user: Users, post: PostIds, slug: Slugs \cup {None},
            status: Status \cup {None}, base: Seconds \cup {None}]
Idle    == [op: {"idle"}, reply: Replies]

ASSUME PostsAssumption ==
    /\ Authors \subseteq Users
    /\ PerSecond \in Nat \ {0}
    /\ MaxTick \in Nat
    /\ Retention \in Nat
    /\ None \notin Nat \cup PostIds \cup Slugs \cup Post \cup Snapshot \cup Editor

VARIABLES
    clock,     \* the database's clock
    posts,     \* the posts table, by id
    snaps,     \* the autosave_snapshots table, by post and author
    editor,    \* the edit form each user has open
    requests   \* the statement each connection is about to execute

vars == <<clock, posts, snaps, editor, requests>>

\* Types of the two tables, the open edit forms and the pending statements.
TypeOK ==
    /\ clock \in Ticks
    /\ posts \in [PostIds -> Post \cup {None}]
    /\ snaps \in [PostIds -> [Users -> Snapshot \cup {None}]]
    /\ editor \in [Users -> Editor \cup {None}]
    /\ requests \in [Conns -> Request \cup Idle]

Init ==
    /\ clock = 0
    /\ posts = [i \in PostIds |-> None]
    /\ snaps = [i \in PostIds |-> [u \in Users |-> None]]
    /\ editor = [u \in Users |-> None]
    /\ requests = [c \in Conns |-> [op |-> "idle", reply |-> "ok"]]

-----------------------------------------------------------------------------
(* What the statements and the handlers test *)

Exists(i)  == posts[i] # None
Deleted(i) == posts[i].deletedAt # None

\* What the public queries and the publisher select.
Public(i) == Exists(i) /\ posts[i].status = "published" /\ ~Deleted(i)

\* canAccessPost, and the AND author_id = ? of the statements.
CanAccess(u, i) == u \in Authors => posts[i].author = u

\* loadWritablePost: the read that precedes most forms and writes.
Writable(u, i) == Exists(i) /\ CanAccess(u, i) /\ ~Deleted(i)

\* The UNIQUE constraint of posts.slug, which also counts deleted rows.
SlugTaken(s, others) == \E j \in others : Exists(j) /\ posts[j].slug = s

\* newerAutosaveSnapshot: the edit form shows the recovery panel.
Offered(i, u) ==
    /\ snaps[i][u] # None
    /\ snaps[i][u].at > posts[i].updated * PerSecond

-----------------------------------------------------------------------------
(* Statements: WHERE clause and effect *)

\* Fault: the upsert does not ask whether the post was deleted.
MatchesDeleted(r) ==
    /\ Exists(r.post)
    /\ CanAccess(r.user, r.post)
    /\ r.op \in {"publish", "unpublish", "delete"} => ~Deleted(r.post)
    /\ r.op = "autosave" => posts[r.post].updated = r.base

\* Fault: the upsert relies on the handler's check of the base.
MatchesAnyBase(r) ==
    /\ Exists(r.post)
    /\ CanAccess(r.user, r.post)
    /\ r.op \in {"publish", "unpublish", "delete", "autosave"} => ~Deleted(r.post)

\* The rows of the WHERE clause of r.
Matches(r) ==
    /\ Exists(r.post)
    /\ CanAccess(r.user, r.post)
    /\ r.op \in {"publish", "unpublish", "delete", "autosave"} => ~Deleted(r.post)
    /\ r.op = "autosave" => posts[r.post].updated = r.base

Written(row) == [row EXCEPT !.updated = Second(clock)]

\* CreatePost's INSERT.
Inserted(r) ==
    [author |-> r.user, slug |-> r.slug, status |-> r.status,
     dated |-> r.status = "published", updated |-> Second(clock),
     deletedAt |-> None]

\* Fault: an edit clears deleted_at.
UpdatedRevives(row, r) ==
    [Written(row) EXCEPT
        !.slug = r.slug, !.status = r.status, !.deletedAt = None,
        !.dated = @ \/ (r.op = "edit" /\ r.status = "published")]

\* UpdatePost's SET: the edit form passes a date if its status is published,
\* quick edit never does, and a date that is there stays.
Updated(row, r) ==
    [Written(row) EXCEPT
        !.slug = r.slug, !.status = r.status,
        !.dated = @ \/ (r.op = "edit" /\ r.status = "published")]

\* Fault: publishing does not set the date.
StatusSetUndated(row, r) ==
    [Written(row) EXCEPT !.status = r.status, !.dated = FALSE]

\* SetPostStatus' SET: the date is set by publish and cleared by unpublish.
StatusSet(row, r) ==
    [Written(row) EXCEPT !.status = r.status, !.dated = r.op = "publish"]

SoftDeleted(row) ==
    [Written(row) EXCEPT !.status = "deleted", !.deletedAt = Second(clock)]

\* The row r leaves, if it matches and breaks no constraint.
Result(row, r) ==
    CASE r.op \in {"edit", "quick"}        -> Updated(row, r)
      [] r.op \in {"publish", "unpublish"} -> StatusSet(row, r)
      [] r.op = "delete"                   -> SoftDeleted(row)

Apply(r) ==
    CASE r.op = "create" ->
            /\ posts' = IF Exists(r.post) \/ SlugTaken(r.slug, PostIds) THEN posts
                        ELSE [posts EXCEPT ![r.post] = Inserted(r)]
            /\ UNCHANGED snaps
      [] r.op = "autosave" ->
            /\ snaps' = IF Matches(r)
                        THEN [snaps EXCEPT ![r.post][r.user] = [base |-> r.base, at |-> clock]]
                        ELSE snaps
            /\ UNCHANGED posts
      [] r.op = "dismiss" ->
            /\ snaps' = [snaps EXCEPT ![r.post][r.user] = None]
            /\ UNCHANGED posts
      [] OTHER ->
            /\ posts' = IF \/ ~Matches(r)
                           \/ r.op \in {"edit", "quick"} /\ SlugTaken(r.slug, PostIds \ {r.post})
                        THEN posts
                        ELSE [posts EXCEPT ![r.post] = Result(@, r)]
            /\ UNCHANGED snaps

\* What the handler answers.  An INSERT that finds its own id is a success; but
\* SQLite checks the slug's index first, so an INSERT that repeats both columns
\* of an existing row reports the slug.  A dismiss ignores the number of rows.
Reply(r) ==
    CASE r.op = "create"  -> IF SlugTaken(r.slug, PostIds) THEN "conflict" ELSE "ok"
      [] r.op = "dismiss" -> "ok"
      [] OTHER ->
            IF ~Matches(r) THEN IF r.op = "autosave" THEN "conflict" ELSE "notfound"
            ELSE IF r.op \in {"edit", "quick"} /\ SlugTaken(r.slug, PostIds \ {r.post})
                 THEN "conflict" ELSE "ok"

-----------------------------------------------------------------------------
(* Handlers up to their statement *)

Request0(u, i, o) ==
    [op |-> o, user |-> u, post |-> i, slug |-> None, status |-> None, base |-> None]

Begin(c, r) ==
    /\ requests[c].op = "idle"
    /\ requests' = [requests EXCEPT ![c] = r]
    /\ UNCHANGED <<clock, posts, snaps, editor>>

\* CreatePost: randomID never returns the same id twice.
Create(c, u) ==
    \E i \in PostIds, s \in Slugs, st \in FormStatus :
        /\ ~Exists(i)
        /\ \A d \in Conns : requests[d].op # "idle" => requests[d].post # i
        /\ Begin(c, [Request0(u, i, "create") EXCEPT !.slug = s, !.status = st])

\* UpdatePost: the edit form is submitted.  Nothing is read and the form's
\* base is not compared.
Save(c, u) ==
    \E s \in Slugs, st \in FormStatus :
        /\ editor[u] # None
        /\ Begin(c, [Request0(u, editor[u].post, "edit") EXCEPT !.slug = s, !.status = st])

\* QuickEditPostSave: the status it will write is the one it reads here.
QuickEdit(c, u) ==
    \E i \in PostIds, s \in Slugs :
        /\ Writable(u, i)
        /\ Begin(c, [Request0(u, i, "quick") EXCEPT !.slug = s, !.status = posts[i].status])

\* PublishPost and UnpublishPost (updatePostStatus): no read.  The id comes from
\* the posts table the user has on the screen.
SetStatus(c, u) ==
    \E i \in PostIds :
        /\ Exists(i)
        /\ \/ Begin(c, [Request0(u, i, "publish") EXCEPT !.status = "published"])
           \/ Begin(c, [Request0(u, i, "unpublish") EXCEPT !.status = "draft"])

\* DeletePost: no read.
Delete(c, u) ==
    \E i \in PostIds : Exists(i) /\ Begin(c, Request0(u, i, "delete"))

\* AutosavePost: the form's base must be the row's updated_at.
Autosave(c, u) ==
    /\ editor[u] # None
    /\ Writable(u, editor[u].post)
    /\ posts[editor[u].post].updated = editor[u].base
    /\ Begin(c, [Request0(u, editor[u].post, "autosave") EXCEPT !.base = editor[u].base])

\* Fault: the form comes back without base_updated_at.
DismissNoBase(c, u) ==
    \E i \in PostIds : Writable(u, i) /\ Begin(c, Request0(u, i, "dismiss"))

\* DismissAutosavePost: the form it will show is made from this read.
Dismiss(c, u) ==
    \E i \in PostIds :
        /\ Writable(u, i)
        /\ Begin(c, [Request0(u, i, "dismiss") EXCEPT !.base = posts[i].updated])

-----------------------------------------------------------------------------
(* Handlers from their statement on *)

\* The answer of an edit leads away from the form; that of a dismiss shows the
\* form again.
Answered(c, reply) ==
    LET r == requests[c]
    IN  /\ requests' = [requests EXCEPT ![c] = [op |-> "idle", reply |-> reply]]
        /\ editor' =
             IF reply # "ok" THEN editor
             ELSE IF r.op = "edit" THEN [editor EXCEPT ![r.user] = None]
             ELSE IF r.op = "dismiss"
                  THEN [editor EXCEPT ![r.user] = [post |-> r.post, base |-> r.base]]
             ELSE editor

\* The statement is executed and the handler answers.
Execute(c) ==
    /\ requests[c].op # "idle"
    /\ Apply(requests[c])
    /\ Answered(c, Reply(requests[c]))
    /\ UNCHANGED clock

\* The statement is executed, its answer is lost, and ExecRetry will repeat it.
AnswerLost(c) ==
    /\ requests[c].op # "idle"
    /\ Apply(requests[c])
    /\ UNCHANGED <<clock, editor, requests>>

\* The error is permanent, the retries are used up, or the request is cancelled.
GiveUp(c) ==
    /\ requests[c].op # "idle"
    /\ Answered(c, "error")
    /\ UNCHANGED <<clock, posts, snaps>>

-----------------------------------------------------------------------------
(* Handlers that only read, the cleanup job, and time *)

\* EditPostForm.
OpenEditor(u) ==
    \E i \in PostIds :
        /\ Writable(u, i)
        /\ editor' = [editor EXCEPT ![u] = [post |-> i, base |-> posts[i].updated]]
        /\ UNCHANGED <<clock, posts, snaps, requests>>

\* RestoreAutosavePost: the snapshot's content under the row's current
\* updated_at.  Whether the snapshot is still newer is not asked again.
Restore(u) ==
    \E i \in PostIds :
        /\ Writable(u, i)
        /\ snaps[i][u] # None
        /\ editor' = [editor EXCEPT ![u] = [post |-> i, base |-> posts[i].updated]]
        /\ UNCHANGED <<clock, posts, snaps, requests>>

\* DeleteAutosaveSnapshotsOlderThan, run by the cleanup job, which compares whole
\* seconds.
Cleanup ==
    /\ snaps' = [i \in PostIds |-> [u \in Users |->
                   IF /\ snaps[i][u] # None
                      /\ Second(snaps[i][u].at) < Second(clock - Retention)
                   THEN None ELSE snaps[i][u]]]
    /\ UNCHANGED <<clock, posts, editor, requests>>

Tick ==
    /\ clock < MaxTick
    /\ clock' = clock + 1
    /\ UNCHANGED <<posts, snaps, editor, requests>>

Serve(c) ==
    \/ \E u \in Users :
         \/ Create(c, u) \/ Save(c, u) \/ QuickEdit(c, u) \/ SetStatus(c, u)
         \/ Delete(c, u) \/ Autosave(c, u) \/ Dismiss(c, u)
    \/ Execute(c) \/ AnswerLost(c) \/ GiveUp(c)

Next ==
    \/ \E c \in Conns : Serve(c)
    \/ \E u \in Users : OpenEditor(u) \/ Restore(u)
    \/ Cleanup
    \/ Tick

Spec == Init /\ [][Next]_vars

-----------------------------------------------------------------------------
(* Properties *)

\* Deletion is final for the public: UpdatePost may give a deleted row any
\* status again, and a quick edit that read the row before the deletion does,
\* but the row keeps its deleted_at and no interleaving makes it public.
DeletedStaysHidden ==
    [][\A i \in PostIds :
         Exists(i) /\ Deleted(i) => Exists(i)' /\ Deleted(i)' /\ ~Public(i)']_vars

\* No autosave that was under way when the post was deleted leaves a snapshot
\* behind: every snapshot of a deleted post dates from before its deletion.
NoSnapshotAfterDelete ==
    \A i \in PostIds : \A u \in Users :
        Exists(i) /\ Deleted(i) /\ snaps[i][u] # None =>
            Second(snaps[i][u].at) <= posts[i].deletedAt

\* A snapshot that the edit form offers was made from the row as it is: the base
\* check is repeated by the statement, so a save that comes between the handler's
\* check and the upsert is not hidden by it.  Within the second that the row keeps
\* of its last save the form cannot tell, and offers an older snapshot as well.
NewerIsCurrent ==
    \A i \in PostIds : \A u \in Users :
        Offered(i, u) =>
            snaps[i][u].base = posts[i].updated \/ Second(snaps[i][u].at) = posts[i].updated

\* A published row has its date of publication, but for one interleaving: a quick
\* edit that read the row as published writes that status back after the row was
\* unpublished, or into a row that such a write had left without a date.
DateIsLostOnlyByRace ==
    [][\A i \in PostIds :
         /\ Exists(i)'
         /\ posts'[i].status = "published"
         /\ ~posts'[i].dated
         /\ Exists(i) => posts[i].status # "published" \/ posts[i].dated
         => \E c \in Conns :
                /\ requests[c].op = "quick"
                /\ requests[c].post = i
                /\ requests[c].status = "published"
                /\ posts[i].status # "published"]_vars

\* Authors stay out of what is not theirs, though most handlers leave the check
\* to the statement: a row is changed, and a snapshot of it written, only for a
\* user who may access it.
AuthorsKeepOut ==
    [][\A i \in PostIds :
         /\ Exists(i) /\ posts'[i] # posts[i] =>
                \E c \in Conns :
                    /\ requests[c].op # "idle"
                    /\ requests[c].post = i
                    /\ CanAccess(requests[c].user, i)
         /\ \A u \in Users :
                snaps'[i][u] # snaps[i][u] /\ snaps'[i][u] # None => CanAccess(u, i)]_vars

\* The plan promises idempotent handling of conflicts for replayed operation ids,
\* and CreatePost takes a conflict of the id for a success: a creation is refused
\* only when another post has its slug, however often its INSERT was repeated.
\* The code falls short of it: the row its own first INSERT has left holds the
\* slug as well.
ReplayIsNoConflict ==
    [][\A c \in Conns :
         requests[c].op = "create" /\ requests'[c] = [op |-> "idle", reply |-> "conflict"] =>
             SlugTaken(requests[c].slug, PostIds \ {requests[c].post})]_vars

-----------------------------------------------------------------------------
(* The inductive invariant *)

\* What the handlers put into the statements they remember.
Fits(r) ==
    /\ r \in Request
    /\ r.op \in {"create", "edit", "quick"} => r.slug # None /\ r.status \in Status
    /\ r.op = "publish" => r.status = "published"
    /\ r.op = "unpublish" => r.status = "draft"
    /\ r.op \in {"autosave", "dismiss"} => r.base # None

\* A snapshot is of a row, and not of the future.
Kept(i, u) == snaps[i][u] # None => Exists(i) /\ snaps[i][u].at <= clock

IInv ==
    /\ TypeOK
    /\ \A c \in Conns : requests[c].op # "idle" => Fits(requests[c])
    /\ \A i \in PostIds : \A u \in Users : Kept(i, u)
    /\ NoSnapshotAfterDelete
    /\ NewerIsCurrent
=============================================================================
