# kcNotes in TLA+

TLA+ models of kcNotes, a small CMS in Go: an admin interface for posts, pages,
media and users, a SQLite/libSQL database behind it, a durable job queue, and a
static publisher. The modules are translated from the Go and SQL sources under
`src/src/`; TLC checks small instances of them, and TLAPS checks proofs about each of
them for every value of its constants. `PROJECT.json` maps
every definition to the lines it stands for, and lists the runs, the mutants, the
hazards, the findings and the theorems.

## The system and its parts

kcNotes runs as a process (`cms -mode serve`) that serves HTTP requests, one
goroutine each, and polls the job queue in one more goroutine; `cms -mode publish`
is a process of its own that writes the static site. Several processes may use one
database, which is a local SQLite file, a remote libSQL server, or an embedded
replica of one. Requests share no memory but the maps of the rate limiters and of the
login lockout: the parts interact through the tables, through the upload directory,
through the three directories of the publisher, and through the browser, which brings
back the cookies and pages it was given. What is hard is therefore:

* **check, then act.** Handlers read, check, and execute one guarded statement or
  transaction later. Everybody else acts in between. Whether the guard is repeated
  in the statement decides what can go wrong.
* **lost answers.** `store/sqlite/retry.go` repeats a function whose error text looks
  transient (`timeout`, `connection reset`, `database is locked`). The failed try may
  have been applied, and the repeated closure may find its own effect, or what it has
  left in the variables it captured.
* **crashes.** Jobs, uploads and publish runs are killed between two steps. `main`
  returns as soon as `ListenAndServe` does, so that an ordinary shutdown kills
  requests too.
* **late answers.** A browser has several tabs; each answer sets cookies when it
  arrives, which is not the order in which the requests were sent or served.
* **several processes.** Two servers that start at once migrate the same database.
* **clocks.** Rows are dated in whole seconds, snapshots in milliseconds, job locks
  in nanoseconds and compared in seconds. Windows and locks of the limiters are
  compared at their very end, some with `Before` and some with `After`.

| component | state | operations | module |
| --- | --- | --- | --- |
| job queue (`store/sqlite/jobs_store.go`, `app/jobs.go`) | table `jobs`; the goroutine's claimed job | EnsureJob, ClaimDueJob, CompleteJob, RescheduleJob, FailJob, restart | `Jobs`, `JobQueue` |
| retry (`store/sqlite/retry.go`) | tries, captured variables | ExecRetry, QueryRetry, TxRetry | in `Jobs`, `Posts`, `Accounts`, `Media`, `Migrate` |
| posts, pages, autosave (`store/sqlite/post_store.go`, `http/handlers/posts.go`) | tables `posts`, `autosave_snapshots`; open edit forms | create, edit, quick edit, publish, unpublish, delete, autosave, dismiss, restore, cleanup | `Posts` |
| static publisher (`publish/publisher.go`) | `OutDir`, `OutDir.tmp`, `OutDir.old` | one publish run | `Publish` |
| accounts (`http/handlers/passkeys.go`, `users.go`, `admin.go`, `middleware/auth.go`, `store/sqlite/passkey_store.go`) | users, invitations, passkeys, challenges, sessions | setup, invite, enroll, add and delete passkey, login, logout, update user | `Accounts` |
| media library (`http/handlers/media.go`, `store/sqlite/media_store.go`) | upload directory, tables `media_assets`, `media`, `media_variants` | upload, attach | `Media`, `Library` |
| sessions and CSRF (`http/middleware/auth.go`, `csrf.go`, `http/handlers/admin.go`, `store/sqlite/auth_store.go`) | table `sessions`; the browser's two cookies and its pages | SessionLoader, RequireAuth, CSRF, open and close a session | `Sessions` |
| rate limit and login lockout (`http/middleware/rate_limit.go`, `http/handlers/admin.go`) | two maps under a mutex | Allow, IsLocked, RecordFailure, RecordSuccess | `Limits` |
| migrations (`store/sqlite/migrate.go`) | table `schema_migrations`, the schema | one run of the scripts by a process | `Migrate` |

What makes each of them correct:

* *jobs*: one owner reports a job; no lock is held for ever; a job is tried as often
  as it should be.
* *posts*: a deleted post stays hidden; a snapshot never survives what it was made
  from; authors change their own posts only; a published post has its date.
* *publisher*: what is served is complete; some complete copy survives any one
  fault; a run publishes what is public, no more and no less.
* *accounts*: one first admin; a challenge and an invitation serve once; nobody loses
  the last passkey or gets in before the enrollment.
* *media*: one asset to an image, one row to a user; an asset has its files; quotas.

* *sessions*: a form of a page can be sent as long as the session lives; a live session
  keeps its cookie.
* *limits*: no more gets through than twice the limit; a lock keeps out until it ends,
  and it does end.
* *migrations*: versions take effect in order, none is left out, and a process that
  says so has all of them.

### Not modelled

* the WebAuthn adapter (`auth/passkey.go`): cryptography and encoding by a library,
  without state of its own; `Accounts` takes the outcome of a ceremony as given;
* settings: rows written in one transaction from one form, the last writer wins;
* the audit log: rows appended after the action they record, whose errors are logged
  and ignored, and that no other part reads; `failedAuditLimiter` only thins it out;
* metrics: atomic counters that only a log line reads;
* database connections: opening, pragmas and replica synchronisation, once at the start
  and by external code;
* `LoginRateLimit`, which calls the `Allow` of `Limits` for the address and for the
  e-mail of the form, in this order; the passkey form has no e-mail;
* public pages, Markdown, image processing, HTTP plumbing, configuration: they read, or
  convert, and change no state;
* browser code, templates, tooling: the browser sends the requests that `Posts` and
  `Sessions` enumerate.

## The modules

All models are state machines in which one action is one SQL statement or
transaction, one file operation, or the local computation between two of them. In
`Posts`, `Accounts` and `Media` a *connection* serves a request: it begins with what the
handler reads and checks, and executes its statements in later steps. A lost answer is
a step that applies the statement and leaves the request where it was, so that it is
executed again; a request may also give up at any time. Definitions under a comment
`Fault:` are not used by any action: each is a plausible bug in the definition after
it, and the list `mutants` of `PROJECT.json` says which property notices it.

**`Jobs`** has the table (`jobs`), and for each process the state of its goroutine
(`pc`), the time of its poll (`now`), the try of the retry loop (`tries`) and the variable
`claimed` that the closure of `ClaimDueJob` captures. `ClaimCommits`, `ClaimFindsNone`,
`SelectFails`, `UpdateFails` and `CommitFails` are the outcomes of one try, the last with
the transaction applied or not. Time is reduced to the comparisons the code makes:
`Ripen` makes a pending row due, or a lock stale. It assumes one thing of time: a lock does
not grow stale while the `ClaimDueJob` call that wrote it still retries, since that call
stops after `MaxElapsed` = 3 s and locks are stale after 5 min. Locks are nanosecond
stamps, which no two polls share; stamps that nobody remembers are reused, which keeps
the model finite. The handler may run for any length of time. Its result is local, so
that returning and reporting are one step.

**`JobQueue`** is what `Jobs` promises: a job with its state, the set of those whose report
would count, and the tries it has left. It knows nothing of rows, stamps, transactions or
retries. `Jobs` implements it with the column `status`, the processes that match the row
under their own poll's stamp (`Holds`), and `max_attempts` less the attempts
(`TriesLeft`). A claim that was applied and whose answer was lost is a `Begin` too: the
process owns the job without knowing it, and a retry that finds the row again changes
nothing. A claim that returns a job it has not locked (`jobs_atomic`) owns nothing, and
nothing that it reports happens.

**`Posts`** has the two tables, the forms users have open, the clock, and one pending
statement for each connection. `Matches` is the WHERE clause, `Updated`, `StatusSet`,
`SoftDeleted` and `Inserted` are the effects. SQLite reports the slug's
index when an INSERT violates slug and id at the same time; that order is a fact about
SQLite, which an INSERT executed twice on the schema of the migrations shows (SQLite
3.40 answers `UNIQUE constraint failed: posts.slug`).

**`Publish`** has the three directories as sets of items with their manifest, and the
program counter of each run. Kills and failing operations are `faults`, bounded by
`MaxFaults`. Looking for a directory and renaming it are two steps (`swap` and `aside`,
`activate` and `rollback`). What a removal that stops halfway leaves is any part of the
files, with the manifest or without it. Runs share the three directories and may overlap in any way. Four history
variables are kept: `steady` and `ever`, what was public all the time, or at some time,
since a run began; `capped`, the runs for which there were more posts than they read; and
`overlap`, whether runs overlap now, or did and no run has activated its directory since
(`"past"`). With `PUBLISH_INCLUDE_DRAFTS` another set of items is
public; nothing else changes.

**`Accounts`** has the tables and, for each connection, where its request is. The user
who is signed in is read when the request begins, as `SessionLoader` does. Any open
challenge id may be presented by any request; what then has to match is as in the code.
Editors are treated as authors, since only the role admin is asked for; the sessions of a
user are one.

**`Media`** has the upload directory, the assets and the library rows. A family of files
is the original with its variants; all families have the same size, the unit of the
quotas. Killed requests leave their files. `MaxLost` bounds the lost answers. An upload that
has been stored may be answered with an error all the same, when the list of the library that
HTMX asks for cannot be read (`ShowTable`).

**`Library`** is what `Media` promises a user: the set of images each user has, and for an
upload whether it has put its image there. It knows nothing of files, assets, ids, hashes and
quotas, and nothing in it takes an image out of a library, or puts it into another one. An upload that
answers *ok* has its image there; one that answers with an error may have it.
`Media` implements it with the images of a user's rows (`ImagesOf`), and with the row of the
id that an upload has drawn (`Seen`): the row is there before the upload has learned of it
when the answer of the transaction was lost, and then the upload may still fail.

**`Sessions`** has the table and one browser of one user: the jar with its session cookie
and its CSRF cookie, the page in each tab, and one request of each tab. A request takes
the cookies along when it is sent (`Open`, `Submit`); `Load`, `Discard`, `Create` and `Logout`
are the steps in which the server touches the table, `Render`, `Save`, `Verify`, `Decline`
and `Unsigned` those in which `RequireAuth` and `CSRF` decide; `Deliver` sets the cookies, and
`Lose` loses the answer. The browser is outside `src/`: that a `Set-Cookie` replaces the
cookie, that one without `Expires` goes when the browser is closed, and that requests are
answered in any order is what the code relies on. `lost` is a history variable. Ids and
tokens that occur nowhere are *fresh*, so that a finite set of them never runs dry.

**`Limits`** has the map of `FixedWindowLimiter`, the map of `loginFailureTracker`, and the
logins that are being served. Each call holds a mutex and is one step; between `Allow`,
`IsLocked` and the outcome everybody else acts. Instants are kept as distances from now,
which `Tick` shifts and which stay where no comparison reaches them, so that the clock
needs no bound. `passed` and `before` are history variables: how many were let in within so
many ticks, and whether a login was let in before the lock on record was set.

**`Migrate`** has the set of recorded versions, the set of those whose script has taken
effect, and for each process the version it is at. `Check` and `Apply` are the question
and the transaction; the faults are a commit whose answer is lost, a rollback, and a kill.
`Unrepeatable` are the scripts that fail the second time (`0004_mfa.sql` adds columns;
the others say `IF NOT EXISTS`). A process that has failed is started again.

The `MC` modules add the symmetry sets for TLC, and to `Migrate` the processes' numbers of
scripts. Symmetry is used by runs of invariants and box properties only, never for
liveness. The modules whose names end in `Proofs` hold the theorems. The models do not share state: `Publish` abstracts `Posts` to *the kind and the
visibility of an item change*; `Posts` and `Media` presuppose the users that `Accounts`
lets in; `Accounts` has one session to a user, and `Sessions` has several, with their
cookies, of a user who may be disabled at any time; `Limits` takes from `Accounts` that a
login fails, succeeds or breaks off after it was verified.

## What the runs show

Runs that pass:

| run | bounds | properties |
| --- | --- | --- |
| `jobs_safety` | 2 processes, a recurring and a one-shot job, 2 attempts, 2 tries, 7 stamps | one owner; the owner's count; the retry budget; a running row is changed by its owner, by takeover or by ageing only |
| `jobs_live` | 2 processes, 1 job, fairness | locks are released, pending jobs are claimed and the recurring job goes on, if some process stays up; the refinement of `JobQueue` |
| `posts_safety` | 1 post, 2 requests, 6 ticks, 2 to the second | deletion is final; no snapshot of a later date than the deletion; a newer snapshot is of the current row; a published row loses its date in one race only |
| `publish_safety` | 2 runs at a time that may overlap, 1 item, 3 faults | the served site is complete; a complete copy survives any one fault; nothing missing; nothing hidden brought back with one fault |
| `accounts_safety` | 2 users, 2 passkeys, 2 challenges, 2 requests | one first admin; a challenge serves once; pending users stay out; the last passkey stays; who enables a user; the last admin is lost in one race only |
| `media_safety` | 2 users, 3 images, 5 ids, 2 uploads, quotas of 1, 1 lost answer | the refinement of `Library`; de-duplication; success means stored; files are lost in one way only; the overrun of a quota is bounded by the uploads at once |
| `sessions_safety` | 2 tabs, 2 sessions, 2 tokens | forms are refused only after a CSRF cookie was lost; what may clear the cookie of a live session; a browser without its token is stuck until the session ends |
| `limits_safety` | 2 clients, 2 logins at once, limit 2, window 2, 1 place in the map, lock for 3 ticks after 3 failures within 2 | less than twice the limit through any window; who is refused for want of room; whom a lock keeps out and what ends it early; locks and used-up windows end |
| `migrate_safety` | 3 processes with 4, 4 and 3 scripts, the third unrepeatable, 4 faults | order; success means all; a script fails only if it was applied; every process succeeds in the end |

Runs in which the code does not do what a comment or a document says (the list
`findings` quotes it):

| run | what the counterexample shows |
| --- | --- |
| `jobs_atomic` | a try of the claim fails after its scan, the next finds no row, and the job of the first is run without a lock |
| `posts_replay` | the INSERT of a new post is applied, its answer is lost, and the repeated INSERT meets its own row: the editor is told that the slug exists, though the post was created |
| `sessions_forms` | the browser is closed and opened again: it is signed in, and every form of its pages, *Sign out* included, is refused, until the session expires |

The models also contain the following, which a reader of the code should know and which
the properties above are worded around.

* *jobs*: a recurring job that has used up its attempts is not run again until a restart.
* *posts*: a snapshot that is older than the row's last save is offered if both fall in
  one second (`NewerIsCurrent` excepts that second).
* *publisher*: two runs at once may activate a half-written site, which the next run
  that is alone puts right; no `OutDir` is there between the two renames; with two
  faults, a kill between the renames and one in the removal of the backup, no complete
  copy is left, and with three an incomplete backup is moved to `OutDir`; a kill and a
  failing removal bring a hidden item back; a run reads at most `PostLimit` posts and
  does not notice when there are more. Beyond that cap the site is not the *complete static
  site* of `docs/IMPLEMENTATION-PLAN.md:25`; `NothingMissing` excepts the runs that were
  capped, and no others. `publish_safety` has one item and never reaches the cap; the
  theorem holds for every cap.
* *accounts*: a COMMIT that is rolled back and retried refuses an unused challenge, since
  the closure keeps `UsedAt` of the first try; an invitation that expires between the
  handler's check and the transaction is accepted.
* *media*: two uploads pass the quota check together (`OverrunIsBounded` says by how
  much); an upload whose answer was lost removes the files of the rows it has stored
  (`FilesAreLostOnlyByLostAnswer` says that nothing else does).
* *sessions*: two first requests of a fresh browser bring a CSRF token each, and the page
  with the first one is refused.
* *limits*: with a threshold of 1 it takes two failures to be locked, since the first one
  only opens the window; a success deletes a lock that was set while it was verified; the
  lock is kept by the client's address, where `docs/IMPLEMENTATION-PLAN.md:115` says per
  account; neither `loginFailures` nor `failedAuditLogs` is ever pruned, so that both maps
  grow with the clients.
* *migrations*: two processes that start at once may run the same script; the one that
  comes second fails at `0004_mfa.sql`, and has to be started again.

The bounds are the smallest in which the cases meet: two actors race; two attempts
separate the retry from the last one; two tries are one retry; two ticks to a second
separate the resolutions, and six ticks are three seconds. Two passkeys are the last two of
one user, deleted by two browsers; two users are the two admins that disable each other.
Two challenges let a ceremony be confused with another. Three images against a quota of one
exceed what two uploads may overrun, which leaves room for a bound that is too generous
to be noticed. One item is present, missing or hidden, and three faults are one more than
`OutIsComplete` allows. Two tabs are two answers in the wrong order; two sessions are the
old one and the new; two tokens are the right one and the wrong. A window of two ticks has
an inside and two ends, and one place in the map is full with one client while the other
is new. Three processes of two releases are two that race and one that stops earlier. What
these bounds leave out, a third process that takes over a takeover, a second item, a third
tab, is covered by the proofs.

Deadlock is checked in every run but `migrate_safety`, whose processes end. `Limits` has
`passed` without a bound; `WindowBound` is what keeps it finite.

### Fairness

`FairSpec` of `Jobs` is used by `jobs_live`, under the premise that
some process stays up from some time on. Weak fairness of `Poll`: the ticker fires. Of
`Retry`/`GiveUp`: the loop of `retry` ends by count and by time. Of the outcomes of a try and
of the reports: calls return. Of `Ripen`: time passes. Strong fairness of `ClaimCommits`:
the database may refuse a try now and then, not every one. Nothing is assumed of
`Start`, `Crash`, `Enqueue` or of the result of a handler. The handler itself is assumed to
return, which the code does not enforce: it has no timeout.

`Spec` of `Limits` has weak fairness of `Tick` only: time passes, and nothing is assumed of
the clients. `Spec` of `Migrate` has weak fairness of each process's own work: calls
return, and an operator starts again what has failed. That restart is not in the code:
`AllSucceed` says what repeated starts come to, not that a single one succeeds. That the
faults end is the bound `MaxFaults`.

## What is proved

### The job queue

`JobsProofs` proves, for every set of processes and jobs, every `MaxAttempts` and every
`MaxTries`, from `JobsAssumption` alone:

* `TypeCorrect`: `Spec => []TypeOK`
* `Inductive`: `Spec => []IInv`
* `SingleOwnerHolds`, `OwnerCountsRightHolds`, `RetryBudgetHolds`: the three invariants
* `FencedFinishHolds`: the action property

`SingleOwner` is not inductive. A worker's `claimed` may carry a lock that is not its own:
`ClaimDueJob` scans the stale lock of the row into `claimed` before its UPDATE fails, and
returns it if the next try finds nothing. That this never makes two owners rests on:

* `OwnStamps`: no two goroutines carry the same poll stamp;
* `ForeignStamps`: the stamp of a poll whose claim is still under way is in nobody else's
  `claimed`, since only stale locks are scanned;
* `StaleAfterClaim`: no lock is stale while the call that wrote it runs;
* `ScannedIsStale`: while a claimer holds a foreign stamp that still locks the row, the row
  is stale and a further try would find it, so that *nothing found* cannot follow;
* `RunsUnderOwnStamp`: hence whoever runs and matches does so under its own stamp;
* `CopyIsExact`, `LockedRows`: a copy under the own stamp counts as the row does, and exactly
  running rows are locked.

`IInv` is their conjunction with `TypeOK` and `RetryBudget`. The proof has a lemma for each
action.

It also proves `QueueImplemented`: `Spec => ImplementsQueue`, under the same
assumption. Every step of `Jobs` from a state of `IInv` is mapped to a step of
`JobQueue` or to a stutter: a poll or a crash drops the job its process held, a commit of a
claim (answered or not) begins the job, a report that matches ends it, and one that does
not match changes nothing. `RunsUnderOwnStamp` is what makes a matching report an
owner's, and `CopyIsExact` makes the decision between retry and failure the abstract one.

### The accounts

`AccountsProofs` proves, for every set of users, passkeys, challenges and connections,
from `AccountsAssumption` and `NoneAssumption` (that `None` is none of the values it
stands beside):

* `TypeCorrect`, and `Inductive`: `Spec => []IInv`
* `FirstAdminUnique`, `PendingStaysOut`, `ChallengeIsSingleUse`: invariants
* `LastPasskeyStays`, `OnlyAdminEnables`, `LastAdminRace`: action properties

What has to be carried through is that a request checks things when it begins and relies on
them later, with everybody else in between. `Fits` says, for each place a request may be at,
what is still true of it then; each part is stable because of what the transactions test
again:

* an account that was *settled* (the first admin's, or enrolled) stays so: no transaction
  deletes a user or reopens an invitation, and so sessions, passkeys and `add` requests
  belong to settled users (`TablesFit`), though the invitation may have been accepted, the
  account disabled, or the session ended since;
* a request past its challenge has used it up, and it stays used up (ids are fresh):
  this makes a challenge serve once, since a second `Consume` needs a row;
* a setup relies on nothing it has read: `CreateFirstAdminWithPasskey` counts again, and an
  empty users table means empty passkeys and no session;
* the form of an update never disables or demotes its sender, whatever happens to the
  sender later: so whoever removes the last admin is not one any more.

`TablesChange` reduces the three action properties to the transactions that go through, and
`AccountChange` says what each does to one account. `ChallengeServesOnce` is inductive
relative to `IInv`, so that it is not a part of it.

### Posts

`PostsProofs`, for every set of posts, users, slugs and connections, every length of a
second and every bound on the clock, from `PostsAssumption`: `NoLateSnapshots` and
`OffersAreCurrent` (invariants), `DeletionIsFinal`, `DatesAreLostByRaceOnly` and
`AuthorsAreKeptOut` (action properties). The last, that an author's requests change the author's
own posts only, is proved and not among the runs: one statement decides it. `IInv` adds to the two invariants that a pending
statement is what a handler may have made of its form (`Fits`: a publish carries the status
*published*, an autosave its base) and that a snapshot is of an existing row and not of
the future (`Kept`). The first part of the proof is arithmetic: `SecondGrows` and
`SameSecond` say what cutting ticks to seconds keeps of their order. `PostsApplied` and
`SnapsApplied` reduce a statement to the one row or snapshot it changes;
`ChangedByStatement` says that no other step changes any.

### The publisher

`PublishProofs`, for every set of runs and items, every `PostLimit` and every number of
faults, from `PublishAssumption`: `ServedIsComplete`, `NothingIsMissing`,
`NothingIsRevealed`, `PublishedSurvives`. The invariant relates what a run has read to what
was public meanwhile (`Knows`), what it has rendered to what it has read while it is alone
(`Rendered`), and the contents of the three directories to the number of faults it took to
bring them about (`LeftOver`, `Backups`): no temporary directory without a fault, no lone
backup without one, no incomplete lone backup without two, or three while a run is about to
move it back. `Backups` is what a run that
begins relies on, `Rendered` what it hands to `Activate`.

### The media library

`MediaProofs`, for every set of users and images, every finite set of ids and connections,
every pair of quotas and every number of lost answers, from `MediaAssumption`: `OneAssetOneRow` and
`OverrunStaysBounded` (invariants), `OkIsInLibrary` and `OnlyALostAnswerLosesFiles` (action
properties), and `LibraryImplemented`: `Spec => ImplementsLibrary`. The invariant says

* what is still true of an upload when it takes its next step (`Fits`): an asset it has read
  is still the asset of its image, and the row of its id, if there is one, is its own,
  stored by a try whose answer was lost;
* that no two uploads have drawn one id, and that each row has its asset (`OwnIds`,
  `RowsHaveAssets`);
* for the quotas, that the rows of a user together with the uploads that were admitted and
  have stored nothing yet stay within the quota and the overrun (`OverrunToCome`). The check
  admits an upload when the *stored* rows leave room for one more, whatever else is under way, so
  that the sum, and not the rows alone, is what a step preserves: an insertion moves an upload
  from the second term to the first.

In the refinement a transaction that stores the row is a `Store` if its answer is lost and a
`Succeed` if not; an insertion that meets a conflict finds the row of its user, which is why it
may answer with success; the steps in which an upload computes, writes files or reads change
nothing that `Library` sees. That `InLibrary` reads the rows of the upload's own user is what
makes its success one that `Library` allows.

### Sessions

`SessionsProofs`, for every set of tabs, ids and tokens, from `NoneAssumption`:
`FormsWorkUntilCookieLoss`, `LiveCookiesStay`, `StuckForGood`. `Fits` says what a request
knows of its session: the row has the token it read, or is gone; one whose cookie is to be
cleared has no row any more, unless its deletion failed. Ids are never drawn again, so that
both stay true. `OneToken` says that while no CSRF cookie was lost there is a single token
in the jar, the pages, the session, and every answer under way: this is the strengthening
that `FormsFailOnlyAfterCookieLoss` needs, since an answer that is delivered changes jar and
page at once.

### Limits

`LimitsProofs`, for every finite set of clients, any connections and any configuration,
from `LimitsAssumption`: `LocksKeepOut`, `RefusedOnlyWhenFull`, `LocksLast`,
`WindowsAreBounded`. `IInv` adds `Recent`, which `EntriesStayRecent` states: less than a window
after a pruning, no entry has been expired for longer than that pruning is ago, which bounds
the age of what fills the map. Only `Allow` prunes: a limiter that nobody calls keeps its
entries for any time, of which the model (`Older` stops counting at `-Window`) and the
theorem say nothing. `WindowBound` rests on `CountInv`: the
counter of the window that is open counts all that were let in since it opened, and of what was
let in before that, less than the limit lies within the last `Window` ticks (`Counts`). A window
is opened by the first of its requests and expires when that one is more than a window ago: of a
window that is over, the last `Window` ticks therefore hold all but the first at most,
`Limit - 1`, and to these the next window adds `Limit`.

### Migrations

`MigrateProofs`, for any processes, numbers of scripts, unrepeatable scripts and faults,
from `MigrateAssumption`: `AlwaysInOrder`, `SuccessIsComplete`, `NeverStuckForGood`. `Passed` is the
strengthening: what a process has gone past is applied. It is stable because versions
are never removed.

Each of these modules also proves `TypeCorrect` and `Inductive`. TLC does not evaluate
`TypeOK` and `IInv` in the runs of the modules for which they are proved; each `IInv` was
checked by TLC on the instance of the run before it was proved.

### What is not proved

Liveness and everything under fairness (`LocksAreReleased`, `PendingIsClaimed`,
`RecurringGoesOn`, `RefusalsEnd`, `AllSucceed`) is left to TLC, which the provers cannot
treat. Every other property of a run is stated by a theorem. The findings are
counterexamples and stand on their own.

## The plan

Done: ten components in eight modules, two of them in part, the job queue and the media
library with their abstract specifications and the refinements, and the proofs above. Left,
in this order:

1. An abstract site that is replaced as a whole, which runs that do not overlap implement.
2. `Audit`: which committed actions have an event, with lost answers and kills.
3. A timed refinement of `Ripen`, with the seconds and nanoseconds of `locked_at`.
