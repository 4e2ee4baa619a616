------------------------------ MODULE Accounts ------------------------------
(***************************************************************************)
(* Accounts: first-admin setup, invitations and enrollment, passkeys,      *)
(* login and sessions, and the admin's user management                     *)
(* (http/handlers/passkeys.go, admin.go and users.go, middleware/auth.go   *)
(* and the transactions of store/sqlite/passkey_store.go).                 *)
(*                                                                         *)
(* A request runs in a connection c in Conns.  What it checks when it      *)
(* begins (the session and its user, the role, the invitation, the number  *)
(* of users) is not checked again: it then goes through its transactions   *)
(* one by one, while everybody else acts in between.  A transaction may be *)
(* applied and its answer lost; TxRetry and ExecRetry then run it again.   *)
(*                                                                         *)
(* Users are identified with their e-mail addresses, which are UNIQUE.     *)
(* Editors are as authors here: only the role admin is asked for.  All     *)
(* sessions of a user are one.  The WebAuthn library is external: an       *)
(* authenticator makes a fresh passkey in every registration, and any      *)
(* passkey on record may sign in.                                          *)
(***************************************************************************)

CONSTANTS
    Users,       \* accounts, by e-mail address
    Keys,        \* passkeys
    Challenges,  \* ids of WebAuthn challenges
    Conns,       \* requests served at the same time
    None         \* no row, or NULL

ASSUME AccountsAssumption ==
    /\ None \notin Users
    /\ None \notin Keys
    /\ None \notin Challenges

VARIABLES
    users,       \* the users table
    invites,     \* user_enrollment_invitations: the one of each invited user
    keys,        \* webauthn_credentials: the owner of each passkey
    challenges,  \* webauthn_challenges that are neither used nor expired
    sessions,    \* users with a session that has not expired
    requests     \* the requests being served

vars == <<users, invites, keys, challenges, sessions, requests>>

Roles      == {"admin", "author"}
Ceremonies == {"setup", "login", "add", "enroll"}
Ops        == Ceremonies \cup {"remove", "update", "invite"}

User      == [role: Roles, disabled: BOOLEAN]
Challenge == [kind: Ceremonies, user: Users \cup {None}]

\* user is whom the request acts for or registers; target, role and disabled are
\* the form of the admin's two operations; spent is what a failed try of the
\* consuming transaction leaves in item.UsedAt.
Request == [op: Ops, at: {"save", "consume", "verify", "persist", "session"},
            user: Users \cup {None}, challenge: Challenges \cup {None}, spent: BOOLEAN,
            key: Keys \cup {None},
            target: Users \cup {None}, role: Roles \cup {None}, disabled: BOOLEAN]

\* None is no row and no request.
ASSUME NoneAssumption ==
    /\ None \notin User
    /\ None \notin Challenge
    /\ None \notin Request

\* Types of the tables and of the requests being served.
TypeOK ==
    /\ users \in [Users -> User \cup {None}]
    /\ invites \in [Users -> {"none", "open", "expired", "used"}]
    /\ keys \in [Keys -> Users \cup {None}]
    /\ challenges \in [Challenges -> Challenge \cup {None}]
    /\ sessions \subseteq Users
    /\ requests \in [Conns -> Request \cup {None}]

Init ==
    /\ users = [u \in Users |-> None]
    /\ invites = [u \in Users |-> "none"]
    /\ keys = [k \in Keys |-> None]
    /\ challenges = [h \in Challenges |-> None]
    /\ sessions = {}
    /\ requests = [c \in Conns |-> None]

Exists(u)       == users[u] # None
NoUsers         == \A u \in Users : ~Exists(u)
Enabled(u)      == Exists(u) /\ ~users[u].disabled
EnabledAdmin(u) == Enabled(u) /\ users[u].role = "admin"

\* SessionLoader and RequireAuth let a request of u through.
SignedIn(u) == u \in sessions /\ Enabled(u)

\* RequireRoles(admin), on the user that was loaded with the session.
AdminSignedIn(u) == SignedIn(u) /\ users[u].role = "admin"

-----------------------------------------------------------------------------
(* Requests begin *)

Request0(o, l, u) ==
    [op |-> o, at |-> l, user |-> u, challenge |-> None, spent |-> FALSE, key |-> None,
     target |-> None, role |-> None, disabled |-> FALSE]

Begin(c, r) ==
    /\ requests[c] = None
    /\ requests' = [requests EXCEPT ![c] = r]
    /\ UNCHANGED <<users, invites, keys, challenges, sessions>>

\* The first half of a ceremony: SetupRegistrationStart, PasskeyLoginStart,
\* PasskeyRegistrationStart and EnrollmentRegistrationStart.
Start(c) ==
    \/ Begin(c, Request0("login", "save", None))
    \/ \E u \in Users :
         \/ NoUsers /\ Begin(c, Request0("setup", "save", u))
         \/ SignedIn(u) /\ Begin(c, Request0("add", "save", u))
         \/ invites[u] = "open" /\ Begin(c, Request0("enroll", "save", u))

\* The second half, with the id of some challenge.  Setup looks at nothing else.
Finish(c) ==
    \E h \in Challenges :
        /\ challenges[h] # None
        /\ \/ \E o \in {"setup", "login"} :
                 Begin(c, [Request0(o, "consume", None) EXCEPT !.challenge = h])
           \/ \E u \in Users :
                 \/ /\ SignedIn(u)
                    /\ Begin(c, [Request0("add", "consume", u) EXCEPT !.challenge = h])
                 \/ /\ invites[u] = "open"
                    /\ Begin(c, [Request0("enroll", "consume", u) EXCEPT !.challenge = h])

\* DeletePasskey, of a passkey on the user's page.
DeletePasskey(c) ==
    \E k \in Keys :
        /\ keys[k] # None
        /\ SignedIn(keys[k])
        /\ Begin(c, [Request0("remove", "persist", keys[k]) EXCEPT !.key = k])

\* CreateUser: an admin invites a user.
CreateUser(c) ==
    \E u, t \in Users, r \in Roles :
        /\ AdminSignedIn(u)
        /\ Begin(c, [Request0("invite", "persist", u) EXCEPT !.target = t, !.role = r])

\* Fault: the self-lockout guard looks at the role only.
UpdateUserSelfDisable(c) ==
    \E u, t \in Users, r \in Roles, d \in BOOLEAN :
        /\ AdminSignedIn(u)
        /\ Exists(t)
        /\ t = u => r = "admin"
        /\ Begin(c, [Request0("update", "persist", u)
                       EXCEPT !.target = t, !.role = r, !.disabled = d])

\* UpdateUser: an admin sets role and disabled, but does not disable or demote
\* the own account.
UpdateUser(c) ==
    \E u, t \in Users, r \in Roles, d \in BOOLEAN :
        /\ AdminSignedIn(u)
        /\ Exists(t)
        /\ t = u => ~d /\ r = "admin"
        /\ Begin(c, [Request0("update", "persist", u)
                       EXCEPT !.target = t, !.role = r, !.disabled = d])

-----------------------------------------------------------------------------
(* Challenges *)

Done(c)     == requests' = [requests EXCEPT ![c] = None]
GoOn(c, r)  == requests' = [requests EXCEPT ![c] = r]
At(c, l)    == requests[c] # None /\ requests[c].at = l

\* randomID: an id or a passkey that was never there, as far as anybody knows.
FreshChallenge(h) ==
    /\ challenges[h] = None
    /\ \A c \in Conns : requests[c] # None => requests[c].challenge # h

FreshKey(k) ==
    /\ keys[k] = None
    /\ \A c \in Conns : requests[c] # None => requests[c].key # k

\* Fault: the challenge is stored without its user.
SaveChallengeAnonymous(c) ==
    /\ At(c, "save")
    /\ \E h \in Challenges :
         /\ FreshChallenge(h)
         /\ challenges' = [challenges EXCEPT ![h] = [kind |-> requests[c].op, user |-> None]]
    /\ Done(c)
    /\ UNCHANGED <<users, invites, keys, sessions>>

\* saveChallenge: the challenge is stored and its id sent to the client.
SaveChallenge(c) ==
    /\ At(c, "save")
    /\ \E h \in Challenges :
         /\ FreshChallenge(h)
         /\ challenges' = [challenges EXCEPT
                             ![h] = [kind |-> requests[c].op, user |-> requests[c].user]]
    /\ Done(c)
    /\ UNCHANGED <<users, invites, keys, sessions>>

\* Five minutes pass.
ChallengeExpires(h) ==
    /\ challenges[h] # None
    /\ challenges' = [challenges EXCEPT ![h] = None]
    /\ UNCHANGED <<users, invites, keys, sessions, requests>>

\* What the transaction asks of the row and of item.UsedAt.
Unused(r) ==
    /\ ~r.spent
    /\ challenges[r.challenge] # None
    /\ challenges[r.challenge].kind = r.op

\* Fault: the row is read but not marked.
UsedUpNot(h) == challenges' = challenges

\* The UPDATE of used_at.  A used row is as good as none: both are ErrNotFound.
UsedUp(h) == challenges' = [challenges EXCEPT ![h] = None]

\* Fault: a login does not verify who signs in.
ConsumeUnverified(c) ==
    LET r  == requests[c]
        ch == challenges[r.challenge]
    IN  /\ At(c, "consume")
        /\ Unused(r)
        /\ UsedUp(r.challenge)
        /\ \/ /\ r.op = "login"
              /\ GoOn(c, [r EXCEPT !.at = "session"])
           \/ /\ r.op = "setup" \/ (r.op # "login" /\ ch.user = r.user)
              /\ \E k \in Keys :
                   /\ FreshKey(k)
                   /\ GoOn(c, [r EXCEPT !.at = "persist", !.user = ch.user, !.key = k])
        /\ UNCHANGED <<users, invites, keys, sessions>>

\* ConsumeWebAuthnChallenge succeeds, and the handler goes on: a registration for
\* somebody else ends here, any other gets the passkey from the authenticator.
Consume(c) ==
    LET r  == requests[c]
        ch == challenges[r.challenge]
    IN  /\ At(c, "consume")
        /\ Unused(r)
        /\ UsedUp(r.challenge)
        /\ \/ /\ r.op = "login"
              /\ GoOn(c, [r EXCEPT !.at = "verify"])
           \/ /\ r.op = "setup" \/ (r.op # "login" /\ ch.user = r.user)
              /\ \E k \in Keys :
                   /\ FreshKey(k)
                   /\ GoOn(c, [r EXCEPT !.at = "persist", !.user = ch.user, !.key = k])
           \/ /\ r.op \in {"add", "enroll"}
              /\ ch.user # r.user
              /\ Done(c)
        /\ UNCHANGED <<users, invites, keys, sessions>>

\* It fails at COMMIT, rolled back or applied, and will be retried with the
\* captured item, whose UsedAt is set by now.
ConsumeFails(c) ==
    /\ At(c, "consume")
    /\ Unused(requests[c])
    /\ UNCHANGED challenges \/ UsedUp(requests[c].challenge)
    /\ GoOn(c, [requests[c] EXCEPT !.spent = TRUE])
    /\ UNCHANGED <<users, invites, keys, sessions>>

\* It finds no usable challenge.
ConsumeRefuses(c) ==
    /\ At(c, "consume")
    /\ ~Unused(requests[c])
    /\ Done(c)
    /\ UNCHANGED <<users, invites, keys, challenges, sessions>>

\* FinishPasskeyLogin: the owner of the passkey is read, and refused if disabled.
Verify(c) ==
    /\ At(c, "verify")
    /\ \E k \in Keys :
         /\ keys[k] # None
         /\ IF users[keys[k]].disabled THEN Done(c)
            ELSE GoOn(c, [requests[c] EXCEPT !.at = "session", !.user = keys[k]])
    /\ UNCHANGED <<users, invites, keys, challenges, sessions>>

-----------------------------------------------------------------------------
(* Transactions: whether r goes through, and what it writes *)

\* At least one passkey of u is left without k.
KeepsOne(u, k) == \E j \in Keys : j # k /\ keys[j] = u

\* Fault: setup relies on the handler's count.
GoesThroughUncounted(r) ==
    CASE r.op = "setup"  -> ~Exists(r.user)
      [] r.op = "enroll" -> invites[r.user] # "used" /\ keys[r.key] = None
      [] r.op = "add"    -> keys[r.key] = None
      [] r.op = "remove" -> keys[r.key] = r.user /\ KeepsOne(r.user, r.key)
      [] r.op = "update" -> Exists(r.target)
      [] r.op = "invite" -> ~Exists(r.target)

\* Fault: an enrollment that finds its own passkey is taken for a replay that is
\* harmless.
GoesThroughReplayed(r) ==
    CASE r.op = "setup"  -> NoUsers
      [] r.op = "enroll" -> keys[r.key] = r.user \/ (invites[r.user] # "used" /\ keys[r.key] = None)
      [] r.op = "add"    -> keys[r.key] = None
      [] r.op = "remove" -> keys[r.key] = r.user /\ KeepsOne(r.user, r.key)
      [] r.op = "update" -> Exists(r.target)
      [] r.op = "invite" -> ~Exists(r.target)

\* The conditions tested in the transaction itself: CreateFirstAdminWithPasskey,
\* CompleteEnrollmentInvitation, CreatePasskeyCredential,
\* DeletePasskeyCredential, UpdateUserRoleDisabled, CreateEnrollmentInvitation.
GoesThrough(r) ==
    CASE r.op = "setup"  -> NoUsers
      [] r.op = "enroll" -> invites[r.user] # "used" /\ keys[r.key] = None
      [] r.op = "add"    -> keys[r.key] = None
      [] r.op = "remove" -> keys[r.key] = r.user /\ KeepsOne(r.user, r.key)
      [] r.op = "update" -> Exists(r.target)
      [] r.op = "invite" -> ~Exists(r.target)

\* The users table after r.
UsersAfter(r) ==
    CASE r.op = "setup"  -> [users EXCEPT ![r.user] = [role |-> "admin", disabled |-> FALSE]]
      [] r.op = "enroll" -> [users EXCEPT ![r.user].disabled = FALSE]
      [] r.op = "update" -> [users EXCEPT ![r.target] = [role |-> r.role, disabled |-> r.disabled]]
      [] r.op = "invite" -> [users EXCEPT ![r.target] = [role |-> r.role, disabled |-> TRUE]]
      [] OTHER           -> users

\* Fault: the invitation is not marked as used.
InvitesAfterOpen(r) == IF r.op = "invite" THEN [invites EXCEPT ![r.target] = "open"] ELSE invites

\* The invitations after r.
InvitesAfter(r) ==
    CASE r.op = "enroll" -> [invites EXCEPT ![r.user] = "used"]
      [] r.op = "invite" -> [invites EXCEPT ![r.target] = "open"]
      [] OTHER           -> invites

\* Fault: the DELETE asks for the user only.
KeysAfterAll(r) ==
    CASE r.op \in {"setup", "enroll", "add"} -> [keys EXCEPT ![r.key] = r.user]
      [] r.op = "remove" -> [k \in Keys |-> IF keys[k] = r.user THEN None ELSE keys[k]]
      [] OTHER -> keys

\* The passkeys after r.
KeysAfter(r) ==
    CASE r.op \in {"setup", "enroll", "add"} -> [keys EXCEPT ![r.key] = r.user]
      [] r.op = "remove"                     -> [keys EXCEPT ![r.key] = None]
      [] OTHER                               -> keys

Apply(r) ==
    /\ IF GoesThrough(r)
       THEN users' = UsersAfter(r) /\ invites' = InvitesAfter(r) /\ keys' = KeysAfter(r)
       ELSE UNCHANGED <<users, invites, keys>>
    /\ UNCHANGED <<challenges, sessions>>

\* The transaction is done: setup and enrollment go on to the session.
Persist(c) ==
    /\ At(c, "persist")
    /\ Apply(requests[c])
    /\ IF GoesThrough(requests[c]) /\ requests[c].op \in {"setup", "enroll"}
       THEN GoOn(c, [requests[c] EXCEPT !.at = "session"])
       ELSE Done(c)

\* The transaction is applied, its answer is lost, and it will be retried.
AnswerLost(c) ==
    /\ At(c, "persist")
    /\ Apply(requests[c])
    /\ UNCHANGED requests

\* createAdminSession.  A session id that is there already counts as success.
CreateSession(c) ==
    /\ At(c, "session")
    /\ sessions' = sessions \cup {requests[c].user}
    /\ Done(c)
    /\ UNCHANGED <<users, invites, keys, challenges>>

\* The response does not verify, the error is permanent, the retries are used
\* up, or the client is gone.
GiveUp(c) ==
    /\ requests[c] # None
    /\ Done(c)
    /\ UNCHANGED <<users, invites, keys, challenges, sessions>>

-----------------------------------------------------------------------------
\* Logout, expiry, or SessionLoader that finds the user disabled.
SessionEnds(u) ==
    /\ u \in sessions
    /\ sessions' = sessions \ {u}
    /\ UNCHANGED <<users, invites, keys, challenges, requests>>

\* Seven days pass.
InviteExpires(u) ==
    /\ invites[u] = "open"
    /\ invites' = [invites EXCEPT ![u] = "expired"]
    /\ UNCHANGED <<users, keys, challenges, sessions, requests>>

Serve(c) ==
    \/ Start(c) \/ Finish(c) \/ DeletePasskey(c) \/ CreateUser(c) \/ UpdateUser(c)
    \/ SaveChallenge(c) \/ Consume(c) \/ ConsumeFails(c) \/ ConsumeRefuses(c) \/ Verify(c)
    \/ Persist(c) \/ AnswerLost(c) \/ CreateSession(c) \/ GiveUp(c)

Next ==
    \/ \E c \in Conns : Serve(c)
    \/ \E h \in Challenges : ChallengeExpires(h)
    \/ \E u \in Users : SessionEnds(u) \/ InviteExpires(u)

Spec == Init /\ [][Next]_vars

-----------------------------------------------------------------------------
(* Properties *)

\* The first admin is the only user that nobody invited, however many setups run
\* at once and however often their transaction is repeated.
OneFirstAdmin ==
    \A u, v \in Users :
        Exists(u) /\ Exists(v) /\ invites[u] = "none" /\ invites[v] = "none" => u = v

\* A challenge serves one ceremony: two requests that present the same one never
\* both get past it.
ChallengeServesOnce ==
    \A c, d \in Conns :
        /\ requests[c] # None /\ requests[d] # None
        /\ requests[c].at \in {"verify", "persist", "session"}
        /\ requests[d].at \in {"verify", "persist", "session"}
        /\ requests[c].challenge # None
        /\ requests[c].challenge = requests[d].challenge
        => c = d

\* A user who has a passkey never loses the last one, though two browsers may
\* delete the two that are left at the same time.
KeepsAPasskey ==
    [][\A u \in Users :
         (\E k \in Keys : keys[k] = u) => \E k \in Keys : keys'[k] = u]_vars

\* An invited user who has not completed the enrollment has no passkey and no
\* session, whatever an admin does to the account and however the enrollment's
\* requests are repeated.
PendingCannotSignIn ==
    \A u \in Users :
        invites[u] \in {"open", "expired"} =>
            u \notin sessions /\ \A k \in Keys : keys[k] # u

\* Once enrolled, a disabled user is enabled again by an admin's update only: no
\* second request with the same enrollment link, and no retry, does it.
EnabledByAdminOnly ==
    [][\A u \in Users :
         Exists(u) /\ ~Enabled(u) /\ invites[u] = "used" /\ Enabled(u)' =>
            \E c \in Conns :
                /\ requests[c] # None
                /\ requests[c].op = "update"
                /\ requests[c].target = u
                /\ ~requests[c].disabled]_vars

\* The guards against locking oneself out leave one way only to lose the last
\* enabled admin: an update begun by an admin who was disabled or demoted since.
LastAdminIsLostOnlyByRace ==
    [][(\E u \in Users : EnabledAdmin(u)) /\ ~(\E u \in Users : EnabledAdmin(u))' =>
          \E c \in Conns :
              /\ requests[c] # None
              /\ requests[c].op = "update"
              /\ ~EnabledAdmin(requests[c].user)]_vars

(* The inductive strengthening of the properties above *)

\* The account is the first admin's, or its invitation was accepted.
Settled(u) == Exists(u) /\ invites[u] \in {"none", "used"}

\* Invitations, sessions and passkeys belong to users that are there, the last two
\* to settled ones.
TablesFit ==
    /\ \A u \in Users : invites[u] # "none" => Exists(u)
    /\ \A u \in sessions : Settled(u)
    /\ \A k \in Keys : keys[k] # None => Settled(keys[k])

\* The challenge of a registration names whom it registers.
ChallengesFit ==
    \A h \in Challenges :
        challenges[h] # None /\ challenges[h].kind # "login" => challenges[h].user \in Users

\* What the checks at the beginning of a request and its steps so far have left
\* true of it.
Fits(r) ==
    /\ r.op \in {"remove", "update", "invite"} => r.at = "persist"
    /\ r.op \in {"add", "remove", "update", "invite"} => r.user \in Users /\ Settled(r.user)
    /\ r.op = "enroll" => r.user \in Users /\ invites[r.user] # "none"
    /\ r.op = "setup" /\ r.at # "consume" => r.user \in Users
    /\ r.op \in {"update", "invite"} => r.target \in Users /\ r.role \in Roles
    /\ r.op = "update" /\ r.target = r.user => ~r.disabled /\ r.role = "admin"
    /\ r.at = "consume" => r.challenge \in Challenges
    /\ r.at = "verify" => r.op = "login"
    /\ r.at = "session" => r.user \in Users /\ Settled(r.user)
    /\ r.at = "persist" => r.op # "login" /\ (r.op \notin {"update", "invite"} => r.key \in Keys)
    /\ r.at \in {"verify", "persist", "session"} /\ r.challenge # None =>
           challenges[r.challenge] = None

RequestsFit == \A c \in Conns : requests[c] # None => Fits(requests[c])

\* The inductive invariant: what every request in progress may rely on although
\* it does not check it again, and what the tables keep.
IInv == TypeOK /\ TablesFit /\ ChallengesFit /\ RequestsFit /\ OneFirstAdmin
=============================================================================
