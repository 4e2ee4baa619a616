------------------------------ MODULE Sessions ------------------------------
(***************************************************************************)
(* The login session of a browser: SessionLoader and RequireAuth           *)
(* (http/middleware/auth.go), the CSRF middleware (csrf.go), the handlers  *)
(* that open and close a session (http/handlers/admin.go) and the sessions *)
(* table behind them (store/sqlite/auth_store.go).                         *)
(*                                                                         *)
(* One browser of one user has several tabs, with one request of each in   *)
(* flight.  A request takes the cookies of the jar along when it is sent;  *)
(* the server reads, deletes and creates rows in steps of their own; its   *)
(* answer sets cookies when it arrives, in any order, if it arrives.       *)
(*                                                                         *)
(* A page has the token of the CSRF cookie, as CSRFToken(r) returns it:    *)
(* its forms and scripts send that one.  A session has the token that the  *)
(* CSRF cookie had when the session was created.                           *)
(*                                                                         *)
(* An id or a token that occurs nowhere stands for one never drawn before. *)
(***************************************************************************)
EXTENDS FiniteSets

CONSTANTS
    Tabs,    \* tabs of the browser
    Ids,     \* session ids that randomID may return
    Tokens,  \* tokens that randomToken may return
    None     \* no cookie, no row, no token

Row == [token: Tokens, expired: BOOLEAN]

ASSUME NoneAssumption == None \notin Ids \cup Tokens \cup Row

VARIABLES
    sessions,  \* the sessions table
    disabled,  \* whether an admin has disabled the user
    jar,       \* the browser's two cookies
    pages,     \* the page in each tab
    requests,  \* the request of each tab
    lost       \* whether the browser has ever lost a CSRF cookie

vars == <<sessions, disabled, jar, pages, requests, lost>>

NoPage == [session |-> None, token |-> None]

\* A page remembers the session that it was rendered in.
Page == [session: Ids \cup {None}, token: Tokens \cup {None}]

Gets    == {"admin", "signin"}           \* a page of the admin area, the login page

\* "login" is any ceremony that ends in createAdminSession, setup and enrollment
\* included; "save" is any other form of the admin area.
Posts == {"login", "logout", "save"}

Request ==
    [at: {"idle", "sent", "discard", "handle", "create", "answer"},
     op: Gets \cup Posts,
     session: Ids \cup {None},    \* the session cookie it was sent with
     cookie: Tokens \cup {None},  \* the CSRF cookie it was sent with
     token: Tokens \cup {None},   \* the token of its page
     want: Tokens \cup {None},    \* sessionCSRFToken, when a user was loaded
     set: Tokens \cup {None},     \* the CSRF cookie that is set
     new: Ids \cup {None},        \* the session cookie that is set
     clear: BOOLEAN,              \* whether the session cookie is cleared
     failed: BOOLEAN,             \* whether its DeleteSession has failed
     page: Page \cup {None}]      \* the page of the answer: NoPage is a redirect,
                                  \* None leaves the tab's page where it is

Idle == [at |-> "idle", op |-> "admin", session |-> None, cookie |-> None,
         token |-> None, want |-> None, set |-> None, new |-> None,
         clear |-> FALSE, failed |-> FALSE, page |-> None]

\* Types of the table, the browser and the requests.
TypeOK ==
    /\ sessions \in [Ids -> Row \cup {None}]
    /\ disabled \in BOOLEAN
    /\ jar \in [session: Ids \cup {None}, csrf: Tokens \cup {None}]
    /\ pages \in [Tabs -> Page]
    /\ requests \in [Tabs -> Request]
    /\ lost \in BOOLEAN

Init ==
    /\ sessions = [i \in Ids |-> None]
    /\ disabled = FALSE
    /\ jar = [session |-> None, csrf |-> None]
    /\ pages = [t \in Tabs |-> NoPage]
    /\ requests = [t \in Tabs |-> Idle]
    /\ lost = FALSE

-----------------------------------------------------------------------------
(* Reading *)

\* The ids and tokens that a request or its answer has.
IdsOf(r)    == {r.session, r.new} \cup (IF r.page = None THEN {} ELSE {r.page.session})
TokensOf(r) == {r.cookie, r.token, r.want, r.set}
                  \cup (IF r.page = None THEN {} ELSE {r.page.token})

\* randomID and randomToken.
FreshId(i) ==
    /\ sessions[i] = None /\ jar.session # i
    /\ \A t \in Tabs : pages[t].session # i /\ i \notin IdsOf(requests[t])

FreshToken(k) ==
    /\ jar.csrf # k
    /\ \A i \in Ids : sessions[i] # None => sessions[i].token # k
    /\ \A t \in Tabs : pages[t].token # k /\ k \notin TokensOf(requests[t])

At(t, l)    == requests[t].at = l
GoOn(t, r)  == requests' = [requests EXCEPT ![t] = r]
Signed(r)   == r.want # None
NeedsUser(r) == r.op \in {"admin", "save", "logout"}

\* Fault: the session is not asked, the cookie's token will do.
CookieTokenWillDo(r, k) == r.token = k

\* CSRF: what a form must bring, k being the token of the cookie.
RightToken(r, k) == r.token = IF Signed(r) THEN r.want ELSE k

\* Fault: a page of the admin area gets a token of its own.
CookieTokenAgain(r, k) ==
    IF r.cookie # None /\ ~Signed(r) THEN k = r.cookie ELSE FreshToken(k)

\* ensureCSRFCookie: the cookie's token, or a new one.
CookieToken(r, k) == IF r.cookie # None THEN k = r.cookie ELSE FreshToken(k)

\* RequireAuth has let the request through, and CSRF has settled on token k.
Reached(t, ops, k) ==
    /\ At(t, "handle")
    /\ requests[t].op \in ops
    /\ NeedsUser(requests[t]) => Signed(requests[t])
    /\ CookieToken(requests[t], k)

\* The answer to request r, after CSRF has settled on token k.
NewCookie(r, k) == IF r.cookie = None THEN k ELSE None
Answered(r, k, page) ==
    [Idle EXCEPT !.at = "answer", !.session = r.session, !.clear = r.clear,
                 !.failed = r.failed, !.set = NewCookie(r, k), !.page = page]

-----------------------------------------------------------------------------
(* The browser *)

Sent(t, o, k) ==
    GoOn(t, [Idle EXCEPT !.at = "sent", !.op = o, !.session = jar.session,
                         !.cookie = jar.csrf, !.token = k])

\* A page is asked for.
Open(t, o) ==
    /\ At(t, "idle")
    /\ o \in Gets
    /\ Sent(t, o, None)
    /\ UNCHANGED <<sessions, disabled, jar, pages, lost>>

\* A form is sent: from the login page a passkey, from another page anything else.
Submit(t, o) ==
    /\ At(t, "idle")
    /\ pages[t] # NoPage
    /\ o \in Posts
    /\ o = "login" <=> pages[t].session = None
    /\ Sent(t, o, pages[t].token)
    /\ UNCHANGED <<sessions, disabled, jar, pages, lost>>

\* What an answer makes of the cookies: a deletion comes before a new session.
SetCookies(r) ==
    [session |-> IF r.new # None THEN r.new
                 ELSE IF r.clear THEN None ELSE jar.session,
     csrf |-> IF r.set # None THEN r.set ELSE jar.csrf]

\* The answer arrives.
Deliver(t) ==
    LET r == requests[t]
    IN  /\ At(t, "answer")
        /\ jar' = SetCookies(r)
        /\ lost' = (lost \/ (jar.csrf # None /\ jar'.csrf # jar.csrf))
        /\ pages' = IF r.page = None THEN pages ELSE [pages EXCEPT ![t] = r.page]
        /\ GoOn(t, Idle)
        /\ UNCHANGED <<sessions, disabled>>

\* The answer does not arrive.
Lose(t) ==
    /\ At(t, "answer")
    /\ GoOn(t, Idle)
    /\ UNCHANGED <<sessions, disabled, jar, pages, lost>>

\* The browser is closed and opened again.  The CSRF cookie has no expiry date
\* and goes; the session cookie has one and stays.  Nobody waits for answers.
Restart ==
    /\ jar' = [jar EXCEPT !.csrf = None]
    /\ pages' = [t \in Tabs |-> NoPage]
    /\ requests' = [t \in Tabs |-> Idle]
    /\ lost' = TRUE
    /\ UNCHANGED <<sessions, disabled>>

\* The session cookie expires with its row.
CookieExpires ==
    /\ jar.session # None
    /\ sessions[jar.session] # None => sessions[jar.session].expired
    /\ jar' = [jar EXCEPT !.session = None]
    /\ UNCHANGED <<sessions, disabled, pages, requests, lost>>

-----------------------------------------------------------------------------
(* The server: SessionLoader *)

\* Fault: any error clears the cookie.
ClearedAnyway(r) == [Answered(r, r.cookie, None) EXCEPT !.clear = TRUE]

\* GetSessionUser fails, and the answer is an internal error.
LoadFailed(r) == Answered(r, r.cookie, None)

LoadFails(t) ==
    /\ At(t, "sent")
    /\ requests[t].session # None
    /\ GoOn(t, LoadFailed(requests[t]))
    /\ UNCHANGED <<sessions, disabled, jar, pages, lost>>

\* GetSessionUser: there is no cookie, no row, a dead row, or a user.
Load(t) ==
    LET r   == requests[t]
        row == sessions[r.session]
    IN  /\ At(t, "sent")
        /\ GoOn(t, CASE r.session = None -> [r EXCEPT !.at = "handle"]
                     [] r.session # None /\ row = None ->
                          [r EXCEPT !.at = "handle", !.clear = TRUE]
                     [] r.session # None /\ row # None /\ (row.expired \/ disabled) ->
                          [r EXCEPT !.at = "discard"]
                     [] OTHER -> [r EXCEPT !.at = "handle", !.want = row.token])
        /\ UNCHANGED <<sessions, disabled, jar, pages, lost>>

\* DeleteSession, with or without effect: its error is ignored.
Deleted(i, failed) ==
    IF failed THEN UNCHANGED sessions ELSE sessions' = [sessions EXCEPT ![i] = None]

\* A dead row is deleted and its cookie cleared.
Discard(t) ==
    /\ At(t, "discard")
    /\ \E failed \in BOOLEAN :
          /\ Deleted(requests[t].session, failed)
          /\ GoOn(t, [requests[t] EXCEPT !.at = "handle", !.clear = TRUE,
                                         !.failed = failed])
    /\ UNCHANGED <<disabled, jar, pages, lost>>

-----------------------------------------------------------------------------
(* The server: RequireAuth, CSRF and the handlers *)

\* RequireAuth sends to the login page before CSRF has seen the request.
Unsigned(t) ==
    /\ At(t, "handle")
    /\ NeedsUser(requests[t]) /\ ~Signed(requests[t])
    /\ GoOn(t, Answered(requests[t], requests[t].cookie, NoPage))
    /\ UNCHANGED <<sessions, disabled, jar, pages, lost>>

\* Dashboard and the other pages; LoginPage sends a user who is signed in away.
Render(t) ==
    /\ \E k \in Tokens :
          /\ Reached(t, Gets, k)
          /\ LET r == requests[t]
             IN  GoOn(t, Answered(r, k,
                           IF r.op = "signin" /\ Signed(r) THEN NoPage
                           ELSE [session |-> IF Signed(r) THEN r.session ELSE None,
                                 token |-> k]))
    /\ UNCHANGED <<sessions, disabled, jar, pages, lost>>

\* A form is answered with an error: its token is wrong, or the rate limit, the
\* passkey or the form itself is refused.
Decline(t) ==
    /\ \E k \in Tokens : Reached(t, Posts, k) /\ GoOn(t, Answered(requests[t], k, None))
    /\ UNCHANGED <<sessions, disabled, jar, pages, lost>>

\* A form of the admin area is carried out.
Save(t) ==
    /\ \E k \in Tokens :
          /\ Reached(t, {"save"}, k)
          /\ RightToken(requests[t], k)
          /\ GoOn(t, Answered(requests[t], k, None))
    /\ UNCHANGED <<sessions, disabled, jar, pages, lost>>

\* PasskeyLoginFinish: the passkey is good and its user not disabled.
Verify(t) ==
    /\ \E k \in Tokens :
          /\ Reached(t, {"login"}, k)
          /\ RightToken(requests[t], k)
          /\ GoOn(t, [requests[t] EXCEPT !.at = "create", !.set = NewCookie(requests[t], k)])
    /\ ~disabled
    /\ UNCHANGED <<sessions, disabled, jar, pages, lost>>

\* CSRFToken.
CSRFToken(r) == IF r.cookie = None THEN r.set ELSE r.cookie

\* createAdminSession: the row has the token of the CSRF cookie.
Create(t) ==
    LET r == requests[t]
    IN  /\ At(t, "create")
        /\ \E i \in Ids :
              /\ FreshId(i)
              /\ sessions' = [sessions EXCEPT ![i] = [token |-> CSRFToken(r), expired |-> FALSE]]
              /\ GoOn(t, [Answered(r, CSRFToken(r), None) EXCEPT !.new = i])
        /\ UNCHANGED <<disabled, jar, pages, lost>>

\* CreateSession fails; an insert whose answer was lost has left its row.
CreateFails(t) ==
    LET r == requests[t]
    IN  /\ At(t, "create")
        /\ \/ UNCHANGED sessions
           \/ \E i \in Ids :
                 /\ FreshId(i)
                 /\ sessions' = [sessions EXCEPT ![i] =
                                    [token |-> CSRFToken(r), expired |-> FALSE]]
        /\ GoOn(t, Answered(r, CSRFToken(r), None))
        /\ UNCHANGED <<disabled, jar, pages, lost>>

\* Logout: the row goes, unless the delete fails, and the cookie in any case.
Logout(t) ==
    /\ \E k \in Tokens, failed \in BOOLEAN :
          /\ Reached(t, {"logout"}, k)
          /\ RightToken(requests[t], k)
          /\ Deleted(requests[t].session, failed)
          /\ GoOn(t, [Answered(requests[t], k, NoPage) EXCEPT
                         !.clear = TRUE, !.failed = failed])
    /\ UNCHANGED <<disabled, jar, pages, lost>>

-----------------------------------------------------------------------------
(* Time and admins *)

SessionExpires(i) ==
    /\ sessions[i] # None /\ ~sessions[i].expired
    /\ sessions' = [sessions EXCEPT ![i].expired = TRUE]
    /\ UNCHANGED <<disabled, jar, pages, requests, lost>>

\* UpdateUser sets the flag and leaves the sessions alone.
SetDisabled ==
    /\ disabled' = ~disabled
    /\ UNCHANGED <<sessions, jar, pages, requests, lost>>

Next ==
    \/ \E t \in Tabs :
          \/ \E o \in Gets : Open(t, o)
          \/ \E o \in Posts : Submit(t, o)
          \/ Deliver(t) \/ Lose(t)
          \/ LoadFails(t) \/ Load(t) \/ Discard(t)
          \/ Unsigned(t) \/ Render(t) \/ Decline(t) \/ Save(t)
          \/ Verify(t) \/ Create(t) \/ CreateFails(t) \/ Logout(t)
    \/ Restart
    \/ CookieExpires
    \/ \E i \in Ids : SessionExpires(i)
    \/ SetDisabled

Spec == Init /\ [][Next]_vars

-----------------------------------------------------------------------------
(* Properties *)

Live(i) == sessions[i] # None /\ ~sessions[i].expired /\ ~disabled

\* The session cookie opens the admin area.
SignedIn(i) == jar.session = i /\ Live(i)

\* Every form of a page of the admin area can be sent: as long as the browser
\* is in the session in which the page was rendered, the page has the token
\* that CSRF asks for.  A browser that was closed in between refutes it.
FormsWork ==
    \A t \in Tabs, i \in Ids :
        pages[t].session = i /\ SignedIn(i) => pages[t].token = sessions[i].token

\* Only a browser that has lost its CSRF cookie once, by a restart or because
\* two answers of a fresh browser brought a token each, has pages whose forms
\* are refused.
FormsFailOnlyAfterCookieLoss == FormsWork \/ lost

\* The cookie of a session that is alive is cleared only by the answer to a
\* request that was sent in another session, or one whose DeleteSession failed.
LiveCookieClearedOnlyByLateAnswer ==
    [][\A i \in Ids :
          SignedIn(i) /\ jar'.session = None =>
             \E t \in Tabs : /\ Deliver(t)
                             /\ requests[t].session # i \/ requests[t].failed]_vars

\* Nobody has the token of session i: no page, no request, no cookie; and no
\* request is about to discard the row.
Stuck(i) ==
    /\ SignedIn(i)
    /\ jar.csrf # sessions[i].token
    /\ \A t \in Tabs :
          /\ pages[t].token # sessions[i].token
          /\ sessions[i].token \notin TokensOf([requests[t] EXCEPT !.want = None])
          /\ ~(At(t, "discard") /\ requests[t].session = i)

\* A browser that has lost the token of its session is stuck in it: it can
\* neither sign out, since the form of Logout is refused like every other, nor
\* sign in again, since LoginPage sends it away, until the session expires or
\* its user is disabled.  No row goes and no token comes back before.
StuckUntilExpiry ==
    [][\A i \in Ids :
          Stuck(i) =>
             /\ sessions'[i] # None
             /\ sessions'[i].expired \/ disabled' \/ jar'.session # i \/ Stuck(i)']_vars

-----------------------------------------------------------------------------
(* The inductive invariant of FormsFailOnlyAfterCookieLoss and of the two      *)
(* action properties.                                                          *)

\* What a request knows of its session is still so, unless the row is gone.
Fits(r) ==
    /\ r.want # None => /\ r.session # None
                        /\ sessions[r.session] # None => sessions[r.session].token = r.want
    /\ r.clear /\ ~r.failed /\ r.session # None => sessions[r.session] = None
    /\ r.at = "create" /\ r.cookie = None => r.set # None
    /\ r.at # "answer" => r.new = None /\ r.page = None

\* The CSRF cookie once the answer to r has come.
Coming(r) == IF r.set # None THEN r.set ELSE jar.csrf

\* The page and the session that r brings have that cookie's token.
SameToken(r) ==
    /\ r.cookie # None => r.cookie = jar.csrf
    /\ r.page # None /\ r.page # NoPage => Coming(r) # None /\ r.page.token = Coming(r)
    /\ r.new # None /\ sessions[r.new] # None => sessions[r.new].token = Coming(r)

\* A browser that has never lost a token has one only, at most.
OneToken ==
    ~lost =>
        /\ \A t \in Tabs : SameToken(requests[t])
        /\ \A t \in Tabs : pages[t] # NoPage => jar.csrf # None /\ pages[t].token = jar.csrf
        /\ jar.session # None /\ sessions[jar.session] # None
              => sessions[jar.session].token = jar.csrf

IInv == TypeOK /\ (\A t \in Tabs : Fits(requests[t])) /\ OneToken
=============================================================================
