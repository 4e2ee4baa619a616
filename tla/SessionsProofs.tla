---------------------------- MODULE SessionsProofs ----------------------------
(***************************************************************************)
(* Proofs about Sessions, for every number of tabs, sessions and tokens.   *)
(***************************************************************************)
EXTENDS Sessions, TLAPS

-----------------------------------------------------------------------------
(* Requests *)

\* An answer is a request of the model, and what is in it.
LEMMA AnsweredFits ==
    ASSUME NEW r \in Request, NEW k \in Tokens \cup {None}, NEW page \in Page \cup {None}
    PROVE  /\ Answered(r, k, page) \in Request
           /\ Answered(r, k, page).at = "answer"
           /\ Answered(r, k, page).session = r.session
           /\ Answered(r, k, page).clear = r.clear
           /\ Answered(r, k, page).failed = r.failed
           /\ Answered(r, k, page).set = (IF r.cookie = None THEN k ELSE None)
           /\ Answered(r, k, page).page = page
           /\ Answered(r, k, page).new = None
           /\ Answered(r, k, page).want = None
           /\ Answered(r, k, page).cookie = None
           /\ Answered(r, k, page).token = None
<1>1. r.session \in Ids \cup {None} /\ r.clear \in BOOLEAN /\ r.failed \in BOOLEAN
  BY DEF Request
<1>2. NewCookie(r, k) \in Tokens \cup {None}
  BY DEF NewCookie
<1>3. Answered(r, k, page) \in Request
  BY <1>1, <1>2 DEF Answered, Idle, Request, Gets
<1>4. /\ Answered(r, k, page).at = "answer"
      /\ Answered(r, k, page).session = r.session
      /\ Answered(r, k, page).page = page
      /\ Answered(r, k, page).new = None
      /\ Answered(r, k, page).want = None
      /\ Answered(r, k, page).cookie = None
      /\ Answered(r, k, page).token = None
  BY DEF Answered, Idle
<1>5. Answered(r, k, page).set = (IF r.cookie = None THEN k ELSE None)
  BY DEF Answered, Idle, NewCookie
<1>6. Answered(r, k, page).clear = r.clear /\ Answered(r, k, page).failed = r.failed
  BY <1>1 DEF Answered, Idle
<1> QED BY <1>3, <1>4, <1>5, <1>6

\* The idle request knows nothing.
LEMMA IdleFits ==
    /\ Idle \in Request
    /\ Fits(Idle) /\ SameToken(Idle)
BY DEF Idle, Request, Gets, Posts, Fits, SameToken

\* NoPage is a page.
LEMMA NoPageFits == NoPage \in Page
BY DEF NoPage, Page

\* The rows that r knows stay as they are or go.
RowsStay(r) ==
    \A i \in IdsOf(r) \cap Ids :
        sessions'[i] # None => sessions[i] # None /\ sessions'[i].token = sessions[i].token

\* What r knows stays so.
LEMMA FitsStays ==
    ASSUME NEW r \in Request, Fits(r), RowsStay(r)
    PROVE  Fits(r)'
<1>1. r.session \in IdsOf(r) /\ r.session \in Ids \cup {None}
  BY DEF IdsOf, Request
<1>2. r.session # None /\ sessions'[r.session] # None =>
         sessions[r.session] # None /\ sessions'[r.session].token = sessions[r.session].token
  BY <1>1 DEF RowsStay
<1> QED BY <1>2 DEF Fits

\* What r brings keeps its token.
LEMMA SameTokenStays ==
    ASSUME NEW r \in Request, SameToken(r), RowsStay(r), jar'.csrf = jar.csrf
    PROVE  SameToken(r)'
<1>1. r.new \in IdsOf(r) /\ r.new \in Ids \cup {None}
  BY DEF IdsOf, Request
<1>2. r.new # None /\ sessions'[r.new] # None =>
         sessions[r.new] # None /\ sessions'[r.new].token = sessions[r.new].token
  BY <1>1 DEF RowsStay
<1> QED BY <1>2 DEF SameToken, Coming

\* A step of the server: one request goes on, and rows may go or be added.
LEMMA ServerStep ==
    ASSUME IInv, NEW t \in Tabs, NEW r \in Request, GoOn(t, r),
           sessions' \in [Ids -> Row \cup {None}],
           UNCHANGED <<disabled, jar, pages, lost>>,
           \A u \in Tabs : RowsStay(requests[u]),
           jar.session # None /\ sessions'[jar.session] # None =>
              /\ sessions[jar.session] # None
              /\ sessions'[jar.session].token = sessions[jar.session].token,
           Fits(r)', ~lost => SameToken(r)'
    PROVE  IInv'
<1>1. /\ requests' \in [Tabs -> Request]
      /\ \A u \in Tabs : requests'[u] = IF u = t THEN r ELSE requests[u]
  BY DEF GoOn, IInv, TypeOK
<1>2. ASSUME NEW u \in Tabs
      PROVE  /\ Fits(requests[u])'
             /\ ~lost => SameToken(requests[u])'
  <2>1. CASE u = t
    <3>1. requests'[u] = r
      BY <1>1, <2>1
    <3> QED BY <3>1 DEF Fits, SameToken, Coming
  <2>2. CASE u # t
    <3>1. PICK q \in Request : q = requests[u]
      BY DEF IInv, TypeOK
    <3>2. requests'[u] = q
      BY <1>1, <2>2, <3>1
    <3>3. RowsStay(q) /\ Fits(q) /\ (~lost => SameToken(q))
      BY <3>1 DEF IInv, OneToken
    <3>4. Fits(q)' /\ (~lost => SameToken(q)')
      BY <3>3, FitsStays, SameTokenStays
    <3> QED BY <3>2, <3>4 DEF Fits, SameToken, Coming
  <2> QED BY <2>1, <2>2
<1>3. OneToken'
  BY <1>2 DEF IInv, OneToken
<1> QED BY <1>1, <1>2, <1>3 DEF IInv, TypeOK

\* A step of the server that leaves the table alone.
LEMMA ReadingStep ==
    ASSUME IInv, NEW t \in Tabs, NEW r \in Request, GoOn(t, r),
           UNCHANGED <<sessions, disabled, jar, pages, lost>>,
           Fits(r), ~lost => SameToken(r)
    PROVE  IInv'
<1>1. \A u \in Tabs : RowsStay(requests[u])
  BY DEF RowsStay
<1>2. Fits(r)' /\ (~lost => SameToken(r)')
  BY DEF Fits, SameToken, Coming
<1>3. sessions' \in [Ids -> Row \cup {None}]
  BY DEF IInv, TypeOK
<1> QED BY <1>1, <1>2, <1>3, ServerStep

\* The answer to a request that CSRF has settled on token k for.
LEMMA AnsweredKnows ==
    ASSUME NEW r \in Request, Fits(r), ~lost => SameToken(r),
           NEW k \in Tokens \cup {None}, r.cookie # None => k = r.cookie,
           NEW page \in Page \cup {None},
           page # None /\ page # NoPage => k # None /\ page.token = k
    PROVE  /\ Fits(Answered(r, k, page))
           /\ ~lost => SameToken(Answered(r, k, page))
<1>1. Fits(Answered(r, k, page))
  BY AnsweredFits DEF Fits
<1>2. ~lost => SameToken(Answered(r, k, page))
  BY AnsweredFits DEF SameToken, Coming
<1> QED BY <1>1, <1>2

\* What is known of a request of a reachable state.
LEMMA Known ==
    ASSUME IInv, NEW t \in Tabs
    PROVE  /\ requests[t] \in Request /\ Fits(requests[t])
           /\ ~lost => SameToken(requests[t])
BY DEF IInv, TypeOK, OneToken

\* CSRF settles on the cookie's token or on one that is new.
LEMMA ReachedToken ==
    ASSUME NEW t \in Tabs, NEW ops, NEW k \in Tokens, Reached(t, ops, k)
    PROVE  /\ requests[t].cookie # None => k = requests[t].cookie
           /\ requests[t].cookie = None => FreshToken(k)
           /\ At(t, "handle")
BY DEF Reached, CookieToken

-----------------------------------------------------------------------------
(* The browser *)

LEMMA InitFits ==
    ASSUME Init
    PROVE  IInv
<1>1. TypeOK
  BY IdleFits, NoPageFits DEF Init, TypeOK
<1> QED BY <1>1, IdleFits DEF Init, IInv, OneToken

LEMMA SentFits ==
    ASSUME IInv, NEW t \in Tabs, NEW o \in Gets \cup Posts, NEW k \in Tokens \cup {None},
           Sent(t, o, k), UNCHANGED <<sessions, disabled, jar, pages, lost>>
    PROVE  IInv'
<1> DEFINE r == [Idle EXCEPT !.at = "sent", !.op = o, !.session = jar.session,
                             !.cookie = jar.csrf, !.token = k]
<1>1. r \in Request
  BY DEF Idle, Request, IInv, TypeOK
<1>2. Fits(r)
  BY DEF Idle, Fits
<1>3. SameToken(r)
  BY DEF Idle, SameToken
<1>4. GoOn(t, r)
  BY DEF Sent
<1> HIDE DEF r
<1> QED BY <1>1, <1>2, <1>3, <1>4, ReadingStep

LEMMA OpenFits ==
    ASSUME IInv, NEW t \in Tabs, NEW o \in Gets, Open(t, o)
    PROVE  IInv'
BY SentFits DEF Open

LEMMA SubmitFits ==
    ASSUME IInv, NEW t \in Tabs, NEW o \in Posts, Submit(t, o)
    PROVE  IInv'
<1>1. pages[t].token \in Tokens \cup {None}
  BY DEF IInv, TypeOK, Page
<1> QED BY <1>1, SentFits DEF Submit

LEMMA LoseFits ==
    ASSUME IInv, NEW t \in Tabs, Lose(t)
    PROVE  IInv'
BY IdleFits, ReadingStep DEF Lose

LEMMA DeliverFits ==
    ASSUME IInv, NEW t \in Tabs, Deliver(t)
    PROVE  IInv'
<1> DEFINE r == requests[t]
<1>1. r \in Request /\ Fits(r) /\ (~lost => SameToken(r))
  BY Known
<1>2. /\ jar' \in [session: Ids \cup {None}, csrf: Tokens \cup {None}]
      /\ jar'.csrf = Coming(r)
      /\ jar'.session = IF r.new # None THEN r.new
                        ELSE IF r.clear THEN None ELSE jar.session
  BY <1>1 DEF Deliver, SetCookies, Coming, IInv, TypeOK, Request
<1>3. pages' \in [Tabs -> Page]
  BY <1>1 DEF Deliver, IInv, TypeOK, Request
<1>4. requests' \in [Tabs -> Request] /\ requests'[t] = Idle
      /\ \A u \in Tabs \ {t} : requests'[u] = requests[u]
  BY IdleFits DEF Deliver, GoOn, IInv, TypeOK
<1>5. TypeOK'
  BY <1>2, <1>3, <1>4 DEF Deliver, IInv, TypeOK
<1>6. \A u \in Tabs : Fits(requests[u])'
  BY <1>4, IdleFits DEF Deliver, IInv, Fits
<1>7. ASSUME ~lost'
      PROVE  /\ \A u \in Tabs : SameToken(requests[u])'
             /\ \A u \in Tabs : pages'[u] # NoPage => jar'.csrf # None /\ pages'[u].token = jar'.csrf
             /\ jar'.session # None /\ sessions'[jar'.session] # None
                   => sessions'[jar'.session].token = jar'.csrf
  <2>1. ~lost /\ (jar.csrf # None => jar'.csrf = jar.csrf)
    BY <1>7 DEF Deliver, IInv, TypeOK
  <2>2. ASSUME NEW u \in Tabs
        PROVE  SameToken(requests[u])'
    <3>1. CASE u = t
      BY <1>4, <3>1 DEF SameToken, Idle
    <3>2. CASE u # t
      <4>1. requests'[u] = requests[u] /\ requests[u] \in Request /\ SameToken(requests[u])
        BY <1>4, <2>1, <3>2, Known
      <4>2. requests[u].cookie \in Tokens \cup {None}
        BY <4>1 DEF Request
      <4>3. requests[u].new # None /\ sessions[requests[u].new] # None
               => sessions[requests[u].new].token # None
        BY <4>1, NoneAssumption DEF IInv, TypeOK, Row, Request
      <4> QED BY <2>1, <4>1, <4>2, <4>3 DEF SameToken, Coming, Deliver
    <3> QED BY <3>1, <3>2
  <2>3. ASSUME NEW u \in Tabs, pages'[u] # NoPage
        PROVE  jar'.csrf # None /\ pages'[u].token = jar'.csrf
    <3>1. CASE u = t /\ r.page # None
      BY <1>1, <1>2, <2>1, <2>3, <3>1 DEF Deliver, IInv, TypeOK, SameToken
    <3>2. CASE ~(u = t /\ r.page # None)
      <4>1. pages'[u] = pages[u]
        BY <3>2 DEF Deliver, IInv, TypeOK
      <4> QED BY <2>1, <2>3, <4>1 DEF IInv, OneToken
    <3> QED BY <3>1, <3>2
  <2>4. ASSUME jar'.session # None, sessions'[jar'.session] # None
        PROVE  sessions'[jar'.session].token = jar'.csrf
    <3>1. sessions' = sessions
      BY DEF Deliver
    <3>2. CASE r.new # None
      BY <1>1, <1>2, <2>1, <2>4, <3>1, <3>2 DEF SameToken
    <3>3. CASE r.new = None
      <4>1. jar'.session = jar.session
        BY <1>2, <2>4, <3>3
      <4>2. sessions[jar.session].token = jar.csrf
        BY <2>1, <2>4, <3>1, <4>1 DEF IInv, OneToken
      <4>3. sessions[jar.session].token # None
        BY <2>4, <3>1, <4>1, NoneAssumption DEF IInv, TypeOK, Row
      <4> QED BY <2>1, <3>1, <4>1, <4>2, <4>3
    <3> QED BY <3>2, <3>3
  <2> QED BY <2>2, <2>3, <2>4
<1>8. OneToken'
  BY <1>7 DEF OneToken
<1> QED BY <1>5, <1>6, <1>8 DEF IInv

LEMMA RestartFits ==
    ASSUME IInv, Restart
    PROVE  IInv'
<1>1. TypeOK'
  BY IdleFits, NoPageFits DEF Restart, IInv, TypeOK
<1>2. \A u \in Tabs : Fits(requests[u])'
  BY DEF Restart, Fits, Idle
<1> QED BY <1>1, <1>2 DEF Restart, IInv, OneToken

LEMMA CookieExpiresFits ==
    ASSUME IInv, CookieExpires
    PROVE  IInv'
<1>1. jar'.session = None /\ jar'.csrf = jar.csrf
      /\ jar' \in [session: Ids \cup {None}, csrf: Tokens \cup {None}]
  BY DEF CookieExpires, IInv, TypeOK
<1>2. \A u \in Tabs : Fits(requests[u])'
  BY DEF CookieExpires, IInv, Fits
<1>3. OneToken'
  BY <1>1 DEF CookieExpires, IInv, OneToken, SameToken, Coming
<1> QED BY <1>1, <1>2, <1>3 DEF CookieExpires, IInv, TypeOK

-----------------------------------------------------------------------------
(* The server *)

LEMMA LoadFailsFits ==
    ASSUME IInv, NEW t \in Tabs, LoadFails(t)
    PROVE  IInv'
<1> DEFINE r == requests[t]
<1>1. r \in Request /\ Fits(r) /\ (~lost => SameToken(r)) /\ r.cookie \in Tokens \cup {None}
  BY Known DEF Request
<1>2. LoadFailed(r) \in Request
  BY <1>1, AnsweredFits DEF LoadFailed
<1>3. Fits(LoadFailed(r)) /\ (~lost => SameToken(LoadFailed(r)))
  BY <1>1, AnsweredKnows DEF LoadFailed
<1> QED BY <1>2, <1>3, ReadingStep DEF LoadFails

LEMMA LoadFits ==
    ASSUME IInv, NEW t \in Tabs, Load(t)
    PROVE  IInv'
<1> DEFINE r == requests[t]
<1>1. /\ r \in Request /\ Fits(r) /\ (~lost => SameToken(r)) /\ r.session \in Ids \cup {None}
      /\ r.at = "sent"
  BY Known DEF Request, Load, At
<1>2. CASE r.session = None
  <2> DEFINE q == [r EXCEPT !.at = "handle"]
  <2>1. q \in Request /\ Fits(q) /\ (~lost => SameToken(q))
    BY <1>1 DEF Request, Fits, SameToken, Coming
  <2>2. GoOn(t, q)
    BY <1>2 DEF Load
  <2> QED BY <2>1, <2>2, ReadingStep DEF Load
<1>3. CASE r.session # None /\ sessions[r.session] = None
  <2> DEFINE q == [r EXCEPT !.at = "handle", !.clear = TRUE]
  <2>1. q \in Request
    BY <1>1 DEF Request
  <2>2. /\ q.session = r.session /\ q.want = r.want /\ q.at = "handle" /\ q.set = r.set
        /\ q.new = r.new /\ q.page = r.page /\ q.cookie = r.cookie
    BY <1>1 DEF Request
  <2>3. GoOn(t, q)
    BY <1>3 DEF Load
  <2> HIDE DEF q
  <2>4. Fits(q) /\ (~lost => SameToken(q))
    BY <1>1, <1>3, <2>2 DEF Fits, SameToken, Coming
  <2> QED BY <2>1, <2>3, <2>4, ReadingStep DEF Load
<1>4. CASE r.session # None /\ sessions[r.session] # None
           /\ (sessions[r.session].expired \/ disabled)
  <2> DEFINE q == [r EXCEPT !.at = "discard"]
  <2>1. q \in Request /\ Fits(q) /\ (~lost => SameToken(q))
    BY <1>1 DEF Request, Fits, SameToken, Coming
  <2>2. GoOn(t, q)
    BY <1>4 DEF Load
  <2> QED BY <2>1, <2>2, ReadingStep DEF Load
<1>5. CASE r.session # None /\ sessions[r.session] # None
           /\ ~(sessions[r.session].expired \/ disabled)
  <2> DEFINE q == [r EXCEPT !.at = "handle", !.want = sessions[r.session].token]
  <2>1. sessions[r.session].token \in Tokens
    BY <1>1, <1>5 DEF IInv, TypeOK, Row
  <2>2. q \in Request
    BY <1>1, <2>1 DEF Request
  <2>3. /\ q.session = r.session /\ q.want = sessions[r.session].token /\ q.at = "handle"
        /\ q.clear = r.clear /\ q.failed = r.failed /\ q.set = r.set
        /\ q.new = r.new /\ q.page = r.page /\ q.cookie = r.cookie
    BY <1>1 DEF Request
  <2>4. GoOn(t, q)
    BY <1>5 DEF Load
  <2> HIDE DEF q
  <2>5. Fits(q) /\ (~lost => SameToken(q))
    BY <1>1, <1>5, <2>3 DEF Fits, SameToken, Coming
  <2> QED BY <2>2, <2>4, <2>5, ReadingStep DEF Load
<1> QED BY <1>2, <1>3, <1>4, <1>5

\* A deletion keeps the table well typed, and no other row changes.
LEMMA DeletedFits ==
    ASSUME IInv, NEW i \in Ids \cup {None}, NEW failed \in BOOLEAN, Deleted(i, failed)
    PROVE  /\ sessions' \in [Ids -> Row \cup {None}]
           /\ \A j \in Ids : sessions'[j] = sessions[j] \/ (j = i /\ sessions'[j] = None)
           /\ ~failed /\ i # None => sessions'[i] = None
           /\ \A u \in Tabs : RowsStay(requests[u])
           /\ jar.session # None /\ sessions'[jar.session] # None =>
                 /\ sessions[jar.session] # None
                 /\ sessions'[jar.session].token = sessions[jar.session].token
<1>1. /\ sessions' \in [Ids -> Row \cup {None}]
      /\ \A j \in Ids : sessions'[j] = sessions[j] \/ (j = i /\ sessions'[j] = None)
  BY DEF Deleted, IInv, TypeOK
<1>2. ~failed /\ i # None => sessions'[i] = None
  BY DEF Deleted, IInv, TypeOK
<1>3. \A u \in Tabs : RowsStay(requests[u])
  BY <1>1 DEF RowsStay
<1>4. jar.session \in Ids \cup {None}
  BY DEF IInv, TypeOK
<1> QED BY <1>1, <1>2, <1>3, <1>4

LEMMA DiscardFits ==
    ASSUME IInv, NEW t \in Tabs, Discard(t)
    PROVE  IInv'
<1> DEFINE r == requests[t]
<1>1. /\ r \in Request /\ Fits(r) /\ (~lost => SameToken(r)) /\ r.session \in Ids \cup {None}
      /\ r.at = "discard"
  BY Known DEF Request, Discard, At
<1>2. PICK failed \in BOOLEAN :
         /\ Deleted(r.session, failed)
         /\ GoOn(t, [r EXCEPT !.at = "handle", !.clear = TRUE, !.failed = failed])
  BY DEF Discard
<1> DEFINE q == [r EXCEPT !.at = "handle", !.clear = TRUE, !.failed = failed]
<1>3. PICK p \in Request : p = q
  <2>1. q \in Request
    BY <1>1 DEF Request
  <2> QED BY <2>1
<1>4. RowsStay(r)
  BY <1>1, <1>2, DeletedFits
<1>5. /\ p.session = r.session /\ p.want = r.want /\ p.at = "handle" /\ p.failed = failed
      /\ p.new = r.new /\ p.set = r.set /\ p.page = r.page /\ p.cookie = r.cookie
  BY <1>1, <1>3 DEF Request
<1>6. ~failed /\ r.session # None => sessions'[r.session] = None
  BY <1>1, <1>2, DeletedFits
<1>7. PICK r0 \in Request : r0 = r
  BY <1>1
<1>8. Fits(r0)' /\ (~lost => SameToken(r0)')
  BY <1>1, <1>4, <1>7, FitsStays, SameTokenStays DEF Discard
<1>9. Fits(p)'
  BY <1>1, <1>5, <1>6, <1>7, <1>8 DEF Fits
<1>10. ~lost => SameToken(p)'
  BY <1>5, <1>7, <1>8 DEF SameToken, Coming
<1>11. GoOn(t, p)
  BY <1>2, <1>3
<1> QED BY <1>1, <1>2, <1>9, <1>10, <1>11, DeletedFits, ServerStep DEF Discard

LEMMA UnsignedFits ==
    ASSUME IInv, NEW t \in Tabs, Unsigned(t)
    PROVE  IInv'
<1> DEFINE r == requests[t]
<1>1. r \in Request /\ Fits(r) /\ (~lost => SameToken(r)) /\ r.cookie \in Tokens \cup {None}
  BY Known DEF Request
<1>2. Answered(r, r.cookie, NoPage) \in Request
  BY <1>1, AnsweredFits, NoPageFits
<1>3. /\ Fits(Answered(r, r.cookie, NoPage))
      /\ ~lost => SameToken(Answered(r, r.cookie, NoPage))
  BY <1>1, AnsweredKnows, NoPageFits
<1> QED BY <1>2, <1>3, ReadingStep DEF Unsigned

\* An answer that leaves the table alone, after CSRF has settled on token k.
LEMMA AnswerStep ==
    ASSUME IInv, NEW t \in Tabs, NEW ops, NEW k \in Tokens, Reached(t, ops, k),
           NEW page \in Page \cup {None}, page # None /\ page # NoPage => page.token = k,
           GoOn(t, Answered(requests[t], k, page)),
           UNCHANGED <<sessions, disabled, jar, pages, lost>>
    PROVE  IInv'
<1> DEFINE r == requests[t]
<1>1. r \in Request /\ Fits(r) /\ (~lost => SameToken(r))
  BY Known
<1>2. k # None /\ (r.cookie # None => k = r.cookie)
  BY NoneAssumption, ReachedToken
<1>3. Answered(r, k, page) \in Request
  BY <1>1, AnsweredFits
<1>4. Fits(Answered(r, k, page)) /\ (~lost => SameToken(Answered(r, k, page)))
  BY <1>1, <1>2, AnsweredKnows
<1> QED BY <1>3, <1>4, ReadingStep

LEMMA RenderFits ==
    ASSUME IInv, NEW t \in Tabs, Render(t)
    PROVE  IInv'
<1> DEFINE r == requests[t]
           new(k) == [session |-> IF Signed(r) THEN r.session ELSE None, token |-> k]
           page(k) == IF r.op = "signin" /\ Signed(r) THEN NoPage ELSE new(k)
<1>1. PICK k \in Tokens : Reached(t, Gets, k) /\ GoOn(t, Answered(r, k, page(k)))
  BY DEF Render
<1>2. new(k) \in Page /\ new(k).token = k
  BY Known DEF Page, Request
<1>3. page(k) \in Page \cup {None} /\ (page(k) # None /\ page(k) # NoPage => page(k).token = k)
  BY <1>2, NoPageFits
<1> HIDE DEF page
<1> QED BY <1>1, <1>3, AnswerStep DEF Render

LEMMA DeclineFits ==
    ASSUME IInv, NEW t \in Tabs, Decline(t)
    PROVE  IInv'
BY AnswerStep DEF Decline

LEMMA SaveFits ==
    ASSUME IInv, NEW t \in Tabs, Save(t)
    PROVE  IInv'
BY AnswerStep DEF Save

LEMMA VerifyFits ==
    ASSUME IInv, NEW t \in Tabs, Verify(t)
    PROVE  IInv'
<1> DEFINE r == requests[t]
<1>1. r \in Request /\ Fits(r) /\ (~lost => SameToken(r)) /\ r.at = "handle"
  BY Known, ReachedToken DEF Verify, At
<1>2. PICK k \in Tokens :
         /\ Reached(t, {"login"}, k)
         /\ GoOn(t, [r EXCEPT !.at = "create", !.set = NewCookie(r, k)])
  BY DEF Verify
<1>3. k # None
  BY NoneAssumption
<1> DEFINE q == [r EXCEPT !.at = "create", !.set = NewCookie(r, k)]
<1>4. q \in Request
  <2>1. NewCookie(r, k) \in Tokens \cup {None}
    BY DEF NewCookie
  <2> QED BY <1>1, <2>1 DEF Request
<1>5. /\ q.session = r.session /\ q.want = r.want /\ q.failed = r.failed /\ q.clear = r.clear
      /\ q.new = r.new /\ q.page = r.page /\ q.cookie = r.cookie
      /\ q.set = NewCookie(r, k) /\ q.at = "create"
  BY <1>1 DEF Request
<1> HIDE DEF q
<1>6. Fits(q)
  BY <1>1, <1>3, <1>5 DEF Fits, NewCookie
<1>7. ~lost => SameToken(q)
  BY <1>1, <1>3, <1>5 DEF Fits, SameToken, Coming, NewCookie
<1> QED BY <1>2, <1>4, <1>6, <1>7, ReadingStep DEF Verify, q

\* A new row is known to nobody.
LEMMA CreatedFits ==
    ASSUME IInv, NEW i \in Ids, FreshId(i), NEW row \in Row,
           sessions' = [sessions EXCEPT ![i] = row]
    PROVE  /\ sessions' \in [Ids -> Row \cup {None}]
           /\ sessions'[i] = row
           /\ \A u \in Tabs : RowsStay(requests[u])
           /\ jar.session # None /\ sessions'[jar.session] # None =>
                 /\ sessions[jar.session] # None
                 /\ sessions'[jar.session].token = sessions[jar.session].token
<1>1. /\ sessions' \in [Ids -> Row \cup {None}]
      /\ sessions'[i] = row
      /\ \A j \in Ids \ {i} : sessions'[j] = sessions[j]
  BY DEF IInv, TypeOK
<1>2. \A u \in Tabs : RowsStay(requests[u])
  BY <1>1 DEF RowsStay, FreshId
<1>3. jar.session \in Ids \cup {None} /\ jar.session # i
  BY DEF IInv, TypeOK, FreshId
<1> QED BY <1>1, <1>2, <1>3

\* The answer of createAdminSession, with or without a new session cookie.
LEMMA CreateStep ==
    ASSUME IInv, NEW t \in Tabs, At(t, "create"), UNCHANGED <<disabled, jar, pages, lost>>,
           NEW i \in Ids \cup {None},
           LET r == requests[t]
           IN  /\ \/ UNCHANGED sessions /\ i = None
                  \/ \E j \in Ids :
                        /\ FreshId(j) /\ i \in {j, None}
                        /\ sessions' = [sessions EXCEPT ![j] =
                                           [token |-> CSRFToken(r), expired |-> FALSE]]
               /\ GoOn(t, [Answered(r, CSRFToken(r), None) EXCEPT !.new = i])
    PROVE  IInv'
<1> DEFINE r == requests[t]
           k == CSRFToken(r)
           a == Answered(r, k, None)
           q == [a EXCEPT !.new = i]
           row == [token |-> k, expired |-> FALSE]
<1>1. /\ r \in Request /\ Fits(r) /\ (~lost => SameToken(r))
      /\ r.cookie \in Tokens \cup {None} /\ r.at = "create"
  BY Known DEF Request, At
<1>2. k \in Tokens /\ k # None
  BY <1>1, NoneAssumption DEF CSRFToken, Fits, Request
<1>3. r.cookie # None => k = r.cookie
  BY DEF CSRFToken
<1>4. a \in Request /\ Fits(a) /\ (~lost => SameToken(a))
  BY <1>1, <1>2, <1>3, AnsweredFits, AnsweredKnows
<1>5. /\ a.at = "answer" /\ a.want = None /\ a.cookie = None /\ a.page = None
      /\ a.set = (IF r.cookie = None THEN k ELSE None)
      /\ a.session = r.session /\ a.clear = r.clear /\ a.failed = r.failed
  BY <1>1, <1>2, AnsweredFits
<1>6. row \in Row
  BY <1>2 DEF Row
<1> HIDE DEF a, k
<1>7. PICK p \in Request : p = q
  BY <1>4 DEF Request
<1>8. /\ p.at = "answer" /\ p.want = None /\ p.cookie = None /\ p.page = None
      /\ p.set = a.set /\ p.new = i
      /\ p.session = r.session /\ p.clear = r.clear /\ p.failed = r.failed
  BY <1>4, <1>5, <1>7 DEF Request
<1>9. GoOn(t, p)
  BY <1>7 DEF a, k
<1>10. /\ sessions' \in [Ids -> Row \cup {None}]
       /\ i # None => sessions'[i] = row
       /\ \A u \in Tabs : RowsStay(requests[u])
       /\ jar.session # None /\ sessions'[jar.session] # None =>
             /\ sessions[jar.session] # None
             /\ sessions'[jar.session].token = sessions[jar.session].token
  <2>1. CASE UNCHANGED sessions /\ i = None
    BY <2>1 DEF RowsStay, IInv, TypeOK
  <2>2. ASSUME NEW j \in Ids, FreshId(j), i \in {j, None},
               sessions' = [sessions EXCEPT ![j] = row]
        PROVE  <1>10!:
    BY <1>6, <2>2, CreatedFits
  <2> QED BY <2>1, <2>2 DEF k
<1>11. r.session \in Ids \cup {None} /\ r.session \in IdsOf(r)
  BY <1>1 DEF Request, IdsOf
<1>12. Fits(p)'
  BY <1>1, <1>8, <1>10, <1>11 DEF Fits, RowsStay
<1>13. ~lost => SameToken(p)'
  BY <1>1, <1>2, <1>3, <1>5, <1>8, <1>10 DEF SameToken, Coming
<1> QED BY <1>9, <1>10, <1>12, <1>13, ServerStep

LEMMA CreateFits ==
    ASSUME IInv, NEW t \in Tabs, Create(t)
    PROVE  IInv'
BY CreateStep DEF Create

LEMMA CreateFailsFits ==
    ASSUME IInv, NEW t \in Tabs, CreateFails(t)
    PROVE  IInv'
<1> DEFINE a == Answered(requests[t], CSRFToken(requests[t]), None)
<1>1. requests[t] \in Request /\ CSRFToken(requests[t]) \in Tokens \cup {None}
  BY Known DEF CSRFToken, Request
<1>2. a \in Request /\ a.new = None
  BY <1>1, AnsweredFits
<1> HIDE DEF a
<1>3. a = [a EXCEPT !.new = None]
  BY <1>2 DEF Request
<1> QED BY <1>3, CreateStep DEF CreateFails, a

LEMMA LogoutFits ==
    ASSUME IInv, NEW t \in Tabs, Logout(t)
    PROVE  IInv'
<1> DEFINE r == requests[t]
<1>1. r \in Request /\ Fits(r) /\ (~lost => SameToken(r)) /\ r.session \in Ids \cup {None}
  BY Known DEF Request
<1>2. PICK k \in Tokens, failed \in BOOLEAN :
         /\ Reached(t, {"logout"}, k)
         /\ Deleted(r.session, failed)
         /\ GoOn(t, [Answered(r, k, NoPage) EXCEPT !.clear = TRUE, !.failed = failed])
  BY DEF Logout
<1> DEFINE a == Answered(r, k, NoPage)
           q == [a EXCEPT !.clear = TRUE, !.failed = failed]
<1>3. a \in Request /\ a.at = "answer" /\ a.want = None /\ a.cookie = None
      /\ a.session = r.session /\ a.new = None /\ a.page = NoPage
  BY <1>1, AnsweredFits, NoPageFits
<1> HIDE DEF a
<1>4. PICK p \in Request : p = q
  BY <1>3 DEF Request
<1>5. /\ p.at = "answer" /\ p.want = None /\ p.cookie = None
      /\ p.session = r.session /\ p.new = None /\ p.page = NoPage /\ p.failed = failed
  BY <1>3, <1>4 DEF Request
<1>6. GoOn(t, p)
  BY <1>2, <1>4 DEF a
<1>7. Fits(p)'
  BY <1>1, <1>2, <1>5, DeletedFits DEF Fits
<1>8. SameToken(p)'
  BY <1>5 DEF SameToken
<1> QED BY <1>1, <1>2, <1>6, <1>7, <1>8, DeletedFits, ServerStep DEF Logout

LEMMA SessionExpiresFits ==
    ASSUME IInv, NEW i \in Ids, SessionExpires(i)
    PROVE  IInv'
<1>1. /\ sessions' \in [Ids -> Row \cup {None}]
      /\ \A j \in Ids : sessions'[j] # None =>
            sessions[j] # None /\ sessions'[j].token = sessions[j].token
  <2>1. sessions[i] \in Row /\ [sessions[i] EXCEPT !.expired = TRUE] \in Row
        /\ [sessions[i] EXCEPT !.expired = TRUE].token = sessions[i].token
    BY DEF SessionExpires, IInv, TypeOK, Row
  <2> QED BY <2>1 DEF SessionExpires, IInv, TypeOK
<1>2. ASSUME NEW t \in Tabs
      PROVE  Fits(requests[t])' /\ (~lost => SameToken(requests[t])')
  <2>1. PICK r \in Request : r = requests[t] /\ r = requests'[t]
    BY DEF SessionExpires, IInv, TypeOK
  <2>2. RowsStay(r) /\ Fits(r) /\ (~lost => SameToken(r))
    BY <1>1, <2>1, Known DEF RowsStay
  <2>3. Fits(r)' /\ (~lost => SameToken(r)')
    BY <2>2, FitsStays, SameTokenStays DEF SessionExpires
  <2> QED BY <2>1, <2>3 DEF Fits, SameToken, Coming
<1>3. jar.session \in Ids \cup {None}
  BY DEF IInv, TypeOK
<1>4. OneToken'
  BY <1>1, <1>2, <1>3 DEF SessionExpires, IInv, OneToken
<1> QED BY <1>1, <1>2, <1>4 DEF SessionExpires, IInv, TypeOK

LEMMA SetDisabledFits ==
    ASSUME IInv, SetDisabled
    PROVE  IInv'
BY DEF SetDisabled, IInv, TypeOK, OneToken, Fits, SameToken, Coming

LEMMA NextFits ==
    ASSUME IInv, [Next]_vars
    PROVE  IInv'
<1>1. CASE UNCHANGED vars
  BY <1>1 DEF vars, IInv, TypeOK, OneToken, Fits, SameToken, Coming
<1> QED BY <1>1, OpenFits, SubmitFits, DeliverFits, LoseFits, LoadFailsFits, LoadFits,
           DiscardFits, UnsignedFits, RenderFits, DeclineFits, SaveFits, VerifyFits,
           CreateFits, CreateFailsFits, LogoutFits, RestartFits, CookieExpiresFits,
           SessionExpiresFits, SetDisabledFits DEF Next

-----------------------------------------------------------------------------
(* Theorems about the states *)

\* The inductive invariant.
THEOREM Inductive == Spec => []IInv
BY InitFits, NextFits, PTL DEF Spec

\* The table, the browser and the requests are well typed.
THEOREM TypeCorrect == Spec => []TypeOK
<1>1. IInv => TypeOK
  BY DEF IInv
<1> QED BY <1>1, Inductive, PTL

\* A browser that has never lost a CSRF cookie can send every form of every page,
\* however many tabs it has and in whatever order their answers come.
THEOREM FormsWorkUntilCookieLoss == Spec => []FormsFailOnlyAfterCookieLoss
<1>1. ASSUME IInv PROVE FormsFailOnlyAfterCookieLoss
  <2> SUFFICES ASSUME ~lost, NEW t \in Tabs, NEW i \in Ids,
                      pages[t].session = i, SignedIn(i)
               PROVE  pages[t].token = sessions[i].token
    BY DEF FormsFailOnlyAfterCookieLoss, FormsWork
  <2>1. i # None
    BY NoneAssumption
  <2>2. pages[t] # NoPage
    BY <2>1 DEF NoPage
  <2> QED BY <1>1, <2>1, <2>2 DEF IInv, OneToken, SignedIn, Live
<1> QED BY <1>1, Inductive, PTL

-----------------------------------------------------------------------------
(* Theorems about the steps *)

\* A session that is alive loses its cookie only to an answer of another session,
\* or to one whose deletion failed: nothing the server knows of a dead session
\* becomes wrong later, since a session id is never drawn again.
THEOREM LiveCookiesStay == Spec => LiveCookieClearedOnlyByLateAnswer
<1> DEFINE Late(i) == \E t \in Tabs :
                        /\ Deliver(t)
                        /\ requests[t].session # i \/ requests[t].failed
<1>1. ASSUME IInv, [Next]_vars, NEW i \in Ids, SignedIn(i), jar'.session = None
      PROVE  Late(i)
  <2>1. i # None /\ jar.session = i /\ sessions[i] # None /\ ~sessions[i].expired
    BY <1>1, NoneAssumption DEF SignedIn, Live
  <2>2. jar'.session # jar.session
    BY <1>1, <2>1
  <2>3. CASE CookieExpires
    BY <2>1, <2>3 DEF CookieExpires
  <2>4. CASE Restart
    BY <2>2, <2>4 DEF Restart, IInv, TypeOK
  <2>5. ASSUME NEW t \in Tabs, Deliver(t)
        PROVE  Late(i)
    <3>1. requests[t].clear
      BY <1>1, <2>2, <2>5 DEF Deliver, SetCookies
    <3>2. requests[t].session = i => requests[t].failed
      BY <1>1, <2>1, <3>1, Known DEF Fits
    <3> QED BY <2>5, <3>2
  <2> QED BY <1>1, <2>2, <2>3, <2>4, <2>5
          DEF Next, vars, Open, Submit, Lose, LoadFails, Load, Discard, Unsigned, Render,
              Decline, Save, Verify, Create, CreateFails, Logout, SessionExpires, SetDisabled
<1>2. IInv /\ [Next]_vars =>
         \A i \in Ids : SignedIn(i) /\ jar'.session = None => Late(i)
  BY <1>1
<1> QED BY <1>2, Inductive, PTL DEF Spec, LiveCookieClearedOnlyByLateAnswer

\* r does not have token k.
Lacks(r, k) == k \notin TokensOf([r EXCEPT !.want = None])

LEMMA LacksFields ==
    ASSUME NEW r \in Request, NEW k \in Tokens
    PROVE  Lacks(r, k) <=> /\ r.cookie # k /\ r.token # k /\ r.set # k
                           /\ r.page # None => r.page.token # k
<1> DEFINE q == [r EXCEPT !.want = None]
<1>1. /\ q.cookie = r.cookie /\ q.token = r.token /\ q.set = r.set /\ q.page = r.page
      /\ q.want = None
  BY DEF Request
<1>2. k # None
  BY NoneAssumption
<1> HIDE DEF q
<1>3. k \notin TokensOf(q) <=> /\ r.cookie # k /\ r.token # k /\ r.set # k
                               /\ r.page # None => r.page.token # k
  BY <1>1, <1>2 DEF TokensOf
<1> QED BY <1>3 DEF Lacks, q

\* An answer after CSRF has settled on a token brings no token of a row but one
\* that the request has.
LEMMA AnsweredLacks ==
    ASSUME NEW r \in Request, NEW k \in Tokens, Lacks(r, k),
           NEW c \in Tokens \cup {None}, r.cookie = c \/ c # k,
           NEW page \in Page \cup {None}, page # None => page.token # k
    PROVE  Lacks(Answered(r, c, page), k)
BY LacksFields, AnsweredFits, NoneAssumption

\* A browser is stuck on, when one request goes on.
LEMMA StaysStuck ==
    ASSUME IInv, NEW i \in Ids, Stuck(i), NEW t \in Tabs, NEW r \in Request, GoOn(t, r),
           sessions'[i] = sessions[i], UNCHANGED <<disabled, jar, pages>>,
           Lacks(r, sessions[i].token), ~(r.at = "discard" /\ r.session = i)
    PROVE  Stuck(i)'
<1>1. \A u \in Tabs : requests'[u] = IF u = t THEN r ELSE requests[u]
  BY DEF GoOn, IInv, TypeOK
<1>2. ASSUME NEW u \in Tabs
      PROVE  /\ pages'[u].token # sessions'[i].token
             /\ sessions'[i].token \notin TokensOf([requests'[u] EXCEPT !.want = None])
             /\ ~(requests'[u].at = "discard" /\ requests'[u].session = i)
  BY <1>1 DEF Stuck, Lacks, At
<1>3. jar'.csrf # sessions'[i].token /\ SignedIn(i)'
  BY DEF Stuck, SignedIn, Live
<1> QED BY <1>2, <1>3 DEF Stuck, At

\* What is known of a request while the browser is stuck.
LEMMA StuckKnown ==
    ASSUME IInv, NEW i \in Ids, Stuck(i), NEW t \in Tabs
    PROVE  /\ sessions[i] # None /\ sessions[i].token \in Tokens
           /\ ~sessions[i].expired /\ ~disabled /\ jar.session = i
           /\ requests[t] \in Request
           /\ Lacks(requests[t], sessions[i].token)
           /\ ~(At(t, "discard") /\ requests[t].session = i)
           /\ \A k \in Tokens : FreshToken(k) => k # sessions[i].token
BY DEF Stuck, SignedIn, Live, IInv, TypeOK, Row, Lacks, FreshToken

\* The token on which CSRF settles is not that of the session.
LEMMA StuckToken ==
    ASSUME IInv, NEW i \in Ids, Stuck(i), NEW t \in Tabs, NEW ops, NEW k \in Tokens,
           Reached(t, ops, k)
    PROVE  k # sessions[i].token
BY StuckKnown, ReachedToken, LacksFields

\* An answer leaves the browser stuck.
LEMMA StuckAnswer ==
    ASSUME IInv, NEW i \in Ids, Stuck(i), NEW t \in Tabs,
           NEW c \in Tokens \cup {None}, requests[t].cookie = c \/ c # sessions[i].token,
           NEW page \in Page \cup {None}, page # None => page.token # sessions[i].token,
           GoOn(t, Answered(requests[t], c, page)),
           UNCHANGED <<sessions, disabled, jar, pages>>
    PROVE  Stuck(i)'
<1> DEFINE r == requests[t]
<1>1. r \in Request /\ sessions[i].token \in Tokens /\ Lacks(r, sessions[i].token)
  BY StuckKnown
<1>2. Answered(r, c, page) \in Request /\ Answered(r, c, page).at = "answer"
  BY <1>1, AnsweredFits
<1>3. Lacks(Answered(r, c, page), sessions[i].token)
  BY <1>1, AnsweredLacks
<1> QED BY <1>2, <1>3, StaysStuck

\* No step of the browser or the server takes the browser out of a session whose
\* token it has lost.
LEMMA StuckStep ==
    ASSUME IInv, NEW i \in Ids, Stuck(i), [Next]_vars
    PROVE  /\ sessions'[i] # None
           /\ sessions'[i].expired \/ disabled' \/ jar'.session # i \/ Stuck(i)'
<1> DEFINE k0 == sessions[i].token
           Goal == /\ sessions'[i] # None
                   /\ sessions'[i].expired \/ disabled' \/ jar'.session # i \/ Stuck(i)'
<1>0. /\ sessions[i] # None /\ k0 \in Tokens /\ k0 # None
      /\ ~sessions[i].expired /\ ~disabled /\ jar.session = i /\ jar.csrf # k0
      /\ \A u \in Tabs : pages[u].token # k0
      /\ i # None
  <2>1. k0 \in Tokens /\ k0 # None /\ i # None
    BY StuckKnown, NoneAssumption DEF Stuck, SignedIn, Live, IInv, TypeOK, Row
  <2> QED BY <2>1 DEF Stuck, SignedIn, Live
<1>1. ASSUME NEW t \in Tabs, NEW o \in Gets \cup Posts, NEW k \in Tokens \cup {None}, k # k0,
             Sent(t, o, k), UNCHANGED <<sessions, disabled, jar, pages, lost>>
      PROVE  Goal
  <2> DEFINE r == [Idle EXCEPT !.at = "sent", !.op = o, !.session = jar.session,
                               !.cookie = jar.csrf, !.token = k]
  <2>1. r \in Request
    BY DEF Idle, Request, IInv, TypeOK
  <2>2. r.at = "sent" /\ r.cookie = jar.csrf /\ r.token = k /\ r.set = None /\ r.page = None
    BY DEF Idle
  <2>3. GoOn(t, r)
    BY <1>1 DEF Sent
  <2> HIDE DEF r
  <2>4. Lacks(r, k0)
    BY <1>0, <1>1, <2>1, <2>2, LacksFields
  <2> QED BY <1>0, <1>1, <2>1, <2>2, <2>3, <2>4, StaysStuck
<1>2. ASSUME NEW t \in Tabs, NEW o \in Gets, Open(t, o)
      PROVE  Goal
  BY <1>0, <1>1, <1>2 DEF Open
<1>3. ASSUME NEW t \in Tabs, NEW o \in Posts, Submit(t, o)
      PROVE  Goal
  <2>1. pages[t].token \in Tokens \cup {None}
    BY DEF IInv, TypeOK, Page
  <2> QED BY <1>0, <1>1, <1>3, <2>1 DEF Submit
<1>4. ASSUME NEW t \in Tabs, Deliver(t)
      PROVE  Goal
  <2> DEFINE r == requests[t]
  <2>1. /\ r \in Request /\ Lacks(r, k0) /\ r.set # k0
        /\ r.page # None => r.page.token # k0
    BY StuckKnown, LacksFields
  <2>2. jar'.csrf # k0
    BY <1>0, <1>4, <2>1 DEF Deliver, SetCookies
  <2>3. \A u \in Tabs : pages'[u].token # k0
    BY <1>0, <1>4, <2>1 DEF Deliver, IInv, TypeOK
  <2>4. sessions' = sessions /\ disabled' = disabled
    BY <1>4 DEF Deliver
  <2>5. ASSUME NEW u \in Tabs
        PROVE  /\ k0 \notin TokensOf([requests'[u] EXCEPT !.want = None])
               /\ ~(requests'[u].at = "discard" /\ requests'[u].session = i)
    <3>1. CASE u = t
      <4>1. requests'[u] = Idle
        BY <1>4, <3>1 DEF Deliver, GoOn, IInv, TypeOK
      <4>2. Lacks(Idle, k0)
        BY <1>0, IdleFits, LacksFields DEF Idle
      <4> QED BY <4>1, <4>2 DEF Lacks, Idle
    <3>2. CASE u # t
      <4>1. requests'[u] = requests[u]
        BY <1>4, <3>2 DEF Deliver, GoOn, IInv, TypeOK
      <4> QED BY <4>1, StuckKnown DEF Lacks, At
    <3> QED BY <3>1, <3>2
  <2>6. CASE jar'.session = i
    <3>1. SignedIn(i)'
      BY <1>0, <2>4, <2>6 DEF SignedIn, Live
    <3>2. Stuck(i)'
      BY <2>2, <2>3, <2>4, <2>5, <3>1 DEF Stuck, At
    <3> QED BY <1>0, <2>4, <3>2
  <2> QED BY <1>0, <2>4, <2>6
<1>5. ASSUME NEW t \in Tabs, Lose(t)
      PROVE  Goal
  <2>1. Lacks(Idle, k0)
    BY <1>0, IdleFits, LacksFields DEF Idle
  <2> QED BY <1>0, <1>5, <2>1, IdleFits, StaysStuck DEF Lose, Idle
<1>6. ASSUME Restart
      PROVE  Goal
  <2>1. SignedIn(i)' /\ jar'.csrf # k0
    BY <1>0, <1>6 DEF Restart, SignedIn, Live, IInv, TypeOK
  <2>2. Lacks(Idle, k0)
    BY <1>0, IdleFits, LacksFields DEF Idle
  <2>3. \A u \in Tabs : /\ pages'[u].token # k0
                        /\ k0 \notin TokensOf([requests'[u] EXCEPT !.want = None])
                        /\ requests'[u].at # "discard"
    BY <1>0, <1>6, <2>2 DEF Restart, Lacks, Idle, NoPage
  <2>4. Stuck(i)'
    BY <1>6, <2>1, <2>3 DEF Stuck, At, Restart
  <2> QED BY <1>0, <1>6, <2>4 DEF Restart
<1>7. ASSUME CookieExpires
      PROVE  Goal
  BY <1>0, <1>7 DEF CookieExpires
<1>8. ASSUME NEW t \in Tabs, LoadFails(t)
      PROVE  Goal
  <2>1. requests[t].cookie \in Tokens \cup {None}
    BY StuckKnown DEF Request
  <2>2. Stuck(i)'
    BY <1>8, <2>1, StuckAnswer DEF LoadFails, LoadFailed
  <2> QED BY <1>0, <1>8, <2>2 DEF LoadFails
<1>9. ASSUME NEW t \in Tabs, Load(t)
      PROVE  Goal
  <2> DEFINE r == requests[t]
  <2>1. r \in Request /\ Lacks(r, k0) /\ r.session \in Ids \cup {None}
    BY StuckKnown DEF Request
  <2>2. PICK q \in Request : /\ GoOn(t, q)
                             /\ q.cookie = r.cookie /\ q.token = r.token
                             /\ q.set = r.set /\ q.page = r.page
                             /\ ~(q.at = "discard" /\ q.session = i)
    <3>1. CASE r.session = None
      <4> DEFINE q == [r EXCEPT !.at = "handle"]
      <4>1. q \in Request
        BY <2>1 DEF Request
      <4>2. q.cookie = r.cookie /\ q.token = r.token /\ q.set = r.set /\ q.page = r.page
            /\ q.at = "handle" /\ q.session = r.session
        BY <2>1 DEF Request
      <4>3. GoOn(t, q)
        BY <1>9, <3>1 DEF Load
      <4> HIDE DEF q
      <4> QED BY <4>1, <4>2, <4>3
    <3>2. CASE r.session # None /\ sessions[r.session] = None
      <4> DEFINE q == [r EXCEPT !.at = "handle", !.clear = TRUE]
      <4>1. q \in Request
        BY <2>1 DEF Request
      <4>2. q.cookie = r.cookie /\ q.token = r.token /\ q.set = r.set /\ q.page = r.page
            /\ q.at = "handle" /\ q.session = r.session
        BY <2>1 DEF Request
      <4>3. GoOn(t, q)
        BY <1>9, <3>2 DEF Load
      <4> HIDE DEF q
      <4> QED BY <4>1, <4>2, <4>3
    <3>3. CASE r.session # None /\ sessions[r.session] # None
               /\ (sessions[r.session].expired \/ disabled)
      <4> DEFINE q == [r EXCEPT !.at = "discard"]
      <4>1. q \in Request /\ r.session # i
        BY <1>0, <2>1, <3>3 DEF Request
      <4>2. q.cookie = r.cookie /\ q.token = r.token /\ q.set = r.set /\ q.page = r.page
            /\ q.at = "discard" /\ q.session = r.session
        BY <2>1 DEF Request
      <4>3. GoOn(t, q)
        BY <1>9, <3>3 DEF Load
      <4> HIDE DEF q
      <4> QED BY <4>1, <4>2, <4>3
    <3>4. CASE r.session # None /\ sessions[r.session] # None
               /\ ~(sessions[r.session].expired \/ disabled)
      <4> DEFINE q == [r EXCEPT !.at = "handle", !.want = sessions[r.session].token]
      <4>1. sessions[r.session].token \in Tokens
        BY <2>1, <3>4 DEF IInv, TypeOK, Row
      <4>2. q \in Request
        BY <2>1, <4>1 DEF Request
      <4>3. q.cookie = r.cookie /\ q.token = r.token /\ q.set = r.set /\ q.page = r.page
            /\ q.at = "handle"
        BY <2>1 DEF Request
      <4>4. GoOn(t, q)
        BY <1>9, <3>4 DEF Load
      <4> HIDE DEF q
      <4> QED BY <4>2, <4>3, <4>4
    <3> QED BY <3>1, <3>2, <3>3, <3>4
  <2>3. Lacks(q, k0)
    BY <1>0, <2>1, <2>2, LacksFields
  <2>4. Stuck(i)'
    BY <1>9, <2>2, <2>3, StaysStuck DEF Load
  <2> QED BY <1>0, <1>9, <2>4 DEF Load
<1>10. ASSUME NEW t \in Tabs, Discard(t)
       PROVE  Goal
  <2> DEFINE r == requests[t]
  <2>1. r \in Request /\ Lacks(r, k0) /\ r.session # i /\ r.session \in Ids \cup {None}
    BY <1>10, StuckKnown DEF Discard, Request
  <2>2. PICK failed \in BOOLEAN :
           /\ Deleted(r.session, failed)
           /\ GoOn(t, [r EXCEPT !.at = "handle", !.clear = TRUE, !.failed = failed])
    BY <1>10 DEF Discard
  <2> DEFINE q == [r EXCEPT !.at = "handle", !.clear = TRUE, !.failed = failed]
  <2>3. q \in Request
    BY <2>1 DEF Request
  <2>4. q.cookie = r.cookie /\ q.token = r.token /\ q.set = r.set /\ q.page = r.page
        /\ q.at = "handle"
    BY <2>1 DEF Request
  <2> HIDE DEF q
  <2>5. Lacks(q, k0)
    BY <1>0, <2>1, <2>3, <2>4, LacksFields
  <2>6. sessions'[i] = sessions[i]
    BY <2>1, <2>2, DeletedFits
  <2>7. Stuck(i)'
    BY <1>10, <2>2, <2>3, <2>4, <2>5, <2>6, StaysStuck DEF Discard, q
  <2> QED BY <1>0, <2>6, <2>7
<1>11. ASSUME NEW t \in Tabs, Unsigned(t)
       PROVE  Goal
  <2>1. requests[t].cookie \in Tokens \cup {None}
    BY StuckKnown DEF Request
  <2>2. Stuck(i)'
    BY <1>0, <1>11, <2>1, NoPageFits, StuckAnswer DEF Unsigned, NoPage
  <2> QED BY <1>0, <1>11, <2>2 DEF Unsigned
<1>12. ASSUME NEW t \in Tabs, Render(t)
       PROVE  Goal
  <2> DEFINE r == requests[t]
             new(k) == [session |-> IF Signed(r) THEN r.session ELSE None, token |-> k]
             page(k) == IF r.op = "signin" /\ Signed(r) THEN NoPage ELSE new(k)
  <2>1. PICK k \in Tokens : Reached(t, Gets, k) /\ GoOn(t, Answered(r, k, page(k)))
    BY <1>12 DEF Render
  <2>2. k # k0
    BY <2>1, StuckToken
  <2>3. new(k) \in Page /\ new(k).token = k
    BY Known DEF Page, Request
  <2>4. page(k) \in Page \cup {None} /\ page(k).token # k0
    BY <1>0, <2>2, <2>3, NoPageFits DEF NoPage
  <2> HIDE DEF page
  <2>5. Stuck(i)'
    BY <1>12, <2>1, <2>2, <2>4, StuckAnswer DEF Render
  <2> QED BY <1>0, <1>12, <2>5 DEF Render
<1>13. ASSUME NEW t \in Tabs, NEW ops, NEW k \in Tokens, Reached(t, ops, k),
              GoOn(t, Answered(requests[t], k, None)),
              UNCHANGED <<sessions, disabled, jar, pages, lost>>
       PROVE  Goal
  <2>1. Stuck(i)'
    BY <1>13, StuckToken, StuckAnswer
  <2> QED BY <1>0, <1>13, <2>1
<1>14. ASSUME NEW t \in Tabs, Decline(t)
       PROVE  Goal
  BY <1>13, <1>14 DEF Decline
<1>15. ASSUME NEW t \in Tabs, Save(t)
       PROVE  Goal
  BY <1>13, <1>15 DEF Save
<1>16. ASSUME NEW t \in Tabs, Verify(t)
       PROVE  Goal
  <2> DEFINE r == requests[t]
  <2>1. r \in Request /\ Lacks(r, k0)
    BY StuckKnown
  <2>2. PICK k \in Tokens :
           /\ Reached(t, {"login"}, k)
           /\ GoOn(t, [r EXCEPT !.at = "create", !.set = NewCookie(r, k)])
    BY <1>16 DEF Verify
  <2>3. NewCookie(r, k) \in Tokens \cup {None} /\ NewCookie(r, k) # k0
    BY <1>0, <2>2, StuckToken DEF NewCookie
  <2> DEFINE q == [r EXCEPT !.at = "create", !.set = NewCookie(r, k)]
  <2>4. q \in Request
    BY <2>1, <2>3 DEF Request
  <2>5. q.cookie = r.cookie /\ q.token = r.token /\ q.set = NewCookie(r, k) /\ q.page = r.page
        /\ q.at = "create"
    BY <2>1 DEF Request
  <2> HIDE DEF q
  <2>6. Lacks(q, k0)
    BY <1>0, <2>1, <2>3, <2>4, <2>5, LacksFields
  <2>7. Stuck(i)'
    BY <1>16, <2>2, <2>4, <2>5, <2>6, StaysStuck DEF Verify, q
  <2> QED BY <1>0, <1>16, <2>7 DEF Verify
<1>17. ASSUME NEW t \in Tabs, Create(t) \/ CreateFails(t)
       PROVE  Goal
  <2> DEFINE r == requests[t]
             a == Answered(r, CSRFToken(r), None)
  <2>1. r \in Request /\ Lacks(r, k0)
    BY StuckKnown
  <2>2. CSRFToken(r) \in Tokens \cup {None} /\ CSRFToken(r) # k0
    BY <1>0, <2>1, LacksFields DEF CSRFToken, Request
  <2>3. a \in Request /\ a.at = "answer"
    BY <2>1, <2>2, AnsweredFits
  <2>4. Lacks(a, k0)
    BY <1>0, <2>1, <2>2, AnsweredLacks
  <2>5. sessions'[i] = sessions[i]
    BY <1>0, <1>17 DEF Create, CreateFails, FreshId, IInv, TypeOK
  <2>6. PICK q \in Request : GoOn(t, q) /\ q.at = "answer" /\ Lacks(q, k0)
    <3>1. CASE Create(t)
      <4>1. PICK j \in Ids : GoOn(t, [a EXCEPT !.new = j])
        BY <3>1 DEF Create
      <4> HIDE DEF a
      <4> DEFINE q == [a EXCEPT !.new = j]
      <4>2. q \in Request
        BY <2>3 DEF Request
      <4>3. q.cookie = a.cookie /\ q.token = a.token /\ q.set = a.set /\ q.page = a.page
            /\ q.at = "answer"
        BY <2>3 DEF Request
      <4> HIDE DEF q
      <4>4. Lacks(q, k0)
        BY <1>0, <2>3, <2>4, <4>2, <4>3, LacksFields
      <4> QED BY <4>1, <4>2, <4>3, <4>4 DEF q
    <3>2. CASE CreateFails(t)
      BY <2>3, <2>4, <3>2 DEF CreateFails
    <3> QED BY <1>17, <3>1, <3>2
  <2>7. Stuck(i)'
    BY <1>17, <2>5, <2>6, StaysStuck DEF Create, CreateFails
  <2> QED BY <1>0, <2>5, <2>7
<1>18. ASSUME NEW t \in Tabs, Logout(t)
       PROVE  Goal
  <2> DEFINE r == requests[t]
  <2>1. r \in Request /\ Lacks(r, k0) /\ r.session \in Ids \cup {None} /\ r.token # k0
    BY StuckKnown, LacksFields DEF Request
  <2>2. PICK k \in Tokens, failed \in BOOLEAN :
           /\ Reached(t, {"logout"}, k) /\ RightToken(r, k)
           /\ Deleted(r.session, failed)
           /\ GoOn(t, [Answered(r, k, NoPage) EXCEPT !.clear = TRUE, !.failed = failed])
    BY <1>18 DEF Logout
  <2>3. r.session # i
    <3>1. r.want # None /\ r.op = "logout"
      BY <2>2 DEF Reached, NeedsUser, Signed
    <3>2. r.token = r.want
      BY <2>2, <3>1 DEF RightToken, Signed
    <3> QED BY <1>0, <2>1, <3>1, <3>2, Known DEF Fits
  <2>4. sessions'[i] = sessions[i]
    BY <2>1, <2>2, <2>3, DeletedFits
  <2> DEFINE a == Answered(r, k, NoPage)
             q == [a EXCEPT !.clear = TRUE, !.failed = failed]
  <2>5. k # k0
    BY <2>2, StuckToken
  <2>6. a \in Request /\ a.at = "answer"
    BY <2>1, AnsweredFits, NoPageFits
  <2>7. Lacks(a, k0)
    BY <1>0, <2>1, <2>5, AnsweredLacks, NoPageFits DEF NoPage
  <2> HIDE DEF a
  <2>8. q \in Request
    BY <2>6 DEF Request
  <2>9. q.cookie = a.cookie /\ q.token = a.token /\ q.set = a.set /\ q.page = a.page
        /\ q.at = "answer"
    BY <2>6 DEF Request
  <2> HIDE DEF q
  <2>10. Lacks(q, k0)
    BY <1>0, <2>6, <2>7, <2>8, <2>9, LacksFields
  <2>11. Stuck(i)'
    BY <1>18, <2>2, <2>4, <2>8, <2>9, <2>10, StaysStuck DEF Logout, q, a
  <2> QED BY <1>0, <2>4, <2>11
<1>19. ASSUME NEW j \in Ids, SessionExpires(j)
       PROVE  Goal
  <2>1. CASE j = i
    <3>1. sessions'[i] \in Row /\ sessions'[i].expired
      BY <1>0, <1>19, <2>1 DEF SessionExpires, IInv, TypeOK, Row
    <3>2. sessions'[i] # None
      BY <3>1, NoneAssumption
    <3> QED BY <3>1, <3>2
  <2>2. CASE j # i
    <3>1. sessions'[i] = sessions[i]
      BY <1>19, <2>2 DEF SessionExpires, IInv, TypeOK
    <3>2. Stuck(i)'
      BY <1>19, <3>1 DEF SessionExpires, Stuck, SignedIn, Live, At
    <3> QED BY <1>0, <3>1, <3>2
  <2> QED BY <2>1, <2>2
<1>20. ASSUME SetDisabled
       PROVE  Goal
  BY <1>0, <1>20 DEF SetDisabled
<1>21. CASE UNCHANGED vars
  BY <1>0, <1>21 DEF vars, Stuck, SignedIn, Live, At
<1> QED BY <1>2, <1>3, <1>4, <1>5, <1>6, <1>7, <1>8, <1>9, <1>10, <1>11, <1>12, <1>14,
           <1>15, <1>16, <1>17, <1>18, <1>19, <1>20, <1>21 DEF Next

\* A browser that has lost the token of its session stays in it until the session
\* expires or its user is disabled.
THEOREM StuckForGood == Spec => StuckUntilExpiry
<1> DEFINE Goal(i) == /\ sessions'[i] # None
                      /\ sessions'[i].expired \/ disabled' \/ jar'.session # i \/ Stuck(i)'
<1>1. IInv /\ [Next]_vars => \A i \in Ids : Stuck(i) => Goal(i)
  BY StuckStep
<1> QED BY <1>1, Inductive, PTL DEF Spec, StuckUntilExpiry
=============================================================================
