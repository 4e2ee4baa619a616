--------------------------- MODULE AccountsProofs ---------------------------
(***************************************************************************)
(* Proofs about the accounts: what holds for every number of users,        *)
(* passkeys, challenges and requests.                                      *)
(***************************************************************************)
EXTENDS Accounts, TLAPS

USE AccountsAssumption, NoneAssumption

\* The tables are empty and no request is served.
LEMMA InitIInv == Init => IInv
  BY DEF Init, IInv, TypeOK, TablesFit, ChallengesFit, RequestsFit, OneFirstAdmin, Exists

-----------------------------------------------------------------------------
(* Steps of a request that write no table *)

\* RequestsFit of the next state, with the request as a rigid variable.
LEMMA RequestsFitNext ==
  ASSUME TypeOK', \A c \in Conns : \A r \in Request : requests'[c] = r => Fits(r)'
  PROVE  RequestsFit'
  <1> SUFFICES ASSUME NEW c \in Conns, requests'[c] # None PROVE Fits(requests[c])'
    BY DEF RequestsFit
  <1>1. requests'[c] \in Request
    BY DEF TypeOK
  <1>2. QED BY <1>1 DEF Fits, Settled, Exists

\* A request that is in progress fits.
LEMMA InProgress ==
  ASSUME IInv, NEW c \in Conns, requests[c] # None
  PROVE  requests[c] \in Request /\ Fits(requests[c])
  BY DEF IInv, TypeOK, RequestsFit

\* What a request relies on stays, when settled users stay settled, invitations
\* stay, and the challenge that it has used up does not come back.
LEMMA FitsStays ==
  ASSUME NEW r \in Request, Fits(r),
         \A u \in Users : Settled(u) => Settled(u)',
         \A u \in Users : invites[u] # "none" => invites'[u] # "none",
         \A h \in Challenges : r.challenge = h /\ challenges[h] = None => challenges'[h] = None
  PROVE  Fits(r)'
  <1>1. r.challenge # None => r.challenge \in Challenges
    BY DEF Request
  <1>2. QED BY <1>1 DEF Fits

\* A request that begins or goes on as r preserves the invariant if r fits.
LEMMA RequestStep ==
  ASSUME IInv, NEW c \in Conns, NEW r \in Request \cup {None}, r # None => Fits(r),
         requests' = [requests EXCEPT ![c] = r],
         UNCHANGED <<users, invites, keys, challenges, sessions>>
  PROVE  IInv'
  <1>1. TypeOK'
    BY DEF IInv, TypeOK
  <1>2. TablesFit' /\ ChallengesFit' /\ OneFirstAdmin'
    BY DEF IInv, TablesFit, ChallengesFit, OneFirstAdmin, Settled, Exists
  <1>3. ASSUME NEW d \in Conns, NEW q \in Request, requests'[d] = q PROVE Fits(q)'
    <2>1. Fits(q)
      BY <1>3 DEF IInv, TypeOK, RequestsFit
    <2>2. QED BY <2>1, FitsStays DEF Settled, Exists
  <1>4. QED BY <1>1, <1>2, <1>3, RequestsFitNext DEF IInv

\* A request that ends preserves the invariant.
LEMMA DoneStep ==
  ASSUME IInv, NEW c \in Conns, Done(c), UNCHANGED <<users, invites, keys, challenges, sessions>>
  PROVE  IInv'
  BY RequestStep DEF Done

\* Whoever is signed in is settled.
LEMMA SignedInSettled ==
  ASSUME IInv, NEW u \in Users, SignedIn(u) PROVE Settled(u)
  BY DEF IInv, TablesFit, SignedIn

\* The first half of a ceremony.
LEMMA StartIInv ==
  ASSUME IInv, NEW c \in Conns, Start(c) PROVE IInv'
  <1>1. \A u \in Users : \A o \in {"setup", "add", "enroll"} :
           Request0(o, "save", u) \in Request
    BY DEF Request0, Request, Ops, Ceremonies
  <1>2. Request0("login", "save", None) \in Request /\ Fits(Request0("login", "save", None))
    BY DEF Request0, Request, Ops, Ceremonies, Fits
  <1>3. \A u \in Users : Fits(Request0("setup", "save", u))
    BY DEF Request0, Fits
  <1>4. \A u \in Users : SignedIn(u) => Fits(Request0("add", "save", u))
    BY SignedInSettled DEF Request0, Fits
  <1>5. \A u \in Users : invites[u] = "open" => Fits(Request0("enroll", "save", u))
    BY DEF Request0, Fits
  <1>6. QED BY <1>1, <1>2, <1>3, <1>4, <1>5, RequestStep DEF Start, Begin

\* The second half, up to its first transaction.
LEMMA FinishIInv ==
  ASSUME IInv, NEW c \in Conns, Finish(c) PROVE IInv'
  <1> DEFINE R(o, u, h) == [Request0(o, "consume", u) EXCEPT !.challenge = h]
  <1>1. \A u \in Users \cup {None} : \A o \in Ceremonies : \A h \in Challenges :
           R(o, u, h) \in Request
    BY DEF Request0, Request, Ops
  <1>2. \A o \in {"setup", "login"} : \A h \in Challenges : Fits(R(o, None, h))
    BY DEF Request0, Fits
  <1>3. \A u \in Users : \A h \in Challenges : SignedIn(u) => Fits(R("add", u, h))
    BY SignedInSettled DEF Request0, Fits
  <1>4. \A u \in Users : \A h \in Challenges : invites[u] = "open" => Fits(R("enroll", u, h))
    BY DEF Request0, Fits
  <1>5. QED BY <1>1, <1>2, <1>3, <1>4, RequestStep DEF Finish, Begin, Ceremonies

\* The operations that begin with their transaction.
LEMMA FormIInv ==
  ASSUME IInv, NEW c \in Conns, DeletePasskey(c) \/ CreateUser(c) \/ UpdateUser(c)
  PROVE  IInv'
  <1>1. CASE DeletePasskey(c)
    <2> PICK k \in Keys :
          /\ keys[k] # None
          /\ SignedIn(keys[k])
          /\ Begin(c, [Request0("remove", "persist", keys[k]) EXCEPT !.key = k])
      BY <1>1 DEF DeletePasskey
    <2>1. keys[k] \in Users
      BY DEF IInv, TypeOK
    <2>2. [Request0("remove", "persist", keys[k]) EXCEPT !.key = k] \in Request
      BY <2>1 DEF Request0, Request, Ops
    <2>3. Fits([Request0("remove", "persist", keys[k]) EXCEPT !.key = k])
      BY <2>1, SignedInSettled DEF Request0, Fits
    <2>4. QED BY <2>2, <2>3, RequestStep DEF Begin
  <1>2. CASE CreateUser(c)
    <2> PICK u \in Users, t \in Users, r \in Roles :
          /\ AdminSignedIn(u)
          /\ Begin(c, [Request0("invite", "persist", u) EXCEPT !.target = t, !.role = r])
      BY <1>2 DEF CreateUser
    <2>1. [Request0("invite", "persist", u) EXCEPT !.target = t, !.role = r] \in Request
      BY DEF Request0, Request, Ops
    <2>2. Fits([Request0("invite", "persist", u) EXCEPT !.target = t, !.role = r])
      BY SignedInSettled DEF Request0, Fits, AdminSignedIn
    <2>3. QED BY <2>1, <2>2, RequestStep DEF Begin
  <1>3. CASE UpdateUser(c)
    <2> PICK u \in Users, t \in Users, r \in Roles, d \in BOOLEAN :
          /\ AdminSignedIn(u)
          /\ t = u => ~d /\ r = "admin"
          /\ Begin(c, [Request0("update", "persist", u)
                         EXCEPT !.target = t, !.role = r, !.disabled = d])
      BY <1>3 DEF UpdateUser
    <2>1. [Request0("update", "persist", u)
             EXCEPT !.target = t, !.role = r, !.disabled = d] \in Request
      BY DEF Request0, Request, Ops
    <2>2. Fits([Request0("update", "persist", u)
                  EXCEPT !.target = t, !.role = r, !.disabled = d])
      BY SignedInSettled DEF Request0, Fits, AdminSignedIn
    <2>3. QED BY <2>1, <2>2, RequestStep DEF Begin
  <1>4. QED BY <1>1, <1>2, <1>3

\* The login goes on to its session with the owner of a passkey.
LEMMA VerifyIInv ==
  ASSUME IInv, NEW c \in Conns, Verify(c) PROVE IInv'
  <1> DEFINE R(k) == [requests[c] EXCEPT !.at = "session", !.user = keys[k]]
  <1>1. requests[c] \in Request /\ Fits(requests[c]) /\ requests[c].at = "verify"
    BY InProgress DEF Verify, At
  <1>2. ASSUME NEW k \in Keys, keys[k] # None PROVE R(k) \in Request /\ Fits(R(k))
    <2>1. keys[k] \in Users /\ Settled(keys[k])
      BY <1>2 DEF IInv, TypeOK, TablesFit
    <2>2. R(k) \in Request
      BY <1>1, <2>1 DEF Request
    <2>3. Fits(R(k))
      BY <1>1, <2>1 DEF Fits, Request
    <2>4. QED BY <2>2, <2>3
  <1>3. QED BY <1>2, RequestStep, DoneStep DEF Verify, GoOn

-----------------------------------------------------------------------------
(* Challenges *)

\* A step that writes challenges only preserves the invariant if the challenges and
\* the requests fit after it.
LEMMA ChallengeStep ==
  ASSUME IInv, TypeOK', UNCHANGED <<users, invites, keys, sessions>>, ChallengesFit',
         \A c \in Conns : \A r \in Request : requests'[c] = r => Fits(r)'
  PROVE  IInv'
  <1>1. TablesFit' /\ OneFirstAdmin'
    BY DEF IInv, TablesFit, OneFirstAdmin, Settled, Exists
  <1>2. QED BY <1>1, RequestsFitNext DEF IInv

\* A new challenge has an id that no request knows.
LEMMA SaveChallengeIInv ==
  ASSUME IInv, NEW c \in Conns, SaveChallenge(c) PROVE IInv'
  <1>1. requests[c] \in Request /\ Fits(requests[c]) /\ requests[c].at = "save"
    BY InProgress DEF SaveChallenge, At
  <1> DEFINE v == [kind |-> requests[c].op, user |-> requests[c].user]
  <1>2. v \in Challenge /\ (v.kind # "login" => v.user \in Users)
    BY <1>1 DEF Fits, Request, Challenge, Ops, Ceremonies
  <1> HIDE DEF v
  <1> PICK h \in Challenges : FreshChallenge(h) /\ challenges' = [challenges EXCEPT ![h] = v]
    BY DEF SaveChallenge, v
  <1>3. requests' = [requests EXCEPT ![c] = None] /\ UNCHANGED <<users, invites, keys, sessions>>
    BY DEF SaveChallenge, Done
  <1>4. TypeOK'
    BY <1>2, <1>3 DEF IInv, TypeOK
  <1>5. ChallengesFit'
    BY <1>2 DEF IInv, TypeOK, ChallengesFit
  <1>6. ASSUME NEW d \in Conns, NEW q \in Request, requests'[d] = q PROVE Fits(q)'
    <2>1. requests[d] = q /\ Fits(q)
      BY <1>3, <1>6 DEF IInv, TypeOK, RequestsFit
    <2>2. q.challenge # h
      BY <2>1 DEF FreshChallenge
    <2>3. \A u \in Users : Settled(u) <=> Settled(u)'
      BY <1>3 DEF Settled, Exists
    <2>4. \A g \in Challenges : q.challenge = g => challenges'[g] = challenges[g]
      BY <2>2 DEF IInv, TypeOK
    <2>5. QED BY <1>3, <2>1, <2>3, <2>4, FitsStays
  <1>7. QED BY <1>3, <1>4, <1>5, <1>6, ChallengeStep

\* Using up or losing challenges preserves the invariant, whatever one request goes
\* on as, provided that it fits.
LEMMA UsedUpStep ==
  ASSUME IInv, TypeOK',
         \A g \in Challenges : challenges'[g] = challenges[g] \/ challenges'[g] = None,
         NEW r \in Request \cup {None}, r # None => Fits(r)',
         \A d \in Conns : requests'[d] = requests[d] \/ requests'[d] = r,
         UNCHANGED <<users, invites, keys, sessions>>
  PROVE  IInv'
  <1>1. ChallengesFit'
    BY DEF IInv, ChallengesFit
  <1>2. ASSUME NEW d \in Conns, NEW q \in Request, requests'[d] = q PROVE Fits(q)'
    <2>1. CASE requests'[d] = r
      BY <1>2, <2>1
    <2>2. CASE requests'[d] = requests[d]
      <3>1. requests[d] = q /\ Fits(q)
        BY <1>2, <2>2 DEF IInv, RequestsFit
      <3>2. \A u \in Users : Settled(u) <=> Settled(u)'
        BY DEF Settled, Exists
      <3>3. QED BY <3>1, <3>2, FitsStays
    <2>3. QED BY <2>1, <2>2
  <1>3. QED BY <1>1, <1>2, ChallengeStep

\* The types of a step that uses up at most challenge h, and in which request c goes
\* on as r.
LEMMA UsedUpTypes ==
  ASSUME IInv, NEW h \in Challenges, UsedUp(h) \/ UNCHANGED challenges,
         NEW c \in Conns, NEW r \in Request \cup {None},
         requests' = [requests EXCEPT ![c] = r],
         UNCHANGED <<users, invites, keys, sessions>>
  PROVE  /\ TypeOK'
         /\ \A g \in Challenges : challenges'[g] = challenges[g] \/ challenges'[g] = None
         /\ \A d \in Conns : requests'[d] = requests[d] \/ requests'[d] = r
  BY DEF IInv, TypeOK, UsedUp

\* A challenge that is consumed, or refused.
LEMMA ConsumeIInv ==
  ASSUME IInv, NEW c \in Conns, Consume(c) \/ ConsumeFails(c) \/ ConsumeRefuses(c)
  PROVE  IInv'
  <1>1. /\ requests[c] \in Request /\ Fits(requests[c]) /\ requests[c].at = "consume"
        /\ requests[c].challenge \in Challenges
    BY InProgress DEF Consume, ConsumeFails, ConsumeRefuses, At, Fits
  <1> PICK h \in Challenges : h = requests[c].challenge
    BY <1>1
  <1>2. CASE Consume(c)
    <2>1. /\ UsedUp(h)
          /\ UNCHANGED <<users, invites, keys, sessions>>
          /\ challenges[h] # None /\ challenges[h].kind = requests[c].op
          /\ challenges'[h] = None
          /\ challenges[h].user \in Users \cup {None}
          /\ requests[c].op # "login" => challenges[h].user \in Users
      BY <1>1, <1>2 DEF Consume, Unused, UsedUp, IInv, TypeOK, ChallengesFit, Challenge
    <2>2. \A u \in Users : Settled(u) <=> Settled(u)'
      BY <2>1 DEF Settled, Exists
    <2>3. ASSUME requests[c].op = "login", GoOn(c, [requests[c] EXCEPT !.at = "verify"])
          PROVE  IInv'
      <3>1. PICK r \in Request : r = [requests[c] EXCEPT !.at = "verify"]
        BY <1>1 DEF Request
      <3>2. r.op = "login" /\ r.at = "verify" /\ r.challenge = h
        BY <1>1, <2>3, <3>1 DEF Request
      <3>3. Fits(r)'
        BY <2>1, <3>2 DEF Fits
      <3>4. requests' = [requests EXCEPT ![c] = r]
        BY <2>3, <3>1 DEF GoOn
      <3>5. /\ TypeOK'
            /\ \A g \in Challenges : challenges'[g] = challenges[g] \/ challenges'[g] = None
            /\ \A d \in Conns : requests'[d] = requests[d] \/ requests'[d] = r
        BY <2>1, <3>4, UsedUpTypes
      <3>6. QED BY <2>1, <3>3, <3>5, UsedUpStep
    <2>4. ASSUME requests[c].op = "setup" \/ (requests[c].op # "login" /\ challenges[h].user = requests[c].user),
                 NEW k \in Keys,
                 GoOn(c, [requests[c] EXCEPT !.at = "persist", !.user = challenges[h].user, !.key = k])
          PROVE  IInv'
      <3> PICK p \in Users \cup {None} : p = challenges[h].user
        BY <2>1
      <3> PICK q \in Request : q = requests[c]
        BY <1>1
      <3>0. [q EXCEPT !.at = "persist", !.user = p, !.key = k] \in Request
        BY DEF Request
      <3>1. PICK r \in Request :
               r = [requests[c] EXCEPT !.at = "persist", !.user = challenges[h].user, !.key = k]
        BY <3>0
      <3>2. /\ r.op = requests[c].op /\ r.op \in {"setup", "add", "enroll"}
            /\ r.at = "persist" /\ r.challenge = h /\ r.key = k
            /\ r.user \in Users
            /\ r.op # "setup" => r.user = requests[c].user
        BY <1>1, <2>1, <2>4, <3>1 DEF Request, Ops, Ceremonies, Fits
      <3>3. Fits(r)'
        BY <1>1, <2>1, <2>2, <3>2 DEF Fits
      <3>4. requests' = [requests EXCEPT ![c] = r]
        BY <2>4, <3>1 DEF GoOn
      <3>5. /\ TypeOK'
            /\ \A g \in Challenges : challenges'[g] = challenges[g] \/ challenges'[g] = None
            /\ \A d \in Conns : requests'[d] = requests[d] \/ requests'[d] = r
        BY <2>1, <3>4, UsedUpTypes
      <3>6. QED BY <2>1, <3>3, <3>5, UsedUpStep
    <2>5. ASSUME Done(c) PROVE IInv'
      <3>1. requests' = [requests EXCEPT ![c] = None]
        BY <2>5 DEF Done
      <3>2. /\ TypeOK'
            /\ \A g \in Challenges : challenges'[g] = challenges[g] \/ challenges'[g] = None
            /\ \A d \in Conns : requests'[d] = requests[d] \/ requests'[d] = None
        BY <2>1, <3>1, UsedUpTypes
      <3>3. QED BY <2>1, <3>2, UsedUpStep
    <2>6. QED BY <1>2, <2>3, <2>4, <2>5 DEF Consume
  <1>3. CASE ConsumeFails(c)
    <2>1. PICK r \in Request : r = [requests[c] EXCEPT !.spent = TRUE]
      BY <1>1 DEF Request
    <2>2. UsedUp(h) \/ UNCHANGED challenges
      BY <1>3 DEF ConsumeFails
    <2>3. UNCHANGED <<users, invites, keys, sessions>>
      BY <1>3 DEF ConsumeFails
    <2>4. Fits(r)
      BY <1>1, <2>1 DEF Fits, Request
    <2>5. r.at = "consume"
      BY <1>1, <2>1 DEF Request
    <2>6. \A u \in Users : Settled(u) <=> Settled(u)'
      BY <2>3 DEF Settled, Exists
    <2>7. Fits(r)'
      BY <2>3, <2>4, <2>5, <2>6 DEF Fits
    <2>8. requests' = [requests EXCEPT ![c] = r]
      BY <1>3, <2>1 DEF ConsumeFails, GoOn
    <2>9. /\ TypeOK'
          /\ \A g \in Challenges : challenges'[g] = challenges[g] \/ challenges'[g] = None
          /\ \A d \in Conns : requests'[d] = requests[d] \/ requests'[d] = r
      BY <2>2, <2>3, <2>8, UsedUpTypes
    <2>10. QED BY <2>3, <2>7, <2>9, UsedUpStep
  <1>4. CASE ConsumeRefuses(c)
    BY <1>4, DoneStep DEF ConsumeRefuses
  <1>5. QED BY <1>2, <1>3, <1>4

\* A challenge expires.
LEMMA ChallengeExpiresIInv ==
  ASSUME IInv, NEW h \in Challenges, ChallengeExpires(h) PROVE IInv'
  <1>1. /\ UNCHANGED <<users, invites, keys, sessions, requests>>
        /\ challenges' = [challenges EXCEPT ![h] = None]
    BY DEF ChallengeExpires
  <1>2. TypeOK' /\ \A g \in Challenges : challenges'[g] = challenges[g] \/ challenges'[g] = None
    BY <1>1 DEF IInv, TypeOK
  <1>3. QED BY <1>1, <1>2, UsedUpStep

-----------------------------------------------------------------------------
(* Sessions and invitations *)

\* A step that writes the tables but no challenge preserves the invariant if the
\* tables fit after it, settled users stay settled, invitations stay, and the one
\* request that moves fits.
LEMMA TableStep ==
  ASSUME IInv, TypeOK', TablesFit', OneFirstAdmin', UNCHANGED challenges,
         \A u \in Users : Settled(u) => Settled(u)',
         \A u \in Users : invites[u] # "none" => invites'[u] # "none",
         NEW r \in Request \cup {None}, r # None => Fits(r)',
         \A d \in Conns : requests'[d] = requests[d] \/ requests'[d] = r
  PROVE  IInv'
  <1>1. ChallengesFit'
    BY DEF IInv, ChallengesFit
  <1>2. ASSUME NEW d \in Conns, NEW q \in Request, requests'[d] = q PROVE Fits(q)'
    <2>1. CASE requests'[d] = r
      BY <1>2, <2>1
    <2>2. CASE requests'[d] = requests[d]
      <3>1. Fits(q)
        BY <1>2, <2>2 DEF IInv, RequestsFit
      <3>2. QED BY <3>1, FitsStays
    <2>3. QED BY <2>1, <2>2
  <1>3. QED BY <1>1, <1>2, RequestsFitNext DEF IInv

\* A session begins for a settled user only.
LEMMA CreateSessionIInv ==
  ASSUME IInv, NEW c \in Conns, CreateSession(c) PROVE IInv'
  <1>1. requests[c] \in Request /\ requests[c].user \in Users /\ Settled(requests[c].user)
    BY InProgress DEF CreateSession, At, Fits
  <1> PICK u \in Users : u = requests[c].user
    BY <1>1
  <1>2. /\ sessions' = sessions \cup {u}
        /\ requests' = [requests EXCEPT ![c] = None]
        /\ UNCHANGED <<users, invites, keys, challenges>>
    BY DEF CreateSession, Done
  <1>3. TypeOK' /\ \A d \in Conns : requests'[d] = requests[d] \/ requests'[d] = None
    BY <1>2 DEF IInv, TypeOK
  <1>4. \A v \in Users : Settled(v) <=> Settled(v)'
    BY <1>2 DEF Settled, Exists
  <1>5. TablesFit'
    BY <1>1, <1>2, <1>4 DEF IInv, TypeOK, TablesFit, Exists
  <1>6. OneFirstAdmin'
    BY <1>2 DEF IInv, OneFirstAdmin, Exists
  <1>7. QED BY <1>2, <1>3, <1>4, <1>5, <1>6, TableStep

\* A session ends.
LEMMA SessionEndsIInv ==
  ASSUME IInv, NEW u \in Users, SessionEnds(u) PROVE IInv'
  <1>1. sessions' = sessions \ {u} /\ UNCHANGED <<users, invites, keys, challenges, requests>>
    BY DEF SessionEnds
  <1>2. TypeOK'
    BY <1>1 DEF IInv, TypeOK
  <1>3. \A v \in Users : Settled(v) <=> Settled(v)'
    BY <1>1 DEF Settled, Exists
  <1>4. TablesFit'
    BY <1>1, <1>3 DEF IInv, TypeOK, TablesFit, Exists
  <1>5. OneFirstAdmin'
    BY <1>1 DEF IInv, OneFirstAdmin, Exists
  <1>6. QED BY <1>1, <1>2, <1>3, <1>4, <1>5, TableStep

\* An invitation expires: nobody settled had it.
LEMMA InviteExpiresIInv ==
  ASSUME IInv, NEW u \in Users, InviteExpires(u) PROVE IInv'
  <1>1. /\ invites[u] = "open" /\ invites' = [invites EXCEPT ![u] = "expired"]
        /\ UNCHANGED <<users, keys, challenges, sessions, requests>>
    BY DEF InviteExpires
  <1>2. TypeOK'
    BY <1>1 DEF IInv, TypeOK
  <1>3. \A v \in Users : /\ (Settled(v) <=> Settled(v)')
                        /\ (invites[v] = "none" <=> invites'[v] = "none")
                        /\ (Exists(v) <=> Exists(v)')
    BY <1>1 DEF IInv, TypeOK, Settled, Exists
  <1>4. TablesFit'
    BY <1>1, <1>3 DEF IInv, TypeOK, TablesFit
  <1>5. OneFirstAdmin'
    BY <1>3 DEF IInv, OneFirstAdmin
  <1>6. QED BY <1>1, <1>2, <1>3, <1>4, <1>5, TableStep

-----------------------------------------------------------------------------
(* The transactions *)

\* The tables fit after a step that keeps settled users settled and adds neither an
\* invitation without an account nor a passkey without a settled owner.
LEMMA TablesFitStep ==
  ASSUME IInv, keys' \in [Keys -> Users \cup {None}], UNCHANGED sessions,
         \A v \in Users : Settled(v) => Settled(v)',
         \A v \in Users : invites'[v] # "none" => Exists(v)',
         \A j \in Keys : \A v \in Users : keys'[j] = v => keys[j] = v \/ Settled(v)'
  PROVE  TablesFit'
  <1>1. \A v \in sessions' : Settled(v)'
    BY DEF IInv, TypeOK, TablesFit
  <1>2. ASSUME NEW j \in Keys, keys'[j] # None PROVE Settled(keys[j])'
    <2>1. PICK v \in Users : v = keys'[j]
      BY <1>2
    <2>2. keys[j] = v => Settled(v)
      BY DEF IInv, TypeOK, TablesFit
    <2>3. Settled(v)'
      BY <2>1, <2>2
    <2>4. QED BY <2>1, <2>3 DEF Settled, Exists
  <1>3. QED BY <1>1, <1>2 DEF TablesFit

\* The first admin stays the only user without an invitation if no user without one
\* is added.
LEMMA FirstAdminStep ==
  ASSUME IInv,
         \A v \in Users : Exists(v)' /\ invites'[v] = "none" => Exists(v) /\ invites[v] = "none"
  PROVE  OneFirstAdmin'
  BY DEF IInv, OneFirstAdmin

\* The tables after a transaction, in terms of those before it.
LEMMA Applied ==
  ASSUME IInv, NEW r \in Request, Fits(r), r.at = "persist", Apply(r)
  PROVE  /\ users' \in [Users -> User \cup {None}]
         /\ invites' \in [Users -> {"none", "open", "expired", "used"}]
         /\ keys' \in [Keys -> Users \cup {None}]
         /\ UNCHANGED <<challenges, sessions>>
         /\ TablesFit' /\ OneFirstAdmin'
         /\ \A u \in Users : Settled(u) => Settled(u)'
         /\ \A u \in Users : invites[u] # "none" => invites'[u] # "none"
         /\ GoesThrough(r) /\ r.op \in {"setup", "enroll"} => Settled(r.user)'
  <1>0. UNCHANGED <<challenges, sessions>>
    BY DEF Apply
  <1>t. /\ users \in [Users -> User \cup {None}]
        /\ invites \in [Users -> {"none", "open", "expired", "used"}]
        /\ keys \in [Keys -> Users \cup {None}]
        /\ \A v \in Users : invites[v] # "none" => Exists(v)
    BY DEF IInv, TypeOK, TablesFit
  <1>1. CASE ~GoesThrough(r)
    <2>1. UNCHANGED <<users, invites, keys>>
      BY <1>1 DEF Apply
    <2>2. \A v \in Users : (Settled(v) <=> Settled(v)') /\ (Exists(v) <=> Exists(v)')
      BY <2>1 DEF Settled, Exists
    <2>3. TablesFit' /\ OneFirstAdmin'
      BY <1>0, <1>t, <2>1, <2>2, TablesFitStep, FirstAdminStep
    <2>4. QED BY <1>0, <1>1, <1>t, <2>1, <2>2, <2>3
  <1>2. CASE GoesThrough(r) /\ r.op = "setup"
    <2>1. r.user \in Users /\ r.key \in Keys
      BY <1>2 DEF Fits
    <2> PICK u \in Users, k \in Keys : u = r.user /\ k = r.key
      BY <2>1
    <2> PICK w \in User : w = [role |-> "admin", disabled |-> FALSE]
      BY DEF User, Roles
    <2>2. /\ users' = [users EXCEPT ![u] = w]
          /\ invites' = invites
          /\ keys' = [keys EXCEPT ![k] = u]
      BY <1>2 DEF Apply, UsersAfter, InvitesAfter, KeysAfter
    <2>3. /\ users' \in [Users -> User \cup {None}]
          /\ invites' \in [Users -> {"none", "open", "expired", "used"}]
          /\ keys' \in [Keys -> Users \cup {None}]
      BY <1>t, <2>2
    <2>4. \A v \in Users : ~Exists(v) /\ invites[v] = "none" /\ ~Settled(v)
      BY <1>2, <1>t DEF GoesThrough, NoUsers, Settled
    <2>5. \A v \in Users : Exists(v)' <=> v = u
      BY <1>t, <2>2, <2>4 DEF Exists
    <2>6. Settled(u)' /\ \A v \in Users : invites'[v] = "none"
      BY <2>2, <2>4, <2>5 DEF Settled
    <2>7. \A j \in Keys : \A v \in Users : keys'[j] = v => keys[j] = v \/ v = u
      BY <1>t, <2>2
    <2>8. TablesFit'
      BY <1>0, <2>3, <2>4, <2>6, <2>7, TablesFitStep
    <2>9. OneFirstAdmin'
      BY <2>5 DEF OneFirstAdmin
    <2>10. QED BY <1>0, <2>3, <2>4, <2>6, <2>8, <2>9
  <1>3. CASE GoesThrough(r) /\ r.op = "enroll"
    <2>1. r.user \in Users /\ r.key \in Keys /\ invites[r.user] # "none"
      BY <1>3 DEF Fits
    <2> PICK u \in Users, k \in Keys : u = r.user /\ k = r.key
      BY <2>1
    <2>2. /\ users' = [users EXCEPT ![u].disabled = FALSE]
          /\ invites' = [invites EXCEPT ![u] = "used"]
          /\ keys' = [keys EXCEPT ![k] = u]
      BY <1>3 DEF Apply, UsersAfter, InvitesAfter, KeysAfter
    <2>3. users[u] \in User
      BY <1>t, <2>1 DEF Exists
    <2> PICK w \in User : w = [users[u] EXCEPT !.disabled = FALSE]
      BY <2>3 DEF User
    <2>4. users' = [users EXCEPT ![u] = w]
      BY <2>2
    <2>5. /\ users' \in [Users -> User \cup {None}]
          /\ invites' \in [Users -> {"none", "open", "expired", "used"}]
          /\ keys' \in [Keys -> Users \cup {None}]
      BY <1>t, <2>2, <2>4
    <2>6. \A v \in Users : Exists(v) <=> Exists(v)'
      BY <1>t, <2>3, <2>4 DEF Exists
    <2>7. invites'[u] = "used" /\ \A v \in Users : v # u => invites'[v] = invites[v]
      BY <1>t, <2>2
    <2>8. Settled(u)' /\ \A v \in Users : Settled(v) => Settled(v)'
      BY <1>t, <2>1, <2>6, <2>7 DEF Settled
    <2>9. \A j \in Keys : \A v \in Users : keys'[j] = v => keys[j] = v \/ v = u
      BY <1>t, <2>2
    <2>10. \A v \in Users : invites[v] = "none" <=> invites'[v] = "none"
      BY <2>1, <2>7
    <2>11. TablesFit'
      BY <1>0, <1>t, <2>5, <2>6, <2>8, <2>9, <2>10, TablesFitStep
    <2>12. OneFirstAdmin'
      BY <2>6, <2>10, FirstAdminStep
    <2>13. QED BY <1>0, <2>5, <2>8, <2>10, <2>11, <2>12
  <1>4. CASE GoesThrough(r) /\ r.op = "add"
    <2>1. r.user \in Users /\ r.key \in Keys /\ Settled(r.user)
      BY <1>4 DEF Fits
    <2> PICK u \in Users, k \in Keys : u = r.user /\ k = r.key
      BY <2>1
    <2>2. UNCHANGED <<users, invites>> /\ keys' = [keys EXCEPT ![k] = u]
      BY <1>4 DEF Apply, UsersAfter, InvitesAfter, KeysAfter
    <2>3. keys' \in [Keys -> Users \cup {None}]
      BY <1>t, <2>2
    <2>4. \A v \in Users : (Settled(v) <=> Settled(v)') /\ (Exists(v) <=> Exists(v)')
      BY <2>2 DEF Settled, Exists
    <2>5. \A j \in Keys : \A v \in Users : keys'[j] = v => keys[j] = v \/ v = u
      BY <1>t, <2>2
    <2>6. TablesFit'
      BY <1>0, <1>t, <2>1, <2>2, <2>3, <2>4, <2>5, TablesFitStep
    <2>7. OneFirstAdmin'
      BY <2>2, <2>4, FirstAdminStep
    <2>8. QED BY <1>0, <1>4, <1>t, <2>2, <2>3, <2>4, <2>6, <2>7
  <1>5. CASE GoesThrough(r) /\ r.op = "remove"
    <2>1. r.key \in Keys
      BY <1>5 DEF Fits
    <2> PICK k \in Keys : k = r.key
      BY <2>1
    <2>2. UNCHANGED <<users, invites>> /\ keys' = [keys EXCEPT ![k] = None]
      BY <1>5 DEF Apply, UsersAfter, InvitesAfter, KeysAfter
    <2>3. keys' \in [Keys -> Users \cup {None}]
      BY <1>t, <2>2
    <2>4. \A v \in Users : (Settled(v) <=> Settled(v)') /\ (Exists(v) <=> Exists(v)')
      BY <2>2 DEF Settled, Exists
    <2>5. \A j \in Keys : \A v \in Users : keys'[j] = v => keys[j] = v
      BY <1>t, <2>2
    <2>6. TablesFit'
      BY <1>0, <1>t, <2>2, <2>3, <2>4, <2>5, TablesFitStep
    <2>7. OneFirstAdmin'
      BY <2>2, <2>4, FirstAdminStep
    <2>8. QED BY <1>0, <1>5, <1>t, <2>2, <2>3, <2>4, <2>6, <2>7
  <1>6. CASE GoesThrough(r) /\ r.op = "update"
    <2>1. r.target \in Users /\ r.role \in Roles /\ r.disabled \in BOOLEAN /\ Exists(r.target)
      BY <1>6 DEF Fits, Request, GoesThrough
    <2> PICK t \in Users, w \in User : t = r.target /\ w = [role |-> r.role, disabled |-> r.disabled]
      BY <2>1 DEF User
    <2>2. users' = [users EXCEPT ![t] = w] /\ UNCHANGED <<invites, keys>>
      BY <1>6 DEF Apply, UsersAfter, InvitesAfter, KeysAfter
    <2>3. users' \in [Users -> User \cup {None}]
      BY <1>t, <2>2
    <2>4. \A v \in Users : Exists(v) <=> Exists(v)'
      BY <1>t, <2>1, <2>2 DEF Exists
    <2>5. \A v \in Users : Settled(v) <=> Settled(v)'
      BY <2>2, <2>4 DEF Settled
    <2>6. TablesFit'
      BY <1>0, <1>t, <2>2, <2>4, <2>5, TablesFitStep
    <2>7. OneFirstAdmin'
      BY <2>2, <2>4, FirstAdminStep
    <2>8. QED BY <1>0, <1>6, <1>t, <2>2, <2>3, <2>5, <2>6, <2>7
  <1>7. CASE GoesThrough(r) /\ r.op = "invite"
    <2>1. r.target \in Users /\ r.role \in Roles /\ ~Exists(r.target)
      BY <1>7 DEF Fits, GoesThrough
    <2> PICK t \in Users, w \in User : t = r.target /\ w = [role |-> r.role, disabled |-> TRUE]
      BY <2>1 DEF User
    <2>2. /\ users' = [users EXCEPT ![t] = w]
          /\ invites' = [invites EXCEPT ![t] = "open"]
          /\ keys' = keys
      BY <1>7 DEF Apply, UsersAfter, InvitesAfter, KeysAfter
    <2>3. /\ users' \in [Users -> User \cup {None}]
          /\ invites' \in [Users -> {"none", "open", "expired", "used"}]
      BY <1>t, <2>2
    <2>4. /\ Exists(t)' /\ invites'[t] = "open"
          /\ \A v \in Users : v # t => (Exists(v) <=> Exists(v)') /\ invites'[v] = invites[v]
      BY <1>t, <2>2 DEF Exists
    <2>5. \A v \in Users : Settled(v) => Settled(v)'
      BY <2>1, <2>4 DEF Settled
    <2>6. \A v \in Users : invites[v] # "none" => invites'[v] # "none"
      BY <2>4
    <2>7. \A v \in Users : invites'[v] # "none" => Exists(v)'
      BY <1>t, <2>4
    <2>8. TablesFit'
      BY <1>0, <1>t, <2>2, <2>5, <2>7, TablesFitStep
    <2>9. OneFirstAdmin'
      BY <2>4, FirstAdminStep
    <2>10. QED BY <1>0, <1>7, <1>t, <2>2, <2>3, <2>5, <2>6, <2>8, <2>9
  <1>8. r.op \in {"setup", "enroll", "add", "remove", "update", "invite"}
    BY DEF Fits, Request, Ops, Ceremonies
  <1>9. QED BY <1>1, <1>2, <1>3, <1>4, <1>5, <1>6, <1>7, <1>8

\* A transaction that is done, or applied with its answer lost.
LEMMA TransactionIInv ==
  ASSUME IInv, NEW c \in Conns, Persist(c) \/ AnswerLost(c) PROVE IInv'
  <1>1. /\ requests[c] \in Request /\ Fits(requests[c]) /\ requests[c].at = "persist"
        /\ Apply(requests[c])
    BY InProgress DEF Persist, AnswerLost, At
  <1> PICK r \in Request : r = requests[c]
    BY <1>1
  <1>2. CASE AnswerLost(c)
    <2>1. UNCHANGED requests
      BY <1>2 DEF AnswerLost
    <2>2. TypeOK'
      BY <1>1, <2>1, Applied DEF IInv, TypeOK
    <2>3. QED BY <1>1, <2>1, <2>2, Applied, TableStep
  <1>3. ASSUME Done(c) PROVE IInv'
    <2>1. TypeOK' /\ \A d \in Conns : requests'[d] = requests[d] \/ requests'[d] = None
      BY <1>1, <1>3, Applied DEF IInv, TypeOK, Done
    <2>2. QED BY <1>1, <2>1, Applied, TableStep
  <1>4. ASSUME GoesThrough(r), r.op \in {"setup", "enroll"},
               GoOn(c, [r EXCEPT !.at = "session"])
        PROVE  IInv'
    <2>1. PICK q \in Request : q = [r EXCEPT !.at = "session"]
      BY DEF Request
    <2>2. /\ q.op = r.op /\ q.at = "session" /\ q.user = r.user /\ q.challenge = r.challenge
          /\ q.target = r.target /\ q.role = r.role /\ q.disabled = r.disabled
      BY <2>1 DEF Request
    <2>3. /\ r.user \in Users /\ Settled(r.user)'
          /\ invites[r.user] # "none" => invites'[r.user] # "none"
          /\ UNCHANGED challenges
      BY <1>1, <1>4, Applied DEF Fits
    <2>4. Fits(q)'
      BY <1>1, <1>4, <2>2, <2>3 DEF Fits
    <2>5. requests' = [requests EXCEPT ![c] = q]
      BY <1>4, <2>1 DEF GoOn
    <2>6. TypeOK' /\ \A d \in Conns : requests'[d] = requests[d] \/ requests'[d] = q
      BY <1>1, <2>5, Applied DEF IInv, TypeOK
    <2>7. QED BY <1>1, <2>4, <2>6, Applied, TableStep
  <1>5. QED BY <1>2, <1>3, <1>4 DEF Persist

-----------------------------------------------------------------------------
(* The specification *)

\* Every step preserves the invariant.
LEMMA NextIInv ==
  ASSUME IInv, [Next]_vars PROVE IInv'
  <1>1. CASE UNCHANGED vars
    BY <1>1 DEF vars, IInv, TypeOK, TablesFit, ChallengesFit, RequestsFit, OneFirstAdmin,
                Fits, Settled, Exists
  <1>2. ASSUME NEW c \in Conns, Serve(c) PROVE IInv'
    <2>1. CASE GiveUp(c)
      BY <2>1, DoneStep DEF GiveUp
    <2>2. CASE SaveChallenge(c)
      BY <2>2, SaveChallengeIInv
    <2>3. CASE Verify(c)
      BY <2>3, VerifyIInv
    <2>4. CASE CreateSession(c)
      BY <2>4, CreateSessionIInv
    <2>5. QED BY <1>2, <2>1, <2>2, <2>3, <2>4, StartIInv, FinishIInv, FormIInv, ConsumeIInv,
                 TransactionIInv DEF Serve
  <1>3. ASSUME NEW h \in Challenges, ChallengeExpires(h) PROVE IInv'
    BY <1>3, ChallengeExpiresIInv
  <1>4. ASSUME NEW u \in Users, SessionEnds(u) \/ InviteExpires(u) PROVE IInv'
    BY <1>4, SessionEndsIInv, InviteExpiresIInv
  <1>5. QED BY <1>1, <1>2, <1>3, <1>4 DEF Next

\* What a request checked when it began stays true of it until its last step, for
\* every number of users, passkeys, challenges and requests.
THEOREM Inductive == Spec => []IInv
  <1>1. IInv /\ [Next]_vars => IInv'
    BY NextIInv
  <1>2. QED BY <1>1, InitIInv, PTL DEF Spec

\* The tables and requests have their types.
THEOREM TypeCorrect == Spec => []TypeOK
  <1>1. IInv => TypeOK
    BY DEF IInv
  <1>2. QED BY <1>1, Inductive, PTL

\* CreateFirstAdminWithPasskey makes one first admin, however many setups run at
\* once and however often one is repeated.
THEOREM FirstAdminUnique == Spec => []OneFirstAdmin
  <1>1. IInv => OneFirstAdmin
    BY DEF IInv
  <1>2. QED BY <1>1, Inductive, PTL

\* An account whose enrollment is pending has neither passkey nor session.
THEOREM PendingStaysOut == Spec => []PendingCannotSignIn
  <1>1. IInv => PendingCannotSignIn
    BY DEF IInv, TablesFit, Settled, PendingCannotSignIn
  <1>2. QED BY <1>1, Inductive, PTL

-----------------------------------------------------------------------------
(* Challenges serve once *)

\* The request is past its challenge.
Past(r) == r # None /\ r.at \in {"verify", "persist", "session"}

\* A request gets past challenge h only by using it up, and then nobody else moves.
LEMMA PastStep ==
  ASSUME IInv, [Next]_vars, NEW d \in Conns, NEW h \in Challenges,
         Past(requests'[d]), requests'[d].challenge = h
  PROVE  \/ Past(requests[d]) /\ requests[d].challenge = h
         \/ challenges[h] # None /\ \A e \in Conns \ {d} : requests'[e] = requests[e]
  <1>0. h # None
    OBVIOUS
  <1>1. ASSUME NEW c \in Conns, NEW r, requests' = [requests EXCEPT ![c] = r],
               Past(r) => \/ Past(requests[c]) /\ requests[c].challenge = r.challenge
                          \/ r.challenge = None
        PROVE  Past(requests[d]) /\ requests[d].challenge = h
    BY <1>0, <1>1 DEF IInv, TypeOK
  <1>2. CASE UNCHANGED requests
    BY <1>2
  <1>3. ASSUME NEW c \in Conns, Serve(c), requests' # requests
        PROVE  \/ Past(requests[d]) /\ requests[d].challenge = h
               \/ challenges[h] # None /\ \A e \in Conns \ {d} : requests'[e] = requests[e]
    <2>1. ASSUME requests[c] # None PROVE requests[c] \in Request
      BY <2>1, InProgress
    <2>2. CASE Start(c)
      BY <1>1, <2>2 DEF Start, Begin, Request0, Past
    <2>3. CASE Finish(c)
      BY <1>1, <2>3 DEF Finish, Begin, Request0, Past
    <2>4. CASE DeletePasskey(c) \/ CreateUser(c) \/ UpdateUser(c)
      BY <1>1, <2>4 DEF DeletePasskey, CreateUser, UpdateUser, Begin, Request0, Past
    <2>5. CASE Done(c)
      BY <1>1, <2>5 DEF Done, Past
    <2>6. CASE Verify(c) \/ Persist(c)
      BY <1>1, <2>1, <2>5, <2>6 DEF Verify, Persist, At, GoOn, Past, Request
    <2>7. CASE ConsumeFails(c)
      BY <1>1, <2>1, <2>7 DEF ConsumeFails, At, GoOn, Past, Request
    <2>8. CASE Consume(c)
      <3>1. requests[c] # None /\ challenges[requests[c].challenge] # None
        BY <2>8 DEF Consume, At, Unused
      <3>2. ASSUME NEW r, requests' = [requests EXCEPT ![c] = r], r.challenge = requests[c].challenge
            PROVE  \/ Past(requests[d]) /\ requests[d].challenge = h
                   \/ challenges[h] # None /\ \A e \in Conns \ {d} : requests'[e] = requests[e]
        BY <3>1, <3>2 DEF IInv, TypeOK
      <3>3. QED BY <2>1, <2>5, <2>8, <3>1, <3>2 DEF Consume, GoOn, Request
    <2>9. QED
      BY <1>3, <2>2, <2>3, <2>4, <2>5, <2>6, <2>7, <2>8
         DEF Serve, SaveChallenge, ConsumeRefuses, AnswerLost, CreateSession, GiveUp
  <1>4. QED BY <1>2, <1>3 DEF Next, vars, ChallengeExpires, SessionEnds, InviteExpires

\* No two requests ever get past the same challenge.
LEMMA NextServesOnce ==
  ASSUME IInv, ChallengeServesOnce, [Next]_vars PROVE ChallengeServesOnce'
  <1> SUFFICES ASSUME NEW c \in Conns, NEW d \in Conns, Past(requests'[c]), Past(requests'[d]),
                      requests'[c].challenge # None,
                      requests'[c].challenge = requests'[d].challenge, c # d
               PROVE  FALSE
    BY DEF ChallengeServesOnce, Past
  <1>1. requests'[c] \in Request
    BY NextIInv DEF IInv, TypeOK, Past
  <1>2. PICK h \in Challenges : requests'[c].challenge = h /\ requests'[d].challenge = h
    BY <1>1 DEF Request
  <1>3. ASSUME NEW e \in Conns, Past(requests[e]), requests[e].challenge = h
        PROVE  challenges[h] = None
    BY <1>3, InProgress DEF Past, Fits
  <1>4. CASE Past(requests[c]) /\ requests[c].challenge = h
    BY <1>2, <1>3, <1>4, PastStep DEF ChallengeServesOnce, Past
  <1>5. CASE ~(Past(requests[c]) /\ requests[c].challenge = h)
    BY <1>2, <1>3, <1>5, PastStep
  <1>6. QED BY <1>4, <1>5

\* ConsumeWebAuthnChallenge lets one request through with a challenge, however many
\* present it and however often a transaction is repeated.
THEOREM ChallengeIsSingleUse == Spec => []ChallengeServesOnce
  <1>1. Init => ChallengeServesOnce
    BY DEF Init, ChallengeServesOnce
  <1>2. IInv /\ ChallengeServesOnce /\ [Next]_vars => ChallengeServesOnce'
    BY NextServesOnce
  <1>3. QED BY <1>1, <1>2, Inductive, PTL DEF Spec

-----------------------------------------------------------------------------
(* What a step may not do *)

\* Users and passkeys change in the transactions of requests only.
LEMMA TablesChange ==
  ASSUME IInv, [Next]_vars
  PROVE  \/ UNCHANGED <<users, keys>>
         \/ \E c \in Conns : \E r \in Request :
               requests[c] = r /\ Fits(r) /\ r.at = "persist" /\ GoesThrough(r) /\ Apply(r)
  <1>1. ASSUME NEW c \in Conns, Persist(c) \/ AnswerLost(c)
        PROVE  \/ UNCHANGED <<users, keys>>
               \/ \E r \in Request : /\ requests[c] = r /\ Fits(r) /\ r.at = "persist"
                                    /\ GoesThrough(r) /\ Apply(r)
    <2>1. /\ requests[c] \in Request /\ Fits(requests[c]) /\ requests[c].at = "persist"
          /\ Apply(requests[c])
      BY <1>1, InProgress DEF Persist, AnswerLost, At
    <2>2. GoesThrough(requests[c]) \/ UNCHANGED <<users, keys>>
      BY <2>1 DEF Apply
    <2>3. QED BY <2>1, <2>2
  <1>2. ASSUME NEW c \in Conns, Serve(c) PROVE UNCHANGED <<users, keys>> \/ Persist(c) \/ AnswerLost(c)
    BY <1>2 DEF Serve, Start, Finish, DeletePasskey, CreateUser, UpdateUser, Begin, SaveChallenge,
                Consume, ConsumeFails, ConsumeRefuses, Verify, CreateSession, GiveUp
  <1>3. QED BY <1>1, <1>2 DEF Next, vars, ChallengeExpires, SessionEnds, InviteExpires

\* What KeepsAPasskey says of a step.
KeepStep == \A u \in Users : (\E k \in Keys : keys[k] = u) => \E k \in Keys : keys'[k] = u

\* DELETE asks in the transaction for another passkey of the same user.
LEMMA NextKeeps == IInv /\ [Next]_vars => [KeepStep]_vars
  <1> SUFFICES ASSUME IInv, [Next]_vars, NEW u \in Users, NEW k \in Keys, keys[k] = u
               PROVE  \E j \in Keys : keys'[j] = u
    BY DEF KeepStep
  <1>1. CASE UNCHANGED <<users, keys>>
    BY <1>1
  <1>2. ASSUME NEW r \in Request, Fits(r), r.at = "persist", GoesThrough(r), Apply(r)
        PROVE  \E j \in Keys : keys'[j] = u
    <2>1. keys' = KeysAfter(r)
      BY <1>2 DEF Apply
    <2>2. CASE r.op = "setup"
      <3>1. users[u] = None
        BY <1>2, <2>2 DEF GoesThrough, NoUsers, Exists
      <3>2. QED BY <3>1 DEF IInv, TypeOK, TablesFit, Settled, Exists
    <2>3. CASE r.op \in {"enroll", "add"}
      <3>1. keys[r.key] = None /\ keys' = [keys EXCEPT ![r.key] = r.user]
        BY <1>2, <2>1, <2>3 DEF GoesThrough, KeysAfter
      <3>2. k # r.key
        BY <3>1
      <3>3. QED BY <3>1, <3>2 DEF IInv, TypeOK
    <2>4. CASE r.op = "remove"
      <3>1. /\ keys[r.key] = r.user /\ \E j \in Keys : j # r.key /\ keys[j] = r.user
            /\ keys' = [keys EXCEPT ![r.key] = None]
        BY <1>2, <2>1, <2>4 DEF GoesThrough, KeepsOne, KeysAfter
      <3>2. QED BY <3>1 DEF IInv, TypeOK
    <2>5. CASE r.op \in {"update", "invite"}
      BY <2>1, <2>5 DEF KeysAfter
    <2>6. r.op \in {"setup", "enroll", "add", "remove", "update", "invite"}
      BY <1>2 DEF Fits, Request, Ops, Ceremonies
    <2>7. QED BY <2>2, <2>3, <2>4, <2>5, <2>6
  <1>3. QED BY <1>1, <1>2, TablesChange

\* Nobody loses the last passkey, for every number of passkeys and requests.
THEOREM LastPasskeyStays == Spec => KeepsAPasskey
  <1>1. QED BY NextKeeps, Inductive, PTL DEF Spec, KeepsAPasskey, KeepStep

\* What a transaction does to the account of u.
LEMMA AccountChange ==
  ASSUME IInv, NEW r \in Request, Fits(r), r.at = "persist", GoesThrough(r), Apply(r),
         NEW u \in Users, Exists(u)
  PROVE  \/ users'[u] = users[u]
         \/ r.op = "enroll" /\ r.user = u /\ invites[u] # "used"
            /\ users'[u] = [users[u] EXCEPT !.disabled = FALSE]
         \/ r.op = "update" /\ r.target = u
            /\ users'[u] = [role |-> r.role, disabled |-> r.disabled]
  <1>1. users' = UsersAfter(r)
    BY DEF Apply
  <1>2. r.op # "setup"
    BY DEF GoesThrough, NoUsers
  <1>3. r.op = "invite" => r.target # u
    BY DEF GoesThrough
  <1>4. r.op = "enroll" => invites[r.user] # "used"
    BY DEF GoesThrough
  <1>5. QED BY <1>1, <1>2, <1>3, <1>4 DEF UsersAfter, IInv, TypeOK

\* What EnabledByAdminOnly says of a step.
EnableStep ==
  \A u \in Users :
     Exists(u) /\ ~Enabled(u) /\ invites[u] = "used" /\ Enabled(u)' =>
        \E c \in Conns :
            /\ requests[c] # None
            /\ requests[c].op = "update"
            /\ requests[c].target = u
            /\ ~requests[c].disabled

\* An enrollment asks in the transaction for an invitation that is not used.
LEMMA NextEnables == IInv /\ [Next]_vars => [EnableStep]_vars
  <1> SUFFICES ASSUME IInv, [Next]_vars, NEW u \in Users,
                      Exists(u), ~Enabled(u), invites[u] = "used", Enabled(u)'
               PROVE  \E c \in Conns : /\ requests[c] # None
                                       /\ requests[c].op = "update"
                                       /\ requests[c].target = u
                                       /\ ~requests[c].disabled
    BY DEF EnableStep
  <1>1. users'[u] # users[u]
    BY DEF Enabled, Exists
  <1>2. PICK c \in Conns, r \in Request :
           requests[c] = r /\ Fits(r) /\ r.at = "persist" /\ GoesThrough(r) /\ Apply(r)
    BY <1>1, TablesChange
  <1>3. r.op = "update" /\ r.target = u /\ users'[u] = [role |-> r.role, disabled |-> r.disabled]
    BY <1>1, <1>2, AccountChange
  <1>4. ~r.disabled
    BY <1>3 DEF Enabled
  <1>5. QED BY <1>2, <1>3, <1>4

\* After enrollment only an admin's update enables an account.
THEOREM OnlyAdminEnables == Spec => EnabledByAdminOnly
  <1>1. QED BY NextEnables, Inductive, PTL DEF Spec, EnabledByAdminOnly, EnableStep

\* What LastAdminIsLostOnlyByRace says of a step.
RaceStep ==
  (\E u \in Users : EnabledAdmin(u)) /\ ~(\E u \in Users : EnabledAdmin(u))' =>
     \E c \in Conns :
         /\ requests[c] # None
         /\ requests[c].op = "update"
         /\ ~EnabledAdmin(requests[c].user)

\* An update does not disable or demote the admin who sends it, and no other
\* transaction disables or demotes anybody.
LEMMA NextRaces == IInv /\ [Next]_vars => [RaceStep]_vars
  <1> SUFFICES ASSUME IInv, [Next]_vars, NEW u \in Users, EnabledAdmin(u),
                      \A v \in Users : ~EnabledAdmin(v)'
               PROVE  \E c \in Conns : /\ requests[c] # None
                                       /\ requests[c].op = "update"
                                       /\ ~EnabledAdmin(requests[c].user)
    BY DEF RaceStep
  <1>1. users'[u] # users[u] /\ Exists(u)
    BY DEF EnabledAdmin, Enabled, Exists
  <1>2. PICK c \in Conns, r \in Request :
           requests[c] = r /\ Fits(r) /\ r.at = "persist" /\ GoesThrough(r) /\ Apply(r)
    BY <1>1, TablesChange
  <1>3. users[u] \in User
    BY <1>1 DEF IInv, TypeOK, Exists
  <1>4. r.op = "update" /\ r.target = u
    <2>1. users'[u] # [users[u] EXCEPT !.disabled = FALSE]
      BY <1>3 DEF EnabledAdmin, Enabled, Exists, User
    <2>2. QED BY <1>1, <1>2, <2>1, AccountChange
  <1>5. ASSUME EnabledAdmin(r.user) PROVE FALSE
    <2>1. r.user \in Users /\ ~EnabledAdmin(r.user)'
      BY <1>2, <1>4 DEF Fits
    <2>2. Exists(r.user) /\ users'[r.user] # users[r.user]
      BY <1>5, <2>1 DEF EnabledAdmin, Enabled, Exists
    <2>3. r.target = r.user /\ users'[r.user] = [role |-> r.role, disabled |-> r.disabled]
      <3>1. users' = [users EXCEPT ![r.target] = [role |-> r.role, disabled |-> r.disabled]]
        BY <1>2, <1>4 DEF Apply, UsersAfter
      <3>2. QED BY <2>1, <2>2, <3>1 DEF IInv, TypeOK
    <2>4. ~r.disabled /\ r.role = "admin"
      BY <1>2, <1>4, <2>3 DEF Fits
    <2>5. users'[r.user] \in User
      BY <2>3, <2>4 DEF User, Roles, Request
    <2>6. QED BY <2>1, <2>3, <2>4, <2>5 DEF EnabledAdmin, Enabled, Exists
  <1>6. QED BY <1>2, <1>4, <1>5

\* The last enabled admin is lost only to an update whose sender was disabled or
\* demoted since it began.
THEOREM LastAdminRace == Spec => LastAdminIsLostOnlyByRace
  <1>1. QED BY NextRaces, Inductive, PTL DEF Spec, LastAdminIsLostOnlyByRace, RaceStep
=============================================================================
