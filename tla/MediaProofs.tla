---------------------------- MODULE MediaProofs ----------------------------
(***************************************************************************)
(* Proofs about Media, for every set of users, images and ids, every       *)
(* finite set of uploads at once and every quota.                          *)
(***************************************************************************)
EXTENDS Media, FiniteSetTheorems, TLAPS

LEMMA Parameters ==
    /\ None \notin Images \cup Row
    /\ UserQuota \in Nat \ {0} /\ TotalQuota \in Nat \ {0} /\ MaxLost \in Nat
    /\ IsFiniteSet(Ids) /\ IsFiniteSet(Conns)
BY MediaAssumption DEF MediaAssumption

-----------------------------------------------------------------------------
(* Counting: A is what is stored, P the uploads to come                      *)

LEMMA Finite ==
    /\ Cardinality(Conns) \in Nat
    /\ \A A \in SUBSET Ids : IsFiniteSet(A) /\ Cardinality(A) \in Nat
    /\ \A P \in SUBSET Conns :
          IsFiniteSet(P) /\ Cardinality(P) \in Nat /\ Cardinality(P) <= Cardinality(Conns)
<1>1. \A A \in SUBSET Ids : IsFiniteSet(A)
  BY Parameters, FS_Subset
<1>2. \A P \in SUBSET Conns : IsFiniteSet(P) /\ Cardinality(P) <= Cardinality(Conns)
  BY Parameters, FS_Subset
<1> QED BY <1>1, <1>2, Parameters, FS_CardinalityType

\* Nothing is stored and no upload is admitted.
LEMMA StillWithin ==
    ASSUME NEW Q \in Nat, NEW A \in SUBSET Ids, NEW P \in SUBSET Conns,
           NEW B \in SUBSET A, NEW R \in SUBSET P,
           Cardinality(A) + Cardinality(P) <= Q + Cardinality(Conns) - 1
    PROVE  Cardinality(B) + Cardinality(R) <= Q + Cardinality(Conns) - 1
<1>1. Cardinality(B) <= Cardinality(A)
  BY Finite, FS_Subset
<1>2. Cardinality(R) <= Cardinality(P)
  BY Finite, FS_Subset
<1>3. B \in SUBSET Ids /\ R \in SUBSET Conns
  OBVIOUS
<1> QED BY <1>1, <1>2, <1>3, Finite

\* An upload is admitted.
LEMMA AdmittedWithin ==
    ASSUME NEW Q \in Nat, NEW A \in SUBSET Ids, NEW P \in SUBSET Conns,
           Cardinality(A) + 1 <= Q
    PROVE  Cardinality(A) + Cardinality(P) <= Q + Cardinality(Conns) - 1
BY Finite

\* Upload c stores something under id i.
LEMMA StoredWithin ==
    ASSUME NEW Q \in Nat, NEW A \in SUBSET Ids, NEW P \in SUBSET Conns,
           NEW i \in Ids, NEW c \in P,
           NEW B \in SUBSET (A \cup {i}), NEW R \in SUBSET (P \ {c}),
           Cardinality(A) + Cardinality(P) <= Q + Cardinality(Conns) - 1
    PROVE  Cardinality(B) + Cardinality(R) <= Q + Cardinality(Conns) - 1
<1>1. IsFiniteSet(A \cup {i}) /\ Cardinality(A \cup {i}) <= Cardinality(A) + 1
  BY Finite, FS_AddElement
<1>2. IsFiniteSet(P \ {c}) /\ Cardinality(P \ {c}) = Cardinality(P) - 1
  BY Finite, FS_RemoveElement
<1>3. Cardinality(B) <= Cardinality(A \cup {i})
  BY <1>1, FS_Subset
<1>4. Cardinality(R) <= Cardinality(P \ {c})
  BY <1>2, FS_Subset
<1>5. A \cup {i} \in SUBSET Ids /\ B \in SUBSET Ids /\ R \in SUBSET Conns
  OBVIOUS
<1> QED BY <1>1, <1>2, <1>3, <1>4, <1>5, Finite

-----------------------------------------------------------------------------
(* Uploads *)

\* What the place of an upload says of its fields.
LEMMA UploadFields ==
    ASSUME NEW r \in Upload
    PROVE  /\ r.user \in Users /\ r.image \in Images
           /\ r.at \in {"check", "reread", "write", "insert", "attach", "room", "link"}
           /\ r.at \in {"write", "insert", "link"} => r.id \in Ids
           /\ r.at \in {"check", "reread", "attach", "room"} => r.id = None
           /\ r.at \in {"attach", "room", "link"} => r.asset \in Ids
           /\ r.at \in {"check", "reread", "write", "insert"} => r.asset = None
BY DEF Upload, UploadAt

\* An upload is given by its fields.
LEMMA UploadIs ==
    ASSUME NEW r \in Upload
    PROVE  r = [at |-> r.at, user |-> r.user, image |-> r.image, id |-> r.id, asset |-> r.asset]
<1>1. \E S, I, A : r \in UploadAt(S, I, A)
  BY DEF Upload
<1> QED BY <1>1 DEF UploadAt

\* An upload goes on to a place that its fields fit.
LEMMA MovedFits ==
    ASSUME NEW u \in Users, NEW s \in Images, NEW l, NEW i, NEW a,
           \/ l \in {"check", "reread"} /\ i = None /\ a = None
           \/ l \in {"write", "insert"} /\ i \in Ids /\ a = None
           \/ l \in {"attach", "room"} /\ i = None /\ a \in Ids
           \/ l = "link" /\ i \in Ids /\ a \in Ids
    PROVE  [at |-> l, user |-> u, image |-> s, id |-> i, asset |-> a] \in Upload
<1> DEFINE x == [at |-> l, user |-> u, image |-> s, id |-> i, asset |-> a]
<1>1. \/ x \in UploadAt({"check", "reread"}, {None}, {None})
      \/ x \in UploadAt({"write", "insert"}, Ids, {None})
      \/ x \in UploadAt({"attach", "room"}, {None}, Ids)
      \/ x \in UploadAt({"link"}, Ids, Ids)
  BY DEF UploadAt
<1> QED BY <1>1 DEF Upload

\* The fields of an upload that gets an id or an asset, and goes on.
LEMMA Renamed ==
    ASSUME NEW r \in Upload, NEW l, NEW i
    PROVE  [r EXCEPT !.at = l, !.id = i]
              = [at |-> l, user |-> r.user, image |-> r.image, id |-> i, asset |-> r.asset]
<1>1. PICK s : s = [r EXCEPT !.at = l]
  OBVIOUS
<1>2. [r EXCEPT !.at = l, !.id = i] = [s EXCEPT !.id = i]
  BY <1>1
<1>3. s = [at |-> l, user |-> r.user, image |-> r.image, id |-> r.id, asset |-> r.asset]
  BY <1>1, UploadIs
<1>4. [s EXCEPT !.id = i]
         = [at |-> l, user |-> r.user, image |-> r.image, id |-> i, asset |-> r.asset]
  BY <1>3
<1> QED BY <1>2, <1>4

LEMMA Reattached ==
    ASSUME NEW r \in Upload, NEW l, NEW a
    PROVE  [r EXCEPT !.at = l, !.asset = a]
              = [at |-> l, user |-> r.user, image |-> r.image, id |-> r.id, asset |-> a]
<1>1. PICK s : s = [r EXCEPT !.at = l]
  OBVIOUS
<1>2. [r EXCEPT !.at = l, !.asset = a] = [s EXCEPT !.asset = a]
  BY <1>1
<1>3. s = [at |-> l, user |-> r.user, image |-> r.image, id |-> r.id, asset |-> r.asset]
  BY <1>1, UploadIs
<1>4. [s EXCEPT !.asset = a]
         = [at |-> l, user |-> r.user, image |-> r.image, id |-> r.id, asset |-> a]
  BY <1>3
<1> QED BY <1>2, <1>4

\* The requests are well typed when one of them is replaced.
LEMMA RequestFits ==
    ASSUME TypeOK, NEW c \in Conns,
           NEW x \in Upload \cup {Idle(r) : r \in Replies},
           requests' = [requests EXCEPT ![c] = x]
    PROVE  /\ requests' \in [Conns -> Upload \cup {Idle(r) : r \in Replies}]
           /\ requests'[c] = x
           /\ \A d \in Conns \ {c} : requests'[d] = requests[d]
BY DEF TypeOK

\* An upload that is not idle.
LEMMA ActiveFits ==
    ASSUME TypeOK, NEW c \in Conns, requests[c].at # "idle"
    PROVE  requests[c] \in Upload
BY DEF TypeOK, Idle

-----------------------------------------------------------------------------
(* One upload acts: what stays true of the others                            *)

\* Upload c touches nothing but what has its own id, and keeps the assets there
\* are: the other uploads can still rely on what they have found.
Touches(c) ==
    /\ \A d \in Conns \ {c} : requests'[d] = requests[d]
    /\ \A i \in Ids : ~(Named(c) /\ i = requests[c].id) =>
          files'[i] = files[i] /\ assets'[i] = assets[i] /\ media'[i] = media[i]
    /\ \A i \in Ids : assets[i] # None => assets'[i] = assets[i]

\* Its id stays or is a fresh one.
KeepsId(c) ==
    Named(c)' => \/ Named(c) /\ requests'[c].id = requests[c].id
                 \/ Fresh(requests'[c].id)

LEMMA OthersFit ==
    ASSUME IInv, TypeOK', NEW c \in Conns, Touches(c), KeepsId(c), Fits(c)'
    PROVE  OwnIds' /\ \A d \in Conns : Fits(d)'
<1>1. ASSUME NEW d \in Conns \ {c}
      PROVE  Fits(d)'
  <2>1. requests'[d] = requests[d] /\ Fits(d)
    BY DEF Touches, IInv
  <2>2. CASE requests[d].at = "idle"
    BY <2>1, <2>2 DEF Fits
  <2>3. CASE requests[d].at # "idle"
    <3>1. requests[d] \in Upload
      BY <2>3, ActiveFits DEF IInv
    <3>2. Named(d) => /\ requests[d].id \in Ids
                      /\ ~(Named(c) /\ requests[d].id = requests[c].id)
      BY <3>1, UploadFields DEF IInv, OwnIds, Named
    <3>3. Named(d) => /\ files'[requests[d].id] = files[requests[d].id]
                      /\ assets'[requests[d].id] = assets[requests[d].id]
                      /\ media'[requests[d].id] = media[requests[d].id]
      BY <3>2 DEF Touches
    <3>4. requests[d].at \in {"attach", "room", "link"} =>
              assets'[requests[d].asset] = requests[d].image
      BY <2>1, <3>1, UploadFields, Parameters DEF Fits, Touches
    <3> QED BY <2>1, <3>3, <3>4 DEF Fits, Named
  <2> QED BY <2>2, <2>3
<1>2. ASSUME NEW d \in Conns \ {c}, Named(c)', Named(d)', requests'[c].id = requests'[d].id
      PROVE  FALSE
  <2>1. requests'[d] = requests[d] /\ Named(d) /\ requests[d].at # "idle"
    BY <1>2 DEF Touches, Named
  <2> QED BY <1>2, <2>1 DEF KeepsId, Fresh, IInv, OwnIds
<1>3. ASSUME NEW d \in Conns, NEW e \in Conns, Named(d)', Named(e)',
             requests'[d].id = requests'[e].id
      PROVE  d = e
  <2>1. CASE d # c /\ e # c
    <3>1. requests'[d] = requests[d] /\ requests'[e] = requests[e]
      BY <2>1 DEF Touches
    <3> QED BY <3>1, <1>3 DEF Named, IInv, OwnIds
  <2> QED BY <2>1, <1>2, <1>3
<1>4. OwnIds'
  BY <1>3 DEF OwnIds
<1> QED BY <1>1, <1>4

\* The rest of the invariant speaks of the two tables, and of the uploads to come.
LEMMA SameTables ==
    ASSUME IInv, assets' = assets, media' = media
    PROVE  /\ Deduplicated' /\ RowsHaveAssets'
           /\ \A u \in Users : RowsOf(u)' = RowsOf(u)
           /\ {i \in Ids : assets[i] # None}' = {i \in Ids : assets[i] # None}
BY DEF IInv, Deduplicated, RowsHaveAssets, RowsOf

\* Upload c is to store no more than before.
Admitted(c) ==
    Named(c)' => /\ Named(c)
                 /\ requests'[c].id = requests[c].id
                 /\ requests'[c].user = requests[c].user
                 /\ requests'[c].at \in {"write", "insert"} => requests[c].at \in {"write", "insert"}

\* A step that leaves the tables alone and admits no upload.
LEMMA QuietStep ==
    ASSUME IInv, TypeOK', NEW c \in Conns, Touches(c), Admitted(c), Fits(c)',
           assets' = assets, media' = media
    PROVE  IInv'
<1>1. KeepsId(c)
  BY DEF Admitted, KeepsId
<1>2. OwnIds' /\ \A d \in Conns : Fits(d)'
  BY <1>1, OthersFit
<1>3. ASSUME NEW u \in Users
      PROVE  UserUsage(u)' + Cardinality(RowsToCome(u))' <= UserQuota + Cardinality(Conns) - 1
  <2>1. RowsOf(u) \in SUBSET Ids /\ RowsOf(u)' \in SUBSET RowsOf(u) /\ RowsToCome(u) \in SUBSET Conns
    BY SameTables DEF RowsOf, RowsToCome
  <2>2. RowsToCome(u)' \in SUBSET RowsToCome(u)
    BY DEF RowsToCome, Touches, Admitted, Named
  <2>3. Cardinality(RowsOf(u)) + Cardinality(RowsToCome(u)) <= UserQuota + Cardinality(Conns) - 1
    BY DEF IInv, OverrunToCome, UserUsage
  <2> QED BY <2>1, <2>2, <2>3, StillWithin, Parameters DEF UserUsage
<1>4. TotalUsage' + Cardinality(AssetsToCome)' <= TotalQuota + Cardinality(Conns) - 1
  <2> DEFINE A == {i \in Ids : assets[i] # None}
  <2>1. A \in SUBSET Ids /\ A' \in SUBSET A /\ AssetsToCome \in SUBSET Conns
    BY SameTables DEF AssetsToCome
  <2>2. AssetsToCome' \in SUBSET AssetsToCome
    BY DEF AssetsToCome, Touches, Admitted, Named
  <2>3. Cardinality(A) + Cardinality(AssetsToCome) <= TotalQuota + Cardinality(Conns) - 1
    BY DEF IInv, OverrunToCome, TotalUsage
  <2>4. TotalUsage' = Cardinality(A')
    BY DEF TotalUsage
  <2> HIDE DEF A
  <2> QED BY <2>1, <2>2, <2>3, <2>4, StillWithin, Parameters
<1>5. OverrunToCome'
  BY <1>3, <1>4 DEF OverrunToCome
<1> QED BY <1>2, <1>5, SameTables DEF IInv

\* A step that leaves the tables alone and admits upload c, for a library row or
\* for an asset too.
LEMMA AdmittingStep ==
    ASSUME IInv, TypeOK', NEW c \in Conns, Touches(c), KeepsId(c), Fits(c)',
           assets' = assets, media' = media,
           Named(c)', requests'[c].user \in Users,
           HasRoom(requests'[c].user, requests'[c].at \in {"write", "insert"})
    PROVE  IInv'
<1>1. OwnIds' /\ \A d \in Conns : Fits(d)'
  BY OthersFit
<1>2. ASSUME NEW u \in Users
      PROVE  UserUsage(u)' + Cardinality(RowsToCome(u))' <= UserQuota + Cardinality(Conns) - 1
  <2>1. RowsOf(u) \in SUBSET Ids /\ RowsToCome(u)' \in SUBSET Conns
    BY DEF RowsOf, RowsToCome
  <2>2. UserUsage(u)' = Cardinality(RowsOf(u))
    BY SameTables DEF UserUsage
  <2>3. CASE u = requests'[c].user
    <3>1. Cardinality(RowsOf(u)) + 1 <= UserQuota
      BY <2>3 DEF HasRoom, UserUsage
    <3> QED BY <2>1, <2>2, <3>1, AdmittedWithin, Parameters
  <2>4. CASE u # requests'[c].user
    <3>1. RowsToCome(u) \in SUBSET Conns /\ RowsToCome(u)' \in SUBSET RowsToCome(u)
      BY <2>4 DEF RowsToCome, Touches, Named
    <3>2. Cardinality(RowsOf(u)) + Cardinality(RowsToCome(u)) <= UserQuota + Cardinality(Conns) - 1
      BY DEF IInv, OverrunToCome, UserUsage
    <3>3. RowsOf(u) \in SUBSET RowsOf(u)
      OBVIOUS
    <3> QED BY <2>1, <2>2, <3>1, <3>2, <3>3, StillWithin, Parameters
  <2> QED BY <2>3, <2>4
<1>3. TotalUsage' + Cardinality(AssetsToCome)' <= TotalQuota + Cardinality(Conns) - 1
  <2> DEFINE A == {i \in Ids : assets[i] # None}
  <2>1. A \in SUBSET Ids /\ AssetsToCome \in SUBSET Conns /\ AssetsToCome' \in SUBSET Conns
    BY DEF AssetsToCome
  <2>2. TotalUsage' = Cardinality(A) /\ TotalUsage = Cardinality(A)
    BY SameTables DEF TotalUsage
  <2>3. A \in SUBSET A
    OBVIOUS
  <2> HIDE DEF A
  <2>4. CASE requests'[c].at \in {"write", "insert"}
    <3>1. Cardinality(A) + 1 <= TotalQuota
      BY <2>2, <2>4 DEF HasRoom
    <3> QED BY <2>1, <2>2, <3>1, AdmittedWithin, Parameters
  <2>5. CASE requests'[c].at \notin {"write", "insert"}
    <3>1. AssetsToCome' \in SUBSET AssetsToCome
      BY <2>5 DEF AssetsToCome, Touches
    <3>2. Cardinality(A) + Cardinality(AssetsToCome) <= TotalQuota + Cardinality(Conns) - 1
      BY <2>2 DEF IInv, OverrunToCome
    <3> QED BY <2>1, <2>2, <2>3, <3>1, <3>2, StillWithin, Parameters
  <2> QED BY <2>4, <2>5
<1>4. OverrunToCome'
  BY <1>2, <1>3 DEF OverrunToCome
<1> QED BY <1>1, <1>4, SameTables DEF IInv

\* A step of upload c that stores its library row, and its asset if need be.
LEMMA StoringStep ==
    ASSUME IInv, TypeOK', NEW c \in Conns, Touches(c), Admitted(c), Fits(c)',
           Named(c), NEW i \in Ids, i = requests[c].id, media[i] = None,
           NEW a \in Ids, NEW u \in Users, u = requests[c].user,
           media' = [media EXCEPT ![i] = [asset |-> a, user |-> u]],
           \/ assets' = assets
           \/ /\ requests[c].at \in {"write", "insert"}
              /\ assets[i] = None
              /\ assets' = [assets EXCEPT ![i] = requests[c].image],
           Deduplicated', RowsHaveAssets'
    PROVE  IInv'
<1>1. KeepsId(c)
  BY DEF Admitted, KeepsId
<1>2. OwnIds' /\ \A d \in Conns : Fits(d)'
  BY <1>1, OthersFit
<1>3. /\ media'[i] = [asset |-> a, user |-> u] /\ media'[i] # None
      /\ \A j \in Ids \ {i} : media'[j] = media[j]
  BY Parameters DEF IInv, TypeOK, Row
<1>4. ASSUME NEW v \in Users
      PROVE  UserUsage(v)' + Cardinality(RowsToCome(v))' <= UserQuota + Cardinality(Conns) - 1
  <2>1. RowsOf(v) \in SUBSET Ids /\ RowsToCome(v) \in SUBSET Conns
    BY DEF RowsOf, RowsToCome
  <2>2. Cardinality(RowsOf(v)) + Cardinality(RowsToCome(v)) <= UserQuota + Cardinality(Conns) - 1
    BY DEF IInv, OverrunToCome, UserUsage
  <2>3. UserUsage(v)' = Cardinality(RowsOf(v)')
    BY DEF UserUsage
  <2>4. ASSUME NEW d \in RowsToCome(v)'
        PROVE  d \in RowsToCome(v) /\ d # c
    <3>1. d \in Conns /\ Named(d)' /\ requests'[d].user = v /\ media'[requests'[d].id] = None
      BY DEF RowsToCome
    <3>2. d # c
      BY <1>3, <3>1 DEF Admitted
    <3>3. requests'[d] = requests[d] /\ Named(d)
      BY <3>1, <3>2 DEF Touches, Named
    <3>4. requests[d].id # i
      BY <1>3, <3>1, <3>3
    <3>5. requests[d].id \in Ids
      BY <3>1, <3>3, ActiveFits, UploadFields DEF Named, IInv
    <3>6. media[requests[d].id] = None
      BY <1>3, <3>1, <3>3, <3>4, <3>5
    <3> QED BY <3>1, <3>2, <3>3, <3>6 DEF RowsToCome
  <2>5. CASE v = u
    <3>1. c \in RowsToCome(v) /\ RowsToCome(v)' \in SUBSET (RowsToCome(v) \ {c})
      BY <2>4, <2>5 DEF RowsToCome
    <3>2. RowsOf(v)' \in SUBSET (RowsOf(v) \cup {i})
      BY <1>3 DEF RowsOf
    <3> QED BY <2>1, <2>2, <2>3, <3>1, <3>2, StoredWithin, Parameters
  <2>6. CASE v # u
    <3>1. RowsToCome(v)' \in SUBSET RowsToCome(v)
      BY <2>4
    <3>2. RowsOf(v)' \in SUBSET RowsOf(v)
      BY <1>3, <2>6 DEF RowsOf
    <3> QED BY <2>1, <2>2, <2>3, <3>1, <3>2, StillWithin, Parameters
  <2> QED BY <2>5, <2>6
<1>5. TotalUsage' + Cardinality(AssetsToCome)' <= TotalQuota + Cardinality(Conns) - 1
  <2> DEFINE A == {j \in Ids : assets[j] # None}
  <2>1. A \in SUBSET Ids /\ AssetsToCome \in SUBSET Conns
    BY DEF AssetsToCome
  <2>2. TotalUsage' = Cardinality(A') /\ TotalUsage = Cardinality(A)
    BY DEF TotalUsage
  <2>3. Cardinality(A) + Cardinality(AssetsToCome) <= TotalQuota + Cardinality(Conns) - 1
    BY <2>2 DEF IInv, OverrunToCome
  <2>4. CASE assets' = assets
    <3>1. A' \in SUBSET A
      BY <2>4
    <3>2. AssetsToCome' \in SUBSET AssetsToCome
      BY <2>4 DEF AssetsToCome, Touches, Admitted, Named
    <3> HIDE DEF A
    <3> QED BY <2>1, <2>2, <2>3, <3>1, <3>2, StillWithin, Parameters
  <2>5. CASE /\ requests[c].at \in {"write", "insert"}
             /\ assets[i] = None
             /\ assets' = [assets EXCEPT ![i] = requests[c].image]
    <3>0. requests[c].image \in Images
      BY <2>5, ActiveFits, UploadFields DEF IInv
    <3>1. assets'[i] # None /\ \A j \in Ids \ {i} : assets'[j] = assets[j]
      BY <2>5, <3>0, Parameters DEF IInv, TypeOK
    <3>2. A' \in SUBSET (A \cup {i})
      BY <3>1
    <3>3. c \in AssetsToCome
      BY <2>5 DEF AssetsToCome
    <3>4. ASSUME NEW d \in AssetsToCome'
          PROVE  d \in AssetsToCome /\ d # c
      <4>1. d \in Conns /\ requests'[d].at \in {"write", "insert"} /\ assets'[requests'[d].id] = None
        BY DEF AssetsToCome
      <4>2. d # c
        BY <3>1, <4>1 DEF Admitted, Named
      <4>3. requests'[d] = requests[d]
        BY <4>1, <4>2 DEF Touches
      <4>4. requests[d].id \in Ids \ {i}
        BY <3>1, <4>1, <4>3, ActiveFits, UploadFields DEF IInv
      <4> QED BY <3>1, <4>1, <4>2, <4>3, <4>4 DEF AssetsToCome
    <3>5. AssetsToCome' \in SUBSET (AssetsToCome \ {c})
      BY <3>4
    <3> HIDE DEF A
    <3> QED BY <2>1, <2>2, <2>3, <3>2, <3>3, <3>5, StoredWithin, Parameters
  <2> QED BY <2>4, <2>5
<1>6. OverrunToCome'
  BY <1>4, <1>5 DEF OverrunToCome
<1> QED BY <1>2, <1>6 DEF IInv

-----------------------------------------------------------------------------
(* The actions                                                               *)

\* Upload c is answered.
LEMMA AnsweredFits ==
    ASSUME TypeOK, NEW c \in Conns, NEW reply \in Replies, Answer(c, reply)
    PROVE  /\ requests' \in [Conns -> Upload \cup {Idle(r) : r \in Replies}]
           /\ requests'[c] = Idle(reply)
           /\ \A d \in Conns \ {c} : requests'[d] = requests[d]
           /\ ~Named(c)' /\ Admitted(c) /\ Fits(c)'
<1>1. Idle(reply) \in Upload \cup {Idle(r) : r \in Replies}
  OBVIOUS
<1>2. /\ requests' \in [Conns -> Upload \cup {Idle(r) : r \in Replies}]
      /\ requests'[c] = Idle(reply)
      /\ \A d \in Conns \ {c} : requests'[d] = requests[d]
  BY <1>1, RequestFits DEF Answer
<1>3. requests'[c].at = "idle"
  BY <1>2 DEF Idle
<1> QED BY <1>2, <1>3 DEF Named, Admitted, Fits

\* Upload c is answered and has changed no table, and no files but its own.
LEMMA AnsweredStep ==
    ASSUME IInv, NEW c \in Conns, NEW reply \in Replies, Answer(c, reply),
           UNCHANGED <<assets, media, lost>>,
           \/ UNCHANGED files
           \/ /\ Named(c)
              /\ \E left \in Family : files' = [files EXCEPT ![requests[c].id] = left]
    PROVE  IInv'
<1>1. /\ requests' \in [Conns -> Upload \cup {Idle(r) : r \in Replies}]
      /\ \A d \in Conns \ {c} : requests'[d] = requests[d]
      /\ Admitted(c) /\ Fits(c)'
  BY AnsweredFits DEF IInv
<1>2. TypeOK'
  BY <1>1 DEF IInv, TypeOK
<1>3. Touches(c)
  BY <1>1 DEF IInv, TypeOK, Touches
<1> QED BY <1>1, <1>2, <1>3, QuietStep

\* Upload c goes on and has changed no table and no files.
LEMMA MovedStep ==
    ASSUME IInv, NEW c \in Conns, NEW x \in Upload, GoOn(c, x),
           UNCHANGED <<files, assets, media, lost>>
    PROVE  TypeOK' /\ Touches(c) /\ requests'[c] = x
<1>1. /\ requests' \in [Conns -> Upload \cup {Idle(r) : r \in Replies}]
      /\ requests'[c] = x
      /\ \A d \in Conns \ {c} : requests'[d] = requests[d]
  BY RequestFits DEF IInv, GoOn
<1> QED BY <1>1 DEF IInv, TypeOK, Touches

LEMMA BeginKeeps ==
    ASSUME IInv, NEW c \in Conns, NEW u \in Users, NEW s \in Images, Begin(c, u, s)
    PROVE  IInv'
<1> DEFINE r == [at |-> "check", user |-> u, image |-> s, id |-> None, asset |-> None]
           y(a) == [at |-> "attach", user |-> u, image |-> s, id |-> None, asset |-> a]
<1>1. UNCHANGED <<files, assets, media, lost>>
  BY DEF Begin
<1>2. CASE GoOn(c, r)
  <2>1. r \in Upload
    BY MovedFits
  <2>2. TypeOK' /\ Touches(c) /\ requests'[c] = r
    BY <1>1, <1>2, <2>1, MovedStep
  <2>3. Admitted(c) /\ Fits(c)'
    BY <2>2 DEF Admitted, Fits, Named
  <2> QED BY <1>1, <2>2, <2>3, QuietStep
<1>3. ASSUME NEW a \in AssetsOf(s), GoOn(c, y(a))
      PROVE  IInv'
  <2>1. y(a) \in Upload
    BY MovedFits DEF AssetsOf
  <2>2. TypeOK' /\ Touches(c) /\ requests'[c] = y(a)
    BY <1>1, <1>3, <2>1, MovedStep
  <2>3. Admitted(c) /\ Fits(c)'
    BY <1>1, <2>2 DEF Admitted, Fits, Named, AssetsOf
  <2> QED BY <1>1, <2>2, <2>3, QuietStep
<1>4. ASSUME NEW a
      PROVE  [r EXCEPT !.at = "attach", !.asset = a] = y(a)
  <2>1. r \in Upload
    BY MovedFits
  <2>2. PICK q \in Upload : q = r
    BY <2>1
  <2>3. [q EXCEPT !.at = "attach", !.asset = a]
           = [at |-> "attach", user |-> q.user, image |-> q.image, id |-> q.id, asset |-> a]
    BY Reattached
  <2> QED BY <2>2, <2>3
<1>5. CASE AssetsOf(s) # {}
  <2>1. PICK a \in AssetsOf(s) : GoOn(c, [r EXCEPT !.at = "attach", !.asset = a])
    BY <1>5 DEF Begin
  <2>2. GoOn(c, y(a))
    BY <1>4, <2>1 DEF GoOn
  <2> QED BY <1>3, <2>2
<1>6. CASE AssetsOf(s) = {}
  BY <1>2, <1>6 DEF Begin
<1> QED BY <1>5, <1>6

LEMMA CheckKeeps ==
    ASSUME IInv, NEW c \in Conns, Check(c)
    PROVE  IInv'
<1>1. UNCHANGED <<files, assets, media, lost>> /\ requests[c].at = "check"
  BY DEF Check, At
<1>2. PICK r \in Upload : r = requests[c]
  BY <1>1, ActiveFits DEF IInv
<1>3. CASE Answer(c, "refused")
  BY <1>1, <1>3, AnsweredStep DEF Replies
<1>4. ASSUME NEW i \in Ids, Fresh(i), GoOn(c, [r EXCEPT !.at = "write", !.id = i]),
             HasRoom(r.user, TRUE)
      PROVE  IInv'
  <2> DEFINE x == [at |-> "write", user |-> r.user, image |-> r.image, id |-> i, asset |-> None]
  <2>0. r.user \in Users /\ r.image \in Images /\ r.asset = None
    BY <1>1, <1>2, UploadFields
  <2>1. x \in Upload /\ x = [r EXCEPT !.at = "write", !.id = i]
    BY <2>0, Renamed, MovedFits
  <2>2. TypeOK' /\ Touches(c) /\ requests'[c] = x
    BY <1>1, <1>4, <2>1, MovedStep
  <2>3. Named(c)' /\ KeepsId(c) /\ Fits(c)'
    BY <1>1, <1>4, <2>2 DEF KeepsId, Fits, Named, Fresh
  <2>4. requests'[c].user = r.user /\ (requests'[c].at \in {"write", "insert"}) = TRUE
    BY <2>2
  <2> QED BY <1>1, <1>4, <2>0, <2>2, <2>3, <2>4, AdmittingStep
<1> QED BY <1>2, <1>3, <1>4 DEF Check

LEMMA WriteKeeps ==
    ASSUME IInv, NEW c \in Conns, Write(c)
    PROVE  IInv'
<1>1. requests[c].at = "write" /\ UNCHANGED <<assets, media, lost>>
  BY DEF Write, At
<1>2. PICK r \in Upload : r = requests[c]
  BY <1>1, ActiveFits DEF IInv
<1> DEFINE x == [at |-> "insert", user |-> r.user, image |-> r.image, id |-> r.id, asset |-> None]
<1>3. r.user \in Users /\ r.image \in Images /\ r.id \in Ids /\ r.asset = None
  BY <1>1, <1>2, UploadFields
<1>4. x \in Upload /\ x = [r EXCEPT !.at = "insert"]
  BY <1>3, MovedFits, UploadIs
<1>5. files' = [files EXCEPT ![r.id] = "all"] /\ GoOn(c, x)
  BY <1>2, <1>4 DEF Write
<1>6. /\ requests' \in [Conns -> Upload \cup {Idle(a) : a \in Replies}]
      /\ requests'[c] = x
      /\ \A d \in Conns \ {c} : requests'[d] = requests[d]
  BY <1>4, <1>5, RequestFits DEF IInv, GoOn
<1>7. TypeOK' /\ Touches(c)
  BY <1>1, <1>2, <1>3, <1>5, <1>6 DEF IInv, TypeOK, Touches, Named, Family
<1>8. Admitted(c) /\ Fits(c)'
  <2>1. Admitted(c)
    BY <1>1, <1>2, <1>6 DEF Admitted, Named
  <2>2. assets[r.id] = None /\ media[r.id] = None
    BY <1>1, <1>2 DEF IInv, Fits
  <2>3. files'[r.id] = "all"
    BY <1>3, <1>5 DEF IInv, TypeOK
  <2> QED BY <1>1, <1>6, <2>1, <2>2, <2>3 DEF Fits
<1> QED BY <1>1, <1>7, <1>8, QuietStep

LEMMA WriteFailsKeeps ==
    ASSUME IInv, NEW c \in Conns, WriteFails(c)
    PROVE  IInv'
BY AnsweredStep DEF WriteFails, At, Named, Family, Replies

\* The INSERTs of an upload whose image nobody else has stored: its rows are there
\* from an earlier try, or they are stored now and the tables stay consistent.
LEMMA StoredTables ==
    ASSUME IInv, NEW c \in Conns, requests[c].at = "insert", NEW r, r = requests[c],
           ~IsForeign(r), Stored(r)
    PROVE  /\ r \in Upload
           /\ assets'[r.id] = r.image
           /\ media'[r.id] = [asset |-> r.id, user |-> r.user]
           /\ \A i \in Ids \ {r.id} : assets'[i] = assets[i] /\ media'[i] = media[i]
           /\ assets' \in [Ids -> Images \cup {None}] /\ media' \in [Ids -> Row \cup {None}]
           /\ \/ UNCHANGED <<assets, media>>
              \/ /\ assets[r.id] = None /\ media[r.id] = None
                 /\ assets' = [assets EXCEPT ![r.id] = r.image]
                 /\ media' = [media EXCEPT ![r.id] = [asset |-> r.id, user |-> r.user]]
           /\ Deduplicated' /\ RowsHaveAssets'
<1>1. r \in Upload /\ r.at = "insert"
  BY ActiveFits DEF IInv
<1>2. r.id \in Ids /\ r.user \in Users /\ r.image \in Images
  BY <1>1, UploadFields
<1>3. \/ assets[r.id] = None /\ media[r.id] = None
      \/ assets[r.id] = r.image /\ media[r.id] = [asset |-> r.id, user |-> r.user]
  BY <1>1 DEF IInv, Fits
<1>4. [asset |-> r.id, user |-> r.user] \in Row
  BY <1>2 DEF Row
<1>5. CASE media[r.id] # None
  <2>1. UNCHANGED <<assets, media>>
    BY <1>5 DEF Stored
  <2> QED BY <1>1, <1>3, <1>5, <2>1, SameTables DEF IInv, TypeOK
<1>6. CASE media[r.id] = None
  <2> DEFINE row == [asset |-> r.id, user |-> r.user]
  <2>1. /\ assets[r.id] = None
        /\ assets' = [assets EXCEPT ![r.id] = r.image]
        /\ media' = [media EXCEPT ![r.id] = row]
    BY <1>3, <1>4, <1>6, Parameters DEF Stored
  <2>2. assets \in [Ids -> Images \cup {None}] /\ media \in [Ids -> Row \cup {None}]
    BY DEF IInv, TypeOK
  <2>3. row.asset = r.id
    OBVIOUS
  <2> HIDE DEF row
  <2>4. /\ assets'[r.id] = r.image /\ media'[r.id] = row
        /\ \A i \in Ids \ {r.id} : assets'[i] = assets[i] /\ media'[i] = media[i]
        /\ assets' \in [Ids -> Images \cup {None}] /\ media' \in [Ids -> Row \cup {None}]
    BY <1>2, <1>4, <2>1, <2>2 DEF row
  <2>5. \A i \in Ids \ {r.id} : assets[i] # r.image
    BY DEF IsForeign, AssetsOf
  <2>6. ASSUME NEW i \in Ids, media[i] # None
        PROVE  assets[media[i].asset] # None /\ media[i].asset \in Ids /\ media[i] # row
    <3>1. media[i] \in Row /\ assets[media[i].asset] # None
      BY <2>2, <2>6 DEF IInv, RowsHaveAssets
    <3> QED BY <2>1, <2>3, <3>1 DEF Row
  <2>7. Deduplicated'
    <3>1. \A i, j \in Ids : assets'[i] = assets'[j] /\ assets'[i] # None => i = j
      BY <2>4, <2>5 DEF IInv, Deduplicated
    <3>2. \A i, j \in Ids : media'[i] = media'[j] /\ media'[i] # None => i = j
      BY <1>4, <2>4, <2>6, Parameters DEF IInv, Deduplicated
    <3> QED BY <3>1, <3>2 DEF Deduplicated
  <2>8. RowsHaveAssets'
    <3>1. assets'[r.id] # None
      BY <1>2, <2>4, Parameters
    <3>2. ASSUME NEW i \in Ids, media'[i] # None
          PROVE  assets'[media'[i].asset] # None
      <4>1. CASE i = r.id
        BY <2>3, <2>4, <3>1, <4>1
      <4>2. CASE i # r.id
        <5>1. media'[i] = media[i] /\ media[i] # None
          BY <2>4, <3>2, <4>2
        <5> QED BY <2>1, <2>4, <2>6, <5>1
      <4> QED BY <4>1, <4>2
    <3> QED BY <3>2 DEF RowsHaveAssets
  <2> QED BY <1>1, <1>6, <2>1, <2>4, <2>7, <2>8 DEF row
<1> QED BY <1>5, <1>6

\* The step of such an upload keeps the invariant, whatever becomes of its answer.
LEMMA StoredStep ==
    ASSUME IInv, NEW c \in Conns, requests[c].at = "insert",
           ~IsForeign(requests[c]), Stored(requests[c]),
           UNCHANGED files, lost' \in 0..MaxLost,
           UNCHANGED requests \/ ShowTable(c)
    PROVE  IInv'
<1>1. PICK r : r = requests[c]
  OBVIOUS
<1>2. /\ r \in Upload
      /\ assets'[r.id] = r.image
      /\ media'[r.id] = [asset |-> r.id, user |-> r.user]
      /\ \A i \in Ids \ {r.id} : assets'[i] = assets[i] /\ media'[i] = media[i]
      /\ assets' \in [Ids -> Images \cup {None}] /\ media' \in [Ids -> Row \cup {None}]
      /\ \/ UNCHANGED <<assets, media>>
         \/ /\ assets[r.id] = None /\ media[r.id] = None
            /\ assets' = [assets EXCEPT ![r.id] = r.image]
            /\ media' = [media EXCEPT ![r.id] = [asset |-> r.id, user |-> r.user]]
      /\ Deduplicated' /\ RowsHaveAssets'
  BY <1>1, StoredTables
<1>3. r.at = "insert" /\ r.id \in Ids /\ r.user \in Users /\ r.image \in Images
  BY <1>1, <1>2, UploadFields
<1>4. files'[r.id] = "all"
  BY <1>1, <1>3 DEF IInv, Fits
<1>5. /\ requests' \in [Conns -> Upload \cup {Idle(q) : q \in Replies}]
      /\ \A d \in Conns \ {c} : requests'[d] = requests[d]
      /\ Admitted(c) /\ Fits(c)'
  <2>1. CASE UNCHANGED requests
    <3>1. Fits(c)'
      BY <1>1, <1>2, <1>3, <1>4, <2>1 DEF Fits
    <3> QED BY <2>1, <3>1 DEF IInv, TypeOK, Admitted, Named
  <2>2. CASE ShowTable(c)
    BY <2>2, AnsweredFits DEF IInv, Replies, ShowTable
  <2> QED BY <2>1, <2>2
<1>6. TypeOK'
  BY <1>2, <1>5 DEF IInv, TypeOK
<1>7. Named(c) /\ Touches(c)
  <2>1. ASSUME NEW i \in Ids, assets[i] # None
        PROVE  assets'[i] = assets[i]
    BY <1>2, <2>1
  <2>2. Named(c)
    BY <1>1, <1>3 DEF Named
  <2>3. ASSUME NEW i \in Ids, i # r.id
        PROVE  files'[i] = files[i] /\ assets'[i] = assets[i] /\ media'[i] = media[i]
    BY <1>2, <2>3
  <2> QED BY <1>1, <1>5, <2>1, <2>2, <2>3 DEF Touches
<1>8. CASE UNCHANGED <<assets, media>>
  BY <1>5, <1>6, <1>7, <1>8, QuietStep
<1>9. CASE /\ assets[r.id] = None /\ media[r.id] = None
           /\ assets' = [assets EXCEPT ![r.id] = r.image]
           /\ media' = [media EXCEPT ![r.id] = [asset |-> r.id, user |-> r.user]]
  BY <1>1, <1>2, <1>3, <1>5, <1>6, <1>7, <1>9, StoringStep
<1> QED BY <1>2, <1>8, <1>9

LEMMA InsertLostKeeps ==
    ASSUME IInv, NEW c \in Conns, InsertLost(c)
    PROVE  IInv'
<1>1. lost' \in 0..MaxLost
  BY Parameters DEF InsertLost, IInv, TypeOK
<1> QED BY <1>1, StoredStep DEF InsertLost, At

LEMMA InsertFailsKeeps ==
    ASSUME IInv, NEW c \in Conns, InsertFails(c)
    PROVE  IInv'
BY AnsweredStep DEF InsertFails, Removed, At, Named, Replies

LEMMA InsertKeeps ==
    ASSUME IInv, NEW c \in Conns, Insert(c)
    PROVE  IInv'
<1>1. PICK r : r = requests[c]
  OBVIOUS
<1>2. r.at = "insert" /\ UNCHANGED lost /\ Stored(r)
  BY <1>1 DEF Insert, At
<1>3. r \in Upload
  BY <1>1, <1>2, ActiveFits DEF IInv
<1>4. CASE ~IsForeign(r)
  <2>1. UNCHANGED files /\ ShowTable(c)
    BY <1>1, <1>4 DEF Insert
  <2>2. lost' \in 0..MaxLost
    BY <1>2 DEF IInv, TypeOK
  <2> QED BY <1>1, <1>2, <1>4, <2>1, <2>2, StoredStep
<1>5. CASE IsForeign(r)
  <2> DEFINE x == [at |-> "reread", user |-> r.user, image |-> r.image, id |-> None, asset |-> None]
  <2>1. r.user \in Users /\ r.image \in Images /\ r.id \in Ids /\ r.asset = None
    BY <1>2, <1>3, UploadFields
  <2>2. x \in Upload /\ x = [r EXCEPT !.at = "reread", !.id = None]
    BY <1>3, <2>1, Renamed, MovedFits
  <2>3. UNCHANGED <<assets, media>>
    BY <1>2, <1>5 DEF Stored
  <2>4. GoOn(c, x)
    BY <1>1, <1>5, <2>2 DEF Insert
  <2>5. PICK left \in Family : files' = [files EXCEPT ![r.id] = left]
    BY <1>1, <1>5 DEF Insert, Removed
  <2>6. /\ requests' \in [Conns -> Upload \cup {Idle(q) : q \in Replies}]
        /\ requests'[c] = x
        /\ \A d \in Conns \ {c} : requests'[d] = requests[d]
    BY <2>2, <2>4, RequestFits DEF IInv, GoOn
  <2>7. TypeOK' /\ Touches(c)
    BY <1>1, <1>2, <2>1, <2>3, <2>5, <2>6 DEF IInv, TypeOK, Touches, Named
  <2>8. Admitted(c) /\ Fits(c)'
    BY <2>6 DEF Admitted, Named, Fits
  <2> QED BY <2>3, <2>7, <2>8, QuietStep
<1> QED BY <1>4, <1>5

LEMMA RereadKeeps ==
    ASSUME IInv, NEW c \in Conns, Reread(c)
    PROVE  IInv'
<1>1. requests[c].at = "reread" /\ UNCHANGED <<files, assets, media, lost>>
  BY DEF Reread, At
<1>2. PICK r \in Upload : r = requests[c]
  BY <1>1, ActiveFits DEF IInv
<1>3. PICK a \in AssetsOf(r.image) : GoOn(c, [r EXCEPT !.at = "attach", !.asset = a])
  BY <1>2 DEF Reread
<1> DEFINE x == [at |-> "attach", user |-> r.user, image |-> r.image, id |-> None, asset |-> a]
<1>4. r.user \in Users /\ r.image \in Images /\ r.id = None /\ a \in Ids /\ assets[a] = r.image
  BY <1>1, <1>2, UploadFields DEF AssetsOf
<1>5. x \in Upload /\ x = [r EXCEPT !.at = "attach", !.asset = a]
  BY <1>4, Reattached, MovedFits
<1>6. TypeOK' /\ Touches(c) /\ requests'[c] = x
  BY <1>1, <1>3, <1>5, MovedStep
<1>7. Admitted(c) /\ Fits(c)'
  BY <1>1, <1>4, <1>6 DEF Admitted, Fits, Named
<1> QED BY <1>1, <1>6, <1>7, QuietStep

LEMMA AttachKeeps ==
    ASSUME IInv, NEW c \in Conns, Attach(c)
    PROVE  IInv'
<1>1. requests[c].at = "attach" /\ UNCHANGED <<files, assets, media, lost>>
  BY DEF Attach, At
<1>2. PICK r \in Upload : r = requests[c]
  BY <1>1, ActiveFits DEF IInv
<1>3. CASE ShowTable(c)
  BY <1>1, <1>3, AnsweredStep DEF Replies, ShowTable
<1>4. CASE GoOn(c, [r EXCEPT !.at = "room"])
  <2> DEFINE x == [at |-> "room", user |-> r.user, image |-> r.image, id |-> None, asset |-> r.asset]
  <2>1. r.user \in Users /\ r.image \in Images /\ r.id = None /\ r.asset \in Ids
    BY <1>1, <1>2, UploadFields
  <2>2. x \in Upload
    BY <2>1, MovedFits
  <2>3. x = [r EXCEPT !.at = "room"]
    BY <2>1, UploadIs
  <2>4. TypeOK' /\ Touches(c) /\ requests'[c] = x
    BY <1>1, <1>4, <2>2, <2>3, MovedStep
  <2>5. assets[r.asset] = r.image
    BY <1>1, <1>2 DEF IInv, Fits
  <2>6. Admitted(c) /\ Fits(c)'
    BY <1>1, <2>4, <2>5 DEF Admitted, Fits, Named
  <2> QED BY <1>1, <2>4, <2>6, QuietStep
<1> QED BY <1>2, <1>3, <1>4 DEF Attach

LEMMA RoomKeeps ==
    ASSUME IInv, NEW c \in Conns, Room(c)
    PROVE  IInv'
<1>1. requests[c].at = "room" /\ UNCHANGED <<files, assets, media, lost>>
  BY DEF Room, At
<1>2. PICK r \in Upload : r = requests[c]
  BY <1>1, ActiveFits DEF IInv
<1>3. CASE Answer(c, "refused")
  BY <1>1, <1>3, AnsweredStep DEF Replies
<1>4. ASSUME NEW i \in Ids, Fresh(i), GoOn(c, [r EXCEPT !.at = "link", !.id = i]),
             HasRoom(r.user, FALSE)
      PROVE  IInv'
  <2> DEFINE x == [at |-> "link", user |-> r.user, image |-> r.image, id |-> i, asset |-> r.asset]
  <2>1. r.user \in Users /\ r.image \in Images /\ r.asset \in Ids
    BY <1>1, <1>2, UploadFields
  <2>2. x \in Upload /\ x = [r EXCEPT !.at = "link", !.id = i]
    BY <2>1, Renamed, MovedFits
  <2>3. TypeOK' /\ Touches(c) /\ requests'[c] = x
    BY <1>1, <1>4, <2>2, MovedStep
  <2>4. assets[r.asset] = r.image
    BY <1>1, <1>2 DEF IInv, Fits
  <2>5. Named(c)' /\ KeepsId(c) /\ Fits(c)'
    BY <1>1, <1>4, <2>3, <2>4 DEF KeepsId, Fits, Named, Fresh
  <2>6. requests'[c].user = r.user /\ (requests'[c].at \in {"write", "insert"}) = FALSE
    BY <2>3
  <2> QED BY <1>1, <1>4, <2>1, <2>3, <2>5, <2>6, AdmittingStep
<1> QED BY <1>2, <1>3, <1>4 DEF Room

\* The INSERT of a further library row: it is there, or it is stored now.
LEMMA LinkedTables ==
    ASSUME IInv, NEW c \in Conns, requests[c].at = "link", NEW r, r = requests[c], Linked(r)
    PROVE  /\ r \in Upload
           /\ InLibrary(r.user, r.asset)'
           /\ media'[r.id] \in {None, [asset |-> r.asset, user |-> r.user]}
           /\ \A i \in Ids \ {r.id} : media'[i] = media[i]
           /\ media' \in [Ids -> Row \cup {None}]
           /\ \/ media' = media
              \/ /\ media[r.id] = None
                 /\ media' = [media EXCEPT ![r.id] = [asset |-> r.asset, user |-> r.user]]
           /\ assets' = assets => Deduplicated' /\ RowsHaveAssets'
<1> DEFINE row == [asset |-> r.asset, user |-> r.user]
<1>1. r \in Upload /\ r.at = "link"
  BY ActiveFits DEF IInv
<1>2. r.id \in Ids /\ r.user \in Users /\ r.image \in Images /\ r.asset \in Ids
  BY <1>1, UploadFields
<1>3. media[r.id] \in {None, row} /\ assets[r.asset] = r.image
  BY <1>1 DEF IInv, Fits
<1>4. row \in Row /\ row # None
  BY <1>2, Parameters DEF Row
<1>5. assets \in [Ids -> Images \cup {None}] /\ media \in [Ids -> Row \cup {None}]
  BY DEF IInv, TypeOK
<1>6. row.asset = r.asset
  OBVIOUS
<1>7. InLibrary(r.user, r.asset) <=> \E i \in Ids : media[i] = row
  BY DEF InLibrary
<1>8. InLibrary(r.user, r.asset)' <=> \E i \in Ids : media'[i] = row
  BY DEF InLibrary
<1>9. media' = IF media[r.id] # None \/ InLibrary(r.user, r.asset) THEN media
               ELSE [media EXCEPT ![r.id] = row]
  BY DEF Linked
<1> HIDE DEF row
<1>10. CASE media[r.id] # None \/ InLibrary(r.user, r.asset)
  <2>1. media' = media
    BY <1>9, <1>10
  <2>2. InLibrary(r.user, r.asset)'
    BY <1>2, <1>3, <1>7, <1>8, <1>10, <2>1
  <2> QED BY <1>1, <1>3, <1>5, <2>1, <2>2, SameTables DEF row
<1>11. CASE media[r.id] = None /\ ~InLibrary(r.user, r.asset)
  <2>1. media' = [media EXCEPT ![r.id] = row]
    BY <1>9, <1>11
  <2>2. /\ media'[r.id] = row
        /\ \A i \in Ids \ {r.id} : media'[i] = media[i]
        /\ media' \in [Ids -> Row \cup {None}]
    BY <1>2, <1>4, <1>5, <2>1
  <2>3. ASSUME assets' = assets
        PROVE  Deduplicated' /\ RowsHaveAssets'
    <3>1. \A i \in Ids : media[i] # row
      BY <1>7, <1>11
    <3>2. \A i, j \in Ids : media'[i] = media'[j] /\ media'[i] # None => i = j
      BY <2>2, <3>1 DEF IInv, Deduplicated
    <3>3. Deduplicated'
      BY <2>3, <3>2 DEF IInv, Deduplicated
    <3>4. assets[r.asset] # None
      BY <1>2, <1>3, Parameters
    <3>5. ASSUME NEW i \in Ids, media'[i] # None
          PROVE  assets'[media'[i].asset] # None
      <4>1. CASE i = r.id
        BY <1>6, <2>2, <2>3, <3>4, <4>1
      <4>2. CASE i # r.id
        BY <2>2, <2>3, <3>5, <4>2 DEF IInv, RowsHaveAssets
      <4> QED BY <4>1, <4>2
    <3>6. RowsHaveAssets'
      BY <3>5 DEF RowsHaveAssets
    <3> QED BY <3>3, <3>6
  <2>4. InLibrary(r.user, r.asset)'
    BY <1>2, <1>8, <2>2
  <2> QED BY <1>1, <1>11, <2>1, <2>2, <2>3, <2>4 DEF row
<1> QED BY <1>10, <1>11

LEMMA LinkedStep ==
    ASSUME IInv, NEW c \in Conns, requests[c].at = "link", Linked(requests[c]),
           UNCHANGED <<files, assets>>, lost' \in 0..MaxLost,
           UNCHANGED requests \/ ShowTable(c)
    PROVE  IInv'
<1>1. PICK r : r = requests[c]
  OBVIOUS
<1>2. /\ r \in Upload
      /\ media'[r.id] \in {None, [asset |-> r.asset, user |-> r.user]}
      /\ \A i \in Ids \ {r.id} : media'[i] = media[i]
      /\ media' \in [Ids -> Row \cup {None}]
      /\ \/ media' = media
         \/ /\ media[r.id] = None
            /\ media' = [media EXCEPT ![r.id] = [asset |-> r.asset, user |-> r.user]]
      /\ Deduplicated' /\ RowsHaveAssets'
  BY <1>1, LinkedTables
<1>3. r.at = "link" /\ r.id \in Ids /\ r.user \in Users /\ r.asset \in Ids
  BY <1>1, <1>2, UploadFields
<1>4. /\ requests' \in [Conns -> Upload \cup {Idle(q) : q \in Replies}]
      /\ \A d \in Conns \ {c} : requests'[d] = requests[d]
      /\ Admitted(c) /\ Fits(c)'
  <2>1. CASE UNCHANGED requests
    <3>1. assets[r.asset] = r.image /\ assets[r.id] = None
      BY <1>1, <1>3 DEF IInv, Fits
    <3>2. Fits(c)'
      BY <1>1, <1>2, <1>3, <2>1, <3>1 DEF Fits
    <3> QED BY <2>1, <3>2 DEF IInv, TypeOK, Admitted, Named
  <2>2. CASE ShowTable(c)
    BY <2>2, AnsweredFits DEF IInv, Replies, ShowTable
  <2> QED BY <2>1, <2>2
<1>5. TypeOK'
  BY <1>2, <1>4 DEF IInv, TypeOK
<1>6. Named(c)
  BY <1>1, <1>3 DEF Named
<1>7. Touches(c)
  BY <1>1, <1>2, <1>4, <1>6 DEF Touches
<1>8. CASE media' = media
  BY <1>4, <1>5, <1>7, <1>8, QuietStep
<1>9. CASE /\ media[r.id] = None
           /\ media' = [media EXCEPT ![r.id] = [asset |-> r.asset, user |-> r.user]]
  BY <1>1, <1>2, <1>3, <1>4, <1>5, <1>6, <1>7, <1>9, StoringStep
<1> QED BY <1>2, <1>8, <1>9

LEMMA LinkKeeps ==
    ASSUME IInv, NEW c \in Conns, Link(c)
    PROVE  IInv'
<1>1. lost' \in 0..MaxLost
  BY DEF Link, IInv, TypeOK
<1> QED BY <1>1, LinkedStep DEF Link, At

LEMMA LinkLostKeeps ==
    ASSUME IInv, NEW c \in Conns, LinkLost(c)
    PROVE  IInv'
<1>1. lost' \in 0..MaxLost
  BY Parameters DEF LinkLost, IInv, TypeOK
<1> QED BY <1>1, LinkedStep DEF LinkLost, At

LEMMA FailsKeeps ==
    ASSUME IInv, NEW c \in Conns, Fails(c)
    PROVE  IInv'
BY AnsweredStep DEF Fails, Replies

LEMMA KilledKeeps ==
    ASSUME IInv, NEW c \in Conns, Killed(c)
    PROVE  IInv'
BY AnsweredStep DEF Killed, At, Named, Replies

-----------------------------------------------------------------------------
(* The invariant                                                             *)

LEMMA InitOK == Init => IInv
<1> SUFFICES ASSUME Init PROVE IInv
  OBVIOUS
<1>1. /\ \A i \in Ids : files[i] = "none" /\ assets[i] = None /\ media[i] = None
      /\ \A c \in Conns : requests[c].at = "idle"
  BY DEF Init, Idle
<1>2. TypeOK
  BY Parameters DEF Init, TypeOK, Family, Replies
<1>3. \A u \in Users : RowsOf(u) = {} /\ RowsToCome(u) = {}
  BY <1>1 DEF RowsOf, RowsToCome, Named
<1>4. {i \in Ids : assets[i] # None} = {} /\ AssetsToCome = {}
  BY <1>1 DEF AssetsToCome
<1>5. Cardinality({}) = 0
  BY FS_EmptySet
<1>6. OverrunToCome
  BY <1>3, <1>4, <1>5, Parameters, Finite DEF OverrunToCome, UserUsage, TotalUsage
<1> QED BY <1>1, <1>2, <1>6 DEF IInv, Deduplicated, OwnIds, RowsHaveAssets, Fits, Named

LEMMA NextKeeps == IInv /\ [Next]_vars => IInv'
<1> SUFFICES ASSUME IInv, [Next]_vars PROVE IInv'
  OBVIOUS
<1>1. CASE UNCHANGED vars
  BY <1>1 DEF vars, IInv, TypeOK, Deduplicated, OwnIds, RowsHaveAssets, OverrunToCome, Fits,
              Named, UserUsage, TotalUsage, RowsOf, RowsToCome, AssetsToCome
<1>2. ASSUME NEW c \in Conns, Serve(c)
      PROVE  IInv'
  BY <1>2, BeginKeeps, CheckKeeps, WriteKeeps, WriteFailsKeeps, InsertKeeps, InsertLostKeeps,
     InsertFailsKeeps, RereadKeeps, AttachKeeps, RoomKeeps, LinkKeeps, LinkLostKeeps,
     FailsKeeps, KilledKeeps DEF Serve
<1> QED BY <1>1, <1>2 DEF Next

\* Every state of the media library satisfies the inductive invariant: what an
\* upload has found out is still so, and what it has been admitted for still fits.
THEOREM Inductive == Spec => []IInv
BY InitOK, NextKeeps, PTL DEF Spec

\* The upload directory, the two tables and the uploads have their types.
THEOREM TypeCorrect == Spec => []TypeOK
BY Inductive, PTL DEF IInv

\* An image has one asset and a user one row of it, however many upload it at once
\* and however often their transactions are repeated.
THEOREM OneAssetOneRow == Spec => []Deduplicated
BY Inductive, PTL DEF IInv

\* Uploads that run at once exceed a quota by one family for each further upload
\* and no more.
THEOREM OverrunStaysBounded == Spec => []OverrunIsBounded
<1>1. IInv => OverrunIsBounded
  <2> SUFFICES ASSUME IInv PROVE OverrunIsBounded
    OBVIOUS
  <2>1. ASSUME NEW u \in Users
        PROVE  UserUsage(u) <= UserQuota + Cardinality(Conns) - 1
    <3>1. RowsOf(u) \in SUBSET Ids /\ RowsToCome(u) \in SUBSET Conns
      BY DEF RowsOf, RowsToCome
    <3>2. UserUsage(u) \in Nat /\ Cardinality(RowsToCome(u)) \in Nat /\ Cardinality(Conns) \in Nat
      BY <3>1, Finite DEF UserUsage
    <3>3. UserUsage(u) + Cardinality(RowsToCome(u)) <= UserQuota + Cardinality(Conns) - 1
      BY DEF IInv, OverrunToCome
    <3> QED BY <3>2, <3>3, Parameters
  <2>2. TotalUsage <= TotalQuota + Cardinality(Conns) - 1
    <3>1. {i \in Ids : assets[i] # None} \in SUBSET Ids /\ AssetsToCome \in SUBSET Conns
      BY DEF AssetsToCome
    <3>2. TotalUsage \in Nat /\ Cardinality(AssetsToCome) \in Nat /\ Cardinality(Conns) \in Nat
      BY <3>1, Finite DEF TotalUsage
    <3>3. TotalUsage + Cardinality(AssetsToCome) <= TotalQuota + Cardinality(Conns) - 1
      BY DEF IInv, OverrunToCome
    <3> QED BY <3>2, <3>3, Parameters
  <2> QED BY <2>1, <2>2 DEF OverrunIsBounded
<1> QED BY <1>1, Inductive, PTL

-----------------------------------------------------------------------------
(* What a step may do                                                        *)

\* Whatever upload c does, the others are where they were.
LEMMA OthersWait ==
    ASSUME TypeOK, NEW c \in Conns, Serve(c), NEW d \in Conns \ {c}
    PROVE  requests'[d] = requests[d]
<1>1. (\E x : requests' = [requests EXCEPT ![c] = x]) \/ requests' = requests
  <2>1. ASSUME NEW u \in Users, NEW s \in Images, Begin(c, u, s)
        PROVE  \E x : requests' = [requests EXCEPT ![c] = x]
    BY <2>1 DEF Begin, GoOn
  <2>2. CASE Check(c)
    BY <2>2 DEF Check, GoOn, Answer
  <2>3. CASE Room(c)
    BY <2>3 DEF Room, GoOn, Answer
  <2>4. CASE Insert(c)
    BY <2>4 DEF Insert, GoOn, ShowTable, Answer
  <2>5. CASE Attach(c)
    BY <2>5 DEF Attach, GoOn, ShowTable, Answer
  <2>6. CASE Reread(c) \/ Write(c)
    BY <2>6 DEF Reread, Write, GoOn
  <2>7. CASE InsertLost(c) \/ LinkLost(c)
    BY <2>7 DEF InsertLost, LinkLost
  <2>8. CASE WriteFails(c) \/ InsertFails(c) \/ Link(c) \/ Fails(c) \/ Killed(c)
    BY <2>8 DEF WriteFails, InsertFails, Link, Fails, Killed, ShowTable, Answer
  <2> QED BY <2>1, <2>2, <2>3, <2>4, <2>5, <2>6, <2>7, <2>8 DEF Serve
<1> QED BY <1>1 DEF TypeOK

\* An upload that goes on is not answered.
LEMMA MovedIsNotAnswered ==
    ASSUME TypeOK, NEW c \in Conns, NEW x, x.at # "idle", GoOn(c, x)
    PROVE  requests'[c].at # "idle"
BY DEF TypeOK, GoOn

\* An answer is what it says.
LEMMA AnsweredIs ==
    ASSUME TypeOK, NEW c \in Conns, NEW reply \in Replies, Answer(c, reply),
           requests'[c] = Idle("ok")
    PROVE  reply = "ok"
<1>1. Idle(reply).reply = reply /\ Idle("ok").reply = "ok"
  BY DEF Idle
<1>2. requests'[c] = Idle(reply)
  BY AnsweredFits
<1> QED BY <1>1, <1>2

\* The three steps that answer an upload with success.
LEMMA OkSteps ==
    ASSUME IInv, NEW c \in Conns, Serve(c), requests[c].at # "idle", requests'[c] = Idle("ok")
    PROVE  \/ Insert(c) /\ ~IsForeign(requests[c])
           \/ Attach(c) /\ InLibrary(requests[c].user, requests[c].asset)
           \/ Link(c)
<1>0. TypeOK /\ requests'[c].at = "idle"
  BY DEF IInv, Idle
<1>1. PICK r \in Upload : r = requests[c]
  BY ActiveFits DEF IInv
<1>2. CASE Insert(c)
  <2>1. CASE IsForeign(r)
    <3>1. GoOn(c, [r EXCEPT !.at = "reread", !.id = None])
      BY <1>1, <1>2, <2>1 DEF Insert
    <3>2. [r EXCEPT !.at = "reread", !.id = None].at = "reread"
      BY Renamed
    <3> QED BY <1>0, <3>1, <3>2, MovedIsNotAnswered
  <2> QED BY <1>1, <1>2, <2>1
<1>3. CASE Attach(c)
  <2>1. CASE ~InLibrary(r.user, r.asset)
    <3>1. GoOn(c, [r EXCEPT !.at = "room"])
      BY <1>1, <1>3, <2>1 DEF Attach
    <3>2. [r EXCEPT !.at = "room"].at = "room"
      BY UploadIs
    <3> QED BY <1>0, <3>1, <3>2, MovedIsNotAnswered
  <2> QED BY <1>1, <1>3, <2>1
<1>4. CASE Check(c)
  <2>1. ASSUME NEW i \in Ids, GoOn(c, [r EXCEPT !.at = "write", !.id = i])
        PROVE  FALSE
    <3>1. [r EXCEPT !.at = "write", !.id = i].at = "write"
      BY Renamed
    <3> QED BY <1>0, <2>1, <3>1, MovedIsNotAnswered
  <2>2. Answer(c, "refused")
    BY <1>1, <1>4, <2>1 DEF Check
  <2> QED BY <1>0, <2>2, AnsweredIs DEF Replies
<1>5. CASE Room(c)
  <2>1. ASSUME NEW i \in Ids, GoOn(c, [r EXCEPT !.at = "link", !.id = i])
        PROVE  FALSE
    <3>1. [r EXCEPT !.at = "link", !.id = i].at = "link"
      BY Renamed
    <3> QED BY <1>0, <2>1, <3>1, MovedIsNotAnswered
  <2>2. Answer(c, "refused")
    BY <1>1, <1>5, <2>1 DEF Room
  <2> QED BY <1>0, <2>2, AnsweredIs DEF Replies
<1>6. CASE Write(c)
  <2>1. GoOn(c, [r EXCEPT !.at = "insert"])
    BY <1>1, <1>6 DEF Write
  <2>2. [r EXCEPT !.at = "insert"].at = "insert"
    BY UploadIs
  <2> QED BY <1>0, <2>1, <2>2, MovedIsNotAnswered
<1>7. CASE Reread(c)
  <2>1. PICK a : GoOn(c, [r EXCEPT !.at = "attach", !.asset = a])
    BY <1>1, <1>7 DEF Reread
  <2>2. [r EXCEPT !.at = "attach", !.asset = a].at = "attach"
    BY Reattached
  <2> QED BY <1>0, <2>1, <2>2, MovedIsNotAnswered
<1>8. CASE InsertLost(c) \/ LinkLost(c)
  BY <1>0, <1>8 DEF InsertLost, LinkLost
<1>9. CASE WriteFails(c) \/ InsertFails(c) \/ Fails(c) \/ Killed(c)
  <2>1. Answer(c, "error")
    BY <1>9 DEF WriteFails, InsertFails, Fails, Killed
  <2> QED BY <1>0, <2>1, AnsweredIs DEF Replies
<1>10. ~ \E u \in Users, s \in Images : Begin(c, u, s)
  BY DEF Begin, At
<1> QED BY <1>1, <1>2, <1>3, <1>4, <1>5, <1>6, <1>7, <1>8, <1>9, <1>10 DEF Serve

\* An upload that is answered with success has its image in the user's library,
\* whichever of the three kinds of conflict was taken for it.
THEOREM OkIsInLibrary == Spec => OkMeansInLibrary
<1>1. ASSUME IInv, [Next]_vars, NEW c \in Conns,
             requests[c].at # "idle", requests'[c] = Idle("ok")
      PROVE  \E i, a \in Ids : /\ media'[i] = [asset |-> a, user |-> requests[c].user]
                               /\ assets'[a] = requests[c].image
  <2>0. requests'[c].at = "idle"
    BY <1>1 DEF Idle
  <2>1. PICK d \in Conns : Serve(d)
    BY <1>1, <2>0 DEF Next, vars
  <2>2. d = c
    BY <1>1, <2>0, <2>1, OthersWait DEF IInv
  <2>3. PICK r \in Upload : r = requests[c]
    BY <1>1, ActiveFits DEF IInv
  <2>4. CASE Insert(c) /\ ~IsForeign(r)
    <3>1. r.at = "insert" /\ Stored(r)
      BY <2>3, <2>4 DEF Insert, At
    <3>2. r.id \in Ids
      BY <3>1, UploadFields
    <3>3. assets'[r.id] = r.image /\ media'[r.id] = [asset |-> r.id, user |-> r.user]
      BY <1>1, <2>3, <2>4, <3>1, StoredTables
    <3> QED BY <2>3, <3>2, <3>3
  <2>5. CASE Attach(c) /\ InLibrary(r.user, r.asset)
    <3>1. r.at = "attach" /\ UNCHANGED <<assets, media>>
      BY <2>3, <2>5 DEF Attach, At
    <3>2. r.asset \in Ids /\ assets[r.asset] = r.image
      BY <1>1, <2>3, <3>1, UploadFields DEF IInv, Fits
    <3>3. PICK i \in Ids : media[i] = [asset |-> r.asset, user |-> r.user]
      BY <2>5 DEF InLibrary
    <3> QED BY <2>3, <3>1, <3>2, <3>3
  <2>6. CASE Link(c)
    <3>1. r.at = "link" /\ Linked(r) /\ UNCHANGED assets
      BY <2>3, <2>6 DEF Link, At
    <3>2. r.asset \in Ids /\ assets[r.asset] = r.image
      BY <1>1, <2>3, <3>1, UploadFields DEF IInv, Fits
    <3>3. InLibrary(r.user, r.asset)'
      BY <1>1, <2>3, <3>1, LinkedTables
    <3>4. PICK i \in Ids : media'[i] = [asset |-> r.asset, user |-> r.user]
      BY <3>3 DEF InLibrary
    <3> QED BY <2>3, <3>1, <3>2, <3>4
  <2> QED BY <1>1, <2>1, <2>2, <2>3, <2>4, <2>5, <2>6, OkSteps
<1>2. IInv /\ [Next]_vars =>
         [\A c \in Conns :
            requests[c].at # "idle" /\ requests'[c] = Idle("ok") =>
               \E i, a \in Ids :
                   /\ media'[i] = [asset |-> a, user |-> requests[c].user]
                   /\ assets'[a] = requests[c].image]_vars
  BY <1>1
<1> QED BY <1>2, Inductive, PTL DEF Spec, OkMeansInLibrary

\* Files are lost by one step only: the upload that stored their asset did not
\* learn of it and removes them.
THEOREM OnlyALostAnswerLosesFiles == Spec => FilesAreLostOnlyByLostAnswer
<1>1. ASSUME IInv, NEW c \in Conns, Serve(c), NEW i \in Ids,
             assets'[i] # None, files'[i] # "all", ~(assets[i] # None /\ files[i] # "all")
      PROVE  At(c, "insert") /\ requests[c].id = i /\ assets[i] # None
                /\ requests'[c] = Idle("error")
  <2>1. CASE Write(c) \/ WriteFails(c) \/ (Killed(c) /\ requests[c].at = "write")
    <3>1. requests[c].at = "write" /\ UNCHANGED assets
      BY <2>1 DEF Write, WriteFails, Killed, At
    <3>2. requests[c].id # i
      BY <1>1, <3>1 DEF IInv, Fits
    <3>3. files'[i] = files[i]
      BY <1>1, <2>1, <3>2 DEF Write, WriteFails, Killed, At, IInv, TypeOK
    <3> QED BY <1>1, <3>1, <3>3
  <2>2. CASE InsertFails(c)
    <3>1. requests[c].at = "insert" /\ UNCHANGED assets /\ Answer(c, "error")
      BY <2>2 DEF InsertFails, At
    <3>2. requests'[c] = Idle("error")
      BY <1>1, <3>1, AnsweredFits DEF IInv, Replies
    <3>3. requests[c].id = i
      BY <1>1, <2>2, <3>1 DEF InsertFails, Removed, IInv, TypeOK
    <3> QED BY <1>1, <3>1, <3>2, <3>3 DEF At
  <2>3. CASE (Insert(c) /\ ~IsForeign(requests[c])) \/ InsertLost(c)
    <3>1. PICK r : r = requests[c]
      OBVIOUS
    <3>2. r.at = "insert" /\ Stored(r) /\ ~IsForeign(r) /\ UNCHANGED files
      BY <2>3, <3>1 DEF Insert, InsertLost, At
    <3>3. \A j \in Ids \ {r.id} : assets'[j] = assets[j]
      BY <1>1, <3>2 DEF Stored, IInv, TypeOK
    <3>4. files[r.id] = "all"
      BY <1>1, <3>1, <3>2 DEF IInv, Fits
    <3> QED BY <1>1, <3>2, <3>3, <3>4
  <2>4. CASE Insert(c) /\ IsForeign(requests[c])
    <3>1. PICK r : r = requests[c]
      OBVIOUS
    <3>2. r.at = "insert" /\ UNCHANGED assets /\ IsForeign(r) /\ Removed(r) /\ r \in Upload
      BY <1>1, <2>4, <3>1, ActiveFits DEF Insert, Stored, At, IInv
    <3>3. r.id \in Ids /\ r.image \in Images
      BY <3>2, UploadFields
    <3>4. assets[r.id] = None
      <4>1. PICK j \in Ids \ {r.id} : assets[j] = r.image
        BY <3>2 DEF IsForeign, AssetsOf
      <4>2. assets[r.id] # r.image
        BY <1>1, <3>3, <4>1, Parameters DEF IInv, Deduplicated
      <4> QED BY <1>1, <3>1, <3>2, <4>2 DEF IInv, Fits
    <3>5. files'[i] = files[i]
      BY <1>1, <3>2, <3>4 DEF Removed, IInv, TypeOK
    <3> QED BY <1>1, <3>2, <3>5
  <2>5. CASE \/ \E u \in Users, s \in Images : Begin(c, u, s)
             \/ Check(c) \/ Reread(c) \/ Attach(c) \/ Room(c) \/ Link(c) \/ LinkLost(c)
             \/ Fails(c) \/ (Killed(c) /\ requests[c].at # "write")
    <3>1. UNCHANGED <<files, assets>>
      BY <2>5 DEF Begin, Check, Reread, Attach, Room, Link, LinkLost, Fails, Killed, At
    <3> QED BY <1>1, <3>1
  <2> QED BY <1>1, <2>1, <2>2, <2>3, <2>4, <2>5 DEF Serve
<1>2. IInv /\ [Next]_vars =>
         [\A i \in Ids :
            /\ assets'[i] # None /\ files'[i] # "all"
            /\ ~(assets[i] # None /\ files[i] # "all")
            => \E c \in Conns :
                   /\ At(c, "insert")
                   /\ requests[c].id = i
                   /\ assets[i] # None
                   /\ requests'[c] = Idle("error")]_vars
  BY <1>1 DEF Next
<1> QED BY <1>2, Inductive, PTL DEF Spec, FilesAreLostOnlyByLostAnswer

-----------------------------------------------------------------------------
(* Refinement: every step of Media is a step of Library or none              *)

\* Whether upload c has stored its row.
HasStored(c) == Named(c) /\ media[requests[c].id] # None

\* The two tables are written by the two kinds of INSERTs only.
LEMMA TableSteps ==
    ASSUME NEW c \in Conns, Serve(c)
    PROVE  \/ UNCHANGED <<assets, media>>
           \/ /\ Insert(c) \/ InsertLost(c)
              /\ requests[c].at = "insert" /\ ~IsForeign(requests[c]) /\ Stored(requests[c])
           \/ /\ Link(c) \/ LinkLost(c)
              /\ requests[c].at = "link" /\ Linked(requests[c]) /\ UNCHANGED assets
<1>1. CASE Insert(c)
  <2>1. CASE IsForeign(requests[c])
    BY <1>1, <2>1 DEF Insert, Stored
  <2> QED BY <1>1, <2>1 DEF Insert, At
<1>2. CASE InsertLost(c)
  BY <1>2 DEF InsertLost, At
<1>3. CASE Link(c) \/ LinkLost(c)
  BY <1>3 DEF Link, LinkLost, At
<1>4. CASE \/ \E u \in Users, s \in Images : Begin(c, u, s)
           \/ Check(c) \/ Write(c) \/ WriteFails(c) \/ InsertFails(c) \/ Reread(c)
           \/ Attach(c) \/ Room(c) \/ Fails(c) \/ Killed(c)
  BY <1>4 DEF Begin, Check, Write, WriteFails, InsertFails, Reread, Attach, Room, Fails, Killed
<1> QED BY <1>1, <1>2, <1>3, <1>4 DEF Serve

\* A step of upload c is none of the others'.
LEMMA OthersSeen ==
    ASSUME IInv, NEW c \in Conns, Serve(c), NEW d \in Conns \ {c}
    PROVE  Seen(d)' = Seen(d)
<1>1. requests'[d] = requests[d]
  BY OthersWait DEF IInv
<1>2. PICK r : r = requests[c]
  OBVIOUS
<1>3. \/ UNCHANGED media
      \/ Named(c) /\ \A i \in Ids \ {r.id} : media'[i] = media[i]
  <2>1. CASE requests[c].at = "insert" /\ ~IsForeign(requests[c]) /\ Stored(requests[c])
    BY <1>2, <2>1 DEF Stored, IInv, TypeOK, Named
  <2>2. CASE requests[c].at = "link" /\ Linked(requests[c]) /\ UNCHANGED assets
    BY <1>2, <2>2 DEF Linked, IInv, TypeOK, Named
  <2> QED BY <2>1, <2>2, TableSteps
<1>4. Named(d)' <=> Named(d)
  BY <1>1 DEF Named
<1>5. ASSUME Named(d)
      PROVE  media'[requests[d].id] = media[requests[d].id]
  <2>1. requests[d].id \in Ids
    BY <1>5, ActiveFits, UploadFields DEF Named, IInv
  <2>2. ~(Named(c) /\ requests[d].id = r.id)
    BY <1>2, <1>5 DEF IInv, OwnIds
  <2> QED BY <1>3, <2>1, <2>2
<1> QED BY <1>1, <1>4, <1>5 DEF Seen

\* What is seen of an upload that is being served, and of an answer.
LEMMA SeenServed ==
    ASSUME NEW c \in Conns, requests[c].at # "idle"
    PROVE  /\ HasStored(c) => Seen(c) = Lib!Served(requests[c].user, requests[c].image, TRUE)
           /\ ~HasStored(c) => Seen(c) = Lib!Served(requests[c].user, requests[c].image, FALSE)
BY DEF Seen, HasStored, Lib!Served

\* The libraries when the tables stay, and when upload c adds its row.
LEMMA ImagesStay ==
    ASSUME UNCHANGED <<assets, media>>
    PROVE  \A u \in Users : ImagesOf(u)' = ImagesOf(u)
BY DEF ImagesOf, RowsOf

LEMMA ImagesGrow ==
    ASSUME IInv, NEW i \in Ids, NEW a \in Ids, NEW u \in Users, media[i] = None,
           media' = [media EXCEPT ![i] = [asset |-> a, user |-> u]],
           \A j \in Ids : assets[j] # None => assets'[j] = assets[j]
    PROVE  /\ ImagesOf(u)' = ImagesOf(u) \cup {assets'[a]}
           /\ \A v \in Users \ {u} : ImagesOf(v)' = ImagesOf(v)
<1> DEFINE row == [asset |-> a, user |-> u]
<1>1. row \in Row /\ row # None /\ row.user = u /\ row.asset = a
  BY Parameters DEF Row
<1> HIDE DEF row
<1>2. media'[i] = row /\ \A j \in Ids \ {i} : media'[j] = media[j]
  BY DEF row, IInv, TypeOK
<1>3. ASSUME NEW v \in Users, NEW j \in RowsOf(v)
      PROVE  /\ j \in Ids \ {i} /\ media[j] # None /\ media[j].user = v
             /\ assets'[media[j].asset] = assets[media[j].asset]
  <2>1. j \in Ids /\ media[j] # None /\ media[j].user = v
    BY DEF RowsOf
  <2>2. media[j] \in Row /\ assets[media[j].asset] # None
    BY <2>1 DEF IInv, TypeOK, RowsHaveAssets
  <2> QED BY <2>1, <2>2 DEF Row
<1>4. RowsOf(u)' = RowsOf(u) \cup {i}
  BY <1>1, <1>2, <1>3 DEF RowsOf
<1>5. \A v \in Users \ {u} : RowsOf(v)' = RowsOf(v)
  BY <1>1, <1>2, <1>3 DEF RowsOf
<1>6. ASSUME NEW v \in Users, NEW j \in RowsOf(v)
      PROVE  assets'[media'[j].asset] = assets[media[j].asset]
  BY <1>2, <1>3
<1>7. ImagesOf(u)' = {assets'[media'[j].asset] : j \in RowsOf(u) \cup {i}}
  BY <1>4 DEF ImagesOf
<1>8. assets'[media'[i].asset] = assets'[a]
  BY <1>1, <1>2
<1>9. ImagesOf(u)' = ImagesOf(u) \cup {assets'[a]}
  BY <1>6, <1>7, <1>8 DEF ImagesOf
<1>10. \A v \in Users \ {u} : ImagesOf(v)' = ImagesOf(v)
  BY <1>5, <1>6 DEF ImagesOf
<1> QED BY <1>9, <1>10

\* Upload c goes on, and nobody sees anything of it.
LEMMA UnseenStep ==
    ASSUME IInv, NEW c \in Conns, Serve(c), UNCHANGED <<assets, media>>,
           requests[c].at # "idle", requests'[c].at # "idle",
           requests'[c].user = requests[c].user, requests'[c].image = requests[c].image,
           ~HasStored(c), ~HasStored(c)'
    PROVE  UNCHANGED Lib!vars
<1>1. Seen(c) = Lib!Served(requests[c].user, requests[c].image, FALSE)
  BY SeenServed
<1>2. Seen(c)' = Lib!Served(requests'[c].user, requests'[c].image, FALSE)
  BY DEF Seen, HasStored, Lib!Served
<1>3. \A d \in Conns : Seen(d)' = Seen(d)
  BY <1>1, <1>2, OthersSeen
<1> QED BY <1>3, ImagesStay DEF Lib!vars

\* What is seen when upload c is answered.
LEMMA AnswerSeen ==
    ASSUME IInv, NEW c \in Conns, Serve(c), NEW reply \in Replies, Answer(c, reply)
    PROVE  Lib!Becomes(c, Lib!Idle(reply))
<1>1. requests'[c] = Idle(reply)
  BY AnsweredFits DEF IInv
<1>2. Seen(c)' = Lib!Idle(reply)
  BY <1>1 DEF Seen, Idle, Lib!Idle
<1> QED BY <1>2, OthersSeen DEF Lib!Becomes

\* Upload c is answered and has stored nothing in this step.
LEMMA AnswerRefines ==
    ASSUME IInv, NEW c \in Conns, Serve(c), UNCHANGED <<assets, media>>,
           requests[c].at # "idle",
           NEW reply \in Replies, Answer(c, reply),
           reply = "refused" => ~HasStored(c),
           reply = "ok" => requests[c].image \in ImagesOf(requests[c].user)
    PROVE  Lib!Next
<1>1. PICK r \in Upload : r = requests[c]
  BY ActiveFits DEF IInv
<1>2. r.user \in Users /\ r.image \in Images
  BY <1>1, UploadFields
<1>3. Lib!Becomes(c, Lib!Idle(reply))
  BY AnswerSeen
<1>4. \A u \in Users : ImagesOf(u)' = ImagesOf(u)
  BY ImagesStay
<1>5. CASE reply = "error"
  <2>1. Seen(c).at = "served"
    BY <1>1, SeenServed DEF Lib!Served
  <2>2. Lib!Fail(c)
    BY <1>3, <1>4, <1>5, <2>1 DEF Lib!Fail
  <2> QED BY <2>2 DEF Lib!Next
<1>6. CASE reply = "refused"
  <2>1. Seen(c) = Lib!Served(r.user, r.image, FALSE)
    BY <1>1, <1>6, SeenServed
  <2>2. Lib!Refuse(c, r.user, r.image)
    BY <1>3, <1>4, <1>6, <2>1 DEF Lib!Refuse
  <2> QED BY <1>2, <2>2 DEF Lib!Next
<1>7. CASE reply = "ok"
  <2>1. PICK stored \in BOOLEAN : Seen(c) = Lib!Served(r.user, r.image, stored)
    BY <1>1, SeenServed
  <2>2. r.image \in ImagesOf(r.user)
    BY <1>1, <1>7
  <2>3. Lib!Succeed(c, r.user, r.image, stored)
    BY <1>2, <1>3, <1>4, <1>7, <2>1, <2>2 DEF Lib!Succeed
  <2> QED BY <1>2, <2>3 DEF Lib!Next
<1> QED BY <1>5, <1>6, <1>7 DEF Replies

\* Upload c has stored its row, and is answered, or not yet.
LEMMA StoreRefines ==
    ASSUME IInv, NEW c \in Conns, Serve(c), Named(c),
           NEW i \in Ids, i = requests[c].id, media[i] = None,
           NEW a \in Ids, NEW u \in Users, u = requests[c].user,
           NEW s \in Images, s = requests[c].image,
           media' = [media EXCEPT ![i] = [asset |-> a, user |-> u]], assets'[a] = s,
           \A j \in Ids : assets[j] # None => assets'[j] = assets[j],
           s \notin ImagesOf(u),
           UNCHANGED requests \/ ShowTable(c)
    PROVE  Lib!Next
<1>1. Seen(c) = Lib!Served(u, s, FALSE)
  BY SeenServed DEF HasStored, Named
<1>2. ImagesOf(u)' = ImagesOf(u) \cup {s} /\ \A v \in Users \ {u} : ImagesOf(v)' = ImagesOf(v)
  BY ImagesGrow
<1>3. Lib!Adds(u, s)
  BY <1>2 DEF Lib!Adds
<1>4. CASE ShowTable(c)
  <2>1. Lib!Becomes(c, Lib!Idle("ok")) \/ Lib!Becomes(c, Lib!Idle("error"))
    BY <1>4, AnswerSeen DEF Replies, ShowTable
  <2>2. Lib!Succeed(c, u, s, FALSE)
    BY <1>1, <1>3, <2>1 DEF Lib!Succeed
  <2> QED BY <2>2 DEF Lib!Next
<1>5. CASE UNCHANGED requests
  <2>1. media'[i] # None
    <3>1. [asset |-> a, user |-> u] \in Row
      BY DEF Row
    <3> QED BY <3>1, Parameters DEF IInv, TypeOK
  <2>2. HasStored(c)' /\ requests'[c].at # "idle"
    BY <1>5, <2>1 DEF HasStored, Named
  <2>3. Seen(c)' = Lib!Served(u, s, TRUE)
    BY <1>5, <2>2 DEF Seen, HasStored, Lib!Served
  <2>4. Lib!Becomes(c, Lib!Served(u, s, TRUE))
    BY <2>3, OthersSeen DEF Lib!Becomes
  <2>5. Lib!Store(c, u, s)
    BY <1>1, <1>3, <2>4 DEF Lib!Store
  <2> QED BY <2>5 DEF Lib!Next
<1> QED BY <1>4, <1>5

\* A row of the user's that points to an asset of the image.
LEMMA RowShows ==
    ASSUME NEW u \in Users, NEW i \in Ids, NEW a,
           media[i] # None, media[i] = [asset |-> a, user |-> u]
    PROVE  assets[a] \in ImagesOf(u)
<1>1. media[i].asset = a /\ media[i].user = u
  OBVIOUS
<1> QED BY <1>1 DEF ImagesOf, RowsOf

LEMMA StoredRefines ==
    ASSUME IInv, NEW c \in Conns, Serve(c), requests[c].at = "insert",
           ~IsForeign(requests[c]), Stored(requests[c]),
           UNCHANGED requests \/ ShowTable(c)
    PROVE  Lib!Next \/ UNCHANGED Lib!vars
<1>1. PICK r : r = requests[c]
  OBVIOUS
<1>2. /\ r \in Upload
      /\ assets'[r.id] = r.image
      /\ media'[r.id] = [asset |-> r.id, user |-> r.user]
      /\ \A i \in Ids \ {r.id} : assets'[i] = assets[i] /\ media'[i] = media[i]
      /\ \/ UNCHANGED <<assets, media>>
         \/ /\ assets[r.id] = None /\ media[r.id] = None
            /\ assets' = [assets EXCEPT ![r.id] = r.image]
            /\ media' = [media EXCEPT ![r.id] = [asset |-> r.id, user |-> r.user]]
  BY <1>1, StoredTables
<1>3. r.at = "insert" /\ r.id \in Ids /\ r.user \in Users /\ r.image \in Images
  BY <1>1, <1>2, UploadFields
<1>4. Named(c)
  BY <1>1, <1>3 DEF Named
<1>5. CASE UNCHANGED <<assets, media>>
  <2>1. [asset |-> r.id, user |-> r.user] # None
    BY <1>3, Parameters DEF Row
  <2>2. r.image \in ImagesOf(r.user)
    BY <1>2, <1>3, <1>5, <2>1, RowShows
  <2>3. CASE ShowTable(c)
    BY <1>1, <1>3, <1>5, <2>2, <2>3, AnswerRefines DEF Replies, ShowTable
  <2>4. CASE UNCHANGED requests
    <3>1. Seen(c)' = Seen(c)
      BY <1>5, <2>4 DEF Seen, Named
    <3> QED BY <1>5, <3>1, OthersSeen, ImagesStay DEF Lib!vars
  <2> QED BY <2>3, <2>4
<1>6. CASE /\ assets[r.id] = None /\ media[r.id] = None
           /\ assets' = [assets EXCEPT ![r.id] = r.image]
           /\ media' = [media EXCEPT ![r.id] = [asset |-> r.id, user |-> r.user]]
  <2>1. \A j \in Ids : assets[j] # r.image
    BY <1>1, <1>3, <1>6, Parameters DEF IsForeign, AssetsOf
  <2>2. r.image \notin ImagesOf(r.user)
    <3>1. ASSUME NEW j \in RowsOf(r.user)
          PROVE  media[j].asset \in Ids
      BY DEF RowsOf, IInv, TypeOK, Row
    <3> QED BY <2>1, <3>1 DEF ImagesOf
  <2>3. \A j \in Ids : assets[j] # None => assets'[j] = assets[j]
    BY <1>2, <1>6
  <2> QED BY <1>1, <1>2, <1>3, <1>4, <1>6, <2>2, <2>3, StoreRefines
<1> QED BY <1>2, <1>5, <1>6

LEMMA LinkedRefines ==
    ASSUME IInv, NEW c \in Conns, Serve(c), requests[c].at = "link",
           Linked(requests[c]), UNCHANGED assets,
           UNCHANGED requests \/ ShowTable(c)
    PROVE  Lib!Next \/ UNCHANGED Lib!vars
<1>1. PICK r : r = requests[c]
  OBVIOUS
<1>2. r \in Upload /\ InLibrary(r.user, r.asset)'
  BY <1>1, LinkedTables
<1>3. r.at = "link" /\ r.id \in Ids /\ r.user \in Users /\ r.image \in Images /\ r.asset \in Ids
  BY <1>1, <1>2, UploadFields
<1>4. Named(c) /\ assets[r.asset] = r.image
  BY <1>1, <1>3 DEF Named, IInv, Fits
<1>5. [asset |-> r.asset, user |-> r.user] # None
  BY <1>3, Parameters DEF Row
<1>6. CASE media[r.id] # None \/ InLibrary(r.user, r.asset)
  <2>1. UNCHANGED <<assets, media>>
    BY <1>1, <1>6 DEF Linked
  <2>2. PICK i \in Ids : media[i] = [asset |-> r.asset, user |-> r.user]
    BY <1>2, <2>1 DEF InLibrary
  <2>3. r.image \in ImagesOf(r.user)
    BY <1>3, <1>4, <1>5, <2>2, RowShows
  <2>4. CASE ShowTable(c)
    BY <1>1, <1>3, <2>1, <2>3, <2>4, AnswerRefines DEF Replies, ShowTable
  <2>5. CASE UNCHANGED requests
    <3>1. Seen(c)' = Seen(c)
      BY <2>1, <2>5 DEF Seen, Named
    <3> QED BY <2>1, <3>1, OthersSeen, ImagesStay DEF Lib!vars
  <2> QED BY <2>4, <2>5
<1>7. CASE media[r.id] = None /\ ~InLibrary(r.user, r.asset)
  <2>1. media' = [media EXCEPT ![r.id] = [asset |-> r.asset, user |-> r.user]]
    BY <1>1, <1>7 DEF Linked
  <2>2. ASSUME NEW j \in RowsOf(r.user), assets[media[j].asset] = r.image
        PROVE  FALSE
    <3>1. j \in Ids /\ media[j] \in Row /\ media[j].user = r.user
      BY DEF RowsOf, IInv, TypeOK
    <3>2. media[j].asset \in Ids
      BY <3>1 DEF Row
    <3>3. media[j].asset = r.asset
      BY <1>3, <1>4, <2>2, <3>2, Parameters DEF IInv, Deduplicated
    <3>4. media[j] = [asset |-> r.asset, user |-> r.user]
      BY <3>1, <3>3 DEF Row
    <3> QED BY <1>7, <3>1, <3>4 DEF InLibrary
  <2>3. r.image \notin ImagesOf(r.user)
    BY <2>2 DEF ImagesOf
  <2> QED BY <1>1, <1>3, <1>4, <1>7, <2>1, <2>3, StoreRefines
<1> QED BY <1>6, <1>7

LEMMA BeginRefines ==
    ASSUME IInv, NEW c \in Conns, NEW u \in Users, NEW s \in Images, Begin(c, u, s), Serve(c)
    PROVE  Lib!Next
<1>1. requests[c].at = "idle" /\ UNCHANGED <<assets, media>>
  BY DEF Begin, At
<1>2. /\ requests'[c].at \in {"check", "attach"}
      /\ requests'[c].user = u /\ requests'[c].image = s
  <2> DEFINE r == [at |-> "check", user |-> u, image |-> s, id |-> None, asset |-> None]
  <2>1. r \in Upload
    BY MovedFits
  <2>2. PICK q \in Upload : q = r
    BY <2>1
  <2>3. CASE AssetsOf(s) = {}
    <3>1. GoOn(c, r)
      BY <2>3 DEF Begin
    <3> QED BY <3>1 DEF GoOn, IInv, TypeOK
  <2>4. CASE AssetsOf(s) # {}
    <3>1. PICK a : GoOn(c, [r EXCEPT !.at = "attach", !.asset = a])
      BY <2>4 DEF Begin
    <3>2. PICK x : x = [q EXCEPT !.at = "attach", !.asset = a]
      OBVIOUS
    <3>3. x = [at |-> "attach", user |-> q.user, image |-> q.image, id |-> q.id, asset |-> a]
      BY <3>2, Reattached
    <3>4. GoOn(c, x)
      BY <2>2, <3>1, <3>2
    <3> HIDE <2>2, <3>1, <3>2
    <3>5. requests'[c] = x
      BY <3>4 DEF GoOn, IInv, TypeOK
    <3>6. q.user = u /\ q.image = s
      BY <2>2
    <3> QED BY <3>3, <3>5, <3>6
  <2> QED BY <2>3, <2>4
<1>3. Seen(c)' = Lib!Served(u, s, FALSE)
  BY <1>2 DEF Seen, Named, Lib!Served
<1>4. Lib!Becomes(c, Lib!Served(u, s, FALSE))
  BY <1>3, OthersSeen DEF Lib!Becomes
<1>5. Seen(c).at = "idle"
  BY <1>1 DEF Seen
<1>6. Lib!Begin(c, u, s)
  BY <1>1, <1>4, <1>5, ImagesStay DEF Lib!Begin
<1> QED BY <1>6 DEF Lib!Next

\* An upload that goes on is seen as before.
LEMMA MoveRefines ==
    ASSUME IInv, NEW c \in Conns, Serve(c), UNCHANGED <<assets, media>>,
           NEW r \in Upload, r = requests[c], ~HasStored(c),
           NEW x, GoOn(c, x), x.at # "idle", x.user = r.user, x.image = r.image,
           x.at \in {"write", "insert", "link"} => media[x.id] = None
    PROVE  UNCHANGED Lib!vars
<1>1. requests'[c] = x
  BY DEF GoOn, IInv, TypeOK
<1>2. ~HasStored(c)' /\ requests'[c].at # "idle"
  BY <1>1 DEF HasStored, Named
<1>3. requests[c].at # "idle"
  BY UploadFields
<1> QED BY <1>1, <1>2, <1>3, UnseenStep

LEMMA ServeRefines ==
    ASSUME IInv, NEW c \in Conns, Serve(c)
    PROVE  Lib!Next \/ UNCHANGED Lib!vars
<1>1. ASSUME NEW u \in Users, NEW s \in Images, Begin(c, u, s)
      PROVE  Lib!Next
  BY <1>1, BeginRefines
<1>2. CASE Check(c) \/ Room(c)
  <2>1. /\ UNCHANGED <<assets, media>>
        /\ requests[c].at \in {"check", "room"}
        /\ ~HasStored(c)
    BY <1>2 DEF Check, Room, At, HasStored, Named
  <2>2. PICK r \in Upload : r = requests[c]
    BY <2>1, ActiveFits DEF IInv
  <2>3. CASE Answer(c, "refused")
    BY <2>1, <2>3, AnswerRefines DEF Replies
  <2>4. ASSUME NEW i \in Ids, Fresh(i), NEW l \in {"write", "link"},
               GoOn(c, [r EXCEPT !.at = l, !.id = i])
        PROVE  UNCHANGED Lib!vars
    <3>1. media[i] = None
      BY <2>4 DEF Fresh
    <3>2. PICK x : x = [r EXCEPT !.at = l, !.id = i]
      OBVIOUS
    <3>3. x.at = l /\ x.user = r.user /\ x.image = r.image /\ x.id = i
      BY <3>2, Renamed
    <3>4. GoOn(c, x)
      BY <2>4, <3>2
    <3> QED BY <2>1, <2>2, <3>1, <3>3, <3>4, MoveRefines
  <2> QED BY <1>2, <2>2, <2>3, <2>4 DEF Check, Room
<1>3. CASE Write(c)
  <2>1. requests[c].at = "write" /\ UNCHANGED <<assets, media>>
    BY <1>3 DEF Write, At
  <2>2. PICK r \in Upload : r = requests[c]
    BY <2>1, ActiveFits DEF IInv
  <2>3. media[r.id] = None /\ ~HasStored(c)
    BY <2>1, <2>2 DEF IInv, Fits, HasStored
  <2>4. PICK x : x = [r EXCEPT !.at = "insert"]
    OBVIOUS
  <2>5. x.at = "insert" /\ x.user = r.user /\ x.image = r.image /\ x.id = r.id
    BY <2>4, UploadIs
  <2>6. GoOn(c, x)
    BY <1>3, <2>2, <2>4 DEF Write
  <2> QED BY <2>1, <2>2, <2>3, <2>5, <2>6, MoveRefines
<1>4. CASE WriteFails(c) \/ InsertFails(c) \/ Fails(c) \/ Killed(c)
  <2>1. UNCHANGED <<assets, media>> /\ Answer(c, "error") /\ requests[c].at # "idle"
    BY <1>4 DEF WriteFails, InsertFails, Fails, Killed, At
  <2> QED BY <2>1, AnswerRefines DEF Replies
<1>5. CASE Insert(c)
  <2>1. CASE IsForeign(requests[c])
    <3>1. requests[c].at = "insert" /\ UNCHANGED <<assets, media>>
      BY <1>5, <2>1 DEF Insert, At, Stored
    <3>2. PICK r \in Upload : r = requests[c]
      BY <3>1, ActiveFits DEF IInv
    <3>3. r.id \in Ids /\ r.image \in Images
      BY <3>1, <3>2, UploadFields
    <3>4. ~HasStored(c)
      <4>1. PICK j \in Ids \ {r.id} : assets[j] = r.image
        BY <2>1, <3>2 DEF IsForeign, AssetsOf
      <4>2. assets[r.id] # r.image
        BY <3>3, <4>1, Parameters DEF IInv, Deduplicated
      <4> QED BY <3>1, <3>2, <4>2 DEF IInv, Fits, HasStored
    <3>5. PICK x : x = [r EXCEPT !.at = "reread", !.id = None]
      OBVIOUS
    <3>6. x.at = "reread" /\ x.user = r.user /\ x.image = r.image
      BY <3>5, Renamed
    <3>7. GoOn(c, x)
      BY <1>5, <2>1, <3>2, <3>5 DEF Insert
    <3> QED BY <3>1, <3>2, <3>4, <3>6, <3>7, MoveRefines
  <2>2. CASE ~IsForeign(requests[c])
    BY <1>5, <2>2, StoredRefines DEF Insert, At
  <2> QED BY <2>1, <2>2
<1>6. CASE InsertLost(c)
  BY <1>6, StoredRefines DEF InsertLost, At
<1>7. CASE Reread(c)
  <2>1. requests[c].at = "reread" /\ UNCHANGED <<assets, media>> /\ ~HasStored(c)
    BY <1>7 DEF Reread, At, HasStored, Named
  <2>2. PICK r \in Upload : r = requests[c]
    BY <2>1, ActiveFits DEF IInv
  <2>3. PICK a : GoOn(c, [r EXCEPT !.at = "attach", !.asset = a])
    BY <1>7, <2>2 DEF Reread
  <2>4. PICK x : x = [r EXCEPT !.at = "attach", !.asset = a]
    OBVIOUS
  <2>5. x.at = "attach" /\ x.user = r.user /\ x.image = r.image
    BY <2>4, Reattached
  <2>6. GoOn(c, x)
    BY <2>3, <2>4
  <2> QED BY <2>1, <2>2, <2>5, <2>6, MoveRefines
<1>8. CASE Attach(c)
  <2>1. requests[c].at = "attach" /\ UNCHANGED <<assets, media>> /\ ~HasStored(c)
    BY <1>8 DEF Attach, At, HasStored, Named
  <2>2. PICK r \in Upload : r = requests[c]
    BY <2>1, ActiveFits DEF IInv
  <2>3. r.user \in Users /\ r.asset \in Ids /\ assets[r.asset] = r.image
    BY <2>1, <2>2, UploadFields DEF IInv, Fits
  <2>4. CASE InLibrary(r.user, r.asset)
    <3>1. PICK i \in Ids : media[i] = [asset |-> r.asset, user |-> r.user]
      BY <2>4 DEF InLibrary
    <3>2. [asset |-> r.asset, user |-> r.user] # None
      BY <2>3, Parameters DEF Row
    <3>3. r.image \in ImagesOf(r.user)
      BY <2>3, <3>1, <3>2, RowShows
    <3>4. ShowTable(c)
      BY <1>8, <2>2, <2>4 DEF Attach
    <3> QED BY <2>1, <2>2, <3>3, <3>4, AnswerRefines DEF Replies, ShowTable
  <2>5. CASE ~InLibrary(r.user, r.asset)
    <3>1. PICK x : x = [r EXCEPT !.at = "room"]
      OBVIOUS
    <3>2. x.at = "room" /\ x.user = r.user /\ x.image = r.image
      BY <3>1, UploadIs
    <3>3. GoOn(c, x)
      BY <1>8, <2>2, <2>5, <3>1 DEF Attach
    <3> QED BY <2>1, <2>2, <3>2, <3>3, MoveRefines
  <2> QED BY <2>4, <2>5
<1>9. CASE Link(c) \/ LinkLost(c)
  BY <1>9, LinkedRefines DEF Link, LinkLost, At
<1> QED BY <1>1, <1>2, <1>3, <1>4, <1>5, <1>6, <1>7, <1>8, <1>9 DEF Serve

LEMMA InitRefines == Init => Lib!Init
<1> SUFFICES ASSUME Init PROVE Lib!Init
  OBVIOUS
<1>1. ASSUME NEW u \in Users
      PROVE  ImagesOf(u) = {}
  BY DEF Init, ImagesOf, RowsOf
<1>2. ASSUME NEW c \in Conns
      PROVE  Seen(c) = Lib!Idle("ok")
  BY DEF Init, Seen, Idle, Lib!Idle
<1> QED BY <1>1, <1>2 DEF Lib!Init

LEMMA NextRefines == IInv /\ [Next]_vars => [Lib!Next]_(Lib!vars)
<1> SUFFICES ASSUME IInv, [Next]_vars PROVE Lib!Next \/ UNCHANGED Lib!vars
  OBVIOUS
<1>1. CASE UNCHANGED vars
  BY <1>1 DEF vars, Lib!vars, ImagesOf, RowsOf, Seen, Named
<1> QED BY <1>1, ServeRefines DEF Next

\* The media library with its two tables, its files, its conflicts and its lost
\* answers implements one set of images for each user.
THEOREM LibraryImplemented == Spec => ImplementsLibrary
BY InitRefines, NextRefines, Inductive, PTL DEF Spec, ImplementsLibrary, Lib!Spec
=============================================================================
