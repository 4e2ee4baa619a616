-------------------------------- MODULE Media --------------------------------
(***************************************************************************)
(* The media library: UploadMedia with its quota check and its             *)
(* de-duplication (http/handlers/media.go), and the transactions behind it *)
(* (store/sqlite/media_store.go).                                          *)
(*                                                                         *)
(* An upload is served in a connection c in Conns.  It reads the database  *)
(* several times, writes its files, and stores its rows in the end:        *)
(* everybody else may act between any two of these.  It may be killed, and *)
(* a transaction may be applied and its answer lost; ExecRetry then runs   *)
(* it again, or gives up.                                                  *)
(*                                                                         *)
(* A file family is the original with its variants, named after the id of  *)
(* the upload.  An image stands for the SHA-256 of its normalized bytes.   *)
(* Every family has the same size, the unit in which quotas are counted.   *)
(***************************************************************************)
EXTENDS Integers, FiniteSets

CONSTANTS
    Users,       \* who upload
    Images,      \* normalized images, by SHA-256
    Ids,         \* ids that randomID may return
    Conns,       \* uploads served at the same time
    None,        \* no row
    UserQuota,   \* MEDIA_USER_QUOTA_BYTES, in file families
    TotalQuota,  \* MEDIA_TOTAL_QUOTA_BYTES, in file families
    MaxLost      \* bound on lost answers

Row == [asset: Ids, user: Users]

ASSUME MediaAssumption ==
    /\ None \notin Images \cup Row
    /\ UserQuota \in Nat \ {0}
    /\ TotalQuota \in Nat \ {0}
    /\ MaxLost \in Nat
    /\ IsFiniteSet(Ids)
    /\ IsFiniteSet(Conns)

VARIABLES
    files,     \* what the upload directory has of each file family
    assets,    \* the media_assets table: the image of each asset
    media,     \* the media table: the library rows
    requests,  \* the uploads being served
    lost       \* answers lost so far

vars == <<files, assets, media, requests, lost>>

Family  == {"none", "some", "all"}
Replies == {"ok", "refused", "error"}
Idle(r) == [at |-> "idle", reply |-> r]

\* An upload that is at one of steps, and of which ids and shared are known: its
\* own id, and the asset it is attached to.
UploadAt(steps, ids, shared) ==
    [at: steps, user: Users, image: Images, id: ids, asset: shared]

Upload ==
    UNION {UploadAt({"check", "reread"}, {None}, {None}),
           UploadAt({"write", "insert"}, Ids, {None}),
           UploadAt({"attach", "room"}, {None}, Ids),
           UploadAt({"link"}, Ids, Ids)}

\* Types of the upload directory, the two tables and the uploads.
TypeOK ==
    /\ files \in [Ids -> Family]
    /\ assets \in [Ids -> Images \cup {None}]
    /\ media \in [Ids -> Row \cup {None}]
    /\ requests \in [Conns -> Upload \cup {Idle(r) : r \in Replies}]
    /\ lost \in 0..MaxLost

Init ==
    /\ files = [i \in Ids |-> "none"]
    /\ assets = [i \in Ids |-> None]
    /\ media = [i \in Ids |-> None]
    /\ requests = [c \in Conns |-> Idle("ok")]
    /\ lost = 0

-----------------------------------------------------------------------------
(* What the code reads *)

\* GetMediaAssetBySHA256.
AssetsOf(s) == {i \in Ids : assets[i] = s}

\* Fault: anybody's row of the asset will do.
InAnyLibrary(u, a) == \E i \in Ids : media[i] # None /\ media[i].asset = a

\* GetMediaByAssetAndUser.
InLibrary(u, a) == \E i \in Ids : media[i] = [asset |-> a, user |-> u]

\* MediaUsage: the user's is counted by library rows, the total by assets.
RowsOf(u)  == {i \in Ids : media[i] # None /\ media[i].user = u}
UserUsage(u) == Cardinality(RowsOf(u))
TotalUsage == Cardinality({i \in Ids : assets[i] # None})

\* randomID never returns the same id twice.
Fresh(i) ==
    /\ files[i] = "none" /\ assets[i] = None /\ media[i] = None
    /\ \A c \in Conns : requests[c].at # "idle" => requests[c].id # i

At(c, l)      == requests[c].at = l
Named(c)      == requests[c].at \in {"write", "insert", "link"}  \* it has an id
GoOn(c, r)    == requests' = [requests EXCEPT ![c] = r]
Answer(c, r)  == requests' = [requests EXCEPT ![c] = Idle(r)]

\* renderMediaTableAfterAction: the upload is done.  To a request of HTMX the list
\* is read and shown, and if that fails the answer is an error.
ShowTable(c) == Answer(c, "ok") \/ Answer(c, "error")

-----------------------------------------------------------------------------
(* An upload up to its files *)

\* UploadMedia: the file is normalized and its hash looked up.
Begin(c, u, s) ==
    LET r == [at |-> "check", user |-> u, image |-> s, id |-> None, asset |-> None]
    IN  /\ At(c, "idle")
        /\ IF AssetsOf(s) = {} THEN GoOn(c, r)
           ELSE \E a \in AssetsOf(s) : GoOn(c, [r EXCEPT !.at = "attach", !.asset = a])
        /\ UNCHANGED <<files, assets, media, lost>>

\* Fault: the family to be stored is not counted.
HasRoomForOneMore(u, countGlobal) ==
    /\ UserUsage(u) <= UserQuota
    /\ countGlobal => TotalUsage <= TotalQuota

\* enforceMediaQuota: what is asked before one family is added.
HasRoom(u, countGlobal) ==
    /\ UserUsage(u) + 1 <= UserQuota
    /\ countGlobal => TotalUsage + 1 <= TotalQuota

\* With room for it the upload gets its id.
Check(c) ==
    /\ At(c, "check")
    /\ IF HasRoom(requests[c].user, TRUE)
       THEN \E i \in Ids : Fresh(i) /\ GoOn(c, [requests[c] EXCEPT !.at = "write", !.id = i])
       ELSE Answer(c, "refused")
    /\ UNCHANGED <<files, assets, media, lost>>

\* The original and its variants are written.
Write(c) ==
    /\ At(c, "write")
    /\ files' = [files EXCEPT ![requests[c].id] = "all"]
    /\ GoOn(c, [requests[c] EXCEPT !.at = "insert"])
    /\ UNCHANGED <<assets, media, lost>>

\* Writing one of them fails.  What was completely written is removed, if it is
\* not the original itself that failed; a part of a file may stay.
WriteFails(c) ==
    /\ At(c, "write")
    /\ \E left \in {"none", "some"} : files' = [files EXCEPT ![requests[c].id] = left]
    /\ Answer(c, "error")
    /\ UNCHANGED <<assets, media, lost>>

-----------------------------------------------------------------------------
(* CreateMediaWithVariants *)

\* Another upload has stored the same image: ErrMediaAssetExists.
IsForeign(r) == AssetsOf(r.image) \ {r.id} # {}

\* The INSERTs.  A row that is there already has been put there by an earlier
\* try: its conflict is a success.
Stored(r) ==
    IF IsForeign(r) \/ media[r.id] # None THEN UNCHANGED <<assets, media>>
    ELSE /\ assets' = [assets EXCEPT ![r.id] = r.image]
         /\ media' = [media EXCEPT ![r.id] = [asset |-> r.id, user |-> r.user]]

\* Fault: the files of the canonical asset are removed.
RemovedCanonical(r) ==
    \E a \in AssetsOf(r.image) : files' = [files EXCEPT ![a] = "none"]

\* removeFiles: errors are ignored, so files may stay.
Removed(r) == \E left \in Family : files' = [files EXCEPT ![r.id] = left]

\* Fault: ErrMediaAssetExists is taken for a success.
InsertForeignIsOk(c) ==
    LET r == requests[c]
    IN  /\ At(c, "insert")
        /\ Stored(r)
        /\ IF IsForeign(r) THEN Removed(r) ELSE UNCHANGED files
        /\ Answer(c, "ok")
        /\ UNCHANGED lost

\* The transaction is done.  If the image is there already, the upload removes
\* its own files and goes on to the asset of the other.
Insert(c) ==
    LET r == requests[c]
    IN  /\ At(c, "insert")
        /\ Stored(r)
        /\ IF IsForeign(r)
           THEN Removed(r) /\ GoOn(c, [r EXCEPT !.at = "reread", !.id = None])
           ELSE UNCHANGED files /\ ShowTable(c)
        /\ UNCHANGED lost

\* The transaction is applied, its answer is lost, and ExecRetry will repeat it.
InsertLost(c) ==
    /\ At(c, "insert")
    /\ ~IsForeign(requests[c])
    /\ lost < MaxLost
    /\ lost' = lost + 1
    /\ Stored(requests[c])
    /\ UNCHANGED <<files, requests>>

\* The error is permanent, the retries are used up or the request is cancelled:
\* the files are removed.
InsertFails(c) ==
    /\ At(c, "insert")
    /\ Removed(requests[c])
    /\ Answer(c, "error")
    /\ UNCHANGED <<assets, media, lost>>

\* The hash is looked up once more.
Reread(c) ==
    /\ At(c, "reread")
    /\ \E a \in AssetsOf(requests[c].image) :
         GoOn(c, [requests[c] EXCEPT !.at = "attach", !.asset = a])
    /\ UNCHANGED <<files, assets, media, lost>>

-----------------------------------------------------------------------------
(* attachExistingMediaAsset *)

\* An image that is in the user's library is not added again.
Attach(c) ==
    LET r == requests[c]
    IN  /\ At(c, "attach")
        /\ IF InLibrary(r.user, r.asset) THEN ShowTable(c)
           ELSE GoOn(c, [r EXCEPT !.at = "room"])
        /\ UNCHANGED <<files, assets, media, lost>>

\* The user's quota is checked, the total one is not touched by a shared asset.
Room(c) ==
    /\ At(c, "room")
    /\ IF HasRoom(requests[c].user, FALSE)
       THEN \E i \in Ids : Fresh(i) /\ GoOn(c, [requests[c] EXCEPT !.at = "link", !.id = i])
       ELSE Answer(c, "refused")
    /\ UNCHANGED <<files, assets, media, lost>>

\* Fault: there is no UNIQUE index on created_by and asset_id.
LinkedTwice(r) == media' = [media EXCEPT ![r.id] = [asset |-> r.asset, user |-> r.user]]

\* AttachMediaToAsset: a conflict on the id or on user and asset is a success.
Linked(r) ==
    media' = IF media[r.id] # None \/ InLibrary(r.user, r.asset) THEN media
             ELSE [media EXCEPT ![r.id] = [asset |-> r.asset, user |-> r.user]]

Link(c) ==
    /\ At(c, "link")
    /\ Linked(requests[c])
    /\ ShowTable(c)
    /\ UNCHANGED <<files, assets, lost>>

\* The row is stored and the answer is lost.
LinkLost(c) ==
    /\ At(c, "link")
    /\ lost < MaxLost
    /\ lost' = lost + 1
    /\ Linked(requests[c])
    /\ UNCHANGED <<files, assets, requests>>

\* A read or the INSERT of the row fails.
Fails(c) ==
    /\ requests[c].at \in {"check", "reread", "attach", "room", "link"}
    /\ Answer(c, "error")
    /\ UNCHANGED <<files, assets, media, lost>>

\* The process is killed; what it has written stays.
Killed(c) ==
    /\ ~At(c, "idle")
    /\ IF At(c, "write")
       THEN \E left \in Family : files' = [files EXCEPT ![requests[c].id] = left]
       ELSE UNCHANGED files
    /\ Answer(c, "error")
    /\ UNCHANGED <<assets, media, lost>>

Serve(c) ==
    \/ \E u \in Users, s \in Images : Begin(c, u, s)
    \/ Check(c) \/ Write(c) \/ WriteFails(c)
    \/ Insert(c) \/ InsertLost(c) \/ InsertFails(c) \/ Reread(c)
    \/ Attach(c) \/ Room(c) \/ Link(c) \/ LinkLost(c) \/ Fails(c) \/ Killed(c)

Next == \E c \in Conns : Serve(c)

Spec == Init /\ [][Next]_vars

-----------------------------------------------------------------------------
(* Properties *)

\* One asset for an image, and one library row of it for a user, however many
\* uploads of it run at once and however often their transactions are repeated.
Deduplicated ==
    /\ \A i, j \in Ids : assets[i] = assets[j] /\ assets[i] # None => i = j
    /\ \A i, j \in Ids : media[i] = media[j] /\ media[i] # None => i = j

\* A library row that is stored keeps its asset, and an upload that is answered
\* with success has left its image in the user's library, although three kinds of
\* conflict are taken for success.
OkMeansInLibrary ==
    [][\A c \in Conns :
         requests[c].at # "idle" /\ requests'[c] = Idle("ok") =>
            \E i, a \in Ids :
                /\ media'[i] = [asset |-> a, user |-> requests[c].user]
                /\ assets'[a] = requests[c].image]_vars

\* An asset that lacks its files, or a part of them, has lost them in one way
\* only: its own upload was stored, did not learn of it, and removed them.
FilesAreLostOnlyByLostAnswer ==
    [][\A i \in Ids :
         /\ assets'[i] # None /\ files'[i] # "all"
         /\ ~(assets[i] # None /\ files[i] # "all")
         => \E c \in Conns :
                /\ At(c, "insert")
                /\ requests[c].id = i
                /\ assets[i] # None
                /\ requests'[c] = Idle("error")]_vars

\* The quotas are checked before and not with the INSERT: uploads that run at
\* once may exceed them, by one family for each further upload and no more.
OverrunIsBounded ==
    /\ \A u \in Users : UserUsage(u) <= UserQuota + Cardinality(Conns) - 1
    /\ TotalUsage <= TotalQuota + Cardinality(Conns) - 1

-----------------------------------------------------------------------------
(* Refinement *)

\* The images of user u: those of the assets that the user's rows point to.
ImagesOf(u) == {assets[media[i].asset] : i \in RowsOf(u)}

\* Upload c as its user sees it, with the row it has stored under its id.
Seen(c) ==
    LET r == requests[c]
    IN  IF r.at = "idle" THEN r
        ELSE [at     |-> "served", user |-> r.user, image |-> r.image,
              stored |-> Named(c) /\ media[r.id] # None]

Lib == INSTANCE Library WITH
    library <- [u \in Users |-> ImagesOf(u)],
    uploads <- [c \in Conns |-> Seen(c)]

\* Two tables, two ids and two paths to the library row, conflicts that are taken
\* for success and transactions that are repeated behave as one set of images for
\* each user, to which an upload adds its own once.
ImplementsLibrary == Lib!Spec

-----------------------------------------------------------------------------
(* The inductive invariant                                                     *)

\* What upload c relies on, that it has found out or done in earlier steps.
Fits(c) ==
    LET r == requests[c]
    IN  /\ r.at = "write" => assets[r.id] = None /\ media[r.id] = None
        /\ r.at = "insert" =>
              /\ files[r.id] = "all"
              /\ \/ assets[r.id] = None /\ media[r.id] = None
                 \/ /\ assets[r.id] = r.image
                    /\ media[r.id] = [asset |-> r.id, user |-> r.user]
        /\ r.at \in {"attach", "room", "link"} => assets[r.asset] = r.image
        /\ r.at = "link" =>
              /\ assets[r.id] = None
              /\ media[r.id] \in {None, [asset |-> r.asset, user |-> r.user]}

\* No two uploads have the same.
OwnIds ==
    \A c, d \in Conns :
        Named(c) /\ Named(d) /\ requests[c].id = requests[d].id => c = d

\* Rows point to assets.
RowsHaveAssets == \A i \in Ids : media[i] # None => assets[media[i].asset] # None

\* The uploads that have passed a quota check and have not stored what it was for.
RowsToCome(u) ==
    {c \in Conns : Named(c) /\ requests[c].user = u /\ media[requests[c].id] = None}
AssetsToCome ==
    {c \in Conns : requests[c].at \in {"write", "insert"} /\ assets[requests[c].id] = None}

\* What is stored and what is to come, against the quotas.
OverrunToCome ==
    /\ \A u \in Users :
          UserUsage(u) + Cardinality(RowsToCome(u)) <= UserQuota + Cardinality(Conns) - 1
    /\ TotalUsage + Cardinality(AssetsToCome) <= TotalQuota + Cardinality(Conns) - 1

IInv ==
    /\ TypeOK /\ Deduplicated /\ OwnIds /\ RowsHaveAssets /\ OverrunToCome
    /\ \A c \in Conns : Fits(c)
=============================================================================
