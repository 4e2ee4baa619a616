------------------------------ MODULE Library ------------------------------
(***************************************************************************)
(* What the media library promises a user, without files, assets, ids,     *)
(* hashes and quotas: an upload adds its image to the user's library at    *)
(* most once and to nobody else's, it is answered with success only when   *)
(* the image is there and refused only when it has not put it there, and   *)
(* what is in a library stays.  Media implements it.                       *)
(***************************************************************************)
CONSTANTS
    Users,   \* who upload
    Images,  \* what they upload
    Conns    \* uploads served at the same time

VARIABLES
    library,  \* which images each user has
    uploads   \* the uploads being served, or their last answers

vars == <<library, uploads>>

Idle(r) == [at |-> "idle", reply |-> r]

Init ==
    /\ library = [u \in Users |-> {}]
    /\ uploads = [c \in Conns |-> Idle("ok")]

\* An upload; stored: whether it has put its image into the library.
Served(u, s, stored) == [at |-> "served", user |-> u, image |-> s, stored |-> stored]

Becomes(c, r) == uploads' = [uploads EXCEPT ![c] = r]

Begin(c, u, s) ==
    /\ uploads[c].at = "idle"
    /\ Becomes(c, Served(u, s, FALSE))
    /\ UNCHANGED library

\* Image s comes into the library of user u.
Adds(u, s) ==
    /\ s \notin library[u]
    /\ library' = [library EXCEPT ![u] = @ \cup {s}]

\* The image is stored, and the upload will learn of it, or not.
Store(c, u, s) ==
    /\ uploads[c] = Served(u, s, FALSE)
    /\ Adds(u, s)
    /\ Becomes(c, Served(u, s, TRUE))

\* The upload ends as it stores the image or finds it stored.  It is answered with
\* success, or with an error that comes after.
Succeed(c, u, s, stored) ==
    /\ uploads[c] = Served(u, s, stored)
    /\ Becomes(c, Idle("ok")) \/ Becomes(c, Idle("error"))
    /\ \/ s \in library[u] /\ UNCHANGED library
       \/ ~stored /\ Adds(u, s)

\* There is no room for the image.
Refuse(c, u, s) ==
    /\ uploads[c] = Served(u, s, FALSE)
    /\ Becomes(c, Idle("refused"))
    /\ UNCHANGED library

\* The upload fails, and the image stays if it is stored.
Fail(c) ==
    /\ uploads[c].at = "served"
    /\ Becomes(c, Idle("error"))
    /\ UNCHANGED library

Next ==
    \E c \in Conns :
       \/ Fail(c)
       \/ \E u \in Users, s \in Images :
             \/ Begin(c, u, s) \/ Store(c, u, s) \/ Refuse(c, u, s)
             \/ \E stored \in BOOLEAN : Succeed(c, u, s, stored)

Spec == Init /\ [][Next]_vars
=============================================================================
