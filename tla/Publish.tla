------------------------------ MODULE Publish ------------------------------
(***************************************************************************)
(* The static publisher (publish/publisher.go): it reads the public posts  *)
(* and pages, renders them into OutDir.tmp, and swaps that directory for   *)
(* OutDir through two renames, with OutDir.old as the backup.              *)
(*                                                                         *)
(* A publish run is a process of its own (cms -mode publish).  Several may *)
(* run at once: they share the three directories.  A run may be killed     *)
(* between any two file operations, and a file operation or a query may    *)
(* fail; together these are the faults, which are counted.                 *)
(*                                                                         *)
(* A directory is None or the set of items rendered into it with the list  *)
(* of files its manifest names, None before the manifest is written.       *)
(* Assets, media, the feed and the sitemap come and go with the items.     *)
(***************************************************************************)
EXTENDS Integers, FiniteSets

CONSTANTS
    Procs,      \* publish runs
    Items,      \* posts and pages
    None,       \* no such directory, no such file
    PostLimit,  \* cap of ListPublicPosts
    MaxFaults   \* bound on kills and failures

Dir == [files: SUBSET Items, manifest: {None} \cup SUBSET Items]

ASSUME PublishAssumption ==
    /\ IsFiniteSet(Items)
    /\ \A s \in SUBSET Items : s # None
    /\ None \notin Dir
    /\ PostLimit \in Nat \ {0}
    /\ MaxFaults \in Nat

VARIABLES
    db,      \* kind and visibility of each item
    out,     \* OutDir
    tmp,     \* OutDir.tmp
    old,     \* OutDir.old
    pc,      \* the next operation of each run
    listed,  \* what a run has read of the database
    capped,  \* runs for which there were more posts than they have read
    steady,  \* items that were public, of one kind, ever since the run began
    ever,    \* items that were public at some time since the run began
    overlap, \* whether runs overlap
    faults   \* kills and failures so far

vars == <<db, out, tmp, old, pc, listed, capped, steady, ever, overlap, faults>>

PC == {"idle", "posts", "pages", "write", "manifest",
       "backup", "swap", "aside", "activate", "rollback", "clean"}

\* Types of the directories and of the publish runs' variables.
TypeOK ==
    /\ db \in [Items -> [kind: {"post", "page"}, public: BOOLEAN]]
    /\ {out, tmp, old} \subseteq Dir \cup {None}
    /\ pc \in [Procs -> PC]
    /\ {listed, steady, ever} \subseteq [Procs -> SUBSET Items]
    /\ capped \subseteq Procs
    /\ overlap \in {"none", "past", "now"}
    /\ faults \in 0..MaxFaults

Empty       == [files |-> {}, manifest |-> None]

\* A directory has its manifest and every file the manifest names.
Complete(d) == d # None /\ d.manifest # None /\ d.manifest \subseteq d.files

Init ==
    /\ db \in [Items -> [kind: {"post"}, public: BOOLEAN]]
    /\ out = None /\ tmp = None /\ old = None
    /\ pc = [p \in Procs |-> "idle"]
    /\ listed = [p \in Procs |-> {}]
    /\ capped = {}
    /\ steady = [p \in Procs |-> {}]
    /\ ever = [p \in Procs |-> {}]
    /\ overlap = "none"
    /\ faults = 0

PublicItems == {i \in Items : db[i].public}

Goto(p, l) == pc' = [pc EXCEPT ![p] = l]

\* Run p begins.  It overlaps if another one is under way; a run that comes after
\* runs that overlapped has them in its past, until it activates its directory.
Begin(p) ==
    /\ pc[p] = "idle"
    /\ Goto(p, "posts")
    /\ steady' = [steady EXCEPT ![p] = PublicItems]
    /\ ever' = [ever EXCEPT ![p] = PublicItems]
    /\ overlap' = IF \E q \in Procs : pc[q] # "idle" THEN "now"
                  ELSE IF overlap = "now" THEN "past" ELSE overlap

\* The run is over; what it knew is gone.
Stop(p) ==
    /\ Goto(p, "idle")
    /\ listed' = [listed EXCEPT ![p] = {}]
    /\ capped' = capped \ {p}
    /\ steady' = [steady EXCEPT ![p] = {}]
    /\ ever' = [ever EXCEPT ![p] = {}]
    /\ UNCHANGED overlap

Fault ==
    /\ faults < MaxFaults
    /\ faults' = faults + 1

-----------------------------------------------------------------------------
\* The admin changes the kind or the visibility of an item (module Posts).
Change(i) ==
    \E row \in [kind: {"post", "page"}, public: BOOLEAN] :
        /\ row # db[i]
        /\ db' = [db EXCEPT ![i] = row]
        /\ steady' = [p \in Procs |-> steady[p] \ {i}]
        /\ ever' = [p \in Procs |->
                      IF pc[p] # "idle" /\ row.public THEN ever[p] \cup {i} ELSE ever[p]]
        /\ UNCHANGED <<out, tmp, old, pc, listed, capped, overlap, faults>>

\* Fault: what a killed run left in tmp stays there.
PrepareOnTop(p) ==
    /\ Begin(p)
    /\ tmp' = IF tmp = None THEN Empty ELSE tmp
    /\ UNCHANGED <<db, out, old, listed, capped, faults>>

\* Fault: the backup is removed before anything is rendered.
PrepareTooMuch(p) ==
    /\ Begin(p)
    /\ tmp' = Empty
    /\ old' = None
    /\ UNCHANGED <<db, out, listed, capped, faults>>

\* Publish begins: RemoveAll and MkdirAll of the temporary directory.
Prepare(p) ==
    /\ Begin(p)
    /\ tmp' = Empty
    /\ UNCHANGED <<db, out, old, listed, capped, faults>>

\* What an interrupted or failing RemoveAll of d may leave: some of the files.
Remains(d) == [files: SUBSET d.files, manifest: {None, d.manifest}]

\* RemoveAll of a directory that is there fails; Publish ignores the error, and
\* MkdirAll is content with the directory that is left.
PrepareOverRemains(p) ==
    /\ Begin(p)
    /\ tmp # None
    /\ Fault
    /\ tmp' \in Remains(tmp)
    /\ UNCHANGED <<db, out, old, listed, capped>>

\* ListPublicPosts: the newest PostLimit of them; which are newest is open.
ListPosts(p) ==
    LET all == {i \in PublicItems : db[i].kind = "post"}
    IN  /\ pc[p] = "posts"
        /\ \E some \in SUBSET all :
             /\ IF Cardinality(all) <= PostLimit THEN some = all
                                                 ELSE Cardinality(some) = PostLimit
             /\ listed' = [listed EXCEPT ![p] = some]
        /\ capped' = IF Cardinality(all) > PostLimit THEN capped \cup {p} ELSE capped
        /\ Goto(p, "pages")
        /\ UNCHANGED <<db, out, tmp, old, steady, ever, overlap, faults>>

\* ListPublicPages: a query of its own.
ListPages(p) ==
    /\ pc[p] = "pages"
    /\ listed' = [listed EXCEPT ![p] = @ \cup {i \in PublicItems : db[i].kind = "page"}]
    /\ Goto(p, "write")
    /\ UNCHANGED <<db, out, tmp, old, capped, steady, ever, overlap, faults>>

\* The files some are written below tmp; missing directories are created.
WithFiles(d, some) ==
    IF d = None THEN [Empty EXCEPT !.files = some] ELSE [d EXCEPT !.files = @ \cup some]

\* renderAll writes its files.
Write(p) ==
    /\ pc[p] = "write"
    /\ tmp' = WithFiles(tmp, listed[p])
    /\ Goto(p, "manifest")
    /\ UNCHANGED <<db, out, old, listed, capped, steady, ever, overlap, faults>>

\* Fault: the manifest lists itself, which is no item.
WriteManifestToo(p) ==
    /\ pc[p] = "manifest"
    /\ tmp # None
    /\ tmp' = [tmp EXCEPT !.manifest = listed[p] \cup {None}]
    /\ Goto(p, "backup")
    /\ UNCHANGED <<db, out, old, listed, capped, steady, ever, overlap, faults>>

\* The manifest is written into tmp, which must still be there.
WriteManifest(p) ==
    /\ pc[p] = "manifest"
    /\ tmp # None
    /\ tmp' = [tmp EXCEPT !.manifest = listed[p]]
    /\ Goto(p, "backup")
    /\ UNCHANGED <<db, out, old, listed, capped, steady, ever, overlap, faults>>

\* Fault: the error is dropped and the swap goes on.
RenderErrorDropped(p) ==
    /\ pc[p] \in {"posts", "pages", "write", "manifest"}
    /\ Fault
    /\ Goto(p, "backup")
    /\ UNCHANGED <<db, out, tmp, old, listed, capped, steady, ever, overlap>>

\* A query, a rendering or the manifest fails: part of the files may have been
\* written, and all of tmp is removed.
RenderFails(p) ==
    /\ pc[p] \in {"posts", "pages", "write", "manifest"}
    /\ IF pc[p] = "manifest" /\ tmp = None THEN UNCHANGED faults ELSE Fault
    /\ tmp' = None
    /\ Stop(p)
    /\ UNCHANGED <<db, out, old>>

\* RemoveAll of the old backup.
DropBackup(p) ==
    /\ pc[p] = "backup"
    /\ old' = None
    /\ Goto(p, "swap")
    /\ UNCHANGED <<db, out, tmp, listed, capped, steady, ever, overlap, faults>>

\* RemoveAll of the old backup fails; the error is ignored.
DropBackupFails(p) ==
    /\ pc[p] = "backup"
    /\ old # None
    /\ Fault
    /\ old' \in Remains(old)
    /\ Goto(p, "swap")
    /\ UNCHANGED <<db, out, tmp, listed, capped, steady, ever, overlap>>

\* os.Rename of a directory: it fails if there is none, and Go refuses a target
\* that is a directory already, be it empty.
CanRename(from, to) == from # None /\ to = None

\* os.Stat of OutDir.  An OutDir that cannot be looked at counts as none.
LookForOut(p) ==
    /\ pc[p] = "swap"
    /\ \/ out # None /\ Goto(p, "aside") /\ UNCHANGED faults
       \/ out # None /\ Goto(p, "activate") /\ Fault
       \/ out = None /\ Goto(p, "activate") /\ UNCHANGED faults
    /\ UNCHANGED <<db, out, tmp, old, listed, capped, steady, ever, overlap>>

\* OutDir becomes the backup.
MoveAside(p) ==
    /\ pc[p] = "aside"
    /\ CanRename(out, old)
    /\ old' = out
    /\ out' = None
    /\ Goto(p, "activate")
    /\ UNCHANGED <<db, tmp, listed, capped, steady, ever, overlap, faults>>

MoveAsideFails(p) ==
    /\ pc[p] = "aside"
    /\ IF CanRename(out, old) THEN Fault ELSE UNCHANGED faults
    /\ tmp' = None
    /\ Stop(p)
    /\ UNCHANGED <<db, out, old>>

\* The rendered directory becomes OutDir.
Activate(p) ==
    /\ pc[p] = "activate"
    /\ CanRename(tmp, out)
    /\ out' = tmp
    /\ tmp' = None
    /\ Goto(p, "clean")
    /\ overlap' = IF overlap = "past" THEN "none" ELSE overlap
    /\ UNCHANGED <<db, old, listed, capped, steady, ever, faults>>

ActivateFails(p) ==
    /\ pc[p] = "activate"
    /\ IF CanRename(tmp, out) THEN Fault ELSE UNCHANGED faults
    /\ Goto(p, "rollback")
    /\ UNCHANGED <<db, out, tmp, old, listed, capped, steady, ever, overlap>>

\* Then the backup, if there is one, is moved back, and tmp is removed.  A backup
\* that is there when it is looked for may be gone, or OutDir may be back, when it
\* is renamed: it is the rename that counts, and its error is ignored.
Rollback(p) ==
    /\ pc[p] = "rollback"
    /\ IF CanRename(old, out) THEN out' = old /\ old' = None ELSE UNCHANGED <<out, old>>
    /\ tmp' = None
    /\ Stop(p)
    /\ UNCHANGED <<db, faults>>

\* Looking for the backup, or moving it back, fails.
RollbackFails(p) ==
    /\ pc[p] = "rollback"
    /\ CanRename(old, out)
    /\ Fault
    /\ tmp' = None
    /\ Stop(p)
    /\ UNCHANGED <<db, out, old>>

\* RemoveAll of the backup, and Publish returns.
Clean(p) ==
    /\ pc[p] = "clean"
    /\ old' = None
    /\ Stop(p)
    /\ UNCHANGED <<db, out, tmp, faults>>

\* RemoveAll of the backup fails, which Publish ignores.
CleanFails(p) ==
    /\ pc[p] = "clean"
    /\ old # None
    /\ Fault
    /\ old' \in Remains(old)
    /\ Stop(p)
    /\ UNCHANGED <<db, out, tmp>>

\* The run is killed.  Files are written, and directories removed, one by one:
\* killed in the middle it leaves some of the files.  (A RemoveAll of tmp that
\* fails after an error leaves what a run killed at that point leaves.)
Killed(p) ==
    /\ pc[p] # "idle"
    /\ Fault
    /\ \/ UNCHANGED <<tmp, old>>
       \/ /\ pc[p] = "write"
          /\ \E some \in SUBSET listed[p] : tmp' = WithFiles(tmp, some)
          /\ UNCHANGED old
       \/ /\ pc[p] \in {"backup", "clean"}
          /\ old # None
          /\ old' \in Remains(old)
          /\ UNCHANGED tmp
    /\ Stop(p)
    /\ UNCHANGED <<db, out>>

Run(p) ==
    \/ Prepare(p) \/ PrepareOverRemains(p)
    \/ ListPosts(p) \/ ListPages(p) \/ Write(p) \/ WriteManifest(p) \/ RenderFails(p)
    \/ DropBackup(p) \/ DropBackupFails(p)
    \/ LookForOut(p) \/ MoveAside(p) \/ MoveAsideFails(p)
    \/ Activate(p) \/ ActivateFails(p) \/ Rollback(p) \/ RollbackFails(p)
    \/ Clean(p) \/ CleanFails(p) \/ Killed(p)

Next ==
    \/ \E p \in Procs : Run(p)
    \/ \E i \in Items : Change(i)

Spec == Init /\ [][Next]_vars

-----------------------------------------------------------------------------
(* Properties *)

\* What is served from OutDir is never a half-written site: a run that is killed
\* or fails leaves its remains in the other two directories only.  It takes three
\* faults to break this (a kill between the renames, then a run that fails to
\* remove the backup and fails to activate moves what is left of it to OutDir), or
\* runs that overlap, after which the next run that is alone puts it right.
OutIsComplete == out # None /\ overlap = "none" /\ faults <= 2 => Complete(out)

\* Once a site was published, no single fault at any point, with any number of
\* runs before and after it, destroys the last complete copy.
Published     == out # None \/ old # None
SiteSurvives  ==
    [][Published /\ faults' <= 1 /\ overlap' = "none" =>
          \E d \in {out', old', tmp'} : Complete(d)]_vars

\* The step in which run p, being alone, makes its directory the served one.
Activates(p) == pc[p] = "activate" /\ pc'[p] = "clean" /\ overlap # "now"

\* A run that is alone activates everything that stayed public, under one kind,
\* while it ran, although posts and pages are read by two queries with edits in
\* between, and whatever earlier runs have left behind; unless there were more
\* posts than it reads at most.
NothingMissing ==
    [][\A p \in Procs :
         Activates(p) /\ p \notin capped => steady[p] \subseteq out'.files]_vars

\* A run that is alone activates nothing that was hidden all the time it ran: it
\* takes two faults, a killed run and a removal that fails, to bring a hidden
\* item back.
NothingHidden ==
    [][\A p \in Procs :
         Activates(p) /\ faults' <= 1 => out'.files \subseteq ever[p]]_vars

-----------------------------------------------------------------------------
(* The inductive invariant of the four properties.                             *)

Running(p) == pc[p] # "idle"

\* Runs that are under way at the same time overlap now.
Alone ==
    overlap # "now" => \A p, q \in Procs : Running(p) /\ Running(q) => p = q

Past == {"write", "manifest", "backup", "swap", "aside", "activate"}

\* some has been read, or there was more than is read at most.
Read(p, some) == some \subseteq listed[p] \/ p \in capped

\* What a run has read, against what was public while it ran.
Knows(p) ==
    /\ ~Running(p) => listed[p] = {} /\ p \notin capped
    /\ Running(p) => /\ steady[p] \subseteq PublicItems
                     /\ PublicItems \subseteq ever[p]
                     /\ listed[p] \subseteq ever[p]
    /\ pc[p] = "pages" => Read(p, {i \in steady[p] : db[i].kind = "post"})
    /\ pc[p] \in Past => Read(p, steady[p])

\* What a run that is alone has rendered.
Rendered(p) ==
    overlap # "now" =>
        /\ pc[p] = "manifest" /\ tmp # None => listed[p] \subseteq tmp.files
        /\ pc[p] \in {"backup", "swap", "aside", "activate"} =>
              Complete(tmp) /\ listed[p] \subseteq tmp.files
        /\ pc[p] \in {"posts", "pages"} \cup Past /\ tmp # None /\ faults <= 1 =>
              tmp.files \subseteq ever[p]

\* Only a fault leaves the temporary directory behind.
LeftOver ==
    tmp # None /\ (\A p \in Procs : pc[p] \in {"idle", "clean"}) => faults >= 1

\* How many faults it takes to lose what was published.
Backups ==
    overlap = "none" =>
        /\ out # None /\ faults <= 2 => Complete(out)
        /\ out = None /\ old # None /\ (\A p \in Procs : pc[p] # "activate") => faults >= 1
        /\ out = None /\ old # None /\ ~Complete(old) =>
              /\ faults >= 2
              /\ (\E p \in Procs : pc[p] = "rollback") => faults >= 3
        /\ \A p \in Procs : pc[p] = "clean" => out # None

IInv ==
    /\ TypeOK /\ Alone /\ LeftOver /\ Backups
    /\ \A p \in Procs : Knows(p) /\ Rendered(p)
=============================================================================
