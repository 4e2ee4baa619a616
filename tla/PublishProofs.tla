---------------------------- MODULE PublishProofs ----------------------------
(***************************************************************************)
(* Proofs about Publish, for every number of runs, items and faults and    *)
(* every cap of ListPublicPosts.                                           *)
(***************************************************************************)
EXTENDS Publish, FiniteSetTheorems, TLAPS

\* The temporary directory belongs to a run that is in one of these.
Rendering == {"posts", "pages"} \cup Past

\* The parameters, and None is neither a directory nor a set of items.
LEMMA Parameters ==
    /\ IsFiniteSet(Items) /\ None \notin Dir /\ None \notin SUBSET Items
    /\ PostLimit \in Nat /\ MaxFaults \in Nat
BY PublishAssumption DEF PublishAssumption

-----------------------------------------------------------------------------
(* Directories and runs *)

LEMMA EmptyFits == Empty \in Dir /\ ~Complete(Empty)
<1>1. {} \in SUBSET Items /\ None \in {None} \cup SUBSET Items
  OBVIOUS
<1>2. Empty \in Dir
  BY <1>1 DEF Empty, Dir
<1>3. Empty.manifest = None
  BY DEF Empty
<1> QED BY <1>2, <1>3 DEF Complete

\* What a removal leaves is a directory with some of the files.
LEMMA RemainsFit ==
    ASSUME NEW d \in Dir, NEW e \in Remains(d)
    PROVE  e \in Dir /\ e.files \subseteq d.files
<1>1. d.files \in SUBSET Items
  BY DEF Dir
<1>2. /\ e.files \in SUBSET d.files /\ e.manifest \in {None, d.manifest}
      /\ e = [files |-> e.files, manifest |-> e.manifest]
  BY DEF Remains
<1>3. e.files \in SUBSET Items /\ e.manifest \in {None} \cup SUBSET Items
  BY <1>1, <1>2 DEF Dir
<1> QED BY <1>2, <1>3 DEF Dir

\* What is written below a directory.
LEMMA WithFilesFits ==
    ASSUME NEW d \in Dir \cup {None}, NEW some \in SUBSET Items
    PROVE  /\ WithFiles(d, some) \in Dir
           /\ some \subseteq WithFiles(d, some).files
           /\ d = None => WithFiles(d, some).files = some
           /\ d # None => WithFiles(d, some).files = d.files \cup some
<1>1. CASE d = None
  <2>1. WithFiles(d, some) = [Empty EXCEPT !.files = some]
    BY <1>1 DEF WithFiles
  <2>2. [Empty EXCEPT !.files = some] \in Dir /\ [Empty EXCEPT !.files = some].files = some
    BY EmptyFits DEF Dir
  <2> QED BY <1>1, <2>1, <2>2
<1>2. CASE d # None
  BY <1>2 DEF WithFiles, Dir
<1> QED BY <1>1, <1>2

\* A run that is alone is the only one.
LEMMA AloneIdle ==
    ASSUME IInv, overlap # "now", NEW p \in Procs, Running(p), NEW q \in Procs \ {p}
    PROVE  pc[q] = "idle"
BY DEF IInv, Alone, Running

\* A step of a run that is under way leaves the other runs as they are.
LEMMA RunStep ==
    ASSUME IInv, NEW p \in Procs, Running(p), NEW l \in PC, Goto(p, l), db' = db,
           {out', tmp', old'} \subseteq Dir \cup {None},
           {listed', steady', ever'} \subseteq [Procs -> SUBSET Items], capped' \subseteq Procs,
           \A q \in Procs \ {p} :
              /\ listed'[q] = listed[q] /\ steady'[q] = steady[q] /\ ever'[q] = ever[q]
              /\ q \in capped' <=> q \in capped,
           overlap' = overlap \/ (overlap = "past" /\ overlap' = "none"),
           faults' \in 0..MaxFaults,
           Knows(p)', Rendered(p)', LeftOver', Backups'
    PROVE  IInv'
<1>1. /\ pc' \in [Procs -> PC] /\ pc'[p] = l
      /\ \A q \in Procs \ {p} : pc'[q] = pc[q]
  BY DEF IInv, TypeOK, Goto
<1>2. TypeOK'
  BY <1>1 DEF IInv, TypeOK
<1>3. Alone'
  BY <1>1 DEF IInv, Alone, Running
<1>4. ASSUME NEW q \in Procs \ {p}
      PROVE  Knows(q)'
  BY <1>1 DEF IInv, Knows, Running, Read, PublicItems
<1>5. ASSUME NEW q \in Procs \ {p}
      PROVE  Rendered(q)'
  BY <1>1, AloneIdle DEF Rendered, Past
<1> QED BY <1>2, <1>3, <1>4, <1>5 DEF IInv

\* A run that ends.
LEMMA StopStep ==
    ASSUME IInv, NEW p \in Procs, Running(p), Stop(p), db' = db,
           {out', tmp', old'} \subseteq Dir \cup {None},
           faults' \in 0..MaxFaults, LeftOver', Backups'
    PROVE  IInv'
<1>1. /\ {listed', steady', ever'} \subseteq [Procs -> SUBSET Items] /\ capped' \subseteq Procs
      /\ \A q \in Procs \ {p} :
            /\ listed'[q] = listed[q] /\ steady'[q] = steady[q] /\ ever'[q] = ever[q]
            /\ q \in capped' <=> q \in capped
  BY DEF Stop, IInv, TypeOK
<1>2. pc'[p] = "idle" /\ Goto(p, "idle")
  BY DEF Stop, Goto, IInv, TypeOK
<1>3. Knows(p)' /\ Rendered(p)'
  BY <1>2 DEF Stop, IInv, TypeOK, Knows, Rendered, Running, Past
<1> QED BY <1>1, <1>2, <1>3, RunStep DEF Stop, PC

\* The temporary directory is not left behind by a run that goes on with it, removes
\* it or has met a fault.
LEMMA LeftOverStays ==
    ASSUME IInv, NEW p \in Procs, pc' \in [Procs -> PC],
           \/ tmp' = None
           \/ pc'[p] \in Rendering
           \/ faults' \in Nat \ {0}
    PROVE  LeftOver'
BY DEF LeftOver, Rendering, Past

LEMMA GotoFits ==
    ASSUME IInv, NEW p \in Procs, NEW l \in PC, Goto(p, l)
    PROVE  /\ pc' \in [Procs -> PC] /\ pc'[p] = l
           /\ \A q \in Procs \ {p} : pc'[q] = pc[q]
BY DEF IInv, TypeOK, Goto

\* A fault is counted.
LEMMA FaultFits ==
    ASSUME IInv, Fault
    PROVE  faults' \in 0..MaxFaults /\ faults' = faults + 1 /\ faults' \in Nat \ {0}
BY Parameters DEF IInv, TypeOK, Fault

\* The two published directories are left alone.
LEMMA BackupsStay ==
    ASSUME IInv, NEW p \in Procs, NEW l \in PC, Goto(p, l), UNCHANGED <<out, old, overlap>>,
           faults' \in {faults, faults + 1}, faults' \in 0..MaxFaults,
           pc[p] # "activate" \/ faults' # faults,
           l \notin {"activate", "rollback", "clean"}
    PROVE  Backups'
<1>1. /\ pc'[p] = l
      /\ \A q \in Procs \ {p} : pc'[q] = pc[q]
  BY GotoFits
<1>2. faults \in Nat /\ faults' >= faults
  BY DEF IInv, TypeOK
<1> SUFFICES ASSUME overlap' = "none" PROVE Backups'
  BY DEF Backups
<1>3. out' # None /\ faults' <= 2 => Complete(out')
  BY <1>2 DEF IInv, Backups
<1>4. out' = None /\ old' # None /\ (\A q \in Procs : pc'[q] # "activate") => faults' >= 1
  BY <1>1, <1>2 DEF IInv, Backups
<1>5. out' = None /\ old' # None /\ ~Complete(old') =>
         faults' >= 2 /\ ((\E q \in Procs : pc'[q] = "rollback") => faults' >= 3)
  BY <1>1, <1>2 DEF IInv, Backups
<1>6. \A q \in Procs : pc'[q] = "clean" => out' # None
  BY <1>1 DEF IInv, Backups
<1> QED BY <1>3, <1>4, <1>5, <1>6 DEF Backups, Complete

-----------------------------------------------------------------------------
(* The actions *)

LEMMA InitFits ==
    ASSUME Init
    PROVE  IInv
<1>1. TypeOK
  BY Parameters DEF Init, TypeOK, PC
<1>2. \A p \in Procs : Knows(p) /\ Rendered(p)
  BY DEF Init, Knows, Rendered, Running, Past
<1> QED BY <1>1, <1>2 DEF Init, IInv, Alone, LeftOver, Backups, Running

LEMMA ChangeFits ==
    ASSUME IInv, NEW i \in Items, Change(i)
    PROVE  IInv'
<1>1. PICK row \in [kind: {"post", "page"}, public: BOOLEAN] :
         /\ db' = [db EXCEPT ![i] = row]
         /\ steady' = [p \in Procs |-> steady[p] \ {i}]
         /\ ever' = [p \in Procs |->
                        IF pc[p] # "idle" /\ row.public THEN ever[p] \cup {i} ELSE ever[p]]
         /\ UNCHANGED <<out, tmp, old, pc, listed, capped, overlap, faults>>
  BY DEF Change
<1>2. /\ db' \in [Items -> [kind: {"post", "page"}, public: BOOLEAN]]
      /\ db'[i] = row /\ \A j \in Items \ {i} : db'[j] = db[j]
  BY <1>1 DEF IInv, TypeOK
<1>3. /\ steady' \in [Procs -> SUBSET Items] /\ ever' \in [Procs -> SUBSET Items]
      /\ \A p \in Procs : steady'[p] = steady[p] \ {i} /\ ever[p] \subseteq ever'[p]
      /\ \A p \in Procs : pc[p] # "idle" /\ row.public => i \in ever'[p]
  BY <1>1 DEF IInv, TypeOK
<1>4. TypeOK'
  BY <1>1, <1>2, <1>3 DEF IInv, TypeOK
<1>5. ASSUME NEW p \in Procs
      PROVE  Knows(p)'
  <2>1. steady[p] \subseteq Items /\ listed[p] \subseteq Items
    BY DEF IInv, TypeOK
  <2>2. Running(p)' => /\ steady'[p] \subseteq PublicItems'
                       /\ PublicItems' \subseteq ever'[p]
                       /\ listed'[p] \subseteq ever'[p]
    BY <1>1, <1>2, <1>3, <2>1 DEF IInv, Knows, Running, PublicItems
  <2>3. {j \in steady'[p] : db'[j].kind = "post"} \subseteq {j \in steady[p] : db[j].kind = "post"}
    BY <1>2, <1>3, <2>1
  <2> QED BY <1>1, <1>3, <2>2, <2>3 DEF IInv, Knows, Running, Read
<1>6. \A p \in Procs : Rendered(p)'
  BY <1>1, <1>3 DEF IInv, Rendered, Complete
<1>7. Alone' /\ LeftOver' /\ Backups'
  BY <1>1 DEF IInv, Alone, Running, LeftOver, Backups, Complete
<1> QED BY <1>4, <1>5, <1>6, <1>7 DEF IInv

\* A run begins with an emptied temporary directory, or with what a removal that
\* failed has left of it.
LEMMA BeginFits ==
    ASSUME IInv, NEW p \in Procs, Begin(p), UNCHANGED <<db, out, old, listed, capped>>,
           tmp' \in Dir,
           \/ tmp' = Empty /\ faults' = faults
           \/ tmp # None /\ Fault
    PROVE  IInv'
<1>1. /\ pc' \in [Procs -> PC] /\ pc[p] = "idle" /\ pc'[p] = "posts"
      /\ \A q \in Procs \ {p} : pc'[q] = pc[q]
  BY DEF Begin, Goto, IInv, TypeOK, PC
<1>2. /\ steady' \in [Procs -> SUBSET Items] /\ ever' \in [Procs -> SUBSET Items]
      /\ steady'[p] = PublicItems /\ ever'[p] = PublicItems
      /\ \A q \in Procs \ {p} : steady'[q] = steady[q] /\ ever'[q] = ever[q]
  BY DEF Begin, IInv, TypeOK, PublicItems
<1>3. faults' \in 0..MaxFaults /\ faults \in Nat /\ faults' >= faults
  BY FaultFits DEF IInv, TypeOK
<1>4. overlap' = IF \E q \in Procs : pc[q] # "idle" THEN "now"
                 ELSE IF overlap = "now" THEN "past" ELSE overlap
  BY DEF Begin
<1>5. TypeOK'
  BY <1>1, <1>2, <1>3, <1>4 DEF IInv, TypeOK
<1>6. overlap' # "now" => \A q \in Procs : pc[q] = "idle"
  BY <1>4
<1>7. Alone'
  BY <1>1, <1>6 DEF Alone, Running
<1>8. listed[p] = {} /\ p \notin capped
  BY <1>1 DEF IInv, Knows, Running
<1>9. \A q \in Procs : Knows(q)'
  BY <1>1, <1>2, <1>8 DEF IInv, Knows, Running, Read, PublicItems, Past
<1>10. ASSUME NEW q \in Procs
       PROVE  Rendered(q)'
  <2> SUFFICES ASSUME overlap' # "now" PROVE Rendered(q)'
    BY DEF Rendered
  <2>1. CASE q # p
    BY <1>1, <1>6, <2>1 DEF Rendered, Past
  <2>2. CASE q = p
    <3>1. tmp # None => faults >= 1
      BY <1>6 DEF IInv, LeftOver
    <3>2. faults' <= 1 => tmp' = Empty
      BY <1>3, <3>1, FaultFits
    <3> QED BY <1>1, <2>2, <3>2 DEF Rendered, Past, Empty
  <2> QED BY <2>1, <2>2
<1>11. LeftOver'
  BY <1>1 DEF LeftOver
<1>12. Backups'
  <2> SUFFICES ASSUME overlap' = "none" PROVE Backups'
    BY DEF Backups
  <2>1. overlap = "none" /\ \A q \in Procs : pc[q] = "idle" /\ pc'[q] \in {"idle", "posts"}
    BY <1>1, <1>4, <1>6
  <2> QED BY <1>3, <2>1 DEF IInv, Backups, Complete
<1> QED BY <1>5, <1>7, <1>9, <1>10, <1>11, <1>12 DEF IInv

LEMMA PrepareFits ==
    ASSUME IInv, NEW p \in Procs, Prepare(p) \/ PrepareOverRemains(p)
    PROVE  IInv'
<1>1. CASE Prepare(p)
  BY <1>1, EmptyFits, BeginFits DEF Prepare
<1>2. CASE PrepareOverRemains(p)
  <2>1. tmp \in Dir /\ tmp' \in Dir
    BY <1>2, RemainsFit DEF PrepareOverRemains, IInv, TypeOK
  <2> QED BY <1>2, <2>1, BeginFits DEF PrepareOverRemains
<1> QED BY <1>1, <1>2

\* What is left alone by a step that reads or renders.
LEMMA ReadStep ==
    ASSUME IInv, NEW p \in Procs, Running(p), NEW l \in PC, l \in Rendering, Goto(p, l),
           l # "activate", pc[p] # "activate",
           UNCHANGED <<db, out, old, steady, ever, overlap, faults>>,
           tmp' \in Dir \cup {None}, listed' \in [Procs -> SUBSET Items], capped' \subseteq Procs,
           \A q \in Procs \ {p} : listed'[q] = listed[q] /\ (q \in capped' <=> q \in capped),
           Knows(p)', Rendered(p)'
    PROVE  IInv'
<1>1. LeftOver'
  BY GotoFits, LeftOverStays
<1>2. faults' \in {faults, faults + 1} /\ faults' \in 0..MaxFaults
  BY DEF IInv, TypeOK
<1>3. Backups'
  BY <1>2, BackupsStay DEF Rendering, Past
<1>4. /\ {out', tmp', old'} \subseteq Dir \cup {None}
      /\ {listed', steady', ever'} \subseteq [Procs -> SUBSET Items] /\ capped' \subseteq Procs
  BY DEF IInv, TypeOK
<1> QED BY <1>1, <1>2, <1>3, <1>4, RunStep

LEMMA ListPostsFits ==
    ASSUME IInv, NEW p \in Procs, ListPosts(p)
    PROVE  IInv'
<1> DEFINE all == {i \in PublicItems : db[i].kind = "post"}
<1>1. PICK some \in SUBSET all :
         /\ IF Cardinality(all) <= PostLimit THEN some = all ELSE Cardinality(some) = PostLimit
         /\ listed' = [listed EXCEPT ![p] = some]
         /\ capped' = IF Cardinality(all) > PostLimit THEN capped \cup {p} ELSE capped
  BY DEF ListPosts
<1>2. pc[p] = "posts" /\ Running(p) /\ Goto(p, "pages") /\ pc'[p] = "pages"
      /\ pc' \in [Procs -> PC]
  BY DEF ListPosts, Goto, Running, IInv, TypeOK, PC
<1>3. some \in SUBSET Items /\ some \subseteq PublicItems
  BY DEF PublicItems
<1>4. /\ listed' \in [Procs -> SUBSET Items] /\ listed'[p] = some
      /\ capped' \subseteq Procs
      /\ \A q \in Procs \ {p} : listed'[q] = listed[q] /\ (q \in capped' <=> q \in capped)
  BY <1>1, <1>3 DEF IInv, TypeOK
<1>5. {i \in steady[p] : db[i].kind = "post"} \subseteq all
  BY <1>2 DEF IInv, Knows
<1>6. {i \in steady[p] : db[i].kind = "post"} \subseteq some \/ p \in capped'
  <2>1. all \subseteq Items
    BY DEF PublicItems
  <2> HIDE DEF all
  <2>2. Cardinality(all) \in Nat
    BY <2>1, Parameters, FS_Subset, FS_CardinalityType
  <2> QED BY <1>1, <1>5, <2>2, Parameters
<1> HIDE DEF all
<1>7. Knows(p)'
  BY <1>2, <1>3, <1>4, <1>6 DEF ListPosts, IInv, Knows, Running, PublicItems, Past, Read
<1>8. Rendered(p)'
  BY <1>2 DEF ListPosts, IInv, Rendered, Past
<1>9. tmp' \in Dir \cup {None}
  BY DEF ListPosts, IInv, TypeOK
<1>10. "pages" \in PC /\ "pages" \in Rendering
  BY DEF PC, Rendering
<1> QED BY <1>2, <1>4, <1>7, <1>8, <1>9, <1>10, ReadStep DEF ListPosts

LEMMA ListPagesFits ==
    ASSUME IInv, NEW p \in Procs, ListPages(p)
    PROVE  IInv'
<1> DEFINE pages == {i \in PublicItems : db[i].kind = "page"}
<1>1. pc[p] = "pages" /\ Running(p) /\ Goto(p, "write") /\ pc'[p] = "write"
      /\ pc' \in [Procs -> PC]
  BY DEF ListPages, Goto, Running, IInv, TypeOK, PC
<1>2. /\ listed' \in [Procs -> SUBSET Items] /\ listed'[p] = listed[p] \cup pages
      /\ \A q \in Procs \ {p} : listed'[q] = listed[q]
  BY DEF ListPages, IInv, TypeOK, PublicItems
<1>3. /\ steady[p] \subseteq PublicItems
      /\ Read(p, {i \in steady[p] : db[i].kind = "post"})
  BY <1>1 DEF IInv, Knows
<1>4. \A i \in PublicItems : db[i].kind \in {"post", "page"}
  BY DEF IInv, TypeOK, PublicItems
<1>5. capped' = capped /\ capped' \subseteq Procs
  BY DEF ListPages, IInv, TypeOK
<1>10. Read(p, steady[p])'
  BY <1>2, <1>3, <1>4, <1>5 DEF ListPages, Read
<1>6. Knows(p)'
  BY <1>1, <1>2, <1>10 DEF ListPages, IInv, Knows, Running, PublicItems, Past
<1>7. Rendered(p)'
  BY <1>1 DEF ListPages, IInv, Rendered, Past
<1>8. tmp' \in Dir \cup {None}
  BY DEF ListPages, IInv, TypeOK
<1>9. "write" \in PC /\ "write" \in Rendering
  BY DEF PC, Rendering, Past
<1> QED BY <1>1, <1>2, <1>5, <1>6, <1>7, <1>8, <1>9, ReadStep DEF ListPages

LEMMA WriteFits ==
    ASSUME IInv, NEW p \in Procs, Write(p)
    PROVE  IInv'
<1>1. pc[p] = "write" /\ Running(p) /\ Goto(p, "manifest") /\ pc'[p] = "manifest"
      /\ pc' \in [Procs -> PC]
  BY DEF Write, Goto, Running, IInv, TypeOK, PC
<1>2. listed[p] \in SUBSET Items /\ tmp \in Dir \cup {None}
  BY DEF IInv, TypeOK
<1>3. /\ tmp' \in Dir /\ listed[p] \subseteq tmp'.files
      /\ tmp = None => tmp'.files = listed[p]
      /\ tmp # None => tmp'.files = tmp.files \cup listed[p]
  BY <1>2, WithFilesFits DEF Write
<1>4. Knows(p)'
  BY <1>1 DEF Write, IInv, Knows, Running, PublicItems, Past, Read
<1>5. Rendered(p)'
  BY <1>1, <1>3 DEF Write, IInv, Rendered, Past, Knows, Running
<1>6. "manifest" \in PC /\ "manifest" \in Rendering
  BY DEF PC, Rendering, Past
<1>7. listed' \in [Procs -> SUBSET Items] /\ capped' = capped /\ capped' \subseteq Procs
  BY DEF Write, IInv, TypeOK
<1> QED BY <1>1, <1>3, <1>4, <1>5, <1>6, <1>7, ReadStep DEF Write

LEMMA WriteManifestFits ==
    ASSUME IInv, NEW p \in Procs, WriteManifest(p)
    PROVE  IInv'
<1>1. pc[p] = "manifest" /\ Running(p) /\ Goto(p, "backup") /\ pc'[p] = "backup"
      /\ pc' \in [Procs -> PC]
  BY DEF WriteManifest, Goto, Running, IInv, TypeOK, PC
<1>2. listed[p] \in SUBSET Items /\ tmp \in Dir /\ tmp # None
  BY DEF WriteManifest, IInv, TypeOK
<1>3. tmp' \in Dir /\ tmp'.files = tmp.files /\ tmp'.manifest = listed[p]
  BY <1>2 DEF WriteManifest, Dir
<1>4. tmp' # None /\ tmp'.manifest # None
  BY <1>2, <1>3, Parameters
<1>5. Knows(p)'
  BY <1>1 DEF WriteManifest, IInv, Knows, Running, PublicItems, Past, Read
<1>6. Rendered(p)'
  BY <1>1, <1>2, <1>3, <1>4 DEF WriteManifest, IInv, Rendered, Past, Complete
<1>7. "backup" \in PC /\ "backup" \in Rendering
  BY DEF PC, Rendering, Past
<1>8. listed' \in [Procs -> SUBSET Items] /\ capped' = capped /\ capped' \subseteq Procs
  BY DEF WriteManifest, IInv, TypeOK
<1> QED BY <1>1, <1>3, <1>5, <1>6, <1>7, <1>8, ReadStep DEF WriteManifest

LEMMA RenderFailsFits ==
    ASSUME IInv, NEW p \in Procs, RenderFails(p)
    PROVE  IInv'
<1>1. Running(p) /\ Goto(p, "idle") /\ pc' \in [Procs -> PC]
      /\ pc[p] # "activate" /\ "idle" \in PC
  BY DEF RenderFails, Stop, Goto, Running, IInv, TypeOK, PC
<1>2. faults' \in {faults, faults + 1} /\ faults' \in 0..MaxFaults
  BY FaultFits DEF RenderFails, IInv, TypeOK
<1>3. LeftOver'
  BY <1>1, LeftOverStays DEF RenderFails
<1>4. Backups'
  BY <1>1, <1>2, BackupsStay DEF RenderFails, Stop
<1>5. {out', tmp', old'} \subseteq Dir \cup {None}
  BY DEF RenderFails, IInv, TypeOK
<1> QED BY <1>1, <1>2, <1>3, <1>4, <1>5, StopStep DEF RenderFails

\* Removing the old backup, or failing to.
LEMMA DropBackupFits ==
    ASSUME IInv, NEW p \in Procs, DropBackup(p) \/ DropBackupFails(p)
    PROVE  IInv'
<1>1. pc[p] = "backup" /\ Running(p) /\ Goto(p, "swap") /\ pc'[p] = "swap"
      /\ pc' \in [Procs -> PC] /\ "swap" \in PC
      /\ UNCHANGED <<db, out, tmp, listed, capped, steady, ever, overlap>>
      /\ \A q \in Procs \ {p} : pc'[q] = pc[q]
  BY DEF DropBackup, DropBackupFails, Goto, Running, IInv, TypeOK, PC
<1>2. /\ faults' \in 0..MaxFaults /\ faults \in 0..MaxFaults
      /\ \/ old' = None /\ faults' = faults
         \/ old # None /\ old' \in Dir /\ faults' = faults + 1
  BY FaultFits, RemainsFit DEF DropBackup, DropBackupFails, IInv, TypeOK
<1>3. Knows(p)'
  BY <1>1 DEF IInv, Knows, Running, PublicItems, Past, Read
<1>4. Rendered(p)'
  BY <1>1, <1>2 DEF IInv, Rendered, Past, Complete
<1>5. LeftOver'
  BY <1>1, LeftOverStays DEF Rendering, Past
<1>6. Backups'
  <2> SUFFICES ASSUME overlap' = "none" PROVE Backups'
    BY DEF Backups
  <2>1. \A q \in Procs : pc[q] # "activate" /\ pc'[q] \notin {"rollback", "clean"}
    BY <1>1, AloneIdle
  <2>2. out' # None /\ faults' <= 2 => Complete(out')
    BY <1>1, <1>2 DEF IInv, Backups
  <2>3. out' = None /\ old' # None => faults' >= 2
    BY <1>1, <1>2, <2>1 DEF IInv, Backups
  <2> QED BY <1>2, <2>1, <2>2, <2>3 DEF Backups, Complete
<1>7. /\ {out', tmp', old'} \subseteq Dir \cup {None}
      /\ {listed', steady', ever'} \subseteq [Procs -> SUBSET Items] /\ capped' \subseteq Procs
  BY <1>1, <1>2 DEF IInv, TypeOK
<1> QED BY <1>1, <1>2, <1>3, <1>4, <1>5, <1>6, <1>7, RunStep

\* OutDir is there or not, or cannot be looked at.
LEMMA LookForOutFits ==
    ASSUME IInv, NEW p \in Procs, LookForOut(p)
    PROVE  IInv'
<1>1. /\ pc[p] = "swap" /\ Running(p)
      /\ UNCHANGED <<db, out, tmp, old, listed, capped, steady, ever, overlap>>
  BY DEF LookForOut, Running
<1>2. PICK l \in {"aside", "activate"} : Goto(p, l) /\ (faults' = faults \/ Fault)
  BY DEF LookForOut
<1>3. /\ l \in PC /\ l \in Rendering /\ pc' \in [Procs -> PC] /\ pc'[p] = l
      /\ \A q \in Procs \ {p} : pc'[q] = pc[q]
  BY <1>2, GotoFits DEF PC, Rendering, Past
<1>4. faults' \in 0..MaxFaults /\ faults \in Nat /\ faults' >= faults
  BY <1>2, FaultFits DEF IInv, TypeOK
<1>5. Knows(p)'
  BY <1>1, <1>3 DEF IInv, Knows, Running, PublicItems, Past, Read
<1>6. Rendered(p)'
  BY <1>1, <1>3, <1>4 DEF IInv, TypeOK, Rendered, Past, Complete
<1>7. LeftOver'
  BY <1>3, LeftOverStays
<1>8. Backups'
  <2> SUFFICES ASSUME overlap' = "none" PROVE Backups'
    BY DEF Backups
  <2>1. \A q \in Procs : pc'[q] \notin {"rollback", "clean"}
    BY <1>1, <1>3, AloneIdle
  <2>2. out' # None /\ faults' <= 2 => Complete(out')
    BY <1>1, <1>4 DEF IInv, Backups
  <2>3. out' = None /\ old' # None =>
           faults' >= 1 /\ (~Complete(old') => faults' >= 2)
    <3>1. \A q \in Procs : pc[q] # "activate"
      BY <1>1, AloneIdle
    <3> QED BY <1>1, <1>4, <3>1 DEF IInv, Backups
  <2> QED BY <2>1, <2>2, <2>3 DEF Backups, Complete
<1>9. /\ {out', tmp', old'} \subseteq Dir \cup {None}
      /\ {listed', steady', ever'} \subseteq [Procs -> SUBSET Items] /\ capped' \subseteq Procs
  BY <1>1 DEF IInv, TypeOK
<1> QED BY <1>1, <1>2, <1>3, <1>4, <1>5, <1>6, <1>7, <1>8, <1>9, RunStep

LEMMA MoveAsideFits ==
    ASSUME IInv, NEW p \in Procs, MoveAside(p)
    PROVE  IInv'
<1>1. pc[p] = "aside" /\ Running(p) /\ Goto(p, "activate") /\ pc'[p] = "activate"
      /\ pc' \in [Procs -> PC] /\ "activate" \in PC
      /\ UNCHANGED <<db, tmp, listed, capped, steady, ever, overlap, faults>>
      /\ \A q \in Procs \ {p} : pc'[q] = pc[q]
  BY DEF MoveAside, Goto, Running, IInv, TypeOK, PC
<1>2. out # None /\ out' = None /\ old' = out
  BY DEF MoveAside, CanRename
<1>3. Knows(p)'
  BY <1>1 DEF IInv, Knows, Running, PublicItems, Past, Read
<1>4. Rendered(p)'
  BY <1>1 DEF IInv, Rendered, Past, Complete
<1>5. LeftOver'
  BY <1>1, LeftOverStays DEF Rendering, Past
<1>6. Backups'
  <2> SUFFICES ASSUME overlap' = "none" PROVE Backups'
    BY DEF Backups
  <2>1. \A q \in Procs : pc'[q] \notin {"rollback", "clean"}
    BY <1>1, AloneIdle
  <2>2. faults \in Nat
    BY DEF IInv, TypeOK
  <2>3. out' = None /\ old' # None /\ ~Complete(old') => faults' >= 2
    BY <1>1, <1>2, <2>2 DEF IInv, Backups
  <2> QED BY <1>1, <1>2, <2>1, <2>3 DEF Backups, Complete
<1>7. /\ {out', tmp', old'} \subseteq Dir \cup {None} /\ faults' \in 0..MaxFaults
      /\ {listed', steady', ever'} \subseteq [Procs -> SUBSET Items] /\ capped' \subseteq Procs
  BY <1>1, <1>2 DEF IInv, TypeOK
<1> QED BY <1>1, <1>3, <1>4, <1>5, <1>6, <1>7, RunStep

LEMMA MoveAsideFailsFits ==
    ASSUME IInv, NEW p \in Procs, MoveAsideFails(p)
    PROVE  IInv'
<1>1. Running(p) /\ Goto(p, "idle") /\ pc' \in [Procs -> PC]
      /\ pc[p] # "activate" /\ "idle" \in PC
  BY DEF MoveAsideFails, Stop, Goto, Running, IInv, TypeOK, PC
<1>2. faults' \in {faults, faults + 1} /\ faults' \in 0..MaxFaults
  BY FaultFits DEF MoveAsideFails, IInv, TypeOK
<1>3. LeftOver'
  BY <1>1, LeftOverStays DEF MoveAsideFails
<1>4. Backups'
  BY <1>1, <1>2, BackupsStay DEF MoveAsideFails, Stop
<1>5. {out', tmp', old'} \subseteq Dir \cup {None}
  BY DEF MoveAsideFails, IInv, TypeOK
<1> QED BY <1>1, <1>2, <1>3, <1>4, <1>5, StopStep DEF MoveAsideFails

LEMMA ActivateFits ==
    ASSUME IInv, NEW p \in Procs, Activate(p)
    PROVE  IInv'
<1>1. pc[p] = "activate" /\ Running(p) /\ Goto(p, "clean") /\ pc'[p] = "clean"
      /\ pc' \in [Procs -> PC] /\ "clean" \in PC
      /\ UNCHANGED <<db, old, listed, capped, steady, ever, faults>>
      /\ tmp # None /\ out' = tmp /\ tmp' = None
      /\ overlap' = (IF overlap = "past" THEN "none" ELSE overlap)
      /\ \A q \in Procs \ {p} : pc'[q] = pc[q]
  BY DEF Activate, CanRename, Goto, Running, IInv, TypeOK, PC
<1>2. Knows(p)'
  BY <1>1 DEF IInv, Knows, Running, PublicItems, Past, Read
<1>3. Rendered(p)'
  BY <1>1 DEF Rendered, Past
<1>4. LeftOver'
  BY <1>1, LeftOverStays
<1>5. Backups'
  <2> SUFFICES ASSUME overlap' = "none" PROVE Backups'
    BY DEF Backups
  <2>1. overlap # "now" /\ Complete(tmp)
    BY <1>1 DEF IInv, Rendered
  <2> QED BY <1>1, <2>1 DEF Backups, Complete
<1>6. overlap' = overlap \/ (overlap = "past" /\ overlap' = "none")
  BY <1>1
<1>7. /\ {out', tmp', old'} \subseteq Dir \cup {None} /\ faults' \in 0..MaxFaults
      /\ {listed', steady', ever'} \subseteq [Procs -> SUBSET Items] /\ capped' \subseteq Procs
  BY <1>1 DEF IInv, TypeOK
<1> QED BY <1>1, <1>2, <1>3, <1>4, <1>5, <1>6, <1>7, RunStep

\* A run fails to activate its directory, which takes a fault if it is alone.
LEMMA ActivateFailsFits ==
    ASSUME IInv, NEW p \in Procs, ActivateFails(p)
    PROVE  IInv'
<1>1. pc[p] = "activate" /\ Running(p) /\ Goto(p, "rollback") /\ pc'[p] = "rollback"
      /\ pc' \in [Procs -> PC] /\ "rollback" \in PC
      /\ UNCHANGED <<db, out, tmp, old, listed, capped, steady, ever, overlap>>
      /\ \A q \in Procs \ {p} : pc'[q] = pc[q]
  BY DEF ActivateFails, Goto, Running, IInv, TypeOK, PC
<1>2. /\ faults' \in 0..MaxFaults /\ faults \in Nat
      /\ IF tmp # None /\ out = None THEN faults' = faults + 1 ELSE faults' = faults
  BY FaultFits DEF ActivateFails, CanRename, IInv, TypeOK
<1>3. Knows(p)'
  BY <1>1 DEF IInv, Knows, Running, PublicItems, Past
<1>4. Rendered(p)'
  BY <1>1 DEF Rendered, Past
<1>5. LeftOver'
  BY <1>1 DEF LeftOver
<1>6. Backups'
  <2> SUFFICES ASSUME overlap' = "none" PROVE Backups'
    BY DEF Backups
  <2>1. overlap = "none" /\ tmp # None
    BY <1>1 DEF IInv, Rendered, Complete
  <2>2. \A q \in Procs : pc'[q] # "clean"
    BY <1>1, <2>1, AloneIdle
  <2>3. out' # None /\ faults' <= 2 => Complete(out')
    BY <1>1, <1>2, <2>1 DEF IInv, Backups
  <2>4. out' = None /\ old' # None =>
           faults' >= 1 /\ (~Complete(old') => faults' >= 3)
    BY <1>1, <1>2, <2>1 DEF IInv, Backups
  <2> QED BY <1>2, <2>2, <2>3, <2>4 DEF Backups, Complete
<1>7. /\ {out', tmp', old'} \subseteq Dir \cup {None}
      /\ {listed', steady', ever'} \subseteq [Procs -> SUBSET Items] /\ capped' \subseteq Procs
  BY <1>1 DEF IInv, TypeOK
<1> QED BY <1>1, <1>2, <1>3, <1>4, <1>5, <1>6, <1>7, RunStep

\* It moves the backup back.
LEMMA RollbackFits ==
    ASSUME IInv, NEW p \in Procs, Rollback(p)
    PROVE  IInv'
<1>1. pc[p] = "rollback" /\ Running(p) /\ Goto(p, "idle") /\ pc'[p] = "idle"
      /\ pc' \in [Procs -> PC] /\ "idle" \in PC
      /\ UNCHANGED <<db, overlap, faults>> /\ tmp' = None
      /\ \A q \in Procs \ {p} : pc'[q] = pc[q]
  BY DEF Rollback, Stop, Goto, Running, IInv, TypeOK, PC
<1>2. faults' \in 0..MaxFaults /\ faults \in Nat
  BY <1>1 DEF IInv, TypeOK
<1>3. \/ old # None /\ out = None /\ out' = old /\ old' = None
      \/ ~(old # None /\ out = None) /\ out' = out /\ old' = old
  BY DEF Rollback, CanRename
<1>4. LeftOver'
  BY <1>1, LeftOverStays
<1>5. Backups'
  <2> SUFFICES ASSUME overlap' = "none" PROVE Backups'
    BY DEF Backups
  <2>1. \A q \in Procs : pc'[q] # "clean"
    BY <1>1, AloneIdle
  <2>2. out' # None /\ faults' <= 2 => Complete(out')
    BY <1>1, <1>2, <1>3 DEF IInv, Backups
  <2>3. out' = None => old' = None
    BY <1>3
  <2> QED BY <2>1, <2>2, <2>3 DEF Backups, Complete
<1>6. {out', tmp', old'} \subseteq Dir \cup {None}
  BY <1>1, <1>3 DEF IInv, TypeOK
<1> QED BY <1>1, <1>2, <1>4, <1>5, <1>6, StopStep DEF Rollback

\* Or fails to.
LEMMA RollbackFailsFits ==
    ASSUME IInv, NEW p \in Procs, RollbackFails(p)
    PROVE  IInv'
<1>1. pc[p] = "rollback" /\ Running(p) /\ Goto(p, "idle") /\ pc' \in [Procs -> PC]
      /\ "idle" \in PC /\ UNCHANGED <<db, out, old, overlap>> /\ tmp' = None
  BY DEF RollbackFails, Stop, Goto, Running, IInv, TypeOK, PC
<1>2. faults' \in {faults, faults + 1} /\ faults' \in 0..MaxFaults
  BY FaultFits DEF RollbackFails
<1>3. LeftOver'
  BY <1>1, LeftOverStays
<1>4. Backups'
  BY <1>1, <1>2, BackupsStay
<1>5. {out', tmp', old'} \subseteq Dir \cup {None}
  BY <1>1 DEF IInv, TypeOK
<1> QED BY <1>1, <1>2, <1>3, <1>4, <1>5, StopStep DEF RollbackFails

\* Removing the backup at the end, or failing to.
LEMMA CleanFits ==
    ASSUME IInv, NEW p \in Procs, Clean(p) \/ CleanFails(p)
    PROVE  IInv'
<1>1. pc[p] = "clean" /\ Running(p) /\ Stop(p) /\ Goto(p, "idle") /\ pc'[p] = "idle"
      /\ pc' \in [Procs -> PC] /\ "idle" \in PC
      /\ UNCHANGED <<db, out, tmp, overlap>>
      /\ \A q \in Procs \ {p} : pc'[q] = pc[q]
  BY DEF Clean, CleanFails, Stop, Goto, Running, IInv, TypeOK, PC
<1>2. /\ faults' \in 0..MaxFaults /\ faults \in Nat /\ faults' \in {faults, faults + 1}
      /\ old' \in Dir \cup {None}
  BY FaultFits, RemainsFit DEF Clean, CleanFails, IInv, TypeOK
<1>3. LeftOver'
  BY <1>1, <1>2 DEF IInv, LeftOver
<1>4. Backups'
  <2> SUFFICES ASSUME overlap' = "none" PROVE Backups'
    BY DEF Backups
  <2>1. out' # None
    BY <1>1 DEF IInv, Backups
  <2>2. faults' <= 2 => Complete(out')
    BY <1>1, <1>2, <2>1 DEF IInv, Backups
  <2> QED BY <2>1, <2>2 DEF Backups, Complete
<1>5. {out', tmp', old'} \subseteq Dir \cup {None}
  BY <1>1, <1>2 DEF IInv, TypeOK
<1> QED BY <1>1, <1>2, <1>3, <1>4, <1>5, StopStep

LEMMA KilledFits ==
    ASSUME IInv, NEW p \in Procs, Killed(p)
    PROVE  IInv'
<1>1. Running(p) /\ Stop(p) /\ Goto(p, "idle") /\ pc'[p] = "idle"
      /\ pc' \in [Procs -> PC] /\ "idle" \in PC
      /\ UNCHANGED <<db, out, overlap>>
      /\ \A q \in Procs \ {p} : pc'[q] = pc[q]
  BY DEF Killed, Stop, Goto, Running, IInv, TypeOK, PC
<1>2. faults' \in 0..MaxFaults /\ faults \in Nat /\ faults' = faults + 1 /\ faults' \in Nat \ {0}
  BY FaultFits DEF Killed, IInv, TypeOK
<1>3. /\ tmp' \in Dir \cup {None}
      /\ \/ old' = old
         \/ pc[p] \in {"backup", "clean"} /\ old # None /\ old' \in Dir
  <2>1. CASE UNCHANGED <<tmp, old>>
    BY <2>1 DEF IInv, TypeOK
  <2>2. ASSUME NEW some \in SUBSET listed[p], tmp' = WithFiles(tmp, some), UNCHANGED old
        PROVE  <1>3!:
    <3>1. some \in SUBSET Items /\ tmp \in Dir \cup {None}
      BY DEF IInv, TypeOK
    <3> QED BY <2>2, <3>1, WithFilesFits
  <2>3. CASE pc[p] \in {"backup", "clean"} /\ old # None /\ old' \in Remains(old) /\ UNCHANGED tmp
    BY <2>3, RemainsFit DEF IInv, TypeOK
  <2> QED BY <2>1, <2>2, <2>3 DEF Killed
<1>4. LeftOver'
  BY <1>1, <1>2, LeftOverStays
<1>5. Backups'
  <2> SUFFICES ASSUME overlap' = "none" PROVE Backups'
    BY DEF Backups
  <2>1. \A q \in Procs : pc'[q] \notin {"rollback", "clean"}
    BY <1>1, AloneIdle
  <2>2. out' # None /\ faults' <= 2 => Complete(out')
    BY <1>1, <1>2 DEF IInv, Backups
  <2>3. out' = None /\ old' # None /\ ~Complete(old') => faults' >= 2
    <3>1. CASE old' = old
      BY <1>1, <1>2, <3>1 DEF IInv, Backups
    <3>2. CASE pc[p] = "backup" /\ old # None
      BY <1>1, <1>2, <3>2, AloneIdle DEF IInv, Backups
    <3>3. CASE pc[p] = "clean"
      BY <1>1, <3>3 DEF IInv, Backups
    <3> QED BY <1>3, <3>1, <3>2, <3>3
  <2> QED BY <1>2, <2>1, <2>2, <2>3 DEF Backups, Complete
<1>6. {out', tmp', old'} \subseteq Dir \cup {None}
  BY <1>1, <1>3 DEF IInv, TypeOK
<1> QED BY <1>1, <1>2, <1>4, <1>5, <1>6, StopStep

LEMMA NextFits ==
    ASSUME IInv, [Next]_vars
    PROVE  IInv'
<1>1. CASE UNCHANGED vars
  BY <1>1 DEF vars, IInv, TypeOK, Alone, LeftOver, Backups, Knows, Rendered, Running, Read,
              PublicItems, Complete
<1> QED BY <1>1, ChangeFits, PrepareFits, ListPostsFits, ListPagesFits, WriteFits,
           WriteManifestFits, RenderFailsFits, DropBackupFits, LookForOutFits,
           MoveAsideFits, MoveAsideFailsFits, ActivateFits, ActivateFailsFits,
           RollbackFits, RollbackFailsFits, CleanFits, KilledFits DEF Next, Run

\* Only Activate leads a run to its last removal.
LEMMA Activated ==
    ASSUME IInv, [Next]_vars, NEW p \in Procs, pc[p] = "activate", pc'[p] = "clean"
    PROVE  Activate(p)
<1>1. \A q \in Procs : \A l \in PC : Goto(q, l) => pc'[p] = IF q = p THEN l ELSE pc[p]
  BY DEF Goto, IInv, TypeOK
<1>2. ASSUME NEW q \in Procs, Run(q)
      PROVE  Activate(p)
  BY <1>1, <1>2 DEF Run, Prepare, PrepareOverRemains, Begin, ListPosts, ListPages, Write,
        WriteManifest, RenderFails, DropBackup, DropBackupFails, LookForOut, MoveAside,
        MoveAsideFails, Activate, ActivateFails, Rollback, RollbackFails, Clean, CleanFails, Killed, Stop, PC
<1>3. ASSUME NEW i \in Items, Change(i)
      PROVE  FALSE
  BY <1>3 DEF Change
<1> QED BY <1>2, <1>3 DEF Next, vars

\* Only DropBackup removes what was published.
LEMMA Emptied ==
    ASSUME IInv, [Next]_vars, Published, overlap' = "none", out' = None, old' = None
    PROVE  \E p \in Procs : DropBackup(p)
<1>1. ASSUME NEW p \in Procs, Clean(p)
      PROVE  FALSE
  BY <1>1 DEF Clean, Stop, IInv, Backups
<1>2. ASSUME NEW p \in Procs, Activate(p)
      PROVE  FALSE
  BY <1>2 DEF Activate, CanRename
<1>3. ASSUME NEW d \in Dir, NEW e \in Remains(d)
      PROVE  e # None
  BY RemainsFit, Parameters
<1>4. ASSUME NEW p \in Procs, DropBackupFails(p) \/ CleanFails(p) \/ Killed(p)
      PROVE  FALSE
  BY <1>3, <1>4 DEF DropBackupFails, CleanFails, Killed, Published, IInv, TypeOK
<1>5. ASSUME NEW p \in Procs, MoveAside(p) \/ Rollback(p)
      PROVE  FALSE
  BY <1>5 DEF MoveAside, Rollback, CanRename, Published
<1> QED BY <1>1, <1>2, <1>4, <1>5
        DEF Next, Run, vars, Published, Change, Prepare, PrepareOverRemains, ListPosts,
            ListPages, Write, WriteManifest, RenderFails, LookForOut, MoveAsideFails,
            ActivateFails, RollbackFails

-----------------------------------------------------------------------------
(* Theorems *)

\* The inductive invariant.
THEOREM Inductive == Spec => []IInv
BY InitFits, NextFits, PTL DEF Spec

\* The directories and the runs' variables are well typed.
THEOREM TypeCorrect == Spec => []TypeOK
<1>1. IInv => TypeOK
  BY DEF IInv
<1> QED BY <1>1, Inductive, PTL

\* With no more than two faults and no overlapping runs, what is served is never
\* half-written, however many runs, kills and edits there are.
THEOREM ServedIsComplete == Spec => []OutIsComplete
<1>1. IInv => OutIsComplete
  BY DEF IInv, Backups, OutIsComplete
<1> QED BY <1>1, Inductive, PTL

\* A run that is alone activates all that stayed public, up to the publisher's cap.
THEOREM NothingIsMissing == Spec => NothingMissing
<1>1. ASSUME IInv, [Next]_vars, NEW p \in Procs, Activates(p), p \notin capped
      PROVE  steady[p] \subseteq out'.files
  <2>1. pc[p] = "activate" /\ pc'[p] = "clean" /\ overlap # "now"
    BY <1>1 DEF Activates
  <2>2. out' = tmp
    <3>1. Activate(p)
      BY <1>1, <2>1, Activated
    <3> QED BY <3>1 DEF Activate
  <2>3. listed[p] \subseteq tmp.files
    BY <1>1, <2>1 DEF IInv, Rendered
  <2>4. Read(p, steady[p])
    BY <1>1, <2>1 DEF IInv, Knows, Past
  <2> QED BY <1>1, <2>2, <2>3, <2>4 DEF Read
<1>2. IInv /\ [Next]_vars =>
         \A p \in Procs : Activates(p) /\ p \notin capped => steady[p] \subseteq out'.files
  BY <1>1
<1> QED BY <1>2, Inductive, PTL DEF Spec, NothingMissing

\* A run that is alone brings nothing back that was hidden all the time, short of
\* two faults.
THEOREM NothingIsRevealed == Spec => NothingHidden
<1>1. ASSUME IInv, [Next]_vars, NEW p \in Procs, Activates(p), faults' <= 1
      PROVE  out'.files \subseteq ever[p]
  <2>1. pc[p] = "activate" /\ overlap # "now"
    BY <1>1 DEF Activates
  <2>2. out' = tmp /\ faults' = faults /\ tmp # None
    <3>1. Activate(p)
      BY <1>1, Activated DEF Activates
    <3> QED BY <3>1 DEF Activate, CanRename
  <2> QED BY <1>1, <2>1, <2>2 DEF IInv, Rendered, Past
<1>2. IInv /\ [Next]_vars =>
         \A p \in Procs : Activates(p) /\ faults' <= 1 => out'.files \subseteq ever[p]
  BY <1>1
<1> QED BY <1>2, Inductive, PTL DEF Spec, NothingHidden

\* A published site survives any single fault of runs that do not overlap.
THEOREM PublishedSurvives == Spec => SiteSurvives
<1> DEFINE Kept == \E d \in {out', old', tmp'} : Complete(d)
<1>1. ASSUME IInv, [Next]_vars, Published, faults' <= 1, overlap' = "none"
      PROVE  Kept
  <2>1. IInv'
    BY <1>1, NextFits
  <2>2. faults' \in Nat
    BY <2>1 DEF IInv, TypeOK
  <2>3. out' # None => Complete(out')
    BY <1>1, <2>1, <2>2 DEF IInv, Backups
  <2>4. out' = None /\ old' # None => Complete(old')
    BY <1>1, <2>1, <2>2 DEF IInv, Backups, Complete
  <2>5. CASE out' = None /\ old' = None
    <3>1. PICK p \in Procs : DropBackup(p)
      BY <1>1, <2>5, Emptied
    <3>2. pc'[p] = "swap" /\ overlap' # "now"
      BY <1>1, <3>1 DEF DropBackup, Goto, IInv, TypeOK
    <3>3. Complete(tmp)'
      BY <2>1, <3>2 DEF IInv, Rendered
    <3> QED BY <3>3 DEF Complete
  <2> QED BY <2>3, <2>4, <2>5
<1>2. IInv /\ [Next]_vars => (Published /\ faults' <= 1 /\ overlap' = "none" => Kept)
  BY <1>1
<1> QED BY <1>2, Inductive, PTL DEF Spec, SiteSurvives
=============================================================================
