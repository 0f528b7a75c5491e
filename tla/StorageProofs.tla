--------------------------- MODULE StorageProofs ---------------------------
(***************************************************************************)
(* What keeps Local State: the lock directory and the two state files.     *)
(*                                                                         *)
(* FilesystemLock: TypeOK, FreshOwnerKeepsFile and OneOwnerUnlessRobbed    *)
(* for every set of processes, whoever of them crashes or stalls.          *)
(*                                                                         *)
(* StateStore: what its run checks for three updates, for every number of  *)
(* updates, readers and damages: type correctness, no lost update, the     *)
(* recovery file never ahead, regular lock-free reads, the survival of one *)
(* lost file, and the refinement of AtomicState (without damage).          *)
(***************************************************************************)
EXTENDS FilesystemLock, StateStore, TLAPS

-----------------------------------------------------------------------------
(***************************************************************************)
(* The lock directory                                                      *)
(***************************************************************************)
\* A file that was found old under the name of a reclaim stays old under that name:
\* its owner cannot renew it there, and once put back it has another name.
Condemned ==
  \A p \in Process :
    /\ pc[p] \in {"statReclaim", "putBack", "rmReclaim", "rmAbandoned"} => cur[p].at \in Reclaims
    /\ pc[p] \in {"rmReclaim", "rmAbandoned"} =>
         \A g \in Process : cur[p].of = g /\ cur[p].at = file[g].at => file[g].old

\* A holder whose file is gone had let it become old.
GoneWasOld ==
  \A p \in Process : pc[p] \in {"held", "asserted"} /\ file[p].at = Gone => file[p].old

\* Who made the directory finds it as it made it.
WriterAlone ==
  ~robbed => \A p \in Process :
    pc[p] = "write" => /\ dir.kind = "dir" /\ dir.by = p
                       /\ \A q \in Process : file[q].at = Gone

OneGeneration ==
  ~robbed => \A p, q \in Process : file[p].at # Gone /\ file[q].at # Gone => p = q

-----------------------------------------------------------------------------
LEMMA NoEntries == Entries = {} <=> \A p \in Process : file[p].at = Gone
BY DEF Entries

\* What a step of p that finds an entry there has in its hands.
LEMMA EntryOf ==
  ASSUME NEW e, There(e)
  PROVE  e.of \in Process /\ e.at = file[e.of].at /\ e.at # Gone
BY DEF There, Entries

\* removeEmptyDirectory and the rmdir of a release do not touch a file.
LEMMA Removal ==
  ASSUME RemoveIfEmpty
  PROVE  \/ /\ dir.kind = "dir" /\ Entries = {} /\ dir' = None
            /\ robbed' = (robbed \/ pc[dir.by] = "write")
         \/ UNCHANGED <<dir, robbed>>
BY DEF RemoveIfEmpty

DirType == [kind : {"none", "legacy", "dir"}, old : BOOLEAN, by : Process \cup {Gone}]
FileType == [at : Place, old : BOOLEAN]
EntryType == [of : Process, at : Reclaims \cup {Owner}]
CurType == [of : Process \cup {Gone}, at : Place]

\* The types alone, without what TypeOK says of the directory and its entries.
Shape ==
  /\ dir \in DirType /\ file \in [Process -> FileType] /\ pc \in [Process -> PC]
  /\ old \in [Process -> BOOLEAN] /\ robbed \in BOOLEAN
  /\ todo \in [Process -> SUBSET EntryType] /\ cur \in [Process -> CurType]

\* Only a directory has entries.
Inside ==
  /\ dir.kind = "dir" => dir.by \in Process
  /\ dir.kind # "dir" => \A p \in Process : file[p].at = Gone

LEMMA DirTypes ==
  /\ None \in DirType /\ [None EXCEPT !.kind = "legacy"] \in DirType
  /\ \A p \in Process : Touched(p) \in DirType
  /\ \A d \in DirType : [d EXCEPT !.old = TRUE] \in DirType
BY DEF None, Touched, DirType

LEMMA FileTypes ==
  /\ NoFile \in FileType /\ [at |-> Owner, old |-> FALSE] \in FileType
  /\ \A f \in FileType : /\ [f EXCEPT !.at = Gone] \in FileType
                         /\ [f EXCEPT !.at = Owner] \in FileType
                         /\ \A n \in Reclaims : [f EXCEPT !.at = n] \in FileType
                         /\ \A b \in BOOLEAN : [f EXCEPT !.old = b] \in FileType
BY DEF NoFile, FileType, Place

LEMMA EntryTypes ==
  /\ NoEntry \in CurType /\ EntryType \subseteq CurType
  /\ \A c \in CurType, n \in Reclaims : [c EXCEPT !.at = n] \in CurType
BY DEF NoEntry, CurType, EntryType, Place

LEMMA InHand ==
  ASSUME Shape, NEW p \in Process, There(cur[p])
  PROVE  /\ cur[p].of \in Process /\ cur[p].at = file[cur[p].of].at /\ cur[p].at # Gone
         /\ file[cur[p].of] \in FileType /\ cur[p] \in CurType
BY EntryOf DEF Shape

LEMMA EntriesType == file \in [Process -> FileType] => Entries \subseteq EntryType
BY DEF Entries, FileType, EntryType, Place

IInv == Shape /\ Inside /\ Condemned /\ GoneWasOld /\ WriterAlone /\ OneGeneration

LEMMA TypeSplit == Shape /\ Inside => TypeOK
BY NoEntries DEF TypeOK, Shape, Inside, DirType, FileType, EntryType, CurType

LEMMA InitIInv == Init => IInv
<1> SUFFICES ASSUME Init PROVE IInv
  OBVIOUS
<1>1. Shape
  BY DirTypes, FileTypes, EntryTypes DEF Init, Shape, PC
<1>2. Inside
  BY DEF Init, Inside, None, NoFile
<1>3. Condemned /\ GoneWasOld /\ WriterAlone /\ OneGeneration
  BY DEF Init, Condemned, GoneWasOld, WriterAlone, OneGeneration, NoFile
<1> QED
  BY <1>1, <1>2, <1>3 DEF IInv

-----------------------------------------------------------------------------
LEMMA ShapeStep == Shape /\ [Next]_vars => Shape'
<1> SUFFICES ASSUME Shape, [Next]_vars PROVE Shape'
  OBVIOUS
<1> USE DirTypes, FileTypes, EntryTypes DEF Shape, Goto, Scan
<1>1. ASSUME NEW p \in Process,
             Acquire(p) \/ WriteOwnerFails(p) \/ GiveUp(p) \/ Hold(p) \/ Heartbeat(p)
               \/ Crash(p) \/ AgeFile(p)
      PROVE  Shape'
  <2>1. CASE Mkdir(p)
    BY <2>1 DEF Mkdir, PC
  <2>2. CASE WriteOwner(p)
    BY <2>2 DEF WriteOwner, PC
  <2>3. CASE WriteOwnerFails(p)
    BY <2>3 DEF WriteOwnerFails, PC
  <2>4. CASE Undo(p)
    BY <2>4, Removal DEF Undo, PC
  <2>5. CASE GiveUp(p)
    BY <2>5 DEF GiveUp, PC
  <2>6. CASE Retry(p)
    BY <2>6 DEF Retry, PC
  <2>7. CASE Heartbeat(p)
    BY <2>7 DEF Heartbeat
  <2>8. CASE AssertOwned(p)
    <3>1. pc' \in [Process -> PC]
      BY <2>8 DEF AssertOwned, PC
    <3>2. file[p] \in FileType /\ [file[p] EXCEPT !.old = FALSE] \in FileType
      OBVIOUS
    <3>3. file' \in [Process -> FileType]
      BY <2>8, <3>2 DEF AssertOwned
    <3> QED
      BY <2>8, <3>1, <3>3 DEF AssertOwned
  <2>9. CASE Release(p)
    BY <2>9 DEF Release, PC
  <2>10. CASE RmOwner(p)
    <3>1. pc' \in [Process -> PC]
      BY <2>10 DEF RmOwner, PC
    <3>2. file' \in [Process -> FileType]
      BY <2>10, ZenonT(60) DEF RmOwner
    <3>3. dir' \in DirType /\ cur' \in [Process -> CurType]
      BY <2>10 DEF RmOwner
    <3> QED
      BY <2>10, <3>1, <3>2, <3>3 DEF RmOwner
  <2>11. CASE Rmdir(p)
    BY <2>11, Removal DEF Rmdir, PC
  <2>12. CASE Relist(p)
    BY <2>12 DEF Relist, PC
  <2>13. CASE Lstat(p)
    <3>1. dir.kind \in {"none", "legacy", "dir"} /\ dir.old \in BOOLEAN
      BY DEF DirType
    <3>2. pc' \in [Process -> PC]
      BY <2>13, <3>1 DEF Lstat, PC
    <3> QED
      BY <2>13, <3>1, <3>2 DEF Lstat
  <2>14. CASE RmLegacy(p)
    BY <2>14 DEF RmLegacy, PC
  <2>15. CASE Readdir(p)
    BY <2>15, EntriesType DEF Readdir, PC
  <2>16. CASE RmEmpty(p)
    BY <2>16, Removal DEF RmEmpty, PC
  <2>17. CASE Visit(p)
    BY <2>17 DEF Visit, PC
  <2>18. CASE Visited(p)
    BY <2>18 DEF Visited, PC
  <2>19. CASE RenameToReclaim(p)
    <3>1. pc' \in [Process -> PC]
      BY <2>19 DEF RenameToReclaim, PC
    <3>2. CASE ~There(cur[p])
      BY <2>19, <3>1, <3>2 DEF RenameToReclaim
    <3>3. CASE There(cur[p])
      <4>1. cur[p].of \in Process /\ file[cur[p].of] \in FileType /\ cur[p] \in CurType
        BY <3>3, InHand
      <4>2. PICK n \in Reclaims : /\ file' = [file EXCEPT ![cur[p].of].at = n]
                                 /\ cur' = [cur EXCEPT ![p].at = n]
        BY <2>19, <3>3 DEF RenameToReclaim, Fresh
      <4>3. file' \in [Process -> FileType]
        BY <4>1, <4>2
      <4>4. cur' \in [Process -> CurType]
        BY <4>1, <4>2
      <4> QED
        BY <2>19, <3>1, <3>3, <4>3, <4>4 DEF RenameToReclaim
    <3> QED
      BY <3>2, <3>3
  <2>20. CASE StatReclaim(p)
    BY <2>20 DEF StatReclaim, PC
  <2>21. CASE PutBack(p)
    <3>1. pc' \in [Process -> PC]
      BY <2>21 DEF PutBack, PC
    <3>2. CASE ~There(cur[p])
      BY <2>21, <3>1, <3>2 DEF PutBack
    <3>3. CASE There(cur[p])
      <4>1. cur[p].of \in Process /\ file[cur[p].of] \in FileType
        BY <3>3, InHand
      <4>2. file' \in [Process -> FileType]
        BY <2>21, <3>3, <4>1 DEF PutBack
      <4> QED
        BY <2>21, <3>1, <3>3, <4>2 DEF PutBack
    <3> QED
      BY <3>2, <3>3
  <2>22. CASE RmReclaim(p)
    <3>1. pc' \in [Process -> PC]
      BY <2>22 DEF RmReclaim, PC
    <3>2. CASE ~There(cur[p])
      BY <2>22, <3>1, <3>2 DEF RmReclaim
    <3>3. CASE There(cur[p])
      <4>1. cur[p].of \in Process /\ file[cur[p].of] \in FileType
        BY <3>3, InHand
      <4>2. file' \in [Process -> FileType]
        BY <2>22, <3>3, <4>1 DEF RmReclaim
      <4> QED
        BY <2>22, <3>1, <3>3, <4>2 DEF RmReclaim
    <3> QED
      BY <3>2, <3>3
  <2>23. CASE RmdirAfter(p)
    BY <2>23, Removal DEF RmdirAfter, PC
  <2>24. CASE Crash(p)
    BY <2>24 DEF Crash, PC
  <2>25. CASE AgeFile(p)
    BY <2>25 DEF AgeFile
  <2> QED
    BY <1>1, <2>1, <2>2, <2>3, <2>4, <2>5, <2>6, <2>7, <2>8, <2>9, <2>10, <2>11,
       <2>12, <2>13, <2>14, <2>15, <2>16, <2>17, <2>18, <2>19, <2>20, <2>21, <2>22,
       <2>23, <2>24, <2>25 DEF Acquire, Hold
<1>2. CASE AgeDir
  BY <1>2 DEF AgeDir
<1>3. CASE UNCHANGED vars
  BY <1>3 DEF vars
<1> QED
  BY <1>1, <1>2, <1>3 DEF Next, Time

-----------------------------------------------------------------------------
\* A step that leaves the directory and the files alone.
Looks(p) ==
  WriteOwnerFails(p) \/ GiveUp(p) \/ Retry(p) \/ Release(p) \/ Relist(p) \/ Lstat(p)
  \/ Readdir(p) \/ Visit(p) \/ Visited(p) \/ StatReclaim(p) \/ Crash(p)

Removes(p) == Undo(p) \/ Rmdir(p) \/ RmEmpty(p) \/ RmdirAfter(p)

Touches(p) == Heartbeat(p) \/ AssertOwned(p) \/ AgeFile(p)

LEMMA Steps ==
  ASSUME [Next]_vars
  PROVE  \/ \E p \in Process :
              \/ Looks(p) \/ Removes(p) \/ Touches(p) \/ Mkdir(p) \/ WriteOwner(p)
              \/ RmOwner(p) \/ RmLegacy(p) \/ RenameToReclaim(p) \/ PutBack(p) \/ RmReclaim(p)
         \/ AgeDir \/ UNCHANGED vars
BY DEF Next, Acquire, Hold, Time, Looks, Removes, Touches

LEMMA LooksOn ==
  ASSUME NEW p \in Process, Looks(p)
  PROVE  UNCHANGED <<dir, file, robbed>>
BY DEF Looks, WriteOwnerFails, GiveUp, Retry, Release, Relist, Lstat, Readdir, Visit,
       Visited, StatReclaim, Crash, Scan

LEMMA RemovesEmpty ==
  ASSUME NEW p \in Process, Removes(p)
  PROVE  /\ file' = file
         /\ \/ /\ dir.kind = "dir" /\ dir' = None /\ \A q \in Process : file[q].at = Gone
               /\ robbed' = (robbed \/ pc[dir.by] = "write")
            \/ UNCHANGED <<dir, robbed>>
BY Removal, NoEntries DEF Removes, Undo, Rmdir, RmEmpty, RmdirAfter

\* Heartbeats and time leave every file where it is.
LEMMA TouchesOnly ==
  ASSUME Shape, NEW p \in Process, Touches(p)
  PROVE  /\ UNCHANGED <<dir, robbed>>
         /\ \A q \in Process : file'[q].at = file[q].at
BY DEF Touches, Heartbeat, AssertOwned, AgeFile, Shape, FileType

LEMMA InsideStep == Shape /\ Inside /\ [Next]_vars => Inside'
<1> SUFFICES ASSUME Shape, Inside, [Next]_vars PROVE Inside'
  OBVIOUS
<1> USE DEF Inside
<1>1. ASSUME NEW p \in Process, Looks(p) PROVE Inside'
  BY <1>1, LooksOn
<1>2. ASSUME NEW p \in Process, Removes(p) PROVE Inside'
  BY <1>2, RemovesEmpty DEF None
<1>3. ASSUME NEW p \in Process, Touches(p) PROVE Inside'
  BY <1>3, TouchesOnly
<1>4. ASSUME NEW p \in Process, Mkdir(p) PROVE Inside'
  BY <1>4 DEF Mkdir, Touched
<1>5. ASSUME NEW p \in Process, WriteOwner(p) PROVE Inside'
  BY <1>5 DEF WriteOwner, Touched
<1>6. ASSUME NEW p \in Process, RmOwner(p) PROVE Inside'
  BY <1>6 DEF RmOwner, Touched
<1>7. ASSUME NEW p \in Process, RmLegacy(p) PROVE Inside'
  BY <1>7 DEF RmLegacy, None
<1>8. ASSUME NEW p \in Process, RenameToReclaim(p) PROVE Inside'
  BY <1>8 DEF RenameToReclaim, Touched
<1>9. ASSUME NEW p \in Process, PutBack(p) PROVE Inside'
  BY <1>9 DEF PutBack, Touched
<1>10. ASSUME NEW p \in Process, RmReclaim(p) PROVE Inside'
  BY <1>10 DEF RmReclaim, Touched
<1>11. CASE AgeDir
  BY <1>11 DEF AgeDir, Shape, DirType
<1>12. CASE UNCHANGED vars
  BY <1>12 DEF vars
<1> QED
  BY <1>1, <1>2, <1>3, <1>4, <1>5, <1>6, <1>7, <1>8, <1>9, <1>10, <1>11, <1>12, Steps

-----------------------------------------------------------------------------
\* OneGeneration and WriterAlone: a directory is made where there is none.
\* Of who removes, renames or puts back a file: no new file comes of it.
LEMMA NoNewFile ==
  ASSUME Shape, NEW p \in Process,
         RmOwner(p) \/ RenameToReclaim(p) \/ PutBack(p) \/ RmReclaim(p)
  PROVE  /\ robbed' = robbed
         /\ dir' = dir \/ ~ \A q \in Process : file[q].at = Gone
         /\ \A q \in Process : file'[q].at # Gone => file[q].at # Gone
<1> USE LockAssumption DEF Shape, FileType
<1>1. CASE RmOwner(p)
  BY <1>1 DEF RmOwner
<1>2. CASE RenameToReclaim(p)
  <2>1. CASE There(cur[p])
    <3>1. cur[p].of \in Process /\ file[cur[p].of].at # Gone
      BY <2>1, InHand
    <3>2. \A q \in Process : q # cur[p].of => file'[q] = file[q]
      BY <1>2, <2>1, <3>1 DEF RenameToReclaim
    <3> QED
      BY <1>2, <3>1, <3>2 DEF RenameToReclaim
  <2> QED
    BY <1>2, <2>1 DEF RenameToReclaim
<1>3. CASE PutBack(p)
  <2>1. CASE There(cur[p])
    <3>1. cur[p].of \in Process /\ file[cur[p].of].at # Gone
      BY <2>1, InHand
    <3> QED
      BY <1>3, <2>1, <3>1 DEF PutBack
  <2> QED
    BY <1>3, <2>1 DEF PutBack
<1>4. CASE RmReclaim(p)
  BY <1>4, EntryOf DEF RmReclaim
<1> QED
  BY <1>1, <1>2, <1>3, <1>4

\* Nobody comes to write but by Mkdir.
LEMMA OnlyMkdirWrites ==
  ASSUME Shape, NEW p \in Process,
         Looks(p) \/ Removes(p) \/ Touches(p) \/ WriteOwner(p) \/ RmOwner(p) \/ RmLegacy(p)
         \/ RenameToReclaim(p) \/ PutBack(p) \/ RmReclaim(p)
  PROVE  \A q \in Process : pc'[q] = "write" => pc[q] = "write"
<1> USE DEF Shape, Goto
<1>1. CASE Looks(p)
  <2>1. CASE WriteOwnerFails(p) \/ GiveUp(p) \/ Retry(p) \/ Release(p) \/ Relist(p)
    BY <2>1 DEF WriteOwnerFails, GiveUp, Retry, Release, Relist
  <2>2. CASE Lstat(p)
    BY <2>2 DEF Lstat, Shape, DirType
  <2>3. CASE Readdir(p) \/ Visit(p) \/ Visited(p) \/ StatReclaim(p) \/ Crash(p)
    BY <2>3 DEF Readdir, Visit, Visited, StatReclaim, Crash
  <2> QED
    BY <1>1, <2>1, <2>2, <2>3 DEF Looks
<1>2. CASE Removes(p)
  BY <1>2 DEF Removes, Undo, Rmdir, RmEmpty, RmdirAfter
<1>3. CASE Touches(p)
  BY <1>3 DEF Touches, Heartbeat, AssertOwned, AgeFile
<1>4. CASE WriteOwner(p) \/ RmOwner(p) \/ RmLegacy(p)
  BY <1>4 DEF WriteOwner, RmOwner, RmLegacy
<1>5. CASE RenameToReclaim(p)
  BY <1>5 DEF RenameToReclaim
<1>6. CASE PutBack(p) \/ RmReclaim(p)
  BY <1>6 DEF PutBack, RmReclaim
<1> QED
  BY <1>1, <1>2, <1>3, <1>4, <1>5, <1>6

LEMMA GenerationStep ==
  Shape /\ Inside /\ WriterAlone /\ OneGeneration /\ [Next]_vars => OneGeneration'
<1> SUFFICES ASSUME Shape, Inside, WriterAlone, OneGeneration, [Next]_vars PROVE OneGeneration'
  OBVIOUS
<1> USE DEF OneGeneration, Shape, FileType
<1>1. ASSUME NEW p \in Process, Looks(p) PROVE OneGeneration'
  BY <1>1, LooksOn
<1>2. ASSUME NEW p \in Process, Removes(p) PROVE OneGeneration'
  BY <1>2, RemovesEmpty
<1>3. ASSUME NEW p \in Process, Touches(p) PROVE OneGeneration'
  BY <1>3, TouchesOnly
<1>4. ASSUME NEW p \in Process, Mkdir(p) PROVE OneGeneration'
  BY <1>4 DEF Mkdir
<1>5. ASSUME NEW p \in Process, WriteOwner(p) PROVE OneGeneration'
  BY <1>5 DEF WriteOwner, WriterAlone, Goto
<1>6. ASSUME NEW p \in Process, RmOwner(p) PROVE OneGeneration'
  BY <1>6, NoNewFile
<1>7. ASSUME NEW p \in Process, RmLegacy(p) PROVE OneGeneration'
  BY <1>7 DEF RmLegacy
<1>8. ASSUME NEW p \in Process, RenameToReclaim(p) PROVE OneGeneration'
  BY <1>8, NoNewFile
<1>9. ASSUME NEW p \in Process, PutBack(p) PROVE OneGeneration'
  BY <1>9, NoNewFile
<1>10. ASSUME NEW p \in Process, RmReclaim(p) PROVE OneGeneration'
  BY <1>10, NoNewFile
<1>11. CASE AgeDir
  BY <1>11 DEF AgeDir
<1>12. CASE UNCHANGED vars
  BY <1>12 DEF vars
<1> QED
  BY <1>1, <1>2, <1>3, <1>4, <1>5, <1>6, <1>7, <1>8, <1>9, <1>10, <1>11, <1>12,
     Steps

LEMMA WriterStep ==
  Shape /\ Inside /\ WriterAlone /\ [Next]_vars => WriterAlone'
<1> SUFFICES ASSUME Shape, Inside, WriterAlone, [Next]_vars PROVE WriterAlone'
  OBVIOUS
<1> USE DEF WriterAlone, Inside, Shape
<1>1. ASSUME NEW p \in Process, Looks(p) PROVE WriterAlone'
  BY <1>1, LooksOn, OnlyMkdirWrites
<1>2. ASSUME NEW p \in Process, Removes(p) PROVE WriterAlone'
  BY <1>2, RemovesEmpty, OnlyMkdirWrites DEF None
<1>3. ASSUME NEW p \in Process, Touches(p) PROVE WriterAlone'
  BY <1>3, TouchesOnly, OnlyMkdirWrites
<1>4. ASSUME NEW p \in Process, Mkdir(p) PROVE WriterAlone'
  BY <1>4 DEF Mkdir, Goto, Touched
<1>5. ASSUME NEW p \in Process, WriteOwner(p) PROVE WriterAlone'
  BY <1>5 DEF WriteOwner, Goto, Touched
<1>6. ASSUME NEW p \in Process, RmOwner(p) PROVE WriterAlone'
  BY <1>6, NoNewFile, OnlyMkdirWrites
<1>7. ASSUME NEW p \in Process, RmLegacy(p) PROVE WriterAlone'
  BY <1>7 DEF RmLegacy, Goto
<1>8. ASSUME NEW p \in Process, RenameToReclaim(p) PROVE WriterAlone'
  BY <1>8, NoNewFile, OnlyMkdirWrites
<1>9. ASSUME NEW p \in Process, PutBack(p) PROVE WriterAlone'
  BY <1>9, NoNewFile, OnlyMkdirWrites
<1>10. ASSUME NEW p \in Process, RmReclaim(p) PROVE WriterAlone'
  BY <1>10, NoNewFile, OnlyMkdirWrites
<1>11. CASE AgeDir
  BY <1>11 DEF AgeDir
<1>12. CASE UNCHANGED vars
  BY <1>12 DEF vars
<1> QED
  BY <1>1, <1>2, <1>3, <1>4, <1>5, <1>6, <1>7, <1>8, <1>9, <1>10, <1>11, <1>12,
     Steps

-----------------------------------------------------------------------------
\* GoneWasOld and Condemned: what a reclaim removes was old.
LEMMA GoneWasOldStep ==
  Shape /\ Condemned /\ GoneWasOld /\ [Next]_vars => GoneWasOld'
<1> SUFFICES ASSUME Shape, Condemned, GoneWasOld, [Next]_vars PROVE GoneWasOld'
  OBVIOUS
<1> USE LockAssumption DEF GoneWasOld, Shape, FileType, Goto
<1>1. ASSUME NEW p \in Process, Looks(p) PROVE GoneWasOld'
  <2>1. \A q \in Process : pc'[q] \in {"held", "asserted"} => pc[q] \in {"held", "asserted"}
    <3>1. CASE WriteOwnerFails(p) \/ GiveUp(p) \/ Retry(p) \/ Release(p) \/ Relist(p)
      BY <3>1 DEF WriteOwnerFails, GiveUp, Retry, Release, Relist
    <3>2. CASE Lstat(p)
      BY <3>2 DEF Lstat, DirType
    <3>3. CASE Readdir(p) \/ Visit(p) \/ Visited(p) \/ StatReclaim(p) \/ Crash(p)
      BY <3>3 DEF Readdir, Visit, Visited, StatReclaim, Crash
    <3> QED
      BY <1>1, <3>1, <3>2, <3>3 DEF Looks
  <2> QED
    BY <1>1, <2>1, LooksOn
<1>2. ASSUME NEW p \in Process, Removes(p) PROVE GoneWasOld'
  BY <1>2, RemovesEmpty DEF Removes, Undo, Rmdir, RmEmpty, RmdirAfter
<1>3. ASSUME NEW p \in Process, Touches(p) PROVE GoneWasOld'
  BY <1>3 DEF Touches, Heartbeat, AssertOwned, AgeFile
<1>4. ASSUME NEW p \in Process, Mkdir(p) PROVE GoneWasOld'
  BY <1>4 DEF Mkdir
<1>5. ASSUME NEW p \in Process, WriteOwner(p) PROVE GoneWasOld'
  BY <1>5 DEF WriteOwner
<1>6. ASSUME NEW p \in Process, RmOwner(p) PROVE GoneWasOld'
  BY <1>6 DEF RmOwner
<1>7. ASSUME NEW p \in Process, RmLegacy(p) PROVE GoneWasOld'
  BY <1>7 DEF RmLegacy
<1>8. ASSUME NEW p \in Process, RenameToReclaim(p) PROVE GoneWasOld'
  <2>1. \A q \in Process : file'[q].at = Gone => file'[q] = file[q]
    <3>1. CASE There(cur[p])
      <4>1. cur[p].of \in Process
        BY <3>1, InHand
      <4>2. PICK n \in Reclaims : file' = [file EXCEPT ![cur[p].of].at = n]
        BY <1>8, <3>1 DEF RenameToReclaim, Fresh
      <4> QED
        BY <4>1, <4>2
    <3> QED
      BY <1>8, <3>1 DEF RenameToReclaim
  <2> QED
    BY <1>8, <2>1 DEF RenameToReclaim
<1>9. ASSUME NEW p \in Process, PutBack(p) PROVE GoneWasOld'
  <2>1. \A q \in Process : file'[q].at = Gone => file'[q] = file[q]
    BY <1>9 DEF PutBack
  <2> QED
    BY <1>9, <2>1 DEF PutBack
<1>10. ASSUME NEW p \in Process, RmReclaim(p) PROVE GoneWasOld'
  <2>1. There(cur[p]) => file[cur[p].of].old
    BY <1>10, InHand DEF RmReclaim, Condemned
  <2>2. \A q \in Process : /\ file'[q].old = file[q].old
                           /\ file'[q] = file[q] \/ file[q].old
    BY <1>10, <2>1 DEF RmReclaim
  <2> QED
    BY <1>10, <2>2 DEF RmReclaim
<1>11. CASE AgeDir
  BY <1>11 DEF AgeDir
<1>12. CASE UNCHANGED vars
  BY <1>12 DEF vars
<1> QED
  BY <1>1, <1>2, <1>3, <1>4, <1>5, <1>6, <1>7, <1>8, <1>9, <1>10, <1>11, <1>12, Steps

LEMMA SameEntry ==
  ASSUME NEW c \in CurType, NEW d \in CurType, NEW n \in Reclaims, d.of = c.of, d.at = n
  PROVE  d = [c EXCEPT !.at = n]
BY DEF CurType

LEMMA CondemnedStep == Shape /\ Condemned /\ [Next]_vars => Condemned'
<1> SUFFICES ASSUME Shape, Condemned, [Next]_vars PROVE Condemned'
  OBVIOUS
<1> USE LockAssumption DEF Condemned, Shape, Goto
<1>1. ASSUME NEW p \in Process, Looks(p) PROVE Condemned'
  <2>1. CASE WriteOwnerFails(p) \/ GiveUp(p) \/ Retry(p) \/ Release(p) \/ Relist(p)
    BY <2>1 DEF WriteOwnerFails, GiveUp, Retry, Release, Relist, Scan
  <2>2. CASE Lstat(p)
    BY <2>2 DEF Lstat, DirType
  <2>3. CASE Readdir(p) \/ Crash(p)
    BY <2>3 DEF Readdir, Crash, Scan
  <2>4. CASE Visit(p)
    <3>1. PICK e \in todo[p] :
            IF There(e) /\ file[e.of].old
            THEN /\ Goto(p, "visit", IF e.at = Owner THEN "rename" ELSE "rmAbandoned")
                 /\ cur' = [cur EXCEPT ![p] = e]
            ELSE Goto(p, "visit", "visit") /\ UNCHANGED cur
      BY <2>4 DEF Visit
    <3>2. e.at # Owner => e.at \in Reclaims
      BY <3>1 DEF EntryType
    <3> QED
      BY <2>4, <3>1, <3>2 DEF Visit
  <2>5. CASE Visited(p)
    BY <2>5 DEF Visited
  <2>6. CASE StatReclaim(p)
    BY <2>6 DEF StatReclaim, Scan
  <2> QED
    BY <1>1, <2>1, <2>2, <2>3, <2>4, <2>5, <2>6 DEF Looks
<1>2. ASSUME NEW p \in Process, Removes(p) PROVE Condemned'
  BY <1>2, RemovesEmpty DEF Removes, Undo, Rmdir, RmEmpty, RmdirAfter, Scan
<1>3. ASSUME NEW p \in Process, Touches(p) PROVE Condemned'
  BY <1>3 DEF Touches, Heartbeat, AssertOwned, AgeFile, Scan, FileType
<1>4. ASSUME NEW p \in Process, Mkdir(p) PROVE Condemned'
  BY <1>4 DEF Mkdir, Scan
<1>5. ASSUME NEW p \in Process, WriteOwner(p) PROVE Condemned'
  BY <1>5 DEF WriteOwner, Scan
<1>6. ASSUME NEW p \in Process, RmOwner(p) PROVE Condemned'
  BY <1>6 DEF RmOwner, Scan, FileType
<1>7. ASSUME NEW p \in Process, RmLegacy(p) PROVE Condemned'
  BY <1>7 DEF RmLegacy, Scan
<1>8. ASSUME NEW p \in Process, RenameToReclaim(p) PROVE Condemned'
  <2>1. CASE There(cur[p])
    <3>1. cur[p].of \in Process /\ cur[p] \in CurType
      BY <2>1, InHand
    <3>2. PICK n \in Fresh(p, cur[p]) : /\ file' = [file EXCEPT ![cur[p].of].at = n]
                                       /\ cur' = [cur EXCEPT ![p].at = n]
      BY <1>8, <2>1 DEF RenameToReclaim
    <3>3. n \in Reclaims
      BY <3>2 DEF Fresh
    <3>4. \A q \in Process : ~(cur[q].of = cur[p].of /\ cur[q].at = n)
      BY <3>2, <3>3, SameEntry DEF Fresh
    <3>5. cur'[p].at = n /\ \A q \in Process : q # p => cur'[q] = cur[q]
      BY <3>1, <3>2 DEF CurType
    <3>6. pc' = [pc EXCEPT ![p] = "statReclaim"]
      BY <1>8, <2>1 DEF RenameToReclaim
    <3>7. \A g \in Process : g # cur[p].of => file'[g] = file[g]
      BY <3>1, <3>2
    <3>8. file'[cur[p].of].at = n
      BY <3>1, <3>2 DEF FileType
    <3> QED
      BY <3>1, <3>3, <3>4, <3>5, <3>6, <3>7, <3>8
  <2> QED
    BY <1>8, <2>1 DEF RenameToReclaim
<1>9. ASSUME NEW p \in Process, PutBack(p) PROVE Condemned'
  <2>1. \A g \in Process : file'[g] = file[g] \/ file'[g].at = Owner
    BY <1>9, InHand DEF PutBack, FileType
  <2> QED
    BY <1>9, <2>1 DEF PutBack, Scan
<1>10. ASSUME NEW p \in Process, RmReclaim(p) PROVE Condemned'
  <2>1. \A g \in Process : file'[g] = file[g] \/ file'[g].at = Gone
    BY <1>10, InHand DEF RmReclaim, FileType
  <2> QED
    BY <1>10, <2>1 DEF RmReclaim, Scan
<1>11. CASE AgeDir
  BY <1>11 DEF AgeDir, Scan
<1>12. CASE UNCHANGED vars
  BY <1>12 DEF vars
<1> QED
  BY <1>1, <1>2, <1>3, <1>4, <1>5, <1>6, <1>7, <1>8, <1>9, <1>10, <1>11, <1>12, Steps

-----------------------------------------------------------------------------
LEMMA Inductive == Spec => []IInv
<1>1. IInv /\ [Next]_vars => IInv'
  BY ShapeStep, InsideStep, CondemnedStep, GoneWasOldStep, WriterStep, GenerationStep DEF IInv
<1> QED
  BY <1>1, InitIInv, PTL DEF Spec

\* What a call remembers, and what lies on the disk, are always of their types; only a
\* directory has entries.
THEOREM TypeCorrect == Spec => []TypeOK
<1>1. IInv => TypeOK
  BY TypeSplit DEF IInv
<1> QED
  BY <1>1, Inductive, PTL

\* tryReclaimOwner looks twice, at a name nobody else knows: so no stall of a
\* reclaimer, however long, ever removes the file of an owner that renews it.
THEOREM FreshOwnerIsSafe == Spec => []FreshOwnerKeepsFile
<1>1. IInv => FreshOwnerKeepsFile
  BY DEF IInv, GoneWasOld, FreshOwnerKeepsFile, Owns
<1> QED
  BY <1>1, Inductive, PTL

\* Mutual exclusion of acquireFilesystemLock, up to the one race of the code: the
\* removal of a directory between its maker's mkdir and its owner file.
THEOREM MutualExclusion == Spec => []OneOwnerUnlessRobbed
<1>1. IInv => OneOwnerUnlessRobbed
  BY DEF IInv, GoneWasOld, OneGeneration, OneOwnerUnlessRobbed, Owns
<1> QED
  BY <1>1, Inductive, PTL

-----------------------------------------------------------------------------
(***************************************************************************)
(* The state files                                                         *)
(***************************************************************************)
(***************************************************************************)
(* The inductive invariant.  FilesInv and HolderInv speak of the holder of *)
(* the lease: only it can be between the check of assertOwned and the end  *)
(* of its renames, and what it holds in memory extends what is on disk.    *)
(***************************************************************************)
FilesInv ==
  /\ primary.kind # "valid" => primary.state = {}
  /\ recovery.kind # "valid" => recovery.state = {}
  /\ primary.kind = "valid" => recovery.state \subseteq primary.state

HolderInv == \A u \in Update :
  /\ upc[u] \in {"writePrimary", "writeRecovery"} => lease = u
  /\ lease = u /\ upc[u] \in {"sawMissing", "sawInvalid"} => primary.kind # "valid"
  /\ lease = u /\ upc[u] \in {"mutate", "assertOwned", "writePrimary"}
       => recovery.state \subseteq local[u]
  /\ upc[u] = "writeRecovery" /\ primary.kind = "valid" => primary.state = local[u]

\* What holds as long as nothing outside EasyServer has touched the files.
UndamagedFiles ==
  /\ primary.kind # "invalid" /\ recovery.kind # "invalid"
  /\ primary.kind = "missing" => recovery.kind = "missing"
  /\ primary.state = committed

UndamagedHolder == \A u \in Update :
  /\ upc[u] # "sawInvalid"
  /\ lease = u /\ upc[u] = "mutate" => local[u] = committed
  /\ lease = u /\ upc[u] \in {"assertOwned", "writePrimary"} => local[u] = committed \cup {u}
  /\ upc[u] = "writeRecovery" => primary.kind = "valid"

UndamagedReaders == \A r \in Reader :
  /\ rpc[r] \notin {"invalid", "threw"}
  /\ rpc[r] = "missing" => seen[r] = {}
  /\ seen[r] \subseteq committed
  /\ rpc[r] = "returned" => seen[r] \subseteq result[r] /\ result[r] \subseteq committed

StoreIInv ==
  /\ StoreTypeOK /\ FilesInv /\ HolderInv
  /\ damage = 0 => UndamagedFiles /\ UndamagedHolder /\ UndamagedReaders

-----------------------------------------------------------------------------
LEMMA InitStoreIInv == StoreInit => StoreIInv
BY StoreAssumption
   DEF StoreInit, StoreIInv, StoreTypeOK, FilesInv, HolderInv, UndamagedFiles, UndamagedHolder,
       UndamagedReaders, StateFile, Missing, UpdatePC

LEMMA TypeStep == StoreTypeOK /\ [StoreNext]_storeVars => StoreTypeOK'
<1> SUFFICES ASSUME StoreTypeOK, [StoreNext]_storeVars PROVE StoreTypeOK'
  OBVIOUS
<1> USE DEF StoreTypeOK, StateFile, UpdatePC, Proceed, writerVars, readerVars, fileVars
<1>1. ASSUME NEW u \in Update, UpdateStep(u) PROVE StoreTypeOK'
  <2>1. CASE AcquireLease(u)
    BY <2>1 DEF AcquireLease
  <2>2. CASE AcquireTimeout(u)
    BY <2>2 DEF AcquireTimeout
  <2>3. CASE ReadPrimary(u)
    BY <2>3 DEF ReadPrimary
  <2>4. CASE ReadRecovery(u)
    BY <2>4 DEF ReadRecovery
  <2>5. CASE ReadFails(u)
    BY <2>5 DEF ReadFails
  <2>6. CASE Mutate(u)
    BY <2>6 DEF Mutate
  <2>7. CASE MutateNothing(u)
    BY <2>7 DEF MutateNothing
  <2>8. CASE AssertLease(u)
    BY <2>8 DEF AssertLease
  <2>9. CASE RenamePrimary(u)
    BY <2>9 DEF RenamePrimary, Valid
  <2>10. CASE RenameRecovery(u)
    BY <2>10 DEF RenameRecovery, Valid
  <2>11. CASE WriteFails(u)
    BY <2>11 DEF WriteFails
  <2>12. CASE ReleaseLease(u)
    BY <2>12 DEF ReleaseLease
  <2>13. CASE CrashUpdate(u)
    BY <2>13 DEF CrashUpdate
  <2>14. CASE Reclaim(u)
    BY <2>14 DEF Reclaim
  <2> QED
    BY <1>1, <2>1, <2>2, <2>3, <2>4, <2>5, <2>6, <2>7, <2>8, <2>9, <2>10, <2>11,
       <2>12, <2>13, <2>14 DEF UpdateStep
<1>2. ASSUME NEW r \in Reader, ReadStep(r) PROVE StoreTypeOK'
  BY <1>2 DEF ReadStep, StartRead, ReaderPrimary, ReaderRecovery
<1>3. CASE Damage
  BY <1>3 DEF Damage, Missing, Invalid
<1>4. CASE UNCHANGED storeVars
  BY <1>4 DEF storeVars
<1> QED
  BY <1>1, <1>2, <1>3, <1>4 DEF StoreNext

\* Local State is always of its type.
THEOREM StoreTypeCorrect == StoreSpec => []StoreTypeOK
<1>1. StoreInit => StoreTypeOK
  BY InitStoreIInv DEF StoreIInv
<1> QED
  BY <1>1, TypeStep, PTL DEF StoreSpec

-----------------------------------------------------------------------------
\* Files and holder, whatever is done to the files from outside.
LEMMA FilesHolderStep ==
  StoreTypeOK /\ FilesInv /\ HolderInv /\ [StoreNext]_storeVars => FilesInv' /\ HolderInv'
<1> SUFFICES ASSUME StoreTypeOK, FilesInv, HolderInv, [StoreNext]_storeVars
             PROVE  FilesInv' /\ HolderInv'
  OBVIOUS
<1> USE StoreAssumption
    DEF StoreTypeOK, StateFile, UpdatePC, FilesInv, HolderInv, Proceed,
        writerVars, readerVars, fileVars
<1>1. ASSUME NEW u \in Update, UpdateStep(u) PROVE FilesInv' /\ HolderInv'
  <2>1. CASE AcquireLease(u)
    BY <2>1 DEF AcquireLease
  <2>2. CASE AcquireTimeout(u)
    BY <2>2 DEF AcquireTimeout
  <2>3. CASE ReadPrimary(u)
    BY <2>3 DEF ReadPrimary
  <2>4. CASE ReadRecovery(u)
    BY <2>4 DEF ReadRecovery
  <2>5. CASE ReadFails(u)
    BY <2>5 DEF ReadFails
  <2>6. CASE Mutate(u)
    BY <2>6 DEF Mutate
  <2>7. CASE MutateNothing(u)
    BY <2>7 DEF MutateNothing
  <2>8. CASE AssertLease(u)
    BY <2>8 DEF AssertLease
  <2>9. CASE RenamePrimary(u)
    BY <2>9 DEF RenamePrimary, Valid
  <2>10. CASE RenameRecovery(u)
    BY <2>10 DEF RenameRecovery, Valid
  <2>11. CASE WriteFails(u)
    BY <2>11 DEF WriteFails
  <2>12. CASE ReleaseLease(u)
    BY <2>12 DEF ReleaseLease
  <2>13. CASE CrashUpdate(u)
    BY <2>13 DEF CrashUpdate
  <2>14. CASE Reclaim(u)
    BY <2>14 DEF Reclaim, Suspendable
  <2> QED
    BY <1>1, <2>1, <2>2, <2>3, <2>4, <2>5, <2>6, <2>7,
       <2>8, <2>9, <2>10, <2>11, <2>12, <2>13, <2>14 DEF UpdateStep
<1>2. ASSUME NEW r \in Reader, ReadStep(r) PROVE FilesInv' /\ HolderInv'
  BY <1>2 DEF ReadStep, StartRead, ReaderPrimary, ReaderRecovery
<1>3. CASE Damage
  BY <1>3 DEF Damage, Missing, Invalid
<1>4. CASE UNCHANGED storeVars
  BY <1>4 DEF storeVars
<1> QED
  BY <1>1, <1>2, <1>3, <1>4 DEF StoreNext

\* The stronger facts, as long as there was no damage: damage never decreases.
LEMMA UndamagedStep ==
  StoreIInv /\ [StoreNext]_storeVars /\ damage' = 0
    => UndamagedFiles' /\ UndamagedHolder' /\ UndamagedReaders'
<1> SUFFICES ASSUME StoreIInv, [StoreNext]_storeVars, damage' = 0
             PROVE  UndamagedFiles' /\ UndamagedHolder' /\ UndamagedReaders'
  OBVIOUS
<1>0. ~Damage /\ damage = 0
  BY DEF StoreIInv, StoreTypeOK, StoreNext, UpdateStep, ReadStep, Damage, storeVars, AcquireLease,
         AcquireTimeout, ReadPrimary, ReadRecovery, ReadFails, Mutate,
         MutateNothing, AssertLease, RenamePrimary, RenameRecovery, WriteFails,
         ReleaseLease, CrashUpdate, Reclaim, StartRead, ReaderPrimary, ReaderRecovery
<1> USE <1>0, StoreAssumption
    DEF StoreIInv, StoreTypeOK, StateFile, UpdatePC, FilesInv, HolderInv, UndamagedFiles,
        UndamagedHolder, UndamagedReaders, Proceed, writerVars, readerVars, fileVars
<1>1. ASSUME NEW u \in Update, UpdateStep(u)
      PROVE UndamagedFiles' /\ UndamagedHolder' /\ UndamagedReaders'
  <2>1. CASE AcquireLease(u)
    BY <2>1 DEF AcquireLease
  <2>2. CASE AcquireTimeout(u)
    BY <2>2 DEF AcquireTimeout
  <2>3. CASE ReadPrimary(u)
    BY <2>3 DEF ReadPrimary
  <2>4. CASE ReadRecovery(u)
    <3>1. UndamagedFiles' /\ UndamagedReaders'
      BY <2>4 DEF ReadRecovery
    <3>2. lease = u => recovery.state = {} /\ committed = {}
      BY <2>4 DEF ReadRecovery
    <3>a. /\ upc' = [upc EXCEPT ![u] = "mutate"]
          /\ local' = [local EXCEPT ![u] = recovery.state]
          /\ UNCHANGED <<lease, primary, committed>>
      BY <2>4 DEF ReadRecovery
    <3>3. UndamagedHolder'
      <4> SUFFICES ASSUME NEW v \in Update
                   PROVE  /\ upc'[v] # "sawInvalid"
                          /\ lease' = v /\ upc'[v] = "mutate" => local'[v] = committed'
                          /\ lease' = v /\ upc'[v] \in {"assertOwned", "writePrimary"}
                               => local'[v] = committed' \cup {v}
                          /\ upc'[v] = "writeRecovery" => primary'.kind = "valid"
        OBVIOUS
      <4>1. CASE v = u
        BY <3>2, <3>a, <4>1, ZenonT(60)
      <4>2. CASE v # u
        BY <3>a, <4>2
      <4> QED
        BY <4>1, <4>2
    <3> QED
      BY <3>1, <3>3
  <2>5. CASE ReadFails(u)
    BY <2>5 DEF ReadFails
  <2>6. CASE Mutate(u)
    BY <2>6 DEF Mutate
  <2>7. CASE MutateNothing(u)
    BY <2>7 DEF MutateNothing
  <2>8. CASE AssertLease(u)
    BY <2>8 DEF AssertLease
  <2>9. CASE RenamePrimary(u)
    BY <2>9 DEF RenamePrimary, Valid
  <2>10. CASE RenameRecovery(u)
    BY <2>10 DEF RenameRecovery, Valid
  <2>11. CASE WriteFails(u)
    BY <2>11 DEF WriteFails
  <2>12. CASE ReleaseLease(u)
    BY <2>12 DEF ReleaseLease
  <2>13. CASE CrashUpdate(u)
    BY <2>13 DEF CrashUpdate
  <2>14. CASE Reclaim(u)
    BY <2>14 DEF Reclaim, Suspendable
  <2> QED
    BY <1>1, <2>1, <2>2, <2>3, <2>4, <2>5, <2>6, <2>7,
       <2>8, <2>9, <2>10, <2>11, <2>12, <2>13, <2>14 DEF UpdateStep
<1>2. ASSUME NEW r \in Reader, ReadStep(r)
      PROVE UndamagedFiles' /\ UndamagedHolder' /\ UndamagedReaders'
  BY <1>2 DEF ReadStep, StartRead, ReaderPrimary, ReaderRecovery
<1>3. CASE UNCHANGED storeVars
  BY <1>3 DEF storeVars
<1> QED
  BY <1>0, <1>1, <1>2, <1>3 DEF StoreNext

LEMMA IInvariant == StoreSpec => []StoreIInv
<1>1. StoreIInv /\ [StoreNext]_storeVars => StoreIInv'
  <2> SUFFICES ASSUME StoreIInv, [StoreNext]_storeVars PROVE StoreIInv'
    OBVIOUS
  <2>1. StoreTypeOK'
    BY TypeStep DEF StoreIInv
  <2>2. FilesInv' /\ HolderInv'
    BY FilesHolderStep DEF StoreIInv
  <2>3. damage' = 0 => UndamagedFiles' /\ UndamagedHolder' /\ UndamagedReaders'
    BY UndamagedStep
  <2> QED
    BY <2>1, <2>2, <2>3 DEF StoreIInv
<1> QED
  BY InitStoreIInv, <1>1, PTL DEF StoreSpec

-----------------------------------------------------------------------------
\* For any number of concurrent updates, crashes and reclaimed leases: what is
\* stored is exactly what was committed.
THEOREM NoUpdateIsLost == StoreSpec => []NoLostUpdate
<1>1. StoreIInv => NoLostUpdate
  BY DEF StoreIInv, NoLostUpdate, FilesInv, UndamagedFiles, Content, StoreTypeOK, StateFile
<1> QED
  BY <1>1, IInvariant, PTL

\* The recovery file never runs ahead, even when files are destroyed at any time.
THEOREM RecoveryBehind == StoreSpec => []RecoveryNotAhead
<1>1. StoreIInv => RecoveryNotAhead
  BY DEF StoreIInv, RecoveryNotAhead, FilesInv
<1> QED
  BY <1>1, IInvariant, PTL

\* Reads without the lock never throw and return a state that was current
\* between their begin and their end.
THEOREM LockFreeReads == StoreSpec => []ReadersSeeCommitted
<1>1. StoreIInv => ReadersSeeCommitted
  BY DEF StoreIInv, ReadersSeeCommitted, UndamagedReaders
<1> QED
  BY <1>1, IInvariant, PTL

-----------------------------------------------------------------------------
(***************************************************************************)
(* One lost file.  An update that was acknowledged is in every file that   *)
(* can be read and in what the holder of the lease is about to write; two  *)
(* files can be read before the first damage and one after it.             *)
(***************************************************************************)
Acked(u) == u \in committed /\ outcome[u] = "ok"

Writing == {"assertOwned", "writePrimary", "writeRecovery"}

OutcomeInv == \A u \in Update :
  /\ outcome[u] = "ok" => upc[u] \in {"release", "done", "crashed"}
  /\ u \in committed => upc[u] \in {"writeRecovery", "release", "done", "crashed"}
  /\ upc[u] \in Writing => u \in local[u]

Everywhere(u) ==
  /\ primary.kind = "valid" => u \in primary.state
  /\ recovery.kind = "valid" => u \in recovery.state
  /\ \A v \in Update : lease = v /\ upc[v] \in Writing \cup {"mutate"} => u \in local[v]
  /\ primary.kind = "valid" \/ recovery.kind = "valid"
  /\ damage = 0 => primary.kind = "valid" /\ recovery.kind = "valid"

AckedInv == damage <= 1 => \A u \in Update : Acked(u) => Everywhere(u)

LEMMA OutcomeStep == StoreTypeOK /\ OutcomeInv /\ [StoreNext]_storeVars => OutcomeInv'
<1> SUFFICES ASSUME StoreTypeOK, OutcomeInv, [StoreNext]_storeVars PROVE OutcomeInv'
  OBVIOUS
<1> USE DEF StoreTypeOK, OutcomeInv, Writing, Proceed, writerVars, readerVars, fileVars
<1>1. ASSUME NEW u \in Update, UpdateStep(u) PROVE OutcomeInv'
  <2>1. CASE AcquireLease(u) \/ AcquireTimeout(u) \/ ReleaseLease(u) \/ CrashUpdate(u) \/ Reclaim(u)
    BY <2>1 DEF AcquireLease, AcquireTimeout, ReleaseLease, CrashUpdate, Reclaim
  <2>2. CASE ReadPrimary(u)
    BY <2>2 DEF ReadPrimary, StateFile
  <2>5. CASE ReadRecovery(u) \/ ReadFails(u)
    BY <2>5 DEF ReadRecovery, ReadFails
  <2>3. CASE Mutate(u) \/ MutateNothing(u) \/ AssertLease(u)
    BY <2>3 DEF Mutate, MutateNothing, AssertLease
  <2>4. CASE RenamePrimary(u) \/ RenameRecovery(u) \/ WriteFails(u)
    BY <2>4 DEF RenamePrimary, RenameRecovery, WriteFails
  <2> QED
    BY <1>1, <2>1, <2>2, <2>3, <2>4, <2>5 DEF UpdateStep
<1>2. ASSUME NEW r \in Reader, ReadStep(r) PROVE OutcomeInv'
  BY <1>2 DEF ReadStep, StartRead, ReaderPrimary, ReaderRecovery
<1>3. CASE Damage
  BY <1>3 DEF Damage
<1>4. CASE UNCHANGED storeVars
  BY <1>4 DEF storeVars
<1> QED
  BY <1>1, <1>2, <1>3, <1>4 DEF StoreNext

\* An update that was acknowledged before the step stays everywhere; the step
\* that acknowledges one has just written the recovery file.
LEMMA AckedStep == StoreIInv /\ OutcomeInv /\ AckedInv /\ [StoreNext]_storeVars => AckedInv'
<1> SUFFICES ASSUME StoreIInv, OutcomeInv, AckedInv, [StoreNext]_storeVars, (damage <= 1)',
                    NEW u \in Update, Acked(u)'
             PROVE  Everywhere(u)'
  BY DEF AckedInv
<1> USE StoreAssumption
    DEF StoreIInv, StoreTypeOK, StateFile, FilesInv, HolderInv, OutcomeInv, AckedInv, Acked,
        Everywhere, Writing, Proceed, writerVars, readerVars, fileVars
<1>1. ASSUME NEW v \in Update, UpdateStep(v) PROVE Everywhere(u)'
  <2>1. CASE AcquireLease(v)
    BY <2>1 DEF AcquireLease
  <2>2. CASE AcquireTimeout(v)
    BY <2>2 DEF AcquireTimeout
  <2>3. CASE ReadPrimary(v)
    BY <2>3 DEF ReadPrimary
  <2>4. CASE ReadRecovery(v)
    BY <2>4 DEF ReadRecovery
  <2>5. CASE ReadFails(v)
    BY <2>5 DEF ReadFails
  <2>6. CASE Mutate(v)
    BY <2>6 DEF Mutate
  <2>7. CASE MutateNothing(v)
    BY <2>7 DEF MutateNothing
  <2>8. CASE AssertLease(v)
    BY <2>8 DEF AssertLease
  <2>9. CASE RenamePrimary(v)
    BY <2>9 DEF RenamePrimary, Valid
  <2>10. CASE RenameRecovery(v)
    BY <2>10 DEF RenameRecovery, Valid, UndamagedHolder
  <2>11. CASE WriteFails(v)
    BY <2>11 DEF WriteFails
  <2>12. CASE ReleaseLease(v)
    BY <2>12 DEF ReleaseLease
  <2>13. CASE CrashUpdate(v)
    BY <2>13 DEF CrashUpdate
  <2>14. CASE Reclaim(v)
    BY <2>14 DEF Reclaim
  <2> QED
    BY <1>1, <2>1, <2>2, <2>3, <2>4, <2>5, <2>6, <2>7,
       <2>8, <2>9, <2>10, <2>11, <2>12, <2>13, <2>14 DEF UpdateStep
<1>2. ASSUME NEW r \in Reader, ReadStep(r) PROVE Everywhere(u)'
  BY <1>2 DEF ReadStep, StartRead, ReaderPrimary, ReaderRecovery
<1>3. CASE Damage
  BY <1>3 DEF Damage, Missing, Invalid
<1>4. CASE UNCHANGED storeVars
  BY <1>4 DEF storeVars
<1> QED
  BY <1>1, <1>2, <1>3, <1>4 DEF StoreNext

\* Whoever dies between the two renames, and whichever of the two files is
\* then lost or garbled: no update that was acknowledged is lost with it.
THEOREM AcknowledgedSurvives == StoreSpec => []AcknowledgedSurvivesOneLoss
<1>1. StoreInit => OutcomeInv /\ AckedInv
  BY DEF StoreInit, OutcomeInv, Writing, AckedInv, Acked
<1>2. StoreTypeOK /\ AckedInv => AcknowledgedSurvivesOneLoss
  BY DEF StoreTypeOK, AckedInv, Acked, Everywhere, AcknowledgedSurvivesOneLoss, Readable, Content
<1>3. StoreIInv => StoreTypeOK
  BY DEF StoreIInv
<1> QED
  BY <1>1, <1>2, <1>3, IInvariant, OutcomeStep, AckedStep, PTL DEF StoreSpec

-----------------------------------------------------------------------------
(***************************************************************************)
(* The refinement.  Only RenamePrimary applies an update; by HolderInv and *)
(* UndamagedHolder what it writes is the current value plus the update.    *)
(***************************************************************************)
LEMMA InitRefines == StoreInit => Atomic!AInit
BY DEF StoreInit, Atomic!AInit, AbstractPhase, Content, Missing

LEMMA StepRefines ==
  /\ StoreIInv /\ StoreIInv'
  /\ damage = 0 /\ (damage = 0)'
  /\ [StoreNext]_storeVars
  => [Atomic!ANext]_<<Content(primary, recovery), [u \in Update |-> AbstractPhase(u)]>>
<1> DEFINE Val == Content(primary, recovery)
           Ph  == [u \in Update |-> AbstractPhase(u)]
<1> SUFFICES ASSUME StoreIInv, StoreIInv', damage = 0, damage' = 0, [StoreNext]_storeVars
             PROVE  [Atomic!ANext]_<<Val, Ph>>
  OBVIOUS
<1>1. Val = committed /\ Val' = committed'
  BY DEF StoreIInv, FilesInv, UndamagedFiles, Content, StoreTypeOK, StateFile
<1>2. ASSUME NEW u \in Update, NEW to, upc' = [upc EXCEPT ![u] = to]
      PROVE  \A v \in Update \ {u} : Ph'[v] = Ph[v]
  BY <1>2 DEF AbstractPhase, StoreIInv, StoreTypeOK
<1>3. ASSUME NEW u \in Update, UpdateStep(u)
      PROVE  [Atomic!ANext]_<<Val, Ph>>
  <2> USE DEF Proceed, StoreIInv, StoreTypeOK, UpdatePC
  <2>1. CASE AcquireLease(u)
    <3>1. Ph[u] = "idle" /\ Ph' = [Ph EXCEPT ![u] = "running"] /\ Val' = Val
      BY <1>1, <2>1 DEF AcquireLease, AbstractPhase
    <3> QED
      BY <3>1 DEF Atomic!ANext, Atomic!Begin
  <2>2. CASE RenamePrimary(u)
    <3>1. Ph[u] = "running" /\ Ph' = [Ph EXCEPT ![u] = "applied"]
      BY <2>2, ZenonT(60) DEF RenamePrimary, AbstractPhase
    <3>2. Val' = Val \cup {u}
      BY <1>1, <2>2 DEF RenamePrimary
    <3> QED
      BY <3>1, <3>2 DEF Atomic!ANext, Atomic!Apply
  <2>3. ASSUME upc'[u] \in {"release", "done", "crashed"}, Val' = Val,
               \E to \in UpdatePC : upc' = [upc EXCEPT ![u] = to]
        PROVE  [Atomic!ANext]_<<Val, Ph>>
    <3>1. Ph' = [Ph EXCEPT ![u] = "ended"]
      BY <2>3 DEF AbstractPhase
    <3>2. CASE Ph[u] = "ended"
      <4>1. Ph' = Ph
        BY <3>1, <3>2
      <4> QED
        BY <4>1, <2>3
    <3>3. CASE Ph[u] # "ended"
      BY <3>1, <3>3, <2>3 DEF Atomic!ANext, Atomic!End
    <3> QED
      BY <3>2, <3>3
  <2>4. CASE \/ AcquireTimeout(u) \/ ReadFails(u) \/ MutateNothing(u) \/ RenameRecovery(u)
             \/ WriteFails(u) \/ ReleaseLease(u) \/ CrashUpdate(u)
    BY <1>1, <2>3, <2>4
       DEF AcquireTimeout, ReadFails, MutateNothing, RenameRecovery, WriteFails,
           ReleaseLease, CrashUpdate
  <2>5. CASE ReadPrimary(u) \/ ReadRecovery(u) \/ Mutate(u) \/ Reclaim(u)
    <3>1. Ph' = Ph
      BY <2>5 DEF ReadPrimary, ReadRecovery, Mutate, Reclaim, AbstractPhase, StateFile
    <3> QED
      BY <1>1, <2>5, <3>1 DEF ReadPrimary, ReadRecovery, Mutate, Reclaim
  <2>6. CASE AssertLease(u)
    <3>1. CASE lease = u
      <4>1. Ph' = Ph
        BY <2>6, <3>1 DEF AssertLease, AbstractPhase
      <4> QED
        BY <1>1, <2>6, <4>1 DEF AssertLease
    <3>2. CASE lease # u
      BY <1>1, <2>3, <2>6, <3>2 DEF AssertLease
    <3> QED
      BY <3>1, <3>2
  <2> QED
    BY <1>3, <2>1, <2>2, <2>4, <2>5, <2>6 DEF UpdateStep
<1>4. ASSUME NEW r \in Reader, ReadStep(r) PROVE UNCHANGED <<Val, Ph>>
  BY <1>1, <1>4
     DEF ReadStep, StartRead, ReaderPrimary, ReaderRecovery, AbstractPhase, writerVars
<1>5. CASE UNCHANGED storeVars
  BY <1>1, <1>5 DEF storeVars, writerVars, AbstractPhase
<1>6. ~Damage
  BY DEF Damage
<1> QED
  BY <1>3, <1>4, <1>5, <1>6 DEF StoreNext

LEMMA DamageStays == StoreTypeOK /\ [StoreNext]_storeVars /\ damage' = 0 => damage = 0
BY DEF StoreTypeOK, StoreNext, UpdateStep, ReadStep, Damage, storeVars, AcquireLease, AcquireTimeout,
       ReadPrimary, ReadRecovery, ReadFails, Mutate, MutateNothing, AssertLease,
       RenamePrimary, RenameRecovery, WriteFails, ReleaseLease, CrashUpdate, Reclaim, StartRead,
       ReaderPrimary, ReaderRecovery

LEMMA NeverDamaged == StoreSpec /\ MaxDamage = 0 => [](damage = 0)
<1> DEFINE Off == MaxDamage = 0 /\ damage = 0
<1>1. StoreInit /\ MaxDamage = 0 => Off
  BY DEF StoreInit
<1>2. Off /\ [StoreNext]_storeVars => Off'
  BY DEF StoreNext, UpdateStep, ReadStep, Damage, storeVars, AcquireLease,
         AcquireTimeout, ReadPrimary, ReadRecovery, ReadFails, Mutate,
         MutateNothing, AssertLease, RenamePrimary, RenameRecovery, WriteFails,
         ReleaseLease, CrashUpdate, Reclaim, StartRead, ReaderPrimary, ReaderRecovery
<1>3. Off => damage = 0
  OBVIOUS
<1> QED
  BY <1>1, <1>2, <1>3, PTL DEF StoreSpec

\* As long as nothing has destroyed a file, every step is a step of one atomic
\* read-modify-write per update or invisible.
THEOREM AtomicUntilDamaged == StoreSpec => UpdatesAreAtomic
<1>1. StoreIInv /\ StoreIInv' /\ [StoreNext]_storeVars
      => [damage' = 0 => Atomic!ANext]_<<Content(primary, recovery),
                                        [u \in Update |-> AbstractPhase(u)]>>
  BY StepRefines, DamageStays DEF StoreIInv
<1> QED
  BY <1>1, IInvariant, InitRefines, PTL DEF StoreSpec, UpdatesAreAtomic, Atomic!aVars

\* Where nothing ever does, the store implements the abstract one.
COROLLARY Refinement == StoreSpec /\ MaxDamage = 0 => Atomic!ASpec
BY NeverDamaged, IInvariant, InitRefines, StepRefines, PTL
   DEF StoreSpec, Atomic!ASpec, Atomic!aVars

=============================================================================
