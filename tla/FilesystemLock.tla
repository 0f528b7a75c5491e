--------------------------- MODULE FilesystemLock ---------------------------
(***************************************************************************)
(* acquireFilesystemLock: a lock directory holding one owner file per      *)
(* generation, shared by processes that may crash or stall.  An action is  *)
(* one file system call; everything between two calls interleaves.         *)
(*                                                                         *)
(* Time is abstracted to what the code asks of it: whether an mtime lies   *)
(* more than staleAfterMs back.  It may do so of a file nobody touches and *)
(* of the directory, whose mtime heartbeats leave alone; it never does of  *)
(* a file whose owner runs (heartbeatMs < staleAfterMs), nor between two   *)
(* adjacent calls of a process that does not stall.                        *)
(***************************************************************************)
EXTENDS Naturals, FiniteSets

CONSTANTS
  Process,   \* calls of acquireFilesystemLock; each writes at most one owner file
  Owner,     \* the name <token>.owner
  Gone,      \* the place of an owner file that does not exist
  MayCrash,  \* processes that may die at any point
  MayStall   \* processes that may be suspended for longer than staleAfterMs

\* The names <token>.owner.reclaim.<uuid> a process may choose.  No more are needed:
\* each other process remembers at most one of them for a generation.
Reclaims == Process \X (1..Cardinality(Process))

ASSUME LockAssumption ==
  /\ IsFiniteSet(Process)
  /\ Owner # Gone /\ Gone \notin Process /\ {Owner, Gone} \cap Reclaims = {}
  /\ MayCrash \subseteq Process /\ MayStall \subseteq Process

VARIABLES
  dir,      \* what is at lockPath, whether its mtime is old, and who set it
  file,     \* the owner file of each generation: its name, whether it is old
  pc,       \* where each call is
  old,      \* what a call concluded from the mtime lstat gave it
  todo,     \* the entries a call has still to look at
  cur,      \* the entry it is looking at
  robbed    \* history: a directory was removed while its maker was about to write

vars == <<dir, file, pc, old, todo, cur, robbed>>

None == [kind |-> "none", old |-> FALSE, by |-> Gone]
NoFile == [at |-> Gone, old |-> FALSE]
NoEntry == [of |-> Gone, at |-> Gone]

Entries == {[of |-> g, at |-> file[g].at] : g \in {p \in Process : file[p].at # Gone}}
There(e) == e \in Entries

\* A uuid for the reclaim of e is new: nobody has heard of it.
Fresh(p, e) ==
  {n \in Reclaims : n[1] = p
     /\ \A q \in Process : [e EXCEPT !.at = n] \notin todo[q] \cup {cur[q]}}

Goto(p, from, to) == pc[p] = from /\ pc' = [pc EXCEPT ![p] = to]
Touched(p) == [kind |-> "dir", old |-> FALSE, by |-> p]

\* rmdir, where ENOENT and ENOTEMPTY do no harm
RemoveIfEmpty ==
  IF dir.kind = "dir" /\ Entries = {}
  THEN dir' = None /\ robbed' = (robbed \/ pc[dir.by] = "write")
  ELSE UNCHANGED <<dir, robbed>>

Init ==
  /\ dir \in {None, [None EXCEPT !.kind = "legacy"]}
  /\ file = [p \in Process |-> NoFile]
  /\ pc = [p \in Process |-> "mkdir"]
  /\ old = [p \in Process |-> FALSE]
  /\ todo = [p \in Process |-> {}]
  /\ cur = [p \in Process |-> NoEntry]
  /\ robbed = FALSE

Scan == <<old, todo, cur>>

(***************************************************************************)
(* acquireFilesystemLock                                                   *)
(***************************************************************************)
\* Mutant: mkdir with recursive: true.
MkdirRecursive(p) ==
  /\ Goto(p, "mkdir", "write")
  /\ dir' = IF dir.kind = "none" THEN Touched(p) ELSE dir
  /\ UNCHANGED <<file, Scan, robbed>>

Mkdir(p) ==
  /\ IF dir.kind = "none"
     THEN Goto(p, "mkdir", "write") /\ dir' = Touched(p)
     ELSE Goto(p, "mkdir", "lstat") /\ UNCHANGED dir
  /\ UNCHANGED <<file, Scan, robbed>>

WriteOwner(p) ==
  /\ IF dir.kind = "dir"
     THEN /\ Goto(p, "write", "held")
          /\ file' = [file EXCEPT ![p] = [at |-> Owner, old |-> FALSE]]
          /\ dir' = Touched(p)
     ELSE Goto(p, "write", "undoRetry") /\ UNCHANGED <<dir, file>>
  /\ UNCHANGED <<Scan, robbed>>

\* The disk is full, say.
WriteOwnerFails(p) ==
  /\ Goto(p, "write", "undoFail")
  /\ UNCHANGED <<dir, file, Scan, robbed>>

Undo(p) ==
  /\ Goto(p, "undoRetry", "mkdir") \/ Goto(p, "undoFail", "done")
  /\ RemoveIfEmpty
  /\ UNCHANGED <<file, Scan>>

\* The deadline has passed, or the call was cancelled.
GiveUp(p) ==
  /\ Goto(p, "mkdir", "done") \/ Goto(p, "wait", "done")
  /\ UNCHANGED <<dir, file, Scan, robbed>>

Retry(p) ==
  /\ Goto(p, "wait", "mkdir")
  /\ old' = [old EXCEPT ![p] = FALSE]
  /\ UNCHANGED <<dir, file, todo, cur, robbed>>

(***************************************************************************)
(* The lease                                                               *)
(***************************************************************************)
Heartbeat(p) ==
  /\ pc[p] \in {"held", "asserted"} /\ file[p].at = Owner /\ file[p].old
  /\ file' = [file EXCEPT ![p].old = FALSE]
  /\ UNCHANGED <<dir, pc, Scan, robbed>>

\* assertOwned: FilesystemLockLostError makes the caller release.
AssertOwned(p) ==
  /\ IF file[p].at = Owner
     THEN Goto(p, "held", "asserted") /\ file' = [file EXCEPT ![p].old = FALSE]
     ELSE Goto(p, "held", "rm") /\ UNCHANGED file
  /\ UNCHANGED <<dir, Scan, robbed>>

Release(p) ==
  /\ Goto(p, "held", "rm") \/ Goto(p, "asserted", "rm")
  /\ UNCHANGED <<dir, file, Scan, robbed>>

\* releaseGeneration
RmOwner(p) ==
  /\ Goto(p, "rm", "rmdir")
  /\ IF file[p].at = Owner
     THEN file' = [file EXCEPT ![p].at = Gone] /\ dir' = Touched(p)
     ELSE UNCHANGED <<file, dir>>
  /\ UNCHANGED <<Scan, robbed>>

Rmdir(p) ==
  /\ IF dir.kind = "dir" /\ Entries # {} THEN Goto(p, "rmdir", "relist") ELSE Goto(p, "rmdir", "done")
  /\ RemoveIfEmpty
  /\ UNCHANGED <<file, Scan>>

\* While somebody holds the file under a reclaim name it waits for its return,
\* until a deadline.
Relist(p) ==
  /\ \/ file[p].at \notin {Owner, Gone} /\ Goto(p, "relist", "rm")
     \/ Goto(p, "relist", "done")
  /\ UNCHANGED <<dir, file, Scan, robbed>>

(***************************************************************************)
(* recoverStaleLock                                                        *)
(***************************************************************************)
Lstat(p) ==
  /\ Goto(p, "lstat", CASE dir.kind = "none" -> "wait"
                        [] dir.kind = "legacy" -> IF dir.old THEN "rmLegacy" ELSE "wait"
                        [] dir.kind = "dir" -> "readdir")
  /\ old' = [old EXCEPT ![p] = dir.old]
  /\ UNCHANGED <<dir, file, todo, cur, robbed>>

\* rm refuses a directory: the whole acquisition fails then.
RmLegacy(p) ==
  /\ IF dir.kind = "dir"
     THEN Goto(p, "rmLegacy", "done") /\ UNCHANGED dir
     ELSE Goto(p, "rmLegacy", "wait") /\ dir' = None
  /\ UNCHANGED <<file, Scan, robbed>>

Readdir(p) ==
  /\ Goto(p, "readdir", IF Entries # {} THEN "visit"
                        ELSE IF dir.kind = "dir" /\ old[p] THEN "rmEmpty" ELSE "wait")
  /\ todo' = [todo EXCEPT ![p] = Entries]
  /\ UNCHANGED <<dir, file, old, cur, robbed>>

RmEmpty(p) ==
  /\ Goto(p, "rmEmpty", "wait")
  /\ RemoveIfEmpty
  /\ UNCHANGED <<file, Scan>>

\* stat of the next entry
Visit(p) ==
  /\ \E e \in todo[p] :
       /\ todo' = [todo EXCEPT ![p] = @ \ {e}]
       /\ IF There(e) /\ file[e.of].old
          THEN /\ Goto(p, "visit", IF e.at = Owner THEN "rename" ELSE "rmAbandoned")
               /\ cur' = [cur EXCEPT ![p] = e]
          ELSE Goto(p, "visit", "visit") /\ UNCHANGED cur
  /\ UNCHANGED <<dir, file, old, robbed>>

Visited(p) ==
  /\ todo[p] = {} /\ Goto(p, "visit", "wait")
  /\ cur' = [cur EXCEPT ![p] = NoEntry]
  /\ UNCHANGED <<dir, file, old, todo, robbed>>

\* tryReclaimOwner: the file is renamed to a new name, looked at again,
\* and put back or removed.
RenameToReclaim(p) ==
  /\ IF There(cur[p])
     THEN /\ Goto(p, "rename", "statReclaim")
          /\ \E name \in Fresh(p, cur[p]) :
               /\ file' = [file EXCEPT ![cur[p].of].at = name]
               /\ cur' = [cur EXCEPT ![p].at = name]
          /\ dir' = Touched(p)
     ELSE Goto(p, "rename", "visit") /\ UNCHANGED <<file, dir, cur>>
  /\ UNCHANGED <<old, todo, robbed>>

\* Mutant: what was renamed is removed without a second look.
NoSecondLook(p) ==
  /\ Goto(p, "statReclaim", "rmReclaim")
  /\ UNCHANGED <<dir, file, Scan, robbed>>

StatReclaim(p) ==
  /\ Goto(p, "statReclaim", IF ~There(cur[p]) THEN "visit"
                            ELSE IF file[cur[p].of].old THEN "rmReclaim" ELSE "putBack")
  /\ UNCHANGED <<dir, file, Scan, robbed>>

PutBack(p) ==
  /\ Goto(p, "putBack", "visit")
  /\ IF There(cur[p])
     THEN file' = [file EXCEPT ![cur[p].of].at = Owner] /\ dir' = Touched(p)
     ELSE UNCHANGED <<file, dir>>
  /\ UNCHANGED <<Scan, robbed>>

\* Mutant: an abandoned reclaim file is left where it is.
RmOwnReclaimOnly(p) ==
  /\ Goto(p, "rmReclaim", "rmdirAfter") \/ Goto(p, "rmAbandoned", "rmdirAfter")
  /\ IF There(cur[p]) /\ cur[p].at[1] = p
     THEN file' = [file EXCEPT ![cur[p].of].at = Gone] /\ dir' = Touched(p)
     ELSE UNCHANGED <<file, dir>>
  /\ UNCHANGED <<Scan, robbed>>

\* the rm of tryReclaimOwner and of tryRemoveAbandonedReclaim
RmReclaim(p) ==
  /\ Goto(p, "rmReclaim", "rmdirAfter") \/ Goto(p, "rmAbandoned", "rmdirAfter")
  /\ IF There(cur[p])
     THEN file' = [file EXCEPT ![cur[p].of].at = Gone] /\ dir' = Touched(p)
     ELSE UNCHANGED <<file, dir>>
  /\ UNCHANGED <<Scan, robbed>>

RmdirAfter(p) ==
  /\ Goto(p, "rmdirAfter", "visit")
  /\ RemoveIfEmpty
  /\ UNCHANGED <<file, Scan>>

(***************************************************************************)
(* Crashes and the passing of time                                         *)
(***************************************************************************)
Crash(p) ==
  /\ p \in MayCrash /\ pc[p] \notin {"done", "crashed"}
  /\ pc' = [pc EXCEPT ![p] = "crashed"]
  /\ UNCHANGED <<dir, file, Scan, robbed>>

Slow(p) == p \in MayStall \/ pc[p] \in {"done", "crashed"}

AgeFile(g) ==
  /\ file[g].at # Gone /\ ~file[g].old
  /\ IF file[g].at = Owner THEN Slow(g) ELSE Slow(file[g].at[1])
  /\ file' = [file EXCEPT ![g].old = TRUE]
  /\ UNCHANGED <<dir, pc, Scan, robbed>>

AgeDir ==
  /\ dir.kind # "none" /\ ~dir.old
  /\ dir.kind = "dir" =>
       pc[dir.by] \in {"held", "asserted", "wait", "mkdir"} \/ Slow(dir.by)
  /\ dir' = [dir EXCEPT !.old = TRUE]
  /\ UNCHANGED <<file, pc, Scan, robbed>>

-----------------------------------------------------------------------------
Acquire(p) ==
  Mkdir(p) \/ WriteOwner(p) \/ Undo(p) \/ Retry(p)
  \/ Lstat(p) \/ RmLegacy(p) \/ Readdir(p) \/ RmEmpty(p) \/ Visit(p) \/ Visited(p)
  \/ RenameToReclaim(p) \/ StatReclaim(p) \/ PutBack(p) \/ RmReclaim(p) \/ RmdirAfter(p)

Hold(p) == AssertOwned(p) \/ Release(p) \/ RmOwner(p) \/ Rmdir(p) \/ Relist(p)

Time == AgeDir \/ \E g \in Process : AgeFile(g)

Next ==
  \/ \E p \in Process : \/ Acquire(p) \/ WriteOwnerFails(p) \/ GiveUp(p)
                        \/ Hold(p) \/ Heartbeat(p) \/ Crash(p)
  \/ Time

Spec == Init /\ [][Next]_vars

\* Processes go on, time passes, and holders release.
FairSpec ==
  /\ Spec
  /\ \A p \in Process : WF_vars(Acquire(p)) /\ WF_vars(Hold(p)) /\ WF_vars(AgeFile(p))
  /\ WF_vars(AgeDir)

-----------------------------------------------------------------------------
(***************************************************************************)
(* Properties                                                              *)
(***************************************************************************)
PC == {"mkdir", "write", "undoRetry", "undoFail", "wait", "held", "asserted", "rm", "rmdir",
       "relist", "lstat", "rmLegacy", "readdir", "rmEmpty", "visit", "rename", "statReclaim",
       "putBack", "rmReclaim", "rmAbandoned", "rmdirAfter", "done", "crashed"}

Place == Reclaims \cup {Owner, Gone}

TypeOK ==
  /\ dir \in [kind : {"none", "legacy", "dir"}, old : BOOLEAN, by : Process \cup {Gone}]
  /\ file \in [Process -> [at : Place, old : BOOLEAN]]
  /\ pc \in [Process -> PC]
  /\ old \in [Process -> BOOLEAN]
  /\ todo \in [Process -> SUBSET [of : Process, at : Reclaims \cup {Owner}]]
  /\ cur \in [Process -> [of : Process \cup {Gone}, at : Place]]
  /\ robbed \in BOOLEAN
  /\ dir.kind = "dir" => dir.by \in Process
  /\ dir.kind # "dir" => Entries = {}

\* p has the lock and has touched its owner file within staleAfterMs.
Owns(p) == pc[p] \in {"held", "asserted"} /\ ~file[p].old

\* The owner file of a process that has the lock and renews it is never removed,
\* however long others take between looking at it and acting on what they saw:
\* at worst it is under the name of a reclaimer that puts it back.
FreshOwnerKeepsFile == \A p \in Process : Owns(p) => file[p].at # Gone

\* Two processes own the lock at once only after a directory was removed between
\* its maker's mkdir and write: staleness, reclaiming, putting back, abandoned
\* reclaims and releases never lead there on their own.
OneOwnerUnlessRobbed ==
  ~robbed => \A p, q \in Process : (Owns(p) /\ Owns(q)) => p = q

\* filesystem-lock.test.mjs: of two reclaimers of a stale lock that enter one
\* after the other, "maxActive" is 1.
OneOwner == \A p, q \in Process : (Owns(p) /\ Owns(q)) => p = q

\* Whoever crashes, wherever: every other call gets the lock in the end, or fails;
\* it need not wait for its deadline.  (Two calls that take each other's directory away might go
\* on doing so until their deadlines.)
NobodyBlocksTheLock ==
  \A p \in Process : (pc[p] = "mkdir") ~> (pc[p] \in {"held", "done", "crashed"} \/ robbed)

=============================================================================
