----------------------------- MODULE StateStore -----------------------------
(***************************************************************************)
(* JsonStateStore: Local State kept in a primary file and a recovery file, *)
(* updated by read-modify-write under the lease of FilesystemLock, read    *)
(* without any lock.  A file's content is abstracted to the set of the     *)
(* updates it contains: update u adds u.  Each file is replaced by an      *)
(* atomic rename; everything between two file operations may interleave.   *)
(***************************************************************************)
EXTENDS Naturals, FiniteSets

CONSTANTS
  Update,      \* the calls of JsonStateStore.update, in any process
  Reader,      \* the calls of JsonStateStore.read made without the lock
  NoOne,       \* the lease holder when the lock is free
  MaxDamage    \* how many times something else may destroy a file

ASSUME StoreAssumption ==
  /\ NoOne \notin Update
  /\ MaxDamage \in Nat

VARIABLES
  primary,     \* state.json
  recovery,    \* state.json.recovery
  lease,       \* who owns state.json.lock
  upc,         \* where each update is
  local,       \* the state an update has read, then the one it will write
  outcome,     \* how an update ended for its caller
  rpc,         \* where each lock-free read is
  result,      \* what a lock-free read returned
  committed,   \* history: the updates whose primary rename happened
  seen,        \* history: committed when the lock-free read began
  damage       \* how often a file was destroyed from outside

writerVars == <<lease, upc, local, outcome, committed>>
readerVars == <<rpc, result, seen>>
fileVars   == <<primary, recovery>>
storeVars  == <<fileVars, writerVars, readerVars, damage>>

(***************************************************************************)
(* StateFileRead: what readStateFile makes of a file.                      *)
(***************************************************************************)
StateFile == [kind : {"valid", "missing", "invalid"}, state : SUBSET Update]
Valid(s) == [kind |-> "valid", state |-> s]
Missing  == [kind |-> "missing", state |-> {}]
Invalid  == [kind |-> "invalid", state |-> {}]

\* JsonStateStore.read over the two files: what it returns, when it returns.
Readable(p, r) ==
  \/ p.kind = "valid"
  \/ r.kind = "valid"
  \/ p.kind = "missing" /\ r.kind = "missing"

Content(p, r) == IF p.kind = "valid" THEN p.state ELSE r.state

UpdatePC == {"idle", "readPrimary", "sawMissing", "sawInvalid", "mutate",
             "assertOwned", "writePrimary", "writeRecovery", "release", "done",
             "crashed"}

\* Positions in which a suspended process may lose its lease.  assertOwned
\* touches the owner file, so that past it nobody may reclaim the lease for
\* staleAfterMs; the two renames are taken to need less than that.
Suspendable == {"readPrimary", "sawMissing", "sawInvalid", "mutate", "assertOwned"}

StoreInit ==
  /\ primary = Missing /\ recovery = Missing
  /\ lease = NoOne
  /\ upc = [u \in Update |-> "idle"]
  /\ local = [u \in Update |-> {}]
  /\ outcome = [u \in Update |-> "none"]
  /\ rpc = [r \in Reader |-> "idle"]
  /\ result = [r \in Reader |-> {}]
  /\ seen = [r \in Reader |-> {}]
  /\ committed = {}
  /\ damage = 0

Proceed(u, from, to) == upc[u] = from /\ upc' = [upc EXCEPT ![u] = to]

\* Mutant: the lock is taken whoever holds it.
AcquireAnyway(u) ==
  /\ Proceed(u, "idle", "readPrimary")
  /\ lease' = u
  /\ UNCHANGED <<fileVars, local, outcome, committed, readerVars, damage>>

(***************************************************************************)
(* JsonStateStore.update                                                   *)
(***************************************************************************)
AcquireLease(u) ==
  /\ Proceed(u, "idle", "readPrimary")
  /\ lease = NoOne /\ lease' = u
  /\ UNCHANGED <<fileVars, local, outcome, committed, readerVars, damage>>

\* FilesystemLockTimeoutError: the call throws without having owned the lock.
AcquireTimeout(u) ==
  /\ Proceed(u, "idle", "done")
  /\ outcome' = [outcome EXCEPT ![u] = "failed"]
  /\ UNCHANGED <<fileVars, lease, local, committed, readerVars, damage>>

ReadPrimary(u) ==
  /\ Proceed(u, "readPrimary", CASE primary.kind = "valid"   -> "mutate"
                              [] primary.kind = "missing" -> "sawMissing"
                              [] primary.kind = "invalid" -> "sawInvalid")
  /\ local' = [local EXCEPT ![u] = primary.state]
  /\ UNCHANGED <<fileVars, lease, outcome, committed, readerVars, damage>>

ReadRecovery(u) ==
  /\ \/ /\ recovery.kind = "valid"
        /\ \E from \in {"sawMissing", "sawInvalid"} : Proceed(u, from, "mutate")
     \/ recovery.kind = "missing" /\ Proceed(u, "sawMissing", "mutate")
  /\ local' = [local EXCEPT ![u] = recovery.state]
  /\ UNCHANGED <<fileVars, lease, outcome, committed, readerVars, damage>>

\* stateRecoveryError
ReadFails(u) ==
  /\ \/ recovery.kind = "invalid" /\ Proceed(u, "sawMissing", "release")
     \/ recovery.kind # "valid" /\ Proceed(u, "sawInvalid", "release")
  /\ outcome' = [outcome EXCEPT ![u] = "failed"]
  /\ UNCHANGED <<fileVars, lease, local, committed, readerVars, damage>>

\* The caller's function returns a changed state ...
Mutate(u) ==
  /\ Proceed(u, "mutate", "assertOwned")
  /\ local' = [local EXCEPT ![u] = @ \cup {u}]
  /\ UNCHANGED <<fileVars, lease, outcome, committed, readerVars, damage>>

\* ... or the same state, or throws (also when parseState rejects the state).
MutateNothing(u) ==
  /\ Proceed(u, "mutate", "release")
  /\ \E o \in {"ok", "failed"} : outcome' = [outcome EXCEPT ![u] = o]
  /\ UNCHANGED <<fileVars, lease, local, committed, readerVars, damage>>

\* Mutant: the files are written without a look at the owner file.
AssertNothing(u) ==
  /\ Proceed(u, "assertOwned", "writePrimary")
  /\ UNCHANGED <<fileVars, lease, local, outcome, committed, readerVars, damage>>

AssertLease(u) ==
  /\ upc[u] = "assertOwned"
  /\ IF lease = u
     THEN /\ upc' = [upc EXCEPT ![u] = "writePrimary"]
          /\ UNCHANGED outcome
     ELSE /\ upc' = [upc EXCEPT ![u] = "release"]
          /\ outcome' = [outcome EXCEPT ![u] = "failed"]
  /\ UNCHANGED <<fileVars, lease, local, committed, readerVars, damage>>

RenamePrimary(u) ==
  /\ Proceed(u, "writePrimary", "writeRecovery")
  /\ primary' = Valid(local[u])
  /\ committed' = committed \cup {u}
  /\ UNCHANGED <<recovery, lease, local, outcome, readerVars, damage>>

\* Mutant: the recovery file is not kept up.
RenameNothing(u) ==
  /\ Proceed(u, "writeRecovery", "release")
  /\ outcome' = [outcome EXCEPT ![u] = "ok"]
  /\ UNCHANGED <<fileVars, lease, local, committed, readerVars, damage>>

RenameRecovery(u) ==
  /\ Proceed(u, "writeRecovery", "release")
  /\ recovery' = Valid(local[u])
  /\ outcome' = [outcome EXCEPT ![u] = "ok"]
  /\ UNCHANGED <<primary, lease, local, committed, readerVars, damage>>

\* A temporary file cannot be written or renamed: #writeFileAtomically throws.
WriteFails(u) ==
  /\ upc[u] \in {"writePrimary", "writeRecovery"}
  /\ upc' = [upc EXCEPT ![u] = "release"]
  /\ outcome' = [outcome EXCEPT ![u] = "failed"]
  /\ UNCHANGED <<fileVars, lease, local, committed, readerVars, damage>>

\* release removes only the owner's own generation.
ReleaseLease(u) ==
  /\ Proceed(u, "release", "done")
  /\ lease' = IF lease = u THEN NoOne ELSE lease
  /\ UNCHANGED <<fileVars, local, outcome, committed, readerVars, damage>>

(***************************************************************************)
(* The process of an update dies; a waiter reclaims a stale lease.         *)
(***************************************************************************)
CrashUpdate(u) ==
  /\ upc[u] \notin {"idle", "done", "crashed"}
  /\ upc' = [upc EXCEPT ![u] = "crashed"]
  /\ UNCHANGED <<fileVars, lease, local, outcome, committed, readerVars, damage>>

Reclaim(u) ==
  /\ lease = u
  /\ upc[u] \in Suspendable \cup {"crashed"}
  /\ lease' = NoOne
  /\ UNCHANGED <<fileVars, upc, local, outcome, committed, readerVars, damage>>

(***************************************************************************)
(* JsonStateStore.read without the lock                                    *)
(***************************************************************************)
StartRead(r) ==
  /\ rpc[r] = "idle"
  /\ rpc' = [rpc EXCEPT ![r] = "primary"]
  /\ seen' = [seen EXCEPT ![r] = committed]
  /\ UNCHANGED <<fileVars, writerVars, result, damage>>

\* Mutant: a recovery file that can be read is preferred.
ReaderRecoveryFirst(r) ==
  /\ rpc[r] = "primary" /\ recovery.kind = "valid"
  /\ rpc' = [rpc EXCEPT ![r] = "returned"]
  /\ result' = [result EXCEPT ![r] = recovery.state]
  /\ UNCHANGED <<fileVars, writerVars, seen, damage>>

ReaderPrimary(r) ==
  /\ rpc[r] = "primary"
  /\ IF primary.kind = "valid"
     THEN /\ rpc' = [rpc EXCEPT ![r] = "returned"]
          /\ result' = [result EXCEPT ![r] = primary.state]
     ELSE /\ rpc' = [rpc EXCEPT ![r] = primary.kind]
          /\ UNCHANGED result
  /\ UNCHANGED <<fileVars, writerVars, seen, damage>>

\* rpc remembers what the first read found: "missing" or "invalid".
ReaderRecovery(r) ==
  /\ rpc[r] \in {"missing", "invalid"}
  /\ IF recovery.kind = "valid" \/ (rpc[r] = "missing" /\ recovery.kind = "missing")
     THEN /\ rpc' = [rpc EXCEPT ![r] = "returned"]
          /\ result' = [result EXCEPT ![r] = recovery.state]
     ELSE /\ rpc' = [rpc EXCEPT ![r] = "threw"]
          /\ UNCHANGED result
  /\ UNCHANGED <<fileVars, writerVars, seen, damage>>

(***************************************************************************)
(* Something that is not EasyServer deletes or garbles one of the files.   *)
(***************************************************************************)
Damage ==
  /\ damage < MaxDamage
  /\ damage' = damage + 1
  /\ \E f \in {Missing, Invalid} :
       \/ primary' = f /\ UNCHANGED recovery
       \/ recovery' = f /\ UNCHANGED primary
  /\ UNCHANGED <<writerVars, readerVars>>

UpdateStep(u) ==
  \/ AcquireLease(u) \/ AcquireTimeout(u)
  \/ ReadPrimary(u) \/ ReadRecovery(u) \/ ReadFails(u) \/ Mutate(u) \/ MutateNothing(u)
  \/ AssertLease(u) \/ RenamePrimary(u) \/ RenameRecovery(u) \/ WriteFails(u) \/ ReleaseLease(u)
  \/ CrashUpdate(u) \/ Reclaim(u)

ReadStep(r) == StartRead(r) \/ ReaderPrimary(r) \/ ReaderRecovery(r)

StoreNext ==
  \/ \E u \in Update : UpdateStep(u)
  \/ \E r \in Reader : ReadStep(r)
  \/ Damage

StoreSpec == StoreInit /\ [][StoreNext]_storeVars

-----------------------------------------------------------------------------
(***************************************************************************)
(* Properties                                                              *)
(***************************************************************************)
StoreTypeOK ==
  /\ primary \in StateFile /\ recovery \in StateFile
  /\ lease \in Update \cup {NoOne}
  /\ upc \in [Update -> UpdatePC]
  /\ local \in [Update -> SUBSET Update]
  /\ outcome \in [Update -> {"none", "ok", "failed"}]
  /\ rpc \in [Reader -> {"idle", "primary", "missing", "invalid", "returned", "threw"}]
  /\ result \in [Reader -> SUBSET Update]
  /\ seen \in [Reader -> SUBSET Update]
  /\ committed \in SUBSET Update
  /\ damage \in Nat

\* No update overwrites another one, although the holder of the lease may be
\* suspended, die or have its lease reclaimed at any await of update() up to
\* assertOwned: state.json holds exactly the updates that replaced it.
NoLostUpdate == damage = 0 => committed = Content(primary, recovery)

\* An update whose caller was told that it succeeded survives the loss or the
\* corruption of either file, whatever other updates did since, including
\* dying between their two renames: read() still returns it.
AcknowledgedSurvivesOneLoss ==
  damage <= 1 =>
    \A u \in committed : outcome[u] = "ok" =>
      /\ Readable(primary, recovery)
      /\ u \in Content(primary, recovery)

\* The recovery file never holds an update the primary file does not hold: a
\* fall-back to it can only go back to a state that was current once.
RecoveryNotAhead ==
  primary.kind = "valid" => recovery.state \subseteq primary.state

\* A read() without the lock, which may look at the files before and after any
\* of an update's renames, never throws and returns a state no older than the
\* one current when it began and containing only updates that committed.
ReadersSeeCommitted ==
  damage = 0 => \A r \in Reader :
    /\ rpc[r] # "threw"
    /\ rpc[r] = "returned" => seen[r] \subseteq result[r] /\ result[r] \subseteq committed

(***************************************************************************)
(* While nobody damages the files, the store is the atomic state: the      *)
(* update takes effect when the primary file is renamed.                   *)
(***************************************************************************)
AbstractPhase(u) ==
  CASE upc[u] = "idle" -> "idle"
    [] upc[u] = "writeRecovery" -> "applied"
    [] upc[u] \in {"release", "done", "crashed"} -> "ended"
    [] OTHER -> "running"

Atomic == INSTANCE AtomicState WITH
            value <- Content(primary, recovery),
            phase <- [u \in Update |-> AbstractPhase(u)]

\* As long as no file was destroyed, every step of the two-file, leased protocol
\* is a step of one atomic read-modify-write per update or changes nothing a
\* caller can see.
UpdatesAreAtomic ==
  Atomic!AInit /\ [][damage' = 0 => Atomic!ANext]_(Atomic!aVars)

=============================================================================
