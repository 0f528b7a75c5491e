------------------------------ MODULE SshAccess ------------------------------
(***************************************************************************)
(* A connection over OpenSSH (ssh-access-adapter.ts): the trust in the     *)
(* host's key, the key files on disk that every process cleans up for      *)
(* itself and for the dead (ssh-credential-material.ts), and the ssh child *)
(* of a channel.                                                           *)
(*                                                                         *)
(* Every process makes one connection to one host, with one channel; its   *)
(* key files are named after it (a fresh UUID in the code).  The scope is  *)
(* the gateway's (ConnectionGateway): it may close while the adapter is    *)
(* still at work, since the race of the setup with its abort is over then. *)
(***************************************************************************)
EXTENDS Naturals, FiniteSets

CONSTANTS
  Proc,       \* processes, each with one connection
  Key,        \* host keys, the preferred ones first
  MaxFaults,  \* deaths, stalls, failed removals and unanswered questions
  None        \* nobody holds the lock

ASSUME SshAssumption == Key \subseteq Nat /\ Key # {} /\ MaxFaults \in Nat /\ None \notin Proc

VARIABLES
  server,     \* the keys that the host offers (external)
  known,      \* the host's keys in known_hosts
  torn,       \* the host has an entry there that was not written completely
  confirmed,  \* keys that a user confirmed (history)
  pc,         \* progress of the adapter
  trust,      \* the key of the question that the user was asked
  lock,       \* the holder of the enrollment lock
  asserted,   \* who found that it has the lock and did not append yet (history)
  robbed,     \* the lock was lost after that (history)
  root,       \* the directory of all key files exists
  owner,      \* "no", "empty" or "valid": the owner file
  mark,       \* the marker of abandoned key files
  dir,        \* "no", "empty" or "secret": the directory of the key files
  todo,       \* entries that a process still has to look at when it scavenges
  stale,      \* the abandoned ones of them that it has not skipped (history)
  at,         \* the entry it is at, or None
  scope,      \* progress of the gateway's cleanup scope
  registered, \* the cleanup of the key files is registered there
  child,      \* the ssh process of the channel
  faults

trusting == <<server, known, torn, confirmed, trust, lock, asserted, robbed>>
disk     == <<root, owner, mark, dir>>
sweep    == <<todo, stale, at>>
session  == <<scope, registered, child>>
vars     == <<trusting, pc, disk, sweep, session, faults>>

Init ==
  /\ server \in SUBSET Key \ {{}} /\ known \in {{}} \cup {{k} : k \in Key} /\ confirmed = known /\ torn = FALSE
  /\ pc = [p \in Proc |-> "idle"] /\ trust = [p \in Proc |-> 0]
  /\ lock = None /\ asserted = {} /\ robbed = FALSE
  /\ root = FALSE /\ owner = [p \in Proc |-> "no"] /\ mark = [p \in Proc |-> FALSE]
  /\ dir = [p \in Proc |-> "no"]
  /\ todo = [p \in Proc |-> {}] /\ stale = [p \in Proc |-> {}] /\ at = [p \in Proc |-> None]
  /\ scope = [p \in Proc |-> "open"] /\ registered = {} /\ child = [p \in Proc |-> "none"]
  /\ faults = 0

Goto(p, q) == pc' = [pc EXCEPT ![p] = q]
Fault == faults < MaxFaults /\ faults' = faults + 1
Preferred(keys) == CHOOSE k \in keys : \A l \in keys : k <= l

(***************************************************************************)
(* Trust                                                                   *)
(***************************************************************************)
\* The host is set up anew, with other keys.
Rekey ==
  /\ Fault /\ server' \in SUBSET Key \ {{}}
  /\ UNCHANGED <<known, torn, confirmed, trust, lock, asserted, robbed, pc, disk, sweep, session>>

\* Each of the scanners and at last an ssh handshake may report the host's keys ...
Scanned == server

\* ... or none of them.
ScanFails(p) ==
  /\ pc[p] \in {"scan", "rescan"} /\ Goto(p, "failed")
  /\ UNCHANGED <<trusting, disk, sweep, session, faults>>

\* readKnownHostKeys throws if an entry of the host is incomplete.
IsKnown(keys) == ~torn /\ known \cap keys # {}
IsUnknown == ~torn /\ known = {}

\* #assertHostTrusted: the scanned keys are compared with the known ones; the
\* preferred one is shown if none is known.
AssertHostTrusted(p) ==
  /\ pc[p] = "scan"
  /\ IF IsUnknown
     THEN Goto(p, "ask") /\ trust' = [trust EXCEPT ![p] = Preferred(Scanned)]
     ELSE Goto(p, IF IsKnown(Scanned) THEN "root" ELSE "failed") /\ UNCHANGED trust
  /\ UNCHANGED <<server, known, torn, confirmed, lock, asserted, robbed, disk, sweep, session, faults>>

\* The user confirms the key or does not; a command may also confirm any key.
Confirm(p) ==
  /\ \/ pc[p] = "ask" /\ UNCHANGED trust
     \/ pc[p] = "idle" /\ \E k \in Key : trust' = [trust EXCEPT ![p] = k]
  /\ confirmed' = confirmed \cup {trust'[p]} /\ Goto(p, "rescan")
  /\ UNCHANGED <<server, known, torn, lock, asserted, robbed, disk, sweep, session, faults>>

Decline(p) ==
  /\ pc[p] = "ask" /\ Goto(p, "failed")
  /\ UNCHANGED <<trusting, disk, sweep, session, faults>>

\* Mutant: whatever the host offers now is enrolled.
RescanUncompared(p) ==
  /\ pc[p] = "rescan" /\ trust' = [trust EXCEPT ![p] = Preferred(Scanned)] /\ Goto(p, "lock")
  /\ UNCHANGED <<server, known, torn, confirmed, lock, asserted, robbed, disk, sweep, session, faults>>

\* enrollHostKey scans again: the preferred key must be the one that was confirmed.
Rescan(p) ==
  /\ pc[p] = "rescan"
  /\ Goto(p, IF Preferred(Scanned) = trust[p] THEN "lock" ELSE "failed")
  /\ UNCHANGED <<trusting, disk, sweep, session, faults>>

Lock(p) ==
  /\ pc[p] = "lock"
  /\ \/ lock = None /\ lock' = p /\ Goto(p, "read")
     \/ lock # None /\ UNCHANGED lock /\ Goto(p, "failed")
  /\ UNCHANGED <<server, known, torn, confirmed, trust, asserted, robbed, disk, sweep, session, faults>>

\* A key that is known already ends the enrollment, another one fails it.
ReadKnown(p) ==
  /\ pc[p] = "read"
  /\ Goto(p, IF IsKnown({trust[p]}) THEN "unlock" ELSE IF IsUnknown THEN "assert" ELSE "unlockFailed")
  /\ UNCHANGED <<trusting, disk, sweep, session, faults>>

\* Mutant: the lease is not asserted.
AssertNever(p) ==
  /\ pc[p] = "assert" /\ Goto(p, "append")
  /\ UNCHANGED <<trusting, disk, sweep, session, faults>>

AssertOwned(p) ==
  /\ pc[p] = "assert"
  /\ IF lock = p THEN Goto(p, "append") /\ asserted' = asserted \cup {p}
                 ELSE Goto(p, "failed") /\ UNCHANGED asserted
  /\ UNCHANGED <<server, known, torn, confirmed, trust, lock, robbed, disk, sweep, session, faults>>

\* The line is appended, or the write fails before or within the line.
Append(p) ==
  /\ pc[p] = "append" /\ asserted' = asserted \ {p}
  /\ \/ known' = known \cup {trust[p]} /\ Goto(p, "unlock") /\ UNCHANGED <<torn, faults>>
     \/ Fault /\ torn' \in {torn, TRUE} /\ Goto(p, "unlockFailed") /\ UNCHANGED known
  /\ UNCHANGED <<server, confirmed, trust, lock, robbed, disk, sweep, session>>

\* After an enrollment the connection is opened once more.
Unlock(p) ==
  /\ pc[p] \in {"unlock", "unlockFailed"}
  /\ lock' = (IF lock = p THEN None ELSE lock)
  /\ Goto(p, IF pc[p] = "unlock" THEN "scan" ELSE "failed")
  /\ UNCHANGED <<server, known, torn, confirmed, trust, asserted, robbed, disk, sweep, session, faults>>

\* The lock of a dead process is reclaimed, and so is the one of a process that was
\* suspended for long (FilesystemLock).
Reclaim ==
  /\ lock # None /\ lock' = None
  /\ IF pc[lock] = "dead" THEN UNCHANGED faults ELSE Fault
  /\ robbed' = (robbed \/ lock \in asserted)
  /\ UNCHANGED <<server, known, torn, confirmed, trust, asserted, pc, disk, sweep, session>>

(***************************************************************************)
(* Key files                                                               *)
(***************************************************************************)
Alive(p) == pc[p] # "dead"
\* What a look at the process in an owner file finds: it is missing, or the process
\* with its number has another identity.
Gone(q) == ~Alive(q)

\* readOwner: only a complete owner file is proof of anything.
Owned(q) == owner[q] = "valid"

Entries == {q \in Proc : owner[q] # "no" \/ mark[q]}

\* initialize, at the start of every process and before it creates key files.
Start(p) ==
  /\ pc[p] = "idle" /\ Goto(p, IF root THEN "list" ELSE "scan")
  /\ UNCHANGED <<trusting, disk, sweep, session, faults>>

EnsureRoot(p) ==
  /\ pc[p] = "root" /\ root' = TRUE /\ Goto(p, "listAgain")
  /\ UNCHANGED <<trusting, owner, mark, dir, sweep, session, faults>>

\* #scavenge reads the entries of the root.
List(p) ==
  /\ pc[p] \in {"list", "listAgain"}
  /\ todo' = [todo EXCEPT ![p] = Entries]
  /\ stale' = [stale EXCEPT ![p] = {q \in Entries : mark[q] \/ Gone(q)}]
  /\ Goto(p, IF pc[p] = "list" THEN "sweep" ELSE "sweepAgain")
  /\ UNCHANGED <<trusting, disk, at, session, faults>>

Sweeping(p) == pc[p] \in {"sweep", "sweepAgain"}

\* Mutant: a process that cannot be inspected counts as gone.
LookUnknownIsGone(p, q) ==
  /\ Sweeping(p) /\ at[p] = None /\ q \in todo[p]
  /\ todo' = [todo EXCEPT ![p] = @ \ {q}]
  /\ \/ /\ UNCHANGED <<stale, faults>>
        /\ at' = [at EXCEPT ![p] = IF mark[q] \/ (Owned(q) /\ Gone(q)) THEN q ELSE None]
     \/ ~mark[q] /\ Owned(q) /\ Fault /\ at' = [at EXCEPT ![p] = q] /\ UNCHANGED stale
  /\ UNCHANGED <<trusting, pc, disk, session>>

\* An entry is abandoned if it is marked, or if its owner file names a process that
\* is gone or is another one now; whether it is may stay unknown.
Look(p, q) ==
  /\ Sweeping(p) /\ at[p] = None /\ q \in todo[p]
  /\ todo' = [todo EXCEPT ![p] = @ \ {q}]
  /\ \/ /\ UNCHANGED <<stale, faults>>
        /\ at' = [at EXCEPT ![p] = IF mark[q] \/ (Owned(q) /\ Gone(q)) THEN q ELSE None]
     \/ /\ ~mark[q] /\ Owned(q) /\ Fault
        /\ stale' = [stale EXCEPT ![p] = @ \ {q}] /\ UNCHANGED at
  /\ UNCHANGED <<trusting, pc, disk, session>>

\* The directory goes first, then its metadata.
SweepDirectory(p) ==
  /\ Sweeping(p) /\ at[p] # None /\ dir[at[p]] # "no"
  /\ dir' = [dir EXCEPT ![at[p]] = "no"]
  /\ UNCHANGED <<trusting, pc, root, owner, mark, sweep, session, faults>>

SweepOwner(p) ==
  /\ Sweeping(p) /\ at[p] # None /\ dir[at[p]] = "no" /\ owner[at[p]] # "no"
  /\ owner' = [owner EXCEPT ![at[p]] = "no"]
  /\ UNCHANGED <<trusting, pc, root, mark, dir, sweep, session, faults>>

SweepMark(p) ==
  /\ Sweeping(p) /\ at[p] # None /\ dir[at[p]] = "no" /\ owner[at[p]] = "no"
  /\ mark' = [mark EXCEPT ![at[p]] = FALSE] /\ at' = [at EXCEPT ![p] = None]
  /\ UNCHANGED <<trusting, pc, root, owner, dir, todo, stale, session, faults>>

\* What cannot be removed keeps what was to be removed after it, and ends the setup.
SweepFails(p) ==
  /\ Sweeping(p) /\ at[p] # None /\ Fault /\ Goto(p, "failed")
  /\ UNCHANGED <<trusting, disk, sweep, session>>

RemoveEmptyRoot == root' = (root /\ (Entries \cup {q \in Proc : dir[q] # "no"}) # {})

Swept(p) ==
  /\ Sweeping(p) /\ at[p] = None /\ todo[p] = {}
  /\ IF pc[p] = "sweep" THEN RemoveEmptyRoot /\ Goto(p, "scan") ELSE UNCHANGED root /\ Goto(p, "claim")
  /\ UNCHANGED <<trusting, owner, mark, dir, sweep, session, faults>>

\* currentOwner cannot find out the identity of the process itself.
Unidentified(p) ==
  /\ pc[p] = "claim" /\ Fault /\ Goto(p, "failed")
  /\ UNCHANGED <<trusting, disk, sweep, session>>

\* writeOwner creates the file, which fails if the root was removed meanwhile, ...
Claim(p) ==
  /\ pc[p] = "claim"
  /\ IF root THEN owner' = [owner EXCEPT ![p] = "empty"] /\ Goto(p, "fill")
             ELSE Goto(p, "failed") /\ UNCHANGED owner
  /\ stale' = [stale EXCEPT ![p] = {}]
  /\ UNCHANGED <<trusting, root, mark, dir, todo, at, session, faults>>

\* ... and fills it; if it cannot, the file stays as it is.
Fill(p) ==
  /\ pc[p] = "fill"
  /\ \/ owner' = [owner EXCEPT ![p] = "valid"] /\ Goto(p, "mkdir") /\ UNCHANGED faults
     \/ Fault /\ Goto(p, "failed") /\ UNCHANGED owner
  /\ UNCHANGED <<trusting, root, mark, dir, sweep, session>>

Mkdir(p) ==
  /\ pc[p] = "mkdir" /\ dir' = [dir EXCEPT ![p] = "empty"]
  /\ \/ Goto(p, "made") /\ UNCHANGED faults
     \/ Goto(p, "undo") /\ Fault
  /\ UNCHANGED <<trusting, root, owner, mark, sweep, session>>

\* A creation that fails takes everything back, whether or not the directory goes.
Undo(p) ==
  /\ pc[p] = "undo" /\ Goto(p, "unroot")
  /\ \/ dir' = [dir EXCEPT ![p] = "no"] /\ UNCHANGED faults
     \/ Fault /\ UNCHANGED dir
  /\ owner' = [owner EXCEPT ![p] = "no"]
  /\ UNCHANGED <<trusting, root, mark, sweep, session>>

Unroot(p) ==
  /\ pc[p] = "unroot" /\ Goto(p, "failed") /\ RemoveEmptyRoot
  /\ UNCHANGED <<trusting, owner, mark, dir, sweep, session, faults>>

\* Mutant: it does not throw.
RegisterAnyway(p) ==
  /\ pc[p] = "made" /\ Goto(p, "write")
  /\ registered' = (IF scope[p] = "open" THEN registered \cup {p} ELSE registered)
  /\ UNCHANGED <<trusting, disk, sweep, scope, child, faults>>

\* registerCleanup, which throws if the scope has begun to close.
Register(p) ==
  /\ pc[p] = "made"
  /\ IF scope[p] = "open" THEN Goto(p, "write") /\ registered' = registered \cup {p}
                          ELSE Goto(p, "failed") /\ UNCHANGED registered
  /\ UNCHANGED <<trusting, disk, sweep, scope, child, faults>>

\* The key is resolved and written, if its directory still exists; the session of a
\* setup that was aborted is closed as it is.
Write(p) ==
  /\ pc[p] = "write"
  /\ IF dir[p] = "no" THEN Goto(p, "failed") /\ UNCHANGED dir
     ELSE dir' = [dir EXCEPT ![p] = "secret"] /\ Goto(p, "open")
  /\ UNCHANGED <<trusting, root, owner, mark, sweep, session, faults>>

(***************************************************************************)
(* The channel and the gateway's scope                                     *)
(***************************************************************************)
\* openChannel starts ssh, which accepts known keys only (external).
OpenChannel(p) ==
  /\ pc[p] = "open" /\ scope[p] = "open" /\ child[p] = "none"
  /\ child' = [child EXCEPT ![p] = "spawning"]
  /\ UNCHANGED <<trusting, pc, disk, sweep, scope, registered, faults>>

\* ssh is started, or it cannot be.  A channel whose opening was aborted is closed at
\* once: SIGTERM first.
Spawned(p) ==
  /\ Alive(p) /\ child[p] = "spawning"
  /\ \/ child' = [child EXCEPT ![p] = IF scope[p] = "open" THEN "up" ELSE "term"]
     \/ child' = [child EXCEPT ![p] = "gone"]
  /\ UNCHANGED <<trusting, pc, disk, sweep, scope, registered, faults>>

\* ssh ends by itself if it has no valid key or the server ends it, by SIGTERM, or
\* two seconds later by SIGKILL (external).
Exits(p) ==
  /\ child[p] \in {"up", "term"} /\ child' = [child EXCEPT ![p] = "gone"]
  /\ UNCHANGED <<trusting, pc, disk, sweep, scope, registered, faults>>

\* The connection is closed, or its setup is aborted, times out or fails.
CloseScope(p) ==
  /\ Alive(p) /\ pc[p] # "idle" /\ scope[p] = "open"
  /\ scope' = [scope EXCEPT ![p] = "channels"]
  /\ child' = [child EXCEPT ![p] = IF @ = "up" THEN "term" ELSE @]
  /\ UNCHANGED <<trusting, pc, disk, sweep, registered, faults>>

\* The channels that were open are waited for, then the key files are cleaned up.
ChannelsClosed(p) ==
  /\ Alive(p) /\ scope[p] = "channels" /\ child[p] # "term"
  /\ scope' = [scope EXCEPT ![p] = IF p \in registered THEN "mark" ELSE "closed"]
  /\ UNCHANGED <<trusting, pc, disk, sweep, registered, child, faults>>

\* They are marked as abandoned.  If the marker cannot be created, or is created and
\* cannot be written, nothing is removed and the closing of the connection fails.
WriteAbandoned(p) ==
  /\ Alive(p) /\ scope[p] = "mark"
  /\ \/ /\ mark' = [mark EXCEPT ![p] = TRUE] /\ UNCHANGED faults
        /\ scope' = [scope EXCEPT ![p] = "directory"]
     \/ /\ Fault /\ mark' \in {mark, [mark EXCEPT ![p] = TRUE]}
        /\ scope' = [scope EXCEPT ![p] = "failed"]
  /\ UNCHANGED <<trusting, pc, root, owner, dir, sweep, registered, child>>

RemoveDirectory(p) ==
  /\ Alive(p) /\ scope[p] = "directory" /\ scope' = [scope EXCEPT ![p] = "owner"]
  /\ dir' = [dir EXCEPT ![p] = "no"]
  /\ UNCHANGED <<trusting, pc, root, owner, mark, sweep, registered, child, faults>>

RemoveOwner(p) ==
  /\ Alive(p) /\ scope[p] = "owner" /\ scope' = [scope EXCEPT ![p] = "marker"]
  /\ owner' = [owner EXCEPT ![p] = "no"]
  /\ UNCHANGED <<trusting, pc, root, mark, dir, sweep, registered, child, faults>>

RemoveMark(p) ==
  /\ Alive(p) /\ scope[p] = "marker" /\ scope' = [scope EXCEPT ![p] = "root"]
  /\ mark' = [mark EXCEPT ![p] = FALSE]
  /\ UNCHANGED <<trusting, pc, root, owner, dir, sweep, registered, child, faults>>

RemoveRoot(p) ==
  /\ Alive(p) /\ scope[p] = "root" /\ scope' = [scope EXCEPT ![p] = "closed"] /\ RemoveEmptyRoot
  /\ UNCHANGED <<trusting, pc, owner, mark, dir, sweep, registered, child, faults>>

\* What cannot be removed stays behind, with what was to be removed after it, and the
\* closing fails.
RemovalFails(p) ==
  /\ Alive(p) /\ scope[p] \in {"directory", "owner", "marker", "root"}
  /\ Fault /\ scope' = [scope EXCEPT ![p] = "failed"]
  /\ UNCHANGED <<trusting, pc, disk, sweep, registered, child>>

\* The process dies; its ssh ends with its pipes.
Die(p) ==
  /\ pc[p] \notin {"idle", "dead"} /\ Fault /\ Goto(p, "dead")
  /\ asserted' = asserted \ {p}
  /\ child' = [child EXCEPT ![p] = IF @ = "none" THEN "none" ELSE "gone"]
  /\ todo' = [todo EXCEPT ![p] = {}] /\ stale' = [stale EXCEPT ![p] = {}]
  /\ at' = [at EXCEPT ![p] = None]
  /\ UNCHANGED <<server, known, torn, confirmed, trust, lock, robbed, disk, scope, registered>>

Next ==
  \/ Rekey \/ Reclaim
  \/ \E p \in Proc :
       \/ ScanFails(p) \/ AssertHostTrusted(p) \/ Confirm(p) \/ Decline(p) \/ Rescan(p) \/ Lock(p) \/ ReadKnown(p)
       \/ AssertOwned(p) \/ Append(p) \/ Unlock(p)
       \/ Start(p) \/ EnsureRoot(p) \/ List(p) \/ \E q \in Proc : Look(p, q)
       \/ SweepDirectory(p) \/ SweepOwner(p) \/ SweepMark(p) \/ SweepFails(p)
       \/ Swept(p) \/ Unidentified(p) \/ Claim(p) \/ Fill(p) \/ Mkdir(p) \/ Undo(p) \/ Unroot(p) \/ Register(p) \/ Write(p)
       \/ OpenChannel(p) \/ Spawned(p) \/ Exits(p) \/ CloseScope(p)
       \/ ChannelsClosed(p) \/ WriteAbandoned(p) \/ RemoveDirectory(p) \/ RemoveOwner(p) \/ RemoveMark(p)
       \/ RemoveRoot(p) \/ RemovalFails(p) \/ Die(p)

Spec == Init /\ [][Next]_vars

(***************************************************************************)
(* Properties                                                              *)
(***************************************************************************)
\* Every key on disk can be found and removed by a later process: wherever the
\* one that wrote it dies, and whatever fails, a marker or a valid owner file is there.
SecretsAreClaimed == \A p \in Proc : dir[p] = "secret" => mark[p] \/ owner[p] = "valid"

\* Nobody removes the key files of a connection that is in use.
LiveMaterialIsKept ==
  \A p \in Proc : (pc[p] = "open" /\ scope[p] = "open") => dir[p] = "secret"

\* Who creates key files has removed the abandoned ones of all others.
LeftoversAreSwept ==
  \A p \in Proc : pc[p] = "claim" => \A q \in stale[p] : dir[q] = "no"

\* A host is trusted only with a key that a user confirmed.
KnownAreConfirmed == known \subseteq confirmed

\* Enrollments at the same time do not trust two keys, unless a process is suspended
\* between the assertion of its lock and its write for so long that the lock is reclaimed.
OneKeyPerHost == Cardinality(known) <= 1 \/ robbed

\* A closing that succeeds leaves no key behind, also if the connection ended in the
\* middle of its setup, and no closing leaves an open channel.  One that fails may
\* leave the key, for a later process to find (SecretsAreClaimed).
CloseLeavesNothing ==
  \A p \in Proc : Alive(p) =>
    /\ scope[p] = "closed" => dir[p] # "secret"
    /\ scope[p] \in {"closed", "failed"} => child[p] # "up"

\* No key stays on disk: a closing that succeeds has removed its own, and every other
\* one is marked or has an owner, and is removed before the next key is written if
\* the process that wrote it has died or marked it.
KeysAreRemoved == SecretsAreClaimed /\ LeftoversAreSwept /\ CloseLeavesNothing

=============================================================================
