--------------------------- MODULE SshAccessProofs ---------------------------
(***************************************************************************)
(* KnownAreConfirmed, OneKeyPerHost, LiveMaterialIsKept and KeysAreRemoved *)
(* for any number of processes, host keys and faults.                      *)
(***************************************************************************)
EXTENDS SshAccess, FiniteSetTheorems, TLAPS

PC == {"idle", "scan", "ask", "rescan", "lock", "read", "assert", "append", "unlock",
       "unlockFailed", "root", "list", "sweep", "listAgain", "sweepAgain", "claim", "fill",
       "mkdir", "made", "undo", "unroot", "write", "open", "failed", "dead"}

ScopePC == {"open", "channels", "mark", "directory", "owner", "marker", "root", "closed", "failed"}

\* The types of the variables.
Shape ==
  /\ pc \in [Proc -> PC] /\ DOMAIN trust = Proc
  /\ lock \in Proc \cup {None} /\ asserted \subseteq Proc /\ robbed \in BOOLEAN
  /\ owner \in [Proc -> {"no", "empty", "valid"}] /\ mark \in [Proc -> BOOLEAN]
  /\ dir \in [Proc -> {"no", "empty", "secret"}]
  /\ todo \in [Proc -> SUBSET Proc] /\ stale \in [Proc -> SUBSET Proc]
  /\ at \in [Proc -> Proc \cup {None}]
  /\ scope \in [Proc -> ScopePC]
  /\ registered \subseteq Proc
  /\ child \in [Proc -> {"none", "spawning", "up", "term", "gone"}]
  /\ faults \in Nat

\* A step of a process.
Step(p) ==
  \/ ScanFails(p) \/ AssertHostTrusted(p) \/ Confirm(p) \/ Decline(p) \/ Rescan(p)
  \/ Lock(p) \/ ReadKnown(p) \/ AssertOwned(p) \/ Append(p) \/ Unlock(p)
  \/ Start(p) \/ EnsureRoot(p) \/ List(p) \/ (\E q \in Proc : Look(p, q))
  \/ SweepDirectory(p) \/ SweepOwner(p) \/ SweepMark(p) \/ SweepFails(p) \/ Swept(p)
  \/ Unidentified(p) \/ Claim(p) \/ Fill(p) \/ Mkdir(p) \/ Undo(p) \/ Unroot(p)
  \/ Register(p) \/ Write(p)
  \/ OpenChannel(p) \/ Spawned(p) \/ Exits(p) \/ CloseScope(p)
  \/ ChannelsClosed(p) \/ WriteAbandoned(p) \/ RemoveDirectory(p) \/ RemoveOwner(p) \/ RemoveMark(p)
  \/ RemoveRoot(p) \/ RemovalFails(p) \/ Die(p)

LEMMA Steps == Next => Rekey \/ Reclaim \/ \E p \in Proc : Step(p)
BY DEF Next, Step

LEMMA ShapeInit == Init => Shape
<1> SUFFICES ASSUME Init PROVE Shape
  OBVIOUS
<1>1. /\ pc \in [Proc -> PC] /\ DOMAIN trust = Proc
      /\ owner \in [Proc -> {"no", "empty", "valid"}] /\ mark \in [Proc -> BOOLEAN]
      /\ dir \in [Proc -> {"no", "empty", "secret"}]
  BY DEF Init, PC
<1>2. /\ todo \in [Proc -> SUBSET Proc] /\ stale \in [Proc -> SUBSET Proc]
      /\ at \in [Proc -> Proc \cup {None}]
  BY DEF Init
<1>3. /\ scope \in [Proc -> ScopePC]
      /\ child \in [Proc -> {"none", "spawning", "up", "term", "gone"}]
  BY DEF Init, ScopePC
<1> QED  BY <1>1, <1>2, <1>3 DEF Init, Shape

LEMMA ShapeStep == Shape /\ [Next]_vars => Shape'
<1> SUFFICES ASSUME Shape, [Next]_vars PROVE Shape'
  OBVIOUS
<1>0. faults + 1 \in Nat
  BY DEF Shape
<1> USE DEF trusting, disk, sweep, session, Goto, Fault, ScopePC
<1>1. CASE Rekey
  BY <1>1 DEF Rekey, Shape
<1>2. CASE Reclaim
  BY <1>2 DEF Reclaim, Shape
<1>3. ASSUME NEW p \in Proc,
             ScanFails(p) \/ AssertHostTrusted(p) \/ Confirm(p) \/ Decline(p) \/ Rescan(p)
      PROVE  Shape'
  BY <1>3 DEF ScanFails, AssertHostTrusted, Confirm, Decline, Rescan, Shape, PC
<1>4. ASSUME NEW p \in Proc, Lock(p) \/ ReadKnown(p) \/ AssertOwned(p) \/ Unlock(p) PROVE Shape'
  BY <1>4 DEF Lock, ReadKnown, AssertOwned, Unlock, Shape, PC
<1>5. ASSUME NEW p \in Proc, Append(p) PROVE Shape'
  <2>1. /\ UNCHANGED <<trust, lock, robbed, disk, sweep, session>>
        /\ asserted' = asserted \ {p} /\ faults' \in Nat
    BY <1>0, <1>5 DEF Append, Shape
  <2>2. Goto(p, "unlock") \/ Goto(p, "unlockFailed")
    BY <1>5, Zenon DEF Append
  <2>3. pc' \in [Proc -> PC]
    BY <2>2 DEF Shape, PC
  <2> QED  BY <2>1, <2>3 DEF Shape
<1>6. ASSUME NEW p \in Proc, Start(p) \/ EnsureRoot(p) \/ Swept(p) \/ Unidentified(p) PROVE Shape'
  BY <1>6 DEF Start, EnsureRoot, Swept, Unidentified, Shape, PC
<1>7. ASSUME NEW p \in Proc, List(p) PROVE Shape'
  BY <1>7 DEF List, Entries, Shape, PC
<1>8. ASSUME NEW p \in Proc, NEW q \in Proc, Look(p, q) PROVE Shape'
  BY <1>8 DEF Look, Shape
<1>9. ASSUME NEW p \in Proc, SweepDirectory(p) \/ SweepOwner(p) \/ SweepMark(p) \/ SweepFails(p)
      PROVE  Shape'
  <2>1. /\ UNCHANGED <<trust, lock, asserted, robbed, todo, stale, session>> /\ faults' \in Nat
    BY <1>0, <1>9 DEF SweepDirectory, SweepOwner, SweepMark, SweepFails, Shape
  <2>2. pc' \in [Proc -> PC] /\ at' \in [Proc -> Proc \cup {None}]
    BY <1>9 DEF SweepDirectory, SweepOwner, SweepMark, SweepFails, Shape, PC
  <2>3. /\ dir' \in [Proc -> {"no", "empty", "secret"}]
        /\ owner' \in [Proc -> {"no", "empty", "valid"}]
    BY <1>9 DEF SweepDirectory, SweepOwner, SweepMark, SweepFails, Shape
  <2>4. mark' = mark \/ \E q : mark' = [mark EXCEPT ![q] = TRUE] \/ mark' = [mark EXCEPT ![q] = FALSE]
    BY <1>9, Zenon DEF SweepDirectory, SweepOwner, SweepMark, SweepFails, disk
  <2>5. mark' \in [Proc -> BOOLEAN]
    BY <2>4 DEF Shape
  <2> QED  BY <2>1, <2>2, <2>3, <2>5 DEF Shape
<1>10. ASSUME NEW p \in Proc, Claim(p) \/ Fill(p) \/ Mkdir(p) \/ Undo(p) \/ Unroot(p) PROVE Shape'
  BY <1>10 DEF Claim, Fill, Mkdir, Undo, Unroot, Shape, PC
<1>11. ASSUME NEW p \in Proc, Register(p) \/ Write(p) PROVE Shape'
  BY <1>11 DEF Register, Write, Shape, PC
<1>12. ASSUME NEW p \in Proc, OpenChannel(p) \/ Spawned(p) \/ Exits(p) \/ CloseScope(p)
       PROVE  Shape'
  BY <1>12 DEF OpenChannel, Spawned, Exits, CloseScope, Shape
<1>13. ASSUME NEW p \in Proc,
              \/ ChannelsClosed(p) \/ WriteAbandoned(p) \/ RemoveDirectory(p) \/ RemoveOwner(p) \/ RemoveMark(p)
              \/ RemoveRoot(p) \/ RemovalFails(p)
       PROVE  Shape'
  <2>1. UNCHANGED <<trusting, pc, sweep, registered, child>> /\ faults' \in Nat
    BY <1>0, <1>13 DEF ChannelsClosed, WriteAbandoned, RemoveDirectory, RemoveOwner, RemoveMark,
       RemoveRoot, RemovalFails, Shape
  <2>2. scope' \in [Proc -> ScopePC]
    BY <1>13 DEF ChannelsClosed, WriteAbandoned, RemoveDirectory, RemoveOwner, RemoveMark,
       RemoveRoot, RemovalFails, Shape
  <2>3. /\ dir' \in [Proc -> {"no", "empty", "secret"}]
        /\ owner' \in [Proc -> {"no", "empty", "valid"}]
    BY <1>13 DEF ChannelsClosed, WriteAbandoned, RemoveDirectory, RemoveOwner, RemoveMark,
       RemoveRoot, RemovalFails, Shape
  <2>4. mark' = mark \/ \E q : mark' = [mark EXCEPT ![q] = TRUE] \/ mark' = [mark EXCEPT ![q] = FALSE]
    BY <1>13, Zenon DEF ChannelsClosed, WriteAbandoned, RemoveDirectory, RemoveOwner, RemoveMark, RemoveRoot,
       RemovalFails, disk
  <2>5. mark' \in [Proc -> BOOLEAN]
    BY <2>4 DEF Shape
  <2> QED  BY <2>1, <2>2, <2>3, <2>5 DEF Shape
<1>14. ASSUME NEW p \in Proc, Die(p) PROVE Shape'
  BY <1>14 DEF Die, Shape, PC
<1>15. CASE UNCHANGED vars
  BY <1>15 DEF vars, Shape
<1> QED
  BY <1>1, <1>2, <1>3, <1>4, <1>5, <1>6, <1>7, <1>8, <1>9, <1>10, <1>11, <1>12, <1>13, <1>14,
     <1>15, Steps DEF Step

-----------------------------------------------------------------------------
(***************************************************************************)
(* Trust                                                                   *)
(***************************************************************************)
\* Who is about to enroll a key has a confirmed one in its hands; who is about to
\* append it, under a lock that was not lost since it read, found no key there.
Enrollment(p) ==
  /\ pc[p] \in {"rescan", "lock", "read", "assert", "append"} => trust[p] \in confirmed
  /\ p \in asserted <=> pc[p] = "append"
  /\ ~robbed =>
       /\ p \in asserted => lock = p
       /\ pc[p] \in {"assert", "append"} /\ lock = p => known = {}

Trust ==
  /\ known \subseteq confirmed
  /\ robbed \/ \A k, l \in known : k = l
  /\ \A p \in Proc : Enrollment(p)

\* The enrollment of q when another process takes a step that adds no key and takes
\* neither the lock from q nor gives it to q.
LEMMA EnrollmentFrame ==
  ASSUME Shape, NEW q \in Proc, Enrollment(q), confirmed \subseteq confirmed',
         pc'[q] = pc[q], trust'[q] = trust[q], q \in asserted' <=> q \in asserted,
         robbed => robbed',
         ~robbed' => (lock' = q => lock = q) /\ (q \in asserted => lock' = lock),
         ~robbed' /\ lock' = q => known' = known
  PROVE  Enrollment(q)'
BY DEF Enrollment

LEMMA TrustStep == Shape /\ Trust /\ [Next]_vars => Trust'
<1> SUFFICES ASSUME Shape, Trust, [Next]_vars PROVE Trust'
  OBVIOUS
<1> USE DEF Goto
<1>1. CASE Rekey \/ UNCHANGED vars
  <2>1. UNCHANGED <<known, confirmed, trust, lock, asserted, robbed, pc>>
    BY <1>1 DEF Rekey, vars, trusting
  <2> QED  BY <2>1 DEF Trust, Enrollment
<1>2. CASE Reclaim
  <2>1. /\ UNCHANGED <<known, confirmed, trust, asserted, pc>> /\ lock' = None
        /\ robbed' = (robbed \/ lock \in asserted)
    BY <1>2 DEF Reclaim
  <2>2. ASSUME NEW q \in Proc PROVE Enrollment(q)'
    <3>1. /\ Enrollment(q) /\ None # q
          /\ ~robbed' => ~robbed /\ lock \notin asserted
      BY <2>1, SshAssumption DEF Trust
    <3>2. ~robbed' => q \notin asserted
      BY <3>1 DEF Enrollment
    <3> QED  BY <2>1, <3>1, <3>2 DEF Enrollment
  <2> QED  BY <2>1, <2>2 DEF Trust
<1>3. ASSUME NEW p \in Proc, Step(p) PROVE Trust'
  <2> DEFINE Early == {"rescan", "lock", "read", "assert", "append"}
  <2>0. /\ UNCHANGED robbed
        /\ \A q \in Proc \ {p} : /\ pc'[q] = pc[q] /\ trust'[q] = trust[q]
                                 /\ q \in asserted' <=> q \in asserted
    BY <1>3, ZenonT(60) DEF Step, ScanFails, AssertHostTrusted, Confirm, Decline, Rescan, Lock, ReadKnown,
       AssertOwned, Append, Unlock, Start, EnsureRoot, List, Look, SweepDirectory, SweepOwner,
       SweepMark, SweepFails, Swept, Unidentified, Claim, Fill, Mkdir, Undo, Unroot, Register, Write,
       OpenChannel, Spawned, Exits, CloseScope, ChannelsClosed, WriteAbandoned, RemoveDirectory, RemoveOwner,
       RemoveMark, RemoveRoot, RemovalFails, Die, Shape, trusting
  <2>1. ASSUME confirmed \subseteq confirmed', known' = known,
               ~robbed => \A q \in Proc \ {p} : (lock' = q => lock = q) /\ (q \in asserted => lock' = lock),
               Enrollment(p)'
        PROVE  Trust'
    <3>1. ASSUME NEW q \in Proc, q # p PROVE Enrollment(q)'
      BY <2>0, <2>1, <3>1, EnrollmentFrame DEF Trust
    <3> QED  BY <2>0, <2>1, <3>1 DEF Trust
  <2>2. Enrollment(p)
    BY DEF Trust
  <2>3. ASSUME UNCHANGED <<known, confirmed, lock, asserted>>, pc[p] # "append",
               pc'[p] \notin Early
        PROVE  Trust'
    BY <2>1, <2>2, <2>3 DEF Enrollment
  <2>4. ASSUME UNCHANGED <<known, confirmed, lock, asserted>>, UNCHANGED <<pc, trust>>
        PROVE  Trust'
    BY <2>0, <2>1, <2>2, <2>4 DEF Enrollment
  <2>5. CASE ScanFails(p) \/ AssertHostTrusted(p) \/ Decline(p)
    BY <2>3, <2>5 DEF ScanFails, AssertHostTrusted, Decline, trusting, Shape
  <2>6. CASE Confirm(p)
    <3>1. /\ UNCHANGED <<known, lock, asserted>> /\ confirmed' = confirmed \cup {trust'[p]}
          /\ pc[p] # "append" /\ pc'[p] = "rescan"
      BY <2>6 DEF Confirm, Shape
    <3> QED  BY <2>0, <2>1, <2>2, <3>1 DEF Enrollment
  <2>7. CASE Rescan(p)
    <3>1. /\ UNCHANGED <<known, confirmed, trust, lock, asserted>>
          /\ pc[p] = "rescan" /\ pc'[p] \in {"lock", "failed"}
      BY <2>7 DEF Rescan, Shape, trusting
    <3> QED  BY <2>0, <2>1, <2>2, <3>1 DEF Enrollment
  <2>8. CASE Lock(p)
    <3>1. /\ UNCHANGED <<known, confirmed, trust, asserted>>
          /\ pc[p] = "lock" /\ pc'[p] \in {"read", "failed"}
          /\ \/ lock = None /\ lock' = p
             \/ lock' = lock
      BY <2>8 DEF Lock, Shape
    <3>2. ~robbed => \A q \in Proc : q \in asserted => lock # None
      BY SshAssumption DEF Trust, Enrollment
    <3>3. ~robbed => \A q \in Proc \ {p} : (lock' = q => lock = q) /\ (q \in asserted => lock' = lock)
      BY <3>1, <3>2
    <3>4. Enrollment(p)'
      BY <2>0, <2>2, <3>1 DEF Enrollment
    <3> QED  BY <2>1, <3>1, <3>3, <3>4
  <2>9. CASE ReadKnown(p)
    <3>1. /\ UNCHANGED <<known, confirmed, trust, lock, asserted>>
          /\ pc[p] = "read" /\ pc'[p] \in {"unlock", "assert", "unlockFailed"}
          /\ pc'[p] = "assert" => known = {}
      BY <2>9 DEF ReadKnown, Shape, trusting, IsUnknown
    <3> QED  BY <2>0, <2>1, <2>2, <3>1 DEF Enrollment
  <2>10. CASE AssertOwned(p)
    <3>1. /\ UNCHANGED <<known, confirmed, trust, lock>> /\ pc[p] = "assert"
          /\ \/ lock = p /\ asserted' = asserted \cup {p} /\ pc'[p] = "append"
             \/ asserted' = asserted /\ pc'[p] = "failed"
      BY <2>10 DEF AssertOwned, Shape
    <3> QED  BY <2>0, <2>1, <2>2, <3>1 DEF Enrollment
  <2>11. CASE Append(p)
    <3>1. /\ UNCHANGED <<confirmed, trust, lock>> /\ pc[p] = "append"
          /\ asserted' = asserted \ {p}
      BY <2>11 DEF Append
    <3>2. known' = known \/ known' = known \cup {trust[p]}
      BY <2>11, Zenon DEF Append
    <3>3. Goto(p, "unlock") \/ Goto(p, "unlockFailed")
      BY <2>11, Zenon DEF Append
    <3>4. pc'[p] \in {"unlock", "unlockFailed"}
      BY <3>3 DEF Shape
    <3>5. trust[p] \in confirmed /\ (~robbed => lock = p /\ known = {})
      BY <2>2, <3>1 DEF Enrollment
    <3>6. known' \subseteq confirmed' /\ (robbed' \/ \A k, l \in known' : k = l)
      BY <2>0, <3>1, <3>2, <3>5 DEF Trust
    <3>7. Enrollment(p)'
      BY <3>1, <3>4 DEF Enrollment
    <3>8. ASSUME NEW q \in Proc, q # p PROVE Enrollment(q)'
      <4>1. Enrollment(q) /\ (~robbed => lock # q)
        BY <3>5, <3>8 DEF Trust
      <4> QED  BY <2>0, <3>1, <3>8, <4>1, EnrollmentFrame
    <3> QED  BY <3>6, <3>7, <3>8 DEF Trust
  <2>12. CASE Unlock(p)
    <3>1. /\ UNCHANGED <<known, confirmed, trust, asserted>>
          /\ pc[p] \in {"unlock", "unlockFailed"} /\ pc'[p] \in {"scan", "failed"}
          /\ lock' = lock \/ (lock = p /\ lock' = None)
      BY <2>12 DEF Unlock, Shape
    <3>2. ~robbed => \A q \in Proc \ {p} : q \in asserted => lock = q
      BY DEF Trust, Enrollment
    <3>3. ~robbed => \A q \in Proc \ {p} : (lock' = q => lock = q) /\ (q \in asserted => lock' = lock)
      BY <3>1, <3>2, SshAssumption
    <3>4. Enrollment(p)'
      BY <2>2, <3>1 DEF Enrollment
    <3> QED  BY <2>1, <3>1, <3>3, <3>4
  <2>13. CASE Die(p)
    <3>1. /\ UNCHANGED <<known, confirmed, lock>> /\ pc'[p] = "dead" /\ asserted' = asserted \ {p}
      BY <2>13 DEF Die, Shape
    <3>2. Enrollment(p)'
      BY <3>1 DEF Enrollment
    <3> QED  BY <2>1, <3>1, <3>2
  <2>14. CASE \/ Start(p) \/ EnsureRoot(p) \/ List(p) \/ Swept(p) \/ Unidentified(p) \/ Claim(p)
              \/ Fill(p) \/ Mkdir(p) \/ Undo(p) \/ Unroot(p) \/ Register(p) \/ Write(p)
    <3>1. UNCHANGED <<known, confirmed, lock, asserted>>
      BY <2>14 DEF Start, EnsureRoot, List, Swept, Unidentified, Claim, Fill, Mkdir, Undo, Unroot,
         Register, Write, trusting
    <3>2. pc[p] # "append"
      BY <2>14 DEF Start, EnsureRoot, List, Swept, Sweeping, Unidentified, Claim, Fill, Mkdir,
         Undo, Unroot, Register, Write
    <3>3. pc'[p] \notin Early
      BY <2>14 DEF Start, EnsureRoot, List, Swept, Sweeping, Unidentified, Claim, Fill, Mkdir,
         Undo, Unroot, Register, Write, Shape
    <3> QED  BY <2>3, <3>1, <3>2, <3>3
  <2>15. CASE \/ (\E q \in Proc : Look(p, q)) \/ SweepDirectory(p) \/ SweepOwner(p) \/ SweepMark(p) \/ SweepFails(p)
              \/ OpenChannel(p) \/ Spawned(p) \/ Exits(p) \/ CloseScope(p) \/ ChannelsClosed(p) \/ WriteAbandoned(p)
              \/ RemoveDirectory(p) \/ RemoveOwner(p) \/ RemoveMark(p) \/ RemoveRoot(p)
              \/ RemovalFails(p)
    <3>1. UNCHANGED <<known, confirmed, lock, asserted, trust>>
      BY <2>15 DEF Look, SweepDirectory, SweepOwner, SweepMark, SweepFails, OpenChannel, Spawned, Exits,
         CloseScope, ChannelsClosed, WriteAbandoned, RemoveDirectory, RemoveOwner, RemoveMark, RemoveRoot,
         RemovalFails, trusting
    <3>2. UNCHANGED pc \/ (Sweeping(p) /\ Goto(p, "failed"))
      BY <2>15 DEF Look, SweepDirectory, SweepOwner, SweepMark, SweepFails, OpenChannel, Spawned, Exits,
         CloseScope, ChannelsClosed, WriteAbandoned, RemoveDirectory, RemoveOwner, RemoveMark,
         RemoveRoot, RemovalFails
    <3> QED  BY <2>3, <2>4, <3>1, <3>2 DEF Sweeping, Shape
  <2> QED
    BY <1>3, <2>5, <2>6, <2>7, <2>8, <2>9, <2>10, <2>11, <2>12, <2>13, <2>14, <2>15 DEF Step
<1> QED
  BY <1>1, <1>2, <1>3, Steps

-----------------------------------------------------------------------------
(***************************************************************************)
(* Key files                                                               *)
(***************************************************************************)
\* The scope of p has begun to remove the key files that p registered.
Past(p) == p \in registered /\ scope[p] \notin {"open", "channels", "mark"}
Abandoned(p) == pc[p] = "dead" \/ Past(p)

Early == {"idle", "scan", "ask", "rescan", "lock", "read", "assert", "append", "unlock",
          "unlockFailed", "root", "list", "sweep", "listAgain", "sweepAgain", "claim"}

\* What a process has made so far: metadata before the directory, both before the
\* registration of their removal, and that before the key.
Mine(p) ==
  /\ p \in registered => pc[p] \in {"write", "open", "failed", "dead"}
  /\ pc[p] \in {"write", "open"} => p \in registered
  /\ pc[p] \in Early => dir[p] = "no" /\ owner[p] = "no"
  /\ pc[p] \in {"fill", "mkdir"} => dir[p] = "no"
  /\ pc[p] \in {"mkdir", "made"} => owner[p] = "valid"
  /\ owner[p] = "empty" => dir[p] = "no"
  /\ dir[p] = "secret" => p \in registered
  /\ p \in registered /\ dir[p] # "no" => mark[p] \/ owner[p] = "valid"
  /\ pc[p] = "open" /\ scope[p] = "open" => dir[p] = "secret"

\* What the scope of a process has removed so far, and what it leaves.
Closing(p) ==
  /\ mark[p] => Past(p)
  /\ scope[p] \in {"mark", "directory", "owner", "marker", "root"} => p \in registered
  /\ Past(p) /\ dir[p] # "no" => scope[p] \in {"directory", "failed"}
  /\ scope[p] # "open" => child[p] # "up"

\* A process that sweeps has only abandoned entries in its hands, and each one that it
\* found abandoned is still to be looked at, being removed, or removed.
Sweeper(p) ==
  /\ \A q \in Proc : at[p] = q => Abandoned(q)
  /\ \A q \in stale[p] :
       /\ Abandoned(q)
       /\ dir[q] # "no" => mark[q] \/ (owner[q] = "valid" /\ pc[q] = "dead")
  /\ pc[p] \in {"sweep", "sweepAgain", "claim"} =>
       \A q \in stale[p] : q \in todo[p] \/ at[p] = q \/ dir[q] = "no"
  /\ pc[p] = "claim" => todo[p] = {} /\ at[p] = None

Files == \A p \in Proc : Mine(p) /\ Closing(p) /\ Sweeper(p)

LEMMA FilesInit == Init => Files
BY SshAssumption DEF Init, Files, Mine, Closing, Sweeper, Past

\* A process that the step does not touch.
LEMMA MineFrame ==
  ASSUME NEW q \in Proc, Shape, Shape', Mine(q), Closing(q),
         pc'[q] = pc[q], dir'[q] = dir[q], owner'[q] = owner[q], mark'[q] = mark[q],
         scope'[q] = scope[q], child'[q] = child[q], q \in registered' <=> q \in registered
  PROVE  Mine(q)' /\ Closing(q)'
BY DEF Mine, Closing, Past

\* What holds of p alone, as a formula of its part of the state.
LEMMA OwnStep ==
  ASSUME Shape, Shape', Files, NEW p \in Proc, Step(p)
  PROVE  /\ Mine(p)' /\ Closing(p)'
         /\ (Abandoned(p) => Abandoned(p)')
         /\ (Abandoned(p) /\ dir'[p] # "no" =>
               /\ dir[p] # "no" /\ (mark[p] => mark'[p])
               /\ (pc[p] = "dead" => pc'[p] = "dead" /\ owner'[p] = owner[p]))
<1>0. Mine(p) /\ Closing(p) /\ Sweeper(p)
  BY DEF Files, Shape
<1> USE DEF Goto, disk, session, Mine, Closing, Past, Abandoned, Early
<1>1. CASE \/ ScanFails(p) \/ AssertHostTrusted(p) \/ Confirm(p) \/ Decline(p) \/ Rescan(p)
           \/ Lock(p) \/ ReadKnown(p) \/ AssertOwned(p) \/ Append(p) \/ Unlock(p)
           \/ Start(p) \/ EnsureRoot(p) \/ List(p) \/ Unidentified(p)
  <2>1. /\ UNCHANGED <<owner, mark, dir, session>>
        /\ pc[p] \in Early
    BY <1>1 DEF ScanFails, AssertHostTrusted, Confirm, Decline, Rescan, Lock, ReadKnown,
       AssertOwned, Append, Unlock, Start, EnsureRoot, List, Unidentified
  <2>2. \E q \in Early \cup {"failed"} : Goto(p, q)
    BY <1>1, Zenon DEF ScanFails, AssertHostTrusted, Confirm, Decline, Rescan, Lock, ReadKnown,
       AssertOwned, Append, Unlock, Start, EnsureRoot, List, Unidentified
  <2>3. pc'[p] \in Early \cup {"failed"}
    BY <2>2 DEF Shape
  <2> QED  BY <1>0, <2>1, <2>3
<1>2. CASE \/ (\E q \in Proc : Look(p, q)) \/ SweepDirectory(p) \/ SweepOwner(p) \/ SweepMark(p)
           \/ SweepFails(p) \/ Swept(p)
  <2>1. pc[p] \in {"sweep", "sweepAgain"} /\ at[p] # p
    BY <1>0, <1>2 DEF Look, SweepDirectory, SweepOwner, SweepMark, SweepFails, Swept, Sweeping, Sweeper
  <2>2. UNCHANGED session /\ owner'[p] = owner[p] /\ dir'[p] = dir[p]
    BY <1>2, <2>1 DEF Look, SweepDirectory, SweepOwner, SweepMark, SweepFails, Swept, Shape
  <2>3. mark'[p] = mark[p]
    BY <1>2, <2>1 DEF Look, SweepDirectory, SweepOwner, SweepMark, SweepFails, Swept, Shape
  <2>4. pc'[p] \in Early \cup {"failed"}
    BY <1>2, <2>1 DEF Look, SweepDirectory, SweepOwner, SweepMark, SweepFails, Swept, Sweeping, Shape
  <2> QED  BY <1>0, <2>1, <2>2, <2>3, <2>4
<1>3. CASE Claim(p)
  BY <1>0, <1>3 DEF Claim, Shape
<1>4. CASE Fill(p) \/ Mkdir(p)
  <2>1. UNCHANGED <<mark, session>> /\ pc[p] \in {"fill", "mkdir"}
    BY <1>4 DEF Fill, Mkdir
  <2>2. /\ pc'[p] \in {"mkdir", "made", "undo", "failed"} /\ dir'[p] # "secret"
        /\ pc'[p] \in {"mkdir", "failed"} => dir'[p] = "no"
        /\ pc'[p] # "failed" => owner'[p] = "valid"
    BY <1>0, <1>4 DEF Fill, Mkdir, Shape
  <2> QED  BY <1>0, <2>1, <2>2
<1>5. CASE Undo(p) \/ Unroot(p)
  <2>1. UNCHANGED <<mark, session>> /\ pc[p] \in {"undo", "unroot"}
    BY <1>5 DEF Undo, Unroot
  <2>2. /\ pc'[p] \in {"unroot", "failed"} /\ (dir'[p] = dir[p] \/ dir'[p] = "no")
        /\ owner'[p] = owner[p] \/ owner'[p] = "no"
    BY <1>5 DEF Undo, Unroot, Shape
  <2> QED  BY <1>0, <2>1, <2>2
<1>6. CASE Register(p)
  <2>1. /\ UNCHANGED <<owner, mark, dir, scope, child>> /\ pc[p] = "made"
        /\ \/ /\ scope[p] = "open" /\ pc'[p] = "write" /\ registered' = registered \cup {p}
           \/ pc'[p] = "failed" /\ registered' = registered
    BY <1>6 DEF Register, Shape
  <2> QED  BY <1>0, <2>1
<1>7. CASE Write(p)
  <2>1. /\ UNCHANGED <<owner, mark, session>> /\ pc[p] = "write"
        /\ \/ dir[p] = "no" /\ pc'[p] = "failed" /\ dir' = dir
           \/ dir[p] # "no" /\ pc'[p] = "open" /\ dir'[p] = "secret"
    BY <1>7 DEF Write, Shape
  <2> QED  BY <1>0, <2>1
<1>8. CASE OpenChannel(p) \/ Spawned(p) \/ Exits(p)
  <2>1. UNCHANGED <<pc, owner, mark, dir, scope, registered>>
    BY <1>8 DEF OpenChannel, Spawned, Exits
  <2>2. scope[p] # "open" => child'[p] # "up"
    BY <1>0, <1>8 DEF OpenChannel, Spawned, Exits, Shape
  <2> QED  BY <1>0, <2>1, <2>2
<1>9. CASE CloseScope(p)
  <2>1. /\ UNCHANGED <<pc, owner, mark, dir, registered>> /\ scope[p] = "open"
        /\ scope'[p] = "channels" /\ child'[p] # "up"
    BY <1>9 DEF CloseScope, Shape
  <2> QED  BY <1>0, <2>1
<1>10. CASE ChannelsClosed(p)
  <2>1. /\ UNCHANGED <<pc, owner, mark, dir, registered, child>> /\ scope[p] = "channels"
        /\ scope'[p] = IF p \in registered THEN "mark" ELSE "closed"
    BY <1>10 DEF ChannelsClosed, Shape
  <2> QED  BY <1>0, <2>1
<1>10a. CASE WriteAbandoned(p)
  <2>1. UNCHANGED <<pc, owner, dir, registered, child>> /\ scope[p] = "mark"
    BY <1>10a DEF WriteAbandoned
  <2>2. \E q \in {"directory", "failed"} : scope' = [scope EXCEPT ![p] = q]
    BY <1>10a, Zenon DEF WriteAbandoned
  <2>3. scope'[p] \in {"directory", "failed"} /\ p \in registered /\ ~mark[p]
    BY <1>0, <2>1, <2>2 DEF Shape
  <2> QED  BY <1>0, <2>1, <2>3 DEF Shape
<1>11. CASE RemoveDirectory(p)
  <2>1. /\ UNCHANGED <<pc, owner, mark, registered, child>> /\ scope[p] = "directory"
        /\ dir'[p] = "no" /\ scope'[p] = "owner"
    BY <1>11 DEF RemoveDirectory, Shape
  <2> QED  BY <1>0, <2>1
<1>12. CASE RemoveOwner(p)
  <2>1. /\ UNCHANGED <<pc, dir, mark, registered, child>> /\ scope[p] = "owner"
        /\ owner'[p] = "no" /\ scope'[p] = "marker" /\ pc[p] # "dead"
    BY <1>12 DEF RemoveOwner, Alive, Shape
  <2> QED  BY <1>0, <2>1
<1>13. CASE RemoveMark(p)
  <2>1. /\ UNCHANGED <<pc, dir, owner, registered, child>> /\ scope[p] = "marker"
        /\ ~mark'[p] /\ scope'[p] = "root"
    BY <1>13 DEF RemoveMark, Shape
  <2> QED  BY <1>0, <2>1
<1>14. CASE RemoveRoot(p)
  <2>1. /\ UNCHANGED <<pc, dir, owner, mark, registered, child>> /\ scope[p] = "root"
        /\ scope'[p] = "closed"
    BY <1>14 DEF RemoveRoot, Shape
  <2> QED  BY <1>0, <2>1
<1>15. CASE RemovalFails(p)
  <2>1. /\ UNCHANGED <<pc, dir, owner, mark, registered, child>> /\ scope'[p] = "failed"
        /\ scope[p] \in {"directory", "owner", "marker", "root"}
    BY <1>15 DEF RemovalFails, Shape
  <2> QED  BY <1>0, <2>1
<1>16. CASE Die(p)
  <2>1. /\ UNCHANGED <<dir, owner, mark, registered, scope>> /\ pc'[p] = "dead"
        /\ child'[p] # "up"
    BY <1>16 DEF Die, Shape
  <2> QED  BY <1>0, <2>1
<1> QED
  BY <1>1, <1>2, <1>3, <1>4, <1>5, <1>6, <1>7, <1>8, <1>9, <1>10, <1>11, <1>12, <1>13, <1>14,
     <1>15, <1>16, <1>10a DEF Step

\* What a step keeps of an abandoned entry, so that a sweeper may go on with it.
Kept(q) ==
  /\ Abandoned(q) => Abandoned(q)'
  /\ Abandoned(q) /\ dir'[q] # "no" =>
       /\ dir[q] # "no" /\ (mark[q] => mark'[q])
       /\ (pc[q] = "dead" => pc'[q] = "dead" /\ owner'[q] = owner[q])

\* A step of a process is one of its own progress, scope and ssh.
LEMMA OwnProgress ==
  ASSUME Shape, NEW p \in Proc, NEW q \in Proc, q # p, Step(p)
  PROVE  /\ pc'[q] = pc[q] /\ scope'[q] = scope[q] /\ child'[q] = child[q]
         /\ q \in registered' <=> q \in registered
<1>1. UNCHANGED pc \/ \E x : pc' = [pc EXCEPT ![p] = x]
  BY Zenon DEF Step, ScanFails, AssertHostTrusted, Confirm, Decline, Rescan, Lock,
     ReadKnown, AssertOwned, Append, Unlock, Start, EnsureRoot, List, Look, SweepDirectory,
     SweepOwner, SweepMark, SweepFails, Swept, Unidentified, Claim, Fill, Mkdir, Undo, Unroot, Register, Write,
     OpenChannel, Spawned, Exits, CloseScope, ChannelsClosed, WriteAbandoned, RemoveDirectory, RemoveOwner,
     RemoveMark, RemoveRoot, RemovalFails, Die, Goto
<1>2. UNCHANGED scope \/ \E x : scope' = [scope EXCEPT ![p] = x]
  BY Zenon DEF Step, ScanFails, AssertHostTrusted, Confirm, Decline, Rescan, Lock,
     ReadKnown, AssertOwned, Append, Unlock, Start, EnsureRoot, List, Look, SweepDirectory,
     SweepOwner, SweepMark, SweepFails, Swept, Unidentified, Claim, Fill, Mkdir, Undo, Unroot, Register, Write,
     OpenChannel, Spawned, Exits, CloseScope, ChannelsClosed, WriteAbandoned, RemoveDirectory, RemoveOwner,
     RemoveMark, RemoveRoot, RemovalFails, Die, session
<1>3. UNCHANGED child \/ \E x : child' = [child EXCEPT ![p] = x]
  BY Zenon DEF Step, ScanFails, AssertHostTrusted, Confirm, Decline, Rescan, Lock,
     ReadKnown, AssertOwned, Append, Unlock, Start, EnsureRoot, List, Look, SweepDirectory,
     SweepOwner, SweepMark, SweepFails, Swept, Unidentified, Claim, Fill, Mkdir, Undo, Unroot, Register, Write,
     OpenChannel, Spawned, Exits, CloseScope, ChannelsClosed, WriteAbandoned, RemoveDirectory, RemoveOwner,
     RemoveMark, RemoveRoot, RemovalFails, Die, session
<1>4. UNCHANGED registered \/ registered' = registered \cup {p}
  BY Zenon DEF Step, ScanFails, AssertHostTrusted, Confirm, Decline, Rescan, Lock,
     ReadKnown, AssertOwned, Append, Unlock, Start, EnsureRoot, List, Look, SweepDirectory,
     SweepOwner, SweepMark, SweepFails, Swept, Unidentified, Claim, Fill, Mkdir, Undo, Unroot, Register, Write,
     OpenChannel, Spawned, Exits, CloseScope, ChannelsClosed, WriteAbandoned, RemoveDirectory, RemoveOwner,
     RemoveMark, RemoveRoot, RemovalFails, Die, session
<1> QED  BY <1>1, <1>2, <1>3, <1>4 DEF Shape

\* A step of p on the part of the state that is q's: only sweeping touches it.
LEMMA OtherStep ==
  ASSUME Shape, Shape', Files, NEW p \in Proc, NEW q \in Proc, q # p, Step(p)
  PROVE  Mine(q)' /\ Closing(q)' /\ Kept(q)
<1>0. Mine(q) /\ Closing(q) /\ Sweeper(p)
  BY DEF Files, Shape
<1>1. /\ pc'[q] = pc[q] /\ scope'[q] = scope[q] /\ child'[q] = child[q]
      /\ q \in registered' <=> q \in registered
  BY OwnProgress
<1>2. CASE UNCHANGED <<owner, dir>> /\ mark'[q] = mark[q]
  BY <1>0, <1>1, <1>2, MineFrame DEF Kept, Abandoned, Past
<1>3. CASE SweepDirectory(p) \/ SweepOwner(p) \/ SweepMark(p)
  <2>1. at[p] \in Proc /\ Abandoned(at[p])
    BY <1>0, <1>3 DEF SweepDirectory, SweepOwner, SweepMark, Shape, Sweeper
  <2>2. CASE at[p] # q
    <3>1. dir'[q] = dir[q] /\ owner'[q] = owner[q]
      BY <1>3, <2>2 DEF SweepDirectory, SweepOwner, SweepMark, Shape
    <3>2. mark'[q] = mark[q]
      BY <1>3, <2>2 DEF SweepDirectory, SweepOwner, SweepMark, Shape
    <3> QED  BY <1>0, <1>1, <3>1, <3>2, MineFrame DEF Kept, Abandoned, Past
  <2>3. CASE at[p] = q
    <3>1. \/ dir'[q] = "no" /\ owner' = owner /\ mark' = mark
          \/ dir' = dir /\ owner' = owner /\ mark' = mark
          \/ dir' = dir /\ dir[q] = "no" /\ owner'[q] = "no" /\ mark' = mark
          \/ dir' = dir /\ dir[q] = "no" /\ owner' = owner /\ ~mark'[q]
      BY <1>3, <2>3 DEF SweepDirectory, SweepOwner, SweepMark, Shape
    <3>2. pc[q] \in {"write", "open", "failed", "dead"}
      BY <1>0, <2>1, <2>3 DEF Abandoned, Past, Mine
    <3>3. ~(pc[q] = "open" /\ scope[q] = "open")
      BY <2>1, <2>3 DEF Abandoned, Past
    <3>4. Mine(q)'
      BY <1>0, <1>1, <3>1, <3>2, <3>3 DEF Mine, Early
    <3>5. Closing(q)'
      BY <1>0, <1>1, <3>1 DEF Closing, Past
    <3>6. Kept(q)
      BY <1>1, <3>1 DEF Kept, Abandoned, Past
    <3> QED  BY <3>4, <3>5, <3>6
  <2> QED  BY <2>2, <2>3
<1>4. CASE Claim(p) \/ Fill(p) \/ Mkdir(p) \/ Undo(p) \/ Write(p)
  <2>1. owner'[q] = owner[q] /\ dir'[q] = dir[q] /\ UNCHANGED mark
    BY <1>4 DEF Claim, Fill, Mkdir, Undo, Write, Shape
  <2> QED  BY <1>0, <1>1, <2>1, MineFrame DEF Kept, Abandoned, Past
<1>5. CASE ChannelsClosed(p) \/ RemoveDirectory(p) \/ RemoveOwner(p) \/ RemoveMark(p)
  <2>1. owner'[q] = owner[q] /\ dir'[q] = dir[q]
    BY <1>5 DEF ChannelsClosed, RemoveDirectory, RemoveOwner, RemoveMark, Shape, disk
  <2>2. mark'[q] = mark[q]
    BY <1>5 DEF ChannelsClosed, RemoveDirectory, RemoveOwner, RemoveMark, Shape, disk
  <2> QED  BY <1>0, <1>1, <2>1, <2>2, MineFrame DEF Kept, Abandoned, Past
<1>5a. CASE WriteAbandoned(p)
  <2>1. UNCHANGED <<owner, dir>>
    BY <1>5a DEF WriteAbandoned
  <2>2. mark' = mark \/ mark' = [mark EXCEPT ![p] = TRUE]
    BY <1>5a, Zenon DEF WriteAbandoned
  <2>3. mark'[q] = mark[q]
    BY <2>2 DEF Shape
  <2> QED  BY <1>2, <2>1, <2>3
<1>6. CASE \/ ScanFails(p) \/ AssertHostTrusted(p) \/ Confirm(p) \/ Decline(p) \/ Rescan(p)
           \/ Lock(p) \/ ReadKnown(p) \/ AssertOwned(p) \/ Append(p) \/ Unlock(p)
           \/ Start(p) \/ EnsureRoot(p) \/ List(p) \/ (\E e \in Proc : Look(p, e)) \/ SweepFails(p) \/ Swept(p)
           \/ Unidentified(p) \/ Unroot(p) \/ Register(p) \/ OpenChannel(p) \/ Spawned(p) \/ Exits(p)
           \/ CloseScope(p) \/ RemoveRoot(p) \/ RemovalFails(p) \/ Die(p)
  <2>1. UNCHANGED <<owner, dir, mark>>
    BY <1>6 DEF ScanFails, AssertHostTrusted, Confirm, Decline, Rescan, Lock, ReadKnown,
       AssertOwned, Append, Unlock, Start, EnsureRoot, List, Look, SweepFails, Swept, Unidentified, Unroot,
       Register, OpenChannel, Spawned, Exits, CloseScope, RemoveRoot, RemovalFails, Die, disk
  <2> QED  BY <1>2, <2>1
<1> QED
  BY <1>3, <1>4, <1>5, <1>5a, <1>6 DEF Step

\* A sweeper whose entries were not touched.
LEMMA SweeperFrame ==
  ASSUME Shape, NEW p \in Proc, Sweeper(p), \A q \in Proc : Kept(q),
         todo'[p] = todo[p], stale'[p] = stale[p], at'[p] = at[p],
         pc'[p] \in {"sweep", "sweepAgain", "claim"} => pc[p] \in {"sweep", "sweepAgain", "claim"},
         pc'[p] = "claim" => pc[p] = "claim"
  PROVE  Sweeper(p)'
<1>1. \A q \in Proc : at[p] = q => Abandoned(q)'
  BY DEF Sweeper, Kept
<1>2. \A q \in stale[p] : q \in Proc /\ Abandoned(q) /\ Kept(q)
  BY DEF Sweeper, Shape
<1>3. \A q \in stale[p] : Abandoned(q)' /\ (dir'[q] # "no" => dir[q] # "no")
  BY <1>2 DEF Kept
<1>4. \A q \in stale[p] : dir'[q] # "no" => mark'[q] \/ (owner'[q] = "valid" /\ pc'[q] = "dead")
  <2> SUFFICES ASSUME NEW q \in stale[p], dir'[q] # "no"
               PROVE  mark'[q] \/ (owner'[q] = "valid" /\ pc'[q] = "dead")
    OBVIOUS
  <2>1. mark[q] \/ (owner[q] = "valid" /\ pc[q] = "dead")
    BY <1>3 DEF Sweeper
  <2> QED  BY <1>2, <2>1 DEF Kept
<1> HIDE DEF Abandoned
<1> QED  BY <1>1, <1>3, <1>4 DEF Sweeper

\* The sweeping of p itself.
LEMMA SweepStep ==
  ASSUME Shape, Shape', Files, NEW p \in Proc, Step(p), \A q \in Proc : Kept(q)
  PROVE  Sweeper(p)'
<1>0. Sweeper(p) /\ \A q \in Proc : Mine(q) /\ Closing(q)
  BY DEF Files
<1> USE DEF Goto
<1>k. \A q \in stale[p] : q \in Proc /\ Abandoned(q)' /\ (dir'[q] # "no" =>
         /\ dir[q] # "no" /\ (mark'[q] \/ (owner'[q] = "valid" /\ pc'[q] = "dead")))
  <2> SUFFICES ASSUME NEW q \in stale[p]
               PROVE  q \in Proc /\ Abandoned(q)' /\ (dir'[q] # "no" =>
                 /\ dir[q] # "no" /\ (mark'[q] \/ (owner'[q] = "valid" /\ pc'[q] = "dead")))
    OBVIOUS
  <2>1. /\ q \in Proc /\ Abandoned(q) /\ Kept(q)
        /\ dir[q] # "no" => mark[q] \/ (owner[q] = "valid" /\ pc[q] = "dead")
    BY <1>0 DEF Sweeper, Shape
  <2> QED  BY <2>1 DEF Kept
<1>1. CASE List(p)
  <2>1. /\ pc'[p] \in {"sweep", "sweepAgain"} /\ UNCHANGED <<owner, mark, dir, at, scope, registered>>
        /\ todo'[p] = Entries
        /\ stale'[p] = {q \in Entries : mark[q] \/ Gone(q)}
    BY <1>1 DEF List, Shape, disk, session
  <2>2. ASSUME NEW q \in stale'[p]
        PROVE  /\ Abandoned(q)' /\ q \in todo'[p]
               /\ dir'[q] # "no" => mark'[q] \/ (owner'[q] = "valid" /\ pc'[q] = "dead")
    <3>1. q \in Proc /\ (mark[q] \/ pc[q] = "dead") /\ (owner[q] # "no" \/ mark[q])
      BY <2>1 DEF Entries, Gone, Alive
    <3>2. Abandoned(q)
      BY <1>0, <3>1 DEF Closing, Abandoned
    <3>3. dir[q] # "no" /\ ~mark[q] => owner[q] = "valid" /\ pc[q] = "dead"
      BY <1>0, <3>1 DEF Mine, Shape
    <3> QED  BY <2>1, <3>1, <3>2, <3>3 DEF Kept
  <2>3. \A q \in Proc : at[p] = q => Abandoned(q)'
    BY <1>0 DEF Sweeper, Kept
  <2> HIDE DEF Abandoned
  <2> QED  BY <2>1, <2>2, <2>3 DEF Sweeper
<1>2. ASSUME NEW e \in Proc, Look(p, e) PROVE Sweeper(p)'
  <2>1. /\ Sweeping(p) /\ UNCHANGED <<pc, owner, mark, dir, scope, registered>>
        /\ at[p] = None /\ todo'[p] = todo[p] \ {e}
    BY <1>2 DEF Look, Shape, disk, session
  <2>2. \A q \in Proc : Abandoned(q)' <=> Abandoned(q)
    BY <2>1 DEF Abandoned, Past
  <2>3. CASE stale' = stale /\ at'[p] = IF mark[e] \/ (Owned(e) /\ Gone(e)) THEN e ELSE None
    <3>1. \A q \in Proc : at'[p] = q => Abandoned(q)'
      <4> SUFFICES ASSUME NEW q \in Proc, at'[p] = q PROVE Abandoned(q)'
        OBVIOUS
      <4>1. q = e /\ (mark[e] \/ pc[e] = "dead")
        BY <2>3, SshAssumption DEF Gone, Alive
      <4>2. Abandoned(q)
        BY <1>0, <4>1 DEF Closing, Abandoned
      <4> QED  BY <2>2, <4>2
    <3>2. ASSUME NEW q \in stale[p] PROVE q \in todo'[p] \/ at'[p] = q \/ dir'[q] = "no"
      <4>1. q \in todo[p] \/ dir[q] = "no"
        BY <1>0, <1>k, <2>1, SshAssumption DEF Sweeper, Sweeping
      <4>2. CASE q = e
        <5>1. dir[q] # "no" => mark[q] \/ (owner[q] = "valid" /\ pc[q] = "dead")
          BY <1>0 DEF Sweeper
        <5> QED  BY <2>1, <2>3, <4>2, <5>1 DEF Owned, Gone, Alive
      <4> QED  BY <2>1, <4>1, <4>2
    <3> HIDE DEF Abandoned
    <3> QED  BY <1>k, <2>1, <2>3, <3>1, <3>2 DEF Sweeper, Sweeping
  <2>4. CASE at' = at /\ stale'[p] = stale[p] \ {e}
    <3>1. ASSUME NEW q \in stale'[p] PROVE q \in todo'[p] \/ at'[p] = q \/ dir'[q] = "no"
      BY <1>0, <2>1, <2>4 DEF Sweeper, Sweeping
    <3>2. at'[p] \notin Proc
      BY <2>1, <2>4, SshAssumption
    <3> HIDE DEF Abandoned
    <3> QED  BY <1>k, <2>1, <2>4, <3>1, <3>2 DEF Sweeper, Sweeping
  <2> QED  BY <1>2, <2>3, <2>4 DEF Look, Shape
<1>3. CASE SweepMark(p)
  <2>1. /\ Sweeping(p) /\ UNCHANGED <<pc, owner, dir, todo, stale, scope, registered>>
        /\ at[p] # None /\ dir[at[p]] = "no" /\ at'[p] = None
    BY <1>3 DEF SweepMark, Shape, session
  <2>2. ASSUME NEW q \in stale[p] PROVE q \in todo'[p] \/ dir'[q] = "no"
    BY <1>0, <2>1 DEF Sweeper, Sweeping
  <2> HIDE DEF Abandoned
  <2> QED  BY <1>k, <2>1, <2>2, SshAssumption DEF Sweeper, Sweeping
<1>4. CASE Swept(p)
  <2>1. /\ Sweeping(p) /\ UNCHANGED <<owner, mark, dir, todo, stale, at, scope, registered>>
        /\ at[p] = None /\ todo[p] = {}
    BY <1>4 DEF Swept, disk, sweep, session
  <2>2. ASSUME NEW q \in stale[p] PROVE dir[q] = "no"
    BY <1>0, <1>k, <2>1, SshAssumption DEF Sweeper, Sweeping
  <2> HIDE DEF Abandoned
  <2> QED  BY <1>k, <2>1, <2>2, SshAssumption DEF Sweeper
<1>5. CASE Claim(p)
  <2>1. stale'[p] = {} /\ pc'[p] \in {"fill", "failed"} /\ UNCHANGED at
    BY <1>5 DEF Claim, Shape
  <2>2. \A q \in Proc : at[p] = q => Abandoned(q)'
    BY <1>0 DEF Sweeper, Kept
  <2> HIDE DEF Abandoned
  <2> QED  BY <2>1, <2>2 DEF Sweeper
<1>6. CASE Die(p)
  <2>1. stale'[p] = {} /\ pc'[p] = "dead" /\ at'[p] = None
    BY <1>6 DEF Die, Shape
  <2> QED  BY <2>1, SshAssumption DEF Sweeper
<1>7. CASE UNCHANGED <<todo, stale, at>> /\ (UNCHANGED pc \/
             pc'[p] \notin {"sweep", "sweepAgain", "claim"})
  BY <1>0, <1>7, SweeperFrame
<1>8. CASE \/ ScanFails(p) \/ AssertHostTrusted(p) \/ Confirm(p) \/ Decline(p) \/ Rescan(p)
           \/ Lock(p) \/ ReadKnown(p) \/ AssertOwned(p) \/ Unlock(p)
           \/ Start(p) \/ EnsureRoot(p) \/ Unidentified(p)
  <2>1. UNCHANGED <<todo, stale, at>>
    BY <1>8 DEF ScanFails, AssertHostTrusted, Confirm, Decline, Rescan, Lock, ReadKnown,
       AssertOwned, Unlock, Start, EnsureRoot, Unidentified, sweep
  <2>2. pc'[p] \notin {"sweep", "sweepAgain", "claim"}
    BY <1>8 DEF ScanFails, AssertHostTrusted, Confirm, Decline, Rescan, Lock, ReadKnown,
       AssertOwned, Unlock, Start, EnsureRoot, Unidentified, Shape
  <2> QED  BY <1>7, <2>1, <2>2
<1>9. CASE Append(p)
  <2>1. UNCHANGED <<todo, stale, at>>
    BY <1>9 DEF Append, sweep
  <2>2. Goto(p, "unlock") \/ Goto(p, "unlockFailed")
    BY <1>9, Zenon DEF Append
  <2>3. pc'[p] \notin {"sweep", "sweepAgain", "claim"}
    BY <2>2 DEF Shape
  <2> QED  BY <1>7, <2>1, <2>3
<1>10. CASE \/ SweepDirectory(p) \/ SweepOwner(p) \/ SweepFails(p) \/ Fill(p) \/ Mkdir(p) \/ Undo(p) \/ Unroot(p)
            \/ Register(p) \/ Write(p) \/ OpenChannel(p) \/ Spawned(p) \/ Exits(p) \/ CloseScope(p)
            \/ ChannelsClosed(p) \/ WriteAbandoned(p) \/ RemoveDirectory(p) \/ RemoveOwner(p)
            \/ RemoveMark(p) \/ RemoveRoot(p) \/ RemovalFails(p)
  <2>1. UNCHANGED <<todo, stale, at>>
    BY <1>10 DEF SweepDirectory, SweepOwner, SweepFails, Fill, Mkdir, Undo, Unroot, Register, Write, OpenChannel,
       Spawned, Exits, CloseScope, ChannelsClosed, WriteAbandoned, RemoveDirectory, RemoveOwner, RemoveMark,
       RemoveRoot, RemovalFails, sweep
  <2>2. UNCHANGED pc \/ pc'[p] \notin {"sweep", "sweepAgain", "claim"}
    BY <1>10 DEF SweepDirectory, SweepOwner, SweepFails, Fill, Mkdir, Undo, Unroot, Register, Write, OpenChannel,
       Spawned, Exits, CloseScope, ChannelsClosed, WriteAbandoned, RemoveDirectory, RemoveOwner, RemoveMark,
       RemoveRoot, RemovalFails, Shape
  <2> QED  BY <1>7, <2>1, <2>2
<1> QED
  BY <1>1, <1>2, <1>3, <1>4, <1>5, <1>6, <1>8, <1>9, <1>10 DEF Step

LEMMA FilesStep == Shape /\ Files /\ [Next]_vars => Files'
<1> SUFFICES ASSUME Shape, Files, [Next]_vars PROVE Files'
  OBVIOUS
<1>0. Shape'
  BY ShapeStep
<1>1. CASE Rekey \/ Reclaim \/ UNCHANGED vars
  <2>1. UNCHANGED <<pc, owner, mark, dir, sweep, session>>
    BY <1>1 DEF Rekey, Reclaim, vars, disk
  <2>2. ASSUME NEW p \in Proc PROVE Mine(p)' /\ Closing(p)' /\ Sweeper(p)'
    <3>1. Mine(p)' /\ Closing(p)'
      BY <1>0, <2>1, MineFrame DEF Files, session
    <3>2. Sweeper(p)'
      BY <2>1 DEF Files, Sweeper, Abandoned, Past, sweep, session
    <3> QED  BY <3>1, <3>2
  <2> QED  BY <2>2 DEF Files
<1>2. ASSUME NEW p \in Proc, Step(p) PROVE Files'
  <2>1. \A q \in Proc : Mine(q)' /\ Closing(q)' /\ Kept(q)
    <3>1. Mine(p)' /\ Closing(p)' /\ Kept(p)
      BY <1>0, <1>2, OwnStep DEF Kept
    <3> QED  BY <1>0, <1>2, <3>1, OtherStep
  <2>2. Sweeper(p)'
    BY <1>0, <1>2, <2>1, SweepStep
  <2>3. ASSUME NEW q \in Proc, q # p PROVE Sweeper(q)'
    <3>1. /\ UNCHANGED todo \/ \E x : todo' = [todo EXCEPT ![p] = x]
          /\ UNCHANGED stale \/ \E x : stale' = [stale EXCEPT ![p] = x]
          /\ UNCHANGED at \/ \E x : at' = [at EXCEPT ![p] = x]
      BY <1>2, Zenon DEF Step, ScanFails, AssertHostTrusted, Confirm, Decline, Rescan, Lock,
         ReadKnown, AssertOwned, Append, Unlock, Start, EnsureRoot, List, Look, SweepDirectory,
         SweepOwner, SweepMark, SweepFails, Swept, Unidentified, Claim, Fill, Mkdir, Undo, Unroot, Register,
         Write, OpenChannel, Spawned, Exits, CloseScope, ChannelsClosed, WriteAbandoned, RemoveDirectory,
         RemoveOwner, RemoveMark, RemoveRoot, RemovalFails, Die, sweep
    <3>2. todo'[q] = todo[q] /\ stale'[q] = stale[q] /\ at'[q] = at[q] /\ pc'[q] = pc[q]
      BY <1>2, <2>3, <3>1, OwnProgress DEF Shape
    <3> QED  BY <2>1, <3>2, SweeperFrame DEF Files
  <2> QED  BY <2>1, <2>2, <2>3 DEF Files
<1> QED  BY <1>1, <1>2, Steps

Inv == Shape /\ Trust /\ Files

LEMMA Inductive == Spec => []Inv
<1>1. Init => Trust
  BY SshAssumption DEF Init, Trust, Enrollment
<1>2. Init => Inv
  BY <1>1, ShapeInit, FilesInit DEF Inv
<1>3. Inv /\ [Next]_vars => Inv'
  BY ShapeStep, TrustStep, FilesStep DEF Inv
<1> QED  BY <1>2, <1>3, PTL DEF Spec

\* For any number of processes and keys, nobody adds a key that no user confirmed.
THEOREM TrustIsConfirmed == Spec => []KnownAreConfirmed
<1>1. Trust => KnownAreConfirmed
  BY DEF Trust, KnownAreConfirmed
<1> QED  BY <1>1, Inductive, PTL DEF Inv

\* Enrollments at the same time trust one key, unless a lease is lost within one.
THEOREM HostsHaveOneKey == Spec => []OneKeyPerHost
<1>1. Trust => OneKeyPerHost
  <2> SUFFICES ASSUME \A k, l \in known : k = l PROVE Cardinality(known) <= 1
    BY DEF Trust, OneKeyPerHost
  <2>1. CASE known = {}
    BY <2>1, FS_EmptySet
  <2>2. CASE known # {}
    <3>1. PICK k \in known : TRUE
      BY <2>2
    <3>2. known = {k}
      BY <3>1
    <3> QED  BY <3>2, FS_Singleton, SMTT(60)
  <2> QED  BY <2>1, <2>2
<1> QED  BY <1>1, Inductive, PTL DEF Inv

\* No process removes the key files of another one that is connected.
THEOREM MaterialIsKept == Spec => []LiveMaterialIsKept
<1>1. Files => LiveMaterialIsKept
  BY DEF Files, Mine, LiveMaterialIsKept
<1> QED  BY <1>1, Inductive, PTL DEF Inv

\* Every key on disk is removed by its own connection, or found and removed before
\* the next one is written, wherever processes die and removals fail.
THEOREM NoKeyStays == Spec => []KeysAreRemoved
<1>1. Shape /\ Files => SecretsAreClaimed
  BY DEF Shape, Files, Mine, SecretsAreClaimed
<1>2. Shape /\ Files => LeftoversAreSwept
  BY SshAssumption DEF Shape, Files, Sweeper, LeftoversAreSwept
<1>3. Shape /\ Files => CloseLeavesNothing
  BY DEF Shape, Files, Mine, Closing, Past, CloseLeavesNothing, Alive
<1> QED  BY <1>1, <1>2, <1>3, Inductive, PTL DEF Inv, KeysAreRemoved
=============================================================================
