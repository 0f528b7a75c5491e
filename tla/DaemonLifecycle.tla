-------------------------- MODULE DaemonLifecycle --------------------------
(***************************************************************************)
(* The processes around one instance: daemons ("daemon run", also started  *)
(* by "daemon start"), clients that start and stop them, and clients that  *)
(* destroy the instance under the connection guard.  They share the        *)
(* descriptor file daemon.json, two locks, Local State, and the HTTP       *)
(* interface of the daemon the descriptor names.                           *)
(*                                                                         *)
(* Locks are exclusive (FilesystemLock), a drain is what DaemonSessions    *)
(* and EndpointIntents promise of it, and the instance has at most one     *)
(* connection per daemon.  A daemon that serves answers a ping in time.    *)
(***************************************************************************)
EXTENDS Naturals

CONSTANTS
  Daemon,      \* processes of "easyserver daemon run"
  Starter,     \* calls of ManagedDaemonOperations.start
  Stopper,     \* calls of ManagedDaemonOperations.stop
  Destroyer,   \* calls of InstanceOperations.perform("instance.destroy")
  MayCrash,    \* the processes that may die at any moment
  NoFile, Partial,  \* no descriptor; one that readers cannot parse
  None

ASSUME LifecycleAssumption ==
  /\ {NoFile, Partial, None} \cap (Daemon \cup Starter \cup Stopper \cup Destroyer) = {}
  /\ NoFile # Partial /\ NoFile # None /\ Partial # None
  /\ Daemon \cap (Starter \cup Stopper \cup Destroyer) = {}
  /\ Starter \cap (Stopper \cup Destroyer) = {} /\ Stopper \cap Destroyer = {}
  /\ MayCrash \subseteq Daemon \cup Starter \cup Stopper \cup Destroyer

VARIABLES
  dm,         \* daemon processes
  cl,         \* clients
  file,       \* the descriptor file
  enabled,    \* a saved connection of the instance is enabled in Local State
  managed,    \* holder of managed.lock
  lifecycle,  \* holder of lifecycle.lock
  robbed      \* history: a daemon has removed the descriptor of another one

vars == <<dm, cl, file, enabled, managed, lifecycle, robbed>>

Client == Starter \cup Stopper \cup Destroyer
Process == Daemon \cup Client

\* Answers requests that carry its token; the descriptor tells it to clients.
Serves(d) == dm[d].pc \in {"started", "serving"}

DaemonGoes(d, pc) == dm' = [dm EXCEPT ![d].pc = pc]
Goes(c, pc) == cl' = [cl EXCEPT ![c].pc = pc]

\* The locks are released; what the call has read is forgotten with it.
Leaves(c) == cl' = [cl EXCEPT ![c].pc = "relManaged", ![c].saw = None]

\* left: why it may leave a drain behind, "untold" its token or "warned" of it.
Idle == [pc |-> "idle", saw |-> None, close |-> FALSE, token |-> FALSE,
         affected |-> FALSE, left |-> "no"]

\* A client that has begun a drain and not yet asked for its release.
Drains == {"beginWait", "guard", "close", "closeWait", "destroying", "release"}

Init ==
  /\ dm = [d \in Daemon |-> [pc |-> "unborn", saw |-> None, conn |-> "none", drained |-> FALSE]]
  /\ cl = [c \in Client |-> Idle]
  /\ file = NoFile /\ enabled \in BOOLEAN
  /\ managed = None /\ lifecycle = None /\ robbed = FALSE

(***************************************************************************)
(* initializeDaemonForeground: all of it under lifecycle.lock              *)
(***************************************************************************)
Run(d) ==
  /\ dm[d].pc = "unborn"
  /\ DaemonGoes(d, "wait")
  /\ UNCHANGED <<cl, file, enabled, managed, lifecycle, robbed>>

TakeLifecycle(d) ==
  /\ dm[d].pc = "wait" /\ lifecycle = None
  /\ lifecycle' = d /\ DaemonGoes(d, "inspect")
  /\ UNCHANGED <<cl, file, enabled, managed, robbed>>

LifecycleTimeout(d) ==
  /\ dm[d].pc = "wait" /\ lifecycle # None
  /\ DaemonGoes(d, "gone")
  /\ UNCHANGED <<cl, file, enabled, managed, lifecycle, robbed>>

Inspect(d) ==
  /\ dm[d].pc = "inspect"
  /\ dm' = [dm EXCEPT ![d].pc = CASE file = NoFile -> "boot" [] file = Partial -> "remove"
                                  [] file \in Daemon -> "ping",
                      ![d].saw = IF file \in Daemon THEN file ELSE None]
  /\ UNCHANGED <<cl, file, enabled, managed, lifecycle, robbed>>

\* Mutant: a descriptor found is taken for a stale one.
PingedNot(d) ==
  /\ dm[d].pc = "ping"
  /\ DaemonGoes(d, "remove")
  /\ UNCHANGED <<cl, file, enabled, managed, lifecycle, robbed>>

Pinged(d) ==
  /\ dm[d].pc = "ping"
  /\ IF Serves(dm[d].saw)
     THEN dm' = [dm EXCEPT ![d].pc = "gone", ![d].saw = None] /\ lifecycle' = None
     ELSE dm' = [dm EXCEPT ![d].pc = "remove", ![d].saw = None] /\ UNCHANGED lifecycle
  /\ UNCHANGED <<cl, file, enabled, managed, robbed>>

RemoveStale(d) ==
  /\ dm[d].pc = "remove"
  /\ file' = NoFile /\ DaemonGoes(d, "boot")
  /\ UNCHANGED <<cl, enabled, managed, lifecycle, robbed>>

\* startLocalConnectionDaemon: listen, then restore the enabled connections.
Boot(d) ==
  /\ dm[d].pc = "boot"
  /\ dm' = [dm EXCEPT ![d].pc = "claim", ![d].conn = IF enabled THEN "opening" ELSE "none"]
  /\ UNCHANGED <<cl, file, enabled, managed, lifecycle, robbed>>

BootFails(d) ==
  /\ dm[d].pc = "boot"
  /\ DaemonGoes(d, "gone") /\ lifecycle' = None
  /\ UNCHANGED <<cl, file, enabled, managed, robbed>>

\* writeFile with flag "wx" makes the file, then fills it.
Claim(d) ==
  /\ dm[d].pc = "claim" /\ file = NoFile
  /\ file' = Partial /\ DaemonGoes(d, "fill")
  /\ UNCHANGED <<cl, enabled, managed, lifecycle, robbed>>

Fill(d) ==
  /\ dm[d].pc = "fill"
  /\ file' = IF file = Partial THEN d ELSE file
  /\ DaemonGoes(d, "started")
  /\ UNCHANGED <<cl, enabled, managed, lifecycle, robbed>>

Serve(d) ==
  /\ dm[d].pc = "started"
  /\ lifecycle' = None /\ DaemonGoes(d, "serving")
  /\ UNCHANGED <<cl, file, enabled, managed, robbed>>

(***************************************************************************)
(* A running daemon, as far as this instance goes                          *)
(***************************************************************************)
\* A session, or the saved connection, which is enabled with it.
Connect(d) ==
  /\ Serves(d) /\ ~dm[d].drained /\ dm[d].conn = "none"
  /\ dm' = [dm EXCEPT ![d].conn = "opening"]
  /\ enabled' \in {enabled, TRUE}
  /\ UNCHANGED <<cl, file, managed, lifecycle, robbed>>

Disable(d) ==
  /\ Serves(d) /\ enabled /\ dm[d].conn \in {"none", "open"}
  /\ enabled' = FALSE
  /\ dm' = [dm EXCEPT ![d].conn = IF @ = "open" THEN "closing" ELSE @]
  /\ UNCHANGED <<cl, file, managed, lifecycle, robbed>>

\* A tunnel that comes too late is closed.
Opened(d) ==
  /\ dm[d].conn = "opening"
  /\ \E r \in {"open", "none"} :
       dm' = [dm EXCEPT ![d].conn =
                IF r = "open" /\ (dm[d].drained \/ dm[d].pc \notin {"claim", "fill", "started", "serving"})
                THEN "closing" ELSE r]
  /\ UNCHANGED <<cl, file, enabled, managed, lifecycle, robbed>>

TransportDies(d) ==
  /\ dm[d].conn = "open"
  /\ dm' = [dm EXCEPT ![d].conn = "closing"]
  /\ UNCHANGED <<cl, file, enabled, managed, lifecycle, robbed>>

Closed(d) ==
  /\ dm[d].conn = "closing"
  /\ \E r \in {"none", "failed"} : dm' = [dm EXCEPT ![d].conn = r]
  /\ UNCHANGED <<cl, file, enabled, managed, lifecycle, robbed>>

\* SIGINT, SIGTERM or POST /shutdown: the HTTP server goes first.
\* Drains are over with it, since no request reaches them.
Stopping(d) == [dm EXCEPT ![d].pc = "stopping", ![d].drained = FALSE]

Signal(d) ==
  /\ dm[d].pc = "serving"
  /\ dm' = Stopping(d)
  /\ UNCHANGED <<cl, file, enabled, managed, lifecycle, robbed>>

CloseAll(d) ==
  /\ dm[d].pc = "stopping"
  /\ dm' = [dm EXCEPT ![d].pc = "closing", ![d].conn = IF @ = "open" THEN "closing" ELSE @]
  /\ UNCHANGED <<cl, file, enabled, managed, lifecycle, robbed>>

CloseEnds(d) ==
  /\ dm[d].pc = "closing" /\ dm[d].conn # "closing"
  /\ DaemonGoes(d, "readOwn")
  /\ UNCHANGED <<cl, file, enabled, managed, lifecycle, robbed>>

\* releaseDescriptor compares, then removes, without lifecycle.lock.
ReadOwn(d) ==
  /\ dm[d].pc = "readOwn"
  /\ DaemonGoes(d, IF file = d THEN "rmOwn" ELSE "gone")
  /\ UNCHANGED <<cl, file, enabled, managed, lifecycle, robbed>>

RmOwn(d) ==
  /\ dm[d].pc = "rmOwn"
  /\ file' = NoFile /\ DaemonGoes(d, "gone")
  /\ robbed' = (robbed \/ file \notin {d, NoFile})
  /\ UNCHANGED <<cl, enabled, managed, lifecycle>>

Unstarted == {"wait", "inspect", "ping", "remove", "boot", "claim", "fill", "started"}

\* Killed: no handler runs, and the tunnel dies with the process.
Dead(d) == [dm EXCEPT ![d] = [pc |-> "dead", saw |-> None, conn |-> "none", drained |-> FALSE]]

DaemonCrash(d) ==
  /\ d \in MayCrash /\ dm[d].pc \notin {"unborn", "gone", "dead"}
  /\ dm' = Dead(d)
  /\ UNCHANGED <<cl, file, enabled, managed, lifecycle, robbed>>

(***************************************************************************)
(* Clients: managed.lock, and for a destruction lifecycle.lock, are taken, *)
(* then the daemon is inspected.  Every wait may time out.                 *)
(***************************************************************************)
Call(c) ==
  /\ cl[c].pc = "idle"
  /\ \E f \in IF c \in Destroyer THEN BOOLEAN ELSE {FALSE} :
       cl' = [cl EXCEPT ![c].pc = "managed", ![c].close = f]
  /\ UNCHANGED <<dm, file, enabled, managed, lifecycle, robbed>>

TakeManaged(c) ==
  /\ cl[c].pc = "managed" /\ managed = None
  /\ managed' = c
  /\ Goes(c, IF c \in Destroyer THEN "lifecycle" ELSE "look")
  /\ UNCHANGED <<dm, file, enabled, lifecycle, robbed>>

ManagedTimeout(c) ==
  /\ cl[c].pc = "managed" /\ managed # None
  /\ Goes(c, "done")
  /\ UNCHANGED <<dm, file, enabled, managed, lifecycle, robbed>>

\* Mutant: managed.lock alone protects the destruction.
GuardManagedOnly(c) ==
  /\ cl[c].pc = "lifecycle"
  /\ Goes(c, "look")
  /\ UNCHANGED <<dm, file, enabled, managed, lifecycle, robbed>>

GuardLifecycle(c) ==
  /\ cl[c].pc = "lifecycle" /\ lifecycle = None
  /\ lifecycle' = c /\ Goes(c, "look")
  /\ UNCHANGED <<dm, file, enabled, managed, robbed>>

GuardTimeout(c) ==
  /\ cl[c].pc = "lifecycle" /\ lifecycle # None
  /\ Goes(c, "relManaged")
  /\ UNCHANGED <<dm, file, enabled, managed, lifecycle, robbed>>

Look(c) ==
  /\ cl[c].pc = "look"
  /\ cl' = [cl EXCEPT ![c].pc = CASE file = NoFile -> "stopped" [] file = Partial -> "stale"
                                  [] file \in Daemon -> "ping",
                      ![c].saw = IF file \in Daemon THEN file ELSE None]
  /\ UNCHANGED <<dm, file, enabled, managed, lifecycle, robbed>>

Ping(c) ==
  /\ cl[c].pc = "ping"
  /\ Goes(c, IF Serves(cl[c].saw) THEN "running" ELSE "stale")
  /\ UNCHANGED <<dm, file, enabled, managed, lifecycle, robbed>>

ReleaseLifecycle(c) ==
  /\ cl[c].pc = "relLifecycle"
  /\ lifecycle' = None /\ Goes(c, "relManaged")
  /\ UNCHANGED <<dm, file, enabled, managed, robbed>>

ReleaseManaged(c) ==
  /\ cl[c].pc = "relManaged"
  /\ managed' = None
  /\ cl' = [cl EXCEPT ![c].pc = "done", ![c].close = FALSE,
                      ![c].saw = IF cl[c].left = "no" THEN None ELSE @, ![c].token = FALSE]
  /\ UNCHANGED <<dm, file, enabled, lifecycle, robbed>>

ClientCrash(c) ==
  /\ c \in MayCrash /\ cl[c].pc \notin {"idle", "managed", "done", "crashed"}
  /\ cl' = [cl EXCEPT ![c] = [Idle EXCEPT !.pc = "crashed", !.left = cl[c].left,
                                !.saw = IF cl[c].pc \in Drains \/ cl[c].left # "no" THEN cl[c].saw ELSE None]]
  /\ UNCHANGED <<dm, file, enabled, managed, lifecycle, robbed>>

Ended(p) == IF p \in Daemon THEN dm[p].pc = "dead" ELSE cl[p].pc = "crashed"

\* A lock whose holder died is reclaimed (FilesystemLock).
Reclaim ==
  /\ \/ managed \in Process /\ Ended(managed) /\ managed' = None /\ UNCHANGED lifecycle
     \/ lifecycle \in Process /\ Ended(lifecycle) /\ lifecycle' = None /\ UNCHANGED managed
  /\ UNCHANGED <<dm, cl, file, enabled, robbed>>

(***************************************************************************)
(* ManagedDaemonOperations.start and stop                                  *)
(***************************************************************************)
Spawn(c) ==
  /\ c \in Starter /\ cl[c].pc \in {"stopped", "stale"}
  /\ \E d \in Daemon :
       /\ dm[d].pc = "unborn"
       /\ DaemonGoes(d, "wait")
       /\ cl' = [cl EXCEPT ![c].pc = "poll", ![c].saw = d]
  /\ UNCHANGED <<file, enabled, managed, lifecycle, robbed>>

\* The daemon found running may be another one than the child.
StartSucceeds(c) ==
  /\ c \in Starter
  /\ cl[c].pc = "running" \/ (cl[c].pc = "poll" /\ file \in Daemon /\ Serves(file))
  /\ Leaves(c)
  /\ UNCHANGED <<dm, file, enabled, managed, lifecycle, robbed>>

ChildExited(c) ==
  /\ cl[c].pc = "poll" /\ dm[cl[c].saw].pc \in {"gone", "dead"}
  /\ Leaves(c)
  /\ UNCHANGED <<dm, file, enabled, managed, lifecycle, robbed>>

\* terminateChild: SIGTERM, which kills a daemon that has no handler yet.
StartTimeout(c) ==
  /\ cl[c].pc = "poll"
  /\ dm' = IF dm[cl[c].saw].pc = "serving" THEN Stopping(cl[c].saw)
           ELSE IF dm[cl[c].saw].pc \in Unstarted THEN Dead(cl[c].saw)
           ELSE dm
  /\ Leaves(c)
  /\ UNCHANGED <<file, enabled, managed, lifecycle, robbed>>

NothingToStop(c) ==
  /\ c \in Stopper /\ cl[c].pc \in {"stopped", "stale"}
  /\ Leaves(c)
  /\ UNCHANGED <<dm, file, enabled, managed, lifecycle, robbed>>

\* A daemon that has not released lifecycle.lock yet stops later (Signal).
RequestShutdown(c) ==
  /\ c \in Stopper /\ cl[c].pc = "running"
  /\ IF Serves(cl[c].saw) THEN Goes(c, "waitStop") ELSE Leaves(c)
  /\ dm' = IF dm[cl[c].saw].pc = "serving" THEN Stopping(cl[c].saw) ELSE dm
  /\ UNCHANGED <<file, enabled, managed, lifecycle, robbed>>

\* Any other content of the descriptor counts as stopped; so does the deadline end it.
StopSeen(c) ==
  /\ cl[c].pc = "waitStop"
  /\ Leaves(c)
  /\ UNCHANGED <<dm, file, enabled, managed, lifecycle, robbed>>

(***************************************************************************)
(* InstanceOperations.perform("instance.destroy")                          *)
(***************************************************************************)
RefuseStale(c) ==
  /\ c \in Destroyer /\ cl[c].pc = "stale"
  /\ Goes(c, "relLifecycle")
  /\ UNCHANGED <<dm, file, enabled, managed, lifecycle, robbed>>

\* No daemon: Local State says which connections a next daemon would restore.
ReadIntents(c) ==
  /\ c \in Destroyer /\ cl[c].pc = "stopped"
  /\ cl' = [cl EXCEPT ![c].pc = "guard", ![c].affected = enabled]
  /\ UNCHANGED <<dm, file, enabled, managed, lifecycle, robbed>>

\* POST /connection-drains; a daemon that is gone or already drains refuses.
BeginDrain(c) ==
  /\ c \in Destroyer /\ cl[c].pc = "running"
  /\ LET d == cl[c].saw IN
     IF Serves(d) /\ ~dm[d].drained
     THEN dm' = [dm EXCEPT ![d].drained = TRUE] /\ Goes(c, "beginWait")
     ELSE Goes(c, "relLifecycle") /\ UNCHANGED dm
  /\ UNCHANGED <<file, enabled, managed, lifecycle, robbed>>

\* The daemon answers when no setup of the instance is in flight.  No answer
\* comes from one that stops, or not in the time fetch allows: then the client
\* has no token, and cannot release the drain it has begun.
BeginAnswered(c) ==
  /\ cl[c].pc = "beginWait"
  /\ LET d == cl[c].saw IN
     \/ /\ Serves(d) /\ dm[d].conn # "opening"
        /\ cl' = [cl EXCEPT ![c].pc = "guard", ![c].token = TRUE,
                            ![c].affected = enabled \/ dm[d].conn # "none"]
     \/ cl' = [cl EXCEPT ![c].pc = "relLifecycle", ![c].left = "untold"]
  /\ UNCHANGED <<dm, file, enabled, managed, lifecycle, robbed>>

\* Mutant: a refusal releases the locks but not the drain.
RefuseKeepingDrain(c) ==
  /\ cl[c].pc = "guard"
  /\ Goes(c, "relLifecycle")
  /\ UNCHANGED <<dm, file, enabled, managed, lifecycle, robbed>>

\* Connections are affected and may not be closed, or the user declines.
Refuse(c) ==
  /\ cl[c].pc = "guard"
  /\ cl' = [cl EXCEPT ![c].pc = "release", ![c].affected = FALSE]
  /\ UNCHANGED <<dm, file, enabled, managed, lifecycle, robbed>>

Confirm(c) ==
  /\ cl[c].pc = "guard" /\ (cl[c].affected => cl[c].close)
  /\ cl' = [cl EXCEPT ![c].pc = IF cl[c].close THEN "close" ELSE "destroying",
                      ![c].affected = FALSE]
  /\ UNCHANGED <<dm, file, enabled, managed, lifecycle, robbed>>

\* With a daemon: POST /connection-drains/token/close.
CloseByDaemon(c) ==
  /\ cl[c].pc = "close" /\ cl[c].token
  /\ LET d == cl[c].saw IN
     IF Serves(d)
     THEN /\ dm' = [dm EXCEPT ![d].conn = IF @ = "open" THEN "closing" ELSE @]
          /\ enabled' = FALSE /\ Goes(c, "closeWait")
     ELSE Goes(c, "release") /\ UNCHANGED <<dm, enabled>>
  /\ UNCHANGED <<file, managed, lifecycle, robbed>>

CloseAnswered(c) ==
  /\ cl[c].pc = "closeWait"
  /\ LET d == cl[c].saw IN
     \/ Serves(d) /\ dm[d].conn = "none" /\ Goes(c, "destroying")
     \/ Goes(c, "release")
  /\ UNCHANGED <<dm, file, enabled, managed, lifecycle, robbed>>

\* Without one: the saved connections are disabled in Local State.
CloseInState(c) ==
  /\ cl[c].pc = "close" /\ ~cl[c].token
  /\ \/ enabled' = FALSE /\ Goes(c, "destroying")
     \/ enabled' \in {enabled, FALSE} /\ Goes(c, "release")
  /\ UNCHANGED <<dm, file, managed, lifecycle, robbed>>

\* performAction has been called; it ends in any way.
Destroyed(c) ==
  /\ cl[c].pc = "destroying"
  /\ Goes(c, "release")
  /\ UNCHANGED <<dm, file, enabled, managed, lifecycle, robbed>>

\* DELETE /connection-drains/token.  It fails on a daemon that does not serve, and may
\* fail on one that does, before or after the drain is released; the locks are then
\* released all the same, and the user is warned to restart the daemon.
ReleaseDrain(c) ==
  /\ cl[c].pc = "release"
  /\ LET d == cl[c].saw
         released == [dm EXCEPT ![d].drained = FALSE] IN
     \/ /\ ~cl[c].token /\ UNCHANGED dm
        /\ Goes(c, "relLifecycle")
     \/ /\ cl[c].token /\ Serves(d) /\ dm' = released
        /\ Goes(c, "relLifecycle")
     \/ /\ cl[c].token /\ (dm' = dm \/ (Serves(d) /\ dm' = released))
        /\ cl' = [cl EXCEPT ![c].pc = "relLifecycle", ![c].left = "warned"]
  /\ UNCHANGED <<file, enabled, managed, lifecycle, robbed>>

-----------------------------------------------------------------------------
DaemonStep(d) ==
  \/ Run(d) \/ TakeLifecycle(d) \/ LifecycleTimeout(d) \/ Inspect(d) \/ Pinged(d)
  \/ RemoveStale(d) \/ Boot(d) \/ BootFails(d) \/ Claim(d) \/ Fill(d) \/ Serve(d)
  \/ Connect(d) \/ Disable(d) \/ Opened(d) \/ TransportDies(d) \/ Closed(d)
  \/ Signal(d) \/ CloseAll(d) \/ CloseEnds(d) \/ ReadOwn(d) \/ RmOwn(d) \/ DaemonCrash(d)

ClientStep(c) ==
  \/ Call(c) \/ TakeManaged(c) \/ ManagedTimeout(c) \/ GuardLifecycle(c) \/ GuardTimeout(c)
  \/ Look(c) \/ Ping(c) \/ ReleaseLifecycle(c) \/ ReleaseManaged(c) \/ ClientCrash(c)
  \/ Spawn(c) \/ StartSucceeds(c) \/ ChildExited(c) \/ StartTimeout(c)
  \/ NothingToStop(c) \/ RequestShutdown(c) \/ StopSeen(c)
  \/ RefuseStale(c) \/ ReadIntents(c) \/ BeginDrain(c) \/ BeginAnswered(c)
  \/ Refuse(c) \/ Confirm(c) \/ CloseByDaemon(c) \/ CloseAnswered(c) \/ CloseInState(c)
  \/ Destroyed(c) \/ ReleaseDrain(c)

Next ==
  \/ \E d \in Daemon : DaemonStep(d)
  \/ \E c \in Client : ClientStep(c)
  \/ Reclaim

Spec == Init /\ [][Next]_vars

-----------------------------------------------------------------------------
(***************************************************************************)
(* Properties                                                              *)
(***************************************************************************)

TypeOK ==
  /\ \A d \in Daemon :
       /\ dm[d].pc \in {"unborn", "stopping", "closing", "readOwn", "rmOwn", "serving"}
                         \cup Unstarted \cup {"gone", "dead"}
       /\ dm[d].saw \in Daemon \cup {None} /\ dm[d].drained \in BOOLEAN
       /\ dm[d].conn \in {"none", "opening", "open", "closing", "failed"}
  /\ \A c \in Client :
       /\ cl[c].pc \in {"idle", "managed", "lifecycle", "look", "ping", "stopped", "stale",
                         "running", "poll", "waitStop", "relLifecycle", "relManaged", "done",
                         "crashed"} \cup Drains
       /\ cl[c].saw \in Daemon \cup {None}
       /\ {cl[c].close, cl[c].token, cl[c].affected} \subseteq BOOLEAN
       /\ cl[c].left \in {"no", "untold", "warned"}
       /\ cl[c].token => cl[c].saw \in Daemon
  /\ file \in Daemon \cup {NoFile, Partial}
  /\ enabled \in BOOLEAN /\ robbed \in BOOLEAN
  /\ managed \in Client \cup {None} /\ lifecycle \in Process \cup {None}

\* However daemons are started, stopped and killed: at most one serves, and the
\* descriptor leads to it (nobody is told "stopped" while it runs), unless a
\* stopping daemon removed the descriptor of its successor.
OneDaemonUnlessRobbed ==
  ~robbed =>
    \A d \in Daemon : Serves(d) =>
      file = d /\ \A e \in Daemon \ {d} : ~Serves(e)

\* While the provider destroys the instance, no serving daemon has, opens or could
\* be restarted into a connection to it: with or without a daemon at the
\* start, whatever is signalled, killed or started meanwhile.
DestroyHoldsNoTunnel ==
  \A c \in Destroyer : (cl[c].pc = "destroying" /\ ~robbed) =>
    /\ ~enabled
    /\ \A d \in Daemon : Serves(d) => dm[d].conn = "none" /\ dm[d].drained

\* A serving daemon drains the instance only while a destroyer is at it, or because
\* that destroyer died, was never told its token, or has warned its user that the
\* release failed: a call that ends without an error or a warning leaves no drain.
DrainIsReleased ==
  \A d \in Daemon : (Serves(d) /\ dm[d].drained) =>
    \E c \in Destroyer :
      cl[c].saw = d /\ (cl[c].pc \in Drains \cup {"crashed"} \/ cl[c].left # "no")

\* docs/background-connections.md: "closes daemon Sessions before dispatching the
\* remote destroy": no daemon process has an open connection then.
ClosedBeforeDestroy ==
  \A c \in Destroyer : cl[c].pc = "destroying" =>
    \A d \in Daemon : dm[d].conn # "open"

=============================================================================
