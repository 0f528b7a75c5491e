---------------------------- MODULE ProcessProofs ----------------------------
(***************************************************************************)
(* What is proved of the two processes that a user starts and leaves: the  *)
(* daemon's lifecycle (its claim, its record, its health and its end), and *)
(* the terminal interface, with the jobs that it runs, the one screen they *)
(* share and the connections it holds until it exits.                      *)
(***************************************************************************)
EXTENDS DaemonLifecycle, Tui, TLAPS

(***************************************************************************)
(* The daemon: one at a time, no tunnel into an instance that is being     *)
(* destroyed, and no drain without its destroyer, for any number of        *)
(* daemons and clients.                                                    *)
(***************************************************************************)

DaemonPlace ==
  {"unborn", "wait", "inspect", "ping", "remove", "boot", "claim", "fill", "started",
   "serving", "stopping", "closing", "readOwn", "rmOwn", "gone", "dead"}
ClientPlace ==
  {"idle", "managed", "lifecycle", "look", "ping", "stopped", "stale", "running", "poll",
   "waitStop", "beginWait", "guard", "close", "closeWait", "destroying", "release",
   "relLifecycle", "relManaged", "done", "crashed"}
Connection == {"none", "opening", "open", "closing", "failed"}

\* The places of a client that has not begun a drain.
Before == {"idle", "managed", "lifecycle", "look", "ping", "stopped", "stale", "running"}

\* The places of a destroyer that holds lifecycle.lock.
Guarding == {"look", "ping", "stopped", "stale", "running", "relLifecycle"} \cup Drains

\* The places of a daemon that holds it.
Starting == {"inspect", "ping", "remove", "boot", "claim", "fill", "started"}

(***************************************************************************)
(* Types, and what a client's place says of its record                     *)
(***************************************************************************)
DaemonRecord ==
  [pc : DaemonPlace, saw : Daemon \cup {None}, conn : Connection, drained : BOOLEAN]
ClientRecord ==
  [pc : ClientPlace, saw : Daemon \cup {None}, close : BOOLEAN, token : BOOLEAN,
   affected : BOOLEAN, left : {"no", "untold", "warned"}]

Types ==
  /\ dm \in [Daemon -> DaemonRecord] /\ cl \in [Client -> ClientRecord]
  /\ file \in Daemon \cup {NoFile, Partial}
  /\ enabled \in BOOLEAN /\ robbed \in BOOLEAN

ClientOK(c) ==
  /\ cl[c].pc = "poll" => c \in Starter /\ cl[c].saw \in Daemon
  /\ cl[c].pc = "waitStop" => c \in Stopper
  /\ cl[c].pc \in Drains \cup {"lifecycle", "relLifecycle"} => c \in Destroyer
  /\ cl[c].pc \in {"ping", "running", "beginWait"} => cl[c].saw \in Daemon
  /\ cl[c].pc = "stopped" => cl[c].saw = None
  /\ cl[c].pc \in Before \cup {"beginWait"} => ~cl[c].token
  /\ cl[c].pc \in Before \cup Drains => cl[c].left = "no"
  /\ cl[c].pc \in Drains \ {"beginWait"} => (cl[c].token <=> cl[c].saw # None)

DaemonOK(d) ==
  /\ dm[d].drained => Serves(d)
  /\ dm[d].pc = "ping" => dm[d].saw \in Daemon

Shape == Types /\ (\A c \in Client : ClientOK(c)) /\ \A d \in Daemon : DaemonOK(d)

(***************************************************************************)
(* The steps, by what they disturb                                         *)
(***************************************************************************)
\* A daemon's step that leaves the descriptor and the clients alone.
Quiet(d) ==
  \/ Run(d) \/ LifecycleTimeout(d) \/ Inspect(d) \/ Boot(d)
  \/ Connect(d) \/ Disable(d) \/ Opened(d) \/ TransportDies(d) \/ Closed(d)
  \/ Signal(d) \/ CloseAll(d) \/ CloseEnds(d) \/ ReadOwn(d) \/ DaemonCrash(d)
  \/ TakeLifecycle(d) \/ Pinged(d) \/ BootFails(d) \/ Serve(d)

LEMMA Steps == [Next]_vars =>
  \/ UNCHANGED vars \/ Reclaim
  \/ \E d \in Daemon : Quiet(d) \/ RemoveStale(d) \/ Claim(d) \/ Fill(d) \/ RmOwn(d)
  \/ \E c \in Client : ClientStep(c)
BY Zenon DEF Next, DaemonStep, Quiet

\* The places by name, so that the provers need not expand the sets.
LEMMA Places ==
  /\ "wait" \in DaemonPlace /\ "inspect" \in DaemonPlace /\ "ping" \in DaemonPlace
  /\ "remove" \in DaemonPlace /\ "boot" \in DaemonPlace /\ "claim" \in DaemonPlace
  /\ "fill" \in DaemonPlace /\ "started" \in DaemonPlace /\ "serving" \in DaemonPlace
  /\ "stopping" \in DaemonPlace /\ "closing" \in DaemonPlace /\ "readOwn" \in DaemonPlace
  /\ "rmOwn" \in DaemonPlace /\ "gone" \in DaemonPlace /\ "dead" \in DaemonPlace
  /\ "managed" \in ClientPlace /\ "lifecycle" \in ClientPlace /\ "look" \in ClientPlace
  /\ "ping" \in ClientPlace /\ "stopped" \in ClientPlace /\ "stale" \in ClientPlace
  /\ "running" \in ClientPlace /\ "poll" \in ClientPlace /\ "waitStop" \in ClientPlace
  /\ "beginWait" \in ClientPlace /\ "guard" \in ClientPlace /\ "close" \in ClientPlace
  /\ "closeWait" \in ClientPlace /\ "destroying" \in ClientPlace /\ "release" \in ClientPlace
  /\ "relLifecycle" \in ClientPlace /\ "relManaged" \in ClientPlace /\ "done" \in ClientPlace
  /\ "crashed" \in ClientPlace
  /\ "none" \in Connection /\ "opening" \in Connection /\ "open" \in Connection
  /\ "closing" \in Connection /\ "failed" \in Connection
BY DEF DaemonPlace, ClientPlace, Connection

LEMMA TypesInit == Init => Types
<1> SUFFICES ASSUME Init PROVE Types
  OBVIOUS
<1>1. Idle \in ClientRecord
  BY DEF Idle, ClientRecord, ClientPlace
<1> QED  BY <1>1 DEF Init, Types, DaemonRecord, DaemonPlace, Connection

LEMMA DrainTyped ==
  ASSUME Types, NEW c \in Client, BeginDrain(c) \/ ReleaseDrain(c)
  PROVE  dm' \in [Daemon -> DaemonRecord]
<1>1. PICK d \in Daemon \cup {None} : \/ dm' = dm
                                     \/ dm' = [dm EXCEPT ![d].drained = FALSE]
                                     \/ dm' = [dm EXCEPT ![d].drained = TRUE]
  BY DEF BeginDrain, ReleaseDrain, Types, ClientRecord
<1>2. CASE d \in Daemon
  <2>1. /\ [dm[d] EXCEPT !.drained = TRUE] \in DaemonRecord
        /\ [dm[d] EXCEPT !.drained = FALSE] \in DaemonRecord
    BY <1>2 DEF Types, DaemonRecord
  <2> QED  BY <1>1, <1>2, <2>1 DEF Types
<1>3. CASE d = None
  BY <1>1, <1>3, LifecycleAssumption DEF Types
<1> QED  BY <1>2, <1>3

LEMMA StopTyped ==
  ASSUME Types, NEW c \in Client, StartTimeout(c) \/ RequestShutdown(c)
  PROVE  dm' \in [Daemon -> DaemonRecord]
<1>1. PICK d \in Daemon \cup {None} : dm' = dm \/ dm' = Stopping(d) \/ dm' = Dead(d)
  BY DEF StartTimeout, RequestShutdown, Types, ClientRecord
<1>2. CASE d \in Daemon
  <2>1. /\ [dm[d] EXCEPT !.pc = "stopping", !.drained = FALSE] \in DaemonRecord
        /\ [pc |-> "dead", saw |-> None, conn |-> "none", drained |-> FALSE] \in DaemonRecord
    BY <1>2, Places DEF Types, DaemonRecord
  <2> QED  BY <1>1, <1>2, <2>1 DEF Types, Stopping, Dead
<1>3. CASE d = None
  BY <1>1, <1>3, LifecycleAssumption DEF Types, Stopping, Dead
<1> QED  BY <1>2, <1>3

LEMMA TypesStep == Types /\ [Next]_vars => Types'
<1> SUFFICES ASSUME Types, [Next]_vars PROVE Types'
  OBVIOUS
<1> USE Places DEF Types, DaemonRecord, ClientRecord
<1>1. CASE UNCHANGED vars
  BY <1>1 DEF vars
<1>2. CASE Reclaim
  BY <1>2 DEF Reclaim
<1>3. ASSUME NEW d \in Daemon, Quiet(d) PROVE Types'
  <2> USE DEF DaemonGoes
  <2>1. CASE Run(d)
    BY <2>1 DEF Run
  <2>2. CASE LifecycleTimeout(d)
    BY <2>2 DEF LifecycleTimeout
  <2>3. CASE Boot(d)
    BY <2>3, ZenonT(60) DEF Boot
  <2>4. CASE TakeLifecycle(d)
    BY <2>4 DEF TakeLifecycle
  <2>5. CASE BootFails(d)
    BY <2>5 DEF BootFails
  <2>6. CASE Serve(d)
    BY <2>6 DEF Serve
  <2>7. CASE Inspect(d)
    <3> DEFINE p == CASE file = NoFile -> "boot" [] file = Partial -> "remove"
                      [] file \in Daemon -> "ping"
               s == IF file \in Daemon THEN file ELSE None
    <3>1. p \in DaemonPlace
      BY LifecycleAssumption
    <3>2. s \in Daemon \cup {None}
      OBVIOUS
    <3>3. dm' = [dm EXCEPT ![d].pc = p, ![d].saw = s] /\ UNCHANGED <<cl, file, enabled, robbed>>
      BY <2>7 DEF Inspect
    <3> HIDE DEF p, s
    <3> QED  BY <3>1, <3>2, <3>3, ZenonT(60)
  <2>8. CASE Pinged(d)
    BY <2>8 DEF Pinged
  <2>9. CASE Connect(d)
    BY <2>9 DEF Connect
  <2>10. CASE Disable(d)
    BY <2>10, ZenonT(60) DEF Disable
  <2>11. CASE Opened(d)
    BY <2>11 DEF Opened
  <2>12. CASE TransportDies(d)
    BY <2>12 DEF TransportDies
  <2>13. CASE Closed(d)
    BY <2>13 DEF Closed
  <2>14. CASE Signal(d)
    BY <2>14, ZenonT(60) DEF Signal, Stopping
  <2>15. CASE CloseAll(d)
    BY <2>15, ZenonT(60) DEF CloseAll
  <2>16. CASE CloseEnds(d)
    BY <2>16 DEF CloseEnds
  <2>17. CASE ReadOwn(d)
    BY <2>17 DEF ReadOwn
  <2>18. CASE DaemonCrash(d)
    BY <2>18 DEF DaemonCrash, Dead
    <2> QED  BY <1>3, <2>1, <2>2, <2>3, <2>4, <2>5, <2>6, <2>7, <2>8, <2>9, <2>10, <2>11, <2>12,
            <2>13, <2>14, <2>15, <2>16, <2>17, <2>18, Zenon DEF Quiet
<1>4. ASSUME NEW d \in Daemon, RemoveStale(d) \/ Claim(d) PROVE Types'
  BY <1>4 DEF RemoveStale, Claim, DaemonGoes
<1>6. ASSUME NEW d \in Daemon, Fill(d) \/ RmOwn(d) PROVE Types'
  BY <1>6, ZenonT(60) DEF Fill, RmOwn, DaemonGoes
<1>5. ASSUME NEW c \in Client, ClientStep(c) PROVE Types'
  <2> USE DEF Goes, Leaves, DaemonGoes
  <2>1. CASE Call(c)
    <3>1. PICK f \in BOOLEAN : cl' = [cl EXCEPT ![c].pc = "managed", ![c].close = f]
      BY <2>1 DEF Call
    <3>2. [cl[c] EXCEPT !.pc = "managed", !.close = f] \in ClientRecord
      OBVIOUS
    <3>3. cl' \in [Client -> ClientRecord]
      BY <3>1, <3>2
    <3> QED  BY <2>1, <3>3 DEF Call
  <2>2. CASE TakeManaged(c)
    BY <2>2 DEF TakeManaged
  <2>3. CASE ManagedTimeout(c)
    BY <2>3 DEF ManagedTimeout
  <2>4. CASE GuardLifecycle(c)
    BY <2>4 DEF GuardLifecycle
  <2>5. CASE GuardTimeout(c)
    BY <2>5 DEF GuardTimeout
  <2>6. CASE Look(c)
    <3> DEFINE p == CASE file = NoFile -> "stopped" [] file = Partial -> "stale"
                      [] file \in Daemon -> "ping"
               s == IF file \in Daemon THEN file ELSE None
    <3>1. p \in ClientPlace
      BY LifecycleAssumption
    <3>2. s \in Daemon \cup {None}
      OBVIOUS
    <3>3. cl' = [cl EXCEPT ![c].pc = p, ![c].saw = s] /\ UNCHANGED <<dm, file, enabled, robbed>>
      BY <2>6 DEF Look
    <3> HIDE DEF p, s
    <3> QED  BY <3>1, <3>2, <3>3, ZenonT(60)
  <2>7. CASE Ping(c)
    BY <2>7 DEF Ping
  <2>8. CASE ReleaseLifecycle(c)
    BY <2>8 DEF ReleaseLifecycle
  <2>9. CASE ReleaseManaged(c)
    <3>1. [cl[c] EXCEPT !.pc = "done", !.close = FALSE,
                        !.saw = IF cl[c].left = "no" THEN None ELSE @, !.token = FALSE] \in ClientRecord
      OBVIOUS
    <3> QED  BY <2>9, <3>1 DEF ReleaseManaged
  <2>10. CASE ClientCrash(c)
    BY <2>10 DEF ClientCrash, Idle
  <2>11. CASE Spawn(c)
    <3>1. dm' \in [Daemon -> DaemonRecord]
      BY <2>11 DEF Spawn
    <3>2. cl' \in [Client -> ClientRecord]
      <4>1. PICK d \in Daemon : cl' = [cl EXCEPT ![c].pc = "poll", ![c].saw = d]
        BY <2>11 DEF Spawn
      <4> QED  BY <4>1
    <3> QED  BY <2>11, <3>1, <3>2 DEF Spawn
  <2>12. CASE StartSucceeds(c)
    BY <2>12, ZenonT(60) DEF StartSucceeds
  <2>13. CASE ChildExited(c)
    BY <2>13, ZenonT(60) DEF ChildExited
  <2>14. CASE NothingToStop(c)
    BY <2>14, ZenonT(60) DEF NothingToStop
  <2>15. CASE StopSeen(c)
    BY <2>15, ZenonT(60) DEF StopSeen
  <2>16. CASE StartTimeout(c)
    <3>1. dm' \in [Daemon -> DaemonRecord]
      BY <2>16, StopTyped
    <3>2. cl' \in [Client -> ClientRecord]
      BY <2>16, ZenonT(60) DEF StartTimeout
    <3> QED  BY <2>16, <3>1, <3>2 DEF StartTimeout
  <2>17. CASE RequestShutdown(c)
    <3>1. dm' \in [Daemon -> DaemonRecord]
      BY <2>17, StopTyped
    <3>2. cl' \in [Client -> ClientRecord]
      BY <2>17 DEF RequestShutdown
    <3> QED  BY <2>17, <3>1, <3>2 DEF RequestShutdown
  <2>18. CASE RefuseStale(c)
    BY <2>18 DEF RefuseStale
  <2>19. CASE ReadIntents(c)
    BY <2>19, ZenonT(60) DEF ReadIntents
  <2>20. CASE BeginDrain(c)
    <3>1. dm' \in [Daemon -> DaemonRecord]
      BY <2>20, DrainTyped
    <3>2. cl' \in [Client -> ClientRecord]
      BY <2>20 DEF BeginDrain
    <3> QED  BY <2>20, <3>1, <3>2 DEF BeginDrain
  <2>21. CASE BeginAnswered(c)
    BY <2>21 DEF BeginAnswered
  <2>22. CASE Refuse(c)
    BY <2>22, ZenonT(60) DEF Refuse
  <2>23. CASE Confirm(c)
    <3>1. PICK p \in ClientPlace : cl' = [cl EXCEPT ![c].pc = p, ![c].affected = FALSE]
      BY <2>23 DEF Confirm
    <3>2. cl' \in [Client -> ClientRecord]
      BY <3>1
    <3> QED  BY <2>23, <3>2 DEF Confirm
  <2>24. CASE CloseByDaemon(c)
    <3>1. dm' \in [Daemon -> DaemonRecord]
      BY <2>24 DEF CloseByDaemon
    <3>2. cl' \in [Client -> ClientRecord]
      BY <2>24 DEF CloseByDaemon
    <3> QED  BY <2>24, <3>1, <3>2 DEF CloseByDaemon
  <2>25. CASE CloseAnswered(c)
    BY <2>25 DEF CloseAnswered
  <2>26. CASE CloseInState(c)
    <3>1. PICK p \in ClientPlace : cl' = [cl EXCEPT ![c].pc = p]
      BY <2>26 DEF CloseInState
    <3>2. cl' \in [Client -> ClientRecord]
      BY <3>1
    <3>3. UNCHANGED <<dm, file, robbed>> /\ enabled' \in {enabled, FALSE}
      BY <2>26 DEF CloseInState
    <3> QED  BY <3>2, <3>3
  <2>27. CASE Destroyed(c)
    BY <2>27 DEF Destroyed
  <2>28. CASE ReleaseDrain(c)
    <3>1. dm' \in [Daemon -> DaemonRecord]
      BY <2>28, DrainTyped
    <3>2. cl' \in [Client -> ClientRecord]
      BY <2>28 DEF ReleaseDrain
    <3> QED  BY <2>28, <3>1, <3>2 DEF ReleaseDrain
    <2> QED  BY <1>5, <2>1, <2>2, <2>3, <2>4, <2>5, <2>6, <2>7, <2>8, <2>9, <2>10, <2>11, <2>12,
            <2>13, <2>14, <2>15, <2>16, <2>17, <2>18, <2>19, <2>20, <2>21, <2>22, <2>23, <2>24,
            <2>25, <2>26, <2>27, <2>28, Zenon DEF ClientStep
<1> QED  BY <1>1, <1>2, <1>3, <1>4, <1>5, <1>6, Steps

\* A client's step changes its own record only.
LEMMA OneClient ==
  ASSUME Types, NEW c \in Client, ClientStep(c)
  PROVE  \A x \in Client \ {c} : cl'[x] = cl[x]
<1> USE DEF Types, Goes, Leaves
<1>1. CASE Call(c)
  BY <1>1 DEF Call
<1>2. CASE TakeManaged(c)
  BY <1>2 DEF TakeManaged
<1>3. CASE ManagedTimeout(c)
  BY <1>3 DEF ManagedTimeout
<1>4. CASE GuardLifecycle(c)
  BY <1>4 DEF GuardLifecycle
<1>5. CASE GuardTimeout(c)
  BY <1>5 DEF GuardTimeout
<1>6. CASE Look(c)
  BY <1>6 DEF Look
<1>7. CASE Ping(c)
  BY <1>7 DEF Ping
<1>8. CASE ReleaseLifecycle(c)
  BY <1>8 DEF ReleaseLifecycle
<1>9. CASE ReleaseManaged(c)
  BY <1>9 DEF ReleaseManaged
<1>10. CASE ClientCrash(c)
  BY <1>10 DEF ClientCrash
<1>11. CASE Spawn(c)
  BY <1>11 DEF Spawn
<1>12. CASE StartSucceeds(c)
  BY <1>12 DEF StartSucceeds
<1>13. CASE ChildExited(c)
  BY <1>13 DEF ChildExited
<1>14. CASE NothingToStop(c)
  BY <1>14 DEF NothingToStop
<1>15. CASE StopSeen(c)
  BY <1>15 DEF StopSeen
<1>16. CASE StartTimeout(c)
  BY <1>16 DEF StartTimeout
<1>17. CASE RequestShutdown(c)
  BY <1>17 DEF RequestShutdown
<1>18. CASE RefuseStale(c)
  BY <1>18 DEF RefuseStale
<1>19. CASE ReadIntents(c)
  BY <1>19 DEF ReadIntents
<1>20. CASE BeginDrain(c)
  BY <1>20 DEF BeginDrain
<1>21. CASE BeginAnswered(c)
  BY <1>21 DEF BeginAnswered
<1>22. CASE Refuse(c)
  BY <1>22 DEF Refuse
<1>23. CASE Confirm(c)
  BY <1>23 DEF Confirm
<1>24. CASE CloseByDaemon(c)
  BY <1>24 DEF CloseByDaemon
<1>25. CASE CloseAnswered(c)
  BY <1>25 DEF CloseAnswered
<1>26. CASE CloseInState(c)
  BY <1>26 DEF CloseInState
<1>27. CASE Destroyed(c)
  BY <1>27 DEF Destroyed
<1>28. CASE ReleaseDrain(c)
  BY <1>28 DEF ReleaseDrain
<1> QED  BY <1>1, <1>2, <1>3, <1>4, <1>5, <1>6, <1>7, <1>8, <1>9, <1>10, <1>11, <1>12, <1>13,
         <1>14, <1>15, <1>16, <1>17, <1>18, <1>19, <1>20, <1>21, <1>22, <1>23, <1>24, <1>25,
         <1>26, <1>27, <1>28, Zenon DEF ClientStep

LEMMA ClientStepOK ==
  ASSUME Types, NEW c \in Client, ClientOK(c), ClientStep(c)
  PROVE  ClientOK(c)'
<1> USE LifecycleAssumption DEF Types, ClientRecord, Client, Goes, Leaves, ClientOK, Before, Drains
<1>1. CASE Call(c)
  BY <1>1 DEF Call
<1>2. CASE TakeManaged(c)
  BY <1>2 DEF TakeManaged
<1>3. CASE ManagedTimeout(c)
  BY <1>3 DEF ManagedTimeout
<1>4. CASE GuardLifecycle(c)
  BY <1>4 DEF GuardLifecycle
<1>5. CASE GuardTimeout(c)
  BY <1>5 DEF GuardTimeout
<1>6. CASE Look(c)
  BY <1>6 DEF Look
<1>7. CASE Ping(c)
  BY <1>7 DEF Ping
<1>8. CASE ReleaseLifecycle(c)
  BY <1>8 DEF ReleaseLifecycle
<1>9. CASE ReleaseManaged(c)
  BY <1>9 DEF ReleaseManaged
<1>10. CASE ClientCrash(c)
  BY <1>10 DEF ClientCrash, Idle
<1>11. CASE Spawn(c)
  BY <1>11 DEF Spawn
<1>12. CASE StartSucceeds(c)
  BY <1>12 DEF StartSucceeds
<1>13. CASE ChildExited(c)
  BY <1>13 DEF ChildExited
<1>14. CASE NothingToStop(c)
  BY <1>14 DEF NothingToStop
<1>15. CASE StopSeen(c)
  BY <1>15 DEF StopSeen
<1>16. CASE StartTimeout(c)
  BY <1>16 DEF StartTimeout
<1>17. CASE RequestShutdown(c)
  BY <1>17 DEF RequestShutdown
<1>18. CASE RefuseStale(c)
  BY <1>18 DEF RefuseStale
<1>19. CASE ReadIntents(c)
  BY <1>19 DEF ReadIntents
<1>20. CASE BeginDrain(c)
  BY <1>20 DEF BeginDrain
<1>21. CASE BeginAnswered(c)
  BY <1>21 DEF BeginAnswered
<1>22. CASE Refuse(c)
  BY <1>22 DEF Refuse
<1>23. CASE Confirm(c)
  BY <1>23 DEF Confirm
<1>24. CASE CloseByDaemon(c)
  BY <1>24 DEF CloseByDaemon
<1>25. CASE CloseAnswered(c)
  BY <1>25 DEF CloseAnswered
<1>26. CASE CloseInState(c)
  <2>1. PICK p \in {"destroying", "release"} : cl[c].pc = "close" /\ Goes(c, p)
    BY <1>26 DEF CloseInState
  <2> QED  BY <2>1
<1>27. CASE Destroyed(c)
  BY <1>27 DEF Destroyed
<1>28. CASE ReleaseDrain(c)
  BY <1>28 DEF ReleaseDrain
<1> QED  BY <1>1, <1>2, <1>3, <1>4, <1>5, <1>6, <1>7, <1>8, <1>9, <1>10, <1>11, <1>12, <1>13,
         <1>14, <1>15, <1>16, <1>17, <1>18, <1>19, <1>20, <1>21, <1>22, <1>23, <1>24, <1>25,
         <1>26, <1>27, <1>28, Zenon DEF ClientStep

LEMMA DaemonStepOK ==
  ASSUME Types, NEW d \in Daemon, DaemonOK(d), DaemonStep(d)
  PROVE  DaemonOK(d)' /\ UNCHANGED cl /\ \A x \in Daemon \ {d} : dm'[x] = dm[x]
<1> USE LifecycleAssumption DEF Types, DaemonRecord, DaemonGoes, DaemonOK, Serves
<1>1. CASE Run(d)
  BY <1>1 DEF Run
<1>2. CASE LifecycleTimeout(d)
  BY <1>2 DEF LifecycleTimeout
<1>3. CASE Inspect(d)
  BY <1>3 DEF Inspect
<1>4. CASE Boot(d)
  BY <1>4 DEF Boot
<1>5. CASE Connect(d)
  BY <1>5 DEF Connect
<1>6. CASE Disable(d)
  BY <1>6 DEF Disable
<1>7. CASE Opened(d)
  BY <1>7 DEF Opened
<1>8. CASE TransportDies(d)
  BY <1>8 DEF TransportDies
<1>9. CASE Closed(d)
  BY <1>9 DEF Closed
<1>10. CASE Signal(d)
  BY <1>10 DEF Signal, Stopping
<1>11. CASE CloseAll(d)
  BY <1>11 DEF CloseAll
<1>12. CASE CloseEnds(d)
  BY <1>12 DEF CloseEnds
<1>13. CASE ReadOwn(d)
  BY <1>13 DEF ReadOwn
<1>14. CASE DaemonCrash(d)
  BY <1>14 DEF DaemonCrash, Dead
<1>15. CASE TakeLifecycle(d)
  BY <1>15 DEF TakeLifecycle
<1>16. CASE Pinged(d)
  BY <1>16 DEF Pinged
<1>17. CASE BootFails(d)
  BY <1>17 DEF BootFails
<1>18. CASE Serve(d)
  BY <1>18 DEF Serve
<1>19. CASE RemoveStale(d)
  BY <1>19 DEF RemoveStale
<1>20. CASE Claim(d)
  BY <1>20 DEF Claim
<1>21. CASE Fill(d)
  BY <1>21 DEF Fill
<1>22. CASE RmOwn(d)
  BY <1>22 DEF RmOwn
<1> QED  BY <1>1, <1>2, <1>3, <1>4, <1>5, <1>6, <1>7, <1>8, <1>9, <1>10, <1>11, <1>12, <1>13,
         <1>14, <1>15, <1>16, <1>17, <1>18, <1>19, <1>20, <1>21, <1>22, Zenon DEF DaemonStep

\* What a client's step may do to a daemon.
ChangesBy(c, d) ==
  /\ Serves(d)' => Serves(d)
  /\ dm'[d].pc \in Starting => (dm'[d].pc = dm[d].pc /\ dm'[d].saw = dm[d].saw)
  /\ dm'[d].drained => Serves(d)'
  /\ dm'[d].drained => (dm[d].drained \/ (BeginDrain(c) /\ d = cl[c].saw))
  /\ (dm[d].drained /\ Serves(d)') => (dm'[d].drained \/ (ReleaseDrain(c) /\ d = cl[c].saw))
  /\ \/ dm'[d].conn \in {dm[d].conn, "none"}
     \/ CloseByDaemon(c) /\ dm[d].conn = "open" /\ dm'[d].conn = "closing"

LEMMA DaemonByClient ==
  ASSUME Types, NEW c \in Client, ClientOK(c), ClientStep(c), NEW d \in Daemon, DaemonOK(d)
  PROVE  ChangesBy(c, d)
<1>1. ASSUME UNCHANGED dm PROVE ChangesBy(c, d)
  BY <1>1 DEF ChangesBy, DaemonOK, Serves
<1>2. CASE \/ Call(c) \/ TakeManaged(c) \/ ManagedTimeout(c) \/ GuardLifecycle(c)
           \/ GuardTimeout(c) \/ Look(c) \/ Ping(c) \/ ReleaseLifecycle(c)
           \/ ReleaseManaged(c) \/ ClientCrash(c)
  BY <1>1, <1>2 DEF Call, TakeManaged, ManagedTimeout, GuardLifecycle, GuardTimeout, Look,
                    Ping, ReleaseLifecycle, ReleaseManaged, ClientCrash
<1>3. CASE \/ StartSucceeds(c) \/ ChildExited(c) \/ NothingToStop(c) \/ StopSeen(c)
           \/ RefuseStale(c) \/ ReadIntents(c) \/ BeginAnswered(c) \/ Refuse(c) \/ Confirm(c)
           \/ CloseAnswered(c) \/ CloseInState(c) \/ Destroyed(c)
  BY <1>1, <1>3 DEF StartSucceeds, ChildExited, NothingToStop, StopSeen, RefuseStale,
                    ReadIntents, BeginAnswered, Refuse, Confirm, CloseAnswered, CloseInState,
                    Destroyed
<1> USE DEF Types, DaemonRecord
<1>4. CASE Spawn(c)
  <2>1. PICK e \in Daemon : dm[e].pc = "unborn" /\ dm' = [dm EXCEPT ![e].pc = "wait"]
    BY <1>4 DEF Spawn, DaemonGoes
  <2> QED  BY <2>1 DEF ChangesBy, DaemonOK, Serves, Starting
<1>5. ASSUME NEW e \in Daemon, dm[e].pc = "serving", dm' = Stopping(e)
      PROVE  ChangesBy(c, d)
  BY <1>5 DEF ChangesBy, DaemonOK, Serves, Starting, Stopping
<1>6. ASSUME NEW e \in Daemon, dm' = Dead(e)
      PROVE  ChangesBy(c, d)
  BY <1>6 DEF ChangesBy, DaemonOK, Serves, Starting, Dead
<1>7. CASE StartTimeout(c)
  BY <1>1, <1>5, <1>6, <1>7 DEF StartTimeout, ClientOK
<1>8. CASE RequestShutdown(c)
  BY <1>1, <1>5, <1>8 DEF RequestShutdown, ClientOK
<1>9. CASE BeginDrain(c)
  <2>1. UNCHANGED dm \/ (Serves(cl[c].saw) /\ dm' = [dm EXCEPT ![cl[c].saw].drained = TRUE])
    BY <1>9 DEF BeginDrain
  <2>2. cl[c].saw \in Daemon
    BY <1>9 DEF BeginDrain, ClientOK
  <2> QED  BY <1>1, <1>9, <2>1, <2>2 DEF ChangesBy, DaemonOK, Serves, Starting
<1>10. CASE CloseByDaemon(c)
  <2>1. \/ UNCHANGED dm
        \/ dm' = [dm EXCEPT ![cl[c].saw].conn = IF @ = "open" THEN "closing" ELSE @]
    BY <1>10 DEF CloseByDaemon
  <2> QED  BY <1>1, <1>10, <2>1 DEF ChangesBy, DaemonOK, Serves, Starting
<1>11. CASE ReleaseDrain(c)
  <2>1. UNCHANGED dm \/ dm' = [dm EXCEPT ![cl[c].saw].drained = FALSE]
    BY <1>11, Zenon DEF ReleaseDrain
  <2> QED  BY <1>1, <1>11, <2>1 DEF ChangesBy, DaemonOK, Serves, Starting
<1> QED  BY <1>2, <1>3, <1>4, <1>7, <1>8, <1>9, <1>10, <1>11, Zenon DEF ClientStep

LEMMA ShapeInit == Init => Shape
<1> SUFFICES ASSUME Init PROVE Shape
  OBVIOUS
<1>1. \A c \in Client : ClientOK(c)
  BY DEF Init, ClientOK, Idle, Drains, Before
<1>2. \A d \in Daemon : DaemonOK(d)
  BY DEF Init, DaemonOK
<1> QED  BY <1>1, <1>2, TypesInit DEF Shape

LEMMA ShapeStep == Shape /\ [Next]_vars => Shape'
<1> SUFFICES ASSUME Shape, [Next]_vars PROVE Shape'
  OBVIOUS
<1> USE DEF Shape
<1>1. Types'
  BY TypesStep
<1>2. CASE UNCHANGED vars
  BY <1>1, <1>2 DEF vars, ClientOK, DaemonOK, Serves
<1>3. CASE Reclaim
  BY <1>1, <1>3 DEF Reclaim, ClientOK, DaemonOK, Serves
<1>4. ASSUME NEW d \in Daemon, DaemonStep(d) PROVE Shape'
  <2>1. UNCHANGED cl /\ \A x \in Daemon : DaemonOK(x)'
    BY <1>4, DaemonStepOK DEF DaemonOK, Serves
  <2> QED  BY <1>1, <2>1 DEF ClientOK
<1>5. ASSUME NEW c \in Client, ClientStep(c) PROVE Shape'
  <2>1. \A x \in Client : ClientOK(x)'
    BY <1>5, OneClient, ClientStepOK DEF ClientOK
  <2>2. ASSUME NEW d \in Daemon PROVE DaemonOK(d)'
    <3>1. dm[d] \in DaemonRecord /\ DaemonOK(d) /\ ChangesBy(c, d)
      BY <1>5, DaemonByClient DEF Types
    <3> QED  BY <1>5, <3>1 DEF ChangesBy, DaemonOK, Starting
  <2> QED  BY <1>1, <2>1, <2>2
<1> QED  BY <1>2, <1>3, <1>4, <1>5 DEF Next

(***************************************************************************)
(* lifecycle.lock                                                          *)
(***************************************************************************)
Locks ==
  /\ \A d \in Daemon : dm[d].pc \in Starting => lifecycle = d
  /\ \A c \in Destroyer : cl[c].pc \in Guarding => lifecycle = c

LEMMA LocksInit == Init => Locks
BY DEF Init, Locks, Idle, Starting, Guarding, Drains, Client

LEMMA LockByDaemon ==
  ASSUME Types, NEW d \in Daemon, DaemonStep(d)
  PROVE  \/ UNCHANGED lifecycle /\ (dm'[d].pc \in Starting => dm[d].pc \in Starting)
         \/ lifecycle = None /\ lifecycle' = d
         \/ dm[d].pc \in Starting /\ dm'[d].pc \notin Starting
<1> USE DEF Types, DaemonGoes, Starting
<1>1. CASE Run(d)
  BY <1>1 DEF Run
<1>2. CASE LifecycleTimeout(d)
  BY <1>2 DEF LifecycleTimeout
<1>3. CASE Inspect(d)
  BY <1>3 DEF Inspect
<1>4. CASE Boot(d)
  BY <1>4 DEF Boot
<1>5. CASE Connect(d)
  BY <1>5 DEF Connect
<1>6. CASE Disable(d)
  BY <1>6 DEF Disable
<1>7. CASE Opened(d)
  BY <1>7 DEF Opened
<1>8. CASE TransportDies(d)
  BY <1>8 DEF TransportDies
<1>9. CASE Closed(d)
  BY <1>9 DEF Closed
<1>10. CASE Signal(d)
  BY <1>10 DEF Signal, Stopping
<1>11. CASE CloseAll(d)
  BY <1>11 DEF CloseAll
<1>12. CASE CloseEnds(d)
  BY <1>12 DEF CloseEnds
<1>13. CASE ReadOwn(d)
  BY <1>13 DEF ReadOwn
<1>14. CASE DaemonCrash(d)
  BY <1>14 DEF DaemonCrash, Dead
<1>15. CASE TakeLifecycle(d)
  BY <1>15 DEF TakeLifecycle
<1>16. CASE Pinged(d)
  <2>1. CASE Serves(dm[d].saw)
    <3>1. dm[d].pc = "ping" /\ dm' = [dm EXCEPT ![d].pc = "gone", ![d].saw = None]
      BY <1>16, <2>1 DEF Pinged
    <3> QED  BY <3>1
  <2>2. CASE ~Serves(dm[d].saw)
    BY <1>16, <2>2 DEF Pinged
  <2> QED  BY <2>1, <2>2
<1>17. CASE BootFails(d)
  BY <1>17 DEF BootFails
<1>18. CASE Serve(d)
  BY <1>18 DEF Serve
<1>19. CASE RemoveStale(d)
  BY <1>19 DEF RemoveStale
<1>20. CASE Claim(d)
  BY <1>20 DEF Claim
<1>21. CASE Fill(d)
  BY <1>21 DEF Fill
<1>22. CASE RmOwn(d)
  BY <1>22 DEF RmOwn
<1> QED  BY <1>1, <1>2, <1>3, <1>4, <1>5, <1>6, <1>7, <1>8, <1>9, <1>10, <1>11, <1>12, <1>13,
         <1>14, <1>15, <1>16, <1>17, <1>18, <1>19, <1>20, <1>21, <1>22, Zenon DEF DaemonStep

LEMMA LockByClient ==
  ASSUME Types, NEW c \in Client, ClientOK(c), ClientStep(c)
  PROVE  \/ /\ UNCHANGED lifecycle
            /\ c \in Destroyer /\ cl'[c].pc \in Guarding => cl[c].pc \in Guarding
         \/ lifecycle = None /\ lifecycle' = c
         \/ c \in Destroyer /\ cl[c].pc \in Guarding /\ cl'[c].pc \notin Guarding
<1> USE LifecycleAssumption DEF Types, Goes, Leaves, Guarding, Drains, ClientOK
<1>1. CASE Call(c)
  BY <1>1 DEF Call
<1>2. CASE TakeManaged(c)
  BY <1>2 DEF TakeManaged
<1>3. CASE ManagedTimeout(c)
  BY <1>3 DEF ManagedTimeout
<1>4. CASE GuardLifecycle(c)
  BY <1>4 DEF GuardLifecycle
<1>5. CASE GuardTimeout(c)
  BY <1>5 DEF GuardTimeout
<1>6. CASE Look(c)
  BY <1>6 DEF Look
<1>7. CASE Ping(c)
  BY <1>7 DEF Ping
<1>8. CASE ReleaseLifecycle(c)
  BY <1>8 DEF ReleaseLifecycle
<1>9. CASE ReleaseManaged(c)
  BY <1>9 DEF ReleaseManaged
<1>10. CASE ClientCrash(c)
  BY <1>10 DEF ClientCrash, Idle
<1>11. CASE Spawn(c)
  BY <1>11 DEF Spawn
<1>12. CASE StartSucceeds(c)
  BY <1>12 DEF StartSucceeds
<1>13. CASE ChildExited(c)
  BY <1>13 DEF ChildExited
<1>14. CASE NothingToStop(c)
  BY <1>14 DEF NothingToStop
<1>15. CASE StopSeen(c)
  BY <1>15 DEF StopSeen
<1>16. CASE StartTimeout(c)
  BY <1>16 DEF StartTimeout
<1>17. CASE RequestShutdown(c)
  BY <1>17 DEF RequestShutdown
<1>18. CASE RefuseStale(c)
  BY <1>18 DEF RefuseStale
<1>19. CASE ReadIntents(c)
  BY <1>19 DEF ReadIntents
<1>20. CASE BeginDrain(c)
  BY <1>20 DEF BeginDrain
<1>21. CASE BeginAnswered(c)
  BY <1>21 DEF BeginAnswered
<1>22. CASE Refuse(c)
  BY <1>22 DEF Refuse
<1>23. CASE Confirm(c)
  BY <1>23 DEF Confirm
<1>24. CASE CloseByDaemon(c)
  BY <1>24 DEF CloseByDaemon
<1>25. CASE CloseAnswered(c)
  BY <1>25 DEF CloseAnswered
<1>26. CASE CloseInState(c)
  BY <1>26 DEF CloseInState
<1>27. CASE Destroyed(c)
  BY <1>27 DEF Destroyed
<1>28. CASE ReleaseDrain(c)
  BY <1>28 DEF ReleaseDrain
<1> QED  BY <1>1, <1>2, <1>3, <1>4, <1>5, <1>6, <1>7, <1>8, <1>9, <1>10, <1>11, <1>12, <1>13,
         <1>14, <1>15, <1>16, <1>17, <1>18, <1>19, <1>20, <1>21, <1>22, <1>23, <1>24, <1>25,
         <1>26, <1>27, <1>28, Zenon DEF ClientStep

LEMMA LocksStep == Shape /\ Locks /\ [Next]_vars => Locks'
<1> SUFFICES ASSUME Shape, Locks, [Next]_vars PROVE Locks'
  OBVIOUS
<1> USE LifecycleAssumption DEF Shape, Locks, Client
<1>1. CASE UNCHANGED vars
  BY <1>1 DEF vars
<1>2. CASE Reclaim
  BY <1>2 DEF Reclaim, Ended, Process, Starting, Guarding, Drains
<1>3. ASSUME NEW d \in Daemon, DaemonStep(d) PROVE Locks'
  BY <1>3, DaemonStepOK, LockByDaemon
<1>4. ASSUME NEW c \in Client, ClientStep(c) PROVE Locks'
  <2>1. ASSUME NEW d \in Daemon, dm'[d].pc \in Starting PROVE dm[d].pc \in Starting
    <3>1. dm[d] \in DaemonRecord /\ ChangesBy(c, d)
      BY <1>4, DaemonByClient DEF Types
    <3> QED  BY <2>1, <3>1 DEF ChangesBy
  <2> QED  BY <1>4, <2>1, OneClient, LockByClient
<1> QED  BY <1>1, <1>2, <1>3, <1>4 DEF Next

(***************************************************************************)
(* The descriptor                                                          *)
(***************************************************************************)
\* Who removes the descriptor, or makes one, knows that nobody serves.
DescriptorOK(d) ==
  /\ Serves(d) => file = d
  /\ dm[d].pc = "fill" => file = Partial
  /\ dm[d].pc = "ping" => \A e \in Daemon : Serves(e) => e = dm[d].saw
  /\ dm[d].pc \in {"remove", "boot", "claim", "fill"} => \A e \in Daemon : ~Serves(e)

Descriptor == ~robbed => \A d \in Daemon : DescriptorOK(d)

LEMMA DescriptorInit == Init => Descriptor
<1> SUFFICES ASSUME Init, NEW d \in Daemon PROVE DescriptorOK(d)
  BY DEF Descriptor
<1>1. \A e \in Daemon : dm[e].pc = "unborn"
  BY DEF Init, DaemonRecord
<1> QED  BY <1>1 DEF DescriptorOK, Serves

LEMMA DescriptorByDaemon ==
  ASSUME Shape, Locks, Descriptor, NEW d \in Daemon, DaemonStep(d)
  PROVE  Descriptor'
<1> USE LifecycleAssumption DEF Shape, Types, DaemonRecord, DaemonGoes, Serves, Descriptor,
                                DescriptorOK
<1>1. \A x \in Daemon \ {d} : dm'[x] = dm[x]
  BY DaemonStepOK
<1>2. \A x \in Daemon \ {d} : dm[d].pc \in Starting => dm[x].pc \notin Starting
  BY DEF Locks
<1>3. ASSUME UNCHANGED <<file, robbed>>, Serves(d)' => Serves(d),
             dm'[d].pc \in {"ping", "remove", "boot", "claim", "fill"} =>
               dm'[d].pc = dm[d].pc /\ dm'[d].saw = dm[d].saw
      PROVE  Descriptor'
  BY <1>1, <1>3
<1>4. CASE Run(d) \/ LifecycleTimeout(d) \/ TakeLifecycle(d) \/ BootFails(d) \/ Serve(d)
  BY <1>3, <1>4 DEF Run, LifecycleTimeout, TakeLifecycle, BootFails, Serve
<1>5. CASE TransportDies(d)
  BY <1>3, <1>5 DEF TransportDies
<1>16. CASE Connect(d)
  <2>1. dm' = [dm EXCEPT ![d].conn = "opening"] /\ UNCHANGED <<file, robbed>>
    BY <1>16 DEF Connect
  <2> QED  BY <1>3, <2>1
<1>15. CASE Disable(d)
  BY <1>3, <1>15 DEF Disable
<1>14. CASE Opened(d) \/ Closed(d)
  BY <1>3, <1>14 DEF Opened, Closed
<1>6. CASE Signal(d) \/ CloseAll(d) \/ CloseEnds(d) \/ ReadOwn(d) \/ DaemonCrash(d)
  BY <1>3, <1>6 DEF Signal, CloseAll, CloseEnds, ReadOwn, DaemonCrash, Stopping, Dead
<1>7. CASE Inspect(d)
  BY <1>1, <1>7 DEF Inspect
<1>8. CASE Pinged(d)
  BY <1>1, <1>8 DEF Pinged
<1>9. CASE Boot(d)
  BY <1>1, <1>9 DEF Boot
<1>10. CASE RemoveStale(d)
  BY <1>1, <1>2, <1>10 DEF RemoveStale, Starting
<1>11. CASE Claim(d)
  BY <1>1, <1>2, <1>11 DEF Claim, Starting
<1>12. CASE Fill(d)
  BY <1>1, <1>2, <1>12 DEF Fill, Starting
<1>13. CASE RmOwn(d)
  <2>1. ~robbed' => ~robbed /\ file \in {d, NoFile}
    BY <1>13 DEF RmOwn
  <2>2. dm[d].pc = "rmOwn" /\ dm'[d].pc = "gone"
    BY <1>13 DEF RmOwn
  <2>3. ~robbed' => \A e \in Daemon : ~Serves(e) /\ dm[e].pc # "fill"
    BY <2>1, <2>2
  <2> QED  BY <1>1, <2>1, <2>2, <2>3
<1> QED  BY <1>4, <1>5, <1>6, <1>7, <1>8, <1>9, <1>10, <1>11, <1>12, <1>13,
         <1>14, <1>15, <1>16, Zenon DEF DaemonStep

LEMMA DescriptorStep == Shape /\ Locks /\ Descriptor /\ [Next]_vars => Descriptor'
<1> SUFFICES ASSUME Shape, Locks, Descriptor, [Next]_vars PROVE Descriptor'
  OBVIOUS
<1> USE DEF Descriptor, DescriptorOK, Serves
<1>1. CASE UNCHANGED vars
  BY <1>1 DEF vars
<1>2. CASE Reclaim
  BY <1>2 DEF Reclaim
<1>3. ASSUME NEW d \in Daemon, DaemonStep(d) PROVE Descriptor'
  BY <1>3, DescriptorByDaemon
<1>4. ASSUME NEW c \in Client, ClientStep(c) PROVE Descriptor'
  <2>1. UNCHANGED <<file, robbed>>
    BY <1>4 DEF ClientStep, Call, TakeManaged, ManagedTimeout, GuardLifecycle, GuardTimeout,
                Look, Ping, ReleaseLifecycle, ReleaseManaged, ClientCrash, Spawn,
                StartSucceeds, ChildExited, StartTimeout, NothingToStop, RequestShutdown,
                StopSeen, RefuseStale, ReadIntents, BeginDrain, BeginAnswered, Refuse, Confirm,
                CloseByDaemon, CloseAnswered, CloseInState, Destroyed, ReleaseDrain
  <2>2. \A d \in Daemon : ChangesBy(c, d)
    BY <1>4, DaemonByClient DEF Shape
  <2> QED  BY <2>1, <2>2 DEF ChangesBy, Starting
<1> QED  BY <1>1, <1>2, <1>3, <1>4 DEF Next

(***************************************************************************)
(* The guarded destruction                                                 *)
(***************************************************************************)
\* What a destroyer knows of the daemons while it holds lifecycle.lock.
GuardOK(c) ==
  /\ cl[c].pc \in {"ping", "stopped", "running"} \cup (Drains \ {"release"}) =>
       \A d \in Daemon : Serves(d) => d = cl[c].saw
  /\ cl[c].pc \in Drains \ {"release"} => \A d \in Daemon : Serves(d) => dm[d].drained
  /\ cl[c].pc \in Drains \ {"beginWait", "release"} =>
       \A d \in Daemon : Serves(d) => dm[d].conn # "opening"
  /\ (cl[c].pc = "guard" /\ ~cl[c].affected) \/ cl[c].pc \in {"closeWait", "destroying"} => ~enabled
  /\ (cl[c].pc = "guard" /\ ~cl[c].affected) \/ cl[c].pc = "destroying" =>
       \A d \in Daemon : Serves(d) => dm[d].conn = "none"

Guards == ~robbed => \A c \in Destroyer : GuardOK(c)

\* What a step leaves to a destroyer that does not move: nobody begins to serve, no
\* drain ends but with its daemon, and no connection is begun under a drain.
Kept ==
  \A d \in Daemon : Serves(d)' =>
    /\ Serves(d)
    /\ dm[d].drained => dm'[d].drained
    /\ dm[d].drained /\ dm[d].conn # "opening" => dm'[d].conn # "opening"
    /\ dm[d].drained /\ dm[d].conn = "none" => dm'[d].conn = "none"

StaysDisabled == (\A d \in Daemon : Serves(d) => dm[d].drained) /\ ~enabled => ~enabled'

LEMMA GuardsInit == Init => Guards
BY DEF Init, Guards, GuardOK, Idle, Drains, Client

LEMMA KeptByDaemon ==
  ASSUME Shape, Locks, NEW c \in Destroyer, cl[c].pc \in Guarding, NEW d \in Daemon, DaemonStep(d)
  PROVE  Kept /\ StaysDisabled
<1> USE LifecycleAssumption DEF Shape, Types, DaemonRecord, DaemonGoes, Serves, DaemonOK
<1>1. \A x \in Daemon \ {d} : dm'[x] = dm[x]
  BY DaemonStepOK
<1>2. lifecycle = c /\ dm[d].pc \notin Starting /\ c # d
  BY DEF Locks, Client
<1>3. ASSUME UNCHANGED enabled, Serves(d)' => Serves(d), dm'[d].drained = dm[d].drained,
             dm'[d].conn \in {dm[d].conn, "none"} PROVE Kept /\ StaysDisabled
  BY <1>1, <1>3 DEF Kept, StaysDisabled
<1>4. CASE Run(d) \/ LifecycleTimeout(d)
  BY <1>3, <1>4 DEF Run, LifecycleTimeout
<1>5. CASE TakeLifecycle(d)
  BY <1>2, <1>5, LifecycleAssumption DEF TakeLifecycle, Client
<1>6. CASE Inspect(d) \/ Pinged(d) \/ RemoveStale(d) \/ Boot(d) \/ BootFails(d) \/ Claim(d)
           \/ Fill(d) \/ Serve(d)
  BY <1>2, <1>6 DEF Inspect, Pinged, RemoveStale, Boot, BootFails, Claim, Fill, Serve, Starting
<1>7. CASE Connect(d)
  BY <1>1, <1>7 DEF Connect, Kept, StaysDisabled
<1>8. CASE Disable(d)
  BY <1>1, <1>8 DEF Disable, Kept, StaysDisabled
<1>9. CASE Opened(d)
  BY <1>1, <1>9 DEF Opened, Kept, StaysDisabled
<1>10. CASE TransportDies(d) \/ Closed(d)
  BY <1>1, <1>10 DEF TransportDies, Closed, Kept, StaysDisabled
<1>11. CASE Signal(d) \/ CloseAll(d) \/ CloseEnds(d) \/ ReadOwn(d) \/ RmOwn(d) \/ DaemonCrash(d)
  BY <1>1, <1>11 DEF Signal, CloseAll, CloseEnds, ReadOwn, RmOwn, DaemonCrash, Stopping, Dead,
                     Kept, StaysDisabled
<1> QED  BY <1>4, <1>5, <1>6, <1>7, <1>8, <1>9, <1>10, <1>11, Zenon DEF DaemonStep

LEMMA KeptByClient ==
  ASSUME Shape, Locks, NEW c \in Destroyer, cl[c].pc \in Guarding,
         NEW x \in Client, x # c, ClientStep(x)
  PROVE  Kept /\ StaysDisabled
<1> USE DEF Shape, Client
<1>1. ~(x \in Destroyer /\ cl[x].pc \in Guarding)
  BY DEF Locks
<1>2. ~BeginDrain(x) /\ ~ReleaseDrain(x) /\ ~CloseByDaemon(x) /\ ~CloseInState(x)
  BY <1>1 DEF BeginDrain, ReleaseDrain, CloseByDaemon, CloseInState, Guarding, Drains, ClientOK
<1>3. UNCHANGED enabled
  BY <1>2 DEF ClientStep, Call, TakeManaged, ManagedTimeout, GuardLifecycle, GuardTimeout,
              Look, Ping, ReleaseLifecycle, ReleaseManaged, ClientCrash, Spawn,
              StartSucceeds, ChildExited, StartTimeout, NothingToStop, RequestShutdown,
              StopSeen, RefuseStale, ReadIntents, BeginAnswered, Refuse, Confirm,
              CloseAnswered, Destroyed
<1>4. \A d \in Daemon : ChangesBy(x, d)
  BY DaemonByClient
<1> QED  BY <1>2, <1>3, <1>4 DEF ChangesBy, Kept, StaysDisabled

\* A destroyer that does not move.
LEMMA GuardKept ==
  ASSUME NEW c \in Destroyer, GuardOK(c), cl'[c] = cl[c], Kept, StaysDisabled
  PROVE  GuardOK(c)'
BY DEF GuardOK, Kept, StaysDisabled, Drains, Serves

\* A destroyer that moves.
LEMMA GuardMoves ==
  ASSUME Shape, Descriptor, ~robbed, NEW c \in Destroyer, GuardOK(c), ClientStep(c)
  PROVE  GuardOK(c)'
<1> USE LifecycleAssumption DEF Shape, Types, ClientRecord, Client, Goes, Serves
<1>1. ASSUME cl'[c].pc \notin {"ping", "stopped", "running"} \cup Drains
      PROVE  GuardOK(c)'
  BY <1>1 DEF GuardOK, Drains
<1>2. CASE Call(c) \/ TakeManaged(c) \/ ManagedTimeout(c) \/ GuardLifecycle(c) \/ GuardTimeout(c)
  <2>1. cl'[c].pc \in {"managed", "lifecycle", "look", "done", "relManaged"}
    BY <1>2 DEF Call, TakeManaged, ManagedTimeout, GuardLifecycle, GuardTimeout
  <2> QED  BY <1>1, <2>1 DEF Drains
<1>15. CASE ClientCrash(c)
  <2>1. cl'[c].pc = "crashed"
    BY <1>15 DEF ClientCrash, Idle
  <2> QED  BY <1>1, <2>1 DEF Drains
<1>3. CASE ReleaseLifecycle(c) \/ ReleaseManaged(c) \/ RefuseStale(c)
  <2>1. cl'[c].pc \in {"relManaged", "done", "relLifecycle"}
    BY <1>3 DEF ReleaseLifecycle, ReleaseManaged, RefuseStale
  <2> QED  BY <1>1, <2>1 DEF Drains
<1>4. CASE Spawn(c) \/ StartSucceeds(c) \/ ChildExited(c) \/ StartTimeout(c) \/ NothingToStop(c)
           \/ RequestShutdown(c) \/ StopSeen(c)
  BY <1>4 DEF Spawn, StartSucceeds, ChildExited, StartTimeout, NothingToStop, RequestShutdown,
              StopSeen, ClientOK
<1>5. CASE Look(c)
  BY <1>5 DEF Look, Descriptor, DescriptorOK, GuardOK, Drains
<1>6. CASE Ping(c)
  BY <1>6 DEF Ping, GuardOK, Drains
<1>7. CASE Refuse(c) \/ Destroyed(c) \/ ReleaseDrain(c)
  <2>1. cl'[c].pc \in {"release", "relLifecycle"}
    BY <1>7 DEF Refuse, Destroyed, ReleaseDrain
  <2> QED  BY <2>1 DEF GuardOK, Drains
<1>8. CASE ReadIntents(c)
  BY <1>8 DEF ReadIntents, ClientOK, GuardOK, Drains
<1>9. CASE BeginDrain(c)
  <2> DEFINE d == cl[c].saw
  <2>1. d \in Daemon /\ cl[c].pc = "running"
    BY <1>9 DEF BeginDrain, ClientOK
  <2>2. CASE ~(Serves(d) /\ ~dm[d].drained)
    <3>1. cl'[c].pc = "relLifecycle"
      BY <1>9, <2>2 DEF BeginDrain
    <3> QED  BY <1>1, <3>1 DEF Drains
  <2>3. CASE Serves(d) /\ ~dm[d].drained
    <3>1. cl'[c].pc = "beginWait" /\ cl'[c].saw = d /\ dm' = [dm EXCEPT ![d].drained = TRUE]
      BY <1>9, <2>3 DEF BeginDrain
    <3> QED  BY <2>1, <3>1 DEF GuardOK, Drains, DaemonRecord
  <2> QED  BY <2>2, <2>3
<1>10. CASE BeginAnswered(c)
  <2> DEFINE d == cl[c].saw
  <2>1. cl[c].pc = "beginWait" /\ UNCHANGED <<dm, enabled>>
    BY <1>10 DEF BeginAnswered
  <2>2. CASE cl'[c].pc = "guard"
    <3>1. dm[d].conn # "opening" /\ cl'[c].saw = d
      BY <1>10, <2>2 DEF BeginAnswered
    <3>2. ~cl'[c].affected => ~enabled /\ dm[d].conn = "none"
      BY <1>10, <2>2 DEF BeginAnswered
    <3> QED  BY <2>1, <2>2, <3>1, <3>2 DEF GuardOK, Drains
  <2>3. CASE cl'[c].pc = "relLifecycle"
    BY <1>1, <2>3 DEF Drains
  <2> QED  BY <1>10, <2>2, <2>3 DEF BeginAnswered
<1>11. CASE Confirm(c)
  BY <1>11 DEF Confirm, GuardOK, Drains
<1>12. CASE CloseByDaemon(c)
  <2> DEFINE d == cl[c].saw
  <2>1. CASE Serves(d)
    <3>1. /\ cl[c].pc = "close" /\ cl'[c].pc = "closeWait" /\ cl'[c].saw = d /\ enabled' = FALSE
          /\ dm' = [dm EXCEPT ![d].conn = IF @ = "open" THEN "closing" ELSE @]
      BY <1>12, <2>1 DEF CloseByDaemon
    <3> QED  BY <3>1 DEF GuardOK, Drains, DaemonRecord
  <2>2. CASE ~Serves(d)
    <3>1. cl'[c].pc = "release"
      BY <1>12, <2>2 DEF CloseByDaemon
    <3> QED  BY <3>1 DEF GuardOK, Drains
  <2> QED  BY <2>1, <2>2
<1>13. CASE CloseAnswered(c)
  <2>1. cl[c].pc = "closeWait" /\ UNCHANGED <<dm, enabled>> /\ cl'[c].saw = cl[c].saw
    BY <1>13 DEF CloseAnswered
  <2>2. \/ cl'[c].pc = "release"
        \/ cl'[c].pc = "destroying" /\ dm[cl[c].saw].conn = "none"
    BY <1>13 DEF CloseAnswered
  <2> QED  BY <2>1, <2>2 DEF GuardOK, Drains
<1>14. CASE CloseInState(c)
  <2>0. /\ cl[c].pc = "close" /\ ~cl[c].token /\ UNCHANGED dm
        /\ Goes(c, "release") \/ (enabled' = FALSE /\ Goes(c, "destroying"))
    BY <1>14, Zenon DEF CloseInState
  <2>1. cl[c].pc = "close" /\ cl[c].saw = None /\ UNCHANGED dm /\ cl'[c].saw = cl[c].saw
    BY <2>0 DEF ClientOK, Drains
  <2>2. cl'[c].pc = "release" \/ (cl'[c].pc = "destroying" /\ enabled' = FALSE)
    BY <2>0
  <2>3. \A d \in Daemon : ~Serves(d)
    BY <2>1 DEF GuardOK, Drains
  <2> QED  BY <2>1, <2>2, <2>3 DEF GuardOK, Drains
<1> QED  BY <1>2, <1>3, <1>4, <1>5, <1>6, <1>7, <1>8, <1>9, <1>10, <1>11, <1>12, <1>13, <1>14,
         <1>15,         Zenon DEF ClientStep

LEMMA GuardsStep == Shape /\ Locks /\ Descriptor /\ Guards /\ [Next]_vars => Guards'
<1> SUFFICES ASSUME Shape, Locks, Descriptor, Guards, [Next]_vars, ~robbed',
                    NEW c \in Destroyer
             PROVE  GuardOK(c)'
  BY DEF Guards
<1>1. CASE UNCHANGED vars
  BY <1>1 DEF vars, Guards, GuardOK, Serves
<1>2. CASE Reclaim
  BY <1>2 DEF Reclaim, Guards, GuardOK, Serves
<1>3. CASE cl'[c] = cl[c] /\ cl[c].pc \notin Guarding
  BY <1>3 DEF GuardOK, Guarding, Drains
<1>4. ASSUME NEW d \in Daemon, DaemonStep(d) PROVE GuardOK(c)'
  <2>1. ~robbed
    BY <1>4 DEF DaemonStep, Run, TakeLifecycle, LifecycleTimeout, Inspect, Pinged,
                RemoveStale, Boot, BootFails, Claim, Fill, Serve, Connect, Disable, Opened,
                TransportDies, Closed, Signal, CloseAll, CloseEnds, ReadOwn, RmOwn, DaemonCrash
  <2>2. cl'[c] = cl[c]
    BY <1>4, DaemonStepOK DEF Shape
  <2> QED  BY <1>3, <1>4, <2>1, <2>2, KeptByDaemon, GuardKept DEF Guards
<1>5. ASSUME NEW x \in Client, ClientStep(x) PROVE GuardOK(c)'
  <2>1. ~robbed
    BY <1>5 DEF ClientStep, Call, TakeManaged, ManagedTimeout, GuardLifecycle, GuardTimeout,
                Look, Ping, ReleaseLifecycle, ReleaseManaged, ClientCrash, Spawn,
                StartSucceeds, ChildExited, StartTimeout, NothingToStop, RequestShutdown,
                StopSeen, RefuseStale, ReadIntents, BeginDrain, BeginAnswered, Refuse, Confirm,
                CloseByDaemon, CloseAnswered, CloseInState, Destroyed, ReleaseDrain
  <2>2. CASE x = c
    BY <1>5, <2>1, <2>2, GuardMoves DEF Guards
  <2>3. CASE x # c
    <3>1. cl'[c] = cl[c]
      BY <1>5, <2>3, OneClient DEF Shape, Client
    <3> QED  BY <1>3, <1>5, <2>1, <2>3, <3>1, KeptByClient, GuardKept DEF Guards
  <2> QED  BY <2>2, <2>3
<1> QED  BY <1>1, <1>2, <1>4, <1>5 DEF Next

(***************************************************************************)
(* Drains                                                                  *)
(***************************************************************************)
\* A destroyer on account of which a daemon may drain the instance.
Answers(c, d) == cl[c].saw = d /\ (cl[c].pc \in Drains \cup {"crashed"} \/ cl[c].left # "no")

LEMMA DrainsByDaemon ==
  ASSUME Shape, NEW d \in Daemon, DaemonStep(d), dm'[d].drained
  PROVE  dm[d].drained
<1> USE DEF Shape, Types, DaemonRecord, DaemonGoes
<1>1. CASE Run(d) \/ LifecycleTimeout(d) \/ TakeLifecycle(d) \/ BootFails(d) \/ Serve(d)
  BY <1>1 DEF Run, LifecycleTimeout, TakeLifecycle, BootFails, Serve
<1>2. CASE Inspect(d)
  BY <1>2 DEF Inspect
<1>3. CASE Pinged(d)
  BY <1>3 DEF Pinged
<1>4. CASE RemoveStale(d) \/ Boot(d) \/ Claim(d) \/ Fill(d) \/ RmOwn(d)
  BY <1>4 DEF RemoveStale, Boot, Claim, Fill, RmOwn
<1>5. CASE Connect(d) \/ Disable(d) \/ TransportDies(d)
  BY <1>5 DEF Connect, Disable, TransportDies
<1>6. CASE Opened(d) \/ Closed(d)
  BY <1>6 DEF Opened, Closed
<1>7. CASE Signal(d) \/ CloseAll(d) \/ CloseEnds(d) \/ ReadOwn(d) \/ DaemonCrash(d)
  BY <1>7 DEF Signal, CloseAll, CloseEnds, ReadOwn, DaemonCrash, Stopping, Dead
<1> QED  BY <1>1, <1>2, <1>3, <1>4, <1>5, <1>6, <1>7, Zenon DEF DaemonStep

\* A destroyer answers for a drain until it releases it.
LEMMA StillAnswers ==
  ASSUME Shape, NEW c \in Destroyer, NEW d \in Daemon, Answers(c, d), ClientStep(c),
         ~ReleaseDrain(c)
  PROVE  Answers(c, d)'
<1> USE LifecycleAssumption DEF Shape, Types, ClientRecord, Client, Goes, Answers, ClientOK, Drains,
                                Before
<1>1. CASE Call(c) \/ TakeManaged(c) \/ ManagedTimeout(c) \/ GuardLifecycle(c) \/ GuardTimeout(c)
           \/ Look(c) \/ Ping(c)
  BY <1>1 DEF Call, TakeManaged, ManagedTimeout, GuardLifecycle, GuardTimeout, Look, Ping
<1>2. CASE ReleaseLifecycle(c) \/ ReleaseManaged(c)
  BY <1>2 DEF ReleaseLifecycle, ReleaseManaged
<1>3. CASE ClientCrash(c)
  BY <1>3 DEF ClientCrash, Idle
<1>4. CASE Spawn(c) \/ StartSucceeds(c) \/ ChildExited(c) \/ StartTimeout(c) \/ NothingToStop(c)
           \/ RequestShutdown(c) \/ StopSeen(c)
  BY <1>4 DEF Spawn, StartSucceeds, ChildExited, StartTimeout, NothingToStop, RequestShutdown,
              StopSeen
<1>5. CASE RefuseStale(c) \/ ReadIntents(c) \/ BeginDrain(c)
  BY <1>5 DEF RefuseStale, ReadIntents, BeginDrain
<1>6. CASE BeginAnswered(c)
  BY <1>6 DEF BeginAnswered
<1>7. CASE Refuse(c) \/ Confirm(c) \/ Destroyed(c)
  BY <1>7 DEF Refuse, Confirm, Destroyed
<1>8. CASE CloseByDaemon(c)
  BY <1>8 DEF CloseByDaemon
<1>9. CASE CloseAnswered(c)
  BY <1>9 DEF CloseAnswered
<1>10. CASE CloseInState(c)
  <2>1. cl[c].pc = "close" /\ (Goes(c, "release") \/ Goes(c, "destroying"))
    BY <1>10, Zenon DEF CloseInState
  <2> QED  BY <2>1
<1> QED  BY <1>1, <1>2, <1>3, <1>4, <1>5, <1>6, <1>7, <1>8, <1>9, <1>10, Zenon DEF ClientStep

LEMMA DrainsStep == Shape /\ DrainIsReleased /\ [Next]_vars => DrainIsReleased'
<1> SUFFICES ASSUME Shape, DrainIsReleased, [Next]_vars,
                    NEW d \in Daemon, Serves(d)', dm'[d].drained
             PROVE  \E c \in Destroyer : Answers(c, d)'
  BY DEF DrainIsReleased, Answers
<1> USE DEF Shape, Client
<1>1. dm[d].drained => \E c \in Destroyer : Answers(c, d)
  BY DEF DaemonOK, DrainIsReleased, Answers
<1>2. CASE UNCHANGED vars \/ Reclaim
  BY <1>1, <1>2 DEF vars, Reclaim, Answers
<1>3. ASSUME NEW e \in Daemon, DaemonStep(e) PROVE \E c \in Destroyer : Answers(c, d)'
  <2>1. dm[d].drained /\ UNCHANGED cl
    BY <1>3, DaemonStepOK, DrainsByDaemon
  <2> QED  BY <1>1, <2>1 DEF Answers
<1>4. ASSUME NEW x \in Client, ClientStep(x) PROVE \E c \in Destroyer : Answers(c, d)'
  <2>1. ChangesBy(x, d)
    BY <1>4, DaemonByClient
  <2>2. CASE ~dm[d].drained
    <3>1. BeginDrain(x) /\ d = cl[x].saw
      BY <2>1, <2>2 DEF ChangesBy
    <3>2. cl'[x].pc = "beginWait" /\ cl'[x].saw = d
      BY <2>2, <3>1 DEF BeginDrain, Goes, Types, ClientRecord
    <3> QED  BY <3>1, <3>2 DEF Answers, BeginDrain, Drains
  <2>3. CASE dm[d].drained
    <3>1. PICK c \in Destroyer : Answers(c, d)
      BY <1>1, <2>3
    <3>2. CASE c # x
      BY <1>4, <3>1, <3>2, OneClient DEF Answers
    <3>3. CASE c = x /\ ~ReleaseDrain(x)
      BY <1>4, <3>1, <3>3, StillAnswers
    <3>4. CASE c = x /\ ReleaseDrain(x)
      <4>1. cl[x].saw = d /\ cl[x].pc = "release"
        BY <3>1, <3>4 DEF Answers, ReleaseDrain
      <4>2. cl[x].token /\ Serves(d)
        BY <2>1, <4>1, LifecycleAssumption DEF ClientOK, Drains, ChangesBy
      <4>3. \/ dm' = [dm EXCEPT ![d].drained = FALSE]
            \/ cl' = [cl EXCEPT ![x].pc = "relLifecycle", ![x].left = "warned"]
        BY <3>4, <4>1, <4>2 DEF ReleaseDrain
      <4>4. dm' # [dm EXCEPT ![d].drained = FALSE]
        BY DEF Types, DaemonRecord
      <4> QED  BY <3>4, <4>1, <4>3, <4>4 DEF Types, ClientRecord, Answers
    <3> QED  BY <3>2, <3>3, <3>4
  <2> QED  BY <2>2, <2>3
<1> QED  BY <1>2, <1>3, <1>4 DEF Next

(***************************************************************************)
(* The theorems                                                            *)
(***************************************************************************)
Inv == Shape /\ Locks /\ Descriptor /\ Guards /\ DrainIsReleased

LEMMA Inductive == Spec => []Inv
<1>1. Init => DrainIsReleased
  BY DEF Init, DrainIsReleased, Serves
<1>2. Init => Inv
  BY <1>1, ShapeInit, LocksInit, DescriptorInit, GuardsInit DEF Inv
<1>3. Inv /\ [Next]_vars => Inv'
  BY ShapeStep, LocksStep, DescriptorStep, GuardsStep, DrainsStep DEF Inv
<1> QED  BY <1>2, <1>3, PTL DEF Spec

\* For any number of daemons and clients, however they are started, stopped and killed,
\* at most one daemon serves and the descriptor leads to it, unless a stopping daemon
\* removed the descriptor of its successor.
THEOREM OneDaemonServes == Spec => []OneDaemonUnlessRobbed
<1>1. Descriptor => OneDaemonUnlessRobbed
  BY DEF Descriptor, DescriptorOK, OneDaemonUnlessRobbed
<1> QED  BY <1>1, Inductive, PTL DEF Inv

\* For any number of destroyers and daemons, no serving daemon has a connection to an
\* instance that is being destroyed, or could be restarted into one.
THEOREM NoTunnelWhenDestroyed == Spec => []DestroyHoldsNoTunnel
<1>1. Guards => DestroyHoldsNoTunnel
  BY DEF Guards, GuardOK, Drains, DestroyHoldsNoTunnel
<1> QED  BY <1>1, Inductive, PTL DEF Inv

\* For any number of destroyers and daemons, a serving daemon that drains the
\* instance has a destroyer that is at it, has died, was never told its token, or has
\* warned that the release failed.
THEOREM DrainsAreReleased == Spec => []DrainIsReleased
BY Inductive, PTL DEF Inv

(***************************************************************************)
(* The terminal interface: ScreenLeadsOn, LiveIsListed and NewestWins for  *)
(* every number of jobs of every kind.                                     *)
(***************************************************************************)

(***************************************************************************)
(* The table of handlers                                                   *)
(***************************************************************************)
\* What an end may be: one that leaves the screen as it is follows a load that shows
\* itself, and a load that does not is followed by a result.
Fits(e) ==
  /\ e \in Ending
  /\ e.phase = "leave" => e.load = "loud"
  /\ e.load = "quiet" => e.phase \in {"done", "failed"}

Loud(e) == e.load # "quiet"

LEMMA EndsFit ==
  /\ \A l \in {"no", "quiet", "loud"} : Fits(Completed(l)) /\ Completed(l).load = l
  /\ \A l \in {"no", "quiet", "loud"}, acts \in SUBSET Choice :
       Fits(Failed(l, acts)) /\ Failed(l, acts).load = l
  /\ \A l \in {"no", "loud"} : Fits(Blanked(l)) /\ Blanked(l).load = l
  /\ Fits(Left("loud")) /\ Left("loud").load = "loud"
  /\ \A e : Fits(e) => Fits(InViewport(e)) /\ InViewport(e).load = e.load
<1> USE DEF Ending, End
<1>1. ASSUME NEW l \in {"no", "quiet", "loud"}
      PROVE  Fits(Completed(l)) /\ Completed(l).load = l
  BY DEF Completed, Fits, Choice
<1>2. ASSUME NEW l \in {"no", "quiet", "loud"}, NEW acts \in SUBSET Choice
      PROVE  Fits(Failed(l, acts)) /\ Failed(l, acts).load = l
  BY DEF Failed, Fits, Choice
<1>3. ASSUME NEW l \in {"no", "loud"}
      PROVE  Fits(Blanked(l)) /\ Blanked(l).load = l
  BY DEF Blanked, Fits
<1>4. Fits(Left("loud")) /\ Left("loud").load = "loud"
  BY DEF Left, Fits
<1>5. ASSUME NEW e, Fits(e)
      PROVE  Fits(InViewport(e)) /\ InViewport(e).load = e.load
  BY <1>5 DEF InViewport, Fits
<1> QED
  BY <1>1, <1>2, <1>3, <1>4, <1>5

\* A handler of the table.
Sound(h) ==
  /\ h.begin \in {"load", "none", "working", "cancellable", "prompt"}
  /\ h.slot \in Slot \cup {"none"}
  /\ h.begin = "prompt" => h.slot # "none"
  /\ \A e \in h.ok \cup h.fail : Fits(e)

\* None of its ends follows a load that does not show itself.
AllLoud(h) == \A e \in h.ok \cup h.fail : Loud(e)

LEMMA Errors == \A e \in MutationErrors : Fits(e) /\ e.load = "no"
BY EndsFit DEF MutationErrors, Choice

LEMMA Connections ==
  /\ Sound(ListMethods)
  /\ Sound(Open) /\ AllLoud(Open) /\ Open.slot = "trust"
  /\ Sound(Retry) /\ AllLoud(Retry) /\ Retry.slot = "trust"
  /\ Sound(Close) /\ AllLoud(Close)
<1> USE EndsFit DEF Sound, AllLoud, Loud, Handler, Slot
<1>1. Sound(ListMethods)
  BY DEF ListMethods, Choice
<1>2. Sound(Open) /\ AllLoud(Open) /\ Open.slot = "trust"
  BY DEF Open, Choice
<1>3. Sound(Retry) /\ AllLoud(Retry) /\ Retry.slot = "trust"
  BY DEF Retry, Choice
<1>4. Sound(Close) /\ AllLoud(Close)
  BY DEF Close, Choice
<1> QED
  BY <1>1, <1>2, <1>3, <1>4

LEMMA Sessions ==
  /\ Sound(StartDaemon)
  /\ Sound(StopDaemon)
  /\ Sound(CreateSession) /\ AllLoud(CreateSession)
  /\ Sound(CloseSession)
  /\ Sound(Refresh)
<1> USE EndsFit DEF Sound, AllLoud, Loud, Handler, Slot
<1>1. Sound(StartDaemon)
  BY DEF StartDaemon, Choice
<1>2. Sound(StopDaemon)
  BY DEF StopDaemon, Choice
<1>3. Sound(CreateSession) /\ AllLoud(CreateSession)
  BY DEF CreateSession, Choice
<1>4. Sound(CloseSession)
  BY DEF CloseSession, Choice
<1>5. Sound(Refresh)
  BY DEF Refresh, Choice
<1> QED
  BY <1>1, <1>2, <1>3, <1>4, <1>5

LEMMA Intents ==
  /\ Sound(SetIntentEnabled)
  /\ Sound(RetryIntent)
  /\ Sound(ReviewHostTrust)
  /\ Sound(RemoveIntent)
<1> USE EndsFit DEF Sound, Handler, Slot
<1>1. Sound(SetIntentEnabled)
  BY DEF SetIntentEnabled, Choice
<1>2. Sound(RetryIntent)
  BY DEF RetryIntent, Choice
<1>3. Sound(ReviewHostTrust)
  BY DEF ReviewHostTrust, Choice
<1>4. Sound(RemoveIntent)
  BY DEF RemoveIntent, Choice
<1> QED
  BY <1>1, <1>2, <1>3, <1>4

LEMMA Mutations ==
  /\ Sound(MutateInstance) /\ AllLoud(MutateInstance)
  /\ Sound(MutateBulk)
  /\ Sound(MutateProvider)
  /\ Sound(RemoveCredential)
  /\ Sound(OpenFlow)
  /\ Sound(DispatchFlow)
<1> USE EndsFit, Errors DEF Sound, AllLoud, Loud, Handler, Slot
<1>1. Sound(MutateInstance) /\ AllLoud(MutateInstance)
  BY DEF MutateInstance, Choice
<1>2. Sound(MutateBulk)
  BY DEF MutateBulk, Choice
<1>3. Sound(MutateProvider)
  BY DEF MutateProvider, Choice
<1>4. Sound(RemoveCredential)
  BY DEF RemoveCredential, Choice
<1>5. Sound(OpenFlow)
  BY DEF OpenFlow, Choice
<1>6. Sound(DispatchFlow)
  BY DEF DispatchFlow, Choice
<1> QED
  BY <1>1, <1>2, <1>3, <1>4, <1>5, <1>6

LEMMA Kinds ==
  DOMAIN Handlers =
    {"refresh", "methods", "open", "retry", "close", "startDaemon", "stop", "create",
     "closeSession", "setEnabled", "retryIntent", "review", "removal", "mutate", "bulk",
     "provider", "credential", "flow"}
BY DEF Handlers

\* What is needed of the ends that forget a question, and of those that follow the
\* opening of a connection.
Unloaded(ends) == \A e \in ends : e.load = "no"

\* A bulk action shows what became of it.
Stays(ends) == \A e \in ends : e.phase # "leave"

LEMMA BulkStays == Stays(MutateBulk.ok)
BY DEF Stays, MutateBulk, Handler, Completed, Failed, End

LEMMA Unloads ==
  /\ Unloaded(Open.ok) /\ Unloaded(Retry.ok)
  /\ Unloaded(MutateInstance.fail) /\ Unloaded(MutateBulk.fail)
  /\ Unloaded(DispatchFlow.fail) /\ Unloaded(OpenFlow.fail)
<1> USE EndsFit, Errors DEF Unloaded, Handler
<1>1. Unloaded(Open.ok)
  BY DEF Open
<1>2. Unloaded(Retry.ok)
  BY DEF Retry
<1>3. Unloaded(MutateInstance.fail)
  BY DEF MutateInstance
<1>4. Unloaded(MutateBulk.fail)
  BY DEF MutateBulk
<1>5. Unloaded(DispatchFlow.fail)
  BY DEF DispatchFlow
<1>6. Unloaded(OpenFlow.fail)
  BY DEF OpenFlow, Choice
<1> QED
  BY <1>1, <1>2, <1>3, <1>4, <1>5, <1>6

LEMMA Table ==
  ASSUME NEW j \in Job
  PROVE  /\ Sound(H(j))
         /\ Kind[j] = "bulk" => Stays(H(j).ok)
         /\ Kind[j] \in {"open", "retry", "create", "mutate"} => AllLoud(H(j))
         /\ Kind[j] \in {"open", "retry"} => Unloaded(H(j).ok)
         /\ Kind[j] \in {"bulk", "flow"} => Unloaded(H(j).fail)
<1>1. Kind[j] \in DOMAIN Handlers
  BY TuiAssumption
<1>2. CASE Kind[j] = "refresh"
  <2>1. H(j) = Refresh
    BY <1>2 DEF H, Handlers
  <2> QED
    BY <2>1, <1>2, Sessions
<1>3. CASE Kind[j] = "methods"
  <2>1. H(j) = ListMethods
    BY <1>3 DEF H, Handlers
  <2> QED
    BY <2>1, <1>3, Connections
<1>4. CASE Kind[j] = "open"
  <2>1. H(j) = Open
    BY <1>4 DEF H, Handlers
  <2> QED
    BY <2>1, <1>4, Connections, Unloads
<1>5. CASE Kind[j] = "retry"
  <2>1. H(j) = Retry
    BY <1>5 DEF H, Handlers
  <2> QED
    BY <2>1, <1>5, Connections, Unloads
<1>6. CASE Kind[j] = "close"
  <2>1. H(j) = Close
    BY <1>6 DEF H, Handlers
  <2> QED
    BY <2>1, <1>6, Connections
<1>7. CASE Kind[j] = "startDaemon"
  <2>1. H(j) = StartDaemon
    BY <1>7 DEF H, Handlers
  <2> QED
    BY <2>1, <1>7, Sessions
<1>8. CASE Kind[j] = "stop"
  <2>1. H(j) = StopDaemon
    BY <1>8 DEF H, Handlers
  <2> QED
    BY <2>1, <1>8, Sessions
<1>9. CASE Kind[j] = "create"
  <2>1. H(j) = CreateSession
    BY <1>9 DEF H, Handlers
  <2> QED
    BY <2>1, <1>9, Sessions
<1>10. CASE Kind[j] = "closeSession"
  <2>1. H(j) = CloseSession
    BY <1>10 DEF H, Handlers
  <2> QED
    BY <2>1, <1>10, Sessions
<1>11. CASE Kind[j] = "setEnabled"
  <2>1. H(j) = SetIntentEnabled
    BY <1>11 DEF H, Handlers
  <2> QED
    BY <2>1, <1>11, Intents
<1>12. CASE Kind[j] = "retryIntent"
  <2>1. H(j) = RetryIntent
    BY <1>12 DEF H, Handlers
  <2> QED
    BY <2>1, <1>12, Intents
<1>13. CASE Kind[j] = "review"
  <2>1. H(j) = ReviewHostTrust
    BY <1>13 DEF H, Handlers
  <2> QED
    BY <2>1, <1>13, Intents
<1>14. CASE Kind[j] = "removal"
  <2>1. H(j) = RemoveIntent
    BY <1>14 DEF H, Handlers
  <2> QED
    BY <2>1, <1>14, Intents
<1>15. CASE Kind[j] = "mutate"
  <2>1. H(j) = MutateInstance
    BY <1>15 DEF H, Handlers
  <2> QED
    BY <2>1, <1>15, Mutations
<1>16. CASE Kind[j] = "bulk"
  <2>1. H(j) = MutateBulk
    BY <1>16 DEF H, Handlers
  <2> QED
    BY <2>1, <1>16, Mutations, Unloads, BulkStays
<1>17. CASE Kind[j] = "provider"
  <2>1. H(j) = MutateProvider
    BY <1>17 DEF H, Handlers
  <2> QED
    BY <2>1, <1>17, Mutations
<1>18. CASE Kind[j] = "credential"
  <2>1. H(j) = RemoveCredential
    BY <1>18 DEF H, Handlers
  <2> QED
    BY <2>1, <1>18, Mutations
<1>19. CASE Kind[j] = "flow"
  <2>1. H(j) = DispatchFlow
    BY <1>19 DEF H, Handlers
  <2> QED
    BY <2>1, <1>19, Mutations, Unloads
<1> QED
  BY <1>1, <1>2, <1>3, <1>4, <1>5, <1>6, <1>7, <1>8, <1>9, <1>10, <1>11, <1>12, <1>13,
     <1>14, <1>15, <1>16, <1>17, <1>18, <1>19, Kinds

LEMMA EndsAre ==
  ASSUME NEW j \in Job, NEW ok \in BOOLEAN, NEW e \in Ends(j, ok),
         cancelled \subseteq Of({"bulk"})
  PROVE  \/ Kind[j] = "stop" /\ e \in {Left("loud"), Failed("no", {})}
         \/ ~ok /\ e \in OpenFlow.fail
         \/ j \in cancelled /\ \E x \in H(j).ok : e = [x EXCEPT !.load = "no"]
         \/ ok /\ e \in H(j).ok
         \/ ~ok /\ e \in H(j).fail
<1> DEFINE a == Kind[j] = "stop" /\ pc[j] = "run"
           b == pc[j] = "opening"
           c == pc[j] = "refused" /\ ok
           d == pc[j] \in {"run", "go"} /\ j \in cancelled /\ ok
<1>1. CASE a
  <2>1. Ends(j, ok) = IF ok THEN {Left("loud")} ELSE {Failed("no", {})}
    BY <1>1 DEF Ends, Of
  <2> QED
    BY <1>1, <2>1
<1>2. CASE ~a /\ b
  <2>1. Ends(j, ok) = IF ok THEN {} ELSE OpenFlow.fail
    BY <1>2 DEF Ends
  <2> QED
    BY <2>1
<1>3. CASE ~a /\ ~b /\ c
  <2>1. Ends(j, ok) = {}
    BY <1>3 DEF Ends
  <2> QED
    BY <2>1
<1>4. CASE ~a /\ ~b /\ ~c /\ d
  <2>1. Ends(j, ok) = {[x EXCEPT !.load = "no"] : x \in H(j).ok}
    BY <1>4 DEF Ends
  <2> QED
    BY <2>1, <1>4
<1>5. CASE ~a /\ ~b /\ ~c /\ ~d
  <2>1. Ends(j, ok) = IF ok THEN H(j).ok ELSE H(j).fail
    BY <1>5 DEF Ends
  <2> QED
    BY <2>1
<1> QED
  BY <1>1, <1>2, <1>3, <1>4, <1>5

LEMMA WorksEnd ==
  ASSUME NEW j \in Job, NEW ok \in BOOLEAN, NEW e \in Ends(j, ok),
         cancelled \subseteq Of({"bulk"})
  PROVE  /\ Fits(e)
         /\ Kind[j] = "mutate" => Loud(e)
         /\ Cleared(j, ok) # {} => Loud(e)
         /\ Kind[j] \in {"open", "retry"} /\ ok => e.load = "no"
<1>1. /\ \A x \in H(j).ok \cup H(j).fail : Fits(x)
      /\ Kind[j] \in {"open", "retry", "create", "mutate"} => \A x \in H(j).ok \cup H(j).fail : Loud(x)
      /\ Kind[j] \in {"open", "retry"} => \A x \in H(j).ok : x.load = "no"
      /\ Kind[j] \in {"bulk", "flow"} => \A x \in H(j).fail : x.load = "no"
      /\ Kind[j] = "bulk" => \A x \in H(j).ok : x.phase # "leave"
  BY Table DEF Sound, AllLoud, Unloaded, Stays
<1>2. \/ Kind[j] \in {"open", "retry", "create", "mutate"}
      \/ Kind[j] \in {"bulk", "flow"} /\ ~ok
      \/ Cleared(j, ok) = {}
  BY DEF Cleared
<1>3. CASE Kind[j] = "stop" /\ e \in {Left("loud"), Failed("no", {})}
  <2>1. Fits(e) /\ Loud(e)
    BY <1>3, EndsFit DEF Loud
  <2> QED
    BY <2>1, <1>3
<1>4. CASE ~ok /\ e \in OpenFlow.fail
  <2>1. Fits(e) /\ e.load = "no"
    BY <1>4, Mutations, Unloads DEF Sound, Unloaded
  <2> QED
    BY <2>1 DEF Loud
<1>5. CASE j \in cancelled /\ \E x \in H(j).ok : e = [x EXCEPT !.load = "no"]
  <2>1. PICK x \in H(j).ok : e = [x EXCEPT !.load = "no"]
    BY <1>5
  <2>2. Fits(x) /\ x.phase # "leave"
    BY <1>1, <1>5 DEF Of
  <2>3. e \in Ending /\ e.load = "no" /\ e.phase # "leave"
    BY <2>1, <2>2 DEF Fits, Ending
  <2> QED
    BY <2>3 DEF Fits, Loud
<1>6. CASE ok /\ e \in H(j).ok
  <2>1. Fits(e)
    BY <1>1, <1>6
  <2>2. Kind[j] \in {"open", "retry", "create", "mutate"} => Loud(e)
    BY <1>1, <1>6
  <2>3. Kind[j] \in {"open", "retry"} => e.load = "no"
    BY <1>1, <1>6
  <2> QED
    BY <1>2, <1>6, <2>1, <2>2, <2>3
<1>7. CASE ~ok /\ e \in H(j).fail
  <2>1. Fits(e)
    BY <1>1, <1>7
  <2>2. Kind[j] \in {"open", "retry", "create", "mutate"} => Loud(e)
    BY <1>1, <1>7
  <2>3. Kind[j] \in {"bulk", "flow"} => Loud(e)
    BY <1>1, <1>7 DEF Loud
  <2> QED
    BY <1>2, <1>7, <2>1, <2>2, <2>3
<1> QED
  BY <1>3, <1>4, <1>5, <1>6, <1>7, EndsAre

(***************************************************************************)
(* Types                                                                   *)
(***************************************************************************)
Screen ==
  [by : Job \cup {NoOne}, phase : {"none", "working", "ask", "done", "failed"},
   acts : SUBSET (Choice \cup {"trust", "confirm", "decline", "cancel"}), owns : BOOLEAN]

LEMMA ScreenTypes ==
  /\ Blank \in Screen
  /\ \A j \in Job \cup {NoOne} : Working(j, {}) \in Screen /\ Working(j, {"cancel"}) \in Screen
  /\ \A j \in Job : Prompt(j) \in Screen
  /\ \A j \in Job \cup {NoOne}, e \in Ending, s \in Screen : Shown(j, e, s) \in Screen
<1>1. Blank \in Screen
  BY DEF Blank, Screen
<1>2. ASSUME NEW j \in Job \cup {NoOne}
      PROVE  Working(j, {}) \in Screen /\ Working(j, {"cancel"}) \in Screen
  BY DEF Working, Screen
<1>3. ASSUME NEW j \in Job
      PROVE  Prompt(j) \in Screen
  BY DEF Prompt, Screen
<1>4. ASSUME NEW j \in Job \cup {NoOne}, NEW e \in Ending, NEW s \in Screen
      PROVE  Shown(j, e, s) \in Screen
  BY DEF Shown, Screen, Ending, Blank
<1> QED
  BY <1>1, <1>2, <1>3, <1>4

LEMMA TuiTypesInit == TuiInit => TuiTypeOK
<1> SUFFICES ASSUME TuiInit PROVE TuiTypeOK
  OBVIOUS
<1>1. screen \in Screen
  BY ScreenTypes DEF TuiInit
<1>2. after \in [Job -> Ending]
  BY DEF TuiInit, Ending, Left, End
<1>3. /\ pending \in [Slot -> Job \cup {NoOne}]
      /\ removalRetry \in Of({"removal"}) \cup {NoOne} /\ recovery \in Opener \cup {NoOne}
      /\ wizard \in Job \cup {NoOne} /\ busy \in BOOLEAN
      /\ bulkCtl \in Of({"bulk"}) \cup {NoOne} /\ cancelled \subseteq Of({"bulk"})
      /\ ctl \in Job \cup {NoOne}
  BY DEF TuiInit
<1>4. {loads, snap, starts} \subseteq Nat /\ seq \in [Job -> Nat]
  BY DEF TuiInit
<1>5. pc \in [Job -> Running \cup {"idle", "shown", "done"}]
  BY DEF TuiInit
<1>6. /\ rec \in [Opener -> {"none", "live", "closing", "failed"}]
      /\ conn \in [Opener -> {"none", "up", "down"}]
      /\ target \in [Of({"retry", "close"}) -> Opener \cup {NoOne}]
  BY DEF TuiInit
<1>7. /\ reported \subseteq Opener /\ late \subseteq Opener /\ alone \subseteq Job
      /\ quit \in [pc : {"no", "closing", "exited"}, set : SUBSET Opener]
  BY DEF TuiInit
<1> QED
  BY <1>1, <1>2, <1>3, <1>4, <1>5, <1>6, <1>7 DEF TuiTypeOK, Screen

LEMMA BeginLoadTypes ==
  ASSUME TuiTypeOK, NEW j \in Job, NEW e \in Ending, BeginLoad(j, e)
  PROVE  /\ pc' \in [Job -> Running \cup {"idle", "shown", "done"}]
         /\ after' \in [Job -> Ending]
         /\ removalRetry' \in Of({"removal"}) \cup {NoOne}
         /\ ctl' \in Job \cup {NoOne} /\ {loads', snap'} \subseteq Nat /\ seq' \in [Job -> Nat]
         /\ screen' \in Screen
<1>1. screen \in Screen /\ Working(j, {"cancel"}) \in Screen
  BY ScreenTypes DEF TuiTypeOK, Screen
<1> QED
  BY <1>1 DEF TuiTypeOK, BeginLoad, Goto, Running

LEMMA BeginTypes ==
  ASSUME TuiTypeOK, NEW j \in Job, Begin(j)
  PROVE  /\ pc' \in [Job -> Running \cup {"idle", "shown", "done"}]
         /\ after' \in [Job -> Ending]
         /\ removalRetry' \in Of({"removal"}) \cup {NoOne}
         /\ ctl' \in Job \cup {NoOne} /\ {loads', snap', starts'} \subseteq Nat
         /\ seq' \in [Job -> Nat]
         /\ screen' \in Screen
         /\ pending' \in [Slot -> Job \cup {NoOne}]
         /\ wizard' \in Job \cup {NoOne} /\ busy' \in BOOLEAN
         /\ bulkCtl' \in Of({"bulk"}) \cup {NoOne} /\ cancelled' \subseteq Of({"bulk"})
         /\ alone' \subseteq Job
<1>1. starts' \in Nat /\ wizard' \in Job \cup {NoOne} /\ busy' \in BOOLEAN
  <2>1. starts' = starts + 1 /\ wizard' = (IF j \in Wizard THEN j ELSE wizard)
    BY DEF Begin
  <2>2. busy' = (IF j \in Busies THEN TRUE ELSE busy)
    BY DEF Begin
  <2>3. starts \in Nat /\ wizard \in Job \cup {NoOne}
    BY DEF TuiTypeOK
  <2>4. busy \in BOOLEAN
    BY DEF TuiTypeOK
  <2>5. starts' \in Nat /\ wizard' \in Job \cup {NoOne}
    BY <2>1, <2>3
  <2>6. busy' \in BOOLEAN
    BY <2>2, <2>4, Zenon
  <2> QED
    BY <2>5, <2>6
<1>2. CASE H(j).begin = "load"
  <2>1. BeginLoad(j, Left("loud")) /\ UNCHANGED <<pending, bulkCtl, cancelled, alone>>
    BY <1>2 DEF Begin
  <2>2. Left("loud") \in Ending
    BY EndsFit DEF Fits
  <2> QED
    BY <1>1, <2>1, <2>2, BeginLoadTypes DEF TuiTypeOK
<1>3. CASE H(j).begin # "load"
  <2>1. UNCHANGED <<load, after>> /\ removalRetry' = removalRetry
    BY <1>3 DEF Begin
  <2>2. pc' \in [Job -> Running \cup {"idle", "shown", "done"}]
    BY <1>3 DEF Begin, Goto, Running, TuiTypeOK
  <2>3. screen' \in Screen
    <3>1. H(j).begin \in {"none", "working", "cancellable", "prompt"}
      BY Table, <1>3 DEF Sound
    <3>2. screen \in Screen
      BY DEF TuiTypeOK, Screen
    <3> QED
      BY <1>3, <3>1, <3>2, ScreenTypes DEF Begin
  <2>4. pending' \in [Slot -> Job \cup {NoOne}]
    BY <1>3 DEF Begin, TuiTypeOK
  <2>5. bulkCtl' \in Of({"bulk"}) \cup {NoOne} /\ cancelled' \subseteq Of({"bulk"})
    BY <1>3 DEF Begin, TuiTypeOK, Of
  <2>6. alone' \subseteq Job
    BY <1>3 DEF Begin, Asking, TuiTypeOK
  <2> QED
    BY <1>1, <2>1, <2>2, <2>3, <2>4, <2>5, <2>6 DEF TuiTypeOK, load
<1> QED
  BY <1>2, <1>3

LEMMA Same == UNCHANGED tuiVars =>
  /\ UNCHANGED <<screen, pending, removalRetry, recovery, wizard, busy, bulkCtl, cancelled>>
  /\ UNCHANGED <<ctl, loads, seq, snap, pc, after, starts, alone>>
  /\ UNCHANGED <<rec, conn, target, reported, late, quit>>
BY DEF tuiVars, shell, load, work, conns

LEMMA LoadEndTypes ==
  ASSUME TuiTypeOK, NEW j \in Job, LoadEnds(j)
  PROVE  TuiTypeOK'
<1>1. PICK ok \in BOOLEAN :
        LET e == after[j]
            current == ctl = j
            read == IF ~current \/ e.load = "quiet" THEN screen
                    ELSE IF ok THEN Blank
                    ELSE [by |-> j, phase |-> "failed", acts |-> {"retry", "dismiss"}, owns |-> FALSE]
            kept == Kind[j] = "mutate" /\ ~(ok /\ current)
        IN /\ snap' = (IF ok /\ current THEN seq[j] ELSE snap)
           /\ screen' = (IF kept THEN read ELSE Shown(j, e, read))
           /\ removalRetry' = Offered(j, e)
  BY DEF LoadEnds
<1>2. screen' \in Screen
  <2> DEFINE e == after[j]
             lost == [by |-> j, phase |-> "failed", acts |-> {"retry", "dismiss"}, owns |-> FALSE]
  <2>1. e \in Ending /\ screen \in Screen
    BY DEF TuiTypeOK, Screen
  <2>2. lost \in Screen /\ Blank \in Screen
    BY ScreenTypes DEF Screen, Choice
  <2>3. Shown(j, e, screen) \in Screen /\ Shown(j, e, Blank) \in Screen /\ Shown(j, e, lost) \in Screen
    BY <2>1, <2>2, ScreenTypes
  <2>4. screen' \in {screen, Blank, lost, Shown(j, e, screen), Shown(j, e, Blank), Shown(j, e, lost)}
    <3> HIDE DEF lost
    <3> QED
      BY <1>1 DEF lost
  <2> QED
    BY <2>1, <2>2, <2>3, <2>4
<1>3. snap' \in Nat
  BY <1>1 DEF TuiTypeOK
<1>4. removalRetry' \in Of({"removal"}) \cup {NoOne}
  BY <1>1 DEF TuiTypeOK, Offered, Of
<1>5. pc' \in [Job -> Running \cup {"idle", "shown", "done"}] /\ seq' \in [Job -> Nat]
  BY DEF TuiTypeOK, LoadEnds, Goto
<1>6. after' \in [Job -> Ending]
  <2>1. Left("no") \in Ending
    BY DEF Left, End, Ending
  <2> QED
    BY <2>1 DEF TuiTypeOK, LoadEnds
<1>7. busy' \in BOOLEAN
  BY Zenon DEF LoadEnds
<1>8. /\ UNCHANGED <<pending, recovery, wizard, bulkCtl, cancelled, ctl, loads, starts, alone, quit>>
      /\ UNCHANGED <<rec, conn, target, reported, late>>
  BY DEF LoadEnds, conns
<1>9. {loads', snap', starts'} \subseteq Nat
  BY <1>3, <1>8 DEF TuiTypeOK
<1> QED
  BY <1>2, <1>4, <1>5, <1>6, <1>7, <1>8, <1>9 DEF TuiTypeOK, Screen

LEMMA StartTypes ==
  ASSUME TuiTypeOK, NEW j \in Job, Begin(j), UNCHANGED <<conn, reported, late, quit>>,
         recovery' \in Opener \cup {NoOne},
         rec' \in [Opener -> {"none", "live", "closing", "failed"}],
         target' \in [Of({"retry", "close"}) -> Opener \cup {NoOne}]
  PROVE  TuiTypeOK'
BY BeginTypes DEF TuiTypeOK, Screen

LEMMA WorkEndTypes ==
  ASSUME TuiTypeOK, NEW j \in Job, WorkEnds(j)
  PROVE  TuiTypeOK'
<1>1. PICK ok \in BOOLEAN : \E e \in Ends(j, ok) :
       /\ pending' = [s \in Slot |-> IF s \in Cleared(j, ok) THEN NoOne ELSE pending[s]]
       /\ Records(j, ok)
       /\ recovery' = (IF Kind[j] = "retry" /\ ok THEN NoOne ELSE recovery)
       /\ wizard' = (IF Kind[j] \in {"open", "create"} /\ ok THEN NoOne ELSE wizard)
       /\ bulkCtl' = (IF bulkCtl = j THEN NoOne ELSE bulkCtl) /\ cancelled' = cancelled \ {j}
       /\ IF e.load # "no"
          THEN BeginLoad(j, e) /\ UNCHANGED busy
          ELSE /\ Goto(j, "done") /\ screen' = Shown(j, e, screen)
               /\ busy' = (busy /\ j \notin Busies)
               /\ UNCHANGED <<removalRetry, load, after>>
  BY DEF WorkEnds
<1>2. PICK e \in Ends(j, ok) :
       /\ pending' = [s \in Slot |-> IF s \in Cleared(j, ok) THEN NoOne ELSE pending[s]]
       /\ Records(j, ok)
       /\ recovery' = (IF Kind[j] = "retry" /\ ok THEN NoOne ELSE recovery)
       /\ wizard' = (IF Kind[j] \in {"open", "create"} /\ ok THEN NoOne ELSE wizard)
       /\ bulkCtl' = (IF bulkCtl = j THEN NoOne ELSE bulkCtl) /\ cancelled' = cancelled \ {j}
       /\ IF e.load # "no"
          THEN BeginLoad(j, e) /\ UNCHANGED busy
          ELSE /\ Goto(j, "done") /\ screen' = Shown(j, e, screen)
               /\ busy' = (busy /\ j \notin Busies)
               /\ UNCHANGED <<removalRetry, load, after>>
  BY <1>1
<1>3. e \in Ending
  BY WorksEnd DEF TuiTypeOK, Fits
<1>4. pending' \in [Slot -> Job \cup {NoOne}]
  BY <1>2 DEF TuiTypeOK
<1>5. /\ rec' \in [Opener -> {"none", "live", "closing", "failed"}]
      /\ conn' \in [Opener -> {"none", "up", "down"}]
  <2>1. CASE Kind[j] \in {"open", "retry"} /\ ok
    <3>1. /\ rec' = [o \in Opener |-> IF o = j THEN "live"
                                      ELSE IF Kind[j] = "retry" /\ o = target[j] THEN "none" ELSE rec[o]]
          /\ conn' = [conn EXCEPT ![j] = "up"]
      BY <1>2, <2>1 DEF Records
    <3> QED
      BY <3>1 DEF TuiTypeOK
  <2>2. CASE Kind[j] = "close"
    <3>1. /\ rec' = [rec EXCEPT ![target[j]] = IF @ # "closing" THEN @ ELSE IF ok THEN "none" ELSE "failed"]
          /\ conn' = [conn EXCEPT ![target[j]] = "down"]
      BY <1>2, <2>2 DEF Records
    <3>2. CASE ok
      BY <3>1, <3>2 DEF TuiTypeOK
    <3>3. CASE ~ok
      BY <3>1, <3>3 DEF TuiTypeOK
    <3> QED
      BY <3>2, <3>3
  <2>3. CASE ~(Kind[j] \in {"open", "retry"} /\ ok) /\ Kind[j] # "close"
    <3>1. UNCHANGED <<rec, conn>>
      BY <1>2, <2>3 DEF Records
    <3> QED
      BY <3>1 DEF TuiTypeOK
  <2> QED
    BY <2>1, <2>2, <2>3
<1>6. /\ recovery' \in Opener \cup {NoOne}
      /\ wizard' \in Job \cup {NoOne}
      /\ bulkCtl' \in Of({"bulk"}) \cup {NoOne} /\ cancelled' \subseteq Of({"bulk"})
  BY <1>2 DEF TuiTypeOK
<1>7. target' \in [Of({"retry", "close"}) -> Opener \cup {NoOne}]
  BY DEF TuiTypeOK, WorkEnds
<1>8. UNCHANGED <<starts, alone, reported, late, quit>>
  BY DEF WorkEnds
<1>9. CASE e.load # "no"
  <2>1. BeginLoad(j, e) /\ UNCHANGED busy
    BY <1>2, <1>9
  <2>2. {loads', snap', starts'} \subseteq Nat
    BY <2>1, <1>3, <1>8, BeginLoadTypes DEF TuiTypeOK
  <2> QED
    BY <2>1, <2>2, <1>3, <1>4, <1>5, <1>6, <1>7, <1>8, BeginLoadTypes DEF TuiTypeOK, Screen
<1>10. CASE e.load = "no"
  <2>1. Goto(j, "done") /\ screen' = Shown(j, e, screen) /\ UNCHANGED <<removalRetry, load, after>>
    BY <1>2, <1>10
  <2>2. busy' = (busy /\ j \notin Busies)
    BY <1>2, <1>10
  <2>3. busy' \in BOOLEAN
    BY <2>2, Zenon
  <2>4. screen' \in Screen
    BY <2>1, <1>3, ScreenTypes DEF TuiTypeOK, Screen
  <2>5. pc' \in [Job -> Running \cup {"idle", "shown", "done"}]
    BY <2>1 DEF Goto, TuiTypeOK
  <2>6. UNCHANGED <<removalRetry, ctl, loads, seq, snap, after>>
    BY <2>1 DEF load
  <2> QED
    BY <2>3, <2>4, <2>5, <2>6, <1>4, <1>5, <1>6, <1>7, <1>8 DEF TuiTypeOK, Screen
<1> QED
  BY <1>9, <1>10

LEMMA Asked ==
  ASSUME TuiTypeOK, NEW a, NEW s \in Addressed(a)
  PROVE  s \in Slot /\ pending[s] \in Job
<1> DEFINE order == <<"trust", "stop", "removal", "confirm", "flow", "provider">>
<1>1. PICK i \in 1..6 : s = order[i] /\ pending[order[i]] # NoOne
  BY DEF Addressed
<1>2. s \in Slot
  BY <1>1 DEF Slot
<1> QED
  BY <1>1, <1>2 DEF TuiTypeOK

\* An answer goes to the question s.
AnswerTo(a, s) ==
  /\ pending' = [pending EXCEPT ![s] = NoOne]
  /\ alone' = alone \ {pending[s]}
  /\ removalRetry' = (IF s = "removal" /\ a = "confirm" THEN NoOne ELSE removalRetry)
  /\ UNCHANGED <<recovery, wizard, bulkCtl, cancelled, ctl, loads, seq, snap, after, starts>>
  /\ UNCHANGED <<rec, conn, target, reported, late, quit>>
  /\ \/ screen' = Blank /\ \E q \in {"done", "refused"} : Goto(pending[s], q)
     \/ /\ screen' \in {Working(pending[s], {}), Working(pending[s], {"cancel"})}
        /\ Goto(pending[s], "go")

LEMMA AnswerEffect ==
  ASSUME TuiTypeOK, NEW a \in {"trust", "confirm", "decline"}, Answer(a)
  PROVE  /\ busy' \in BOOLEAN /\ Offers(a)
         /\ \E s \in Slot : pending[s] \in Job /\ AnswerTo(a, s)
<1>1. PICK s \in Addressed(a) :
        LET j == pending[s] IN
        /\ pending' = [pending EXCEPT ![s] = NoOne]
        /\ IF a = "decline"
           THEN /\ screen' = Blank
                /\ Goto(j, IF Kind[j] \in {"review", "stop", "removal", "credential"} THEN "done" ELSE "refused")
                /\ busy' = (busy /\ Kind[j] # "stop")
           ELSE /\ screen' = Working(j, IF Kind[j] = "bulk" THEN {"cancel"} ELSE {})
                /\ Goto(j, "go") /\ UNCHANGED busy
        /\ alone' = alone \ {j}
        /\ removalRetry' = (IF s = "removal" /\ a = "confirm" THEN NoOne ELSE removalRetry)
  BY DEF Answer
<1>2. s \in Slot /\ pending[s] \in Job
  BY Asked
<1>3. Offers(a) /\ UNCHANGED <<recovery, wizard, bulkCtl, cancelled, load, after, starts, conns, quit>>
  BY DEF Answer
<1>4. busy' \in BOOLEAN
  <2>1. busy \in BOOLEAN
    BY DEF TuiTypeOK
  <2>2. busy' = (busy /\ Kind[pending[s]] # "stop") \/ busy' = busy
    BY <1>1, Zenon
  <2> QED
    BY <2>1, <2>2, Zenon
<1>5. \/ screen' = Blank /\ \E q \in {"done", "refused"} : Goto(pending[s], q)
      \/ /\ screen' \in {Working(pending[s], {}), Working(pending[s], {"cancel"})}
         /\ Goto(pending[s], "go")
  <2>1. CASE a = "decline"
    BY <1>1, <2>1
  <2>2. CASE a # "decline"
    BY <1>1, <2>2
  <2> QED
    BY <2>1, <2>2
<1>6. AnswerTo(a, s)
  BY <1>1, <1>3, <1>5 DEF AnswerTo, load, conns
<1> QED
  BY <1>2, <1>3, <1>4, <1>6

LEMMA AnswerTypes ==
  ASSUME TuiTypeOK, NEW a \in {"trust", "confirm", "decline"}, Answer(a)
  PROVE  TuiTypeOK'
<1>1. busy' \in BOOLEAN
  BY AnswerEffect
<1>2. PICK s \in Slot : pending[s] \in Job /\ AnswerTo(a, s)
  BY AnswerEffect
<1>3. screen' \in Screen
  BY <1>2, ScreenTypes DEF AnswerTo
<1>4. pc' \in [Job -> Running \cup {"idle", "shown", "done"}]
  BY <1>2 DEF AnswerTo, Goto, TuiTypeOK, Running
<1>5. pending' \in [Slot -> Job \cup {NoOne}]
  BY <1>2 DEF AnswerTo, TuiTypeOK
<1>6. removalRetry' \in Of({"removal"}) \cup {NoOne} /\ alone' \subseteq Job
  BY <1>2 DEF AnswerTo, TuiTypeOK
<1>7. /\ UNCHANGED <<recovery, wizard, bulkCtl, cancelled, ctl, loads, seq, snap, after, starts>>
      /\ UNCHANGED <<rec, conn, target, reported, late, quit>>
  BY <1>2 DEF AnswerTo
<1> QED
  BY <1>1, <1>3, <1>4, <1>5, <1>6, <1>7 DEF TuiTypeOK, Screen

LEMMA StartsTyped ==
  ASSUME TuiTypeOK, NEW j \in Job,
         \/ Start(j) \/ RetryConnection(j) \/ ReadAgain(j)
         \/ \E o \in Opener : StartRetry(j, o)
  PROVE  TuiTypeOK'
<1>1. CASE Start(j) \/ ReadAgain(j)
  <2>1. Begin(j) /\ UNCHANGED <<recovery, rec, conn, target, reported, late, quit>>
    BY <1>1 DEF Start, ReadAgain, conns
  <2> QED
    BY <2>1, StartTypes DEF TuiTypeOK
<1>2. ASSUME NEW o \in Opener, Kind[j] = "retry", target' = [target EXCEPT ![j] = o], Begin(j),
             UNCHANGED <<recovery, rec, conn, reported, late, quit>>
      PROVE  TuiTypeOK'
  <2>1. target' \in [Of({"retry", "close"}) -> Opener \cup {NoOne}]
    BY <1>2 DEF TuiTypeOK
  <2> QED
    BY <1>2, <2>1, StartTypes DEF TuiTypeOK
<1>3. CASE RetryConnection(j)
  <2>1. recovery \in Opener
    BY <1>3 DEF RetryConnection, TuiTypeOK
  <2> QED
    BY <1>2, <1>3, <2>1 DEF RetryConnection
<1>4. CASE \E o \in Opener : StartRetry(j, o)
  BY <1>2, <1>4 DEF StartRetry
<1> QED
  BY <1>1, <1>3, <1>4

LEMMA CloseTyped ==
  ASSUME TuiTypeOK, NEW j \in Job, NEW o \in Opener, StartClose(j, o)
  PROVE  TuiTypeOK'
<1>1. rec' \in [Opener -> {"none", "live", "closing", "failed"}]
  BY DEF StartClose, CloseRecord, TuiTypeOK
<1>2. target' \in [Of({"retry", "close"}) -> Opener \cup {NoOne}]
  BY DEF StartClose, TuiTypeOK
<1>3. UNCHANGED <<recovery, conn, reported, late, quit>>
  BY DEF StartClose
<1>4. CASE rec[o] = "failed"
  <2>1. /\ starts' = starts + 1 /\ Goto(j, "done") /\ busy' = FALSE
        /\ UNCHANGED <<screen, pending, removalRetry, wizard, bulkCtl, cancelled, ctl, loads, seq, snap>>
        /\ UNCHANGED <<after, alone>>
    BY <1>4 DEF StartClose, load
  <2>2. busy' \in BOOLEAN
    BY <2>1
  <2>3. pc' \in [Job -> Running \cup {"idle", "shown", "done"}]
    BY <2>1 DEF TuiTypeOK, Goto
  <2>4. {loads', snap', starts'} \subseteq Nat
    BY <2>1 DEF TuiTypeOK
  <2>5. UNCHANGED <<screen, pending, removalRetry, wizard, bulkCtl, cancelled, ctl, seq, after, alone>>
    BY <2>1
  <2> QED
    BY <1>1, <1>2, <1>3, <2>2, <2>3, <2>4, <2>5 DEF TuiTypeOK
<1>5. CASE rec[o] # "failed"
  <2>1. Begin(j)
    BY <1>5 DEF StartClose
  <2>2. recovery' \in Opener \cup {NoOne}
    BY <1>3 DEF TuiTypeOK
  <2> QED
    BY <2>1, <2>2, <1>1, <1>2, <1>3, StartTypes
<1> QED
  BY <1>4, <1>5

LEMMA JobTyped ==
  ASSUME TuiTypeOK, NEW j \in Job,
         Ask(j) \/ Progress(j) \/ FlowScreen(j) \/ FlowEvent(j)
  PROVE  TuiTypeOK'
<1> USE DEF shell, load, work, conns
<1>1. CASE Ask(j)
  <2>1. screen' \in Screen
    BY <1>1, ScreenTypes DEF Ask, TuiTypeOK, Screen
  <2>2. pc' \in [Job -> Running \cup {"idle", "shown", "done"}]
    BY <1>1 DEF Ask, Goto, TuiTypeOK, Running
  <2>3. pending' \in [Slot -> Job \cup {NoOne}] /\ alone' \subseteq Job
    BY <1>1 DEF Ask, Asking, TuiTypeOK
  <2> QED
    BY <1>1, <2>1, <2>2, <2>3 DEF Ask, TuiTypeOK, Screen
<1>2. CASE Progress(j)
  <2>1. screen' \in Screen
    BY <1>2, ScreenTypes DEF Progress
  <2> QED
    BY <1>2, <2>1 DEF Progress, TuiTypeOK, Screen
<1>3. CASE FlowScreen(j)
  <2>1. screen' \in Screen
    BY <1>3, ScreenTypes DEF FlowScreen
  <2>2. pc' \in [Job -> Running \cup {"idle", "shown", "done"}]
    BY <1>3 DEF FlowScreen, Goto, TuiTypeOK
  <2> QED
    BY <1>3, <2>1, <2>2 DEF FlowScreen, TuiTypeOK, Screen
<1>4. CASE FlowEvent(j)
  <2>1. screen' \in Screen
    BY <1>4, ScreenTypes DEF FlowEvent
  <2>2. pc' \in [Job -> Running \cup {"idle", "shown", "done"}]
    BY <1>4 DEF FlowEvent, Goto, TuiTypeOK, Running
  <2>3. pending' \in [Slot -> Job \cup {NoOne}]
    BY <1>4 DEF FlowEvent, TuiTypeOK
  <2> QED
    BY <1>4, <2>1, <2>2, <2>3 DEF FlowEvent, TuiTypeOK, Screen
<1> QED
  BY <1>1, <1>2, <1>3, <1>4

LEMMA KeyTyped ==
  ASSUME TuiTypeOK, LeaveWizard \/ Cancel \/ RetryRemoval \/ Dismiss
  PROVE  TuiTypeOK'
<1> USE DEF shell, load, work, conns
<1>1. CASE LeaveWizard
  BY <1>1 DEF LeaveWizard, TuiTypeOK
<1>2. CASE Cancel
  <2>1. bulkCtl # NoOne => bulkCtl \in Of({"bulk"}) /\ bulkCtl \in Job
    BY DEF TuiTypeOK, Of
  <2>2. screen' \in Screen /\ ctl' \in Job \cup {NoOne} /\ cancelled' \subseteq Of({"bulk"})
    BY <1>2, <2>1, ScreenTypes DEF Cancel, TuiTypeOK
  <2> QED
    BY <1>2, <2>2 DEF Cancel, TuiTypeOK, Screen
<1>3. CASE RetryRemoval
  <2>1. removalRetry \in Job
    BY <1>3 DEF RetryRemoval, TuiTypeOK, Of
  <2>2. screen' \in Screen
    BY <1>3, <2>1, ScreenTypes DEF RetryRemoval
  <2>3. pc' \in [Job -> Running \cup {"idle", "shown", "done"}]
    BY <1>3, <2>1 DEF RetryRemoval, Goto, TuiTypeOK, Running
  <2>4. {loads', snap', starts'} \subseteq Nat
    BY <1>3 DEF RetryRemoval, TuiTypeOK
  <2> QED
    BY <1>3, <2>2, <2>3, <2>4 DEF RetryRemoval, TuiTypeOK, Screen
<1>4. CASE Dismiss
  <2>1. screen' \in Screen
    BY <1>4, ScreenTypes DEF Dismiss
  <2>2. rec' \in [Opener -> {"none", "live", "closing", "failed"}]
    BY <1>4 DEF Dismiss, TuiTypeOK
  <2>3. pending' \in [Slot -> Job \cup {NoOne}]
    BY <1>4 DEF Dismiss, TuiTypeOK
  <2> QED
    BY <1>4, <2>1, <2>2, <2>3 DEF Dismiss, TuiTypeOK, Screen
<1> QED
  BY <1>1, <1>2, <1>3, <1>4

LEMMA ConnectionTyped ==
  ASSUME TuiTypeOK, NEW o \in Opener, SessionEnds(o) \/ Report(o)
  PROVE  TuiTypeOK'
<1> USE DEF shell, load, work, conns
<1>1. CASE SessionEnds(o)
  BY <1>1 DEF SessionEnds, TuiTypeOK
<1>2. CASE Report(o)
  <2>1. \A acts \in {{}, {"retry"}, {"edit", "retry"}} :
          Shown(o, InViewport(Failed("no", acts \cup {"diagnostics"})), Blank) \in Screen
    <3>1. ASSUME NEW acts \in {{}, {"retry"}, {"edit", "retry"}}
          PROVE  Shown(o, InViewport(Failed("no", acts \cup {"diagnostics"})), Blank) \in Screen
      <4>1. Fits(InViewport(Failed("no", acts \cup {"diagnostics"})))
        BY EndsFit DEF Choice
      <4>2. o \in Job
        BY DEF Opener, Of
      <4> QED
        BY <4>1, <4>2, ScreenTypes DEF Fits
    <3> QED
      BY <3>1
  <2>2. screen' \in Screen
    BY <1>2, <2>1 DEF Report
  <2>3. /\ UNCHANGED <<pending, removalRetry, wizard, ctl, bulkCtl, cancelled, loads, seq, snap>>
        /\ UNCHANGED <<pc, after, starts, alone, rec, conn, target, late, quit>> /\ busy' = busy
    BY <1>2 DEF Report
  <2>4. reported' \subseteq Opener /\ recovery' \in Opener \cup {NoOne}
    BY <1>2 DEF Report, TuiTypeOK
  <2> QED
    BY <2>2, <2>3, <2>4 DEF TuiTypeOK, Screen
<1> QED
  BY <1>1, <1>2

LEMMA ExitTyped ==
  ASSUME TuiTypeOK, RequestExit \/ ExitFromFlow \/ Unmounted \/ ExitCloses
  PROVE  TuiTypeOK'
<1> USE DEF shell, load, work, conns
<1>1. CASE RequestExit
  <2>1. screen' \in Screen
    BY <1>1, ScreenTypes DEF RequestExit, TuiTypeOK, Screen
  <2>2. /\ rec' \in [Opener -> {"none", "live", "closing", "failed"}] /\ alone' \subseteq Job
        /\ quit' \in [pc : {"no", "closing", "exited"}, set : SUBSET Opener]
    BY <1>1 DEF RequestExit, TuiTypeOK, Owned
  <2> QED
    BY <1>1, <2>1, <2>2 DEF RequestExit, TuiTypeOK, Screen
<1>2. CASE ExitFromFlow
  BY <1>2 DEF ExitFromFlow, TuiTypeOK, Owned
<1>3. CASE Unmounted
  BY <1>3 DEF Unmounted, TuiTypeOK
<1>4. CASE ExitCloses
  <2>1. screen' \in Screen
    <3>1. Failed("no", {}) \in Ending
      BY EndsFit DEF Fits
    <3>2. Shown(NoOne, Failed("no", {}), Blank) \in Screen /\ screen \in Screen
      BY <3>1, ScreenTypes DEF TuiTypeOK, Screen
    <3> QED
      BY <1>4, <3>2 DEF ExitCloses
  <2>2. /\ rec' \in [Opener -> {"none", "live", "closing", "failed"}]
        /\ conn' \in [Opener -> {"none", "up", "down"}]
        /\ late' \subseteq Opener
        /\ quit' \in [pc : {"no", "closing", "exited"}, set : SUBSET Opener]
    BY <1>4 DEF ExitCloses, TuiTypeOK, Owned
  <2> QED
    BY <1>4, <2>1, <2>2 DEF ExitCloses, TuiTypeOK, Screen
<1> QED
  BY <1>1, <1>2, <1>3, <1>4

LEMMA TuiTypesStep == TuiTypeOK /\ [TuiNext]_tuiVars => TuiTypeOK'
<1> SUFFICES ASSUME TuiTypeOK, [TuiNext]_tuiVars PROVE TuiTypeOK'
  OBVIOUS
<1>1. CASE UNCHANGED tuiVars
  BY <1>1, Same DEF TuiTypeOK
<1>2. ASSUME NEW j \in Job,
             \/ Start(j) \/ RetryConnection(j) \/ ReadAgain(j)
             \/ \E o \in Opener : StartRetry(j, o)
      PROVE  TuiTypeOK'
  BY <1>2, StartsTyped
<1>3. ASSUME NEW j \in Job, Ask(j) \/ Progress(j) \/ FlowScreen(j) \/ FlowEvent(j)
      PROVE  TuiTypeOK'
  BY <1>3, JobTyped
<1>4. ASSUME NEW j \in Job, WorkEnds(j)
      PROVE  TuiTypeOK'
  BY <1>4, WorkEndTypes
<1>5. ASSUME NEW j \in Job, LoadEnds(j)
      PROVE  TuiTypeOK'
  BY <1>5, LoadEndTypes
<1>6. ASSUME NEW j \in Job, NEW o \in Opener, StartClose(j, o)
      PROVE  TuiTypeOK'
  BY <1>6, CloseTyped
<1>7. ASSUME NEW a \in {"trust", "confirm", "decline"}, Answer(a)
      PROVE  TuiTypeOK'
  BY <1>7, AnswerTypes
<1>8. CASE LeaveWizard \/ Cancel \/ RetryRemoval \/ Dismiss
  BY <1>8, KeyTyped
<1>9. CASE RequestExit \/ ExitFromFlow \/ Unmounted \/ ExitCloses
  BY <1>9, ExitTyped
<1>10. ASSUME NEW o \in Opener, SessionEnds(o) \/ Report(o)
       PROVE  TuiTypeOK'
  BY <1>10, ConnectionTyped
<1> QED
  BY <1>1, <1>2, <1>3, <1>4, <1>5, <1>6, <1>7, <1>8, <1>9, <1>10, Zenon DEF TuiNext

(***************************************************************************)
(* What a step does to the screen, the questions and the jobs              *)
(***************************************************************************)
\* Nothing is under way on it.
Settled(s) == s.phase \in {"none", "done", "failed"} /\ "cancel" \notin s.acts

\* What the job of a load does after it is known.
TuiQuiet ==
  \A j \in Job : pc[j] = "load" =>
    /\ Fits(after[j]) /\ after[j].load # "no"
    /\ after[j].load = "quiet" => Kind[j] # "mutate"

LEMMA ShownSettles ==
  /\ Settled(Blank)
  /\ \A j, s, e : Fits(e) /\ e.phase # "leave" => Settled(Shown(j, e, s))
  /\ \A j, s, e : e.phase = "leave" => Shown(j, e, s) = s
<1>1. Settled(Blank)
  BY DEF Settled, Blank
<1>2. ASSUME NEW j, NEW s, NEW e, Fits(e), e.phase # "leave"
      PROVE  Settled(Shown(j, e, s))
  <2>1. CASE e.phase = "none"
    <3>1. Shown(j, e, s) = Blank
      BY <2>1 DEF Shown
    <3> QED
      BY <3>1, <1>1
  <2>2. CASE e.phase \in {"done", "failed"}
    <3>1. Shown(j, e, s) = [by |-> j, phase |-> e.phase, acts |-> e.acts, owns |-> e.owns]
      BY <2>2 DEF Shown
    <3>2. "cancel" \notin e.acts
      BY <1>2 DEF Fits, Ending, Choice
    <3> QED
      BY <3>1, <3>2, <2>2 DEF Settled
  <2> QED
    BY <2>1, <2>2, <1>2 DEF Fits, Ending
<1>3. ASSUME NEW j, NEW s, NEW e, e.phase = "leave"
      PROVE  Shown(j, e, s) = s
  BY <1>3 DEF Shown
<1> QED
  BY <1>1, <1>2, <1>3

\* A load ends: the screen is settled, unless a later one has taken over.
LoadEffect(j) ==
  /\ pc[j] = "load" /\ Goto(j, "done") /\ after' = [after EXCEPT ![j] = Left("no")]
  /\ seq' = [seq EXCEPT ![j] = 0]
  /\ snap' = snap \/ (ctl = j /\ snap' = seq[j])
  /\ removalRetry' = removalRetry \/ (Kind[j] = "removal" /\ removalRetry' = j)
  /\ Settled(screen') \/ (screen' = screen /\ ctl # j)
  /\ UNCHANGED <<pending, recovery, wizard, bulkCtl, cancelled, ctl, loads, starts, alone>>
  /\ UNCHANGED <<rec, conn, target, reported, late, quit>>

LEMMA LoadsEnd ==
  ASSUME TuiTypeOK, TuiQuiet, NEW j \in Job, LoadEnds(j)
  PROVE  LoadEffect(j) /\ quit.pc # "exited"
<1>1. PICK ok \in BOOLEAN :
        LET e == after[j]
            current == ctl = j
            read == IF ~current \/ e.load = "quiet" THEN screen
                    ELSE IF ok THEN Blank
                    ELSE [by |-> j, phase |-> "failed", acts |-> {"retry", "dismiss"}, owns |-> FALSE]
            kept == Kind[j] = "mutate" /\ ~(ok /\ current)
        IN /\ snap' = (IF ok /\ current THEN seq[j] ELSE snap)
           /\ screen' = (IF kept THEN read ELSE Shown(j, e, read))
           /\ removalRetry' = Offered(j, e)
  BY DEF LoadEnds
<1>2. pc[j] = "load" /\ Goto(j, "done") /\ after' = [after EXCEPT ![j] = Left("no")]
      /\ seq' = [seq EXCEPT ![j] = 0]
  BY DEF LoadEnds
<1>3. snap' = snap \/ (ctl = j /\ snap' = seq[j])
  BY <1>1
<1>4. removalRetry' = removalRetry \/ (Kind[j] = "removal" /\ removalRetry' = j)
  BY <1>1 DEF Offered
<1>5. /\ UNCHANGED <<pending, recovery, wizard, bulkCtl, cancelled, ctl, loads, starts, alone>>
      /\ UNCHANGED <<rec, conn, target, reported, late, quit>> /\ quit.pc # "exited"
  BY DEF LoadEnds, conns
<1>6. Settled(screen') \/ (screen' = screen /\ ctl # j)
  <2> DEFINE e == after[j]
             lost == [by |-> j, phase |-> "failed", acts |-> {"retry", "dismiss"}, owns |-> FALSE]
  <2>1. Fits(e) /\ (e.load = "quiet" => Kind[j] # "mutate" /\ e.phase # "leave")
    BY <1>2 DEF TuiQuiet, Fits
  <2>2. Settled(lost) /\ Settled(Blank)
    BY ShownSettles DEF Settled
  <2>3. CASE ctl = j /\ e.load = "quiet"
    <3>1. screen' = Shown(j, e, screen)
      BY <1>1, <2>1, <2>3
    <3> QED
      BY <3>1, <2>1, <2>3, ShownSettles
  <2>4. CASE ctl = j /\ e.load # "quiet"
    <3> HIDE DEF lost
    <3>1. screen' \in {Blank, lost, Shown(j, e, Blank), Shown(j, e, lost)}
      BY <1>1, <2>4 DEF lost
    <3>2. CASE e.phase = "leave"
      BY <3>1, <3>2, <2>2, ShownSettles
    <3>3. CASE e.phase # "leave"
      BY <3>1, <3>3, <2>1, <2>2, ShownSettles
    <3> QED
      BY <3>2, <3>3
  <2>5. CASE ctl # j
    <3>1. screen' \in {screen, Shown(j, e, screen)}
      BY <1>1, <2>5
    <3>2. CASE e.phase = "leave"
      BY <3>1, <3>2, <2>5, ShownSettles
    <3>3. CASE e.phase # "leave"
      BY <3>1, <3>3, <2>1, <2>5, ShownSettles
    <3> QED
      BY <3>2, <3>3
  <2> QED
    BY <2>3, <2>4, <2>5
<1> QED
  BY <1>2, <1>3, <1>4, <1>5, <1>6 DEF LoadEffect

\* The work of a job ends: its result is on the screen, or a load begins, and what
\* forgets a question shows something else.
WorkEffect(j) ==
  /\ pc[j] \in {"opening", "run", "go", "refused"}
  /\ \A s \in Slot : pending'[s] \in {NoOne, pending[s]}
  /\ \/ /\ Goto(j, "done") /\ Settled(screen')
        /\ UNCHANGED <<removalRetry, ctl, loads, seq, snap, after>>
     \/ /\ \E e : Fits(e) /\ e.load # "no" /\ (e.load = "quiet" => Kind[j] # "mutate") /\ BeginLoad(j, e)
        /\ screen' = Working(j, {"cancel"}) \/ (screen' = screen /\ pending' = pending)
  /\ UNCHANGED <<alone, quit>>

LEMMA WorksEndSo ==
  ASSUME TuiTypeOK, NEW j \in Job, WorkEnds(j)
  PROVE  WorkEffect(j) /\ quit.pc # "exited"
<1>1. PICK ok \in BOOLEAN : \E e \in Ends(j, ok) :
       /\ pending' = [s \in Slot |-> IF s \in Cleared(j, ok) THEN NoOne ELSE pending[s]]
       /\ IF e.load # "no"
          THEN BeginLoad(j, e)
          ELSE /\ Goto(j, "done") /\ screen' = Shown(j, e, screen)
               /\ UNCHANGED <<removalRetry, load, after>>
  BY DEF WorkEnds
<1>2. PICK e \in Ends(j, ok) :
       /\ pending' = [s \in Slot |-> IF s \in Cleared(j, ok) THEN NoOne ELSE pending[s]]
       /\ IF e.load # "no"
          THEN BeginLoad(j, e)
          ELSE /\ Goto(j, "done") /\ screen' = Shown(j, e, screen)
               /\ UNCHANGED <<removalRetry, load, after>>
  BY <1>1
<1>3. /\ Fits(e)
      /\ Kind[j] = "mutate" => e.load # "quiet"
      /\ Cleared(j, ok) # {} => e.load # "quiet"
  BY WorksEnd DEF TuiTypeOK, Loud
<1>4. pc[j] \in {"opening", "run", "go", "refused"} /\ UNCHANGED <<alone, quit>> /\ quit.pc # "exited"
  BY DEF WorkEnds
<1>5. \A s \in Slot : pending'[s] \in {NoOne, pending[s]}
  BY <1>2
<1>6. CASE e.load = "no"
  <2>1. Goto(j, "done") /\ screen' = Shown(j, e, screen) /\ UNCHANGED <<removalRetry, load, after>>
    BY <1>2, <1>6
  <2>2. Settled(screen')
    BY <1>3, <1>6, <2>1, ShownSettles DEF Fits
  <2> QED
    BY <1>4, <1>5, <2>1, <2>2 DEF WorkEffect, load
<1>7. CASE e.load # "no"
  <2>1. BeginLoad(j, e)
    BY <1>2, <1>7
  <2>2. CASE e.load = "loud"
    <3>1. screen' = Working(j, {"cancel"})
      BY <2>1, <2>2 DEF BeginLoad
    <3> QED
      BY <1>3, <1>4, <1>5, <1>7, <2>1, <3>1 DEF WorkEffect
  <2>3. CASE e.load = "quiet"
    <3>1. screen' = screen
      BY <2>1, <2>3 DEF BeginLoad
    <3>2. Cleared(j, ok) = {}
      BY <1>3, <2>3
    <3>3. pending' = pending
      BY <1>2, <3>2 DEF TuiTypeOK
    <3> QED
      BY <1>3, <1>4, <1>5, <1>7, <2>1, <3>1, <3>3 DEF WorkEffect
  <2> QED
    BY <1>3, <1>7, <2>2, <2>3 DEF Fits, Ending
<1> QED
  BY <1>6, <1>7

\* No question has the screen.
NoPrompt == \A k \in Job : screen # Prompt(k)

still == <<ctl, loads, seq, snap, after>>

BeginEffect(j) ==
  /\ pc[j] = "idle" /\ NoPrompt /\ UNCHANGED quit
  /\ \/ BeginLoad(j, Left("loud")) /\ UNCHANGED <<pending, alone>>
     \/ /\ H(j).slot \in Slot /\ Goto(j, "asked") /\ screen' = Prompt(j) /\ Asking(j)
        /\ pending' = [pending EXCEPT ![H(j).slot] = j] /\ UNCHANGED <<still, removalRetry>>
     \/ /\ \E q \in {"opening", "run"} : Goto(j, q)
        /\ screen' \in {screen, Working(j, {}), Working(j, {"cancel"})}
        /\ UNCHANGED <<pending, alone, still, removalRetry>>
     \/ Goto(j, "done") /\ UNCHANGED <<screen, pending, alone, still, removalRetry>>

AskEffect(j) ==
  /\ pc[j] = "run" /\ H(j).slot \in Slot /\ UNCHANGED <<still, removalRetry, quit>>
  /\ \/ Goto(j, "refused") /\ UNCHANGED <<pending, screen, alone>>
     \/ /\ Goto(j, "asked") /\ Asking(j) /\ screen' = Prompt(j)
        /\ pending' = [pending EXCEPT ![H(j).slot] = j]

ProgressEffect(j) ==
  /\ pc[j] \in {"run", "go"} /\ screen' \in {Working(j, {}), Working(j, {"cancel"})}
  /\ UNCHANGED <<pending, removalRetry, still, pc, alone, quit>>

FlowEffect(j) ==
  /\ UNCHANGED <<removalRetry, still, alone, quit>>
  /\ \/ pc[j] \in {"opening", "run", "go"} /\ Goto(j, "shown") /\ screen' = Blank /\ UNCHANGED pending
     \/ /\ pc[j] = "shown" /\ NoPrompt
        /\ \/ Goto(j, "run") /\ screen' = Working(j, {}) /\ UNCHANGED pending
           \/ Goto(j, "done") /\ screen' = Blank /\ pending' = [pending EXCEPT !["flow"] = NoOne]

CancelEffect ==
  /\ "cancel" \in screen.acts /\ NoPrompt
  /\ UNCHANGED <<pending, removalRetry, loads, seq, snap, after, pc, alone, quit>>
  /\ \/ \E j \in Job : screen' = Working(j, {}) /\ UNCHANGED ctl
     \/ screen' = Blank /\ ctl' = NoOne

RetryEffect ==
  /\ NoPrompt /\ removalRetry \in Job /\ Goto(removalRetry, "go")
  /\ screen' = Working(removalRetry, {}) /\ removalRetry' = NoOne
  /\ UNCHANGED <<pending, still, alone, quit>>

\* The screen is replaced, and what waited on it is forgotten.
DismissEffect ==
  /\ NoPrompt /\ screen' = Blank /\ removalRetry' = NoOne
  /\ pending' = [s \in Slot |-> IF s = "flow" THEN pending[s] ELSE NoOne]
  /\ UNCHANGED <<still, pc, alone, quit>>

ReportEffect ==
  NoPrompt /\ Settled(screen') /\ UNCHANGED <<pending, removalRetry, still, pc, alone, quit>>

ExitEffect ==
  /\ UNCHANGED <<pending, removalRetry, still, pc>>
  /\ \/ quit'.pc = "exited" /\ UNCHANGED <<screen, alone>>
     \/ quit'.pc = "closing" /\ alone' = {} /\ screen' = Working(NoOne, {})
     \/ quit.pc = "closing" /\ quit'.pc = "no" /\ Settled(screen') /\ UNCHANGED alone

NoEffect == UNCHANGED <<screen, pending, removalRetry, still, pc, alone, quit>>

LEMMA Prompts ==
  ASSUME NEW j \in Job
  PROVE  /\ Prompt(j).by = j /\ Prompt(j).phase = "ask" /\ Prompt(j).owns
         /\ Prompt(j).acts \cap (Choice \cup {"cancel"}) = {} /\ Prompt(j).acts # {}
<1>1. /\ Prompt(j).by = j /\ Prompt(j).phase = "ask" /\ Prompt(j).owns = TRUE
      /\ Prompt(j).acts = {IF H(j).slot = "trust" THEN "trust" ELSE "confirm", "decline"}
  BY DEF Prompt
<1>2. Prompt(j).owns
  BY <1>1, Zenon
<1> QED
  BY <1>1, <1>2 DEF Choice

LEMMA NoPrompts ==
  /\ ShellKey => NoPrompt
  /\ WizardKey => NoPrompt
  /\ screen.acts \cap (Choice \cup {"cancel"}) # {} => NoPrompt
  /\ screen.phase # "ask" => NoPrompt
<1>1. ShellKey => ~screen.owns
  BY Zenon DEF ShellKey
<1>2. WizardKey => ~screen.owns
  BY Zenon DEF WizardKey
<1>3. ~screen.owns => NoPrompt
  <2> SUFFICES ASSUME ~screen.owns, NEW k \in Job, screen = Prompt(k) PROVE FALSE
    BY Zenon DEF NoPrompt
  <2>1. Prompt(k).owns
    BY Prompts, Zenon
  <2> QED
    BY <2>1, Zenon
<1>4. screen.acts \cap (Choice \cup {"cancel"}) # {} => NoPrompt
  BY Prompts DEF NoPrompt
<1>5. screen.phase # "ask" => NoPrompt
  BY Prompts DEF NoPrompt
<1> QED
  BY <1>1, <1>2, <1>3, <1>4, <1>5

LEMMA Begins ==
  ASSUME NEW j \in Job, Begin(j), pc[j] = "idle", NoPrompt, UNCHANGED quit
  PROVE  BeginEffect(j)
<1>1. CASE H(j).begin = "load"
  <2>1. BeginLoad(j, Left("loud")) /\ UNCHANGED <<pending, alone>>
    BY <1>1 DEF Begin
  <2> QED
    BY <2>1 DEF BeginEffect
<1>2. CASE H(j).begin = "prompt"
  <2>1. H(j).slot \in Slot
    BY <1>2, Table DEF Sound
  <2>2. /\ Goto(j, "asked") /\ screen' = Prompt(j) /\ Asking(j)
        /\ pending' = [pending EXCEPT ![H(j).slot] = j] /\ UNCHANGED <<still, removalRetry>>
    BY <1>2 DEF Begin, load, still
  <2> QED
    BY <2>1, <2>2 DEF BeginEffect
<1>3. CASE H(j).begin \in {"none", "working", "cancellable"}
  <2>1. \E q \in {"opening", "run"} : Goto(j, q)
    BY <1>3 DEF Begin
  <2>2. screen' \in {screen, Working(j, {}), Working(j, {"cancel"})}
    BY <1>3 DEF Begin
  <2>3. UNCHANGED <<pending, alone, still, removalRetry>>
    BY <1>3 DEF Begin, load, still
  <2> QED
    BY <2>1, <2>2, <2>3 DEF BeginEffect
<1> QED
  BY <1>1, <1>2, <1>3, Table DEF Sound

\* The step of a job, by its effect.
JobEffect(j) ==
  \/ BeginEffect(j) \/ AskEffect(j) \/ ProgressEffect(j) \/ WorkEffect(j) \/ LoadEffect(j)
  \/ FlowEffect(j)

LEMMA JobSteps ==
  ASSUME TuiTypeOK, TuiQuiet, NEW j \in Job,
         \/ Start(j) \/ Ask(j) \/ Progress(j) \/ WorkEnds(j) \/ LoadEnds(j)
         \/ FlowScreen(j) \/ FlowEvent(j) \/ RetryConnection(j) \/ ReadAgain(j)
         \/ \E o \in Opener : StartClose(j, o) \/ StartRetry(j, o)
  PROVE  JobEffect(j)
<1>1. CASE Start(j)
  <2>1. pc[j] = "idle" /\ Begin(j) /\ UNCHANGED quit
    BY <1>1 DEF Start
  <2>2. ShellKey \/ WizardKey
    BY <1>1 DEF Start, RefreshKey, Menu
  <2> QED
    BY <2>1, <2>2, NoPrompts, Begins DEF JobEffect
<1>2. CASE Ask(j)
  <2>1. H(j).slot \in Slot
    BY <1>2, Table DEF Sound, Ask
  <2>2. AskEffect(j)
    BY <1>2, <2>1 DEF Ask, AskEffect, load, still
  <2> QED
    BY <2>2 DEF JobEffect
<1>3. CASE Progress(j)
  <2>1. ProgressEffect(j)
    BY <1>3 DEF Progress, ProgressEffect, load, work, still
  <2> QED
    BY <2>1 DEF JobEffect
<1>4. CASE WorkEnds(j)
  BY <1>4, WorksEndSo DEF JobEffect
<1>5. CASE LoadEnds(j)
  BY <1>5, LoadsEnd DEF JobEffect
<1>6. CASE FlowScreen(j)
  <2>1. FlowEffect(j)
    BY <1>6 DEF FlowScreen, FlowEffect, load, still
  <2> QED
    BY <2>1 DEF JobEffect
<1>7. CASE FlowEvent(j)
  <2>1. NoPrompt
    BY <1>7, NoPrompts DEF FlowEvent
  <2>2. FlowEffect(j)
    BY <1>7, <2>1 DEF FlowEvent, FlowEffect, load, still
  <2> QED
    BY <2>2 DEF JobEffect
<1>8. CASE RetryConnection(j) \/ ReadAgain(j)
  <2>1. pc[j] = "idle" /\ Begin(j) /\ UNCHANGED quit
    BY <1>8 DEF RetryConnection, ReadAgain
  <2>2. "retry" \in screen.acts \/ "observe" \in screen.acts
    BY <1>8 DEF RetryConnection, ReadAgain, Offers
  <2>3. NoPrompt
    BY <2>2, NoPrompts DEF Choice
  <2> QED
    BY <2>1, <2>3, Begins DEF JobEffect
<1>9. ASSUME NEW o \in Opener, StartRetry(j, o)
      PROVE  JobEffect(j)
  <2>1. pc[j] = "idle" /\ Begin(j) /\ UNCHANGED quit /\ ShellKey
    BY <1>9 DEF StartRetry, Menu
  <2> QED
    BY <2>1, NoPrompts, Begins DEF JobEffect
<1>10. ASSUME NEW o \in Opener, StartClose(j, o)
       PROVE  JobEffect(j)
  <2>1. pc[j] = "idle" /\ UNCHANGED quit /\ ShellKey
    BY <1>10 DEF StartClose, Menu
  <2>2. CASE rec[o] = "failed"
    <3>1. Goto(j, "done") /\ UNCHANGED <<screen, pending, alone, still, removalRetry>>
      BY <1>10, <2>2 DEF StartClose, load, still
    <3> QED
      BY <2>1, <3>1, NoPrompts DEF JobEffect, BeginEffect
  <2>3. CASE rec[o] # "failed"
    <3>1. Begin(j)
      BY <1>10, <2>3 DEF StartClose
    <3> QED
      BY <2>1, <3>1, NoPrompts, Begins DEF JobEffect
  <2> QED
    BY <2>2, <2>3
<1> QED
  BY <1>1, <1>2, <1>3, <1>4, <1>5, <1>6, <1>7, <1>8, <1>9, <1>10

\* The step of a key, of a session or of the exit.
KeyEffect ==
  \/ \E a \in {"trust", "confirm", "decline"}, s \in Slot : pending[s] \in Job /\ AnswerTo(a, s)
  \/ CancelEffect \/ RetryEffect \/ DismissEffect \/ ReportEffect \/ ExitEffect \/ NoEffect

LEMMA KeySteps ==
  ASSUME TuiTypeOK,
         \/ \E a \in {"trust", "confirm", "decline"} : Answer(a)
         \/ LeaveWizard \/ Cancel \/ RetryRemoval \/ Dismiss
         \/ RequestExit \/ ExitCloses \/ ExitFromFlow \/ Unmounted
         \/ \E o \in Opener : SessionEnds(o) \/ Report(o)
         \/ UNCHANGED tuiVars
  PROVE  KeyEffect
<1>1. ASSUME NEW a \in {"trust", "confirm", "decline"}, Answer(a)
      PROVE  KeyEffect
  BY <1>1, AnswerEffect DEF KeyEffect
<1>2. CASE LeaveWizard
  BY <1>2 DEF LeaveWizard, KeyEffect, NoEffect, load, work, still
<1>3. CASE Cancel
  <2>1. NoPrompt
    BY <1>3, NoPrompts DEF Cancel, Offers
  <2>2. bulkCtl # NoOne => bulkCtl \in Job
    BY DEF TuiTypeOK, Of
  <2>3. CancelEffect
    BY <1>3, <2>1, <2>2 DEF Cancel, Offers, CancelEffect, work
  <2> QED
    BY <2>3 DEF KeyEffect
<1>4. CASE RetryRemoval
  <2>1. NoPrompt
    BY <1>4, NoPrompts DEF RetryRemoval, Offers, Choice
  <2>2. removalRetry \in Job
    BY <1>4 DEF RetryRemoval, TuiTypeOK, Of
  <2>3. RetryEffect
    BY <1>4, <2>1, <2>2 DEF RetryRemoval, RetryEffect, load, still
  <2> QED
    BY <2>3 DEF KeyEffect
<1>5. CASE Dismiss
  <2>1. NoPrompt
    BY <1>5, NoPrompts DEF Dismiss, Offers, Choice
  <2>2. DismissEffect
    BY <1>5, <2>1 DEF Dismiss, DismissEffect, load, work, still
  <2> QED
    BY <2>2 DEF KeyEffect
<1>6. CASE RequestExit
  <2>1. UNCHANGED <<pending, removalRetry, still, pc>>
    BY <1>6 DEF RequestExit, load, still
  <2>2. \/ quit'.pc = "exited" /\ UNCHANGED <<screen, alone>>
        \/ quit'.pc = "closing" /\ alone' = {} /\ screen' = Working(NoOne, {})
    BY <1>6 DEF RequestExit
  <2> QED
    BY <2>1, <2>2 DEF KeyEffect, ExitEffect
<1>7. CASE ExitCloses
  <2>1. UNCHANGED <<pending, removalRetry, still, pc, alone>>
    BY <1>7 DEF ExitCloses, load, work, still
  <2>2. Settled(Shown(NoOne, Failed("no", {}), Blank))
    <3>1. Fits(Failed("no", {})) /\ Failed("no", {}).phase # "leave"
      BY EndsFit DEF Failed, End
    <3> QED
      BY <3>1, ShownSettles
  <2>3. \/ quit'.pc = "exited" /\ UNCHANGED screen
        \/ quit.pc = "closing" /\ quit'.pc = "no" /\ Settled(screen')
    BY <1>7, <2>2 DEF ExitCloses
  <2> QED
    BY <2>1, <2>3 DEF KeyEffect, ExitEffect
<1>8. CASE ExitFromFlow
  BY <1>8 DEF ExitFromFlow, KeyEffect, ExitEffect, load, work, still
<1>9. CASE Unmounted
  <2>1. quit'.pc = "exited"
    BY <1>9 DEF Unmounted, TuiTypeOK
  <2> QED
    BY <1>9, <2>1 DEF Unmounted, KeyEffect, ExitEffect, load, work, still
<1>10. ASSUME NEW o \in Opener, SessionEnds(o)
       PROVE  KeyEffect
  BY <1>10 DEF SessionEnds, KeyEffect, NoEffect, load, work, still
<1>11. ASSUME NEW o \in Opener, Report(o)
       PROVE  KeyEffect
  <2>1. NoPrompt
    BY <1>11, NoPrompts DEF Report
  <2>2. \A acts \in {{}, {"retry"}, {"edit", "retry"}} :
          Settled(Shown(o, InViewport(Failed("no", acts \cup {"diagnostics"})), Blank))
    <3>1. ASSUME NEW acts \in {{}, {"retry"}, {"edit", "retry"}}
          PROVE  Settled(Shown(o, InViewport(Failed("no", acts \cup {"diagnostics"})), Blank))
      <4>1. Fits(InViewport(Failed("no", acts \cup {"diagnostics"})))
        BY EndsFit DEF Choice
      <4>2. InViewport(Failed("no", acts \cup {"diagnostics"})).phase = "failed"
        BY DEF InViewport, Failed, End
      <4> QED
        BY <4>1, <4>2, ShownSettles
    <3> QED
      BY <3>1
  <2>3. Settled(screen')
    BY <1>11, <2>2 DEF Report
  <2>4. UNCHANGED <<pending, removalRetry, still, pc, alone, quit>>
    BY <1>11 DEF Report, load, work, still
  <2> QED
    BY <2>1, <2>3, <2>4 DEF KeyEffect, ReportEffect
<1>12. CASE UNCHANGED tuiVars
  BY <1>12, Same DEF KeyEffect, NoEffect, still
<1> QED
  BY <1>1, <1>2, <1>3, <1>4, <1>5, <1>6, <1>7, <1>8, <1>9, <1>10, <1>11, <1>12

LEMMA TuiSteps ==
  TuiTypeOK /\ TuiQuiet /\ [TuiNext]_tuiVars => (\E j \in Job : JobEffect(j)) \/ KeyEffect
<1> SUFFICES ASSUME TuiTypeOK, TuiQuiet, [TuiNext]_tuiVars, ~KeyEffect
             PROVE  \E j \in Job : JobEffect(j)
  OBVIOUS
<1>1. ~(\/ \E a \in {"trust", "confirm", "decline"} : Answer(a)
        \/ LeaveWizard \/ Cancel \/ RetryRemoval \/ Dismiss
        \/ RequestExit \/ ExitCloses \/ ExitFromFlow \/ Unmounted
        \/ \E o \in Opener : SessionEnds(o) \/ Report(o)
        \/ UNCHANGED tuiVars)
  BY KeySteps, Zenon
<1>2. PICK j \in Job :
        \/ Start(j) \/ Ask(j) \/ Progress(j) \/ WorkEnds(j) \/ LoadEnds(j)
        \/ FlowScreen(j) \/ FlowEvent(j) \/ RetryConnection(j) \/ ReadAgain(j)
        \/ \E o \in Opener : StartClose(j, o) \/ StartRetry(j, o)
  BY <1>1, Zenon DEF TuiNext
<1> QED
  BY <1>2, JobSteps

(***************************************************************************)
(* The inductive invariant of the screen                                   *)
(***************************************************************************)
\* A job whose question waits in a place asks it there.
Waits == \A s \in Slot : pending[s] # NoOne => H(pending[s]).slot = s /\ pc[pending[s]] = "asked"

\* The removal that is offered again is over.
Retried == removalRetry # NoOne => pc[removalRetry] = "done"

\* A job that will replace the screen.
Replaces(j) == pc[j] \in {"opening", "run", "go", "refused"} \/ (pc[j] = "load" /\ ctl = j)

Alive ==
  /\ screen.phase = "working" /\ quit.pc = "no" => \E j \in Job : Replaces(j)
  /\ screen.phase = "ask" =>
       /\ screen.by \in Job /\ H(screen.by).slot \in Slot
       /\ pending[H(screen.by).slot] = screen.by /\ screen = Prompt(screen.by)
  /\ "cancel" \in screen.acts => screen.phase = "working"

\* While a question is all there is, nothing else is in progress.
AloneOK(j) ==
  /\ screen = Prompt(j) /\ pending[H(j).slot] = j /\ quit.pc = "no"
  /\ \A k \in Job : pc[k] \in Running => k = j

Alone == \A j \in alone : pc[j] = "asked" /\ quit.pc # "exited" => AloneOK(j)

\* The number of the load that may show itself is the newest.
Newest == snap <= loads /\ \A j \in Job : pc[j] = "load" /\ ctl = j => seq[j] = loads

LEMMA QuietStep == TuiTypeOK /\ TuiQuiet /\ [TuiNext]_tuiVars => TuiQuiet'
<1> SUFFICES ASSUME TuiTypeOK, TuiQuiet, [TuiNext]_tuiVars PROVE TuiQuiet'
  OBVIOUS
<1>1. pc \in [Job -> Running \cup {"idle", "shown", "done"}] /\ after \in [Job -> Ending]
  BY DEF TuiTypeOK
<1>2. ASSUME NEW j \in Job, NEW e, Fits(e), e.load # "no", e.load = "quiet" => Kind[j] # "mutate",
             BeginLoad(j, e)
      PROVE  TuiQuiet'
  <2>1. pc' = [pc EXCEPT ![j] = "load"] /\ after' = [after EXCEPT ![j] = e]
    BY <1>2 DEF BeginLoad, Goto
  <2> QED
    BY <1>1, <1>2, <2>1 DEF TuiQuiet
<1>3. ASSUME NEW j \in Job, NEW q \in (Running \cup {"idle", "shown", "done"}) \ {"load"},
             Goto(j, q), \A k \in Job \ {j} : after'[k] = after[k]
      PROVE  TuiQuiet'
  BY <1>1, <1>3 DEF TuiQuiet, Goto
<1>4. CASE UNCHANGED <<pc, after>>
  BY <1>4 DEF TuiQuiet
<1>5. ASSUME NEW j \in Job, JobEffect(j)
      PROVE  TuiQuiet'
  <2>1. CASE BeginEffect(j)
    <3>1. CASE BeginLoad(j, Left("loud"))
      BY <3>1, <1>2, EndsFit
    <3>2. CASE ~BeginLoad(j, Left("loud"))
      <4>1. after' = after /\ \E q \in {"opening", "run", "asked", "done"} : Goto(j, q)
        BY <2>1, <3>2 DEF BeginEffect, still
      <4> QED
        BY <4>1, <1>3 DEF Running
    <3> QED
      BY <3>1, <3>2
  <2>2. CASE AskEffect(j) \/ FlowEffect(j)
    <3>1. after' = after /\ \E q \in {"asked", "refused", "shown", "run", "done"} : Goto(j, q)
      BY <2>2 DEF AskEffect, FlowEffect, still
    <3> QED
      BY <3>1, <1>3 DEF Running
  <2>3. CASE ProgressEffect(j)
    BY <2>3, <1>4 DEF ProgressEffect, still
  <2>4. CASE WorkEffect(j)
    <3>1. CASE Goto(j, "done") /\ UNCHANGED after
      BY <3>1, <1>3
    <3>2. CASE \E e : Fits(e) /\ e.load # "no" /\ (e.load = "quiet" => Kind[j] # "mutate") /\ BeginLoad(j, e)
      BY <3>2, <1>2
    <3> QED
      BY <2>4, <3>1, <3>2 DEF WorkEffect
  <2>5. CASE LoadEffect(j)
    <3>1. Goto(j, "done") /\ \A k \in Job \ {j} : after'[k] = after[k]
      BY <1>1, <2>5 DEF LoadEffect
    <3> QED
      BY <3>1, <1>3
  <2> QED
    BY <1>5, <2>1, <2>2, <2>3, <2>4, <2>5 DEF JobEffect
<1>6. CASE KeyEffect
  <2>1. ASSUME NEW a, NEW s \in Slot, pending[s] \in Job, AnswerTo(a, s)
        PROVE  TuiQuiet'
    <3>1. after' = after /\ \E q \in {"done", "refused", "go"} : Goto(pending[s], q)
      BY <2>1 DEF AnswerTo
    <3> QED
      BY <2>1, <3>1, <1>3 DEF Running
  <2>2. CASE RetryEffect
    BY <2>2, <1>3 DEF RetryEffect, still, Running
  <2>3. CASE CancelEffect \/ DismissEffect \/ ReportEffect \/ ExitEffect \/ NoEffect
    BY <2>3, <1>4 DEF CancelEffect, DismissEffect, ReportEffect, ExitEffect, NoEffect, still
  <2> QED
    BY <1>6, <2>1, <2>2, <2>3 DEF KeyEffect
<1> QED
  BY <1>5, <1>6, TuiSteps

LEMMA WaitsStep == TuiTypeOK /\ TuiQuiet /\ Retried /\ Waits /\ [TuiNext]_tuiVars => Waits'
<1> SUFFICES ASSUME TuiTypeOK, TuiQuiet, Retried, Waits, [TuiNext]_tuiVars PROVE Waits'
  OBVIOUS
<1>1. pc \in [Job -> Running \cup {"idle", "shown", "done"}] /\ pending \in [Slot -> Job \cup {NoOne}]
  BY DEF TuiTypeOK
<1>2. \A s \in Slot : pending[s] # NoOne => pending[s] \in Job
  BY <1>1
<1>3. ASSUME NEW j \in Job, pc[j] # "asked", NEW q, Goto(j, q),
             \A s \in Slot : pending'[s] \in {NoOne, pending[s]}
      PROVE  Waits'
  <2> SUFFICES ASSUME NEW s \in Slot, pending'[s] # NoOne
               PROVE  H(pending'[s]).slot = s /\ pc'[pending'[s]] = "asked"
    BY DEF Waits, H
  <2>1. pending'[s] = pending[s] /\ pending[s] \in Job /\ H(pending[s]).slot = s
        /\ pc[pending[s]] = "asked"
    BY <1>2, <1>3 DEF Waits
  <2>2. pc'[pending[s]] = "asked"
    BY <1>1, <1>3, <2>1 DEF Goto
  <2> QED
    BY <2>1, <2>2
<1>4. CASE pc' = pc /\ \A s \in Slot : pending'[s] \in {NoOne, pending[s]}
  BY <1>4 DEF Waits, H
<1>5. ASSUME NEW j \in Job, pc[j] # "asked", H(j).slot \in Slot, Goto(j, "asked"),
             pending' = [pending EXCEPT ![H(j).slot] = j]
      PROVE  Waits'
  <2> SUFFICES ASSUME NEW s \in Slot, pending'[s] # NoOne
               PROVE  H(pending'[s]).slot = s /\ pc'[pending'[s]] = "asked"
    BY DEF Waits, H
  <2>1. CASE s = H(j).slot
    <3>1. pending'[s] = j
      BY <1>1, <1>5, <2>1
    <3>2. pc'[j] = "asked"
      BY <1>1, <1>5 DEF Goto
    <3> QED
      BY <2>1, <3>1, <3>2
  <2>2. CASE s # H(j).slot
    <3>1. pending'[s] = pending[s]
      BY <1>1, <1>5, <2>2
    <3>2. H(pending[s]).slot = s /\ pc[pending[s]] = "asked" /\ pending[s] \in Job
      BY <3>1, <1>2 DEF Waits
    <3>3. pc'[pending[s]] = "asked"
      BY <1>1, <1>5, <3>2 DEF Goto
    <3> QED
      BY <3>1, <3>2, <3>3
  <2> QED
    BY <2>1, <2>2
<1>6. ASSUME NEW j \in Job, JobEffect(j)
      PROVE  Waits'
  <2>1. CASE BeginEffect(j)
    <3>1. pc[j] # "asked"
      BY <2>1 DEF BeginEffect
    <3>2. CASE BeginLoad(j, Left("loud")) /\ UNCHANGED pending
      BY <3>1, <3>2, <1>3 DEF BeginLoad
    <3>3. CASE \E q \in {"opening", "run", "done"} : Goto(j, q) /\ UNCHANGED pending
      BY <3>1, <3>3, <1>3
    <3>4. CASE /\ H(j).slot \in Slot /\ Goto(j, "asked")
               /\ pending' = [pending EXCEPT ![H(j).slot] = j]
      BY <3>1, <3>4, <1>5
    <3> QED
      BY <2>1, <3>2, <3>3, <3>4 DEF BeginEffect
  <2>2. CASE AskEffect(j)
    <3>1. CASE Goto(j, "refused") /\ UNCHANGED pending
      BY <2>2, <3>1, <1>3 DEF AskEffect
    <3>2. CASE Goto(j, "asked") /\ pending' = [pending EXCEPT ![H(j).slot] = j]
      BY <2>2, <3>2, <1>5 DEF AskEffect
    <3> QED
      BY <2>2, <3>1, <3>2 DEF AskEffect
  <2>3. CASE ProgressEffect(j)
    BY <2>3, <1>4 DEF ProgressEffect
  <2>4. CASE WorkEffect(j)
    <3>1. pc[j] # "asked" /\ \A s \in Slot : pending'[s] \in {NoOne, pending[s]}
      BY <2>4 DEF WorkEffect
    <3>2. Goto(j, "done") \/ Goto(j, "load")
      BY <2>4 DEF WorkEffect, BeginLoad
    <3> QED
      BY <3>1, <3>2, <1>3
  <2>5. CASE LoadEffect(j)
    BY <2>5, <1>3 DEF LoadEffect
  <2>6. CASE FlowEffect(j)
    <3>1. pc[j] # "asked" /\ \E q : Goto(j, q)
      BY <2>6 DEF FlowEffect
    <3>2. \A s \in Slot : pending'[s] \in {NoOne, pending[s]}
      BY <1>1, <2>6 DEF FlowEffect
    <3> QED
      BY <3>1, <3>2, <1>3
  <2> QED
    BY <1>6, <2>1, <2>2, <2>3, <2>4, <2>5, <2>6 DEF JobEffect
<1>7. CASE KeyEffect
  <2>1. ASSUME NEW a, NEW s \in Slot, pending[s] \in Job, AnswerTo(a, s)
        PROVE  Waits'
    <3>1. pending' = [pending EXCEPT ![s] = NoOne] /\ \E q : Goto(pending[s], q)
      BY <2>1 DEF AnswerTo
    <3> SUFFICES ASSUME NEW x \in Slot, pending'[x] # NoOne
                 PROVE  H(pending'[x]).slot = x /\ pc'[pending'[x]] = "asked"
      BY DEF Waits, H
    <3>2. x # s /\ pending'[x] = pending[x]
      BY <1>1, <3>1
    <3>3. pending[x] \in Job /\ H(pending[x]).slot = x /\ pc[pending[x]] = "asked"
      BY <1>2, <3>2 DEF Waits
    <3>4. pending[x] # pending[s]
      BY <2>1, <3>2, <3>3, TuiAssumption DEF Waits
    <3>5. pc'[pending[x]] = "asked"
      BY <1>1, <3>1, <3>3, <3>4 DEF Goto
    <3> QED
      BY <3>2, <3>3, <3>5
  <2>2. CASE RetryEffect
    <3>1. removalRetry \in Job /\ Goto(removalRetry, "go") /\ UNCHANGED pending
      BY <2>2 DEF RetryEffect
    <3>2. pc[removalRetry] # "asked"
      BY <3>1, TuiAssumption DEF Retried
    <3> QED
      BY <3>1, <3>2, <1>3
  <2>3. CASE DismissEffect
    BY <2>3, <1>4 DEF DismissEffect
  <2>4. CASE CancelEffect \/ ReportEffect \/ ExitEffect \/ NoEffect
    BY <2>4, <1>4 DEF CancelEffect, ReportEffect, ExitEffect, NoEffect
  <2> QED
    BY <1>7, <2>1, <2>2, <2>3, <2>4 DEF KeyEffect
<1> QED
  BY <1>6, <1>7, TuiSteps

LEMMA RetriedStep ==
  TuiTypeOK /\ TuiQuiet /\ Retried /\ Waits /\ [TuiNext]_tuiVars => Retried'
<1> SUFFICES ASSUME TuiTypeOK, TuiQuiet, Retried, Waits, [TuiNext]_tuiVars PROVE Retried'
  OBVIOUS
<1>1. pc \in [Job -> Running \cup {"idle", "shown", "done"}]
      /\ removalRetry \in Job \cup {NoOne} /\ NoOne \notin Job
  BY TuiAssumption DEF TuiTypeOK, Of
<1>2. ASSUME NEW j \in Job, pc[j] # "done" \/ removalRetry # j, NEW q, Goto(j, q),
             removalRetry' \in {NoOne, removalRetry}
      PROVE  Retried'
  BY <1>1, <1>2 DEF Retried, Goto
<1>3. CASE pc' = pc /\ removalRetry' \in {NoOne, removalRetry}
  BY <1>3 DEF Retried
<1>4. ASSUME NEW j \in Job, JobEffect(j)
      PROVE  Retried'
  <2>1. CASE BeginEffect(j)
    <3>1. pc[j] # "done" /\ (\E q : Goto(j, q)) /\ removalRetry' \in {NoOne, removalRetry}
      BY <2>1 DEF BeginEffect, BeginLoad
    <3> QED
      BY <3>1, <1>2
  <2>2. CASE AskEffect(j) \/ FlowEffect(j)
    <3>1. pc[j] # "done" /\ (\E q : Goto(j, q)) /\ removalRetry' = removalRetry
      BY <2>2 DEF AskEffect, FlowEffect
    <3> QED
      BY <3>1, <1>2
  <2>3. CASE ProgressEffect(j)
    BY <2>3, <1>3 DEF ProgressEffect
  <2>4. CASE WorkEffect(j)
    <3>1. pc[j] # "done" /\ (\E q : Goto(j, q)) /\ removalRetry' \in {NoOne, removalRetry}
      BY <2>4 DEF WorkEffect, BeginLoad
    <3> QED
      BY <3>1, <1>2
  <2>5. CASE LoadEffect(j)
    <3>1. pc[j] = "load" /\ pc' = [pc EXCEPT ![j] = "done"] /\ removalRetry' \in {removalRetry, j}
      BY <2>5 DEF LoadEffect, Goto
    <3> QED
      BY <1>1, <3>1 DEF Retried
  <2> QED
    BY <1>4, <2>1, <2>2, <2>3, <2>4, <2>5 DEF JobEffect
<1>5. CASE KeyEffect
  <2>1. ASSUME NEW a, NEW s \in Slot, pending[s] \in Job, AnswerTo(a, s)
        PROVE  Retried'
    <3>1. (\E q : Goto(pending[s], q)) /\ removalRetry' \in {NoOne, removalRetry}
      BY <2>1 DEF AnswerTo
    <3>2. pc[pending[s]] # "done"
      BY <1>1, <2>1 DEF Waits
    <3> QED
      BY <2>1, <3>1, <3>2, <1>2
  <2>2. CASE RetryEffect
    BY <2>2 DEF RetryEffect, Retried
  <2>3. CASE DismissEffect \/ CancelEffect \/ ReportEffect \/ ExitEffect \/ NoEffect
    BY <2>3, <1>3 DEF DismissEffect, CancelEffect, ReportEffect, ExitEffect, NoEffect
  <2> QED
    BY <1>5, <2>1, <2>2, <2>3 DEF KeyEffect
<1> QED
  BY <1>4, <1>5, TuiSteps

\* A newer load is the newest; only its own end shows an older number.
LEMMA NewestStep ==
  TuiTypeOK /\ TuiQuiet /\ Newest /\ [TuiNext]_tuiVars => Newest' /\ snap' >= snap
<1> SUFFICES ASSUME TuiTypeOK, TuiQuiet, Newest, [TuiNext]_tuiVars PROVE Newest' /\ snap' >= snap
  OBVIOUS
<1>1. /\ pc \in [Job -> Running \cup {"idle", "shown", "done"}] /\ seq \in [Job -> Nat]
      /\ loads \in Nat /\ snap \in Nat /\ NoOne \notin Job
  BY TuiAssumption DEF TuiTypeOK
<1>2. ASSUME NEW j \in Job, NEW q, Goto(j, q), q # "load", UNCHANGED <<loads, seq, snap, ctl>>
      PROVE  Newest' /\ snap' >= snap
  BY <1>1, <1>2 DEF Newest, Goto
<1>3. ASSUME NEW j \in Job, NEW e, BeginLoad(j, e)
      PROVE  Newest' /\ snap' >= snap
  <2>1. /\ snap' = snap /\ loads' = loads + 1 /\ ctl' = j
        /\ seq' = [seq EXCEPT ![j] = loads + 1]
    BY <1>3 DEF BeginLoad
  <2> QED
    BY <1>1, <2>1 DEF Newest
<1>4. CASE UNCHANGED <<pc, loads, seq, snap>> /\ ctl' \in {ctl, NoOne}
  BY <1>1, <1>4 DEF Newest
<1>5. ASSUME NEW j \in Job, JobEffect(j)
      PROVE  Newest' /\ snap' >= snap
  <2>1. CASE BeginEffect(j)
    <3>1. CASE BeginLoad(j, Left("loud"))
      BY <3>1, <1>3
    <3>2. CASE ~BeginLoad(j, Left("loud"))
      <4>1. /\ \E q \in {"opening", "run", "asked", "done"} : Goto(j, q)
            /\ UNCHANGED <<loads, seq, snap, ctl>>
        BY <2>1, <3>2 DEF BeginEffect, still
      <4> QED
        BY <4>1, <1>2
    <3> QED
      BY <3>1, <3>2
  <2>2. CASE AskEffect(j) \/ FlowEffect(j)
    <3>1. /\ \E q \in {"asked", "refused", "shown", "run", "done"} : Goto(j, q)
          /\ UNCHANGED <<loads, seq, snap, ctl>>
      BY <2>2 DEF AskEffect, FlowEffect, still
    <3> QED
      BY <3>1, <1>2
  <2>3. CASE ProgressEffect(j)
    BY <2>3, <1>4 DEF ProgressEffect, still
  <2>4. CASE WorkEffect(j)
    <3>1. CASE Goto(j, "done") /\ UNCHANGED <<loads, seq, snap, ctl>>
      BY <3>1, <1>2
    <3>2. CASE \E e : BeginLoad(j, e)
      BY <3>2, <1>3
    <3> QED
      BY <2>4, <3>1, <3>2 DEF WorkEffect
  <2>5. CASE LoadEffect(j)
    <3>1. /\ pc[j] = "load" /\ pc' = [pc EXCEPT ![j] = "done"] /\ seq' = [seq EXCEPT ![j] = 0]
          /\ snap' = snap \/ (ctl = j /\ snap' = seq[j])
          /\ UNCHANGED <<loads, ctl>>
      BY <2>5 DEF LoadEffect, Goto
    <3>2. snap' >= snap /\ snap' <= loads
      BY <1>1, <3>1 DEF Newest
    <3>3. \A k \in Job : pc'[k] = "load" => k # j /\ pc[k] = "load" /\ seq'[k] = seq[k]
      BY <1>1, <3>1
    <3> QED
      BY <3>1, <3>2, <3>3 DEF Newest
  <2> QED
    BY <1>5, <2>1, <2>2, <2>3, <2>4, <2>5 DEF JobEffect
<1>6. CASE KeyEffect
  <2>1. ASSUME NEW a, NEW s \in Slot, pending[s] \in Job, AnswerTo(a, s)
        PROVE  Newest' /\ snap' >= snap
    <3>1. (\E q \in {"done", "refused", "go"} : Goto(pending[s], q)) /\ UNCHANGED <<loads, seq, snap, ctl>>
      BY <2>1 DEF AnswerTo
    <3> QED
      BY <2>1, <3>1, <1>2
  <2>2. CASE RetryEffect
    BY <2>2, <1>2 DEF RetryEffect, still
  <2>3. CASE CancelEffect
    BY <2>3, <1>4 DEF CancelEffect
  <2>4. CASE DismissEffect \/ ReportEffect \/ ExitEffect \/ NoEffect
    BY <2>4, <1>4 DEF DismissEffect, ReportEffect, ExitEffect, NoEffect, still
  <2> QED
    BY <1>6, <2>1, <2>2, <2>3, <2>4 DEF KeyEffect
<1> QED
  BY <1>5, <1>6, TuiSteps

LEMMA AliveStep ==
  TuiTypeOK /\ TuiQuiet /\ Alive /\ [TuiNext]_tuiVars => Alive'
<1> SUFFICES ASSUME TuiTypeOK, TuiQuiet, Alive, [TuiNext]_tuiVars PROVE Alive'
  OBVIOUS
<1>1. pc \in [Job -> Running \cup {"idle", "shown", "done"}]
  BY DEF TuiTypeOK
<1>2. ASSUME Settled(screen') PROVE Alive'
  BY <1>2 DEF Settled, Alive
<1>3. Settled(Blank)
  BY ShownSettles
<1>4. ASSUME NEW j, screen' \in {Working(j, {}), Working(j, {"cancel"})},
             quit'.pc = "no" => \E k \in Job : Replaces(k)'
      PROVE  Alive'
  <2>1. screen'.phase = "working"
    BY <1>4 DEF Working
  <2> QED
    BY <1>4, <2>1 DEF Alive
<1>5. ASSUME NEW j \in Job, H(j).slot \in Slot, screen' = Prompt(j), pending'[H(j).slot] = j
      PROVE  Alive'
  <2>1. screen'.by = j /\ screen'.phase = "ask" /\ "cancel" \notin screen'.acts
    BY <1>5, Prompts
  <2>2. Prompt(j)' = Prompt(j) /\ H(j)' = H(j)
    BY DEF Prompt, H
  <2> QED
    BY <1>5, <2>1, <2>2 DEF Alive, H, Prompt
<1>6. ASSUME UNCHANGED <<screen, pending>>,
             quit'.pc = "no" => quit.pc = "no" /\ ((\E k \in Job : Replaces(k)) => \E k \in Job : Replaces(k)')
      PROVE  Alive'
  BY <1>6 DEF Alive, H, Prompt
<1>7. ASSUME NEW j \in Job, NEW q, Goto(j, q), ctl' = ctl,
             ~Replaces(j) \/ q \in {"opening", "run", "go", "refused"}
      PROVE  (\E k \in Job : Replaces(k)) => \E k \in Job : Replaces(k)'
  BY <1>1, <1>7 DEF Replaces, Goto
<1>8. ASSUME NEW j \in Job, NEW q \in {"opening", "run", "go", "refused"}, Goto(j, q)
      PROVE  Replaces(j)'
  BY <1>1, <1>8 DEF Replaces, Goto
<1>9. ASSUME NEW j \in Job, NEW e, BeginLoad(j, e)
      PROVE  Replaces(j)'
  BY <1>1, <1>9 DEF Replaces, BeginLoad, Goto
<1>10. ASSUME NEW j \in Job, JobEffect(j)
       PROVE  Alive'
  <2>1. CASE BeginEffect(j)
    <3>1. pc[j] = "idle" /\ quit' = quit
      BY <2>1 DEF BeginEffect
    <3>2. ~Replaces(j)
      BY <3>1 DEF Replaces
    <3>3. CASE BeginLoad(j, Left("loud"))
      <4>1. screen' = Working(j, {"cancel"})
        BY <3>3, EndsFit DEF BeginLoad
      <4> QED
        BY <4>1, <3>3, <1>4, <1>9
    <3>4. CASE /\ Goto(j, "asked") /\ screen' = Prompt(j) /\ H(j).slot \in Slot
               /\ pending' = [pending EXCEPT ![H(j).slot] = j]
      <4>1. pending'[H(j).slot] = j
        BY <3>4 DEF TuiTypeOK
      <4> QED
        BY <3>4, <4>1, <1>5
    <3>5. CASE /\ \E q \in {"opening", "run"} : Goto(j, q)
               /\ screen' \in {Working(j, {}), Working(j, {"cancel"})}
      BY <3>5, <1>4, <1>8
    <3>6. CASE /\ \E q \in {"opening", "run", "done"} : Goto(j, q)
               /\ UNCHANGED <<screen, pending, still>>
      <4>1. (\E k \in Job : Replaces(k)) => \E k \in Job : Replaces(k)'
        BY <3>2, <3>6, <1>7 DEF still
      <4> QED
        BY <3>1, <3>6, <4>1, <1>6
    <3> QED
      BY <2>1, <3>3, <3>4, <3>5, <3>6 DEF BeginEffect
  <2>2. CASE AskEffect(j)
    <3>1. CASE Goto(j, "refused") /\ UNCHANGED <<screen, pending>>
      <4>1. ctl' = ctl /\ quit' = quit
        BY <2>2 DEF AskEffect, still
      <4>2. (\E k \in Job : Replaces(k)) => \E k \in Job : Replaces(k)'
        BY <3>1, <4>1, <1>7
      <4> QED
        BY <3>1, <4>1, <4>2, <1>6
    <3>2. CASE /\ screen' = Prompt(j) /\ H(j).slot \in Slot
               /\ pending' = [pending EXCEPT ![H(j).slot] = j]
      <4>1. pending'[H(j).slot] = j
        BY <3>2 DEF TuiTypeOK
      <4> QED
        BY <3>2, <4>1, <1>5
    <3> QED
      BY <2>2, <3>1, <3>2 DEF AskEffect
  <2>3. CASE ProgressEffect(j)
    <3>1. Replaces(j)'
      BY <2>3 DEF ProgressEffect, Replaces
    <3> QED
      BY <2>3, <3>1, <1>4 DEF ProgressEffect
  <2>4. CASE WorkEffect(j)
    <3>1. quit' = quit
      BY <2>4 DEF WorkEffect
    <3>2. CASE Settled(screen')
      BY <3>2, <1>2
    <3>3. CASE /\ \E e : BeginLoad(j, e)
               /\ screen' = Working(j, {"cancel"}) \/ (screen' = screen /\ pending' = pending)
      <4>1. Replaces(j)'
        BY <3>3, <1>9
      <4> QED
        BY <3>1, <3>3, <4>1, <1>4, <1>6
    <3> QED
      BY <2>4, <3>2, <3>3 DEF WorkEffect
  <2>5. CASE LoadEffect(j)
    <3>1. CASE Settled(screen')
      BY <3>1, <1>2
    <3>2. CASE screen' = screen /\ ctl # j
      <4>1. ~Replaces(j) /\ Goto(j, "done") /\ UNCHANGED <<pending, ctl, quit>>
        BY <2>5, <3>2 DEF LoadEffect, Replaces
      <4>2. (\E k \in Job : Replaces(k)) => \E k \in Job : Replaces(k)'
        BY <4>1, <1>7
      <4> QED
        BY <3>2, <4>1, <4>2, <1>6
    <3> QED
      BY <2>5, <3>1, <3>2 DEF LoadEffect
  <2>6. CASE FlowEffect(j)
    <3>1. CASE screen' = Blank
      BY <3>1, <1>2, <1>3
    <3>2. CASE Goto(j, "run") /\ screen' = Working(j, {})
      BY <3>2, <1>4, <1>8
    <3> QED
      BY <2>6, <3>1, <3>2 DEF FlowEffect
  <2> QED
    BY <1>10, <2>1, <2>2, <2>3, <2>4, <2>5, <2>6 DEF JobEffect
<1>11. CASE KeyEffect
  <2>1. ASSUME NEW a, NEW s \in Slot, pending[s] \in Job, AnswerTo(a, s)
        PROVE  Alive'
    <3>1. CASE screen' = Blank
      BY <3>1, <1>2, <1>3
    <3>2. CASE /\ screen' \in {Working(pending[s], {}), Working(pending[s], {"cancel"})}
               /\ Goto(pending[s], "go")
      BY <2>1, <3>2, <1>4, <1>8
    <3> QED
      BY <2>1, <3>1, <3>2 DEF AnswerTo
  <2>2. CASE CancelEffect
    <3>1. screen' = Blank => Alive'
      BY <1>2, <1>3
    <3>2. ASSUME NEW j \in Job, screen' = Working(j, {}) /\ UNCHANGED ctl
          PROVE  Alive'
      <4>1. quit' = quit /\ pc' = pc /\ screen.phase = "working"
        BY <2>2 DEF CancelEffect, Alive
      <4>2. quit.pc = "no" => \E k \in Job : Replaces(k)
        BY <4>1 DEF Alive
      <4>3. quit'.pc = "no" => \E k \in Job : Replaces(k)'
        BY <3>2, <4>1, <4>2 DEF Replaces
      <4> QED
        BY <3>2, <4>3, <1>4
    <3> QED
      BY <2>2, <3>1, <3>2 DEF CancelEffect
  <2>3. CASE RetryEffect
    BY <2>3, <1>4, <1>8 DEF RetryEffect
  <2>4. CASE DismissEffect \/ ReportEffect
    BY <2>4, <1>2, <1>3 DEF DismissEffect, ReportEffect
  <2>5. CASE ExitEffect
    <3>1. CASE quit'.pc = "exited" /\ UNCHANGED screen
      BY <2>5, <3>1, <1>6 DEF ExitEffect
    <3>2. CASE quit'.pc = "closing" /\ screen' = Working(NoOne, {})
      BY <3>2, <1>4
    <3>3. CASE Settled(screen')
      BY <3>3, <1>2
    <3> QED
      BY <2>5, <3>1, <3>2, <3>3 DEF ExitEffect
  <2>6. CASE NoEffect
    <3>1. UNCHANGED <<screen, pending, pc, ctl, quit>>
      BY <2>6 DEF NoEffect, still
    <3> QED
      BY <3>1, <1>6 DEF Replaces
  <2> QED
    BY <1>11, <2>1, <2>2, <2>3, <2>4, <2>5, <2>6 DEF KeyEffect
<1> QED
  BY <1>10, <1>11, TuiSteps

LEMMA AloneStep ==
  TuiTypeOK /\ TuiQuiet /\ Waits /\ Alone /\ [TuiNext]_tuiVars => Alone'
<1> SUFFICES ASSUME TuiTypeOK, TuiQuiet, Waits, Alone, [TuiNext]_tuiVars,
                    NEW j \in alone', pc'[j] = "asked", quit'.pc # "exited"
             PROVE  AloneOK(j)'
  BY DEF Alone
<1>1. pc \in [Job -> Running \cup {"idle", "shown", "done"}]
      /\ pending \in [Slot -> Job \cup {NoOne}] /\ alone \subseteq Job /\ NoOne \notin Job
  BY TuiAssumption DEF TuiTypeOK
\* A question that was there before the step.
<1> DEFINE old == j \in alone /\ pc[j] = "asked" /\ quit.pc # "exited"
<1>2. ASSUME old PROVE ~NoPrompt /\ j \in Job /\ quit.pc = "no" /\ \A k \in Job : pc[k] \in Running => k = j
  BY <1>2, <1>1 DEF Alone, AloneOK, NoPrompt
<1>3. ASSUME NEW k \in Job, JobEffect(k)
      PROVE  AloneOK(j)'
  <2>1. ASSUME NEW q, Goto(k, q), quit' = quit, alone' = alone, pc[k] \in Running \ {"asked"} \/ NoPrompt,
               q # "asked"
        PROVE  FALSE
    <3>1. j \in Job /\ pc' = [pc EXCEPT ![k] = q]
      BY <2>1, <1>1 DEF Goto
    <3>2. old
      BY <1>1, <2>1, <3>1
    <3> QED
      BY <1>2, <2>1, <3>2
  <2>2. ASSUME Goto(k, "asked"), screen' = Prompt(k), H(k).slot \in Slot, Asking(k), quit' = quit,
               pending' = [pending EXCEPT ![H(k).slot] = k], pc[k] = "run" \/ (pc[k] = "idle" /\ NoPrompt)
        PROVE  AloneOK(j)'
    <3>1. pc' = [pc EXCEPT ![k] = "asked"]
      BY <2>2 DEF Goto
    <3>2. j \in Job
      BY <1>1, <2>2 DEF Asking
    <3>3. CASE j = k
      <4>1. InProgress \ {k} = {} /\ quit.pc = "no"
        BY <2>2, <3>3 DEF Asking
      <4>2. \A m \in Job : pc[m] \in Running => m = k
        BY <4>1 DEF InProgress
      <4>3. \A m \in Job : pc'[m] \in Running => m = k
        BY <1>1, <3>1, <4>2
      <4>4. pending'[H(k).slot] = k
        BY <1>1, <2>2
      <4> QED
        BY <2>2, <3>3, <4>1, <4>3, <4>4 DEF AloneOK, H, Prompt
    <3>4. CASE j # k
      <4>1. old
        BY <1>1, <2>2, <3>1, <3>2, <3>4 DEF Asking
      <4>2. pc[k] \in Running => k = j
        BY <1>2, <4>1
      <4> QED
        BY <1>2, <2>2, <3>4, <4>1, <4>2 DEF Running
    <3> QED
      BY <3>3, <3>4
  <2>3. CASE BeginEffect(k)
    <3>1. pc[k] = "idle" /\ NoPrompt /\ quit' = quit
      BY <2>3 DEF BeginEffect
    <3>2. CASE BeginLoad(k, Left("loud")) /\ UNCHANGED alone
      BY <3>1, <3>2, <2>1 DEF BeginLoad
    <3>3. CASE (\E q \in {"opening", "run", "done"} : Goto(k, q)) /\ UNCHANGED alone
      BY <3>1, <3>3, <2>1
    <3>4. CASE /\ Goto(k, "asked") /\ screen' = Prompt(k) /\ H(k).slot \in Slot /\ Asking(k)
               /\ pending' = [pending EXCEPT ![H(k).slot] = k]
      BY <3>1, <3>4, <2>2
    <3> QED
      BY <2>3, <3>2, <3>3, <3>4 DEF BeginEffect
  <2>4. CASE AskEffect(k)
    <3>1. pc[k] = "run" /\ quit' = quit /\ H(k).slot \in Slot
      BY <2>4 DEF AskEffect
    <3>2. CASE Goto(k, "refused") /\ UNCHANGED alone
      BY <3>1, <3>2, <2>1 DEF Running
    <3>3. CASE /\ Goto(k, "asked") /\ screen' = Prompt(k) /\ Asking(k)
               /\ pending' = [pending EXCEPT ![H(k).slot] = k]
      BY <3>1, <3>3, <2>2
    <3> QED
      BY <2>4, <3>2, <3>3 DEF AskEffect
  <2>5. CASE ProgressEffect(k)
    <3>1. UNCHANGED <<pc, alone, quit>> /\ pc[k] \in {"run", "go"}
      BY <2>5 DEF ProgressEffect
    <3>2. old
      BY <3>1
    <3> QED
      BY <1>2, <3>1, <3>2 DEF Running
  <2>6. CASE WorkEffect(k)
    <3>1. /\ pc[k] \in {"opening", "run", "go", "refused"} /\ UNCHANGED <<alone, quit>>
          /\ Goto(k, "done") \/ Goto(k, "load")
      BY <2>6 DEF WorkEffect, BeginLoad
    <3> QED
      BY <3>1, <2>1 DEF Running
  <2>7. CASE LoadEffect(k)
    <3>1. pc[k] = "load" /\ Goto(k, "done") /\ UNCHANGED <<alone, quit>>
      BY <2>7 DEF LoadEffect
    <3> QED
      BY <3>1, <2>1 DEF Running
  <2>8. CASE FlowEffect(k)
    <3>1. /\ pc[k] \in {"opening", "run", "go"} \/ NoPrompt
          /\ UNCHANGED <<alone, quit>> /\ \E q \in {"shown", "run", "done"} : Goto(k, q)
      BY <2>8 DEF FlowEffect
    <3> QED
      BY <3>1, <2>1 DEF Running
  <2> QED
    BY <1>3, <2>3, <2>4, <2>5, <2>6, <2>7, <2>8 DEF JobEffect
<1>4. CASE KeyEffect
  <2>1. ASSUME NEW a, NEW s \in Slot, pending[s] \in Job, AnswerTo(a, s)
        PROVE  FALSE
    <3>1. /\ alone' = alone \ {pending[s]} /\ quit' = quit
          /\ \E q \in {"done", "refused", "go"} : pc' = [pc EXCEPT ![pending[s]] = q]
      BY <2>1 DEF AnswerTo, Goto
    <3>2. pc[pending[s]] = "asked"
      BY <1>1, <2>1 DEF Waits
    <3>3. old /\ j # pending[s]
      BY <1>1, <2>1, <3>1
    <3> QED
      BY <1>2, <2>1, <3>2, <3>3 DEF Running
  <2>2. CASE CancelEffect \/ DismissEffect \/ ReportEffect
    <3>1. UNCHANGED <<pc, alone, quit>> /\ NoPrompt
      BY <2>2 DEF CancelEffect, DismissEffect, ReportEffect
    <3>2. old
      BY <3>1
    <3> QED
      BY <1>2, <3>1, <3>2
  <2>3. CASE RetryEffect
    <3>1. /\ pc' = [pc EXCEPT ![removalRetry] = "go"] /\ UNCHANGED <<alone, quit>> /\ NoPrompt
          /\ removalRetry \in Job
      BY <2>3 DEF RetryEffect, Goto
    <3>2. old
      BY <1>1, <3>1
    <3> QED
      BY <1>2, <3>1, <3>2
  <2>4. CASE ExitEffect
    <3>1. pc' = pc
      BY <2>4 DEF ExitEffect
    <3>2. quit.pc = "closing" /\ alone' = alone
      BY <2>4 DEF ExitEffect
    <3>3. old
      BY <3>1, <3>2
    <3> QED
      BY <1>2, <3>2, <3>3
  <2>5. CASE NoEffect
    <3>1. UNCHANGED <<screen, pending, pc, alone, quit>>
      BY <2>5 DEF NoEffect
    <3>2. AloneOK(j)
      BY <3>1 DEF Alone
    <3> QED
      BY <3>1, <3>2 DEF AloneOK, H, Prompt
  <2> QED
    BY <1>4, <2>1, <2>2, <2>3, <2>4, <2>5 DEF KeyEffect
<1> QED
  BY <1>3, <1>4, TuiSteps

LEMMA LeadsOn == TuiTypeOK /\ Waits /\ Alive /\ Alone => ScreenLeadsOn
<1> SUFFICES ASSUME TuiTypeOK, Waits, Alive, Alone PROVE ScreenLeadsOn
  OBVIOUS
<1>1. PromptIsOnScreen
  BY DEF PromptIsOnScreen, Alone, AloneOK
<1>2. ASSUME quit.pc # "exited", screen.phase = "working"
      PROVE  quit.pc = "closing" \/ \E j \in Job : pc[j] \in Running \ {"asked"}
  <2>1. quit.pc \in {"no", "closing"}
    BY <1>2 DEF TuiTypeOK
  <2> QED
    BY <1>2, <2>1 DEF Alive, Replaces, Running
<1>3. ASSUME screen.phase = "ask"
      PROVE  pending[H(screen.by).slot] = screen.by /\ pc[screen.by] = "asked"
  BY <1>3, TuiAssumption DEF Alive, Waits
<1> QED
  BY <1>1, <1>2, <1>3 DEF ScreenLeadsOn, ScreenIsAlive

LEMMA AtStart == TuiInit => TuiQuiet /\ Waits /\ Retried /\ Alive /\ Alone /\ Newest
<1> SUFFICES ASSUME TuiInit PROVE TuiQuiet /\ Waits /\ Retried /\ Alive /\ Alone /\ Newest
  OBVIOUS
<1>1. TuiQuiet /\ Newest
  BY DEF TuiInit, TuiQuiet, Newest
<1>2. Waits /\ Retried /\ Alone
  BY DEF TuiInit, Waits, Retried, Alone
<1>3. Alive
  BY DEF TuiInit, Alive, Blank
<1> QED
  BY <1>1, <1>2, <1>3

ScreenInv == TuiTypeOK /\ TuiQuiet /\ Waits /\ Retried /\ Alive /\ Alone /\ Newest

LEMMA ScreenInductive == TuiSpec => []ScreenInv
<1>1. TuiInit => ScreenInv
  BY TuiTypesInit, AtStart DEF ScreenInv
<1>2. ScreenInv /\ [TuiNext]_tuiVars => ScreenInv'
  BY TuiTypesStep, QuietStep, WaitsStep, RetriedStep, AliveStep, AloneStep, NewestStep DEF ScreenInv
<1> QED
  BY <1>1, <1>2, PTL DEF TuiSpec

(***************************************************************************)
(* Foreground connections                                                  *)
(***************************************************************************)
\* A record or a session is what its opener, who is done, has left.
SessionOK(o) ==
  /\ conn[o] # "none" \/ rec[o] # "none" => pc[o] = "done"
  /\ rec[o] = "failed" => conn[o] = "down"

\* What is retried is down, and whoever opened it is done.
TargetOK(j) ==
  target[j] # NoOne => pc[target[j]] = "done" /\ (Kind[j] = "retry" => conn[target[j]] = "down")

Connected ==
  /\ \A o \in Opener : SessionOK(o)
  /\ \A j \in Of({"retry", "close"}) : TargetOK(j)
  /\ \A o \in quit.set : pc[o] = "done"
  /\ LiveIsListed

LEMMA DoneStays ==
  ASSUME ScreenInv, [TuiNext]_tuiVars, NEW o \in Opener, pc[o] = "done"
  PROVE  pc'[o] = "done"
<1>1. pc \in [Job -> Running \cup {"idle", "shown", "done"}] /\ o \in Job
  BY DEF ScreenInv, TuiTypeOK, Opener, Of
<1>2. ASSUME NEW j \in Job, JobEffect(j)
      PROVE  pc'[o] = "done"
  <2>1. ASSUME pc[j] # "done", NEW q, Goto(j, q)
        PROVE  pc'[o] = "done"
    BY <1>1, <2>1 DEF Goto
  <2>2. CASE BeginEffect(j)
    BY <2>2, <2>1 DEF BeginEffect, BeginLoad
  <2>3. CASE AskEffect(j) \/ FlowEffect(j)
    BY <2>3, <2>1 DEF AskEffect, FlowEffect
  <2>4. CASE ProgressEffect(j)
    BY <2>4 DEF ProgressEffect
  <2>5. CASE WorkEffect(j)
    BY <2>5, <2>1 DEF WorkEffect, BeginLoad
  <2>6. CASE LoadEffect(j)
    BY <2>6, <2>1 DEF LoadEffect
  <2> QED
    BY <1>2, <2>2, <2>3, <2>4, <2>5, <2>6 DEF JobEffect
<1>3. CASE KeyEffect
  <2>1. ASSUME NEW a, NEW s \in Slot, pending[s] \in Job, AnswerTo(a, s)
        PROVE  pc'[o] = "done"
    <3>1. \E q : pc' = [pc EXCEPT ![pending[s]] = q]
      BY <2>1 DEF AnswerTo, Goto
    <3>2. pc[pending[s]] = "asked"
      BY <2>1, TuiAssumption DEF ScreenInv, Waits
    <3> QED
      BY <1>1, <3>1, <3>2
  <2>2. CASE RetryEffect
    <3>1. removalRetry # o
      BY <2>2, TuiAssumption DEF RetryEffect, ScreenInv, TuiTypeOK, Opener, Of
    <3> QED
      BY <1>1, <2>2, <3>1 DEF RetryEffect, Goto
  <2>3. CASE CancelEffect \/ DismissEffect \/ ReportEffect \/ ExitEffect \/ NoEffect
    BY <2>3 DEF CancelEffect, DismissEffect, ReportEffect, ExitEffect, NoEffect
  <2> QED
    BY <1>3, <2>1, <2>2, <2>3 DEF KeyEffect
<1> QED
  BY <1>2, <1>3, TuiSteps DEF ScreenInv

LEMMA ConnectedStep == ScreenInv /\ Connected /\ [TuiNext]_tuiVars => Connected'
<1> SUFFICES ASSUME ScreenInv, Connected, [TuiNext]_tuiVars PROVE Connected'
  OBVIOUS
<1>1. /\ rec \in [Opener -> {"none", "live", "closing", "failed"}]
      /\ conn \in [Opener -> {"none", "up", "down"}]
      /\ target \in [Of({"retry", "close"}) -> Opener \cup {NoOne}]
      /\ pc \in [Job -> Running \cup {"idle", "shown", "done"}]
      /\ quit \in [pc : {"no", "closing", "exited"}, set : SUBSET Opener]
      /\ Opener \subseteq Job /\ NoOne \notin Job /\ recovery \in Opener \cup {NoOne}
  BY TuiAssumption DEF ScreenInv, TuiTypeOK, Opener, Of
<1>2. \A o \in Opener : pc[o] = "done" => pc'[o] = "done"
  BY DoneStays
<1>3. /\ \A o \in Opener : SessionOK(o)
      /\ \A j \in Of({"retry", "close"}) : TargetOK(j)
      /\ \A o \in Opener \ late : conn[o] = "up" =>
           rec[o] \in {"live", "closing"} /\ (quit.pc = "exited" => o \in quit.set)
      /\ \A o \in quit.set : pc[o] = "done"
  BY DEF Connected, LiveIsListed
\* Nothing is opened: sessions only end, and records of those that are up are kept.
<1>4. ASSUME late \subseteq late', \A j \in Of({"retry", "close"}) : target'[j] \in {target[j], NoOne},
             \A o \in Opener : conn'[o] = conn[o] \/ (conn'[o] = "down" /\ pc[o] = "done"),
             \A o \in quit'.set : pc[o] = "done",
             \A o \in Opener : rec'[o] # "none" => rec[o] # "none",
             \A o \in Opener : rec'[o] = "failed" => rec[o] = "failed" \/ conn'[o] = "down",
             \A o \in Opener \ late' : conn'[o] = "up" =>
               rec'[o] \in {"live", "closing"} /\ (quit'.pc = "exited" => o \in quit'.set)
      PROVE  Connected'
  <2>1. ASSUME NEW o \in Opener PROVE SessionOK(o)'
    <3>1. conn'[o] # "none" \/ rec'[o] # "none" => pc[o] = "done"
      BY <1>3, <1>4 DEF SessionOK
    <3>2. rec'[o] = "failed" => conn'[o] = "down"
      BY <1>3, <1>4 DEF SessionOK
    <3> QED
      BY <3>1, <3>2, <1>2 DEF SessionOK
  <2>2. ASSUME NEW j \in Of({"retry", "close"}) PROVE TargetOK(j)'
    <3> SUFFICES ASSUME target'[j] # NoOne
                 PROVE  pc'[target'[j]] = "done" /\ (Kind[j] = "retry" => conn'[target'[j]] = "down")
      BY DEF TargetOK
    <3>1. target'[j] = target[j] /\ target[j] \in Opener
      BY <1>1, <1>4
    <3>2. pc[target[j]] = "done" /\ (Kind[j] = "retry" => conn[target[j]] = "down")
      BY <1>3, <3>1 DEF TargetOK
    <3> QED
      BY <1>2, <1>4, <3>1, <3>2
  <2>3. LiveIsListed'
    BY <1>4 DEF LiveIsListed
  <2>4. quit'.set \subseteq Opener
    BY TuiTypesStep DEF ScreenInv, TuiTypeOK
  <2> QED
    BY <1>2, <1>4, <2>1, <2>2, <2>3, <2>4 DEF Connected
<1>5. ASSUME UNCHANGED <<rec, conn, late, quit>>, \A j \in Of({"retry", "close"}) : target'[j] \in {target[j], NoOne}
      PROVE  Connected'
  BY <1>1, <1>3, <1>4, <1>5
\* A target is named.
<1>6. ASSUME NEW j \in Of({"retry", "close"}), NEW o \in Opener, target' = [target EXCEPT ![j] = o],
             rec[o] # "none", Kind[j] = "retry" => rec[o] = "failed",
             \/ rec' = rec
             \/ rec' = [rec EXCEPT ![o] = IF @ \in {"none", "failed"} THEN "none" ELSE "closing"],
             UNCHANGED <<conn, late, quit>>
      PROVE  Connected'
  <2>1. \A x \in Opener : rec'[x] = rec[x] \/ (rec[x] = "failed" /\ rec'[x] = "none")
                          \/ (rec[x] \in {"live", "closing"} /\ rec'[x] = "closing")
    BY <1>1, <1>6
  <2>2. ASSUME NEW x \in Opener PROVE SessionOK(x)'
    <3>1. conn'[x] # "none" \/ rec'[x] # "none" => pc[x] = "done"
      BY <1>3, <1>6, <2>1 DEF SessionOK
    <3>2. rec'[x] = "failed" => conn'[x] = "down"
      BY <1>3, <1>6, <2>1 DEF SessionOK
    <3> QED
      BY <3>1, <3>2, <1>2 DEF SessionOK
  <2>3. ASSUME NEW k \in Of({"retry", "close"}) PROVE TargetOK(k)'
    <3>1. CASE k = j
      <4>1. target'[k] = o /\ conn' = conn
        BY <1>1, <1>6, <3>1
      <4>2. pc[o] = "done" /\ (Kind[j] = "retry" => conn[o] = "down")
        BY <1>3, <1>6 DEF SessionOK
      <4>3. pc'[o] = "done"
        BY <1>2, <4>2
      <4> QED
        BY <3>1, <4>1, <4>2, <4>3 DEF TargetOK
    <3>2. CASE k # j
      <4>1. target'[k] = target[k] /\ conn' = conn
        BY <1>1, <1>6, <3>2
      <4> QED
        BY <1>1, <1>2, <1>3, <4>1 DEF TargetOK
    <3> QED
      BY <3>1, <3>2
  <2>4. LiveIsListed'
    <3>1. \A x \in Opener \ late : conn[x] = "up" => rec'[x] \in {"live", "closing"}
      BY <1>3, <2>1
    <3> QED
      BY <1>3, <1>6, <3>1 DEF LiveIsListed
  <2> QED
    BY <1>1, <1>2, <1>3, <1>6, <2>2, <2>3, <2>4 DEF Connected
<1>7. ASSUME NEW j \in Job,
             \/ Start(j) \/ Ask(j) \/ Progress(j) \/ LoadEnds(j) \/ FlowScreen(j) \/ FlowEvent(j)
             \/ ReadAgain(j)
      PROVE  Connected'
  <2>1. UNCHANGED <<rec, conn, target, late, quit>>
    BY <1>7 DEF Start, Ask, Progress, LoadEnds, FlowScreen, FlowEvent, ReadAgain, conns
  <2> QED
    BY <2>1, <1>5
<1>8. ASSUME NEW j \in Job, RetryConnection(j)
      PROVE  Connected'
  <2>1. /\ recovery \in Opener /\ j \in Of({"retry", "close"}) /\ rec[recovery] = "failed"
        /\ target' = [target EXCEPT ![j] = recovery] /\ UNCHANGED <<rec, conn, late, quit>>
    BY <1>1, <1>8 DEF RetryConnection, Of
  <2> QED
    BY <2>1, <1>6
<1>9. ASSUME NEW j \in Job, NEW o \in Opener, StartRetry(j, o)
      PROVE  Connected'
  <2>1. /\ j \in Of({"retry", "close"}) /\ rec[o] = "failed"
        /\ target' = [target EXCEPT ![j] = o] /\ UNCHANGED <<rec, conn, late, quit>>
    BY <1>9 DEF StartRetry, Of
  <2> QED
    BY <2>1, <1>6
<1>10. ASSUME NEW j \in Job, NEW o \in Opener, StartClose(j, o)
       PROVE  Connected'
  <2>1. /\ j \in Of({"retry", "close"}) /\ Kind[j] # "retry" /\ rec[o] # "none"
        /\ target' = [target EXCEPT ![j] = o] /\ UNCHANGED <<conn, late, quit>>
    BY <1>10 DEF StartClose, Of
  <2>2. rec' = [rec EXCEPT ![o] = IF @ \in {"none", "failed"} THEN "none" ELSE "closing"]
    BY <1>10 DEF StartClose, CloseRecord
  <2> QED
    BY <2>1, <2>2, <1>6
<1>11. ASSUME NEW j \in Job, WorkEnds(j)
       PROVE  Connected'
  <2>1. PICK ok \in BOOLEAN : \E e \in Ends(j, ok) : 
          Records(j, ok) /\ (e.load = "no" => Goto(j, "done"))
    BY <1>11 DEF WorkEnds
  <2>2. PICK e \in Ends(j, ok) : Records(j, ok) /\ (e.load = "no" => Goto(j, "done"))
    BY <2>1
  <2>3. /\ pc[j] \in {"opening", "run", "go", "refused"} /\ UNCHANGED <<late, quit>> /\ quit.pc # "exited"
        /\ target' = [k \in DOMAIN target |-> IF k = j THEN NoOne ELSE target[k]]
    BY <1>11 DEF WorkEnds
  <2>4. \A k \in Of({"retry", "close"}) : target'[k] \in {target[k], NoOne}
    BY <1>1, <2>3
  <2>5. CASE Kind[j] \in {"open", "retry"} /\ ok
    <3>1. /\ rec' = [o \in Opener |-> IF o = j THEN "live"
                                      ELSE IF Kind[j] = "retry" /\ o = target[j] THEN "none" ELSE rec[o]]
          /\ conn' = [conn EXCEPT ![j] = "up"]
      BY <2>2, <2>5 DEF Records
    <3>2. j \in Opener /\ pc'[j] = "done"
      <4>1. e.load = "no"
        BY <2>5, WorksEnd DEF ScreenInv, TuiTypeOK
      <4> QED
        BY <1>1, <2>2, <2>5, <4>1 DEF Goto, Opener, Of
    <3>3. ASSUME NEW o \in Opener PROVE SessionOK(o)'
      <4>1. CASE o = j
        <5>1. rec'[o] = "live"
          BY <3>1, <4>1
        <5> QED
          BY <3>2, <4>1, <5>1 DEF SessionOK
      <4>2. CASE o # j
        <5>1. conn'[o] = conn[o] /\ rec'[o] \in {"none", rec[o]}
          BY <1>1, <3>1, <4>2
        <5>2. conn'[o] # "none" \/ rec'[o] # "none" => pc[o] = "done"
          BY <1>3, <5>1 DEF SessionOK
        <5>3. rec'[o] = "failed" => conn'[o] = "down"
          BY <1>3, <5>1 DEF SessionOK
        <5> QED
          BY <1>2, <5>2, <5>3 DEF SessionOK
      <4> QED
        BY <4>1, <4>2
    <3>4. ASSUME NEW k \in Of({"retry", "close"}) PROVE TargetOK(k)'
      <4> SUFFICES ASSUME target'[k] # NoOne
                   PROVE  pc'[target'[k]] = "done" /\ (Kind[k] = "retry" => conn'[target'[k]] = "down")
        BY DEF TargetOK
      <4>1. target'[k] = target[k] /\ target[k] \in Opener
        BY <1>1, <2>4
      <4>2. pc[target[k]] = "done" /\ (Kind[k] = "retry" => conn[target[k]] = "down")
        BY <1>3, <4>1 DEF TargetOK
      <4>3. target[k] # j
        BY <2>3, <4>2
      <4> QED
        BY <1>1, <1>2, <3>1, <3>2, <4>1, <4>2, <4>3
    <3>5. LiveIsListed'
      <4> SUFFICES ASSUME NEW o \in Opener \ late, conn'[o] = "up"
                   PROVE  rec'[o] \in {"live", "closing"}
        BY <2>3 DEF LiveIsListed
      <4>1. CASE o = j
        BY <3>1, <4>1
      <4>2. CASE o # j
        <5>1. conn[o] = "up"
          BY <1>1, <3>1, <4>2
        <5>2. rec[o] \in {"live", "closing"}
          BY <1>3, <5>1
        <5>3. ~(Kind[j] = "retry" /\ o = target[j])
          <6> SUFFICES ASSUME Kind[j] = "retry", o = target[j] PROVE FALSE
            OBVIOUS
          <6>1. j \in Of({"retry", "close"})
            BY DEF Of
          <6>2. TargetOK(j) /\ target[j] # NoOne
            BY <1>1, <1>3, <6>1
          <6> QED
            BY <5>1, <6>2 DEF TargetOK
        <5> QED
          BY <3>1, <4>2, <5>2, <5>3
      <4> QED
        BY <4>1, <4>2
    <3> QED
      BY <1>1, <1>2, <1>3, <2>3, <3>3, <3>4, <3>5 DEF Connected
  <2>6. CASE Kind[j] = "close"
    <3>1. /\ rec' = [rec EXCEPT ![target[j]] = IF @ # "closing" THEN @ ELSE IF ok THEN "none" ELSE "failed"]
          /\ conn' = [conn EXCEPT ![target[j]] = "down"]
      BY <2>2, <2>6 DEF Records
    <3>2. \A o \in Opener : IF o = target[j]
                            THEN conn'[o] = "down" /\ (rec'[o] = rec[o] \/ rec[o] = "closing")
                            ELSE conn'[o] = conn[o] /\ rec'[o] = rec[o]
      BY <1>1, <3>1
    <3>3. ASSUME NEW o \in Opener, o = target[j] PROVE pc[o] = "done"
      <4>1. j \in Of({"retry", "close"})
        BY <2>6 DEF Of
      <4> QED
        BY <1>1, <1>3, <3>3, <4>1 DEF TargetOK
    <3>4. ASSUME NEW o \in Opener PROVE SessionOK(o)'
      <4>1. conn'[o] # "none" \/ rec'[o] # "none" => pc[o] = "done"
        BY <1>3, <3>2, <3>3 DEF SessionOK
      <4>2. rec'[o] = "failed" => conn'[o] = "down"
        BY <1>3, <3>2 DEF SessionOK
      <4> QED
        BY <1>2, <4>1, <4>2 DEF SessionOK
    <3>5. ASSUME NEW k \in Of({"retry", "close"}) PROVE TargetOK(k)'
      <4> SUFFICES ASSUME target'[k] # NoOne
                   PROVE  pc'[target'[k]] = "done" /\ (Kind[k] = "retry" => conn'[target'[k]] = "down")
        BY DEF TargetOK
      <4>1. target'[k] = target[k] /\ target[k] \in Opener
        BY <1>1, <2>4
      <4>2. pc[target[k]] = "done" /\ (Kind[k] = "retry" => conn[target[k]] = "down")
        BY <1>3, <4>1 DEF TargetOK
      <4> QED
        BY <1>2, <3>2, <4>1, <4>2
    <3>6. LiveIsListed'
      <4> SUFFICES ASSUME NEW o \in Opener \ late, conn'[o] = "up"
                   PROVE  rec'[o] \in {"live", "closing"}
        BY <2>3 DEF LiveIsListed
      <4> QED
        BY <1>3, <3>2
    <3> QED
      BY <1>1, <1>2, <1>3, <2>3, <3>4, <3>5, <3>6 DEF Connected
  <2>7. CASE ~(Kind[j] \in {"open", "retry"} /\ ok) /\ Kind[j] # "close"
    <3>1. UNCHANGED <<rec, conn>>
      BY <2>2, <2>7 DEF Records
    <3> QED
      BY <2>3, <2>4, <3>1, <1>5
  <2> QED
    BY <2>5, <2>6, <2>7
<1>12. CASE \/ \E a \in {"trust", "confirm", "decline"} : Answer(a)
            \/ LeaveWizard \/ Cancel \/ RetryRemoval \/ UNCHANGED tuiVars
            \/ \E o \in Opener : Report(o)
  <2>1. UNCHANGED <<rec, conn, target, late, quit>>
    BY <1>12 DEF Answer, LeaveWizard, Cancel, RetryRemoval, Report, tuiVars, conns
  <2> QED
    BY <2>1, <1>5
<1>13. CASE Dismiss
  <2>1. UNCHANGED <<conn, target, late, quit>>
    BY <1>13 DEF Dismiss
  <2>2. \A o \in Opener : rec'[o] = rec[o] \/ (rec[o] = "failed" /\ rec'[o] = "none")
    BY <1>13 DEF Dismiss
  <2>3. \A o \in Opener \ late' : conn'[o] = "up" =>
          rec'[o] \in {"live", "closing"} /\ (quit'.pc = "exited" => o \in quit'.set)
    BY <1>3, <2>1, <2>2
  <2> QED
    BY <1>1, <1>3, <1>4, <2>1, <2>2, <2>3
<1>14. ASSUME NEW x \in Opener, SessionEnds(x)
       PROVE  Connected'
  <2>1. /\ UNCHANGED <<target, late, quit>> /\ conn[x] = "up" /\ quit.pc # "exited"
        /\ conn' = [conn EXCEPT ![x] = "down"]
        /\ \E q \in {"none", "failed"} : rec' = [rec EXCEPT ![x] = IF @ \in {"live", "closing"} THEN q ELSE @]
    BY <1>14 DEF SessionEnds
  <2>2. \A o \in Opener : IF o = x
                          THEN conn[o] = "up" /\ conn'[o] = "down" /\ (rec'[o] # "none" => rec[o] # "none")
                          ELSE conn'[o] = conn[o] /\ rec'[o] = rec[o]
    BY <1>1, <2>1
  <2>4. pc[x] = "done"
    BY <1>3, <2>1 DEF SessionOK
  <2>3. \A o \in Opener \ late' : conn'[o] = "up" =>
          rec'[o] \in {"live", "closing"} /\ (quit'.pc = "exited" => o \in quit'.set)
    BY <1>3, <2>1, <2>2
  <2> QED
    BY <1>1, <1>3, <1>4, <2>1, <2>2, <2>3, <2>4
<1>15. CASE RequestExit \/ ExitFromFlow
  <2>1. UNCHANGED <<conn, target, late>>
    BY <1>15 DEF RequestExit, ExitFromFlow
  <2>2. \/ Owned = {} /\ quit'.pc = "exited" /\ rec' = rec
        \/ /\ quit'.set = Owned
           /\ rec' = [o \in Opener |-> IF o \in Owned THEN "closing" ELSE rec[o]]
    BY <1>15 DEF RequestExit, ExitFromFlow
  <2>3. \A o \in Opener : rec'[o] = rec[o] \/ (rec[o] \in {"live", "closing"} /\ rec'[o] = "closing")
    BY <2>2 DEF Owned
  <2>4. \A o \in Opener \ late' : conn'[o] = "up" =>
          rec'[o] \in {"live", "closing"} /\ (quit'.pc = "exited" => o \in quit'.set)
    <3> SUFFICES ASSUME NEW o \in Opener \ late, conn[o] = "up"
                 PROVE  rec'[o] \in {"live", "closing"} /\ (quit'.pc = "exited" => o \in quit'.set)
      BY <2>1
    <3>1. o \in Owned
      BY <1>3 DEF Owned
    <3> QED
      BY <2>2, <3>1
  <2>5. \A o \in quit'.set : pc[o] = "done"
    <3>1. quit'.set \subseteq Owned
      BY <1>15 DEF RequestExit, ExitFromFlow
    <3> QED
      BY <1>3, <3>1 DEF SessionOK, Owned
  <2> QED
    BY <1>1, <1>3, <1>4, <2>1, <2>3, <2>4, <2>5
<1>16. CASE Unmounted \/ ExitCloses
  <2>1. /\ conn' = [o \in Opener |-> IF o \in quit.set THEN "down" ELSE conn[o]]
        /\ rec' = [o \in Opener |-> "none"] /\ target' = target
        /\ \/ quit.pc = "exited" /\ late' = late
           \/ late' = late \cup (Owned \ quit.set)
    BY <1>16 DEF Unmounted, ExitCloses
  <2>2. \A o \in Opener \ late' : conn'[o] # "up"
    <3> SUFFICES ASSUME NEW o \in Opener \ late', conn'[o] = "up" PROVE FALSE
      OBVIOUS
    <3>1. o \notin quit.set /\ conn[o] = "up" /\ o \notin late
      BY <2>1
    <3>2. o \in Owned /\ quit.pc # "exited"
      BY <1>3, <3>1 DEF Owned
    <3> QED
      BY <2>1, <3>1, <3>2
  <2>3. quit'.set = {}
    BY <1>1, <1>16 DEF Unmounted, ExitCloses
  <2>4. \A o \in Opener : conn'[o] = conn[o] \/ (conn'[o] = "down" /\ pc[o] = "done")
    BY <1>3, <2>1
  <2>5. late \subseteq late'
    BY <2>1
  <2> QED
    BY <1>1, <1>4, <2>1, <2>2, <2>3, <2>4, <2>5
<1> QED
  BY <1>7, <1>8, <1>9, <1>10, <1>11, <1>12, <1>13, <1>14, <1>15, <1>16, Zenon DEF TuiNext

LEMMA ConnectedInit == TuiInit => Connected
<1> SUFFICES ASSUME TuiInit PROVE Connected
  OBVIOUS
<1>1. /\ conn = [o \in Opener |-> "none"] /\ rec = [o \in Opener |-> "none"]
      /\ target = [j \in Of({"retry", "close"}) |-> NoOne] /\ quit = [pc |-> "no", set |-> {}]
  BY DEF TuiInit
<1>2. \A o \in Opener : SessionOK(o)
  BY <1>1 DEF SessionOK
<1>3. \A j \in Of({"retry", "close"}) : TargetOK(j)
  BY <1>1 DEF TargetOK
<1>4. LiveIsListed
  BY <1>1 DEF LiveIsListed
<1> QED
  BY <1>1, <1>2, <1>3, <1>4 DEF Connected

(***************************************************************************)
(* Theorems                                                                *)
(***************************************************************************)
\* The variables of the interface have the types that their comments state.
THEOREM TuiTypeCorrect == TuiSpec => []TuiTypeOK
BY ScreenInductive, PTL DEF ScreenInv

\* Nobody is left before a screen that hides a question or leads nowhere, whatever
\* handlers are called, how often and in which order their answers come (the
\* operation screen of TuiApp in tui.tsx).
THEOREM ScreensLeadOn == TuiSpec => []ScreenLeadsOn
<1>1. ScreenInv => ScreenLeadsOn
  BY LeadsOn DEF ScreenInv
<1> QED
  BY <1>1, ScreenInductive, PTL

\* An open connection is listed until the interface has closed it, and the exit
\* closes every one but those that opened while it waited (tui-foreground-connections.ts).
THEOREM LiveOnesAreListed == TuiSpec => []LiveIsListed
<1>1. TuiInit => Connected
  BY ConnectedInit
<1>2. ScreenInv /\ Connected /\ [TuiNext]_tuiVars => Connected'
  BY ConnectedStep
<1>3. Connected => LiveIsListed
  BY DEF Connected
<1> QED
  BY <1>1, <1>2, <1>3, ScreenInductive, PTL DEF TuiSpec

\* An overtaken load never replaces what a later one has shown (refresh in tui.tsx).
THEOREM TheNewestLoadWins == TuiSpec => NewestWins
<1>1. ScreenInv /\ [TuiNext]_tuiVars => [snap' >= snap]_tuiVars
  <2>1. ScreenInv /\ [TuiNext]_tuiVars => snap' >= snap
    BY NewestStep DEF ScreenInv
  <2> QED
    BY <2>1
<1> QED
  BY <1>1, ScreenInductive, PTL DEF TuiSpec, NewestWins

==============================================================================
