--------------------------- MODULE DaemonSessions ---------------------------
(***************************************************************************)
(* The Connection Sessions of the local daemon (startLocalConnectionDaemon *)
(* and its handlers of /sessions and /connection-drains): setups that may  *)
(* answer late, idempotency keys, closings that fail, the bounded record   *)
(* of failed sessions, drains of an instance, and the shutdown.            *)
(*                                                                         *)
(* As in EndpointIntents, an action is the code between two awaits, and    *)
(* callbacks of settled promises run before the next I/O event (Quiet).    *)
(* The intents' part of a drain and of the shutdown is that module's.      *)
(***************************************************************************)
EXTENDS Naturals, Sequences, FiniteSets

CONSTANTS
  Session,    \* setups, with the sessions they open
  Instance,   \* compute instances
  Key,        \* idempotency keys
  Closer,     \* calls of DELETE /sessions/id
  Drainer,    \* clients that drain an instance
  Retained,   \* MAX_RETAINED_FAILED_SESSIONS
  None        \* no key, no session

ASSUME SessionsAssumption ==
  /\ Retained \in Nat \ {0}
  /\ None \notin Session \cup Key
  /\ Closer \cap Drainer = {}

VARIABLES
  setup,     \* createSession operations: request and progress
  tunnel,    \* the session each opened (external): its closing, whether the
             \* daemon has still to hear of its end
  tab,       \* sessions, their descriptors' state, the failed ones by failedAt,
             \* sessionIdsByIdempotencyKey; history: the failed ones given up
  pending,   \* pendingIdempotentSessions
  cleanup,   \* pendingSessionCleanups
  drained,   \* drainedInstances
  act,       \* handlers of DELETE /sessions/id and of drains
  shut       \* the shutdown and the sessions it waits for

vars == <<setup, tunnel, tab, pending, cleanup, drained, act, shut>>

Actor == Closer \cup Drainer
Frame(pc) == [pc |-> pc, inst |-> None, sess |-> None, todo |-> {}, wait |-> {}]
Done == Frame("done")

Settled(s) == tunnel[s].state \in {"closed", "failed"}
CloseSession(f, s) == [f EXCEPT ![s].state = IF @ = "open" THEN "closing" ELSE @]
CloseAll(S) == [s \in Session |-> IF s \in S THEN CloseSession(tunnel, s)[s] ELSE tunnel[s]]

Listed(s) == tab.state[s] # "none"
Owned == {s \in Session : Listed(s)}
InSetup(s) == setup[s].pc \in {"opening", "closingLate"}
OfInstance(i) == {s \in Session : setup[s].pc # "unused" /\ setup[s].inst = i}

\* pendingConnectionOperations of an instance
Tracked(i) == {s \in OfInstance(i) : InSetup(s)}

(***************************************************************************)
(* The table of sessions                                                   *)
(***************************************************************************)
\* A session is in the list of failed ones once at most.
Without(q, s) ==
  LET at == CHOOSE n \in DOMAIN q : q[n] = s IN
  IF \E n \in DOMAIN q : q[n] = s
  THEN SubSeq(q, 1, at - 1) \o SubSeq(q, at + 1, Len(q))
  ELSE q

\* sessions.delete and releaseIdempotencyKey
Forget(t, s) ==
  [t EXCEPT !.state[s] = "none", !.failed = Without(@, s),
            !.key = [k \in Key |-> IF @[k] = s THEN None ELSE @[k]]]

MarkClosing(t, s) ==
  [t EXCEPT !.state[s] = "closing", !.failed = Without(@, s)]

\* The oldest failed session goes when there are too many; closing it once more
\* has no effect, since its closing has failed.
MarkFailed(t, s) ==
  IF t.state[s] = "none" THEN t
  ELSE LET u == [t EXCEPT !.state[s] = "failed", !.failed = Append(Without(@, s), s)]
       IN IF Len(u.failed) <= Retained THEN u
          ELSE [Forget(u, Head(u.failed)) EXCEPT !.dropped = @ \cup {Head(u.failed)}]

\* The rest of closeOwnedSession once session.close() has settled.
Closed(t, s) ==
  IF tunnel[s].state = "failed" THEN MarkFailed(t, s)
  ELSE IF t.state[s] \in {"none", "failed"} THEN t
  ELSE Forget(t, s)

(***************************************************************************)
(* Scheduling                                                              *)
(***************************************************************************)
Waits == {"close", "drainClose", "cleanClose"}
Runs  == {"drainLoop", "cleanLoop"}

Ready(a) ==
  \/ act[a].pc \in Waits /\ Settled(act[a].sess)
  \/ act[a].pc \in Runs
  \/ act[a].pc = "beginWait" /\ \A s \in act[a].wait : ~InSetup(s)

SessionReady(s) == Settled(s) /\ (setup[s].pc = "closingLate" \/ tunnel[s].watched)

ShutReady == shut.pc \in {"sessions", "cleanups"} /\ \A s \in shut.wait : Settled(s)

Quiet == (\A a \in Actor : ~Ready(a)) /\ (\A s \in Session : ~SessionReady(s)) /\ ~ShutReady

Serving == shut.pc = "open" /\ Quiet

Init ==
  /\ setup = [s \in Session |-> [pc |-> "unused", inst |-> None, key |-> None, aborted |-> FALSE]]
  /\ tunnel = [s \in Session |-> [state |-> "none", watched |-> FALSE]]
  /\ tab = [state |-> [s \in Session |-> "none"], failed |-> <<>>,
            key |-> [k \in Key |-> None], dropped |-> {}]
  /\ pending = [k \in Key |-> None]
  /\ cleanup = {} /\ drained = {}
  /\ act = [a \in Actor |-> Frame("idle")]
  /\ shut = [pc |-> "open", wait |-> {}]

(***************************************************************************)
(* POST /sessions.  A request that is refused, finds the live session of   *)
(* its key or joins a pending setup changes nothing.                       *)
(***************************************************************************)
\* Mutant: a setup in flight for the same key is not looked at.
PostTwice(s, i, k) ==
  /\ Serving /\ setup[s].pc = "unused" /\ i \notin drained
  /\ k \in Key => tab.key[k] \notin Owned
  /\ setup' = [setup EXCEPT ![s] = [pc |-> "opening", inst |-> i, key |-> k, aborted |-> FALSE]]
  /\ pending' = [j \in Key |-> IF j = k THEN s ELSE pending[j]]
  /\ tab' = [tab EXCEPT !.key = [j \in Key |-> IF j = k THEN None ELSE @[j]]]
  /\ UNCHANGED <<tunnel, cleanup, drained, act, shut>>

Post(s, i, k) ==
  /\ Serving /\ setup[s].pc = "unused" /\ i \notin drained
  /\ k \in Key => tab.key[k] \notin Owned /\ pending[k] = None
  /\ setup' = [setup EXCEPT ![s] = [pc |-> "opening", inst |-> i, key |-> k, aborted |-> FALSE]]
  /\ pending' = [j \in Key |-> IF j = k THEN s ELSE pending[j]]
  /\ tab' = [tab EXCEPT !.key = [j \in Key |-> IF j = k THEN None ELSE @[j]]]
  /\ UNCHANGED <<tunnel, cleanup, drained, act, shut>>

\* The operation has settled: it is no longer tracked, and the finally of the
\* handler forgets the pending key.  Both run before anything reads either.
SetupEnds(s) ==
  /\ setup' = [setup EXCEPT ![s].pc = "done"]
  /\ pending' = [k \in Key |-> IF pending[k] = s THEN None ELSE pending[k]]

OpenRejects(s) ==
  /\ Quiet /\ setup[s].pc = "opening"
  /\ SetupEnds(s)
  /\ UNCHANGED <<tunnel, tab, cleanup, drained, act, shut>>

Publish(s) ==
  /\ tunnel' = [tunnel EXCEPT ![s] = [state |-> "open", watched |-> TRUE]]
  /\ tab' = [tab EXCEPT !.state[s] = "live",
                        !.key = [k \in Key |-> IF k = setup[s].key THEN s ELSE @[k]]]
  /\ SetupEnds(s)

\* Mutant: the shutdown that began during the setup is not noticed.
OpenResolvesUnaware(s) ==
  /\ Quiet /\ setup[s].pc = "opening"
  /\ IF setup[s].inst \notin drained
     THEN Publish(s)
     ELSE /\ tunnel' = [tunnel EXCEPT ![s].state = "closing"]
          /\ setup' = [setup EXCEPT ![s].pc = "closingLate"]
          /\ UNCHANGED <<tab, pending>>
  /\ UNCHANGED <<cleanup, drained, act, shut>>

OpenResolves(s) ==
  /\ Quiet /\ setup[s].pc = "opening"
  /\ IF shut.pc = "open" /\ setup[s].inst \notin drained
     THEN Publish(s)
     ELSE /\ tunnel' = [tunnel EXCEPT ![s].state = "closing"]
          /\ setup' = [setup EXCEPT ![s].pc = "closingLate"]
          /\ UNCHANGED <<tab, pending>>
  /\ UNCHANGED <<cleanup, drained, act, shut>>

\* Mutant: the late session that could not be closed is not remembered.
LateClosedForgetful(s) ==
  /\ setup[s].pc = "closingLate" /\ Settled(s)
  /\ SetupEnds(s)
  /\ UNCHANGED <<tunnel, tab, cleanup, drained, act, shut>>

LateClosed(s) ==
  /\ setup[s].pc = "closingLate" /\ Settled(s)
  /\ SetupEnds(s)
  /\ cleanup' = IF tunnel[s].state = "failed" THEN cleanup \cup {s} ELSE cleanup
  /\ UNCHANGED <<tunnel, tab, drained, act, shut>>

(***************************************************************************)
(* Sessions (external, LiveConnectionSession): a tunnel dies or is closed  *)
(* once; every later close() gets the result of that closing.              *)
(***************************************************************************)
TransportDies(s) ==
  /\ Quiet /\ tunnel[s].state = "open"
  /\ tunnel' = CloseSession(tunnel, s)
  /\ UNCHANGED <<setup, tab, pending, cleanup, drained, act, shut>>

CloseSettles(s) ==
  /\ Quiet /\ tunnel[s].state = "closing"
  /\ \E r \in {"closed", "failed"} : tunnel' = [tunnel EXCEPT ![s].state = r]
  /\ UNCHANGED <<setup, tab, pending, cleanup, drained, act, shut>>

\* The reactions of createSession to session.closed.
ClosureNoticed(s) ==
  /\ tunnel[s].watched /\ Settled(s)
  /\ tunnel' = [tunnel EXCEPT ![s].watched = FALSE]
  /\ tab' = IF tunnel[s].state = "failed" THEN MarkFailed(tab, s)
            ELSE IF tab.state[s] = "live" THEN Forget(tab, s)
            ELSE tab
  /\ UNCHANGED <<setup, pending, cleanup, drained, act, shut>>

(***************************************************************************)
(* closeOwnedSession, for DELETE /sessions/id and for a drain              *)
(***************************************************************************)
Do(a, frame) == act' = [act EXCEPT ![a] = frame]

CloseOwned(a, s, frame) ==
  /\ tab' = MarkClosing(tab, s)
  /\ tunnel' = CloseSession(tunnel, s)
  /\ Do(a, [frame EXCEPT !.sess = s])

Delete(c, s) ==
  /\ Serving /\ act[c].pc = "idle" /\ Listed(s)
  /\ CloseOwned(c, s, Frame("close"))
  /\ UNCHANGED <<setup, pending, cleanup, drained, shut>>

Deleted(c) ==
  /\ act[c].pc = "close" /\ Settled(act[c].sess)
  /\ tab' = Closed(tab, act[c].sess)
  /\ Do(c, Done)
  /\ UNCHANGED <<setup, tunnel, pending, cleanup, drained, shut>>

(***************************************************************************)
(* Drain: POST /connection-drains, .../close, DELETE                       *)
(***************************************************************************)
BeginDrain(d, i) ==
  /\ Serving /\ act[d].pc = "idle" /\ i \notin drained
  /\ drained' = drained \cup {i}
  /\ Do(d, [Frame(IF Tracked(i) = {} THEN "granted" ELSE "beginWait")
              EXCEPT !.inst = i, !.wait = Tracked(i)])
  /\ UNCHANGED <<setup, tunnel, tab, pending, cleanup, shut>>

BeginWaited(d) ==
  /\ act[d].pc = "beginWait" /\ \A s \in act[d].wait : ~InSetup(s)
  /\ LET w == Tracked(act[d].inst) IN
     Do(d, [act[d] EXCEPT !.pc = IF w = {} THEN "granted" ELSE "beginWait", !.wait = w])
  /\ UNCHANGED <<setup, tunnel, tab, pending, cleanup, drained, shut>>

CloseForDrain(d) ==
  /\ act[d].pc = "granted" /\ Serving
  /\ Do(d, [act[d] EXCEPT !.pc = "intents"])
  /\ UNCHANGED <<setup, tunnel, tab, pending, cleanup, drained, shut>>

\* drainInstance has returned or thrown; the sessions are read now.
IntentsDrained(d) ==
  /\ act[d].pc = "intents" /\ Quiet
  /\ Do(d, [act[d] EXCEPT !.pc = "drainLoop", !.todo = OfInstance(act[d].inst) \cap Owned])
  /\ UNCHANGED <<setup, tunnel, tab, pending, cleanup, drained, shut>>

DrainNext(d) ==
  /\ act[d].pc = "drainLoop"
  /\ \E s \in act[d].todo :
       LET rest == [act[d] EXCEPT !.todo = @ \ {s}] IN
       IF Listed(s)
       THEN CloseOwned(d, s, [rest EXCEPT !.pc = "drainClose"])
       ELSE Do(d, rest) /\ UNCHANGED <<tab, tunnel>>
  /\ UNCHANGED <<setup, pending, cleanup, drained, shut>>

DrainClosed(d) ==
  /\ act[d].pc = "drainClose" /\ Settled(act[d].sess)
  /\ tab' = Closed(tab, act[d].sess)
  /\ Do(d, [act[d] EXCEPT !.pc = "drainLoop", !.sess = None])
  /\ UNCHANGED <<setup, tunnel, pending, cleanup, drained, shut>>

SessionsVisited(d) ==
  /\ act[d].pc = "drainLoop" /\ act[d].todo = {}
  /\ Do(d, [act[d] EXCEPT !.pc = "cleanLoop", !.todo = cleanup \cap OfInstance(act[d].inst)])
  /\ UNCHANGED <<setup, tunnel, tab, pending, cleanup, drained, shut>>

CleanNext(d) ==
  /\ act[d].pc = "cleanLoop"
  /\ \E s \in act[d].todo :
       /\ Do(d, [act[d] EXCEPT !.pc = "cleanClose", !.sess = s, !.todo = @ \ {s}])
       /\ tunnel' = CloseSession(tunnel, s)
  /\ UNCHANGED <<setup, tab, pending, cleanup, drained, shut>>

CleanClosed(d) ==
  /\ act[d].pc = "cleanClose" /\ Settled(act[d].sess)
  /\ cleanup' = IF tunnel[act[d].sess].state = "closed" THEN cleanup \ {act[d].sess} ELSE cleanup
  /\ Do(d, [act[d] EXCEPT !.pc = "cleanLoop", !.sess = None])
  /\ UNCHANGED <<setup, tunnel, tab, pending, drained, shut>>

\* Intents of the instance may remain, too; and during the shutdown the answer does
\* not reach the client, whose connection closeHttpServer has cut.
Verdict(d) ==
  /\ act[d].pc = "cleanLoop" /\ act[d].todo = {}
  /\ LET i == act[d].inst
         remaining == OfInstance(i) \cap (Owned \cup cleanup) IN
     \E pc \in IF remaining = {} /\ shut.pc = "open" THEN {"drained", "refused"} ELSE {"refused"} :
       Do(d, [Frame(pc) EXCEPT !.inst = i])
  /\ UNCHANGED <<setup, tunnel, tab, pending, cleanup, drained, shut>>

ReleaseDrain(d) ==
  /\ act[d].pc \in {"granted", "refused", "drained"} /\ Serving
  /\ drained' = drained \ {act[d].inst}
  /\ Do(d, Done)
  /\ UNCHANGED <<setup, tunnel, tab, pending, cleanup, shut>>

(***************************************************************************)
(* close() of the daemon                                                   *)
(***************************************************************************)
\* closing is set and the setups in flight are aborted; then the HTTP server
\* and the intents are closed.
Stop ==
  /\ shut.pc = "open" /\ Quiet
  /\ shut' = [shut EXCEPT !.pc = "server"]
  /\ setup' = [s \in Session |-> [setup[s] EXCEPT !.aborted = @ \/ setup[s].pc = "opening"]]
  /\ UNCHANGED <<tunnel, tab, pending, cleanup, drained, act>>

CloseSessions ==
  /\ shut.pc = "server" /\ Quiet
  /\ shut' = [pc |-> "sessions", wait |-> Owned] /\ tunnel' = CloseAll(Owned)
  /\ UNCHANGED <<setup, tab, pending, cleanup, drained, act>>

\* The results are entered and the table is emptied; markFailed leaves no trace.
CloseCleanups ==
  /\ shut.pc = "sessions" /\ \A s \in shut.wait : Settled(s)
  /\ tab' = [tab EXCEPT !.state = [s \in Session |-> "none"], !.failed = <<>>]
  /\ shut' = [pc |-> "cleanups", wait |-> cleanup] /\ tunnel' = CloseAll(cleanup)
  /\ UNCHANGED <<setup, pending, cleanup, drained, act>>

CleanupsClosed ==
  /\ shut.pc = "cleanups" /\ \A s \in shut.wait : Settled(s)
  /\ cleanup' = cleanup \ {s \in shut.wait : tunnel[s].state = "closed"}
  /\ shut' = [pc |-> "closed", wait |-> {}]
  /\ UNCHANGED <<setup, tunnel, tab, pending, drained, act>>

-----------------------------------------------------------------------------
SessionStep(s) ==
  \/ \E i \in Instance, k \in Key \cup {None} : Post(s, i, k)
  \/ OpenRejects(s) \/ OpenResolves(s) \/ LateClosed(s)
  \/ TransportDies(s) \/ CloseSettles(s) \/ ClosureNoticed(s)

CloserStep(c) == Deleted(c) \/ \E s \in Session : Delete(c, s)

DrainStep(d) ==
  \/ \E i \in Instance : BeginDrain(d, i)
  \/ BeginWaited(d) \/ CloseForDrain(d) \/ IntentsDrained(d)
  \/ DrainNext(d) \/ DrainClosed(d) \/ SessionsVisited(d)
  \/ CleanNext(d) \/ CleanClosed(d) \/ Verdict(d) \/ ReleaseDrain(d)

ShutdownStep == Stop \/ CloseSessions \/ CloseCleanups \/ CleanupsClosed

Next ==
  \/ \E s \in Session : SessionStep(s)
  \/ \E c \in Closer : CloserStep(c)
  \/ \E d \in Drainer : DrainStep(d)
  \/ ShutdownStep

Spec == Init /\ [][Next]_vars

-----------------------------------------------------------------------------
(***************************************************************************)
(* Properties                                                              *)
(***************************************************************************)
TypeOK ==
  /\ setup \in [Session -> [pc : {"unused", "opening", "closingLate", "done"},
                            inst : Instance \cup {None}, key : Key \cup {None},
                            aborted : BOOLEAN]]
  /\ tunnel \in [Session -> [state : {"none", "open", "closing", "closed", "failed"},
                             watched : BOOLEAN]]
  /\ tab.state \in [Session -> {"none", "live", "closing", "failed"}]
  /\ tab.key \in [Key -> Session \cup {None}]
  /\ tab.failed \in Seq(Session) /\ Len(tab.failed) <= Retained
  /\ {tab.failed[n] : n \in DOMAIN tab.failed} = {s \in Session : tab.state[s] = "failed"}
  /\ tab.dropped \subseteq Session
  /\ pending \in [Key -> Session \cup {None}]
  /\ cleanup \subseteq Session /\ drained \subseteq Instance
  /\ \A a \in Actor :
       /\ act[a].pc \in {"idle", "done", "beginWait", "granted", "intents", "refused", "drained"}
                          \cup Waits \cup Runs
       /\ act[a].inst \in Instance \cup {None} /\ act[a].sess \in Session \cup {None}
       /\ act[a].todo \cup act[a].wait \subseteq Session
       /\ act[a].pc \in Waits => act[a].sess \in Session
  /\ shut.pc \in {"open", "server", "sessions", "cleanups", "closed"}
  /\ shut.wait \subseteq Session

\* However requests with one idempotency key, closings, failures and evictions
\* interleave: at most one setup or session has the key, and who uses the key
\* again finds that session, until it has been closed.
OneSessionPerKey ==
  \A k \in Key :
    LET holders == {s \in Session : setup[s].key = k /\ (InSetup(s) \/ Listed(s))} IN
    /\ Cardinality(holders) <= 1
    /\ \A s \in holders : s \in {tab.key[k], pending[k]}

\* What GET /sessions shows is true: a live session is open or its end will be
\* noticed, a failed one has failed, one that is closing has somebody who waits
\* for it and will enter the result; and an open tunnel is shown as live.
StatusTellsTheTruth ==
  shut.pc \in {"open", "server"} =>
    \A s \in Session :
      /\ tab.state[s] = "live" => tunnel[s].watched
      /\ tab.state[s] = "failed" => tunnel[s].state = "failed"
      /\ tab.state[s] = "closing" => \E a \in Actor : act[a].pc \in Waits /\ act[a].sess = s
      /\ tunnel[s].state = "open" => tab.state[s] = "live"

\* A session that could not be closed stays visible to the daemon, as a failed
\* session or as a pending cleanup, whoever tried to close it, unless more recent
\* failures took its place.
FailureIsKept ==
  (Quiet /\ shut.pc \in {"open", "server"}) =>
    \A s \in Session : tunnel[s].state = "failed" =>
      tab.state[s] = "failed" \/ s \in cleanup \cup tab.dropped

\* While the client that drained an instance destroys it, no session of it is
\* being set up, open or closing, and every closing of one succeeded (as far as
\* failures are remembered).
DrainLeavesNothing ==
  \A d \in Drainer : act[d].pc = "drained" =>
    \A s \in OfInstance(act[d].inst) :
      ~InSetup(s) /\ (tunnel[s].state \in {"none", "closed"} \/ s \in tab.dropped)

\* After the daemon's close() no tunnel is open; the only one still closing is
\* one whose setup was aborted and answered too late.
ShutdownClosesAll ==
  shut.pc = "closed" =>
    \A s \in Session :
      /\ tunnel[s].state # "open"
      /\ tunnel[s].state = "closing" => setup[s].pc = "closingLate"
      /\ setup[s].pc = "opening" => setup[s].aborted

\* What GET /sessions shows is true, and a session that could not be closed stays
\* known to the daemon.
FailuresAreTold == StatusTellsTheTruth /\ FailureIsKept

\* Neither a drain nor a shutdown leaves a tunnel open.
NothingStaysOpen == DrainLeavesNothing /\ ShutdownClosesAll

\* docs/background-connections.md: "Closing that failed Session retries cleanup".
ClosingRetries ==
  [][\A s \in Session : (tab.state[s] = "failed" /\ tab'.state[s] = "closing")
       => tunnel'[s].state # "failed"]_vars

=============================================================================
