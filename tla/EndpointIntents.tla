--------------------------- MODULE EndpointIntents ---------------------------
(***************************************************************************)
(* The saved connections ("Endpoint intents") of the local daemon:         *)
(* EndpointIntentService, the HTTP handlers of /intents that call it, and  *)
(* the connection drain of an instance that precedes its destruction.      *)
(*                                                                         *)
(* The daemon is one JavaScript thread.  An action is the code between two *)
(* awaits.  Callbacks of settled promises run before the next I/O event    *)
(* (operator Quiet); several of them run in any order.                     *)
(*                                                                         *)
(* JsonStateStore.update is the atomic step StateStore shows it to be.     *)
(* openEndpoint and the sessions it returns are the gateway's: it answers  *)
(* at any time, whether aborted or not; a session closes once, for its     *)
(* owner or by itself, and every call of close() joins that one closing.   *)
(***************************************************************************)
EXTENDS Naturals, FiniteSets

CONSTANTS
  Name,              \* names of intents
  Instance,          \* compute instances
  MaxLife,           \* how many runtime objects one name may have
  Real,              \* realizations; each opens at most one session
  Request,           \* calls of create, setEnabled, retry and remove
  Drainer,           \* clients that drain an instance in order to destroy it
  Overlap,           \* may calls on one name overlap (see Starting)?
  StoreMayFail       \* may JsonStateStore.update throw?

ASSUME IntentsAssumption ==
  /\ MaxLife \in Nat \ {0}
  /\ "no instance" \notin Instance
  /\ Real \subseteq Nat \ {0}
  /\ Request \cap Drainer = {}
  /\ Cardinality(Request) + Cardinality(Name) <= Cardinality(Real)
  /\ {Overlap, StoreMayFail} \subseteq BOOLEAN

VARIABLES
  stored,    \* endpointIntents of Local State, by name
  intents,   \* #intents: the number of the registered runtime object, or 0
  rt,        \* the RuntimeIntent objects; a removed one may still be referenced
  real,      \* the realizations with their sessions
  cleanup,   \* #pendingCleanupSessions
  drained,   \* drainedInstances
  act,       \* the handlers in flight
  up,        \* restore() has finished and the daemon's address is published
  toRestore, \* names restore() has still to realize
  closing,   \* #closing
  shut       \* where the shutdown is, and what it waits for

vars == <<stored, intents, rt, real, cleanup, drained, act, up, toRestore,
          closing, shut>>

(***************************************************************************)
(* Data                                                                    *)
(***************************************************************************)
Actor == Request \cup Drainer
NoInstance == "no instance"
NoName == "no name"
Absent == [kind |-> "absent", inst |-> NoInstance]
Definition(i, en) == [kind |-> IF en THEN "enabled" ELSE "disabled", inst |-> i]

Obj == Name \X (1 .. MaxLife)
NoObj == <<>>
NameOf(o) == o[1]

\* RuntimeIntent.  session, realization and controller name a realization, or
\* are 0 for undefined.
NewRuntime(i, en) ==
  [used |-> TRUE, inst |-> i, enabled |-> en, gen |-> 0,
   status |-> IF en THEN "starting" ELSE "disabled",
   session |-> 0, realization |-> 0, controller |-> 0]
NoRuntime == [NewRuntime(NoInstance, FALSE) EXCEPT !.used = FALSE]

NoReal == [obj |-> NoObj, gen |-> 0, pc |-> "unused", rejected |-> FALSE,
           aborted |-> FALSE, sess |-> "none", watched |-> FALSE]

\* What a handler keeps across its awaits: the runtime object and the session
\* it closes, the realizations (or handlers) it waits for, what drainInstance
\* has still to visit, and whether the operation is in pendingConnectionOperations.
Frame(pc) == [pc |-> pc, name |-> NoName, inst |-> NoInstance, en |-> FALSE,
              obj |-> NoObj, sess |-> 0, wait |-> {}, todo |-> {}, clean |-> {},
              tracked |-> FALSE]
Done == Frame("done")

Registered(o) == intents[NameOf(o)] = o[2]
Current(n) == <<n, intents[n]>>

\* The next runtime object of a name and the next realization: at most one, and
\* none once the bounds MaxLife and Real are used up.
FreshLives(n) == {k \in 1 .. MaxLife : /\ ~rt[<<n, k>>].used
                                       /\ \A j \in 1 .. (k - 1) : rt[<<n, j>>].used}
FreshReals == {r \in Real : /\ real[r].pc = "unused"
                            /\ \A s \in Real : s < r => real[s].pc # "unused"}

Settled(r) == real[r].sess \in {"closed", "failed"}
Finished(r) == real[r].pc = "done"
Only(r) == {r} \ {0}

CloseSession(f, r) == [f EXCEPT ![r].sess = IF @ = "open" THEN "closing" ELSE @]
Abort(f, S) == [r \in Real |-> IF r \in S THEN [f[r] EXCEPT !.aborted = TRUE] ELSE f[r]]

Reserved(n) == {c \in cleanup : c.reserve /\ c.name = n}

\* pendingConnectionOperations of an instance
Tracked(i) == {q \in Request : act[q].tracked /\ act[q].inst = i}

\* connectionNamesForInstance
ConnectionNames(i) ==
  {n \in Name : /\ intents[n] # 0
                /\ LET o == rt[Current(n)] IN
                     o.inst = i /\ (o.enabled \/ o.session # 0 \/ o.realization # 0)}
    \cup {c.name : c \in {x \in cleanup : x.inst = i}}

(***************************************************************************)
(* A callback of a settled promise is due.                                 *)
(***************************************************************************)
AwaitsSession == {"preClose", "reClose", "disableClose", "removeClose",
                  "cleanupClose", "drainClose", "cleanClose"}
AwaitsRealization == {"disableWait", "removeWait", "drainWait"}
Runs == {"drainLoop", "cleanLoop"}

Ready(a) ==
  \/ act[a].pc \in AwaitsSession /\ Settled(act[a].sess)
  \/ act[a].pc \in AwaitsRealization /\ \A r \in act[a].wait : Finished(r)
  \/ act[a].pc \in Runs
  \/ act[a].pc = "beginWait" /\ \A q \in act[a].wait : ~act[q].tracked

RealReady(r) == Settled(r) /\ (real[r].pc = "closingLate" \/ real[r].watched)

\* EndpointIntentService.close has what it waits for.
ShutReady ==
  \/ shut.pc = "realizations" /\ \A r \in shut.wait : Finished(r)
  \/ shut.pc = "sessions" /\ \A r \in shut.wait : Settled(r)

Quiet == (\A a \in Actor : ~Ready(a)) /\ (\A r \in Real : ~RealReady(r)) /\ ~ShutReady

Serving == up /\ shut.pc = "open" /\ Quiet

(***************************************************************************)
(* #startRealization and the part of #realize before its first await, for  *)
(* runtime object o whose fields the caller has just changed to rec.       *)
(***************************************************************************)
StartRealization(o, rec, f) ==
  IF closing \/ ~rec.enabled
  THEN /\ rt' = [rt EXCEPT ![o] = [rec EXCEPT !.realization = 0]]
       /\ real' = f
  ELSE \E r \in FreshReals :
       /\ rt' = [rt EXCEPT ![o] = [rec EXCEPT !.gen = @ + 1, !.status = "starting",
                                              !.controller = r, !.realization = r]]
       /\ real' = [Abort(f, Only(rec.controller)) EXCEPT
                     ![r] = [NoReal EXCEPT !.obj = o, !.gen = rec.gen + 1, !.pc = "opening"]]

\* The finally of #startRealization, which ends realization r of object o.
Unlink(o, r) == IF rt[o].realization = r THEN 0 ELSE rt[o].realization

(***************************************************************************)
(* restore()                                                               *)
(***************************************************************************)
Init ==
  /\ stored \in [Name -> {Absent} \cup {Definition(i, en) : i \in Instance, en \in BOOLEAN}]
  /\ intents = [n \in Name |-> IF stored[n] = Absent THEN 0 ELSE 1]
  /\ rt = [o \in Obj |-> IF o[2] = 1 /\ stored[NameOf(o)] # Absent
                         THEN NewRuntime(stored[NameOf(o)].inst, stored[NameOf(o)].kind = "enabled")
                         ELSE NoRuntime]
  /\ toRestore = {n \in Name : stored[n].kind = "enabled"}
  /\ real = [r \in Real |-> NoReal]
  /\ cleanup = {}
  /\ drained = {}
  /\ act = [a \in Actor |-> Frame("idle")]
  /\ up = FALSE /\ closing = FALSE
  /\ shut = [pc |-> "open", wait |-> {}]

\* One enabled definition after the other: each realization is awaited.
Restore(n) ==
  /\ n \in toRestore /\ intents[n] # 0 /\ Quiet
  /\ \A r \in Real : real[r].pc \in {"unused", "done"}
  /\ toRestore' = toRestore \ {n}
  /\ StartRealization(Current(n), rt[Current(n)], real)
  /\ UNCHANGED <<stored, intents, cleanup, drained, act, up, closing, shut>>

Restored ==
  /\ ~up /\ toRestore = {} /\ up' = TRUE
  /\ \A r \in Real : real[r].pc \in {"unused", "done"}
  /\ UNCHANGED <<stored, intents, rt, real, cleanup, drained, act, toRestore, closing, shut>>

(***************************************************************************)
(* #realize after openEndpoint answered                                    *)
(***************************************************************************)
StillWanted(r) ==
  LET o == real[r].obj IN
  Registered(o) /\ rt[o].gen = real[r].gen /\ rt[o].enabled /\ ~closing

OpenRejects(r) ==
  /\ Quiet /\ real[r].pc = "opening"
  /\ LET o == real[r].obj IN
     rt' = [rt EXCEPT ![o] = IF StillWanted(r)
                             THEN [@ EXCEPT !.controller = 0, !.status = "error",
                                            !.realization = Unlink(o, r)]
                             ELSE [@ EXCEPT !.realization = Unlink(o, r)]]
  /\ real' = [real EXCEPT ![r].pc = "done"]
  /\ UNCHANGED <<stored, intents, cleanup, drained, act, up, toRestore, closing, shut>>

OpenResolves(r) ==
  /\ Quiet /\ real[r].pc = "opening"
  /\ LET o == real[r].obj IN
     IF StillWanted(r)
     THEN /\ rt' = [rt EXCEPT ![o] = [@ EXCEPT !.controller = 0, !.status = "live",
                                               !.session = r, !.realization = Unlink(o, r)]]
          /\ real' = [real EXCEPT ![r] = [@ EXCEPT !.pc = "done", !.sess = "open",
                                                   !.watched = TRUE]]
     ELSE /\ real' = [real EXCEPT ![r] = [@ EXCEPT !.pc = "closingLate", !.sess = "closing"]]
          /\ UNCHANGED rt
  /\ UNCHANGED <<stored, intents, cleanup, drained, act, up, toRestore, closing, shut>>

\* Mutant: the realization never ends when the unwanted session fails to close.
LateClosedOnSuccess(r) ==
  /\ real[r].pc = "closingLate" /\ real[r].sess = "closed"
  /\ rt' = [rt EXCEPT ![real[r].obj].realization = Unlink(real[r].obj, r)]
  /\ real' = [real EXCEPT ![r].pc = "done"]
  /\ UNCHANGED <<stored, intents, cleanup, drained, act, up, toRestore, closing, shut>>

\* A session nobody wants any more has been closed; the realization rejects
\* when that failed.
LateClosed(r) ==
  /\ real[r].pc = "closingLate" /\ Settled(r)
  /\ LET o == real[r].obj IN
     /\ rt' = [rt EXCEPT ![o].realization = Unlink(o, r)]
     /\ cleanup' = IF real[r].sess = "closed" THEN cleanup
                   ELSE cleanup \cup {[inst |-> rt[o].inst, name |-> NameOf(o),
                                       session |-> r, reserve |-> FALSE]}
  /\ real' = [real EXCEPT ![r] = [@ EXCEPT !.pc = "done", !.rejected = (real[r].sess = "failed")]]
  /\ UNCHANGED <<stored, intents, drained, act, up, toRestore, closing, shut>>

\* #markUnexpectedClosure, the reaction to the session's closed promise.
ClosureNoticed(r) ==
  /\ real[r].watched /\ Settled(r)
  /\ real' = [real EXCEPT ![r].watched = FALSE]
  /\ LET o == real[r].obj IN
     rt' = IF StillWanted(r) /\ rt[o].status = "live"
           THEN [rt EXCEPT ![o] = [@ EXCEPT !.session = 0, !.status = "error"]]
           ELSE rt
  /\ UNCHANGED <<stored, intents, cleanup, drained, act, up, toRestore, closing, shut>>

(***************************************************************************)
(* Sessions (external): the transport dies; a closing ends.                *)
(***************************************************************************)
TransportDies(r) ==
  /\ Quiet /\ real[r].sess = "open"
  /\ real' = CloseSession(real, r)
  /\ UNCHANGED <<stored, intents, rt, cleanup, drained, act, up, toRestore, closing, shut>>

CloseSettles(r) ==
  /\ Quiet /\ real[r].sess = "closing"
  /\ \E s \in {"closed", "failed"} : real' = [real EXCEPT ![r].sess = s]
  /\ UNCHANGED <<stored, intents, rt, cleanup, drained, act, up, toRestore, closing, shut>>

(***************************************************************************)
(* Handlers.  A request that is refused before it changes anything is not  *)
(* an action; one that fails later goes to Done.                           *)
(***************************************************************************)
Idle(q) == act[q].pc = "idle" /\ Serving
At(q, pc) == act[q].pc = pc
Do(q, frame) == act' = [act EXCEPT ![q] = frame]
Later(q, pc) == Do(q, [act[q] EXCEPT !.pc = pc])

IntentsUnchanged == UNCHANGED <<cleanup, drained, up, toRestore, closing, shut>>

\* The handlers of create and enable drain the instance again when a drain of
\* it began while they ran; create does so as part of its tracked operation.
ThenDrainIfDraining(q, i, tracked) ==
  Do(q, IF i \in drained THEN [Frame("drainStore") EXCEPT !.inst = i, !.tracked = tracked]
                         ELSE Done)

\* The calls on n that may still start a realization, or that began when the
\* service knew no n: those are not in pendingConnectionOperations.
Starting(n) ==
  {p \in Request :
     /\ act[p].name = n
     /\ \/ act[p].pc \in {"createStore", "preClose", "enableStore"}
        \/ act[p].pc \in {"disableStore", "removeStore"} /\ act[p].obj = NoObj}
InTurn(n) == Overlap \/ Starting(n) = {}

(* POST /intents *)
Create(q, n, i, en) ==
  /\ Idle(q) /\ InTurn(n) /\ i \notin drained /\ Reserved(n) = {}
  /\ Do(q, [Frame("createStore") EXCEPT !.name = n, !.inst = i, !.en = en, !.tracked = TRUE])
  /\ IntentsUnchanged /\ UNCHANGED <<stored, intents, rt, real>>

Created(q) ==
  /\ At(q, "createStore") /\ Quiet
  /\ LET n == act[q].name  i == act[q].inst  en == act[q].en IN
     IF stored[n] # Absent
     THEN Do(q, Done) /\ UNCHANGED <<stored, intents, rt, real>>
     ELSE \E k \in FreshLives(n) :
          /\ stored' = [stored EXCEPT ![n] = Definition(i, en)]
          /\ intents' = [intents EXCEPT ![n] = k]
          /\ StartRealization(<<n, k>>, NewRuntime(i, en), real)
          /\ ThenDrainIfDraining(q, i, TRUE)
  /\ IntentsUnchanged

\* Mutant: enable does not look whether the instance is being drained.
EnableUnchecked(q, n) ==
  /\ Idle(q) /\ intents[n] # 0 /\ InTurn(n)
  /\ ~rt[Current(n)].enabled /\ rt[Current(n)].session = 0
  /\ Do(q, [Frame("enableStore") EXCEPT !.name = n, !.obj = Current(n),
                                        !.inst = rt[Current(n)].inst, !.tracked = TRUE])
  /\ IntentsUnchanged /\ UNCHANGED <<stored, intents, rt, real>>

(* POST /intents/n/enable *)
Enable(q, n) ==
  /\ Idle(q) /\ InTurn(n)
  /\ LET o == Current(n)
         frame == [Frame("enableStore") EXCEPT !.name = n, !.obj = o, !.inst = rt[o].inst,
                                               !.sess = rt[o].session, !.tracked = TRUE] IN
     IF intents[n] = 0
     THEN Do(q, [Frame("enableStore") EXCEPT !.name = n]) /\ UNCHANGED real
     ELSE /\ rt[o].inst \notin drained /\ ~rt[o].enabled
          /\ IF rt[o].session = 0
             THEN Do(q, frame) /\ UNCHANGED real
             ELSE /\ Do(q, [frame EXCEPT !.pc = "preClose"])
                  /\ real' = CloseSession(real, rt[o].session)
  /\ IntentsUnchanged /\ UNCHANGED <<stored, intents, rt>>

PreClosed(q) ==
  /\ At(q, "preClose") /\ Settled(act[q].sess)
  /\ IF real[act[q].sess].sess = "closed"
     THEN Later(q, "enableStore") /\ rt' = [rt EXCEPT ![act[q].obj].session = 0]
     ELSE Do(q, Done) /\ UNCHANGED rt
  /\ IntentsUnchanged /\ UNCHANGED <<stored, intents, real>>

\* #updateDefinition and #runtime: the registered object, or a new one.
Lives(n) == IF intents[n] = 0 THEN FreshLives(n) ELSE {intents[n]}
UpdatedRuntime(n) ==
  [(IF intents[n] = 0 THEN NewRuntime(NoInstance, FALSE) ELSE rt[Current(n)])
     EXCEPT !.inst = stored[n].inst]

Enabled(q) ==
  /\ At(q, "enableStore") /\ Quiet
  /\ LET n == act[q].name  u == UpdatedRuntime(n)  i == stored[n].inst IN
     IF stored[n] = Absent
     THEN Do(q, Done) /\ UNCHANGED <<stored, intents, rt, real>>
     ELSE \E k \in Lives(n) :
          /\ stored' = [stored EXCEPT ![n] = Definition(i, TRUE)]
          /\ intents' = [intents EXCEPT ![n] = k]
          /\ StartRealization(<<n, k>>,
               [u EXCEPT !.enabled = TRUE, !.gen = @ + 1, !.controller = 0,
                         !.status = "starting"],
               Abort(real, Only(u.controller)))
          /\ ThenDrainIfDraining(q, i, FALSE)
  /\ IntentsUnchanged

(* POST /intents/n/disable *)
Disable(q, n) ==
  /\ Idle(q)
  /\ intents[n] # 0 \/ InTurn(n)
  /\ LET o == Current(n)
         frame == [Frame("disableStore") EXCEPT !.name = n, !.obj = o, !.inst = rt[o].inst,
                                                !.sess = rt[o].session, !.tracked = TRUE] IN
     IF intents[n] = 0
     THEN Do(q, [Frame("disableStore") EXCEPT !.name = n]) /\ UNCHANGED real
     ELSE \/ rt[o].enabled /\ Do(q, frame) /\ UNCHANGED real
          \/ /\ ~rt[o].enabled /\ rt[o].session # 0
             /\ Do(q, [frame EXCEPT !.pc = "reClose"])
             /\ real' = CloseSession(real, rt[o].session)
  /\ IntentsUnchanged /\ UNCHANGED <<stored, intents, rt>>

ReClosed(q) ==
  /\ At(q, "reClose") /\ Settled(act[q].sess)
  /\ Do(q, Done)
  /\ rt' = IF real[act[q].sess].sess = "closed"
           THEN [rt EXCEPT ![act[q].obj].session = 0] ELSE rt
  /\ IntentsUnchanged /\ UNCHANGED <<stored, intents, real>>

Disabled(q) ==
  /\ At(q, "disableStore") /\ Quiet
  /\ LET n == act[q].name  u == UpdatedRuntime(n) IN
     IF stored[n] = Absent
     THEN Do(q, Done) /\ UNCHANGED <<stored, intents, rt, real>>
     ELSE \E k \in Lives(n) :
          /\ stored' = [stored EXCEPT ![n].kind = "disabled"]
          /\ intents' = [intents EXCEPT ![n] = k]
          /\ rt' = [rt EXCEPT ![<<n, k>>] = [u EXCEPT !.enabled = FALSE, !.gen = @ + 1,
                                                      !.controller = 0, !.status = "disabled"]]
          /\ real' = Abort(real, Only(u.controller))
          /\ Do(q, [act[q] EXCEPT !.pc = "disableWait", !.obj = <<n, k>>,
                                  !.wait = Only(u.realization)])
  /\ IntentsUnchanged

\* What disable and remove do once the realization they awaited has ended: they
\* throw if it rejected, and close the session the object has now.
CloseAfterRealization(q, next) ==
  LET s == rt[act[q].obj].session IN
  /\ \A r \in act[q].wait : Finished(r)
  /\ IF s = 0 \/ \E r \in act[q].wait : real[r].rejected
     THEN Do(q, Done) /\ UNCHANGED real
     ELSE /\ Do(q, [act[q] EXCEPT !.pc = next, !.sess = s, !.wait = {}])
          /\ real' = CloseSession(real, s)

DisableWaited(q) ==
  /\ At(q, "disableWait") /\ CloseAfterRealization(q, "disableClose")
  /\ IntentsUnchanged /\ UNCHANGED <<stored, intents, rt>>

ForgetIfClosed(o, s) ==
  IF real[s].sess = "closed" /\ rt[o].session = s
  THEN [rt EXCEPT ![o].session = 0] ELSE rt

DisableClosed(q) ==
  /\ At(q, "disableClose") /\ Settled(act[q].sess)
  /\ rt' = ForgetIfClosed(act[q].obj, act[q].sess)
  /\ Do(q, Done)
  /\ IntentsUnchanged /\ UNCHANGED <<stored, intents, real>>

\* Mutant: retry starts a realization whatever the status is.
RetryAnyStatus(q, n) ==
  /\ Idle(q) /\ intents[n] # 0
  /\ rt[Current(n)].inst \notin drained /\ rt[Current(n)].enabled
  /\ StartRealization(Current(n), [rt[Current(n)] EXCEPT !.status = "starting"], real)
  /\ Do(q, Done)
  /\ IntentsUnchanged /\ UNCHANGED <<stored, intents>>

(* POST /intents/n/retry *)
Retry(q, n) ==
  /\ Idle(q) /\ intents[n] # 0
  /\ LET o == Current(n) IN
     /\ rt[o].inst \notin drained /\ rt[o].enabled
     /\ rt[o].status \notin {"live", "starting"}
     /\ StartRealization(o, [rt[o] EXCEPT !.status = "starting"], real)
  /\ Do(q, Done)
  /\ IntentsUnchanged /\ UNCHANGED <<stored, intents>>

(* DELETE /intents/n *)
Remove(q, n) ==
  /\ Idle(q)
  /\ intents[n] # 0 \/ InTurn(n)
  /\ LET frame == IF intents[n] = 0 THEN [Frame("removeStore") EXCEPT !.name = n]
                  ELSE [Frame("removeStore") EXCEPT
                          !.name = n, !.obj = Current(n), !.inst = rt[Current(n)].inst,
                          !.tracked = TRUE] IN
     \/ Reserved(n) = {} /\ Do(q, frame) /\ UNCHANGED real
     \/ \E c \in Reserved(n) :
          /\ Do(q, [frame EXCEPT !.pc = "cleanupClose", !.sess = c.session])
          /\ real' = CloseSession(real, c.session)
  /\ IntentsUnchanged /\ UNCHANGED <<stored, intents, rt>>

CleanupClosed(q) ==
  /\ At(q, "cleanupClose") /\ Settled(act[q].sess)
  /\ cleanup' = IF real[act[q].sess].sess = "closed"
                THEN {c \in cleanup : ~(c.reserve /\ c.session = act[q].sess)} ELSE cleanup
  /\ Do(q, Done)
  /\ UNCHANGED <<stored, intents, rt, real, drained, up, toRestore, closing, shut>>

Removed(q) ==
  /\ At(q, "removeStore") /\ Quiet
  /\ LET n == act[q].name  o == Current(n) IN
     IF stored[n] = Absent \/ intents[n] = 0
     THEN Do(q, Done) /\ stored' = [stored EXCEPT ![n] = Absent] /\ UNCHANGED <<intents, rt, real>>
     ELSE /\ stored' = [stored EXCEPT ![n] = Absent]
          /\ intents' = [intents EXCEPT ![n] = 0]
          /\ rt' = [rt EXCEPT ![o].gen = @ + 1]
          /\ real' = Abort(real, Only(rt[o].controller))
          /\ Do(q, [act[q] EXCEPT !.pc = "removeWait", !.obj = o,
                                  !.wait = Only(rt[o].realization)])
  /\ IntentsUnchanged

RemoveWaited(q) ==
  /\ At(q, "removeWait") /\ CloseAfterRealization(q, "removeClose")
  /\ IntentsUnchanged /\ UNCHANGED <<stored, intents, rt>>

RemoveClosed(q) ==
  /\ At(q, "removeClose") /\ Settled(act[q].sess)
  /\ cleanup' = IF real[act[q].sess].sess = "closed" THEN cleanup
                ELSE cleanup \cup {[inst |-> rt[act[q].obj].inst, name |-> act[q].name,
                                    session |-> act[q].sess, reserve |-> TRUE]}
  /\ Do(q, Done)
  /\ UNCHANGED <<stored, intents, rt, real, drained, up, toRestore, closing, shut>>

\* What the update of a handler makes of its definition.
Written(q) ==
  LET s == stored[act[q].name] IN
  CASE At(q, "createStore") -> IF s = Absent THEN Definition(act[q].inst, act[q].en) ELSE s
    [] At(q, "removeStore") -> Absent
    [] OTHER -> IF s = Absent THEN s ELSE Definition(s.inst, At(q, "enableStore"))

\* store.update throws: the files were not written, or (the recovery file could
\* not be replaced) they were.  The handler stops there either way.
StoreThrows(q) ==
  /\ StoreMayFail /\ Quiet
  /\ act[q].pc \in {"createStore", "enableStore", "disableStore", "removeStore"}
  /\ \E t \in {stored[act[q].name], Written(q)} : stored' = [stored EXCEPT ![act[q].name] = t]
  /\ Do(q, Done)
  /\ IntentsUnchanged /\ UNCHANGED <<intents, rt, real>>

(***************************************************************************)
(* Drain: POST /connection-drains, .../close, DELETE                       *)
(***************************************************************************)
BeginDrain(d, i) ==
  /\ Idle(d) /\ i \notin drained
  /\ drained' = drained \cup {i}
  /\ Do(d, [Frame(IF Tracked(i) = {} THEN "granted" ELSE "beginWait")
              EXCEPT !.inst = i, !.wait = Tracked(i)])
  /\ UNCHANGED <<stored, intents, rt, real, cleanup, up, toRestore, closing, shut>>

\* The operations awaited have settled; beginConnectionDrain looks again.
BeginWaited(d) ==
  /\ At(d, "beginWait")
  /\ \A q \in act[d].wait : ~act[q].tracked
  /\ LET w == Tracked(act[d].inst) IN
     Do(d, [act[d] EXCEPT !.pc = IF w = {} THEN "granted" ELSE "beginWait", !.wait = w])
  /\ UNCHANGED <<stored, intents, rt, real>> /\ IntentsUnchanged

CloseForDrain(d) ==
  /\ At(d, "granted") /\ Serving
  /\ Later(d, "drainStore")
  /\ UNCHANGED <<stored, intents, rt, real>> /\ IntentsUnchanged

ReleaseDrain(d) ==
  /\ act[d].pc \in {"granted", "refused", "drained"} /\ Serving
  /\ drained' = drained \ {act[d].inst}
  /\ Do(d, Done)
  /\ UNCHANGED <<stored, intents, rt, real, cleanup, up, toRestore, closing, shut>>

(* drainInstance *)
Targets(i) == {o \in Obj : Registered(o) /\ rt[o].inst = i}

\* Mutant: the drain disables what is stored, not what is running.
DrainStoredOnly(a) ==
  /\ At(a, "drainStore") /\ Quiet
  /\ stored' = [n \in Name |-> IF stored[n].inst = act[a].inst
                               THEN Definition(act[a].inst, FALSE) ELSE stored[n]]
  /\ Do(a, [act[a] EXCEPT !.pc = "drainWait", !.todo = Targets(act[a].inst),
                          !.wait = {rt[o].realization : o \in Targets(act[a].inst)} \ {0}])
  /\ UNCHANGED <<intents, rt, real>> /\ IntentsUnchanged

DrainStored(a) ==
  /\ At(a, "drainStore") /\ Quiet
  /\ LET i == act[a].inst  T == Targets(i) IN
     /\ stored' = [n \in Name |-> IF stored[n].inst = i THEN Definition(i, FALSE) ELSE stored[n]]
     /\ rt' = [o \in Obj |->
                 IF o \in T THEN [rt[o] EXCEPT !.enabled = FALSE, !.gen = @ + 1,
                                               !.controller = 0, !.status = "disabled"]
                 ELSE rt[o]]
     /\ real' = Abort(real, {rt[o].controller : o \in T})
     /\ Do(a, [act[a] EXCEPT !.pc = "drainWait", !.todo = T,
                             !.wait = {rt[o].realization : o \in T} \ {0}])
  /\ UNCHANGED intents /\ IntentsUnchanged

\* The verdict the drain's client hears after drainInstance returned or threw;
\* closeHttpServer cuts its connection when a shutdown begins.
Verdict(a) ==
  LET i == act[a].inst
      passed == ConnectionNames(i) = {} /\ shut.pc = "open" IN
  Do(a, IF a \in Request THEN Done
        ELSE [Frame(IF passed THEN "drained" ELSE "refused") EXCEPT !.inst = i])

DrainStoreThrows(a) ==
  /\ StoreMayFail /\ At(a, "drainStore") /\ Quiet
  /\ \/ UNCHANGED stored
     \/ stored' = [n \in Name |-> IF stored[n].inst = act[a].inst
                                  THEN Definition(act[a].inst, FALSE) ELSE stored[n]]
  /\ Verdict(a)
  /\ UNCHANGED <<intents, rt, real>> /\ IntentsUnchanged

DrainWaited(a) ==
  /\ At(a, "drainWait")
  /\ \A r \in act[a].wait : Finished(r)
  /\ Do(a, [act[a] EXCEPT !.pc = "drainLoop", !.wait = {}])
  /\ UNCHANGED <<stored, intents, rt, real>> /\ IntentsUnchanged

\* One runtime after the other is asked for its session; then a snapshot of the
\* pending cleanups of the instance is closed one by one; then the verdict.
DrainNext(a) ==
  /\ At(a, "drainLoop")
  /\ \E o \in act[a].todo :
       LET rest == [act[a] EXCEPT !.todo = @ \ {o}] IN
       IF rt[o].session = 0
       THEN Do(a, rest) /\ UNCHANGED real
       ELSE /\ Do(a, [rest EXCEPT !.pc = "drainClose", !.obj = o, !.sess = rt[o].session])
            /\ real' = CloseSession(real, rt[o].session)
  /\ UNCHANGED <<stored, intents, rt>> /\ IntentsUnchanged

DrainClosed(a) ==
  /\ At(a, "drainClose") /\ Settled(act[a].sess)
  /\ rt' = ForgetIfClosed(act[a].obj, act[a].sess)
  /\ Later(a, "drainLoop")
  /\ UNCHANGED <<stored, intents, real>> /\ IntentsUnchanged

SessionsVisited(a) ==
  /\ At(a, "drainLoop") /\ act[a].todo = {}
  /\ Do(a, [act[a] EXCEPT !.pc = "cleanLoop", !.obj = NoObj, !.sess = 0,
                          !.clean = {c \in cleanup : c.inst = act[a].inst}])
  /\ UNCHANGED <<stored, intents, rt, real>> /\ IntentsUnchanged

CleanNext(a) ==
  /\ At(a, "cleanLoop")
  /\ \E c \in act[a].clean :
       /\ Do(a, [act[a] EXCEPT !.pc = "cleanClose", !.sess = c.session, !.clean = @ \ {c}])
       /\ real' = CloseSession(real, c.session)
  /\ UNCHANGED <<stored, intents, rt>> /\ IntentsUnchanged

CleanClosed(a) ==
  /\ At(a, "cleanClose") /\ Settled(act[a].sess)
  /\ cleanup' = IF real[act[a].sess].sess = "closed"
                THEN {c \in cleanup : c.session # act[a].sess} ELSE cleanup
  /\ Later(a, "cleanLoop")
  /\ UNCHANGED <<stored, intents, rt, real, drained, up, toRestore, closing, shut>>

\* A request that drained the instance again fails in either case.
DrainVerdict(a) ==
  /\ At(a, "cleanLoop") /\ act[a].clean = {}
  /\ Verdict(a)
  /\ UNCHANGED <<stored, intents, rt, real>> /\ IntentsUnchanged

(***************************************************************************)
(* Shutdown: the daemon's close(), the part of it that concerns intents    *)
(***************************************************************************)
Stop ==
  /\ up /\ shut.pc = "open" /\ Quiet
  /\ shut' = [shut EXCEPT !.pc = "server"]
  /\ UNCHANGED <<stored, intents, rt, real, cleanup, drained, act, up, toRestore, closing>>

\* The HTTP server has closed; EndpointIntentService.close begins.
CloseService ==
  /\ shut.pc = "server" /\ Quiet
  /\ closing' = TRUE
  /\ rt' = [o \in Obj |-> IF Registered(o) THEN [rt[o] EXCEPT !.gen = @ + 1] ELSE rt[o]]
  /\ real' = Abort(real, {rt[o].controller : o \in {x \in Obj : Registered(x)}})
  /\ shut' = [pc |-> "realizations",
              wait |-> {r \in Real : real[r].pc \in {"opening", "closingLate"}}]
  /\ UNCHANGED <<stored, intents, cleanup, drained, act, up, toRestore>>

CloseSessions ==
  /\ shut.pc = "realizations" /\ \A r \in shut.wait : Finished(r)
  /\ LET S == ({rt[o].session : o \in {x \in Obj : Registered(x)}} \ {0})
               \cup {c.session : c \in cleanup} IN
     /\ shut' = [pc |-> "sessions", wait |-> S]
     /\ real' = [r \in Real |-> IF r \in S THEN CloseSession(real, r)[r] ELSE real[r]]
  /\ UNCHANGED <<stored, intents, rt, cleanup, drained, act, up, toRestore, closing>>

\* Mutant: one session that cannot be closed holds up the shutdown.
ClosedOnSuccess ==
  /\ shut.pc = "sessions" /\ \A r \in shut.wait : real[r].sess = "closed"
  /\ shut' = [pc |-> "closed", wait |-> {}]
  /\ UNCHANGED <<stored, intents, rt, real, cleanup, drained, act, up, toRestore, closing>>

Closed ==
  /\ shut.pc = "sessions" /\ \A r \in shut.wait : Settled(r)
  /\ shut' = [pc |-> "closed", wait |-> {}]
  /\ UNCHANGED <<stored, intents, rt, real, cleanup, drained, act, up, toRestore, closing>>

-----------------------------------------------------------------------------
Answer(r) == OpenRejects(r) \/ OpenResolves(r)

Session(r) == Answer(r) \/ LateClosed(r) \/ ClosureNoticed(r) \/ CloseSettles(r)

Start(q) ==
  \/ \E n \in Name : Enable(q, n) \/ Disable(q, n) \/ Retry(q, n) \/ Remove(q, n)
  \/ \E n \in Name, i \in Instance, en \in BOOLEAN : Create(q, n, i, en)

Drain(a) ==
  DrainStored(a) \/ DrainWaited(a) \/ DrainNext(a) \/ DrainClosed(a) \/ SessionsVisited(a)
  \/ CleanNext(a) \/ CleanClosed(a) \/ DrainVerdict(a)

Continue(q) ==
  \/ Created(q) \/ PreClosed(q) \/ Enabled(q)
  \/ ReClosed(q) \/ Disabled(q) \/ DisableWaited(q) \/ DisableClosed(q)
  \/ CleanupClosed(q) \/ Removed(q) \/ RemoveWaited(q) \/ RemoveClosed(q)
  \/ Drain(q)

Shutdown == CloseService \/ CloseSessions \/ Closed

Next ==
  \/ \E n \in Name : Restore(n)
  \/ Restored
  \/ \E r \in Real : Session(r) \/ TransportDies(r)
  \/ \E q \in Request : Start(q) \/ Continue(q) 
                         \/ StoreThrows(q) \/ DrainStoreThrows(q)
  \/ \E d \in Drainer : \/ \E i \in Instance : BeginDrain(d, i)
                         \/ BeginWaited(d) \/ CloseForDrain(d) \/ ReleaseDrain(d)
                         \/ Drain(d) \/ DrainStoreThrows(d)
  \/ Stop \/ Shutdown

\* The event loop runs what is ready, Access Adapters answer (HostOperationRunner
\* limits every call of them), closings end, and the store answers.
Fairness ==
  /\ \A n \in Name : WF_vars(Restore(n))
  /\ WF_vars(Restored)
  /\ \A r \in Real : WF_vars(Answer(r)) /\ WF_vars(LateClosed(r))
                      /\ WF_vars(ClosureNoticed(r)) /\ WF_vars(CloseSettles(r))
  /\ \A q \in Request : WF_vars(Continue(q))
  /\ \A d \in Drainer : WF_vars(BeginWaited(d)) /\ WF_vars(Drain(d))
  /\ WF_vars(Shutdown)

Spec == Init /\ [][Next]_vars
FairSpec == Spec /\ Fairness

-----------------------------------------------------------------------------
(***************************************************************************)
(* Properties                                                              *)
(***************************************************************************)
Definitions == {Absent} \cup {Definition(i, en) : i \in Instance, en \in BOOLEAN}
Cleanup == [inst : Instance \cup {NoInstance}, name : Name, session : Real, reserve : BOOLEAN]

ActPC == {"idle", "done", "createStore", "enableStore", "disableStore", "removeStore",
          "drainStore", "beginWait", "granted", "refused", "drained"}
         \cup AwaitsSession \cup AwaitsRealization \cup Runs

RuntimeIntent ==
  [used : BOOLEAN, inst : Instance \cup {NoInstance}, enabled : BOOLEAN, gen : Nat,
   status : {"disabled", "starting", "live", "error"}, session : Real \cup {0},
   realization : Real \cup {0}, controller : Real \cup {0}]
RealizationFields ==
  [obj : Obj \cup {NoObj}, gen : Nat, pc : {"unused", "opening", "closingLate", "done"},
   rejected : BOOLEAN, aborted : BOOLEAN,
   sess : {"none", "open", "closing", "closed", "failed"}, watched : BOOLEAN]
Realization == {x \in RealizationFields : x.pc # "unused" => x.obj \in Obj}

HandlerFields ==
  [pc : ActPC, name : Name \cup {NoName}, inst : Instance \cup {NoInstance}, en : BOOLEAN,
   obj : Obj \cup {NoObj}, sess : Real \cup {0}, wait : SUBSET (Real \cup Request),
   todo : SUBSET Obj, clean : SUBSET Cleanup, tracked : BOOLEAN]

\* Where a handler is says which of the fields it has set.
OnInstance == {"createStore", "drainStore", "drainWait", "drainClose", "cleanClose",
               "beginWait", "granted", "refused", "drained"} \cup Runs
OnObject == {"preClose", "reClose", "disableWait", "disableClose", "removeWait",
             "removeClose", "drainClose"}
OnName == {"createStore", "enableStore", "disableStore", "removeStore"}
          \cup (OnObject \ {"drainClose"})
Handler ==
  {h \in HandlerFields : /\ h.pc \in AwaitsSession => h.sess \in Real
                         /\ h.pc \in OnInstance => h.inst \in Instance
                         /\ h.pc \in OnObject => h.obj \in Obj
                         /\ h.pc \in OnName => h.name \in Name}

TypeOK ==
  /\ stored \in [Name -> Definitions]
  /\ intents \in [Name -> 0 .. MaxLife]
  /\ rt \in [Obj -> RuntimeIntent]
  /\ real \in [Real -> Realization]
  /\ cleanup \subseteq Cleanup
  /\ drained \subseteq Instance
  /\ act \in [Actor -> Handler]
  /\ toRestore \subseteq Name
  /\ {up, closing} \subseteq BOOLEAN
  /\ shut \in [pc : {"open", "server", "realizations", "sessions", "closed"},
               wait : SUBSET Real]

\* A runtime object is in the hands of a removal that will close its session.
BeingRemoved(o) == \E q \in Request : act[q].obj = o /\ act[q].pc \in {"removeWait", "removeClose"}

\* A connection shown as live is enabled and belongs to a realization of the
\* current generation whose end the service will notice: the status can never
\* stay live after the transport has gone, whatever enables, disables, drains
\* and late answers of older realizations interleave.
LiveIsServed ==
  \A o \in Obj :
    (Registered(o) /\ rt[o].status = "live" /\ ~closing) =>
      /\ rt[o].enabled
      /\ \E r \in Real : /\ real[r].obj = o /\ real[r].gen = rt[o].gen
                        /\ real[r].watched /\ rt[o].session \in {r, 0}

\* An open tunnel is always reachable from the registered runtime object of its
\* intent, or from a removal that is about to close it: no interleaving of
\* handlers and late answers loses one (the starts of one name
\* taken in turn).
NoOrphanedSession ==
  \A r \in Real : real[r].sess = "open" =>
    LET o == real[r].obj IN rt[o].session = r /\ (Registered(o) \/ BeingRemoved(o))

\* An openEndpoint whose result nobody wants any more has been told to stop:
\* each operation that supersedes a realization aborts it.
SupersededIsAborted ==
  \A r \in Real : (real[r].pc = "opening" /\ ~StillWanted(r)) => real[r].aborted

\* Local State and the running service agree: after a restart the daemon serves
\* exactly the connections it serves now.
RestartServesTheSame ==
  \A n \in Name :
    IF intents[n] = 0 THEN stored[n] = Absent
    ELSE stored[n] = Definition(rt[Current(n)].inst, rt[Current(n)].enabled)

\* A session that a removed intent, or an unwanted realization, failed to close
\* stays recorded, so that a drain of its instance keeps refusing.
FailedCleanupIsKept ==
  \A r \in Real :
    LET o == real[r].obj IN
    (/\ real[r].sess = "failed" /\ ~RealReady(r)
     /\ real[r].rejected \/ (rt[o].session = r /\ ~Registered(o) /\ ~BeingRemoved(o)))
    => \E c \in cleanup : c.session = r /\ c.inst = rt[o].inst

OfInstance(r, i) == real[r].pc # "unused" /\ rt[real[r].obj].inst = i

\* A call that was not one of the instance's operations when its drain was granted
\* still waits for realization r to end: an enable that disables again on behalf of
\* an earlier drain, or a disable of a name that another instance had before.
Overtaken(r, i) ==
  \E q \in Request : /\ act[q].pc \in {"disableWait", "drainWait"} /\ r \in act[q].wait
                     /\ ~(act[q].tracked /\ act[q].inst = i)

\* While the client that drained an instance dispatches its destruction, nothing
\* of that instance is open, closing or being opened, except what a removal
\* that the drain did not wait for is still closing, and an aborted opening that
\* such a call still waits for; nothing is enabled, and no connection that could
\* not be closed was passed over.
DrainedHoldsBack ==
  \A d \in Drainer : act[d].pc = "drained" =>
    LET i == act[d].inst IN
    /\ \A n \in Name : stored[n] # Definition(i, TRUE)
    /\ \A o \in Targets(i) : rt[o].session = 0 /\ rt[o].realization = 0
    /\ \A r \in Real : OfInstance(r, i) =>
         \/ real[r].pc = "done" /\ real[r].sess \notin {"open", "closing"}
         \/ BeingRemoved(real[r].obj)
         \/ /\ Overtaken(r, i)
            /\ real[r].pc = "closingLate" \/ (real[r].pc = "opening" /\ real[r].aborted)

\* When the service has shut down no tunnel is left open or opening, except what
\* a removal that was in flight is still closing.
ShutdownClosesAll ==
  shut.pc = "closed" =>
    \A r \in Real :
      \/ real[r].pc \in {"unused", "done"} /\ real[r].sess \notin {"open", "closing"}
      \/ BeingRemoved(real[r].obj)

\* What the daemon serves is what is defined: a live connection is served and a
\* restart brings back the same ones.
ServesTheDefined == LiveIsServed /\ RestartServesTheSame

\* No tunnel is lost: an open one can be reached and closed, one that nobody wants
\* is told to stop, one that could not be closed stays recorded.
NoTunnelIsLost == NoOrphanedSession /\ SupersededIsAborted /\ FailedCleanupIsKept

\* What was drained or shut down stays closed.
EndedStaysClosed == DrainedHoldsBack /\ ShutdownClosesAll

\* docs/background-connections.md: the daemon's connections are closed "before
\* dispatching the remote destroy".
DrainedMeansClosed ==
  \A d \in Drainer : act[d].pc = "drained" =>
    \A r \in Real : OfInstance(r, act[d].inst) => real[r].sess \notin {"open", "closing"}

\* docs/background-connections.md: "Disable/remove closes ... that definition's
\* local transport": once a definition is disabled and nobody works on it, none of
\* its tunnels is open.
DisabledMeansClosed ==
  \A o \in Obj :
    (/\ Registered(o) /\ ~rt[o].enabled
     /\ \A q \in Request : act[q].pc \in {"idle", "done"}
     /\ \A d \in Drainer : act[d].pc \in {"idle", "done"})
    => \A r \in Real : real[r].obj = o => real[r].sess # "open"

\* A drain never waits for ever: begin is granted, close decides.
DrainAnswers ==
  \A d \in Drainer :
    /\ (act[d].pc = "beginWait") ~> (act[d].pc # "beginWait")
    /\ (act[d].pc = "drainStore") ~> (act[d].pc \in {"refused", "drained"})

\* A shutdown ends, whatever handlers, realizations and closings are in flight.
ShutdownEnds == (shut.pc = "server") ~> (shut.pc = "closed")

\* Every call that was accepted is answered.
RequestsEnd == \A q \in Request : (act[q].pc # "idle") ~> (act[q].pc = "done")

\* Whoever calls the service is answered, a drain as well.
CallersAreAnswered == RequestsEnd /\ DrainAnswers

=============================================================================
