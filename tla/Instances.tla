------------------------------ MODULE Instances ------------------------------
(***************************************************************************)
(* The instances of one provider: what the provider has, and what Local    *)
(* State says of it.  Refreshes of the inventory, provider commands that   *)
(* create resources and hand them over, bulk actions, adoption, and the    *)
(* waiting for an observed state (compute-manager.ts,                      *)
(* provider-command-runner.ts, instance-operations.ts,                     *)
(* tui-instance-operations.ts, host-operation.ts).                         *)
(*                                                                         *)
(* An update of Local State is atomic (StateStore); the refresh lock is    *)
(* exclusive while its lease is renewed (FilesystemLock).  The guard of a  *)
(* destroy, with its drain, is the module DaemonLifecycle's.               *)
(***************************************************************************)
EXTENDS Naturals, Sequences, FiniteSets, SequencesExt

CONSTANTS
  Resource,   \* providerExternalIds, of past, present and future resources
  Refresher,  \* calls of refreshProvider and of listInventory
  Command,    \* runs of a provider command that creates a resource
  Worker,     \* the workers of a bulk action (boundedMap)
  MaxTries,   \* how often a command is started
  MaxFaults,  \* processes that die, or are suspended until their lock is taken
  NoOne       \* holds no lock, is no resource

ASSUME InstancesAssumption ==
  /\ IsFiniteSet(Resource)
  /\ MaxTries \in Nat /\ MaxFaults \in Nat
  /\ NoOne \notin Refresher \cup Command \cup Worker \cup Resource
  /\ Refresher \cap (Command \cup Worker) = {} /\ Command \cap Worker = {}

VARIABLES
  remote,   \* the provider's resources (external)
  flight,   \* requests that were sent and may still take effect (external)
  bound,    \* instances in Local State: the id of each, 0 for none.  Ids are
            \* unique: resource r gets the ids <<r, 1>>, <<r, 2>> ...
  minted,   \* how many ids each resource was given so far
  managed,  \* the instances whose management is "managed"
  pending,  \* pendingManagedResources
  lock,     \* the provider's refresh lock
  pc, list, \* progress of a client, the snapshots in its hands
  aim,      \* the instance id a client works on
  sent,     \* markMutationDispatched was called in its HostOperationRunner.run
  made,     \* what a command has created (history)
  reports,  \* its affectedProviderExternalIds
  out,      \* what its caller was told
  tries,    \* how often it was started
  bulk,     \* the bulk action: its queue, the index to take, the results
  guard,    \* managed.lock
  faults    \* deaths and suspensions so far

local == <<bound, minted, managed, pending>>
calls == <<pc, list, aim, sent, made, reports, out, tries>>
vars  == <<remote, flight, local, lock, calls, bulk, guard, faults>>

Client == Refresher \cup Command \cup Worker

Alive(r) == remote[r] \in {"running", "stopped"}
Claimed(r) == r \in managed \cup pending

\* The binding with this id, as stateStore.read() shows it.
Found(id) == bound[id[1]] = id[2]

\* Client p goes on at pc q.
Goto(p, q) == pc' = [pc EXCEPT ![p] = q]

\* The update that filters the binding out of the current state, if it is there.
RemoveBinding(id) ==
  /\ bound' = [r \in Resource |-> IF r = id[1] /\ Found(id) THEN 0 ELSE bound[r]]
  /\ managed' = (IF Found(id) THEN managed \ {id[1]} ELSE managed)
  /\ UNCHANGED <<minted, pending>>

Init ==
  /\ remote \in [Resource -> {"unborn", "running"}]
  /\ flight = {}
  /\ bound = [r \in Resource |-> 0] /\ minted = [r \in Resource |-> 0]
  /\ managed = {} /\ pending = {}
  /\ lock = NoOne
  /\ pc = [p \in Client |-> "idle"]
  /\ list = [p \in Client |-> {}]
  /\ aim = [p \in Client |-> <<NoOne, 0>>]
  /\ sent = [p \in Client |-> FALSE]
  /\ made = [c \in Command |-> {}] /\ reports = [c \in Command |-> {}]
  /\ out = [c \in Command |-> "none"] /\ tries = [c \in Command |-> 0]
  /\ bulk = [action |-> "none", queue |-> <<>>, next |-> 1,
             result |-> <<>>, watch |-> <<>>]
  /\ guard = NoOne /\ faults = 0

(***************************************************************************)
(* refreshRegisteredProvider, by a refresher or at the end of a command    *)
(***************************************************************************)
StartRefresh(p) ==
  /\ p \in Refresher /\ pc[p] = "idle" /\ Goto(p, "lock")
  /\ UNCHANGED <<remote, flight, local, lock, list, aim, sent, made, reports, out, tries, bulk, guard, faults>>

TakeLock(p) ==
  /\ pc[p] = "lock" /\ lock = NoOne
  /\ lock' = p /\ Goto(p, "list")
  /\ UNCHANGED <<remote, flight, local, list, aim, sent, made, reports, out, tries, bulk, guard, faults>>

\* The provider answers listInstances: what it has at some moment of the call.
List(p) ==
  /\ pc[p] = "list"
  /\ list' = [list EXCEPT ![p] = {r \in Resource : Alive(r)}]
  /\ Goto(p, "apply")
  /\ UNCHANGED <<remote, flight, local, lock, aim, sent, made, reports, out, tries, bulk, guard, faults>>

\* Mutant: what is pending is dropped with every refresh.
ReconcileForgetful(L) ==
  /\ bound' = [r \in Resource |-> IF r \notin L THEN 0
                                  ELSE IF bound[r] = 0 THEN minted[r] + 1 ELSE bound[r]]
  /\ minted' = [r \in Resource |-> IF r \in L /\ bound[r] = 0 THEN minted[r] + 1 ELSE minted[r]]
  /\ managed' = L \cap (managed \cup pending)
  /\ pending' = {}

\* Local State after a list of the provider's resources.
Reconcile(L) ==
  /\ bound' = [r \in Resource |-> IF r \notin L THEN 0
                                  ELSE IF bound[r] = 0 THEN minted[r] + 1 ELSE bound[r]]
  /\ minted' = [r \in Resource |-> IF r \in L /\ bound[r] = 0 THEN minted[r] + 1 ELSE minted[r]]
  /\ managed' = L \cap (managed \cup pending)
  /\ pending' = pending \ L

\* A command that ended with outcome-unknown refreshes, and still reports that.
\* (What a refresher shows of its list or its failure is left out.)
Ended(p, o) ==
  [c \in Command |-> IF c = p /\ out[c] # "unknown" THEN o ELSE out[c]]

Handoff(p) ==
  IF p \in Command /\ reports[p] \subseteq list[p] THEN "complete" ELSE "partial"

\* Mutant: the lease is not asserted before Local State is changed.
ApplyUnasserted(p) ==
  /\ pc[p] = "apply"
  /\ Reconcile(list[p])
  /\ lock' = (IF lock = p THEN NoOne ELSE lock)
  /\ Goto(p, "done") /\ out' = Ended(p, Handoff(p)) /\ list' = [list EXCEPT ![p] = {}]
  /\ UNCHANGED <<remote, flight, aim, sent, made, reports, tries, bulk, guard, faults>>

\* assertOwned and the change of Local State are one update; then the release.
Apply(p) ==
  /\ pc[p] = "apply" /\ lock = p
  /\ Reconcile(list[p])
  /\ lock' = NoOne
  /\ Goto(p, "done") /\ out' = Ended(p, Handoff(p)) /\ list' = [list EXCEPT ![p] = {}]
  /\ UNCHANGED <<remote, flight, aim, sent, made, reports, tries, bulk, guard, faults>>

\* The lock times out, the provider fails, the lease is lost, or Local State
\* cannot be written.
RefreshFails(p) ==
  /\ pc[p] \in {"lock", "list", "apply"}
  /\ lock' = (IF lock = p THEN NoOne ELSE lock)
  /\ Goto(p, "done") /\ out' = Ended(p, "refreshFailed") /\ list' = [list EXCEPT ![p] = {}]
  /\ UNCHANGED <<remote, flight, local, aim, sent, made, reports, tries, bulk, guard, faults>>

(***************************************************************************)
(* HostOperationRunner.run of a mutation, for commands and workers: the    *)
(* provider marks the mutation and sends it in one go, unless it was       *)
(* aborted (external); abort and timeout win over a late answer.           *)
(***************************************************************************)
Creates(r) == remote[r] = "unborn" /\ \A f \in flight : f.res # r

Dispatch(p) ==
  /\ pc[p] = "call" /\ ~sent[p]
  /\ \E r \in Resource :
       /\ IF p \in Command THEN Creates(r) ELSE r = aim[p][1]
       /\ flight' = flight \cup
            {[by |-> p, res |-> r, what |-> IF p \in Command THEN "create" ELSE bulk.action]}
  /\ sent' = [sent EXCEPT ![p] = TRUE]
  /\ UNCHANGED <<remote, local, lock, pc, list, aim, made, reports, out, tries, bulk, guard, faults>>

\* A request reaches the provider.
Effect(f) ==
  /\ f \in flight /\ flight' = flight \ {f}
  /\ remote' = [remote EXCEPT ![f.res] =
       IF f.what = "create" THEN "running"
       ELSE IF ~Alive(f.res) THEN @ ELSE IF f.what = "destroy" THEN "gone" ELSE "stopped"]
  /\ made' = [c \in Command |-> IF c = f.by THEN made[c] \cup {f.res} ELSE made[c]]
  /\ UNCHANGED <<local, lock, pc, list, aim, sent, reports, out, tries, bulk, guard, faults>>

\* The provider ends a resource by itself.
Vanish(r) ==
  /\ Alive(r) /\ remote' = [remote EXCEPT ![r] = "gone"]
  /\ UNCHANGED <<flight, local, lock, calls, bulk, guard, faults>>

\* A request whose sender no longer waits may still be on its way, or is lost.
MayBeLost(p) == \E lost \in {{}, {f \in flight : f.by = p}} : flight' = flight \ lost

\* Mutant: whatever was cancelled or timed out is called safe to retry.
AbortedAlwaysSafe(p) == "safe"

\* What run() throws when it was aborted.
Aborted(p) == IF sent[p] THEN "unknown" ELSE "safe"

(***************************************************************************)
(* A provider command: confirmed, run, its resources recorded, then the    *)
(* inventory refreshed to find their instances.                            *)
(***************************************************************************)
StartCommand(c) ==
  /\ \/ pc[c] = "idle"
     \/ pc[c] = "done" /\ out[c] = "safe" /\ tries[c] < MaxTries
  /\ \/ Goto(c, "call") /\ out' = [out EXCEPT ![c] = "none"]
     \/ Goto(c, "done") /\ out' = [out EXCEPT ![c] = "failed"]
  /\ tries' = [tries EXCEPT ![c] = @ + 1] /\ sent' = [sent EXCEPT ![c] = FALSE]
  /\ UNCHANGED <<remote, flight, local, lock, list, aim, made, reports, bulk, guard, faults>>

CommandAborts(c) ==
  /\ c \in Command /\ pc[c] = "call" /\ MayBeLost(c)
  /\ out' = [out EXCEPT ![c] = Aborted(c)]
  /\ Goto(c, IF out'[c] = "unknown" THEN "lock" ELSE "done")
  /\ UNCHANGED <<remote, local, lock, list, aim, sent, made, reports, tries, bulk, guard, faults>>

\* The command throws an error of its own.
CommandFails(c) ==
  /\ c \in Command /\ pc[c] = "call" /\ MayBeLost(c)
  /\ out' = [out EXCEPT ![c] = IF sent[c] THEN "failed" ELSE "safe"]
  /\ Goto(c, "done")
  /\ UNCHANGED <<remote, local, lock, list, aim, sent, made, reports, tries, bulk, guard, faults>>

\* It returns what it made, or less than that, or what parses as no result.
CommandReturns(c) ==
  /\ c \in Command /\ pc[c] = "call" /\ made[c] # {} /\ \A f \in flight : f.by # c
  /\ \/ /\ reports' = [reports EXCEPT ![c] = made[c]]
        /\ Goto(c, "record") /\ UNCHANGED out
     \/ /\ Goto(c, "lock") /\ UNCHANGED <<reports, out>>
     \/ /\ out' = [out EXCEPT ![c] = "noHandoff"]
        /\ Goto(c, "done") /\ UNCHANGED reports
  /\ UNCHANGED <<remote, flight, local, lock, list, aim, sent, made, tries, bulk, guard, faults>>

\* Mutant: what is bound already is left as it is.
RecordPendingOnly(c) ==
  /\ pc[c] = "record" /\ Goto(c, "lock")
  /\ pending' = pending \cup {r \in reports[c] : bound[r] = 0}
  /\ UNCHANGED <<remote, flight, bound, minted, managed, lock, list, aim, sent, made, reports, out, tries, bulk, guard, faults>>

\* recordAcquiredProviderResources
Record(c) ==
  /\ pc[c] = "record" /\ Goto(c, "lock")
  /\ managed' = managed \cup {r \in reports[c] : bound[r] # 0}
  /\ pending' = pending \cup {r \in reports[c] : bound[r] = 0}
  /\ UNCHANGED <<remote, flight, bound, minted, lock, list, aim, sent, made, reports, out, tries, bulk, guard, faults>>

RecordFails(c) ==
  /\ pc[c] = "record" /\ Goto(c, "done")
  /\ out' = [out EXCEPT ![c] = "persistFailed"]
  /\ UNCHANGED <<remote, flight, local, lock, list, aim, sent, made, reports, tries, bulk, guard, faults>>

(***************************************************************************)
(* A bulk action over instances the user selected, each once, with a       *)
(* bounded number of workers (performBulk, perform, performAction).        *)
(***************************************************************************)
StartBulk(action) ==
  /\ bulk.action = "none"
  /\ \E S \in SUBSET {r \in Resource : bound[r] # 0} :
       /\ S # {}
       /\ \E ids \in SetToSeqs({<<r, bound[r]>> : r \in S}) :
          bulk' = [bulk EXCEPT !.action = action, !.queue = ids,
                               !.result = [k \in DOMAIN ids |-> "none"],
                               !.watch = [k \in DOMAIN ids |-> "read"]]
  /\ UNCHANGED <<remote, flight, local, lock, calls, guard, faults>>

\* The bulk action is cancelled: no worker starts with another target (the workers
\* fail the remaining ones as they get there, here at once).
AbortBulk ==
  /\ bulk.next <= Len(bulk.queue)
  /\ bulk' = [bulk EXCEPT !.next = Len(bulk.queue) + 1,
                         !.result = [k \in DOMAIN @ |-> IF k < bulk.next THEN @[k] ELSE "failed"]]
  /\ UNCHANGED <<remote, flight, local, lock, calls, guard, faults>>

\* The index of the target a worker is at.
At(w) == CHOOSE k \in DOMAIN bulk.queue : bulk.queue[k] = aim[w]

\* The worker is done with its target, releases the guard and takes the next.
Finish(w, result) ==
  /\ bulk' = [bulk EXCEPT !.result[At(w)] = result]
  /\ guard' = (IF guard = w THEN NoOne ELSE guard)
  /\ aim' = [aim EXCEPT ![w] = <<NoOne, 0>>] /\ sent' = [sent EXCEPT ![w] = FALSE]
  /\ Goto(w, "idle")

TakeTarget(w) ==
  /\ w \in Worker /\ pc[w] = "idle" /\ bulk.next <= Len(bulk.queue)
  /\ aim' = [aim EXCEPT ![w] = bulk.queue[bulk.next]]
  /\ bulk' = [bulk EXCEPT !.next = @ + 1]
  /\ Goto(w, IF bulk.action = "destroy" THEN "perform" ELSE "find")
  /\ UNCHANGED <<remote, flight, local, lock, list, sent, made, reports, out, tries, guard, faults>>

MayDestroy(id) == Found(id) /\ id[1] \in managed

\* perform reads the binding, then takes the guard of a destroy.
Perform(w) ==
  /\ pc[w] = "perform" /\ MayDestroy(aim[w]) /\ guard = NoOne
  /\ guard' = w /\ Goto(w, "find")
  /\ UNCHANGED <<remote, flight, local, lock, list, aim, sent, made, reports, out, tries, bulk, faults>>

\* performAction reads the binding again.
Find(w) ==
  /\ pc[w] = "find"
  /\ IF bulk.action = "destroy" THEN MayDestroy(aim[w]) ELSE Found(aim[w])
  /\ Goto(w, "get")
  /\ UNCHANGED <<remote, flight, local, lock, list, aim, sent, made, reports, out, tries, bulk, guard, faults>>

\* getInstance returns a resource on which the action is available.
GetPresent(w) ==
  /\ w \in Worker /\ pc[w] = "get"
  /\ Alive(aim[w][1])
  /\ bulk.action = "stop" => remote[aim[w][1]] = "running"
  /\ Goto(w, "call") /\ sent' = [sent EXCEPT ![w] = FALSE]
  /\ UNCHANGED <<remote, flight, local, lock, list, aim, made, reports, out, tries, bulk, guard, faults>>

\* getInstance returns undefined.
GetAbsent(w) ==
  /\ w \in Worker /\ pc[w] = "get" /\ remote[aim[w][1]] = "gone"
  /\ RemoveBinding(aim[w]) /\ Finish(w, "failed")
  /\ UNCHANGED <<remote, flight, lock, list, made, reports, out, tries, faults>>

\* Not found, not managed, no guard in time, connections left, no provider, no
\* answer, action not available: nothing was dispatched.
WorkerFails(w) ==
  /\ w \in Worker /\ pc[w] \in {"perform", "find", "get"} /\ Finish(w, "failed")
  /\ UNCHANGED <<remote, flight, local, lock, list, made, reports, out, tries, faults>>

\* The provider has accepted the mutation; it may take effect later.
Accepted(w) ==
  /\ w \in Worker /\ pc[w] = "call" /\ sent[w] /\ Finish(w, "completed")
  /\ UNCHANGED <<remote, flight, local, lock, list, made, reports, out, tries, faults>>

MutationAborts(w) ==
  /\ w \in Worker /\ pc[w] = "call" /\ MayBeLost(w)
  /\ IF Aborted(w) = "unknown"
     THEN Goto(w, "checkUnknown") /\ UNCHANGED <<bulk, guard, aim, sent>>
     ELSE Finish(w, "failed")
  /\ UNCHANGED <<remote, local, lock, list, made, reports, out, tries, faults>>

\* The provider refuses, as a conflict or with another error.
MutationFails(w) ==
  /\ w \in Worker /\ pc[w] = "call" /\ MayBeLost(w)
  /\ \/ Goto(w, "checkConflict") /\ UNCHANGED <<bulk, guard, aim, sent>>
     \/ Finish(w, "failed")
  /\ UNCHANGED <<remote, local, lock, list, made, reports, out, tries, faults>>

\* refreshBindingAfterMutation: looks again, and ignores a failure to look.
Check(w) ==
  /\ pc[w] \in {"checkConflict", "checkUnknown"}
  /\ Finish(w, IF pc[w] = "checkUnknown" THEN "unknown" ELSE "failed")
  /\ \/ remote[aim[w][1]] = "gone" /\ RemoveBinding(aim[w])
     \/ UNCHANGED local
  /\ UNCHANGED <<remote, flight, lock, list, made, reports, out, tries, faults>>

(***************************************************************************)
(* waitForInstance for what was completed, once performBulk has returned   *)
(***************************************************************************)
Watching(k) ==
  /\ bulk.action # "none" /\ bulk.result[k] = "completed"
  /\ \A j \in DOMAIN bulk.result : bulk.result[j] # "none"

Watch(k, s) == bulk' = [bulk EXCEPT !.watch[k] = s]
NotThere == IF bulk.action = "destroy" THEN "absent" ELSE "notFound"

\* inspectInstance reads Local State.
WatchRead(k) ==
  /\ Watching(k) /\ bulk.watch[k] = "read"
  /\ Watch(k, IF Found(bulk.queue[k]) THEN "get" ELSE NotThere)
  /\ UNCHANGED <<remote, flight, local, lock, calls, guard, faults>>

\* It asks the provider; if the state is not reached it asks again later.
WatchGet(k) ==
  /\ Watching(k) /\ bulk.watch[k] = "get"
  /\ LET r == bulk.queue[k][1] IN
     \/ /\ remote[r] = "gone" /\ RemoveBinding(bulk.queue[k]) /\ Watch(k, NotThere)
     \/ /\ Alive(r) /\ UNCHANGED local
        /\ Watch(k, IF bulk.action = "stop" /\ remote[r] = "stopped" THEN "reached" ELSE "read")
  /\ UNCHANGED <<remote, flight, lock, calls, guard, faults>>

WatchTimeout(k) ==
  /\ Watching(k) /\ bulk.watch[k] \in {"read", "get"} /\ Watch(k, "timeout")
  /\ UNCHANGED <<remote, flight, local, lock, calls, guard, faults>>

(***************************************************************************)
(* Single calls.  Ids are unique and a resource that is gone stays gone, so *)
(* what they read before the provider answered or the update ran is still   *)
(* so when the update finds the id: each is one step.                       *)
(***************************************************************************)
\* adoptInstance; an id that is not found is refused.
Adopt(r) ==
  /\ bound[r] # 0 /\ managed' = managed \cup {r}
  /\ UNCHANGED <<remote, flight, bound, minted, pending, lock, calls, bulk, guard, faults>>

\* inspectInstance, when the provider returns undefined.
Inspect(r) ==
  /\ bound[r] # 0 /\ remote[r] = "gone" /\ RemoveBinding(<<r, bound[r]>>)
  /\ UNCHANGED <<remote, flight, lock, calls, bulk, guard, faults>>

(***************************************************************************)
(* Faults                                                                  *)
(***************************************************************************)
\* A process is suspended until another takes its refresh lock for stale.
Suspend ==
  /\ faults < MaxFaults /\ faults' = faults + 1
  /\ lock # NoOne /\ lock' = NoOne
  /\ UNCHANGED <<remote, flight, local, calls, bulk, guard>>

\* A process dies; what it has sent may still take effect.
Die(p) ==
  /\ faults < MaxFaults /\ faults' = faults + 1
  /\ p \in Refresher \cup Command /\ pc[p] \notin {"idle", "done"}
  /\ Goto(p, "done") /\ lock' = (IF lock = p THEN NoOne ELSE lock)
  /\ out' = Ended(p, "failed") /\ list' = [list EXCEPT ![p] = {}]
  /\ UNCHANGED <<remote, flight, local, aim, sent, made, reports, tries, bulk, guard>>

Refresh(p) ==
  StartRefresh(p) \/ TakeLock(p) \/ List(p) \/ Apply(p) \/ RefreshFails(p) \/ Die(p)

RunCommand(c) ==
  StartCommand(c) \/ CommandAborts(c) \/ CommandFails(c) \/ CommandReturns(c)
    \/ Record(c) \/ RecordFails(c)

Work(w) ==
  TakeTarget(w) \/ Perform(w) \/ Find(w) \/ GetPresent(w) \/ GetAbsent(w)
    \/ WorkerFails(w) \/ Accepted(w) \/ MutationAborts(w) \/ MutationFails(w) \/ Check(w)

Next ==
  \/ \E p \in Refresher \cup Command : Refresh(p)
  \/ \E c \in Command : RunCommand(c)
  \/ \E action \in {"destroy", "stop"} : StartBulk(action)
  \/ AbortBulk
  \/ \E w \in Worker : Work(w)
  \/ \E k \in DOMAIN bulk.queue : WatchRead(k) \/ WatchGet(k) \/ WatchTimeout(k)
  \/ \E p \in Command \cup Worker : Dispatch(p)
  \/ \E f \in flight : Effect(f)
  \/ \E r \in Resource : Adopt(r) \/ Inspect(r) \/ Vanish(r)
  \/ Suspend

Spec == Init /\ [][Next]_vars

(***************************************************************************)
(* Properties                                                              *)
(***************************************************************************)
\* The types of the variables, and that only a refresh in progress has the lock.
TypeOK ==
  /\ remote \in [Resource -> {"unborn", "running", "stopped", "gone"}]
  /\ bound \in [Resource -> Nat] /\ minted \in [Resource -> Nat]
  /\ managed \subseteq Resource /\ pending \subseteq Resource
  /\ lock \in Refresher \cup Command \cup {NoOne}
  /\ lock # NoOne => pc[lock] \in {"list", "apply"}
  /\ list \in [Client -> SUBSET Resource]
  /\ aim \in [Client -> (Resource \cup {NoOne}) \X Nat]
  /\ flight \subseteq [by : Client, res : Resource, what : {"create", "destroy", "stop", "none"}]
  /\ reports \in [Command -> SUBSET Resource]

\* What was acquired through EasyServer or adopted stays managed, or pending, as
\* long as it exists: no refresh, however old its list, and no removal of a
\* binding makes EasyServer forget that it may destroy it.
AcquiredStaysManaged ==
  [][\A r \in Resource : Claimed(r) /\ Alive(r)' => Claimed(r)']_vars

\* An instance keeps its id as long as it exists: the ids that a user, a saved
\* Endpoint intent or a running wait holds go on to mean it.
StableIdentity ==
  \A r \in Resource : Alive(r) => minted[r] <= 1 /\ bound[r] = minted[r]

\* What a command reports as acquired is managed or pending, unless the run says
\* that it could not be recorded; and a complete hand-off names managed instances.
HandoffIsKept ==
  \A c \in Command : \A r \in reports[c] : Alive(r) =>
    /\ out[c] \in {"complete", "partial", "refreshFailed"} => Claimed(r)
    /\ out[c] = "complete" => bound[r] # 0 /\ r \in managed

\* Who waited for a destroyed instance and is told that it is absent can rely on
\* it: the provider does not have it (and does not charge for it) any more.
AbsentMeansGone ==
  \A k \in DOMAIN bulk.queue : bulk.watch[k] = "absent" => ~Alive(bulk.queue[k][1])

\* What users are told is true: what a command reports as acquired, and that a
\* waited for destruction is done.
ReportsAreTrue == HandoffIsKept /\ AbsentMeansGone

\* A command that is run again because its failure was called safe to retry never
\* creates a second resource, however late its first request takes effect.
RetryCreatesOnce ==
  \A c \in Command : Cardinality(made[c] \cup {f.res : f \in {g \in flight : g.by = c}}) <= 1

=============================================================================
