--------------------------- MODULE ProviderProofs ----------------------------
(***************************************************************************)
(* What is proved of the work that is done with a provider: the instances  *)
(* that are created, changed and destroyed, and a provider's interactive   *)
(* flow, whose session is used as its contract says from its admission to  *)
(* its end and whose events are about what the screen that the provider is *)
(* at offers.                                                              *)
(***************************************************************************)
EXTENDS Instances, ProviderFlows, FiniteSetTheorems, SequenceTheorems, TLAPS

(***************************************************************************)
(* The instances: StableIdentity, AcquiredStaysManaged, ReportsAreTrue and *)
(* RetryCreatesOnce for any number of resources, refreshers, commands,     *)
(* workers, retries and faults.                                            *)
(***************************************************************************)

Request == [by : Client, res : Resource, what : {"create", "destroy", "stop", "none"}]

PC == {"idle", "lock", "list", "apply", "done", "call", "record",
       "perform", "find", "get", "checkConflict", "checkUnknown"}
Told == {"none", "safe", "unknown", "failed", "complete", "partial", "refreshFailed",
         "noHandoff", "persistFailed"}
Seen == {"read", "get", "absent", "notFound", "reached", "timeout"}

\* The types of the variables; a bulk action watches each of its targets.
Shape ==
  /\ remote \in [Resource -> {"unborn", "running", "stopped", "gone"}]
  /\ flight \subseteq Request
  /\ bound \in [Resource -> Nat] /\ minted \in [Resource -> Nat]
  /\ managed \subseteq Resource /\ pending \subseteq Resource
  /\ pc \in [Client -> PC] /\ sent \in [Client -> BOOLEAN]
  /\ list \in [Client -> SUBSET Resource]
  /\ aim \in [Client -> (Resource \cup {NoOne}) \X Nat]
  /\ made \in [Command -> SUBSET Resource] /\ reports \in [Command -> SUBSET Resource]
  /\ out \in [Command -> Told]

BulkShape ==
  /\ DOMAIN bulk = {"action", "queue", "next", "result", "watch"}
  /\ bulk.action \in {"none", "destroy", "stop"}
  /\ bulk.queue \in Seq(Resource \X Nat) /\ bulk.next \in Nat \ {0}
  /\ bulk.watch \in [DOMAIN bulk.queue -> Seen]

-----------------------------------------------------------------------------
LEMMA ClientSets ==
  /\ Client = Refresher \cup Command \cup Worker
  /\ \A c \in Command : c \in Client /\ c \notin Worker /\ c \notin Refresher
  /\ NoOne \notin Client
BY InstancesAssumption DEF Client

\* The queues that StartBulk may make are sequences of ids.
LEMMA QueueOf ==
  ASSUME NEW S \in SUBSET Resource, bound \in [Resource -> Nat],
         NEW ids \in SetToSeqs({<<r, bound[r]>> : r \in S})
  PROVE  /\ ids \in Seq(Resource \X Nat)
         /\ \A k \in DOMAIN ids : \E r \in S : ids[k] = <<r, bound[r]>>
<1> DEFINE T == {<<r, bound[r]>> : r \in S}
<1>1. T \subseteq Resource \X Nat
  OBVIOUS
<1>2. IsFiniteSet(T)
  <2>1. IsFiniteSet(S)
    BY InstancesAssumption, FS_Subset
  <2> DEFINE F == [r \in S |-> <<r, bound[r]>>]
  <2>2. F \in Surjection(S, T)
    BY DEF Surjection
  <2> QED  BY <2>1, <2>2, FS_Surjection
<1>3. Cardinality(T) \in Nat
  BY <1>2, FS_CardinalityType
<1>4. ids \in [1..Cardinality(T) -> T]
  BY DEF SetToSeqs
<1>5. ids \in Seq(T)
  BY <1>3, <1>4, SeqDef, ZenonT(60)
<1>6. \A k \in DOMAIN ids : ids[k] \in T
  BY <1>4
<1> QED  BY <1>1, <1>5, <1>6, <1>4, <1>3, SeqDef

\* The changes of Local State keep its types.
LEMMA ReconcileShape ==
  ASSUME Shape, NEW L \in SUBSET Resource, Reconcile(L)
  PROVE  /\ bound' \in [Resource -> Nat] /\ minted' \in [Resource -> Nat]
         /\ managed' \subseteq Resource /\ pending' \subseteq Resource
BY DEF Shape, Reconcile

LEMMA RemovalShape ==
  ASSUME Shape, NEW id, RemoveBinding(id)
  PROVE  /\ bound' \in [Resource -> Nat] /\ minted' \in [Resource -> Nat]
         /\ managed' \subseteq Resource /\ pending' \subseteq Resource
BY DEF Shape, RemoveBinding

LEMMA InitShape == Init => Shape /\ BulkShape
<1> SUFFICES ASSUME Init PROVE Shape /\ BulkShape
  OBVIOUS
<1>1. Shape
  BY InstancesAssumption DEF Init, Shape, Client, Request, PC, Told
<1>2. <<>> \in Seq(Resource \X Nat) /\ DOMAIN <<>> = {}
  OBVIOUS
<1>3. BulkShape
  BY <1>2 DEF Init, BulkShape
<1> QED  BY <1>1, <1>3

\* What a worker's end does to the bulk action.
LEMMA FinishShape ==
  ASSUME Shape, BulkShape, NEW w \in Worker, NEW result, Finish(w, result)
  PROVE  /\ BulkShape' /\ bulk'.queue = bulk.queue /\ bulk'.watch = bulk.watch
         /\ bulk'.action = bulk.action
         /\ aim' \in [Client -> (Resource \cup {NoOne}) \X Nat]
         /\ sent' \in [Client -> BOOLEAN] /\ pc' \in [Client -> PC]
<1>1. w \in Client
  BY DEF Client
<1>2. pc' \in [Client -> PC] /\ sent' \in [Client -> BOOLEAN]
  BY <1>1 DEF Finish, Goto, Shape, PC
<1>3. aim' \in [Client -> (Resource \cup {NoOne}) \X Nat]
  BY <1>1 DEF Finish, Shape
<1>5. /\ DOMAIN bulk' = DOMAIN bulk
      /\ bulk'.queue = bulk.queue /\ bulk'.watch = bulk.watch
      /\ bulk'.action = bulk.action /\ bulk'.next = bulk.next
  BY DEF Finish, BulkShape
<1> QED  BY <1>2, <1>3, <1>5 DEF BulkShape

LEMMA ShapeStep == Shape /\ BulkShape /\ [Next]_vars => Shape' /\ BulkShape'
<1> SUFFICES ASSUME Shape, BulkShape, [Next]_vars PROVE Shape' /\ BulkShape'
  OBVIOUS
<1>1. ASSUME NEW p \in Refresher \cup Command, Refresh(p) PROVE Shape' /\ BulkShape'
  <2>0. p \in Client
    BY DEF Client
  <2> USE <2>0 DEF Goto, PC, Told
  <2>1. UNCHANGED bulk
    BY <1>1 DEF Refresh, StartRefresh, TakeLock, List, Apply, RefreshFails, Die
  <2> SUFFICES Shape'
    BY <2>1 DEF BulkShape
  <2>2. CASE StartRefresh(p)
    BY <2>2 DEF StartRefresh, Shape, local
  <2>3. CASE TakeLock(p)
    BY <2>3 DEF TakeLock, Shape, local
  <2>4. CASE List(p)
    BY <2>4 DEF List, Shape, local
  <2>5. CASE Apply(p)
    <3>1. list[p] \in SUBSET Resource
      BY DEF Shape
    <3>2. Handoff(p) \in Told
      BY DEF Told, Handoff
    <3>3. out' \in [Command -> Told]
      BY <2>5, <3>2 DEF Apply, Ended, Shape
    <3> QED  BY <2>5, <3>1, <3>3, ReconcileShape DEF Apply, Shape
  <2>6. CASE RefreshFails(p)
    BY <2>6 DEF RefreshFails, Shape, local, Ended
  <2>7. CASE Die(p)
    BY <2>7 DEF Die, Shape, local, Ended
  <2> QED  BY <1>1, <2>2, <2>3, <2>4, <2>5, <2>6, <2>7 DEF Refresh
<1>2. ASSUME NEW c \in Command, RunCommand(c) PROVE Shape' /\ BulkShape'
  <2>0. c \in Client
    BY DEF Client
  <2> USE <2>0 DEF Goto, local, PC, Told
  <2>1. UNCHANGED bulk
    BY <1>2 DEF RunCommand, StartCommand, CommandAborts, CommandFails, CommandReturns,
                Record, RecordFails
  <2> SUFFICES Shape'
    BY <2>1 DEF BulkShape
  <2>2. CASE StartCommand(c)
    BY <2>2 DEF StartCommand, Shape
  <2>3. CASE CommandAborts(c)
    BY <2>3 DEF CommandAborts, Shape, Aborted, MayBeLost
  <2>4. CASE CommandFails(c)
    BY <2>4 DEF CommandFails, Shape, MayBeLost
  <2>5. CASE CommandReturns(c)
    BY <2>5, ZenonT(60) DEF CommandReturns, Shape
  <2>6. CASE Record(c)
    BY <2>6 DEF Record, Shape
  <2>7. CASE RecordFails(c)
    BY <2>7 DEF RecordFails, Shape
  <2> QED
    BY <1>2, <2>2, <2>3, <2>4, <2>5, <2>6, <2>7 DEF RunCommand
<1>3. ASSUME NEW action \in {"destroy", "stop"}, StartBulk(action) PROVE Shape' /\ BulkShape'
  <2> DEFINE A == {r \in Resource : bound[r] # 0}
  <2>1. PICK S \in SUBSET A : \E ids \in SetToSeqs({<<r, bound[r]>> : r \in S}) :
          bulk' = [bulk EXCEPT !.action = action, !.queue = ids,
                               !.result = [k \in DOMAIN ids |-> "none"],
                               !.watch = [k \in DOMAIN ids |-> "read"]]
    BY <1>3 DEF StartBulk
  <2>2. PICK ids \in SetToSeqs({<<r, bound[r]>> : r \in S}) :
          bulk' = [bulk EXCEPT !.action = action, !.queue = ids,
                               !.result = [k \in DOMAIN ids |-> "none"],
                               !.watch = [k \in DOMAIN ids |-> "read"]]
    BY <2>1
  <2>3. ids \in Seq(Resource \X Nat)
    BY QueueOf DEF Shape
  <2>4. BulkShape'
    BY <2>2, <2>3 DEF BulkShape, Seen
  <2>5. Shape'
    BY <1>3 DEF StartBulk, Shape, local, calls
  <2> QED  BY <2>4, <2>5
<1>4. CASE AbortBulk
  <2>1. Shape'
    BY <1>4 DEF AbortBulk, Shape, local, calls
  <2>2. /\ DOMAIN bulk' = DOMAIN bulk /\ bulk'.queue = bulk.queue /\ bulk'.watch = bulk.watch
        /\ bulk'.action = bulk.action /\ bulk'.next = Len(bulk.queue) + 1
    BY <1>4 DEF AbortBulk, BulkShape
  <2>3. Len(bulk.queue) + 1 \in Nat \ {0}
    BY DEF BulkShape
  <2> QED  BY <2>1, <2>2, <2>3 DEF BulkShape
<1>5. ASSUME NEW w \in Worker, Work(w) PROVE Shape' /\ BulkShape'
  <2>0. w \in Client
    BY DEF Client
  <2>1. CASE TakeTarget(w)
    <3>1. /\ DOMAIN bulk' = DOMAIN bulk /\ bulk'.queue = bulk.queue /\ bulk'.watch = bulk.watch
          /\ bulk'.action = bulk.action /\ bulk'.next = bulk.next + 1
      BY <2>1 DEF TakeTarget, BulkShape
    <3>2. BulkShape'
      BY <3>1 DEF BulkShape
    <3>3. bulk.queue[bulk.next] \in Resource \X Nat
      BY <2>1 DEF TakeTarget, BulkShape
    <3>4. aim' \in [Client -> (Resource \cup {NoOne}) \X Nat]
      BY <2>0, <2>1, <3>3 DEF TakeTarget, Shape
    <3> QED  BY <2>0, <2>1, <3>2, <3>4 DEF TakeTarget, Goto, local, Shape, PC
  <2>2. CASE Perform(w) \/ Find(w) \/ GetPresent(w)
    BY <2>0, <2>2 DEF Perform, Find, GetPresent, Goto, local, Shape, BulkShape, PC
  <2>3. CASE GetAbsent(w)
    BY <2>3, RemovalShape, FinishShape DEF GetAbsent, Shape
  <2>4. CASE WorkerFails(w) \/ Accepted(w)
    BY <2>4, FinishShape DEF WorkerFails, Accepted, local, Shape
  <2>5. CASE MutationAborts(w)
    <3>1. flight' \subseteq Request
      BY <2>5 DEF MutationAborts, MayBeLost, Shape
    <3> QED
      BY <2>0, <2>5, <3>1, FinishShape DEF MutationAborts, Goto, local, Shape, BulkShape, PC
  <2>6. CASE MutationFails(w)
    <3>1. flight' \subseteq Request
      BY <2>6 DEF MutationFails, MayBeLost, Shape
    <3> QED
      BY <2>0, <2>6, <3>1, FinishShape DEF MutationFails, Goto, local, Shape, BulkShape, PC
  <2>7. CASE Check(w)
    <3>1. /\ bound' \in [Resource -> Nat] /\ minted' \in [Resource -> Nat]
          /\ managed' \subseteq Resource /\ pending' \subseteq Resource
      BY <2>7, RemovalShape DEF Check, local, Shape
    <3> QED  BY <2>7, <3>1, FinishShape DEF Check, Shape
  <2> QED  BY <1>5, <2>1, <2>2, <2>3, <2>4, <2>5, <2>6, <2>7 DEF Work
<1>6. ASSUME NEW k \in DOMAIN bulk.queue, WatchRead(k) \/ WatchGet(k) \/ WatchTimeout(k)
      PROVE  Shape' /\ BulkShape'
  <2>1. PICK s \in Seen : Watch(k, s)
    BY <1>6 DEF WatchRead, WatchGet, WatchTimeout, NotThere, Seen
  <2>2. /\ DOMAIN bulk' = DOMAIN bulk /\ bulk'.queue = bulk.queue
        /\ bulk'.watch = [bulk.watch EXCEPT ![k] = s]
        /\ bulk'.action = bulk.action /\ bulk'.next = bulk.next
    BY <2>1 DEF Watch, BulkShape
  <2>3. BulkShape'
    BY <2>2 DEF BulkShape
  <2>4. /\ bound' \in [Resource -> Nat] /\ minted' \in [Resource -> Nat]
        /\ managed' \subseteq Resource /\ pending' \subseteq Resource
    BY <1>6, RemovalShape DEF WatchRead, WatchGet, WatchTimeout, local, Shape
  <2> QED  BY <1>6, <2>3, <2>4 DEF WatchRead, WatchGet, WatchTimeout, calls, Shape
<1>7. ASSUME NEW p \in Command \cup Worker, Dispatch(p) PROVE Shape' /\ BulkShape'
  <2>0. p \in Client
    BY DEF Client
  <2>1. flight' \subseteq Request
    BY <2>0, <1>7 DEF Dispatch, Shape, BulkShape, Request
  <2> QED  BY <2>0, <2>1, <1>7 DEF Dispatch, local, Shape, BulkShape
<1>8. ASSUME NEW f \in flight, Effect(f) PROVE Shape' /\ BulkShape'
  <2>0. f.res \in Resource
    BY DEF Shape, Request
  <2>1. remote' \in [Resource -> {"unborn", "running", "stopped", "gone"}]
    BY <2>0, <1>8 DEF Effect, Shape
  <2>2. made' \in [Command -> SUBSET Resource]
    BY <2>0, <1>8 DEF Effect, Shape
  <2> QED  BY <2>1, <2>2, <1>8 DEF Effect, local, Shape, BulkShape
<1>9. ASSUME NEW r \in Resource, Adopt(r) \/ Inspect(r) \/ Vanish(r) PROVE Shape' /\ BulkShape'
  <2>1. CASE Adopt(r)
    BY <2>1 DEF Adopt, calls, Shape, BulkShape
  <2>2. CASE Inspect(r)
    BY <2>2, RemovalShape DEF Inspect, calls, Shape, BulkShape
  <2>3. CASE Vanish(r)
    BY <2>3 DEF Vanish, calls, local, Shape, BulkShape
  <2> QED  BY <1>9, <2>1, <2>2, <2>3
<1>10. CASE Suspend
  BY <1>10 DEF Suspend, calls, local, Shape, BulkShape
<1>11. CASE UNCHANGED vars
  BY <1>11 DEF vars, calls, local, Shape, BulkShape
<1> QED
  BY <1>1, <1>2, <1>3, <1>4, <1>5, <1>6, <1>7, <1>8, <1>9, <1>10, <1>11 DEF Next

-----------------------------------------------------------------------------
(***************************************************************************)
(* What Local State holds against what the provider has                    *)
(***************************************************************************)
\* Ids: none before the first list that shows the resource, one while it lives.
Ids ==
  /\ \A r \in Resource : remote[r] = "unborn" => bound[r] = 0 /\ minted[r] = 0
  /\ \A r \in Resource : bound[r] <= minted[r]
  /\ \A r \in managed : bound[r] # 0
  /\ StableIdentity

\* A list in the hands of a refresh: it names nothing unborn, and while the lock
\* is held it names every living resource that is bound.
Snapshots ==
  \A p \in Client : pc[p] = "apply" =>
    /\ \A r \in list[p] : remote[r] # "unborn"
    /\ lock = p => \A r \in Resource : Alive(r) /\ bound[r] # 0 => r \in list[p]

\* A request to create a resource is the only one for it.
Creations ==
  \A f \in flight :
    /\ f.by \in Command => f.what = "create"
    /\ f.what = "create" => /\ remote[f.res] = "unborn"
                            /\ \A g \in flight : g.what = "create" /\ g.res = f.res => g = f

Core == Ids /\ Snapshots /\ Creations

\* A step keeps the memory of what lives, and no resource is reborn.
Kept ==
  \A r \in Resource :
    /\ remote[r] # "unborn" => remote'[r] # "unborn" /\ (Alive(r)' => Alive(r))
    /\ minted[r] <= minted'[r]
    /\ Alive(r)' /\ r \in managed => r \in managed'
    /\ Alive(r)' /\ Claimed(r) => Claimed(r)'

\* A client that is about to apply a list was so before.
Lists ==
  \A p \in Client : pc'[p] = "apply" =>
    pc[p] = "apply" /\ list'[p] = list[p] /\ (lock' = p => lock = p)

\* A step that, in Local State, only drops what does not live or claims what is bound.
Frame ==
  /\ UNCHANGED <<remote, minted>> /\ Lists /\ flight' \subseteq flight
  /\ \A r \in Resource : bound'[r] = bound[r] \/ (bound'[r] = 0 /\ ~Alive(r))
  /\ \A r \in managed' : bound'[r] # 0
  /\ \A r \in managed : Alive(r) => r \in managed'
  /\ pending \subseteq pending'

LEMMA FrameStep ==
  ASSUME Shape, Shape', Core, Frame
  PROVE  Core' /\ Kept
<1>0. \A r \in Resource : minted[r] \in Nat /\ bound[r] \in Nat
  BY DEF Shape
<1>1. Ids'
  BY <1>0 DEF Shape, Core, Frame, Ids, StableIdentity, Alive
<1>2. Snapshots'
  BY DEF Shape, Core, Frame, Lists, Snapshots, Alive
<1>3. Creations'
  BY DEF Core, Frame, Creations
<1>4. Kept
  BY <1>0 DEF Shape, Core, Frame, Kept, Alive, Claimed
<1> QED  BY <1>1, <1>2, <1>3, <1>4 DEF Core

\* A step that leaves Local State alone.
LEMMA Quiet ==
  ASSUME Shape, Core, Lists, UNCHANGED <<remote, local>>, flight' \subseteq flight
  PROVE  Frame
<1>1. UNCHANGED <<bound, minted, managed, pending>>
  BY DEF local
<1>2. \A r \in managed' : bound'[r] # 0
  BY <1>1 DEF Core, Ids
<1> QED  BY <1>1, <1>2 DEF Frame

LEMMA RemovalFrame ==
  ASSUME Shape, Core, Lists, UNCHANGED remote, flight' \subseteq flight,
         NEW id, RemoveBinding(id), remote[id[1]] = "gone"
  PROVE  Frame
<1>1. UNCHANGED <<minted, pending>>
  BY DEF RemoveBinding
<1>2. \A r \in Resource : bound'[r] = bound[r] \/ (bound'[r] = 0 /\ r = id[1])
  <2> SUFFICES ASSUME NEW r \in Resource
               PROVE  bound'[r] = bound[r] \/ (bound'[r] = 0 /\ r = id[1])
    OBVIOUS
  <2>1. bound'[r] = IF r = id[1] /\ Found(id) THEN 0 ELSE bound[r]
    BY DEF RemoveBinding
  <2> QED  BY <2>1
<1>3. managed' = managed \/ managed' = managed \ {id[1]}
  BY DEF RemoveBinding
<1>4. ~Alive(id[1])
  BY DEF Alive
<1>5. \A r \in managed' : bound'[r] # 0
  <2> SUFFICES ASSUME NEW r \in managed' PROVE bound'[r] # 0
    OBVIOUS
  <2>1. r \in managed /\ r \in Resource /\ bound[r] # 0
    BY <1>3 DEF Core, Ids, Shape
  <2>2. CASE Found(id)
    BY <2>1, <2>2 DEF RemoveBinding
  <2>3. CASE ~Found(id)
    BY <2>1, <2>3 DEF RemoveBinding
  <2> QED  BY <2>2, <2>3
<1> QED  BY <1>1, <1>2, <1>3, <1>4, <1>5 DEF Frame

LEMMA ReconcileStep ==
  ASSUME Shape, Shape', Core, NEW p \in Client, pc[p] = "apply", lock = p,
         Reconcile(list[p]), UNCHANGED <<remote, flight>>, lock' = NoOne,
         \A q \in Client : pc'[q] = "apply" => pc[q] = "apply" /\ list'[q] = list[q]
  PROVE  Core' /\ Kept
<1> DEFINE L == list[p]
<1>0. /\ \A r \in Resource : minted[r] \in Nat /\ bound[r] \in Nat
      /\ L \subseteq Resource
  BY DEF Shape
<1>1. /\ \A r \in L : remote[r] # "unborn"
      /\ \A r \in Resource : Alive(r) /\ bound[r] # 0 => r \in L
  BY DEF Core, Snapshots
<1>2. /\ \A r \in Resource : bound'[r] = IF r \notin L THEN 0
                              ELSE IF bound[r] = 0 THEN minted[r] + 1 ELSE bound[r]
      /\ \A r \in Resource : minted'[r] = IF r \in L /\ bound[r] = 0 THEN minted[r] + 1 ELSE minted[r]
      /\ managed' = L \cap (managed \cup pending) /\ pending' = pending \ L
  BY DEF Reconcile
<1> HIDE DEF L
<1>3. \A r \in Resource : Alive(r)' <=> Alive(r)
  BY DEF Alive
<1>4. /\ \A r \in Resource : remote[r] = "unborn" => bound'[r] = 0 /\ minted'[r] = 0
      /\ \A r \in Resource : bound'[r] <= minted'[r]
      /\ \A r \in managed' : bound'[r] # 0
  BY <1>0, <1>1, <1>2 DEF Core, Ids
<1>5. ASSUME NEW r \in Resource, Alive(r) PROVE minted'[r] <= 1 /\ bound'[r] = minted'[r]
  BY <1>0, <1>1, <1>2, <1>5 DEF Core, Ids, StableIdentity
<1>6. Ids'
  BY <1>3, <1>4, <1>5 DEF Ids, StableIdentity
<1>7. Snapshots'
  BY ClientSets DEF Core, Snapshots
<1>8. Creations'
  BY DEF Core, Creations
<1>9. Kept
  BY <1>0, <1>1, <1>2, <1>3 DEF Core, Ids, Kept, Claimed
<1> QED  BY <1>6, <1>7, <1>8, <1>9 DEF Core

LEMMA CoreInit == Init => Core
BY DEF Init, Core, Ids, StableIdentity, Snapshots, Creations, Alive, Client

LEMMA CoreStep == Shape /\ BulkShape /\ Core /\ [Next]_vars => Core' /\ Kept
<1> SUFFICES ASSUME Shape, BulkShape, Core, [Next]_vars PROVE Core' /\ Kept
  OBVIOUS
<1>0. Shape'
  BY ShapeStep
<1> USE DEF Goto
<1>1. ASSUME NEW p \in Refresher \cup Command, Refresh(p) PROVE Core' /\ Kept
  <2>0. p \in Client /\ p # NoOne
    BY ClientSets DEF Client
  <2>1. CASE StartRefresh(p) \/ TakeLock(p) \/ RefreshFails(p) \/ Die(p)
    <3>1. Lists
      BY <2>0, <2>1, ClientSets DEF StartRefresh, TakeLock, RefreshFails, Die, Lists, Shape
    <3>2. UNCHANGED <<remote, local, flight>>
      BY <2>1 DEF StartRefresh, TakeLock, RefreshFails, Die
    <3> QED  BY <1>0, <3>1, <3>2, Quiet, FrameStep
  <2>2. CASE List(p)
    <3>1. UNCHANGED <<remote, bound, minted, managed, pending, flight, lock>>
      BY <2>2 DEF List, local
    <3>2. \A q \in Client : pc'[q] = "apply" =>
            q = p \/ (pc[q] = "apply" /\ list'[q] = list[q])
      BY <2>0, <2>2 DEF List, Shape
    <3>3. list'[p] = {r \in Resource : Alive(r)}
      BY <2>0, <2>2 DEF List, Shape
    <3>4. Snapshots'
      BY <3>1, <3>2, <3>3 DEF Core, Snapshots, Alive
    <3>5. Ids' /\ Creations'
      BY <3>1 DEF Core, Ids, StableIdentity, Creations, Alive
    <3>6. Kept
      BY <1>0, <3>1 DEF Kept, Shape, Claimed, Alive
    <3> QED  BY <3>4, <3>5, <3>6 DEF Core
  <2>3. CASE Apply(p)
    <3>1. \A q \in Client : pc'[q] = "apply" => pc[q] = "apply" /\ list'[q] = list[q]
      BY <2>0, <2>3 DEF Apply, Shape
    <3> QED  BY <1>0, <2>0, <2>3, <3>1, ReconcileStep DEF Apply
  <2> QED  BY <1>1, <2>1, <2>2, <2>3 DEF Refresh
<1>2. ASSUME NEW c \in Command, RunCommand(c) PROVE Core' /\ Kept
  <2>0. c \in Client
    BY DEF Client
  <2>1. Lists
    BY <2>0, <1>2 DEF RunCommand, StartCommand, CommandAborts, CommandFails, CommandReturns,
                      Record, RecordFails, Lists, Shape
  <2>2. CASE Record(c)
    <3>1. UNCHANGED <<remote, minted, bound, flight>>
      BY <2>2 DEF Record
    <3>2. managed' = managed \cup {r \in reports[c] : bound[r] # 0} /\ pending \subseteq pending'
      BY <2>2 DEF Record
    <3>3. Frame
      BY <2>1, <3>1, <3>2 DEF Frame, Core, Ids
    <3> QED  BY <1>0, <3>3, FrameStep
  <2>3. CASE ~Record(c)
    <3>1. UNCHANGED <<remote, local>> /\ flight' \subseteq flight
      BY <1>2, <2>3 DEF RunCommand, StartCommand, CommandAborts, CommandFails, CommandReturns,
                        RecordFails, MayBeLost
    <3> QED  BY <1>0, <2>1, <3>1, Quiet, FrameStep
  <2> QED  BY <2>2, <2>3
<1>3. CASE AbortBulk \/ \E action \in {"destroy", "stop"} : StartBulk(action)
  <2>1. UNCHANGED <<remote, local, flight, pc, list, lock>>
    BY <1>3 DEF AbortBulk, StartBulk, calls
  <2>2. Lists
    BY <2>1 DEF Lists
  <2> QED  BY <1>0, <2>1, <2>2, Quiet, FrameStep
<1>4. ASSUME NEW w \in Worker, Work(w) PROVE Core' /\ Kept
  <2>0. w \in Client
    BY DEF Client
  <2>1. Lists
    <3>1. UNCHANGED <<list, lock>>
      BY <1>4 DEF Work, TakeTarget, Perform, Find, GetPresent, GetAbsent, WorkerFails, Accepted,
                  MutationAborts, MutationFails, Check
    <3>2. \E q \in PC \ {"apply"} : pc' = [pc EXCEPT ![w] = q]
      BY <1>4 DEF Work, TakeTarget, Perform, Find, GetPresent, GetAbsent, WorkerFails, Accepted,
                  MutationAborts, MutationFails, Check, Finish, PC
    <3> QED  BY <2>0, <3>1, <3>2 DEF Lists, Shape
  <2>2. UNCHANGED remote /\ flight' \subseteq flight
    BY <1>4 DEF Work, TakeTarget, Perform, Find, GetPresent, GetAbsent, WorkerFails, Accepted,
                MutationAborts, MutationFails, Check, MayBeLost
  <2>3. UNCHANGED local \/ (RemoveBinding(aim[w]) /\ remote[aim[w][1]] = "gone")
    BY <1>4 DEF Work, TakeTarget, Perform, Find, GetPresent, GetAbsent, WorkerFails, Accepted,
                MutationAborts, MutationFails, Check
  <2> QED  BY <1>0, <2>1, <2>2, <2>3, Quiet, RemovalFrame, FrameStep
<1>5. ASSUME NEW k \in DOMAIN bulk.queue, WatchRead(k) \/ WatchGet(k) \/ WatchTimeout(k)
      PROVE  Core' /\ Kept
  <2>1. UNCHANGED <<remote, flight, pc, list, lock>>
    BY <1>5 DEF WatchRead, WatchGet, WatchTimeout, calls
  <2>2. Lists
    BY <2>1 DEF Lists
  <2> DEFINE id == bulk.queue[k]
  <2>3. UNCHANGED local \/ (RemoveBinding(id) /\ remote[id[1]] = "gone")
    BY <1>5 DEF WatchRead, WatchGet, WatchTimeout
  <2> HIDE DEF id
  <2> QED  BY <1>0, <2>1, <2>2, <2>3, Quiet, RemovalFrame, FrameStep
<1>6. ASSUME NEW p \in Command \cup Worker, Dispatch(p) PROVE Core' /\ Kept
  <2>1. UNCHANGED <<remote, bound, minted, managed, pending, pc, list, lock>>
    BY <1>6 DEF Dispatch, local
  <2>2. Ids' /\ Snapshots'
    BY <2>1 DEF Core, Ids, StableIdentity, Snapshots, Alive
  <2>3. Kept
    BY <2>1 DEF Kept, Shape, Claimed, Alive
  <2>4. PICK r \in Resource :
          /\ p \in Command => Creates(r)
          /\ flight' = flight \cup
               {[by |-> p, res |-> r, what |-> IF p \in Command THEN "create" ELSE bulk.action]}
    BY <1>6 DEF Dispatch
  <2>5. bulk.action # "create"
    BY DEF BulkShape
  <2>6. Creations'
    BY <2>1, <2>4, <2>5 DEF Core, Creations, Creates
  <2> QED  BY <2>2, <2>3, <2>6 DEF Core
<1>7. ASSUME NEW f \in flight, Effect(f) PROVE Core' /\ Kept
  <2>0. f.res \in Resource
    BY DEF Shape, Request
  <2>1. UNCHANGED <<bound, minted, managed, pending, pc, list, lock>> /\ flight' = flight \ {f}
    BY <1>7 DEF Effect, local
  <2>2. \A r \in Resource : r # f.res => remote'[r] = remote[r]
    BY <1>7 DEF Effect, Shape
  <2>3. CASE f.what = "create"
    <3>1. remote[f.res] = "unborn" /\ remote'[f.res] = "running"
      BY <2>0, <2>3, <1>7 DEF Effect, Core, Creations, Shape
    <3>2. bound[f.res] = 0 /\ minted[f.res] = 0
      BY <2>0, <3>1 DEF Core, Ids
    <3>3. Ids' /\ Kept
      BY <2>0, <2>1, <2>2, <3>1, <3>2 DEF Core, Ids, StableIdentity, Kept, Claimed, Alive, Shape
    <3>4. Snapshots'
      BY <2>0, <2>1, <2>2, <3>1, <3>2 DEF Core, Snapshots, Alive, Shape
    <3>5. Creations'
      BY <2>0, <2>1, <2>2, <2>3 DEF Core, Creations, Shape, Request
    <3> QED  BY <3>3, <3>4, <3>5 DEF Core
  <2>4. CASE f.what # "create"
    <3>1. /\ Alive(f.res)' => Alive(f.res)
          /\ remote'[f.res] = "unborn" <=> remote[f.res] = "unborn"
      BY <2>0, <2>4, <1>7 DEF Effect, Alive, Shape
    <3>2. \A r \in Resource : (Alive(r)' => Alive(r))
                               /\ (remote'[r] = "unborn" <=> remote[r] = "unborn")
      BY <2>2, <3>1 DEF Alive
    <3>3. Ids' /\ Kept
      BY <2>1, <3>2 DEF Core, Ids, StableIdentity, Kept, Claimed, Shape
    <3>4. Snapshots'
      BY <2>1, <3>2 DEF Core, Snapshots, Shape
    <3>5. Creations'
      BY <2>1, <3>2 DEF Core, Creations, Shape, Request
    <3> QED  BY <3>3, <3>4, <3>5 DEF Core
  <2> QED  BY <2>3, <2>4
<1>8. ASSUME NEW r \in Resource, Adopt(r) PROVE Core' /\ Kept
  <2>1. UNCHANGED <<remote, flight, minted, bound, pending, pc, list, lock>>
    BY <1>8 DEF Adopt, calls
  <2>2. managed' = managed \cup {r} /\ bound[r] # 0
    BY <1>8 DEF Adopt
  <2>3. Frame
    BY <2>1, <2>2 DEF Frame, Lists, Core, Ids
  <2> QED  BY <1>0, <2>3, FrameStep
<1>9. ASSUME NEW r \in Resource, Inspect(r) PROVE Core' /\ Kept
  <2>1. UNCHANGED <<remote, flight, pc, list, lock>>
    BY <1>9 DEF Inspect, calls
  <2>2. Lists
    BY <2>1 DEF Lists
  <2> DEFINE id == <<r, bound[r]>>
  <2>3. RemoveBinding(id) /\ remote[id[1]] = "gone"
    BY <1>9 DEF Inspect
  <2> HIDE DEF id
  <2> QED  BY <1>0, <2>1, <2>2, <2>3, RemovalFrame, FrameStep
<1>10. ASSUME NEW r \in Resource, Vanish(r) PROVE Core' /\ Kept
  <2>1. UNCHANGED <<bound, minted, managed, pending, pc, list, lock, flight>>
    BY <1>10 DEF Vanish, local, calls
  <2>2. \A q \in Resource : (Alive(q)' => Alive(q))
                             /\ (remote'[q] = "unborn" <=> remote[q] = "unborn")
    BY <1>10 DEF Vanish, Alive, Shape
  <2>3. Ids' /\ Kept
    BY <2>1, <2>2 DEF Core, Ids, StableIdentity, Kept, Claimed, Shape
  <2>4. Snapshots'
    BY <2>1, <2>2 DEF Core, Snapshots, Shape
  <2>5. Creations'
    BY <2>1, <2>2 DEF Core, Creations, Shape, Request
  <2> QED  BY <2>3, <2>4, <2>5 DEF Core
<1>11. CASE Suspend
  <2>1. UNCHANGED <<remote, local, flight, pc, list>> /\ lock' = NoOne
    BY <1>11 DEF Suspend, calls
  <2>2. Lists
    BY <2>1, ClientSets DEF Lists
  <2> QED  BY <1>0, <2>1, <2>2, Quiet, FrameStep
<1>12. CASE UNCHANGED vars
  <2>1. UNCHANGED <<remote, local, flight, pc, list, lock>>
    BY <1>12 DEF vars, calls
  <2>2. Lists
    BY <2>1 DEF Lists
  <2> QED  BY <1>0, <2>1, <2>2, Quiet, FrameStep
<1> QED
  BY <1>1, <1>2, <1>3, <1>4, <1>5, <1>6, <1>7, <1>8, <1>9, <1>10, <1>11, <1>12 DEF Next

CoreInv == Shape /\ BulkShape /\ Core

LEMMA CoreInductive == Spec => []CoreInv
<1>1. Init => CoreInv
  BY InitShape, CoreInit DEF CoreInv
<1>2. CoreInv /\ [Next]_vars => CoreInv'
  BY ShapeStep, CoreStep DEF CoreInv
<1> QED  BY <1>1, <1>2, PTL DEF Spec

\* For any number of clients and faults, an instance keeps its id while it exists.
THEOREM IdentityIsStable == Spec => []StableIdentity
BY CoreInductive, PTL DEF CoreInv, Core, Ids

\* What was acquired stays managed, or pending, while it exists, in every step.
THEOREM ManagementIsKept == Spec => AcquiredStaysManaged
<1>1. CoreInv /\ [Next]_vars =>
        [\A r \in Resource : Claimed(r) /\ Alive(r)' => Claimed(r)']_vars
  BY CoreStep DEF CoreInv, Kept
<1> QED  BY <1>1, CoreInductive, PTL DEF Spec, AcquiredStaysManaged

-----------------------------------------------------------------------------
(***************************************************************************)
(* What users are told                                                     *)
(***************************************************************************)
\* The targets of a bulk action are instances that were in Local State; one that
\* is reported absent is gone.
TargetOK(k) ==
  LET id == bulk.queue[k] IN
  /\ id[1] \in Resource /\ 1 <= id[2] /\ id[2] <= minted[id[1]]
  /\ bulk.watch[k] = "absent" => remote[id[1]] = "gone"

Targets == \A k \in DOMAIN bulk.queue : TargetOK(k)

LEMMA TargetsStep == CoreInv /\ Targets /\ [Next]_vars => Targets'
<1> SUFFICES ASSUME CoreInv, Targets, [Next]_vars PROVE Targets'
  OBVIOUS
<1>0. Shape /\ BulkShape /\ Core /\ Shape' /\ BulkShape' /\ Core' /\ Kept
  BY ShapeStep, CoreStep DEF CoreInv
<1>1. \A r \in Resource : /\ minted[r] \in Nat /\ minted'[r] \in Nat /\ minted[r] <= minted'[r]
                          /\ remote[r] = "gone" => remote'[r] = "gone"
  BY <1>0 DEF Shape, Kept, Alive
<1>2. ASSUME NEW k \in DOMAIN bulk.queue, bulk'.queue[k] = bulk.queue[k],
             bulk'.watch[k] = bulk.watch[k] \/ bulk'.watch[k] # "absent"
      PROVE  TargetOK(k)'
  <2> DEFINE r == bulk.queue[k][1]
             n == bulk.queue[k][2]
  <2>1. r \in Resource /\ n \in Nat /\ 1 <= n /\ n <= minted[r]
    BY <1>0 DEF Targets, TargetOK, BulkShape
  <2>2. bulk.watch[k] = "absent" => remote[r] = "gone"
    BY DEF Targets, TargetOK
  <2> HIDE DEF r, n
  <2>3. n <= minted'[r] /\ (bulk'.watch[k] = "absent" => remote'[r] = "gone")
    BY <1>1, <1>2, <2>1, <2>2
  <2> QED  BY <1>2, <2>1, <2>3 DEF TargetOK, r, n
<1>3. CASE UNCHANGED <<bulk>>
  BY <1>2, <1>3 DEF Targets
<1>4. ASSUME NEW action \in {"destroy", "stop"}, StartBulk(action) PROVE Targets'
  <2> DEFINE A == {r \in Resource : bound[r] # 0}
  <2>1. PICK S \in SUBSET A : \E ids \in SetToSeqs({<<r, bound[r]>> : r \in S}) :
          bulk' = [bulk EXCEPT !.action = action, !.queue = ids,
                               !.result = [k \in DOMAIN ids |-> "none"],
                               !.watch = [k \in DOMAIN ids |-> "read"]]
    BY <1>4 DEF StartBulk
  <2>2. PICK ids \in SetToSeqs({<<r, bound[r]>> : r \in S}) :
          bulk' = [bulk EXCEPT !.action = action, !.queue = ids,
                               !.result = [k \in DOMAIN ids |-> "none"],
                               !.watch = [k \in DOMAIN ids |-> "read"]]
    BY <2>1
  <2>3. \A k \in DOMAIN ids : \E r \in S : ids[k] = <<r, bound[r]>>
    BY <1>0, QueueOf DEF Shape
  <2>4. bulk'.queue = ids /\ bulk'.watch = [k \in DOMAIN ids |-> "read"]
    BY <1>0, <2>2 DEF BulkShape
  <2>5. UNCHANGED minted
    BY <1>4 DEF StartBulk, local
  <2>6. ASSUME NEW k \in DOMAIN ids PROVE TargetOK(k)'
    <3>1. PICK r \in S : ids[k] = <<r, bound[r]>>
      BY <2>3
    <3>2. r \in Resource /\ bound[r] \in Nat /\ bound[r] # 0 /\ bound[r] <= minted[r]
      BY <1>0 DEF Shape, Core, Ids
    <3> QED  BY <2>4, <2>5, <3>1, <3>2 DEF TargetOK
  <2> QED  BY <2>4, <2>6 DEF Targets
<1>5. ASSUME bulk'.queue = bulk.queue, bulk'.watch = bulk.watch PROVE Targets'
  BY <1>2, <1>5 DEF Targets
<1>6. CASE AbortBulk
  BY <1>0, <1>5, <1>6 DEF AbortBulk, BulkShape
<1>7. ASSUME NEW w \in Worker, Work(w) PROVE Targets'
  <2>1. CASE TakeTarget(w)
    BY <1>0, <1>5, <2>1 DEF TakeTarget, BulkShape
  <2>2. CASE \E result : Finish(w, result)
    BY <1>0, <1>5, <2>2, FinishShape
  <2> QED
    BY <1>3, <1>7, <2>1, <2>2 DEF Work, Perform, Find, GetPresent, GetAbsent, WorkerFails,
       Accepted, MutationAborts, MutationFails, Check
<1>8. ASSUME NEW k \in DOMAIN bulk.queue, WatchRead(k) \/ WatchGet(k) \/ WatchTimeout(k)
      PROVE  Targets'
  <2> DEFINE r == bulk.queue[k][1]
             n == bulk.queue[k][2]
  <2>1. PICK s \in Seen : Watch(k, s) /\ (s = "absent" => WatchRead(k) \/ WatchGet(k))
    BY <1>8 DEF WatchRead, WatchGet, WatchTimeout, NotThere, Seen
  <2>2. bulk'.queue = bulk.queue /\ bulk'.watch = [bulk.watch EXCEPT ![k] = s]
    BY <1>0, <2>1 DEF Watch, BulkShape
  <2>3. r \in Resource /\ n \in Nat /\ 1 <= n /\ n <= minted[r]
    BY <1>0 DEF Targets, TargetOK, BulkShape
  <2>4. UNCHANGED remote
    BY <1>8 DEF WatchRead, WatchGet, WatchTimeout
  <2>5. s = "absent" => remote[r] = "gone"
    <3>1. CASE WatchRead(k) /\ s = "absent"
      <4>0. bulk'.watch[k] = IF Found(bulk.queue[k]) THEN "get" ELSE NotThere
        BY <1>0, <3>1 DEF WatchRead, Watch, BulkShape
      <4>1. ~Found(bulk.queue[k])
        BY <1>0, <2>2, <3>1, <4>0 DEF BulkShape
      <4>2. remote[r] # "unborn"
        BY <1>0, <2>3 DEF Core, Ids
      <4>3. Alive(r) => minted[r] <= 1 /\ bound[r] = minted[r]
        BY <1>0, <2>3 DEF Core, Ids, StableIdentity
      <4>4. ~Alive(r)
        BY <1>1, <2>3, <4>1, <4>3 DEF Found
      <4> QED  BY <1>0, <2>3, <4>2, <4>4 DEF Alive, Shape
    <3>2. CASE WatchGet(k) /\ s = "absent"
      <4>1. bulk'.watch[k] = "absent"
        BY <1>0, <2>2, <3>2 DEF BulkShape
      <4>2. CASE remote[r] = "gone"
        BY <4>2
      <4>3. CASE remote[r] # "gone"
        <5>1. Watch(k, IF bulk.action = "stop" /\ remote[r] = "stopped" THEN "reached" ELSE "read")
          BY <3>2, <4>3 DEF WatchGet
        <5>2. bulk'.watch[k] # "absent"
          BY <1>0, <5>1 DEF Watch, BulkShape
        <5> QED  BY <4>1, <5>2
      <4> QED  BY <4>2, <4>3
    <3> QED  BY <2>1, <3>1, <3>2
  <2>6. TargetOK(k)'
    BY <1>0, <1>1, <2>2, <2>3, <2>4, <2>5 DEF TargetOK, BulkShape
  <2>7. ASSUME NEW j \in DOMAIN bulk.queue, j # k PROVE TargetOK(j)'
    BY <1>0, <1>2, <2>2, <2>7 DEF BulkShape
  <2> QED  BY <2>2, <2>6, <2>7 DEF Targets
<1> QED
  <2>1. ASSUME NEW p \in Refresher \cup Command, Refresh(p) PROVE UNCHANGED <<bulk>>
    BY <2>1 DEF Refresh, StartRefresh, TakeLock, List, Apply, RefreshFails, Die
  <2>2. ASSUME NEW c \in Command, RunCommand(c) PROVE UNCHANGED <<bulk>>
    BY <2>2 DEF RunCommand, StartCommand, CommandAborts, CommandFails, CommandReturns,
                Record, RecordFails
  <2>3. ASSUME NEW p \in Command \cup Worker, Dispatch(p) PROVE UNCHANGED <<bulk>>
    BY <2>3 DEF Dispatch
  <2>4. ASSUME NEW f \in flight, Effect(f) PROVE UNCHANGED <<bulk>>
    BY <2>4 DEF Effect
  <2>5. ASSUME NEW r \in Resource, Adopt(r) \/ Inspect(r) \/ Vanish(r) PROVE UNCHANGED <<bulk>>
    BY <2>5 DEF Adopt, Inspect, Vanish
  <2>6. CASE Suspend \/ UNCHANGED vars
    BY <1>3, <2>6 DEF Suspend, vars
  <2> QED
    BY <1>3, <1>4, <1>6, <1>7, <1>8, <2>1, <2>2, <2>3, <2>4, <2>5, <2>6 DEF Next

\* What a command has created or asked for.
Made(c) == made[c] \cup {f.res : f \in {g \in flight : g.by = c}}

\* A command creates at most one resource, nothing before it is marked as sent, and
\* is called safe only then; it reports what it created, and goes on to refresh
\* only when that is claimed.
CommandOK(c) ==
  /\ \A x, y \in Made(c) : x = y
  /\ ~sent[c] => Made(c) = {}
  /\ pc[c] = "idle" => ~sent[c]
  /\ pc[c] = "call" => out[c] = "none"
  /\ out[c] = "safe" => ~sent[c] /\ reports[c] = {}
  /\ pc[c] \in {"idle", "call"} => reports[c] = {}
  /\ \A r \in made[c] \cup reports[c] : remote[r] # "unborn"
  /\ pc[c] \in {"lock", "list", "apply"} \/ out[c] \in {"complete", "partial", "refreshFailed"} =>
       \A r \in reports[c] : Alive(r) => Claimed(r)
  /\ out[c] = "complete" => \A r \in reports[c] : Alive(r) => r \in managed

Commands == \A c \in Command : CommandOK(c)

\* A step of others, or one that leaves a command where it is.
LEMMA CommandFrame ==
  ASSUME Shape, Shape', Kept, NEW c \in Command, CommandOK(c),
         pc'[c] = pc[c], sent'[c] = sent[c], out'[c] = out[c], reports'[c] = reports[c],
         Made(c)' \subseteq Made(c), \A r \in made'[c] : r \in made[c] \/ remote'[r] # "unborn"
  PROVE  CommandOK(c)'
<1>1. \A r \in made'[c] \cup reports'[c] : remote'[r] # "unborn"
  BY DEF CommandOK, Kept, Shape
<1>2. /\ pc[c] \in {"lock", "list", "apply"} \/ out[c] \in {"complete", "partial", "refreshFailed"} =>
           \A r \in reports[c] : Alive(r)' => Claimed(r)'
      /\ out[c] = "complete" => \A r \in reports[c] : Alive(r)' => r \in managed'
  BY DEF CommandOK, Kept, Shape
<1>3. /\ \A x, y \in Made(c)' : x = y
      /\ ~sent[c] => Made(c)' = {}
  BY DEF CommandOK
<1> HIDE DEF Made
<1> QED  BY <1>1, <1>2, <1>3 DEF CommandOK

LEMMA CommandsStep == CoreInv /\ Commands /\ [Next]_vars => Commands'
<1> SUFFICES ASSUME CoreInv, Commands, [Next]_vars, NEW c \in Command PROVE CommandOK(c)'
  BY DEF Commands
<1>0. Shape /\ BulkShape /\ Core /\ Shape' /\ BulkShape' /\ Core' /\ Kept /\ CommandOK(c)
  BY ShapeStep, CoreStep DEF CoreInv, Commands
<1>c. c \in Client /\ c \notin Worker /\ c \notin Refresher
  BY ClientSets
<1>1. ASSUME pc'[c] = pc[c], sent'[c] = sent[c], out'[c] = out[c], reports'[c] = reports[c],
             made'[c] = made[c], flight' \subseteq flight
      PROVE  CommandOK(c)'
  <2>1. Made(c)' \subseteq Made(c)
    BY <1>1 DEF Made
  <2> QED  BY <1>0, <1>1, <2>1, CommandFrame
<1> USE DEF Goto
<1>2. ASSUME NEW p \in Refresher \cup Command, Refresh(p) PROVE CommandOK(c)'
  <2>0. p \in Client
    BY DEF Client
  <2>1. UNCHANGED <<sent, made, reports, flight>>
    BY <1>2 DEF Refresh, StartRefresh, TakeLock, List, Apply, RefreshFails, Die
  <2>2. CASE p # c
    <3>1. pc'[c] = pc[c] /\ out'[c] = out[c]
      BY <1>0, <2>0, <2>2, <1>c, <1>2 DEF Refresh, StartRefresh, TakeLock, List, Apply,
         RefreshFails, Die, Ended, Shape
    <3> QED  BY <1>1, <2>1, <3>1
  <2>3. CASE p = c
    <3>1. Made(c)' = Made(c)
      BY <2>1 DEF Made
    <3>2. \A r \in made'[c] \cup reports'[c] : remote'[r] # "unborn"
      BY <1>0, <2>1 DEF CommandOK, Kept, Shape
    <3>3. CASE TakeLock(c) \/ List(c)
      <4>1. /\ pc[c] \in {"lock", "list"} /\ pc'[c] \in {"list", "apply"} /\ out' = out
        BY <1>0, <1>c, <3>3 DEF TakeLock, List, Shape
      <4>2. \A r \in reports[c] : Alive(r)' => Claimed(r)'
        BY <1>0, <4>1 DEF CommandOK, Kept, Shape
      <4>3. out[c] = "complete" => \A r \in reports[c] : Alive(r)' => r \in managed'
        BY <1>0 DEF CommandOK, Kept, Shape
      <4> QED  BY <1>0, <2>1, <3>1, <3>2, <4>1, <4>2, <4>3 DEF CommandOK
    <3>4. CASE Apply(c)
      <4>1. /\ pc[c] = "apply" /\ pc'[c] = "done"
            /\ out'[c] \in {"complete", "partial", "unknown"}
            /\ out'[c] = "complete" => out[c] = "complete" \/ reports[c] \subseteq list[c]
        BY <1>0, <1>c, <3>4 DEF Apply, Ended, Handoff, Shape
      <4>2. \A r \in reports[c] : Alive(r)' => Claimed(r) /\ Claimed(r)'
        BY <1>0, <4>1 DEF CommandOK, Kept, Shape
      <4>3. managed' = list[c] \cap (managed \cup pending)
        BY <3>4 DEF Apply, Reconcile
      <4>4. out'[c] = "complete" => \A r \in reports[c] : Alive(r)' => r \in managed'
        <5>1. CASE out[c] = "complete"
          BY <1>0, <5>1 DEF CommandOK, Kept, Shape
        <5>2. CASE reports[c] \subseteq list[c]
          BY <4>2, <4>3, <5>2 DEF Claimed
        <5> QED  BY <4>1, <5>1, <5>2
      <4> QED  BY <1>0, <2>1, <3>1, <3>2, <4>1, <4>2, <4>4 DEF CommandOK
    <3>5. CASE RefreshFails(c) \/ Die(c)
      <4>1. /\ pc'[c] = "done"
            /\ out'[c] \in {"refreshFailed", "failed", "unknown"}
            /\ out'[c] = "refreshFailed" => pc[c] \in {"lock", "list", "apply"}
        BY <1>0, <1>c, <3>5 DEF RefreshFails, Die, Ended, Shape
      <4>2. out'[c] = "refreshFailed" => \A r \in reports[c] : Alive(r)' => Claimed(r)'
        BY <1>0, <4>1 DEF CommandOK, Kept, Shape
      <4> QED  BY <1>0, <2>1, <3>1, <3>2, <4>1, <4>2 DEF CommandOK
    <3> QED  BY <1>2, <1>c, <2>3, <3>3, <3>4, <3>5 DEF Refresh, StartRefresh
  <2> QED  BY <2>2, <2>3
<1>3. ASSUME NEW d \in Command, RunCommand(d) PROVE CommandOK(c)'
  <2>0. d \in Client
    BY ClientSets
  <2>1. made' = made /\ flight' \subseteq flight /\ remote' = remote
    BY <1>3 DEF RunCommand, StartCommand, CommandAborts, CommandFails, CommandReturns, Record,
                RecordFails, MayBeLost
  <2>2. CASE d # c
    <3>1. pc'[c] = pc[c] /\ out'[c] = out[c] /\ sent'[c] = sent[c] /\ reports'[c] = reports[c]
      BY <1>0, <2>0, <2>2, <1>c, <1>3 DEF RunCommand, StartCommand, CommandAborts, CommandFails,
         CommandReturns, Record, RecordFails, Shape
    <3> QED  BY <1>1, <2>1, <3>1
  <2>3. CASE d = c
    <3>1. Made(c)' \subseteq Made(c)
      BY <2>1 DEF Made
    <3>2. \A r \in made[c] \cup reports[c] : remote'[r] # "unborn"
      BY <1>0, <2>1 DEF CommandOK
    <3>3. CASE StartCommand(c)
      <4>1. /\ pc'[c] \in {"call", "done"} /\ ~sent'[c] /\ reports'[c] = {}
            /\ out'[c] \in {"none", "failed"}
            /\ pc'[c] = "call" => out'[c] = "none"
        BY <1>0, <1>c, <3>3 DEF StartCommand, CommandOK, Shape
      <4>2. ~sent[c]
        BY <1>0, <3>3 DEF StartCommand, CommandOK
      <4>3. Made(c)' = {}
        BY <1>0, <3>1, <4>2 DEF CommandOK
      <4> QED  BY <2>1, <3>2, <4>1, <4>3 DEF CommandOK
    <3>4. CASE CommandAborts(c) \/ CommandFails(c)
      <4>1. /\ pc'[c] \in {"lock", "done"} /\ sent'[c] = sent[c] /\ reports'[c] = {}
            /\ out'[c] \in {"unknown", "failed", "safe"}
            /\ out'[c] = "safe" => ~sent[c]
        BY <1>0, <1>c, <3>4 DEF CommandAborts, CommandFails, Aborted, CommandOK, Shape
      <4> QED  BY <1>0, <2>1, <3>1, <3>2, <4>1 DEF CommandOK
    <3>5. CASE CommandReturns(c)
      <4>1. /\ pc[c] = "call" /\ pc'[c] \in {"record", "lock", "done"} /\ sent'[c] = sent[c]
            /\ reports'[c] = {} \/ (reports'[c] = made[c] /\ pc'[c] = "record")
            /\ out'[c] \in {"none", "noHandoff"}
        BY <1>0, <1>c, <3>5 DEF CommandReturns, CommandOK, Shape
      <4> QED  BY <1>0, <2>1, <3>1, <3>2, <4>1 DEF CommandOK
    <3>6. CASE Record(c)
      <4>1. /\ pc'[c] = "lock" /\ sent'[c] = sent[c] /\ reports'[c] = reports[c] /\ out' = out
        BY <1>0, <1>c, <3>6 DEF Record, Shape
      <4>2. \A r \in reports[c] : r \in managed' \cup pending'
        BY <3>6 DEF Record
      <4>3. out[c] = "complete" => \A r \in reports[c] : Alive(r)' => r \in managed'
        BY <1>0 DEF CommandOK, Kept, Shape
      <4> QED  BY <1>0, <2>1, <3>1, <3>2, <4>1, <4>2, <4>3 DEF CommandOK, Claimed
    <3>7. CASE RecordFails(c)
      <4>1. /\ pc'[c] = "done" /\ sent'[c] = sent[c] /\ reports'[c] = reports[c]
            /\ out'[c] = "persistFailed"
        BY <1>0, <1>c, <3>7 DEF RecordFails, Shape
      <4> QED  BY <1>0, <2>1, <3>1, <3>2, <4>1 DEF CommandOK
    <3> QED  BY <1>3, <2>3, <3>3, <3>4, <3>5, <3>6, <3>7 DEF RunCommand
  <2> QED  BY <2>2, <2>3
<1>4. ASSUME NEW w \in Worker, Work(w) PROVE CommandOK(c)'
  <2>1. UNCHANGED <<out, reports, made>> /\ flight' \subseteq flight
    BY <1>4 DEF Work, TakeTarget, Perform, Find, GetPresent, GetAbsent, WorkerFails, Accepted,
                MutationAborts, MutationFails, Check, MayBeLost
  <2>2. (\E q : pc' = [pc EXCEPT ![w] = q]) /\ (sent' = sent \/ sent' = [sent EXCEPT ![w] = FALSE])
    BY <1>4 DEF Work, TakeTarget, Perform, Find, GetPresent, GetAbsent, WorkerFails, Accepted,
                MutationAborts, MutationFails, Check, Finish
  <2>3. pc'[c] = pc[c] /\ sent'[c] = sent[c]
    BY <1>0, <1>c, <2>2 DEF Shape
  <2> QED  BY <1>1, <2>1, <2>3
<1>5. ASSUME NEW p \in Command \cup Worker, Dispatch(p) PROVE CommandOK(c)'
  <2>0. UNCHANGED <<pc, out, reports, made, remote, local>>
    BY <1>5 DEF Dispatch
  <2>1. PICK r \in Resource : flight' = flight \cup
          {[by |-> p, res |-> r, what |-> IF p \in Command THEN "create" ELSE bulk.action]}
    BY <1>5 DEF Dispatch
  <2>2. CASE p # c
    <3>1. sent'[c] = sent[c]
      BY <1>0, <1>c, <1>5, <2>2 DEF Dispatch, Shape
    <3>2. Made(c)' \subseteq Made(c)
      BY <2>0, <2>1, <2>2 DEF Made
    <3> QED  BY <1>0, <2>0, <3>1, <3>2, CommandFrame
  <2>3. CASE p = c
    <3>1. pc[c] = "call" /\ ~sent[c] /\ sent'[c] = TRUE
      BY <1>0, <1>c, <1>5, <2>3 DEF Dispatch, Shape
    <3>2. Made(c) = {}
      BY <1>0, <3>1 DEF CommandOK
    <3>3. Made(c)' = {r}
      <4> DEFINE e == [by |-> c, res |-> r, what |-> "create"]
      <4>1. made'[c] = {} /\ \A g \in flight : g.by # c
        BY <2>0, <3>2 DEF Made
      <4>2. flight' = flight \cup {e} /\ e.by = c /\ e.res = r
        BY <2>1, <2>3
      <4> HIDE DEF e
      <4>3. {g \in flight' : g.by = c} = {e}
        BY <4>1, <4>2
      <4> QED  BY <4>1, <4>2, <4>3 DEF Made
    <3> QED  BY <1>0, <2>0, <3>1, <3>3 DEF CommandOK, local, Alive, Claimed
  <2> QED  BY <2>2, <2>3
<1>6. ASSUME NEW f \in flight, Effect(f) PROVE CommandOK(c)'
  <2>1. UNCHANGED <<pc, sent, out, reports>> /\ flight' = flight \ {f}
    BY <1>6 DEF Effect
  <2>2. made'[c] = IF c = f.by THEN made[c] \cup {f.res} ELSE made[c]
    BY <1>6 DEF Effect
  <2>3. Made(c)' \subseteq Made(c)
    BY <2>1, <2>2 DEF Made
  <2>4. c = f.by => remote'[f.res] = "running"
    BY <1>0, <1>6 DEF Effect, Core, Creations, Shape, Request
  <2> QED  BY <1>0, <2>1, <2>2, <2>3, <2>4, CommandFrame
<1>7. CASE \/ AbortBulk \/ (\E action \in {"destroy", "stop"} : StartBulk(action))
          \/ (\E k \in DOMAIN bulk.queue : WatchRead(k) \/ WatchGet(k) \/ WatchTimeout(k))
          \/ (\E r \in Resource : Adopt(r) \/ Inspect(r) \/ Vanish(r))
          \/ Suspend \/ UNCHANGED vars
  <2>1. UNCHANGED <<calls, flight>>
    BY <1>7 DEF AbortBulk, StartBulk, WatchRead, WatchGet, WatchTimeout, Adopt, Inspect, Vanish,
                Suspend, vars
  <2> QED  BY <1>1, <2>1 DEF calls
<1> QED
  BY <1>2, <1>3, <1>4, <1>5, <1>6, <1>7 DEF Next

Inv == CoreInv /\ Targets /\ Commands

LEMMA Inductive == Spec => []Inv
<1>1. Init => CoreInv
  BY InitShape, CoreInit DEF CoreInv
<1>2. Init => Targets
  BY DEF Init, Targets
<1>3. Init => Commands
  BY ClientSets DEF Init, Commands, CommandOK, Made
<1>4. Inv /\ [Next]_vars => Inv'
  BY ShapeStep, CoreStep, TargetsStep, CommandsStep DEF CoreInv, Inv
<1> QED  BY <1>1, <1>2, <1>3, <1>4, PTL DEF Spec, Inv

\* What a command reports is managed or pending unless its run says otherwise, and
\* an instance that a wait reports absent is gone, for any number of clients.
THEOREM ReportsAreRight == Spec => []ReportsAreTrue
<1>1. Targets => AbsentMeansGone
  BY DEF Targets, TargetOK, AbsentMeansGone, Alive
<1>2. CoreInv /\ Commands => HandoffIsKept
  BY DEF Commands, CommandOK, HandoffIsKept, CoreInv, Core, Ids
<1> QED  BY <1>1, <1>2, Inductive, PTL DEF Inv, ReportsAreTrue

\* A command creates at most one resource, however often it is safely run again.
THEOREM RetriesCreateOnce == Spec => []RetryCreatesOnce
<1>1. Commands => RetryCreatesOnce
  <2> SUFFICES ASSUME NEW c \in Command, CommandOK(c) PROVE Cardinality(Made(c)) <= 1
    BY DEF Commands, RetryCreatesOnce, Made
  <2>1. CASE Made(c) = {}
    BY <2>1, FS_EmptySet
  <2>2. CASE Made(c) # {}
    <3>1. PICK r \in Made(c) : TRUE
      BY <2>2
    <3>2. Made(c) = {r}
      BY <3>1 DEF CommandOK
    <3> QED  BY <3>2, FS_Singleton
  <2> QED  BY <2>1, <2>2
<1> QED  BY <1>1, Inductive, PTL DEF Inv

(***************************************************************************)
(* The interactive flows: SessionsAreSound and EventFitsScreen for every   *)
(* feature, every screen a provider may return and any number of flows.    *)
(***************************************************************************)

(***************************************************************************)
(* The invariant: where the one call of the interface is, whose admission  *)
(* is held, and who has run nothing yet.                                   *)
(***************************************************************************)
CommandIds == {None} \cup {w.command : w \in Range(feature.flows)} \cup {c.id : c \in Range(feature.commands)}
Few == {<<>>} \cup {<<a>> : a \in Args \cup {None}}

Sessions == held \ {CommandLine}

FlowsTypeOK ==
  /\ opened \in 0..MaxOpens /\ held \subseteq Caller /\ late \subseteq 1..opened
  /\ flow \in 0..opened
  /\ command \in [Caller -> CommandIds] /\ runs \in [Caller -> Few] /\ consents \in [Caller -> Few]
  /\ args \in Args \cup {None}
  /\ phase \in {"idle", "opening", "starting", "sent", "asking", "running", "reading"}
  /\ cli \in {"idle", "asking", "running", "done"}

\* One call at a time, and the admission of its session.
Admitted ==
  /\ busy <=> phase # "idle"
  /\ phase = "opening" => opened < MaxOpens
  /\ phase \in {"opening", "reading"} => flow = NoSession /\ Sessions = {}
  /\ phase = "starting" => flow = NoSession /\ Sessions = {opened} /\ opened \in Session \ late
  /\ phase \in {"sent", "asking", "running"} => flow # NoSession /\ Sessions = {flow}
  /\ phase = "idle" => Sessions = {flow} \ {NoSession}
  /\ flow \notin late
  /\ shown # NoScreen => flow # NoSession
  /\ cli \in {"idle", "done"} => CommandLine \notin held

Unused(c) == runs[c] = <<>> /\ consents[c] = <<>>

\* Who has neither run nor been agreed to.
Fresh ==
  /\ \A c \in Session : opened < c => Unused(c)
  /\ phase = "starting" => Unused(opened)
  /\ flow # NoSession /\ phase # "running" => Unused(flow)
  /\ cli \in {"idle", "asking"} => Unused(CommandLine)

Sound == FlowsTypeOK /\ Admitted /\ Fresh /\ RunsAreConfirmed

(***************************************************************************)
(* The invariant of the screen: the provider is at the screen that is      *)
(* shown, and a draft is of a field of it.                                 *)
(***************************************************************************)
DraftFits(d, s) ==
  /\ s.kind = "form" /\ d.kind \in {"text", "integer", "decimal"}
  /\ \E f \in Range(s.fields) : f.id = d.id /\ f.kind = d.kind /\ ~f.disabled

SurfaceShape(u) == u = [cursor |-> u.cursor, choice |-> u.choice, picker |-> u.picker, draft |-> u.draft]
DraftShape(d) == d # NoDraft => d = [id |-> d.id, kind |-> d.kind, text |-> d.text]

Fits ==
  /\ at = shown /\ SurfaceShape(ui) /\ DraftShape(ui.draft)
  /\ shown # NoScreen => ScreenOk(shown)
  /\ phase = "sent" /\ ~overlapped => op # "none" /\ ui.draft = NoDraft /\ EventFits(event, shown)
  /\ ui.draft # NoDraft => shown # NoScreen /\ (overlapped \/ DraftFits(ui.draft, shown))

(***************************************************************************)
(* The steps, by what they do to the sessions                              *)
(***************************************************************************)
sessions == <<host, flow, shown, busy, phase, args, cli, done>>

Sends ==
  /\ ~busy /\ shown # NoScreen /\ busy' = TRUE /\ phase' = "sent"
  /\ UNCHANGED <<host, flow, shown, args, done, cli>>

Closes ==
  /\ ~busy /\ held' = held \ {flow} /\ flow' = NoSession /\ shown' = NoScreen /\ args' = None
  /\ UNCHANGED <<feature, opened, command, late, busy, phase, done, cli>>

Fails ==
  /\ phase \in {"sent", "asking", "running"} /\ Settles
  /\ held' = held \ {flow} /\ flow' = NoSession /\ shown' = NoScreen /\ args' = None
  /\ late' \in {late, late \cup {flow}}
  /\ UNCHANGED <<feature, opened, command, done, cli>>

\* An event goes to the provider, or is dropped.
LEMMA EmitSends ==
  ASSUME NEW e, NEW u, Emit(e, u), shown # NoScreen
  PROVE  UNCHANGED sessions \/ Sends
<1>1. CASE busy
  BY <1>1 DEF Emit, sessions
<1>2. CASE ~busy
  BY <1>2 DEF Emit, Sends
<1> QED
  BY <1>1, <1>2

\* A key of the surface goes to the provider, closes the flow or stays in the surface.
LEMMA KeySteps ==
  ASSUME SurfaceKey
  PROVE  UNCHANGED sessions \/ Sends \/ Closes
<1>1. \A u : Surface(u) => UNCHANGED sessions
  BY DEF Surface, sessions, tui, psn
<1>2. CASE TypeText \/ LeaveDraft \/ LeavePicker \/ MovePicker \/ MoveCursor
  BY <1>1, <1>2 DEF TypeText, LeaveDraft, LeavePicker, MovePicker, MoveCursor
<1>3. CASE EnterDraft
  BY <1>3, EmitSends DEF EnterDraft, Key
<1>4. CASE Choose
  BY <1>4, EmitSends DEF Choose, Key
<1>5. CASE Escape
  <2>1. CloseFlow => UNCHANGED sessions \/ Closes
    <3>1. CASE busy
      BY <3>1 DEF CloseFlow, flowsVars, sessions, tui, psn
    <3>2. CASE ~busy
      BY <3>2 DEF CloseFlow, Closes, Forgotten
    <3> QED
      BY <3>1, <3>2
  <2> QED
    BY <1>5, <2>1, EmitSends DEF Escape, Plain, Key
<1>6. CASE PressAction
  BY <1>6, EmitSends DEF PressAction, Plain, Key
<1>7. CASE SelectRow
  BY <1>7, EmitSends DEF SelectRow, Plain, Key
<1>8. CASE EnterField
  BY <1>8, <1>1, EmitSends DEF EnterField, Plain, Key
<1> QED
  BY <1>2, <1>3, <1>4, <1>5, <1>6, <1>7, <1>8 DEF SurfaceKey

LEMMA Steps ==
  ASSUME [FlowsNext]_flowsVars
  PROVE  \/ UNCHANGED sessions \/ Sends \/ Closes \/ Fails
         \/ Open \/ OpenRefused \/ Admit \/ OpenFails
         \/ \E s \in RawScreen : Opened(s) \/ Answered(s)
         \/ \E a \in Args : Submitted(a)
         \/ Agree \/ Ran \/ Reported
         \/ \E yes, terminal \in BOOLEAN : CliStart(yes, terminal)
         \/ \E yes \in BOOLEAN : CliAnswer(yes)
         \/ CliEnd
<1>1. UNCHANGED flowsVars => UNCHANGED sessions
  BY DEF flowsVars, sessions, tui, psn
<1>2. SurfaceKey => UNCHANGED sessions \/ Sends \/ Closes
  BY KeySteps
<1>3. Quit \/ StartLoad \/ EndLoad \/ Dismiss \/ Navigate => UNCHANGED sessions
  BY DEF Quit, StartLoad, EndLoad, Dismiss, Navigate, sessions, psn
<1>4. AnsweredBadly \/ AnswerTimesOut \/ RunFails \/ Decline => Fails
  BY DEF AnsweredBadly, AnswerTimesOut, RunFails, Decline, FlowFails, Forgotten, Fails, Settles
<1> QED
  BY <1>1, <1>2, <1>3, <1>4 DEF FlowsNext, Ends

(***************************************************************************)
(* What the steps have in common                                           *)
(***************************************************************************)
\* The feature, and what its commands risk, never change.
LEMMA FeatureStays ==
  ASSUME feature' = feature
  PROVE  /\ CommandIds' = CommandIds /\ \A id : Risks(id)' = Risks(id)
         /\ \A id, yes : NeedsConsent(id, yes) <=> Risks(id) # {} /\ ~yes
BY DEF CommandIds, Risks, NeedsConsent

LEMMA Callers ==
  /\ MaxOpens \in Nat /\ CommandLine \in Caller /\ CommandLine \notin Session /\ NoSession \notin Session
  /\ NoSession # CommandLine /\ Session \subseteq Caller
  /\ \A c \in Caller : c # CommandLine => c \in Session
BY ProviderFlowsAssumption DEF CommandLine, Caller, Session, NoSession

\* A session that a number up to the opened ones stands for.
LEMMA OpenedAreSessions ==
  ASSUME opened \in 0..MaxOpens
  PROVE  /\ \A c \in 0..opened : c # NoSession => c \in Session
         /\ 1..opened \subseteq Session /\ NoSession \notin 1..opened
BY ProviderFlowsAssumption DEF Session, NoSession

\* Nothing that was run, or agreed to, changes.
LEMMA DoneStays ==
  ASSUME Sound, feature' = feature, UNCHANGED done, command' = command
  PROVE  RunsAreConfirmed'
BY FeatureStays DEF Sound, RunsAreConfirmed, done

LEMMA FewAreFew ==
  /\ <<>> \in Few /\ \A a \in Args \cup {None} : <<a>> \in Few /\ Append(<<>>, a) = <<a>>
  /\ \A s \in Few : Len(s) <= 1
  /\ \A a : Len(<<a>>) = 1 /\ <<a>> # <<>>
<1>1. \A a : Len(<<a>>) = 1 /\ <<a>> # <<>> /\ Append(<<>>, a) = <<a>>
  OBVIOUS
<1>2. Len(<<>>) = 0
  OBVIOUS
<1>3. ASSUME NEW s \in Few
      PROVE  Len(s) <= 1
  <2>1. CASE s = <<>>
    BY <2>1, <1>2
  <2>2. ASSUME NEW a, s = <<a>>
        PROVE  Len(s) <= 1
    <3>1. Len(s) = 1
      BY <2>2, <1>1
    <3> QED
      BY <3>1
  <2>3. s = <<>> \/ \E a \in Args \cup {None} : s = <<a>>
    BY Zenon DEF Few
  <2> QED
    BY <2>1, <2>2, <2>3
<1> QED
  BY <1>1, <1>3 DEF Few

\* Running, and agreeing, for the first time.
LEMMA FirstRun ==
  ASSUME FlowsTypeOK, NEW c \in Caller, NEW a \in Args \cup {None}, runs[c] = <<>>, Run(c, a)
  PROVE  /\ runs' \in [Caller -> Few] /\ runs'[c] = <<a>>
         /\ \A d \in Caller : d # c => runs'[d] = runs[d]
<1>1. runs \in [Caller -> Few] /\ runs' = [runs EXCEPT ![c] = <<a>>]
  BY FewAreFew DEF Run, FlowsTypeOK
<1> QED
  BY <1>1, FewAreFew

LEMMA FirstConsent ==
  ASSUME FlowsTypeOK, NEW c \in Caller, NEW a \in Args \cup {None}, consents[c] = <<>>, Consent(c, a)
  PROVE  /\ consents' \in [Caller -> Few] /\ consents'[c] = <<a>>
         /\ \A d \in Caller : d # c => consents'[d] = consents[d]
<1>1. consents \in [Caller -> Few] /\ consents' = [consents EXCEPT ![c] = <<a>>]
  BY FewAreFew DEF Consent, FlowsTypeOK
<1> QED
  BY <1>1, FewAreFew

(***************************************************************************)
(* The first state                                                         *)
(***************************************************************************)
LEMMA SoundInit == FlowsInit => Sound
<1> SUFFICES ASSUME FlowsInit PROVE Sound
  OBVIOUS
<1>1. FlowsTypeOK
  BY Callers, FewAreFew DEF FlowsInit, FlowsTypeOK, NoSession, CommandIds
<1>2. Admitted
  <2>1. busy <=> phase # "idle"
    BY DEF FlowsInit
  <2> QED
    BY <2>1, Callers DEF FlowsInit, Admitted, Sessions
<1>3. Fresh
  BY Callers DEF FlowsInit, Fresh, Unused
<1>4. RunsAreConfirmed
  BY DEF FlowsInit, RunsAreConfirmed
<1> QED
  BY <1>1, <1>2, <1>3, <1>4 DEF Sound

(***************************************************************************)
(* Every step keeps the sessions sound                                     *)
(***************************************************************************)
LEMMA StillSound ==
  ASSUME Sound, UNCHANGED sessions
  PROVE  Sound'
<1>1. busy' <=> phase' # "idle"
  BY Zenon DEF Sound, Admitted, sessions
<1>2. Admitted'
  BY <1>1 DEF Sound, Admitted, Sessions, sessions, host
<1>3. FlowsTypeOK' /\ Fresh'
  BY FeatureStays DEF Sound, FlowsTypeOK, Fresh, Unused, sessions, host, done
<1>4. RunsAreConfirmed'
  BY DoneStays DEF sessions, host
<1> QED
  BY <1>2, <1>3, <1>4 DEF Sound

LEMMA SendsSound ==
  ASSUME Sound, Sends
  PROVE  Sound'
<1>1. phase = "idle"
  BY DEF Sound, Admitted, Sends
<1>2. busy' <=> phase' # "idle"
  BY DEF Sends
<1>3. flow # NoSession /\ Sessions = {flow}
  BY <1>1 DEF Sound, Admitted, Sends
<1>4. Admitted'
  BY <1>1, <1>2, <1>3 DEF Sound, Admitted, Sessions, Sends, host
<1>5. FlowsTypeOK' /\ Fresh'
  BY <1>1, FeatureStays DEF Sound, FlowsTypeOK, Fresh, Unused, Sends, host, done
<1>6. RunsAreConfirmed'
  BY DoneStays DEF Sends, host
<1> QED
  BY <1>4, <1>5, <1>6 DEF Sound

\* The session of the flow is closed: nothing else is held.
LEMMA FlowIsFreed ==
  ASSUME Sound, phase \in {"idle", "sent", "asking", "running"}, held' = held \ {flow}
  PROVE  /\ Sessions' = {} /\ held' \subseteq Caller /\ (CommandLine \in held' <=> CommandLine \in held)
<1>1. flow # CommandLine
  BY Callers DEF Sound, FlowsTypeOK, CommandLine
<1>2. Sessions \subseteq {flow}
  BY DEF Sound, Admitted
<1>3. Sessions' = Sessions \ {flow}
  BY DEF Sessions
<1> QED
  BY <1>1, <1>2, <1>3 DEF Sound, FlowsTypeOK

LEMMA ClosesSound ==
  ASSUME Sound, Closes
  PROVE  Sound'
<1>1. phase = "idle"
  BY DEF Sound, Admitted, Closes
<1>2. busy' <=> phase' # "idle"
  BY Zenon DEF Sound, Admitted, Closes
<1>3. Sessions' = {} /\ held' \subseteq Caller /\ (CommandLine \in held' <=> CommandLine \in held)
  BY <1>1, FlowIsFreed DEF Closes
<1>4. NoSession \notin late
  BY OpenedAreSessions DEF Sound, FlowsTypeOK
<1>5. Admitted'
  BY <1>1, <1>2, <1>3, <1>4 DEF Sound, Admitted, Closes
<1>6. FlowsTypeOK' /\ Fresh'
  BY <1>1, <1>3, FeatureStays DEF Sound, FlowsTypeOK, Fresh, Unused, Closes, done, NoSession
<1>7. RunsAreConfirmed'
  BY DoneStays DEF Closes
<1> QED
  BY <1>5, <1>6, <1>7 DEF Sound

LEMMA FailsSound ==
  ASSUME Sound, Fails
  PROVE  Sound'
<1>1. flow # NoSession /\ flow \in 1..opened
  BY DEF Sound, Admitted, FlowsTypeOK, Fails, NoSession
<1>2. busy' <=> phase' # "idle"
  BY DEF Fails, Settles
<1>3. Sessions' = {} /\ held' \subseteq Caller /\ (CommandLine \in held' <=> CommandLine \in held)
  BY FlowIsFreed DEF Fails
<1>4. late' \subseteq 1..opened /\ NoSession \notin late'
  BY <1>1, OpenedAreSessions DEF Sound, FlowsTypeOK, Fails
<1>5. Admitted'
  BY <1>2, <1>3, <1>4 DEF Sound, Admitted, Fails, Settles
<1>6. FlowsTypeOK' /\ Fresh'
  BY <1>3, <1>4, FeatureStays DEF Sound, FlowsTypeOK, Fresh, Unused, Fails, Settles, done, NoSession
<1>7. RunsAreConfirmed'
  BY DoneStays DEF Fails
<1> QED
  BY <1>5, <1>6, <1>7 DEF Sound

LEMMA OpenSound ==
  ASSUME Sound, Open
  PROVE  Sound'
<1>1. phase = "idle"
  BY DEF Sound, Admitted, Open
<1>2. busy' <=> phase' # "idle"
  BY DEF Open
<1>3. Sessions' = {} /\ held' \subseteq Caller /\ (CommandLine \in held' <=> CommandLine \in held)
  BY <1>1, FlowIsFreed DEF Open
<1>4. NoSession \notin late
  BY OpenedAreSessions DEF Sound, FlowsTypeOK
<1>5. Admitted'
  BY <1>2, <1>3, <1>4 DEF Sound, Admitted, Open
<1>6. FlowsTypeOK' /\ Fresh'
  BY <1>1, <1>3, FeatureStays DEF Sound, FlowsTypeOK, Fresh, Unused, Open, done, psn, NoSession
<1>7. RunsAreConfirmed'
  BY DoneStays DEF Open
<1> QED
  BY <1>5, <1>6, <1>7 DEF Sound

LEMMA OpenRefusedSound ==
  ASSUME Sound, OpenRefused \/ Reported
  PROVE  Sound'
<1>1. phase \in {"opening", "reading"} /\ phase' = "idle"
  BY DEF OpenRefused, Reported, Settles
<1>2. busy' <=> phase' # "idle"
  BY DEF OpenRefused, Reported, Settles
<1>3. UNCHANGED <<host, flow, shown, psn, done, cli>>
  BY DEF OpenRefused, Reported
<1>4. Admitted'
  BY <1>1, <1>2, <1>3 DEF Sound, Admitted, Sessions, host
<1>5. FlowsTypeOK' /\ Fresh'
  BY <1>1, <1>3, FeatureStays DEF Sound, Admitted, FlowsTypeOK, Fresh, Unused, host, done, psn
<1>6. RunsAreConfirmed'
  BY <1>3, DoneStays DEF host
<1> QED
  BY <1>4, <1>5, <1>6 DEF Sound

LEMMA AdmitSound ==
  ASSUME Sound, Admit
  PROVE  Sound'
<1>1. /\ phase = "opening" /\ opened < MaxOpens /\ flow = NoSession /\ Sessions = {}
      /\ opened + 1 \in Session /\ opened + 1 \notin late /\ opened + 1 # CommandLine
  BY Callers DEF Sound, Admitted, FlowsTypeOK, Admit, Session, CommandLine
<1>2. busy' <=> phase' # "idle"
  BY DEF Sound, Admitted, Admit
<1>3. PICK id \in CommandIds : command' = [command EXCEPT ![opened + 1] = id]
  BY DEF Admit, CommandIds
<1>4. /\ command' \in [Caller -> CommandIds]
      /\ \A c \in Caller : c # opened + 1 => command'[c] = command[c]
  BY <1>3 DEF Sound, FlowsTypeOK
<1>5. Sessions' = {opened + 1} /\ held' \subseteq Caller /\ (CommandLine \in held' <=> CommandLine \in held)
  BY <1>1, Callers DEF Sound, FlowsTypeOK, Sessions, Admit
<1>6. shown = NoScreen
  BY <1>1 DEF Sound, Admitted
<1>7. Admitted'
  BY <1>1, <1>2, <1>5, <1>6, Callers DEF Sound, Admitted, Admit
<1>8. Unused(opened + 1)
  BY <1>1 DEF Sound, Fresh, FlowsTypeOK
<1>9. FlowsTypeOK'
  BY <1>1, <1>4, <1>5, FeatureStays, Callers DEF Sound, FlowsTypeOK, Admit, done, psn, NoSession
<1>10. Fresh'
  BY <1>1, <1>8, Callers DEF Sound, FlowsTypeOK, Fresh, Unused, Admit, done, Session
<1>11. RunsAreConfirmed'
  BY <1>4, <1>8, FeatureStays DEF Sound, RunsAreConfirmed, Unused, Admit, done
<1> QED
  BY <1>7, <1>9, <1>10, <1>11 DEF Sound

LEMMA OpenFailsSound ==
  ASSUME Sound, OpenFails
  PROVE  Sound'
<1>1. /\ phase = "starting" /\ flow = NoSession /\ Sessions = {opened} /\ opened # CommandLine
  BY Callers DEF Sound, Admitted, OpenFails
<1>2. busy' <=> phase' # "idle"
  BY DEF OpenFails, Settles
<1>3. Sessions' = {} /\ held' \subseteq Caller /\ (CommandLine \in held' <=> CommandLine \in held)
  BY <1>1 DEF Sound, FlowsTypeOK, Sessions, OpenFails
<1>4. Admitted'
  BY <1>1, <1>2, <1>3 DEF Sound, Admitted, OpenFails, Settles
<1>5. FlowsTypeOK' /\ Fresh'
  BY <1>1, <1>3, FeatureStays DEF Sound, FlowsTypeOK, Fresh, Unused, OpenFails, Settles, done, psn
<1>6. RunsAreConfirmed'
  BY DoneStays DEF OpenFails
<1> QED
  BY <1>4, <1>5, <1>6 DEF Sound

LEMMA OpenedSound ==
  ASSUME Sound, NEW s, Opened(s)
  PROVE  Sound'
<1>1. /\ phase = "starting" /\ flow = NoSession /\ Sessions = {opened} /\ opened \in Session \ late
      /\ phase' = "idle" /\ flow' = opened
  BY DEF Sound, Admitted, Opened, Settles
<1>2. busy' <=> phase' # "idle"
  BY DEF Opened, Settles
<1>3. opened # NoSession /\ opened \in 0..opened
  BY <1>1, Callers DEF Sound, FlowsTypeOK
<1>4. Admitted'
  BY <1>1, <1>2, <1>3 DEF Sound, Admitted, Sessions, Opened, host
<1>5. FlowsTypeOK' /\ Fresh'
  BY <1>1, <1>3, FeatureStays DEF Sound, FlowsTypeOK, Fresh, Unused, Opened, host, done
<1>6. RunsAreConfirmed'
  BY DoneStays DEF Opened, host
<1> QED
  BY <1>4, <1>5, <1>6 DEF Sound

LEMMA AnsweredSound ==
  ASSUME Sound, NEW s, Answered(s)
  PROVE  Sound'
<1>1. phase = "sent" /\ flow # NoSession /\ Sessions = {flow} /\ phase' = "idle"
  BY DEF Sound, Admitted, Answered, Settles
<1>2. busy' <=> phase' # "idle"
  BY DEF Answered, Settles
<1>3. Admitted'
  BY <1>1, <1>2 DEF Sound, Admitted, Sessions, Answered, host
<1>4. FlowsTypeOK' /\ Fresh'
  BY <1>1, FeatureStays DEF Sound, FlowsTypeOK, Fresh, Unused, Answered, host, done
<1>5. RunsAreConfirmed'
  BY DoneStays DEF Answered, host
<1> QED
  BY <1>3, <1>4, <1>5 DEF Sound

\* Where the flow's session is when its answer ends it.
LEMMA FlowIsASession ==
  ASSUME Sound, phase \in {"sent", "asking", "running"}
  PROVE  flow \in Caller /\ flow \in 1..opened /\ flow # NoSession /\ flow # CommandLine
BY Callers, OpenedAreSessions DEF Sound, Admitted, FlowsTypeOK, NoSession

LEMMA SubmittedSound ==
  ASSUME Sound, NEW a \in Args, Submitted(a)
  PROVE  Sound'
<1>1. phase = "sent" /\ busy' = busy /\ UNCHANGED <<host, flow, shown, cli>> /\ args' = a
  BY DEF Submitted
<1>2. flow \in Caller /\ flow # CommandLine /\ flow # NoSession /\ Unused(flow)
  BY <1>1, FlowIsASession DEF Sound, Fresh
<1>3. busy' <=> phase' # "idle"
  <2>1. phase' # "idle"
    BY DEF Submitted
  <2>2. busy'
    BY <1>1 DEF Sound, Admitted
  <2> QED
    BY <2>1, <2>2
<1>4. phase' \in {"asking", "running"}
  BY DEF Submitted
<1>5. Admitted'
  BY <1>1, <1>2, <1>3, <1>4 DEF Sound, Admitted, Sessions, host
<1>6. CASE NeedsConsent(command[flow], FALSE)
  <2>1. phase' = "asking" /\ UNCHANGED done
    BY <1>6 DEF Submitted
  <2>2. FlowsTypeOK' /\ Fresh'
    BY <1>1, <1>2, <2>1, FeatureStays DEF Sound, FlowsTypeOK, Fresh, Unused, host, done
  <2>3. RunsAreConfirmed'
    BY <1>1, <2>1, DoneStays DEF host
  <2> QED
    BY <1>5, <2>2, <2>3 DEF Sound
<1>7. CASE ~NeedsConsent(command[flow], FALSE)
  <2>1. phase' = "running" /\ Run(flow, a) /\ UNCHANGED consents
    BY <1>7 DEF Submitted
  <2>2. /\ runs' \in [Caller -> Few] /\ runs'[flow] = <<a>>
        /\ \A d \in Caller : d # flow => runs'[d] = runs[d]
    BY <1>2, <2>1, FirstRun DEF Sound, Unused
  <2>3. FlowsTypeOK'
    BY <1>1, <2>1, <2>2, FeatureStays DEF Sound, FlowsTypeOK, host
  <2>4. Fresh'
    BY <1>1, <1>2, <2>1, <2>2, FlowIsASession, Callers DEF Sound, FlowsTypeOK, Fresh, Unused, host
  <2>5. Risks(command[flow]) = {}
    BY <1>1, <1>7, FeatureStays DEF host
  <2>6. RunsAreConfirmed'
    BY <1>1, <2>1, <2>2, <2>5, FeatureStays, FewAreFew DEF Sound, RunsAreConfirmed, host
  <2> QED
    BY <1>5, <2>3, <2>4, <2>6 DEF Sound
<1> QED
  BY <1>6, <1>7

\* Whoever runs after agreeing, and had done neither, has agreed to what is run.
LEMMA AgreedAndRun ==
  ASSUME FlowsTypeOK, RunsAreConfirmed, NEW c \in Caller, Unused(c), NEW a \in Args \cup {None},
         Consent(c, a), Run(c, a), UNCHANGED <<feature, command>>
  PROVE  /\ runs' \in [Caller -> Few] /\ consents' \in [Caller -> Few]
         /\ \A d \in Caller : d # c => (Unused(d) => Unused(d)')
         /\ RunsAreConfirmed'
<1>1. /\ runs' \in [Caller -> Few] /\ runs'[c] = <<a>>
      /\ \A d \in Caller : d # c => runs'[d] = runs[d]
  BY FirstRun DEF Unused
<1>2. /\ consents' \in [Caller -> Few] /\ consents'[c] = <<a>>
      /\ \A d \in Caller : d # c => consents'[d] = consents[d]
  BY FirstConsent DEF Unused
<1>3. RunsAreConfirmed'
  BY <1>1, <1>2, FeatureStays, FewAreFew DEF RunsAreConfirmed
<1> QED
  BY <1>1, <1>2, <1>3 DEF Unused

LEMMA AgreeSound ==
  ASSUME Sound, Agree
  PROVE  Sound'
<1>1. /\ phase = "asking" /\ phase' = "running" /\ busy' = busy
      /\ UNCHANGED <<host, flow, shown, args, cli>>
  BY DEF Agree, psn
<1>2. flow \in Caller /\ flow # CommandLine /\ flow # NoSession /\ Unused(flow)
  BY <1>1, FlowIsASession DEF Sound, Fresh
<1>3. busy' <=> phase' # "idle"
  <2>1. busy'
    BY <1>1 DEF Sound, Admitted
  <2> QED
    BY <1>1, <2>1
<1>4. /\ runs' \in [Caller -> Few] /\ consents' \in [Caller -> Few]
      /\ \A d \in Caller : d # flow => (Unused(d) => Unused(d)')
      /\ RunsAreConfirmed'
  BY <1>1, <1>2, AgreedAndRun DEF Agree, Sound, FlowsTypeOK, host
<1>5. Admitted'
  BY <1>1, <1>2, <1>3 DEF Sound, Admitted, Sessions, host
<1>6. FlowsTypeOK'
  BY <1>1, <1>4, FeatureStays DEF Sound, FlowsTypeOK, host
<1>7. Fresh'
  BY <1>1, <1>2, <1>4, FlowIsASession, Callers DEF Sound, FlowsTypeOK, Fresh, host
<1> QED
  BY <1>4, <1>5, <1>6, <1>7 DEF Sound

LEMMA RanSound ==
  ASSUME Sound, Ran
  PROVE  Sound'
<1>1. phase = "running" /\ phase' = "reading" /\ busy' = busy
  BY DEF Ran
<1>2. busy' <=> phase' # "idle"
  <2>1. busy'
    BY <1>1 DEF Sound, Admitted
  <2> QED
    BY <1>1, <2>1
<1>3. Sessions' = {} /\ held' \subseteq Caller /\ (CommandLine \in held' <=> CommandLine \in held)
  BY FlowIsFreed DEF Ran
<1>4. NoSession \notin late
  BY OpenedAreSessions DEF Sound, FlowsTypeOK
<1>5. Admitted'
  BY <1>1, <1>2, <1>3, <1>4 DEF Sound, Admitted, Ran
<1>6. FlowsTypeOK' /\ Fresh'
  BY <1>1, <1>3, FeatureStays DEF Sound, FlowsTypeOK, Fresh, Unused, Ran, Forgotten, done, NoSession
<1>7. RunsAreConfirmed'
  BY DoneStays DEF Ran
<1> QED
  BY <1>5, <1>6, <1>7 DEF Sound

\* The command line's steps leave the interface's call as it is.
LEMMA CliKeepsAdmitted ==
  ASSUME Sound, CliFrame, held' \ {CommandLine} = held \ {CommandLine}, held' \subseteq Caller,
         cli' \in {"idle", "done"} => CommandLine \notin held'
  PROVE  Admitted'
<1>1. UNCHANGED <<flow, shown, phase, opened, late>> /\ busy' = busy /\ Sessions' = Sessions
  BY DEF CliFrame, tui, Sessions
<1>2. busy' <=> phase' # "idle"
  BY Zenon, <1>1 DEF Sound, Admitted
<1> QED
  BY <1>1, <1>2 DEF Sound, Admitted

LEMMA CliStartSound ==
  ASSUME Sound, NEW yes \in BOOLEAN, NEW terminal \in BOOLEAN, CliStart(yes, terminal)
  PROVE  Sound'
<1>1. cli = "idle" /\ opened = 0 /\ CommandLine \notin held /\ Unused(CommandLine) /\ feature' = feature
  BY DEF CliStart, Sound, Admitted, Fresh, CliFrame
<1>2. UNCHANGED <<flow, phase, opened, late, args>>
  BY DEF CliStart, CliFrame, tui, psn
<1>3. PICK c \in Range(feature.commands) :
        /\ command' = [command EXCEPT ![CommandLine] = c.id]
        /\ IF ~NeedsConsent(c.id, yes)
           THEN /\ cli' = "running" /\ held' = held \cup {CommandLine} /\ Run(CommandLine, None)
                /\ IF yes THEN Consent(CommandLine, None) ELSE UNCHANGED consents
           ELSE /\ UNCHANGED done
                /\ IF terminal THEN cli' = "asking" /\ held' = held \cup {CommandLine}
                               ELSE cli' = "done" /\ UNCHANGED held
  BY DEF CliStart
<1>4. c.id \in CommandIds
  BY DEF CommandIds
<1>5. /\ command' \in [Caller -> CommandIds] /\ command'[CommandLine] = c.id
      /\ \A d \in Caller : d # CommandLine => command'[d] = command[d]
  BY <1>3, <1>4, Callers DEF Sound, FlowsTypeOK
<1>6. held' \in {held, held \cup {CommandLine}} /\ cli' \in {"running", "asking", "done"}
  BY <1>3
<1>7. cli' = "done" => held' = held
  BY <1>3
<1>8. Admitted'
  BY <1>1, <1>6, <1>7, Callers, CliKeepsAdmitted DEF CliStart, Sound, FlowsTypeOK
<1>9. \A d \in Caller : d # CommandLine => runs'[d] = runs[d] /\ consents'[d] = consents[d]
  <2>1. CASE UNCHANGED done
    BY <2>1 DEF done
  <2>2. CASE Run(CommandLine, None) /\ (Consent(CommandLine, None) \/ UNCHANGED consents)
    BY <2>2, <1>1, Callers, FirstRun, FirstConsent DEF Sound, Unused
  <2> QED
    BY <1>3, <2>1, <2>2
<1>10. runs' \in [Caller -> Few] /\ consents' \in [Caller -> Few]
  <2>1. CASE UNCHANGED done
    BY <2>1 DEF done, Sound, FlowsTypeOK
  <2>2. CASE Run(CommandLine, None) /\ (Consent(CommandLine, None) \/ UNCHANGED consents)
    BY <2>2, <1>1, Callers, FirstRun, FirstConsent DEF Sound, Unused, FlowsTypeOK
  <2> QED
    BY <1>3, <2>1, <2>2
<1>11. FlowsTypeOK'
  BY <1>1, <1>2, <1>5, <1>6, <1>10, FeatureStays, Callers DEF Sound, FlowsTypeOK
<1>12. cli' = "asking" => Unused(CommandLine)'
  BY <1>1, <1>3 DEF Unused, done
<1>13. Fresh'
  <2>1. \A d \in Session : Unused(d) => Unused(d)'
    BY <1>9, Callers DEF Unused
  <2>2. flow = NoSession /\ phase # "starting"
    BY <1>1, Callers DEF Sound, FlowsTypeOK, Admitted, NoSession
  <2>3. \A d \in Session : opened < d => Unused(d)
    BY DEF Sound, Fresh
  <2> QED
    BY <1>2, <1>6, <1>12, <2>1, <2>2, <2>3 DEF Fresh
<1>14. /\ Len(runs'[CommandLine]) <= 1
       /\ runs'[CommandLine] # <<>> /\ Risks(c.id) # {} => consents'[CommandLine] = runs'[CommandLine]
  <2>1. Len(runs'[CommandLine]) <= 1
    BY <1>10, Callers, FewAreFew
  <2>2. CASE NeedsConsent(c.id, yes)
    BY <2>1, <2>2, <1>1, <1>3 DEF Unused, done
  <2>3. CASE ~NeedsConsent(c.id, yes) /\ yes
    <3>1. Run(CommandLine, None) /\ Consent(CommandLine, None)
      BY <1>3, <2>3
    <3>2. runs'[CommandLine] = <<None>> /\ consents'[CommandLine] = <<None>>
      BY <1>1, <3>1, Callers, FirstRun, FirstConsent DEF Sound, Unused
    <3> QED
      BY <2>1, <3>2
  <2>4. CASE ~NeedsConsent(c.id, yes) /\ ~yes
    BY <1>1, <2>1, <2>4, FeatureStays
  <2> QED
    BY <2>2, <2>3, <2>4
<1>15. RunsAreConfirmed'
  BY <1>1, <1>5, <1>9, <1>14, FeatureStays DEF Sound, RunsAreConfirmed
<1> QED
  BY <1>8, <1>11, <1>13, <1>15 DEF Sound

LEMMA CliAnswerSound ==
  ASSUME Sound, NEW yes \in BOOLEAN, CliAnswer(yes) \/ CliEnd
  PROVE  Sound'
<1>1. cli \in {"asking", "running"} /\ UNCHANGED <<feature, command, flow, phase, opened, late, args>>
  BY DEF CliAnswer, CliEnd, CliFrame, tui, psn
<1>2. /\ held' \in {held, held \ {CommandLine}} /\ cli' \in {"running", "done"}
      /\ cli' = "done" => held' = held \ {CommandLine}
  BY DEF CliAnswer, CliEnd
<1>3. Admitted'
  BY <1>2, CliKeepsAdmitted DEF CliAnswer, CliEnd, Sound, FlowsTypeOK
<1>4. CASE cli = "asking" /\ Consent(CommandLine, None) /\ Run(CommandLine, None)
  <2>1. /\ runs' \in [Caller -> Few] /\ consents' \in [Caller -> Few]
        /\ \A d \in Caller : d # CommandLine => (Unused(d) => Unused(d)')
        /\ RunsAreConfirmed'
    BY <1>1, <1>4, Callers, AgreedAndRun DEF Sound, Fresh
  <2>2. FlowsTypeOK'
    BY <1>1, <1>2, <2>1, FeatureStays DEF Sound, FlowsTypeOK
  <2>3. Fresh'
    BY <1>1, <1>2, <2>1, Callers, OpenedAreSessions DEF Sound, Admitted, FlowsTypeOK, Fresh
  <2> QED
    BY <1>3, <2>1, <2>2, <2>3 DEF Sound
<1>5. CASE UNCHANGED done
  <2>1. FlowsTypeOK' /\ Fresh'
    BY <1>1, <1>2, <1>5, FeatureStays DEF Sound, FlowsTypeOK, Fresh, Unused, done
  <2>2. RunsAreConfirmed'
    BY <1>1, <1>5, DoneStays
  <2> QED
    BY <1>3, <2>1, <2>2 DEF Sound
<1> QED
  BY <1>4, <1>5 DEF CliAnswer, CliEnd

LEMMA SoundStep ==
  ASSUME Sound, [FlowsNext]_flowsVars
  PROVE  Sound'
<1>1. \/ UNCHANGED sessions \/ Sends \/ Closes \/ Fails
      \/ Open \/ OpenRefused \/ Admit \/ OpenFails
      \/ \E s \in RawScreen : Opened(s) \/ Answered(s)
      \/ \E a \in Args : Submitted(a)
      \/ Agree \/ Ran \/ Reported
      \/ \E yes, terminal \in BOOLEAN : CliStart(yes, terminal)
      \/ \E yes \in BOOLEAN : CliAnswer(yes)
      \/ CliEnd
  BY Steps
<1>2. (\E yes \in BOOLEAN : CliAnswer(yes)) \/ CliEnd => Sound'
  BY CliAnswerSound
<1> QED
  BY <1>1, <1>2, StillSound, SendsSound, ClosesSound, FailsSound, OpenSound, OpenRefusedSound,
     AdmitSound, OpenFailsSound, OpenedSound, AnsweredSound, SubmittedSound, AgreeSound, RanSound,
     CliStartSound

LEMMA AlwaysSound == FlowsSpec => []Sound
<1>1. Sound /\ [FlowsNext]_flowsVars => Sound'
  BY SoundStep
<1> QED
  BY SoundInit, <1>1, PTL DEF FlowsSpec

\* A session is used as its contract says, from its admission to its end: asked
\* one thing at a time and never after an answer was given up on, its command run
\* once at most and a risky one after the user agreed to those arguments, and
\* nothing stays admitted (provider-feature-operations.ts, tui.tsx).
THEOREM SessionsStaySound == FlowsSpec => []SessionsAreSound
<1>1. Sound => SessionsAreSound
  <2> SUFFICES ASSUME Sound PROVE SessionsAreSound
    OBVIOUS
  <2>1. OneCallPerSession
    BY DEF OneCallPerSession, Sound, Admitted, Sessions
  <2>2. ~busy => held \ {CommandLine} = {flow} \ {NoSession}
    BY DEF Sound, Admitted, Sessions
  <2>3. cli = "done" => CommandLine \notin held
    BY DEF Sound, Admitted
  <2> QED
    BY <2>1, <2>2, <2>3 DEF SessionsAreSound, AdmissionsAreReleased, Sound
<1> QED
  BY <1>1, AlwaysSound, PTL

(***************************************************************************)
(* The surface's state                                                     *)
(***************************************************************************)
LEMMA Drafts ==
  ASSUME NEW u, SurfaceShape(u)
  PROVE  /\ \A c : SurfaceShape([u EXCEPT !.cursor = c]) /\ [u EXCEPT !.cursor = c].draft = u.draft
         /\ \A c : SurfaceShape([u EXCEPT !.choice = c]) /\ [u EXCEPT !.choice = c].draft = u.draft
         /\ \A p : SurfaceShape([u EXCEPT !.picker = p]) /\ [u EXCEPT !.picker = p].draft = u.draft
         /\ \A d : SurfaceShape([u EXCEPT !.draft = d]) /\ [u EXCEPT !.draft = d].draft = d
<1>1. ASSUME NEW x
      PROVE  SurfaceShape([u EXCEPT !.cursor = x]) /\ [u EXCEPT !.cursor = x].draft = u.draft
  <2>1. [u EXCEPT !.cursor = x] = [cursor |-> x, choice |-> u.choice, picker |-> u.picker, draft |-> u.draft]
    BY DEF SurfaceShape
  <2> QED
    BY <2>1 DEF SurfaceShape
<1>2. ASSUME NEW x
      PROVE  SurfaceShape([u EXCEPT !.choice = x]) /\ [u EXCEPT !.choice = x].draft = u.draft
  <2>1. [u EXCEPT !.choice = x] = [cursor |-> u.cursor, choice |-> x, picker |-> u.picker, draft |-> u.draft]
    BY DEF SurfaceShape
  <2> QED
    BY <2>1 DEF SurfaceShape
<1>3. ASSUME NEW x
      PROVE  SurfaceShape([u EXCEPT !.picker = x]) /\ [u EXCEPT !.picker = x].draft = u.draft
  <2>1. [u EXCEPT !.picker = x] = [cursor |-> u.cursor, choice |-> u.choice, picker |-> x, draft |-> u.draft]
    BY DEF SurfaceShape
  <2> QED
    BY <2>1 DEF SurfaceShape
<1>4. ASSUME NEW x
      PROVE  SurfaceShape([u EXCEPT !.draft = x]) /\ [u EXCEPT !.draft = x].draft = x
  <2>1. [u EXCEPT !.draft = x] = [cursor |-> u.cursor, choice |-> u.choice, picker |-> u.picker, draft |-> x]
    BY DEF SurfaceShape
  <2> QED
    BY <2>1 DEF SurfaceShape
<1> QED
  BY Zenon, <1>1, <1>2, <1>3, <1>4

\* Moving what is focused keeps the draft, and so does opening a choice.
LEMMA FocusKeepsDraft ==
  ASSUME NEW u, SurfaceShape(u), NEW s, NEW t, NEW c
  PROVE  SurfaceShape(Focus(u, s, t, c)) /\ Focus(u, s, t, c).draft = u.draft
<1>1. PICK a, b : Focus(u, s, t, c) = [u EXCEPT !.cursor = a, !.choice = b]
  BY Zenon DEF Focus
<1>2. [u EXCEPT !.cursor = a, !.choice = b] = [[u EXCEPT !.cursor = a] EXCEPT !.choice = b]
  OBVIOUS
<1> DEFINE v == [u EXCEPT !.cursor = a]
<1>3. SurfaceShape(v) /\ v.draft = u.draft
  BY Drafts
<1> HIDE DEF v
<1>4. SurfaceShape([v EXCEPT !.choice = b]) /\ [v EXCEPT !.choice = b].draft = v.draft
  BY <1>3, Drafts
<1> QED
  BY <1>1, <1>2, <1>3, <1>4 DEF v

LEMMA PickerKeepsDraft ==
  ASSUME NEW u, SurfaceShape(u), NEW p, NEW c
  PROVE  /\ SurfaceShape([u EXCEPT !.picker = p, !.choice = c])
         /\ [u EXCEPT !.picker = p, !.choice = c].draft = u.draft
<1>1. [u EXCEPT !.picker = p, !.choice = c] = [[u EXCEPT !.picker = p] EXCEPT !.choice = c]
  OBVIOUS
<1> DEFINE v == [u EXCEPT !.picker = p]
<1>2. SurfaceShape(v) /\ v.draft = u.draft
  BY Drafts
<1> HIDE DEF v
<1>3. SurfaceShape([v EXCEPT !.choice = c]) /\ [v EXCEPT !.choice = c].draft = v.draft
  BY <1>2, Drafts
<1> QED
  BY <1>1, <1>2, <1>3 DEF v

LEMMA NewSurface == SurfaceShape(NoSurface) /\ NoSurface.draft = NoDraft
BY DEF SurfaceShape, NoSurface

LEMMA MountedIsNew ==
  ASSUME NEW s
  PROVE  SurfaceShape(Mounted(s)) /\ Mounted(s).draft = NoDraft
<1>1. Mounted(s) = Focus(NoSurface, s, s, IF s.kind = "review" THEN Len(s.items) ELSE 0)
  BY DEF Mounted, NoSurface
<1> QED
  BY <1>1, NewSurface, FocusKeepsDraft

LEMMA RerenderedKeepsDraft ==
  ASSUME NEW u, SurfaceShape(u), NEW s, NEW t
  PROVE  SurfaceShape(Rerendered(u, s, t)) /\ Rerendered(u, s, t).draft \in {u.draft, NoDraft}
BY FocusKeepsDraft, MountedIsNew DEF Rerendered

LEMMA NoDraftIsShaped == DraftShape(NoDraft)
BY DEF DraftShape

LEMMA NoScreenIsBad == ~ScreenOk(NoScreen)
BY DEF ScreenOk, NoScreen

(***************************************************************************)
(* What is offered                                                         *)
(***************************************************************************)
LEMMA OfferedAction ==
  ASSUME NEW s, NEW i \in Enabled(s.actions)
  PROVE  EventFits(Event("action", s.actions[i].id, None, None, {}), s)
<1>1. s.actions[i] \in Range(s.actions) /\ ~s.actions[i].disabled
  BY DEF Enabled, Range
<1> QED
  BY <1>1 DEF EventFits, Event

\* A row that is pressed is selected alone or with others, all of the table's.
LEMMA OfferedRow ==
  ASSUME NEW s, ScreenOk(s), s.kind = "table", NEW i \in DOMAIN s.rows, ~s.rows[i].disabled
  PROVE  EventFits(Event("rows", None, None, s.rows[i].id,
                         IF s.selection = "single" THEN {s.rows[i].id}
                         ELSE Toggled(Range(s.selected), s.rows[i].id)), s)
<1> DEFINE ids == {r.id : r \in Range(s.rows)}
           rows == IF s.selection = "single" THEN {s.rows[i].id}
                   ELSE Toggled(Range(s.selected), s.rows[i].id)
<1>1. s.rows[i] \in Range(s.rows)
  BY DEF Range
<1>2. Range(s.selected) \subseteq ids
  BY DEF ScreenOk, TableOk
<1>3. s.rows[i].id \in ids
  BY <1>1
<1>4. rows \subseteq ids
  BY <1>2, <1>3 DEF Toggled
<1>5. s.selection = "single" => Cardinality(rows) <= 1
  <2>1. Cardinality({s.rows[i].id}) = 1
    BY FS_Singleton
  <2> QED
    BY <2>1
<1>6. \E r \in Range(s.rows) : r.id = s.rows[i].id /\ ~r.disabled
  BY <1>1
<1> HIDE DEF ids, rows
<1>7. \A e : e.kind = "rows" /\ e.pick = s.rows[i].id /\ e.value = rows => EventFits(e, s)
  <2> SUFFICES ASSUME NEW e, e.kind = "rows", e.pick = s.rows[i].id, e.value = rows
               PROVE  EventFits(e, s)
    OBVIOUS
  <2>1. EventFits(e, s) <=>
          /\ s.kind = "table" /\ e.value \subseteq {r.id : r \in Range(s.rows)}
          /\ s.selection = "single" => Cardinality(e.value) <= 1
          /\ \E r \in Range(s.rows) : r.id = e.pick /\ ~r.disabled
    BY DEF EventFits
  <2> QED
    BY <1>4, <1>5, <1>6, <2>1 DEF ids
<1>8. EventFits(Event("rows", None, None, s.rows[i].id, rows), s)
  BY <1>7 DEF Event
<1> QED
  BY <1>8 DEF rows

\* A field of the screen that is enabled, with none of a choice's values; or a
\* choice of it that is.
LEMMA OfferedField ==
  ASSUME NEW s, s.kind = "form", NEW f \in Range(s.fields), NEW pick, NEW value,
         \/ ~f.disabled /\ f.kind \notin ChoiceKinds
         \/ f.kind \in ChoiceKinds /\ \E c \in Range(f.choices) : c.id = pick /\ ~c.disabled,
         NEW d, d.id = f.id, d.kind = f.kind
  PROVE  EventFits(Change(d, pick, value), s)
<1>1. \A e : e.kind = "field" /\ e.id = f.id /\ e.as = f.kind /\ e.pick = pick => EventFits(e, s)
  BY DEF EventFits
<1> QED
  BY <1>1 DEF Change, Event

LEMMA OfferedChoice ==
  ASSUME NEW seq, NEW n, NEW c \in EnabledAt(seq, n)
  PROVE  c \in Range(seq) /\ ~c.disabled
BY DEF EnabledAt, Enabled, Range

(***************************************************************************)
(* The first state, and the keys of the surface                            *)
(***************************************************************************)
LEMMA FitsInit == FlowsInit => Fits
BY NewSurface, NoDraftIsShaped DEF FlowsInit, Fits

\* A draft that may be kept on the screen that is shown.
KeptDraft(d) == DraftShape(d) /\ (d # NoDraft => overlapped \/ DraftFits(d, shown))

LEMMA DraftIsKept ==
  ASSUME Fits
  PROVE  SurfaceShape(ui) /\ KeptDraft(ui.draft) /\ KeptDraft(NoDraft)
BY NoDraftIsShaped DEF Fits, KeptDraft

LEMMA SurfaceFits ==
  ASSUME Fits, Key, NEW u, SurfaceShape(u), KeptDraft(u.draft), Surface(u)
  PROVE  Fits'
<1>1. UNCHANGED <<at, shown, phase, op, event>> /\ overlapped' = overlapped /\ ui' = u
  BY DEF Surface, tui, psn
<1>2. shown # NoScreen /\ op = "none"
  BY DEF Key
<1>3. ~(phase = "sent" /\ ~overlapped)
  BY <1>2 DEF Fits
<1> QED
  BY <1>1, <1>2, <1>3 DEF Fits, KeptDraft

LEMMA EmitFits ==
  ASSUME Fits, Key, NEW u, SurfaceShape(u), u.draft = NoDraft, NEW e, overlapped \/ EventFits(e, shown), Emit(e, u)
  PROVE  Fits'
<1>1. UNCHANGED <<at, shown>> /\ overlapped' = overlapped /\ ui' = u
  BY DEF Emit
<1>2. shown # NoScreen /\ op = "none"
  BY DEF Key
<1>3. CASE busy
  <2>1. UNCHANGED <<phase, op, event>>
    BY <1>3 DEF Emit
  <2>2. ~(phase = "sent" /\ ~overlapped)
    BY <1>2 DEF Fits
  <2> QED
    BY <1>1, <1>2, <2>1, <2>2, NoDraftIsShaped DEF Fits
<1>4. CASE ~busy
  <2>1. op' = "working" /\ event' = e
    BY <1>4 DEF Emit
  <2> QED
    BY <1>1, <1>2, <2>1, NoDraftIsShaped DEF Fits
<1> QED
  BY <1>3, <1>4

LEMMA DraftKeysFit ==
  ASSUME Fits, TypeText \/ LeaveDraft \/ EnterDraft
  PROVE  Fits'
<1>1. Key /\ ui.draft # NoDraft /\ SurfaceShape(ui) /\ KeptDraft(ui.draft) /\ KeptDraft(NoDraft)
  BY DraftIsKept DEF TypeText, LeaveDraft, EnterDraft
<1>2. CASE TypeText
  <2>1. PICK t : Surface([ui EXCEPT !.draft.text = t])
    BY <1>2 DEF TypeText
  <2> DEFINE d == [ui.draft EXCEPT !.text = t]
  <2>2. [ui EXCEPT !.draft.text = t] = [ui EXCEPT !.draft = d]
    OBVIOUS
  <2>3. d = [id |-> ui.draft.id, kind |-> ui.draft.kind, text |-> t]
    BY <1>1 DEF KeptDraft, DraftShape
  <2>4. d.id = ui.draft.id /\ d.kind = ui.draft.kind /\ DraftShape(d)
    BY <2>3 DEF DraftShape
  <2>5. KeptDraft(d)
    BY <1>1, <2>4 DEF KeptDraft, DraftFits
  <2> HIDE DEF d
  <2>6. SurfaceShape([ui EXCEPT !.draft = d]) /\ [ui EXCEPT !.draft = d].draft = d
    BY <1>1, Drafts
  <2> QED
    BY <1>1, <2>1, <2>2, <2>5, <2>6, SurfaceFits
<1>3. SurfaceShape([ui EXCEPT !.draft = NoDraft]) /\ [ui EXCEPT !.draft = NoDraft].draft = NoDraft
  BY <1>1, Drafts
<1>4. CASE LeaveDraft
  BY <1>1, <1>3, <1>4, SurfaceFits DEF LeaveDraft
<1>5. CASE EnterDraft
  <2>1. Emit(Change(ui.draft, None, {}), [ui EXCEPT !.draft = NoDraft])
    BY <1>5 DEF EnterDraft
  <2>2. ASSUME ~overlapped
        PROVE  EventFits(Change(ui.draft, None, {}), shown)
    <3>1. DraftFits(ui.draft, shown)
      BY <1>1, <2>2 DEF KeptDraft
    <3>2. PICK f \in Range(shown.fields) : f.id = ui.draft.id /\ f.kind = ui.draft.kind /\ ~f.disabled
      BY <3>1 DEF DraftFits
    <3>3. shown.kind = "form" /\ f.kind \notin ChoiceKinds
      BY <3>1, <3>2 DEF DraftFits, ChoiceKinds
    <3> QED
      BY <3>2, <3>3, OfferedField
  <2> QED
    BY <1>1, <1>3, <2>1, <2>2, EmitFits
<1> QED
  BY <1>2, <1>4, <1>5

LEMMA PickerKeysFit ==
  ASSUME Fits, LeavePicker \/ MovePicker \/ Choose
  PROVE  Fits'
<1>1. Key /\ ui.draft = NoDraft /\ SurfaceShape(ui) /\ KeptDraft(NoDraft)
  BY DraftIsKept DEF LeavePicker, MovePicker, Choose
<1>2. SurfaceShape([ui EXCEPT !.picker = None]) /\ [ui EXCEPT !.picker = None].draft = NoDraft
  BY <1>1, Drafts
<1>3. CASE LeavePicker
  BY <1>1, <1>2, <1>3, SurfaceFits DEF LeavePicker
<1>4. CASE MovePicker
  <2>1. PICK k : Surface([ui EXCEPT !.choice = k])
    BY <1>4 DEF MovePicker
  <2>2. SurfaceShape([ui EXCEPT !.choice = k]) /\ [ui EXCEPT !.choice = k].draft = NoDraft
    BY <1>1, Drafts
  <2> QED
    BY <1>1, <2>1, <2>2, SurfaceFits
<1>5. CASE Choose
  <2>0. PICK f \in PickerField : \E c \in EnabledAt(f.choices, ui.choice) :
          IF f.kind = "single-choice"
          THEN Emit(Change(f, c.id, {c.id}), [ui EXCEPT !.picker = None])
          ELSE Emit(Change(f, c.id, Toggled(Range(f.value), c.id)), ui)
    BY <1>5 DEF Choose
  <2>1. PICK c \in EnabledAt(f.choices, ui.choice) :
          IF f.kind = "single-choice"
          THEN Emit(Change(f, c.id, {c.id}), [ui EXCEPT !.picker = None])
          ELSE Emit(Change(f, c.id, Toggled(Range(f.value), c.id)), ui)
    BY <2>0
  <2>2. shown.kind = "form" /\ f \in Range(shown.fields) /\ f.kind \in ChoiceKinds
    BY DEF PickerField
  <2>3. c \in Range(f.choices) /\ ~c.disabled
    BY OfferedChoice
  <2>4. \A value : EventFits(Change(f, c.id, value), shown)
    BY <2>2, <2>3, OfferedField
  <2> QED
    BY <1>1, <1>2, <2>1, <2>4, EmitFits
<1> QED
  BY <1>3, <1>4, <1>5

LEMMA FieldFits ==
  ASSUME Fits, EnterField
  PROVE  Fits'
<1>1. Key /\ ui.draft = NoDraft /\ SurfaceShape(ui) /\ KeptDraft(NoDraft) /\ shown.kind = "form"
  BY DraftIsKept DEF EnterField, Plain
<1> DEFINE f == shown.fields[ui.cursor + 1]
           choices == FocusedChoices(shown, ui.cursor)
           chosen == {i \in Enabled(choices) : choices[i].id \in Range(f.value)}
           first == IF chosen = {} THEN 0
                    ELSE Before(choices, CHOOSE i \in chosen : \A j \in chosen : i <= j)
           text == IF f.value = <<>> THEN "blank" ELSE "good"
<1>2. f \in Range(shown.fields) /\ ~f.disabled
  BY DEF EnterField, Range
<1>3. CASE f.kind = "boolean" /\ Emit(Change(f, None, {}), ui)
  <2>1. f.kind \notin ChoiceKinds
    BY <1>3 DEF ChoiceKinds
  <2>2. EventFits(Change(f, None, {}), shown)
    <3> HIDE DEF f
    <3> QED
      BY <1>1, <1>2, <2>1, OfferedField
  <2> QED
    BY <1>1, <1>3, <2>2, EmitFits
<1>4. ASSUME NEW p, NEW k, Surface([ui EXCEPT !.picker = p, !.choice = k])
      PROVE  Fits'
  <2>1. /\ SurfaceShape([ui EXCEPT !.picker = p, !.choice = k])
        /\ [ui EXCEPT !.picker = p, !.choice = k].draft = NoDraft
    BY <1>1, PickerKeepsDraft
  <2> QED
    BY <1>1, <1>4, <2>1, SurfaceFits
<1>5. ASSUME NEW t, f.kind \in {"text", "integer", "decimal"},
             Surface([ui EXCEPT !.draft = [id |-> f.id, kind |-> f.kind, text |-> t]])
      PROVE  Fits'
  <2> DEFINE d == [id |-> f.id, kind |-> f.kind, text |-> t]
  <2>1. d.id = f.id /\ d.kind = f.kind /\ DraftShape(d)
    BY DEF DraftShape
  <2>2. KeptDraft(d)
    BY <1>1, <1>2, <1>5, <2>1 DEF KeptDraft, DraftFits
  <2> HIDE DEF d
  <2>3. SurfaceShape([ui EXCEPT !.draft = d]) /\ [ui EXCEPT !.draft = d].draft = d
    BY <1>1, Drafts
  <2> QED
    BY <1>1, <1>5, <2>2, <2>3, SurfaceFits DEF d
<1>6. \/ f.kind = "boolean" /\ Emit(Change(f, None, {}), ui)
      \/ Surface([ui EXCEPT !.picker = f.id, !.choice = first])
      \/ /\ f.kind \in {"text", "integer", "decimal"}
         /\ Surface([ui EXCEPT !.draft = [id |-> f.id, kind |-> f.kind, text |-> text]])
  BY Zenon DEF EnterField
<1>7. CASE Surface([ui EXCEPT !.picker = f.id, !.choice = first])
  <2> HIDE DEF f, choices, chosen, first, text
  <2> QED
    BY <1>4, <1>7
<1>8. CASE /\ f.kind \in {"text", "integer", "decimal"}
           /\ Surface([ui EXCEPT !.draft = [id |-> f.id, kind |-> f.kind, text |-> text]])
  <2> HIDE DEF f, choices, chosen, first, text
  <2> QED
    BY <1>5, <1>8
<1> HIDE DEF f, choices, chosen, first, text
<1> QED
  BY Zenon, <1>3, <1>6, <1>7, <1>8

LEMMA ClosesFits ==
  ASSUME at' = NoScreen, shown' = NoScreen, ui' = NoSurface, phase' # "sent"
  PROVE  Fits'
BY NewSurface, NoDraftIsShaped DEF Fits

LEMMA PlainKeysFit ==
  ASSUME Sound, Fits, Escape \/ MoveCursor \/ PressAction \/ SelectRow
  PROVE  Fits'
<1>1. Key /\ ui.draft = NoDraft /\ SurfaceShape(ui) /\ KeptDraft(NoDraft) /\ ScreenOk(shown)
  BY DraftIsKept DEF Escape, MoveCursor, PressAction, SelectRow, Plain, Key, Fits
<1>2. CASE Escape
  <2>1. CASE CloseFlow
    <3>1. CASE busy
      <4>1. UNCHANGED <<at, shown, phase, op, event, ui>> /\ overlapped' = overlapped
        BY <2>1, <3>1 DEF CloseFlow, flowsVars, tui, psn
      <4> QED
        BY <4>1 DEF Fits
    <3>2. CASE ~busy
      <4>1. phase = "idle"
        BY <3>2 DEF Sound, Admitted
      <4> QED
        BY <2>1, <3>2, <4>1, ClosesFits DEF CloseFlow, Forgotten
    <3> QED
      BY <3>1, <3>2
  <2>2. ASSUME NEW i \in Enabled(shown.actions), Emit(Event("action", shown.actions[i].id, None, None, {}), ui)
        PROVE  Fits'
    BY <1>1, <2>2, OfferedAction, EmitFits
  <2> QED
    BY <1>2, <2>1, <2>2 DEF Escape
<1>3. CASE MoveCursor
  <2>1. PICK c : Surface(Focus(ui, shown, shown, c))
    BY <1>3 DEF MoveCursor
  <2>2. SurfaceShape(Focus(ui, shown, shown, c)) /\ Focus(ui, shown, shown, c).draft = NoDraft
    BY <1>1, FocusKeepsDraft
  <2> QED
    BY <1>1, <2>1, <2>2, SurfaceFits
<1>4. CASE PressAction
  <2>1. PICK a \in EnabledAt(shown.actions, ui.cursor - Len(Content(shown))) :
          Emit(Event("action", a.id, None, None, {}), ui)
    BY <1>4 DEF PressAction
  <2>2. PICK i \in Enabled(shown.actions) : a = shown.actions[i]
    BY DEF EnabledAt
  <2> QED
    BY <1>1, <2>1, <2>2, OfferedAction, EmitFits
<1>5. CASE SelectRow
  <2> DEFINE i == ui.cursor + 1
             rows == IF shown.selection = "single" THEN {shown.rows[i].id}
                     ELSE Toggled(Range(shown.selected), shown.rows[i].id)
  <2>1. /\ shown.kind = "table" /\ i \in DOMAIN shown.rows /\ ~shown.rows[i].disabled
        /\ Emit(Event("rows", None, None, shown.rows[i].id, rows), ui)
    BY <1>5 DEF SelectRow
  <2>2. EventFits(Event("rows", None, None, shown.rows[i].id, rows), shown)
    <3> HIDE DEF i
    <3> QED
      BY <1>1, <2>1, OfferedRow
  <2> HIDE DEF i, rows
  <2> QED
    BY <1>1, <2>1, <2>2, EmitFits
<1> QED
  BY <1>2, <1>3, <1>4, <1>5

(***************************************************************************)
(* The other steps                                                         *)
(***************************************************************************)
\* What leaves the screen, the surface and the event as they are, and no event under way.
LEMMA IdleFits ==
  ASSUME Fits, UNCHANGED <<at, shown, ui>>, overlapped' = overlapped, phase' # "sent"
  PROVE  Fits'
BY DEF Fits

LEMMA CallSteps ==
  ASSUME Sound, Fits,
         \/ Open \/ OpenRefused \/ Admit \/ OpenFails \/ Reported
         \/ AnsweredBadly \/ AnswerTimesOut \/ RunFails \/ Decline \/ Ran
  PROVE  Fits'
<1>1. CASE OpenRefused \/ Admit \/ OpenFails \/ Reported
  BY <1>1, IdleFits DEF OpenRefused, Admit, OpenFails, Reported, Settles, psn
<1>2. CASE Open
  <2>1. shown = NoScreen /\ UNCHANGED <<at, ui>> /\ shown' = shown /\ phase' = "opening"
    BY <1>2 DEF Open, psn
  <2> QED
    BY <2>1 DEF Fits
<1>3. CASE AnsweredBadly \/ AnswerTimesOut \/ RunFails \/ Decline
  BY <1>3, ClosesFits
     DEF AnsweredBadly, AnswerTimesOut, RunFails, Decline, FlowFails, Forgotten, Settles
<1>4. CASE Ran
  BY <1>4, ClosesFits DEF Ran, Forgotten
<1> QED
  BY <1>1, <1>2, <1>3, <1>4

LEMMA OpenedFits ==
  ASSUME Fits, NEW s, Opened(s)
  PROVE  Fits'
<1>1. ScreenOk(s) /\ phase' = "idle" /\ shown' = s /\ at' = s /\ ui' \in {NoSurface, Mounted(s)}
  BY DEF Opened, Settles
<1>2. SurfaceShape(ui') /\ ui'.draft = NoDraft
  BY <1>1, NewSurface, MountedIsNew
<1> QED
  BY <1>1, <1>2, NoDraftIsShaped DEF Fits

LEMMA AnsweredFits ==
  ASSUME Fits, NEW s, Answered(s)
  PROVE  Fits'
<1>1. /\ ScreenOk(s) /\ phase = "sent" /\ phase' = "idle" /\ shown' = s /\ at' = s
      /\ ui' = Rerendered(ui, shown, s) /\ overlapped' = overlapped
  BY DEF Answered, Settles
<1>2. SurfaceShape(ui') /\ ui'.draft \in {ui.draft, NoDraft}
  BY <1>1, RerenderedKeepsDraft DEF Fits
<1>3. s # NoScreen
  BY <1>1, NoScreenIsBad
<1>4. overlapped \/ ui.draft = NoDraft
  BY <1>1 DEF Fits
<1> QED
  BY <1>1, <1>2, <1>3, <1>4, NoDraftIsShaped DEF Fits

LEMMA SubmittedFits ==
  ASSUME Fits, NEW a, Submitted(a)
  PROVE  Fits'
<1>1. UNCHANGED <<at, shown>> /\ overlapped' = overlapped /\ phase' # "sent" /\ ui' \in {ui, NoSurface}
  BY DEF Submitted
<1> QED
  BY <1>1, NewSurface, NoDraftIsShaped DEF Fits

LEMMA AgreeFits ==
  ASSUME Fits, Agree
  PROVE  Fits'
<1>1. UNCHANGED <<at, shown>> /\ overlapped' = overlapped /\ phase' # "sent" /\ ui' = Mounted(shown)
  BY DEF Agree, psn
<1>2. SurfaceShape(ui') /\ ui'.draft = NoDraft
  BY <1>1, MountedIsNew
<1> QED
  BY <1>1, <1>2, NoDraftIsShaped DEF Fits

\* A screen that goes away during an event is remembered.
LEMMA CoversFit ==
  ASSUME Fits, StartLoad \/ EndLoad \/ Dismiss
  PROVE  Fits'
<1>1. UNCHANGED <<at, shown, phase, event>> /\ ui' \in {ui, Mounted(shown)}
  BY DEF StartLoad, EndLoad, Dismiss, psn
<1>2. ~overlapped' => ~overlapped /\ (phase = "sent" => op' # "none")
  <2>1. CASE StartLoad
    BY <2>1 DEF StartLoad
  <2>2. CASE EndLoad \/ Dismiss
    <3>1. overlapped' = (overlapped \/ Uncovers)
      BY <2>2 DEF EndLoad, Dismiss
    <3> QED
      BY Zenon, <3>1 DEF Uncovers
  <2> QED
    BY <2>1, <2>2
<1>3. SurfaceShape(Mounted(shown)) /\ Mounted(shown).draft = NoDraft
  BY MountedIsNew
<1>4. SurfaceShape(ui') /\ ui'.draft \in {ui.draft, NoDraft}
  BY <1>1, <1>3 DEF Fits
<1> QED
  BY <1>1, <1>2, <1>4, NoDraftIsShaped DEF Fits

\* Steps that have nothing to do with a screen.
LEMMA StillFits ==
  ASSUME Fits, UNCHANGED <<at, shown, phase, op, event, ui>>, overlapped' = overlapped
  PROVE  Fits'
BY DEF Fits

LEMMA FitsStep ==
  ASSUME Sound, Fits, [FlowsNext]_flowsVars
  PROVE  Fits'
<1>1. CASE UNCHANGED flowsVars
  BY <1>1, StillFits DEF flowsVars, tui, psn
<1>2. CASE Quit \/ Navigate
  BY <1>2, StillFits DEF Quit, Navigate, psn
<1>3. CASE \/ \E yes, terminal \in BOOLEAN : CliStart(yes, terminal)
           \/ \E yes \in BOOLEAN : CliAnswer(yes)
           \/ CliEnd
  <2>1. CliFrame
    BY <1>3 DEF CliStart, CliAnswer, CliEnd
  <2> QED
    BY <2>1, StillFits DEF CliFrame, tui, psn
<1>4. CASE SurfaceKey
  BY <1>4, DraftKeysFit, PickerKeysFit, PlainKeysFit, FieldFits DEF SurfaceKey
<1>5. CASE StartLoad \/ EndLoad \/ Dismiss
  BY <1>5, CoversFit
<1>6. CASE \E s \in RawScreen : Opened(s) \/ Answered(s)
  BY <1>6, OpenedFits, AnsweredFits
<1>7. CASE (\E a \in Args : Submitted(a)) \/ Agree
  BY <1>7, SubmittedFits, AgreeFits
<1>8. CASE \/ Open \/ OpenRefused \/ Admit \/ OpenFails \/ Reported
           \/ AnsweredBadly \/ AnswerTimesOut \/ RunFails \/ Decline \/ Ran
  BY <1>8, CallSteps
<1> QED
  BY <1>1, <1>2, <1>3, <1>4, <1>5, <1>6, <1>7, <1>8 DEF FlowsNext, Ends

\* The event that a provider is asked about, unless another's screen went away
\* meanwhile, is an action, a row or a field's value that the screen its session
\* is at offers (tui-provider-interactive.tsx, provider-feature-operations.ts).
THEOREM EventsFitTheScreen == FlowsSpec => []EventFitsScreen
<1>1. FlowsInit => Fits
  BY FitsInit
<1>2. Sound /\ Fits /\ [FlowsNext]_flowsVars => Fits'
  BY FitsStep
<1>3. Fits => EventFitsScreen
  BY DEF Fits, EventFitsScreen
<1> QED
  BY <1>1, <1>2, <1>3, AlwaysSound, PTL DEF FlowsSpec

==============================================================================
