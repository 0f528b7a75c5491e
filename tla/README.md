# EasyServer: a TLA+ development

This directory models the parts of EasyServer (`packages/easyserver`) whose
correctness depends on the order in which things happen: files shared by several
processes, a lock without a server, a daemon whose handlers interleave at every
`await`, tunnels that open late, die, or fail to close, the destruction of a
server that must wait for them, requests to a cloud whose effect nobody can be sure
of, secrets and keys that must not outlive their use, and a terminal interface in
which several jobs share one screen. TLC checks small instances; TLAPS proves the
theorems listed under "What is proved" for every value of the constants.

All paths below are relative to `packages/easyserver/src/` unless they start with
`docs/` or `packages/`.

## The system

EasyServer manages compute instances of several providers (through plugins) and
local TCP tunnels to them. A command line and a terminal interface run one
process each time they are used; a local daemon, one process, keeps the background
connections. All of them share Local State, a JSON file.

| Component | State it keeps | Operations | Hard behaviour | What makes it correct |
|---|---|---|---|---|
| State store (`state-store.ts`) | `state.json`, `state.json.recovery` | `read`, `update` | several processes; crash between two renames; lock-free reads; lost lease | no update overwrites another; an acknowledged one survives the loss of either file; a read returns a committed state |
| Filesystem lock (`filesystem-lock.ts`) | a lock directory, one owner file per generation | acquire, heartbeat, `assertOwned`, release, reclaim | every pair of file system calls interleaves; crashes; stalls longer than `staleAfterMs` | one owner; a renewed owner keeps its file; a dead one blocks nobody |
| Endpoint intents (`endpoint-intent-service.ts`) | saved definitions in Local State; runtime objects, realizations, sessions still to be cleaned up | restore, create, enable, disable, retry, remove, drain, close | late answers of superseded realizations, overlapping handlers, failed closings, a store that throws | no tunnel is lost; status tells the truth; restart serves the same; a drain that succeeds leaves nothing open |
| Local daemon (`local-daemon.ts`) | sessions, idempotency keys, drains, tracked operations, pending cleanups | HTTP handlers, drain, shutdown | the above, plus repeated requests with one key, eviction of failed sessions | one session per key; nothing left open after a drain or a shutdown |
| Connection gateway (`connection-gateway.ts`) | listener, sockets, channels and cleanups of one tunnel | open, accept, close | abort during setup, channel answers after close, cleanup failures after success | every resource acquired is released exactly once; a failure is reported |
| Host operations (`host-operation.ts`, `mutation-safety.ts`) | one race of call, abort and timeout | run | a mutation dispatched before the timeout | what is called safe to retry has not been dispatched |
| Compute manager (`compute-manager.ts`, `provider-registry.ts`) | bindings and pending managed resources in Local State; admissions | refresh, adopt, inspect, create, start, stop, destroy, record, wait | a provider's list older than a mutation; two refreshes; a lost refresh lock; a mutation whose outcome is unknown | what was acquired stays managed or pending until its end is known; an instance has one id for life |
| Instance operations (`instance-operations.ts`) | `managed.lock`, `lifecycle.lock`, a drain token | guarded destroy, bulk runs | partial failure between two locks and a drain; the client dies | destruction only after the connections closed; the guard is released; a bulk report is true |
| Managed daemon (`managed-daemon-operations.ts`) | descriptor file, the two locks | start, stop, inspect | two starters; a stale or half-written descriptor; signals | at most one daemon, and the descriptor leads to it |
| Plugin lifecycle (`plugin-operations.ts`, `plugin-host.ts`, `plugin-discovery.ts`) | registrations in Local State, loaded modules | add, enable, disable, remove, load | activation checked against a state that changed meanwhile | the enabled plugins load together |
| Plugin credentials (`plugin-credentials.ts`, `secret-store.ts`) | secrets in the system store, references in Local State | set, remove, clean up | a secret is created before and removed after the state changes | no reference without a secret, no secret kept for nobody |
| Host runtime, reloading opener (`host-runtime.ts`, `reloading-endpoint-opener.ts`) | generations of provider runtimes, one shared build | open, reload | the configuration changes during a build, or while an opening waits for one | an endpoint is opened with a configuration in force since the call began; every call ends |
| SSH adapter (`ssh-access-adapter.ts`, `ssh-credential-material.ts`) | `known_hosts`, transports and channels, directories with private keys | trust, open, close, sweep | the host's key changes between scan, question and enrollment; a process dies with keys on disk | only confirmed keys are known; no key outlives its process unnoticed; keys in use are kept |
| Provider features (`provider-feature-*.ts`, `provider-command-runner.ts`) | an interactive flow, a command run, admissions | open, event, cancel, run | late, malformed and missing answers of a provider; a timeout | one call at a time; a risky command runs after a question; what was admitted is released |
| Terminal interface (`tui*.ts`, `tui*.tsx`) | jobs, one screen, questions, connections of its own | start, answer, cancel, quit | jobs overlap over one screen and end in any order | no dead screen, no lost question, no forgotten connection, no old status over a newer one |
| Command line (`cli.ts`) | | "daemon run", provider flows, one call each for the rest | signals; prompts | see managed daemon and provider features |
| Plugin SDK (`packages/plugin-sdk`) | | types and validators | | what the host accepts of a provider's screens, features and outcomes |

How they interact: every process reads and updates Local State through the store,
which takes the lock. The daemon's handlers call the intent service, which calls
the gateway to open tunnels. A client that destroys an instance takes
`managed.lock` and `lifecycle.lock`, begins a drain in the daemon, asks it to
close the instance's connections, destroys, and releases the drain. Creation and
destruction go through the compute manager to a provider's plugin; the plugins that
are loaded, and the secrets they get, come from Local State, which two administrators
may change while the daemon opens an endpoint. The gateway of an SSH endpoint is
served by the SSH adapter, which shares `known_hosts` and the directory of key
material with every other process of the user. The terminal interface calls all of
this and follows it on one screen.

## The modules

An action is the code between two points at which something else may run: between
two file system calls where several processes share files, between two `await`s
where the daemon's single thread interleaves its handlers. Data is reduced to what
the properties distinguish: names, ports, texts and payloads are model values or
left out, the order of every state change, guard and error path is kept.

| Module | Models | Composes / uses |
|---|---|---|
| `AtomicState` | what `JsonStateStore.update` promises: one atomic read-modify-write per call | |
| `StateStore` | `state-store.ts`: the two files, recovery, lock-free reads | implements `AtomicState` (property `UpdatesAreAtomic`, theorem `Refinement`); takes the lease to be exclusive while it is renewed (`FilesystemLock`) |
| `FilesystemLock` | `filesystem-lock.ts`, every file system call | |
| `ConnectionGateway` | `connection-gateway.ts`: `openEndpoint`, `CleanupScope`, `LiveConnectionSession`; the race of `HostOperationRunner.run` | |
| `EndpointIntents` | `endpoint-intent-service.ts`, the `/intents` and drain handlers of `local-daemon.ts` | updates of Local State are atomic (`StateStore`); a session opens late or not, dies, closes once (`ConnectionGateway`) |
| `DaemonSessions` | the `/sessions` and drain handlers of `local-daemon.ts`, its shutdown | as above; the intents' part of a drain is one step (`EndpointIntents`) |
| `DaemonLifecycle` | `cli.ts` (daemon run), the descriptor in `local-daemon.ts`, `managed-daemon-operations.ts`, the guarded destroy of `instance-operations.ts` | locks are exclusive (`FilesystemLock`); a drain leaves nothing open (`EndpointIntents`, `DaemonSessions`) |
| `Instances` | `compute-manager.ts`, `host-operation.ts` for mutations, `provider-command-runner.ts` (recording), bulk runs of `instance-operations.ts` | updates of Local State are atomic (`StateStore`); the guard of one destruction is `DaemonLifecycle` |
| `Plugins` | `plugin-operations.ts`, `plugin-credentials.ts`, `secret-store.ts`, `host-runtime.ts`, `reloading-endpoint-opener.ts` | keeps the two files of `StateStore` apart, because the clean-up of secrets reads only one of them |
| `SshAccess` | `ssh-access-adapter.ts`, `ssh-credential-material.ts` | the enrollment lock is exclusive unless lost (`FilesystemLock`); closes when the gateway asks (`ConnectionGateway`) |
| `ProviderFlows` | `provider-feature-operations.ts`, `provider-feature-catalog.ts`, `provider-command-runner.ts`, the contract of interactive screens in the SDK, `tui-provider-interactive.tsx`, the interactive flow of `cli.ts` | the race with a deadline is that of `ConnectionGateway`; what a command creates is in `Instances` |
| `Tui` | `tui.tsx`, `tui-operation-model.ts`, `tui-connections-surface.tsx`, `tui-foreground-connections.ts` | operations of other components answer anything they may answer |
| `MC…` (`StateStore`, `EndpointIntents`, `DaemonSessions`, `Instances`, `Plugins`, `SshAccess`, `ProviderFlows`, `Tui`) | symmetry and values of constants for TLC | |
| `…Proofs` (`EndpointIntents`, `ConnectionGateway`, `DaemonSessions`, `Plugins`, `SshAccess`) | theorems and their proofs | |
| `StorageProofs`, `ProcessProofs`, `ProviderProofs` | theorems about `FilesystemLock` and `StateStore`, about `DaemonLifecycle` and `Tui`, about `Instances` and `ProviderFlows`; the second of each pair prefixes `Init`, `Next`, `Spec` and the like (`Store…`, `Tui…`, `Flows…`), so that one module may extend both | |

How state and actions correspond to the code is written beside each definition;
`PROJECT.json` (`map`) gives the lines. In short:

* **StateStore.** `primary` and `recovery` are the two files, each *valid* (with
  the set of updates it contains), *missing* or *invalid*. `upc[u]` walks through
  `update`: acquire, read both files, mutate, `assertOwned`, two renames, release.
  Readers do the same reads without the lease. `Damage` destroys a file from
  outside, at most `MaxDamage` times. `committed`, `seen` and `damage` are history.
* **FilesystemLock.** `dir` is what is at the lock path, `file[p]` the owner file of
  the generation that `p` made, under its own name or under a reclaimer's. Time is
  reduced to one bit per mtime, "older than `staleAfterMs`". `robbed` is history:
  a directory was removed between its maker's `mkdir` and its owner file.
* **ConnectionGateway.** `setup` walks through `openEndpoint`, `scope` is the stack
  of registered cleanups, `sock[s]` a socket with its entry in `#connections` and
  its channel, `close` is `#closePromise`.
* **EndpointIntents.** `stored` is Local State; `intents` and `rt` the table and the
  runtime objects (a removed object may still be referenced by a handler); `real`
  the realizations, each with the session it may open; `act` the handlers with what
  they keep across an `await`. Callbacks of promises that have settled run before
  the next I/O event (operator `Quiet`), several of them in any order.
* **DaemonSessions.** `setup` and `tunnel` are the setups and what they opened,
  `tab` is the daemon's table (states, keys, the bounded list of failures), `act`
  the handlers; `tab.dropped` is history: failures the bound made it forget.
* **DaemonLifecycle.** `dm[d]` is a daemon process (where it is, whether it
  drains the instance, its one connection to it), `cl[c]` a client, `file` the
  descriptor, `managed` and `lifecycle` the two locks. `robbed` is history: a stopping
  daemon has removed the descriptor of its successor.
* **Instances.** `remote` and `flight` are the provider's resources and the requests that may still take effect
  (external). `bound`, `managed` and `pending` are Local State: the id of each resource (never used twice), and
  what EasyServer may destroy. A refresher takes `lock`, reads a list of some moment of its call, and reconciles; a command
  creates, times out, is retried, and records; a worker takes the next id of `bulk`, destroys it, and
  waits for it to be gone. Each call to a provider ends, is aborted or times out before or
  after its dispatch was marked (`sent`). `made` is history; `reports` and `out` are what callers are told.
* **Plugins.** `primary` and `recovery` are the configurations in the two files, `keyring` the secrets
  that exist. An administrator (`pc`, `snap`) reads, validates by loading, and updates if nothing has changed, or
  starts again; a credential is created before the update and the old one deleted after it. The
  daemon's opener (`call`, `want`, `used`) compares the configuration, joins or begins a `build`, and compares again. A round's
  variables are forgotten when it ends.
  `torn` (updates of which only the primary file was written), `ignored` and `seen` are history.
* **SshAccess.** `server` are the keys the host offers, which may change at any time, `known` its keys in `known_hosts`;
  `root`, `dir`, `owner` and `mark` the files of key material, named after the process that made them. A process scans the
  host, asks, scans again, enrolls under `lock`; sweeps what others abandoned, claims an owner file, makes its directory, writes its
  key, opens its channel (`child`), and closes its `scope` item by item; a marker or a removal that fails ends it (`"failed"`). A key type's rank stands for the type. `confirmed`,
  `asserted`, `robbed` and `stale` are history.
* **ProviderFlows.** `flow`, `shown`, `busy` and `phase` are the terminal's references to a flow and to the call that is
  under way, `ui` the surface (draft, picker, focus), `op` what the operation area shows, `at` the screen the provider is at
  (external), `held` the admissions, `cli` a command run from the command line. A provider's answer is any raw screen, well
  formed or not, late or never. Status loads (`loading`) overlap with the flow. `consents`, `runs` and `overlapped` are history.
* **Tui.** `pc[j]` is where one call of a handler waits, `screen` what is on the screen and whose it is,
  `pending` the questions that wait for a user, by place, `rec` and `conn` a foreground connection's record and session.
  The table `Handlers` gives each kind of job its shape; all jobs share the actions.

Abstractions that a reader should know of:

* The lease in `StateStore` may be lost at any `await` up to `assertOwned`; after it
  the two renames are taken to finish within `staleAfterMs`. A read error other than
  ENOENT is left out. `JsonStateStore.write` has no caller and is left out.
* `StateStore` takes a fresh lease to be exclusive. `FilesystemLock` shows this
  except for the race of the run `FilesystemLockOwners`: after it, two updates
  may run at once, and the store's guarantees are void.
* `close()` of a session settles once and is memoised, as in the gateway. The
  gateway's last look at its errors and the callback that records success, one
  microtask later, are one step.
* In `DaemonLifecycle` a daemon that serves answers a ping in time, an
  instance has at most one connection per daemon, enabling is one step, and the
  destroy guard's leases are never lost.
* `Instances` has one provider. Adoption and inspection are single steps. A provider marks a
  mutation as dispatched and sends it in one go unless it was aborted before (a contract the
  code states and cannot check). What a refresh shows on the screen is left out.
* `Plugins` reduces a plugin to whether it can be loaded with the others; a plugin that is
  configured and fails to load while another one is validated is left out of the comparison by the code too,
  and the history variable `ignored` records that it was.
* `SshAccess` has one connection and one channel per process and one host; ssh's own check of the
  host's key against `known_hosts` is external.
* `ProviderFlows` reduces a draft's text to blank, good or bad; an effect of the interface
  happens with the render it follows. The terminal and the command line are two processes with nothing in
  common, of which a behaviour follows one.
* `Tui` takes a session whose `close()` failed as down, and its record as failed, as the code's record says. It leaves out navigation inside a list, the cursor, diagnostics and appearance. Handlers of the same
  shape are represented by one of them. An open that is in flight at the exit is not followed.

## The runs

Counts are distinct states; times are with two workers.

| Run | Instance | States | Properties |
|---|---|---|---|
| `StateStore` | three updates, one reader, one destroyed file | 652,835, 10 s | `NoLostUpdate`: no update overwrites another. `AcknowledgedSurvivesOneLoss`. `ReadersSeeCommitted`. `UpdatesAreAtomic`: the two-file protocol refines `AtomicState` while nothing is destroyed |
| `FilesystemLock` | three processes, two may die, one may stall | 342,822, 100 s | `FreshOwnerKeepsFile`. `OneOwnerUnlessRobbed`. `NobodyBlocksTheLock` (liveness) |
| `ConnectionGateway` | three clients, two adapter cleanups | 237,457, 30 s | `ChannelsAreClosed` exactly once. `ReleasesAreSound`: a setup that threw leaves nothing, and releases are in order. `FailureIsReported`. `CloseSettles` (liveness) |
| `EndpointIntents` | one name, three calls, one drain, four realizations | 1,137,693, 65 s | `ServesTheDefined`: what is live serves its definition, and a restart serves the same. `NoTunnelIsLost`: no session without an owner, superseded setups are aborted, failed clean-ups kept. `EndedStaysClosed`: drains and shutdown |
| `EndpointIntentsLive` | one name, two calls, one drain, a store that may throw | 250,018, 120 s | `CallersAreAnswered`, `ShutdownEnds` (liveness) |
| `DaemonSessions` | three setups, two instances, one key, two closings, one drain, one retained failure | 1,556,804, 65 s | `OneSessionPerKey`. `FailuresAreTold`: true status, and failures kept unless the bound dropped them. `NothingStaysOpen` after a drain or the shutdown |
| `DaemonLifecycle` | two daemons, a starter, a stopper, a destroyer; one daemon and the destroyer may die, releases may fail | 6,408,788, 105 s | `OneDaemonUnlessRobbed`. `DestroyHoldsNoTunnel`: no serving daemon is connected to an instance being destroyed. `DrainIsReleased`, unless the destroyer died, was never told its token, or has warned that the release failed |
| `Instances` | two resources, a refresher, a command with two tries, a bulk worker, one fault | 2,917,445, 64 s | `StableIdentity`. `ReportsAreTrue`: what a command hands over is kept, what is called absent is gone. `RetryCreatesOnce`. `AcquiredStaysManaged` (action property) |
| `Plugins` | two plugins in conflict, two references, three of two administrators and two openings, two faults | 1,774,656, 140 s | `EnabledLoadTogether`. `SecretsMatchReferences`. `OpenedWithCurrent`: with a configuration in force since the call got its runtime. `CallsEnd` (liveness) |
| `SshAccess` | two processes, two keys of the host, two faults | 1,255,896, 20 s | `KeysAreRemoved`: a closing that succeeds leaves no key, and every key is found after its process. `LiveMaterialIsKept`. `KnownAreConfirmed`. `OneKeyPerHost` unless a lock was lost |
| `ProviderFlows` | three flows, ten raw screens of which three are malformed, three raw features | 222,356, 28 s | `EventFitsScreen`. `SessionsAreSound`: one call at a time, risky runs confirmed, admissions released. `CallsAreAnswered` (liveness) |
| `Tui` | three of fourteen jobs in every combination | 1,204,160, 105 s | `ScreenLeadsOn`: a question stays in view, no screen without a way on. `LiveIsListed`. `NewestWins` (action property) |

Deadlock is not checked, because every instance is finite: calls happen once, and
a system in which all have ended stops.

**Bounds.** Every bound is a constant. Each call happens once, so the number of calls
bounds a run; the interesting interleavings need few of them. A reclaim race in the lock needs an old
owner, a reclaimer and a newcomer: three processes. `Reclaims` gives a process as
many names as there are others that could remember one; a choice beyond it is disabled, and `Fresh` says why that
never happens. A superseded realization needs an older and a newer call, and a third
to disable or remove. `MaxLife` and `Real` bound the runtime objects of a name and the
realizations: `FreshLives` and `FreshReals` are empty when they are used up, and a start is disabled
then. They are large enough for the calls of the instance that it never happens there. One retained failure with three sessions makes evictions happen. Two daemons are one
that stops or dies and its successor; a third would be a successor again. Three clients give a channel
that is open, one that is opening and one that has left at the moment of a close. One destroyed
file is what the recovery file is for. One resource that a refresh sees too early and one that it sees too
late need two; a retry needs two tries. Two plugins and two administrators are the smallest conflict, and two
faults the smallest number after which the two files may disagree about more than one update. Two openings let one join the build that
the other began for an older configuration, take up its result first or second, or share its failure; for that one administrator
is enough, who changes the configuration during the build, and one opening is enough beside two administrators, so that `MaxCalls` lets any three
of the four take place. Two
processes and two keys give an enrollment that races another one and a host that changes. Three jobs of the
interface give one that began before, one whose end is the subject, and one that takes the screen in between.
Three flows let a flow be left while it opens, opened again, and answered by the first.

**Fairness.** Safety is checked without any. `FilesystemLock`: processes that have not died go
on, and time passes (a file nobody touches becomes old); a stalled process resumes.
`EndpointIntents`: the event loop runs what is ready, `HostOperationRunner` bounds
each `openEndpoint` (60 s), and closings end; nothing is assumed of clients, neither that
they call nor that they release a drain. `ConnectionGateway`: setup is bounded as
above, cleanups end, closed sockets are noticed; nothing is assumed of channels that are being
opened, which is the point of `CloseSettles`. `Plugins`: the daemon's event loop goes on with a call that has
begun; nothing is assumed of administrators. `ProviderFlows`: a call's deadline passes, and nothing is assumed of
the provider or of the user.

**When Local State cannot be written.** `update` may throw although the primary file
was written. With `StoreMayFail`, the safety properties `NoOrphanedSession`,
`DrainedHoldsBack`, `RestartServesTheSame` and `FailedCleanupIsKept` of `EndpointIntents` do not hold: the
handler stops between its steps. The code makes no promise here, so the safety
runs set it to `FALSE`, and the liveness run to `TRUE`.

## Observed behaviours

Six definitions state what one might expect of the code and what it does not do. No run
lists them; adding one to the `INVARIANTS` (`ClosingRetries`, `ConfirmedWasShown`: `PROPERTIES`) of the
named configuration makes TLC print a behaviour.

| Definition | Configuration | What happens |
|---|---|---|
| `OneOwner` | `FilesystemLock` | `observeLockPath` takes the age of the directory and its entries with two calls. Between them the generation may change, and the newcomer's still empty directory is removed: two owners. It takes three processes and neither a crash nor a stall. `OneOwnerUnlessRobbed`, which is proved, says that this is the only way |
| `DrainedMeansClosed` | `EndpointIntents` | `remove` takes the runtime object out of the table before its tunnel is closed; a drain that begins then sees no connection |
| `DisabledMeansClosed` | `EndpointIntents` with `Overlap = TRUE` | two overlapping calls on one name start two realizations; the second replaces the session of the first, which survives the disabling |
| `ClosingRetries` | `DaemonSessions` | closing a failed session again repeats its first result, where the documentation speaks of a retry |
| `ClosedBeforeDestroy` | `DaemonLifecycle` | a daemon that stops closes its HTTP server first and its sessions last. One that is started meanwhile takes it for dead and removes its descriptor, and a destroy no longer knows of its sessions (compare `docs/background-connections.md`) |
| `ConfirmedWasShown` | `Tui` | a second job asks its question while the first one's is on the screen; the key that confirms what is shown answers the newer question (`tui.tsx:3997`) |

Others were met while modelling. Some are named by the property that would otherwise fail, some lie
outside of what the properties claim.

* *Daemon.* A stopping daemon reads and removes its descriptor in two steps and may
  remove its successor's (`robbed`). If the answer to the beginning of a drain is lost, nobody has
  the token; if the release fails, its client goes on with a warning (`instance-operations.ts:318`). In both cases, and when the
  client dies, the instance stays drained until the daemon restarts (`DrainIsReleased` names the three).
* *Instances.* A process that dies between the creation of a resource and its record
  (`provider-command-runner.ts:131`) leaves a resource that nobody is told of, until a refresh finds
  it, unmanaged. The destructions of a bulk run take turns at `managed.lock` and may exceed its 35 s.
* *Plugins.* The clean-up of a replaced secret asks only the primary file who still refers to it
  (`plugin-credentials.ts:142`). After two updates that each wrote only that file, the recovery file may refer to
  a deleted secret. Two administrators cannot get there with the faults of the run; three with three faults can. The proof
  found it, and the property excludes it (`torn`).
* *SSH.* `removeEmptyRoot` of one process between `ensureRoot` and `writeOwner` of another makes the latter
  fail (`ssh-credential-material.ts:209`, `91`). An abandoned directory that cannot be removed makes every later
  creation fail, because the rejected initialization is kept (`79`, `188`). If the marker cannot be written (`182`), nothing is removed: the
  key of a closed connection stays on the disk with its owner file, unmarked, until its process has ended and another one sweeps; the
  closing reports the failure (`KeysAreRemoved` claims a removal only of closings that succeed). A creation that is aborted leaves an empty directory
  until its process ends. Half a line in `known_hosts` makes every later read fail (`ssh-access-adapter.ts:196`).
* *Provider flows.* `EventFitsScreen` names two exceptions: a picker left open by a multiple choice ignores that the
  next screen disables its field, even where that field has become a single choice (`tui-provider-interactive.tsx:194`; the run did
  not have such a screen, the proof asked for it), and a key pressed while a flow opens leaves
  the surface usable during a dispatch (`overlapped`; `tui.tsx:2796`, `4293`). Esc or `?` while the flow
  opens leaves no surface that listens to keys (`away`; `tui.tsx:1303`, `1977`). The end of a status load may
  replace a flow's question, which then waits for ever (`tui.tsx:2796`). A session that is opened after the abort
  is never closed (`provider-feature-operations.ts:175`).
* *Terminal interface.* "Retry connection" after a retry from the menu only refreshes (`tui.tsx:4150`). An open in
  flight when the interface exits leaves a tunnel nobody lists (`tui-foreground-connections.ts:200`). Ctrl-C in
  a provider's flow exits at once, and connections are closed only when the interface unmounts (`tui-provider-interactive.tsx:150`,
  `tui.tsx:2826`). The access methods of one flow may be applied to another (`tui.tsx:1614`).

## What is proved

TLAPS checks 41 theorems in eight modules, for every value of the constants.

* `StorageProofs`: of the store `StoreTypeCorrect`, `NoUpdateIsLost`, `RecoveryBehind`, `LockFreeReads`, `AcknowledgedSurvives`,
  `AtomicUntilDamaged` and its corollary `Refinement`; of the lock `TypeCorrect`, `FreshOwnerIsSafe`, `MutualExclusion`.
  Assumptions: `StoreAssumption` (the empty holder is no update, `MaxDamage` is a number) and
  `LockAssumption` (finitely many processes, distinct names).
* `EndpointIntentsProofs`: `TypeCorrect`, `ServesDefinitions`, `TunnelsAreKept`, `EndedIsClosed`. Assumption:
  `IntentsAssumption` (a request is no drain; enough realizations for the calls). `ServesDefinitions` and the two after it
  have the hypothesis `~StoreMayFail`, the last two also `~Overlap`; see below.
* `ConnectionGatewayProofs`: `TypeCorrect`, `ChannelsClosedOnce`, `FailuresAreReported`, `ReleasesInOrder`.
  Assumption: `GatewayAssumption` (the adapter's cleanups are not the gateway's own).
* `DaemonSessionsProofs`: `KeyHasOneSession`, `NoFailureIsHidden`, `DrainAndShutdownLeaveNothing`. Assumption:
  `SessionsAssumption` (at least one failure is retained; `None` is no session and no key; nobody closes and drains).
* `ProcessProofs`: of the daemon `OneDaemonServes`, `NoTunnelWhenDestroyed`, `DrainsAreReleased`; of the terminal interface
  `TuiTypeCorrect`, `ScreensLeadOn`, `LiveOnesAreListed`, `TheNewestLoadWins`. Assumptions: `LifecycleAssumption` (the sets of
  processes are disjoint) and `TuiAssumption` (every job has a kind, `NoOne` is no job, `MaxStarts` is a number).
* `ProviderProofs`: of the instances `IdentityIsStable`, `ManagementIsKept`, `ReportsAreRight`, `RetriesCreateOnce`; of the flows
  `SessionsStaySound`, `EventsFitTheScreen`. Assumptions: `InstancesAssumption` (finitely many resources, disjoint sets of
  processes) and `ProviderFlowsAssumption` (the number of flows is a natural number). Nothing is assumed of what a
  provider contributes or answers.
* `PluginsProofs`: `NoConflicts`, `NoSecretIsLost`, `RuntimesAreCurrent`. Assumption: `PluginsAssumption` (conflict
  is symmetric and irreflexive).
* `SshAccessProofs`: `TrustIsConfirmed`, `HostsHaveOneKey`, `MaterialIsKept`, `NoKeyStays`. Assumption: `SshAssumption`
  (keys have ranks; nobody is `None`).

**The store.** `NoLostUpdate` alone is not inductive: nothing in it says that what a holder
has read is still current when it writes. `StoreIInv` adds `HolderInv` (who writes holds the
lease; what it has in its hands contains the recovery file) and, as long as no file was
destroyed, `UndamagedFiles`, `UndamagedHolder` and `UndamagedReaders`: the primary file is the committed state, the
lease holder has read exactly that, a reader has seen a part of it. `FilesInv` and `HolderInv` survive damage, which is
why `RecoveryBehind` holds without a condition. The refinement follows: only `RenamePrimary`
applies an update, and what it writes is the current value plus the update. For the acknowledged updates, `AckedInv` says
that such an update is in every file that can be read and in what the holder of the lease will write, and `OutcomeInv` that
both files are readable before the first loss and one of them after it.

**The lock.** Mutual exclusion needs to know what a reclaimer has in its hands. `Condemned`: who is
about to delete a file has seen it old under a name nobody else may take, so it is still old.
`GoneWasOld`: a holder whose file is gone had let it become old. `WriterAlone` and `OneGeneration`: while no
directory was robbed, who is about to write its owner file finds its own empty directory, and only one
generation has a file.

**The gateway.** `ChannelInv` says who knows a channel: `#openConnection` before it
opens, `#connections` while it is open, `#pendingCleanups` afterwards, and that `#connections` is
empty once a close has begun. `FailureInv` follows a failure from where it happens to `#lifecycleErrors`; `ScopeInv`
says that a scope that is done fails nothing more. For the order of releases the scope is a stack: `Rank` orders
what may be registered (listener, server with its clients, transport, what the adapter registered, admission), `Stack` says that the
scope is ordered by rank and `Order` that nothing that was taken off belongs below what is still there.

**Saved connections.** The service keeps references to objects that its table has dropped, and a step may touch the table, an object,
several realizations and a handler at once. `Kinds` therefore sorts the steps by their effect: `Forgets` a session, `Registers` one,
`Starts` a realization, `Disables` an object for somebody who `Awaits` it, `Removes` it, `Closes` or `Ends` sessions; each part of the invariant is proved once
for each kind. `Base`: a definition has its object, an object in the table its current realization, and no two realizations of an object the
same generation. `ServesTheDefined` follows. `Held`: whoever takes a session from its object holds it until it is closed or
recorded (`SessionsOf`, `Handlers`), and an object has one realization that nobody has aborted (`OneStarting`). `Lost` adds that every open
session is found from its object or from the handler that holds it, whence `NoTunnelIsLost`. `Drained` follows a drain: once it is
granted nobody starts anything for its instance (`Barred`, by `StartedBy` and `Alone`, which say who may start an object), a
realization of the instance is linked to its object or awaited by a call (`LinkedOrAwaited`, `RemovalWaits`), and what the drain has
visited has neither session nor realization (`DrainLinked`, `DrainedClosed`).

The hypotheses. Where `update` may throw (`StoreMayFail`), a handler stops between its steps and the properties fail, as described
under "The runs". Where two calls of one name overlap (`Overlap`), two realizations may open a tunnel each for one
object, and `NoTunnelIsLost` fails (`DisabledMeansClosed` above names the same behaviour); types and `ServesTheDefined` do not need it. The proof
of `EndedStaysClosed` showed that it was false with two drains at once, which the run with one could not show: an enable
that finds its instance drained disables its own realization again, and if that first drain is released meanwhile, a second one
waits neither for it nor for its tunnel (`local-daemon.ts` tracks the call only while it enables), although
`docs/background-connections.md:178` has connections closed "before dispatching the remote destroy". `DrainedHoldsBack` now names this
case, `Overtaken`. TLC finds the behaviour, and nothing else, with two drains.

**Sessions.** The lemma `Steps` sorts the steps by what they change; the invariant is then proved for each kind. `Keys`
follows an idempotency key from the request to the setup in flight and from there to the session. `Told` ties what the
table says of a session to its tunnel while the table is kept: what is open is live, what is closing has a handler that
waits for it, what has failed is listed, a pending cleanup, given up, or about to be entered. So a drain that
finds nothing listed has left nothing (`VerdictIsTrue`), and later it stays so, since a drained instance gets no new
setup (`Draining`). `Shutdown` says the same of the whole daemon once the table has been closed.

**Daemons.** `Locks`: who starts a daemon or guards a destruction holds `lifecycle.lock`, place by place. `Descriptor`: unless a
descriptor was robbed, who serves is named by the file, and a starting daemon past its ping knows that nobody
serves. `Guards`: what a destroyer knows of all daemons as long as it holds the lock (that they drain, that none is
connecting, that the saved connection is disabled, at last that none is connected). A drain is followed from the
daemon to the token of its destroyer, or to one of the three ways in which it is left behind, by `DrainIsReleased` itself.

**Instances.** `Ids`: a resource has no id before a list has shown it, and one as long as it lives. `Snapshots`: a list in the hands
of a refresh names nothing unborn and, while its lock is held, every living resource that is bound, so that reconciling it
removes nobody. `Creations`: a request to create a resource is the only one for it. `Targets` and `Commands` connect
what the bulk action has seen and what a command reports with these.

**Plugins.** `Loads`: both files, and what an administrator has validated and not yet saved, are free of conflicts. `Secrets`:
every reference was given to one administrator and is used once (`Given`); what an administrator is about to delete is
referred to by neither file, unless more than one update was torn (`Held`). `Fitting`: a runtime that is about to be used
was ready at a moment since which every configuration in force has been noted.

**SSH.** `Trust`: who is about to enroll a key has a confirmed one in its hands, and who is about to append it, under a lock that was not
lost, found no other key there. `Files`: what a process has made so far (`Mine`), what its scope has removed and leaves, where it succeeds and where it fails (`Closing`), and
that a sweeper has only abandoned entries in its hands, and each of them still before it, being removed, or removed (`Sweeper`).

**The terminal interface.** The steps are sorted by what they do to one job (`JobEffect`) or what a key, a session or the exit does
(`KeyEffect`). `TuiQuiet`: what a job does after the load it waits for is an end its table lists. `Waits`: whose question has a place
asks it there. `Alive`: a screen that says "working" is replaced by a job that is under way, and a question on the screen has its place.
`Alone`: while a question is all there is, nothing else is in progress, and it is on the screen; `Retried`: the removal that is offered
again is over, so that it cannot come back under it. `Newest`: the load that may show itself is the one that began last. `Connected`
follows a connection from its record to its session and to the set that the exit closes. The proof of the types found two
overlapping arms in `Ends`: by one reading, a bulk run that was refused after its cancellation could end as if it had run. The arms now
exclude each other, as the two ends of `mutateBulkInstances` do.

**Provider flows.** `Admitted` says, for every place of the one call of the interface, whose admission is held and that it is nobody
given up on; `Fresh` who has neither run nor been agreed to: sessions not yet opened, the one that is being opened, the one on the screen
until its command runs. `RunsAreConfirmed` follows, because a run is the first of its session and the arguments agreed to are those
the provider answered with. For `EventFitsScreen` the invariant `Fits` keeps the screen well formed and the provider at the screen
that is shown, a draft a draft of one of its fields, and says that nothing but an end that was noted (`overlapped`) uncovers the
surface during an event; what the contract of the SDK says of a table (`TableOk`) is why the rows that are sent are rows of it.

**Only model-checked.** All liveness (the prover does not treat fairness or ENABLED): `NobodyBlocksTheLock`, `CloseSettles`,
`CallersAreAnswered`, `ShutdownEnds`, `CallsEnd`, `CallsAreAnswered`. Every safety property of the runs is a theorem. No module
uses RECURSIVE operators, and nothing here is an induction over data.

## Not modelled, and the plan

* *Crash between creation and record* (`provider-command-runner.ts:131`). The code has no journal of what it is about to
  create, so no property of the kind "what was created is known" can hold; `AcquiredStaysManaged` begins with the record.
* *A daemon that is suspended for longer than a ping* and *leases lost during a destruction*. `DaemonLifecycle` takes pings to be
  answered and leases to hold; `FilesystemLock` and `StateStore` show what a lost lease does.
* *An open in flight at the exit of the terminal interface*, and its diagnostics, appearance, navigation and cursor.
* *Command line*: parsing, output, help, diagnostics. Commands other than "daemon run" and provider flows make one call of a component
  that is modelled. *Requests to the daemon*: parsing and authentication.
* *Plugin discovery* (a search for files) and *the SDK's* types and stateless validators beyond interactive screens, features and command
  outcomes: no state whose order matters.
* `JsonStateStore.write`, which has no caller, and `parseState`, of which only "valid or not" is kept.

What is left to do: the safety of `EndpointIntents` where calls overlap or the store throws, in the weaker form that still holds; a composition of the terminal interface's connections with the daemon's.
