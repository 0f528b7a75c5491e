--------------------------------- MODULE Tui ---------------------------------
(***************************************************************************)
(* The controller of the terminal interface (TuiApp in tui.tsx, the keys   *)
(* of TuiShell, tui-operation-model.ts, tui-foreground-connections.ts):    *)
(* asynchronous handlers that share one operation screen, one place for    *)
(* each kind of question, one controller of status loads, and the          *)
(* connections that end with the interface.                                *)
(*                                                                         *)
(* A job is one call of a handler.  Its screens are told apart by the job, *)
(* the phase and the actions they offer; the answers of hosts, daemon and  *)
(* user are arbitrary.  React runs a handler's statements between two      *)
(* awaits in one go, and the effect that reports failed connections before *)
(* the next key.                                                           *)
(***************************************************************************)
EXTENDS Naturals, FiniteSets

CONSTANTS
  Job,       \* calls of handlers
  Kind,      \* the handler of each
  MaxStarts, \* how many are started
  NoOne      \* no job

\* A screen or an end that offers to dismiss it, an end that blanks the screen or
\* leaves what is there; load says how the status is read again before.
End(load, phase, acts) == [load |-> load, phase |-> phase, acts |-> acts, owns |-> FALSE]
Completed(load) == End(load, "done", {"dismiss"})
Failed(load, acts) == End(load, "failed", acts \cup {"dismiss"})
Blanked(load) == End(load, "none", {})
Left(load) == End(load, "leave", {})
InViewport(e) == [e EXCEPT !.owns = TRUE]

\* A mutation's error: it may be safe to retry, or its outcome is unknown.
MutationErrors ==
  {Failed("no", {}), Failed("no", {"retry"}), Failed("no", {"observe"})}

(***************************************************************************)
(* The handlers: the first screen, the place of the question they ask, and *)
(* how they end when the work succeeds or fails                            *)
(***************************************************************************)
Handler(begin, slot, ok, fail) ==
  [begin |-> begin, slot |-> slot, ok |-> ok, fail |-> fail]

ListMethods == Handler("working", "none", {Blanked("no")}, {Failed("no", {"diagnostics"})})

Open ==
  Handler("working", "trust", {Blanked("no")},
          {Failed("no", acts) : acts \in {{"edit"}, {"retry", "diagnostics"}, {"diagnostics"}}})

Retry ==
  Handler("working", "trust", {Blanked("no")},
          {InViewport(Failed("no", acts)) :
             acts \in {{"edit"}, {"edit", "retry", "diagnostics"}, {"retry", "diagnostics"}, {"diagnostics"}}})

Close == Handler("working", "none", {Completed("no")}, {Failed("no", {})})

StartDaemon == Handler("working", "none", {Completed("loud")}, {Failed("no", {})})

\* An impact of nothing ends without a question.
StopDaemon ==
  Handler("none", "stop", {Completed("loud")}, {Failed("loud", {}), Failed("no", {})})

CreateSession == Handler("working", "trust", {Blanked("loud")}, {Failed("loud", {})})

CloseSession == Handler("working", "none", {Blanked("loud")}, {Failed("loud", {})})

SetIntentEnabled == Handler("working", "none", {Completed("loud")}, {Failed("quiet", {})})

RetryIntent == Handler("working", "none", {Completed("loud")}, {Failed("quiet", {})})

ReviewHostTrust ==
  Handler("prompt", "trust", {Completed("loud")},
          {InViewport(Failed("quiet", {"diagnostics"}))})

\* An intent that is not found counts as removed.
RemoveIntent ==
  Handler("prompt", "removal", {Completed("loud"), Completed("quiet")},
          {Failed("quiet", {"retry"})})

MutateInstance == Handler("working", "confirm", {Completed("loud")}, MutationErrors)

\* Outcomes may be unknown although the call succeeds; a bulk action that was
\* cancelled does not load.
MutateBulk ==
  Handler("cancellable", "confirm",
          {Completed("quiet"), Failed("quiet", {}), Failed("quiet", {"observe"})},
          MutationErrors)

MutateProvider == Handler("working", "none", {Left("loud")}, MutationErrors)

RemoveCredential == Handler("prompt", "provider", {Left("loud")}, MutationErrors)

OpenFlow == Handler("working", "none", {Blanked("no")}, {Failed("no", {"retry"}), Failed("no", {})})

DispatchFlow ==
  Handler("working", "flow", {Completed("loud"), Failed("loud", {"observe"})}, MutationErrors)

Refresh == Handler("load", "none", {Left("loud")}, {})

Handlers ==
  [refresh |-> Refresh, methods |-> ListMethods, open |-> Open, retry |-> Retry,
   close |-> Close, startDaemon |-> StartDaemon, stop |-> StopDaemon,
   create |-> CreateSession, closeSession |-> CloseSession,
   setEnabled |-> SetIntentEnabled, retryIntent |-> RetryIntent,
   review |-> ReviewHostTrust, removal |-> RemoveIntent, mutate |-> MutateInstance,
   bulk |-> MutateBulk, provider |-> MutateProvider, credential |-> RemoveCredential,
   flow |-> DispatchFlow]

ASSUME TuiAssumption ==
  Kind \in [Job -> DOMAIN Handlers] /\ MaxStarts \in Nat /\ NoOne \notin Job

H(j) == Handlers[Kind[j]]
Of(kinds) == {j \in Job : Kind[j] \in kinds}
Opener == Of({"open", "retry"})     \* each is a record if it succeeds
Wizard == Of({"methods", "open", "create"})
Slot == {"trust", "stop", "removal", "confirm", "flow", "provider"}

\* canStartInstanceMutation, and what is unavailable while an operation works.
NeedsBlank == Of({"mutate", "bulk", "provider", "credential", "setEnabled", "retryIntent", "review", "removal"})
Busies ==
  Of({"methods", "open", "create", "retry", "close", "closeSession", "startDaemon", "stop",
      "setEnabled", "retryIntent"})

VARIABLES
  screen,       \* operation: whose, its phase and actions, ownsViewport
  pending,      \* pendingHostTrustConfirmation, ... : whose question waits in each place
  removalRetry, \* pendingEndpointIntentRemovalRetry
  recovery,     \* foregroundConnectionRecoveryId
  wizard,       \* foregroundConnectionFlow: the job of its last step
  busy,         \* foregroundConnectionBusy
  ctl,          \* controllerRef
  bulkCtl,      \* bulkMutationControllerRef
  cancelled,    \* the bulk actions whose controller was aborted
  loads, seq,   \* status loads begun, the number of each one under way (history)
  snap,         \* the number of the load that is shown
  pc, after,    \* progress of a job; how it ends after its load
  rec, conn,    \* the record of a connection, its session (external)
  target,       \* the record a retry or a closing is for
  reported,     \* reportedForegroundFailuresRef
  quit,         \* closing the connections to exit, and which
  starts,
  alone,        \* questions that came up while nothing else was in progress (history)
  late          \* connections that were opened while closeAll waited (history)

work  == <<pc, after, starts, alone>>
load  == <<ctl, loads, seq, snap>>
shell == <<wizard, busy>>
conns == <<rec, conn, target, reported, late>>
tuiVars  == <<screen, pending, removalRetry, recovery, shell, bulkCtl, cancelled, load, work, conns, quit>>

Blank == [by |-> NoOne, phase |-> "none", acts |-> {}, owns |-> FALSE]
Working(j, acts) == [by |-> j, phase |-> "working", acts |-> acts, owns |-> FALSE]

\* A question of j takes the whole viewport.
Prompt(j) ==
  [by |-> j, phase |-> "ask", owns |-> TRUE,
   acts |-> {IF H(j).slot = "trust" THEN "trust" ELSE "confirm", "decline"}]

\* What is on the screen after an end, and after screen s.
Shown(j, e, s) ==
  CASE e.phase = "leave" -> s
    [] e.phase = "none" -> Blank
    [] OTHER -> [by |-> j, phase |-> e.phase, acts |-> e.acts, owns |-> e.owns]

Running == {"opening", "run", "asked", "go", "refused", "load"}
InProgress == {j \in Job : pc[j] \in Running}

ReportDue == screen.phase = "none" /\ \E o \in Opener : rec[o] = "failed" /\ o \notin reported
UserActs == quit.pc # "exited" /\ ~ReportDue

\* The keys of the menus pass a screen without actions; the others pass every
\* screen that does not own the viewport.  A provider's flow and the wizard take
\* the keys of the shell.
FlowShown == \E j \in Of({"flow"}) : pc[j] \in {"shown", "run", "asked", "go", "refused"}
ShellKey == UserActs /\ ~screen.owns /\ wizard = NoOne /\ ~FlowShown
Menu == ShellKey /\ screen.acts = {}
WizardKey == UserActs /\ wizard # NoOne /\ ~busy /\ ~FlowShown /\ screen.acts = {} /\ ~screen.owns

TuiInit ==
  /\ screen = Blank /\ pending = [s \in Slot |-> NoOne]
  /\ removalRetry = NoOne /\ recovery = NoOne
  /\ wizard = NoOne /\ busy = FALSE
  /\ ctl = NoOne /\ bulkCtl = NoOne /\ cancelled = {}
  /\ loads = 0 /\ seq = [j \in Job |-> 0] /\ snap = 0
  /\ pc = [j \in Job |-> "idle"] /\ after = [j \in Job |-> Left("no")]
  /\ rec = [o \in Opener |-> "none"] /\ conn = [o \in Opener |-> "none"]
  /\ target = [j \in Of({"retry", "close"}) |-> NoOne] /\ reported = {}
  /\ quit = [pc |-> "no", set |-> {}]
  /\ starts = 0 /\ alone = {} /\ late = {}

Goto(j, q) == pc' = [pc EXCEPT ![j] = q]

(***************************************************************************)
(* refresh: a newer load aborts the one before it                          *)
(***************************************************************************)
BeginLoad(j, e) ==
  /\ Goto(j, "load") /\ after' = [after EXCEPT ![j] = e]
  /\ removalRetry' = NoOne
  /\ ctl' = j /\ loads' = loads + 1 /\ seq' = [seq EXCEPT ![j] = loads + 1]
  /\ screen' = (IF e.load = "loud" THEN Working(j, {"cancel"}) ELSE screen)
  /\ UNCHANGED snap

\* A retry of the removal is offered after its load.
Offered(j, e) ==
  IF Kind[j] = "removal" /\ "retry" \in e.acts THEN j ELSE removalRetry

\* Mutant: only an abort is noticed, not that a newer load has taken over.
LoadEndsUnordered(j) ==
  /\ pc[j] = "load" /\ quit.pc # "exited"
  /\ \E ok \in BOOLEAN :
       LET e == after[j]
           current == ctl # NoOne
           read == IF ~current \/ e.load = "quiet" THEN screen
                   ELSE IF ok THEN Blank
                   ELSE [by |-> j, phase |-> "failed", acts |-> {"retry", "dismiss"}, owns |-> FALSE]
           kept == Kind[j] = "mutate" /\ ~(ok /\ current)
       IN /\ snap' = (IF ok /\ current THEN seq[j] ELSE snap)
          /\ screen' = (IF kept THEN read ELSE Shown(j, e, read))
          /\ removalRetry' = Offered(j, e)
  /\ Goto(j, "done") /\ busy' = (busy /\ j \notin Busies)
  /\ after' = [after EXCEPT ![j] = Left("no")] /\ seq' = [seq EXCEPT ![j] = 0]
  /\ UNCHANGED <<pending, recovery, wizard, bulkCtl, cancelled, ctl, loads, starts, alone, conns, quit>>

\* readLoader answers and the handler goes on.  A load that was superseded shows
\* nothing; an instance mutation whose load failed leaves what is there.
LoadEnds(j) ==
  /\ pc[j] = "load" /\ quit.pc # "exited"
  /\ \E ok \in BOOLEAN :
       LET e == after[j]
           current == ctl = j
           read == IF ~current \/ e.load = "quiet" THEN screen
                   ELSE IF ok THEN Blank
                   ELSE [by |-> j, phase |-> "failed", acts |-> {"retry", "dismiss"}, owns |-> FALSE]
           kept == Kind[j] = "mutate" /\ ~(ok /\ current)
       IN /\ snap' = (IF ok /\ current THEN seq[j] ELSE snap)
          /\ screen' = (IF kept THEN read ELSE Shown(j, e, read))
          /\ removalRetry' = Offered(j, e)
  /\ Goto(j, "done") /\ busy' = (busy /\ j \notin Busies)
  /\ after' = [after EXCEPT ![j] = Left("no")] /\ seq' = [seq EXCEPT ![j] = 0]
  /\ UNCHANGED <<pending, recovery, wizard, bulkCtl, cancelled, ctl, loads, starts, alone, conns, quit>>

(***************************************************************************)
(* Starting a job                                                          *)
(***************************************************************************)
\* The key r, or the first load of the interface.
RefreshKey == ShellKey

Asking(j) ==
  alone' = (IF InProgress \ {j} = {} /\ quit.pc = "no" THEN alone \cup {j} ELSE alone \ {j})

\* The handler's statements up to its first await.
Begin(j) ==
  /\ starts < MaxStarts /\ starts' = starts + 1
  /\ busy' = (IF j \in Busies THEN TRUE ELSE busy)
  /\ wizard' = (IF j \in Wizard THEN j ELSE wizard)
  /\ IF H(j).begin = "load"
     THEN BeginLoad(j, Left("loud")) /\ UNCHANGED <<pending, bulkCtl, cancelled, alone>>
     ELSE /\ UNCHANGED <<load, after>>
          /\ Goto(j, IF H(j).begin = "prompt" THEN "asked"
                     ELSE IF Kind[j] = "flow" THEN "opening" ELSE "run")
          /\ screen' = (CASE H(j).begin = "working" -> Working(j, {})
                          [] H(j).begin = "cancellable" -> Working(j, {"cancel"})
                          [] H(j).begin = "prompt" -> Prompt(j)
                          [] H(j).begin = "none" -> screen)
          /\ pending' = (IF H(j).begin = "prompt" THEN [pending EXCEPT ![H(j).slot] = j] ELSE pending)
          /\ bulkCtl' = (IF Kind[j] = "bulk" THEN j ELSE bulkCtl)
          /\ cancelled' = (IF Kind[j] = "bulk" THEN cancelled \cup ({bulkCtl} \ {NoOne}) ELSE cancelled)
          /\ IF H(j).begin = "prompt" THEN Asking(j) ELSE UNCHANGED alone
          /\ removalRetry' = removalRetry

\* The context menus and the wizards.
Start(j) ==
  /\ pc[j] = "idle" /\ Kind[j] \notin {"retry", "close"}
  /\ \/ Kind[j] = "refresh" /\ RefreshKey
     \/ Kind[j] # "refresh" /\ Menu
     \/ Kind[j] \in {"open", "create"} /\ WizardKey
  /\ j \in NeedsBlank => screen.phase = "none"
  /\ Begin(j)
  /\ UNCHANGED <<recovery, conns, quit>>

\* A closing begins: a failed record is only removed.
CloseRecord(o) ==
  rec' = [rec EXCEPT ![o] = IF @ \in {"none", "failed"} THEN "none" ELSE "closing"]

StartClose(j, o) ==
  /\ Kind[j] = "close" /\ pc[j] = "idle" /\ Menu /\ rec[o] # "none"
  /\ target' = [target EXCEPT ![j] = o] /\ CloseRecord(o)
  /\ IF rec[o] = "failed"
     THEN /\ starts < MaxStarts /\ starts' = starts + 1 /\ Goto(j, "done") /\ busy' = FALSE
          /\ UNCHANGED <<screen, pending, removalRetry, wizard, bulkCtl, cancelled, load, after, alone>>
     ELSE Begin(j)
  /\ UNCHANGED <<recovery, conn, reported, late, quit>>

StartRetry(j, o) ==
  /\ Kind[j] = "retry" /\ pc[j] = "idle" /\ Menu /\ rec[o] = "failed"
  /\ target' = [target EXCEPT ![j] = o] /\ Begin(j)
  /\ UNCHANGED <<recovery, rec, conn, reported, late, quit>>

\* Escape closes the wizard, unless it is busy.
LeaveWizard ==
  /\ WizardKey /\ wizard' = NoOne
  /\ UNCHANGED <<screen, pending, removalRetry, recovery, busy, bulkCtl, cancelled, load, work, conns, quit>>

(***************************************************************************)
(* A job goes on                                                           *)
(***************************************************************************)
\* The confirm callbacks; an aborted bulk action is declined at once.
Ask(j) ==
  /\ pc[j] = "run" /\ H(j).slot # "none" /\ quit.pc # "exited"
  /\ IF j \in cancelled
     THEN Goto(j, "refused") /\ UNCHANGED <<pending, screen, alone>>
     ELSE /\ Goto(j, "asked") /\ Asking(j)
          /\ pending' = [pending EXCEPT ![H(j).slot] = j] /\ screen' = Prompt(j)
  /\ UNCHANGED <<removalRetry, recovery, shell, bulkCtl, cancelled, load, after, starts, conns, quit>>

\* The runner reports that it dispatches, or observes.
Progress(j) ==
  /\ Kind[j] \in {"mutate", "bulk"} /\ pc[j] \in {"run", "go"} /\ quit.pc # "exited"
  /\ screen' = Working(j, IF Kind[j] = "bulk" /\ j \notin cancelled THEN {"cancel"} ELSE {})
  /\ UNCHANGED <<pending, removalRetry, recovery, shell, bulkCtl, cancelled, load, work, conns, quit>>

\* What is forgotten when the work ends.
Cleared(j, ok) ==
  CASE Kind[j] \in {"open", "retry", "create"} -> {"trust"}
    [] Kind[j] \in {"mutate", "bulk"} /\ ~ok -> {"confirm"}
    [] Kind[j] = "flow" /\ ~ok -> {"flow"}
    [] OTHER -> {}

\* How the work of j may end now: a daemon without anything to close is not
\* stopped, only the status is read; a declined question ends in an error.
Ends(j, ok) ==
  CASE Kind[j] = "stop" /\ pc[j] = "run" -> IF ok THEN {Left("loud")} ELSE {Failed("no", {})}
    [] pc[j] = "opening" -> IF ok THEN {} ELSE OpenFlow.fail
    [] pc[j] = "refused" /\ ok -> {}
    [] pc[j] \in {"run", "go"} /\ j \in cancelled /\ ok -> {[e EXCEPT !.load = "no"] : e \in H(j).ok}
    [] OTHER -> IF ok THEN H(j).ok ELSE H(j).fail

\* The records and sessions after the work of j.
Records(j, ok) ==
  CASE Kind[j] \in {"open", "retry"} /\ ok ->
         /\ rec' = [o \in Opener |-> IF o = j THEN "live"
                                     ELSE IF Kind[j] = "retry" /\ o = target[j] THEN "none" ELSE rec[o]]
         /\ conn' = [conn EXCEPT ![j] = "up"]
    [] Kind[j] = "close" ->
         /\ rec' = [rec EXCEPT ![target[j]] = IF @ # "closing" THEN @ ELSE IF ok THEN "none" ELSE "failed"]
         /\ conn' = [conn EXCEPT ![target[j]] = "down"]
    [] OTHER -> UNCHANGED <<rec, conn>>

\* The work of a handler succeeds or fails: it shows the result, after a load of
\* the status if it wants one.
WorkEnds(j) ==
  /\ pc[j] \in {"opening", "run", "go", "refused"} /\ quit.pc # "exited"
  /\ \E ok \in BOOLEAN : \E e \in Ends(j, ok) :
       /\ pending' = [s \in Slot |-> IF s \in Cleared(j, ok) THEN NoOne ELSE pending[s]]
       /\ Records(j, ok)
       /\ recovery' = (IF Kind[j] = "retry" /\ ok THEN NoOne ELSE recovery)
       /\ wizard' = (IF Kind[j] \in {"open", "create"} /\ ok THEN NoOne ELSE wizard)
       /\ bulkCtl' = (IF bulkCtl = j THEN NoOne ELSE bulkCtl) /\ cancelled' = cancelled \ {j}
       /\ IF e.load # "no"
          THEN BeginLoad(j, e) /\ UNCHANGED busy
          ELSE /\ Goto(j, "done") /\ screen' = Shown(j, e, screen)
               /\ busy' = (busy /\ j \notin Busies)
               /\ UNCHANGED <<removalRetry, load, after>>
  /\ target' = [k \in DOMAIN target |-> IF k = j THEN NoOne ELSE target[k]]
  /\ UNCHANGED <<starts, alone, reported, late, quit>>

\* A provider's flow shows its next screen.
FlowScreen(j) ==
  /\ Kind[j] = "flow" /\ pc[j] \in {"opening", "run", "go"} /\ quit.pc # "exited"
  /\ Goto(j, "shown") /\ screen' = Blank
  /\ UNCHANGED <<pending, removalRetry, recovery, shell, bulkCtl, cancelled, load, after, starts, alone, conns, quit>>

\* The user acts on it, or closes it.
FlowEvent(j) ==
  /\ UserActs /\ Kind[j] = "flow" /\ pc[j] = "shown" /\ screen.phase = "none"
  /\ \/ Goto(j, "run") /\ screen' = Working(j, {}) /\ UNCHANGED pending
     \/ Goto(j, "done") /\ screen' = Blank /\ pending' = [pending EXCEPT !["flow"] = NoOne]
  /\ UNCHANGED <<removalRetry, recovery, shell, bulkCtl, cancelled, load, after, starts, alone, conns, quit>>

(***************************************************************************)
(* handleOperationAction: the user picks one of the screen's actions       *)
(***************************************************************************)
Offers(a) == UserActs /\ a \in screen.acts

\* The question that is answered: the first place that is taken.
Addressed(a) ==
  LET order == <<"trust", "stop", "removal", "confirm", "flow", "provider">>
      open(i) == pending[order[i]] # NoOne /\ (order[i] = "trust" => a # "confirm")
      places == IF a = "trust" THEN {1} ELSE 1..6
  IN {order[i] : i \in {k \in places : open(k) /\ \A n \in places : n < k => ~open(n)}}

Answer(a) ==
  /\ Offers(a) /\ a \in {"trust", "confirm", "decline"}
  /\ \E s \in Addressed(a) :
       LET j == pending[s] IN
       /\ pending' = [pending EXCEPT ![s] = NoOne]
       /\ IF a = "decline"
          THEN /\ screen' = Blank
               /\ Goto(j, IF Kind[j] \in {"review", "stop", "removal", "credential"} THEN "done" ELSE "refused")
               /\ busy' = (busy /\ Kind[j] # "stop")
          ELSE /\ screen' = Working(j, IF Kind[j] = "bulk" THEN {"cancel"} ELSE {})
               /\ Goto(j, "go") /\ UNCHANGED busy
       /\ alone' = alone \ {j}
       /\ removalRetry' = (IF s = "removal" /\ a = "confirm" THEN NoOne ELSE removalRetry)
  /\ UNCHANGED <<recovery, wizard, bulkCtl, cancelled, load, after, starts, conns, quit>>

\* Mutant: the screen stays when a load is cancelled.
CancelStays ==
  /\ Offers("cancel")
  /\ IF bulkCtl # NoOne
     THEN /\ cancelled' = cancelled \cup {bulkCtl} /\ screen' = Working(bulkCtl, {}) /\ UNCHANGED ctl
     ELSE ctl' = NoOne /\ UNCHANGED <<screen, cancelled>>
  /\ UNCHANGED <<pending, removalRetry, recovery, shell, bulkCtl, loads, seq, snap, work, conns, quit>>

\* A bulk action is cancelled before a load.
Cancel ==
  /\ Offers("cancel")
  /\ IF bulkCtl # NoOne
     THEN /\ cancelled' = cancelled \cup {bulkCtl} /\ screen' = Working(bulkCtl, {}) /\ UNCHANGED ctl
     ELSE ctl' = NoOne /\ screen' = Blank /\ UNCHANGED cancelled
  /\ UNCHANGED <<pending, removalRetry, recovery, shell, bulkCtl, loads, seq, snap, work, conns, quit>>

\* The removal is tried again.
RetryRemoval ==
  /\ Offers("retry") /\ removalRetry # NoOne /\ starts < MaxStarts
  /\ Goto(removalRetry, "go") /\ screen' = Working(removalRetry, {}) /\ removalRetry' = NoOne
  /\ starts' = starts + 1
  /\ UNCHANGED <<pending, recovery, shell, bulkCtl, cancelled, load, after, alone, conns, quit>>

\* "Retry connection" at the end of the wizard is to dismiss and to open again.
InWizard == wizard \in Of({"open"}) /\ screen.by \in Opener

RetryConnection(j) ==
  /\ Offers("retry") /\ ~InWizard /\ removalRetry = NoOne
  /\ Kind[j] = "retry" /\ pc[j] = "idle"
  /\ recovery # NoOne /\ rec[recovery] = "failed"
  /\ target' = [target EXCEPT ![j] = recovery] /\ Begin(j)
  /\ UNCHANGED <<recovery, rec, conn, reported, late, quit>>

\* retry with nothing else to retry, observe and refresh.
ReadAgain(j) ==
  /\ Kind[j] = "refresh" /\ pc[j] = "idle"
  /\ \/ Offers("observe")
     \/ Offers("retry") /\ ~InWizard /\ removalRetry = NoOne /\ recovery = NoOne
  /\ Begin(j) /\ UNCHANGED <<recovery, conns, quit>>

\* dismiss, and what dismisses first: diagnostics, and edit, which also removes
\* the failed record.
Dismiss ==
  /\ \E a \in {"dismiss", "diagnostics", "edit"} :
       /\ Offers(a)
       /\ a = "edit" => InWizard \/ (recovery # NoOne /\ rec[recovery] = "failed")
       /\ rec' = [o \in Opener |-> IF a = "edit" /\ o = recovery /\ rec[o] = "failed" THEN "none" ELSE rec[o]]
  /\ pending' = [s \in Slot |-> IF s = "flow" THEN pending[s] ELSE NoOne]
  /\ removalRetry' = NoOne /\ recovery' = NoOne /\ screen' = Blank
  /\ UNCHANGED <<shell, bulkCtl, cancelled, load, work, conn, target, reported, late, quit>>

(***************************************************************************)
(* Foreground connections and the exit                                     *)
(***************************************************************************)
\* A session ends by itself, well or badly.
SessionEnds(o) ==
  /\ conn[o] = "up" /\ quit.pc # "exited"
  /\ conn' = [conn EXCEPT ![o] = "down"]
  /\ \E q \in {"none", "failed"} : rec' = [rec EXCEPT ![o] = IF @ \in {"live", "closing"} THEN q ELSE @]
  /\ UNCHANGED <<screen, pending, removalRetry, recovery, shell, bulkCtl, cancelled, load, work, target, reported, late, quit>>

\* The effect that reports a failed connection on a blank screen.
Report(o) ==
  /\ screen.phase = "none" /\ rec[o] = "failed" /\ o \notin reported /\ quit.pc # "exited"
  /\ reported' = reported \cup {o} /\ recovery' = o
  /\ \E acts \in {{}, {"retry"}, {"edit", "retry"}} :
       screen' = Shown(o, InViewport(Failed("no", acts \cup {"diagnostics"})), Blank)
  /\ UNCHANGED <<pending, removalRetry, shell, bulkCtl, cancelled, load, work, rec, conn, target, late, quit>>

\* Mutant: connections that are being closed are not waited for.
OwnedOpen == {o \in Opener : rec[o] = "live"}

Owned == {o \in Opener : rec[o] \in {"live", "closing"}}

\* The second q or Ctrl-C closes the connections that have not failed.
RequestExit ==
  /\ UserActs /\ quit.pc = "no"
  /\ IF Owned = {}
     THEN quit' = [pc |-> "exited", set |-> {}] /\ UNCHANGED <<screen, rec, alone>>
     ELSE /\ quit' = [pc |-> "closing", set |-> Owned]
          /\ screen' = Working(NoOne, {})
          /\ rec' = [o \in Opener |-> IF o \in Owned THEN "closing" ELSE rec[o]]
          /\ alone' = {}
  /\ UNCHANGED <<pending, removalRetry, recovery, shell, bulkCtl, cancelled, load, pc, after, starts, conn, target, reported, late>>

\* Ctrl-C on the screen of a provider's flow ends the interface at once; closeAll
\* is only called when it is unmounted.
ExitFromFlow ==
  /\ UserActs /\ screen.phase = "none" /\ \E j \in Of({"flow"}) : pc[j] = "shown"
  /\ quit' = [pc |-> "exited", set |-> Owned]
  /\ rec' = [o \in Opener |-> IF o \in Owned THEN "closing" ELSE rec[o]]
  /\ UNCHANGED <<screen, pending, removalRetry, recovery, shell, bulkCtl, cancelled, load, work, conn, target, reported, late>>

Unmounted ==
  /\ quit.pc = "exited" /\ quit.set # {} /\ quit' = [quit EXCEPT !.set = {}]
  /\ conn' = [o \in Opener |-> IF o \in quit.set THEN "down" ELSE conn[o]]
  /\ rec' = [o \in Opener |-> "none"]
  /\ UNCHANGED <<screen, pending, removalRetry, recovery, shell, bulkCtl, cancelled, load, work, target, reported, late>>

\* closeAll settles: every record is cleared, also those it did not close.
ExitCloses ==
  /\ quit.pc = "closing"
  /\ conn' = [o \in Opener |-> IF o \in quit.set THEN "down" ELSE conn[o]]
  /\ rec' = [o \in Opener |-> "none"]
  /\ late' = late \cup (Owned \ quit.set)
  /\ \/ quit' = [pc |-> "exited", set |-> {}] /\ UNCHANGED screen
     \/ /\ quit' = [pc |-> "no", set |-> {}]
        /\ screen' = Shown(NoOne, Failed("no", {}), Blank)
  /\ UNCHANGED <<pending, removalRetry, recovery, shell, bulkCtl, cancelled, load, work, target, reported>>

TuiNext ==
  \/ \E j \in Job :
       \/ Start(j) \/ Ask(j) \/ Progress(j) \/ WorkEnds(j) \/ LoadEnds(j)
       \/ FlowScreen(j) \/ FlowEvent(j) \/ RetryConnection(j) \/ ReadAgain(j)
       \/ \E o \in Opener : StartClose(j, o) \/ StartRetry(j, o)
  \/ \E a \in {"trust", "confirm", "decline"} : Answer(a)
  \/ LeaveWizard \/ Cancel \/ RetryRemoval \/ Dismiss
  \/ RequestExit \/ ExitCloses \/ ExitFromFlow \/ Unmounted
  \/ \E o \in Opener : SessionEnds(o) \/ Report(o)

TuiSpec == TuiInit /\ [][TuiNext]_tuiVars

(***************************************************************************)
(* Properties                                                              *)
(***************************************************************************)
\* A question that came up while nothing else was in progress stays on the screen,
\* with its own place, until it is answered or the user quits: no key, report or
\* late answer hides what is waited for.
PromptIsOnScreen ==
  quit.pc # "exited" =>
    \A j \in alone : pc[j] = "asked" => screen = Prompt(j) /\ pending[H(j).slot] = j

\* A screen that says "working" has a job, or the exit, that will replace it, and
\* a question on the screen can be answered: nobody is left before a dead screen.
ScreenIsAlive ==
  quit.pc # "exited" =>
    /\ screen.phase = "working" =>
         quit.pc = "closing" \/ \E j \in Job : pc[j] \in Running \ {"asked"}
    /\ screen.phase = "ask" => pending[H(screen.by).slot] = screen.by /\ pc[screen.by] = "asked"

\* Nobody is left before a screen that hides a question or leads nowhere.
ScreenLeadsOn == PromptIsOnScreen /\ ScreenIsAlive

\* A connection whose session is open is listed, so that it can be closed, and at
\* the exit it is being closed; except for those opened while closeAll waited.
LiveIsListed ==
  \A o \in Opener \ late :
    conn[o] = "up" =>
      rec[o] \in {"live", "closing"} /\ (quit.pc = "exited" => o \in quit.set)

\* An overtaken load never replaces what a later one has shown.
NewestWins == [][snap' >= snap]_tuiVars

\* README.md: "Billable/destructive actions and first-use SSH host trust require
\* explicit confirmation": what goes ahead was asked on the screen that is answered.
ConfirmedWasShown ==
  [][\A j \in Job : (pc[j] = "asked" /\ pc'[j] = "go") => screen.by = j]_tuiVars

Choice == {"dismiss", "retry", "observe", "edit", "diagnostics"}

Ending ==
  [load : {"no", "quiet", "loud"}, phase : {"none", "leave", "done", "failed"},
   acts : SUBSET Choice, owns : BOOLEAN]

TuiTypeOK ==
  /\ screen \in [by : Job \cup {NoOne}, phase : {"none", "working", "ask", "done", "failed"},
                 acts : SUBSET (Choice \cup {"trust", "confirm", "decline", "cancel"}), owns : BOOLEAN]
  /\ pending \in [Slot -> Job \cup {NoOne}]
  /\ removalRetry \in Of({"removal"}) \cup {NoOne} /\ recovery \in Opener \cup {NoOne}
  /\ wizard \in Job \cup {NoOne} /\ busy \in BOOLEAN
  /\ bulkCtl \in Of({"bulk"}) \cup {NoOne} /\ cancelled \subseteq Of({"bulk"})
  /\ ctl \in Job \cup {NoOne} /\ {loads, snap, starts} \subseteq Nat /\ seq \in [Job -> Nat]
  /\ pc \in [Job -> Running \cup {"idle", "shown", "done"}] /\ after \in [Job -> Ending]
  /\ rec \in [Opener -> {"none", "live", "closing", "failed"}]
  /\ conn \in [Opener -> {"none", "up", "down"}]
  /\ target \in [Of({"retry", "close"}) -> Opener \cup {NoOne}]
  /\ reported \subseteq Opener /\ late \subseteq Opener /\ alone \subseteq Job
  /\ quit \in [pc : {"no", "closing", "exited"}, set : SUBSET Opener]

==============================================================================
