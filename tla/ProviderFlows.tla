---------------------------- MODULE ProviderFlows ----------------------------
(***************************************************************************)
(* A provider's interactive flow in the terminal interface: the screens    *)
(* that a provider returns and the contract they are held to (plugin-sdk), *)
(* the surface that turns keys into events (tui-provider-interactive.tsx), *)
(* the session that carries an event to the provider and runs the command  *)
(* the flow leads to (provider-feature-operations.ts), and the command run *)
(* from the command line.                                                  *)
(*                                                                         *)
(* A screen is a record of what is told apart: the ids, kinds and disabled *)
(* marks of its fields, choices, rows and actions.  A draft's text is      *)
(* blank, a number (good) or something else (bad).                         *)
(***************************************************************************)
EXTENDS Naturals, Sequences, FiniteSets, Functions

CONSTANTS
  RawFeature,  \* features a plugin may contribute
  RawScreen,   \* screens a provider may return, those against the contract too
  Args,        \* the arguments a flow may end with
  MaxOpens     \* flows the user opens

ASSUME ProviderFlowsAssumption == MaxOpens \in Nat

None == ""            \* no id
NoScreen == [kind |-> "none", id |-> None]
NoEvent == [kind |-> "none"]
NoDraft == [id |-> None]
NoSession == 0
Session == 1..MaxOpens
CommandLine == MaxOpens + 1
Caller == Session \cup {CommandLine}

(***************************************************************************)
(* The contract of plugin-sdk                                              *)
(***************************************************************************)
Distinct(seq) == IsInjective([i \in DOMAIN seq |-> seq[i].id])

CommandOk(c) ==
  /\ c.operation \in {"read", "mutation"} /\ c.risks \subseteq {"billable", "destructive"}
  /\ c.risks # {} => c.operation = "mutation"

\* A flow leads to a declared command, and a command has at most one flow.
FeatureOk(f) ==
  /\ Distinct(f.commands) /\ \A c \in Range(f.commands) : CommandOk(c)
  /\ Distinct(f.flows) /\ IsInjective([i \in DOMAIN f.flows |-> f.flows[i].command])
  /\ \A w \in Range(f.flows) : \E c \in Range(f.commands) : c.id = w.command

FieldOk(f) ==
  CASE f.kind \in {"text", "integer", "decimal"} -> f.value # <<>> => f.list = f.repeatable
    [] f.kind = "boolean" -> ~f.list
    [] f.kind = "single-choice" -> Distinct(f.choices) /\ ~f.list
    [] f.kind = "multiple-choice" ->
         Distinct(f.choices) /\ (f.value # <<>> => f.list) /\ IsInjective(f.value)
    [] OTHER -> FALSE

\* Mutant: the selected rows need not be rows of the table.
AnySelection(s) ==
  Distinct(s.columns) /\ Distinct(s.rows) /\ IsInjective(s.selected)

TableOk(s) ==
  /\ Distinct(s.columns) /\ Distinct(s.rows)
  /\ \A r \in Range(s.rows) : r.cells \subseteq {c.id : c \in Range(s.columns)}
  /\ s.selection \in {"single", "multiple"} /\ IsInjective(s.selected)
  /\ s.selection = "single" => Len(s.selected) <= 1
  /\ Range(s.selected) \subseteq {r.id : r \in Range(s.rows)}

ScreenOk(s) ==
  /\ Distinct(s.actions)
  /\ \A a \in Range(s.actions) : a.kind \in {"primary", "secondary", "submit", "back", "refresh"}
  /\ CASE s.kind = "form" -> Distinct(s.fields) /\ \A f \in Range(s.fields) : FieldOk(f)
       [] s.kind = "table" -> TableOk(s)
       [] OTHER -> s.kind = "review"

(***************************************************************************)
(* The surface: what is focused, the picker of a choice and the draft of a *)
(* text, kept while the screen's kind and id stay the same                 *)
(***************************************************************************)
Content(s) == CASE s.kind = "form" -> s.fields [] s.kind = "table" -> s.rows [] OTHER -> s.items
Enabled(seq) == {i \in DOMAIN seq : ~seq[i].disabled}
Before(seq, i) == Cardinality({k \in Enabled(seq) : k < i})
EnabledAt(seq, n) == {seq[i] : i \in {k \in Enabled(seq) : Before(seq, k) = n}}
Selectables(s) == Len(Content(s)) + Cardinality(Enabled(s.actions))
Least(a, b) == IF a <= b THEN a ELSE b
Clamped(c, n) == IF n = 0 THEN 0 ELSE Least(c, n - 1)
ChoiceKinds == {"single-choice", "multiple-choice"}

\* The choices of the field at a cursor; its own cursor counts those that are enabled.
FocusedChoices(s, c) ==
  IF s.kind = "form" /\ c < Len(s.fields) /\ s.fields[c + 1].kind \in ChoiceKinds
  THEN s.fields[c + 1].choices ELSE <<>>

\* The effects: the cursor stays among what is selectable, the choice's cursor
\* among the choices of the focused field when that field or their number changes.
Focus(u, s, t, cursor) ==
  LET c == Clamped(cursor, Selectables(t))
      n == Cardinality(Enabled(FocusedChoices(t, c)))
  IN [u EXCEPT !.cursor = c,
               !.choice = IF c = u.cursor /\ n = Cardinality(Enabled(FocusedChoices(s, u.cursor)))
                          THEN @ ELSE Clamped(@, n)]

Mounted(s) ==
  Focus([cursor |-> 0, choice |-> 0, picker |-> None, draft |-> NoDraft],
        s, s, IF s.kind = "review" THEN Len(s.items) ELSE 0)

Rerendered(u, s, t) ==
  IF s.kind = t.kind /\ s.id = t.id THEN Focus(u, s, t, u.cursor) ELSE Mounted(t)

NoSurface == [cursor |-> 0, choice |-> 0, picker |-> None, draft |-> NoDraft]

\* parseDraft and what Enter makes of it: no value is sent for text that is
\* not a number; a number that is no list may be cleared.
DraftIsSent(d) ==
  d.kind = "text" \/ d.text = "good" \/ d.text = "blank"

VARIABLES
  feature,     \* the provider's feature
  opened,      \* sessions that were opened so far
  held,        \* callers that hold an admission to the feature
  command,     \* the command a session leads to
  flow, shown, \* providerFlowHandle, providerFlowScreen
  busy,        \* providerFlowBusyRef
  phase,       \* where the call that is busy is
  op,          \* operation: none, working, the question (ask), another's (other)
  loading,     \* a status load is under way
  ui,          \* the state of ProviderInteractiveSurface
  event, args, \* the event sent to the provider, the arguments it answered with
  at,          \* the screen that the provider's session is at (external)
  late,        \* sessions whose provider was given up on
  cli,         \* the progress of a command run from the command line
  consents, runs, \* arguments that were agreed to, and that were run (history)
  overlapped,  \* another's screen went away during an event (history)
  away,        \* the user is on another route, or in the help
  left         \* the user left

tui  == <<flow, shown, busy, phase, op, loading, overlapped, away, left>>
host == <<feature, opened, held, command, late>>
psn  == <<event, args, at>>
done == <<consents, runs>>
flowsVars == <<tui, host, psn, done, ui, cli>>

FlowsInit ==
  /\ feature \in {f \in RawFeature : FeatureOk(f)}
  /\ opened = 0 /\ held = {} /\ command = [c \in Caller |-> None] /\ late = {}
  /\ flow = NoSession /\ shown = NoScreen /\ ui = NoSurface
  /\ busy = FALSE /\ phase = "idle" /\ op = "none" /\ loading = FALSE
  /\ overlapped = FALSE /\ away = FALSE /\ left = FALSE
  /\ event = NoEvent /\ args = None /\ at = NoScreen
  /\ cli = "idle" /\ consents = [c \in Caller |-> <<>>] /\ runs = [c \in Caller |-> <<>>]

\* requireMutationConfirmation: whether a command is asked about.
Risks(id) == UNION {c.risks : c \in {k \in Range(feature.commands) : k.id = id}}
NeedsConsent(id, assumeYes) == Risks(id) # {} /\ ~assumeYes

(***************************************************************************)
(* tui.tsx: opening a flow, and its ends                                   *)
(***************************************************************************)
Settles == busy' = FALSE /\ phase' = "idle"

Open ==
  /\ ~left /\ ~away /\ ~busy /\ shown = NoScreen /\ op = "none"
  /\ opened < MaxOpens /\ cli = "idle"
  /\ busy' = TRUE /\ phase' = "opening" /\ op' = "working" /\ overlapped' = FALSE
  /\ held' = held \ {flow} /\ flow' = NoSession /\ shown' = NoScreen
  /\ UNCHANGED <<feature, opened, command, late, loading, away, left, psn, done, ui, cli>>

\* The runtime fails, or no longer has the feature or the flow.
OpenRefused ==
  /\ phase = "opening" /\ Settles /\ op' = "other"
  /\ UNCHANGED <<host, flow, shown, loading, overlapped, away, left, psn, done, ui, cli>>

Admit ==
  /\ phase = "opening" /\ phase' = "starting"
  /\ \E w \in Range(feature.flows) : command' = [command EXCEPT ![opened + 1] = w.command]
  /\ opened' = opened + 1 /\ held' = held \cup {opened + 1}
  /\ UNCHANGED <<feature, late, flow, shown, busy, op, loading, overlapped, away, left, psn, done, ui, cli>>

\* The provider throws, answers against the contract, or not in time.
OpenFails ==
  /\ phase = "starting" /\ Settles /\ op' = "other" /\ held' = held \ {opened}
  /\ UNCHANGED <<feature, opened, command, late, flow, shown, loading, overlapped, away, left, psn, done, ui, cli>>

Opened(s) ==
  /\ phase = "starting" /\ ScreenOk(s) /\ Settles /\ op' = "none"
  /\ flow' = opened /\ shown' = s /\ ui' = (IF away THEN NoSurface ELSE Mounted(s)) /\ at' = s
  /\ UNCHANGED <<host, loading, overlapped, away, left, event, args, done, cli>>

Forgotten == event' = NoEvent /\ args' = None /\ at' = NoScreen

\* dispatchProviderWorkflow catches: the session is closed.
FlowFails ==
  /\ Settles /\ op' = "other" /\ held' = held \ {flow}
  /\ flow' = NoSession /\ shown' = NoScreen /\ ui' = NoSurface
  /\ Forgotten
  /\ UNCHANGED <<feature, opened, command, loading, overlapped, away, left, cli>>

(***************************************************************************)
(* The session: an event for the provider, its answer, the command         *)
(***************************************************************************)
\* An event made while another is under way is dropped.
Emit(e, u) ==
  /\ ui' = u
  /\ IF busy
     THEN UNCHANGED <<busy, phase, op, event>>
     ELSE busy' = TRUE /\ phase' = "sent" /\ op' = "working" /\ event' = e
  /\ UNCHANGED <<host, flow, shown, loading, overlapped, away, left, args, at, done, cli>>

Answered(s) ==
  /\ phase = "sent" /\ ScreenOk(s) /\ Settles /\ op' = "none" /\ event' = NoEvent
  /\ shown' = s /\ ui' = Rerendered(ui, shown, s) /\ at' = s
  /\ UNCHANGED <<host, flow, loading, overlapped, away, left, args, done, cli>>

AnsweredBadly ==
  /\ phase = "sent" /\ FlowFails /\ UNCHANGED <<late, done>>

\* Mutant: the flow stays on the screen.
FlowOutlivesTimeout ==
  /\ phase = "sent" /\ Settles /\ op' = "other" /\ event' = NoEvent /\ late' = late \cup {flow}
  /\ UNCHANGED <<feature, opened, held, command, flow, shown, loading, overlapped, away, left,
                 args, at, done, ui, cli>>

\* The host gives up after a minute; the provider goes on.
AnswerTimesOut ==
  /\ phase = "sent" /\ FlowFails /\ late' = late \cup {flow} /\ UNCHANGED done

Run(c, a) == runs' = [runs EXCEPT ![c] = Append(@, a)]
Consent(c, a) == consents' = [consents EXCEPT ![c] = Append(@, a)]

Submitted(a) ==
  /\ phase = "sent" /\ args' = a /\ event' = NoEvent
  /\ IF NeedsConsent(command[flow], FALSE)
     THEN phase' = "asking" /\ op' = "ask" /\ ui' = NoSurface /\ UNCHANGED done
     ELSE phase' = "running" /\ Run(flow, a) /\ UNCHANGED <<op, ui, consents>>
  /\ UNCHANGED <<host, flow, shown, busy, loading, overlapped, away, left, at, cli>>

\* The question is on the screen; the surface is not.
Agree ==
  /\ ~left /\ phase = "asking" /\ op = "ask"
  /\ phase' = "running" /\ op' = "working" /\ ui' = Mounted(shown)
  /\ Consent(flow, args) /\ Run(flow, args)
  /\ UNCHANGED <<host, flow, shown, busy, loading, overlapped, away, left, psn, cli>>

Decline ==
  /\ ~left /\ phase = "asking" /\ op = "ask" /\ FlowFails /\ UNCHANGED <<late, done>>

\* The session closes whether the command succeeds or not.
Ran ==
  /\ phase = "running" /\ phase' = "reading" /\ held' = held \ {flow}
  /\ flow' = NoSession /\ shown' = NoScreen /\ ui' = NoSurface
  /\ op' = "working" /\ loading' = FALSE /\ Forgotten
  /\ UNCHANGED <<feature, opened, command, late, busy, overlapped, away, left, done, cli>>

RunFails == phase = "running" /\ FlowFails /\ UNCHANGED <<late, done>>

\* The status is read once more, and the result shown.
Reported ==
  /\ phase = "reading" /\ Settles /\ op' = "other"
  /\ UNCHANGED <<host, flow, shown, loading, overlapped, away, left, psn, done, ui, cli>>

CloseFlow ==
  IF busy THEN UNCHANGED flowsVars
  ELSE /\ held' = held \ {flow} /\ flow' = NoSession /\ shown' = NoScreen
       /\ op' = "none" /\ ui' = NoSurface /\ Forgotten
       /\ UNCHANGED <<feature, opened, command, late, busy, phase, loading, overlapped, away, left, done, cli>>

(***************************************************************************)
(* The keys of the surface, which takes none while an operation is shown   *)
(***************************************************************************)
Key == ~left /\ ~away /\ shown # NoScreen /\ op = "none"
Plain == Key /\ ui.draft = NoDraft /\ ui.picker = None

Surface(u) ==
  /\ ui' = u
  /\ UNCHANGED <<tui, host, psn, done, cli>>

Event(kind, id, as, pick, value) ==
  [kind |-> kind, id |-> id, as |-> as, pick |-> pick, value |-> value]
Change(f, pick, value) == Event("field", f.id, f.kind, pick, value)

Toggled(set, x) == IF x \in set THEN set \ {x} ELSE set \cup {x}

TypeText ==
  /\ Key /\ ui.draft # NoDraft
  /\ \E t \in {"blank", "good", "bad"} \ {ui.draft.text} : Surface([ui EXCEPT !.draft.text = t])

LeaveDraft == Key /\ ui.draft # NoDraft /\ Surface([ui EXCEPT !.draft = NoDraft])

EnterDraft ==
  /\ Key /\ ui.draft # NoDraft /\ DraftIsSent(ui.draft)
  /\ Emit(Change(ui.draft, None, {}), [ui EXCEPT !.draft = NoDraft])

PickerField ==
  IF shown.kind = "form" THEN {f \in Range(shown.fields) : f.id = ui.picker /\ f.kind \in ChoiceKinds} ELSE {}

LeavePicker ==
  /\ Key /\ ui.draft = NoDraft /\ ui.picker # None
  /\ Surface([ui EXCEPT !.picker = None])

MovePicker ==
  /\ Key /\ ui.draft = NoDraft /\ ui.picker # None
  /\ \E f \in PickerField :
       LET n == Cardinality(Enabled(f.choices))
       IN \E c \in {Clamped(ui.choice + 1, n), IF ui.choice = 0 THEN 0 ELSE ui.choice - 1} :
            n > 0 /\ c # ui.choice /\ Surface([ui EXCEPT !.choice = Clamped(c, n)])

\* A single choice closes the picker, a multiple one leaves it open.
Choose ==
  /\ Key /\ ui.draft = NoDraft /\ ui.picker # None
  /\ \E f \in PickerField : \E c \in EnabledAt(f.choices, ui.choice) :
       IF f.kind = "single-choice"
       THEN Emit(Change(f, c.id, {c.id}), [ui EXCEPT !.picker = None])
       ELSE Emit(Change(f, c.id, Toggled(Range(f.value), c.id)), ui)

\* Escape: the first back action, or the flow is closed.
Escape ==
  /\ Plain
  /\ LET back == {i \in Enabled(shown.actions) : shown.actions[i].kind = "back"}
     IN \/ back = {} /\ CloseFlow
        \/ \E i \in back : (\A k \in back : i <= k)
                           /\ Emit(Event("action", shown.actions[i].id, None, None, {}), ui)

MoveCursor ==
  /\ Plain
  /\ \E c \in {ui.cursor + 1, IF ui.cursor = 0 THEN 0 ELSE ui.cursor - 1} :
       Focus(ui, shown, shown, c) # ui /\ Surface(Focus(ui, shown, shown, c))

PressAction ==
  /\ Plain /\ Len(Content(shown)) <= ui.cursor
  /\ \E a \in EnabledAt(shown.actions, ui.cursor - Len(Content(shown))) :
       Emit(Event("action", a.id, None, None, {}), ui)

SelectRow ==
  /\ Plain /\ shown.kind = "table" /\ ui.cursor + 1 \in DOMAIN shown.rows
  /\ LET row == shown.rows[ui.cursor + 1]
         rows == IF shown.selection = "single" THEN {row.id} ELSE Toggled(Range(shown.selected), row.id)
     IN ~row.disabled /\ Emit(Event("rows", None, None, row.id, rows), ui)

\* The focused field: a switch is sent, a choice is opened at the first that is
\* selected, a text is edited from its value.
EnterField ==
  /\ Plain /\ shown.kind = "form" /\ ui.cursor + 1 \in DOMAIN shown.fields
  /\ LET f == shown.fields[ui.cursor + 1]
         choices == FocusedChoices(shown, ui.cursor)
         chosen == {i \in Enabled(choices) : choices[i].id \in Range(f.value)}
     IN /\ ~f.disabled
        /\ \/ /\ f.kind = "boolean" /\ Emit(Change(f, None, {}), ui)
           \/ /\ f.kind \in ChoiceKinds /\ Enabled(choices) # {}
              /\ Surface([ui EXCEPT !.picker = f.id,
                           !.choice = IF chosen = {} THEN 0
                                      ELSE Before(choices, CHOOSE i \in chosen : \A j \in chosen : i <= j)])
           \/ /\ f.kind \in {"text", "integer", "decimal"}
              /\ Surface([ui EXCEPT !.draft = [id |-> f.id, kind |-> f.kind,
                                               text |-> IF f.value = <<>> THEN "blank" ELSE "good"]])

Quit == ~left /\ left' = TRUE /\ UNCHANGED <<flow, shown, busy, phase, op, loading, overlapped, away, host, psn, done, ui, cli>>

SurfaceKey ==
  \/ TypeText \/ LeaveDraft \/ EnterDraft \/ LeavePicker \/ MovePicker \/ Choose
  \/ Escape \/ MoveCursor \/ PressAction \/ SelectRow \/ EnterField

(***************************************************************************)
(* The rest of the interface, and the command line                         *)
(***************************************************************************)
\* A status load begins, and blanks the screen or shows its failure whatever is there.
StartLoad ==
  /\ ~left /\ shown = NoScreen /\ op # "ask" /\ ~loading
  /\ loading' = TRUE /\ op' = "other"
  /\ UNCHANGED <<host, flow, shown, busy, phase, overlapped, away, left, psn, done, ui, cli>>

Uncovers == op' = "none" /\ phase = "sent"

EndLoad ==
  /\ loading /\ loading' = FALSE /\ op' \in {"none", "other"}
  /\ overlapped' = (overlapped \/ Uncovers)
  /\ ui' = IF op = "ask" THEN Mounted(shown) ELSE ui
  /\ UNCHANGED <<host, flow, shown, busy, phase, away, left, psn, done, cli>>

\* The user dismisses a screen, of the load (which is cancelled) or another.
Dismiss ==
  /\ ~left /\ op = "other" /\ op' = "none" /\ loading' \in {loading, FALSE}
  /\ overlapped' = (overlapped \/ Uncovers)
  /\ UNCHANGED <<host, flow, shown, busy, phase, away, left, psn, done, ui, cli>>

\* Once a flow's screen is there, the shell takes no key, whichever route is shown.
Navigate ==
  /\ ~left /\ shown = NoScreen /\ op # "ask" /\ away' = ~away
  /\ UNCHANGED <<flow, shown, busy, phase, op, loading, overlapped, left, host, psn, done, ui, cli>>

CliFrame == UNCHANGED <<tui, feature, opened, late, psn, ui>>

\* ProviderFeatureOperations.execute: a risky command needs --yes or a terminal.
\* It is another process and shares nothing with the interface: one of them is followed.
CliStart(assumeYes, terminal) ==
  /\ cli = "idle" /\ opened = 0 /\ ~busy
  /\ \E c \in Range(feature.commands) :
       /\ command' = [command EXCEPT ![CommandLine] = c.id]
       /\ IF ~NeedsConsent(c.id, assumeYes)
          THEN /\ cli' = "running" /\ held' = held \cup {CommandLine} /\ Run(CommandLine, None)
               /\ IF assumeYes THEN Consent(CommandLine, None) ELSE UNCHANGED consents
          ELSE /\ UNCHANGED done
               /\ IF terminal THEN cli' = "asking" /\ held' = held \cup {CommandLine}
                              ELSE cli' = "done" /\ UNCHANGED held
  /\ CliFrame

CliAnswer(yes) ==
  /\ cli = "asking"
  /\ IF yes THEN cli' = "running" /\ Consent(CommandLine, None) /\ Run(CommandLine, None) /\ UNCHANGED held
            ELSE cli' = "done" /\ held' = held \ {CommandLine} /\ UNCHANGED done
  /\ UNCHANGED command /\ CliFrame

CliEnd ==
  /\ cli = "running" /\ cli' = "done" /\ held' = held \ {CommandLine}
  /\ UNCHANGED <<command, done>> /\ CliFrame

(***************************************************************************)
(* Everything                                                              *)
(***************************************************************************)
\* Mutant: the provider's answer is awaited for ever.
EndsButAnswers == OpenRefused \/ OpenFails \/ RunFails \/ Reported

\* What ends by itself, or after a minute.
Ends == OpenRefused \/ OpenFails \/ AnswerTimesOut \/ RunFails \/ Reported

FlowsNext ==
  \/ Open \/ Admit \/ Ends \/ \E s \in RawScreen : Opened(s) \/ Answered(s)
  \/ AnsweredBadly \/ \E a \in Args : Submitted(a)
  \/ Agree \/ Decline \/ Ran
  \/ SurfaceKey \/ Quit \/ StartLoad \/ EndLoad \/ Dismiss \/ Navigate
  \/ \E yes, terminal \in BOOLEAN : CliStart(yes, terminal)
  \/ \E yes \in BOOLEAN : CliAnswer(yes)
  \/ CliEnd

FlowsSpec == FlowsInit /\ [][FlowsNext]_flowsVars

FairSpec == FlowsSpec /\ WF_flowsVars(Ends)

(***************************************************************************)
(* Properties                                                              *)
(***************************************************************************)
EventFits(e, s) ==
  CASE e.kind = "action" -> \E a \in Range(s.actions) : a.id = e.id /\ ~a.disabled
    [] e.kind = "rows" ->
         /\ s.kind = "table" /\ e.value \subseteq {r.id : r \in Range(s.rows)}
         /\ s.selection = "single" => Cardinality(e.value) <= 1
         /\ \E r \in Range(s.rows) : r.id = e.pick /\ ~r.disabled
    [] e.kind = "field" ->
         /\ s.kind = "form"
         /\ \E f \in Range(s.fields) :
              /\ f.id = e.id /\ f.kind = e.as
              /\ f.disabled => f.kind \in ChoiceKinds
              /\ f.kind \in ChoiceKinds => \E c \in Range(f.choices) : c.id = e.pick /\ ~c.disabled

\* An event is about something that the screen the provider is at offers: one of
\* its enabled actions, of its rows, of its fields with a value of the field's
\* kind.  A picker left open by a multiple choice does not notice that the next
\* screen disables its field, be it a single choice by then (tui-provider-interactive.tsx:194),
\* and a draft begun while another's result had uncovered the surface survives the answer.
EventFitsScreen ==
  phase = "sent" /\ ~overlapped => EventFits(event, at)

\* A provider's session is asked one thing at a time, never again after the host
\* gave up on an answer, and only while its feature is admitted.
OneCallPerSession ==
  phase = "sent" => flow \in held \ late

\* A flow runs its command once at most and a risky one only after the user agreed
\* to it, with the arguments the provider answered with.
RunsAreConfirmed ==
  \A c \in Caller :
    /\ Len(runs[c]) <= 1
    /\ runs[c] # <<>> /\ Risks(command[c]) # {} => consents[c] = runs[c]

\* When nothing is under way, the only admission held is that of the flow on the
\* screen, however the earlier ones ended.
AdmissionsAreReleased ==
  /\ ~busy => held \ {CommandLine} = {flow} \ {NoSession}
  /\ cli = "done" => CommandLine \notin held

\* A session is used as its contract says, from its admission to its end.
SessionsAreSound == OneCallPerSession /\ RunsAreConfirmed /\ AdmissionsAreReleased

\* Whatever the provider does, the call ends or waits for the user's answer.
CallsAreAnswered == busy ~> (~busy \/ phase = "asking")

=============================================================================
