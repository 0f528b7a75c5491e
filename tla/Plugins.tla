------------------------------- MODULE Plugins -------------------------------
(***************************************************************************)
(* Which plugins Local State enables, the secrets of their credentials,    *)
(* and the runtime that the daemon opens endpoints with                    *)
(* (plugin-operations.ts, plugin-credentials.ts, plugin-host.ts,           *)
(* secret-store.ts, reloading-endpoint-opener.ts).                         *)
(*                                                                         *)
(* An update of Local State is atomic, but may throw before or after the   *)
(* primary file is written, which may be lost while the recovery file is   *)
(* old (StateStore).  A plugin has at most one credential.  Two plugins    *)
(* conflict if they have the same id or provider.                          *)
(***************************************************************************)
EXTENDS Naturals, FiniteSets

CONSTANTS
  Plugin,     \* plugin sources
  Conflict,   \* pairs of plugins that cannot be loaded together (symmetric)
  Ref,        \* secret references, never used twice
  Admin,      \* calls of PluginOperations
  Opener,     \* calls of openEndpoint in the daemon
  MaxCalls,   \* how many of these calls take place
  MaxFaults,  \* failures, deaths and lost files
  None        \* no secret, no plugin, no configuration

ASSUME PluginsAssumption ==
  /\ Conflict \subseteq Plugin \X Plugin
  /\ \A c \in Conflict : c[1] # c[2] /\ <<c[2], c[1]>> \in Conflict
  /\ MaxCalls \in Nat /\ MaxFaults \in Nat /\ None \notin Plugin \cup Ref

VARIABLES
  primary,   \* the configuration in Local State: [reg, cred]
  recovery,  \* the one of the recovery file
  torn,      \* updates of which only the primary file was written (history)
  keyring,   \* the secrets of the operating system's keyring (external)
  created,   \* the references that were given out
  pc, op,    \* progress of an admin, and what it does to which plugin
  snap,      \* the configuration it validated
  ref, old,  \* the secret it created, and the one it replaced
  unloaded,  \* plugins that did not load when it validated
  ignored,   \* pairs of which one did not load when the other was accepted (history)
  call, want,\* progress of an opener, the configuration it looks for
  used,      \* the configuration of the runtime it has
  generation,\* #generation's configuration
  build,     \* #refresh: its progress and the configuration it loads
  seen,      \* configurations in force since an opener got the runtime in its hands (history)
  faults

config == <<primary, recovery, torn>>
admin  == <<pc, op, snap, ref, old, unloaded, ignored>>
opener == <<call, want, used, generation, build>>
vars   == <<config, keyring, created, admin, opener, seen, faults>>

\* The enabled sources: samePluginActivationInputs compares them.
Enabled(c) == {p \in Plugin : c.reg[p] = "enabled"}
Referenced(c) == {c.cred[p] : p \in Plugin} \ {None}

Init ==
  /\ primary \in {[reg |-> r, cred |-> [p \in Plugin |-> None]] :
                    r \in [Plugin -> {"absent", "disabled", "enabled"}]}
  /\ \A c \in Conflict : ~({c[1], c[2]} \subseteq Enabled(primary))
  /\ recovery = primary /\ torn = 0 /\ keyring = {} /\ created = {}
  /\ pc = [a \in Admin |-> "idle"] /\ op = [a \in Admin |-> [kind |-> "none", plugin |-> None]]
  /\ snap = [a \in Admin |-> None]
  /\ ref = [a \in Admin |-> None] /\ old = [a \in Admin |-> None]
  /\ unloaded = [a \in Admin |-> {}] /\ ignored = {}
  /\ call = [o \in Opener |-> "idle"] /\ want = [o \in Opener |-> None]
  /\ used = [o \in Opener |-> None] /\ generation = None
  /\ build = [pc |-> "none", config |-> None]
  /\ seen = [o \in Opener |-> {}] /\ faults = 0

Goto(a, q) == pc' = [pc EXCEPT ![a] = q]
Fault == faults < MaxFaults /\ faults' = faults + 1
MayCall ==
  Cardinality({a \in Admin : pc[a] # "idle"}) + Cardinality({o \in Opener : call[o] # "idle"}) < MaxCalls
Note(c) == seen' = [o \in Opener |-> IF call[o] = "recheck" THEN seen[o] \cup {c} ELSE seen[o]]

\* The outcomes of stateStore.update: all is written, it throws with nothing
\* written, or with only the primary file written.
Update(c, thrown) ==
  \/ /\ thrown = "no" /\ primary' = c /\ recovery' = c /\ Note(c) /\ UNCHANGED <<torn, faults>>
  \/ /\ thrown = "before" /\ Fault /\ UNCHANGED <<config, seen>>
  \/ /\ thrown = "after" /\ Fault /\ primary' = c /\ torn' = torn + 1 /\ Note(c)
     /\ UNCHANGED recovery

(***************************************************************************)
(* PluginOperations.add, setEnabled                                        *)
(***************************************************************************)
Begin(a, kind, p) ==
  /\ pc[a] = "idle" /\ MayCall
  /\ op' = [op EXCEPT ![a] = [kind |-> kind, plugin |-> p]]
  /\ Goto(a, CASE kind \in {"add", "enable"} -> "read" [] kind = "disable" -> "save"
               [] kind = "set" -> "create" [] kind = "remove" -> "update")
  /\ kind = "set" => primary.reg[p] # "absent"
  /\ UNCHANGED <<config, keyring, created, snap, ref, old, unloaded, ignored, opener, seen, faults>>

\* A source that is configured cannot be added; one that is enabled needs nothing.
Wanted(a, c) ==
  c.reg[op[a].plugin] = IF op[a].kind = "add" THEN "absent" ELSE "disabled"

Read(a) ==
  /\ pc[a] = "read"
  /\ IF Wanted(a, primary)
     THEN snap' = [snap EXCEPT ![a] = primary] /\ Goto(a, "validate")
     ELSE Goto(a, "done") /\ UNCHANGED snap
  /\ UNCHANGED <<config, keyring, created, op, ref, old, unloaded, ignored, opener, seen, faults>>

\* The enabled plugins of the snapshot and then the new one are loaded into a host
\* of their own; one of them may fail to load this time.
Validate(a) ==
  /\ pc[a] = "validate"
  /\ \E missing \in SUBSET Enabled(snap[a]) :
       /\ IF missing = {} THEN UNCHANGED faults ELSE Fault
       /\ \A p \in Enabled(snap[a]) \ missing : <<p, op[a].plugin>> \notin Conflict
       /\ unloaded' = [unloaded EXCEPT ![a] = missing]
  /\ Goto(a, "save")
  /\ UNCHANGED <<config, keyring, created, op, snap, ref, old, ignored, opener, seen>>

Rejected(a) ==
  /\ pc[a] = "validate" /\ Goto(a, "done") /\ snap' = [snap EXCEPT ![a] = None]
  /\ UNCHANGED <<config, keyring, created, op, ref, old, unloaded, ignored, opener, seen, faults>>

\* Mutant: what was enabled since the validation is not looked at.
SameInputsAlways(a) == TRUE

SameInputs(a) == Enabled(primary) = Enabled(snap[a])

\* The new registration is saved if the enabled sources are those it was validated
\* with, and validated again otherwise.
Save(a, thrown) ==
  /\ pc[a] = "save" /\ op[a].kind \in {"add", "enable"}
  /\ IF Wanted(a, primary) /\ SameInputs(a)
     THEN /\ Update([primary EXCEPT !.reg[op[a].plugin] = "enabled"], thrown)
          /\ ignored' = (IF thrown = "before" THEN ignored
                         ELSE ignored \cup {<<q, op[a].plugin>> : q \in unloaded[a]}
                                      \cup {<<op[a].plugin, q>> : q \in unloaded[a]})
          /\ Goto(a, "done")
     ELSE /\ Goto(a, IF Wanted(a, primary) THEN "read" ELSE "done")
          /\ thrown = "no" /\ UNCHANGED <<config, ignored, seen, faults>>
  /\ snap' = [snap EXCEPT ![a] = None] /\ unloaded' = [unloaded EXCEPT ![a] = {}]
  /\ UNCHANGED <<keyring, created, op, ref, old, opener>>

Disable(a, thrown) ==
  /\ pc[a] = "save" /\ op[a].kind = "disable" /\ Goto(a, "done")
  /\ IF primary.reg[op[a].plugin] = "enabled"
     THEN Update([primary EXCEPT !.reg[op[a].plugin] = "disabled"], thrown)
     ELSE thrown = "no" /\ UNCHANGED <<config, seen, faults>>
  /\ UNCHANGED <<keyring, created, op, snap, ref, old, unloaded, ignored, opener>>

(***************************************************************************)
(* setPluginCredential, removePluginCredential                             *)
(***************************************************************************)
\* SecretStore.create; if it fails it deletes what it may have written.
Create(a) ==
  /\ pc[a] = "create"
  /\ \E r \in Ref \ created :
       /\ created' = created \cup {r} /\ ref' = [ref EXCEPT ![a] = r]
       /\ \/ keyring' = keyring \cup {r} /\ Goto(a, "update") /\ UNCHANGED faults
          \/ Fault /\ Goto(a, "done") /\ keyring' \in {keyring, keyring \cup {r}}
  /\ UNCHANGED <<config, op, snap, old, unloaded, ignored, opener, seen>>

\* The reference in the plugin's registration is replaced or removed; a failed
\* removal ends there.  A lost primary file may have taken the plugin with it.
Replace(a, thrown) ==
  /\ pc[a] = "update"
  /\ LET p == op[a].plugin
         afterFailure == IF op[a].kind = "set" THEN "failed" ELSE "done" IN
     IF primary.reg[p] = "absent" \/ (op[a].kind = "remove" /\ primary.cred[p] = None)
     THEN Goto(a, afterFailure) /\ thrown = "no" /\ UNCHANGED <<config, old, seen, faults>>
     ELSE /\ Update([primary EXCEPT !.cred[p] = IF op[a].kind = "set" THEN ref[a] ELSE None], thrown)
          /\ old' = [old EXCEPT ![a] = primary.cred[p]]
          /\ Goto(a, IF thrown = "no" THEN "unused" ELSE afterFailure)
  /\ UNCHANGED <<keyring, created, op, snap, ref, unloaded, ignored, opener>>

\* The secret that may be superfluous: the replaced one, or the new one of an
\* update that threw.
Superfluous(a) == IF pc[a] = "failed" THEN ref[a] ELSE old[a]

\* Mutant: a state that cannot be read is taken to reference nothing.
LookUnsafely(a) ==
  /\ pc[a] \in {"unused", "failed"}
  /\ \/ UNCHANGED faults /\ Goto(a, IF Superfluous(a) \in Referenced(primary) \cup {None} THEN "done"
                                    ELSE IF pc[a] = "failed" THEN "deleteNew" ELSE "delete")
     \/ Fault /\ Superfluous(a) # None /\ Goto(a, IF pc[a] = "failed" THEN "deleteNew" ELSE "delete")
  /\ UNCHANGED <<config, keyring, created, op, snap, ref, old, unloaded, ignored, opener, seen>>

\* secretReferenceState: the secret is kept if Local State has the reference, or
\* cannot be read.
Look(a) ==
  /\ pc[a] \in {"unused", "failed"}
  /\ \/ UNCHANGED faults /\ Goto(a, IF Superfluous(a) \in Referenced(primary) \cup {None} THEN "done"
                                    ELSE IF pc[a] = "failed" THEN "deleteNew" ELSE "delete")
     \/ Fault /\ Goto(a, "done")
  /\ UNCHANGED <<config, keyring, created, op, snap, ref, old, unloaded, ignored, opener, seen>>

Delete(a) ==
  /\ pc[a] \in {"delete", "deleteNew"} /\ Goto(a, "done")
  /\ \/ keyring' = keyring \ {IF pc[a] = "deleteNew" THEN ref[a] ELSE old[a]} /\ UNCHANGED faults
     \/ Fault /\ UNCHANGED keyring
  /\ UNCHANGED <<config, created, op, snap, ref, old, unloaded, ignored, opener, seen>>

Die(a) ==
  /\ pc[a] \notin {"idle", "done"} /\ Fault /\ Goto(a, "done")
  /\ UNCHANGED <<config, keyring, created, op, snap, ref, old, unloaded, ignored, opener, seen>>

\* The primary file is destroyed, and the recovery file is read from then on.
LosePrimary ==
  /\ Fault /\ primary # recovery /\ primary' = recovery /\ Note(recovery)
  /\ UNCHANGED <<recovery, torn, keyring, created, admin, opener>>

(***************************************************************************)
(* ReloadingEndpointOpener                                                 *)
(***************************************************************************)
GotoCall(o, q) == call' = [call EXCEPT ![o] = q]
Has(o, c) ==
  /\ used' = [used EXCEPT ![o] = c] /\ seen' = [seen EXCEPT ![o] = {primary}]
  /\ GotoCall(o, "recheck")

\* Local State is read at first and when a runtime did not fit.
Reads(o) ==
  /\ call[o] = "again" \/ (call[o] = "idle" /\ MayCall)
  /\ want' = [want EXCEPT ![o] = primary] /\ GotoCall(o, "want")
  /\ UNCHANGED <<config, keyring, created, admin, used, generation, build, seen, faults>>

\* #currentGeneration: the runtime at hand, or one that is being built.
Joins(o) ==
  /\ call[o] = "want"
  /\ IF generation = want[o]
     THEN Has(o, generation) /\ UNCHANGED build
     ELSE /\ GotoCall(o, "wait")
          /\ build' = (IF build.pc = "none" THEN [pc |-> "read", config |-> None] ELSE build)
          /\ UNCHANGED <<used, seen>>
  /\ UNCHANGED <<config, keyring, created, admin, want, generation, faults>>

\* #buildStableGeneration reads the configuration ...
BuildReads ==
  /\ build.pc = "read" /\ build' = [pc |-> "load", config |-> primary]
  /\ UNCHANGED <<config, keyring, created, admin, call, want, used, generation, seen, faults>>

\* Every waiter takes the result if it is what it looks for, and reads again
\* otherwise.
Resolve(c) ==
  /\ generation' = c
  /\ call' = [o \in Opener |-> IF call[o] # "wait" THEN call[o]
                               ELSE IF want[o] = c THEN "recheck" ELSE "again"]
  /\ used' = [o \in Opener |-> IF call[o] = "wait" /\ want[o] = c THEN c ELSE used[o]]
  /\ seen' = [o \in Opener |-> IF call[o] = "wait" /\ want[o] = c THEN {primary} ELSE seen[o]]

\* Mutant: #refresh is never cleared, and later callers get its old result.
BuildEndsKept ==
  /\ build.pc \in {"load", "kept"} /\ \E o \in Opener : call[o] = "wait"
  /\ IF build.pc = "load" /\ build.config # primary
     THEN build' = [build EXCEPT !.pc = "read"] /\ UNCHANGED <<call, used, generation, seen>>
     ELSE build' = [build EXCEPT !.pc = "kept"] /\ Resolve(build.config)
  /\ UNCHANGED <<config, keyring, created, admin, want, faults>>

\* ... loads its plugins, and starts over if the configuration has changed by then.
BuildEnds ==
  /\ build.pc = "load"
  /\ IF build.config # primary
     THEN build' = [build EXCEPT !.pc = "read"] /\ UNCHANGED <<call, used, generation, seen>>
     ELSE build' = [pc |-> "none", config |-> None] /\ Resolve(build.config)
  /\ UNCHANGED <<config, keyring, created, admin, want, faults>>

\* The build fails, for all who wait.
BuildFails ==
  /\ build.pc \in {"read", "load"} /\ Fault /\ build' = [pc |-> "none", config |-> None]
  /\ call' = [o \in Opener |-> IF call[o] = "wait" THEN "done" ELSE call[o]]
  /\ UNCHANGED <<config, keyring, created, admin, want, used, generation, seen>>

\* What a round of #currentGeneration had in its variables is gone.
Forgets(o) ==
  /\ want' = [want EXCEPT ![o] = None] /\ used' = [used EXCEPT ![o] = None]
  /\ seen' = [seen EXCEPT ![o] = {}]

\* Mutant: the configuration is not read again before the endpoint is opened.
OpensUnchecked(o) ==
  /\ call[o] = "recheck" /\ GotoCall(o, "opened") /\ Forgets(o)
  /\ UNCHANGED <<config, keyring, created, admin, generation, build, faults>>

Opens(o) ==
  /\ call[o] = "recheck"
  /\ GotoCall(o, IF primary = used[o] THEN "opened" ELSE "again") /\ Forgets(o)
  /\ UNCHANGED <<config, keyring, created, admin, generation, build, faults>>

Next ==
  \/ \E a \in Admin :
       \/ \E p \in Plugin, k \in {"add", "enable", "disable", "set", "remove"} : Begin(a, k, p)
       \/ Read(a) \/ Validate(a) \/ Rejected(a) \/ Create(a) \/ Look(a) \/ Delete(a) \/ Die(a)
       \/ \E t \in {"no", "before", "after"} : Save(a, t) \/ Disable(a, t) \/ Replace(a, t)
  \/ \E o \in Opener : Reads(o) \/ Joins(o) \/ Opens(o)
  \/ BuildReads \/ BuildEnds \/ BuildFails \/ LosePrimary

\* The daemon's event loop goes on; administrators may stop at any time.
Fairness ==
  /\ \A o \in Opener : WF_vars(Reads(o) /\ call[o] # "idle") /\ WF_vars(Joins(o)) /\ WF_vars(Opens(o))
  /\ WF_vars(BuildReads) /\ WF_vars(BuildEnds)

Spec == Init /\ [][Next]_vars /\ Fairness

(***************************************************************************)
(* Properties                                                              *)
(***************************************************************************)
\* Two plugins that cannot be loaded together are never both enabled, whoever
\* enables them at the same time; unless one of them failed to load when the other
\* one was validated.
EnabledLoadTogether ==
  \A c \in Conflict : {c[1], c[2]} \subseteq Enabled(primary) => c \in ignored

\* No credential in Local State, or in the recovery file, refers to a secret that
\* was deleted.  Only if two updates wrote no more than the primary file may the
\* recovery file have a reference that the clean-up does not see.
SecretsExist ==
  torn <= 1 => Referenced(primary) \cup Referenced(recovery) \subseteq keyring

\* Without failures no secret is left behind in the keyring.
NoOrphans ==
  (faults = 0 /\ \A a \in Admin : pc[a] \in {"idle", "done"}) => keyring = Referenced(primary)

\* The secrets of the keyring and the references of Local State agree.
SecretsMatchReferences == SecretsExist /\ NoOrphans

\* An endpoint is opened with the plugins and secrets of a configuration that was
\* still in force when its runtime was ready.
OpenedWithCurrent ==
  [][\A o \in Opener : (call[o] # "opened" /\ call'[o] = "opened") => used[o] \in seen[o]]_vars

\* Every call ends, with its runtime or the failure of the build that it joined, once the
\* configuration stops changing; also if it joined the build of another call that wanted
\* an older configuration, or another call took up the result first.
CallsEnd == \A o \in Opener : call[o] # "idle" ~> call[o] \in {"opened", "done"}

=============================================================================
