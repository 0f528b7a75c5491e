---------------------------- MODULE PluginsProofs ----------------------------
(***************************************************************************)
(* Plugins that are enabled together load together, and the secrets of the *)
(* keyring and the references of Local State agree, for any number of      *)
(* plugins, administrators, openers and failures.                          *)
(***************************************************************************)
EXTENDS Plugins, TLAPS

Configuration ==
  [reg : [Plugin -> {"absent", "disabled", "enabled"}], cred : [Plugin -> Ref \cup {None}]]
Places == {"idle", "read", "validate", "save", "create", "update", "unused", "failed",
           "delete", "deleteNew", "done"}
Kinds == {"none", "add", "enable", "disable", "set", "remove"}

\* The types of what administrators and Local State have.
Shape ==
  /\ primary \in Configuration /\ recovery \in Configuration
  /\ torn \in Nat /\ faults \in Nat
  /\ created \subseteq Ref /\ keyring \subseteq created
  /\ pc \in [Admin -> Places]
  /\ op \in [Admin -> [kind : Kinds, plugin : Plugin \cup {None}]]
  /\ snap \in [Admin -> Configuration \cup {None}]
  /\ ref \in [Admin -> Ref \cup {None}] /\ old \in [Admin -> Ref \cup {None}]
  /\ unloaded \in [Admin -> SUBSET Plugin]
  /\ \A a \in Admin :
       /\ pc[a] # "idle" => op[a].plugin \in Plugin
       /\ pc[a] \in {"read", "validate"} => op[a].kind \in {"add", "enable"}
       /\ pc[a] = "create" => op[a].kind = "set"
       /\ pc[a] = "validate" => snap[a] \in Configuration
       /\ pc[a] = "save" /\ op[a].kind # "disable" => snap[a] \in Configuration

\* A step of an administrator.
Step(a) ==
  \/ \E p \in Plugin, k \in {"add", "enable", "disable", "set", "remove"} : Begin(a, k, p)
  \/ Read(a) \/ Validate(a) \/ Rejected(a) \/ Create(a) \/ Look(a) \/ Delete(a) \/ Die(a)
  \/ \E t \in {"no", "before", "after"} : Save(a, t) \/ Disable(a, t) \/ Replace(a, t)

\* A step of the daemon.
Serve ==
  \/ \E o \in Opener : Reads(o) \/ Joins(o) \/ Opens(o)
  \/ BuildReads \/ BuildEnds \/ BuildFails

LEMMA Steps == [Next]_vars =>
  \/ UNCHANGED <<config, keyring, created, admin>> /\ (UNCHANGED faults \/ Fault)
  \/ LosePrimary \/ \E a \in Admin : Step(a)
<1> SUFFICES ASSUME [Next]_vars
             PROVE  \/ UNCHANGED <<config, keyring, created, admin>> /\ (UNCHANGED faults \/ Fault)
                    \/ LosePrimary \/ \E a \in Admin : Step(a)
  OBVIOUS
<1>1. Serve \/ LosePrimary \/ (\E a \in Admin : Step(a)) \/ UNCHANGED vars
  BY Zenon DEF Next, Serve, Step
<1>2. CASE Serve
  BY <1>2 DEF Serve, Reads, Joins, Opens, BuildReads, BuildEnds, BuildFails
<1> QED  BY <1>1, <1>2 DEF vars

LEMMA ShapeInit == Init => Shape
<1> SUFFICES ASSUME Init PROVE Shape
  OBVIOUS
<1>1. primary \in Configuration /\ recovery \in Configuration
  BY DEF Init, Configuration
<1>2. /\ pc \in [Admin -> Places] /\ op \in [Admin -> [kind : Kinds, plugin : Plugin \cup {None}]]
      /\ ref \in [Admin -> Ref \cup {None}] /\ old \in [Admin -> Ref \cup {None}]
      /\ snap \in [Admin -> Configuration \cup {None}] /\ unloaded \in [Admin -> SUBSET Plugin]
  BY DEF Init, Places, Kinds
<1> QED  BY <1>1, <1>2 DEF Init, Shape

\* What an update may leave in the two files.
LEMMA Updated ==
  ASSUME NEW c, NEW t, Update(c, t), torn \in Nat, faults \in Nat
  PROVE  /\ torn' \in Nat /\ faults' \in Nat
         /\ \/ primary' = c /\ recovery' = c /\ t = "no" /\ torn' = torn
            \/ primary' = primary /\ recovery' = recovery /\ t = "before" /\ torn' = torn
               /\ faults' = faults + 1
            \/ primary' = c /\ recovery' = recovery /\ t = "after" /\ torn' = torn + 1
               /\ faults' = faults + 1
BY DEF Update, Fault, config

LEMMA ShapeStep == Shape /\ [Next]_vars => Shape'
<1> SUFFICES ASSUME Shape, [Next]_vars PROVE Shape'
  OBVIOUS
<1>0. faults + 1 \in Nat /\ \A a \in Admin : pc[a] \in Places /\ op[a].kind \in Kinds
  BY DEF Shape
<1> USE DEF Goto, Fault, config, admin
<1>1. CASE UNCHANGED <<config, keyring, created, admin>> /\ (UNCHANGED faults \/ Fault)
  BY <1>0, <1>1 DEF Shape
<1>2. CASE LosePrimary
  BY <1>0, <1>2 DEF LosePrimary, Shape
<1>3. ASSUME NEW a \in Admin, NEW p \in Plugin,
             NEW k \in {"add", "enable", "disable", "set", "remove"}, Begin(a, k, p)
      PROVE  Shape'
  <2>1. /\ pc[a] = "idle" /\ op' = [op EXCEPT ![a] = [kind |-> k, plugin |-> p]]
        /\ UNCHANGED <<primary, recovery, torn, keyring, created, snap, ref, old, unloaded, faults>>
    BY <1>3 DEF Begin
  <2>2. /\ pc' = [pc EXCEPT ![a] = pc'[a]] /\ pc'[a] \in {"read", "save", "create", "update"}
        /\ pc'[a] = "read" => k \in {"add", "enable"}
        /\ pc'[a] = "save" => k = "disable"
        /\ pc'[a] = "create" => k = "set"
    BY <1>3 DEF Begin, Shape
  <2> QED  BY <2>1, <2>2 DEF Shape, Places, Kinds
<1>4. ASSUME NEW a \in Admin, Read(a) \/ Validate(a) \/ Rejected(a) \/ Look(a) \/ Delete(a) \/ Die(a)
      PROVE  Shape'
  <2>1. CASE Read(a)
    BY <2>1 DEF Read, Shape, Places
  <2>2. CASE Validate(a)
    BY <1>0, <2>2 DEF Validate, Enabled, Shape, Places
  <2>3. CASE Rejected(a) \/ Die(a)
    BY <1>0, <2>3 DEF Rejected, Die, Shape, Places
  <2>4. CASE Look(a)
    BY <1>0, <2>4 DEF Look, Shape, Places
  <2>5. CASE Delete(a)
    BY <1>0, <2>5 DEF Delete, Shape, Places
  <2> QED  BY <1>4, <2>1, <2>2, <2>3, <2>4, <2>5
<1>5. ASSUME NEW a \in Admin, Create(a) PROVE Shape'
  BY <1>0, <1>5 DEF Create, Shape, Places
<1>6. ASSUME NEW a \in Admin, NEW t, Save(a, t) \/ Disable(a, t) PROVE Shape'
  <2>1. /\ pc[a] = "save" /\ pc' = [pc EXCEPT ![a] = pc'[a]] /\ pc'[a] \in {"read", "done"}
        /\ pc'[a] = "read" => op[a].kind \in {"add", "enable"}
        /\ UNCHANGED <<keyring, created, op, ref, old>>
        /\ snap' \in {snap, [snap EXCEPT ![a] = None]}
        /\ unloaded' \in {unloaded, [unloaded EXCEPT ![a] = {}]}
    BY <1>6 DEF Save, Disable, Shape
  <2>2. \/ \E s \in {"enabled", "disabled"} : Update([primary EXCEPT !.reg[op[a].plugin] = s], t)
        \/ UNCHANGED <<config, faults>>
    BY <1>6 DEF Save, Disable
  <2>3. \A s \in {"enabled", "disabled"} : [primary EXCEPT !.reg[op[a].plugin] = s] \in Configuration
    BY <2>1 DEF Shape, Configuration
  <2>4. primary' \in Configuration /\ recovery' \in Configuration /\ torn' \in Nat /\ faults' \in Nat
    <3> HIDE DEF Fault
    <3> QED  BY <2>2, <2>3, Updated DEF Shape
  <2> QED  BY <2>1, <2>4 DEF Shape, Places
<1>7. ASSUME NEW a \in Admin, NEW t, Replace(a, t) PROVE Shape'
  <2> DEFINE new == [primary EXCEPT !.cred[op[a].plugin] = IF op[a].kind = "set" THEN ref[a] ELSE None]
  <2>1. /\ pc[a] = "update" /\ pc' = [pc EXCEPT ![a] = pc'[a]] /\ pc'[a] \in {"unused", "failed", "done"}
        /\ UNCHANGED <<keyring, created, op, snap, ref, unloaded>>
    BY <1>7 DEF Replace, Shape
  <2>2. \/ Update(new, t) /\ old' = [old EXCEPT ![a] = primary.cred[op[a].plugin]]
        \/ UNCHANGED <<config, faults, old>>
    BY <1>7 DEF Replace
  <2>3. new \in Configuration /\ primary.cred[op[a].plugin] \in Ref \cup {None}
    BY <2>1 DEF Shape, Configuration
  <2>4. primary' \in Configuration /\ recovery' \in Configuration /\ torn' \in Nat /\ faults' \in Nat
    <3> HIDE DEF Fault, new
    <3> QED  BY <2>2, <2>3, Updated DEF Shape
  <2>5. old' \in [Admin -> Ref \cup {None}]
    BY <2>2, <2>3 DEF Shape
  <2> QED  BY <2>1, <2>4, <2>5 DEF Shape, Places
<1> QED  BY <1>1, <1>2, <1>3, <1>4, <1>5, <1>6, <1>7, Steps, Zenon DEF Step

(***************************************************************************)
(* Plugins that are enabled                                                *)
(***************************************************************************)
Compatible(c) == \A p, q \in Enabled(c) : <<p, q>> \in Conflict => <<p, q>> \in ignored

\* What an administrator is about to enable was loaded with all that is enabled in
\* the configuration it validated, and that could be loaded.
Validated(a) ==
  pc[a] = "save" /\ op[a].kind # "disable" =>
    \A q \in Enabled(snap[a]) \ unloaded[a] : <<q, op[a].plugin>> \notin Conflict

Loads == Compatible(primary) /\ Compatible(recovery) /\ \A a \in Admin : Validated(a)

LEMMA LoadsInit == Init => Loads
BY PluginsAssumption DEF Init, Loads, Compatible, Validated, Enabled

\* Only a plugin that was validated becomes enabled.
LEMMA SavedCompatible ==
  ASSUME Shape, Loads, NEW a \in Admin, NEW t, Save(a, t)
  PROVE  /\ ignored \subseteq ignored'
         /\ Compatible(primary)' /\ Compatible(recovery)'
<1> DEFINE p == op[a].plugin
           new == [primary EXCEPT !.reg[p] = "enabled"]
<1>1. CASE UNCHANGED <<config, ignored>>
  BY <1>1 DEF config, Loads, Compatible, Enabled
<1>2. CASE /\ Wanted(a, primary) /\ SameInputs(a) /\ Update(new, t)
           /\ ignored' = (IF t = "before" THEN ignored
                          ELSE ignored \cup {<<q, p>> : q \in unloaded[a]}
                                       \cup {<<p, q>> : q \in unloaded[a]})
  <2>1. /\ \/ primary' = new /\ recovery' = new /\ t = "no"
           \/ primary' = primary /\ recovery' = recovery /\ t = "before"
           \/ primary' = new /\ recovery' = recovery /\ t = "after"
    BY <1>2, Updated DEF Shape
  <2>2. ignored \subseteq ignored'
    BY <1>2
  <2>3. ASSUME t # "before", NEW x \in Enabled(new), NEW y \in Enabled(new), <<x, y>> \in Conflict
        PROVE  <<x, y>> \in ignored'
    <3>1. p \in Plugin /\ pc[a] = "save" /\ op[a].kind # "disable"
      BY DEF Save, Shape
    <3>2. Enabled(new) \subseteq Enabled(primary) \cup {p}
      BY <3>1 DEF Enabled, Shape, Configuration
    <3>3. \A q \in Enabled(primary) \ unloaded[a] : <<q, p>> \notin Conflict
      BY <1>2, <3>1 DEF Loads, Validated, SameInputs
    <3>4. x # y /\ <<y, x>> \in Conflict
      BY <2>3, PluginsAssumption
    <3>5. CASE x \in Enabled(primary) /\ y \in Enabled(primary)
      BY <2>2, <2>3, <3>5 DEF Loads, Compatible
    <3>6. CASE x = p /\ y \in unloaded[a]
      BY <1>2, <2>3, <3>6
    <3>7. CASE y = p /\ x \in unloaded[a]
      BY <1>2, <2>3, <3>7
    <3> QED  BY <2>3, <3>2, <3>3, <3>4, <3>5, <3>6, <3>7
  <2>4. \A c \in {primary, recovery} : \A x, y \in Enabled(c) :
          <<x, y>> \in Conflict => <<x, y>> \in ignored'
    BY <2>2 DEF Loads, Compatible
  <2> HIDE DEF new
  <2>5. Compatible(primary)'
    BY <2>1, <2>3, <2>4 DEF Compatible, Enabled
  <2>6. Compatible(recovery)'
    BY <2>1, <2>3, <2>4 DEF Compatible, Enabled
  <2> QED  BY <2>2, <2>5, <2>6
<1> QED  BY <1>1, <1>2 DEF Save

LEMMA LoadsStep == Shape /\ Loads /\ [Next]_vars => Loads'
<1> SUFFICES ASSUME Shape, Loads, [Next]_vars PROVE Loads'
  OBVIOUS
<1> USE DEF Goto, config, admin
\* A configuration with fewer enabled plugins is compatible.
<1>0. ASSUME NEW c, Compatible(c), UNCHANGED ignored, NEW d, Enabled(d) \subseteq Enabled(c)
      PROVE  Compatible(d)
  BY <1>0 DEF Compatible
<1>1. CASE UNCHANGED <<config, keyring, created, admin>> /\ (UNCHANGED faults \/ Fault)
  BY <1>1 DEF Loads, Compatible, Validated, Enabled
<1>2. CASE LosePrimary
  BY <1>2 DEF LosePrimary, Loads, Compatible, Validated, Enabled
<1>3. ASSUME NEW a \in Admin, Step(a) PROVE Loads'
  <2>1. CASE UNCHANGED <<config, ignored>> /\ (pc'[a] = "save" /\ op'[a].kind # "disable" => Validated(a)')
             /\ \A b \in Admin \ {a} : pc'[b] = pc[b] /\ op'[b] = op[b] /\ snap'[b] = snap[b]
                                       /\ unloaded'[b] = unloaded[b]
    BY <2>1 DEF Loads, Compatible, Validated, Enabled
  <2>2. ASSUME NEW p \in Plugin, NEW k \in {"add", "enable", "disable", "set", "remove"}, Begin(a, k, p)
        PROVE  Loads'
    <3>1. pc'[a] = "save" => op'[a].kind = "disable"
      BY <2>2 DEF Begin, Shape
    <3> QED  BY <2>1, <2>2, <3>1 DEF Begin, Shape
  <2>3. CASE Validate(a)
    BY <2>1, <2>3 DEF Validate, Validated, Enabled, Shape
  <2>4. CASE Read(a) \/ Rejected(a) \/ Create(a) \/ Look(a) \/ Delete(a) \/ Die(a)
    <3>1. pc'[a] # "save"
      BY <2>4 DEF Read, Rejected, Create, Look, Delete, Die, Shape
    <3> QED  BY <2>1, <2>4, <3>1 DEF Read, Rejected, Create, Look, Delete, Die, Shape
  <2>5. ASSUME NEW t, Save(a, t) PROVE Loads'
    <3>1. \A b \in Admin : Validated(b)'
      BY <2>5 DEF Save, Loads, Validated, Shape, Enabled
    <3> QED  BY <2>5, <3>1, SavedCompatible DEF Loads
  <2>6. ASSUME NEW t, Disable(a, t) \/ Replace(a, t) PROVE Loads'
    <3> DEFINE c1 == [primary EXCEPT !.reg[op[a].plugin] = "disabled"]
               c2 == [primary EXCEPT !.cred[op[a].plugin] = IF op[a].kind = "set" THEN ref[a] ELSE None]
    <3>1. Enabled(c1) \subseteq Enabled(primary) /\ Enabled(c2) \subseteq Enabled(primary)
      BY DEF Enabled, Shape, Configuration
    <3>2. UNCHANGED <<ignored, op, snap, unloaded>> /\ pc' = [pc EXCEPT ![a] = pc'[a]] /\ pc'[a] # "save"
      BY <2>6 DEF Disable, Replace, Shape
    <3>3. Update(c1, t) \/ Update(c2, t) \/ UNCHANGED config
      BY <2>6 DEF Disable, Replace
    <3>4. primary' \in {c1, c2, primary} /\ recovery' \in {c1, c2, recovery}
      <4> HIDE DEF c1, c2
      <4> QED  BY <3>3, Updated DEF Shape
    <3>5. Compatible(primary)' /\ Compatible(recovery)'
      <4> HIDE DEF c1, c2
      <4> QED  BY <3>1, <3>2, <3>4 DEF Loads, Compatible, Enabled
    <3>6. \A b \in Admin : Validated(b)'
      BY <3>2 DEF Loads, Validated, Enabled, Shape
    <3> QED  BY <3>5, <3>6 DEF Loads
  <2> QED  BY <1>3, <2>2, <2>3, <2>4, <2>5, <2>6, Zenon DEF Step
<1> QED  BY <1>1, <1>2, <1>3, Steps

(***************************************************************************)
(* Secrets                                                                 *)
(***************************************************************************)
Setting(a) == pc[a] = "update" /\ op[a].kind = "set"
InFiles == Referenced(primary) \cup Referenced(recovery)
Once(c) == \A p, q \in Plugin : c.cred[p] = c.cred[q] /\ c.cred[p] # None => p = q

\* Every reference was given out, to one administrator, and is used once.
Given ==
  /\ InFiles \subseteq created /\ Once(primary) /\ Once(recovery)
  /\ \A a \in Admin : /\ ref[a] # None => ref[a] \in created
                      /\ old[a] # None => old[a] \in created
                      /\ \A b \in Admin : ref[a] = ref[b] /\ ref[a] # None => a = b

\* Where the secret is that an administrator has in its hands.
Held(a) ==
  /\ Setting(a) => /\ ref[a] \in keyring \ InFiles /\ \A b \in Admin : old[b] # ref[a]
  /\ pc[a] = "failed" /\ torn = 0 => ref[a] \notin InFiles
  /\ pc[a] = "failed" /\ torn <= 1 /\ ref[a] \in Referenced(recovery) => ref[a] \in Referenced(primary)
  /\ pc[a] = "deleteNew" /\ torn <= 1 => ref[a] \notin InFiles
  /\ pc[a] \in {"unused", "delete"} => old[a] \notin InFiles

\* Who will delete a secret that nothing refers to.
Claimed(a, r) ==
  \/ r = ref[a] /\ (Setting(a) \/ pc[a] \in {"failed", "deleteNew"})
  \/ r = old[a] /\ pc[a] \in {"unused", "delete"}

NoneIsLost ==
  /\ torn <= faults
  /\ faults = 0 => \A r \in keyring : r \in Referenced(primary) \/ \E a \in Admin : Claimed(a, r)

Secrets == Given /\ (\A a \in Admin : Held(a)) /\ SecretsExist /\ NoneIsLost

LEMMA SecretsInit == Init => Secrets
BY PluginsAssumption DEF Init, Secrets, Given, InFiles, Once, Referenced, Held, Setting, SecretsExist, NoneIsLost

\* Whoever moves has no secret in its hands afterwards, and none before unless it fails.
EmptyHanded(b) ==
  /\ ~Setting(b)' /\ pc'[b] \notin {"unused", "failed", "delete", "deleteNew"}
  /\ faults' = 0 => ~Setting(b) /\ pc[b] \notin {"unused", "failed", "delete", "deleteNew"}

\* A step that leaves the secrets and the references of both files alone, or makes
\* one file refer to what the other one does.
LEMMA SecretsFrame ==
  ASSUME Shape, Shape', Secrets, UNCHANGED <<keyring, created, ref, old>>,
         \/ torn' = torn /\ faults' \in {faults, faults + 1}
         \/ torn' = torn + 1 /\ faults' = faults + 1,
         \/ /\ Referenced(primary)' = Referenced(primary)
            /\ Referenced(recovery)' \in {Referenced(primary), Referenced(recovery)}
         \/ /\ Referenced(primary)' = Referenced(recovery) /\ faults' = faults + 1
            /\ Referenced(recovery)' = Referenced(recovery),
         Once(primary)', Once(recovery)',
         \A b \in Admin : (pc'[b] = pc[b] /\ op'[b] = op[b]) \/ EmptyHanded(b)
  PROVE  Secrets'
<1>0. torn \in Nat /\ faults \in Nat /\ InFiles' \subseteq InFiles
  BY DEF Shape, InFiles
<1>1. Given'
  BY <1>0 DEF Secrets, Given
<1>2. ASSUME NEW b \in Admin PROVE Held(b)'
  <2>1. CASE EmptyHanded(b)
    BY <2>1 DEF Held, EmptyHanded
  <2>2. CASE pc'[b] = pc[b] /\ op'[b] = op[b]
    <3>1. /\ Held(b) /\ (torn' <= 1 => torn <= 1) /\ (torn' = 0 => torn = 0)
          /\ Setting(b)' => Setting(b)
      BY <1>0, <2>2 DEF Secrets, Setting
    <3>2. pc[b] = "failed" /\ torn' <= 1 /\ ref[b] \in Referenced(recovery)'
            => ref[b] \in Referenced(primary)'
      BY <1>0, <3>1 DEF Held, InFiles
    <3> QED  BY <1>0, <2>2, <3>1, <3>2 DEF Held
  <2> QED  BY <2>1, <2>2
<1>3. torn' <= faults'
  BY <1>0 DEF Secrets, NoneIsLost
<1>4. ASSUME faults' = 0, NEW r \in keyring', r \notin Referenced(primary)'
      PROVE  \E b \in Admin : Claimed(b, r)'
  <2>1. faults = 0 /\ Referenced(primary)' = Referenced(primary)
    BY <1>0, <1>4
  <2>2. PICK b \in Admin : Claimed(b, r)
    BY <1>4, <2>1 DEF Secrets, NoneIsLost
  <2> QED  BY <1>4, <2>2 DEF Claimed, Setting, EmptyHanded
<1>5. SecretsExist'
  BY <1>0 DEF Secrets, SecretsExist, InFiles
<1> QED  BY <1>1, <1>2, <1>3, <1>4, <1>5 DEF Secrets, NoneIsLost

LEMMA SecretsStep == Shape /\ Shape' /\ Secrets /\ [Next]_vars => Secrets'
<1> SUFFICES ASSUME Shape, Shape', Secrets, [Next]_vars PROVE Secrets'
  OBVIOUS
<1> USE DEF Goto, config, admin
<1>0. Once(primary) /\ Once(recovery) /\ torn \in Nat /\ faults \in Nat
  BY DEF Secrets, Given, Shape
<1>1. CASE UNCHANGED <<config, keyring, created, admin>> /\ (UNCHANGED faults \/ Fault)
  BY <1>0, <1>1, SecretsFrame DEF Fault, Once, Referenced
<1>2. CASE LosePrimary
  BY <1>0, <1>2, SecretsFrame DEF LosePrimary, Fault, Once, Referenced
<1>3. ASSUME NEW a \in Admin, Step(a) PROVE Secrets'
  <2>1. ASSUME NEW p \in Plugin, NEW k \in {"add", "enable", "disable", "set", "remove"}, Begin(a, k, p)
        PROVE  Secrets'
    <3>1. UNCHANGED <<config, keyring, created, ref, old, faults>> /\ pc[a] = "idle"
      BY <2>1 DEF Begin
    <3>2. /\ \A b \in Admin \ {a} : pc'[b] = pc[b] /\ op'[b] = op[b]
          /\ pc'[a] \in {"read", "save", "create", "update"} /\ (pc'[a] = "update" => op'[a].kind = "remove")
      BY <2>1 DEF Begin, Shape
    <3>3. EmptyHanded(a)
      BY <3>1, <3>2 DEF EmptyHanded, Setting
    <3> QED  BY <1>0, <3>1, <3>2, <3>3, SecretsFrame DEF Once, Referenced
  <2>2. CASE Read(a) \/ Validate(a) \/ Rejected(a) \/ Die(a)
    <3>1. UNCHANGED <<config, keyring, created, ref, old, op>> /\ (UNCHANGED faults \/ Fault)
      BY <2>2 DEF Read, Validate, Rejected, Die
    <3>2. /\ \A b \in Admin \ {a} : pc'[b] = pc[b]
          /\ pc'[a] \in {"validate", "save", "done"} /\ (pc[a] \in {"read", "validate"} \/ Fault)
      BY <2>2 DEF Read, Validate, Rejected, Die, Shape
    <3>3. EmptyHanded(a)
      BY <1>0, <3>1, <3>2 DEF EmptyHanded, Setting, Fault
    <3> QED  BY <1>0, <3>1, <3>2, <3>3, SecretsFrame DEF Once, Referenced, Fault
  <2>3. ASSUME NEW t, Save(a, t) \/ Disable(a, t) PROVE Secrets'
    <3> DEFINE c1 == [primary EXCEPT !.reg[op[a].plugin] = "disabled"]
               c2 == [primary EXCEPT !.reg[op[a].plugin] = "enabled"]
    <3>1. c1.cred = primary.cred /\ c2.cred = primary.cred
      BY DEF Shape, Configuration
    <3>2. UNCHANGED <<keyring, created, ref, old, op>>
      BY <2>3 DEF Save, Disable
    <3>3. /\ \A b \in Admin \ {a} : pc'[b] = pc[b]
          /\ pc[a] = "save" /\ pc'[a] \in {"read", "done"}
      BY <2>3 DEF Save, Disable, Shape
    <3>4. Update(c1, t) \/ Update(c2, t) \/ UNCHANGED <<config, faults>>
      BY <2>3 DEF Save, Disable
    <3>5. EmptyHanded(a)
      BY <3>3 DEF EmptyHanded, Setting
    <3> HIDE DEF c1, c2
    <3>6. /\ primary'.cred = primary.cred
          /\ recovery'.cred \in {primary.cred, recovery.cred}
          /\ \/ torn' = torn /\ faults' \in {faults, faults + 1}
             \/ torn' = torn + 1 /\ faults' = faults + 1
      BY <1>0, <3>1, <3>4 DEF Update, Fault
    <3> QED  BY <1>0, <3>2, <3>3, <3>5, <3>6, SecretsFrame DEF Once, Referenced
  <2>4. CASE Create(a)
    <3>1. PICK r \in Ref \ created :
            /\ created' = created \cup {r} /\ ref' = [ref EXCEPT ![a] = r]
            /\ \/ keyring' = keyring \cup {r} /\ Goto(a, "update") /\ UNCHANGED faults
               \/ Fault /\ Goto(a, "done") /\ keyring' \in {keyring, keyring \cup {r}}
      BY <2>4 DEF Create
    <3>2. UNCHANGED <<config, op, old>> /\ pc[a] = "create" /\ InFiles' = InFiles
      BY <2>4 DEF Create, InFiles, Referenced
    <3>3. Given'
      BY <3>1, <3>2 DEF Secrets, Given, Shape, Once
    <3>4. ASSUME NEW b \in Admin PROVE Held(b)'
      BY <3>1, <3>2, PluginsAssumption DEF Secrets, Given, Held, Setting, Shape, InFiles, Referenced
    <3>5. SecretsExist'
      BY <3>1, <3>2 DEF Secrets, SecretsExist, Referenced
    <3>6. ASSUME faults' = 0, NEW q \in keyring', q \notin Referenced(primary)
          PROVE  \E b \in Admin : Claimed(b, q)'
      <4>1. /\ faults = 0 /\ keyring' = keyring \cup {r} /\ ref'[a] = r
            /\ pc' = [pc EXCEPT ![a] = "update"] /\ Setting(a)'
        BY <1>0, <3>1, <3>2, <3>6 DEF Fault, Shape, Setting
      <4>2. CASE q = r
        BY <4>1, <4>2 DEF Claimed
      <4>3. CASE q # r
        <5>1. PICK b \in Admin : Claimed(b, q)
          BY <3>6, <4>1, <4>3 DEF Secrets, NoneIsLost
        <5>2. b # a
          BY <3>2, <5>1 DEF Claimed, Setting
        <5> QED  BY <3>1, <3>2, <4>1, <5>1, <5>2 DEF Claimed, Setting, Shape
      <4> QED  BY <4>2, <4>3
    <3>7. NoneIsLost'
      BY <1>0, <3>1, <3>2, <3>6 DEF Secrets, NoneIsLost, Fault, Referenced
    <3> QED  BY <3>3, <3>4, <3>5, <3>7 DEF Secrets
  <2>5. ASSUME NEW t, Replace(a, t) PROVE Secrets'
    <3> DEFINE p == op[a].plugin
               v == IF op[a].kind = "set" THEN ref[a] ELSE None
               new == [primary EXCEPT !.cred[p] = v]
    <3>1. /\ pc[a] = "update" /\ p \in Plugin /\ (Setting(a) <=> op[a].kind = "set")
          /\ UNCHANGED <<keyring, created, ref, op>> /\ pc' = [pc EXCEPT ![a] = pc'[a]]
      BY <2>5 DEF Replace, Shape, Setting
    <3>2. /\ v # None => v \in keyring \ InFiles /\ v = ref[a] /\ Setting(a)
          /\ Setting(a) => v = ref[a] /\ v # None
      BY <3>1, PluginsAssumption DEF Secrets, Held, Setting, Shape
    <3>3. CASE /\ UNCHANGED <<config, old, faults>>
               /\ pc'[a] = IF op[a].kind = "set" THEN "failed" ELSE "done"
      <4>1. Given'
        BY <3>1, <3>3 DEF Secrets, Given, InFiles, Once, Referenced
      <4>2. ASSUME NEW b \in Admin PROVE Held(b)'
        <5>1. Held(b) /\ Held(a) /\ Referenced(primary)' = Referenced(primary)
              /\ Referenced(recovery)' = Referenced(recovery) /\ torn' = torn
          BY <3>3 DEF Secrets, Referenced
        <5>2. CASE b = a
          BY <3>1, <3>3, <5>1, <5>2 DEF Held, Setting, InFiles
        <5>3. CASE b # a
          <6>1. pc'[b] = pc[b]
            BY <3>1, <5>3 DEF Shape
          <6> QED  BY <3>1, <3>3, <5>1, <6>1 DEF Held, Setting, InFiles
        <5> QED  BY <5>2, <5>3
      <4>3. ASSUME faults = 0, NEW r \in keyring, r \notin Referenced(primary)
            PROVE  \E b \in Admin : Claimed(b, r)'
        <5>1. PICK b \in Admin : Claimed(b, r)
          BY <4>3 DEF Secrets, NoneIsLost
        <5>2. CASE b = a
          <6>1. Setting(a) /\ r = ref[a]
            BY <3>1, <5>1, <5>2 DEF Claimed
          <6> QED  BY <3>1, <3>3, <6>1 DEF Claimed
        <5>3. CASE b # a
          <6>1. pc'[b] = pc[b]
            BY <3>1, <5>3 DEF Shape
          <6> QED  BY <3>1, <3>3, <5>1, <6>1 DEF Claimed, Setting
        <5> QED  BY <5>2, <5>3
      <4> QED  BY <3>1, <3>3, <4>1, <4>2, <4>3 DEF Secrets, SecretsExist, NoneIsLost, Referenced
    <3>4. CASE /\ Update(new, t) /\ old' = [old EXCEPT ![a] = primary.cred[p]]
               /\ pc'[a] = IF t = "no" THEN "unused"
                           ELSE IF op[a].kind = "set" THEN "failed" ELSE "done"
      <4>1. /\ Referenced(new) = (Referenced(primary) \ {primary.cred[p]}) \cup ({v} \ {None})
            /\ Once(new)
        <5>1. new.cred = [primary.cred EXCEPT ![p] = v] /\ primary.cred \in [Plugin -> Ref \cup {None}]
          BY DEF Shape, Configuration
        <5>2. \A q \in Plugin : new.cred[q] = IF q = p THEN v ELSE primary.cred[q]
          BY <3>1, <5>1
        <5>3. \A q \in Plugin : primary.cred[q] # None => primary.cred[q] # v
          BY <3>2 DEF InFiles, Referenced
        <5> HIDE DEF v, new, p
        <5>4. Once(new)
          BY <1>0, <3>1, <5>2, <5>3 DEF Once
        <5>5. \A x \in Referenced(new) : x \in (Referenced(primary) \ {primary.cred[p]}) \cup ({v} \ {None})
          BY <1>0, <3>1, <5>2 DEF Once, Referenced
        <5>6. \A x \in Referenced(primary) \ {primary.cred[p]} : x \in Referenced(new)
          BY <5>2 DEF Referenced
        <5>7. v # None => v \in Referenced(new)
          BY <3>1, <5>2 DEF Referenced
        <5> QED  BY <5>4, <5>5, <5>6, <5>7, Zenon DEF Referenced
      <4>2. primary.cred[p] \in Referenced(primary) \cup {None}
        <5> HIDE DEF p
        <5> QED  BY <3>1 DEF Referenced
      <4> HIDE DEF v, new, p
      <4>3. /\ torn' \in Nat /\ faults' \in Nat
            /\ \/ primary' = new /\ recovery' = new /\ t = "no" /\ torn' = torn /\ faults' = faults
               \/ primary' = primary /\ recovery' = recovery /\ t = "before" /\ torn' = torn
                  /\ faults' = faults + 1
               \/ primary' = new /\ recovery' = recovery /\ t = "after" /\ torn' = torn + 1
                  /\ faults' = faults + 1
        BY <1>0, <3>4 DEF Update, Fault
      <4>4. /\ Referenced(primary)' \in {Referenced(primary), Referenced(new)}
            /\ Referenced(recovery)' \in {Referenced(recovery), Referenced(new)}
            /\ InFiles' \subseteq InFiles \cup ({v} \ {None})
        BY <4>1, <4>3 DEF InFiles, Referenced
      <4>5. Given'
        <5>1. InFiles' \subseteq created' /\ Once(primary)' /\ Once(recovery)'
          BY <1>0, <3>1, <3>2, <4>1, <4>3, <4>4 DEF Secrets, Given, Shape, Once
        <5> QED  BY <3>1, <3>4, <4>2, <5>1 DEF Secrets, Given, InFiles, Shape
      <4>6. ASSUME NEW b \in Admin, b # a PROVE Held(b)'
        <5>1. Held(b) /\ pc'[b] = pc[b] /\ op'[b] = op[b] /\ ref'[b] = ref[b] /\ old'[b] = old[b]
          BY <3>1, <3>4, <4>6 DEF Secrets, Shape
        <5>2. ref[b] # None => ref[b] # v
          BY <3>2, <4>6 DEF Secrets, Given
        <5>3. Setting(b)' => /\ Setting(b) /\ ref[b] \in keyring' \ InFiles'
                             /\ \A c \in Admin : old'[c] # ref[b]
          <6>1. Setting(b)' => Setting(b)
            BY <5>1 DEF Setting
          <6>2. Setting(b) => ref[b] # None /\ primary.cred[p] # ref[b]
            BY <4>2, <5>1, PluginsAssumption DEF Held, InFiles, Shape
          <6> QED  BY <3>1, <3>4, <4>4, <5>1, <5>2, <6>1, <6>2 DEF Held, Shape
        <5>4. pc[b] = "failed" /\ torn' = 0 => ref[b] \notin InFiles'
          BY <1>0, <4>3, <4>4, <5>1, <5>2 DEF Held, InFiles, Referenced
        <5>5. pc[b] = "failed" /\ torn' <= 1 /\ ref[b] \in Referenced(recovery)'
                => ref[b] \in Referenced(primary)'
          <6>1. CASE Referenced(primary)' = Referenced(recovery)'
            BY <6>1
          <6>2. CASE UNCHANGED <<primary, recovery, torn>>
            BY <5>1, <6>2 DEF Held, Referenced
          <6>3. CASE recovery' = recovery /\ torn' = torn + 1
            BY <1>0, <5>1, <6>3 DEF Held, InFiles, Referenced
          <6> QED  BY <4>3, <6>1, <6>2, <6>3 DEF Referenced
        <5>6. pc[b] = "deleteNew" /\ torn' <= 1 => ref[b] \notin InFiles'
          BY <1>0, <4>3, <4>4, <5>1, <5>2 DEF Held, InFiles, Referenced
        <5>7. pc[b] \in {"unused", "delete"} => old[b] \notin InFiles'
          <6>1. v # None => old[b] # v
            BY <3>2 DEF Secrets, Held
          <6> QED  BY <4>4, <5>1, <6>1 DEF Held
        <5> QED  BY <5>1, <5>3, <5>4, <5>5, <5>6, <5>7 DEF Held, Setting
      <4>7. Held(a)'
        <5>1. pc'[a] \in {"unused", "failed", "done"} /\ ref'[a] = ref[a] /\ old'[a] = primary.cred[p]
          BY <3>1, <3>4 DEF Shape
        <5>2. pc'[a] = "unused" => primary.cred[p] \notin InFiles'
          <6>1. primary.cred[p] # None => primary.cred[p] # v
            BY <3>2, <4>2 DEF InFiles
          <6>2. pc'[a] = "unused" => primary' = new /\ recovery' = new
            BY <3>4, <4>3
          <6>3. pc'[a] = "unused" => InFiles' = Referenced(new)
            BY <6>2 DEF InFiles, Referenced
          <6> QED  BY <4>1, <6>1, <6>3
        <5>3. pc'[a] = "failed" /\ torn' = 0 => ref[a] \notin InFiles'
          BY <1>0, <3>1, <3>2, <3>4, <4>3 DEF InFiles, Referenced
        <5>4. pc'[a] = "failed" => ref[a] \notin Referenced(recovery)'
          BY <3>1, <3>2, <3>4, <4>3 DEF InFiles, Referenced
        <5> QED  BY <5>1, <5>2, <5>3, <5>4 DEF Held, Setting
      <4>8. SecretsExist'
        BY <1>0, <3>1, <3>2, <4>3, <4>4 DEF Secrets, SecretsExist, InFiles
      <4>9. ASSUME faults' = 0, NEW r \in keyring', r \notin Referenced(primary)'
            PROVE  \E b \in Admin : Claimed(b, r)'
        <5>1. /\ faults = 0 /\ primary' = new /\ pc'[a] = "unused" /\ old'[a] = primary.cred[p]
              /\ Referenced(primary)' = Referenced(new)
          BY <1>0, <3>1, <3>4, <4>3, <4>9 DEF Referenced, Shape
        <5>2. CASE r = primary.cred[p]
          BY <5>1, <5>2 DEF Claimed
        <5>3. CASE r # primary.cred[p]
          <6>1. PICK b \in Admin : Claimed(b, r)
            BY <3>1, <4>1, <4>9, <5>1, <5>3 DEF Secrets, NoneIsLost
          <6>2. r # v
            BY <4>1, <4>9, <5>1, PluginsAssumption DEF Shape
          <6>3. ~Claimed(a, r)
            BY <3>1, <3>2, <6>2 DEF Claimed
          <6>4. b # a
            BY <6>1, <6>3
          <6> QED  BY <3>1, <3>4, <6>1, <6>4 DEF Claimed, Setting, Shape
        <5> QED  BY <5>2, <5>3
      <4>10. NoneIsLost'
        BY <1>0, <4>3, <4>9 DEF Secrets, NoneIsLost
      <4> QED  BY <4>5, <4>6, <4>7, <4>8, <4>10 DEF Secrets
    <3>5. \/ /\ UNCHANGED <<config, old, faults>>
             /\ pc' = [pc EXCEPT ![a] = IF op[a].kind = "set" THEN "failed" ELSE "done"]
          \/ /\ Update(new, t) /\ old' = [old EXCEPT ![a] = primary.cred[p]]
             /\ pc' = [pc EXCEPT ![a] = IF t = "no" THEN "unused"
                           ELSE IF op[a].kind = "set" THEN "failed" ELSE "done"]
      BY <2>5 DEF Replace
    <3> HIDE DEF new, p
    <3> QED  BY <3>3, <3>4, <3>5 DEF Shape
  <2>6. CASE Look(a)
    <3>1. /\ UNCHANGED <<config, keyring, created, ref, old, op>> /\ pc[a] \in {"unused", "failed"}
          /\ \A b \in Admin \ {a} : pc'[b] = pc[b]
      BY <2>6 DEF Look, Shape
    <3>2. CASE Fault /\ pc'[a] = "done"
      <4>1. EmptyHanded(a)
        BY <1>0, <3>2 DEF EmptyHanded, Setting, Fault
      <4> QED  BY <1>0, <3>1, <3>2, <4>1, SecretsFrame DEF Once, Referenced, Fault
    <3>3. CASE /\ UNCHANGED faults
               /\ pc'[a] = IF Superfluous(a) \in Referenced(primary) \cup {None} THEN "done"
                           ELSE IF pc[a] = "failed" THEN "deleteNew" ELSE "delete"
      <4>1. Given'
        BY <3>1 DEF Secrets, Given, InFiles, Once, Referenced
      <4>2. ASSUME NEW b \in Admin PROVE Held(b)'
        BY <3>1, <3>3 DEF Secrets, Held, Setting, InFiles, Referenced, Superfluous
      <4>3. ASSUME faults = 0, NEW r \in keyring, r \notin Referenced(primary)
            PROVE  \E b \in Admin : Claimed(b, r)'
        <5>1. PICK b \in Admin : Claimed(b, r)
          BY <4>3 DEF Secrets, NoneIsLost
        <5>2. r # None
          BY <4>3, PluginsAssumption DEF Shape
        <5> QED  BY <3>1, <3>3, <4>3, <5>1, <5>2 DEF Claimed, Setting, Superfluous
      <4> QED  BY <3>1, <3>3, <4>1, <4>2, <4>3 DEF Secrets, SecretsExist, NoneIsLost, Referenced
    <3> QED  BY <2>6, <3>2, <3>3 DEF Look, Shape
  <2>7. CASE Delete(a)
    <3>1. /\ UNCHANGED <<config, created, ref, old, op>> /\ pc[a] \in {"delete", "deleteNew"}
          /\ pc' = [pc EXCEPT ![a] = "done"] /\ InFiles' = InFiles
      BY <2>7 DEF Delete, InFiles, Referenced
    <3>2. PICK d : /\ d = IF pc[a] = "deleteNew" THEN ref[a] ELSE old[a]
                   /\ \/ keyring' = keyring \ {d} /\ UNCHANGED faults
                      \/ Fault /\ UNCHANGED keyring
      BY <2>7 DEF Delete
    <3>3. Given'
      BY <3>1 DEF Secrets, Given, Once
    <3>4. torn <= 1 => d \notin InFiles
      BY <3>1, <3>2 DEF Secrets, Held
    <3>5. ASSUME NEW b \in Admin PROVE Held(b)'
      <4>1. Setting(b)' => Setting(b) /\ b # a
        BY <3>1 DEF Setting, Shape
      <4>2. Setting(b) => d # ref[b]
        BY <3>1, <3>2, <4>1, PluginsAssumption DEF Secrets, Given, Held, Setting, Shape
      <4>3. pc'[b] = IF b = a THEN "done" ELSE pc[b]
        BY <3>1 DEF Shape
      <4>4. Held(b) /\ Referenced(primary)' = Referenced(primary) /\ Referenced(recovery)' = Referenced(recovery)
        BY <3>1 DEF Secrets, Referenced
      <4> QED  BY <3>1, <3>2, <4>1, <4>2, <4>3, <4>4 DEF Held
    <3>6. SecretsExist'
      BY <3>1, <3>2, <3>4 DEF Secrets, SecretsExist, InFiles, Referenced
    <3>7. ASSUME faults' = 0, NEW r \in keyring', r \notin Referenced(primary)
          PROVE  \E b \in Admin : Claimed(b, r)'
      <4>1. faults = 0 /\ r \in keyring /\ r # d
        BY <1>0, <3>2, <3>7 DEF Fault
      <4>2. PICK b \in Admin : Claimed(b, r)
        BY <3>7, <4>1 DEF Secrets, NoneIsLost
      <4>3. b # a
        BY <3>1, <3>2, <4>1, <4>2 DEF Claimed, Setting
      <4> QED  BY <3>1, <4>2, <4>3 DEF Claimed, Setting, Shape
    <3>8. NoneIsLost'
      BY <1>0, <3>1, <3>2, <3>7 DEF Secrets, NoneIsLost, Fault, Referenced
    <3> QED  BY <3>3, <3>5, <3>6, <3>8 DEF Secrets
  <2> QED  BY <1>3, <2>1, <2>2, <2>3, <2>4, <2>5, <2>6, <2>7, Zenon DEF Step
<1> QED  BY <1>1, <1>2, <1>3, Steps

(***************************************************************************)
(* Runtimes                                                                *)
(***************************************************************************)
\* A runtime that is about to be used was ready at a moment since which every
\* configuration in force is noted.
Fitting ==
  /\ DOMAIN call = Opener /\ DOMAIN seen = Opener
  /\ \A o \in Opener : call[o] = "recheck" => primary \in seen[o]

LEMMA FittingInit == Init => Fitting
BY DEF Init, Fitting

\* An administrator's step notes the configuration that it puts in force.
LEMMA Noted ==
  ASSUME NEW a \in Admin, Step(a)
  PROVE  /\ UNCHANGED opener
         /\ \/ UNCHANGED <<primary, seen>>
            \/ \E c : primary' = c /\ Note(c)
<1> USE DEF config, admin
<1>1. ASSUME NEW p \in Plugin, NEW k \in {"add", "enable", "disable", "set", "remove"}, Begin(a, k, p)
      PROVE  UNCHANGED <<primary, seen, opener>>
  BY <1>1 DEF Begin
<1>2. CASE Read(a) \/ Validate(a) \/ Rejected(a) \/ Create(a) \/ Look(a) \/ Delete(a) \/ Die(a)
  BY <1>2 DEF Read, Validate, Rejected, Create, Look, Delete, Die
<1>3. ASSUME NEW t, Save(a, t) \/ Disable(a, t) \/ Replace(a, t)
      PROVE  /\ UNCHANGED opener
             /\ UNCHANGED <<primary, seen>> \/ \E c : primary' = c /\ Note(c)
  <2>1. UNCHANGED opener /\ ((\E c : Update(c, t)) \/ UNCHANGED <<config, seen>>)
    BY <1>3 DEF Save, Disable, Replace
  <2> QED  BY <2>1 DEF Update
<1> QED  BY <1>1, <1>2, <1>3, Zenon DEF Step

LEMMA FittingStep == Fitting /\ [Next]_vars => Fitting'
<1> SUFFICES ASSUME Fitting, [Next]_vars PROVE Fitting'
  OBVIOUS
<1> USE DEF config, opener, GotoCall
<1>1. CASE UNCHANGED vars
  BY <1>1 DEF vars, Fitting
<1>2. ASSUME NEW c, primary' = c, Note(c), UNCHANGED call PROVE Fitting'
  BY <1>2 DEF Note, Fitting
<1>3. ASSUME NEW a \in Admin, Step(a) PROVE Fitting'
  BY <1>2, <1>3, Noted DEF Fitting
<1>4. CASE LosePrimary
  BY <1>2, <1>4 DEF LosePrimary
<1>5. ASSUME NEW o \in Opener, Reads(o) \/ Joins(o) \/ Opens(o) PROVE Fitting'
  BY <1>5 DEF Reads, Joins, Has, Opens, Forgets, Fitting
<1>6. CASE BuildReads \/ BuildEnds \/ BuildFails
  BY <1>6 DEF BuildReads, BuildEnds, BuildFails, Resolve, Fitting
<1> QED  BY <1>1, <1>3, <1>4, <1>5, <1>6, Zenon DEF Next, Step

(***************************************************************************)
(* The theorems                                                            *)
(***************************************************************************)
Inv == Shape /\ Loads /\ Secrets /\ Fitting

LEMMA Inductive == Spec => []Inv
<1>1. Init => Inv
  BY ShapeInit, LoadsInit, SecretsInit, FittingInit DEF Inv
<1>2. Inv /\ [Next]_vars => Inv'
  BY ShapeStep, LoadsStep, SecretsStep, FittingStep DEF Inv
<1> QED  BY <1>1, <1>2, PTL DEF Spec

\* For any number of administrators and plugins, no two plugins in conflict are
\* enabled, unless one of them failed to load when the other one was accepted.
THEOREM NoConflicts == Spec => []EnabledLoadTogether
<1>1. Loads => EnabledLoadTogether
  BY PluginsAssumption DEF Loads, Compatible, EnabledLoadTogether
<1> QED  BY <1>1, Inductive, PTL DEF Inv

\* For any number of administrators, references and failures, no reference of Local
\* State dangles, and without failures every secret has its reference.
THEOREM NoSecretIsLost == Spec => []SecretsMatchReferences
<1>1. Shape /\ Secrets => SecretsMatchReferences
  <2>1. ASSUME Shape, Secrets, faults = 0, \A a \in Admin : pc[a] \in {"idle", "done"}
        PROVE  keyring = Referenced(primary)
    <3>1. \A a \in Admin, r \in keyring : ~Claimed(a, r)
      BY <2>1 DEF Claimed, Setting
    <3>2. torn <= 1
      BY <2>1 DEF Shape, Secrets, NoneIsLost
    <3> QED  BY <2>1, <3>1, <3>2 DEF Secrets, NoneIsLost, SecretsExist
  <2> QED  BY <2>1 DEF Secrets, SecretsMatchReferences, NoOrphans
<1> QED  BY <1>1, Inductive, PTL DEF Inv

\* For any number of openers, an endpoint is opened with a configuration that was in
\* force when its runtime was ready, or since then.
THEOREM RuntimesAreCurrent == Spec => OpenedWithCurrent
<1>1. ASSUME Fitting, [Next]_vars, NEW o \in Opener, call[o] # "opened", call'[o] = "opened"
      PROVE  used[o] \in seen[o]
  <2> USE <1>1 DEF opener, GotoCall
  <2>1. CASE UNCHANGED vars
    BY <2>1 DEF vars
  <2>2. ASSUME NEW a \in Admin, Step(a) PROVE FALSE
    BY <2>2, Noted
  <2>3. CASE LosePrimary
    BY <2>3 DEF LosePrimary
  <2>4. ASSUME NEW q \in Opener, Reads(q) \/ Joins(q) \/ Opens(q) PROVE used[o] \in seen[o]
    BY <2>4 DEF Reads, Joins, Has, Opens, Fitting
  <2>5. CASE BuildReads \/ BuildEnds \/ BuildFails
    BY <2>5 DEF BuildReads, BuildEnds, BuildFails, Resolve
  <2> QED  BY <2>1, <2>2, <2>3, <2>4, <2>5, Zenon DEF Next, Step
<1>2. Fitting /\ [Next]_vars =>
        [\A o \in Opener : (call[o] # "opened" /\ call'[o] = "opened") => used[o] \in seen[o]]_vars
  BY <1>1
<1> QED  BY <1>2, Inductive, PTL DEF Inv, Spec, OpenedWithCurrent

=============================================================================
