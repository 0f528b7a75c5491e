----------------------- MODULE EndpointIntentsProofs -----------------------
(***************************************************************************)
(* The safety of the intent service for every number of names, instances,  *)
(* calls, drains and realizations:                                         *)
(*   TypeCorrect        the types, whatever fails and overlaps             *)
(*   ServesDefinitions  what is live, and what a restart would serve, is   *)
(*                      what is defined                                    *)
(*   TunnelsAreKept     no tunnel is lost                                  *)
(*   EndedIsClosed      what was drained or shut down stays closed         *)
(* The invariant is a conjunction of parts, each with a lemma that says    *)
(* that steps keep it.  Most of these lemmas do not look at the actions:   *)
(* Kinds sorts the steps by their effect on the runtime objects and the    *)
(* realizations, and a part of the invariant is proved for each kind.      *)
(***************************************************************************)
EXTENDS EndpointIntents, TLAPS

\* What is used of the constants.
LEMMA Constants ==
  /\ MaxLife \in Nat \ {0}
  /\ NoInstance \notin Instance
  /\ Real \subseteq Nat \ {0}
  /\ Request \cap Drainer = {}
BY IntentsAssumption, Zenon DEF NoInstance

LEMMA Lifetimes ==
  /\ 0 \in 0 .. MaxLife /\ 1 \in 1 .. MaxLife
  /\ \A k \in 1 .. MaxLife : k \in 0 .. MaxLife /\ k # 0
BY Constants

LEMMA DefinitionsOf ==
  /\ Absent \in Definitions /\ Absent.inst = NoInstance /\ Absent.kind = "absent"
  /\ \A i \in Instance, en \in BOOLEAN :
       /\ Definition(i, en) \in Definitions /\ Definition(i, en) # Absent
       /\ Definition(i, en).inst = i
       /\ Definition(i, en).kind = (IF en THEN "enabled" ELSE "disabled")
  /\ \A d \in Definitions : d # Absent =>
       /\ d.inst \in Instance /\ \E en \in BOOLEAN : d = Definition(d.inst, en)
       /\ [d EXCEPT !.kind = "disabled"] = Definition(d.inst, FALSE)
<1>1. ASSUME NEW i, NEW en \in BOOLEAN
      PROVE  [Definition(i, en) EXCEPT !.kind = "disabled"] = Definition(i, FALSE)
  BY DEF Definition
<1>2. \A d \in Definitions : d # Absent =>
        d.inst \in Instance /\ \E en \in BOOLEAN : d = Definition(d.inst, en)
  BY DEF Definitions, Definition
<1>3. Absent \in Definitions /\ Absent.inst = NoInstance /\ Absent.kind = "absent"
  BY DEF Definitions, Absent
<1>4. ASSUME NEW i \in Instance, NEW en \in BOOLEAN
      PROVE  /\ Definition(i, en) \in Definitions /\ Definition(i, en) # Absent
             /\ Definition(i, en).inst = i
             /\ Definition(i, en).kind = (IF en THEN "enabled" ELSE "disabled")
  BY Constants DEF Definitions, Definition, Absent
<1>5. ASSUME NEW d \in Definitions, d # Absent
      PROVE  [d EXCEPT !.kind = "disabled"] = Definition(d.inst, FALSE)
  <2>1. PICK en \in BOOLEAN : d = Definition(d.inst, en)
    BY <1>2, <1>5
  <2> QED
    BY <1>1, <2>1
<1> QED
  BY <1>2, <1>3, <1>4, <1>5

LEMMA Objects ==
  /\ \A o \in Obj : /\ o[1] \in Name /\ o[2] \in 1 .. MaxLife /\ o = <<o[1], o[2]>>
                    /\ o # NoObj
  /\ \A n \in Name, k \in 1 .. MaxLife : /\ <<n, k>> \in Obj /\ <<n, k>> # NoObj
                                        /\ <<n, k>>[1] = n /\ <<n, k>>[2] = k
<1>1. ASSUME NEW o \in Obj
      PROVE  o[1] \in Name /\ o[2] \in 1 .. MaxLife /\ o = <<o[1], o[2]>>
  BY <1>1 DEF Obj
<1>2. \A n, k : <<n, k>> # NoObj
  BY DEF NoObj
<1>3. \A n \in Name, k \in 1 .. MaxLife : /\ <<n, k>> \in Obj
                                          /\ <<n, k>>[1] = n /\ <<n, k>>[2] = k
  BY DEF Obj
<1> QED
  BY <1>1, <1>2, <1>3

LEMMA FrameType ==
  ASSUME NEW pc \in ActPC, pc \notin AwaitsSession \cup OnInstance \cup OnObject \cup OnName
  PROVE  Frame(pc) \in Handler
BY DEF Frame, Handler, HandlerFields, NoName, NoInstance, NoObj

LEMMA FrameFields ==
  ASSUME NEW pc \in ActPC
  PROVE  Frame(pc) \in HandlerFields /\ Frame(pc).pc = pc
BY DEF Frame, HandlerFields, NoName, NoInstance, NoObj

LEMMA ClosesType ==
  ASSUME real \in [Real -> Realization], NEW r
  PROVE  CloseSession(real, r) \in [Real -> Realization]
<1> DEFINE new == [real[r] EXCEPT !.sess = IF real[r].sess = "open" THEN "closing"
                                          ELSE real[r].sess]
<1>1. CloseSession(real, r) = [real EXCEPT ![r] = new]
  BY DEF CloseSession
<1>2. ASSUME r \in Real
      PROVE  new \in Realization
  BY <1>2 DEF Realization, RealizationFields
<1> HIDE DEF new
<1> QED
  BY <1>1, <1>2

LEMMA AbortType ==
  ASSUME NEW f \in [Real -> Realization], NEW S
  PROVE  Abort(f, S) \in [Real -> Realization]
BY DEF Abort, Realization, RealizationFields

LEMMA ExceptType ==
  ASSUME NEW S, NEW T, NEW f \in [S -> T], NEW x, NEW e, x \in S => e \in T
  PROVE  [f EXCEPT ![x] = e] \in [S -> T]
OBVIOUS

LEMMA NewRuntimeType ==
  /\ \A i \in Instance \cup {NoInstance}, en \in BOOLEAN : NewRuntime(i, en) \in RuntimeIntent
  /\ NoRuntime \in RuntimeIntent /\ NoReal \in Realization
BY DEF NewRuntime, RuntimeIntent, NoRuntime, NoReal, Realization, RealizationFields, NoObj, NoInstance

LEMMA StartType ==
  ASSUME TypeOK, NEW o \in Obj, NEW rec \in RuntimeIntent, NEW f \in [Real -> Realization],
         StartRealization(o, rec, f)
  PROVE  rt' \in [Obj -> RuntimeIntent] /\ real' \in [Real -> Realization]
<1> USE DEF TypeOK
<1>1. CASE closing \/ ~rec.enabled
  <2> DEFINE x == [rec EXCEPT !.realization = 0]
  <2>1. x \in RuntimeIntent
    BY DEF RuntimeIntent
  <2>2. rt' = [rt EXCEPT ![o] = x] /\ real' = f
    BY <1>1 DEF StartRealization
  <2> HIDE DEF x
  <2> QED
    BY <2>1, <2>2
<1>2. CASE ~(closing \/ ~rec.enabled)
  <2> DEFINE g == Abort(f, Only(rec.controller))
  <2>1. PICK r \in FreshReals :
          /\ rt' = [rt EXCEPT ![o] = [rec EXCEPT !.gen = @ + 1, !.status = "starting",
                                                 !.controller = r, !.realization = r]]
          /\ real' = [g EXCEPT ![r] = [NoReal EXCEPT !.obj = o, !.gen = rec.gen + 1,
                                                     !.pc = "opening"]]
    BY <1>2 DEF StartRealization
  <2>2. g \in [Real -> Realization]
    BY AbortType
  <2>3. r \in Real
    BY DEF FreshReals
  <2>4. [NoReal EXCEPT !.obj = o, !.gen = rec.gen + 1, !.pc = "opening"] \in Realization
    <3>1. NoReal \in Realization /\ rec.gen + 1 \in Nat
      BY NewRuntimeType DEF RuntimeIntent
    <3> QED
      BY <3>1 DEF Realization, RealizationFields
  <2> HIDE DEF g
  <2>5. real' \in [Real -> Realization]
    BY <2>1, <2>2, <2>3, <2>4
  <2> DEFINE x == [rec EXCEPT !.gen = @ + 1, !.status = "starting",
                              !.controller = r, !.realization = r]
  <2>6. rt' \in [Obj -> RuntimeIntent]
    <3>1. x \in RuntimeIntent
      <4>1. rec.gen + 1 \in Nat
        BY DEF RuntimeIntent
      <4> QED
        BY <2>3, <4>1 DEF RuntimeIntent
    <3>2. rt' = [rt EXCEPT ![o] = x]
      BY <2>1
    <3> HIDE DEF x
    <3> QED
      BY <3>1, <3>2
  <2> QED
    BY <2>5, <2>6
<1> QED
  BY <1>1, <1>2

LEMMA UpdatedRuntimeType ==
  ASSUME TypeOK, NEW n \in Name, stored[n] # Absent
  PROVE  /\ UpdatedRuntime(n) \in RuntimeIntent /\ stored[n].inst \in Instance
         /\ \A k \in Lives(n) : k \in 1 .. MaxLife /\ <<n, k>> \in Obj
<1>1. stored[n].inst \in Instance
  BY DEF TypeOK, Definitions, Definition
<1>2. \A k \in Lives(n) : k \in 1 .. MaxLife
  BY DEF Lives, FreshLives, TypeOK
<1>3. CASE intents[n] = 0
  <2>1. NewRuntime(NoInstance, FALSE) \in RuntimeIntent
    BY NewRuntimeType
  <2> QED
    BY <1>1, <1>2, <1>3, <2>1, Objects DEF UpdatedRuntime, RuntimeIntent
<1>4. CASE intents[n] # 0
  <2> DEFINE x == rt[Current(n)]
  <2>1. Current(n) \in Obj
    BY <1>4, Objects DEF Current, TypeOK
  <2>2. x \in RuntimeIntent
    BY <2>1 DEF TypeOK
  <2>3. UpdatedRuntime(n) = [x EXCEPT !.inst = stored[n].inst]
    BY <1>4 DEF UpdatedRuntime
  <2> HIDE DEF x
  <2> QED
    BY <1>1, <1>2, <2>2, <2>3, Objects DEF RuntimeIntent
<1> QED
  BY <1>3, <1>4

LEMMA InitType == ASSUME Init PROVE TypeOK
<1> USE NewRuntimeType
<1>1. stored \in [Name -> Definitions]
  BY DEF Init, Definitions
<1>2. intents \in [Name -> 0 .. MaxLife]
  <2>1. 0 \in 0 .. MaxLife /\ 1 \in 0 .. MaxLife
    BY Constants
  <2> QED
    BY <2>1 DEF Init
<1>3. rt \in [Obj -> RuntimeIntent]
  <2>1. ASSUME NEW o \in Obj, stored[NameOf(o)] # Absent
        PROVE  stored[NameOf(o)].inst \in Instance
    BY <1>1, <2>1, Objects DEF NameOf, Definitions, Definition
  <2> QED
    BY <2>1 DEF Init
<1>4. real \in [Real -> Realization]
  BY DEF Init
<1>5. act \in [Actor -> Handler]
  <2>1. Frame("idle") \in Handler
    BY FrameType DEF ActPC, AwaitsSession, OnInstance, OnObject, OnName, Runs
  <2> QED
    BY <2>1 DEF Init
<1> QED
  BY <1>1, <1>2, <1>3, <1>4, <1>5 DEF Init, TypeOK

-----------------------------------------------------------------------------
LEMMA DoType ==
  ASSUME TypeOK, NEW q \in Actor, NEW f \in Handler, Do(q, f)
  PROVE  act' \in [Actor -> Handler]
BY DEF Do, TypeOK

LEMMA DoneType == Done \in Handler
BY FrameType DEF Done, ActPC, AwaitsSession, OnInstance, OnObject, OnName, Runs

LEMMA ThenDrainType ==
  ASSUME TypeOK, NEW q \in Actor, NEW i \in Instance, NEW t \in BOOLEAN,
         ThenDrainIfDraining(q, i, t)
  PROVE  act' \in [Actor -> Handler]
<1> DEFINE f == [Frame("drainStore") EXCEPT !.inst = i, !.tracked = t]
<1>1. f \in Handler
  <2>1. Frame("drainStore") \in HandlerFields /\ Frame("drainStore").pc = "drainStore"
    BY FrameFields DEF ActPC
  <2> QED
    BY <2>1 DEF Handler, HandlerFields, AwaitsSession, OnInstance, OnObject, OnName
<1>3. Do(q, f) \/ Do(q, Done)
  BY DEF ThenDrainIfDraining
<1> HIDE DEF f
<1> QED
  BY <1>1, <1>3, DoType, DoneType

LEMMA VerdictType ==
  ASSUME TypeOK, NEW a \in Actor, act[a].inst \in Instance, Verdict(a)
  PROVE  act' \in [Actor -> Handler]
<1> DEFINE f(pc) == [Frame(pc) EXCEPT !.inst = act[a].inst]
<1>1. ASSUME NEW pc \in {"drained", "refused"}
      PROVE  f(pc) \in Handler
  <2>1. Frame(pc) \in HandlerFields /\ Frame(pc).pc = pc
    BY FrameFields DEF ActPC
  <2> QED
    BY <2>1 DEF Handler, HandlerFields, AwaitsSession, OnInstance, OnObject, OnName, Runs
<1>3. Do(a, f("drained")) \/ Do(a, f("refused")) \/ Do(a, Done)
  BY DEF Verdict
<1> HIDE DEF f
<1> QED
  BY <1>1, <1>3, DoType, DoneType

LEMMA SessionType ==
  ASSUME TypeOK, NEW r \in Real, NEW s \in {"none", "open", "closing", "closed", "failed"}
  PROVE  [real EXCEPT ![r].sess = s] \in [Real -> Realization]
BY DEF TypeOK, Realization, RealizationFields

LEMMA UnlinkType ==
  ASSUME TypeOK, NEW o \in Obj, NEW r
  PROVE  Unlink(o, r) \in Real \cup {0}
BY DEF TypeOK, RuntimeIntent, Unlink

\* The sessions and the realizations keep the types.
LEMMA RealType ==
  ASSUME TypeOK, NEW r \in Real, Session(r) \/ TransportDies(r)
  PROVE  TypeOK'
<1> DEFINE o == real[r].obj
<1>0. real[r] \in Realization /\ (o \in Obj => rt[o] \in RuntimeIntent)
  BY DEF TypeOK
<1>o. o \in Obj => Unlink(o, r) \in Real \cup {0}
  BY UnlinkType
<1>1. CASE OpenRejects(r)
  <2>1. real' \in [Real -> Realization]
    BY <1>0, <1>1 DEF OpenRejects, Realization, RealizationFields, TypeOK
  <2>2. o \in Obj => /\ [rt[o] EXCEPT !.controller = 0, !.status = "error",
                                       !.realization = Unlink(o, r)] \in RuntimeIntent
                     /\ [rt[o] EXCEPT !.realization = Unlink(o, r)] \in RuntimeIntent
    BY <1>0, <1>o DEF RuntimeIntent
  <2>3. rt' \in [Obj -> RuntimeIntent]
    BY <1>1, <2>2 DEF OpenRejects, TypeOK
  <2> QED
    BY <1>1, <2>1, <2>3 DEF OpenRejects, TypeOK
<1>2. CASE OpenResolves(r)
  <2>0. /\ [real[r] EXCEPT !.pc = "done", !.sess = "open", !.watched = TRUE] \in Realization
        /\ [real[r] EXCEPT !.pc = "closingLate", !.sess = "closing"] \in Realization
    BY <1>0, <1>2 DEF OpenResolves, Realization, RealizationFields
  <2>1. real' \in [Real -> Realization]
    BY <1>2, <2>0 DEF OpenResolves, TypeOK
  <2>2. o \in Obj => [rt[o] EXCEPT !.controller = 0, !.status = "live", !.session = r,
                                    !.realization = Unlink(o, r)] \in RuntimeIntent
    BY <1>0, <1>o DEF RuntimeIntent
  <2>3. rt' \in [Obj -> RuntimeIntent]
    BY <1>2, <2>2 DEF OpenResolves, TypeOK
  <2> QED
    BY <1>2, <2>1, <2>3 DEF OpenResolves, TypeOK
<1>3. CASE LateClosed(r)
  <2>1. real' \in [Real -> Realization]
    BY <1>0, <1>3 DEF LateClosed, Realization, RealizationFields, TypeOK
  <2>2. o \in Obj => [rt[o] EXCEPT !.realization = Unlink(o, r)] \in RuntimeIntent
    BY <1>0, <1>o DEF RuntimeIntent
  <2>3. rt' \in [Obj -> RuntimeIntent]
    BY <1>3, <2>2 DEF LateClosed, TypeOK
  <2>4. cleanup' \subseteq Cleanup
    <3> DEFINE c == [inst |-> rt[o].inst, name |-> NameOf(o), session |-> r, reserve |-> FALSE]
    <3>1. o \in Obj
      BY <1>0, <1>3 DEF LateClosed, Realization
    <3>2. c \in Cleanup
      BY <1>0, <3>1, Objects DEF RuntimeIntent, Cleanup, NameOf
    <3> HIDE DEF c
    <3>3. cleanup' \subseteq cleanup \cup {c}
      BY <1>3 DEF LateClosed, c
    <3> QED
      BY <3>2, <3>3 DEF TypeOK
  <2> QED
    BY <1>3, <2>1, <2>3, <2>4 DEF LateClosed, TypeOK
<1>4. CASE ClosureNoticed(r)
  <2>1. real' \in [Real -> Realization]
    BY <1>0, <1>4 DEF ClosureNoticed, Realization, RealizationFields, TypeOK
  <2>2. o \in Obj => [rt[o] EXCEPT !.session = 0, !.status = "error"] \in RuntimeIntent
    BY <1>0 DEF RuntimeIntent
  <2>3. rt' \in [Obj -> RuntimeIntent]
    BY <1>4, <2>2 DEF ClosureNoticed, TypeOK
  <2> QED
    BY <1>4, <2>1, <2>3 DEF ClosureNoticed, TypeOK
<1>5. CASE CloseSettles(r) \/ TransportDies(r)
  <2>1. real' \in [Real -> Realization]
    <3>1. CASE CloseSettles(r)
      <4>1. PICK s \in {"closed", "failed"} : real' = [real EXCEPT ![r].sess = s]
        BY <3>1 DEF CloseSettles
      <4> QED
        BY <4>1, SessionType
    <3>2. CASE TransportDies(r)
      BY <3>2, ClosesType DEF TransportDies, TypeOK
    <3> QED
      BY <1>5, <3>1, <3>2
  <2> QED
    BY <1>5, <2>1 DEF CloseSettles, TransportDies, TypeOK
<1> QED
  BY <1>1, <1>2, <1>3, <1>4, <1>5 DEF Session, Answer

\* What the frame of a handler must have for the place it goes to.
LEMMA GoesTo ==
  ASSUME NEW h \in HandlerFields,
         h.pc \in AwaitsSession => h.sess \in Real,
         h.pc \in OnInstance => h.inst \in Instance,
         h.pc \in OnObject => h.obj \in Obj,
         h.pc \in OnName => h.name \in Name
  PROVE  h \in Handler
BY DEF Handler

LEMMA CloseAfterType ==
  ASSUME TypeOK, NEW q \in Actor, NEW next,
         \/ At(q, "disableWait") /\ next = "disableClose"
         \/ At(q, "removeWait") /\ next = "removeClose",
         CloseAfterRealization(q, next)
  PROVE  act' \in [Actor -> Handler] /\ real' \in [Real -> Realization]
<1> DEFINE s == rt[act[q].obj].session
           f == [act[q] EXCEPT !.pc = next, !.sess = s, !.wait = {}]
<1>1. CASE Do(q, Done) /\ UNCHANGED real
  BY <1>1, DoType, DoneType DEF TypeOK
<1>2. CASE s # 0 /\ Do(q, f) /\ real' = CloseSession(real, s)
  <2>1. act[q] \in Handler
    BY DEF TypeOK
  <2>2. s \in Real
    BY <1>2, <2>1 DEF At, Handler, OnObject, TypeOK, RuntimeIntent
  <2> HIDE DEF s
  <2>3. f \in Handler
    BY <2>1, <2>2 DEF At, Handler, HandlerFields, ActPC, AwaitsSession, OnInstance, OnObject, OnName, Runs
  <2> HIDE DEF f
  <2> QED
    BY <1>2, <2>3, DoType, ClosesType DEF TypeOK
<1> HIDE DEF s, f
<1> QED
  BY <1>1, <1>2 DEF CloseAfterRealization, s, f

LEMMA StartingType ==
  ASSUME TypeOK, NEW q \in Request, Start(q)
  PROVE  TypeOK'
<1> USE DEF TypeOK
<1>0. q \in Actor
  BY DEF Actor
<1>a. \A n \in Name : intents[n] # 0 => Current(n) \in Obj /\ rt[Current(n)] \in RuntimeIntent
  BY Objects DEF Current
<1>1. ASSUME NEW n \in Name, NEW i \in Instance, NEW en \in BOOLEAN, Create(q, n, i, en)
      PROVE  TypeOK'
  <2> DEFINE f == [Frame("createStore") EXCEPT !.name = n, !.inst = i, !.en = en, !.tracked = TRUE]
  <2>1. f \in Handler
    <3>1. Frame("createStore") \in HandlerFields /\ Frame("createStore").pc = "createStore"
      BY FrameFields DEF ActPC
    <3> QED
      BY <3>1, GoesTo DEF HandlerFields, AwaitsSession, OnObject
  <2>2. Do(q, f)
    BY <1>1 DEF Create
  <2> HIDE DEF f
  <2>3. act' \in [Actor -> Handler]
    BY <1>0, <2>1, <2>2, DoType
  <2> QED
    BY <1>1, <2>3 DEF Create, IntentsUnchanged
<1>2. ASSUME NEW n \in Name, Enable(q, n)
      PROVE  TypeOK'
  <2> DEFINE o == Current(n)
             f == [Frame("enableStore") EXCEPT !.name = n, !.obj = o, !.inst = rt[o].inst,
                                               !.sess = rt[o].session, !.tracked = TRUE]
             g == [f EXCEPT !.pc = "preClose"]
             h == [Frame("enableStore") EXCEPT !.name = n]
  <2>1. Frame("enableStore") \in HandlerFields /\ Frame("enableStore").pc = "enableStore"
    BY FrameFields DEF ActPC
  <2>2. h \in Handler
    BY <2>1, GoesTo DEF HandlerFields, AwaitsSession, OnInstance, OnObject, Runs
  <2>3. intents[n] # 0 => f \in Handler /\ (rt[o].session # 0 => g \in Handler)
    BY <1>a, <2>1 DEF Handler, HandlerFields, RuntimeIntent, ActPC, AwaitsSession, OnInstance, OnObject, OnName, Runs
  <2>4. \/ intents[n] = 0 /\ Do(q, h) /\ UNCHANGED real
        \/ intents[n] # 0 /\ Do(q, f) /\ UNCHANGED real
        \/ intents[n] # 0 /\ rt[o].session # 0 /\ Do(q, g) /\ real' = CloseSession(real, rt[o].session)
    BY <1>2 DEF Enable
  <2> HIDE DEF f, g, h
  <2>5. act' \in [Actor -> Handler] /\ real' \in [Real -> Realization]
    BY <1>0, <2>2, <2>3, <2>4, DoType, ClosesType
  <2> HIDE DEF o
  <2> QED
    BY <1>2, <2>5 DEF Enable, IntentsUnchanged
<1>3. ASSUME NEW n \in Name, Disable(q, n)
      PROVE  TypeOK'
  <2> DEFINE o == Current(n)
             f == [Frame("disableStore") EXCEPT !.name = n, !.obj = o, !.inst = rt[o].inst,
                                                !.sess = rt[o].session, !.tracked = TRUE]
             g == [f EXCEPT !.pc = "reClose"]
             h == [Frame("disableStore") EXCEPT !.name = n]
  <2>1. Frame("disableStore") \in HandlerFields /\ Frame("disableStore").pc = "disableStore"
    BY FrameFields DEF ActPC
  <2>2. h \in Handler
    BY <2>1, GoesTo DEF HandlerFields, AwaitsSession, OnInstance, OnObject, Runs
  <2>3. intents[n] # 0 => f \in Handler /\ (rt[o].session # 0 => g \in Handler)
    BY <1>a, <2>1 DEF Handler, HandlerFields, RuntimeIntent, ActPC, AwaitsSession, OnInstance, OnObject, OnName, Runs
  <2>4. \/ intents[n] = 0 /\ Do(q, h) /\ UNCHANGED real
        \/ intents[n] # 0 /\ Do(q, f) /\ UNCHANGED real
        \/ intents[n] # 0 /\ rt[o].session # 0 /\ Do(q, g) /\ real' = CloseSession(real, rt[o].session)
    BY <1>3 DEF Disable
  <2> HIDE DEF f, g, h
  <2>5. act' \in [Actor -> Handler] /\ real' \in [Real -> Realization]
    BY <1>0, <2>2, <2>3, <2>4, DoType, ClosesType
  <2> HIDE DEF o
  <2> QED
    BY <1>3, <2>5 DEF Disable, IntentsUnchanged
<1>4. ASSUME NEW n \in Name, Retry(q, n)
      PROVE  TypeOK'
  <2> DEFINE o == Current(n)
             rec == [rt[o] EXCEPT !.status = "starting"]
  <2>1. o \in Obj /\ rec \in RuntimeIntent
    BY <1>4, <1>a DEF Retry, RuntimeIntent
  <2>2. StartRealization(o, rec, real) /\ Do(q, Done)
    BY <1>4 DEF Retry
  <2> HIDE DEF o, rec
  <2>3. rt' \in [Obj -> RuntimeIntent] /\ real' \in [Real -> Realization]
    BY <2>1, <2>2, StartType
  <2>4. act' \in [Actor -> Handler]
    BY <1>0, <2>2, DoType, DoneType
  <2> QED
    BY <1>4, <2>3, <2>4 DEF Retry, IntentsUnchanged
<1>5. ASSUME NEW n \in Name, Remove(q, n)
      PROVE  TypeOK'
  <2> DEFINE f == IF intents[n] = 0 THEN [Frame("removeStore") EXCEPT !.name = n]
                  ELSE [Frame("removeStore") EXCEPT
                          !.name = n, !.obj = Current(n), !.inst = rt[Current(n)].inst,
                          !.tracked = TRUE]
             g(c) == [f EXCEPT !.pc = "cleanupClose", !.sess = c.session]
  <2>1. Frame("removeStore") \in HandlerFields /\ Frame("removeStore").pc = "removeStore"
    BY FrameFields DEF ActPC
  <2>2. f \in HandlerFields /\ f.pc = "removeStore" /\ f.name = n
    BY <1>a, <2>1 DEF HandlerFields, RuntimeIntent
  <2> HIDE DEF f
  <2>3. f \in Handler
    BY <2>2, GoesTo DEF AwaitsSession, OnInstance, OnObject, Runs
  <2>4. \A c \in cleanup : g(c) \in Handler
    BY <2>2 DEF Handler, HandlerFields, Cleanup, ActPC, AwaitsSession, OnInstance, OnObject, OnName, Runs
  <2>5. \/ Do(q, f) /\ UNCHANGED real
        \/ \E c \in cleanup : Do(q, g(c)) /\ real' = CloseSession(real, c.session)
    BY <1>5 DEF Remove, f, Reserved
  <2> HIDE DEF g
  <2>6. act' \in [Actor -> Handler] /\ real' \in [Real -> Realization]
    BY <1>0, <2>3, <2>4, <2>5, DoType, ClosesType
  <2> QED
    BY <1>5, <2>6 DEF Remove, IntentsUnchanged
<1> QED
  BY <1>1, <1>2, <1>3, <1>4, <1>5 DEF Start

LEMMA ContinuingType ==
  ASSUME TypeOK, NEW q \in Request, Continue(q) \/ StoreThrows(q) \/ DrainStoreThrows(q),
         ~Drain(q), ~DrainStoreThrows(q)
  PROVE  TypeOK'
<1> USE DEF TypeOK
<1> DEFINE h == act[q]  o == act[q].obj
<1>0. q \in Actor /\ h \in Handler /\ h \in HandlerFields
  BY DEF Actor, Handler
<1>1. CASE Created(q)
  <2> DEFINE n == act[q].name  i == act[q].inst  en == act[q].en
  <2>1. n \in Name /\ i \in Instance /\ en \in BOOLEAN
    BY <1>0, <1>1 DEF Created, At, Handler, HandlerFields, OnName, OnInstance
  <2>2. CASE stored[n] # Absent
    BY <1>0, <1>1, <2>2, DoType, DoneType DEF Created, IntentsUnchanged
  <2>3. CASE stored[n] = Absent
    <3>1. PICK k \in FreshLives(n) :
            /\ stored' = [stored EXCEPT ![n] = Definition(i, en)]
            /\ intents' = [intents EXCEPT ![n] = k]
            /\ StartRealization(<<n, k>>, NewRuntime(i, en), real)
            /\ ThenDrainIfDraining(q, i, TRUE)
      BY <1>1, <2>3 DEF Created
    <3>2. k \in 1 .. MaxLife /\ k \in 0 .. MaxLife /\ <<n, k>> \in Obj
      BY <2>1, Objects, Lifetimes DEF FreshLives
    <3>3. stored' \in [Name -> Definitions]
      BY <2>1, <3>1 DEF Definitions
    <3>4. NewRuntime(i, en) \in RuntimeIntent
      BY <2>1, NewRuntimeType
    <3>5. rt' \in [Obj -> RuntimeIntent] /\ real' \in [Real -> Realization]
      BY <3>1, <3>2, <3>4, StartType
    <3>6. act' \in [Actor -> Handler]
      BY <1>0, <2>1, <3>1, ThenDrainType
    <3>7. intents' \in [Name -> 0 .. MaxLife]
      BY <3>1, <3>2
    <3> QED
      BY <1>1, <3>3, <3>5, <3>6, <3>7 DEF Created, IntentsUnchanged
  <2> QED
    BY <2>2, <2>3
<1>2. CASE PreClosed(q)
  <2> DEFINE f == [h EXCEPT !.pc = "enableStore"]
  <2>1. f \in Handler
    BY <1>0, <1>2 DEF PreClosed, At, Handler, HandlerFields, ActPC, AwaitsSession, OnInstance, OnObject, OnName, Runs
  <2>2. o \in Obj => [rt[o] EXCEPT !.session = 0] \in RuntimeIntent
    BY DEF RuntimeIntent
  <2>3. \/ Do(q, f) /\ rt' = [rt EXCEPT ![o].session = 0]
        \/ Do(q, Done) /\ UNCHANGED rt
    BY <1>2 DEF PreClosed, Later
  <2> HIDE DEF f
  <2>4. act' \in [Actor -> Handler] /\ rt' \in [Obj -> RuntimeIntent]
    BY <1>0, <2>1, <2>2, <2>3, DoType, DoneType
  <2> QED
    BY <1>2, <2>4 DEF PreClosed, IntentsUnchanged
<1>3. CASE Enabled(q)
  <2> DEFINE n == act[q].name  i == stored[n].inst  u == UpdatedRuntime(n)
             rec == [u EXCEPT !.enabled = TRUE, !.gen = @ + 1, !.controller = 0, !.status = "starting"]
             f == Abort(real, Only(u.controller))
  <2>1. n \in Name
    BY <1>0, <1>3 DEF Enabled, At, Handler, OnName
  <2>2. CASE stored[n] = Absent
    BY <1>0, <1>3, <2>2, DoType, DoneType DEF Enabled, IntentsUnchanged
  <2>3. CASE stored[n] # Absent
    <3>1. PICK k \in Lives(n) :
            /\ stored' = [stored EXCEPT ![n] = Definition(i, TRUE)]
            /\ intents' = [intents EXCEPT ![n] = k]
            /\ StartRealization(<<n, k>>, rec, f)
            /\ ThenDrainIfDraining(q, i, FALSE)
      BY <1>3, <2>3 DEF Enabled
    <3>2. u \in RuntimeIntent /\ i \in Instance /\ k \in 1 .. MaxLife /\ <<n, k>> \in Obj
      BY <2>1, <2>3, UpdatedRuntimeType
    <3>3. stored' \in [Name -> Definitions]
      BY <2>1, <3>1, <3>2, DefinitionsOf
    <3> HIDE DEF u
    <3>4. rec \in RuntimeIntent
      <4>1. u.gen + 1 \in Nat
        BY <3>2 DEF RuntimeIntent
      <4> QED
        BY <3>2, <4>1 DEF RuntimeIntent
    <3>5. f \in [Real -> Realization]
      BY AbortType
    <3> HIDE DEF rec, f
    <3>6. rt' \in [Obj -> RuntimeIntent] /\ real' \in [Real -> Realization]
      BY <3>1, <3>2, <3>4, <3>5, StartType
    <3> HIDE DEF i
    <3>7. act' \in [Actor -> Handler]
      BY <1>0, <3>1, <3>2, ThenDrainType
    <3>8. intents' \in [Name -> 0 .. MaxLife]
      BY <3>1, <3>2, Lifetimes
    <3> QED
      BY <1>3, <3>3, <3>6, <3>7, <3>8 DEF Enabled, IntentsUnchanged
  <2> QED
    BY <2>2, <2>3
<1>4. CASE ReClosed(q)
  <2>1. o \in Obj => [rt[o] EXCEPT !.session = 0] \in RuntimeIntent
    BY DEF RuntimeIntent
  <2>2. act' \in [Actor -> Handler] /\ rt' \in [Obj -> RuntimeIntent]
    BY <1>0, <1>4, <2>1, DoType, DoneType DEF ReClosed
  <2> QED
    BY <1>4, <2>2 DEF ReClosed, IntentsUnchanged
<1>5. CASE Disabled(q)
  <2> DEFINE n == act[q].name  u == UpdatedRuntime(n)
             rec == [u EXCEPT !.enabled = FALSE, !.gen = @ + 1, !.controller = 0, !.status = "disabled"]
  <2>1. n \in Name
    BY <1>0, <1>5 DEF Disabled, At, Handler, OnName
  <2>2. CASE stored[n] = Absent
    BY <1>0, <1>5, <2>2, DoType, DoneType DEF Disabled, IntentsUnchanged
  <2>3. CASE stored[n] # Absent
    <3>1. PICK k \in Lives(n) :
            /\ stored' = [stored EXCEPT ![n].kind = "disabled"]
            /\ intents' = [intents EXCEPT ![n] = k]
            /\ rt' = [rt EXCEPT ![<<n, k>>] = rec]
            /\ real' = Abort(real, Only(u.controller))
            /\ Do(q, [h EXCEPT !.pc = "disableWait", !.obj = <<n, k>>, !.wait = Only(u.realization)])
      BY <1>5, <2>3 DEF Disabled
    <3>2. u \in RuntimeIntent /\ k \in 1 .. MaxLife /\ <<n, k>> \in Obj
      BY <2>1, <2>3, UpdatedRuntimeType
    <3>3. stored' \in [Name -> Definitions]
      <4> DEFINE d == stored[n]
      <4>1. d \in Definitions /\ d # Absent
        BY <2>1, <2>3
      <4> HIDE DEF d
      <4>2. d.inst \in Instance /\ [d EXCEPT !.kind = "disabled"] = Definition(d.inst, FALSE)
        BY <4>1, DefinitionsOf
      <4>3. [d EXCEPT !.kind = "disabled"] \in Definitions
        BY <4>2, DefinitionsOf
      <4> DEFINE e == [d EXCEPT !.kind = "disabled"]
      <4>4. stored' = [stored EXCEPT ![n] = e]
        BY <3>1 DEF d
      <4> HIDE DEF e
      <4> QED
        BY <4>3, <4>4 DEF e
    <3> HIDE DEF u
    <3>4. rec \in RuntimeIntent
      <4>1. u.gen + 1 \in Nat
        BY <3>2 DEF RuntimeIntent
      <4> QED
        BY <3>2, <4>1 DEF RuntimeIntent
    <3> DEFINE f == [h EXCEPT !.pc = "disableWait", !.obj = <<n, k>>, !.wait = Only(u.realization)]
    <3>5. f \in Handler
      <4>1. Only(u.realization) \subseteq Real
        BY <3>2 DEF Only, RuntimeIntent
      <4>2. f.pc = "disableWait" /\ f.obj = <<n, k>> /\ f.name = n
        BY <1>0 DEF HandlerFields
      <4>3. f \in HandlerFields
        BY <1>0, <3>2, <4>1 DEF HandlerFields, ActPC, AwaitsRealization
      <4> HIDE DEF f
      <4> QED
        BY <2>1, <3>2, <4>2, <4>3 DEF Handler, AwaitsSession, OnInstance, Runs
    <3> HIDE DEF rec, f
    <3>6. rt' \in [Obj -> RuntimeIntent] /\ real' \in [Real -> Realization]
      BY <3>1, <3>2, <3>4, AbortType
    <3>7. act' \in [Actor -> Handler]
      BY <1>0, <3>1, <3>5, DoType DEF f
    <3>8. intents' \in [Name -> 0 .. MaxLife]
      BY <3>1, <3>2, Lifetimes
    <3> QED
      BY <1>5, <3>3, <3>6, <3>7, <3>8 DEF Disabled, IntentsUnchanged
  <2> QED
    BY <2>2, <2>3
<1>6. CASE DisableWaited(q) \/ RemoveWaited(q)
  <2>1. act' \in [Actor -> Handler] /\ real' \in [Real -> Realization]
    BY <1>0, <1>6, CloseAfterType DEF DisableWaited, RemoveWaited
  <2> QED
    BY <1>6, <2>1 DEF DisableWaited, RemoveWaited, IntentsUnchanged
<1>7. CASE DisableClosed(q)
  <2>1. o \in Obj => [rt[o] EXCEPT !.session = 0] \in RuntimeIntent
    BY DEF RuntimeIntent
  <2>2. act' \in [Actor -> Handler] /\ rt' \in [Obj -> RuntimeIntent]
    BY <1>0, <1>7, <2>1, DoType, DoneType DEF DisableClosed, ForgetIfClosed
  <2> QED
    BY <1>7, <2>2 DEF DisableClosed, IntentsUnchanged
<1>8. CASE CleanupClosed(q)
  <2>1. act' \in [Actor -> Handler]
    BY <1>0, <1>8, DoType, DoneType DEF CleanupClosed
  <2>2. cleanup' \subseteq Cleanup
    BY <1>8 DEF CleanupClosed
  <2> QED
    BY <1>8, <2>1, <2>2 DEF CleanupClosed
<1>9. CASE Removed(q)
  <2> DEFINE n == act[q].name  c == Current(n)
  <2>1. n \in Name
    BY <1>0, <1>9 DEF Removed, At, Handler, OnName
  <2>2. stored' \in [Name -> Definitions]
    BY <1>9, <2>1 DEF Removed, Definitions
  <2>3. CASE stored[n] = Absent \/ intents[n] = 0
    <3>1. Do(q, Done) /\ UNCHANGED <<intents, rt, real>>
      BY <1>9, <2>3 DEF Removed
    <3>2. act' \in [Actor -> Handler]
      BY <1>0, <3>1, DoType, DoneType
    <3> QED
      BY <1>9, <2>2, <3>1, <3>2 DEF Removed, IntentsUnchanged
  <2>4. CASE ~(stored[n] = Absent \/ intents[n] = 0)
    <3> DEFINE f == [h EXCEPT !.pc = "removeWait", !.obj = c, !.wait = Only(rt[c].realization)]
    <3>1. /\ intents' = [intents EXCEPT ![n] = 0]
          /\ rt' = [rt EXCEPT ![c].gen = @ + 1]
          /\ real' = Abort(real, Only(rt[c].controller))
          /\ Do(q, f)
      BY <1>9, <2>4 DEF Removed
    <3>2. c \in Obj
      BY <2>1, <2>4, Objects DEF Current
    <3>3. f \in Handler
      <4>1. Only(rt[c].realization) \subseteq Real
        BY <3>2 DEF Only, RuntimeIntent
      <4>2. f.pc = "removeWait" /\ f.obj = c /\ f.name = n
        BY <1>0 DEF HandlerFields
      <4>3. f \in HandlerFields
        BY <1>0, <3>2, <4>1 DEF HandlerFields, ActPC, AwaitsRealization
      <4> HIDE DEF f
      <4> QED
        BY <2>1, <3>2, <4>2, <4>3 DEF Handler, AwaitsSession, OnInstance, Runs
    <3>4. rt' \in [Obj -> RuntimeIntent]
      <4>1. rt[c] \in RuntimeIntent
        BY <3>2
      <4>2. [rt[c] EXCEPT !.gen = @ + 1] \in RuntimeIntent
        BY <4>1 DEF RuntimeIntent
      <4> QED
        BY <3>1, <4>2
    <3> HIDE DEF f
    <3>5. act' \in [Actor -> Handler]
      BY <1>0, <3>1, <3>3, DoType
    <3>6. intents' \in [Name -> 0 .. MaxLife]
      BY <3>1, Lifetimes
    <3>7. real' \in [Real -> Realization]
      BY <3>1, AbortType
    <3> QED
      BY <1>9, <2>2, <3>4, <3>5, <3>6, <3>7 DEF Removed, IntentsUnchanged
  <2> QED
    BY <2>3, <2>4
<1>10. CASE RemoveClosed(q)
  <2> DEFINE c == [inst |-> rt[o].inst, name |-> h.name, session |-> h.sess, reserve |-> TRUE]
  <2>1. c \in Cleanup
    <3>1. o \in Obj /\ h.name \in Name /\ h.sess \in Real
      BY <1>0, <1>10 DEF RemoveClosed, At, Handler, OnObject, OnName, AwaitsSession
    <3> QED
      BY <3>1 DEF Cleanup, RuntimeIntent
  <2>2. cleanup' \subseteq cleanup \cup {c}
    BY <1>10 DEF RemoveClosed
  <2>3. act' \in [Actor -> Handler]
    BY <1>0, <1>10, DoType, DoneType DEF RemoveClosed
  <2> HIDE DEF c
  <2>4. cleanup' \subseteq Cleanup
    BY <2>1, <2>2
  <2> QED
    BY <1>10, <2>3, <2>4 DEF RemoveClosed
<1>11. CASE StoreThrows(q)
  <2> DEFINE n == act[q].name
  <2>1. n \in Name
    BY <1>0, <1>11 DEF StoreThrows, Handler, OnName
  <2>2. Written(q) \in Definitions
    <3>1. At(q, "createStore") => h.inst \in Instance /\ h.en \in BOOLEAN
      BY <1>0 DEF At, Handler, HandlerFields, OnInstance
    <3>2. stored[n] \in Definitions
      BY <2>1
    <3>3. CASE At(q, "createStore")
      BY <3>1, <3>2, <3>3, DefinitionsOf DEF Written
    <3>4. CASE At(q, "removeStore")
      BY <3>4, DefinitionsOf DEF Written, At
    <3>5. CASE ~At(q, "createStore") /\ ~At(q, "removeStore")
      <4>1. At(q, "enableStore") \in BOOLEAN
        BY DEF At
      <4> QED
        BY <3>2, <3>5, <4>1, DefinitionsOf DEF Written
    <3> QED
      BY <3>3, <3>4, <3>5
  <2>3. stored' \in [Name -> Definitions]
    BY <1>11, <2>1, <2>2 DEF StoreThrows
  <2>4. act' \in [Actor -> Handler]
    BY <1>0, <1>11, DoType, DoneType DEF StoreThrows
  <2> QED
    BY <1>11, <2>3, <2>4 DEF StoreThrows, IntentsUnchanged
<1> QED
  BY <1>1, <1>2, <1>3, <1>4, <1>5, <1>6, <1>7, <1>8, <1>9, <1>10, <1>11 DEF Continue

LEMMA DrainType ==
  ASSUME TypeOK, NEW a \in Actor, Drain(a) \/ DrainStoreThrows(a)
  PROVE  TypeOK'
<1> USE DEF TypeOK
<1> DEFINE h == act[a]  i == act[a].inst
<1>0. h \in Handler /\ h \in HandlerFields
  BY DEF Handler
<1>i. ASSUME At(a, "drainStore")
      PROVE  /\ i \in Instance
             /\ [n \in Name |-> IF stored[n].inst = i THEN Definition(i, FALSE) ELSE stored[n]]
                  \in [Name -> Definitions]
  <2>1. i \in Instance
    BY <1>0, <1>i DEF At, Handler, OnInstance
  <2> QED
    BY <2>1, DefinitionsOf
<1>1. CASE DrainStored(a)
  <2> DEFINE T == Targets(i)
             W == {rt[o].realization : o \in T} \ {0}
             f == [h EXCEPT !.pc = "drainWait", !.todo = T, !.wait = W]
  <2>1. T \subseteq Obj /\ W \subseteq Real
    BY DEF Targets, RuntimeIntent
  <2>2. At(a, "drainStore")
    BY <1>1 DEF DrainStored
  <2> HIDE DEF T, W
  <2>3. f \in Handler
    BY <1>0, <1>i, <2>1, <2>2 DEF At, Handler, HandlerFields, ActPC, AwaitsSession, AwaitsRealization, OnInstance, OnObject, OnName, Runs
  <2>4. Do(a, f)
    BY <1>1 DEF DrainStored, T, W
  <2> HIDE DEF f
  <2>5. act' \in [Actor -> Handler]
    BY <2>3, <2>4, DoType
  <2>6. rt' \in [Obj -> RuntimeIntent]
    <3>1. ASSUME NEW x \in RuntimeIntent
          PROVE  [x EXCEPT !.enabled = FALSE, !.gen = @ + 1, !.controller = 0, !.status = "disabled"]
                   \in RuntimeIntent
      <4>1. x.gen + 1 \in Nat
        BY DEF RuntimeIntent
      <4> QED
        BY <4>1 DEF RuntimeIntent
    <3>2. \A o \in Obj : rt[o] \in RuntimeIntent
      OBVIOUS
    <3> QED
      BY <1>1, <3>1, <3>2 DEF DrainStored
  <2>7. real' \in [Real -> Realization]
    <3>1. real' = Abort(real, {rt[o].controller : o \in Targets(i)})
      BY <1>1 DEF DrainStored
    <3> QED
      BY <3>1, AbortType
  <2>8. stored' \in [Name -> Definitions]
    <3>1. stored' = [n \in Name |-> IF stored[n].inst = i THEN Definition(i, FALSE) ELSE stored[n]]
      BY <1>1 DEF DrainStored
    <3> QED
      BY <1>i, <2>2, <3>1
  <2> QED
    BY <1>1, <2>5, <2>6, <2>7, <2>8 DEF DrainStored, IntentsUnchanged
<1>2. CASE DrainWaited(a)
  <2>1. [h EXCEPT !.pc = "drainLoop", !.wait = {}] \in Handler
    BY <1>0, <1>2 DEF DrainWaited, At, Handler, HandlerFields, ActPC, AwaitsSession, AwaitsRealization, OnInstance, OnObject, OnName, Runs
  <2>2. act' \in [Actor -> Handler]
    BY <1>2, <2>1, DoType DEF DrainWaited
  <2> QED
    BY <1>2, <2>2 DEF DrainWaited, IntentsUnchanged
<1>3. CASE DrainNext(a)
  <2>1. PICK o \in act[a].todo :
          \/ /\ Do(a, [h EXCEPT !.todo = @ \ {o}])
             /\ UNCHANGED real
          \/ /\ rt[o].session # 0
             /\ Do(a, [[h EXCEPT !.todo = @ \ {o}] EXCEPT !.pc = "drainClose", !.obj = o, !.sess = rt[o].session])
             /\ real' = CloseSession(real, rt[o].session)
    BY <1>3 DEF DrainNext
  <2>2. o \in Obj /\ rt[o] \in RuntimeIntent
    BY <1>0, <2>1 DEF HandlerFields
  <2> DEFINE g == [h EXCEPT !.todo = @ \ {o}]
             s == rt[o].session
             f == [g EXCEPT !.pc = "drainClose", !.obj = o, !.sess = s]
  <2>3. g \in Handler /\ g.inst = i
    BY <1>0 DEF Handler, HandlerFields
  <2>4. i \in Instance
    BY <1>0, <1>3 DEF DrainNext, At, Handler, OnInstance, Runs
  <2>5. s \in Real \cup {0}
    BY <2>2 DEF RuntimeIntent
  <2>6. \/ Do(a, g) /\ UNCHANGED real
        \/ s # 0 /\ Do(a, f) /\ real' = CloseSession(real, s)
    BY <2>1, Zenon
  <2> HIDE DEF g, s
  <2>7. s # 0 => f \in Handler
    BY <2>2, <2>3, <2>4, <2>5 DEF Handler, HandlerFields, ActPC, AwaitsSession, AwaitsRealization, OnInstance, OnObject, OnName, Runs
  <2> HIDE DEF f
  <2>8. act' \in [Actor -> Handler] /\ real' \in [Real -> Realization]
    BY <2>3, <2>6, <2>7, DoType, ClosesType
  <2> QED
    BY <1>3, <2>8 DEF DrainNext, IntentsUnchanged
<1>4. CASE DrainClosed(a)
  <2>1. h.obj \in Obj => [rt[h.obj] EXCEPT !.session = 0] \in RuntimeIntent
    BY DEF RuntimeIntent
  <2>2. rt' \in [Obj -> RuntimeIntent]
    BY <1>4, <2>1 DEF DrainClosed, ForgetIfClosed
  <2>3. [h EXCEPT !.pc = "drainLoop"] \in Handler
    BY <1>0, <1>4 DEF DrainClosed, At, Handler, HandlerFields, ActPC, AwaitsSession, AwaitsRealization, OnInstance, OnObject, OnName, Runs
  <2>4. act' \in [Actor -> Handler]
    BY <1>4, <2>3, DoType DEF DrainClosed, Later
  <2> QED
    BY <1>4, <2>2, <2>4 DEF DrainClosed, IntentsUnchanged
<1>5. CASE SessionsVisited(a)
  <2> DEFINE C == {c \in cleanup : c.inst = i}
             f == [h EXCEPT !.pc = "cleanLoop", !.obj = NoObj, !.sess = 0, !.clean = C]
  <2>1. C \subseteq Cleanup /\ Do(a, f) /\ At(a, "drainLoop")
    BY <1>5 DEF SessionsVisited
  <2> HIDE DEF C
  <2>2. f \in Handler
    BY <1>0, <2>1 DEF At, Handler, HandlerFields, ActPC, AwaitsSession, AwaitsRealization, OnInstance, OnObject, OnName, Runs
  <2> HIDE DEF f
  <2>3. act' \in [Actor -> Handler]
    BY <2>1, <2>2, DoType
  <2> QED
    BY <1>5, <2>3 DEF SessionsVisited, IntentsUnchanged
<1>6. CASE CleanNext(a)
  <2>1. PICK c \in act[a].clean :
          /\ Do(a, [h EXCEPT !.pc = "cleanClose", !.sess = c.session, !.clean = @ \ {c}])
          /\ real' = CloseSession(real, c.session)
    BY <1>6 DEF CleanNext
  <2>2. c.session \in Real
    BY <1>0 DEF HandlerFields, Cleanup
  <2>3. [h EXCEPT !.pc = "cleanClose", !.sess = c.session, !.clean = @ \ {c}] \in Handler
    BY <1>0, <1>6, <2>2 DEF CleanNext, At, Handler, HandlerFields, ActPC, AwaitsSession, AwaitsRealization, OnInstance, OnObject, OnName, Runs
  <2>4. act' \in [Actor -> Handler] /\ real' \in [Real -> Realization]
    BY <2>1, <2>3, DoType, ClosesType
  <2> QED
    BY <1>6, <2>4 DEF CleanNext, IntentsUnchanged
<1>7. CASE CleanClosed(a)
  <2>1. [h EXCEPT !.pc = "cleanLoop"] \in Handler
    BY <1>0, <1>7 DEF CleanClosed, At, Handler, HandlerFields, ActPC, AwaitsSession, AwaitsRealization, OnInstance, OnObject, OnName, Runs
  <2>2. act' \in [Actor -> Handler]
    BY <1>7, <2>1, DoType DEF CleanClosed, Later
  <2>3. cleanup' \subseteq Cleanup
    BY <1>7 DEF CleanClosed
  <2> QED
    BY <1>7, <2>2, <2>3 DEF CleanClosed
<1>8. CASE DrainVerdict(a)
  <2>1. i \in Instance
    BY <1>0, <1>8 DEF DrainVerdict, At, Handler, OnInstance, Runs
  <2>2. act' \in [Actor -> Handler]
    BY <1>8, <2>1, VerdictType DEF DrainVerdict
  <2> QED
    BY <1>8, <2>2 DEF DrainVerdict, IntentsUnchanged
<1>9. CASE DrainStoreThrows(a)
  <2>1. At(a, "drainStore")
    BY <1>9 DEF DrainStoreThrows
  <2>2. act' \in [Actor -> Handler]
    BY <1>9, <1>i, <2>1, VerdictType DEF DrainStoreThrows
  <2>3. stored' \in [Name -> Definitions]
    BY <1>9, <1>i, <2>1 DEF DrainStoreThrows
  <2> QED
    BY <1>9, <2>2, <2>3 DEF DrainStoreThrows, IntentsUnchanged
<1> QED
  BY <1>1, <1>2, <1>3, <1>4, <1>5, <1>6, <1>7, <1>8, <1>9 DEF Drain

LEMMA DrainerType ==
  ASSUME TypeOK, NEW d \in Drainer,
         \/ \E i \in Instance : BeginDrain(d, i)
         \/ BeginWaited(d) \/ CloseForDrain(d) \/ ReleaseDrain(d)
  PROVE  TypeOK'
<1> USE DEF TypeOK
<1> DEFINE h == act[d]
<1>0. d \in Actor /\ h \in Handler /\ h \in HandlerFields
  BY DEF Actor, Handler
<1>w. \A i : Tracked(i) \subseteq Request
  BY DEF Tracked
<1>1. ASSUME NEW i \in Instance, BeginDrain(d, i)
      PROVE  TypeOK'
  <2> DEFINE f(pc) == [Frame(pc) EXCEPT !.inst = i, !.wait = Tracked(i)]
  <2>1. ASSUME NEW pc \in {"granted", "beginWait"}
        PROVE  f(pc) \in Handler
    <3>1. Frame(pc) \in HandlerFields /\ Frame(pc).pc = pc
      BY FrameFields DEF ActPC
    <3> QED
      BY <1>w, <3>1 DEF Handler, HandlerFields, AwaitsSession, OnInstance, OnObject, OnName, Runs
  <2>2. Do(d, f("granted")) \/ Do(d, f("beginWait"))
    BY <1>1 DEF BeginDrain
  <2> HIDE DEF f
  <2>3. act' \in [Actor -> Handler]
    BY <1>0, <2>1, <2>2, DoType
  <2> QED
    BY <1>1, <2>3 DEF BeginDrain
<1>2. CASE BeginWaited(d)
  <2> DEFINE w == Tracked(h.inst)
             f(pc) == [h EXCEPT !.pc = pc, !.wait = w]
  <2>1. w \subseteq Request /\ At(d, "beginWait") /\ (Do(d, f("granted")) \/ Do(d, f("beginWait")))
    BY <1>2, <1>w DEF BeginWaited
  <2> HIDE DEF w
  <2>2. f("granted") \in Handler /\ f("beginWait") \in Handler
    <3>1. h.inst \in Instance
      BY <1>0, <2>1 DEF At, Handler, OnInstance
    <3>2. ASSUME NEW pc \in {"granted", "beginWait"}
          PROVE  f(pc) \in HandlerFields /\ f(pc).pc = pc /\ f(pc).inst = h.inst
      BY <1>0, <2>1, <3>2 DEF HandlerFields, ActPC
    <3> QED
      BY <3>1, <3>2 DEF Handler, AwaitsSession, OnObject, OnName
  <2> HIDE DEF f
  <2>3. act' \in [Actor -> Handler]
    BY <1>0, <2>1, <2>2, DoType
  <2> QED
    BY <1>2, <2>3 DEF BeginWaited, IntentsUnchanged
<1>3. CASE CloseForDrain(d)
  <2>1. [h EXCEPT !.pc = "drainStore"] \in Handler
    BY <1>0, <1>3 DEF CloseForDrain, At, Handler, HandlerFields, ActPC, AwaitsSession, OnInstance, OnObject, OnName, Runs
  <2>2. act' \in [Actor -> Handler]
    BY <1>0, <1>3, <2>1, DoType DEF CloseForDrain, Later
  <2> QED
    BY <1>3, <2>2 DEF CloseForDrain, IntentsUnchanged
<1>4. CASE ReleaseDrain(d)
  <2>1. act' \in [Actor -> Handler]
    BY <1>0, <1>4, DoType, DoneType DEF ReleaseDrain
  <2> QED
    BY <1>4, <2>1 DEF ReleaseDrain
<1> QED
  BY <1>1, <1>2, <1>3, <1>4

LEMMA ServiceType ==
  ASSUME TypeOK, (\E n \in Name : Restore(n)) \/ Restored \/ Stop \/ Shutdown
  PROVE  TypeOK'
<1> USE DEF TypeOK
<1>1. ASSUME NEW n \in Name, Restore(n)
      PROVE  TypeOK'
  <2>1. Current(n) \in Obj
    BY <1>1, Objects DEF Restore, Current
  <2>2. rt' \in [Obj -> RuntimeIntent] /\ real' \in [Real -> Realization]
    BY <1>1, <2>1, StartType DEF Restore
  <2> QED
    BY <1>1, <2>2 DEF Restore
<1>2. CASE Restored \/ Stop \/ Closed
  <2>1. CASE Restored
    BY <2>1 DEF Restored
  <2>2. CASE Stop
    BY <2>2 DEF Stop
  <2>3. CASE Closed
    BY <2>3 DEF Closed
  <2> QED
    BY <1>2, <2>1, <2>2, <2>3
<1>3. CASE CloseService
  <2> DEFINE S == {rt[o].controller : o \in {x \in Obj : Registered(x)}}
             W == {r \in Real : real[r].pc \in {"opening", "closingLate"}}
  <2>1. real' = Abort(real, S) /\ shut' = [pc |-> "realizations", wait |-> W]
    BY <1>3 DEF CloseService
  <2>2. W \subseteq Real
    OBVIOUS
  <2> HIDE DEF S, W
  <2>3. real' \in [Real -> Realization]
    BY <2>1, AbortType
  <2>4. rt' \in [Obj -> RuntimeIntent]
    <3>1. ASSUME NEW x \in RuntimeIntent
          PROVE  [x EXCEPT !.gen = @ + 1] \in RuntimeIntent
      BY DEF RuntimeIntent
    <3>2. \A o \in Obj : rt[o] \in RuntimeIntent
      OBVIOUS
    <3> QED
      BY <1>3, <3>1, <3>2 DEF CloseService
  <2> QED
    BY <1>3, <2>1, <2>2, <2>3, <2>4 DEF CloseService
<1>4. CASE CloseSessions
  <2>1. PICK S : /\ shut' = [pc |-> "sessions", wait |-> S]
                 /\ real' = [r \in Real |-> IF r \in S THEN CloseSession(real, r)[r] ELSE real[r]]
                 /\ S = ({rt[o].session : o \in {x \in Obj : Registered(x)}} \ {0})
                        \cup {c.session : c \in cleanup}
    BY <1>4 DEF CloseSessions
  <2>2. S \subseteq Real
    BY <2>1 DEF RuntimeIntent, Cleanup
  <2>3. real' \in [Real -> Realization]
    <3>1. \A r \in Real : CloseSession(real, r)[r] \in Realization
      BY ClosesType
    <3> QED
      BY <2>1, <3>1
  <2> QED
    BY <1>4, <2>1, <2>2, <2>3 DEF CloseSessions
<1> QED
  BY <1>1, <1>2, <1>3, <1>4 DEF Shutdown

LEMMA NextType ==
  ASSUME TypeOK, [Next]_vars
  PROVE  TypeOK'
<1>1. ASSUME NEW q \in Request, Start(q) \/ Continue(q) \/ StoreThrows(q) \/ DrainStoreThrows(q)
      PROVE  TypeOK'
  <2>1. q \in Actor
    BY DEF Actor
  <2>2. CASE Start(q)
    BY <2>2, StartingType
  <2>3. CASE Drain(q) \/ DrainStoreThrows(q)
    BY <2>1, <2>3, DrainType
  <2>4. CASE Continue(q) \/ StoreThrows(q)
    BY <2>3, <2>4, ContinuingType
  <2> QED
    BY <1>1, <2>2, <2>3, <2>4
<1>2. ASSUME NEW d \in Drainer,
             \/ \E i \in Instance : BeginDrain(d, i)
             \/ BeginWaited(d) \/ CloseForDrain(d) \/ ReleaseDrain(d)
             \/ Drain(d) \/ DrainStoreThrows(d)
      PROVE  TypeOK'
  <2>1. d \in Actor
    BY DEF Actor
  <2> QED
    BY <1>2, <2>1, DrainType, DrainerType
<1>3. ASSUME NEW r \in Real, Session(r) \/ TransportDies(r)
      PROVE  TypeOK'
  BY <1>3, RealType
<1>4. ASSUME (\E n \in Name : Restore(n)) \/ Restored \/ Stop \/ Shutdown
      PROVE  TypeOK'
  BY <1>4, ServiceType
<1>5. CASE UNCHANGED vars
  BY <1>5 DEF vars, TypeOK
<1> QED
  BY <1>1, <1>2, <1>3, <1>4, <1>5 DEF Next

\* The types of the service's state hold in every reachable state, also when
\* Local State cannot be written and calls on one name overlap.
THEOREM TypeCorrect == Spec => []TypeOK
<1>1. Init => TypeOK
  BY InitType
<1>2. TypeOK /\ [Next]_vars => TypeOK'
  BY NextType
<1> QED
  BY <1>1, <1>2, PTL DEF Spec

-----------------------------------------------------------------------------
(***************************************************************************)
(* What a step does to the runtime objects and the realizations, whichever *)
(* handler takes it                                                        *)
(***************************************************************************)
InUse(r) == real[r].pc # "unused"
Live(r) == real[r].pc \in {"opening", "closingLate"}

\* Realization r stays what it is, except for its session and its abort.
SameReal(r) ==
  /\ real'[r].obj = real[r].obj /\ real'[r].gen = real[r].gen /\ real'[r].pc = real[r].pc
  /\ real'[r].rejected = real[r].rejected /\ real'[r].watched = real[r].watched

Aborts(S) ==
  \A r \in Real : /\ SameReal(r) /\ real'[r].sess = real[r].sess
                  /\ real'[r].aborted <=> (real[r].aborted \/ r \in S)

Moves(r) ==
  \/ real'[r].sess = real[r].sess
  \/ real[r].sess = "open" /\ real'[r].sess = "closing"
  \/ real[r].sess = "closing" /\ real'[r].sess \in {"closed", "failed"}

\* Sessions close or nothing happens to them.
SessionsMove ==
  /\ UNCHANGED <<stored, intents, rt, closing>>
  /\ \A r \in Real : SameReal(r) /\ real'[r].aborted = real[r].aborted /\ Moves(r)

\* Object o forgets its session.
Forgets(o) ==
  /\ UNCHANGED <<stored, intents, real, closing>>
  /\ rt' = [rt EXCEPT ![o].session = 0]

\* Realization r of object o begins.
Starts(o, r) ==
  /\ o \in Obj /\ r \in Real /\ real[r].pc = "unused" /\ ~closing
  /\ \A x \in Obj : x # o => rt'[x] = rt[x]
  /\ rt[o].used => rt[o].session = rt'[o].session /\ rt'[o].gen > rt[o].gen
                   /\ rt'[o].inst = rt[o].inst
  /\ ~rt[o].used => rt'[o].session = 0
  /\ rt'[o].used /\ rt'[o].enabled /\ rt'[o].status = "starting"
  /\ rt'[o].controller = r /\ rt'[o].realization = r
  /\ \A s \in Real : s # r =>
       /\ SameReal(s) /\ real'[s].sess = real[s].sess
       /\ real'[s].aborted <=> (real[s].aborted \/ (rt[o].used /\ s = rt[o].controller))
  /\ real'[r].obj = o /\ real'[r].gen = rt'[o].gen /\ real'[r].pc = "opening"
  /\ ~real'[r].aborted /\ real'[r].sess = "none" /\ ~real'[r].watched /\ ~real'[r].rejected
  /\ Registered(o) \/ (~rt[o].used /\ intents[o[1]] = 0)
  /\ intents' = [intents EXCEPT ![o[1]] = o[2]]
  /\ stored' = [stored EXCEPT ![o[1]] = Definition(rt'[o].inst, TRUE)]
  /\ UNCHANGED closing

\* Object o is registered, and nothing is opened for it.
Registers(o) ==
  /\ o \in Obj /\ ~rt[o].used /\ intents[o[1]] = 0
  /\ \A x \in Obj : x # o => rt'[x] = rt[x]
  /\ rt'[o].used /\ rt'[o].session = 0 /\ rt'[o].controller = 0 /\ rt'[o].realization = 0
  /\ rt'[o].status \in {"starting", "disabled"}
  /\ intents' = [intents EXCEPT ![o[1]] = o[2]]
  /\ stored' = [stored EXCEPT ![o[1]] = Definition(rt'[o].inst, rt'[o].enabled)]
  /\ rt'[o].enabled => closing
  /\ UNCHANGED <<real, closing>>

\* The realizations of the registered objects in T are superseded.
Supersedes(T) ==
  /\ \A o \in T : o \in Obj /\ Registered(o)
  /\ \A o \in Obj : o \notin T => rt'[o] = rt[o]
  /\ \A o \in T : /\ rt'[o].used = rt[o].used /\ rt'[o].inst = rt[o].inst
                  /\ rt'[o].session = rt[o].session
                  /\ rt'[o].gen = rt[o].gen + 1
  /\ Aborts({rt[o].controller : o \in T})

\* They are disabled.
Disables(T) ==
  /\ Supersedes(T)
  /\ \A o \in T : /\ ~rt'[o].enabled /\ rt'[o].status = "disabled" /\ rt'[o].controller = 0
                  /\ rt'[o].realization = rt[o].realization
  /\ \A n \in Name : stored'[n] = IF intents[n] # 0 /\ Current(n) \in T
                                  THEN Definition(stored[n].inst, FALSE) ELSE stored[n]
  /\ UNCHANGED <<intents, closing>>

\* A handler waits for the realizations of the objects in T to end; that of a drainer
\* drains their instance.
Awaits(T) ==
  \E a \in Actor :
    /\ act'[a].pc \in {"disableWait", "drainWait"}
    /\ \A o \in T : /\ rt[o].realization # 0 => rt[o].realization \in act'[a].wait
                    /\ a \in Drainer => act'[a].inst = rt[o].inst

\* The service knows object o no more.
Removes(o) ==
  /\ Supersedes({o})
  /\ rt'[o].enabled = rt[o].enabled /\ rt'[o].status = rt[o].status
  /\ rt'[o].controller = rt[o].controller /\ rt'[o].realization = rt[o].realization
  /\ stored' = [stored EXCEPT ![o[1]] = Absent] /\ intents' = [intents EXCEPT ![o[1]] = 0]
  /\ UNCHANGED closing

\* The shutdown supersedes everything.
Closes ==
  /\ Supersedes({o \in Obj : Registered(o)})
  /\ \A o \in Obj : /\ rt'[o].enabled = rt[o].enabled /\ rt'[o].status = rt[o].status
                    /\ rt'[o].controller = rt[o].controller
                    /\ rt'[o].realization = rt[o].realization
  /\ ~closing /\ closing' /\ UNCHANGED <<stored, intents>>

\* An enable that comes during the shutdown opens nothing.
EnablesLate(o) ==
  /\ Supersedes({o}) /\ closing
  /\ rt'[o].enabled /\ rt'[o].status = "starting"
  /\ rt'[o].controller = 0 /\ rt'[o].realization = 0
  /\ stored' = [stored EXCEPT ![o[1]] = Definition(rt[o].inst, TRUE)]
  /\ UNCHANGED <<intents, closing>>

(***************************************************************************)
(* The part of the inductive invariant that concerns them alone            *)
(***************************************************************************)
Shape ==
  \A r \in Real :
    /\ real[r].pc = "unused" => ~real[r].watched /\ ~real[r].rejected
    /\ real[r].pc \in {"unused", "opening"} => real[r].sess = "none"
    /\ real[r].pc = "closingLate" => real[r].sess \in {"closing", "closed", "failed"}
    /\ real[r].watched => real[r].pc = "done"
    /\ real[r].rejected => real[r].pc = "done" /\ real[r].sess = "failed"
    /\ real[r].sess \in {"open", "closing"} => real[r].watched \/ real[r].pc = "closingLate"
    /\ InUse(r) => rt[real[r].obj].used /\ real[r].gen <= rt[real[r].obj].gen

GensDiffer ==
  \A r, s \in Real : (/\ InUse(r) /\ InUse(s) /\ real[r].obj = real[s].obj
                      /\ real[r].gen = real[s].gen) => r = s

RegisteredIsUsed == \A n \in Name : intents[n] # 0 => rt[Current(n)].used

\* An opening is aborted or it is the one its object waits for.
CurrentIsLinked ==
  \A r \in Real : real[r].pc = "opening" =>
    LET o == real[r].obj IN
    /\ ~real[r].aborted => real[r].gen = rt[o].gen
    /\ real[r].gen = rt[o].gen => /\ StillWanted(r) /\ rt[o].status = "starting"
                                  /\ rt[o].controller = r /\ rt[o].realization = r

ShutOrder == closing <=> shut.pc \notin {"open", "server"}

\* Until restore() is through no handler runs, and what it has still to realize
\* is untouched.
Restoring ==
  /\ ~up => shut.pc = "open" /\ \A a \in Actor : act[a].pc = "idle"
  /\ \A n \in toRestore :
       /\ ~up /\ intents[n] # 0
       /\ rt[Current(n)].enabled /\ rt[Current(n)].status = "starting"
       /\ rt[Current(n)].session = 0
       /\ \A r \in Real : InUse(r) => real[r].obj # Current(n)

Base == /\ Shape /\ GensDiffer /\ RegisteredIsUsed /\ CurrentIsLinked
        /\ LiveIsServed /\ RestartServesTheSame


(***************************************************************************)
(* What holds of the sessions and of the handlers when the calls on one    *)
(* name are taken in turn                                                  *)
(***************************************************************************)
Ended(s) == real[s].sess \in {"closing", "closed", "failed"}

\* The session of an object is that of a realization of its own that has ended; one
\* that is awaited excludes a session.
SessionsOf ==
  \A o \in Obj :
    /\ ~rt[o].used => rt[o].session = 0 /\ rt[o].realization = 0
    /\ rt[o].session # 0 => LET r == rt[o].session IN
                              real[r].obj = o /\ real[r].pc = "done" /\ real[r].sess # "none"
    /\ rt[o].enabled /\ rt[o].status # "live" => rt[o].session = 0
    /\ rt[o].realization # 0 =>
         LET r == rt[o].realization IN real[r].obj = o /\ Live(r) /\ rt[o].session = 0

\* What a handler still knows of its object after its awaits.
Closing(a) ==
  LET o == act[a].obj IN
  act[a].pc \in {"preClose", "reClose"} =>
    /\ rt[o].used /\ ~rt[o].enabled /\ rt[o].session \in {act[a].sess, 0}
    /\ rt[o].session = 0 => Settled(act[a].sess)

Enabling(a) ==
  LET o == act[a].obj  n == act[a].name IN
  /\ (act[a].pc \in {"preClose", "enableStore"} /\ o # NoObj) =>
       /\ rt[o].used /\ NameOf(o) = n /\ intents[n] \in {o[2], 0}
       /\ act[a].tracked /\ act[a].inst = rt[o].inst /\ ~rt[o].enabled
       /\ act[a].pc = "enableStore" => rt[o].session = 0
  /\ (act[a].pc \in {"enableStore", "disableStore", "removeStore"} /\ o = NoObj) =>
       intents[n] = 0

Removing(a) ==
  LET o == act[a].obj IN
  act[a].pc \in {"removeWait", "removeClose"} =>
    /\ ~Registered(o) /\ rt[o].used /\ NameOf(o) = act[a].name
    /\ (act[a].pc = "removeWait" /\ act[a].wait # {}) => rt[o].session = 0
    /\ act[a].pc = "removeClose" => rt[o].session \in {act[a].sess, 0}

\* Requests and drainers run different handlers.
ByDrainer == {"beginWait", "granted", "refused", "drained"}
Drains == {"drainStore", "drainWait", "drainLoop", "drainClose", "cleanLoop", "cleanClose"}
Role(a) ==
  /\ a \in Request => act[a].pc \notin ByDrainer
  /\ a \in Drainer => act[a].pc \in {"idle", "done"} \cup ByDrainer \cup Drains

HandlerOK(a) ==
  /\ Role(a) /\ Closing(a) /\ Enabling(a) /\ Removing(a)
  /\ act[a].pc \in AwaitsSession => Ended(act[a].sess)
  /\ \A c \in act[a].clean : real[c.session].sess = "failed"
  /\ act[a].pc = "createStore" => act[a].tracked

Handlers == \A a \in Actor : HandlerOK(a)

\* The calls on one name that may still start a realization take their turns.
OneStarting == \A n \in Name : \A p, q \in Starting(n) : p = q

\* What pendingCleanup keeps are sessions that could not be closed.
CleanupFailed == \A c \in cleanup : real[c.session].sess = "failed"

Held == SessionsOf /\ Handlers /\ OneStarting /\ CleanupFailed

\* Who starts object o: restore(), retry, or a call of create or enable that the drain
\* of the instance waits for.
StartedBy(o) ==
  \/ ~up /\ rt[o].realization = 0
  \/ /\ rt[o].used /\ rt[o].enabled /\ rt[o].status \notin {"live", "starting"}
     /\ rt[o].inst \notin drained
  \/ \E q \in Request :
       /\ act[q].tracked
       /\ \/ act[q].pc = "createStore" /\ ~rt[o].used /\ rt'[o].inst = act[q].inst
          \/ /\ act[q].pc = "enableStore" /\ rt[o].used /\ ~rt[o].enabled
             /\ rt[o].inst = act[q].inst

\* No other handler is about to disable, enable or remove object o on what it knew
\* before o is started.
Alone(o) ==
  /\ StartedBy(o)
  /\ \A b \in Request : act'[b] = act[b] =>
       /\ act[b].obj = o => act[b].pc \notin {"preClose", "reClose", "enableStore"}
       /\ ~rt[o].used => b \notin Starting(o[1])
-----------------------------------------------------------------------------
(***************************************************************************)
(* Which of these each handler does                                        *)
(***************************************************************************)
LEMMA Objs ==
  ASSUME TypeOK, NEW n \in Name, intents[n] # 0
  PROVE  /\ Current(n) \in Obj /\ Current(n)[1] = n /\ Current(n)[2] = intents[n]
         /\ Registered(Current(n))
BY Objects DEF Current, Registered, NameOf, TypeOK

LEMMA RegisteredObjs ==
  ASSUME TypeOK, NEW o \in Obj, Registered(o)
  PROVE  o = Current(o[1]) /\ intents[o[1]] # 0 /\ o[1] \in Name
BY Objects, Lifetimes DEF Current, Registered, NameOf

LEMMA ClosesEffect ==
  ASSUME TypeOK, NEW s, real' = CloseSession(real, s)
  PROVE  \A r \in Real : SameReal(r) /\ real'[r].aborted = real[r].aborted /\ Moves(r)
BY DEF TypeOK, CloseSession, SameReal, Moves, Realization, RealizationFields

LEMMA StaysEffect ==
  ASSUME UNCHANGED real
  PROVE  \A r \in Real : SameReal(r) /\ real'[r].aborted = real[r].aborted /\ Moves(r)
BY DEF SameReal, Moves

LEMMA AbortEffect ==
  ASSUME TypeOK, NEW S, NEW c, real' = Abort(real, S), \A r \in Real : r \in S <=> r \in c
  PROVE  Aborts(c)
BY DEF TypeOK, Abort, Aborts, SameReal, Realization, RealizationFields

\* What StartRealization(o, rec, f) does when it begins realization r.
Began(o, rec, f, r) ==
  /\ real[r].pc = "unused"
  /\ \A x \in Obj : x # o => rt'[x] = rt[x]
  /\ rt'[o].used = rec.used /\ rt'[o].inst = rec.inst /\ rt'[o].enabled
  /\ rt'[o].gen = rec.gen + 1 /\ rt'[o].status = "starting"
  /\ rt'[o].session = rec.session
  /\ rt'[o].controller = r /\ rt'[o].realization = r
  /\ \A s \in Real : s # r =>
       /\ real'[s].obj = f[s].obj /\ real'[s].gen = f[s].gen /\ real'[s].pc = f[s].pc
       /\ real'[s].rejected = f[s].rejected /\ real'[s].watched = f[s].watched
       /\ real'[s].sess = f[s].sess
       /\ real'[s].aborted <=> (f[s].aborted \/ s = rec.controller)
  /\ real'[r].obj = o /\ real'[r].gen = rec.gen + 1 /\ real'[r].pc = "opening"
  /\ ~real'[r].aborted /\ real'[r].sess = "none" /\ ~real'[r].watched
  /\ ~real'[r].rejected

LEMMA StartEffect ==
  ASSUME TypeOK, NEW o \in Obj, NEW rec \in RuntimeIntent, NEW f \in [Real -> Realization],
         StartRealization(o, rec, f), ~closing, rec.enabled
  PROVE  \E r \in Real : Began(o, rec, f, r)
<1> DEFINE g == Abort(f, Only(rec.controller))
<1>1. PICK r \in FreshReals :
        /\ rt' = [rt EXCEPT ![o] = [rec EXCEPT !.gen = @ + 1, !.status = "starting",
                                               !.controller = r, !.realization = r]]
        /\ real' = [g EXCEPT ![r] = [NoReal EXCEPT !.obj = o, !.gen = rec.gen + 1,
                                                   !.pc = "opening"]]
  BY DEF StartRealization
<1>2. r \in Real /\ real[r].pc = "unused"
  BY DEF FreshReals
<1>3. g \in [Real -> Realization]
  BY AbortType
<1>4. \A s \in Real :
        /\ g[s].obj = f[s].obj /\ g[s].gen = f[s].gen /\ g[s].pc = f[s].pc
        /\ g[s].rejected = f[s].rejected /\ g[s].watched = f[s].watched
        /\ g[s].sess = f[s].sess
        /\ g[s].aborted <=> (f[s].aborted \/ s = rec.controller)
  <2> TAKE s \in Real
  <2>1. s \in Only(rec.controller) <=> s = rec.controller
    BY Constants DEF Only
  <2>2. f[s] \in RealizationFields
    BY DEF Realization
  <2>3. g[s] = IF s \in Only(rec.controller) THEN [f[s] EXCEPT !.aborted = TRUE] ELSE f[s]
    BY DEF Abort
  <2> QED
    BY <2>1, <2>2, <2>3 DEF RealizationFields
<1> DEFINE y == [NoReal EXCEPT !.obj = o, !.gen = rec.gen + 1, !.pc = "opening"]
           x == [rec EXCEPT !.gen = @ + 1, !.status = "starting", !.controller = r,
                            !.realization = r]
<1>5. /\ y.obj = o /\ y.gen = rec.gen + 1 /\ y.pc = "opening"
      /\ ~y.aborted /\ y.sess = "none" /\ ~y.watched /\ ~y.rejected
  BY DEF NoReal
<1>6. /\ x.used = rec.used /\ x.inst = rec.inst /\ x.enabled /\ x.gen = rec.gen + 1
      /\ x.status = "starting" /\ x.session = rec.session
      /\ x.controller = r /\ x.realization = r
  BY DEF RuntimeIntent
<1>7. rt' = [rt EXCEPT ![o] = x] /\ real' = [g EXCEPT ![r] = y]
  BY <1>1
<1> HIDE DEF g, x, y
<1>8. /\ \A z \in Obj : z # o => rt'[z] = rt[z]
      /\ rt'[o] = x
  BY <1>7 DEF TypeOK
<1>9. /\ \A s \in Real : s # r => real'[s] = g[s]
      /\ real'[r] = y
  BY <1>2, <1>3, <1>7
<1>10. Began(o, rec, f, r)
  BY <1>2, <1>4, <1>5, <1>6, <1>8, <1>9 DEF Began
<1> QED
  BY <1>2, <1>10

LEMMA NoStartEffect ==
  ASSUME TypeOK, NEW o \in Obj, NEW rec \in RuntimeIntent, NEW f,
         StartRealization(o, rec, f), closing \/ ~rec.enabled
  PROVE  /\ \A x \in Obj : x # o => rt'[x] = rt[x]
         /\ rt'[o].used = rec.used /\ rt'[o].inst = rec.inst
         /\ rt'[o].enabled = rec.enabled /\ rt'[o].gen = rec.gen
         /\ rt'[o].status = rec.status /\ rt'[o].session = rec.session
         /\ rt'[o].controller = rec.controller /\ rt'[o].realization = 0
         /\ real' = f
<1> DEFINE x == [rec EXCEPT !.realization = 0]
<1>1. /\ x.used = rec.used /\ x.inst = rec.inst /\ x.enabled = rec.enabled
      /\ x.gen = rec.gen /\ x.status = rec.status /\ x.session = rec.session
      /\ x.controller = rec.controller /\ x.realization = 0
  BY DEF RuntimeIntent
<1>2. rt' = [rt EXCEPT ![o] = x] /\ real' = f
  BY DEF StartRealization
<1> HIDE DEF x
<1> QED
  BY <1>1, <1>2 DEF TypeOK

LEMMA RestoreEffect ==
  ASSUME TypeOK, Base, ShutOrder, Restoring, NEW n \in Name, Restore(n)
  PROVE  \E r \in Real : Starts(Current(n), r)
<1> DEFINE o == Current(n)
<1>1. n \in toRestore /\ intents[n] # 0 /\ StartRealization(o, rt[o], real)
  BY DEF Restore
<1>2. o \in Obj /\ o[1] = n /\ o[2] = intents[n] /\ Registered(o)
  BY <1>1, Objs
<1>3. rt[o].enabled /\ ~closing /\ rt[o].used
  BY <1>1 DEF Restoring, ShutOrder, Base, RegisteredIsUsed
<1>4. rt[o] \in RuntimeIntent /\ real \in [Real -> Realization]
  BY <1>2 DEF TypeOK
<1>5. stored[n] = Definition(rt[o].inst, TRUE)
  BY <1>1, <1>3, <1>4 DEF Base, RestartServesTheSame, RuntimeIntent
<1>6. intents' = [intents EXCEPT ![o[1]] = o[2]]
  BY <1>2 DEF Restore, TypeOK
<1>7. stored' = [stored EXCEPT ![o[1]] = Definition(rt[o].inst, TRUE)]
  BY <1>2, <1>5 DEF Restore, TypeOK
<1> HIDE DEF o
<1>8. PICK r \in Real : Began(o, rt[o], real, r)
  BY <1>1, <1>2, <1>3, <1>4, StartEffect
<1>9. rt[o].gen + 1 > rt[o].gen
  BY <1>4 DEF RuntimeIntent
<1>10. UNCHANGED closing
  BY DEF Restore
<1>11. Starts(o, r)
  BY <1>2, <1>3, <1>6, <1>7, <1>8, <1>9, <1>10 DEF Starts, Began, SameReal
<1> QED
  BY <1>11 DEF o


LEMMA RetryEffect ==
  ASSUME TypeOK, Base, ShutOrder, NEW q \in Request, NEW n \in Name, Retry(q, n)
  PROVE  \E r \in Real : Starts(Current(n), r)
<1> DEFINE o == Current(n)
           rec == [rt[o] EXCEPT !.status = "starting"]
<1>1. intents[n] # 0 /\ rt[o].enabled /\ StartRealization(o, rec, real)
  BY DEF Retry
<1>2. o \in Obj /\ o[1] = n /\ o[2] = intents[n] /\ Registered(o)
  BY <1>1, Objs
<1>3. ~closing /\ rt[o].used
  BY <1>1 DEF Base, RegisteredIsUsed, ShutOrder, Retry, Idle, Serving
<1>4. rt[o] \in RuntimeIntent /\ real \in [Real -> Realization]
  BY <1>2 DEF TypeOK
<1>5. stored[n] = Definition(rt[o].inst, TRUE)
  BY <1>1, <1>3, <1>4 DEF Base, RestartServesTheSame, RuntimeIntent
<1>6. intents' = [intents EXCEPT ![o[1]] = o[2]]
  BY <1>2 DEF Retry, TypeOK
<1>7. stored' = [stored EXCEPT ![o[1]] = Definition(rt[o].inst, TRUE)]
  BY <1>2, <1>5 DEF Retry, TypeOK
<1>8. /\ rec \in RuntimeIntent /\ rec.used = rt[o].used /\ rec.inst = rt[o].inst /\ rec.enabled
      /\ rec.gen = rt[o].gen /\ rec.session = rt[o].session
      /\ rec.controller = rt[o].controller
  BY <1>1, <1>4 DEF RuntimeIntent
<1> HIDE DEF o, rec
<1>9. PICK r \in Real : Began(o, rec, real, r)
  BY <1>1, <1>2, <1>3, <1>4, <1>8, StartEffect
<1>10. rt[o].gen + 1 > rt[o].gen
  BY <1>4 DEF RuntimeIntent
<1>11. UNCHANGED closing
  BY DEF Retry, IntentsUnchanged
<1>12. Starts(o, r)
  BY <1>2, <1>3, <1>6, <1>7, <1>8, <1>9, <1>10, <1>11 DEF Starts, Began, SameReal
<1> QED
  BY <1>12 DEF o

LEMMA NothingEffect ==
  ASSUME UNCHANGED <<stored, intents, rt, real, closing>>
  PROVE  SessionsMove
BY StaysEffect DEF SessionsMove

LEMMA CreatedEffect ==
  ASSUME TypeOK, Base, NEW q \in Request, Created(q)
  PROVE  \/ SessionsMove
         \/ \E o \in Obj : /\ o[1] = act[q].name /\ ~rt[o].used /\ rt'[o].inst = act[q].inst
                           /\ Registers(o) \/ \E r \in Real : Starts(o, r)
<1> DEFINE n == act[q].name  i == act[q].inst  en == act[q].en
<1>0. n \in Name /\ i \in Instance /\ en \in BOOLEAN
  BY DEF Created, At, TypeOK, Actor, Handler, HandlerFields, OnName, OnInstance
<1>c. UNCHANGED closing
  BY DEF Created, IntentsUnchanged
<1>1. CASE stored[n] # Absent
  BY <1>1, <1>c, NothingEffect DEF Created
<1>2. CASE stored[n] = Absent
  <2>1. PICK k \in FreshLives(n) :
          /\ stored' = [stored EXCEPT ![n] = Definition(i, en)]
          /\ intents' = [intents EXCEPT ![n] = k]
          /\ StartRealization(<<n, k>>, NewRuntime(i, en), real)
    BY <1>2 DEF Created
  <2> DEFINE o == <<n, k>>  rec == NewRuntime(i, en)
  <2>2. o \in Obj /\ o[1] = n /\ o[2] = k /\ ~rt[o].used
    BY <1>0, Objects DEF FreshLives
  <2>3. intents[n] = 0
    BY <1>0, <1>2, DefinitionsOf DEF Base, RestartServesTheSame, TypeOK, RuntimeIntent, Definition, Absent
  <2>4. /\ rec.used /\ rec.inst = i /\ rec.enabled = en /\ rec.gen = 0 /\ rec.session = 0
        /\ rec.realization = 0 /\ rec.controller = 0
        /\ rec.status = (IF en THEN "starting" ELSE "disabled")
    BY DEF NewRuntime
  <2>5. rec \in RuntimeIntent /\ real \in [Real -> Realization]
    BY <1>0, NewRuntimeType DEF TypeOK
  <2>6. StartRealization(o, rec, real)
    BY <2>1
  <2>7. \A s \in Real : s # 0
    BY Constants
  <2> HIDE DEF o, rec
  <2>8. CASE en /\ ~closing
    <3>1. PICK r \in Real : Began(o, rec, real, r)
      BY <2>2, <2>4, <2>5, <2>6, <2>8, StartEffect
    <3>2. Starts(o, r)
      BY <1>c, <2>1, <2>2, <2>3, <2>4, <2>7, <2>8, <3>1 DEF Starts, Began, SameReal
    <3>3. rt'[o].inst = i
      BY <2>4, <3>1 DEF Began
    <3> QED
      BY <2>2, <3>2, <3>3 DEF n, i
  <2>9. CASE ~(en /\ ~closing)
    <3>1. Registers(o) /\ rt'[o].inst = i
      <4>1. /\ \A x \in Obj : x # o => rt'[x] = rt[x]
            /\ rt'[o].used = rec.used /\ rt'[o].inst = rec.inst
            /\ rt'[o].enabled = rec.enabled /\ rt'[o].gen = rec.gen
            /\ rt'[o].status = rec.status /\ rt'[o].session = rec.session
            /\ rt'[o].controller = rec.controller /\ rt'[o].realization = 0
            /\ real' = real
        BY <2>2, <2>4, <2>5, <2>6, <2>9, NoStartEffect
      <4> QED
        BY <1>c, <2>1, <2>2, <2>3, <2>4, <2>9, <4>1 DEF Registers
    <3> QED
      BY <2>2, <3>1 DEF n, i
  <2> QED
    BY <2>8, <2>9
<1> QED
  BY <1>1, <1>2

LEMMA EnabledEffect ==
  ASSUME TypeOK, Base, NEW q \in Request, Enabled(q)
  PROVE  \/ SessionsMove
         \/ /\ intents[act[q].name] # 0
            /\ \/ EnablesLate(Current(act[q].name))
               \/ \E r \in Real : Starts(Current(act[q].name), r)
<1> DEFINE n == act[q].name  u == UpdatedRuntime(n)  i == stored[n].inst
<1>0. n \in Name
  BY DEF Enabled, At, TypeOK, Actor, Handler, HandlerFields, OnName
<1>c. UNCHANGED closing
  BY DEF Enabled, IntentsUnchanged
<1>1. CASE stored[n] = Absent
  BY <1>1, <1>c, NothingEffect DEF Enabled
<1>2. CASE stored[n] # Absent
  <2> DEFINE o == Current(n)
             rec == [u EXCEPT !.enabled = TRUE, !.gen = @ + 1, !.controller = 0,
                              !.status = "starting"]
             f == Abort(real, Only(u.controller))
  <2>1. intents[n] # 0 /\ stored[n] = Definition(rt[o].inst, rt[o].enabled)
    BY <1>0, <1>2 DEF Base, RestartServesTheSame
  <2>2. o \in Obj /\ o[1] = n /\ o[2] = intents[n] /\ o = <<n, intents[n]>> /\ Registered(o)
    BY <1>0, <2>1, Objs DEF Current
  <2>3. rt[o] \in RuntimeIntent /\ rt[o].used
    BY <1>0, <2>1, <2>2 DEF TypeOK, Base, RegisteredIsUsed
  <2>4. i = rt[o].inst
    BY <2>1 DEF Definition
  <2>5. u \in RuntimeIntent /\ u = [rt[o] EXCEPT !.inst = i]
    BY <1>0, <1>2, <2>1, UpdatedRuntimeType DEF UpdatedRuntime
  <2>6. /\ u.used /\ u.gen = rt[o].gen /\ u.session = rt[o].session /\ u.inst = i
        /\ u.controller = rt[o].controller
    BY <2>3, <2>5 DEF RuntimeIntent
  <2>7. /\ stored' = [stored EXCEPT ![n] = Definition(i, TRUE)]
        /\ intents' = [intents EXCEPT ![n] = o[2]]
        /\ StartRealization(o, rec, f)
    BY <1>2, <2>1, <2>2 DEF Enabled, Lives
  <2> HIDE DEF u, o
  <2>8. rec.gen = rt[o].gen + 1 /\ rec \in RuntimeIntent
    <3>1. u.gen + 1 \in Nat
      BY <2>5 DEF RuntimeIntent
    <3> QED
      BY <2>5, <2>6, <3>1 DEF RuntimeIntent
  <2>9. /\ rec.used /\ rec.enabled /\ rec.session = rt[o].session /\ rec.inst = rt[o].inst
        /\ rec.controller = 0 /\ rec.status = "starting"
    BY <2>4, <2>5, <2>6 DEF RuntimeIntent
  <2>10. f \in [Real -> Realization]
    BY AbortType DEF TypeOK
  <2>11. \A s \in Real :
           /\ f[s].obj = real[s].obj /\ f[s].gen = real[s].gen /\ f[s].pc = real[s].pc
           /\ f[s].rejected = real[s].rejected /\ f[s].watched = real[s].watched
           /\ f[s].sess = real[s].sess
           /\ f[s].aborted <=> (real[s].aborted \/ s = rt[o].controller)
    <3> TAKE s \in Real
    <3>1. s \in Only(u.controller) <=> s = rt[o].controller
      BY <2>6, Constants DEF Only
    <3>2. real[s] \in RealizationFields
      BY DEF TypeOK, Realization
    <3>3. f[s] = IF s \in Only(u.controller) THEN [real[s] EXCEPT !.aborted = TRUE] ELSE real[s]
      BY DEF Abort
    <3> QED
      BY <3>1, <3>2, <3>3 DEF RealizationFields
  <2>12. (rt[o].gen + 1) + 1 > rt[o].gen /\ \A s \in Real : s # 0
    BY <2>3, Constants DEF RuntimeIntent
  <2> HIDE DEF rec, f
  <2>13. CASE ~closing
    <3>1. PICK r \in Real : Began(o, rec, f, r)
      BY <2>2, <2>7, <2>8, <2>9, <2>10, <2>13, StartEffect
    <3>2. \A s \in Real : s # r =>
            /\ SameReal(s) /\ real'[s].sess = real[s].sess
            /\ real'[s].aborted <=> (real[s].aborted \/ (rt[o].used /\ s = rt[o].controller))
      BY <2>3, <2>9, <2>11, <2>12, <3>1 DEF Began, SameReal
    <3>3. /\ rt'[o].session = rt[o].session /\ rt'[o].gen > rt[o].gen
          /\ rt'[o].inst = rt[o].inst
      BY <2>8, <2>9, <2>12, <3>1 DEF Began
    <3>4. Starts(o, r)
      <4>1. /\ o \in Obj /\ r \in Real /\ real[r].pc = "unused" /\ ~closing
            /\ \A x \in Obj : x # o => rt'[x] = rt[x]
        BY <2>2, <2>13, <3>1 DEF Began
      <4>2. /\ rt'[o].used /\ rt'[o].enabled /\ rt'[o].status = "starting"
            /\ rt'[o].controller = r /\ rt'[o].realization = r
            /\ real'[r].obj = o /\ real'[r].gen = rt'[o].gen /\ real'[r].pc = "opening"
            /\ ~real'[r].aborted /\ real'[r].sess = "none"
            /\ ~real'[r].watched /\ ~real'[r].rejected
        BY <2>9, <3>1 DEF Began
      <4>3. /\ Registered(o)
            /\ intents' = [intents EXCEPT ![o[1]] = o[2]]
            /\ stored' = [stored EXCEPT ![o[1]] = Definition(rt'[o].inst, TRUE)]
            /\ UNCHANGED closing
        BY <1>c, <2>2, <2>4, <2>7, <3>3
      <4> QED
        BY <2>3, <3>2, <3>3, <4>1, <4>2, <4>3 DEF Starts
    <3> QED
      BY <2>1, <3>4 DEF o
  <2>14. CASE closing
    <3>1. /\ \A x \in Obj : x # o => rt'[x] = rt[x]
          /\ rt'[o].used = rec.used /\ rt'[o].inst = rec.inst
          /\ rt'[o].enabled = rec.enabled /\ rt'[o].gen = rec.gen
          /\ rt'[o].status = rec.status /\ rt'[o].session = rec.session
          /\ rt'[o].controller = rec.controller /\ rt'[o].realization = 0
          /\ real' = f
      BY <2>2, <2>7, <2>8, <2>14, NoStartEffect
    <3>2. Aborts({rt[o].controller})
      BY <2>11, <3>1 DEF Aborts, SameReal
    <3>3. {rt[x].controller : x \in {o}} = {rt[o].controller}
      OBVIOUS
    <3>4. Supersedes({o})
      BY <2>2, <2>3, <2>8, <2>9, <3>1, <3>2, <3>3 DEF Supersedes
    <3>5. EnablesLate(o)
      BY <1>c, <2>2, <2>4, <2>7, <2>9, <2>14, <3>1, <3>4 DEF EnablesLate, TypeOK
    <3> QED
      BY <2>1, <3>5 DEF o
  <2> QED
    BY <2>13, <2>14
<1> QED
  BY <1>1, <1>2

LEMMA DisabledEffect ==
  ASSUME TypeOK, Base, NEW q \in Request, Disabled(q)
  PROVE  SessionsMove \/ \E o \in Obj : Disables({o}) /\ Awaits({o})
<1> DEFINE n == act[q].name  u == UpdatedRuntime(n)
<1>0. n \in Name
  BY DEF Disabled, At, TypeOK, Actor, Handler, HandlerFields, OnName
<1>c. UNCHANGED closing
  BY DEF Disabled, IntentsUnchanged
<1>1. CASE stored[n] = Absent
  BY <1>1, <1>c, NothingEffect DEF Disabled
<1>2. CASE stored[n] # Absent
  <2> DEFINE o == Current(n)
             rec == [u EXCEPT !.enabled = FALSE, !.gen = @ + 1, !.controller = 0,
                              !.status = "disabled"]
  <2>1. intents[n] # 0 /\ stored[n] = Definition(rt[o].inst, rt[o].enabled)
    BY <1>0, <1>2 DEF Base, RestartServesTheSame
  <2>2. o \in Obj /\ o[1] = n /\ o[2] = intents[n] /\ o = <<n, intents[n]>> /\ Registered(o)
    BY <1>0, <2>1, Objs DEF Current
  <2>3. rt[o] \in RuntimeIntent /\ rt[o].used
    BY <1>0, <2>1, <2>2 DEF TypeOK, Base, RegisteredIsUsed
  <2>4. stored[n].inst = rt[o].inst /\ stored[n].kind = (IF rt[o].enabled THEN "enabled" ELSE "disabled")
    BY <2>1 DEF Definition
  <2>5. u \in RuntimeIntent /\ u = [rt[o] EXCEPT !.inst = rt[o].inst]
    BY <1>0, <1>2, <2>1, <2>4, UpdatedRuntimeType DEF UpdatedRuntime
  <2>6. /\ u.used /\ u.gen = rt[o].gen /\ u.session = rt[o].session /\ u.inst = rt[o].inst
        /\ u.controller = rt[o].controller /\ u.realization = rt[o].realization
    BY <2>3, <2>5 DEF RuntimeIntent
  <2>7. /\ stored' = [stored EXCEPT ![n].kind = "disabled"]
        /\ intents' = [intents EXCEPT ![n] = o[2]]
        /\ rt' = [rt EXCEPT ![o] = rec]
        /\ real' = Abort(real, Only(u.controller))
    BY <1>2, <2>1, <2>2 DEF Disabled, Lives
  <2> HIDE DEF u
  <2>8. /\ rec.used = rt[o].used /\ rec.inst = rt[o].inst /\ rec.session = rt[o].session
        /\ rec.gen = rt[o].gen + 1 /\ ~rec.enabled /\ rec.status = "disabled"
        /\ rec.controller = 0 /\ rec.realization = rt[o].realization
    BY <2>3, <2>5, <2>6 DEF RuntimeIntent
  <2>9. stored'[n] = Definition(stored[n].inst, FALSE) /\ stored[n].inst = rt[o].inst
    <3>1. stored' = [stored EXCEPT ![n] = [stored[n] EXCEPT !.kind = "disabled"]]
      BY <2>7
    <3>2. stored[n] \in Definitions
      BY <1>0 DEF TypeOK
    <3> QED
      BY <1>0, <1>2, <2>4, <3>1, <3>2, DefinitionsOf DEF TypeOK
  <2>10. \A m \in Name : m # n => stored'[m] = stored[m]
    BY <2>7 DEF TypeOK
  <2>11. intents' = intents
    BY <2>2, <2>7 DEF TypeOK
  <2> HIDE DEF o, rec
  <2>12. rt'[o] = rec /\ \A x \in Obj : x # o => rt'[x] = rt[x]
    BY <2>2, <2>7 DEF TypeOK
  <2>13. \A r \in Real : r \in Only(u.controller) <=> r \in {rt[x].controller : x \in {o}}
    BY <2>6, Constants DEF Only
  <2>14. Aborts({rt[x].controller : x \in {o}})
    BY <2>7, <2>13, AbortEffect
  <2>15. Supersedes({o})
    BY <2>2, <2>8, <2>12, <2>14 DEF Supersedes
  <2>16. \A m \in Name : (intents[m] # 0 /\ Current(m) \in {o}) <=> m = n
    BY <1>0, <2>1 DEF Current, o
  <2>17. Disables({o})
    <3>1. \A m \in Name : stored'[m] = IF intents[m] # 0 /\ Current(m) \in {o}
                                       THEN Definition(stored[m].inst, FALSE) ELSE stored[m]
      BY <2>9, <2>10, <2>16
    <3> QED
      BY <1>c, <2>8, <2>11, <2>12, <2>15, <3>1 DEF Disables
  <2>18. Awaits({o})
    <3> DEFINE x == [act[q] EXCEPT !.pc = "disableWait", !.obj = o, !.wait = Only(u.realization)]
    <3>1. q \in Actor /\ q \notin Drainer /\ act[q] \in HandlerFields
      BY Constants DEF Actor, TypeOK, Handler
    <3>2. Do(q, x)
      BY <1>2, <2>1, <2>2 DEF Disabled, Lives, u
    <3>3. act'[q] = x
      BY <3>1, <3>2 DEF Do, TypeOK
    <3>4. x.pc = "disableWait" /\ x.wait = Only(u.realization)
      BY <3>1 DEF HandlerFields
    <3> HIDE DEF x
    <3>5. rt[o].realization # 0 => rt[o].realization \in Only(u.realization)
      BY <2>6 DEF Only
    <3> QED
      BY <3>1, <3>3, <3>4, <3>5 DEF Awaits
  <2> QED
    BY <2>2, <2>17, <2>18
<1> QED
  BY <1>1, <1>2

LEMMA DrainStoredEffect ==
  ASSUME TypeOK, Base, NEW a \in Actor, DrainStored(a)
  PROVE  Disables(Targets(act[a].inst)) /\ Awaits(Targets(act[a].inst))
<1> DEFINE i == act[a].inst  T == Targets(i)
           rec(o) == [rt[o] EXCEPT !.enabled = FALSE, !.gen = @ + 1, !.controller = 0,
                                   !.status = "disabled"]
<1>0. i \in Instance
  BY DEF DrainStored, At, TypeOK, Handler, OnInstance
<1>1. /\ stored' = [n \in Name |-> IF stored[n].inst = i THEN Definition(i, FALSE) ELSE stored[n]]
      /\ rt' = [o \in Obj |-> IF o \in T THEN rec(o) ELSE rt[o]]
      /\ real' = Abort(real, {rt[o].controller : o \in T})
      /\ UNCHANGED <<intents, closing>>
  BY DEF DrainStored, IntentsUnchanged
<1>2. \A o \in T : o \in Obj /\ Registered(o) /\ rt[o].inst = i
  BY DEF Targets
<1>3. \A o \in Obj : /\ rec(o).used = rt[o].used /\ rec(o).inst = rt[o].inst
                     /\ rec(o).session = rt[o].session
                     /\ rec(o).gen = rt[o].gen + 1 /\ ~rec(o).enabled
                     /\ rec(o).status = "disabled" /\ rec(o).controller = 0
                     /\ rec(o).realization = rt[o].realization
  <2> TAKE o \in Obj
  <2>1. rt[o] \in RuntimeIntent
    BY DEF TypeOK
  <2> QED
    BY <2>1 DEF RuntimeIntent
<1> HIDE DEF rec
<1>4. Aborts({rt[o].controller : o \in T})
  BY <1>1, AbortEffect
<1> HIDE DEF T
<1>5. \A o \in Obj : rt'[o] = IF o \in T THEN rec(o) ELSE rt[o]
  BY <1>1
<1>6. Supersedes(T)
  BY <1>2, <1>3, <1>4, <1>5 DEF Supersedes
<1>7. \A n \in Name : stored[n].inst = i <=> (intents[n] # 0 /\ Current(n) \in T)
  <2> TAKE n \in Name
  <2>1. CASE intents[n] = 0
    BY <1>0, <2>1, DefinitionsOf, Constants DEF Base, RestartServesTheSame
  <2>2. CASE intents[n] # 0
    <3>1. stored[n] = Definition(rt[Current(n)].inst, rt[Current(n)].enabled)
      BY <2>2 DEF Base, RestartServesTheSame
    <3>2. stored[n].inst = rt[Current(n)].inst
      BY <3>1 DEF Definition
    <3>3. Current(n) \in T <=> rt[Current(n)].inst = i
      BY <2>2, Objs DEF T, Targets
    <3> QED
      BY <2>2, <3>2, <3>3
  <2> QED
    BY <2>1, <2>2
<1>8. \A n \in Name : stored'[n] = IF intents[n] # 0 /\ Current(n) \in T
                                   THEN Definition(stored[n].inst, FALSE) ELSE stored[n]
  BY <1>1, <1>7
<1>9. Disables(T)
  BY <1>1, <1>2, <1>3, <1>5, <1>6, <1>8 DEF Disables
<1>10. Awaits(T)
  <2> DEFINE w == {rt[o].realization : o \in T} \ {0}
             x == [act[a] EXCEPT !.pc = "drainWait", !.todo = T, !.wait = w]
  <2>1. act[a] \in HandlerFields
    BY DEF TypeOK, Handler
  <2>2. Do(a, x)
    BY DEF DrainStored, T, i
  <2>3. act'[a] = x
    BY <2>2 DEF Do, TypeOK
  <2>4. x.pc = "drainWait" /\ x.wait = w /\ x.inst = i
    BY <2>1 DEF HandlerFields
  <2> HIDE DEF x
  <2> QED
    BY <1>2, <2>3, <2>4 DEF Awaits
<1> QED
  BY <1>9, <1>10 DEF T

LEMMA RemovedEffect ==
  ASSUME TypeOK, Base, NEW q \in Request, Removed(q)
  PROVE  SessionsMove \/ \E o \in Obj : Removes(o)
<1> DEFINE n == act[q].name  o == Current(n)
<1>0. n \in Name
  BY DEF Removed, At, TypeOK, Actor, Handler, HandlerFields, OnName
<1>c. UNCHANGED closing
  BY DEF Removed, IntentsUnchanged
<1>1. CASE stored[n] = Absent \/ intents[n] = 0
  <2>1. stored[n] = Absent
    BY <1>0, <1>1 DEF Base, RestartServesTheSame
  <2>2. stored' = [stored EXCEPT ![n] = Absent] /\ UNCHANGED <<intents, rt, real>>
    BY <1>1 DEF Removed
  <2>3. stored' = stored
    BY <2>1, <2>2 DEF TypeOK
  <2> QED
    BY <1>c, <2>2, <2>3, NothingEffect
<1>2. CASE ~(stored[n] = Absent \/ intents[n] = 0)
  <2>1. /\ stored' = [stored EXCEPT ![n] = Absent]
        /\ intents' = [intents EXCEPT ![n] = 0]
        /\ rt' = [rt EXCEPT ![o].gen = @ + 1]
        /\ real' = Abort(real, Only(rt[o].controller))
    BY <1>2 DEF Removed
  <2>2. o \in Obj /\ o[1] = n /\ Registered(o)
    BY <1>0, <1>2, Objs
  <2>3. rt[o] \in RuntimeIntent
    BY <2>2 DEF TypeOK
  <2>4. /\ \A x \in Obj : x # o => rt'[x] = rt[x]
        /\ rt'[o] = [rt[o] EXCEPT !.gen = @ + 1]
    BY <2>1, <2>2 DEF TypeOK
  <2>5. /\ rt'[o].used = rt[o].used /\ rt'[o].inst = rt[o].inst
        /\ rt'[o].session = rt[o].session /\ rt'[o].gen = rt[o].gen + 1
        /\ rt'[o].enabled = rt[o].enabled /\ rt'[o].status = rt[o].status
        /\ rt'[o].controller = rt[o].controller /\ rt'[o].realization = rt[o].realization
    BY <2>3, <2>4 DEF RuntimeIntent
  <2>6. \A r \in Real : r \in Only(rt[o].controller) <=> r \in {rt[x].controller : x \in {o}}
    BY Constants DEF Only
  <2>7. Aborts({rt[x].controller : x \in {o}})
    BY <2>1, <2>6, AbortEffect
  <2>8. Supersedes({o})
    BY <2>2, <2>4, <2>5, <2>7 DEF Supersedes
  <2>9. Removes(o)
    BY <1>c, <2>1, <2>2, <2>5, <2>8 DEF Removes
  <2> QED
    BY <2>2, <2>9
<1> QED
  BY <1>1, <1>2

LEMMA CloseServiceEffect ==
  ASSUME TypeOK, ShutOrder, CloseService
  PROVE  Closes
<1> DEFINE T == {o \in Obj : Registered(o)}
<1>1. /\ rt' = [o \in Obj |-> IF Registered(o) THEN [rt[o] EXCEPT !.gen = @ + 1] ELSE rt[o]]
      /\ real' = Abort(real, {rt[o].controller : o \in T})
      /\ UNCHANGED <<stored, intents>> /\ ~closing /\ closing'
  BY DEF CloseService, ShutOrder
<1>2. Aborts({rt[o].controller : o \in T})
  BY <1>1, AbortEffect
<1>3. \A o \in Obj :
        IF o \in T THEN /\ rt'[o].used = rt[o].used /\ rt'[o].inst = rt[o].inst
                        /\ rt'[o].session = rt[o].session /\ rt'[o].gen = rt[o].gen + 1
                        /\ rt'[o].enabled = rt[o].enabled /\ rt'[o].status = rt[o].status
                        /\ rt'[o].controller = rt[o].controller
                        /\ rt'[o].realization = rt[o].realization
                   ELSE rt'[o] = rt[o]
  <2> TAKE o \in Obj
  <2>1. rt[o] \in RuntimeIntent
    BY DEF TypeOK
  <2>2. rt'[o] = IF Registered(o) THEN [rt[o] EXCEPT !.gen = @ + 1] ELSE rt[o]
    BY <1>1
  <2> QED
    BY <2>1, <2>2 DEF RuntimeIntent
<1>4. Supersedes(T)
  BY <1>2, <1>3 DEF Supersedes
<1> QED
  BY <1>1, <1>3, <1>4 DEF Closes

\* Object o forgets its session; in turn, only once the session has ended.
ForgetsEnded(o) == Forgets(o) /\ (Held => rt[o].session = 0 \/ Settled(rt[o].session))

\* In turn, a realization begins only for an object that has no session.
StartsClean(o) == (rt[o].used => rt[o].session = 0) /\ Alone(o)

\* Every step is one of these.
Kinds ==
  \/ SessionsMove
  \/ \E o \in Obj :
       \/ ForgetsEnded(o) \/ Removes(o)
       \/ Disables({o}) /\ Awaits({o})
       \/ Registers(o) /\ (Held => Alone(o))
       \/ EnablesLate(o) /\ (Held => StartsClean(o))
       \/ \E r \in Real : Starts(o, r) /\ (Held => StartsClean(o))
  \/ \E i \in Instance : Disables(Targets(i)) /\ Awaits(Targets(i))
  \/ Closes
  \/ \E r \in Real : Answer(r) \/ LateClosed(r) \/ ClosureNoticed(r)

LEMMA ForgetIfClosedEffect ==
  ASSUME TypeOK, NEW o, NEW s, rt' = ForgetIfClosed(o, s),
         UNCHANGED <<stored, intents, real, closing>>
  PROVE  SessionsMove \/ ForgetsEnded(o)
BY NothingEffect DEF ForgetIfClosed, ForgetsEnded, Forgets, Settled

\* A handler that looks up the runtime object again finds the one it left.
LEMMA EnabledClean ==
  ASSUME TypeOK, Held, NEW q \in Request, Enabled(q), intents[act[q].name] # 0
  PROVE  /\ act[q].obj = Current(act[q].name) /\ act[q].obj # NoObj
         /\ rt[Current(act[q].name)].session = 0 /\ ~rt[Current(act[q].name)].enabled
<1> DEFINE n == act[q].name  o == act[q].obj
<1>1. act[q].pc = "enableStore" /\ q \in Actor
  BY DEF Enabled, At, Actor
<1>2. n \in Name /\ o \in Obj \cup {NoObj}
  BY <1>1 DEF TypeOK, Handler, HandlerFields, OnName
<1>3. Enabling(q)
  BY <1>1 DEF Held, Handlers, HandlerOK
<1>4. o # NoObj
  BY <1>1, <1>3 DEF Enabling
<1>5. NameOf(o) = n /\ intents[n] = o[2] /\ rt[o].session = 0 /\ ~rt[o].enabled
  BY <1>1, <1>3, <1>4 DEF Enabling
<1>6. o = Current(n)
  BY <1>2, <1>4, <1>5, Objects DEF Current, NameOf
<1> QED
  BY <1>4, <1>5, <1>6

LEMMA EnabledAlone ==
  ASSUME TypeOK, Base, Held, NEW q \in Request, Enabled(q), intents[act[q].name] # 0
  PROVE  StartsClean(Current(act[q].name))
<1> DEFINE n == act[q].name  o == Current(n)
<1>1. n \in Name /\ act[q].pc = "enableStore" /\ q \in Actor
  BY DEF Enabled, At, Actor, TypeOK, Handler, HandlerFields, OnName
<1>2. rt[o].session = 0 /\ o \in Obj /\ rt[o].used
  BY <1>1, EnabledClean, Objs DEF Base, RegisteredIsUsed
<1>3. ASSUME NEW b \in Request, act'[b] = act[b], act[b].obj = o
      PROVE  act[b].pc \notin {"preClose", "reClose", "enableStore"}
  <2>1. b \in Actor
    BY DEF Actor
  <2>2. act'[q].pc \in {"drainStore", "done"}
    <3>1. /\ [Frame("drainStore") EXCEPT !.inst = stored[n].inst, !.tracked = FALSE].pc = "drainStore"
          /\ Done.pc = "done"
      BY DEF Done, Frame
    <3>2. \/ Do(q, Done)
          \/ Do(q, [Frame("drainStore") EXCEPT !.inst = stored[n].inst, !.tracked = FALSE])
      BY DEF Enabled, ThenDrainIfDraining
    <3> QED
      BY <1>1, <3>1, <3>2 DEF Do, TypeOK
  <2>3. b # q
    BY <1>1, <1>3, <2>2
  <2>4. CASE act[b].pc \in {"preClose", "enableStore"}
    <3>1. o # NoObj
      BY <1>2, Objects
    <3>2. act[b].name = n
      BY <1>1, <1>2, <1>3, <2>1, <2>4, <3>1, Objs DEF Held, Handlers, HandlerOK, Enabling, NameOf
    <3>3. b \in Starting(n) /\ q \in Starting(n)
      BY <1>1, <2>4, <3>2 DEF Starting
    <3> QED
      BY <1>1, <2>3, <3>3 DEF Held, OneStarting
  <2>5. CASE act[b].pc = "reClose"
    <3>1. Settled(act[b].sess)
      BY <1>2, <1>3, <2>1, <2>5 DEF Held, Handlers, HandlerOK, Closing
    <3>2. Ready(b)
      BY <2>5, <3>1 DEF Ready, AwaitsSession
    <3> QED
      BY <2>1, <3>2 DEF Enabled, Quiet
  <2> QED
    BY <2>4, <2>5
<1>4. StartedBy(o)
  <2>1. Enabling(q) /\ act[q].obj = o /\ act[q].obj # NoObj
    BY <1>1, EnabledClean DEF Held, Handlers, HandlerOK
  <2>2. act[q].tracked /\ act[q].inst = rt[o].inst
    BY <1>1, <2>1 DEF Enabling
  <2> QED
    BY <1>1, <1>2, <2>2, EnabledClean DEF StartedBy
<1> QED
  BY <1>2, <1>3, <1>4 DEF StartsClean, Alone

LEMMA CreatedAlone ==
  ASSUME TypeOK, Held, NEW q \in Request, Created(q), NEW o \in Obj, ~rt[o].used,
         o[1] = act[q].name, rt'[o].inst = act[q].inst
  PROVE  Alone(o)
<1> DEFINE n == act[q].name
<1>1. n \in Name /\ act[q].pc = "createStore" /\ q \in Actor
  BY DEF Created, At, Actor, TypeOK, Handler, HandlerFields, OnName
<1>2. act'[q].pc \in {"drainStore", "done"}
  <2>1. /\ [Frame("drainStore") EXCEPT !.inst = act[q].inst, !.tracked = TRUE].pc = "drainStore"
        /\ Done.pc = "done"
    BY DEF Done, Frame
  <2>2. \/ Do(q, Done)
        \/ Do(q, [Frame("drainStore") EXCEPT !.inst = act[q].inst, !.tracked = TRUE])
    BY DEF Created, ThenDrainIfDraining
  <2> QED
    BY <1>1, <2>1, <2>2 DEF Do, TypeOK
<1>3. ASSUME NEW b \in Request, act'[b] = act[b]
      PROVE  /\ act[b].obj = o => act[b].pc \notin {"preClose", "reClose", "enableStore"}
             /\ b \notin Starting(o[1])
  <2>1. b \in Actor /\ b # q /\ o # NoObj
    BY <1>1, <1>2, <1>3, Objects DEF Actor
  <2>2. act[b].obj = o => act[b].pc \notin {"preClose", "reClose", "enableStore"}
    BY <2>1 DEF Held, Handlers, HandlerOK, Closing, Enabling
  <2>3. q \in Starting(n)
    BY <1>1 DEF Starting
  <2> QED
    BY <1>1, <2>1, <2>2, <2>3 DEF Held, OneStarting
<1>4. StartedBy(o)
  BY <1>1 DEF StartedBy, Held, Handlers, HandlerOK
<1> QED
  BY <1>3, <1>4 DEF Alone

LEMMA RetryAlone ==
  ASSUME TypeOK, Base, Held, NEW q \in Request, NEW n \in Name, Retry(q, n)
  PROVE  StartsClean(Current(n))
<1> DEFINE o == Current(n)
<1>1. /\ intents[n] # 0 /\ o \in Obj /\ rt[o].enabled /\ o # NoObj
      /\ rt[o].status # "live" /\ rt[o].used
  BY Objs, Objects DEF Retry, Base, RegisteredIsUsed
<1>2. rt[o].session = 0
  BY <1>1 DEF Held, SessionsOf
<1>3. ASSUME NEW b \in Request, act[b].obj = o
      PROVE  act[b].pc \notin {"preClose", "reClose", "enableStore"}
  <2>1. b \in Actor
    BY DEF Actor
  <2> QED
    BY <1>1, <1>3, <2>1 DEF Held, Handlers, HandlerOK, Closing, Enabling
<1>4. StartedBy(o)
  BY <1>1 DEF Retry, StartedBy
<1> QED
  BY <1>1, <1>2, <1>3, <1>4 DEF StartsClean, Alone

LEMMA StartingKinds ==
  ASSUME TypeOK, Base, ShutOrder, NEW q \in Request, Start(q)
  PROVE  Kinds
<1>1. ASSUME NEW n \in Name, Retry(q, n)
      PROVE  Kinds
  <2>1. PICK r \in Real : Starts(Current(n), r)
    BY <1>1, RetryEffect
  <2>2. Current(n) \in Obj /\ intents[n] # 0
    BY <1>1, Objs DEF Retry
  <2>3. Held => StartsClean(Current(n))
    BY <1>1, RetryAlone
  <2> QED
    BY <2>1, <2>2, <2>3 DEF Kinds
<1>2. ASSUME NEW n \in Name, Enable(q, n) \/ Disable(q, n) \/ Remove(q, n)
      PROVE  SessionsMove
  <2>1. UNCHANGED <<stored, intents, rt, closing>>
    BY <1>2 DEF Enable, Disable, Remove, IntentsUnchanged
  <2>2. UNCHANGED real \/ \E s : real' = CloseSession(real, s)
    BY <1>2 DEF Enable, Disable, Remove
  <2> QED
    BY <2>1, <2>2, ClosesEffect, StaysEffect DEF SessionsMove
<1>3. ASSUME NEW n \in Name, NEW i \in Instance, NEW en \in BOOLEAN, Create(q, n, i, en)
      PROVE  SessionsMove
  BY <1>3, NothingEffect DEF Create, IntentsUnchanged
<1> QED
  BY <1>1, <1>2, <1>3 DEF Start, Kinds

LEMMA DrainKinds ==
  ASSUME TypeOK, Base, NEW a \in Actor, Drain(a)
  PROVE  Kinds
<1>1. CASE DrainStored(a)
  <2>1. act[a].inst \in Instance
    BY <1>1 DEF DrainStored, At, TypeOK, Handler, OnInstance
  <2> QED
    BY <1>1, <2>1, DrainStoredEffect DEF Kinds
<1>2. CASE DrainWaited(a) \/ SessionsVisited(a) \/ DrainVerdict(a)
  BY <1>2, NothingEffect DEF DrainWaited, SessionsVisited, DrainVerdict, IntentsUnchanged, Kinds
<1>3. CASE DrainNext(a)
  <2>1. UNCHANGED real \/ \E s : real' = CloseSession(real, s)
    BY <1>3 DEF DrainNext
  <2> QED
    BY <1>3, <2>1, ClosesEffect, StaysEffect DEF DrainNext, IntentsUnchanged, SessionsMove, Kinds
<1>4. CASE DrainClosed(a)
  <2>1. act[a].obj \in Obj
    BY <1>4 DEF DrainClosed, At, TypeOK, Handler, OnObject
  <2>2. SessionsMove \/ ForgetsEnded(act[a].obj)
    BY <1>4, ForgetIfClosedEffect DEF DrainClosed, IntentsUnchanged
  <2> QED
    BY <2>1, <2>2 DEF Kinds
<1>5. CASE CleanNext(a)
  <2>1. \E s : real' = CloseSession(real, s)
    BY <1>5 DEF CleanNext
  <2> QED
    BY <1>5, <2>1, ClosesEffect DEF CleanNext, IntentsUnchanged, SessionsMove, Kinds
<1>6. CASE CleanClosed(a)
  BY <1>6, NothingEffect DEF CleanClosed, Kinds
<1> QED
  BY <1>1, <1>2, <1>3, <1>4, <1>5, <1>6 DEF Drain

LEMMA ContinuingKinds ==
  ASSUME TypeOK, Base, NEW q \in Request, Continue(q)
  PROVE  Kinds
<1>0. q \in Actor
  BY DEF Actor
<1>1. CASE Created(q)
  <2>1. \/ SessionsMove
        \/ \E o \in Obj : /\ o[1] = act[q].name /\ ~rt[o].used /\ rt'[o].inst = act[q].inst
                          /\ Registers(o) \/ \E r \in Real : Starts(o, r)
    BY <1>1, CreatedEffect
  <2>2. ASSUME NEW o \in Obj, o[1] = act[q].name, ~rt[o].used, rt'[o].inst = act[q].inst, Held
        PROVE  StartsClean(o) /\ Alone(o)
    BY <1>1, <2>2, CreatedAlone DEF StartsClean
  <2> QED
    BY <2>1, <2>2 DEF Kinds
<1>2. CASE PreClosed(q) \/ ReClosed(q)
  <2> DEFINE o == act[q].obj
  <2>1. o \in Obj /\ act[q].pc \in {"preClose", "reClose"}
    BY <1>0, <1>2 DEF PreClosed, ReClosed, At, TypeOK, Handler, OnObject
  <2>2. /\ UNCHANGED <<stored, intents, real, closing>>
        /\ rt' = rt \/ (rt' = [rt EXCEPT ![o].session = 0] /\ Settled(act[q].sess))
    BY <1>2 DEF PreClosed, ReClosed, IntentsUnchanged
  <2>3. Held => rt[o].session \in {act[q].sess, 0}
    BY <1>0, <2>1 DEF Held, Handlers, HandlerOK, Closing
  <2>4. SessionsMove \/ ForgetsEnded(o)
    BY <2>2, <2>3, NothingEffect DEF ForgetsEnded, Forgets
  <2> QED
    BY <2>1, <2>4 DEF Kinds
<1>3. CASE Enabled(q)
  <2> DEFINE n == act[q].name
  <2>1. n \in Name
    BY <1>0, <1>3 DEF Enabled, At, TypeOK, Handler, HandlerFields, OnName
  <2>2. \/ SessionsMove
        \/ /\ intents[n] # 0
           /\ EnablesLate(Current(n)) \/ \E r \in Real : Starts(Current(n), r)
    BY <1>3, EnabledEffect
  <2>3. intents[n] # 0 => Current(n) \in Obj /\ (Held => StartsClean(Current(n)))
    BY <1>3, <2>1, Objs, EnabledAlone
  <2> HIDE DEF n
  <2> QED
    BY <2>2, <2>3 DEF Kinds
<1>4. CASE Disabled(q)
  BY <1>4, DisabledEffect DEF Kinds
<1>5. CASE DisableWaited(q) \/ RemoveWaited(q)
  <2>1. UNCHANGED real \/ \E s : real' = CloseSession(real, s)
    BY <1>5 DEF DisableWaited, RemoveWaited, CloseAfterRealization
  <2> QED
    BY <1>5, <2>1, ClosesEffect, StaysEffect
    DEF DisableWaited, RemoveWaited, IntentsUnchanged, SessionsMove, Kinds
<1>6. CASE DisableClosed(q)
  <2>1. act[q].obj \in Obj
    BY <1>0, <1>6 DEF DisableClosed, At, TypeOK, Handler, OnObject
  <2>2. SessionsMove \/ ForgetsEnded(act[q].obj)
    BY <1>6, ForgetIfClosedEffect DEF DisableClosed, IntentsUnchanged
  <2> QED
    BY <2>1, <2>2 DEF Kinds
<1>7. CASE CleanupClosed(q) \/ RemoveClosed(q)
  BY <1>7, NothingEffect DEF CleanupClosed, RemoveClosed, Kinds
<1>8. CASE Removed(q)
  BY <1>8, RemovedEffect DEF Kinds
<1>9. CASE Drain(q)
  BY <1>0, <1>9, DrainKinds
<1> QED
  BY <1>1, <1>2, <1>3, <1>4, <1>5, <1>6, <1>7, <1>8, <1>9 DEF Continue

LEMMA Steps ==
  ASSUME TypeOK, Base, ShutOrder, Restoring, ~StoreMayFail, Next
  PROVE  Kinds
<1>1. ASSUME NEW n \in Name, Restore(n)
      PROVE  Kinds
  <2>1. \E r \in Real : Starts(Current(n), r)
    BY <1>1, RestoreEffect
  <2>2. Current(n) \in Obj /\ rt[Current(n)].session = 0 /\ rt[Current(n)].used
    BY <1>1, Objs DEF Restore, Restoring, Base, RegisteredIsUsed
  <2>3. \A a \in Actor : act[a].pc = "idle"
    BY <1>1 DEF Restore, Restoring
  <2>4. Held => StartsClean(Current(n))
    <3>1. ~up /\ \A r \in Real : InUse(r) => real[r].obj # Current(n)
      BY <1>1 DEF Restore, Restoring
    <3>2. Held => rt[Current(n)].realization = 0
      BY <2>2, <3>1 DEF Held, SessionsOf, TypeOK, RuntimeIntent, Live, InUse
    <3> QED
      BY <2>2, <2>3, <3>1, <3>2 DEF StartsClean, Alone, Actor, StartedBy
  <2> QED
    BY <2>1, <2>2, <2>4 DEF Kinds
<1>2. ASSUME NEW r \in Real, Session(r) \/ TransportDies(r)
      PROVE  Kinds
  <2>1. CASE CloseSettles(r)
    <3>1. PICK s \in {"closed", "failed"} : real' = [real EXCEPT ![r].sess = s]
      BY <2>1 DEF CloseSettles
    <3>2. \A x \in Real : SameReal(x) /\ real'[x].aborted = real[x].aborted /\ Moves(x)
      BY <2>1, <3>1 DEF CloseSettles, TypeOK, SameReal, Moves, Realization, RealizationFields
    <3> QED
      BY <2>1, <3>2 DEF CloseSettles, SessionsMove, Kinds
  <2>2. CASE TransportDies(r)
    BY <2>2, ClosesEffect DEF TransportDies, SessionsMove, Kinds
  <2> QED
    BY <1>2, <2>1, <2>2 DEF Session, Kinds
<1>3. ASSUME NEW q \in Request, Start(q) \/ Continue(q)
      PROVE  Kinds
  BY <1>3, StartingKinds, ContinuingKinds
<1>4. ASSUME NEW d \in Drainer, Drain(d)
      PROVE  Kinds
  BY <1>4, DrainKinds DEF Actor
<1>5. ASSUME NEW d \in Drainer,
             \/ \E i \in Instance : BeginDrain(d, i)
             \/ BeginWaited(d) \/ CloseForDrain(d) \/ ReleaseDrain(d)
      PROVE  Kinds
  BY <1>5, NothingEffect
  DEF BeginDrain, BeginWaited, CloseForDrain, ReleaseDrain, IntentsUnchanged, Kinds
<1>6. CASE CloseService
  BY <1>6, CloseServiceEffect DEF Kinds
<1>7. CASE Restored \/ Stop \/ Closed
  BY <1>7, NothingEffect DEF Restored, Stop, Closed, Kinds
<1>8. CASE CloseSessions
  <2>1. PICK S : real' = [r \in Real |-> IF r \in S THEN CloseSession(real, r)[r] ELSE real[r]]
    BY <1>8 DEF CloseSessions
  <2>2. \A x \in Real : SameReal(x) /\ real'[x].aborted = real[x].aborted /\ Moves(x)
    BY <2>1 DEF CloseSession, TypeOK, SameReal, Moves, Realization, RealizationFields
  <2> QED
    BY <1>8, <2>2 DEF CloseSessions, SessionsMove, Kinds
<1> QED
  BY <1>1, <1>2, <1>3, <1>4, <1>5, <1>6, <1>7, <1>8
  DEF Next, Shutdown, StoreThrows, DrainStoreThrows

(***************************************************************************)
(* What a realization or a session does at its end                         *)
(***************************************************************************)
\* Only object o and realization r change, and they stay what they are.
Ends(r, o) ==
  /\ o = real[r].obj /\ o \in Obj
  /\ UNCHANGED <<stored, intents, closing>>
  /\ \A x \in Obj : x # o => rt'[x] = rt[x]
  /\ rt'[o].used = rt[o].used /\ rt'[o].inst = rt[o].inst
  /\ rt'[o].enabled = rt[o].enabled /\ rt'[o].gen = rt[o].gen
  /\ \A s \in Real : s # r => real'[s] = real[s]
  /\ real'[r].obj = o /\ real'[r].gen = real[r].gen
  /\ real'[r].aborted = real[r].aborted

Rejected(r, o) ==
  /\ Ends(r, o) /\ real[r].pc = "opening" /\ real'[r].pc = "done"
  /\ real'[r].sess = real[r].sess /\ real'[r].watched = real[r].watched
  /\ real'[r].rejected = real[r].rejected
  /\ rt'[o].session = rt[o].session /\ rt'[o].realization = Unlink(o, r)
  /\ \/ StillWanted(r) /\ rt'[o].status = "error" /\ rt'[o].controller = 0
     \/ ~StillWanted(r) /\ rt'[o].status = rt[o].status /\ rt'[o].controller = rt[o].controller

Resolved(r, o) ==
  /\ Ends(r, o) /\ real[r].pc = "opening" /\ StillWanted(r)
  /\ real'[r].pc = "done" /\ real'[r].sess = "open" /\ real'[r].watched
  /\ real'[r].rejected = real[r].rejected
  /\ rt'[o].session = r /\ rt'[o].realization = Unlink(o, r)
  /\ rt'[o].status = "live" /\ rt'[o].controller = 0

ResolvedLate(r, o) ==
  /\ Ends(r, o) /\ real[r].pc = "opening" /\ ~StillWanted(r)
  /\ real'[r].pc = "closingLate" /\ real'[r].sess = "closing"
  /\ real'[r].watched = real[r].watched
  /\ real'[r].rejected = real[r].rejected
  /\ rt' = rt

EndedLate(r, o) ==
  /\ Ends(r, o) /\ real[r].pc = "closingLate" /\ Settled(r)
  /\ real'[r].pc = "done" /\ real'[r].sess = real[r].sess
  /\ real'[r].watched = real[r].watched
  /\ real'[r].rejected = (real[r].sess = "failed")
  /\ rt'[o].session = rt[o].session /\ rt'[o].realization = Unlink(o, r)
  /\ rt'[o].status = rt[o].status /\ rt'[o].controller = rt[o].controller

Noticed(r, o) ==
  /\ Ends(r, o) /\ real[r].watched /\ Settled(r)
  /\ real'[r].pc = real[r].pc /\ real'[r].sess = real[r].sess
  /\ ~real'[r].watched /\ real'[r].rejected = real[r].rejected
  /\ rt'[o].realization = rt[o].realization /\ rt'[o].controller = rt[o].controller
  /\ \/ /\ StillWanted(r) /\ rt[o].status = "live"
        /\ rt'[o].session = 0 /\ rt'[o].status = "error"
     \/ /\ ~(StillWanted(r) /\ rt[o].status = "live")
        /\ rt'[o].session = rt[o].session /\ rt'[o].status = rt[o].status

EndKinds(r) ==
  \E o \in Obj : Rejected(r, o) \/ Resolved(r, o) \/ ResolvedLate(r, o)
                 \/ EndedLate(r, o) \/ Noticed(r, o)

LEMMA EndsEffect ==
  ASSUME TypeOK, Shape, NEW r \in Real, Answer(r) \/ LateClosed(r) \/ ClosureNoticed(r)
  PROVE  EndKinds(r)
<1> DEFINE o == real[r].obj
<1>0. real[r] \in RealizationFields /\ real[r] \in Realization
  BY DEF TypeOK, Realization
<1>1. o \in Obj
  BY <1>0 DEF Answer, OpenRejects, OpenResolves, LateClosed, ClosureNoticed, Shape, Realization
<1>2. rt[o] \in RuntimeIntent
  BY <1>1 DEF TypeOK
<1>3. UNCHANGED <<stored, intents, closing>>
  BY DEF Answer, OpenRejects, OpenResolves, LateClosed, ClosureNoticed
<1>4. CASE OpenRejects(r)
  <2> DEFINE x == [rt[o] EXCEPT !.controller = 0, !.status = "error", !.realization = Unlink(o, r)]
             y == [rt[o] EXCEPT !.realization = Unlink(o, r)]
             z == [real[r] EXCEPT !.pc = "done"]
  <2>1. /\ rt' = [rt EXCEPT ![o] = IF StillWanted(r) THEN x ELSE y]
        /\ real' = [real EXCEPT ![r] = z] /\ real[r].pc = "opening"
    BY <1>4 DEF OpenRejects
  <2>2. /\ x.used = rt[o].used /\ x.inst = rt[o].inst /\ x.enabled = rt[o].enabled
        /\ x.gen = rt[o].gen /\ x.status = "error" /\ x.session = rt[o].session
        /\ x.realization = Unlink(o, r) /\ x.controller = 0
    BY <1>2 DEF RuntimeIntent
  <2>3. /\ y.used = rt[o].used /\ y.inst = rt[o].inst /\ y.enabled = rt[o].enabled
        /\ y.gen = rt[o].gen /\ y.status = rt[o].status /\ y.session = rt[o].session
        /\ y.realization = Unlink(o, r) /\ y.controller = rt[o].controller
    BY <1>2 DEF RuntimeIntent
  <2>4. /\ z.obj = o /\ z.gen = real[r].gen /\ z.pc = "done" /\ z.aborted = real[r].aborted
        /\ z.sess = real[r].sess /\ z.watched = real[r].watched /\ z.rejected = real[r].rejected
    BY <1>0 DEF RealizationFields
  <2> HIDE DEF x, y, z, o
  <2>5. /\ \A p \in Obj : p # o => rt'[p] = rt[p]
        /\ rt'[o] = IF StillWanted(r) THEN x ELSE y
    BY <1>1, <2>1 DEF TypeOK
  <2>6. /\ \A s \in Real : s # r => real'[s] = real[s]
        /\ real'[r] = z
    BY <2>1 DEF TypeOK
  <2>7. Ends(r, o)
    BY <1>1, <1>3, <2>2, <2>3, <2>4, <2>5, <2>6 DEF Ends, o
  <2>8. Rejected(r, o)
    BY <2>1, <2>2, <2>3, <2>4, <2>5, <2>6, <2>7 DEF Rejected
  <2> QED
    BY <1>1, <2>8 DEF EndKinds
<1>5. CASE OpenResolves(r)
  <2> DEFINE x == [rt[o] EXCEPT !.controller = 0, !.status = "live", !.session = r,
                                !.realization = Unlink(o, r)]
             y == [real[r] EXCEPT !.pc = "done", !.sess = "open", !.watched = TRUE]
             z == [real[r] EXCEPT !.pc = "closingLate", !.sess = "closing"]
  <2>1. /\ real[r].pc = "opening"
        /\ IF StillWanted(r) THEN rt' = [rt EXCEPT ![o] = x] /\ real' = [real EXCEPT ![r] = y]
           ELSE rt' = rt /\ real' = [real EXCEPT ![r] = z]
    BY <1>5 DEF OpenResolves
  <2>2. /\ x.used = rt[o].used /\ x.inst = rt[o].inst /\ x.enabled = rt[o].enabled
        /\ x.gen = rt[o].gen /\ x.status = "live" /\ x.session = r
        /\ x.realization = Unlink(o, r) /\ x.controller = 0
    BY <1>2 DEF RuntimeIntent
  <2>3. /\ y.obj = o /\ y.gen = real[r].gen /\ y.pc = "done" /\ y.aborted = real[r].aborted
        /\ y.sess = "open" /\ y.watched /\ y.rejected = real[r].rejected
    BY <1>0 DEF RealizationFields
  <2>4. /\ z.obj = o /\ z.gen = real[r].gen /\ z.pc = "closingLate" /\ z.aborted = real[r].aborted
        /\ z.sess = "closing" /\ z.watched = real[r].watched /\ z.rejected = real[r].rejected
    BY <1>0 DEF RealizationFields
  <2> HIDE DEF x, y, z, o
  <2>5. CASE StillWanted(r)
    <3>1. /\ \A p \in Obj : p # o => rt'[p] = rt[p]
          /\ rt'[o] = x
      BY <1>1, <2>1, <2>5 DEF TypeOK
    <3>2. /\ \A s \in Real : s # r => real'[s] = real[s]
          /\ real'[r] = y
      BY <2>1, <2>5 DEF TypeOK
    <3>3. Ends(r, o)
      BY <1>1, <1>3, <2>2, <2>3, <3>1, <3>2 DEF Ends, o
    <3>4. Resolved(r, o)
      BY <2>1, <2>2, <2>3, <2>5, <3>1, <3>2, <3>3 DEF Resolved
    <3> QED
      BY <1>1, <3>4 DEF EndKinds
  <2>6. CASE ~StillWanted(r)
    <3>1. rt' = rt
      BY <2>1, <2>6
    <3>2. /\ \A s \in Real : s # r => real'[s] = real[s]
          /\ real'[r] = z
      BY <2>1, <2>6 DEF TypeOK
    <3>3. Ends(r, o)
      BY <1>1, <1>3, <2>4, <3>1, <3>2 DEF Ends, o
    <3>4. ResolvedLate(r, o)
      BY <2>1, <2>4, <2>6, <3>1, <3>2, <3>3 DEF ResolvedLate
    <3> QED
      BY <1>1, <3>4 DEF EndKinds
  <2> QED
    BY <2>5, <2>6
<1>6. CASE LateClosed(r)
  <2> DEFINE y == [rt[o] EXCEPT !.realization = Unlink(o, r)]
             z == [real[r] EXCEPT !.pc = "done", !.rejected = (real[r].sess = "failed")]
  <2>1. /\ rt' = [rt EXCEPT ![o] = y]
        /\ real' = [real EXCEPT ![r] = z] /\ real[r].pc = "closingLate" /\ Settled(r)
    BY <1>6 DEF LateClosed
  <2>3. /\ y.used = rt[o].used /\ y.inst = rt[o].inst /\ y.enabled = rt[o].enabled
        /\ y.gen = rt[o].gen /\ y.status = rt[o].status /\ y.session = rt[o].session
        /\ y.realization = Unlink(o, r) /\ y.controller = rt[o].controller
    BY <1>2 DEF RuntimeIntent
  <2>4. /\ z.obj = o /\ z.gen = real[r].gen /\ z.pc = "done" /\ z.aborted = real[r].aborted
        /\ z.sess = real[r].sess /\ z.watched = real[r].watched
        /\ z.rejected = (real[r].sess = "failed")
    BY <1>0 DEF RealizationFields
  <2> HIDE DEF y, z, o
  <2>5. /\ \A p \in Obj : p # o => rt'[p] = rt[p]
        /\ rt'[o] = y
    BY <1>1, <2>1 DEF TypeOK
  <2>6. /\ \A s \in Real : s # r => real'[s] = real[s]
        /\ real'[r] = z
    BY <2>1 DEF TypeOK
  <2>7. Ends(r, o)
    BY <1>1, <1>3, <2>3, <2>4, <2>5, <2>6 DEF Ends, o
  <2>8. EndedLate(r, o)
    BY <2>1, <2>3, <2>4, <2>5, <2>6, <2>7 DEF EndedLate
  <2> QED
    BY <1>1, <2>8 DEF EndKinds
<1>7. CASE ClosureNoticed(r)
  <2> DEFINE x == [rt[o] EXCEPT !.session = 0, !.status = "error"]
             z == [real[r] EXCEPT !.watched = FALSE]
             lost == StillWanted(r) /\ rt[o].status = "live"
  <2>1. /\ rt' = IF lost THEN [rt EXCEPT ![o] = x] ELSE rt
        /\ real' = [real EXCEPT ![r] = z] /\ real[r].watched /\ Settled(r)
    BY <1>7 DEF ClosureNoticed
  <2>2. /\ x.used = rt[o].used /\ x.inst = rt[o].inst /\ x.enabled = rt[o].enabled
        /\ x.gen = rt[o].gen /\ x.status = "error" /\ x.session = 0
        /\ x.realization = rt[o].realization /\ x.controller = rt[o].controller
    BY <1>2 DEF RuntimeIntent
  <2>4. /\ z.obj = o /\ z.gen = real[r].gen /\ z.pc = real[r].pc /\ z.aborted = real[r].aborted
        /\ z.sess = real[r].sess /\ ~z.watched /\ z.rejected = real[r].rejected
    BY <1>0 DEF RealizationFields
  <2> HIDE DEF x, z, o
  <2>5. /\ \A p \in Obj : p # o => rt'[p] = rt[p]
        /\ rt'[o] = IF lost THEN x ELSE rt[o]
    BY <1>1, <2>1 DEF TypeOK
  <2>6. /\ \A s \in Real : s # r => real'[s] = real[s]
        /\ real'[r] = z
    BY <2>1 DEF TypeOK
  <2>7. Ends(r, o)
    BY <1>1, <1>3, <2>2, <2>4, <2>5, <2>6 DEF Ends, o
  <2>8. Noticed(r, o)
    BY <2>1, <2>2, <2>4, <2>5, <2>6, <2>7 DEF Noticed
  <2> QED
    BY <1>1, <2>8 DEF EndKinds
<1> QED
  BY <1>4, <1>5, <1>6, <1>7 DEF Answer

-----------------------------------------------------------------------------
(***************************************************************************)
(* Each kind of step keeps Base                                            *)
(***************************************************************************)
LEMMA SessionsMoveBase ==
  ASSUME TypeOK, Base, SessionsMove
  PROVE  Base'
<1> USE DEF Base, SessionsMove, SameReal, InUse
<1>1. Shape'
  BY DEF Shape, Moves
<1>2. GensDiffer'
  BY DEF GensDiffer
<1>3. RegisteredIsUsed'
  BY DEF RegisteredIsUsed, Current
<1>4. CurrentIsLinked'
  BY DEF CurrentIsLinked, StillWanted, Registered
<1>5. LiveIsServed'
  BY DEF LiveIsServed, Registered
<1>6. RestartServesTheSame'
  BY DEF RestartServesTheSame, Current
<1> QED
  BY <1>1, <1>2, <1>3, <1>4, <1>5, <1>6

LEMMA ForgetsBase ==
  ASSUME TypeOK, Base, NEW o \in Obj, Forgets(o)
  PROVE  Base'
<1> USE DEF Base, InUse
<1>0. \A x \in Obj : /\ rt'[x].used = rt[x].used /\ rt'[x].inst = rt[x].inst
                     /\ rt'[x].enabled = rt[x].enabled /\ rt'[x].gen = rt[x].gen
                     /\ rt'[x].status = rt[x].status /\ rt'[x].controller = rt[x].controller
                     /\ rt'[x].realization = rt[x].realization
                     /\ rt'[x].session \in {rt[x].session, 0}
  <2> TAKE x \in Obj
  <2>1. rt[x] \in RuntimeIntent
    BY DEF TypeOK
  <2> QED
    BY <2>1 DEF Forgets, TypeOK, RuntimeIntent
<1>a. UNCHANGED <<stored, intents, real, closing>>
  BY DEF Forgets
<1>b. \A r \in Real : InUse(r) => real[r].obj \in Obj
  BY DEF TypeOK, Realization
<1>c. \A n \in Name : intents[n] # 0 => Current(n) \in Obj
  BY Objs
<1>1. Shape'
  BY <1>0, <1>a, <1>b DEF Shape
<1>2. GensDiffer'
  BY <1>a DEF GensDiffer
<1>3. RegisteredIsUsed'
  BY <1>0, <1>a, <1>c DEF RegisteredIsUsed, Current
<1>4. CurrentIsLinked'
  BY <1>0, <1>a, <1>b DEF CurrentIsLinked, StillWanted, Registered
<1>5. LiveIsServed'
  BY <1>0, <1>a DEF LiveIsServed, Registered
<1>6. RestartServesTheSame'
  BY <1>0, <1>a, <1>c DEF RestartServesTheSame, Current
<1> QED
  BY <1>1, <1>2, <1>3, <1>4, <1>5, <1>6

LEMMA StartsBase ==
  ASSUME TypeOK, TypeOK', Base, NEW o \in Obj, NEW r \in Real, Starts(o, r)
  PROVE  Base'
<1> USE DEF Base, InUse
<1>0. \A s \in Real : InUse(s) => real[s].obj \in Obj
  BY DEF TypeOK, Realization
<1>a. \A x \in Obj : rt[x].gen \in Nat /\ rt'[x].gen \in Nat
  BY DEF TypeOK, RuntimeIntent
<1>s. \A s \in Real : s # r => SameReal(s) /\ real'[s].sess = real[s].sess
  BY DEF Starts
<1>b. \A s \in Real : real[s].gen \in Nat
  BY DEF TypeOK, Realization, RealizationFields
<1>c. \A s \in Real : (InUse(s) /\ real[s].obj = o) => real[s].gen <= rt[o].gen /\ rt[o].gen < rt'[o].gen
  BY <1>0, <1>a, <1>b DEF Shape, Starts
<1>d. \A x \in Obj : x # o => rt'[x] = rt[x] /\ (Registered(x)' <=> Registered(x))
  <2> TAKE x \in Obj
  <2> HAVE x # o
  <2>1. rt'[x] = rt[x]
    BY DEF Starts
  <2>2. x[1] # o[1] \/ x[2] # o[2]
    BY Objects
  <2>3. intents'[x[1]] = IF x[1] = o[1] THEN o[2] ELSE intents[x[1]]
    BY Objects DEF Starts, TypeOK
  <2>4. x[1] = o[1] => intents[o[1]] \in {o[2], 0}
    BY DEF Starts, Registered, NameOf
  <2>5. x[2] # 0
    BY Objects, Lifetimes
  <2> QED
    BY <2>1, <2>2, <2>3, <2>4, <2>5 DEF Registered, NameOf
<1>e. Registered(o)' /\ intents'[o[1]] = o[2] /\ o[1] \in Name
  BY Objects DEF Starts, Registered, NameOf, TypeOK
<1>1. Shape'
  <2> SUFFICES ASSUME NEW s \in Real
               PROVE  /\ real'[s].pc = "unused" => ~real'[s].watched /\ ~real'[s].rejected
                      /\ real'[s].pc \in {"unused", "opening"} => real'[s].sess = "none"
                      /\ real'[s].pc = "closingLate" => real'[s].sess \in {"closing", "closed", "failed"}
                      /\ real'[s].watched => real'[s].pc = "done"
                      /\ real'[s].rejected => real'[s].pc = "done" /\ real'[s].sess = "failed"
                      /\ real'[s].sess \in {"open", "closing"} =>
                           real'[s].watched \/ real'[s].pc = "closingLate"
                      /\ real'[s].pc # "unused" =>
                           /\ rt'[real'[s].obj].used
                           /\ real'[s].gen <= rt'[real'[s].obj].gen
    BY DEF Shape
  <2>1. CASE s = r
    BY <2>1, <1>a DEF Starts
  <2>2. CASE s # r
    <3>1. real'[s].pc # "unused" => /\ rt'[real'[s].obj].used
                                    /\ real'[s].gen <= rt'[real'[s].obj].gen
      BY <2>2, <1>0, <1>a, <1>b, <1>c, <1>s DEF Shape, Starts, SameReal
    <3> QED
      BY <2>2, <1>s, <3>1 DEF Shape, SameReal
  <2> QED
    BY <2>1, <2>2
<1>2. GensDiffer'
  BY <1>a, <1>b, <1>c, <1>s DEF GensDiffer, Starts, SameReal
<1>3. RegisteredIsUsed'
  <2> SUFFICES ASSUME NEW n \in Name, intents'[n] # 0
               PROVE  rt'[<<n, intents'[n]>>].used
    BY DEF RegisteredIsUsed, Current
  <2>1. CASE n = o[1]
    BY <2>1, <1>e, Objects DEF Starts
  <2>2. CASE n # o[1]
    <3>1. intents'[n] = intents[n]
      BY <2>2 DEF Starts, TypeOK
    <3>2. <<n, intents[n]>> \in Obj /\ <<n, intents[n]>> # o /\ rt[<<n, intents[n]>>].used
      BY <2>2, <3>1, Objs, Objects DEF Current, RegisteredIsUsed
    <3> QED
      BY <3>1, <3>2, <1>d
  <2> QED
    BY <2>1, <2>2
<1>4. CurrentIsLinked'
  <2> SUFFICES ASSUME NEW s \in Real, real'[s].pc = "opening"
               PROVE  LET x == real'[s].obj IN
                      /\ ~real'[s].aborted => real'[s].gen = rt'[x].gen
                      /\ real'[s].gen = rt'[x].gen =>
                           /\ StillWanted(s)' /\ rt'[x].status = "starting"
                           /\ rt'[x].controller = s /\ rt'[x].realization = s
    BY DEF CurrentIsLinked
  <2>1. CASE s = r
    BY <2>1, <1>e DEF Starts, StillWanted
  <2>2. CASE s # r
    <3> DEFINE x == real[s].obj
    <3>1. real'[s].obj = x /\ real'[s].gen = real[s].gen /\ real[s].pc = "opening" /\ x \in Obj
      BY <2>2, <1>0, <1>s DEF SameReal
    <3>2. /\ ~real[s].aborted => real[s].gen = rt[x].gen
          /\ real[s].gen = rt[x].gen => /\ StillWanted(s) /\ rt[x].status = "starting"
                                        /\ rt[x].controller = s /\ rt[x].realization = s
      BY <3>1 DEF CurrentIsLinked
    <3>3. real'[s].aborted <=> (real[s].aborted \/ (rt[o].used /\ s = rt[o].controller))
      BY <2>2 DEF Starts
    <3>4. CASE x = o
      <4>1. rt[o].used /\ real[s].gen # rt'[o].gen
        BY <3>1, <3>4, <1>a, <1>b, <1>c DEF Shape
      <4>2. real'[s].aborted
        BY <3>2, <3>3, <3>4, <4>1
      <4> QED
        BY <3>1, <3>4, <4>1, <4>2
    <3>5. CASE x # o
      <4>1. rt'[x] = rt[x] /\ (Registered(x)' <=> Registered(x))
        BY <3>1, <3>5, <1>d
      <4>2. StillWanted(s) => StillWanted(s)'
        BY <3>1, <4>1 DEF StillWanted, Starts
      <4>3. real[s].aborted => real'[s].aborted
        BY <3>3
      <4> QED
        BY <3>1, <3>2, <4>1, <4>2, <4>3
    <3> QED
      BY <3>4, <3>5
  <2> QED
    BY <2>1, <2>2
<1>5. LiveIsServed'
  <2> SUFFICES ASSUME NEW x \in Obj, Registered(x)', rt'[x].status = "live", ~closing'
               PROVE  /\ rt'[x].enabled
                      /\ \E s \in Real : /\ real'[s].obj = x /\ real'[s].gen = rt'[x].gen
                                         /\ real'[s].watched /\ rt'[x].session \in {s, 0}
    BY DEF LiveIsServed
  <2>1. x # o
    BY DEF Starts
  <2>2. rt'[x] = rt[x] /\ Registered(x) /\ ~closing
    BY <2>1, <1>d DEF Starts
  <2>3. PICK s \in Real : /\ real[s].obj = x /\ real[s].gen = rt[x].gen
                          /\ real[s].watched /\ rt[x].session \in {s, 0}
    BY <2>2 DEF LiveIsServed
  <2>4. s # r /\ rt[x].enabled
    BY <2>2, <2>3 DEF Shape, Starts, LiveIsServed
  <2>5. real'[s].obj = x /\ real'[s].gen = rt[x].gen /\ real'[s].watched
    BY <2>3, <2>4, <1>s DEF SameReal
  <2> QED
    BY <2>2, <2>3, <2>4, <2>5
<1>6. RestartServesTheSame'
  <2> SUFFICES ASSUME NEW n \in Name
               PROVE  IF intents'[n] = 0 THEN stored'[n] = Absent
                      ELSE stored'[n] = Definition(rt'[<<n, intents'[n]>>].inst,
                                                   rt'[<<n, intents'[n]>>].enabled)
    BY DEF RestartServesTheSame, Current
  <2>1. CASE n = o[1]
    <3>1. o = <<n, intents'[n]>> /\ intents'[n] # 0
      BY <2>1, <1>e, Objects, Lifetimes
    <3>2. stored'[n] = Definition(rt'[o].inst, TRUE) /\ rt'[o].enabled
      BY <2>1, <1>e DEF Starts, TypeOK
    <3>3. rt'[o].enabled = TRUE
      BY <3>2 DEF TypeOK, RuntimeIntent
    <3> QED
      BY <3>1, <3>2, <3>3
  <2>2. CASE n # o[1]
    <3>1. intents'[n] = intents[n] /\ stored'[n] = stored[n]
      BY <2>2 DEF Starts, TypeOK
    <3>2. intents[n] # 0 => rt'[<<n, intents[n]>>] = rt[<<n, intents[n]>>]
      BY <2>2, Objs, Objects, <1>d DEF Current
    <3> QED
      BY <3>1, <3>2 DEF RestartServesTheSame, Current
  <2> QED
    BY <2>1, <2>2
<1> QED
  BY <1>1, <1>2, <1>3, <1>4, <1>5, <1>6

LEMMA RegistersBase ==
  ASSUME TypeOK, TypeOK', Base, NEW o \in Obj, Registers(o)
  PROVE  Base'
<1> USE DEF Base, InUse
<1>0. \A s \in Real : InUse(s) => real[s].obj \in Obj /\ real[s].obj # o
  BY DEF TypeOK, Realization, Shape, Registers
<1>d. \A x \in Obj : x # o => rt'[x] = rt[x] /\ (Registered(x)' <=> Registered(x))
  <2> TAKE x \in Obj
  <2> HAVE x # o
  <2>1. rt'[x] = rt[x]
    BY DEF Registers
  <2>2. x[1] # o[1] \/ x[2] # o[2]
    BY Objects
  <2>3. intents'[x[1]] = IF x[1] = o[1] THEN o[2] ELSE intents[x[1]]
    BY Objects DEF Registers, TypeOK
  <2>4. x[1] = o[1] => intents[o[1]] = 0
    BY DEF Registers
  <2>5. x[2] # 0
    BY Objects, Lifetimes
  <2> QED
    BY <2>1, <2>2, <2>3, <2>4, <2>5 DEF Registered, NameOf
<1>e. intents'[o[1]] = o[2] /\ o[1] \in Name /\ o = <<o[1], o[2]>> /\ o[2] # 0
  BY Objects, Lifetimes DEF Registers, TypeOK
<1>1. Shape'
  BY <1>0, <1>d DEF Shape, Registers
<1>2. GensDiffer'
  BY DEF GensDiffer, Registers
<1>3. RegisteredIsUsed'
  <2> SUFFICES ASSUME NEW n \in Name, intents'[n] # 0
               PROVE  rt'[<<n, intents'[n]>>].used
    BY DEF RegisteredIsUsed, Current
  <2>1. CASE n = o[1]
    BY <2>1, <1>e DEF Registers
  <2>2. CASE n # o[1]
    <3>1. intents'[n] = intents[n]
      BY <2>2 DEF Registers, TypeOK
    <3>2. <<n, intents[n]>> \in Obj /\ <<n, intents[n]>> # o /\ rt[<<n, intents[n]>>].used
      BY <2>2, <3>1, Objs, Objects DEF Current, RegisteredIsUsed
    <3> QED
      BY <3>1, <3>2, <1>d
  <2> QED
    BY <2>1, <2>2
<1>4. CurrentIsLinked'
  <2>1. UNCHANGED <<real, closing>>
    BY DEF Registers
  <2> QED
    BY <2>1, <1>0, <1>d DEF CurrentIsLinked, StillWanted
<1>5. LiveIsServed'
  <2>1. UNCHANGED <<real, closing>> /\ rt'[o].status # "live"
    BY DEF Registers
  <2> QED
    BY <2>1, <1>d DEF LiveIsServed
<1>6. RestartServesTheSame'
  <2> SUFFICES ASSUME NEW n \in Name
               PROVE  IF intents'[n] = 0 THEN stored'[n] = Absent
                      ELSE stored'[n] = Definition(rt'[<<n, intents'[n]>>].inst,
                                                   rt'[<<n, intents'[n]>>].enabled)
    BY DEF RestartServesTheSame, Current
  <2>1. CASE n = o[1]
    BY <2>1, <1>e DEF Registers, TypeOK
  <2>2. CASE n # o[1]
    <3>1. intents'[n] = intents[n] /\ stored'[n] = stored[n]
      BY <2>2 DEF Registers, TypeOK
    <3>2. intents[n] # 0 => rt'[<<n, intents[n]>>] = rt[<<n, intents[n]>>]
      BY <2>2, Objs, Objects, <1>d DEF Current
    <3> QED
      BY <3>1, <3>2 DEF RestartServesTheSame, Current
  <2> QED
    BY <2>1, <2>2
<1> QED
  BY <1>1, <1>2, <1>3, <1>4, <1>5, <1>6

LEMMA SupersedesBase ==
  ASSUME TypeOK, Base, NEW T, Supersedes(T)
  PROVE  /\ Shape' /\ GensDiffer'
         /\ \A x \in Obj : rt'[x].used = rt[x].used /\ rt'[x].inst = rt[x].inst
         /\ \A s \in Real : real[s].pc = "opening" =>
              LET x == real[s].obj IN
              /\ x \in Obj
              /\ x \in T => real'[s].aborted /\ real'[s].gen # rt'[x].gen
              /\ x \notin T => rt'[x] = rt[x] /\ (~real'[s].aborted => ~real[s].aborted)
<1> USE DEF Base, InUse
<1>0. \A s \in Real : InUse(s) => real[s].obj \in Obj
  BY DEF TypeOK, Realization
<1>a. \A x \in Obj : rt[x].gen \in Nat
  BY DEF TypeOK, RuntimeIntent
<1>b. \A s \in Real : real[s].gen \in Nat
  BY DEF TypeOK, Realization, RealizationFields
<1>s. \A s \in Real : SameReal(s) /\ real'[s].sess = real[s].sess
  BY DEF Supersedes, Aborts
<1>c. \A x \in Obj : /\ rt'[x].used = rt[x].used /\ rt'[x].inst = rt[x].inst
                     /\ rt'[x].gen \in {rt[x].gen, rt[x].gen + 1}
                     /\ x \in T => rt'[x].gen = rt[x].gen + 1
  BY DEF Supersedes
<1>1. Shape'
  <2>1. \A s \in Real : InUse(s) => real[s].gen <= rt'[real[s].obj].gen /\ rt'[real[s].obj].used
    BY <1>0, <1>a, <1>b, <1>c DEF Shape
  <2> QED
    BY <1>s, <2>1 DEF Shape, SameReal
<1>2. GensDiffer'
  BY <1>s DEF GensDiffer, SameReal
<1>3. ASSUME NEW s \in Real, real[s].pc = "opening"
      PROVE  LET x == real[s].obj IN
             /\ x \in Obj
             /\ x \in T => real'[s].aborted /\ real'[s].gen # rt'[x].gen
             /\ x \notin T => rt'[x] = rt[x] /\ (~real'[s].aborted => ~real[s].aborted)
  <2> DEFINE x == real[s].obj
  <2>1. x \in Obj /\ real'[s].gen = real[s].gen /\ real[s].gen <= rt[x].gen
    BY <1>0, <1>3, <1>s DEF SameReal, Shape
  <2>2. /\ ~real[s].aborted => real[s].gen = rt[x].gen
        /\ real[s].gen = rt[x].gen => rt[x].controller = s
    BY <1>3 DEF CurrentIsLinked
  <2>3. real'[s].aborted <=> (real[s].aborted \/ s \in {rt[y].controller : y \in T})
    BY DEF Supersedes, Aborts
  <2>4. x \in T => real'[s].aborted /\ real'[s].gen # rt'[x].gen
    BY <1>a, <1>b, <1>c, <2>1, <2>2, <2>3
  <2>5. x \notin T => rt'[x] = rt[x]
    BY <2>1 DEF Supersedes
  <2> QED
    BY <2>1, <2>3, <2>4, <2>5
<1> QED
  BY <1>1, <1>2, <1>3, <1>c

LEMMA DisablesBase ==
  ASSUME TypeOK, TypeOK', Base, NEW T, Disables(T)
  PROVE  Base'
<1>0. Supersedes(T) /\ UNCHANGED <<intents, closing>>
  BY DEF Disables
<1>1. /\ Shape' /\ GensDiffer'
      /\ \A x \in Obj : rt'[x].used = rt[x].used /\ rt'[x].inst = rt[x].inst
      /\ \A s \in Real : real[s].pc = "opening" =>
           LET x == real[s].obj IN
           /\ x \in Obj
           /\ x \in T => real'[s].aborted /\ real'[s].gen # rt'[x].gen
           /\ x \notin T => rt'[x] = rt[x] /\ (~real'[s].aborted => ~real[s].aborted)
  BY <1>0, SupersedesBase
<1>2. \A s \in Real : SameReal(s)
  BY <1>0 DEF Supersedes, Aborts
<1>3. RegisteredIsUsed'
  BY <1>0, <1>1, Objs DEF Base, RegisteredIsUsed, Current
<1>4. CurrentIsLinked'
  BY <1>0, <1>1, <1>2 DEF Base, CurrentIsLinked, StillWanted, Registered, SameReal
<1>5. LiveIsServed'
  <2>1. \A x \in Obj : rt'[x] = rt[x] \/ rt'[x].status = "disabled"
    BY DEF Disables, Supersedes
  <2> QED
    BY <1>0, <1>2, <2>1 DEF Base, LiveIsServed, Registered, SameReal
<1>6. RestartServesTheSame'
  <2> SUFFICES ASSUME NEW n \in Name
               PROVE  IF intents[n] = 0 THEN stored'[n] = Absent
                      ELSE stored'[n] = Definition(rt'[Current(n)].inst, rt'[Current(n)].enabled)
    BY <1>0 DEF RestartServesTheSame, Current
  <2>0. stored'[n] = IF intents[n] # 0 /\ Current(n) \in T
                     THEN Definition(stored[n].inst, FALSE) ELSE stored[n]
    BY DEF Disables
  <2>1. CASE intents[n] = 0
    BY <2>0, <2>1 DEF Base, RestartServesTheSame
  <2>2. CASE intents[n] # 0 /\ Current(n) \in T
    <3>0. stored[n] = Definition(rt[Current(n)].inst, rt[Current(n)].enabled)
      BY <2>2 DEF Base, RestartServesTheSame
    <3>1. stored[n].inst = rt[Current(n)].inst
      BY <3>0 DEF Definition
    <3>2. Current(n) \in Obj
      BY <2>2, Objs
    <3>3. rt'[Current(n)].enabled = FALSE /\ rt'[Current(n)].inst = rt[Current(n)].inst
      BY <1>1, <2>2, <3>2 DEF Disables, TypeOK, RuntimeIntent
    <3> QED
      BY <2>0, <2>2, <3>1, <3>3
  <2>3. CASE intents[n] # 0 /\ Current(n) \notin T
    <3>1. rt'[Current(n)] = rt[Current(n)]
      BY <1>0, <2>3, Objs DEF Supersedes
    <3> QED
      BY <2>0, <2>3, <3>1 DEF Base, RestartServesTheSame
  <2> QED
    BY <2>1, <2>2, <2>3
<1> QED
  BY <1>1, <1>3, <1>4, <1>5, <1>6 DEF Base

LEMMA RemovesBase ==
  ASSUME TypeOK, TypeOK', Base, NEW o \in Obj, Removes(o)
  PROVE  Base'
<1>0. Supersedes({o}) /\ UNCHANGED closing /\ Registered(o)
  BY DEF Removes, Supersedes
<1>1. /\ Shape' /\ GensDiffer'
      /\ \A x \in Obj : rt'[x].used = rt[x].used /\ rt'[x].inst = rt[x].inst
      /\ \A s \in Real : real[s].pc = "opening" =>
           LET x == real[s].obj IN
           /\ x \in Obj
           /\ x \in {o} => real'[s].aborted /\ real'[s].gen # rt'[x].gen
           /\ x \notin {o} => rt'[x] = rt[x] /\ (~real'[s].aborted => ~real[s].aborted)
  BY <1>0, SupersedesBase
<1>2. \A s \in Real : SameReal(s)
  BY <1>0 DEF Supersedes, Aborts
<1>i. \A n \in Name : intents'[n] = IF n = o[1] THEN 0 ELSE intents[n]
  BY DEF Removes, TypeOK
<1>s. \A n \in Name : stored'[n] = IF n = o[1] THEN Absent ELSE stored[n]
  BY DEF Removes, TypeOK
<1>d. \A x \in Obj : /\ x # o => rt'[x] = rt[x] /\ (Registered(x)' <=> Registered(x))
                     /\ x = o => ~Registered(x)'
  <2> TAKE x \in Obj
  <2>1. x # o => rt'[x] = rt[x]
    BY <1>0 DEF Supersedes
  <2>2. x[1] \in Name /\ o[1] \in Name /\ (x # o => x[1] # o[1] \/ x[2] # o[2]) /\ x[2] # 0
    BY Objects, Lifetimes
  <2>3. intents[o[1]] = o[2]
    BY <1>0 DEF Registered, NameOf
  <2> QED
    BY <1>i, <2>1, <2>2, <2>3 DEF Registered, NameOf
<1>3. RegisteredIsUsed'
  BY <1>1, <1>i, Objs DEF Base, RegisteredIsUsed, Current
<1>4. CurrentIsLinked'
  BY <1>0, <1>1, <1>2, <1>d DEF Base, CurrentIsLinked, StillWanted, SameReal
<1>5. LiveIsServed'
  BY <1>0, <1>2, <1>d DEF Base, LiveIsServed, SameReal
<1>6. RestartServesTheSame'
  <2> SUFFICES ASSUME NEW n \in Name
               PROVE  IF intents'[n] = 0 THEN stored'[n] = Absent
                      ELSE stored'[n] = Definition(rt'[<<n, intents'[n]>>].inst,
                                                   rt'[<<n, intents'[n]>>].enabled)
    BY DEF RestartServesTheSame, Current
  <2>1. CASE n = o[1]
    BY <2>1, <1>i, <1>s
  <2>2. CASE n # o[1]
    <3>1. intents'[n] = intents[n] /\ stored'[n] = stored[n]
      BY <2>2, <1>i, <1>s
    <3>2. intents[n] # 0 => rt'[<<n, intents[n]>>] = rt[<<n, intents[n]>>]
      BY <2>2, Objs, Objects, <1>d DEF Current
    <3> QED
      BY <3>1, <3>2 DEF Base, RestartServesTheSame, Current
  <2> QED
    BY <2>1, <2>2
<1> QED
  BY <1>1, <1>3, <1>4, <1>5, <1>6 DEF Base

LEMMA ClosesBase ==
  ASSUME TypeOK, TypeOK', Base, Closes
  PROVE  Base'
<1> DEFINE T == {o \in Obj : Registered(o)}
<1>0. Supersedes(T) /\ UNCHANGED <<stored, intents>> /\ closing'
  BY DEF Closes
<1>1. /\ Shape' /\ GensDiffer'
      /\ \A x \in Obj : rt'[x].used = rt[x].used /\ rt'[x].inst = rt[x].inst
      /\ \A s \in Real : real[s].pc = "opening" =>
           LET x == real[s].obj IN
           /\ x \in Obj
           /\ x \in T => real'[s].aborted /\ real'[s].gen # rt'[x].gen
           /\ x \notin T => rt'[x] = rt[x] /\ (~real'[s].aborted => ~real[s].aborted)
  BY <1>0, SupersedesBase
<1>2. \A s \in Real : SameReal(s)
  BY <1>0 DEF Supersedes, Aborts
<1>3. RegisteredIsUsed'
  BY <1>0, <1>1, Objs DEF Base, RegisteredIsUsed, Current
<1>4. CurrentIsLinked'
  <2>1. \A x \in Obj : x \notin T => ~Registered(x)
    OBVIOUS
  <2> HIDE DEF T
  <2> QED
    BY <1>0, <1>1, <1>2, <2>1 DEF Base, CurrentIsLinked, StillWanted, SameReal
<1>5. LiveIsServed'
  BY <1>0 DEF LiveIsServed
<1>6. RestartServesTheSame'
  <2>1. \A x \in Obj : rt'[x].inst = rt[x].inst /\ rt'[x].enabled = rt[x].enabled
    BY <1>1 DEF Closes
  <2> QED
    BY <1>0, <2>1, Objs DEF Base, RestartServesTheSame, Current
<1> QED
  BY <1>1, <1>3, <1>4, <1>5, <1>6 DEF Base

LEMMA EnablesLateBase ==
  ASSUME TypeOK, TypeOK', Base, NEW o \in Obj, EnablesLate(o)
  PROVE  Base'
<1>0. Supersedes({o}) /\ UNCHANGED <<intents, closing>> /\ closing /\ Registered(o)
  BY DEF EnablesLate, Supersedes
<1>1. /\ Shape' /\ GensDiffer'
      /\ \A x \in Obj : rt'[x].used = rt[x].used /\ rt'[x].inst = rt[x].inst
      /\ \A s \in Real : real[s].pc = "opening" =>
           LET x == real[s].obj IN
           /\ x \in Obj
           /\ x \in {o} => real'[s].aborted /\ real'[s].gen # rt'[x].gen
           /\ x \notin {o} => rt'[x] = rt[x] /\ (~real'[s].aborted => ~real[s].aborted)
  BY <1>0, SupersedesBase
<1>2. \A s \in Real : SameReal(s)
  BY <1>0 DEF Supersedes, Aborts
<1>3. RegisteredIsUsed'
  BY <1>0, <1>1, Objs DEF Base, RegisteredIsUsed, Current
<1>4. CurrentIsLinked'
  BY <1>0, <1>1, <1>2 DEF Base, CurrentIsLinked, StillWanted, Registered, SameReal
<1>5. LiveIsServed'
  BY <1>0 DEF LiveIsServed
<1>6. RestartServesTheSame'
  <2> SUFFICES ASSUME NEW n \in Name
               PROVE  IF intents[n] = 0 THEN stored'[n] = Absent
                      ELSE stored'[n] = Definition(rt'[Current(n)].inst, rt'[Current(n)].enabled)
    BY <1>0 DEF RestartServesTheSame, Current
  <2>0. stored'[n] = IF n = o[1] THEN Definition(rt[o].inst, TRUE) ELSE stored[n]
    BY DEF EnablesLate, TypeOK
  <2>1. CASE n = o[1]
    <3>1. Current(n) = o /\ intents[n] # 0
      BY <1>0, <2>1, RegisteredObjs
    <3>2. rt'[o].enabled = TRUE /\ rt'[o].inst = rt[o].inst
      BY <1>1 DEF EnablesLate, TypeOK, RuntimeIntent
    <3> QED
      BY <2>0, <2>1, <3>1, <3>2
  <2>2. CASE n # o[1]
    <3>1. intents[n] # 0 => rt'[Current(n)] = rt[Current(n)]
      BY <1>0, <2>2, Objs DEF Supersedes
    <3> QED
      BY <2>0, <2>2, <3>1 DEF Base, RestartServesTheSame
  <2> QED
    BY <2>1, <2>2
<1> QED
  BY <1>1, <1>3, <1>4, <1>5, <1>6 DEF Base

LEMMA EndsBase ==
  ASSUME TypeOK, TypeOK', Base, NEW r \in Real, EndKinds(r)
  PROVE  Base'
<1> USE DEF Base, InUse
<1>1. PICK o \in Obj : \/ Rejected(r, o) \/ Resolved(r, o) \/ ResolvedLate(r, o)
                       \/ EndedLate(r, o) \/ Noticed(r, o)
  BY DEF EndKinds
<1>2. Ends(r, o)
  BY <1>1 DEF Rejected, Resolved, ResolvedLate, EndedLate, Noticed
<1>3. /\ UNCHANGED <<stored, intents, closing>>
      /\ \A x \in Obj : /\ rt'[x].used = rt[x].used /\ rt'[x].inst = rt[x].inst
                        /\ rt'[x].enabled = rt[x].enabled /\ rt'[x].gen = rt[x].gen
                        /\ x # o => rt'[x] = rt[x]
      /\ \A s \in Real : /\ real'[s].obj = real[s].obj /\ real'[s].gen = real[s].gen
                         /\ real'[s].aborted = real[s].aborted
                         /\ s # r => real'[s] = real[s]
  BY <1>2 DEF Ends
<1>4. real[r].pc # "unused" /\ real'[r].pc # "unused" /\ real'[r].pc # "opening"
  BY <1>1 DEF Rejected, Resolved, ResolvedLate, EndedLate, Noticed, Shape
<1>5. \A s \in Real : InUse(s) => real[s].obj \in Obj
  BY DEF TypeOK, Realization
<1>6. \A s \in Real : InUse(s) => (StillWanted(s)' <=> StillWanted(s))
  BY <1>3, <1>5 DEF StillWanted, Registered
<1>7. Shape'
  <2>1. \A s \in Real : real'[s].pc # "unused" =>
          rt'[real'[s].obj].used /\ real'[s].gen <= rt'[real'[s].obj].gen
    BY <1>3, <1>4, <1>5 DEF Shape
  <2>2. /\ real'[r].pc = "closingLate" => real'[r].sess \in {"closing", "closed", "failed"}
        /\ real'[r].watched => real'[r].pc = "done"
        /\ real'[r].rejected => real'[r].pc = "done" /\ real'[r].sess = "failed"
        /\ real'[r].sess \in {"open", "closing"} =>
             real'[r].watched \/ real'[r].pc = "closingLate"
    <3>1. CASE Rejected(r, o) \/ EndedLate(r, o)
      BY <3>1 DEF Shape, Rejected, EndedLate, Settled
    <3>2. CASE Resolved(r, o) \/ ResolvedLate(r, o)
      BY <3>2 DEF Shape, Resolved, ResolvedLate
    <3>3. CASE Noticed(r, o)
      BY <3>3 DEF Shape, Noticed, Settled
    <3> QED
      BY <1>1, <3>1, <3>2, <3>3
  <2>3. \A s \in Real : s # r => real'[s] = real[s]
    BY <1>3
  <2> QED
    BY <1>4, <2>1, <2>2, <2>3 DEF Shape
<1>8. GensDiffer'
  BY <1>3, <1>4 DEF GensDiffer
<1>9. RegisteredIsUsed'
  BY <1>3, Objs DEF RegisteredIsUsed, Current
<1>10. CurrentIsLinked'
  <2> SUFFICES ASSUME NEW s \in Real, s # r, real[s].pc = "opening"
               PROVE  LET x == real[s].obj IN
                      /\ ~real[s].aborted => real[s].gen = rt[x].gen
                      /\ real[s].gen = rt[x].gen =>
                           /\ StillWanted(s)' /\ rt'[x].status = "starting"
                           /\ rt'[x].controller = s /\ rt'[x].realization = s
    BY <1>3, <1>4, <1>5 DEF CurrentIsLinked
  <2> DEFINE x == real[s].obj
  <2>1. /\ ~real[s].aborted => real[s].gen = rt[x].gen
        /\ real[s].gen = rt[x].gen => /\ StillWanted(s) /\ rt[x].status = "starting"
                                      /\ rt[x].controller = s /\ rt[x].realization = s
    BY DEF CurrentIsLinked
  <2>2. CASE x # o
    BY <1>3, <1>5, <1>6, <2>1, <2>2
  <2>3. CASE x = o
    <3> SUFFICES ASSUME real[s].gen = rt[o].gen
                 PROVE  /\ StillWanted(s)' /\ rt'[o].status = "starting"
                        /\ rt'[o].controller = s /\ rt'[o].realization = s
      BY <2>1, <2>3
    <3>1. ~StillWanted(r)
      <4>1. StillWanted(r) => real[r].gen = rt[o].gen /\ real[r].obj = o
        BY <1>2 DEF StillWanted, Ends
      <4> QED
        BY <1>4, <2>3, <4>1 DEF GensDiffer
    <3>2. rt[o].realization = s /\ rt[o].controller = s /\ rt[o].status = "starting"
      BY <2>1, <2>3
    <3>3. rt'[o].status = rt[o].status /\ rt'[o].controller = rt[o].controller
      BY <1>1, <3>1 DEF Rejected, Resolved, ResolvedLate, EndedLate, Noticed
    <3>4. rt'[o].realization = s
      BY <1>1, <3>1, <3>2 DEF Rejected, Resolved, ResolvedLate, EndedLate, Noticed, Unlink
    <3> QED
      BY <1>6, <2>1, <2>3, <3>2, <3>3, <3>4
  <2> QED
    BY <2>2, <2>3
<1>11. LiveIsServed'
  <2> SUFFICES ASSUME NEW x \in Obj, Registered(x), rt'[x].status = "live", ~closing
               PROVE  /\ rt[x].enabled
                      /\ \E s \in Real : /\ real[s].obj = x /\ real[s].gen = rt[x].gen
                                         /\ real'[s].watched /\ rt'[x].session \in {s, 0}
    BY <1>3 DEF LiveIsServed, Registered
  <2>1. CASE x # o
    <3>1. PICK s \in Real : /\ real[s].obj = x /\ real[s].gen = rt[x].gen
                            /\ real[s].watched /\ rt[x].session \in {s, 0}
      BY <1>3, <2>1 DEF LiveIsServed
    <3>2. s # r
      BY <1>2, <2>1, <3>1 DEF Ends
    <3> QED
      BY <1>3, <2>1, <3>1, <3>2 DEF LiveIsServed
  <2>2. CASE x = o /\ Resolved(r, o)
    BY <1>2, <2>2 DEF Resolved, Ends, StillWanted
  <2>3. CASE x = o /\ ~Resolved(r, o)
    <3>1. rt[o].status = "live" /\ rt'[o].session = rt[o].session
      BY <1>1, <2>2, <2>3 DEF Rejected, ResolvedLate, EndedLate, Noticed
    <3>2. PICK s \in Real : /\ real[s].obj = o /\ real[s].gen = rt[o].gen
                            /\ real[s].watched /\ rt[o].session \in {s, 0}
      BY <2>3, <3>1 DEF LiveIsServed
    <3>3. rt[o].enabled
      BY <2>3, <3>1 DEF LiveIsServed
    <3>4. s = r => real'[r].watched
      <4>1. s = r => StillWanted(r)
        BY <2>3, <3>2, <3>3 DEF StillWanted
      <4>2. s = r => ~Noticed(r, o)
        BY <2>3, <3>1, <4>1 DEF Noticed
      <4> QED
        BY <1>1, <2>3, <3>2, <4>2 DEF Rejected, ResolvedLate, EndedLate
    <3>5. real'[s].watched
      BY <1>3, <3>2, <3>4
    <3> QED
      BY <2>3, <3>1, <3>2, <3>3, <3>5
  <2> QED
    BY <2>1, <2>2, <2>3
<1>12. RestartServesTheSame'
  BY <1>3, Objs DEF RestartServesTheSame, Current
<1> QED
  BY <1>7, <1>8, <1>9, <1>10, <1>11, <1>12

LEMMA KindsBase ==
  ASSUME TypeOK, TypeOK', Base, Kinds
  PROVE  Base'
<1>1. CASE SessionsMove
  BY <1>1, SessionsMoveBase
<1>2. ASSUME NEW o \in Obj, \/ ForgetsEnded(o) \/ Registers(o) \/ Disables({o}) \/ Removes(o)
                            \/ EnablesLate(o)
      PROVE  Base'
  BY <1>2, ForgetsBase, RegistersBase, DisablesBase, RemovesBase, EnablesLateBase DEF ForgetsEnded
<1>3. ASSUME NEW o \in Obj, NEW r \in Real, Starts(o, r)
      PROVE  Base'
  BY <1>3, StartsBase
<1>4. ASSUME NEW i \in Instance, Disables(Targets(i))
      PROVE  Base'
  BY <1>4, DisablesBase
<1>5. CASE Closes
  BY <1>5, ClosesBase
<1>6. ASSUME NEW r \in Real, Answer(r) \/ LateClosed(r) \/ ClosureNoticed(r)
      PROVE  Base'
  <2>1. EndKinds(r)
    BY <1>6, EndsEffect DEF Base
  <2> QED
    BY <2>1, EndsBase
<1> QED
  BY <1>1, <1>2, <1>3, <1>4, <1>5, <1>6 DEF Kinds

-----------------------------------------------------------------------------
(***************************************************************************)
(* The order of a start and of a shutdown                                  *)
(***************************************************************************)
LEMMA ShutSteps ==
  ASSUME Next
  PROVE  Stop \/ CloseService \/ CloseSessions \/ Closed \/ UNCHANGED <<closing, shut>>
<1>1. ASSUME NEW a, Drain(a) \/ DrainStoreThrows(a)
      PROVE  UNCHANGED <<closing, shut>>
  BY <1>1 DEF Drain, DrainStored, DrainWaited, DrainNext, DrainClosed, SessionsVisited,
     CleanNext, CleanClosed, DrainVerdict, DrainStoreThrows, IntentsUnchanged
<1>2. ASSUME NEW q, Start(q)
      PROVE  UNCHANGED <<closing, shut>>
  BY <1>2 DEF Start, Create, Enable, Disable, Retry, Remove, IntentsUnchanged
<1>3. ASSUME NEW q, Continue(q) \/ StoreThrows(q)
      PROVE  UNCHANGED <<closing, shut>>
  BY <1>1, <1>3 DEF Continue, Created, PreClosed, Enabled, ReClosed, Disabled, DisableWaited,
     DisableClosed, CleanupClosed, Removed, RemoveWaited, RemoveClosed, StoreThrows,
     IntentsUnchanged
<1>4. ASSUME NEW r, Session(r) \/ TransportDies(r)
      PROVE  UNCHANGED <<closing, shut>>
  BY <1>4 DEF Session, Answer, OpenRejects, OpenResolves, LateClosed, ClosureNoticed,
     CloseSettles, TransportDies
<1>5. ASSUME NEW d, \/ \E i \in Instance : BeginDrain(d, i)
                    \/ BeginWaited(d) \/ CloseForDrain(d) \/ ReleaseDrain(d)
      PROVE  UNCHANGED <<closing, shut>>
  BY <1>5 DEF BeginDrain, BeginWaited, CloseForDrain, ReleaseDrain, IntentsUnchanged
<1>6. CASE Restored \/ \E n \in Name : Restore(n)
  BY <1>6 DEF Restored, Restore
<1> QED
  BY <1>1, <1>2, <1>3, <1>4, <1>5, <1>6 DEF Next, Shutdown

LEMMA ShutOrderKept ==
  ASSUME TypeOK, ShutOrder, Next
  PROVE  ShutOrder'
<1>1. CASE UNCHANGED <<closing, shut>>
  BY <1>1 DEF ShutOrder
<1>2. CASE Stop
  <2>1. [shut EXCEPT !.pc = "server"].pc = "server"
    BY DEF TypeOK
  <2> QED
    BY <1>2, <2>1 DEF Stop, ShutOrder
<1>3. CASE CloseService
  BY <1>3 DEF CloseService, ShutOrder
<1>4. CASE CloseSessions
  BY <1>4 DEF CloseSessions, ShutOrder
<1>5. CASE Closed
  BY <1>5 DEF Closed, ShutOrder
<1> QED
  BY <1>1, <1>2, <1>3, <1>4, <1>5, ShutSteps

\* Before the daemon's address is published only restore() and its realizations run.
LEMMA WhileRestoring ==
  ASSUME TypeOK, Restoring, ~up, Next
  PROVE  \/ \E n \in Name : Restore(n)
         \/ Restored
         \/ \E r \in Real : Session(r) \/ TransportDies(r)
<1>1. \A a \in Actor : act[a].pc = "idle"
  BY DEF Restoring
<1>2. shut.pc = "open"
  BY DEF Restoring
<1>3. ASSUME NEW a \in Actor
      PROVE  ~Drain(a) /\ ~DrainStoreThrows(a)
  BY <1>1 DEF Drain, DrainStored, DrainWaited, DrainNext, DrainClosed, SessionsVisited,
     CleanNext, CleanClosed, DrainVerdict, DrainStoreThrows, At
<1>4. ASSUME NEW q \in Request
      PROVE  ~Start(q) /\ ~Continue(q) /\ ~StoreThrows(q) /\ ~DrainStoreThrows(q)
  <2>1. q \in Actor
    BY DEF Actor
  <2>2. ~Start(q)
    BY DEF Start, Create, Enable, Disable, Retry, Remove, Idle, Serving
  <2>3. ~Continue(q)
    BY <1>1, <1>3, <2>1 DEF Continue, Created, PreClosed, Enabled, ReClosed, Disabled,
       DisableWaited, DisableClosed, CleanupClosed, Removed, RemoveWaited, RemoveClosed, At
  <2>4. ~StoreThrows(q)
    BY <1>1, <2>1 DEF StoreThrows
  <2> QED
    BY <1>3, <2>1, <2>2, <2>3, <2>4
<1>5. ASSUME NEW d \in Drainer
      PROVE  /\ \A i \in Instance : ~BeginDrain(d, i)
             /\ ~BeginWaited(d) /\ ~CloseForDrain(d) /\ ~ReleaseDrain(d)
             /\ ~Drain(d) /\ ~DrainStoreThrows(d)
  <2>1. d \in Actor
    BY DEF Actor
  <2> QED
    BY <1>1, <1>3, <2>1 DEF BeginDrain, Idle, Serving, BeginWaited, CloseForDrain, ReleaseDrain, At
<1>6. ~Stop /\ ~Shutdown
  BY <1>2 DEF Stop, Shutdown, CloseService, CloseSessions, Closed
<1> QED
  BY <1>4, <1>5, <1>6 DEF Next

LEMMA UpSteps ==
  ASSUME Next
  PROVE  \/ \E n \in Name : Restore(n)
         \/ Restored
         \/ UNCHANGED <<up, toRestore>>
<1>1. ASSUME NEW a, Drain(a) \/ DrainStoreThrows(a)
      PROVE  UNCHANGED <<up, toRestore>>
  BY <1>1 DEF Drain, DrainStored, DrainWaited, DrainNext, DrainClosed, SessionsVisited,
     CleanNext, CleanClosed, DrainVerdict, DrainStoreThrows, IntentsUnchanged
<1>2. ASSUME NEW q, Start(q)
      PROVE  UNCHANGED <<up, toRestore>>
  BY <1>2 DEF Start, Create, Enable, Disable, Retry, Remove, IntentsUnchanged
<1>3. ASSUME NEW q, Continue(q) \/ StoreThrows(q)
      PROVE  UNCHANGED <<up, toRestore>>
  BY <1>1, <1>3 DEF Continue, Created, PreClosed, Enabled, ReClosed, Disabled, DisableWaited,
     DisableClosed, CleanupClosed, Removed, RemoveWaited, RemoveClosed, StoreThrows,
     IntentsUnchanged
<1>4. ASSUME NEW r, Session(r) \/ TransportDies(r)
      PROVE  UNCHANGED <<up, toRestore>>
  BY <1>4 DEF Session, Answer, OpenRejects, OpenResolves, LateClosed, ClosureNoticed,
     CloseSettles, TransportDies
<1>5. ASSUME NEW d, \/ \E i \in Instance : BeginDrain(d, i)
                    \/ BeginWaited(d) \/ CloseForDrain(d) \/ ReleaseDrain(d)
      PROVE  UNCHANGED <<up, toRestore>>
  BY <1>5 DEF BeginDrain, BeginWaited, CloseForDrain, ReleaseDrain, IntentsUnchanged
<1>6. CASE Stop \/ Shutdown
  BY <1>6 DEF Stop, Shutdown, CloseService, CloseSessions, Closed
<1> QED
  BY <1>1, <1>2, <1>3, <1>4, <1>5, <1>6 DEF Next

LEMMA RestoringKept ==
  ASSUME TypeOK, Base, ShutOrder, Restoring, Next
  PROVE  Restoring'
<1>1. CASE up
  <2>1. toRestore = {}
    BY <1>1 DEF Restoring
  <2>2. UNCHANGED <<up, toRestore>>
    BY <1>1, <2>1, UpSteps DEF Restore, Restored
  <2> QED
    BY <1>1, <2>1, <2>2 DEF Restoring
<1>2. ASSUME NEW n \in Name, Restore(n), ~up
      PROVE  Restoring'
  <2>1. PICK r \in Real : Starts(Current(n), r)
    BY <1>2, RestoreEffect
  <2>2. UNCHANGED <<act, up, shut, intents>> /\ toRestore' = toRestore \ {n}
    BY <1>2 DEF Restore
  <2>3. ASSUME NEW m \in toRestore, m # n
        PROVE  /\ intents[m] # 0 /\ Current(m)' = Current(m)
               /\ rt'[Current(m)].enabled /\ rt'[Current(m)].status = "starting"
               /\ rt'[Current(m)].session = 0
               /\ \A s \in Real : InUse(s)' => real'[s].obj # Current(m)
    <3>1. m \in Name /\ intents[m] # 0
      BY <2>3 DEF TypeOK, Restoring
    <3>2. Current(m) \in Obj /\ Current(m) # Current(n)
      BY <2>3, <3>1, Objs DEF Current
    <3>3. rt'[Current(m)] = rt[Current(m)]
      BY <2>1, <3>2 DEF Starts
    <3>4. ASSUME NEW s \in Real, real'[s].pc # "unused"
          PROVE  real'[s].obj # Current(m)
      <4>1. CASE s = r
        BY <2>1, <3>2, <4>1 DEF Starts
      <4>2. CASE s # r
        BY <2>1, <2>3, <3>4, <4>2 DEF Starts, SameReal, Restoring, InUse
      <4> QED
        BY <4>1, <4>2
    <3> QED
      BY <2>2, <2>3, <3>1, <3>3, <3>4 DEF Restoring, Current, InUse
  <2> QED
    BY <1>2, <2>2, <2>3 DEF Restoring
<1>3. CASE Restored
  BY <1>3 DEF Restored, Restoring
<1>4. ASSUME NEW r \in Real, Session(r) \/ TransportDies(r), ~up
      PROVE  Restoring'
  <2>1. UNCHANGED <<act, up, shut, intents, toRestore>>
    BY <1>4 DEF Session, Answer, OpenRejects, OpenResolves, LateClosed, ClosureNoticed,
       CloseSettles, TransportDies
  <2>2. ASSUME NEW o \in Obj, \A s \in Real : InUse(s) => real[s].obj # o
        PROVE  rt'[o] = rt[o] /\ \A s \in Real : InUse(s)' => real'[s].obj # o
    <3>1. CASE Answer(r) \/ LateClosed(r) \/ ClosureNoticed(r)
      <4>1. PICK p \in Obj : \/ Rejected(r, p) \/ Resolved(r, p) \/ ResolvedLate(r, p)
                             \/ EndedLate(r, p) \/ Noticed(r, p)
        BY <3>1, EndsEffect DEF EndKinds, Base
      <4>2. InUse(r) /\ Ends(r, p)
        BY <4>1 DEF Rejected, Resolved, ResolvedLate, EndedLate, Noticed, Base, Shape, InUse
      <4>3. p # o /\ real'[r].obj # o /\ \A s \in Real : s # r => real'[s] = real[s]
        BY <2>2, <4>2 DEF Ends
      <4> QED
        BY <2>2, <4>2, <4>3 DEF Ends, InUse
    <3>2. CASE CloseSettles(r) \/ TransportDies(r)
      <4>1. rt' = rt /\ \A s \in Real : real'[s].obj = real[s].obj /\ real'[s].pc = real[s].pc
        BY <3>2 DEF CloseSettles, TransportDies, CloseSession, TypeOK, Realization, RealizationFields
      <4> QED
        BY <2>2, <4>1 DEF InUse
    <3> QED
      BY <1>4, <3>1, <3>2 DEF Session
  <2>3. \A n \in toRestore : n \in Name /\ intents[n] # 0 /\ Current(n) \in Obj
    BY Objs DEF Restoring, TypeOK
  <2>4. \A n \in toRestore :
          /\ Current(n)' = Current(n) /\ rt'[Current(n)] = rt[Current(n)]
          /\ \A s \in Real : InUse(s)' => real'[s].obj # Current(n)
    BY <2>1, <2>2, <2>3 DEF Restoring, Current
  <2> QED
    BY <1>4, <2>1, <2>4 DEF Restoring
<1> QED
  BY <1>1, <1>2, <1>3, <1>4, WhileRestoring

LEMMA InitBase ==
  ASSUME Init
  PROVE  Base /\ ShutOrder /\ Restoring
<1>0. TypeOK
  BY InitType
<1>1. \A r \in Real : real[r].pc = "unused" /\ ~real[r].watched /\ ~real[r].rejected
                      /\ real[r].sess = "none"
  BY DEF Init, NoReal
<1>2. ASSUME NEW n \in Name, stored[n] # Absent
      PROVE  /\ Current(n) = <<n, 1>> /\ intents[n] = 1
             /\ rt[Current(n)] = NewRuntime(stored[n].inst, stored[n].kind = "enabled")
  <2>1. <<n, 1>> \in Obj /\ NameOf(<<n, 1>>) = n /\ <<n, 1>>[2] = 1
    BY Objects, Lifetimes DEF NameOf
  <2> QED
    BY <1>2, <2>1 DEF Init, Current
<1>3. \A n \in Name : intents[n] = IF stored[n] = Absent THEN 0 ELSE 1
  BY DEF Init
<1>4. \A n \in Name : stored[n] # Absent =>
        /\ stored[n] = Definition(stored[n].inst, stored[n].kind = "enabled")
  <2> TAKE n \in Name
  <2> HAVE stored[n] # Absent
  <2>1. stored[n] \in Definitions
    BY <1>0 DEF TypeOK
  <2>2. PICK i \in Instance, en \in BOOLEAN : stored[n] = Definition(i, en)
    BY <2>1 DEF Definitions
  <2>3. stored[n].inst = i /\ stored[n].kind = (IF en THEN "enabled" ELSE "disabled")
    BY <2>2, DefinitionsOf
  <2> QED
    BY <2>2, <2>3
<1>n. \A i, en : /\ NewRuntime(i, en).used /\ NewRuntime(i, en).inst = i
                 /\ NewRuntime(i, en).enabled = en /\ NewRuntime(i, en).session = 0
                 /\ NewRuntime(i, en).status = (IF en THEN "starting" ELSE "disabled")
  BY DEF NewRuntime
<1>5. Shape /\ GensDiffer /\ CurrentIsLinked
  BY <1>1 DEF Shape, GensDiffer, CurrentIsLinked, InUse
<1>6. RegisteredIsUsed
  BY <1>2, <1>3, <1>n DEF RegisteredIsUsed
<1>7. LiveIsServed
  <2>1. \A o \in Obj : rt[o].status # "live"
    BY DEF Init, NewRuntime, NoRuntime
  <2> QED
    BY <2>1 DEF LiveIsServed
<1>8. RestartServesTheSame
  BY <1>2, <1>3, <1>4, <1>n DEF RestartServesTheSame
<1>9. ShutOrder
  BY DEF Init, ShutOrder
<1>10. Restoring
  <2>1. ~up /\ shut.pc = "open" /\ \A a \in Actor : act[a].pc = "idle"
    BY DEF Init, Frame
  <2>2. ASSUME NEW n \in toRestore
        PROVE  n \in Name /\ stored[n] # Absent /\ stored[n].kind = "enabled"
    BY <2>2 DEF Init, Absent
  <2>3. ASSUME NEW n \in toRestore
        PROVE  /\ intents[n] # 0
               /\ rt[Current(n)].enabled /\ rt[Current(n)].status = "starting"
               /\ rt[Current(n)].session = 0
    <3>1. intents[n] = 1 /\ rt[Current(n)] = NewRuntime(stored[n].inst, stored[n].kind = "enabled")
      BY <1>2, <2>2
    <3>2. (stored[n].kind = "enabled") = TRUE
      BY <2>2
    <3>3. rt[Current(n)] = NewRuntime(stored[n].inst, TRUE)
      BY <3>1, <3>2
    <3> QED
      BY <3>1, <3>3 DEF NewRuntime
  <2> QED
    BY <1>1, <2>1, <2>3 DEF Restoring, InUse
<1> QED
  BY <1>5, <1>6, <1>7, <1>8, <1>9, <1>10 DEF Base

LEMMA Stutter ==
  ASSUME UNCHANGED vars, Base, ShutOrder, Restoring
  PROVE  Base' /\ ShutOrder' /\ Restoring'
BY DEF vars, Base, ShutOrder, Restoring, Shape, GensDiffer, RegisteredIsUsed, CurrentIsLinked,
   LiveIsServed, RestartServesTheSame, InUse, Current, StillWanted, Registered

\* Started and stored: the part of the inductive invariant that needs no turns.
LEMMA Served ==
  ASSUME ~StoreMayFail
  PROVE  Spec => [](TypeOK /\ Base /\ ShutOrder /\ Restoring)
<1> DEFINE Inv == TypeOK /\ Base /\ ShutOrder /\ Restoring
<1>1. Init => Inv
  BY InitType, InitBase
<1>2. Inv /\ [Next]_vars => Inv'
  <2> SUFFICES ASSUME Inv, [Next]_vars
               PROVE  Inv'
    OBVIOUS
  <2>1. TypeOK'
    BY NextType
  <2>2. CASE Next
    BY <2>1, <2>2, Steps, KindsBase, ShutOrderKept, RestoringKept
  <2>3. CASE UNCHANGED vars
    BY <2>1, <2>3, Stutter
  <2> QED
    BY <2>2, <2>3
<1> HIDE DEF Inv
<1>3. Spec => []Inv
  BY <1>1, <1>2, PTL DEF Spec
<1> QED
  BY <1>3 DEF Inv

\* A live connection is served, and a restart brings back what is served now, as
\* long as JsonStateStore.update does not throw (EndpointIntentService changes
\* its state only after the update).
THEOREM ServesDefinitions == ASSUME ~StoreMayFail PROVE Spec => []ServesTheDefined
<1>1. TypeOK /\ Base /\ ShutOrder /\ Restoring => ServesTheDefined
  BY DEF Base, ServesTheDefined
<1> QED
  BY <1>1, Served, PTL

-----------------------------------------------------------------------------
(***************************************************************************)
(* What every step leaves as it is                                         *)
(***************************************************************************)
LEMMA SessionsStay ==
  ASSUME TypeOK, Base, Kinds
  PROVE  \A r \in Real :
           /\ Settled(r) => real'[r].sess = real[r].sess
           /\ Ended(r) => Ended(r)'
           /\ InUse(r) => InUse(r)' /\ real'[r].obj = real[r].obj
           /\ Live(r)' => Live(r) \/ real[r].pc = "unused"
           /\ real[r].pc = "done" => real'[r].pc = "done"
           /\ real[r].rejected => real'[r].rejected
           /\ real[r].sess # "none" => real'[r].sess # "none"
           /\ real'[r].sess \in {"open", "closing"} =>
                real[r].sess \in {"open", "closing"} \/ real[r].pc = "opening"
           /\ closing /\ Live(r)' => Live(r)
<1> DEFINE P(r) == /\ Settled(r) => real'[r].sess = real[r].sess
                   /\ Ended(r) => Ended(r)'
                   /\ InUse(r) => InUse(r)' /\ real'[r].obj = real[r].obj
                   /\ Live(r)' => Live(r) \/ real[r].pc = "unused"
                   /\ real[r].pc = "done" => real'[r].pc = "done"
                   /\ real[r].rejected => real'[r].rejected
                   /\ real[r].sess # "none" => real'[r].sess # "none"
                   /\ real'[r].sess \in {"open", "closing"} =>
                        real[r].sess \in {"open", "closing"} \/ real[r].pc = "opening"
                   /\ closing /\ Live(r)' => Live(r)
<1> USE DEF Settled, Ended, InUse, Live
<1>1. ASSUME NEW r \in Real, SameReal(r), Moves(r)
      PROVE  P(r)
  BY <1>1 DEF SameReal, Moves
<1>2. ASSUME NEW r \in Real, SameReal(r), real'[r].sess = real[r].sess
      PROVE  P(r)
  BY <1>2 DEF SameReal
<1>3. ASSUME NEW T, Supersedes(T)
      PROVE  \A r \in Real : P(r)
  BY <1>2, <1>3 DEF Supersedes, Aborts
<1>4. ASSUME NEW r \in Real, real'[r] = real[r]
      PROVE  P(r)
  BY <1>4
<1>5. ASSUME NEW o \in Obj, NEW s \in Real, Starts(o, s)
      PROVE  \A r \in Real : P(r)
  <2> TAKE r \in Real
  <2>1. CASE r = s
    BY <1>5, <2>1 DEF Starts, Base, Shape
  <2>2. CASE r # s
    BY <1>2, <1>5, <2>2 DEF Starts
  <2> QED
    BY <2>1, <2>2
<1>6. ASSUME NEW s \in Real, EndKinds(s)
      PROVE  \A r \in Real : P(r)
  <2>1. PICK o \in Obj : \/ Rejected(s, o) \/ Resolved(s, o) \/ ResolvedLate(s, o)
                         \/ EndedLate(s, o) \/ Noticed(s, o)
    BY <1>6 DEF EndKinds
  <2>2. Ends(s, o)
    BY <2>1 DEF Rejected, Resolved, ResolvedLate, EndedLate, Noticed
  <2>3. P(s)
    <3>1. CASE Rejected(s, o)
      BY <2>2, <3>1 DEF Rejected, Ends, Base, Shape
    <3>2. CASE Resolved(s, o)
      BY <2>2, <3>2 DEF Resolved, Ends, Base, Shape
    <3>3. CASE ResolvedLate(s, o)
      BY <2>2, <3>3 DEF ResolvedLate, Ends, Base, Shape
    <3>4. CASE EndedLate(s, o)
      BY <2>2, <3>4 DEF EndedLate, Ends, Base, Shape
    <3>5. CASE Noticed(s, o)
      BY <2>2, <3>5 DEF Noticed, Ends, Base, Shape
    <3> QED
      BY <2>1, <3>1, <3>2, <3>3, <3>4, <3>5
  <2>4. \A r \in Real : r # s => P(r)
    BY <1>4, <2>2 DEF Ends
  <2> QED
    BY <2>3, <2>4
<1>7. \A o \in Obj : Forgets(o) \/ Registers(o) => real' = real
  BY DEF Forgets, Registers
<1>8. \A r \in Real : Answer(r) \/ LateClosed(r) \/ ClosureNoticed(r) => EndKinds(r)
  BY EndsEffect DEF Base
<1> HIDE DEF P
<1> QED
  <2>1. CASE SessionsMove
    BY <1>1, <2>1 DEF P, SessionsMove
  <2>2. CASE ~SessionsMove
    <3>1. \/ \E o \in Obj : \/ Forgets(o) \/ Registers(o)
                            \/ \E s \in Real : Starts(o, s)
          \/ \E T : Supersedes(T)
          \/ \E s \in Real : EndKinds(s)
      BY <1>8, <2>2 DEF Kinds, ForgetsEnded, Disables, Removes, EnablesLate, Closes
    <3>2. CASE \E o \in Obj : Forgets(o) \/ Registers(o)
      BY <1>4, <1>7, <3>2 DEF P
    <3> QED
      BY <1>3, <1>5, <1>6, <3>1, <3>2 DEF P
  <2> QED
    BY <2>1, <2>2

\* The five ways a step changes the runtime objects.
ObjectKinds ==
  \/ rt' = rt /\ UNCHANGED <<intents, closing>>
  \/ \E o \in Obj : ForgetsEnded(o) \/ (Registers(o) /\ (Held => Alone(o)))
                    \/ (EnablesLate(o) /\ (Held => StartsClean(o)))
                    \/ (\E r \in Real : Starts(o, r) /\ (Held => StartsClean(o)))
  \/ \E o \in Obj : Removes(o)
  \/ \E T : Disables(T) /\ Awaits(T)
  \/ Closes
  \/ \E r \in Real, o \in Obj : Rejected(r, o) \/ Resolved(r, o) \/ EndedLate(r, o) \/ Noticed(r, o)

LEMMA ObjectSteps ==
  ASSUME TypeOK, Base, Kinds
  PROVE  ObjectKinds
<1>1. CASE SessionsMove
  BY <1>1 DEF SessionsMove, ObjectKinds
<1>2. ASSUME NEW r \in Real, Answer(r) \/ LateClosed(r) \/ ClosureNoticed(r)
      PROVE  ObjectKinds
  <2>1. EndKinds(r)
    BY <1>2, EndsEffect DEF Base
  <2>2. PICK o \in Obj : \/ Rejected(r, o) \/ Resolved(r, o) \/ ResolvedLate(r, o)
                         \/ EndedLate(r, o) \/ Noticed(r, o)
    BY <2>1 DEF EndKinds
  <2>3. ResolvedLate(r, o) => rt' = rt /\ UNCHANGED <<intents, closing>>
    BY DEF ResolvedLate, Ends
  <2> QED
    BY <2>2, <2>3 DEF ObjectKinds
<1>3. CASE Closes \/ (\E i \in Instance : Disables(Targets(i)) /\ Awaits(Targets(i)))
  BY <1>3 DEF ObjectKinds
<1>4. ASSUME NEW o \in Obj, \/ ForgetsEnded(o) \/ Removes(o)
                            \/ Disables({o}) /\ Awaits({o})
                            \/ Registers(o) /\ (Held => Alone(o))
                            \/ EnablesLate(o) /\ (Held => StartsClean(o))
                            \/ \E r \in Real : Starts(o, r) /\ (Held => StartsClean(o))
      PROVE  ObjectKinds
  BY <1>4 DEF ObjectKinds
<1> QED
  BY <1>1, <1>2, <1>3, <1>4 DEF Kinds

LEMMA Unregistered ==
  ASSUME TypeOK, NEW o \in Obj, ~rt[o].used, intents[o[1]] = 0 \/ intents[o[1]] = o[2],
         intents' = [intents EXCEPT ![o[1]] = o[2]]
  PROVE  \A x \in Obj : x # o /\ Registered(x)' => Registered(x)
<1> TAKE x \in Obj
<1>1. x[1] \in Name /\ o[1] \in Name /\ (x # o => x[1] # o[1] \/ x[2] # o[2])
  BY Objects
<1>2. intents'[x[1]] = IF x[1] = o[1] THEN o[2] ELSE intents[x[1]]
  BY <1>1 DEF TypeOK
<1> QED
  BY <1>1, <1>2 DEF Registered, NameOf

\* An object that was used stays what it is; one that is not registered any more
\* is never registered again.
LEMMA ObjectsStay ==
  ASSUME TypeOK, Base, Kinds
  PROVE  \A x \in Obj : rt[x].used =>
           /\ rt'[x].used /\ rt'[x].inst = rt[x].inst
           /\ Registered(x)' => Registered(x)
<1> DEFINE P(x) == rt[x].used => /\ rt'[x].used /\ rt'[x].inst = rt[x].inst
                                 /\ Registered(x)' => Registered(x)
<1>1. CASE rt' = rt /\ UNCHANGED <<intents, closing>>
  BY <1>1 DEF Registered
<1>2. ASSUME NEW o \in Obj, Forgets(o)
      PROVE  \A x \in Obj : P(x)
  <2>1. \A x \in Obj : rt'[x].used = rt[x].used /\ rt'[x].inst = rt[x].inst
    BY <1>2 DEF Forgets, TypeOK, RuntimeIntent
  <2> QED
    BY <1>2, <2>1 DEF Forgets, Registered
<1>3. ASSUME NEW o \in Obj, Registers(o)
      PROVE  \A x \in Obj : P(x)
  BY <1>3, Unregistered DEF Registers
<1>4. ASSUME NEW o \in Obj, NEW r \in Real, Starts(o, r)
      PROVE  \A x \in Obj : P(x)
  <2>1. CASE rt[o].used
    <3>1. Registered(o) /\ intents' = intents
      BY <1>4, <2>1, RegisteredObjs DEF Starts, TypeOK, Registered, NameOf
    <3> QED
      BY <1>4, <3>1 DEF Starts, Registered
  <2>2. CASE ~rt[o].used
    BY <1>4, <2>2, Unregistered DEF Starts, Registered, NameOf
  <2> QED
    BY <2>1, <2>2
<1>5. ASSUME NEW T, Supersedes(T)
      PROVE  \A x \in Obj : rt'[x].used = rt[x].used /\ rt'[x].inst = rt[x].inst
  BY <1>5 DEF Supersedes
<1>6. ASSUME NEW o \in Obj, Removes(o)
      PROVE  \A x \in Obj : Registered(x)' => Registered(x)
  <2>1. \A x \in Obj : intents'[x[1]] = IF x[1] = o[1] THEN 0 ELSE intents[x[1]]
    BY <1>6, Objects DEF Removes, TypeOK
  <2>2. \A x \in Obj : x[2] # 0
    BY Objects, Lifetimes
  <2> QED
    BY <2>1, <2>2 DEF Registered, NameOf
<1>7. ASSUME NEW r, NEW o, Ends(r, o)
      PROVE  \A x \in Obj : P(x)
  BY <1>7 DEF Ends, Registered
<1>8. (\E T : Disables(T)) \/ Closes \/ (\E o \in Obj : EnablesLate(o)) => intents' = intents
  BY DEF Disables, Closes, EnablesLate
<1>9. intents' = intents => \A x \in Obj : Registered(x)' => Registered(x)
  BY DEF Registered
<1>10. CASE \E o \in Obj : Removes(o)
  BY <1>5, <1>6, <1>10 DEF Removes
<1>11. CASE (\E T : Disables(T)) \/ Closes \/ (\E o \in Obj : EnablesLate(o))
  BY <1>5, <1>8, <1>9, <1>11 DEF Disables, Closes, EnablesLate
<1>12. CASE \E r \in Real, o \in Obj : Rejected(r, o) \/ Resolved(r, o) \/ EndedLate(r, o) \/ Noticed(r, o)
  BY <1>7, <1>12 DEF Rejected, Resolved, EndedLate, Noticed
<1> QED
  BY <1>1, <1>2, <1>3, <1>4, <1>10, <1>11, <1>12, ObjectSteps DEF ObjectKinds, ForgetsEnded

-----------------------------------------------------------------------------
(***************************************************************************)
(* The session of an object                                                *)
(***************************************************************************)
\* A session appears only with a realization that resolves; it goes when it ended.
LEMMA SessionSteps ==
  ASSUME TypeOK, TypeOK', Base, Held, Kinds
  PROVE  \A x \in Obj :
           \/ rt'[x].session = rt[x].session
           \/ rt'[x].session = 0 /\ Settled(rt[x].session)
           \/ \E r \in Real : Resolved(r, x)
<1> DEFINE P(x) == \/ rt'[x].session = rt[x].session
                   \/ rt'[x].session = 0 /\ Settled(rt[x].session)
                   \/ \E r \in Real : Resolved(r, x)
<1>0. \A x \in Obj : ~rt[x].used => rt[x].session = 0
  BY DEF Held, SessionsOf
<1>1. ASSUME NEW o \in Obj, ForgetsEnded(o)
      PROVE  \A x \in Obj : P(x)
  <2>1. /\ \A x \in Obj : x # o => rt'[x] = rt[x]
        /\ rt'[o] = [rt[o] EXCEPT !.session = 0]
    BY <1>1 DEF ForgetsEnded, Forgets, TypeOK
  <2>2. rt'[o].session = 0
    BY <2>1 DEF TypeOK, RuntimeIntent
  <2> QED
    BY <1>1, <2>1, <2>2 DEF ForgetsEnded
<1>2. ASSUME NEW o \in Obj, Registers(o)
      PROVE  \A x \in Obj : P(x)
  BY <1>0, <1>2 DEF Registers
<1>3. ASSUME NEW o \in Obj, NEW r \in Real, Starts(o, r)
      PROVE  \A x \in Obj : P(x)
  BY <1>0, <1>3 DEF Starts
<1>4. ASSUME NEW T, Supersedes(T)
      PROVE  \A x \in Obj : P(x)
  BY <1>4 DEF Supersedes
<1>5. ASSUME NEW r \in Real, NEW o \in Obj, Rejected(r, o) \/ EndedLate(r, o) \/ Resolved(r, o)
      PROVE  \A x \in Obj : P(x)
  BY <1>5 DEF Rejected, EndedLate, Resolved, Ends
<1>6. ASSUME NEW r \in Real, NEW o \in Obj, Noticed(r, o)
      PROVE  \A x \in Obj : P(x)
  <2>1. \A x \in Obj : x # o => rt'[x] = rt[x]
    BY <1>6 DEF Noticed, Ends
  <2>2. CASE rt'[o].session = rt[o].session
    BY <2>1, <2>2
  <2>3. CASE rt'[o].session # rt[o].session
    <3>1. StillWanted(r) /\ rt[o].status = "live" /\ rt'[o].session = 0 /\ Settled(r)
          /\ real[r].obj = o /\ InUse(r)
      BY <1>6, <2>3 DEF Noticed, Ends, Base, Shape, InUse
    <3>2. PICK s \in Real : real[s].obj = o /\ real[s].gen = rt[o].gen /\ real[s].watched
                            /\ rt[o].session \in {s, 0}
      BY <3>1 DEF StillWanted, Base, LiveIsServed
    <3>3. s = r
      BY <3>1, <3>2 DEF StillWanted, Base, GensDiffer, Shape, InUse
    <3>4. Settled(rt[o].session)
      BY <2>3, <3>1, <3>2, <3>3
    <3> QED
      BY <2>1, <3>1, <3>4
  <2> QED
    BY <2>2, <2>3
<1> QED
  <2>1. CASE rt' = rt
    BY <2>1
  <2>2. CASE rt' # rt
    <3>1. \/ \E o \in Obj : ForgetsEnded(o) \/ Registers(o) \/ (\E r \in Real : Starts(o, r))
          \/ \E T : Supersedes(T)
          \/ \E r \in Real, o \in Obj : \/ Rejected(r, o) \/ EndedLate(r, o) \/ Resolved(r, o)
                                        \/ Noticed(r, o)
      BY <2>2, ObjectSteps DEF ObjectKinds, Disables, Removes, EnablesLate, Closes
    <3> QED
      BY <1>1, <1>2, <1>3, <1>4, <1>5, <1>6, <3>1
  <2> QED
    BY <2>1, <2>2

\* A disabled object stays disabled unless it is started.
LEMMA DisabledSteps ==
  ASSUME TypeOK, TypeOK', Base, Kinds
  PROVE  \A x \in Obj : rt[x].used /\ ~rt[x].enabled =>
           \/ ~rt'[x].enabled
           \/ EnablesLate(x) /\ (Held => StartsClean(x))
           \/ \E r \in Real : Starts(x, r) /\ (Held => StartsClean(x))
<1> DEFINE P(x) == rt[x].used /\ ~rt[x].enabled =>
                     \/ ~rt'[x].enabled
                     \/ EnablesLate(x) /\ (Held => StartsClean(x))
                     \/ \E r \in Real : Starts(x, r) /\ (Held => StartsClean(x))
<1>1. ASSUME NEW o \in Obj, Forgets(o)
      PROVE  \A x \in Obj : rt'[x].enabled = rt[x].enabled
  BY <1>1 DEF Forgets, TypeOK, RuntimeIntent
<1>2. ASSUME NEW o \in Obj, Registers(o)
      PROVE  \A x \in Obj : P(x)
  BY <1>2 DEF Registers
<1>3. ASSUME NEW o \in Obj, EnablesLate(o), Held => StartsClean(o)
      PROVE  \A x \in Obj : P(x)
  BY <1>3 DEF EnablesLate, Supersedes
<1>4. ASSUME NEW o \in Obj, NEW r \in Real, Starts(o, r), Held => StartsClean(o)
      PROVE  \A x \in Obj : P(x)
  <2>1. \A x \in Obj : x # o => rt'[x] = rt[x]
    BY <1>4 DEF Starts
  <2> QED
    BY <1>4, <2>1
<1>5. ASSUME NEW T, Disables(T)
      PROVE  \A x \in Obj : P(x)
  BY <1>5 DEF Disables, Supersedes
<1>6. ASSUME NEW o \in Obj, Removes(o)
      PROVE  \A x \in Obj : rt'[x].enabled = rt[x].enabled
  BY <1>6 DEF Removes, Supersedes
<1>7. Closes => \A x \in Obj : rt'[x].enabled = rt[x].enabled
  BY DEF Closes
<1>8. ASSUME NEW r \in Real, NEW o \in Obj, Ends(r, o)
      PROVE  \A x \in Obj : rt'[x].enabled = rt[x].enabled
  BY <1>8 DEF Ends
<1> QED
  <2>1. CASE \A x \in Obj : rt'[x].enabled = rt[x].enabled
    BY <2>1
  <2>2. CASE ~\A x \in Obj : rt'[x].enabled = rt[x].enabled
    <3>1. \/ \E o \in Obj : Registers(o) \/ (EnablesLate(o) /\ (Held => StartsClean(o)))
                            \/ (\E r \in Real : Starts(o, r) /\ (Held => StartsClean(o)))
          \/ \E T : Disables(T)
      BY <1>1, <1>6, <1>7, <1>8, <2>2, ObjectSteps
      DEF ObjectKinds, ForgetsEnded, Rejected, EndedLate, Resolved, Noticed
    <3> QED
      BY <1>2, <1>3, <1>4, <1>5, <3>1
  <2> QED
    BY <2>1, <2>2

LEMMA NameSteps ==
  ASSUME TypeOK, Base, Held, Kinds, NEW b \in Request, act'[b] = act[b], NEW n \in Name,
         b \in Starting(n)
  PROVE  intents'[n] \in {intents[n], 0}
<1>1. ASSUME NEW o \in Obj, ~rt[o].used, Alone(o), intents' = [intents EXCEPT ![o[1]] = o[2]]
      PROVE  intents'[n] = intents[n]
  <2>1. o[1] # n
    BY <1>1 DEF Alone
  <2> QED
    BY <1>1, <2>1 DEF TypeOK
<1>2. ASSUME NEW o \in Obj, NEW r \in Real, Starts(o, r), StartsClean(o)
      PROVE  intents'[n] = intents[n]
  <2>1. CASE rt[o].used
    BY <1>2, <2>1 DEF Starts, TypeOK, Registered, NameOf
  <2>2. CASE ~rt[o].used
    BY <1>1, <1>2, <2>2 DEF Starts, StartsClean
  <2> QED
    BY <2>1, <2>2
<1>3. ASSUME NEW o \in Obj, Registers(o), Alone(o)
      PROVE  intents'[n] = intents[n]
  BY <1>1, <1>3 DEF Registers
<1>4. ASSUME NEW o \in Obj, Removes(o)
      PROVE  intents'[n] \in {intents[n], 0}
  BY <1>4 DEF Removes, TypeOK
<1>5. ASSUME NEW o \in Obj, Forgets(o) \/ EnablesLate(o)
      PROVE  intents' = intents
  BY <1>5 DEF Forgets, EnablesLate
<1>6. ASSUME NEW r, NEW o, Ends(r, o)
      PROVE  intents' = intents
  BY <1>6 DEF Ends
<1>7. (\E T : Disables(T)) \/ Closes => intents' = intents
  BY DEF Disables, Closes
<1> QED
  BY <1>2, <1>3, <1>4, <1>5, <1>6, <1>7, ObjectSteps
  DEF ObjectKinds, ForgetsEnded, Rejected, EndedLate, Resolved, Noticed

\* A handler that did not move keeps what it knows.
LEMMA HandlersStay ==
  ASSUME TypeOK, TypeOK', Base, Held, Kinds, NEW a \in Actor, act'[a] = act[a]
  PROVE  HandlerOK(a)'
<1> DEFINE h == act[a]  o == act[a].obj  n == act[a].name
<1>0. HandlerOK(a) /\ h \in Handler
  BY DEF Held, Handlers, TypeOK
<1>1. Role(a)'
  BY <1>0 DEF HandlerOK, Role
<1>2. h.pc \in AwaitsSession => Ended(h.sess)'
  <2>1. h.pc \in AwaitsSession => h.sess \in Real
    BY <1>0 DEF Handler
  <2> QED
    BY <1>0, <2>1, SessionsStay DEF HandlerOK
<1>3. \A c \in h.clean : real'[c.session].sess = "failed"
  <2> TAKE c \in h.clean
  <2>1. c.session \in Real
    BY <1>0 DEF Handler, HandlerFields, Cleanup
  <2>2. real[c.session].sess = "failed"
    BY <1>0 DEF HandlerOK
  <2> QED
    BY <2>1, <2>2, SessionsStay DEF Settled
<1>4. ASSUME a \in Request, o \in Obj, rt[o].used, ~rt[o].enabled,
             h.pc \in {"preClose", "reClose", "enableStore"}
      PROVE  /\ rt'[o].used /\ rt'[o].inst = rt[o].inst /\ ~rt'[o].enabled
             /\ \/ rt'[o].session = rt[o].session
                \/ rt'[o].session = 0 /\ Settled(rt[o].session)
  <2>1. ~Alone(o)
    BY <1>4 DEF Alone
  <2>2. ~rt'[o].enabled
    BY <1>4, <2>1, DisabledSteps DEF StartsClean
  <2>3. \A r \in Real : ~Resolved(r, o)
    BY <1>4 DEF Resolved, Ends, StillWanted
  <2> QED
    BY <1>4, <2>2, <2>3, SessionSteps, ObjectsStay
<1>5. Closing(a)'
  <2> SUFFICES ASSUME h.pc \in {"preClose", "reClose"}
               PROVE  /\ rt'[o].used /\ ~rt'[o].enabled /\ rt'[o].session \in {h.sess, 0}
                      /\ rt'[o].session = 0 => Settled(h.sess)'
    BY DEF Closing
  <2>1. o \in Obj /\ a \in Request /\ h.sess \in Real
    BY <1>0 DEF Handler, OnObject, AwaitsSession, HandlerOK, Role, ByDrainer, Drains, Actor
  <2>2. /\ rt[o].used /\ ~rt[o].enabled /\ rt[o].session \in {h.sess, 0}
        /\ rt[o].session = 0 => Settled(h.sess)
    BY <1>0 DEF HandlerOK, Closing
  <2>3. Settled(h.sess) => Settled(h.sess)'
    BY <2>1, SessionsStay DEF Settled
  <2> QED
    BY <1>4, <2>1, <2>2, <2>3
<1>6. Enabling(a)'
  <2>1. ASSUME h.pc \in {"preClose", "enableStore"}, o # NoObj
        PROVE  /\ rt'[o].used /\ NameOf(o) = n /\ intents'[n] \in {o[2], 0}
               /\ h.tracked /\ h.inst = rt'[o].inst /\ ~rt'[o].enabled
               /\ h.pc = "enableStore" => rt'[o].session = 0
    <3>1. o \in Obj /\ a \in Request /\ n \in Name
      BY <1>0, <2>1 DEF Handler, HandlerFields, OnName, HandlerOK, Role, ByDrainer, Drains, Actor, OnObject
    <3>2. /\ rt[o].used /\ NameOf(o) = n /\ intents[n] \in {o[2], 0}
          /\ h.tracked /\ h.inst = rt[o].inst /\ ~rt[o].enabled
          /\ h.pc = "enableStore" => rt[o].session = 0
      BY <1>0, <2>1 DEF HandlerOK, Enabling
    <3>3. a \in Starting(n)
      BY <2>1, <3>1 DEF Starting
    <3>4. intents'[n] \in {intents[n], 0}
      BY <3>1, <3>3, NameSteps
    <3> QED
      BY <1>4, <2>1, <3>1, <3>2, <3>4
  <2>2. ASSUME h.pc \in {"enableStore", "disableStore", "removeStore"}, o = NoObj
        PROVE  intents'[n] = 0
    <3>1. a \in Request /\ n \in Name
      BY <1>0, <2>2 DEF Handler, HandlerFields, OnName, HandlerOK, Role, ByDrainer, Drains, Actor
    <3>2. a \in Starting(n)
      BY <2>2, <3>1 DEF Starting
    <3>3. intents[n] = 0
      BY <1>0, <2>2 DEF HandlerOK, Enabling
    <3> QED
      BY <3>1, <3>2, <3>3, NameSteps
  <2> QED
    BY <2>1, <2>2 DEF Enabling
<1>7. Removing(a)'
  <2> SUFFICES ASSUME h.pc \in {"removeWait", "removeClose"}
               PROVE  /\ ~Registered(o)' /\ rt'[o].used /\ NameOf(o) = n
                      /\ (h.pc = "removeWait" /\ h.wait # {}) => rt'[o].session = 0
                      /\ h.pc = "removeClose" => rt'[o].session \in {h.sess, 0}
    BY DEF Removing
  <2>1. o \in Obj
    BY <1>0 DEF Handler, OnObject
  <2>2. /\ ~Registered(o) /\ rt[o].used /\ NameOf(o) = n
        /\ (h.pc = "removeWait" /\ h.wait # {}) => rt[o].session = 0
        /\ h.pc = "removeClose" => rt[o].session \in {h.sess, 0}
    BY <1>0 DEF HandlerOK, Removing
  <2>3. \A r \in Real : ~Resolved(r, o)
    BY <2>2 DEF Resolved, Ends, StillWanted
  <2>4. rt'[o].session \in {rt[o].session, 0}
    BY <2>1, <2>3, SessionSteps
  <2> QED
    BY <2>1, <2>2, <2>4, ObjectsStay
<1>8. h.pc = "createStore" => h.tracked
  BY <1>0 DEF HandlerOK
<1> QED
  BY <1>1, <1>2, <1>3, <1>5, <1>6, <1>7, <1>8 DEF HandlerOK

-----------------------------------------------------------------------------
(***************************************************************************)
(* What a handler that moves knows                                         *)
(***************************************************************************)
OnlyActs(a) == \A b \in Actor : b # a => act'[b] = act[b]

LEMMA DoEffect ==
  ASSUME TypeOK, NEW a \in Actor, NEW f, Do(a, f)
  PROVE  act'[a] = f /\ OnlyActs(a)
BY DEF Do, TypeOK, OnlyActs

LEMMA DoneOK ==
  ASSUME NEW a \in Actor, act'[a] = Done
  PROVE  HandlerOK(a)'
BY DEF Done, Frame, HandlerOK, Role, Closing, Enabling, Removing, ByDrainer, AwaitsSession

\* A handler that only waits, drains or closes a session knows little.
Waits == {"idle", "done", "drainStore", "drainWait", "drainLoop", "cleanLoop"}
Joins == {"drainClose", "cleanClose"}
LEMMA PlainOK ==
  ASSUME NEW a \in Actor,
         \/ act'[a].pc \in Waits \cup Joins
         \/ a \notin Drainer /\ act'[a].pc \in {"disableWait", "disableClose", "cleanupClose"}
         \/ a \notin Request /\ act'[a].pc \in ByDrainer,
         act'[a].pc \in AwaitsSession => Ended(act[a].sess)',
         \A c \in act'[a].clean : real'[c.session].sess = "failed"
  PROVE  HandlerOK(a)'
<1>1. act'[a].pc \notin {"preClose", "reClose", "enableStore", "disableStore", "removeStore",
                         "removeWait", "removeClose", "createStore"}
  BY DEF Waits, Joins, ByDrainer
<1>2. Role(a)'
  BY DEF Role, Waits, Joins, ByDrainer, Drains
<1>3. Closing(a)' /\ Enabling(a)' /\ Removing(a)'
  BY <1>1 DEF Closing, Enabling, Removing
<1> QED
  BY <1>1, <1>2, <1>3 DEF HandlerOK

LEMMA CloseEnds ==
  ASSUME TypeOK, NEW s \in Real, real[s].sess # "none", real' = CloseSession(real, s)
  PROVE  real'[s].sess \in {"closing", "closed", "failed"}
BY DEF TypeOK, CloseSession, Realization, RealizationFields

LEMMA StartHandlers ==
  ASSUME TypeOK, TypeOK', Base, Held, NEW q \in Request, Start(q)
  PROVE  HandlerOK(q)' /\ OnlyActs(q)
<1>0. q \in Actor /\ q \notin Drainer
  BY Constants DEF Actor
<1>s. \A o \in Obj : rt[o].session # 0 => rt[o].session \in Real /\ real[rt[o].session].sess # "none"
  BY DEF Held, SessionsOf, TypeOK, RuntimeIntent
<1> DEFINE f(pc, n, o, s) == [Frame(pc) EXCEPT !.name = n, !.obj = o, !.inst = rt[o].inst,
                                               !.sess = s, !.tracked = TRUE]
<1>f. ASSUME NEW pc, NEW n, NEW o, NEW s
      PROVE  /\ f(pc, n, o, s).pc = pc /\ f(pc, n, o, s).name = n /\ f(pc, n, o, s).obj = o
             /\ f(pc, n, o, s).inst = rt[o].inst /\ f(pc, n, o, s).sess = s
             /\ f(pc, n, o, s).tracked /\ f(pc, n, o, s).clean = {}
  BY DEF Frame
<1>h. ASSUME NEW pc, NEW n, NEW o, NEW s, NEW to
      PROVE  LET g == [f(pc, n, o, s) EXCEPT !.pc = to] IN
             /\ g.pc = to /\ g.name = n /\ g.obj = o
             /\ g.inst = rt[o].inst /\ g.sess = s
             /\ g.tracked /\ g.clean = {}
  BY DEF Frame
<1>g. ASSUME NEW pc, NEW n
      PROVE  LET g == [Frame(pc) EXCEPT !.name = n] IN
             /\ g.pc = pc /\ g.name = n /\ g.obj = NoObj /\ g.clean = {} /\ g.sess = 0
  BY DEF Frame
<1> HIDE DEF f
<1>1. ASSUME NEW n \in Name, NEW i \in Instance, NEW en \in BOOLEAN, Create(q, n, i, en)
      PROVE  HandlerOK(q)' /\ OnlyActs(q)
  <2> DEFINE x == [Frame("createStore") EXCEPT !.name = n, !.inst = i, !.en = en, !.tracked = TRUE]
  <2>1. act'[q] = x /\ OnlyActs(q)
    BY <1>0, <1>1, DoEffect DEF Create
  <2>2. x.pc = "createStore" /\ x.tracked /\ x.clean = {}
    BY DEF Frame
  <2> HIDE DEF x
  <2> QED
    BY <1>0, <2>1, <2>2
    DEF HandlerOK, Role, Closing, Enabling, Removing, ByDrainer, AwaitsSession
<1>2. ASSUME NEW n \in Name, Enable(q, n)
      PROVE  HandlerOK(q)' /\ OnlyActs(q)
  <2> DEFINE o == Current(n)
  <2>1. CASE intents[n] = 0
    <3> DEFINE g == [Frame("enableStore") EXCEPT !.name = n]
    <3>1. act'[q] = g /\ OnlyActs(q) /\ intents' = intents
      BY <1>0, <1>2, <2>1, DoEffect DEF Enable
    <3>2. g.pc = "enableStore" /\ g.name = n /\ g.obj = NoObj /\ g.clean = {}
      BY <1>g
    <3> HIDE DEF g
    <3> QED
      BY <1>0, <2>1, <3>1, <3>2
      DEF HandlerOK, Role, Closing, Enabling, Removing, ByDrainer, AwaitsSession
  <2>2. CASE intents[n] # 0
    <3>0. /\ o \in Obj /\ NameOf(o) = n /\ o[2] = intents[n] /\ rt[o].used /\ ~rt[o].enabled
          /\ o # NoObj /\ UNCHANGED <<intents, rt>>
      BY <1>2, <2>2, Objs, Objects DEF Base, RegisteredIsUsed, NameOf, Enable
    <3> DEFINE s == rt[o].session
    <3>1. CASE s = 0
      <4>1. Do(q, f("enableStore", n, o, s))
        BY <1>2, <2>2, <3>1 DEF Enable, f
      <4> DEFINE g == f("enableStore", n, o, s)
      <4>2. act'[q] = g /\ OnlyActs(q)
        BY <1>0, <4>1, DoEffect
      <4>3. /\ g.pc = "enableStore" /\ g.name = n /\ g.obj = o /\ g.inst = rt[o].inst
            /\ g.tracked /\ g.clean = {}
        BY <1>f
      <4> HIDE DEF g
      <4> QED
        BY <1>0, <3>0, <3>1, <4>2, <4>3
        DEF HandlerOK, Role, Closing, Enabling, Removing, ByDrainer, AwaitsSession
    <3>2. CASE s # 0
      <4>1. Do(q, [f("enableStore", n, o, s) EXCEPT !.pc = "preClose"]) /\ real' = CloseSession(real, s)
        BY <1>2, <2>2, <3>2 DEF Enable, f
      <4> DEFINE g == [f("enableStore", n, o, s) EXCEPT !.pc = "preClose"]
      <4>2. /\ g.pc = "preClose" /\ g.name = n /\ g.obj = o /\ g.inst = rt[o].inst
            /\ g.sess = s /\ g.tracked /\ g.clean = {}
        BY <1>h
      <4>3. act'[q] = g /\ OnlyActs(q)
        BY <1>0, <4>1, DoEffect
      <4>4. real'[s].sess \in {"closing", "closed", "failed"}
        BY <1>s, <3>0, <3>2, <4>1, CloseEnds
      <4> HIDE DEF g
      <4> QED
        BY <1>0, <2>2, <3>0, <3>2, <4>2, <4>3, <4>4
        DEF HandlerOK, Role, Closing, Enabling, Removing, ByDrainer, AwaitsSession, Ended
    <3> QED
      BY <3>1, <3>2
  <2> QED
    BY <2>1, <2>2
<1>3. ASSUME NEW n \in Name, Disable(q, n)
      PROVE  HandlerOK(q)' /\ OnlyActs(q)
  <2> DEFINE o == Current(n)
  <2>1. CASE intents[n] = 0
    <3> DEFINE g == [Frame("disableStore") EXCEPT !.name = n]
    <3>1. act'[q] = g /\ OnlyActs(q) /\ intents' = intents
      BY <1>0, <1>3, <2>1, DoEffect DEF Disable
    <3>2. g.pc = "disableStore" /\ g.name = n /\ g.obj = NoObj /\ g.clean = {}
      BY <1>g
    <3> HIDE DEF g
    <3> QED
      BY <1>0, <2>1, <3>1, <3>2
      DEF HandlerOK, Role, Closing, Enabling, Removing, ByDrainer, AwaitsSession
  <2>2. CASE intents[n] # 0
    <3>0. /\ o \in Obj /\ o # NoObj /\ rt[o].used
          /\ UNCHANGED <<intents, rt>>
      BY <1>3, <2>2, Objs, Objects DEF Base, RegisteredIsUsed, Disable
    <3> DEFINE s == rt[o].session
    <3>1. CASE rt[o].enabled /\ Do(q, f("disableStore", n, o, s))
      <4>2. act'[q] = f("disableStore", n, o, s) /\ OnlyActs(q)
        BY <1>0, <3>1, DoEffect
      <4> QED
        BY <1>0, <1>f, <3>0, <4>2
        DEF HandlerOK, Role, Closing, Enabling, Removing, ByDrainer, AwaitsSession
    <3>2. CASE /\ ~rt[o].enabled /\ s # 0
               /\ Do(q, [f("disableStore", n, o, s) EXCEPT !.pc = "reClose"])
               /\ real' = CloseSession(real, s)
      <4> DEFINE g == [f("disableStore", n, o, s) EXCEPT !.pc = "reClose"]
      <4>2. /\ g.pc = "reClose" /\ g.name = n /\ g.obj = o /\ g.inst = rt[o].inst
            /\ g.sess = s /\ g.tracked /\ g.clean = {}
        BY <1>h
      <4>3. act'[q] = g /\ OnlyActs(q)
        BY <1>0, <3>2, DoEffect
      <4>4. real'[s].sess \in {"closing", "closed", "failed"}
        BY <1>s, <3>0, <3>2, CloseEnds
      <4> HIDE DEF g
      <4> QED
        BY <1>0, <2>2, <3>0, <3>2, <4>2, <4>3, <4>4
        DEF HandlerOK, Role, Closing, Enabling, Removing, ByDrainer, AwaitsSession, Ended
    <3>3. \/ rt[o].enabled /\ Do(q, f("disableStore", n, o, s))
          \/ /\ ~rt[o].enabled /\ s # 0
             /\ Do(q, [f("disableStore", n, o, s) EXCEPT !.pc = "reClose"])
             /\ real' = CloseSession(real, s)
      BY <1>3, <2>2 DEF Disable, f
    <3> QED
      BY <3>1, <3>2, <3>3
  <2> QED
    BY <2>1, <2>2
<1>4. ASSUME NEW n \in Name, Retry(q, n)
      PROVE  HandlerOK(q)' /\ OnlyActs(q)
  BY <1>0, <1>4, DoEffect, DoneOK DEF Retry
<1>5. ASSUME NEW n \in Name, Remove(q, n)
      PROVE  HandlerOK(q)' /\ OnlyActs(q)
  <2> DEFINE frame == IF intents[n] = 0 THEN [Frame("removeStore") EXCEPT !.name = n]
                      ELSE [Frame("removeStore") EXCEPT
                              !.name = n, !.obj = Current(n), !.inst = rt[Current(n)].inst,
                              !.tracked = TRUE]
  <2>1. /\ frame.pc = "removeStore" /\ frame.name = n /\ frame.clean = {}
        /\ frame.obj = IF intents[n] = 0 THEN NoObj ELSE Current(n)
    BY DEF Frame
  <2>2. intents' = intents /\ (intents[n] # 0 => Current(n) # NoObj)
    BY <1>5, Objs, Objects DEF Remove
  <2>3. \/ Do(q, frame)
        \/ \E c \in Reserved(n) : /\ Do(q, [frame EXCEPT !.pc = "cleanupClose", !.sess = c.session])
                                  /\ real' = CloseSession(real, c.session)
    BY <1>5 DEF Remove
  <2>4. CASE Do(q, frame)
    <3>1. act'[q] = frame /\ OnlyActs(q)
      BY <1>0, <2>4, DoEffect
    <3> HIDE DEF frame
    <3> QED
      BY <1>0, <2>1, <2>2, <3>1
      DEF HandlerOK, Role, Closing, Enabling, Removing, ByDrainer, AwaitsSession
  <2>5. ASSUME NEW c \in Reserved(n),
               Do(q, [frame EXCEPT !.pc = "cleanupClose", !.sess = c.session]),
               real' = CloseSession(real, c.session)
        PROVE  HandlerOK(q)' /\ OnlyActs(q)
    <3> DEFINE x == [frame EXCEPT !.pc = "cleanupClose", !.sess = c.session]
    <3>1. act'[q] = x /\ OnlyActs(q)
      BY <1>0, <2>5, DoEffect
    <3>2. x.pc = "cleanupClose" /\ x.sess = c.session /\ x.clean = {}
      BY DEF Frame
    <3>3. c.session \in Real /\ real[c.session].sess = "failed"
      BY DEF Reserved, Held, CleanupFailed, TypeOK, Cleanup
    <3>4. real'[c.session].sess \in {"closing", "closed", "failed"}
      BY <2>5, <3>3, CloseEnds
    <3> HIDE DEF x
    <3> QED
      BY <1>0, <3>1, <3>2, <3>4, PlainOK DEF Ended
  <2> QED
    BY <2>3, <2>4, <2>5
<1> QED
  BY <1>1, <1>2, <1>3, <1>4, <1>5 DEF Start

LEMMA CloseAfterHandler ==
  ASSUME TypeOK, Base, Held, NEW q \in Request, NEW next,
         \/ At(q, "disableWait") /\ next = "disableClose"
         \/ At(q, "removeWait") /\ next = "removeClose",
         CloseAfterRealization(q, next)
  PROVE  /\ OnlyActs(q)
         /\ \/ act'[q] = Done
            \/ /\ act'[q].pc = next /\ act'[q].sess = rt[act[q].obj].session
               /\ act'[q].obj = act[q].obj /\ act'[q].name = act[q].name
               /\ act'[q].clean = act[q].clean
               /\ act'[q].sess # 0
               /\ real'[act'[q].sess].sess \in {"closing", "closed", "failed"}
<1> DEFINE s == rt[act[q].obj].session
           x == [act[q] EXCEPT !.pc = next, !.sess = s, !.wait = {}]
<1>0. q \in Actor
  BY DEF Actor
<1>1. act[q] \in HandlerFields /\ act[q].obj \in Obj
  BY <1>0 DEF TypeOK, Handler, OnObject, At
<1>2. Do(q, Done) \/ (s # 0 /\ Do(q, x) /\ real' = CloseSession(real, s))
  BY DEF CloseAfterRealization
<1>3. /\ x.pc = next /\ x.sess = s /\ x.obj = act[q].obj /\ x.name = act[q].name
      /\ x.clean = act[q].clean
  BY <1>1 DEF HandlerFields
<1>4. s # 0 => s \in Real /\ real[s].sess # "none"
  BY <1>1 DEF Held, SessionsOf, TypeOK, RuntimeIntent
<1>5. CASE Do(q, Done)
  BY <1>0, <1>5, DoEffect
<1>6. CASE s # 0 /\ Do(q, x) /\ real' = CloseSession(real, s)
  <2>1. act'[q] = x /\ OnlyActs(q)
    BY <1>0, <1>6, DoEffect
  <2>2. real'[s].sess \in {"closing", "closed", "failed"}
    BY <1>4, <1>6, CloseEnds
  <2> HIDE DEF x
  <2> QED
    BY <1>3, <1>6, <2>1, <2>2
<1> QED
  BY <1>2, <1>5, <1>6

LEMMA ThenDrainHandler ==
  ASSUME TypeOK, NEW q \in Request, NEW i, NEW t, ThenDrainIfDraining(q, i, t)
  PROVE  HandlerOK(q)' /\ OnlyActs(q)
<1> DEFINE x == [Frame("drainStore") EXCEPT !.inst = i, !.tracked = t]
<1>0. q \in Actor
  BY DEF Actor
<1>1. Do(q, x) \/ Do(q, Done)
  BY DEF ThenDrainIfDraining
<1>2. x.pc = "drainStore" /\ x.clean = {}
  BY DEF Frame
<1> HIDE DEF x
<1>3. CASE Do(q, x)
  <2>1. act'[q] = x /\ OnlyActs(q)
    BY <1>0, <1>3, DoEffect
  <2> QED
    BY <1>0, <1>2, <2>1, PlainOK DEF Waits, AwaitsSession
<1>4. CASE Do(q, Done)
  BY <1>0, <1>4, DoEffect, DoneOK
<1> QED
  BY <1>1, <1>3, <1>4

LEMMA ContinueHandlers ==
  ASSUME TypeOK, TypeOK', Base, Held, Kinds, NEW q \in Request, Continue(q), ~Drain(q)
  PROVE  HandlerOK(q)' /\ OnlyActs(q)
<1> DEFINE h == act[q]  o == act[q].obj  n == act[q].name
<1>0. q \in Actor /\ q \notin Drainer
  BY Constants DEF Actor
<1>t. h \in Handler /\ h \in HandlerFields /\ HandlerOK(q)
  BY <1>0 DEF TypeOK, Handler, Held, Handlers
<1>c. \A c \in h.clean : real'[c.session].sess = "failed"
  <2> TAKE c \in h.clean
  <2>1. c.session \in Real
    BY <1>t DEF HandlerFields, Cleanup
  <2>2. real[c.session].sess = "failed"
    BY <1>t DEF HandlerOK
  <2> QED
    BY <2>1, <2>2, SessionsStay DEF Settled
<1>d. Do(q, Done) => HandlerOK(q)' /\ OnlyActs(q)
  BY <1>0, DoEffect, DoneOK
<1>1. CASE Created(q) \/ Enabled(q)
  <2>1. Do(q, Done) \/ \E i, t : ThenDrainIfDraining(q, i, t)
    BY <1>1 DEF Created, Enabled
  <2> QED
    BY <1>d, <2>1, ThenDrainHandler
<1>2. CASE PreClosed(q)
  <2>1. CASE Do(q, Done)
    BY <1>d, <2>1
  <2>2. CASE ~Do(q, Done)
    <3> DEFINE x == [h EXCEPT !.pc = "enableStore"]
    <3>1. /\ h.pc = "preClose" /\ Do(q, x) /\ rt' = [rt EXCEPT ![o].session = 0]
          /\ UNCHANGED intents /\ Settled(h.sess)
      BY <1>2, <2>2 DEF PreClosed, At, Later
    <3>2. act'[q] = x /\ OnlyActs(q)
      BY <1>0, <3>1, DoEffect
    <3>3. /\ x.pc = "enableStore" /\ x.obj = o /\ x.name = n /\ x.tracked = h.tracked
          /\ x.inst = h.inst /\ x.clean = h.clean
      BY <1>t DEF HandlerFields
    <3>4. o \in Obj /\ o # NoObj
      BY <1>t, <3>1, Objects DEF Handler, OnObject
    <3>5. rt[o] \in RuntimeIntent
      BY <3>4 DEF TypeOK
    <3>6. /\ rt'[o].used = rt[o].used /\ rt'[o].inst = rt[o].inst
          /\ rt'[o].enabled = rt[o].enabled /\ rt'[o].session = 0
      BY <3>1, <3>4, <3>5 DEF TypeOK, RuntimeIntent
    <3>7. /\ rt[o].used /\ NameOf(o) = n /\ intents[n] \in {o[2], 0}
          /\ h.tracked /\ h.inst = rt[o].inst /\ ~rt[o].enabled
      BY <1>t, <3>1, <3>4 DEF HandlerOK, Enabling
    <3> HIDE DEF x
    <3> QED
      BY <1>0, <1>c, <3>1, <3>2, <3>3, <3>4, <3>6, <3>7
      DEF HandlerOK, Role, Closing, Enabling, Removing, ByDrainer, AwaitsSession
  <2> QED
    BY <2>1, <2>2
<1>3. CASE ReClosed(q) \/ DisableClosed(q) \/ CleanupClosed(q) \/ RemoveClosed(q)
  BY <1>d, <1>3 DEF ReClosed, DisableClosed, CleanupClosed, RemoveClosed
<1>4. CASE Disabled(q)
  <2>1. CASE Do(q, Done)
    BY <1>d, <2>1
  <2>2. CASE ~Do(q, Done)
    <3>1. PICK k, w : Do(q, [h EXCEPT !.pc = "disableWait", !.obj = k, !.wait = w])
      BY <1>4, <2>2 DEF Disabled
    <3> DEFINE x == [h EXCEPT !.pc = "disableWait", !.obj = k, !.wait = w]
    <3>2. act'[q] = x /\ OnlyActs(q)
      BY <1>0, <3>1, DoEffect
    <3>3. x.pc = "disableWait" /\ x.clean = h.clean
      BY <1>t DEF HandlerFields
    <3> HIDE DEF x
    <3> QED
      BY <1>0, <1>c, <3>2, <3>3, PlainOK DEF AwaitsSession
  <2> QED
    BY <2>1, <2>2
<1>5. CASE DisableWaited(q)
  <2>1. /\ OnlyActs(q)
        /\ \/ act'[q] = Done
           \/ /\ act'[q].pc = "disableClose" /\ act'[q].clean = h.clean
              /\ real'[act'[q].sess].sess \in {"closing", "closed", "failed"}
    BY <1>5, CloseAfterHandler DEF DisableWaited
  <2> QED
    BY <1>0, <1>c, <2>1, DoneOK, PlainOK DEF Ended
<1>6. CASE RemoveWaited(q)
  <2>1. /\ OnlyActs(q)
        /\ \/ act'[q] = Done
           \/ /\ act'[q].pc = "removeClose" /\ act'[q].sess = rt[o].session
              /\ act'[q].obj = o /\ act'[q].name = n /\ act'[q].clean = h.clean
              /\ real'[act'[q].sess].sess \in {"closing", "closed", "failed"}
    BY <1>6, CloseAfterHandler DEF RemoveWaited
  <2>2. UNCHANGED <<intents, rt>> /\ h.pc = "removeWait"
    BY <1>6 DEF RemoveWaited, At
  <2>3. ~Registered(o) /\ rt[o].used /\ NameOf(o) = n
    BY <1>t, <2>2 DEF HandlerOK, Removing
  <2>4. CASE act'[q].pc = "removeClose"
    BY <1>0, <1>c, <2>1, <2>2, <2>3, <2>4
    DEF HandlerOK, Role, Closing, Enabling, Removing, ByDrainer, AwaitsSession, Ended, Registered,
        Done, Frame
  <2> QED
    BY <1>0, <2>1, <2>4, DoneOK
<1>7. CASE Removed(q)
  <2>1. CASE Do(q, Done)
    BY <1>d, <2>1
  <2>2. CASE ~Do(q, Done)
    <3>0. n \in Name
      BY <1>t, <1>7 DEF Removed, At, Handler, HandlerFields, OnName
    <3>1. PICK p : /\ p = Current(n)
                   /\ Do(q, [h EXCEPT !.pc = "removeWait", !.obj = p,
                                      !.wait = Only(rt[p].realization)])
                   /\ intents[n] # 0 /\ intents' = [intents EXCEPT ![n] = 0]
                   /\ rt' = [rt EXCEPT ![p].gen = @ + 1]
      BY <1>7, <2>2 DEF Removed
    <3> DEFINE x == [h EXCEPT !.pc = "removeWait", !.obj = p, !.wait = Only(rt[p].realization)]
    <3>2. act'[q] = x /\ OnlyActs(q)
      BY <1>0, <3>1, DoEffect
    <3>3. /\ x.pc = "removeWait" /\ x.clean = h.clean /\ x.obj = p /\ x.name = n
          /\ x.wait = Only(rt[p].realization)
      BY <1>t DEF HandlerFields
    <3>4. p \in Obj /\ NameOf(p) = n /\ p[2] # 0 /\ rt[p].used
      BY <3>0, <3>1, Objs DEF Base, RegisteredIsUsed, NameOf
    <3>5. rt'[p].used /\ rt'[p].session = rt[p].session
      BY <3>1, <3>4 DEF TypeOK, RuntimeIntent
    <3>6. intents'[n] # p[2]
      BY <3>0, <3>1, <3>4 DEF TypeOK
    <3>7. x.wait # {} => rt[p].session = 0
      BY <3>3, <3>4 DEF Only, Held, SessionsOf
    <3> HIDE DEF x
    <3> QED
      BY <1>0, <1>c, <3>2, <3>3, <3>4, <3>5, <3>6, <3>7
      DEF HandlerOK, Role, Closing, Enabling, Removing, ByDrainer, AwaitsSession, Registered
  <2> QED
    BY <2>1, <2>2
<1> QED
  BY <1>1, <1>2, <1>3, <1>4, <1>5, <1>6, <1>7 DEF Continue

LEMMA DrainHandlers ==
  ASSUME TypeOK, TypeOK', Base, Held, Kinds, NEW a \in Actor, Drain(a)
  PROVE  HandlerOK(a)' /\ OnlyActs(a)
<1> DEFINE h == act[a]
<1>t. h \in Handler /\ h \in HandlerFields /\ HandlerOK(a)
  BY DEF TypeOK, Handler, Held, Handlers
<1>e. ASSUME NEW S, \A c \in S : c.session \in Real /\ real[c.session].sess = "failed"
      PROVE  \A c \in S : real'[c.session].sess = "failed"
  BY <1>e, SessionsStay DEF Settled
<1>c. \A c \in h.clean : c.session \in Real /\ real[c.session].sess = "failed"
  BY <1>t DEF HandlerOK, HandlerFields, Cleanup
<1>l. ASSUME NEW pc \in {"drainLoop", "cleanLoop"}, Later(a, pc)
      PROVE  HandlerOK(a)' /\ OnlyActs(a)
  <2> DEFINE x == [h EXCEPT !.pc = pc]
  <2>1. act'[a] = x /\ OnlyActs(a)
    BY <1>l, DoEffect DEF Later
  <2>2. x.pc = pc /\ x.clean = h.clean
    BY <1>t DEF HandlerFields
  <2> HIDE DEF x
  <2> QED
    BY <1>c, <1>e, <2>1, <2>2, PlainOK DEF Waits, AwaitsSession
<1>v. Verdict(a) => HandlerOK(a)' /\ OnlyActs(a)
  <2> SUFFICES ASSUME Verdict(a)
               PROVE  HandlerOK(a)' /\ OnlyActs(a)
    OBVIOUS
  <2>1. CASE a \in Request
    BY <2>1, DoEffect, DoneOK DEF Verdict
  <2>2. CASE a \notin Request
    <3>1. PICK pc \in {"drained", "refused"} : Do(a, [Frame(pc) EXCEPT !.inst = h.inst])
      BY <2>2 DEF Verdict
    <3> DEFINE x == [Frame(pc) EXCEPT !.inst = h.inst]
    <3>2. act'[a] = x /\ OnlyActs(a)
      BY <3>1, DoEffect
    <3>3. x.pc = pc /\ x.clean = {}
      BY DEF Frame
    <3> HIDE DEF x
    <3> QED
      BY <2>2, <3>2, <3>3, PlainOK DEF ByDrainer, AwaitsSession
  <2> QED
    BY <2>1, <2>2
<1>1. CASE DrainStored(a)
  <2>1. PICK T, w : Do(a, [h EXCEPT !.pc = "drainWait", !.todo = T, !.wait = w])
    BY <1>1 DEF DrainStored
  <2> DEFINE x == [h EXCEPT !.pc = "drainWait", !.todo = T, !.wait = w]
  <2>2. act'[a] = x /\ OnlyActs(a)
    BY <2>1, DoEffect
  <2>3. x.pc = "drainWait" /\ x.clean = h.clean
    BY <1>t DEF HandlerFields
  <2> HIDE DEF x
  <2> QED
    BY <1>c, <1>e, <2>2, <2>3, PlainOK DEF Waits, AwaitsSession
<1>2. CASE DrainWaited(a)
  <2> DEFINE x == [h EXCEPT !.pc = "drainLoop", !.wait = {}]
  <2>2. act'[a] = x /\ OnlyActs(a)
    BY <1>2, DoEffect DEF DrainWaited
  <2>3. x.pc = "drainLoop" /\ x.clean = h.clean
    BY <1>t DEF HandlerFields
  <2> HIDE DEF x
  <2> QED
    BY <1>c, <1>e, <2>2, <2>3, PlainOK DEF Waits, AwaitsSession
<1>3. CASE DrainNext(a)
  <2>1. PICK o \in h.todo :
          LET rest == [h EXCEPT !.todo = @ \ {o}] IN
          \/ Do(a, rest)
          \/ /\ rt[o].session # 0
             /\ Do(a, [rest EXCEPT !.pc = "drainClose", !.obj = o, !.sess = rt[o].session])
             /\ real' = CloseSession(real, rt[o].session)
    BY <1>3 DEF DrainNext
  <2>0. h.pc = "drainLoop"
    BY <1>3 DEF DrainNext, At
  <2> DEFINE rest == [h EXCEPT !.todo = @ \ {o}]
             x == [rest EXCEPT !.pc = "drainClose", !.obj = o, !.sess = rt[o].session]
  <2>2. rest.pc = "drainLoop" /\ rest.clean = h.clean
    BY <1>t, <2>0 DEF HandlerFields
  <2>3. x.pc = "drainClose" /\ x.sess = rt[o].session /\ x.clean = h.clean
    BY <1>t DEF HandlerFields
  <2>4. Do(a, rest) => act'[a] = rest /\ OnlyActs(a)
    BY DoEffect
  <2>5. Do(a, x) => act'[a] = x /\ OnlyActs(a)
    BY DoEffect
  <2>6. \/ Do(a, rest)
        \/ rt[o].session # 0 /\ Do(a, x) /\ real' = CloseSession(real, rt[o].session)
    BY <2>1
  <2> HIDE DEF x, rest
  <2>7. CASE Do(a, rest)
    BY <1>c, <1>e, <2>2, <2>4, <2>7, PlainOK DEF Waits, AwaitsSession
  <2>8. CASE rt[o].session # 0 /\ Do(a, x) /\ real' = CloseSession(real, rt[o].session)
    <3>1. o \in Obj
      BY <1>t DEF HandlerFields
    <3>2. rt[o].session \in Real /\ real[rt[o].session].sess # "none"
      BY <2>8, <3>1 DEF Held, SessionsOf, TypeOK, RuntimeIntent
    <3>3. real'[rt[o].session].sess \in {"closing", "closed", "failed"}
      BY <2>8, <3>2, CloseEnds
    <3> QED
      BY <1>c, <1>e, <2>3, <2>5, <2>8, <3>3, PlainOK DEF Joins, Ended
  <2> QED
    BY <2>6, <2>7, <2>8
<1>4. CASE DrainClosed(a) \/ CleanClosed(a)
  BY <1>4, <1>l DEF DrainClosed, CleanClosed
<1>5. CASE SessionsVisited(a)
  <2>1. PICK S \in SUBSET cleanup : Do(a, [h EXCEPT !.pc = "cleanLoop", !.obj = NoObj, !.sess = 0, !.clean = S])
    BY <1>5 DEF SessionsVisited
  <2> DEFINE x == [h EXCEPT !.pc = "cleanLoop", !.obj = NoObj, !.sess = 0, !.clean = S]
  <2>2. act'[a] = x /\ OnlyActs(a)
    BY <2>1, DoEffect
  <2>3. x.pc = "cleanLoop" /\ x.clean = S
    BY <1>t DEF HandlerFields
  <2>4. \A c \in S : c.session \in Real /\ real[c.session].sess = "failed"
    BY DEF Held, CleanupFailed, TypeOK, Cleanup
  <2> HIDE DEF x
  <2> QED
    BY <1>e, <2>2, <2>3, <2>4, PlainOK DEF Waits, AwaitsSession
<1>6. CASE CleanNext(a)
  <2>1. PICK c \in h.clean :
          /\ Do(a, [h EXCEPT !.pc = "cleanClose", !.sess = c.session, !.clean = @ \ {c}])
          /\ real' = CloseSession(real, c.session)
    BY <1>6 DEF CleanNext
  <2> DEFINE x == [h EXCEPT !.pc = "cleanClose", !.sess = c.session, !.clean = @ \ {c}]
  <2>2. act'[a] = x /\ OnlyActs(a)
    BY <2>1, DoEffect
  <2>3. x.pc = "cleanClose" /\ x.sess = c.session /\ x.clean \subseteq h.clean
    BY <1>t DEF HandlerFields
  <2>4. real'[c.session].sess \in {"closing", "closed", "failed"}
    BY <1>c, <2>1, CloseEnds
  <2> HIDE DEF x
  <2> QED
    BY <1>c, <1>e, <2>2, <2>3, <2>4, PlainOK DEF Joins, Ended
<1>7. CASE DrainVerdict(a)
  BY <1>7, <1>v DEF DrainVerdict
<1> QED
  BY <1>1, <1>2, <1>3, <1>4, <1>5, <1>6, <1>7 DEF Drain

LEMMA DrainerHandlers ==
  ASSUME TypeOK, TypeOK', Base, Held, Kinds, NEW d \in Drainer,
         \/ \E i \in Instance : BeginDrain(d, i)
         \/ BeginWaited(d) \/ CloseForDrain(d) \/ ReleaseDrain(d)
  PROVE  HandlerOK(d)' /\ OnlyActs(d)
<1> DEFINE h == act[d]
<1>0. d \in Actor /\ d \notin Request
  BY Constants DEF Actor
<1>t. h \in Handler /\ h \in HandlerFields /\ HandlerOK(d)
  BY <1>0 DEF TypeOK, Handler, Held, Handlers
<1>c. \A c \in h.clean : real'[c.session].sess = "failed"
  <2> TAKE c \in h.clean
  <2>1. c.session \in Real /\ real[c.session].sess = "failed"
    BY <1>t DEF HandlerOK, HandlerFields, Cleanup
  <2> QED
    BY <2>1, SessionsStay DEF Settled
<1>1. ASSUME NEW i \in Instance, BeginDrain(d, i)
      PROVE  HandlerOK(d)' /\ OnlyActs(d)
  <2>1. PICK pc \in {"granted", "beginWait"} :
          Do(d, [Frame(pc) EXCEPT !.inst = i, !.wait = Tracked(i)])
    BY <1>1 DEF BeginDrain
  <2> DEFINE x == [Frame(pc) EXCEPT !.inst = i, !.wait = Tracked(i)]
  <2>2. act'[d] = x /\ OnlyActs(d)
    BY <1>0, <2>1, DoEffect
  <2>3. x.pc = pc /\ x.clean = {}
    BY DEF Frame
  <2> HIDE DEF x
  <2> QED
    BY <1>0, <2>2, <2>3, PlainOK DEF ByDrainer, AwaitsSession
<1>2. CASE BeginWaited(d)
  <2> DEFINE w == Tracked(h.inst)
             x == [h EXCEPT !.pc = IF w = {} THEN "granted" ELSE "beginWait", !.wait = w]
  <2>2. act'[d] = x /\ OnlyActs(d)
    BY <1>0, <1>2, DoEffect DEF BeginWaited
  <2>3. x.pc \in {"granted", "beginWait"} /\ x.clean = h.clean
    BY <1>t DEF HandlerFields
  <2> HIDE DEF x
  <2> QED
    BY <1>0, <1>c, <2>2, <2>3, PlainOK DEF ByDrainer, AwaitsSession
<1>3. CASE CloseForDrain(d)
  <2> DEFINE x == [h EXCEPT !.pc = "drainStore"]
  <2>2. act'[d] = x /\ OnlyActs(d)
    BY <1>0, <1>3, DoEffect DEF CloseForDrain, Later
  <2>3. x.pc = "drainStore" /\ x.clean = h.clean
    BY <1>t DEF HandlerFields
  <2> HIDE DEF x
  <2> QED
    BY <1>0, <1>c, <2>2, <2>3, PlainOK DEF Waits, AwaitsSession
<1>4. CASE ReleaseDrain(d)
  BY <1>0, <1>4, DoEffect, DoneOK DEF ReleaseDrain
<1> QED
  BY <1>1, <1>2, <1>3, <1>4

\* Who moves in a step.
Moved(a) == \/ a \in Request /\ (Start(a) \/ Continue(a))
            \/ a \in Drainer /\ \/ \E i \in Instance : BeginDrain(a, i)
                                \/ BeginWaited(a) \/ CloseForDrain(a) \/ ReleaseDrain(a) \/ Drain(a)

LEMMA WhoMoves ==
  ASSUME ~StoreMayFail, Next
  PROVE  \/ act' = act
         \/ \E a \in Actor : Moved(a)
<1>1. ASSUME NEW n \in Name, Restore(n)
      PROVE  act' = act
  BY <1>1 DEF Restore
<1>2. ASSUME NEW r \in Real, Session(r) \/ TransportDies(r)
      PROVE  act' = act
  BY <1>2 DEF Session, Answer, OpenRejects, OpenResolves, LateClosed, ClosureNoticed,
     CloseSettles, TransportDies
<1>3. CASE Restored \/ Stop \/ Shutdown
  BY <1>3 DEF Restored, Stop, Shutdown, CloseService, CloseSessions, Closed
<1>4. ASSUME NEW q \in Request, Start(q) \/ Continue(q)
      PROVE  \E a \in Actor : Moved(a)
  BY <1>4 DEF Moved, Actor
<1>5. ASSUME NEW d \in Drainer, \/ \E i \in Instance : BeginDrain(d, i)
                                \/ BeginWaited(d) \/ CloseForDrain(d) \/ ReleaseDrain(d) \/ Drain(d)
      PROVE  \E a \in Actor : Moved(a)
  BY <1>5 DEF Moved, Actor
<1>6. \A a : ~StoreThrows(a) /\ ~DrainStoreThrows(a)
  BY DEF StoreThrows, DrainStoreThrows
<1> QED
  BY <1>1, <1>2, <1>3, <1>4, <1>5, <1>6 DEF Next

LEMMA MovedOnly ==
  ASSUME TypeOK, TypeOK', Base, Held, Kinds, NEW a \in Actor, Moved(a)
  PROVE  HandlerOK(a)' /\ OnlyActs(a)
<1>1. CASE a \in Request /\ (Start(a) \/ Continue(a))
  BY <1>1, StartHandlers, ContinueHandlers, DrainHandlers
<1>2. CASE a \in Drainer /\ \/ \E i \in Instance : BeginDrain(a, i)
                            \/ BeginWaited(a) \/ CloseForDrain(a) \/ ReleaseDrain(a) \/ Drain(a)
  BY <1>2, DrainerHandlers, DrainHandlers
<1> QED
  BY <1>1, <1>2 DEF Moved

LEMMA HandlersKept ==
  ASSUME TypeOK, TypeOK', Base, Held, Kinds, ~StoreMayFail, Next
  PROVE  Handlers'
<1>1. CASE act' = act
  BY <1>1, HandlersStay DEF Handlers
<1>2. ASSUME NEW a \in Actor, Moved(a)
      PROVE  Handlers'
  <2>1. HandlerOK(a)' /\ OnlyActs(a)
    BY <1>2, MovedOnly
  <2>2. \A b \in Actor : b # a => HandlerOK(b)'
    BY <2>1, HandlersStay DEF OnlyActs
  <2> QED
    BY <2>1, <2>2 DEF Handlers
<1> QED
  BY <1>1, <1>2, WhoMoves

-----------------------------------------------------------------------------
(***************************************************************************)
(* The sessions of the objects, and the cleanups                           *)
(***************************************************************************)
LEMMA SessionsOfKept ==
  ASSUME TypeOK, TypeOK', Base, Held, Kinds
  PROVE  SessionsOf'
<1>0. \A r \in Real : r # 0
  BY Constants
<1>r. \A x \in Obj : rt[x].realization \in Real \cup {0} /\ rt[x].session \in Real \cup {0}
  BY DEF TypeOK, RuntimeIntent
<1>s. SessionsOf
  BY DEF Held
<1>1. \A x \in Obj : rt'[x].session # 0 =>
        /\ real'[rt'[x].session].obj = x /\ real'[rt'[x].session].pc = "done"
        /\ real'[rt'[x].session].sess # "none"
  <2> TAKE x \in Obj
  <2>1. CASE rt'[x].session = rt[x].session
    BY <1>r, <1>s, <2>1, SessionsStay DEF SessionsOf, InUse
  <2>2. ASSUME NEW r \in Real, Resolved(r, x)
        PROVE  /\ rt'[x].session = r /\ real'[r].obj = x /\ real'[r].pc = "done"
               /\ real'[r].sess # "none"
    BY <2>2 DEF Resolved, Ends
  <2> QED
    BY <2>1, <2>2, SessionSteps
\* What the other three conjuncts say of object x.
<1> DEFINE P(x) == /\ ~rt[x].used => rt[x].session = 0 /\ rt[x].realization = 0
                   /\ rt[x].enabled /\ rt[x].status # "live" => rt[x].session = 0
                   /\ rt[x].realization # 0 =>
                        /\ real[rt[x].realization].obj = x /\ Live(rt[x].realization)
                        /\ rt[x].session = 0
           Q(x) == /\ ~rt'[x].used => rt'[x].session = 0 /\ rt'[x].realization = 0
                   /\ rt'[x].enabled /\ rt'[x].status # "live" => rt'[x].session = 0
                   /\ rt'[x].realization # 0 =>
                        /\ real'[rt'[x].realization].obj = x
                        /\ real'[rt'[x].realization].pc \in {"opening", "closingLate"}
                        /\ rt'[x].session = 0
<1>2. \A x \in Obj : P(x)
  BY <1>s DEF SessionsOf
<1>3. ASSUME NEW x \in Obj, rt'[x].used = rt[x].used, rt'[x].session \in {rt[x].session, 0},
             rt'[x].enabled = rt[x].enabled,
             rt'[x].status = rt[x].status \/ rt'[x].session = 0,
             rt'[x].realization \in {rt[x].realization, 0},
             rt'[x].realization # 0 =>
               SameReal(rt'[x].realization) \/ real'[rt'[x].realization] = real[rt'[x].realization]
      PROVE  Q(x)
  BY <1>2, <1>3 DEF SameReal, Live
<1>4. ASSUME NEW o \in Obj, NEW r \in Real, Ends(r, o)
      PROVE  \A x \in Obj : x # o => Q(x)
  <2> TAKE x \in Obj
  <2> HAVE x # o
  <2>1. rt'[x] = rt[x]
    BY <1>4 DEF Ends
  <2>2. rt[x].realization # 0 => real'[rt[x].realization] = real[rt[x].realization]
    BY <1>2, <1>4, <1>r DEF Ends
  <2> QED
    BY <1>3, <2>1, <2>2
<1>5. ASSUME NEW o \in Obj, NEW r \in Real, Ends(r, o), rt'[o].realization = Unlink(o, r),
             rt'[o].session = rt[o].session, rt'[o].status = rt[o].status \/ rt[o].session = 0
      PROVE  Q(o)
  <2>1. rt'[o].realization # 0 => /\ rt'[o].realization = rt[o].realization
                                  /\ rt'[o].realization # r
    BY <1>0, <1>5 DEF Unlink
  <2>2. rt'[o].realization # 0 => real'[rt'[o].realization] = real[rt'[o].realization]
    BY <1>5, <1>r, <2>1 DEF Ends
  <2> QED
    BY <1>3, <1>5, <2>1, <2>2 DEF Ends
<1>6. ASSUME NEW T, Supersedes(T),
             \A x \in T : /\ rt'[x].realization \in {rt[x].realization, 0}
                          /\ ~rt'[x].enabled \/ rt'[x].session = 0
                             \/ (rt'[x].enabled = rt[x].enabled /\ rt'[x].status = rt[x].status)
      PROVE  \A x \in Obj : Q(x)
  <2> TAKE x \in Obj
  <2>1. \A r \in Real : SameReal(r)
    BY <1>6 DEF Supersedes, Aborts
  <2>2. CASE x \notin T
    <3>1. rt'[x] = rt[x]
      BY <1>6, <2>2 DEF Supersedes
    <3> QED
      BY <1>3, <1>r, <2>1, <3>1
  <2>3. CASE x \in T
    <3>1. /\ rt'[x].used = rt[x].used /\ rt'[x].session = rt[x].session
          /\ rt'[x].realization \in {rt[x].realization, 0}
      BY <1>6, <2>3 DEF Supersedes
    <3>2. rt'[x].realization # 0 => SameReal(rt[x].realization)
      BY <1>r, <2>1, <3>1
    <3> QED
      BY <1>2, <1>6, <2>3, <3>1, <3>2 DEF SameReal, Live
  <2> QED
    BY <2>2, <2>3
<1>7. ASSUME SessionsMove
      PROVE  \A x \in Obj : Q(x)
  <2>1. \A x \in Obj : rt'[x] = rt[x]
    BY <1>7 DEF SessionsMove
  <2>2. \A r \in Real : SameReal(r)
    BY <1>7 DEF SessionsMove
  <2>3. \A x \in Obj : Q(x)
    <3> TAKE x \in Obj
    <3>1. rt'[x].realization # 0 => SameReal(rt'[x].realization)
      BY <1>r, <2>1, <2>2
    <3> HIDE DEF Q
    <3> QED
      BY <1>3, <2>1, <3>1
  <2> QED
    BY <2>3
<1>8. ASSUME NEW o \in Obj, Forgets(o)
      PROVE  \A x \in Obj : Q(x)
  <2>1. /\ \A x \in Obj : x # o => rt'[x] = rt[x]
        /\ rt'[o] = [rt[o] EXCEPT !.session = 0]
    BY <1>8 DEF Forgets, TypeOK
  <2>2. /\ rt'[o].used = rt[o].used /\ rt'[o].session = 0 /\ rt'[o].enabled = rt[o].enabled
        /\ rt'[o].status = rt[o].status /\ rt'[o].realization = rt[o].realization
    BY <2>1 DEF TypeOK, RuntimeIntent
  <2>3. \A r \in Real : real'[r] = real[r]
    BY <1>8 DEF Forgets
  <2> TAKE x \in Obj
  <2>4. /\ rt'[x].used = rt[x].used /\ rt'[x].session \in {rt[x].session, 0}
        /\ rt'[x].enabled = rt[x].enabled /\ rt'[x].status = rt[x].status
        /\ rt'[x].realization = rt[x].realization
    BY <2>1, <2>2
  <2>5. rt'[x].realization # 0 => real'[rt'[x].realization] = real[rt'[x].realization]
    BY <1>r, <2>3, <2>4
  <2> HIDE DEF Q
  <2> QED
    BY <1>3, <2>4, <2>5
<1>9. ASSUME NEW o \in Obj, Registers(o)
      PROVE  \A x \in Obj : Q(x)
  <2>1. \A x \in Obj : x # o => rt'[x] = rt[x]
    BY <1>9 DEF Registers
  <2>2. Q(o)
    BY <1>9 DEF Registers
  <2>3. \A r \in Real : real'[r] = real[r]
    BY <1>9 DEF Registers
  <2>4. ASSUME NEW x \in Obj, x # o
        PROVE  Q(x)
    <3>1. rt'[x] = rt[x]
      BY <2>1, <2>4
    <3>2. rt'[x].realization # 0 => real'[rt'[x].realization] = real[rt'[x].realization]
      BY <1>r, <2>3, <3>1
    <3> HIDE DEF Q
    <3> QED
      BY <1>3, <3>1, <3>2
  <2> HIDE DEF Q
  <2> QED
    BY <2>2, <2>4
<1>10. ASSUME NEW o \in Obj, NEW r \in Real, Starts(o, r), StartsClean(o)
       PROVE  \A x \in Obj : Q(x)
  <2>1. Q(o)
    BY <1>10 DEF Starts, StartsClean, Live
  <2>2. ASSUME NEW x \in Obj, x # o
        PROVE  Q(x)
    <3>1. rt'[x] = rt[x]
      BY <1>10, <2>2 DEF Starts
    <3>2. rt[x].realization # 0 => rt[x].realization # r /\ SameReal(rt[x].realization)
      BY <1>10, <1>2, <1>r DEF Starts, Live
    <3> QED
      BY <1>3, <3>1, <3>2
  <2> QED
    BY <2>1, <2>2
<1>11. ASSUME NEW T, Disables(T)
       PROVE  \A x \in Obj : Q(x)
  BY <1>6, <1>11 DEF Disables
<1>12. ASSUME NEW o \in Obj, Removes(o)
       PROVE  \A x \in Obj : Q(x)
  BY <1>6, <1>12 DEF Removes
<1>13. ASSUME Closes
       PROVE  \A x \in Obj : Q(x)
  <2>1. \A o \in Obj : /\ rt'[o].enabled = rt[o].enabled /\ rt'[o].status = rt[o].status
                       /\ rt'[o].realization = rt[o].realization
    BY <1>13 DEF Closes
  <2> DEFINE T == {o \in Obj : Registered(o)}
  <2>2. Supersedes(T) /\ T \subseteq Obj
    BY <1>13 DEF Closes
  <2> HIDE DEF Q, T
  <2> QED
    BY <1>6, <2>1, <2>2
<1>14. ASSUME NEW o \in Obj, EnablesLate(o), StartsClean(o)
       PROVE  \A x \in Obj : Q(x)
  <2>1. rt[o].session = 0
    BY <1>2, <1>14 DEF StartsClean
  <2>2. rt'[o].session = 0
    BY <1>14, <2>1 DEF EnablesLate, Supersedes
  <2>3. Supersedes({o}) /\ rt'[o].realization = 0
    BY <1>14 DEF EnablesLate
  <2> QED
    BY <1>6, <2>2, <2>3
<1>15. ASSUME NEW r \in Real, EndKinds(r)
       PROVE  \A x \in Obj : Q(x)
  <2>1. PICK o \in Obj : \/ Rejected(r, o) \/ Resolved(r, o) \/ ResolvedLate(r, o)
                         \/ EndedLate(r, o) \/ Noticed(r, o)
    BY <1>15 DEF EndKinds
  <2>2. Ends(r, o)
    BY <2>1 DEF Rejected, Resolved, ResolvedLate, EndedLate, Noticed
  <2>3. Q(o)
    <3>1. CASE Rejected(r, o)
      <4>1. StillWanted(r) => rt[o].enabled /\ rt[o].status = "starting"
        BY <2>2, <3>1 DEF Rejected, Ends, StillWanted, Base, CurrentIsLinked
      <4>2. StillWanted(r) => rt[o].session = 0
        BY <1>2, <4>1
      <4> QED
        BY <1>5, <2>2, <3>1, <4>2 DEF Rejected
    <3>2. CASE Resolved(r, o)
      <4>1. rt[o].realization = r
        BY <2>2, <3>2 DEF Resolved, Ends, StillWanted, Base, CurrentIsLinked
      <4>2. rt'[o].realization = 0 /\ rt'[o].status = "live" /\ rt'[o].used = rt[o].used
        BY <2>2, <3>2, <4>1 DEF Resolved, Unlink, Ends
      <4>3. rt[o].used
        BY <2>2, <3>2 DEF Resolved, Ends, Base, Shape, InUse
      <4> QED
        BY <4>2, <4>3
    <3>3. CASE ResolvedLate(r, o)
      <4>1. rt' = rt /\ real'[r].pc = "closingLate" /\ real'[r].obj = real[r].obj
        BY <2>2, <3>3 DEF ResolvedLate, Ends
      <4>2. \A s \in Real : Live(s) => /\ real'[s].pc \in {"opening", "closingLate"}
                                       /\ real'[s].obj = real[s].obj
        BY <2>2, <4>1 DEF Ends, Live
      <4> QED
        BY <1>2, <1>r, <4>1, <4>2
    <3>4. CASE EndedLate(r, o)
      BY <1>5, <2>2, <3>4 DEF EndedLate
    <3>5. CASE Noticed(r, o)
      <4>1. rt[o].realization # 0 => rt[o].realization # r
        BY <1>2, <3>5 DEF Noticed, Base, Shape, Live
      <4>2. rt[o].realization # 0 => real'[rt[o].realization] = real[rt[o].realization]
        BY <1>r, <2>2, <4>1 DEF Ends
      <4> QED
        BY <1>3, <2>2, <3>5, <4>2 DEF Noticed, Ends
    <3> QED
      BY <2>1, <3>1, <3>2, <3>3, <3>4, <3>5
  <2> QED
    BY <1>4, <2>2, <2>3
<1>16. \A r \in Real : Answer(r) \/ LateClosed(r) \/ ClosureNoticed(r) => EndKinds(r)
  BY EndsEffect DEF Base
<1>17. \A x \in Obj : Q(x)
  <2> DEFINE R == \A x \in Obj : Q(x)
  <2>1. ASSUME NEW o \in Obj, \/ ForgetsEnded(o) \/ Disables({o}) \/ Removes(o)
                              \/ Registers(o) /\ (Held => Alone(o))
                              \/ EnablesLate(o) /\ (Held => StartsClean(o))
                              \/ \E r \in Real : Starts(o, r) /\ (Held => StartsClean(o))
        PROVE  R
    <3> HIDE DEF Q
    <3> QED
      BY <1>8, <1>9, <1>10, <1>11, <1>12, <1>14, <2>1 DEF ForgetsEnded
  <2>2. ASSUME NEW i \in Instance, Disables(Targets(i))
        PROVE  R
    BY <1>11, <2>2
  <2>3. ASSUME NEW r \in Real, Answer(r) \/ LateClosed(r) \/ ClosureNoticed(r)
        PROVE  R
    BY <1>15, <1>16, <2>3
  <2>4. R
    <3>1. (SessionsMove => R) /\ (Closes => R)
      BY <1>7, <1>13
    <3> HIDE DEF R
    <3> QED
      BY <2>1, <2>2, <2>3, <3>1 DEF Kinds
  <2> QED
    BY <2>4
<1> QED
  BY <1>1, <1>17 DEF SessionsOf, Live

\* Only these end a realization, and only a late one rejects.
LEMMA Ending ==
  ASSUME TypeOK, Base, Kinds, NEW r \in Real
  PROVE  /\ (real[r].pc # "done" /\ real'[r].pc = "done") =>
              \E o \in Obj : Rejected(r, o) \/ Resolved(r, o) \/ EndedLate(r, o)
         /\ (~real[r].rejected /\ real'[r].rejected) => LateClosed(r)
<1> DEFINE P == /\ (real[r].pc # "done" /\ real'[r].pc = "done") =>
                     \E o \in Obj : Rejected(r, o) \/ Resolved(r, o) \/ EndedLate(r, o)
                /\ (~real[r].rejected /\ real'[r].rejected) => LateClosed(r)
<1>1. CASE SameReal(r) \/ real'[r] = real[r]
  BY <1>1 DEF SameReal
<1>2. CASE SessionsMove \/ \E T : Supersedes(T)
  BY <1>1, <1>2 DEF SessionsMove, Supersedes, Aborts
<1>3. ASSUME NEW o \in Obj, Forgets(o) \/ Registers(o)
      PROVE  P
  BY <1>1, <1>3 DEF Forgets, Registers
<1>4. ASSUME NEW o \in Obj, NEW s \in Real, Starts(o, s)
      PROVE  P
  BY <1>1, <1>4 DEF Starts
<1>5. ASSUME NEW s \in Real, Answer(s) \/ LateClosed(s) \/ ClosureNoticed(s)
      PROVE  P
  <2>1. PICK o \in Obj : \/ Rejected(s, o) \/ Resolved(s, o) \/ ResolvedLate(s, o)
                         \/ EndedLate(s, o) \/ Noticed(s, o)
    BY <1>5, EndsEffect DEF EndKinds, Base
  <2>2. Ends(s, o)
    BY <2>1 DEF Rejected, Resolved, ResolvedLate, EndedLate, Noticed
  <2>3. CASE s # r
    BY <1>1, <2>2, <2>3 DEF Ends
  <2>4. CASE s = r
    <3>1. /\ Noticed(s, o) => real'[s].pc = real[s].pc
          /\ ResolvedLate(s, o) => real'[s].pc # "done"
      BY DEF Noticed, ResolvedLate
    <3>2. (real[r].pc # "done" /\ real'[r].pc = "done") =>
            \E x \in Obj : Rejected(r, x) \/ Resolved(r, x) \/ EndedLate(r, x)
      BY <2>1, <2>4, <3>1
    <3>3. ~EndedLate(s, o) => real'[s].rejected = real[s].rejected
      BY <2>1 DEF Rejected, Resolved, ResolvedLate, Noticed
    <3>4. EndedLate(s, o) => LateClosed(s)
      <4>1. EndedLate(s, o) => real[s].pc = "closingLate"
        BY DEF EndedLate
      <4>2. Answer(s) => real[s].pc = "opening"
        BY DEF Answer, OpenRejects, OpenResolves
      <4>3. ClosureNoticed(s) => real[s].pc = "done"
        BY DEF ClosureNoticed, Base, Shape
      <4> QED
        BY <1>5, <4>1, <4>2, <4>3
    <3> QED
      BY <2>4, <3>2, <3>3, <3>4
  <2> QED
    BY <2>3, <2>4
<1> QED
  BY <1>2, <1>3, <1>4, <1>5 DEF Kinds, ForgetsEnded, Disables, Removes, Closes, EnablesLate

\* pendingCleanup grows by what could not be closed, and loses only what was closed.
LEMMA CleanupSteps ==
  ASSUME TypeOK, Held, ~StoreMayFail, Next
  PROVE  /\ cleanup \subseteq cleanup'
         /\ \A c \in cleanup' : \/ c \in cleanup
                                \/ c.session \in Real /\ real[c.session].sess = "failed"
<1> DEFINE P == /\ cleanup \subseteq cleanup'
                /\ \A c \in cleanup' : \/ c \in cleanup
                                       \/ c.session \in Real /\ real[c.session].sess = "failed"
<1>0. \A c \in cleanup : real[c.session].sess = "failed"
  BY DEF Held, CleanupFailed
<1>s. ASSUME NEW a \in Actor, act[a].pc \in AwaitsSession
      PROVE  act[a].sess \in Real
  BY <1>s DEF TypeOK, Handler
<1>1. CASE cleanup' = cleanup
  BY <1>1
<1>2. ASSUME NEW r \in Real, LateClosed(r)
      PROVE  P
  <2>1. real[r].sess = "closed" => cleanup' = cleanup
    BY <1>2 DEF LateClosed
  <2>2. real[r].sess # "closed" => real[r].sess = "failed"
    BY <1>2 DEF LateClosed, Settled
  <2> DEFINE o == real[r].obj
             x == [inst |-> rt[o].inst, name |-> NameOf(o), session |-> r, reserve |-> FALSE]
  <2>3. cleanup' \in {cleanup, cleanup \cup {x}}
    BY <1>2 DEF LateClosed
  <2>4. x.session = r
    OBVIOUS
  <2> HIDE DEF x
  <2> QED
    BY <2>1, <2>2, <2>3, <2>4
<1>3. ASSUME NEW q \in Request, CleanupClosed(q)
      PROVE  P
  BY <1>0, <1>3 DEF CleanupClosed
<1>4. ASSUME NEW q \in Request, RemoveClosed(q)
      PROVE  P
  <2>1. act[q].sess \in Real
    BY <1>4, <1>s DEF RemoveClosed, At, AwaitsSession, Actor
  <2>2. real[act[q].sess].sess # "closed" => real[act[q].sess].sess = "failed"
    BY <1>4 DEF RemoveClosed, Settled
  <2>3. PICK x : x.session = act[q].sess
                 /\ cleanup' = IF real[act[q].sess].sess = "closed" THEN cleanup
                               ELSE cleanup \cup {x}
    BY <1>4 DEF RemoveClosed
  <2> QED
    BY <2>1, <2>2, <2>3
<1>5. ASSUME NEW a \in Actor, CleanClosed(a)
      PROVE  P
  BY <1>0, <1>5 DEF CleanClosed
<1>6. ASSUME NEW a, Drain(a), ~CleanClosed(a)
      PROVE  cleanup' = cleanup
  BY <1>6 DEF Drain, DrainStored, DrainWaited, DrainNext, DrainClosed, SessionsVisited, CleanNext,
     DrainVerdict, IntentsUnchanged
<1>7. ASSUME NEW q \in Request, Start(q)
      PROVE  cleanup' = cleanup
  BY <1>7 DEF Start, Create, Enable, Disable, Retry, Remove, IntentsUnchanged
<1>8. ASSUME NEW q \in Request, Continue(q)
      PROVE  P
  <2>1. CASE CleanupClosed(q) \/ RemoveClosed(q)
    BY <1>3, <1>4, <2>1
  <2>2. CASE Drain(q)
    BY <1>1, <1>5, <1>6, <2>2 DEF Actor
  <2>3. CASE \/ Created(q) \/ PreClosed(q) \/ Enabled(q)
             \/ ReClosed(q) \/ Disabled(q) \/ DisableWaited(q) \/ DisableClosed(q)
             \/ Removed(q) \/ RemoveWaited(q)
    BY <1>1, <2>3 DEF Created, PreClosed, Enabled, ReClosed, Disabled, DisableWaited, DisableClosed,
       Removed, RemoveWaited, IntentsUnchanged
  <2> QED
    BY <1>8, <2>1, <2>2, <2>3 DEF Continue
<1>9. ASSUME NEW r \in Real, Session(r) \/ TransportDies(r), ~LateClosed(r)
      PROVE  cleanup' = cleanup
  BY <1>9 DEF Session, TransportDies, Answer, OpenRejects, OpenResolves, ClosureNoticed, CloseSettles
<1>10. ASSUME NEW d \in Drainer, \/ \E i \in Instance : BeginDrain(d, i)
                                 \/ BeginWaited(d) \/ CloseForDrain(d) \/ ReleaseDrain(d)
       PROVE  cleanup' = cleanup
  BY <1>10 DEF BeginDrain, BeginWaited, CloseForDrain, ReleaseDrain, IntentsUnchanged
<1>11. ASSUME \/ \E n \in Name : Restore(n)
              \/ Restored \/ Stop \/ Shutdown
       PROVE  cleanup' = cleanup
  BY <1>11 DEF Restore, Restored, Stop, Shutdown, CloseService, CloseSessions, Closed
<1>12. \A a : ~StoreThrows(a) /\ ~DrainStoreThrows(a)
  BY DEF StoreThrows, DrainStoreThrows
<1>13. ASSUME NEW d \in Drainer, Drain(d)
       PROVE  P
  BY <1>1, <1>5, <1>6, <1>13 DEF Actor
<1> HIDE DEF P
<1>p. P
  <2>1. cleanup' = cleanup => P
    BY <1>1 DEF P
  <2> QED
    BY <2>1, <1>2, <1>7, <1>8, <1>9, <1>10, <1>11, <1>12, <1>13 DEF Next, Session
<1> QED
  BY <1>p DEF P

LEMMA CleanupKept ==
  ASSUME TypeOK, Base, Held, Kinds, ~StoreMayFail, Next
  PROVE  CleanupFailed'
<1> SUFFICES ASSUME NEW c \in cleanup'
             PROVE  real'[c.session].sess = "failed"
  BY DEF CleanupFailed
<1>1. c.session \in Real /\ real[c.session].sess = "failed"
  BY CleanupSteps DEF Held, CleanupFailed, TypeOK, Cleanup
<1> QED
  BY <1>1, SessionsStay DEF Settled

\* Where a handler gets to.
StartPC == {"createStore", "preClose", "enableStore", "disableStore", "removeStore"}

LEMMA DrainGoes ==
  ASSUME TypeOK, NEW a \in Actor, Drain(a)
  PROVE  act'[a].pc \in {"done", "drained", "refused", "drainWait", "drainLoop", "drainClose",
                         "cleanLoop", "cleanClose"}
<1> DEFINE h == act[a]
<1>t. h \in HandlerFields
  BY DEF TypeOK, Handler
<1>1. ASSUME NEW pc, Later(a, pc)
      PROVE  act'[a].pc = pc
  BY <1>1, <1>t, DoEffect DEF Later, HandlerFields
<1>2. ASSUME Verdict(a)
      PROVE  act'[a].pc \in {"done", "drained", "refused"}
  <2>1. /\ Done.pc = "done"
        /\ \A pc : [Frame(pc) EXCEPT !.inst = h.inst].pc = pc
    BY DEF Done, Frame
  <2>2. \/ Do(a, Done) \/ Do(a, [Frame("drained") EXCEPT !.inst = h.inst])
        \/ Do(a, [Frame("refused") EXCEPT !.inst = h.inst])
    BY <1>2 DEF Verdict
  <2> QED
    BY <2>1, <2>2, DoEffect
<1>3. CASE DrainStored(a)
  <2>1. PICK T, w : Do(a, [h EXCEPT !.pc = "drainWait", !.todo = T, !.wait = w])
    BY <1>3 DEF DrainStored
  <2> DEFINE x == [h EXCEPT !.pc = "drainWait", !.todo = T, !.wait = w]
  <2>2. act'[a] = x
    BY <2>1, DoEffect
  <2> QED
    BY <1>t, <2>2 DEF HandlerFields
<1>4. CASE DrainWaited(a)
  <2>1. act'[a] = [h EXCEPT !.pc = "drainLoop", !.wait = {}]
    BY <1>4, DoEffect DEF DrainWaited
  <2> QED
    BY <1>t, <2>1 DEF HandlerFields
<1>5. CASE DrainNext(a)
  <2>1. h.pc = "drainLoop"
    BY <1>5 DEF DrainNext, At
  <2>2. PICK o \in h.todo :
          \/ Do(a, [h EXCEPT !.todo = @ \ {o}])
          \/ Do(a, [[h EXCEPT !.todo = @ \ {o}] EXCEPT !.pc = "drainClose", !.obj = o,
                                                        !.sess = rt[o].session])
    BY <1>5 DEF DrainNext
  <2> DEFINE x == [h EXCEPT !.todo = @ \ {o}]
             y == [x EXCEPT !.pc = "drainClose", !.obj = o, !.sess = rt[o].session]
  <2>3. x.pc = "drainLoop" /\ y.pc = "drainClose"
    BY <1>t, <2>1 DEF HandlerFields
  <2>4. (Do(a, x) => act'[a] = x) /\ (Do(a, y) => act'[a] = y)
    BY DoEffect
  <2>5. Do(a, x) \/ Do(a, y)
    BY <2>2
  <2> HIDE DEF x, y
  <2> QED
    BY <2>3, <2>4, <2>5
<1>6. CASE DrainClosed(a) \/ CleanClosed(a)
  BY <1>1, <1>6 DEF DrainClosed, CleanClosed
<1>7. CASE SessionsVisited(a)
  <2>1. PICK S : Do(a, [h EXCEPT !.pc = "cleanLoop", !.obj = NoObj, !.sess = 0, !.clean = S])
    BY <1>7 DEF SessionsVisited
  <2> DEFINE x == [h EXCEPT !.pc = "cleanLoop", !.obj = NoObj, !.sess = 0, !.clean = S]
  <2>2. act'[a] = x
    BY <2>1, DoEffect
  <2> QED
    BY <1>t, <2>2 DEF HandlerFields
<1>8. CASE CleanNext(a)
  <2>1. PICK c \in h.clean :
          Do(a, [h EXCEPT !.pc = "cleanClose", !.sess = c.session, !.clean = @ \ {c}])
    BY <1>8 DEF CleanNext
  <2> DEFINE x == [h EXCEPT !.pc = "cleanClose", !.sess = c.session, !.clean = @ \ {c}]
  <2>2. act'[a] = x
    BY <2>1, DoEffect
  <2> QED
    BY <1>t, <2>2 DEF HandlerFields
<1>9. CASE DrainVerdict(a)
  BY <1>2, <1>9 DEF DrainVerdict
<1> QED
  BY <1>3, <1>4, <1>5, <1>6, <1>7, <1>8, <1>9 DEF Drain

LEMMA ContinueGoes ==
  ASSUME TypeOK, Base, Held, NEW q \in Request, Continue(q), ~PreClosed(q)
  PROVE  act'[q].pc \notin StartPC
<1> DEFINE h == act[q]
<1>0. q \in Actor /\ Done.pc = "done"
  BY DEF Actor, Done, Frame
<1>t. h \in HandlerFields
  BY <1>0 DEF TypeOK, Handler
<1>1. CASE Do(q, Done)
  BY <1>0, <1>1, DoEffect DEF StartPC
<1>2. CASE Created(q) \/ Enabled(q)
  <2>1. PICK i, t : Do(q, Done) \/ Do(q, [Frame("drainStore") EXCEPT !.inst = i, !.tracked = t])
    BY <1>2 DEF Created, Enabled, ThenDrainIfDraining
  <2>2. [Frame("drainStore") EXCEPT !.inst = i, !.tracked = t].pc = "drainStore"
    BY DEF Frame
  <2> QED
    BY <1>0, <1>1, <2>1, <2>2, DoEffect DEF StartPC
<1>3. CASE ReClosed(q) \/ DisableClosed(q) \/ CleanupClosed(q) \/ RemoveClosed(q)
  BY <1>1, <1>3 DEF ReClosed, DisableClosed, CleanupClosed, RemoveClosed
<1>4. CASE Disabled(q)
  <2>1. Do(q, Done) \/ \E k, w : Do(q, [h EXCEPT !.pc = "disableWait", !.obj = k, !.wait = w])
    BY <1>4 DEF Disabled
  <2>2. ASSUME NEW k, NEW w, Do(q, [h EXCEPT !.pc = "disableWait", !.obj = k, !.wait = w])
        PROVE  act'[q].pc = "disableWait"
    <3> DEFINE x == [h EXCEPT !.pc = "disableWait", !.obj = k, !.wait = w]
    <3>1. act'[q] = x
      BY <1>0, <2>2, DoEffect
    <3> QED
      BY <1>t, <3>1 DEF HandlerFields
  <2> QED
    BY <1>1, <2>1, <2>2 DEF StartPC
<1>5. CASE DisableWaited(q) \/ RemoveWaited(q)
  <2>1. act'[q] = Done \/ act'[q].pc \in {"disableClose", "removeClose"}
    BY <1>5, CloseAfterHandler DEF DisableWaited, RemoveWaited
  <2> QED
    BY <1>0, <2>1 DEF StartPC
<1>6. CASE Removed(q)
  <2>1. Do(q, Done) \/ \E k, w : Do(q, [h EXCEPT !.pc = "removeWait", !.obj = k, !.wait = w])
    BY <1>6 DEF Removed
  <2>2. ASSUME NEW k, NEW w, Do(q, [h EXCEPT !.pc = "removeWait", !.obj = k, !.wait = w])
        PROVE  act'[q].pc = "removeWait"
    <3> DEFINE x == [h EXCEPT !.pc = "removeWait", !.obj = k, !.wait = w]
    <3>1. act'[q] = x
      BY <1>0, <2>2, DoEffect
    <3> QED
      BY <1>t, <3>1 DEF HandlerFields
  <2> QED
    BY <1>1, <2>1, <2>2 DEF StartPC
<1>7. CASE Drain(q)
  BY <1>0, <1>7, DrainGoes DEF StartPC
<1> QED
  BY <1>2, <1>3, <1>4, <1>5, <1>6, <1>7 DEF Continue

\* A call that starts takes its turn.
LEMMA TurnTaken ==
  ASSUME TypeOK, Base, Held, ~Overlap, NEW q \in Request, Start(q) \/ Continue(q),
         NEW n \in Name, q \in Starting(n)'
  PROVE  Starting(n) \subseteq {q}
<1>0. q \in Actor
  BY DEF Actor
<1>1. act'[q].name = n /\ act'[q].pc \in StartPC
      /\ (act'[q].pc \in {"disableStore", "removeStore"} => act'[q].obj = NoObj)
  BY DEF Starting, StartPC
<1>2. CASE Continue(q)
  <2>1. PreClosed(q) /\ act[q].pc = "preClose"
    BY <1>1, <1>2, ContinueGoes DEF PreClosed, At
  <2>2. Do(q, Done) \/ Do(q, [act[q] EXCEPT !.pc = "enableStore"])
    BY <2>1 DEF PreClosed, Later
  <2>3. act[q] \in HandlerFields /\ Done.pc = "done"
    BY <1>0 DEF TypeOK, Handler, Done, Frame
  <2>4. act'[q].name = act[q].name
    BY <1>0, <1>1, <2>2, <2>3, DoEffect DEF HandlerFields, StartPC
  <2>5. q \in Starting(n)
    BY <1>1, <2>1, <2>4 DEF Starting
  <2> QED
    BY <2>5 DEF Held, OneStarting
<1>3. CASE Start(q)
  <2>1. ASSUME NEW m \in Name, NEW i \in Instance, NEW en \in BOOLEAN, Create(q, m, i, en)
        PROVE  Starting(n) = {}
    <3>1. Starting(m) = {}
      BY <2>1 DEF Create, InTurn
    <3>2. act'[q].name = m
      <4>1. act'[q] = [Frame("createStore") EXCEPT !.name = m, !.inst = i, !.en = en, !.tracked = TRUE]
        BY <1>0, <2>1, DoEffect DEF Create
      <4> QED
        BY <4>1 DEF Frame
    <3> QED
      BY <1>1, <3>1, <3>2
  <2>2. ASSUME NEW m \in Name, Enable(q, m)
        PROVE  Starting(n) = {}
    <3>1. Starting(m) = {}
      BY <2>2 DEF Enable, InTurn
    <3>2. act'[q].name = m
      <4>1. PICK x : Do(q, x) /\ x.name = m
        <5> DEFINE f == [Frame("enableStore") EXCEPT !.name = m, !.obj = Current(m),
                           !.inst = rt[Current(m)].inst, !.sess = rt[Current(m)].session,
                           !.tracked = TRUE]
        <5>1. \/ Do(q, [Frame("enableStore") EXCEPT !.name = m])
              \/ Do(q, f) \/ Do(q, [f EXCEPT !.pc = "preClose"])
          BY <2>2 DEF Enable
        <5>2. /\ [Frame("enableStore") EXCEPT !.name = m].name = m
              /\ f.name = m /\ [f EXCEPT !.pc = "preClose"].name = m
          BY DEF Frame
        <5> QED
          BY <5>1, <5>2
      <4> QED
        BY <1>0, <4>1, DoEffect
    <3> QED
      BY <1>1, <3>1, <3>2
  <2>3. ASSUME NEW m \in Name, Disable(q, m)
        PROVE  Starting(n) = {}
    <3> DEFINE f == [Frame("disableStore") EXCEPT !.name = m, !.obj = Current(m),
                       !.inst = rt[Current(m)].inst, !.sess = rt[Current(m)].session,
                       !.tracked = TRUE]
               g == [Frame("disableStore") EXCEPT !.name = m]
               k == [f EXCEPT !.pc = "reClose"]
    <3>1. \/ intents[m] = 0 /\ Do(q, g)
          \/ intents[m] # 0 /\ (Do(q, f) \/ Do(q, k))
      BY <2>3 DEF Disable
    <3>2. /\ g.name = m
          /\ f.pc = "disableStore" /\ f.obj = Current(m) /\ k.pc = "reClose"
      BY DEF Frame
    <3>3. Do(q, g) \/ Do(q, f) \/ Do(q, k) => act'[q] \in {g, f, k}
      BY <1>0, DoEffect
    <3>4. /\ Do(q, f) => act'[q] = f
          /\ Do(q, k) => act'[q] = k
          /\ Do(q, g) => act'[q] = g
      BY <1>0, DoEffect
    <3> HIDE DEF f, g, k
    <3>5. intents[m] = 0 /\ Do(q, g)
      <4>1. intents[m] # 0 => Current(m) # NoObj
        BY Objs, Objects
      <4> QED
        BY <1>1, <3>1, <3>2, <3>4, <4>1 DEF StartPC
    <3>6. Starting(m) = {}
      BY <2>3, <3>5 DEF Disable, InTurn
    <3> QED
      BY <1>1, <3>2, <3>4, <3>5, <3>6
  <2>4. ASSUME NEW m \in Name, Retry(q, m)
        PROVE  FALSE
    BY <1>0, <1>1, <2>4, DoEffect DEF Retry, StartPC, Done, Frame
  <2>5. ASSUME NEW m \in Name, Remove(q, m)
        PROVE  Starting(n) = {}
    <3> DEFINE frame == IF intents[m] = 0 THEN [Frame("removeStore") EXCEPT !.name = m]
                        ELSE [Frame("removeStore") EXCEPT
                                !.name = m, !.obj = Current(m), !.inst = rt[Current(m)].inst,
                                !.tracked = TRUE]
    <3>1. /\ frame.pc = "removeStore" /\ frame.name = m
          /\ frame.obj = IF intents[m] = 0 THEN NoObj ELSE Current(m)
      BY DEF Frame
    <3>2. \A s : [frame EXCEPT !.pc = "cleanupClose", !.sess = s].pc = "cleanupClose"
      BY DEF Frame
    <3>3. \/ Do(q, frame)
          \/ \E s : Do(q, [frame EXCEPT !.pc = "cleanupClose", !.sess = s])
      BY <2>5 DEF Remove
    <3>4. act'[q] = frame \/ act'[q].pc = "cleanupClose"
      <4>1. ASSUME NEW s, Do(q, [frame EXCEPT !.pc = "cleanupClose", !.sess = s])
            PROVE  act'[q].pc = "cleanupClose"
        <5> DEFINE x == [frame EXCEPT !.pc = "cleanupClose", !.sess = s]
        <5>1. act'[q] = x
          BY <1>0, <4>1, DoEffect
        <5> QED
          BY <3>2, <5>1
      <4>2. Do(q, frame) => act'[q] = frame
        BY <1>0, DoEffect
      <4> HIDE DEF frame
      <4> QED
        BY <3>3, <4>1, <4>2
    <3> HIDE DEF frame
    <3>5. intents[m] = 0 /\ m = n
      <4>1. intents[m] # 0 => Current(m) # NoObj
        BY Objs, Objects
      <4> QED
        BY <1>1, <3>1, <3>4, <4>1 DEF StartPC
    <3>6. Starting(m) = {}
      BY <2>5, <3>5 DEF Remove, InTurn
    <3> QED
      BY <3>5, <3>6
  <2> QED
    BY <1>3, <2>1, <2>2, <2>3, <2>4, <2>5 DEF Start
<1> QED
  BY <1>2, <1>3

LEMMA TurnsKept ==
  ASSUME TypeOK, TypeOK', Base, Held, Kinds, ~Overlap, ~StoreMayFail, Next
  PROVE  OneStarting'
<1>1. CASE act' = act
  BY <1>1 DEF Held, OneStarting, Starting
<1>2. ASSUME NEW a \in Actor, Moved(a)
      PROVE  OneStarting'
  <2>1. OnlyActs(a)
    BY <1>2, MovedOnly
  <2>2. \A n \in Name, p \in Request : p # a => (p \in Starting(n)' <=> p \in Starting(n))
    BY <2>1 DEF OnlyActs, Starting, Actor
  <2>3. \A n \in Name : Starting(n)' \subseteq Request
    BY DEF Starting
  <2>4. \A n \in Name : a \in Starting(n)' => Starting(n) \subseteq {a}
    <3>1. a \in Request => Start(a) \/ Continue(a)
      BY <1>2, Constants DEF Moved
    <3> QED
      BY <2>3, <3>1, TurnTaken
  <2> SUFFICES ASSUME NEW n \in Name, NEW p \in Starting(n)', NEW q \in Starting(n)'
               PROVE  p = q
    BY DEF OneStarting
  <2>5. p # a /\ q # a => p = q
    BY <2>2, <2>3 DEF Held, OneStarting
  <2> QED
    BY <2>2, <2>3, <2>4, <2>5
<1> QED
  BY <1>1, <1>2, WhoMoves

-----------------------------------------------------------------------------
(***************************************************************************)
(* Objects that are being removed                                          *)
(***************************************************************************)
LEMMA IntentsSteps ==
  ASSUME ~StoreMayFail, Next
  PROVE  \/ intents' = intents
         \/ \E q \in Request : Created(q) \/ Enabled(q) \/ Disabled(q) \/ Removed(q)
<1>1. ASSUME NEW a, Drain(a)
      PROVE  intents' = intents
  BY <1>1 DEF Drain, DrainStored, DrainWaited, DrainNext, DrainClosed, SessionsVisited, CleanNext,
     CleanClosed, DrainVerdict
<1>2. ASSUME NEW q \in Request, Start(q)
      PROVE  intents' = intents
  BY <1>2 DEF Start, Create, Enable, Disable, Retry, Remove
<1>3. ASSUME NEW q \in Request, PreClosed(q) \/ ReClosed(q) \/ DisableWaited(q) \/ DisableClosed(q)
                                \/ CleanupClosed(q) \/ RemoveWaited(q) \/ RemoveClosed(q)
      PROVE  intents' = intents
  BY <1>3 DEF PreClosed, ReClosed, DisableWaited, DisableClosed, CleanupClosed, RemoveWaited,
     RemoveClosed
<1>4. ASSUME NEW q \in Request, Continue(q)
      PROVE  intents' = intents \/ Created(q) \/ Enabled(q) \/ Disabled(q) \/ Removed(q)
  BY <1>1, <1>3, <1>4 DEF Continue
<1>5. ASSUME NEW r \in Real, Session(r) \/ TransportDies(r)
      PROVE  intents' = intents
  BY <1>5 DEF Session, Answer, OpenRejects, OpenResolves, LateClosed, ClosureNoticed,
     CloseSettles, TransportDies
<1>6. ASSUME NEW d \in Drainer, \/ \E i \in Instance : BeginDrain(d, i)
                                \/ BeginWaited(d) \/ CloseForDrain(d) \/ ReleaseDrain(d)
      PROVE  intents' = intents
  BY <1>6 DEF BeginDrain, BeginWaited, CloseForDrain, ReleaseDrain
<1>7. ASSUME \/ \E n \in Name : Restore(n)
             \/ Restored \/ Stop \/ Shutdown
      PROVE  intents' = intents
  BY <1>7 DEF Restore, Restored, Stop, Shutdown, CloseService, CloseSessions, Closed
<1>8. \A a : ~StoreThrows(a) /\ ~DrainStoreThrows(a)
  BY DEF StoreThrows, DrainStoreThrows
<1> QED
  BY <1>1, <1>2, <1>4, <1>5, <1>6, <1>7, <1>8 DEF Next

\* Only remove makes the service forget an object; it has it in its hands then, and waits
\* for its realization.
LEMMA RemovalBegins ==
  ASSUME TypeOK, Base, ~StoreMayFail, Next, NEW o \in Obj, Registered(o), ~Registered(o)'
  PROVE  /\ BeingRemoved(o)'
         /\ \A r \in Real : rt[o].realization = r =>
              \E q \in Request : act'[q].pc = "removeWait" /\ act'[q].obj = o /\ r \in act'[q].wait
<1>o. o[1] \in Name /\ o[2] # 0 /\ intents[o[1]] = o[2] /\ intents'[o[1]] # o[2] /\ o = Current(o[1])
  BY Objects, Lifetimes DEF Registered, NameOf, Current
<1>1. PICK q \in Request : Created(q) \/ Enabled(q) \/ Disabled(q) \/ Removed(q)
  BY <1>o, IntentsSteps
<1> DEFINE n == act[q].name
<1>0. q \in Actor /\ n \in Name /\ act[q] \in HandlerFields
  BY <1>1 DEF Actor, Created, Enabled, Disabled, Removed, At, TypeOK, Handler, HandlerFields, OnName
<1>2. stored[n] = Absent => intents[n] = 0
  BY <1>0, DefinitionsOf DEF Base, RestartServesTheSame, TypeOK, RuntimeIntent, Definition, Absent
<1>3. ASSUME NEW k, intents' = [intents EXCEPT ![n] = k], intents[n] \in {0, k}
      PROVE  FALSE
  BY <1>0, <1>3, <1>o DEF TypeOK
<1>4. ~Created(q)
  BY <1>2, <1>3, <1>o DEF Created
<1>5. ~Enabled(q)
  BY <1>3, <1>o DEF Enabled, Lives
<1>6. ~Disabled(q)
  BY <1>3, <1>o DEF Disabled, Lives
<1>7. Removed(q) /\ intents' # intents
  BY <1>1, <1>4, <1>5, <1>6, <1>o
<1> DEFINE p == Current(n)
           w == Only(rt[p].realization)
           x == [act[q] EXCEPT !.pc = "removeWait", !.obj = p, !.wait = w]
<1>8. intents' = [intents EXCEPT ![n] = 0] /\ Do(q, x)
  BY <1>7 DEF Removed
<1>9. p = o
  BY <1>0, <1>8, <1>o DEF TypeOK
<1>10. act'[q] = x
  BY <1>0, <1>8, DoEffect
<1>11. x.pc = "removeWait" /\ x.obj = p /\ x.wait = w
  BY <1>0 DEF HandlerFields
<1> HIDE DEF x
<1>12. \A r \in Real : rt[o].realization = r => r \in w
  BY <1>9, Constants DEF Only
<1> HIDE DEF w
<1>13. act'[q].pc = "removeWait" /\ act'[q].obj = o /\ act'[q].wait = w
  BY <1>9, <1>10, <1>11
<1> QED
  BY <1>12, <1>13 DEF BeingRemoved

\* It lets go of it when it has no session any more, or one that is recorded.
LEMMA RemovalEnds ==
  ASSUME TypeOK, TypeOK', Base, Held, Kinds, ~StoreMayFail, Next, NEW o \in Obj,
         BeingRemoved(o), ~BeingRemoved(o)'
  PROVE  \/ rt[o].session = 0
         \/ /\ Settled(rt[o].session)
            /\ real[rt[o].session].sess = "failed" =>
                 \E c \in cleanup' : c.session = rt[o].session /\ c.inst = rt[o].inst
<1>1. PICK q \in Request : act[q].obj = o /\ act[q].pc \in {"removeWait", "removeClose"}
  BY DEF BeingRemoved
<1>0. q \in Actor /\ act[q] \in HandlerFields /\ HandlerOK(q) /\ (act[q].pc = "removeClose" => act[q].sess \in Real)
  BY DEF Actor, TypeOK, Handler, Held, Handlers, AwaitsSession
<1>2. act'[q] # act[q]
  BY <1>1 DEF BeingRemoved
<1>3. Moved(q)
  <2>1. PICK a \in Actor : Moved(a)
    BY <1>0, <1>2, WhoMoves
  <2> QED
    BY <1>0, <1>2, <2>1, MovedOnly DEF OnlyActs
<1>4. Continue(q)
  BY <1>1, <1>3, Constants DEF Moved, Start, Create, Enable, Disable, Retry, Remove, Idle
<1>5. RemoveWaited(q) \/ RemoveClosed(q)
  BY <1>1, <1>4 DEF Continue, Created, PreClosed, Enabled, ReClosed, Disabled, DisableWaited,
     DisableClosed, CleanupClosed, Removed, At, Drain, DrainStored, DrainWaited, DrainNext,
     DrainClosed, SessionsVisited, CleanNext, CleanClosed, DrainVerdict
<1>6. CASE RemoveWaited(q)
  <2>1. ~(act'[q].pc = "removeClose" /\ act'[q].obj = o)
    BY DEF BeingRemoved
  <2>2. act'[q] = Done
    BY <1>1, <1>6, <2>1, CloseAfterHandler DEF RemoveWaited
  <2>3. CloseAfterRealization(q, "removeClose") /\ act[q].pc = "removeWait"
    BY <1>6 DEF RemoveWaited, At
  <2>4. rt[o].session = 0 \/ \E r \in act[q].wait : real[r].rejected
    <3> DEFINE s == rt[o].session
               x == [act[q] EXCEPT !.pc = "removeClose", !.sess = s, !.wait = {}]
    <3>1. ~Do(q, x)
      <4>1. x.pc = "removeClose" /\ Done.pc = "done"
        BY <1>0 DEF HandlerFields, Done, Frame
      <4>2. Do(q, x) => act'[q] = x
        BY <1>0, DoEffect
      <4> HIDE DEF x
      <4> QED
        BY <2>2, <4>1, <4>2
    <3> QED
      BY <1>1, <2>3, <3>1 DEF CloseAfterRealization
  <2>5. act[q].wait # {} => rt[o].session = 0
    BY <1>0, <1>1, <2>3 DEF HandlerOK, Removing
  <2> QED
    BY <2>4, <2>5
<1>7. CASE RemoveClosed(q)
  <2> DEFINE s == act[q].sess
             c == [inst |-> rt[o].inst, name |-> act[q].name, session |-> s, reserve |-> TRUE]
  <2>1. /\ act[q].pc = "removeClose" /\ Settled(s)
        /\ cleanup' = IF real[s].sess = "closed" THEN cleanup ELSE cleanup \cup {c}
    BY <1>1, <1>7 DEF RemoveClosed, At
  <2>2. rt[o].session \in {s, 0}
    BY <1>0, <1>1, <2>1 DEF HandlerOK, Removing
  <2>3. c.session = s /\ c.inst = rt[o].inst
    OBVIOUS
  <2> HIDE DEF c
  <2>4. real[s].sess = "failed" => c \in cleanup'
    BY <2>1
  <2> QED
    BY <2>1, <2>2, <2>3, <2>4
<1> QED
  BY <1>5, <1>6, <1>7

-----------------------------------------------------------------------------
(***************************************************************************)
(* No tunnel is lost                                                       *)
(***************************************************************************)
\* An open session belongs to the object of its realization, which the service or a
\* removal knows.
OpenIsHeld ==
  \A r \in Real : (real[r].pc = "done" /\ real[r].sess \in {"open", "closing"}) =>
    LET o == real[r].obj IN rt[o].session = r /\ (Registered(o) \/ BeingRemoved(o))

\* One that failed to close is recorded once nobody works on it any more.
Kept(r) == \E c \in cleanup : c.session = r /\ c.inst = rt[real[r].obj].inst

FailedIsKept ==
  /\ \A r \in Real : real[r].rejected => Kept(r)
  /\ \A o \in Obj : (rt[o].session # 0 /\ ~Registered(o) /\ ~BeingRemoved(o)) =>
       LET r == rt[o].session IN Settled(r) /\ (real[r].sess = "failed" => Kept(r))

\* The shutdown waits for what is opening, and then for what is open.
ShutSettles ==
  /\ closing => \A r \in Real : Live(r) => shut.pc = "realizations" /\ r \in shut.wait
  /\ shut.pc \in {"sessions", "closed"} =>
       \A r \in Real : real[r].sess \in {"open", "closing"} =>
         (shut.pc = "sessions" /\ r \in shut.wait) \/ BeingRemoved(real[r].obj)

Lost == OpenIsHeld /\ FailedIsKept /\ ShutSettles

LEMMA OpenStaysHeld ==
  ASSUME TypeOK, TypeOK', Base, Held, Lost, Kinds, ~StoreMayFail, Next
  PROVE  OpenIsHeld'
<1> SUFFICES ASSUME NEW r \in Real, NEW o \in Obj, real'[r].obj = o, real'[r].pc = "done",
                    real'[r].sess \in {"open", "closing"}
             PROVE  rt'[o].session = r /\ (Registered(o)' \/ BeingRemoved(o)')
  <2>1. \A r \in Real : real'[r].pc = "done" => real'[r].obj \in Obj
    BY DEF TypeOK, Realization
  <2> QED
    BY <2>1 DEF OpenIsHeld
<1>3. ASSUME Registered(o) \/ BeingRemoved(o), rt[o].session = r, ~Settled(r)
      PROVE  Registered(o)' \/ BeingRemoved(o)'
  BY <1>3, RemovalBegins, RemovalEnds, Constants
<1>4. CASE real[r].pc = "done"
  <2>1. real[r].sess \in {"open", "closing"} /\ real[r].obj = o /\ ~Settled(r)
    BY <1>4, SessionsStay DEF InUse, Settled
  <2>2. rt[o].session = r /\ (Registered(o) \/ BeingRemoved(o))
    BY <1>4, <2>1 DEF Lost, OpenIsHeld
  <2>3. ASSUME NEW s \in Real, Resolved(s, o)
        PROVE  FALSE
    <3>1. real[s].obj = o /\ real[s].pc = "opening" /\ StillWanted(s)
      BY <2>3 DEF Resolved, Ends
    <3>2. rt[o].enabled /\ rt[o].status = "starting"
      BY <3>1 DEF StillWanted, Base, CurrentIsLinked
    <3> QED
      BY <2>2, <3>2, Constants DEF Held, SessionsOf
  <2>4. rt'[o].session = r
    BY <2>1, <2>2, <2>3, SessionSteps
  <2> QED
    BY <1>3, <2>1, <2>2, <2>4
<1>5. CASE real[r].pc # "done"
  <2>1. PICK p \in Obj : Rejected(r, p) \/ Resolved(r, p) \/ EndedLate(r, p)
    BY <1>5, Ending
  <2>2. Resolved(r, p)
    BY <2>1 DEF Rejected, EndedLate, Settled, Base, Shape
  <2>3. p = o /\ rt'[o].session = r /\ Registered(o) /\ intents' = intents
    BY <2>2 DEF Resolved, Ends, StillWanted
  <2> QED
    BY <2>3 DEF Registered
<1> QED
  BY <1>4, <1>5

LEMMA FailedStaysKept ==
  ASSUME TypeOK, TypeOK', Base, Held, Lost, Kinds, ~StoreMayFail, Next
  PROVE  FailedIsKept'
<1>1. cleanup \subseteq cleanup'
  BY CleanupSteps
<1>2. ASSUME NEW r \in Real, InUse(r), Kept(r)
      PROVE  Kept(r)'
  <2>1. real'[r].obj = real[r].obj /\ real[r].obj \in Obj /\ rt[real[r].obj].used
    BY <1>2, SessionsStay DEF TypeOK, Realization, InUse, Base, Shape
  <2>2. rt'[real[r].obj].inst = rt[real[r].obj].inst
    BY <2>1, ObjectsStay
  <2> QED
    BY <1>1, <1>2, <2>1, <2>2 DEF Kept
<1>3. ASSUME NEW r \in Real, real'[r].rejected
      PROVE  Kept(r)'
  <2>1. CASE real[r].rejected
    BY <1>2, <2>1 DEF Lost, FailedIsKept, Base, Shape, InUse
  <2>2. CASE ~real[r].rejected
    <3>1. LateClosed(r)
      BY <1>3, <2>2, Ending
    <3> DEFINE o == real[r].obj
               c == [inst |-> rt[o].inst, name |-> NameOf(o), session |-> r, reserve |-> FALSE]
    <3>2. real'[r].sess = "failed" /\ real'[r].obj = o /\ real[r].pc = "closingLate"
      <4>1. real'[r] = [real[r] EXCEPT !.pc = "done", !.rejected = (real[r].sess = "failed")]
        BY <3>1 DEF LateClosed, TypeOK
      <4>2. real[r] \in RealizationFields
        BY DEF TypeOK, Realization
      <4>3. real'[r].rejected = (real[r].sess = "failed")
        BY <4>1, <4>2 DEF RealizationFields
      <4>4. real'[r].sess = real[r].sess /\ real'[r].obj = o
        BY <4>1, <4>2 DEF RealizationFields
      <4> QED
        BY <1>3, <3>1, <4>3, <4>4 DEF LateClosed
    <3>3. real[r].sess # "closed"
      BY <3>2, SessionsStay DEF Settled
    <3>4. c \in cleanup'
      BY <3>1, <3>3 DEF LateClosed
    <3>5. c.session = r /\ c.inst = rt[o].inst
      OBVIOUS
    <3> HIDE DEF c
    <3>6. o \in Obj /\ rt[o].used
      BY <3>2 DEF TypeOK, Realization, Base, Shape, InUse
    <3>7. rt'[o].inst = rt[o].inst
      BY <3>6, ObjectsStay
    <3> QED
      BY <3>2, <3>4, <3>5, <3>7 DEF Kept
  <2> QED
    BY <2>1, <2>2
<1>4. ASSUME NEW o \in Obj, rt'[o].session # 0, ~Registered(o)', ~BeingRemoved(o)'
      PROVE  /\ Settled(rt[o].session)' /\ rt'[o].session = rt[o].session
             /\ real'[rt[o].session].sess = "failed" => Kept(rt[o].session)'
  <2>1. ~\E r \in Real : Resolved(r, o)
    BY <1>4 DEF Resolved, Ends, StillWanted, Registered
  <2>2. rt'[o].session = rt[o].session
    BY <1>4, <2>1, SessionSteps
  <2>3. PICK r \in Real : r = rt[o].session
    BY <1>4, <2>2 DEF TypeOK, RuntimeIntent
  <2>4. real[r].obj = o /\ InUse(r) /\ r # 0
    BY <1>4, <2>2, <2>3 DEF Held, SessionsOf, InUse
  <2>5. ~Registered(o)
    BY <1>4, RemovalBegins
  <2>6. Settled(r) => real'[r].sess = real[r].sess /\ real'[r].obj = o
    BY <2>4, SessionsStay
  <2>7. CASE ~BeingRemoved(o)
    BY <1>2, <2>2, <2>3, <2>4, <2>5, <2>6, <2>7 DEF Lost, FailedIsKept, Settled
  <2>8. CASE BeingRemoved(o)
    <3>1. /\ Settled(r)
          /\ real[r].sess = "failed" => \E c \in cleanup' : c.session = r /\ c.inst = rt[o].inst
      BY <1>4, <2>3, <2>4, <2>8, RemovalEnds
    <3>2. rt'[o].inst = rt[o].inst
      BY <2>4, ObjectsStay DEF Base, Shape
    <3> QED
      BY <2>2, <2>3, <2>6, <3>1, <3>2 DEF Kept, Settled
  <2> QED
    BY <2>7, <2>8
<1> QED
  BY <1>3, <1>4 DEF FailedIsKept

LEMMA ShutStaysSettled ==
  ASSUME TypeOK, TypeOK', Base, ShutOrder, Held, Lost, Kinds, ~StoreMayFail, Next
  PROVE  ShutSettles'
<1>n. \A r \in Real : r # 0
  BY Constants
\* A session that was open is still in the hands of its removal.
<1>b. ASSUME NEW r \in Real, real'[r].sess \in {"open", "closing"}, real[r].pc # "opening",
             real[r].pc # "closingLate"
      PROVE  /\ real[r].sess \in {"open", "closing"} /\ real'[r].obj = real[r].obj
             /\ real[r].obj \in Obj /\ rt[real[r].obj].session = r
             /\ Registered(real[r].obj) \/ BeingRemoved(real[r].obj)
             /\ BeingRemoved(real[r].obj) => BeingRemoved(real[r].obj)'
  <2>1. real[r].sess \in {"open", "closing"}
    BY <1>b, SessionsStay
  <2>2. real[r].pc = "done"
    BY <1>b, <2>1 DEF Base, Shape
  <2>3. PICK o \in Obj : o = real[r].obj
    BY <2>2 DEF TypeOK, Realization
  <2>4. rt[o].session = r /\ (Registered(o) \/ BeingRemoved(o))
    BY <2>1, <2>2, <2>3 DEF Lost, OpenIsHeld
  <2>5. real'[r].obj = o
    BY <2>2, <2>3, SessionsStay DEF InUse
  <2>6. BeingRemoved(o) => BeingRemoved(o)'
    BY <1>n, <2>1, <2>4, RemovalEnds DEF Settled
  <2> QED
    BY <2>1, <2>3, <2>4, <2>5, <2>6 DEF BeingRemoved
<1>c. ASSUME closing, closing', shut'.pc = shut.pc, shut'.wait = shut.wait
      PROVE  ShutSettles'
  <2>1. ASSUME NEW r \in Real, Live(r)'
        PROVE  shut.pc = "realizations" /\ r \in shut.wait
    BY <1>c, <2>1, SessionsStay DEF Lost, ShutSettles
  <2>2. ASSUME NEW r \in Real, shut.pc \in {"sessions", "closed"},
               real'[r].sess \in {"open", "closing"}
        PROVE  (shut.pc = "sessions" /\ r \in shut.wait) \/ BeingRemoved(real[r].obj)'
    <3>1. real[r].pc # "opening" /\ real[r].pc # "closingLate"
      BY <1>c, <2>2 DEF Lost, ShutSettles, Live
    <3> QED
      BY <1>b, <2>2, <3>1 DEF Lost, ShutSettles
  <2> QED
    BY <1>c, <2>1, <2>2 DEF ShutSettles
<1>1. CASE UNCHANGED <<closing, shut>>
  <2>1. CASE closing
    BY <1>1, <1>c, <2>1
  <2>2. CASE ~closing
    BY <1>1, <2>2 DEF ShutOrder, ShutSettles
  <2> QED
    BY <2>1, <2>2
<1>2. CASE Stop
  <2>1. ~closing' /\ shut'.pc = "server"
    BY <1>2 DEF Stop, ShutOrder, TypeOK
  <2> QED
    BY <2>1 DEF ShutSettles
<1>3. CASE CloseService
  <2>1. /\ shut'.pc = "realizations"
        /\ shut'.wait = {r \in Real : real[r].pc \in {"opening", "closingLate"}}
        /\ ~closing
    BY <1>3 DEF CloseService, ShutOrder
  <2>2. \A r \in Real : real'[r].pc = real[r].pc
    BY <1>3 DEF CloseService, Abort, TypeOK, Realization, RealizationFields
  <2> QED
    BY <2>1, <2>2 DEF ShutSettles, Live
<1>4. CASE CloseSessions
  <2> DEFINE S == ({rt[o].session : o \in {x \in Obj : Registered(x)}} \ {0})
                    \cup {c.session : c \in cleanup}
  <2>1. /\ shut.pc = "realizations" /\ \A r \in shut.wait : Finished(r)
        /\ shut' = [pc |-> "sessions", wait |-> S] /\ UNCHANGED <<closing, act>>
    BY <1>4 DEF CloseSessions
  <2>2. closing
    BY <2>1 DEF ShutOrder
  <2>3. \A r \in Real : ~Live(r)
    BY <2>1, <2>2 DEF Lost, ShutSettles, Live, Finished
  <2>4. \A r \in Real : ~Live(r)'
    BY <2>2, <2>3, SessionsStay
  <2>5. ASSUME NEW r \in Real, real'[r].sess \in {"open", "closing"}
        PROVE  r \in S \/ BeingRemoved(real[r].obj)'
    <3>1. /\ real[r].obj \in Obj /\ rt[real[r].obj].session = r
          /\ Registered(real[r].obj) \/ BeingRemoved(real[r].obj)
          /\ BeingRemoved(real[r].obj) => BeingRemoved(real[r].obj)'
      BY <1>b, <2>3, <2>5 DEF Live
    <3>2. CASE Registered(real[r].obj)
      BY <1>n, <3>1, <3>2
    <3>3. CASE BeingRemoved(real[r].obj)
      BY <3>1, <3>3
    <3> QED
      BY <3>1, <3>2, <3>3
  <2>6. shut'.pc = "sessions" /\ shut'.wait = S
    BY <2>1
  <2> HIDE DEF S
  <2> QED
    BY <2>4, <2>5, <2>6 DEF ShutSettles
<1>5. CASE Closed
  <2>1. /\ shut.pc = "sessions" /\ \A r \in shut.wait : Settled(r)
        /\ shut'.pc = "closed" /\ UNCHANGED <<closing, real, act>>
    BY <1>5 DEF Closed
  <2>2. closing
    BY <2>1 DEF ShutOrder
  <2>3. \A r \in Real : ~Live(r)
    BY <2>1, <2>2 DEF Lost, ShutSettles
  <2>4. \A r \in Real : ~Live(r)'
    BY <2>2, <2>3, SessionsStay
  <2>5. ASSUME NEW r \in Real, real[r].sess \in {"open", "closing"}
        PROVE  BeingRemoved(real[r].obj)'
    BY <2>1, <2>5 DEF Lost, ShutSettles, Settled, BeingRemoved
  <2> QED
    BY <2>1, <2>4, <2>5 DEF ShutSettles
<1> QED
  BY <1>1, <1>2, <1>3, <1>4, <1>5, ShutSteps

LEMMA HeldKept ==
  ASSUME TypeOK, TypeOK', Base, Held, Kinds, ~Overlap, ~StoreMayFail, Next
  PROVE  Held'
BY SessionsOfKept, HandlersKept, TurnsKept, CleanupKept DEF Held

LEMMA InitHeld ==
  ASSUME Init
  PROVE  Held /\ Lost
<1>1. \A o \in Obj : rt[o].session = 0 /\ rt[o].realization = 0
  BY DEF Init, NewRuntime, NoRuntime
<1>2. \A a \in Actor : act[a].pc = "idle" /\ act[a].clean = {}
  BY DEF Init, Frame
<1>3. \A r \in Real : real[r].pc = "unused" /\ ~real[r].rejected /\ real[r].sess = "none"
  BY DEF Init, NoReal
<1>4. cleanup = {} /\ ~closing /\ shut.pc = "open"
  BY DEF Init
<1>5. SessionsOf
  BY <1>1 DEF SessionsOf
<1>6. Handlers
  BY <1>2 DEF Handlers, HandlerOK, Role, Closing, Enabling, Removing, AwaitsSession, ByDrainer
<1>7. OneStarting
  BY <1>2 DEF OneStarting, Starting, Actor
<1>8. CleanupFailed
  BY <1>4 DEF CleanupFailed
<1>9. Lost
  BY <1>1, <1>3, <1>4 DEF Lost, OpenIsHeld, FailedIsKept, ShutSettles
<1> QED
  BY <1>5, <1>6, <1>7, <1>8, <1>9 DEF Held

LEMMA StutterHeld ==
  ASSUME UNCHANGED vars, Held, Lost
  PROVE  Held' /\ Lost'
<1>1. SessionsOf' /\ CleanupFailed' /\ OneStarting'
  BY DEF vars, Held, SessionsOf, CleanupFailed, OneStarting, Starting, Live
<1>2. Handlers'
  BY DEF vars, Held, Handlers, HandlerOK, Role, Closing, Enabling, Removing, Ended, Settled,
     Registered
<1>3. OpenIsHeld'
  BY DEF vars, Lost, OpenIsHeld, Registered, BeingRemoved
<1>4. FailedIsKept'
  BY DEF vars, Lost, FailedIsKept, Registered, BeingRemoved, Settled, Kept
<1>5. ShutSettles'
  BY DEF vars, Lost, ShutSettles, BeingRemoved, Live
<1> QED
  BY <1>1, <1>2, <1>3, <1>4, <1>5 DEF Held, Lost

LEMMA HeldAndKept ==
  ASSUME ~StoreMayFail, ~Overlap
  PROVE  Spec => [](TypeOK /\ Base /\ ShutOrder /\ Restoring /\ Held /\ Lost)
<1> DEFINE Inv == TypeOK /\ Base /\ ShutOrder /\ Restoring /\ Held /\ Lost
<1>1. Init => Inv
  BY InitType, InitBase, InitHeld
<1>2. Inv /\ [Next]_vars => Inv'
  <2> SUFFICES ASSUME Inv, [Next]_vars
               PROVE  Inv'
    OBVIOUS
  <2>1. TypeOK'
    BY NextType
  <2>2. CASE Next
    <3>1. Kinds
      BY <2>2, Steps
    <3>2. Base' /\ ShutOrder' /\ Restoring'
      BY <2>1, <2>2, <3>1, KindsBase, ShutOrderKept, RestoringKept
    <3>3. Held'
      BY <2>1, <2>2, <3>1, HeldKept
    <3>4. OpenIsHeld' /\ FailedIsKept' /\ ShutSettles'
      BY <2>1, <2>2, <3>1, OpenStaysHeld, FailedStaysKept, ShutStaysSettled
    <3> QED
      BY <2>1, <3>2, <3>3, <3>4 DEF Lost
  <2>3. CASE UNCHANGED vars
    BY <2>1, <2>3, Stutter, StutterHeld
  <2> QED
    BY <2>2, <2>3
<1> HIDE DEF Inv
<1>3. Spec => []Inv
  BY <1>1, <1>2, PTL DEF Spec
<1> QED
  BY <1>3 DEF Inv

\* No tunnel is lost, whatever handlers, late answers, closings and drains interleave:
\* an open one is reachable from its intent or from the removal that closes it, an
\* opening nobody wants is aborted, and a session that could not be closed stays
\* recorded.  The calls on one name that may start a realization are taken in turn
\* (when they overlap, two of them can open a tunnel each for one intent).
THEOREM TunnelsAreKept == ASSUME ~StoreMayFail, ~Overlap PROVE Spec => []NoTunnelIsLost
<1>1. ASSUME TypeOK, Base, Held, Lost
      PROVE  NoTunnelIsLost
  <2>1. NoOrphanedSession
    <3>1. \A r \in Real : real[r].sess = "open" => real[r].pc = "done"
      BY <1>1 DEF Base, Shape
    <3> QED
      BY <1>1, <3>1 DEF Lost, OpenIsHeld, NoOrphanedSession
  <2>2. SupersededIsAborted
    BY <1>1 DEF Base, CurrentIsLinked, SupersededIsAborted
  <2>3. FailedCleanupIsKept
    <3> SUFFICES ASSUME NEW r \in Real, NEW o, o = real[r].obj, real[r].sess = "failed",
                        real[r].rejected \/ (rt[o].session = r /\ ~Registered(o) /\ ~BeingRemoved(o))
                 PROVE  Kept(r)
      BY DEF FailedCleanupIsKept, Kept
    <3>1. o \in Obj /\ r # 0
      BY <1>1, Constants DEF Base, Shape, TypeOK, Realization
    <3> QED
      BY <1>1, <3>1 DEF Lost, FailedIsKept
  <2> QED
    BY <2>1, <2>2, <2>3 DEF NoTunnelIsLost
<1> QED
  BY <1>1, HeldAndKept, PTL

-----------------------------------------------------------------------------
(***************************************************************************)
(* Drains                                                                  *)
(***************************************************************************)
Holds(d) == act[d].pc \notin {"idle", "done"}
Granted(d) == act[d].pc \notin {"idle", "done", "beginWait"}

\* A drainer that holds an instance holds it alone.
OneDrain ==
  \A d \in Drainer : Holds(d) =>
    /\ act[d].inst \in drained
    /\ \A e \in Drainer : Holds(e) /\ act[e].inst = act[d].inst => e = d

\* No call that is about to open a connection of an instance is under way once its
\* drain was granted.
NoStarts ==
  \A d \in Drainer : Granted(d) =>
    \A q \in Request : act[q].tracked /\ act[q].inst = act[d].inst =>
      act[q].pc \notin {"createStore", "preClose", "enableStore"}

AwaitedBy(a, r) == act[a].pc \in {"disableWait", "drainWait"} /\ r \in act[a].wait

\* What a drain waits for is an operation of its instance: every realization is known
\* to its object, or a call waits for it that will close what it brings.
LinkedOrAwaited ==
  ~closing =>
    /\ \A r \in Real : Live(r) =>
         \/ rt[real[r].obj].realization = r
         \/ \E q \in Request : AwaitedBy(q, r)
    /\ \A o \in Obj : (Registered(o) /\ rt[o].realization # 0) =>
         IF rt[o].enabled THEN rt[o].status = "starting"
         ELSE \/ \E q \in Request : AwaitedBy(q, rt[o].realization)
              \/ \E d \in Drainer : AwaitedBy(d, rt[o].realization) /\ act[d].inst = rt[o].inst

\* A removal waits for the realization of its object.
RemovalWaits ==
  \A o \in Obj : (~Registered(o) /\ rt[o].realization # 0) =>
    \E q \in Request : /\ At(q, "removeWait") /\ act[q].obj = o
                       /\ rt[o].realization \in act[q].wait

DrainLinked ==
  \A d \in Drainer : (Granted(d) /\ (~closing \/ At(d, "drained"))) =>
    \A r \in Real : (Live(r) /\ rt[real[r].obj].inst = act[d].inst) =>
      rt[real[r].obj].realization = r \/ Overtaken(r, act[d].inst)

DrainedClosed ==
  \A d \in Drainer : At(d, "drained") =>
    \A o \in Targets(act[d].inst) : ~rt[o].enabled /\ rt[o].session = 0 /\ rt[o].realization = 0

Barred == OneDrain /\ NoStarts
Drained == Barred /\ LinkedOrAwaited /\ RemovalWaits /\ DrainLinked /\ DrainedClosed

LEMMA MovedIf ==
  ASSUME TypeOK, TypeOK', Base, Held, Kinds, ~StoreMayFail, Next, NEW a \in Actor,
         act'[a] # act[a]
  PROVE  Moved(a) /\ OnlyActs(a)
<1>1. PICK b \in Actor : Moved(b)
  BY WhoMoves
<1>2. OnlyActs(b)
  BY <1>1, MovedOnly
<1>3. a = b
  BY <1>2 DEF OnlyActs
<1> QED
  BY <1>1, <1>2, <1>3

\* A handler waits until all its realizations have ended.
LEMMA AwaitedStays ==
  ASSUME TypeOK, TypeOK', Base, Held, Kinds, ~StoreMayFail, Next, NEW a \in Actor,
         act[a].pc \in AwaitsRealization, NEW r \in Real, r \in act[a].wait, Live(r)
  PROVE  act'[a] = act[a]
<1> SUFFICES ASSUME act'[a] # act[a]
             PROVE  FALSE
  OBVIOUS
<1>1. Moved(a)
  BY MovedIf
<1>2. ~Finished(r)
  BY DEF Finished, Live
<1>3. ~DisableWaited(a) /\ ~RemoveWaited(a) /\ ~DrainWaited(a)
  BY <1>2 DEF DisableWaited, RemoveWaited, DrainWaited, CloseAfterRealization
<1>4. ~Start(a)
  BY DEF Start, Create, Enable, Disable, Retry, Remove, Idle, AwaitsRealization
<1>5. ~Drain(a)
  BY <1>3 DEF Drain, DrainStored, DrainNext, DrainClosed, SessionsVisited, CleanNext,
     CleanClosed, DrainVerdict, At, AwaitsRealization
<1>6. ~Continue(a)
  BY <1>3, <1>5 DEF Continue, Created, PreClosed, Enabled, ReClosed, Disabled, DisableClosed,
     CleanupClosed, Removed, RemoveClosed, At, AwaitsRealization
<1>7. ~(\/ \E i \in Instance : BeginDrain(a, i)
        \/ BeginWaited(a) \/ CloseForDrain(a) \/ ReleaseDrain(a))
  BY DEF BeginDrain, BeginWaited, CloseForDrain, ReleaseDrain, At, Idle, AwaitsRealization
<1> QED
  BY <1>1, <1>4, <1>5, <1>6, <1>7 DEF Moved

LEMMA AwaitedStaysSo ==
  ASSUME TypeOK, TypeOK', Base, Held, Kinds, ~StoreMayFail, Next, NEW a \in Actor,
         NEW r \in Real, AwaitedBy(a, r), Live(r)
  PROVE  act'[a] = act[a]
BY AwaitedStays DEF AwaitedBy, AwaitsRealization

(***************************************************************************)
(* How a drainer moves                                                     *)
(***************************************************************************)
\* It asks for an instance, or looks again whether it may have it.
Asks(d) ==
  /\ OnlyActs(d) /\ UNCHANGED <<stored, intents, rt, real, closing>>
  /\ act'[d].pc \in {"granted", "beginWait"}
  /\ act'[d].pc = "granted" => Tracked(act'[d].inst) = {}
  /\ \/ /\ At(d, "idle") /\ act'[d].inst \notin drained /\ ~closing
        /\ drained' = drained \cup {act'[d].inst}
     \/ /\ At(d, "beginWait") /\ act'[d].inst = act[d].inst
        /\ drained' = drained

\* It lets go of it.
Releases(d) ==
  /\ OnlyActs(d) /\ UNCHANGED <<stored, intents, rt, real, closing>>
  /\ Granted(d) /\ act'[d].pc = "done"
  /\ drained' = drained \ {act[d].inst}

\* It drains it; a drain that passed has found nothing left.
GoesOn(d) ==
  /\ OnlyActs(d)
  /\ Granted(d) /\ act'[d].pc \notin {"idle", "done", "beginWait"}
  /\ act'[d].inst = act[d].inst /\ drained' = drained
  /\ act'[d].pc = "drained" =>
       /\ ConnectionNames(act[d].inst) = {} /\ ~closing
       /\ UNCHANGED <<intents, rt, real, closing>>

LEMMA AsksEffect ==
  ASSUME TypeOK, TypeOK', Base, ShutOrder, Held, Kinds, NEW d \in Drainer,
         (\E i \in Instance : BeginDrain(d, i)) \/ BeginWaited(d)
  PROVE  Asks(d)
<1>0. d \in Actor /\ act[d] \in HandlerFields
  BY DEF Actor, TypeOK, Handler
<1>1. ASSUME NEW i \in Instance, BeginDrain(d, i)
      PROVE  Asks(d)
  <2> DEFINE pc == IF Tracked(i) = {} THEN "granted" ELSE "beginWait"
             x == [Frame(pc) EXCEPT !.inst = i, !.wait = Tracked(i)]
  <2>1. act'[d] = x /\ OnlyActs(d)
    BY <1>0, <1>1, DoEffect DEF BeginDrain
  <2>2. x.pc = pc /\ x.inst = i
    BY DEF Frame
  <2>3. /\ act[d].pc = "idle" /\ i \notin drained /\ drained' = drained \cup {i}
        /\ UNCHANGED <<stored, intents, rt, real, closing>> /\ ~closing
    BY <1>1 DEF BeginDrain, Idle, Serving, ShutOrder
  <2> HIDE DEF x
  <2> QED
    BY <2>1, <2>2, <2>3 DEF Asks, At
<1>2. ASSUME BeginWaited(d)
      PROVE  Asks(d)
  <2> DEFINE w == Tracked(act[d].inst)
             pc == IF w = {} THEN "granted" ELSE "beginWait"
             x == [act[d] EXCEPT !.pc = pc, !.wait = w]
  <2>1. act'[d] = x /\ OnlyActs(d)
    BY <1>0, <1>2, DoEffect DEF BeginWaited
  <2>2. x.pc = pc /\ x.inst = act[d].inst
    BY <1>0 DEF HandlerFields
  <2>3. /\ act[d].pc = "beginWait" /\ drained' = drained
        /\ UNCHANGED <<stored, intents, rt, real, closing>>
    BY <1>2 DEF BeginWaited, At, IntentsUnchanged
  <2> HIDE DEF x
  <2> QED
    BY <2>1, <2>2, <2>3 DEF Asks, At
<1> QED
  BY <1>1, <1>2

LEMMA ReleasesEffect ==
  ASSUME TypeOK, NEW d \in Drainer, ReleaseDrain(d)
  PROVE  Releases(d)
<1>0. d \in Actor /\ Done.pc = "done"
  BY DEF Actor, Done, Frame
<1>1. act'[d] = Done /\ OnlyActs(d)
  BY <1>0, DoEffect DEF ReleaseDrain
<1> QED
  BY <1>0, <1>1 DEF Releases, ReleaseDrain, Granted

LEMMA VerdictGoesOn ==
  ASSUME TypeOK, ShutOrder, NEW d \in Drainer, act[d].pc \in Drains, Verdict(d),
         UNCHANGED <<intents, rt, real, closing, drained>>
  PROVE  GoesOn(d)
<1>0. d \in Actor /\ d \notin Request
  BY Constants DEF Actor
<1> DEFINE i == act[d].inst
           passed == ConnectionNames(i) = {} /\ shut.pc = "open"
           x == [Frame(IF passed THEN "drained" ELSE "refused") EXCEPT !.inst = i]
<1>1. act'[d] = x /\ OnlyActs(d)
  BY <1>0, DoEffect DEF Verdict
<1>2. x.pc = (IF passed THEN "drained" ELSE "refused") /\ x.inst = i
  BY DEF Frame
<1> HIDE DEF x
<1> QED
  BY <1>1, <1>2 DEF GoesOn, Granted, Drains, ShutOrder

LEMMA DrainGoesOn ==
  ASSUME TypeOK, ShutOrder, NEW d \in Drainer, Drain(d) \/ CloseForDrain(d)
  PROVE  GoesOn(d)
<1> DEFINE h == act[d]
<1>0. d \in Actor /\ d \notin Request
  BY Constants DEF Actor
<1>t. h \in HandlerFields
  BY <1>0 DEF TypeOK, Handler
<1>d. drained' = drained
  BY DEF Drain, CloseForDrain, DrainStored, DrainWaited, DrainNext, DrainClosed, SessionsVisited,
     CleanNext, CleanClosed, DrainVerdict, IntentsUnchanged
<1>g. h.pc \in Drains \cup {"granted"}
  BY DEF Drain, CloseForDrain, DrainStored, DrainWaited, DrainNext, DrainClosed, SessionsVisited,
     CleanNext, CleanClosed, DrainVerdict, At, Drains
<1>x. ASSUME NEW x, Do(d, x), x.pc \in Drains, x.inst = h.inst
      PROVE  GoesOn(d)
  <2>1. act'[d] = x /\ OnlyActs(d)
    BY <1>0, <1>x, DoEffect
  <2> QED
    BY <1>d, <1>g, <1>x, <2>1 DEF GoesOn, Granted, Drains
<1>1. ASSUME NEW pc \in Drains, Later(d, pc)
      PROVE  GoesOn(d)
  <2> DEFINE x == [h EXCEPT !.pc = pc]
  <2>1. x.pc = pc /\ x.inst = h.inst
    BY <1>t DEF HandlerFields
  <2>2. Do(d, x)
    BY <1>1 DEF Later
  <2> HIDE DEF x
  <2> QED
    BY <1>x, <2>1, <2>2
<1>2. CASE CloseForDrain(d)
  BY <1>1, <1>2 DEF CloseForDrain, Drains
<1>3. CASE DrainStored(d)
  <2>1. PICK T, w : Do(d, [h EXCEPT !.pc = "drainWait", !.todo = T, !.wait = w])
    BY <1>3 DEF DrainStored
  <2> DEFINE x == [h EXCEPT !.pc = "drainWait", !.todo = T, !.wait = w]
  <2>2. x.pc = "drainWait" /\ x.inst = h.inst
    BY <1>t DEF HandlerFields
  <2> HIDE DEF x
  <2> QED
    BY <1>x, <2>1, <2>2 DEF x, Drains
<1>4. CASE DrainWaited(d)
  <2> DEFINE x == [h EXCEPT !.pc = "drainLoop", !.wait = {}]
  <2>1. Do(d, x)
    BY <1>4 DEF DrainWaited
  <2>2. x.pc = "drainLoop" /\ x.inst = h.inst
    BY <1>t DEF HandlerFields
  <2> HIDE DEF x
  <2> QED
    BY <1>x, <2>1, <2>2 DEF Drains
<1>5. CASE DrainNext(d)
  <2>1. h.pc = "drainLoop"
    BY <1>5 DEF DrainNext, At
  <2>2. PICK o \in h.todo :
          \/ Do(d, [h EXCEPT !.todo = @ \ {o}])
          \/ Do(d, [[h EXCEPT !.todo = @ \ {o}] EXCEPT !.pc = "drainClose", !.obj = o,
                                                        !.sess = rt[o].session])
    BY <1>5 DEF DrainNext
  <2> DEFINE x == [h EXCEPT !.todo = @ \ {o}]
             y == [x EXCEPT !.pc = "drainClose", !.obj = o, !.sess = rt[o].session]
  <2>3. x.pc = "drainLoop" /\ y.pc = "drainClose" /\ x.inst = h.inst /\ y.inst = h.inst
    BY <1>t, <2>1 DEF HandlerFields
  <2>4. Do(d, x) \/ Do(d, y)
    BY <2>2
  <2> HIDE DEF x, y
  <2> QED
    BY <1>x, <2>3, <2>4 DEF Drains
<1>6. CASE DrainClosed(d) \/ CleanClosed(d)
  BY <1>1, <1>6 DEF DrainClosed, CleanClosed, Drains
<1>7. CASE SessionsVisited(d)
  <2>1. PICK S : Do(d, [h EXCEPT !.pc = "cleanLoop", !.obj = NoObj, !.sess = 0, !.clean = S])
    BY <1>7 DEF SessionsVisited
  <2> DEFINE x == [h EXCEPT !.pc = "cleanLoop", !.obj = NoObj, !.sess = 0, !.clean = S]
  <2>2. x.pc = "cleanLoop" /\ x.inst = h.inst
    BY <1>t DEF HandlerFields
  <2>3. Do(d, x)
    BY <2>1
  <2> HIDE DEF x
  <2> QED
    BY <1>x, <2>2, <2>3 DEF Drains
<1>8. CASE CleanNext(d)
  <2>1. PICK c \in h.clean :
          Do(d, [h EXCEPT !.pc = "cleanClose", !.sess = c.session, !.clean = @ \ {c}])
    BY <1>8 DEF CleanNext
  <2> DEFINE x == [h EXCEPT !.pc = "cleanClose", !.sess = c.session, !.clean = @ \ {c}]
  <2>2. x.pc = "cleanClose" /\ x.inst = h.inst
    BY <1>t DEF HandlerFields
  <2>3. Do(d, x)
    BY <2>1
  <2> HIDE DEF x
  <2> QED
    BY <1>x, <2>2, <2>3 DEF Drains
<1>9. CASE DrainVerdict(d)
  BY <1>9, <1>d, VerdictGoesOn DEF DrainVerdict, At, Drains, IntentsUnchanged
<1> QED
  BY <1>2, <1>3, <1>4, <1>5, <1>6, <1>7, <1>8, <1>9 DEF Drain

LEMMA DrainerSteps ==
  ASSUME TypeOK, TypeOK', Base, ShutOrder, Held, Kinds, ~StoreMayFail, Next, NEW d \in Drainer
  PROVE  act'[d] = act[d] \/ Asks(d) \/ Releases(d) \/ GoesOn(d)
<1> SUFFICES ASSUME act'[d] # act[d]
             PROVE  Asks(d) \/ Releases(d) \/ GoesOn(d)
  OBVIOUS
<1>1. Moved(d) /\ d \notin Request
  BY MovedIf, Constants DEF Actor
<1> QED
  BY <1>1, AsksEffect, ReleasesEffect, DrainGoesOn DEF Moved

(***************************************************************************)
(* An instance that is drained is held by one drainer and opened by nobody *)
(***************************************************************************)
LEMMA DrainedSteps ==
  ASSUME ~StoreMayFail, Next
  PROVE  \/ drained' = drained
         \/ \E d \in Drainer : (\E i \in Instance : BeginDrain(d, i)) \/ ReleaseDrain(d)
<1>1. ASSUME NEW a, Drain(a)
      PROVE  drained' = drained
  BY <1>1 DEF Drain, DrainStored, DrainWaited, DrainNext, DrainClosed, SessionsVisited, CleanNext,
     CleanClosed, DrainVerdict, IntentsUnchanged
<1>2. ASSUME NEW q \in Request, Start(q)
      PROVE  drained' = drained
  BY <1>2 DEF Start, Create, Enable, Disable, Retry, Remove, IntentsUnchanged
<1>3. ASSUME NEW q \in Request, Continue(q)
      PROVE  drained' = drained
  BY <1>1, <1>3 DEF Continue, Created, PreClosed, Enabled, ReClosed, Disabled, DisableWaited,
     DisableClosed, CleanupClosed, Removed, RemoveWaited, RemoveClosed, IntentsUnchanged
<1>4. ASSUME NEW r \in Real, Session(r) \/ TransportDies(r)
      PROVE  drained' = drained
  BY <1>4 DEF Session, Answer, OpenRejects, OpenResolves, LateClosed, ClosureNoticed,
     CloseSettles, TransportDies
<1>5. ASSUME NEW d \in Drainer, BeginWaited(d) \/ CloseForDrain(d)
      PROVE  drained' = drained
  BY <1>5 DEF BeginWaited, CloseForDrain, IntentsUnchanged
<1>6. ASSUME \/ \E n \in Name : Restore(n)
             \/ Restored \/ Stop \/ Shutdown
      PROVE  drained' = drained
  BY <1>6 DEF Restore, Restored, Stop, Shutdown, CloseService, CloseSessions, Closed
<1>7. \A a : ~StoreThrows(a) /\ ~DrainStoreThrows(a)
  BY DEF StoreThrows, DrainStoreThrows
<1> QED
  BY <1>1, <1>2, <1>3, <1>4, <1>5, <1>6, <1>7 DEF Next

LEMMA OneDrainKept ==
  ASSUME TypeOK, TypeOK', Base, ShutOrder, Held, Kinds, OneDrain, ~StoreMayFail, Next
  PROVE  OneDrain'
<1>0. \A d \in Drainer : d \in Actor
  BY DEF Actor
<1>1. \A d \in Drainer : act'[d] = act[d] \/ Asks(d) \/ Releases(d) \/ GoesOn(d)
  BY DrainerSteps
<1>2. CASE drained' = drained
  <2>1. ASSUME NEW d \in Drainer, Holds(d)'
        PROVE  Holds(d) /\ act'[d].inst = act[d].inst
    BY <1>1, <1>2, <2>1 DEF Asks, Releases, GoesOn, Holds, Granted, At
  <2> QED
    BY <1>2, <2>1 DEF OneDrain, Holds
<1>3. ASSUME NEW d \in Drainer, NEW i \in Instance, BeginDrain(d, i)
      PROVE  OneDrain'
  <2>1. Asks(d) /\ act[d].pc = "idle"
    BY <1>3, AsksEffect DEF BeginDrain, Idle
  <2>2. \A e \in Drainer : e # d => act'[e] = act[e]
    BY <1>0, <2>1 DEF Asks, OnlyActs
  <2>3. act'[d].inst \notin drained /\ drained' = drained \cup {act'[d].inst}
    BY <2>1 DEF Asks, At
  <2> QED
    BY <2>2, <2>3 DEF OneDrain, Holds
<1>4. ASSUME NEW d \in Drainer, ReleaseDrain(d)
      PROVE  OneDrain'
  <2>1. Releases(d)
    BY <1>4, ReleasesEffect
  <2>2. \A e \in Drainer : e # d => act'[e] = act[e]
    BY <1>0, <2>1 DEF Releases, OnlyActs
  <2>3. Holds(d) /\ act'[d].pc = "done" /\ drained' = drained \ {act[d].inst}
    BY <2>1 DEF Releases, Granted, Holds
  <2> QED
    BY <2>2, <2>3 DEF OneDrain, Holds
<1> QED
  BY <1>2, <1>3, <1>4, DrainedSteps

\* A call that starts to open a connection of an instance finds it not drained.
LEMMA StartMoves ==
  ASSUME TypeOK, TypeOK', Base, Held, Kinds, ~StoreMayFail, Next, NEW q \in Request,
         act'[q] # act[q], act'[q].tracked, act'[q].pc \in {"createStore", "preClose", "enableStore"}
  PROVE  \/ act'[q].inst \notin drained
         \/ act[q].pc = "preClose" /\ act[q].tracked /\ act[q].inst = act'[q].inst
<1>0. q \in Actor /\ q \notin Drainer /\ act[q] \in HandlerFields
  BY Constants DEF Actor, TypeOK, Handler
<1>1. Start(q) \/ Continue(q)
  BY <1>0, MovedIf DEF Moved
<1>2. CASE Continue(q)
  <2>1. PreClosed(q) /\ act[q].pc = "preClose"
    BY <1>2, ContinueGoes DEF PreClosed, At, StartPC
  <2>2. Do(q, Done) \/ Do(q, [act[q] EXCEPT !.pc = "enableStore"])
    BY <2>1 DEF PreClosed, Later
  <2> DEFINE x == [act[q] EXCEPT !.pc = "enableStore"]
  <2>3. Done.pc = "done" /\ x.inst = act[q].inst /\ x.tracked = act[q].tracked
    BY <1>0 DEF Done, Frame, HandlerFields
  <2>4. act'[q] = Done \/ act'[q] = x
    BY <1>0, <2>2, DoEffect
  <2> HIDE DEF x
  <2> QED
    BY <2>1, <2>3, <2>4
<1>3. ASSUME NEW n \in Name, NEW i \in Instance, NEW en \in BOOLEAN, Create(q, n, i, en)
      PROVE  act'[q].inst \notin drained
  <2> DEFINE x == [Frame("createStore") EXCEPT !.name = n, !.inst = i, !.en = en, !.tracked = TRUE]
  <2>1. act'[q] = x /\ i \notin drained
    BY <1>0, <1>3, DoEffect DEF Create
  <2>2. x.inst = i
    BY DEF Frame
  <2> QED
    BY <2>1, <2>2
<1>4. ASSUME NEW n \in Name, Enable(q, n)
      PROVE  act'[q].inst \notin drained
  <2> DEFINE o == Current(n)
             f == [Frame("enableStore") EXCEPT !.name = n, !.obj = o, !.inst = rt[o].inst,
                                               !.sess = rt[o].session, !.tracked = TRUE]
             g == [f EXCEPT !.pc = "preClose"]
             h == [Frame("enableStore") EXCEPT !.name = n]
  <2>1. f.inst = rt[o].inst /\ g.inst = rt[o].inst /\ ~h.tracked
    BY DEF Frame
  <2>2. CASE intents[n] = 0
    <3>1. act'[q] = h
      BY <1>0, <1>4, <2>2, DoEffect DEF Enable
    <3> QED
      BY <2>1, <3>1
  <2>3. CASE intents[n] # 0
    <3>1. rt[o].inst \notin drained /\ (Do(q, f) \/ Do(q, g))
      BY <1>4, <2>3 DEF Enable
    <3>2. act'[q] = f \/ act'[q] = g
      BY <1>0, <3>1, DoEffect
    <3> QED
      BY <2>1, <3>1, <3>2
  <2> QED
    BY <2>2, <2>3
<1>5. ASSUME NEW n \in Name, Disable(q, n)
      PROVE  FALSE
  <2> DEFINE o == Current(n)
             f == [Frame("disableStore") EXCEPT !.name = n, !.obj = o, !.inst = rt[o].inst,
                                                !.sess = rt[o].session, !.tracked = TRUE]
             g == [f EXCEPT !.pc = "reClose"]
             h == [Frame("disableStore") EXCEPT !.name = n]
  <2>1. f.pc = "disableStore" /\ g.pc = "reClose" /\ h.pc = "disableStore"
    BY DEF Frame
  <2>2. Do(q, f) \/ Do(q, g) \/ Do(q, h)
    BY <1>5 DEF Disable
  <2>3. act'[q] = f \/ act'[q] = g \/ act'[q] = h
    BY <1>0, <2>2, DoEffect
  <2> QED
    BY <2>1, <2>3
<1>6. ASSUME NEW n \in Name, Remove(q, n)
      PROVE  FALSE
  <2> DEFINE f == IF intents[n] = 0 THEN [Frame("removeStore") EXCEPT !.name = n]
                  ELSE [Frame("removeStore") EXCEPT
                          !.name = n, !.obj = Current(n), !.inst = rt[Current(n)].inst,
                          !.tracked = TRUE]
             g(c) == [f EXCEPT !.pc = "cleanupClose", !.sess = c.session]
  <2>1. f.pc = "removeStore" /\ \A c : g(c).pc = "cleanupClose"
    BY DEF Frame
  <2>2. Do(q, f) \/ \E c : Do(q, g(c))
    BY <1>6 DEF Remove
  <2> HIDE DEF f, g
  <2>3. act'[q] = f \/ \E c : act'[q] = g(c)
    BY <1>0, <2>2, DoEffect
  <2> QED
    BY <2>1, <2>3
<1>7. ASSUME NEW n \in Name, Retry(q, n)
      PROVE  FALSE
  <2>1. act'[q] = Done /\ Done.pc = "done"
    BY <1>0, <1>7, DoEffect DEF Retry, Done, Frame
  <2> QED
    BY <2>1
<1>8. Start(q) => act'[q].inst \notin drained
  BY <1>3, <1>4, <1>5, <1>6, <1>7 DEF Start
<1> QED
  BY <1>1, <1>2, <1>8

LEMMA NoStartsKept ==
  ASSUME TypeOK, TypeOK', Base, ShutOrder, Held, Kinds, Barred, ~StoreMayFail, Next
  PROVE  NoStarts'
<1> SUFFICES ASSUME NEW d \in Drainer, Granted(d)', NEW q \in Request,
                    act'[q].tracked, act'[q].inst = act'[d].inst,
                    act'[q].pc \in {"createStore", "preClose", "enableStore"}
             PROVE  FALSE
  BY DEF NoStarts
<1>0. q \in Actor /\ q # d
  BY Constants DEF Actor
<1>1. CASE Asks(d)
  <2>1. Tracked(act'[d].inst) = {} /\ act'[q] = act[q]
    BY <1>0, <1>1 DEF Asks, Granted, OnlyActs
  <2> QED
    BY <2>1 DEF Tracked
<1>2. CASE Releases(d)
  BY <1>2 DEF Releases, Granted
<1>3. CASE act'[d] = act[d] \/ GoesOn(d)
  <2>1. Granted(d) /\ act'[d].inst = act[d].inst
    BY <1>3 DEF GoesOn, Granted
  <2>2. act[d].inst \in drained
    BY <2>1 DEF Barred, OneDrain, Holds, Granted
  <2>3. CASE act'[q] = act[q]
    BY <2>1, <2>3 DEF Barred, NoStarts
  <2>4. CASE act'[q] # act[q]
    <3>1. act[q].pc = "preClose" /\ act[q].tracked /\ act[q].inst = act[d].inst
      BY <2>1, <2>2, <2>4, StartMoves
    <3> QED
      BY <2>1, <3>1 DEF Barred, NoStarts
  <2> QED
    BY <2>3, <2>4
<1> QED
  BY <1>1, <1>2, <1>3, DrainerSteps

(***************************************************************************)
(* The realizations of the objects                                         *)
(***************************************************************************)
\* The ways a step changes the runtime objects, when the calls on a name are in turn.
LEMMA ObjectMoves ==
  ASSUME TypeOK, Base, Held, Kinds
  PROVE  \/ rt' = rt
         \/ \E o \in Obj : Forgets(o)
         \/ \E o \in Obj : Registers(o) /\ Alone(o)
         \/ \E o \in Obj : EnablesLate(o) /\ StartsClean(o)
         \/ \E o \in Obj, r \in Real : Starts(o, r) /\ StartsClean(o)
         \/ \E o \in Obj : Removes(o)
         \/ \E T : Disables(T) /\ Awaits(T)
         \/ Closes
         \/ \E r \in Real, o \in Obj : \/ Rejected(r, o) \/ Resolved(r, o)
                                       \/ EndedLate(r, o) \/ Noticed(r, o)
<1>1. ObjectKinds
  BY ObjectSteps
<1>2. CASE \E o \in Obj : \/ ForgetsEnded(o) \/ (Registers(o) /\ (Held => Alone(o)))
                          \/ (EnablesLate(o) /\ (Held => StartsClean(o)))
                          \/ (\E r \in Real : Starts(o, r) /\ (Held => StartsClean(o)))
  <2>1. PICK o \in Obj : \/ ForgetsEnded(o) \/ (Registers(o) /\ (Held => Alone(o)))
                          \/ (EnablesLate(o) /\ (Held => StartsClean(o)))
                          \/ (\E r \in Real : Starts(o, r) /\ (Held => StartsClean(o)))
    BY <1>2
  <2>2. ForgetsEnded(o) => Forgets(o)
    BY DEF ForgetsEnded
  <2> QED
    BY <2>1, <2>2, Zenon
<1> QED
  BY <1>1, <1>2, Zenon DEF ObjectKinds

\* An object waits for another realization only once it is started, or when the one
\* it waited for has ended.
LEMMA RealizationSteps ==
  ASSUME TypeOK, TypeOK', Base, Held, Kinds
  PROVE  \A x \in Obj :
           \/ rt'[x].realization = rt[x].realization
           \/ EnablesLate(x) /\ StartsClean(x)
           \/ Registers(x) /\ Alone(x)
           \/ \E r \in Real : Starts(x, r) /\ StartsClean(x)
           \/ rt'[x].realization = 0 /\ rt[x].realization \in Real
              /\ real'[rt[x].realization].pc = "done"
<1> DEFINE P(x) == \/ rt'[x].realization = rt[x].realization
                   \/ EnablesLate(x) /\ StartsClean(x)
                   \/ Registers(x) /\ Alone(x)
                   \/ \E r \in Real : Starts(x, r) /\ StartsClean(x)
                   \/ rt'[x].realization = 0 /\ rt[x].realization \in Real
                      /\ real'[rt[x].realization].pc = "done"
<1>1. ASSUME NEW o \in Obj, Forgets(o)
      PROVE  \A x \in Obj : P(x)
  <2>1. \A x \in Obj : rt'[x].realization = rt[x].realization
    BY <1>1 DEF Forgets, TypeOK, RuntimeIntent
  <2> QED
    BY <2>1
<1>2. ASSUME NEW o \in Obj, Registers(o), Alone(o)
      PROVE  \A x \in Obj : P(x)
  <2>1. \A x \in Obj : x # o => rt'[x] = rt[x]
    BY <1>2 DEF Registers
  <2> QED
    BY <1>2, <2>1
<1>3. ASSUME NEW o \in Obj, EnablesLate(o), StartsClean(o)
      PROVE  \A x \in Obj : P(x)
  <2>1. \A x \in Obj : x # o => rt'[x] = rt[x]
    BY <1>3 DEF EnablesLate, Supersedes
  <2> QED
    BY <1>3, <2>1
<1>4. ASSUME NEW o \in Obj, NEW r \in Real, Starts(o, r), StartsClean(o)
      PROVE  \A x \in Obj : P(x)
  <2>1. \A x \in Obj : x # o => rt'[x] = rt[x]
    BY <1>4 DEF Starts
  <2> QED
    BY <1>4, <2>1
<1>5. ASSUME NEW T, Disables(T)
      PROVE  \A x \in Obj : P(x)
  <2>1. \A x \in Obj : rt'[x].realization = rt[x].realization
    BY <1>5 DEF Disables, Supersedes
  <2> QED
    BY <2>1
<1>6. ASSUME NEW o \in Obj, Removes(o)
      PROVE  \A x \in Obj : P(x)
  <2>1. \A x \in Obj : rt'[x].realization = rt[x].realization
    BY <1>6 DEF Removes, Supersedes
  <2> QED
    BY <2>1
<1>7. Closes => \A x \in Obj : P(x)
  <2>1. Closes => \A x \in Obj : rt'[x].realization = rt[x].realization
    BY DEF Closes
  <2> QED
    BY <2>1
<1>8. ASSUME NEW r \in Real, NEW o \in Obj, Noticed(r, o)
      PROVE  \A x \in Obj : P(x)
  <2>1. \A x \in Obj : rt'[x].realization = rt[x].realization
    BY <1>8 DEF Noticed, Ends
  <2> QED
    BY <2>1
<1>9. ASSUME NEW r \in Real, NEW o \in Obj, Rejected(r, o) \/ Resolved(r, o) \/ EndedLate(r, o)
      PROVE  \A x \in Obj : P(x)
  <2>1. /\ \A x \in Obj : x # o => rt'[x] = rt[x]
        /\ rt'[o].realization = Unlink(o, r) /\ real'[r].pc = "done"
    BY <1>9 DEF Rejected, Resolved, EndedLate, Ends
  <2>2. rt'[o].realization = rt[o].realization \/ (rt'[o].realization = 0 /\ rt[o].realization = r)
    BY <2>1 DEF Unlink
  <2> QED
    BY <2>1, <2>2
<1>10. ASSUME rt' = rt
       PROVE  \A x \in Obj : P(x)
  BY <1>10
<1> HIDE DEF P
<1>11. \A x \in Obj : P(x)
  BY <1>1, <1>2, <1>3, <1>4, <1>5, <1>6, <1>7, <1>8, <1>9, <1>10, ObjectMoves, Zenon
<1> QED
  BY <1>11 DEF P

\* An object that waits for the opening of its connection goes on doing so, or a handler
\* that disables it waits in its stead.
LEMMA AwaitingSteps ==
  ASSUME TypeOK, TypeOK', Base, Held, Kinds, NEW x \in Obj, rt[x].used, rt[x].enabled,
         rt[x].status = "starting", rt[x].realization # 0,
         rt'[x].realization = rt[x].realization
  PROVE  \/ rt'[x].enabled /\ rt'[x].status = "starting"
         \/ ~rt'[x].enabled /\ \E T : x \in T /\ Awaits(T)
<1> DEFINE P == \/ rt'[x].enabled /\ rt'[x].status = "starting"
                \/ ~rt'[x].enabled /\ \E T : x \in T /\ Awaits(T)
<1>1. ASSUME NEW o \in Obj, Forgets(o)
      PROVE  P
  <2>1. rt \in [Obj -> RuntimeIntent] /\ rt' = [rt EXCEPT ![o].session = 0]
    BY <1>1 DEF Forgets, TypeOK
  <2>2. rt'[x].enabled = rt[x].enabled /\ rt'[x].status = rt[x].status
    BY <2>1 DEF RuntimeIntent
  <2> QED
    BY <2>2
<1>2. ASSUME NEW o \in Obj, Registers(o)
      PROVE  P
  BY <1>2 DEF Registers
<1>3. ASSUME NEW o \in Obj, EnablesLate(o)
      PROVE  P
  BY <1>3 DEF EnablesLate, Supersedes
<1>4. ASSUME NEW o \in Obj, NEW r \in Real, Starts(o, r)
      PROVE  P
  <2>1. \A y \in Obj : y # o => rt'[y] = rt[y]
    BY <1>4 DEF Starts
  <2>2. rt'[o].enabled /\ rt'[o].status = "starting"
    BY <1>4 DEF Starts
  <2> QED
    BY <2>1, <2>2
<1>5. ASSUME NEW T, Disables(T), Awaits(T)
      PROVE  P
  <2>1. /\ x \notin T => rt'[x] = rt[x]
        /\ x \in T => ~rt'[x].enabled
    BY <1>5 DEF Disables, Supersedes
  <2> QED
    BY <1>5, <2>1
<1>6. ASSUME NEW o \in Obj, Removes(o)
      PROVE  P
  <2>1. rt'[x].enabled = rt[x].enabled /\ rt'[x].status = rt[x].status
    BY <1>6 DEF Removes, Supersedes
  <2> QED
    BY <2>1
<1>7. Closes => P
  BY DEF Closes
<1>8. ASSUME NEW r \in Real, NEW o \in Obj, Noticed(r, o)
      PROVE  P
  BY <1>8 DEF Noticed, Ends
<1>9. ASSUME NEW r \in Real, NEW o \in Obj, Rejected(r, o) \/ Resolved(r, o)
      PROVE  P
  <2>1. /\ \A y \in Obj : y # o => rt'[y] = rt[y]
        /\ rt'[o].enabled = rt[o].enabled /\ rt'[o].realization = Unlink(o, r)
        /\ real[r].obj = o /\ real[r].pc = "opening"
        /\ StillWanted(r) \/ rt'[o].status = rt[o].status
    BY <1>9 DEF Rejected, Resolved, Ends
  <2>2. CASE StillWanted(r)
    <3>1. rt[o].realization = r /\ rt'[o].realization = 0
      BY <2>1, <2>2 DEF Base, CurrentIsLinked, StillWanted, Unlink
    <3>2. x # o
      BY <3>1
    <3> QED
      BY <2>1, <3>2
  <2>3. CASE ~StillWanted(r)
    BY <2>1, <2>3
  <2> QED
    BY <2>2, <2>3
<1>10. ASSUME NEW r \in Real, NEW o \in Obj, EndedLate(r, o)
       PROVE  P
  BY <1>10 DEF EndedLate, Ends
<1>11. ASSUME rt' = rt
       PROVE  P
  BY <1>11
<1> HIDE DEF P
<1>12. P
  BY <1>1, <1>2, <1>3, <1>4, <1>5, <1>6, <1>7, <1>8, <1>9, <1>10, <1>11, ObjectMoves, Zenon
<1> QED
  BY <1>12 DEF P

\* An object that is used for the first time is registered by the step.
LEMMA FirstUse ==
  ASSUME TypeOK, TypeOK', Base, Held, Kinds, NEW x \in Obj, ~rt[x].used, rt'[x].used
  PROVE  Alone(x)
<1>1. ASSUME NEW o \in Obj, Forgets(o)
      PROVE  FALSE
  BY <1>1 DEF Forgets, TypeOK, RuntimeIntent
<1>2. ASSUME NEW o \in Obj, Registers(o), Alone(o)
      PROVE  Alone(x)
  BY <1>2 DEF Registers
<1>3. ASSUME NEW o \in Obj, NEW r \in Real, Starts(o, r), StartsClean(o)
      PROVE  Alone(x)
  <2>1. x = o
    BY <1>3 DEF Starts
  <2> QED
    BY <1>3, <2>1 DEF StartsClean
<1>4. ASSUME NEW T, Supersedes(T)
      PROVE  FALSE
  BY <1>4 DEF Supersedes
<1>5. ASSUME NEW r, NEW o, Ends(r, o)
      PROVE  FALSE
  BY <1>5 DEF Ends
<1>6. rt' # rt
  OBVIOUS
<1>7. /\ \A T : ~Disables(T)
      /\ \A o \in Obj : ~Removes(o) /\ ~EnablesLate(o)
      /\ ~Closes
  BY <1>4 DEF Disables, Removes, Closes, EnablesLate
<1>8. \A r \in Real, o \in Obj : ~Rejected(r, o) /\ ~Resolved(r, o)
                                /\ ~EndedLate(r, o) /\ ~Noticed(r, o)
  BY <1>5 DEF Rejected, Resolved, EndedLate, Noticed
<1> QED
  BY <1>1, <1>2, <1>3, <1>6, <1>7, <1>8, ObjectMoves, Zenon

\* Nothing of an instance is started while a granted drain holds it.
LEMMA BarredHoldsBack ==
  ASSUME TypeOK, TypeOK', Base, Held, Kinds, Restoring, Barred, NEW d \in Drainer, Granted(d),
         NEW x \in Obj, StartedBy(x)
  PROVE  rt'[x].inst # act[d].inst
<1> SUFFICES ASSUME rt'[x].inst = act[d].inst
             PROVE  FALSE
  OBVIOUS
<1>1. act[d].inst \in drained /\ d \in Actor
  BY DEF Barred, OneDrain, Holds, Granted, Actor
<1>2. up
  BY <1>1 DEF Restoring, Granted
<1>3. rt[x].used => rt'[x].inst = rt[x].inst
  BY ObjectsStay
<1>4. \A q \in Request : act[q].tracked /\ act[q].inst = act[d].inst =>
        act[q].pc \notin {"createStore", "enableStore"}
  BY DEF Barred, NoStarts
<1> QED
  BY <1>1, <1>2, <1>3, <1>4 DEF StartedBy

(***************************************************************************)
(* Every realization is known or awaited                                   *)
(***************************************************************************)
LEMMA ClosingSteps ==
  ASSUME Next, ~closing'
  PROVE  ~closing
BY ShutSteps DEF Stop, CloseService, CloseSessions, Closed

\* A realization that begins is known to its object.
LEMMA FirstOpening ==
  ASSUME TypeOK, Base, Kinds, NEW r \in Real, real[r].pc = "unused", Live(r)'
  PROVE  \E o \in Obj : real'[r].obj = o /\ rt'[o].realization = r
<1>1. real'[r].pc # real[r].pc
  BY DEF Live
<1>2. ~SessionsMove
  BY <1>1 DEF SessionsMove, SameReal
<1>3. ASSUME NEW o \in Obj, Forgets(o) \/ Registers(o)
      PROVE  FALSE
  BY <1>1, <1>3 DEF Forgets, Registers
<1>4. ASSUME NEW T, Supersedes(T)
      PROVE  FALSE
  BY <1>1, <1>4 DEF Supersedes, Aborts, SameReal
<1>5. ASSUME NEW s \in Real, Answer(s) \/ LateClosed(s) \/ ClosureNoticed(s)
      PROVE  FALSE
  <2>1. EndKinds(s)
    BY <1>5, EndsEffect DEF Base
  <2>2. s = r
    BY <1>1, <2>1 DEF EndKinds, Rejected, Resolved, ResolvedLate, EndedLate, Noticed, Ends
  <2> QED
    BY <1>1, <2>1, <2>2 DEF EndKinds, Rejected, Resolved, ResolvedLate, EndedLate, Noticed, Base, Shape
<1>6. PICK o \in Obj, s \in Real : Starts(o, s)
  BY <1>2, <1>3, <1>4, <1>5 DEF Kinds, ForgetsEnded, Disables, Removes, EnablesLate, Closes
<1>7. s = r
  BY <1>1, <1>6 DEF Starts, SameReal
<1> QED
  BY <1>6, <1>7 DEF Starts

\* The object of a realization in progress, and what becomes of it.
LEMMA LiveObject ==
  ASSUME TypeOK, TypeOK', Base, Kinds, NEW r \in Real, Live(r)
  PROVE  /\ real[r].obj \in Obj /\ rt[real[r].obj].used /\ real'[r].obj = real[r].obj
         /\ rt'[real[r].obj].used /\ rt'[real[r].obj].inst = rt[real[r].obj].inst
<1>1. InUse(r) /\ real[r].pc # "unused"
  BY DEF Live, InUse
<1>2. real[r].obj \in Obj /\ rt[real[r].obj].used
  BY <1>1 DEF TypeOK, Realization, Base, Shape
<1> QED
  BY <1>1, <1>2, SessionsStay, ObjectsStay

LEMMA RealizationOf ==
  ASSUME TypeOK, Held, NEW o \in Obj, rt[o].realization # 0
  PROVE  rt[o].used /\ rt[o].realization \in Real /\ Live(rt[o].realization)
         /\ real[rt[o].realization].obj = o
BY DEF Held, SessionsOf, TypeOK, RuntimeIntent

\* An object that is started does not lose the realization it waited for: a call waits for it.
LEMMA StartedAwaited ==
  ASSUME TypeOK, TypeOK', Base, Held, Kinds, Barred, LinkedOrAwaited, ~closing,
         ~StoreMayFail, Next, NEW o \in Obj, NEW s \in Real, Starts(o, s), StartsClean(o),
         NEW r \in Real, rt[o].realization = r
  PROVE  \E q \in Request : AwaitedBy(q, r)'
<1>1. rt[o].used /\ r # 0 /\ Live(r) /\ Registered(o)
  BY RealizationOf, Constants DEF Starts
<1>2. IF rt[o].enabled THEN rt[o].status = "starting"
      ELSE \/ \E q \in Request : AwaitedBy(q, r)
           \/ \E d \in Drainer : AwaitedBy(d, r) /\ act[d].inst = rt[o].inst
  BY <1>1 DEF LinkedOrAwaited
<1>3. PICK p \in Request : act[p].tracked /\ act[p].pc = "enableStore" /\ act[p].inst = rt[o].inst
                           /\ ~rt[o].enabled
  BY <1>1, <1>2 DEF StartsClean, Alone, StartedBy
<1>4. ASSUME NEW d \in Drainer, AwaitedBy(d, r), act[d].inst = rt[o].inst
      PROVE  FALSE
  BY <1>3, <1>4 DEF Barred, NoStarts, Granted, AwaitedBy
<1>5. PICK q \in Request : AwaitedBy(q, r)
  BY <1>2, <1>3, <1>4
<1>6. act'[q] = act[q]
  BY <1>1, <1>5, AwaitedStaysSo DEF Actor
<1>7. act'[q].pc \in {"disableWait", "drainWait"} /\ r \in act'[q].wait
  BY <1>5, <1>6 DEF AwaitedBy
<1> QED
  BY <1>7 DEF AwaitedBy

LEMMA LinkedKept ==
  ASSUME TypeOK, TypeOK', Base, Held, Kinds, Barred, LinkedOrAwaited, ~closing', ~StoreMayFail,
         Next, NEW r \in Real, Live(r)'
  PROVE  rt'[real'[r].obj].realization = r \/ \E q \in Request : AwaitedBy(q, r)'
<1>1. ~closing
  BY ClosingSteps
<1>2. CASE real[r].pc = "unused"
  BY <1>2, FirstOpening
<1>3. CASE real[r].pc # "unused"
  <2>1. Live(r)
    BY <1>3, SessionsStay
  <2> DEFINE o == real[r].obj
  <2>2. o \in Obj /\ rt[o].used /\ real'[r].obj = o
    BY <2>1, LiveObject
  <2>3. CASE \E q \in Request : AwaitedBy(q, r)
    <3>1. PICK q \in Request : AwaitedBy(q, r)
      BY <2>3
    <3>2. act'[q] = act[q]
      BY <2>1, <3>1, AwaitedStaysSo DEF Actor
    <3> QED
      BY <3>1, <3>2 DEF AwaitedBy
  <2>4. CASE rt[o].realization = r
    <3>1. ~EnablesLate(o) /\ ~Registers(o)
      BY <1>1, <2>2 DEF EnablesLate, Registers
    <3>2. real'[r].pc # "done"
      BY DEF Live
    <3>3. ASSUME NEW s \in Real, Starts(o, s), StartsClean(o)
          PROVE  \E q \in Request : AwaitedBy(q, r)'
      BY <1>1, <2>2, <2>4, <3>3, StartedAwaited
    <3>4. \/ rt'[o].realization = rt[o].realization
          \/ \E s \in Real : Starts(o, s) /\ StartsClean(o)
      BY <2>2, <2>4, <3>1, <3>2, RealizationSteps
    <3> QED
      BY <2>2, <2>4, <3>3, <3>4
  <2>5. rt[o].realization = r \/ \E q \in Request : AwaitedBy(q, r)
    BY <1>1, <2>1 DEF LinkedOrAwaited
  <2> QED
    BY <2>3, <2>4, <2>5
<1> QED
  BY <1>2, <1>3

LEMMA AwaitingKept ==
  ASSUME TypeOK, TypeOK', Base, ShutOrder, Held, Kinds, Barred, LinkedOrAwaited, ~closing',
         ~StoreMayFail, Next, NEW o \in Obj, Registered(o)', NEW r, rt'[o].realization = r, r # 0
  PROVE  IF rt'[o].enabled THEN rt'[o].status = "starting"
         ELSE \/ \E q \in Request : AwaitedBy(q, r)'
              \/ \E d \in Drainer : AwaitedBy(d, r)' /\ act'[d].inst = rt'[o].inst
<1> DEFINE P == IF rt'[o].enabled THEN rt'[o].status = "starting"
                ELSE \/ \E q \in Request : AwaitedBy(q, r)'
                     \/ \E d \in Drainer : AwaitedBy(d, r)' /\ act'[d].inst = rt'[o].inst
<1>1. ~closing
  BY ClosingSteps
<1>2. ASSUME NEW s \in Real, Starts(o, s)
      PROVE  P
  BY <1>2 DEF Starts
<1>3. ~EnablesLate(o) /\ ~Registers(o)
  BY <1>1 DEF EnablesLate, Registers
<1>4. ASSUME rt'[o].realization = rt[o].realization, \A s \in Real : ~Starts(o, s)
      PROVE  P
  <2>1. rt[o].used /\ r \in Real /\ Live(r) /\ rt[o].realization = r
    BY <1>4, RealizationOf
  <2>2. Registered(o) /\ rt'[o].inst = rt[o].inst
    BY <2>1, ObjectsStay
  <2>3. IF rt[o].enabled THEN rt[o].status = "starting"
        ELSE \/ \E q \in Request : AwaitedBy(q, r)
             \/ \E d \in Drainer : AwaitedBy(d, r) /\ act[d].inst = rt[o].inst
    BY <1>1, <2>1, <2>2 DEF LinkedOrAwaited
  <2>4. CASE ~rt[o].enabled
    <3>1. ~rt'[o].enabled
      BY <1>3, <1>4, <2>1, <2>4, DisabledSteps
    <3>2. ASSUME NEW a \in Actor, AwaitedBy(a, r)
          PROVE  AwaitedBy(a, r)' /\ act'[a].inst = act[a].inst
      <4>1. act'[a] = act[a]
        BY <2>1, <3>2, AwaitedStaysSo
      <4> QED
        BY <3>2, <4>1 DEF AwaitedBy
    <3> QED
      BY <2>2, <2>3, <2>4, <3>1, <3>2 DEF Actor
  <2>5. CASE rt[o].enabled
    <3>1. CASE rt'[o].enabled /\ rt'[o].status = "starting"
      BY <3>1
    <3>2. ASSUME NEW T, o \in T, Awaits(T), ~rt'[o].enabled
          PROVE  P
      <4>1. PICK a \in Actor : /\ act'[a].pc \in {"disableWait", "drainWait"}
                               /\ rt[o].realization \in act'[a].wait
                               /\ a \in Drainer => act'[a].inst = rt[o].inst
        BY <2>1, <3>2 DEF Awaits
      <4>2. AwaitedBy(a, r)'
        BY <2>1, <4>1 DEF AwaitedBy
      <4> QED
        BY <2>2, <3>2, <4>1, <4>2 DEF Actor
    <3>3. \/ rt'[o].enabled /\ rt'[o].status = "starting"
          \/ ~rt'[o].enabled /\ \E T : o \in T /\ Awaits(T)
      BY <1>4, <2>1, <2>3, <2>5, AwaitingSteps
    <3> QED
      BY <3>1, <3>2, <3>3
  <2> QED
    BY <2>4, <2>5
<1>5. \/ rt'[o].realization = rt[o].realization
      \/ \E s \in Real : Starts(o, s)
  BY <1>3, RealizationSteps
<1> QED
  BY <1>2, <1>4, <1>5

LEMMA LinkedOrAwaitedKept ==
  ASSUME TypeOK, TypeOK', Base, ShutOrder, Held, Kinds, Barred, LinkedOrAwaited, ~StoreMayFail,
         Next
  PROVE  LinkedOrAwaited'
<1> SUFFICES ASSUME ~closing'
             PROVE  /\ \A r \in Real : Live(r)' =>
                         \/ rt'[real'[r].obj].realization = r
                         \/ \E q \in Request : AwaitedBy(q, r)'
                    /\ \A o \in Obj : (Registered(o)' /\ rt'[o].realization # 0) =>
                         IF rt'[o].enabled THEN rt'[o].status = "starting"
                         ELSE \/ \E q \in Request :
                                   /\ act'[q].pc \in {"disableWait", "drainWait"}
                                   /\ rt'[o].realization \in act'[q].wait
                              \/ \E d \in Drainer :
                                   /\ act'[d].pc \in {"disableWait", "drainWait"}
                                   /\ rt'[o].realization \in act'[d].wait
                                   /\ act'[d].inst = rt'[o].inst
  BY DEF LinkedOrAwaited, AwaitedBy
<1>1. ASSUME NEW o \in Obj, Registered(o)', NEW r, rt'[o].realization = r, r # 0
      PROVE  IF rt'[o].enabled THEN rt'[o].status = "starting"
             ELSE \/ \E q \in Request : /\ act'[q].pc \in {"disableWait", "drainWait"}
                                        /\ r \in act'[q].wait
                  \/ \E d \in Drainer : /\ act'[d].pc \in {"disableWait", "drainWait"}
                                        /\ r \in act'[d].wait
                                        /\ act'[d].inst = rt'[o].inst
  BY <1>1, AwaitingKept DEF AwaitedBy
<1> QED
  BY <1>1, LinkedKept

LEMMA RemovalWaitsKept ==
  ASSUME TypeOK, TypeOK', Base, Held, Kinds, RemovalWaits, ~StoreMayFail, Next
  PROVE  RemovalWaits'
<1>1. ASSUME NEW o \in Obj, ~Registered(o)', NEW r, rt'[o].realization = r, r # 0
      PROVE  \E q \in Request : /\ act'[q].pc = "removeWait" /\ act'[q].obj = o
                                /\ r \in act'[q].wait
  <2>1. ASSUME NEW s \in Real, Starts(o, s)
        PROVE  FALSE
    <3>1. intents' = [intents EXCEPT ![o[1]] = o[2]] /\ o[1] \in Name
      BY <2>1, Objects DEF Starts
    <3> QED
      BY <1>1, <3>1 DEF Registered, NameOf, TypeOK
  <2>2. ~EnablesLate(o) /\ ~Registers(o)
    BY <1>1 DEF EnablesLate, Registers
  <2>3. rt'[o].realization = rt[o].realization
    BY <1>1, <2>1, <2>2, RealizationSteps
  <2>4. r \in Real /\ Live(r) /\ rt[o].realization = r
    BY <1>1, <2>3, RealizationOf
  <2>5. CASE Registered(o)
    BY <1>1, <2>4, <2>5, RemovalBegins
  <2>6. CASE ~Registered(o)
    <3>1. PICK q \in Request : act[q].pc = "removeWait" /\ act[q].obj = o /\ r \in act[q].wait
      BY <1>1, <2>4, <2>6 DEF RemovalWaits, At
    <3>2. act'[q] = act[q]
      BY <2>4, <3>1, AwaitedStays DEF Actor, AwaitsRealization
    <3> QED
      BY <3>1, <3>2
  <2> QED
    BY <2>5, <2>6
<1> QED
  BY <1>1 DEF RemovalWaits, At

LEMMA DrainLinkedKept ==
  ASSUME TypeOK, TypeOK', Base, ShutOrder, Restoring, Held, Kinds, Barred, LinkedOrAwaited,
         DrainLinked, ~StoreMayFail, Next
  PROVE  DrainLinked'
<1> SUFFICES ASSUME NEW d \in Drainer, Granted(d)', ~closing' \/ act'[d].pc = "drained",
                    NEW i, act'[d].inst = i,
                    NEW r \in Real, Live(r)', rt'[real'[r].obj].inst = i
             PROVE  \/ rt'[real'[r].obj].realization = r
                    \/ \E q \in Request : AwaitedBy(q, r)' /\ ~(act'[q].tracked /\ act'[q].inst = i)
  BY DEF DrainLinked, Overtaken, AwaitedBy, At
<1> DEFINE o == real[r].obj
<1>1. CASE real[r].pc = "unused"
  BY <1>1, FirstOpening
<1>2. CASE real[r].pc # "unused"
  <2>1. Live(r)
    BY <1>2, SessionsStay
  <2>2. /\ o \in Obj /\ rt[o].used /\ real'[r].obj = o /\ rt[o].inst = i
        /\ rt'[o].inst = i
    BY <2>1, LiveObject
  <2>3. ASSUME NEW q \in Request, AwaitedBy(q, r)
        PROVE  AwaitedBy(q, r)' /\ act'[q] = act[q]
    <3>1. act'[q] = act[q]
      BY <2>1, <2>3, AwaitedStaysSo DEF Actor
    <3> QED
      BY <2>3, <3>1 DEF AwaitedBy
  <2>4. CASE Asks(d)
    <3>1. /\ ~closing' /\ UNCHANGED <<rt, real>> /\ Tracked(i) = {}
      BY <2>4 DEF Asks, Granted
    <3>2. rt[o].realization = r \/ \E q \in Request : AwaitedBy(q, r)
      BY <2>1, <3>1, ClosingSteps DEF LinkedOrAwaited
    <3>3. \A q \in Request : ~(act[q].tracked /\ act[q].inst = i)
      BY <3>1 DEF Tracked
    <3> QED
      BY <2>2, <2>3, <3>1, <3>2, <3>3
  <2>5. CASE Releases(d)
    BY <2>5 DEF Releases, Granted
  <2>6. CASE act'[d] = act[d] \/ GoesOn(d)
    <3>1. Granted(d) /\ act[d].inst = i
      BY <2>6 DEF GoesOn, Granted
    <3>2. ~closing \/ At(d, "drained")
      BY <2>6, ClosingSteps DEF GoesOn, At
    <3>3. rt[o].realization = r \/ Overtaken(r, i)
      BY <2>1, <2>2, <3>1, <3>2 DEF DrainLinked
    <3>4. CASE Overtaken(r, i)
      <4>1. PICK q \in Request : AwaitedBy(q, r) /\ ~(act[q].tracked /\ act[q].inst = i)
        BY <3>4 DEF Overtaken, AwaitedBy
      <4> QED
        BY <2>3, <4>1
    <3>5. CASE rt[o].realization = r
      <4>1. ~StartedBy(o)
        BY <2>2, <3>1, BarredHoldsBack
      <4>2. rt'[o].realization = rt[o].realization
        BY <2>2, <3>5, <4>1, RealizationSteps DEF StartsClean, Alone, Live
      <4> QED
        BY <2>2, <3>5, <4>2
    <3> QED
      BY <3>3, <3>4, <3>5
  <2> QED
    BY <2>4, <2>5, <2>6, DrainerSteps
<1> QED
  BY <1>1, <1>2

LEMMA DrainedClosedKept ==
  ASSUME TypeOK, TypeOK', Base, Base', ShutOrder, Restoring, Held, Kinds, Barred, DrainedClosed,
         ~StoreMayFail, Next
  PROVE  DrainedClosed'
<1> SUFFICES ASSUME NEW d \in Drainer, act'[d].pc = "drained", NEW o \in Obj, Registered(o)',
                    rt'[o].inst = act'[d].inst
             PROVE  ~rt'[o].enabled /\ rt'[o].session = 0 /\ rt'[o].realization = 0
  BY DEF DrainedClosed, At, Targets
<1>1. CASE Asks(d) \/ Releases(d)
  BY <1>1 DEF Asks, Releases
<1>2. CASE act'[d] # act[d] /\ GoesOn(d)
  <2>1. ConnectionNames(act[d].inst) = {} /\ UNCHANGED <<intents, rt>> /\ act'[d].inst = act[d].inst
    BY <1>2 DEF GoesOn
  <2>2. Registered(o) /\ rt[o].inst = act[d].inst
    BY <2>1 DEF Registered
  <2>3. o = Current(o[1]) /\ intents[o[1]] # 0 /\ o[1] \in Name
    BY <2>2, RegisteredObjs
  <2>4. ~(rt[o].enabled \/ rt[o].session # 0 \/ rt[o].realization # 0)
    BY <2>1, <2>2, <2>3 DEF ConnectionNames
  <2> QED
    BY <2>1, <2>4
<1>3. CASE act'[d] = act[d]
  <2>0. Granted(d) /\ At(d, "drained") /\ act[d].inst = rt'[o].inst
    BY <1>3 DEF Granted, At
  <2>1. ~StartedBy(o)
    BY <2>0, BarredHoldsBack
  <2>2. rt'[o].used
    <3>1. o = <<o[1], o[2]>> /\ o[1] \in Name /\ o[2] # 0 /\ intents'[o[1]] = o[2]
      BY Objects, Lifetimes DEF Registered, NameOf
    <3>2. \A n \in Name : intents'[n] # 0 => rt'[<<n, intents'[n]>>].used
      BY DEF Base, RegisteredIsUsed, Current
    <3> QED
      BY <3>1, <3>2
  <2>3. rt[o].used
    BY <2>1, <2>2, FirstUse DEF Alone
  <2>4. Registered(o) /\ rt[o].inst = act[d].inst
    BY <2>0, <2>3, ObjectsStay
  <2>5. ~rt[o].enabled /\ rt[o].session = 0 /\ rt[o].realization = 0
    BY <2>0, <2>4 DEF DrainedClosed, Targets
  <2>6. ~rt'[o].enabled
    BY <2>1, <2>3, <2>5, DisabledSteps DEF StartsClean, Alone
  <2>7. rt'[o].session = 0
    <3>1. \A r \in Real : ~Resolved(r, o)
      BY <2>5 DEF Resolved, Ends, StillWanted
    <3> QED
      BY <2>5, <3>1, SessionSteps
  <2>8. rt'[o].realization = 0
    BY <2>1, <2>5, RealizationSteps, Constants DEF StartsClean, Alone
  <2> QED
    BY <2>6, <2>7, <2>8
<1> QED
  BY <1>1, <1>2, <1>3, DrainerSteps

LEMMA DrainedKept ==
  ASSUME TypeOK, TypeOK', Base, Base', ShutOrder, Restoring, Held, Kinds, Drained, ~StoreMayFail,
         Next
  PROVE  Drained'
<1>1. Barred'
  BY OneDrainKept, NoStartsKept DEF Drained, Barred
<1>2. LinkedOrAwaited' /\ RemovalWaits'
  BY LinkedOrAwaitedKept, RemovalWaitsKept DEF Drained
<1>3. DrainLinked' /\ DrainedClosed'
  BY DrainLinkedKept, DrainedClosedKept DEF Drained
<1> QED
  BY <1>1, <1>2, <1>3 DEF Drained

LEMMA InitDrained ==
  ASSUME Init
  PROVE  Drained
<1>1. \A a \in Actor : act[a].pc = "idle"
  BY DEF Init, Frame
<1>2. \A r \in Real : real[r].pc = "unused"
  BY DEF Init, NoReal
<1>3. \A o \in Obj : rt[o].realization = 0
  BY DEF Init, NewRuntime, NoRuntime
<1>4. \A d \in Drainer : d \in Actor
  BY DEF Actor
<1> QED
  BY <1>1, <1>2, <1>3, <1>4
  DEF Drained, Barred, OneDrain, NoStarts, LinkedOrAwaited, RemovalWaits, DrainLinked,
      DrainedClosed, Holds, Granted, Live, At

LEMMA StutterDrained ==
  ASSUME UNCHANGED vars, Drained
  PROVE  Drained'
BY DEF vars, Drained, Barred, OneDrain, NoStarts, LinkedOrAwaited, RemovalWaits, DrainLinked,
   DrainedClosed, Holds, Granted, Live, At, AwaitedBy, Overtaken, Targets, Registered

LEMMA DrainedAll ==
  ASSUME ~StoreMayFail, ~Overlap
  PROVE  Spec => [](TypeOK /\ Base /\ ShutOrder /\ Restoring /\ Held /\ Lost /\ Drained)
<1> DEFINE Inv == TypeOK /\ Base /\ ShutOrder /\ Restoring /\ Held /\ Lost
<1>1. Spec => []Inv
  BY HeldAndKept
<1>2. Init => Drained
  BY InitDrained
<1>3. Drained /\ Inv /\ Inv' /\ [Next]_vars => Drained'
  <2>1. ASSUME Drained, Inv, Inv', Next
        PROVE  Drained'
    BY <2>1, Steps, DrainedKept
  <2>2. ASSUME Drained, UNCHANGED vars
        PROVE  Drained'
    BY <2>2, StutterDrained
  <2> QED
    BY <2>1, <2>2
<1> HIDE DEF Inv
<1>4. Spec => [](Inv /\ Drained)
  BY <1>1, <1>2, <1>3, PTL DEF Spec
<1> QED
  BY <1>4, PTL DEF Inv

\* What was drained is closed.
LEMMA DrainedIsHeldBack ==
  ASSUME TypeOK, Base, Held, Lost, Drained
  PROVE  DrainedHoldsBack
<1> SUFFICES ASSUME NEW d \in Drainer, act[d].pc = "drained", NEW i, act[d].inst = i
             PROVE  /\ \A n \in Name : stored[n] # Definition(i, TRUE)
                    /\ \A o \in Targets(i) : rt[o].session = 0 /\ rt[o].realization = 0
                    /\ \A r \in Real : OfInstance(r, i) =>
                         \/ real[r].pc = "done" /\ real[r].sess \notin {"open", "closing"}
                         \/ BeingRemoved(real[r].obj)
                         \/ /\ Overtaken(r, i)
                            /\ \/ real[r].pc = "closingLate"
                               \/ real[r].pc = "opening" /\ real[r].aborted
  BY DEF DrainedHoldsBack
<1>0. i \in Instance /\ Granted(d) /\ At(d, "drained")
  BY DEF TypeOK, Handler, OnInstance, Granted, At, Actor
<1>1. \A o \in Targets(i) : ~rt[o].enabled /\ rt[o].session = 0 /\ rt[o].realization = 0
  BY <1>0 DEF Drained, DrainedClosed
<1>2. ASSUME NEW n \in Name, stored[n] = Definition(i, TRUE)
      PROVE  FALSE
  <2>1. intents[n] # 0
    BY <1>0, <1>2, DefinitionsOf DEF Base, RestartServesTheSame
  <2>2. stored[n] = Definition(rt[Current(n)].inst, rt[Current(n)].enabled)
    BY <2>1 DEF Base, RestartServesTheSame
  <2>3. rt[Current(n)].inst = i /\ (rt[Current(n)].enabled = TRUE)
    <3>1. Current(n) \in Obj
      BY <2>1, Objs
    <3>2. rt[Current(n)].enabled \in BOOLEAN
      BY <3>1 DEF TypeOK, RuntimeIntent
    <3> QED
      BY <1>2, <2>2, <3>2 DEF Definition
  <2> QED
    BY <1>1, <2>1, <2>3, Objs DEF Targets
<1>3. ASSUME NEW r \in Real, OfInstance(r, i)
      PROVE  \/ real[r].pc = "done" /\ real[r].sess \notin {"open", "closing"}
             \/ BeingRemoved(real[r].obj)
             \/ /\ Overtaken(r, i)
                /\ \/ real[r].pc = "closingLate"
                   \/ real[r].pc = "opening" /\ real[r].aborted
  <2> DEFINE o == real[r].obj
  <2>1. real[r] \in Realization /\ real[r].pc # "unused" /\ rt[o].inst = i
    BY <1>3 DEF TypeOK, OfInstance
  <2>2. o \in Obj /\ real[r].pc \in {"opening", "closingLate", "done"} /\ r # 0
    BY <2>1, Constants DEF Realization, RealizationFields
  <2>3. Registered(o) => ~rt[o].enabled /\ rt[o].session = 0 /\ rt[o].realization = 0
    BY <1>1, <2>1, <2>2 DEF Targets
  <2>4. CASE real[r].pc = "done"
    BY <2>2, <2>3, <2>4 DEF Lost, OpenIsHeld
  <2>5. CASE real[r].pc # "done" /\ rt[o].realization = r
    BY <2>2, <2>3, <2>5 DEF Drained, RemovalWaits, BeingRemoved, At
  <2>6. CASE real[r].pc # "done" /\ rt[o].realization # r
    <3>1. Live(r)
      BY <2>2, <2>6 DEF Live
    <3>2. Overtaken(r, i)
      BY <1>0, <2>1, <2>6, <3>1 DEF Drained, DrainLinked
    <3>3. real[r].pc = "opening" => real[r].aborted
      BY <2>6 DEF Base, CurrentIsLinked
    <3> QED
      BY <2>2, <2>6, <3>2, <3>3
  <2> QED
    BY <2>4, <2>5, <2>6
<1> QED
  BY <1>1, <1>2, <1>3

\* What was drained or shut down stays closed: while the client of a drain dispatches
\* the destruction of the instance nothing of it is enabled, opening or open, except what a
\* removal is closing and what a call the drain could not wait for is about to close; a
\* shutdown leaves no tunnel behind.  Hypotheses as for NoTunnelIsLost.
THEOREM EndedIsClosed == ASSUME ~StoreMayFail, ~Overlap PROVE Spec => []EndedStaysClosed
<1> DEFINE Inv == TypeOK /\ Base /\ ShutOrder /\ Restoring /\ Held /\ Lost /\ Drained
<1>1. Spec => []Inv
  BY DrainedAll
<1>2. Inv => EndedStaysClosed
  <2> SUFFICES ASSUME Inv
               PROVE  EndedStaysClosed
    OBVIOUS
  <2>1. DrainedHoldsBack
    BY DrainedIsHeldBack
  <2>2. ShutdownClosesAll
    <3> SUFFICES ASSUME shut.pc = "closed", NEW r \in Real
                 PROVE  \/ real[r].pc \in {"unused", "done"} /\ real[r].sess \notin {"open", "closing"}
                        \/ BeingRemoved(real[r].obj)
      BY DEF ShutdownClosesAll
    <3>1. ~Live(r)
      BY DEF ShutOrder, Lost, ShutSettles
    <3>2. real[r].sess \in {"open", "closing"} => BeingRemoved(real[r].obj)
      BY DEF Lost, ShutSettles
    <3>3. real[r].pc \in {"unused", "opening", "closingLate", "done"}
      BY DEF TypeOK, Realization, RealizationFields
    <3> QED
      BY <3>1, <3>2, <3>3 DEF Live
  <2> QED
    BY <2>1, <2>2 DEF EndedStaysClosed
<1> HIDE DEF Inv
<1> QED
  BY <1>1, <1>2, PTL
=============================================================================
