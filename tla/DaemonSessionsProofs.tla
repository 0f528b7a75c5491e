------------------------- MODULE DaemonSessionsProofs -------------------------
(***************************************************************************)
(* For any number of sessions, instances, keys, closings, drains and       *)
(* retained failures: one session per idempotency key, true answers about  *)
(* sessions, no failure forgotten, and nothing left open by a drain or by  *)
(* the shutdown.                                                           *)
(***************************************************************************)
EXTENDS DaemonSessions, FiniteSetTheorems, TLAPS

TabType == [state : [Session -> {"none", "live", "closing", "failed"}],
            failed : Seq(Session), key : [Key -> Session \cup {None}],
            dropped : SUBSET Session]

Place == {"idle", "done", "beginWait", "granted", "intents", "refused", "drained", "close",
          "drainClose", "cleanClose", "drainLoop", "cleanLoop"}

FrameType == [pc : Place,
              inst : Instance \cup {None}, sess : Session \cup {None},
              todo : SUBSET Session, wait : SUBSET Session]

SetupType == [pc : {"unused", "opening", "closingLate", "done"},
              inst : Instance \cup {None}, key : Key \cup {None}, aborted : BOOLEAN]

TunnelType == [state : {"none", "open", "closing", "closed", "failed"}, watched : BOOLEAN]

ShutType ==
  [pc : {"open", "server", "sessions", "cleanups", "closed"}, wait : SUBSET Session]

\* A drain that has been begun and not been released.
Drains(d) == act[d].pc \notin {"idle", "done"}

Types ==
  /\ setup \in [Session -> SetupType] /\ tunnel \in [Session -> TunnelType]
  /\ tab \in TabType
  /\ pending \in [Key -> Session \cup {None}]
  /\ cleanup \subseteq Session /\ drained \subseteq Instance
  /\ act \in [Actor -> FrameType]
  /\ \A a \in Actor : act[a].pc \in Waits => act[a].sess \in Session
  /\ \A d \in Drainer : Drains(d) => act[d].inst \in Instance
  /\ shut \in ShutType

\* A key leads from a request to its setup, and from the setup to its session.
Keys ==
  /\ \A s \in Session : Listed(s) => setup[s].pc = "done"
  /\ \A s \in Session, k \in Key :
       setup[s].key = k =>
         /\ InSetup(s) => pending[k] = s
         /\ Listed(s) => tab.key[k] = s /\ pending[k] = None
         /\ setup[s].pc # "unused"
  /\ \A s \in Session, k \in Key : pending[k] = s => InSetup(s) /\ setup[s].key = k

Closers == {"close", "drainClose"}
Elements(q) == {q[n] : n \in DOMAIN q}

\* Somebody waits for the closing of s and will enter its result.
Awaited(s) == \E a \in Actor : act[a].pc \in Closers /\ act[a].sess = s

\* A tunnel and what the table says of it, as long as the table is kept.
Told(s) ==
  /\ tab.state[s] = "live" => tunnel[s].watched
  /\ tab.state[s] = "failed" => tunnel[s].state = "failed"
  /\ tab.state[s] = "closing" => Awaited(s)
  /\ tunnel[s].state = "open" => tab.state[s] = "live"
  /\ tunnel[s].state = "closing" => tab.state[s] \in {"live", "closing"} \/ setup[s].pc = "closingLate"
  /\ tunnel[s].state = "failed" => \/ Listed(s) \/ s \in cleanup \cup tab.dropped
                                   \/ setup[s].pc = "closingLate"

Tunnels ==
  /\ \A s \in Session : setup[s].pc \in {"unused", "opening"} =>
                          tunnel[s].state = "none" /\ ~tunnel[s].watched
  /\ \A s \in Session : setup[s].pc = "closingLate" => tunnel[s].state # "open"
  /\ \A s \in Elements(tab.failed) : tunnel[s].state = "failed"

Sessions == Tunnels /\ (shut.pc \in {"open", "server"} => \A s \in Session : Told(s))

\* No session of i is being set up; and neither is one open, closing or failed.
Rests(i) == \A s \in OfInstance(i) : ~InSetup(s)
Empty(i) == \A s \in OfInstance(i) :
              ~InSetup(s) /\ (tunnel[s].state \in {"none", "closed"} \/ s \in tab.dropped)

\* A drain keeps its instance to itself, and setups of it out.
Draining ==
  \A d \in Drainer : Drains(d) =>
    /\ act[d].inst \in drained
    /\ act[d].pc # "beginWait" => Rests(act[d].inst)
    /\ act[d].pc = "drained" => Empty(act[d].inst)
    /\ \A e \in Drainer : Drains(e) /\ act[e].inst = act[d].inst => e = d

\* What the shutdown has already seen to.
Shutdown ==
  /\ shut.pc # "open" => \A s \in Session : setup[s].pc = "opening" => setup[s].aborted
  /\ shut.pc \in {"sessions", "cleanups", "closed"} =>
       \A s \in Session :
         /\ tunnel[s].state # "open"
         /\ tunnel[s].state = "closing" =>
              \/ setup[s].pc = "closingLate"
              \/ shut.pc = "sessions" /\ s \in shut.wait

Inv == Types /\ Keys /\ Sessions /\ Draining /\ Shutdown

-----------------------------------------------------------------------------
(***************************************************************************)
(* The table: what its operations do to each field                         *)
(***************************************************************************)
LEMMA WithoutEffect ==
  ASSUME NEW q \in Seq(Session), NEW s \in Session
  PROVE  Without(q, s) \in Seq(Session) /\ Elements(Without(q, s)) \subseteq Elements(q)
<1>1. CASE ~ \E n \in DOMAIN q : q[n] = s
  BY <1>1 DEF Without
<1>2. CASE \E n \in DOMAIN q : q[n] = s
  <2> DEFINE at == CHOOSE n \in DOMAIN q : q[n] = s
             a == SubSeq(q, 1, at - 1)
             b == SubSeq(q, at + 1, Len(q))
  <2>1. at \in 1 .. Len(q) /\ Len(q) \in Nat
    BY <1>2
  <2>2. Without(q, s) = a \o b
    BY <1>2 DEF Without
  <2> HIDE DEF at
  <2>3. /\ a \in Seq(Session) /\ Len(a) = at - 1 /\ \A n \in 1 .. at - 1 : a[n] = q[n]
    BY <2>1
  <2>4. /\ b \in Seq(Session) /\ Len(b) = Len(q) - at
        /\ \A n \in 1 .. Len(q) - at : b[n] = q[n + at]
    BY <2>1
  <2> HIDE DEF a, b
  <2>s. a \in Seq(Session) /\ b \in Seq(Session)
    BY <2>3, <2>4
  <2>c. /\ a \o b \in Seq(Session) /\ Len(a \o b) = Len(a) + Len(b)
        /\ \A n \in 1 .. Len(a) + Len(b) : (a \o b)[n] = IF n <= Len(a) THEN a[n] ELSE b[n - Len(a)]
    BY <2>s
  <2>l. Len(a) + Len(b) = Len(q) - 1
    BY <2>1, <2>3, <2>4
  <2>5. /\ a \o b \in Seq(Session) /\ Len(a \o b) = Len(q) - 1
        /\ \A n \in 1 .. Len(q) - 1 : (a \o b)[n] = IF n <= at - 1 THEN a[n] ELSE b[n - (at - 1)]
    BY <2>3, <2>c, <2>l
  <2>6. ASSUME NEW n \in 1 .. Len(q) - 1 PROVE \E m \in 1 .. Len(q) : (a \o b)[n] = q[m]
    <3>1. CASE n <= at - 1
      BY <2>1, <2>3, <2>5, <3>1
    <3>2. CASE n > at - 1
      <4>1. n - (at - 1) \in 1 .. Len(q) - at /\ (n - (at - 1)) + at = n + 1
        BY <2>1, <3>2
      <4>2. (a \o b)[n] = q[n + 1] /\ n + 1 \in 1 .. Len(q)
        BY <2>1, <2>4, <2>5, <3>2, <4>1
      <4> QED  BY <4>2
    <3>3. n <= at - 1 \/ n > at - 1
      BY <2>1
    <3> QED  BY <3>1, <3>2, <3>3
  <2>7. DOMAIN (a \o b) = 1 .. Len(q) - 1 /\ DOMAIN q = 1 .. Len(q)
    BY <2>1, <2>5
  <2>8. ASSUME NEW x \in Elements(a \o b) PROVE x \in Elements(q)
    <3>1. PICK n \in 1 .. Len(q) - 1 : x = (a \o b)[n]
      BY <2>7 DEF Elements
    <3>2. PICK m \in 1 .. Len(q) : x = q[m]
      BY <2>6, <3>1
    <3> QED  BY <2>7, <3>2 DEF Elements
  <2> QED  BY <2>2, <2>5, <2>8
<1> QED  BY <1>1, <1>2

LEMMA ForgetEffect ==
  ASSUME NEW t \in TabType, NEW s \in Session
  PROVE  /\ Forget(t, s) \in TabType
         /\ Forget(t, s).state = [t.state EXCEPT ![s] = "none"]
         /\ Forget(t, s).key = [k \in Key |-> IF t.key[k] = s THEN None ELSE t.key[k]]
         /\ Forget(t, s).dropped = t.dropped
         /\ Elements(Forget(t, s).failed) \subseteq Elements(t.failed)
<1> DEFINE q == Without(t.failed, s)
<1>1. q \in Seq(Session) /\ Elements(q) \subseteq Elements(t.failed)
  BY WithoutEffect DEF TabType
<1> HIDE DEF q
<1>3. [t.state EXCEPT ![s] = "none"] \in [Session -> {"none", "live", "closing", "failed"}]
  BY DEF TabType
<1> DEFINE key == [k \in Key |-> IF t.key[k] = s THEN None ELSE t.key[k]]
           state == [t.state EXCEPT ![s] = "none"]
<1>4. key \in [Key -> Session \cup {None}]
  BY DEF TabType
<1>2. Forget(t, s) = [[[t EXCEPT !.state = state] EXCEPT !.failed = q] EXCEPT !.key = key]
  BY DEF Forget, TabType, q
<1> HIDE DEF key, state
<1>5. /\ Forget(t, s) \in TabType /\ Forget(t, s).state = state
      /\ Forget(t, s).key = key /\ Forget(t, s).dropped = t.dropped /\ Forget(t, s).failed = q
  BY <1>1, <1>2, <1>3, <1>4 DEF TabType, state
<1> QED  BY <1>1, <1>5 DEF key, state

LEMMA MarkClosingEffect ==
  ASSUME NEW t \in TabType, NEW s \in Session
  PROVE  /\ MarkClosing(t, s) \in TabType
         /\ MarkClosing(t, s).state = [t.state EXCEPT ![s] = "closing"]
         /\ MarkClosing(t, s).key = t.key /\ MarkClosing(t, s).dropped = t.dropped
         /\ Elements(MarkClosing(t, s).failed) \subseteq Elements(t.failed)
<1> DEFINE q == Without(t.failed, s)
<1>1. q \in Seq(Session) /\ Elements(q) \subseteq Elements(t.failed)
  BY WithoutEffect DEF TabType
<1> DEFINE state == [t.state EXCEPT ![s] = "closing"]
<1>3. state \in [Session -> {"none", "live", "closing", "failed"}]
  BY DEF TabType
<1>2. MarkClosing(t, s) = [[t EXCEPT !.state = state] EXCEPT !.failed = q]
  BY DEF MarkClosing, TabType
<1> HIDE DEF q, state
<1> QED  BY <1>1, <1>2, <1>3 DEF TabType, state

\* What is left of the table t when the end of s has been entered in it: at
\* most one other session is given up, one that had failed.
Entered(t, r, s) ==
  /\ r \in TabType /\ t.dropped \subseteq r.dropped
  /\ \A x \in Session \ {s} :
       \/ r.state[x] = t.state[x]
       \/ r.state[x] = "none" /\ x \in r.dropped /\ x \in Elements(t.failed)
  /\ \A x \in Session : r.state[x] # "none" => t.state[x] # "none"
  /\ \A x \in Session, k \in Key : t.key[k] = x /\ r.state[x] # "none" => r.key[k] = x
  /\ r.state[s] \in {t.state[s], "none", "failed"} /\ r.state[s] # "live"
  /\ r.state[s] = "failed" => t.state[s] = "failed" \/ tunnel[s].state = "failed"
  /\ tunnel[s].state = "failed" =>
       r.state[s] = "failed" \/ t.state[s] = "none" \/ s \in r.dropped
  /\ Elements(r.failed) \subseteq Elements(t.failed) \cup (IF tunnel[s].state = "failed" THEN {s} ELSE {})

LEMMA ForgetEnters ==
  ASSUME NEW t \in TabType, NEW s \in Session, tunnel[s].state # "failed"
  PROVE  Entered(t, Forget(t, s), s) /\ Forget(t, s).state[s] = "none"
<1> DEFINE r == Forget(t, s)
<1>1. /\ r \in TabType /\ r.state = [t.state EXCEPT ![s] = "none"]
      /\ r.key = [k \in Key |-> IF t.key[k] = s THEN None ELSE t.key[k]]
      /\ r.dropped = t.dropped /\ Elements(r.failed) \subseteq Elements(t.failed)
  BY ForgetEffect
<1> HIDE DEF r
<1>2. r.state[s] = "none" /\ \A x \in Session \ {s} : r.state[x] = t.state[x]
  BY <1>1 DEF TabType
<1> QED  BY <1>1, <1>2 DEF Entered, r

LEMMA MarkFailedEnters ==
  ASSUME NEW t \in TabType, NEW s \in Session, tunnel[s].state = "failed"
  PROVE  Entered(t, MarkFailed(t, s), s) /\ MarkFailed(t, s).state[s] \in {"none", "failed"}
<1>1. CASE t.state[s] = "none"
  BY <1>1 DEF MarkFailed, Entered
<1>2. CASE t.state[s] # "none"
  <2> DEFINE q == Append(Without(t.failed, s), s)
             u == [t EXCEPT !.state[s] = "failed", !.failed = q]
  <2>1. q \in Seq(Session) /\ Elements(q) \subseteq Elements(t.failed) \cup {s} /\ Len(q) # 0
    <3> DEFINE w == Without(t.failed, s)
    <3>1. w \in Seq(Session) /\ Elements(w) \subseteq Elements(t.failed)
      BY WithoutEffect DEF TabType
    <3> HIDE DEF w
    <3>2. /\ Append(w, s) \in Seq(Session) /\ Len(Append(w, s)) = Len(w) + 1 /\ Len(w) \in Nat
          /\ \A n \in 1 .. Len(w) : Append(w, s)[n] = w[n]
          /\ Append(w, s)[Len(w) + 1] = s
      BY <3>1
    <3>3. ASSUME NEW n \in 1 .. Len(w) + 1 PROVE Append(w, s)[n] \in Elements(w) \cup {s}
      <4>1. CASE n = Len(w) + 1
        BY <3>2, <4>1
      <4>2. CASE n # Len(w) + 1
        BY <3>1, <3>2, <4>2 DEF Elements
      <4> QED  BY <4>1, <4>2
    <3>4. Elements(Append(w, s)) \subseteq Elements(w) \cup {s}
      BY <3>2, <3>3 DEF Elements
    <3> QED  BY <3>1, <3>2, <3>4 DEF w
  <2> HIDE DEF q
  <2>2. u = [[t EXCEPT !.state = [t.state EXCEPT ![s] = "failed"]] EXCEPT !.failed = q]
    BY DEF TabType
  <2>3. [t.state EXCEPT ![s] = "failed"] \in [Session -> {"none", "live", "closing", "failed"}]
    BY DEF TabType
  <2>4. /\ u \in TabType /\ u.state[s] = "failed" /\ u.key = t.key /\ u.dropped = t.dropped
        /\ u.failed = q /\ \A x \in Session \ {s} : u.state[x] = t.state[x]
    BY <2>1, <2>2, <2>3 DEF TabType
  <2>5. MarkFailed(t, s) = IF Len(u.failed) <= Retained THEN u
                           ELSE [Forget(u, Head(u.failed)) EXCEPT !.dropped = @ \cup {Head(u.failed)}]
    BY <1>2 DEF MarkFailed, q
  <2> HIDE DEF u
  <2>6. CASE Len(u.failed) <= Retained
    BY <1>2, <2>1, <2>4, <2>5, <2>6 DEF Entered
  <2>7. CASE ~(Len(u.failed) <= Retained)
    <3> DEFINE h == Head(u.failed)
               f == Forget(u, h)
               r == [f EXCEPT !.dropped = @ \cup {h}]
    <3>1. h \in Session /\ h \in Elements(u.failed)
      BY <2>1, <2>4 DEF Elements
    <3>2. /\ f \in TabType /\ f.state = [u.state EXCEPT ![h] = "none"]
          /\ f.key = [k \in Key |-> IF u.key[k] = h THEN None ELSE u.key[k]]
          /\ f.dropped = u.dropped /\ Elements(f.failed) \subseteq Elements(u.failed)
      BY <2>4, <3>1, ForgetEffect
    <3> HIDE DEF h, f
    <3>3. /\ r \in TabType /\ r.state = f.state /\ r.key = f.key /\ r.failed = f.failed
          /\ r.dropped = u.dropped \cup {h}
      BY <3>1, <3>2 DEF TabType
    <3>4. MarkFailed(t, s) = r
      BY <2>5, <2>7 DEF f, h
    <3> HIDE DEF r
    <3>5. r.state[h] = "none" /\ \A x \in Session \ {h} : r.state[x] = u.state[x]
      BY <2>4, <3>1, <3>2, <3>3 DEF TabType
    <3>6. \A x \in Session, k \in Key : t.key[k] = x /\ x # h => r.key[k] = x
      BY <2>4, <3>2, <3>3
    <3>7. Elements(r.failed) \subseteq Elements(t.failed) \cup {s}
      BY <2>1, <2>4, <3>2, <3>3
    <3>8. h = s \/ h \in Elements(t.failed)
      BY <2>1, <2>4, <3>1
    <3>9. \A x \in Session \ {s} :
            \/ r.state[x] = t.state[x]
            \/ r.state[x] = "none" /\ x \in r.dropped /\ x \in Elements(t.failed)
      BY <2>4, <3>1, <3>3, <3>5, <3>8
    <3>10. r.state[s] \in {"none", "failed"} /\ (r.state[s] = "none" => s \in r.dropped)
      BY <2>4, <3>1, <3>3, <3>5
    <3>11. \A x \in Session : r.state[x] # "none" => t.state[x] # "none"
      BY <1>2, <3>9
    <3>12. \A x \in Session, k \in Key : t.key[k] = x /\ r.state[x] # "none" => r.key[k] = x
      BY <3>5, <3>6
    <3>13. t.dropped \subseteq r.dropped /\ r.state[s] # "live"
      BY <2>4, <3>3, <3>10
    <3> QED  BY <3>3, <3>4, <3>7, <3>9, <3>10, <3>11, <3>12, <3>13 DEF Entered
  <2> QED  BY <2>6, <2>7
<1> QED  BY <1>1, <1>2

\* The end of closeOwnedSession: the result of a closing that has settled.
LEMMA ClosedEnters ==
  ASSUME NEW t \in TabType, NEW s \in Session
  PROVE  Entered(t, Closed(t, s), s) /\ Closed(t, s).state[s] \in {"none", "failed"}
<1>1. CASE tunnel[s].state = "failed"
  BY <1>1, MarkFailedEnters DEF Closed
<1>2. CASE tunnel[s].state # "failed" /\ t.state[s] \in {"none", "failed"}
  BY <1>2 DEF Closed, Entered
<1>3. CASE tunnel[s].state # "failed" /\ t.state[s] \notin {"none", "failed"}
  BY <1>3, ForgetEnters DEF Closed
<1> QED  BY <1>1, <1>2, <1>3

-----------------------------------------------------------------------------
(***************************************************************************)
(* Types                                                                   *)
(***************************************************************************)
LEMMA Places ==
  /\ "idle" \in Place /\ "done" \in Place /\ "beginWait" \in Place /\ "granted" \in Place
  /\ "intents" \in Place /\ "refused" \in Place /\ "drained" \in Place /\ "close" \in Place
  /\ "drainClose" \in Place /\ "cleanClose" \in Place /\ "drainLoop" \in Place
  /\ "cleanLoop" \in Place
BY DEF Place

\* A frame with one field changed.
LEMMA Frames ==
  ASSUME NEW f \in FrameType
  PROVE  /\ \A x \in Place : LET g == [f EXCEPT !.pc = x] IN
              /\ g \in FrameType /\ g.pc = x /\ g.inst = f.inst /\ g.sess = f.sess
              /\ g.todo = f.todo /\ g.wait = f.wait
         /\ \A x \in Instance \cup {None} : LET g == [f EXCEPT !.inst = x] IN
              /\ g \in FrameType /\ g.pc = f.pc /\ g.inst = x /\ g.sess = f.sess
              /\ g.todo = f.todo /\ g.wait = f.wait
         /\ \A x \in Session \cup {None} : LET g == [f EXCEPT !.sess = x] IN
              /\ g \in FrameType /\ g.pc = f.pc /\ g.inst = f.inst /\ g.sess = x
              /\ g.todo = f.todo /\ g.wait = f.wait
         /\ \A x \in SUBSET Session : LET g == [f EXCEPT !.todo = x] IN
              /\ g \in FrameType /\ g.pc = f.pc /\ g.inst = f.inst /\ g.sess = f.sess
              /\ g.todo = x /\ g.wait = f.wait
         /\ \A x \in SUBSET Session : LET g == [f EXCEPT !.wait = x] IN
              /\ g \in FrameType /\ g.pc = f.pc /\ g.inst = f.inst /\ g.sess = f.sess
              /\ g.todo = f.todo /\ g.wait = x
BY DEF FrameType

LEMMA NewFrames ==
  ASSUME NEW p \in Place
  PROVE  /\ Frame(p) \in FrameType /\ Frame(p).pc = p /\ Frame(p).inst = None
         /\ Frame(p).sess = None
BY DEF Frame, FrameType

\* What a step does to the handlers: one of them goes on.
Moves(a, pc) ==
  /\ act[a] \in FrameType /\ act'[a] \in FrameType /\ act'[a].pc = pc
  /\ act' \in [Actor -> FrameType]
  /\ \A b \in Actor \ {a} : act'[b] = act[b]

LEMMA MovesBy ==
  ASSUME act \in [Actor -> FrameType], NEW a \in Actor, NEW f \in FrameType, Do(a, f)
  PROVE  Moves(a, f.pc) /\ act'[a] = f
BY DEF Do, Moves

\* Closing the sessions of S: of those that are open, and nothing else.
Closes(S) ==
  /\ tunnel' \in [Session -> TunnelType]
  /\ \A s \in Session : tunnel'[s].watched = tunnel[s].watched
  /\ \A s \in Session : tunnel[s].state = "open" /\ s \in S => tunnel'[s].state = "closing"
  /\ \A s \in Session : tunnel[s].state # "open" \/ s \notin S => tunnel'[s].state = tunnel[s].state

LEMMA CloseEffect ==
  ASSUME tunnel \in [Session -> TunnelType], NEW s \in Session, tunnel' = CloseSession(tunnel, s)
  PROVE  Closes({s})
<1> DEFINE state == IF tunnel[s].state = "open" THEN "closing" ELSE tunnel[s].state
           t == [tunnel[s] EXCEPT !.state = state]
<1>1. tunnel' = [tunnel EXCEPT ![s] = t]
  BY DEF CloseSession
<1>2. tunnel[s] \in TunnelType /\ state \in {"none", "open", "closing", "closed", "failed"}
  BY DEF TunnelType
<1> HIDE DEF state
<1>3. t \in TunnelType /\ t.state = state /\ t.watched = tunnel[s].watched
  BY <1>2 DEF TunnelType
<1> HIDE DEF t
<1>4. /\ tunnel' \in [Session -> TunnelType] /\ tunnel'[s] = t
      /\ \A x \in Session \ {s} : tunnel'[x] = tunnel[x]
  BY <1>1, <1>3
<1> QED  BY <1>3, <1>4 DEF Closes, state

LEMMA CloseAllEffect ==
  ASSUME tunnel \in [Session -> TunnelType], NEW S, tunnel' = CloseAll(S)
  PROVE  Closes(S)
<1>1. \A s \in Session : tunnel'[s] = IF s \in S THEN CloseSession(tunnel, s)[s] ELSE tunnel[s]
  BY DEF CloseAll
<1>2. ASSUME NEW s \in Session
      PROVE  LET state == IF tunnel[s].state = "open" THEN "closing" ELSE tunnel[s].state
             IN CloseSession(tunnel, s)[s] = [tunnel[s] EXCEPT !.state = state]
  BY DEF CloseSession
<1>3. ASSUME NEW s \in Session
      PROVE  /\ tunnel'[s] \in TunnelType /\ tunnel'[s].watched = tunnel[s].watched
             /\ tunnel'[s].state = IF tunnel[s].state = "open" /\ s \in S THEN "closing"
                                   ELSE tunnel[s].state
  <2> DEFINE state == IF tunnel[s].state = "open" THEN "closing" ELSE tunnel[s].state
             t == [tunnel[s] EXCEPT !.state = state]
  <2>1. tunnel[s] \in TunnelType /\ state \in {"none", "open", "closing", "closed", "failed"}
    BY DEF TunnelType
  <2>2. tunnel'[s] = IF s \in S THEN t ELSE tunnel[s]
    BY <1>1, <1>2
  <2> HIDE DEF state
  <2>3. t \in TunnelType /\ t.state = state /\ t.watched = tunnel[s].watched
    BY <2>1 DEF TunnelType
  <2> HIDE DEF t
  <2> QED  BY <2>1, <2>2, <2>3 DEF state
<1>4. tunnel' \in [Session -> TunnelType]
  BY <1>3 DEF CloseAll
<1> QED  BY <1>3, <1>4 DEF Closes

\* What changing one field of a record of the table does to the others.
LEMMA TabEffect ==
  ASSUME NEW t \in TabType
  PROVE  /\ \A f \in [Key -> Session \cup {None}] : LET u == [t EXCEPT !.key = f] IN
              /\ u \in TabType /\ u.key = f /\ u.state = t.state /\ u.failed = t.failed
              /\ u.dropped = t.dropped
         /\ \A f \in [Session -> {"none", "live", "closing", "failed"}] :
              LET u == [t EXCEPT !.state = f] IN
              /\ u \in TabType /\ u.state = f /\ u.key = t.key /\ u.failed = t.failed
              /\ u.dropped = t.dropped
         /\ LET u == [t EXCEPT !.failed = <<>>] IN
              /\ u \in TabType /\ u.failed = <<>> /\ u.key = t.key /\ u.state = t.state
              /\ u.dropped = t.dropped
<1>1. ASSUME NEW f \in [Key -> Session \cup {None}]
      PROVE  LET u == [t EXCEPT !.key = f] IN
             /\ u \in TabType /\ u.key = f /\ u.state = t.state /\ u.failed = t.failed
             /\ u.dropped = t.dropped
  BY DEF TabType
<1>2. ASSUME NEW f \in [Session -> {"none", "live", "closing", "failed"}]
      PROVE  LET u == [t EXCEPT !.state = f] IN
             /\ u \in TabType /\ u.state = f /\ u.key = t.key /\ u.failed = t.failed
             /\ u.dropped = t.dropped
  BY DEF TabType
<1>3. ASSUME NEW q \in Seq(Session)
      PROVE  LET u == [t EXCEPT !.failed = q] IN
             /\ u \in TabType /\ u.failed = q /\ u.key = t.key /\ u.state = t.state
             /\ u.dropped = t.dropped
  BY DEF TabType
<1>4. <<>> \in Seq(Session)
  OBVIOUS
<1> QED  BY <1>1, <1>2, <1>3, <1>4

-----------------------------------------------------------------------------
(***************************************************************************)
(* The steps: what each kind does to each variable                         *)
(***************************************************************************)
\* Setups, but for how far s is.
Later(s, pc) ==
  /\ setup' \in [Session -> SetupType] /\ setup'[s].pc = pc
  /\ \A x \in Session \ {s} : setup'[x].pc = setup[x].pc
  /\ \A x \in Session : /\ setup'[x].inst = setup[x].inst /\ setup'[x].key = setup[x].key
                        /\ setup'[x].aborted = setup[x].aborted

LEMMA LaterBy ==
  ASSUME setup \in [Session -> SetupType], NEW s \in Session, NEW pc \in {"closingLate", "done"},
         setup' = [setup EXCEPT ![s].pc = pc]
  PROVE  Later(s, pc)
<1> DEFINE f == [setup[s] EXCEPT !.pc = pc]
<1>1. setup' = [setup EXCEPT ![s] = f]
  OBVIOUS
<1>2. /\ f \in SetupType /\ f.pc = pc /\ f.inst = setup[s].inst /\ f.key = setup[s].key
      /\ f.aborted = setup[s].aborted
  BY DEF SetupType
<1> HIDE DEF f
<1>3. /\ setup' \in [Session -> SetupType] /\ setup'[s] = f
      /\ \A x \in Session \ {s} : setup'[x] = setup[x]
  BY <1>1, <1>2
<1> QED  BY <1>2, <1>3 DEF Later

LEMMA EndsBy ==
  ASSUME Types, NEW s \in Session, SetupEnds(s)
  PROVE  /\ Later(s, "done") /\ pending' \in [Key -> Session \cup {None}]
         /\ \A k \in Key : pending'[k] = IF pending[k] = s THEN None ELSE pending[k]
<1>1. Later(s, "done")
  BY LaterBy DEF SetupEnds, Types
<1> QED  BY <1>1 DEF SetupEnds, Types

\* A step that leaves the setups where they are.
SetupKept ==
  /\ setup' \in [Session -> SetupType] /\ pending' = pending
  /\ \A x \in Session : /\ setup'[x].pc = setup[x].pc /\ setup'[x].inst = setup[x].inst
                        /\ setup'[x].key = setup[x].key
                        /\ setup[x].aborted => setup'[x].aborted

LEMMA KeptBy == Types /\ UNCHANGED <<setup, pending>> => SetupKept
BY DEF Types, SetupKept

\* A request that begins a setup.
Requested(s, i, k) ==
  /\ shut.pc = "open" /\ setup[s].pc = "unused" /\ i \notin drained
  /\ k \in Key => tab.key[k] \notin Owned /\ pending[k] = None
  /\ setup' \in [Session -> SetupType]
  /\ setup'[s].pc = "opening" /\ setup'[s].inst = i /\ setup'[s].key = k
  /\ \A x \in Session \ {s} : setup'[x] = setup[x]
  /\ pending' \in [Key -> Session \cup {None}]
  /\ \A j \in Key : pending'[j] = IF j = k THEN s ELSE pending[j]
  /\ tab' \in TabType /\ tab'.state = tab.state /\ tab'.failed = tab.failed
  /\ tab'.dropped = tab.dropped
  /\ \A j \in Key : tab'.key[j] = IF j = k THEN None ELSE tab.key[j]
  /\ UNCHANGED <<tunnel, cleanup, drained, act, shut>>

LEMMA PostEffect ==
  ASSUME Types, NEW s \in Session, NEW i \in Instance, NEW k \in Key \cup {None}, Post(s, i, k)
  PROVE  Requested(s, i, k)
<1> DEFINE f == [pc |-> "opening", inst |-> i, key |-> k, aborted |-> FALSE]
           key == [j \in Key |-> IF j = k THEN None ELSE tab.key[j]]
<1>1. f \in SetupType /\ f.pc = "opening" /\ f.inst = i /\ f.key = k
  BY DEF SetupType
<1>2. key \in [Key -> Session \cup {None}] /\ \A j \in Key : key[j] = IF j = k THEN None ELSE tab.key[j]
  BY DEF Types, TabType
<1>3. tab' = [tab EXCEPT !.key = key] /\ setup' = [setup EXCEPT ![s] = f]
  BY DEF Post
<1> HIDE DEF f, key
<1>4. /\ tab' \in TabType /\ tab'.state = tab.state /\ tab'.failed = tab.failed
      /\ tab'.dropped = tab.dropped /\ tab'.key = key
  <2>1. tab \in TabType /\ key \in [Key -> Session \cup {None}] /\ tab' = [tab EXCEPT !.key = key]
    BY <1>2, <1>3 DEF Types
  <2> QED  BY <2>1, TabEffect
<1>5. /\ setup' \in [Session -> SetupType] /\ setup'[s] = f
      /\ \A x \in Session \ {s} : setup'[x] = setup[x]
  BY <1>1, <1>3 DEF Types
<1>6. /\ pending' \in [Key -> Session \cup {None}]
      /\ \A j \in Key : pending'[j] = IF j = k THEN s ELSE pending[j]
  BY DEF Types, Post
<1> QED  BY <1>1, <1>2, <1>4, <1>5, <1>6 DEF Requested, Post, Serving

\* An answer in time: the session is in the table, and its setup has ended.
Published(s) ==
  /\ shut.pc = "open" /\ setup[s].pc = "opening"
  /\ Later(s, "done") /\ pending' \in [Key -> Session \cup {None}]
  /\ \A k \in Key : pending'[k] = IF pending[k] = s THEN None ELSE pending[k]
  /\ tunnel' \in [Session -> TunnelType] /\ tunnel'[s].state = "open" /\ tunnel'[s].watched
  /\ \A x \in Session \ {s} : tunnel'[x] = tunnel[x]
  /\ tab' \in TabType /\ tab'.failed = tab.failed /\ tab'.dropped = tab.dropped
  /\ tab'.state[s] = "live" /\ \A x \in Session \ {s} : tab'.state[x] = tab.state[x]
  /\ \A k \in Key : tab'.key[k] = IF k = setup[s].key THEN s ELSE tab.key[k]
  /\ UNCHANGED <<cleanup, drained, act, shut>>

\* A late one: the session is closed at once.
TooLate(s) ==
  /\ setup[s].pc = "opening" /\ Later(s, "closingLate")
  /\ tunnel' \in [Session -> TunnelType] /\ tunnel'[s].state = "closing"
  /\ tunnel'[s].watched = tunnel[s].watched
  /\ \A x \in Session \ {s} : tunnel'[x] = tunnel[x]
  /\ UNCHANGED <<tab, pending, cleanup, drained, act, shut>>

LEMMA OpenEffect ==
  ASSUME Types, NEW s \in Session, OpenResolves(s)
  PROVE  Published(s) \/ TooLate(s)
<1>0. setup[s].pc = "opening" /\ UNCHANGED <<cleanup, drained, act, shut>>
  BY DEF OpenResolves
<1>1. CASE shut.pc = "open" /\ setup[s].inst \notin drained
  <2> DEFINE f == [state |-> "open", watched |-> TRUE]
             state == [tab.state EXCEPT ![s] = "live"]
             key == [k \in Key |-> IF k = setup[s].key THEN s ELSE tab.key[k]]
  <2>1. Publish(s)
    BY <1>1 DEF OpenResolves
  <2>2. f \in TunnelType /\ f.state = "open" /\ f.watched
    BY DEF TunnelType
  <2>3. /\ state \in [Session -> {"none", "live", "closing", "failed"}] /\ state[s] = "live"
        /\ \A x \in Session \ {s} : state[x] = tab.state[x]
    BY DEF Types, TabType
  <2>4. /\ key \in [Key -> Session \cup {None}]
        /\ \A k \in Key : key[k] = IF k = setup[s].key THEN s ELSE tab.key[k]
    BY DEF Types, TabType
  <2>5. tab' = [[tab EXCEPT !.state = state] EXCEPT !.key = key] /\ tunnel' = [tunnel EXCEPT ![s] = f]
    <3>1. tab' = [tab EXCEPT !.state[s] = "live",
                        !.key = [k \in Key |-> IF k = setup[s].key THEN s ELSE @[k]]]
      BY <2>1 DEF Publish
    <3> QED  BY <2>1, <3>1 DEF Publish, Types, TabType
  <2> HIDE DEF f, state, key
  <2>6. /\ tab' \in TabType /\ tab'.state = state /\ tab'.failed = tab.failed
        /\ tab'.dropped = tab.dropped /\ tab'.key = key
    <3> DEFINE t == [tab EXCEPT !.state = state]
    <3>1. /\ t \in TabType /\ t.state = state /\ t.failed = tab.failed
          /\ t.dropped = tab.dropped
      <4>1. tab \in TabType
        BY DEF Types
      <4> QED  BY <2>3, <4>1, TabEffect
    <3>2. tab' = [t EXCEPT !.key = key]
      BY <2>5
    <3> HIDE DEF t
    <3> QED  BY <2>4, <3>1, <3>2, TabEffect
  <2>7. /\ tunnel' \in [Session -> TunnelType] /\ tunnel'[s] = f
        /\ \A x \in Session \ {s} : tunnel'[x] = tunnel[x]
    BY <2>2, <2>5 DEF Types
  <2>8. /\ Later(s, "done") /\ pending' \in [Key -> Session \cup {None}]
        /\ \A k \in Key : pending'[k] = IF pending[k] = s THEN None ELSE pending[k]
    BY <2>1, EndsBy DEF Publish
  <2> QED  BY <1>0, <1>1, <2>2, <2>3, <2>4, <2>6, <2>7, <2>8 DEF Published
<1>2. CASE ~(shut.pc = "open" /\ setup[s].inst \notin drained)
  <2> DEFINE f == [tunnel[s] EXCEPT !.state = "closing"]
  <2>1. /\ tunnel' = [tunnel EXCEPT ![s].state = "closing"]
        /\ setup' = [setup EXCEPT ![s].pc = "closingLate"] /\ UNCHANGED <<tab, pending>>
    BY <1>2 DEF OpenResolves
  <2>2. f \in TunnelType /\ f.state = "closing" /\ f.watched = tunnel[s].watched
    BY DEF Types, TunnelType
  <2>3. tunnel' = [tunnel EXCEPT ![s] = f]
    BY <2>1
  <2> HIDE DEF f
  <2>4. /\ tunnel' \in [Session -> TunnelType] /\ tunnel'[s] = f
        /\ \A x \in Session \ {s} : tunnel'[x] = tunnel[x]
    BY <2>2, <2>3 DEF Types
  <2>5. Later(s, "closingLate")
    BY <2>1, LaterBy DEF Types
  <2> QED  BY <1>0, <2>1, <2>2, <2>4, <2>5 DEF TooLate
<1> QED  BY <1>1, <1>2

\* The end of a setup that leaves nothing in the table.
Ended(s) ==
  /\ InSetup(s)
  /\ setup[s].pc = "closingLate" => Settled(s)
  /\ Later(s, "done") /\ pending' \in [Key -> Session \cup {None}]
  /\ \A k \in Key : pending'[k] = IF pending[k] = s THEN None ELSE pending[k]
  /\ cleanup' \subseteq Session /\ cleanup \subseteq cleanup'
  /\ setup[s].pc = "closingLate" /\ tunnel[s].state = "failed" => s \in cleanup'
  /\ UNCHANGED <<tunnel, tab, drained, act, shut>>

LEMMA EndEffect ==
  ASSUME Types, NEW s \in Session, OpenRejects(s) \/ LateClosed(s)
  PROVE  Ended(s)
<1>1. /\ Later(s, "done") /\ pending' \in [Key -> Session \cup {None}]
      /\ \A k \in Key : pending'[k] = IF pending[k] = s THEN None ELSE pending[k]
  BY EndsBy DEF OpenRejects, LateClosed
<1>2. CASE OpenRejects(s)
  BY <1>1, <1>2 DEF OpenRejects, Ended, Types, InSetup
<1>3. CASE LateClosed(s)
  BY <1>1, <1>3 DEF LateClosed, Ended, Types, InSetup
<1> QED  BY <1>2, <1>3

\* A closing of s begins, for the handler a.
Owning(a, s) ==
  /\ Listed(s) /\ SetupKept /\ Closes({s}) /\ UNCHANGED <<cleanup, drained, shut>>
  /\ tab' \in TabType /\ tab'.key = tab.key /\ tab'.dropped = tab.dropped
  /\ tab'.state[s] = "closing" /\ \A x \in Session \ {s} : tab'.state[x] = tab.state[x]
  /\ Elements(tab'.failed) \subseteq Elements(tab.failed)
  /\ act[a].pc \notin Closers /\ Moves(a, act'[a].pc)
  /\ act'[a].pc \in Closers /\ act'[a].sess = s

\* It ends, with a result that is entered.
Returning(a) ==
  /\ act[a].pc \in Closers /\ Settled(act[a].sess) /\ act[a].sess \in Session
  /\ SetupKept /\ UNCHANGED <<tunnel, cleanup, drained, shut>>
  /\ Entered(tab, tab', act[a].sess) /\ tab'.state[act[a].sess] \in {"none", "failed"}
  /\ Moves(a, act'[a].pc) /\ act'[a].pc \notin Waits

\* A handler goes on with something else.
Going(a) ==
  /\ SetupKept /\ (\E S : Closes(S)) /\ UNCHANGED <<tab, shut>>
  /\ \A x \in cleanup : x \in cleanup' \/ tunnel[x].state = "closed"
  /\ cleanup' \subseteq cleanup /\ drained' \subseteq Instance
  /\ act[a].pc \notin Closers /\ Moves(a, act'[a].pc) /\ act'[a].pc \notin Closers
  /\ act'[a].pc \in Waits => act'[a].sess \in Session

\* A drain that goes on keeps its instance, and is done when nothing is left.
Keeps(d) ==
  /\ drained' = drained /\ Drains(d) /\ Drains(d)' /\ act'[d].inst = act[d].inst
  /\ act'[d].pc = "beginWait" \/ act[d].pc # "beginWait" \/ Tracked(act[d].inst) = {}
  /\ act'[d].pc = "drained" =>
       /\ shut.pc = "open" /\ OfInstance(act[d].inst) \cap (Owned \cup cleanup) = {}
       /\ act[d].pc # "beginWait" /\ UNCHANGED <<tunnel, tab>>

LEMMA ActorSets == /\ Closer \subseteq Actor /\ Drainer \subseteq Actor
                   /\ \A c \in Closer : c \notin Drainer
BY SessionsAssumption DEF Actor

LEMMA OwningBy ==
  ASSUME Types, NEW a \in Actor, NEW s \in Session, NEW f \in FrameType, CloseOwned(a, s, f),
         f.pc \in Closers, act[a].pc \notin Closers, Listed(s),
         UNCHANGED <<setup, pending, cleanup, drained, shut>>
  PROVE  Owning(a, s) /\ act'[a].pc = f.pc /\ act'[a].inst = f.inst
<1>1. /\ MarkClosing(tab, s) \in TabType /\ MarkClosing(tab, s).state = [tab.state EXCEPT ![s] = "closing"]
      /\ MarkClosing(tab, s).key = tab.key /\ MarkClosing(tab, s).dropped = tab.dropped
      /\ Elements(MarkClosing(tab, s).failed) \subseteq Elements(tab.failed)
  BY MarkClosingEffect DEF Types
<1>2. tab' = MarkClosing(tab, s) /\ tunnel' = CloseSession(tunnel, s)
  BY DEF CloseOwned
<1>3. tab'.state[s] = "closing" /\ \A x \in Session \ {s} : tab'.state[x] = tab.state[x]
  BY <1>1, <1>2 DEF Types, TabType
<1>4. Closes({s})
  BY <1>2, CloseEffect DEF Types
<1> DEFINE g == [f EXCEPT !.sess = s]
<1>5. g \in FrameType /\ g.pc = f.pc /\ g.sess = s /\ g.inst = f.inst
  BY Frames
<1>6. Do(a, g)
  BY DEF CloseOwned
<1> HIDE DEF g
<1>7. Moves(a, f.pc) /\ act'[a] = g
  BY <1>5, <1>6, MovesBy DEF Types
<1>8. act'[a].pc = f.pc
  BY <1>5, <1>7
<1> QED  BY <1>1, <1>2, <1>3, <1>4, <1>5, <1>7, <1>8, KeptBy DEF Owning

LEMMA ReturningBy ==
  ASSUME Types, NEW a \in Actor, NEW f \in FrameType, Do(a, f), tab' = Closed(tab, act[a].sess),
         f.pc \notin Waits, act[a].pc \in Closers, Settled(act[a].sess),
         UNCHANGED <<setup, tunnel, pending, cleanup, drained, shut>>
  PROVE  Returning(a) /\ act'[a] = f
<1>1. act[a].sess \in Session
  BY DEF Types, Closers, Waits
<1>2. /\ Entered(tab, Closed(tab, act[a].sess), act[a].sess)
      /\ Closed(tab, act[a].sess).state[act[a].sess] \in {"none", "failed"}
  BY <1>1, ClosedEnters DEF Types
<1>3. Moves(a, f.pc) /\ act'[a] = f
  BY MovesBy DEF Types
<1> QED  BY <1>1, <1>2, <1>3, KeptBy DEF Returning

LEMMA GoingBy ==
  ASSUME Types, NEW a \in Actor, NEW f \in FrameType, Do(a, f),
         f.pc \notin Closers, act[a].pc \notin Closers, f.pc \in Waits => f.sess \in Session,
         UNCHANGED <<setup, tab, pending, shut>>,
         tunnel' = tunnel \/ \E s \in Session : tunnel' = CloseSession(tunnel, s),
         cleanup' \subseteq cleanup, \A x \in cleanup : x \in cleanup' \/ tunnel[x].state = "closed",
         drained' \subseteq Instance
  PROVE  Going(a) /\ act'[a] = f
<1>1. Moves(a, f.pc) /\ act'[a] = f
  BY MovesBy DEF Types
<1>2. \E S : Closes(S)
  <2>1. CASE tunnel' = tunnel
    <3>1. Closes({})
      BY <2>1 DEF Closes, Types
    <3> QED  BY <3>1
  <2>2. CASE \E s \in Session : tunnel' = CloseSession(tunnel, s)
    BY <2>2, CloseEffect DEF Types
  <2> QED  BY <2>1, <2>2
<1> QED  BY <1>1, <1>2, KeptBy DEF Going

LEMMA CloserEffect ==
  ASSUME Types, NEW c \in Closer, CloserStep(c)
  PROVE  (\E s \in Session : Owning(c, s)) \/ Returning(c)
<1>0. c \in Actor
  BY ActorSets
<1>1. ASSUME NEW s \in Session, Delete(c, s) PROVE Owning(c, s)
  <2>1. Frame("close") \in FrameType /\ Frame("close").pc = "close"
    BY NewFrames, Places
  <2>2. act[c].pc \notin Closers /\ "close" \in Closers
    BY <1>1 DEF Delete, Closers
  <2> QED  BY <1>0, <1>1, <2>1, <2>2, OwningBy DEF Delete
<1>2. ASSUME Deleted(c) PROVE Returning(c)
  <2>1. Done \in FrameType /\ Done.pc \notin Waits
    BY NewFrames, Places DEF Done, Waits
  <2>2. act[c].pc \in Closers
    BY <1>2 DEF Deleted, Closers
  <2> QED  BY <1>0, <1>2, <2>1, <2>2, ReturningBy DEF Deleted
<1> QED  BY <1>1, <1>2 DEF CloserStep

\* A drain begins, or is released.
Begun(d) ==
  /\ ~Drains(d) /\ act'[d].inst \in Instance \ drained
  /\ drained' = drained \cup {act'[d].inst} /\ act'[d].pc \in {"beginWait", "granted"}
  /\ act'[d].pc = "beginWait" \/ Tracked(act'[d].inst) = {}

Released(d) ==
  Drains(d) /\ drained' = drained \ {act[d].inst} /\ act'[d].pc = "done"

LEMMA DrainEffect ==
  ASSUME Types, NEW d \in Drainer, DrainStep(d)
  PROVE  \/ Keeps(d) /\ (Returning(d) \/ \E s \in Session : Owning(d, s))
         \/ Going(d) /\ (Keeps(d) \/ Begun(d) \/ Released(d))
<1>0. /\ d \in Actor /\ act[d] \in FrameType /\ act[d].inst \in Instance \cup {None}
      /\ act[d].sess \in Session \cup {None}
      /\ act[d].todo \subseteq Session /\ act[d].wait \subseteq Session
      /\ cleanup \subseteq Session /\ drained \subseteq Instance
  BY ActorSets DEF Types, FrameType
<1>g. ASSUME NEW f \in FrameType, Do(d, f), f.pc \notin Closers, act[d].pc \notin Closers,
             f.pc \in Waits => f.sess \in Session, UNCHANGED <<setup, tab, pending, shut>>,
             tunnel' = tunnel \/ \E s \in Session : tunnel' = CloseSession(tunnel, s),
             cleanup' \subseteq cleanup,
             \A x \in cleanup : x \in cleanup' \/ tunnel[x].state = "closed",
             drained' \subseteq Instance
      PROVE  Going(d) /\ act'[d] = f
  BY <1>0, <1>g, GoingBy
<1>p. ASSUME NEW p \in Place, NEW w \in SUBSET Session
      PROVE  LET f == [act[d] EXCEPT !.pc = p, !.wait = w] IN
             f \in FrameType /\ f.pc = p /\ f.inst = act[d].inst /\ f.sess = act[d].sess
  <2> DEFINE g == [act[d] EXCEPT !.pc = p]
  <2>1. /\ g \in FrameType /\ g.pc = p /\ g.inst = act[d].inst /\ g.sess = act[d].sess
    BY <1>0, Frames
  <2> HIDE DEF g
  <2>2. LET f == [g EXCEPT !.wait = w] IN
        f \in FrameType /\ f.pc = p /\ f.inst = act[d].inst /\ f.sess = act[d].sess
    BY <2>1, Frames
  <2>3. [act[d] EXCEPT !.pc = p, !.wait = w] = [g EXCEPT !.wait = w]
    BY DEF g
  <2> QED  BY <2>2, <2>3
<1>t. ASSUME NEW p \in Place, NEW w \in SUBSET Session
      PROVE  LET f == [act[d] EXCEPT !.pc = p, !.todo = w] IN
             f \in FrameType /\ f.pc = p /\ f.inst = act[d].inst /\ f.sess = act[d].sess
  <2> DEFINE g == [act[d] EXCEPT !.pc = p]
  <2>1. /\ g \in FrameType /\ g.pc = p /\ g.inst = act[d].inst /\ g.sess = act[d].sess
    BY <1>0, Frames
  <2> HIDE DEF g
  <2>2. LET f == [g EXCEPT !.todo = w] IN
        f \in FrameType /\ f.pc = p /\ f.inst = act[d].inst /\ f.sess = act[d].sess
    BY <2>1, Frames
  <2>3. [act[d] EXCEPT !.pc = p, !.todo = w] = [g EXCEPT !.todo = w]
    BY DEF g
  <2> QED  BY <2>2, <2>3
<1>s. ASSUME NEW p \in Place, NEW x \in Session \cup {None}
      PROVE  LET f == [act[d] EXCEPT !.pc = p, !.sess = x] IN
             f \in FrameType /\ f.pc = p /\ f.inst = act[d].inst /\ f.sess = x
  <2> DEFINE g == [act[d] EXCEPT !.pc = p]
  <2>1. /\ g \in FrameType /\ g.pc = p /\ g.inst = act[d].inst
    BY <1>0, Frames
  <2> HIDE DEF g
  <2>2. LET f == [g EXCEPT !.sess = x] IN
        f \in FrameType /\ f.pc = p /\ f.inst = act[d].inst /\ f.sess = x
    BY <2>1, Frames
  <2>3. [act[d] EXCEPT !.pc = p, !.sess = x] = [g EXCEPT !.sess = x]
    BY DEF g
  <2> QED  BY <2>2, <2>3
<1>o. ASSUME NEW i \in Instance, NEW p \in Place, NEW w \in SUBSET Session
      PROVE  LET f == [Frame(p) EXCEPT !.inst = i, !.wait = w] IN
             f \in FrameType /\ f.pc = p /\ f.inst = i
  <2> DEFINE g == [Frame(p) EXCEPT !.inst = i]
  <2>1. g \in FrameType /\ g.pc = p /\ g.inst = i
    BY NewFrames, Frames
  <2> HIDE DEF g
  <2>2. LET f == [g EXCEPT !.wait = w] IN f \in FrameType /\ f.pc = p /\ f.inst = i
    BY <2>1, Frames
  <2>3. [Frame(p) EXCEPT !.inst = i, !.wait = w] = [g EXCEPT !.wait = w]
    BY DEF g
  <2> QED  BY <2>2, <2>3
<1>d. Drains(d) <=> act[d].pc \notin {"idle", "done"}
  BY DEF Drains
<1>T. \A i : Tracked(i) \subseteq Session
  BY DEF Tracked, OfInstance
<1>1. ASSUME NEW i \in Instance, BeginDrain(d, i) PROVE Going(d) /\ Begun(d)
  <2> DEFINE w == Tracked(i)
             p == IF w = {} THEN "granted" ELSE "beginWait"
             f == [Frame(p) EXCEPT !.inst = i, !.wait = w]
  <2>1. /\ act[d].pc = "idle" /\ i \notin drained /\ drained' = drained \cup {i} /\ Do(d, f)
        /\ UNCHANGED <<setup, tunnel, tab, pending, cleanup, shut>>
    BY <1>1 DEF BeginDrain
  <2>2. /\ p \in Place /\ p \in {"beginWait", "granted"} /\ (p = "beginWait" \/ w = {})
        /\ w \in SUBSET Session
    BY <1>T, Places
  <2> HIDE DEF w, p
  <2>3. f \in FrameType /\ f.pc = p /\ f.inst = i
    BY <1>o, <2>2
  <2> HIDE DEF f
  <2>4. Going(d) /\ act'[d] = f
    BY <1>0, <1>g, <2>1, <2>2, <2>3 DEF Closers, Waits
  <2> QED  BY <1>d, <2>1, <2>2, <2>3, <2>4 DEF Begun, w
<1>2. ASSUME BeginWaited(d) PROVE Going(d) /\ Keeps(d)
  <2> DEFINE w == Tracked(act[d].inst)
             p == IF w = {} THEN "granted" ELSE "beginWait"
             f == [act[d] EXCEPT !.pc = p, !.wait = w]
  <2>1. act[d].pc = "beginWait" /\ Do(d, f) /\ UNCHANGED <<setup, tunnel, tab, pending, cleanup, drained, shut>>
    BY <1>2 DEF BeginWaited
  <2>2. /\ p \in Place /\ p \in {"beginWait", "granted"} /\ (p = "beginWait" \/ w = {})
        /\ w \in SUBSET Session
    BY <1>T, Places
  <2> HIDE DEF w, p
  <2>3. f \in FrameType /\ f.pc = p /\ f.inst = act[d].inst
    BY <1>p, <2>2
  <2> HIDE DEF f
  <2>4. Going(d) /\ act'[d] = f
    BY <1>0, <1>g, <2>1, <2>2, <2>3 DEF Closers, Waits
  <2> QED  BY <1>d, <2>1, <2>2, <2>3, <2>4 DEF Keeps, Drains, w
<1>3. ASSUME CloseForDrain(d) PROVE Going(d) /\ Keeps(d)
  <2> DEFINE f == [act[d] EXCEPT !.pc = "intents"]
  <2>1. act[d].pc = "granted" /\ Do(d, f) /\ UNCHANGED <<setup, tunnel, tab, pending, cleanup, drained, shut>>
    BY <1>3 DEF CloseForDrain
  <2>3. f \in FrameType /\ f.pc = "intents" /\ f.inst = act[d].inst
    BY <1>0, Frames, Places
  <2> HIDE DEF f
  <2>4. Going(d) /\ act'[d] = f
    BY <1>0, <1>g, <2>1, <2>3 DEF Closers, Waits
  <2> QED  BY <1>d, <2>1, <2>3, <2>4 DEF Keeps, Drains
<1>4. ASSUME IntentsDrained(d) PROVE Going(d) /\ Keeps(d)
  <2> DEFINE w == OfInstance(act[d].inst) \cap Owned
             f == [act[d] EXCEPT !.pc = "drainLoop", !.todo = w]
  <2>1. act[d].pc = "intents" /\ Do(d, f) /\ UNCHANGED <<setup, tunnel, tab, pending, cleanup, drained, shut>>
    BY <1>4 DEF IntentsDrained
  <2>2. w \in SUBSET Session
    BY DEF Owned
  <2> HIDE DEF w
  <2>3. f \in FrameType /\ f.pc = "drainLoop" /\ f.inst = act[d].inst
    <3>1. "drainLoop" \in Place
      BY Places
    <3> QED  BY <1>t, <2>2, <3>1, Zenon
  <2> HIDE DEF f
  <2>4. Going(d) /\ act'[d] = f
    BY <1>0, <1>g, <2>1, <2>3 DEF Closers, Waits
  <2> QED  BY <1>d, <2>1, <2>3, <2>4 DEF Keeps, Drains
<1>5. ASSUME DrainNext(d) PROVE Keeps(d) /\ (Going(d) \/ \E s \in Session : Owning(d, s))
  <2>1. PICK s \in act[d].todo :
          LET rest == [act[d] EXCEPT !.todo = @ \ {s}] IN
          IF Listed(s)
          THEN CloseOwned(d, s, [rest EXCEPT !.pc = "drainClose"])
          ELSE Do(d, rest) /\ UNCHANGED <<tab, tunnel>>
    BY <1>5 DEF DrainNext
  <2>2. act[d].pc = "drainLoop" /\ UNCHANGED <<setup, pending, cleanup, drained, shut>> /\ s \in Session
    BY <1>0, <1>5, <2>1 DEF DrainNext
  <2> DEFINE rest == [act[d] EXCEPT !.todo = act[d].todo \ {s}]
             f == [rest EXCEPT !.pc = "drainClose"]
  <2>3. rest \in FrameType /\ rest.pc = "drainLoop" /\ rest.inst = act[d].inst
    BY <1>0, <2>2, Frames
  <2>4. IF Listed(s) THEN CloseOwned(d, s, f) ELSE Do(d, rest) /\ UNCHANGED <<tab, tunnel>>
    BY <2>1
  <2> HIDE DEF rest
  <2>5. f \in FrameType /\ f.pc = "drainClose" /\ f.inst = act[d].inst
    BY <2>3, Frames, Places
  <2> HIDE DEF f
  <2>6. CASE Listed(s)
    <3>1. Owning(d, s) /\ act'[d].pc = "drainClose" /\ act'[d].inst = act[d].inst
      BY <1>0, <2>2, <2>4, <2>5, <2>6, OwningBy DEF Closers
    <3> QED  BY <1>d, <2>2, <3>1 DEF Keeps, Drains
  <2>7. CASE ~Listed(s)
    <3>1. Going(d) /\ act'[d] = rest
      BY <1>0, <1>g, <2>2, <2>3, <2>4, <2>7 DEF Closers, Waits
    <3> QED  BY <1>d, <2>2, <2>3, <3>1 DEF Keeps, Drains
  <2> QED  BY <2>6, <2>7
<1>6. ASSUME DrainClosed(d) PROVE Keeps(d) /\ Returning(d)
  <2> DEFINE f == [act[d] EXCEPT !.pc = "drainLoop", !.sess = None]
  <2>1. /\ act[d].pc = "drainClose" /\ Settled(act[d].sess) /\ tab' = Closed(tab, act[d].sess)
        /\ Do(d, f) /\ UNCHANGED <<setup, tunnel, pending, cleanup, drained, shut>>
    BY <1>6 DEF DrainClosed
  <2>3. f \in FrameType /\ f.pc = "drainLoop" /\ f.inst = act[d].inst
    <3>1. "drainLoop" \in Place /\ None \in Session \cup {None}
      BY Places
    <3> QED  BY <1>s, <3>1, Zenon
  <2> HIDE DEF f
  <2>4. Returning(d) /\ act'[d] = f
    BY <1>0, <2>1, <2>3, ReturningBy DEF Closers, Waits
  <2> QED  BY <1>d, <2>1, <2>3, <2>4 DEF Keeps, Drains
<1>7. ASSUME SessionsVisited(d) PROVE Going(d) /\ Keeps(d)
  <2> DEFINE w == cleanup \cap OfInstance(act[d].inst)
             f == [act[d] EXCEPT !.pc = "cleanLoop", !.todo = w]
  <2>1. act[d].pc = "drainLoop" /\ Do(d, f) /\ UNCHANGED <<setup, tunnel, tab, pending, cleanup, drained, shut>>
    BY <1>7 DEF SessionsVisited
  <2>2. w \in SUBSET Session
    BY <1>0
  <2> HIDE DEF w
  <2>3. f \in FrameType /\ f.pc = "cleanLoop" /\ f.inst = act[d].inst
    <3>1. "cleanLoop" \in Place
      BY Places
    <3> QED  BY <1>t, <2>2, <3>1, Zenon
  <2> HIDE DEF f
  <2>4. Going(d) /\ act'[d] = f
    BY <1>0, <1>g, <2>1, <2>3 DEF Closers, Waits
  <2> QED  BY <1>d, <2>1, <2>3, <2>4 DEF Keeps, Drains
<1>8. ASSUME CleanNext(d) PROVE Going(d) /\ Keeps(d)
  <2>1. PICK s \in act[d].todo :
          /\ Do(d, [act[d] EXCEPT !.pc = "cleanClose", !.sess = s, !.todo = @ \ {s}])
          /\ tunnel' = CloseSession(tunnel, s)
    BY <1>8 DEF CleanNext
  <2>2. act[d].pc = "cleanLoop" /\ UNCHANGED <<setup, tab, pending, cleanup, drained, shut>> /\ s \in Session
    BY <1>0, <1>8, <2>1 DEF CleanNext
  <2> DEFINE g == [act[d] EXCEPT !.pc = "cleanClose", !.sess = s]
             f == [g EXCEPT !.todo = act[d].todo \ {s}]
  <2>3. g \in FrameType /\ g.pc = "cleanClose" /\ g.inst = act[d].inst /\ g.sess = s
    <3>1. "cleanClose" \in Place /\ s \in Session \cup {None}
      BY <2>2, Places
    <3> QED  BY <1>s, <3>1, Zenon
  <2>4. Do(d, f)
    BY <2>1
  <2> HIDE DEF g
  <2>5. f \in FrameType /\ f.pc = "cleanClose" /\ f.inst = act[d].inst /\ f.sess = s
    BY <1>0, <2>3, Frames
  <2> HIDE DEF f
  <2>6. Going(d) /\ act'[d] = f
    BY <1>0, <1>g, <2>1, <2>2, <2>4, <2>5 DEF Closers, Waits
  <2> QED  BY <1>d, <2>2, <2>5, <2>6 DEF Keeps, Drains
<1>9. ASSUME CleanClosed(d) PROVE Going(d) /\ Keeps(d)
  <2> DEFINE f == [act[d] EXCEPT !.pc = "cleanLoop", !.sess = None]
  <2>1. /\ act[d].pc = "cleanClose" /\ Do(d, f) /\ UNCHANGED <<setup, tunnel, tab, pending, drained, shut>>
        /\ cleanup' = IF tunnel[act[d].sess].state = "closed" THEN cleanup \ {act[d].sess} ELSE cleanup
    BY <1>9 DEF CleanClosed
  <2>3. f \in FrameType /\ f.pc = "cleanLoop" /\ f.inst = act[d].inst
    <3>1. "cleanLoop" \in Place /\ None \in Session \cup {None}
      BY Places
    <3> QED  BY <1>s, <3>1, Zenon
  <2> HIDE DEF f
  <2>4. Going(d) /\ act'[d] = f
    BY <1>0, <1>g, <2>1, <2>3 DEF Closers, Waits
  <2> QED  BY <1>d, <2>1, <2>3, <2>4 DEF Keeps, Drains
<1>10. ASSUME Verdict(d) PROVE Going(d) /\ Keeps(d)
  <2> DEFINE none == OfInstance(act[d].inst) \cap (Owned \cup cleanup) = {} /\ shut.pc = "open"
  <2>1. PICK p \in IF none THEN {"drained", "refused"} ELSE {"refused"} :
          Do(d, [Frame(p) EXCEPT !.inst = act[d].inst])
    BY <1>10 DEF Verdict
  <2> DEFINE f == [Frame(p) EXCEPT !.inst = act[d].inst]
  <2>2. act[d].pc = "cleanLoop" /\ Do(d, f) /\ UNCHANGED <<setup, tunnel, tab, pending, cleanup, drained, shut>>
    BY <1>10, <2>1 DEF Verdict
  <2>3. p \in Place /\ p \in {"drained", "refused"} /\ (p = "drained" => none)
    BY <2>1, Places
  <2>4. f \in FrameType /\ f.pc = p /\ f.inst = act[d].inst
    <3> DEFINE g == Frame(p)
    <3>1. g \in FrameType /\ g.pc = p
      BY <2>3, NewFrames
    <3> HIDE DEF g
    <3>2. [g EXCEPT !.inst = act[d].inst] \in FrameType
          /\ [g EXCEPT !.inst = act[d].inst].pc = p
          /\ [g EXCEPT !.inst = act[d].inst].inst = act[d].inst
      BY <1>0, <3>1, Frames
    <3> QED  BY <3>2 DEF g
  <2> HIDE DEF f, none
  <2>5. Going(d) /\ act'[d] = f
    BY <1>0, <1>g, <2>2, <2>3, <2>4 DEF Closers, Waits
  <2> QED  BY <1>d, <2>2, <2>3, <2>4, <2>5 DEF Keeps, Drains, none
<1>11. ASSUME ReleaseDrain(d) PROVE Going(d) /\ Released(d)
  <2>1. /\ act[d].pc \in {"granted", "refused", "drained"} /\ Do(d, Done)
        /\ drained' = drained \ {act[d].inst}
        /\ UNCHANGED <<setup, tunnel, tab, pending, cleanup, shut>>
    BY <1>11 DEF ReleaseDrain
  <2>2. Done \in FrameType /\ Done.pc = "done"
    BY NewFrames, Places DEF Done
  <2>3. Going(d) /\ act'[d] = Done
    BY <1>0, <1>g, <2>1, <2>2 DEF Closers, Waits
  <2> QED  BY <1>d, <2>1, <2>2, <2>3 DEF Released
<1> QED
  BY <1>1, <1>2, <1>3, <1>4, <1>5, <1>6, <1>7, <1>8, <1>9, <1>10, <1>11, Zenon DEF DrainStep

\* A tunnel dies, or its closing settles.
Settling(s) ==
  /\ tunnel[s].state = "closing" /\ tunnel'[s].state \in {"closed", "failed"}
  /\ tunnel' \in [Session -> TunnelType] /\ tunnel'[s].watched = tunnel[s].watched
  /\ \A x \in Session \ {s} : tunnel'[x] = tunnel[x]

External(s) ==
  /\ SetupKept /\ UNCHANGED <<tab, cleanup, drained, act, shut>>
  /\ Closes({s}) \/ Settling(s)

\* The end of s is noticed.
Noticed(s) ==
  /\ SetupKept /\ Settled(s) /\ UNCHANGED <<cleanup, drained, act, shut>>
  /\ tunnel' \in [Session -> TunnelType] /\ ~tunnel'[s].watched
  /\ \A x \in Session : tunnel'[x].state = tunnel[x].state
  /\ \A x \in Session \ {s} : tunnel'[x].watched = tunnel[x].watched
  /\ Entered(tab, tab', s) /\ tab'.state[s] # "live"

LEMMA TunnelEffect ==
  ASSUME Types, NEW s \in Session, TransportDies(s) \/ CloseSettles(s)
  PROVE  External(s)
<1>1. SetupKept /\ UNCHANGED <<tab, cleanup, drained, act, shut>>
  BY KeptBy DEF TransportDies, CloseSettles
<1>2. CASE TransportDies(s)
  <2>1. Closes({s})
    BY <1>2, CloseEffect DEF TransportDies, Types
  <2> QED  BY <1>1, <2>1 DEF External
<1>3. CASE CloseSettles(s)
  <2>1. PICK r \in {"closed", "failed"} : tunnel' = [tunnel EXCEPT ![s].state = r]
    BY <1>3 DEF CloseSettles
  <2> DEFINE f == [tunnel[s] EXCEPT !.state = r]
  <2>2. f \in TunnelType /\ f.state = r /\ f.watched = tunnel[s].watched
    BY DEF Types, TunnelType
  <2>3. tunnel' = [tunnel EXCEPT ![s] = f]
    BY <2>1
  <2> HIDE DEF f
  <2>4. /\ tunnel' \in [Session -> TunnelType] /\ tunnel'[s] = f
        /\ \A x \in Session \ {s} : tunnel'[x] = tunnel[x]
    BY <2>2, <2>3 DEF Types
  <2>5. Settling(s)
    BY <1>3, <2>2, <2>4 DEF Settling, CloseSettles
  <2> QED  BY <1>1, <2>5 DEF External
<1> QED  BY <1>2, <1>3

LEMMA NoticeEffect ==
  ASSUME Types, NEW s \in Session, ClosureNoticed(s)
  PROVE  Noticed(s)
<1> DEFINE f == [tunnel[s] EXCEPT !.watched = FALSE]
<1>1. f \in TunnelType /\ ~f.watched /\ f.state = tunnel[s].state
  BY DEF Types, TunnelType
<1>2. tunnel' = [tunnel EXCEPT ![s] = f]
  BY DEF ClosureNoticed
<1> HIDE DEF f
<1>3. /\ tunnel' \in [Session -> TunnelType] /\ tunnel'[s] = f
      /\ \A x \in Session \ {s} : tunnel'[x] = tunnel[x]
  BY <1>1, <1>2 DEF Types
<1>4. tab \in TabType
  BY DEF Types
<1>5. tab' = IF tunnel[s].state = "failed" THEN MarkFailed(tab, s)
             ELSE IF tab.state[s] = "live" THEN Forget(tab, s) ELSE tab
  BY DEF ClosureNoticed
<1>6. Entered(tab, tab', s) /\ tab'.state[s] # "live"
  <2>1. CASE tunnel[s].state = "failed"
    BY <1>4, <1>5, <2>1, MarkFailedEnters
  <2>2. CASE tunnel[s].state # "failed" /\ tab.state[s] = "live"
    BY <1>4, <1>5, <2>2, ForgetEnters
  <2>3. CASE tunnel[s].state # "failed" /\ tab.state[s] # "live"
    BY <1>4, <1>5, <2>3 DEF Entered
  <2> QED  BY <2>1, <2>2, <2>3
<1>7. SetupKept /\ Settled(s) /\ UNCHANGED <<cleanup, drained, act, shut>>
  BY KeptBy DEF ClosureNoticed
<1> QED  BY <1>1, <1>3, <1>6, <1>7 DEF Noticed

\* The shutdown, step by step.
Stopping ==
  /\ SetupKept /\ shut.pc = "open" /\ shut'.pc = "server" /\ shut' \in ShutType
  /\ \A s \in Session : setup'[s].pc = "opening" => setup'[s].aborted
  /\ UNCHANGED <<tunnel, tab, cleanup, drained, act>>

ClosingSessions ==
  /\ SetupKept /\ shut.pc = "server" /\ shut'.pc = "sessions" /\ shut'.wait = Owned
  /\ shut' \in ShutType /\ Closes(Owned) /\ UNCHANGED <<tab, cleanup, drained, act>>

ClosingCleanups ==
  /\ SetupKept /\ shut.pc = "sessions" /\ (\A s \in shut.wait : Settled(s))
  /\ shut'.pc = "cleanups" /\ shut'.wait = cleanup /\ shut' \in ShutType /\ Closes(cleanup)
  /\ tab' \in TabType /\ tab'.key = tab.key /\ tab'.dropped = tab.dropped
  /\ Elements(tab'.failed) = {} /\ \A s \in Session : tab'.state[s] = "none"
  /\ UNCHANGED <<cleanup, drained, act>>

HasStopped ==
  /\ SetupKept /\ shut.pc = "cleanups" /\ shut'.pc = "closed" /\ shut'.wait = {}
  /\ shut' \in ShutType /\ cleanup' \subseteq cleanup /\ UNCHANGED <<tunnel, tab, drained, act>>

LEMMA ShutdownEffect ==
  ASSUME Types, ShutdownStep
  PROVE  Stopping \/ ClosingSessions \/ ClosingCleanups \/ HasStopped
<1>0. /\ tunnel \in [Session -> TunnelType] /\ cleanup \subseteq Session /\ tab \in TabType
      /\ shut \in ShutType
  BY DEF Types
<1>1. CASE Stop
  <2>1. \A s \in Session : setup'[s] = [setup[s] EXCEPT !.aborted = setup[s].aborted \/ setup[s].pc = "opening"]
    BY <1>1 DEF Stop
  <2>2. ASSUME NEW s \in Session
        PROVE  /\ setup'[s] \in SetupType /\ setup'[s].pc = setup[s].pc
               /\ setup'[s].inst = setup[s].inst /\ setup'[s].key = setup[s].key
               /\ setup'[s].aborted = (setup[s].aborted \/ setup[s].pc = "opening")
    <3> DEFINE b == setup[s].aborted \/ setup[s].pc = "opening"
    <3>1. setup[s] \in SetupType /\ b \in BOOLEAN /\ setup'[s] = [setup[s] EXCEPT !.aborted = b]
      BY <2>1 DEF Types, SetupType
    <3> HIDE DEF b
    <3>2. /\ setup'[s] \in SetupType /\ setup'[s].pc = setup[s].pc
          /\ setup'[s].inst = setup[s].inst /\ setup'[s].key = setup[s].key
          /\ setup'[s].aborted = b
      BY <3>1 DEF SetupType
    <3> QED  BY <3>2 DEF b
  <2>3. setup' \in [Session -> SetupType]
    BY <1>1, <2>2 DEF Stop
  <2>4. SetupKept
    BY <1>1, <2>2, <2>3 DEF SetupKept, Stop
  <2>5. shut'.pc = "server" /\ shut' \in ShutType
    BY <1>0, <1>1 DEF Stop, ShutType
  <2> QED  BY <1>0, <1>1, <2>2, <2>4, <2>5 DEF Stop, Stopping
<1>2. CASE CloseSessions
  <2>1. Closes(Owned)
    BY <1>0, <1>2, CloseAllEffect DEF CloseSessions
  <2>2. SetupKept
    BY <1>2, KeptBy DEF CloseSessions
  <2>3. shut'.pc = "sessions" /\ shut'.wait = Owned /\ shut' \in ShutType
    BY <1>2 DEF CloseSessions, ShutType, Owned
  <2> QED  BY <1>2, <2>1, <2>2, <2>3 DEF CloseSessions, ClosingSessions
<1>3. CASE CloseCleanups
  <2>1. Closes(cleanup)
    BY <1>0, <1>3, CloseAllEffect DEF CloseCleanups
  <2>2. SetupKept
    BY <1>3, KeptBy DEF CloseCleanups
  <2> DEFINE none == [s \in Session |-> "none"]
             t == [tab EXCEPT !.state = none]
  <2>3. none \in [Session -> {"none", "live", "closing", "failed"}] /\ \A s \in Session : none[s] = "none"
    OBVIOUS
  <2>4. tab' = [t EXCEPT !.failed = <<>>]
    BY <1>3 DEF CloseCleanups
  <2> HIDE DEF none
  <2>5. t \in TabType /\ t.state = none /\ t.key = tab.key /\ t.dropped = tab.dropped
    <3>1. tab \in TabType /\ none \in [Session -> {"none", "live", "closing", "failed"}]
      BY <1>0, <2>3
    <3> QED  BY <3>1, TabEffect
  <2> HIDE DEF t
  <2>6. /\ tab' \in TabType /\ tab'.state = none /\ tab'.key = tab.key /\ tab'.dropped = tab.dropped
        /\ tab'.failed = <<>>
    BY <2>4, <2>5, TabEffect
  <2>7. Elements(<<>>) = {}
    BY DEF Elements
  <2>8. shut'.pc = "cleanups" /\ shut'.wait = cleanup /\ shut' \in ShutType
    BY <1>0, <1>3 DEF CloseCleanups, ShutType
  <2> QED  BY <1>3, <2>1, <2>2, <2>3, <2>6, <2>7, <2>8 DEF CloseCleanups, ClosingCleanups
<1>4. CASE CleanupsClosed
  <2>1. SetupKept
    BY <1>4, KeptBy DEF CleanupsClosed
  <2>2. shut'.pc = "closed" /\ shut'.wait = {} /\ shut' \in ShutType
    BY <1>4 DEF CleanupsClosed, ShutType
  <2> QED  BY <1>4, <2>1, <2>2 DEF CleanupsClosed, HasStopped
<1> QED  BY <1>1, <1>2, <1>3, <1>4 DEF ShutdownStep

\* Every step is of one of these kinds.
LEMMA Steps ==
  ASSUME Types, Next
  PROVE  \/ \E s \in Session : \/ Published(s) \/ TooLate(s) \/ Ended(s) \/ External(s) \/ Noticed(s)
                               \/ \E i \in Instance, k \in Key \cup {None} : Requested(s, i, k)
         \/ \E c \in Closer : Returning(c) \/ \E s \in Session : Owning(c, s)
         \/ \E d \in Drainer :
              \/ Keeps(d) /\ (Returning(d) \/ \E s \in Session : Owning(d, s))
              \/ Going(d) /\ (Keeps(d) \/ Begun(d) \/ Released(d))
         \/ Stopping \/ ClosingSessions \/ ClosingCleanups \/ HasStopped
<1>1. CASE \E s \in Session : SessionStep(s)
  <2>1. PICK s \in Session : SessionStep(s)
    BY <1>1
  <2>2. CASE \E i \in Instance, k \in Key \cup {None} : Post(s, i, k)
    BY <2>2, PostEffect
  <2>3. CASE OpenResolves(s)
    BY <2>3, OpenEffect
  <2>4. CASE OpenRejects(s) \/ LateClosed(s)
    BY <2>4, EndEffect
  <2>5. CASE TransportDies(s) \/ CloseSettles(s)
    BY <2>5, TunnelEffect
  <2>6. CASE ClosureNoticed(s)
    BY <2>6, NoticeEffect
  <2> QED  BY <2>1, <2>2, <2>3, <2>4, <2>5, <2>6, Zenon DEF SessionStep
<1>2. CASE \E c \in Closer : CloserStep(c)
  BY <1>2, CloserEffect
<1>3. CASE \E d \in Drainer : DrainStep(d)
  BY <1>3, DrainEffect
<1>4. CASE ShutdownStep
  BY <1>4, ShutdownEffect
<1> QED  BY <1>1, <1>2, <1>3, <1>4, Zenon DEF Next

LEMMA HandlerTypes ==
  ASSUME Types, NEW a \in Actor, Moves(a, act'[a].pc),
         act'[a].pc \in Waits => act'[a].sess \in Session,
         a \in Drainer => (Drains(a)' => act'[a].inst \in Instance)
  PROVE  /\ act' \in [Actor -> FrameType]
         /\ \A b \in Actor : act'[b].pc \in Waits => act'[b].sess \in Session
         /\ \A d \in Drainer : Drains(d)' => act'[d].inst \in Instance
<1>1. \A b \in Actor \ {a} : act'[b] = act[b]
  BY DEF Moves
<1>2. act' \in [Actor -> FrameType]
  BY DEF Moves
<1>3. \A b \in Actor : act'[b].pc \in Waits => act'[b].sess \in Session
  BY <1>1 DEF Types
<1>4. \A d \in Drainer : Drains(d)' => act'[d].inst \in Instance
  BY <1>1, ActorSets DEF Types, Drains
<1> QED  BY <1>2, <1>3, <1>4

LEMMA TypesInit == Init => Types
<1> SUFFICES ASSUME Init PROVE Types
  OBVIOUS
<1>1. tab \in TabType
  <2>1. <<>> \in Seq(Session)
    OBVIOUS
  <2> QED  BY <2>1 DEF Init, TabType
<1>2. act \in [Actor -> FrameType] /\ \A a \in Actor : act[a].pc = "idle"
  BY NewFrames, Places DEF Init
<1>3. \A d \in Drainer : act[d].pc = "idle"
  BY <1>2, ActorSets
<1>4. setup \in [Session -> SetupType] /\ tunnel \in [Session -> TunnelType]
  BY DEF Init, SetupType, TunnelType
<1>5. pending \in [Key -> Session \cup {None}] /\ cleanup \subseteq Session /\ drained \subseteq Instance
  BY DEF Init
<1>6. shut \in ShutType
  BY DEF Init, ShutType
<1> QED  BY <1>1, <1>2, <1>3, <1>4, <1>5, <1>6 DEF Types, Waits, Drains

LEMMA TypesStep == Types /\ [Next]_vars => Types'
<1> SUFFICES ASSUME Types, [Next]_vars PROVE Types'
  OBVIOUS
<1>0. CASE UNCHANGED vars
  BY <1>0 DEF vars, Types, Drains
<1>k. SetupKept => setup' \in [Session -> SetupType] /\ pending' \in [Key -> Session \cup {None}]
  BY DEF SetupKept, Types
<1>c. ASSUME NEW S, Closes(S) PROVE tunnel' \in [Session -> TunnelType]
  BY <1>c DEF Closes
<1>e. ASSUME NEW t, NEW s, Entered(t, tab', s) PROVE tab' \in TabType
  BY <1>e DEF Entered
<1>1. ASSUME NEW s \in Session, Published(s) \/ TooLate(s) PROVE Types'
  BY <1>1 DEF Published, TooLate, Later, Types, Drains
<1>2. ASSUME NEW s \in Session, Ended(s) PROVE Types'
  BY <1>2 DEF Ended, Later, Types, Drains
<1>3. ASSUME NEW s \in Session, External(s) PROVE Types'
  BY <1>3, <1>k, <1>c DEF External, Settling, Types, Drains
<1>4. ASSUME NEW s \in Session, Noticed(s) PROVE Types'
  BY <1>4, <1>k, <1>e DEF Noticed, Types, Drains
<1>5. ASSUME NEW s \in Session, NEW i \in Instance, NEW k \in Key \cup {None}, Requested(s, i, k)
      PROVE  Types'
  BY <1>5 DEF Requested, Types, Drains
<1>6. ASSUME NEW a \in Actor, NEW s \in Session, Owning(a, s), a \in Drainer => Keeps(a) PROVE Types'
  <2>1. a \in Drainer => (Drains(a)' => act'[a].inst \in Instance)
    BY <1>6 DEF Keeps, Types
  <2>2. /\ act' \in [Actor -> FrameType]
        /\ \A b \in Actor : act'[b].pc \in Waits => act'[b].sess \in Session
        /\ \A d \in Drainer : Drains(d)' => act'[d].inst \in Instance
    BY <1>6, <2>1, HandlerTypes DEF Owning
  <2> QED  BY <1>6, <1>k, <1>c, <2>2 DEF Owning, Types
<1>7. ASSUME NEW a \in Actor, Returning(a), a \in Drainer => Keeps(a) PROVE Types'
  <2>1. a \in Drainer => (Drains(a)' => act'[a].inst \in Instance)
    BY <1>7 DEF Keeps, Types
  <2>2. /\ act' \in [Actor -> FrameType]
        /\ \A b \in Actor : act'[b].pc \in Waits => act'[b].sess \in Session
        /\ \A d \in Drainer : Drains(d)' => act'[d].inst \in Instance
    BY <1>7, <2>1, HandlerTypes DEF Returning
  <2> QED  BY <1>7, <1>k, <1>e, <2>2 DEF Returning, Types
<1>8. ASSUME NEW d \in Drainer, Going(d), Keeps(d) \/ Begun(d) \/ Released(d) PROVE Types'
  <2>0. d \in Actor
    BY ActorSets
  <2>1. Drains(d)' => act'[d].inst \in Instance
    BY <1>8 DEF Keeps, Begun, Released, Types, Drains
  <2>2. /\ act' \in [Actor -> FrameType]
        /\ \A b \in Actor : act'[b].pc \in Waits => act'[b].sess \in Session
        /\ \A e \in Drainer : Drains(e)' => act'[e].inst \in Instance
    BY <1>8, <2>0, <2>1, HandlerTypes DEF Going
  <2>3. cleanup' \subseteq Session
    BY <1>8 DEF Going, Types
  <2> QED  BY <1>8, <1>k, <1>c, <2>2, <2>3 DEF Going, Types
<1>9. ASSUME Stopping \/ ClosingSessions \/ ClosingCleanups \/ HasStopped PROVE Types'
  <2>1. /\ shut' \in ShutType /\ cleanup' \subseteq Session /\ tab' \in TabType
        /\ tunnel' \in [Session -> TunnelType] /\ SetupKept /\ UNCHANGED <<drained, act>>
    BY <1>9, <1>c DEF Stopping, ClosingSessions, ClosingCleanups, HasStopped, Types
  <2> QED  BY <1>k, <2>1 DEF Types, Drains
<1> QED
  BY <1>0, <1>1, <1>2, <1>3, <1>4, <1>5, <1>6, <1>7, <1>8, <1>9, Steps, ActorSets

-----------------------------------------------------------------------------
(***************************************************************************)
(* Keys                                                                    *)
(***************************************************************************)
\* A step that begins and ends no setup and lists no session.
LEMMA KeysFrame ==
  ASSUME Types, Keys, SetupKept,
         \A x \in Session : tab'.state[x] # "none" => tab.state[x] # "none",
         \A x \in Session, k \in Key : tab.key[k] = x /\ tab'.state[x] # "none" => tab'.key[k] = x
  PROVE  Keys'
BY DEF Keys, SetupKept, Listed, InSetup

\* The end of a setup, with or without a session.
LEMMA KeysEnd ==
  ASSUME Types, Keys, NEW s \in Session, InSetup(s), Later(s, "done"),
         \A k \in Key : pending'[k] = IF pending[k] = s THEN None ELSE pending[k],
         \A x \in Session \ {s} : tab'.state[x] = tab.state[x],
         \A k \in Key : \/ tab'.key[k] = tab.key[k] /\ (k = setup[s].key => ~Listed(s)')
                        \/ k = setup[s].key /\ tab'.key[k] = s
  PROVE  Keys'
<1>0. None \notin Session
  BY SessionsAssumption
<1>1. \A x \in Session : Listed(x)' => setup'[x].pc = "done"
  BY DEF Keys, Later, Listed
<1>2. ASSUME NEW x \in Session, NEW k \in Key, setup'[x].key = k
      PROVE  /\ InSetup(x)' => pending'[k] = x
             /\ Listed(x)' => tab'.key[k] = x /\ pending'[k] = None
             /\ setup'[x].pc # "unused"
  <2>1. setup[x].key = k
    BY <1>2 DEF Later
  <2>2. CASE x = s
    <3>1. pending[k] = s
      BY <2>1, <2>2 DEF Keys
    <3> QED  BY <2>1, <2>2, <3>1 DEF Later, InSetup
  <2>3. CASE x # s
    <3>1. setup'[x].pc = setup[x].pc /\ tab'.state[x] = tab.state[x]
      BY <2>3 DEF Later
    <3>2. setup[s].key = k => pending[k] = s
      BY DEF Keys
    <3>3. setup[x].pc # "unused" /\ (InSetup(x) => pending[k] = x)
          /\ (Listed(x) => tab.key[k] = x /\ pending[k] = None)
      BY <2>1 DEF Keys
    <3> QED  BY <1>0, <2>3, <3>1, <3>2, <3>3 DEF InSetup, Listed
  <2> QED  BY <2>2, <2>3
<1>3. \A x \in Session, k \in Key : pending'[k] = x => InSetup(x)' /\ setup'[x].key = k
  BY <1>0 DEF Keys, Later, InSetup
<1> QED  BY <1>1, <1>2, <1>3 DEF Keys

LEMMA KeysRequest ==
  ASSUME Types, Keys, NEW s \in Session, NEW i \in Instance, NEW k \in Key \cup {None},
         Requested(s, i, k)
  PROVE  Keys'
<1>0. None \notin Session /\ None \notin Key
  BY SessionsAssumption
<1>1. /\ setup[s].pc = "unused" /\ setup'[s].pc = "opening" /\ setup'[s].key = k
      /\ \A x \in Session \ {s} : setup'[x] = setup[x]
      /\ tab'.state = tab.state
      /\ \A j \in Key : tab'.key[j] = IF j = k THEN None ELSE tab.key[j]
      /\ \A j \in Key : pending'[j] = IF j = k THEN s ELSE pending[j]
  BY DEF Requested
<1>2. ~Listed(s) /\ ~InSetup(s)
  BY <1>1 DEF Keys, InSetup
<1>3. \A x \in Session : Listed(x)' => setup'[x].pc = "done"
  BY <1>1, <1>2 DEF Keys, Listed
<1>4. ASSUME NEW x \in Session, NEW j \in Key, setup'[x].key = j
      PROVE  /\ InSetup(x)' => pending'[j] = x
             /\ Listed(x)' => tab'.key[j] = x /\ pending'[j] = None
             /\ setup'[x].pc # "unused"
  <2>1. CASE x = s
    BY <1>1, <1>2, <1>4, <2>1 DEF Listed
  <2>2. CASE x # s
    <3>1. setup'[x] = setup[x] /\ (Listed(x)' <=> Listed(x))
      BY <1>1, <2>2 DEF Listed
    <3>2. /\ setup[x].pc # "unused" /\ (InSetup(x) => pending[j] = x)
          /\ (Listed(x) => tab.key[j] = x /\ pending[j] = None)
      BY <1>4, <3>1 DEF Keys
    <3>3. j = k => pending[j] = None /\ tab.key[j] \notin Owned
      BY DEF Requested
    <3>4. j = k => ~InSetup(x) /\ ~Listed(x)
      BY <1>0, <3>2, <3>3 DEF Owned
    <3> QED  BY <1>1, <3>1, <3>2, <3>4 DEF InSetup
  <2> QED  BY <2>1, <2>2
<1>5. ASSUME NEW x \in Session, NEW j \in Key, pending'[j] = x
      PROVE  InSetup(x)' /\ setup'[x].key = j
  <2>1. CASE j = k
    BY <1>1, <1>5, <2>1 DEF InSetup
  <2>2. CASE j # k
    <3>1. InSetup(x) /\ setup[x].key = j /\ x # s
      BY <1>1, <1>2, <1>5, <2>2 DEF Keys
    <3> QED  BY <1>1, <3>1 DEF InSetup
  <2> QED  BY <2>1, <2>2
<1> QED  BY <1>3, <1>4, <1>5 DEF Keys

LEMMA KeysLate ==
  ASSUME Types, Keys, NEW s \in Session, TooLate(s)
  PROVE  Keys'
BY DEF Keys, TooLate, Later, InSetup, Listed

LEMMA KeysInit == Init => Keys
BY SessionsAssumption DEF Init, Keys, Listed, InSetup

LEMMA KeysStep == Types /\ Keys /\ [Next]_vars => Keys'
<1> SUFFICES ASSUME Types, Keys, [Next]_vars PROVE Keys'
  OBVIOUS
<1>0. CASE UNCHANGED vars
  BY <1>0 DEF vars, Keys, Listed, InSetup
<1>1. ASSUME NEW s \in Session, Published(s) PROVE Keys'
  <2>1. InSetup(s)
    BY <1>1 DEF Published, InSetup
  <2>2. \A k \in Key : \/ tab'.key[k] = tab.key[k] /\ (k = setup[s].key => ~Listed(s)')
                       \/ k = setup[s].key /\ tab'.key[k] = s
    BY <1>1 DEF Published
  <2> QED  BY <1>1, <2>1, <2>2, KeysEnd DEF Published
<1>2. ASSUME NEW s \in Session, TooLate(s) PROVE Keys'
  BY <1>2, KeysLate
<1>3. ASSUME NEW s \in Session, Ended(s) PROVE Keys'
  <2>1. ~Listed(s)'
    BY <1>3 DEF Ended, Keys, InSetup, Listed
  <2> QED  BY <1>3, <2>1, KeysEnd DEF Ended
<1>4. ASSUME NEW s \in Session, External(s) PROVE Keys'
  BY <1>4, KeysFrame DEF External
<1>5. ASSUME NEW s \in Session, Noticed(s) PROVE Keys'
  BY <1>5, KeysFrame DEF Noticed, Entered
<1>6. ASSUME NEW s \in Session, NEW i \in Instance, NEW k \in Key \cup {None}, Requested(s, i, k)
      PROVE  Keys'
  BY <1>6, KeysRequest
<1>7. ASSUME NEW a, NEW s \in Session, Owning(a, s) PROVE Keys'
  <2>1. \A x \in Session : tab'.state[x] # "none" => tab.state[x] # "none"
    BY <1>7 DEF Owning, Listed
  <2> QED  BY <1>7, <2>1, KeysFrame DEF Owning
<1>8. ASSUME NEW a, Returning(a) PROVE Keys'
  BY <1>8, KeysFrame DEF Returning, Entered
<1>9. ASSUME NEW a, Going(a) PROVE Keys'
  BY <1>9, KeysFrame DEF Going
<1>10. ASSUME Stopping \/ ClosingSessions \/ ClosingCleanups \/ HasStopped PROVE Keys'
  BY <1>10, KeysFrame DEF Stopping, ClosingSessions, ClosingCleanups, HasStopped
<1> QED
  BY <1>0, <1>1, <1>2, <1>3, <1>4, <1>5, <1>6, <1>7, <1>8, <1>9, <1>10, Steps

-----------------------------------------------------------------------------
(***************************************************************************)
(* Tunnels and what is told of them                                        *)
(***************************************************************************)
LEMMA FailedElements ==
  ASSUME Types
  PROVE  Elements(tab.failed) \subseteq Session
<1>1. tab.failed \in Seq(Session)
  BY DEF Types, TabType
<1> QED  BY <1>1 DEF Elements

\* A step that begins and ends no setup, and at most closes tunnels.
LEMMA TunnelsFrame ==
  ASSUME Types, Tunnels, SetupKept, NEW S, Closes(S),
         Elements(tab'.failed) \subseteq Elements(tab.failed)
  PROVE  Tunnels'
<1>1. \A s \in Session : setup'[s].pc = setup[s].pc
  BY DEF SetupKept
<1>2. \A s \in Session : /\ tunnel'[s].watched = tunnel[s].watched
                         /\ \/ tunnel'[s].state = tunnel[s].state
                            \/ tunnel[s].state = "open" /\ tunnel'[s].state = "closing"
  BY DEF Closes
<1>3. \A s \in Elements(tab'.failed) : s \in Session /\ tunnel[s].state = "failed"
  BY FailedElements DEF Tunnels
<1> QED  BY <1>1, <1>2, <1>3 DEF Tunnels

\* What is told of a session when it and its tunnel do not change.
LEMMA ToldFrame ==
  ASSUME NEW x \in Session, Told(x), Tunnels,
         tunnel'[x].watched = tunnel[x].watched, setup'[x].pc = setup[x].pc,
         \/ tunnel'[x].state = tunnel[x].state
         \/ tunnel[x].state = "open" /\ tunnel'[x].state = "closing",
         tab.dropped \subseteq tab'.dropped,
         x \in cleanup => x \in cleanup' \/ tunnel'[x].state = "closed",
         \/ tab'.state[x] = tab.state[x]
         \/ tab'.state[x] = "none" /\ x \in tab'.dropped /\ x \in Elements(tab.failed),
         Awaited(x) => Awaited(x)'
  PROVE  Told(x)'
<1>1. CASE tab'.state[x] = tab.state[x]
  BY <1>1 DEF Told, Listed
<1>2. CASE tab'.state[x] = "none" /\ x \in tab'.dropped /\ tunnel[x].state = "failed"
  BY <1>2 DEF Told, Listed
<1> QED  BY <1>1, <1>2 DEF Tunnels

\* Awaited sessions, when a handler that awaits none goes on.
LEMMA AwaitedKept ==
  ASSUME NEW a \in Actor, act[a].pc \notin Closers, Moves(a, act'[a].pc), NEW x, Awaited(x)
  PROVE  Awaited(x)'
BY DEF Awaited, Moves

LEMMA SessionsOpen ==
  ASSUME Types, Keys, Sessions, NEW s \in Session, Published(s) \/ TooLate(s)
  PROVE  Sessions'
<1>0. /\ setup[s].pc = "opening" /\ \A x \in Session \ {s} : setup'[x].pc = setup[x].pc
      /\ \A x \in Session \ {s} : tunnel'[x] = tunnel[x] /\ tab'.state[x] = tab.state[x]
      /\ tunnel[s].state = "none" /\ ~Listed(s)
      /\ tab'.dropped = tab.dropped /\ tab'.failed = tab.failed /\ UNCHANGED <<cleanup, act, shut>>
  BY DEF Published, TooLate, Later, Sessions, Tunnels, Keys
<1>1. Tunnels'
  <2>1. s \notin Elements(tab.failed)
    BY <1>0 DEF Sessions, Tunnels
  <2>2. \A x \in Elements(tab'.failed) : tunnel'[x].state = "failed"
    BY <1>0, <2>1, FailedElements DEF Sessions, Tunnels
  <2>3. CASE Published(s)
    BY <1>0, <2>2, <2>3 DEF Published, Later, Sessions, Tunnels
  <2>4. CASE TooLate(s)
    BY <1>0, <2>2, <2>4 DEF TooLate, Later, Sessions, Tunnels
  <2> QED  BY <2>3, <2>4
<1>2. ASSUME shut'.pc \in {"open", "server"}, NEW x \in Session PROVE Told(x)'
  <2>0. Told(x) /\ Tunnels
    BY <1>0, <1>2 DEF Sessions
  <2>1. CASE x # s
    BY <1>0, <2>0, <2>1, ToldFrame DEF Awaited
  <2>2. CASE x = s /\ Published(s)
    BY <2>2 DEF Told, Published, Listed
  <2>3. CASE x = s /\ TooLate(s)
    BY <1>0, <2>3 DEF Told, TooLate, Later, Listed
  <2> QED  BY <2>1, <2>2, <2>3
<1> QED  BY <1>1, <1>2 DEF Sessions

LEMMA SessionsEnd ==
  ASSUME Types, Keys, Sessions, NEW s \in Session, Ended(s)
  PROVE  Sessions'
<1>0. /\ \A x \in Session \ {s} : setup'[x].pc = setup[x].pc
      /\ setup[s].pc \in {"opening", "closingLate"} /\ setup'[s].pc = "done"
      /\ UNCHANGED <<tunnel, tab, act, shut>> /\ cleanup \subseteq cleanup'
  BY DEF Ended, Later, InSetup
<1>1. Tunnels'
  BY <1>0 DEF Sessions, Tunnels
<1>2. ASSUME shut'.pc \in {"open", "server"}, NEW x \in Session PROVE Told(x)'
  <2>0. Told(x) /\ Tunnels
    BY <1>0, <1>2 DEF Sessions
  <2>1. CASE x # s
    BY <1>0, <2>0, <2>1, ToldFrame DEF Awaited
  <2>2. CASE x = s
    <3>1. ~Listed(s)
      BY <1>0 DEF Keys
    <3>2. setup[s].pc = "closingLate" => Settled(s)
      BY DEF Ended
    <3>3. setup[s].pc = "closingLate" /\ tunnel[s].state = "failed" => s \in cleanup'
      BY DEF Ended
    <3>4. setup[s].pc = "opening" => tunnel[s].state = "none"
      BY <2>0 DEF Tunnels
    <3> QED  BY <1>0, <2>0, <2>2, <3>1, <3>2, <3>3, <3>4 DEF Told, Settled, Listed
  <2> QED  BY <2>1, <2>2
<1> QED  BY <1>1, <1>2 DEF Sessions

LEMMA SessionsRequest ==
  ASSUME Types, Keys, Sessions, NEW s \in Session, NEW i, NEW k, Requested(s, i, k)
  PROVE  Sessions'
<1>0. /\ \A x \in Session \ {s} : setup'[x].pc = setup[x].pc
      /\ setup[s].pc = "unused" /\ setup'[s].pc = "opening"
      /\ tab'.state = tab.state /\ tab'.failed = tab.failed /\ tab'.dropped = tab.dropped
      /\ UNCHANGED <<tunnel, act, shut, cleanup>>
  BY DEF Requested
<1>1. Tunnels'
  BY <1>0 DEF Sessions, Tunnels
<1>2. ASSUME shut'.pc \in {"open", "server"}, NEW x \in Session PROVE Told(x)'
  <2>0. Told(x)
    BY <1>0, <1>2 DEF Sessions
  <2> QED  BY <1>0, <2>0 DEF Told, Listed, Awaited
<1> QED  BY <1>1, <1>2 DEF Sessions

LEMMA SessionsExternal ==
  ASSUME Types, Keys, Sessions, NEW s \in Session, External(s)
  PROVE  Sessions'
<1>0. /\ \A x \in Session : setup'[x].pc = setup[x].pc
      /\ UNCHANGED <<tab, act, shut, cleanup>>
  BY DEF External, SetupKept
<1>1. CASE Closes({s})
  <2>1. Tunnels'
    BY <1>0, <1>1, TunnelsFrame DEF Sessions, External
  <2>2. ASSUME shut'.pc \in {"open", "server"}, NEW x \in Session PROVE Told(x)'
    <3>0. Told(x) /\ Tunnels
      BY <1>0, <2>2 DEF Sessions
    <3>1. /\ tunnel'[x].watched = tunnel[x].watched
          /\ \/ tunnel'[x].state = tunnel[x].state
             \/ tunnel[x].state = "open" /\ tunnel'[x].state = "closing"
      BY <1>1 DEF Closes
    <3> QED  BY <1>0, <3>0, <3>1, ToldFrame DEF Awaited
  <2> QED  BY <2>1, <2>2 DEF Sessions
<1>2. CASE Settling(s)
  <2>0. /\ tunnel[s].state = "closing" /\ tunnel'[s].state \in {"closed", "failed"}
        /\ tunnel'[s].watched = tunnel[s].watched /\ \A x \in Session \ {s} : tunnel'[x] = tunnel[x]
    BY <1>2 DEF Settling
  <2>1. s \notin Elements(tab.failed)
    BY <2>0 DEF Sessions, Tunnels
  <2>2. Tunnels'
    BY <1>0, <2>0, <2>1, FailedElements DEF Sessions, Tunnels
  <2>3. ASSUME shut'.pc \in {"open", "server"}, NEW x \in Session PROVE Told(x)'
    <3>0. Told(x) /\ Tunnels
      BY <1>0, <2>3 DEF Sessions
    <3>1. CASE x # s
      BY <1>0, <2>0, <3>0, <3>1, ToldFrame DEF Awaited
    <3>2. CASE x = s
      BY <1>0, <2>0, <3>0, <3>2 DEF Told, Listed, Awaited
    <3> QED  BY <3>1, <3>2
  <2> QED  BY <2>2, <2>3 DEF Sessions
<1> QED  BY <1>1, <1>2 DEF External

\* The end of s is entered by a handler or a reaction.
LEMMA SessionsEnter ==
  ASSUME Types, Keys, Sessions, NEW s \in Session, Settled(s), SetupKept, Entered(tab, tab', s),
         UNCHANGED <<cleanup, shut>>,
         \A x \in Session : tunnel'[x].state = tunnel[x].state,
         \A x \in Session \ {s} : tunnel'[x].watched = tunnel[x].watched,
         \A x \in Session \ {s} : Awaited(x) => Awaited(x)',
         tab'.state[s] # "live",
         tab'.state[s] \in {"none", "failed"} \/ (Awaited(s) => Awaited(s)'),
         ~tunnel'[s].watched \/ tunnel'[s].watched = tunnel[s].watched
  PROVE  Sessions'
<1>0. \A x \in Session : setup'[x].pc = setup[x].pc
  BY DEF SetupKept
<1>f. Elements(tab'.failed) \subseteq Elements(tab.failed) \cup (IF tunnel[s].state = "failed" THEN {s} ELSE {})
  BY DEF Entered
<1>1. Tunnels'
  <2>1. \A x \in Elements(tab'.failed) : x \in Session /\ tunnel[x].state = "failed"
    BY <1>f, FailedElements DEF Sessions, Tunnels
  <2>2. \A x \in Session : setup[x].pc \in {"unused", "opening"} => ~tunnel'[x].watched
    BY DEF Sessions, Tunnels
  <2> QED  BY <1>0, <2>1, <2>2 DEF Sessions, Tunnels
<1>2. ASSUME shut'.pc \in {"open", "server"}, NEW x \in Session PROVE Told(x)'
  <2>0. Told(x) /\ Tunnels
    BY <1>2 DEF Sessions
  <2>1. CASE x # s
    <3>1. /\ tab.dropped \subseteq tab'.dropped
          /\ \/ tab'.state[x] = tab.state[x]
             \/ tab'.state[x] = "none" /\ x \in tab'.dropped /\ x \in Elements(tab.failed)
      BY <2>1 DEF Entered
    <3> QED  BY <1>0, <2>0, <2>1, <3>1, ToldFrame
  <2>2. CASE x = s
    <3>1. /\ tab.dropped \subseteq tab'.dropped
          /\ tab'.state[s] \in {tab.state[s], "none", "failed"}
          /\ tab'.state[s] = "failed" => tab.state[s] = "failed" \/ tunnel[s].state = "failed"
          /\ tunnel[s].state = "failed" =>
               tab'.state[s] = "failed" \/ tab.state[s] = "none" \/ s \in tab'.dropped
      BY DEF Entered
    <3>2. tunnel'[s].state \in {"closed", "failed"} /\ tunnel'[s].state = tunnel[s].state
      BY DEF Settled
    <3> QED  BY <1>0, <2>0, <2>2, <3>1, <3>2 DEF Told, Listed
  <2> QED  BY <2>1, <2>2
<1> QED  BY <1>1, <1>2 DEF Sessions

LEMMA SessionsOwning ==
  ASSUME Types, Keys, Sessions, NEW a \in Actor, NEW s \in Session, Owning(a, s)
  PROVE  Sessions'
<1>0. /\ SetupKept /\ Closes({s}) /\ UNCHANGED <<cleanup, shut>> /\ tab'.dropped = tab.dropped
      /\ tab'.state[s] = "closing" /\ \A x \in Session \ {s} : tab'.state[x] = tab.state[x]
      /\ Elements(tab'.failed) \subseteq Elements(tab.failed) /\ Awaited(s)'
  BY DEF Owning, Awaited
<1>1. Tunnels'
  BY <1>0, TunnelsFrame DEF Sessions
<1>2. ASSUME shut'.pc \in {"open", "server"}, NEW x \in Session PROVE Told(x)'
  <2>0. Told(x) /\ Tunnels /\ setup'[x].pc = setup[x].pc
    BY <1>0, <1>2 DEF Sessions, SetupKept
  <2>1. CASE x # s
    <3>1. Awaited(x) => Awaited(x)'
      BY AwaitedKept DEF Owning
    <3>2. tunnel'[x].state = tunnel[x].state /\ tunnel'[x].watched = tunnel[x].watched
      BY <1>0, <2>1 DEF Closes
    <3> QED  BY <1>0, <2>0, <2>1, <3>1, <3>2, ToldFrame
  <2>2. CASE x = s
    <3>1. tunnel'[s].state # "open"
      BY <1>0 DEF Closes
    <3> QED  BY <1>0, <2>2, <3>1 DEF Told, Listed
  <2> QED  BY <2>1, <2>2
<1> QED  BY <1>1, <1>2 DEF Sessions

LEMMA SessionsGoing ==
  ASSUME Types, Keys, Sessions, NEW a \in Actor, Going(a)
  PROVE  Sessions'
<1>0. PICK S : Closes(S)
  BY DEF Going
<1>1. Tunnels'
  BY <1>0, TunnelsFrame DEF Sessions, Going
<1>2. ASSUME shut'.pc \in {"open", "server"}, NEW x \in Session PROVE Told(x)'
  <2>0. Told(x) /\ Tunnels /\ setup'[x].pc = setup[x].pc /\ UNCHANGED tab
    BY <1>2 DEF Sessions, SetupKept, Going
  <2>1. /\ tunnel'[x].watched = tunnel[x].watched
        /\ \/ tunnel'[x].state = tunnel[x].state
           \/ tunnel[x].state = "open" /\ tunnel'[x].state = "closing"
    BY <1>0 DEF Closes
  <2>2. Awaited(x) => Awaited(x)'
    BY AwaitedKept DEF Going
  <2>3. x \in cleanup => x \in cleanup' \/ tunnel'[x].state = "closed"
    BY <2>1 DEF Going
  <2> QED  BY <2>0, <2>1, <2>2, <2>3, ToldFrame
<1> QED  BY <1>1, <1>2 DEF Sessions

LEMMA SessionsShutdown ==
  ASSUME Types, Keys, Sessions, Stopping \/ ClosingSessions \/ ClosingCleanups \/ HasStopped
  PROVE  Sessions'
<1>1. CASE Stopping
  <2>1. \A x \in Session : setup'[x].pc = setup[x].pc
    BY <1>1 DEF Stopping, SetupKept
  <2>2. Tunnels' /\ shut.pc = "open" /\ UNCHANGED <<tunnel, tab, cleanup, act>>
    BY <1>1, <2>1 DEF Sessions, Tunnels, Stopping
  <2>3. ASSUME NEW x \in Session PROVE Told(x)'
    BY <2>1, <2>2 DEF Sessions, Told, Listed, Awaited
  <2> QED  BY <2>2, <2>3 DEF Sessions
<1>2. CASE ClosingSessions \/ ClosingCleanups
  <2>1. Tunnels'
    BY <1>2, TunnelsFrame DEF Sessions, ClosingSessions, ClosingCleanups
  <2>2. shut'.pc \notin {"open", "server"}
    BY <1>2 DEF ClosingSessions, ClosingCleanups
  <2> QED  BY <2>1, <2>2 DEF Sessions
<1>3. CASE HasStopped
  <2>1. \A x \in Session : setup'[x].pc = setup[x].pc
    BY <1>3 DEF HasStopped, SetupKept
  <2> QED  BY <1>3, <2>1 DEF Sessions, Tunnels, HasStopped
<1> QED  BY <1>1, <1>2, <1>3

LEMMA SessionsInit == Init => Sessions
<1> SUFFICES ASSUME Init PROVE Sessions
  OBVIOUS
<1>1. Elements(<<>>) = {}
  BY DEF Elements
<1> QED  BY <1>1 DEF Init, Sessions, Tunnels, Told, Listed

LEMMA SessionsStep == Types /\ Keys /\ Sessions /\ [Next]_vars => Sessions'
<1> SUFFICES ASSUME Types, Keys, Sessions, [Next]_vars PROVE Sessions'
  OBVIOUS
<1>0. CASE UNCHANGED vars
  BY <1>0 DEF vars, Sessions, Tunnels, Told, Listed, Awaited
<1>1. ASSUME NEW s \in Session, Noticed(s) PROVE Sessions'
  <2>1. \A x \in Session : Awaited(x) => Awaited(x)'
    BY <1>1 DEF Noticed, Awaited
  <2> QED  BY <1>1, <2>1, SessionsEnter DEF Noticed
<1>2. ASSUME NEW a \in Actor, Returning(a) PROVE Sessions'
  <2>1. \A x \in Session \ {act[a].sess} : Awaited(x) => Awaited(x)'
    BY <1>2 DEF Returning, Awaited, Moves
  <2>2. tab'.state[act[a].sess] # "live"
    BY <1>2 DEF Returning
  <2> QED  BY <1>2, <2>1, <2>2, SessionsEnter DEF Returning
<1> QED
  BY <1>0, <1>1, <1>2, Steps, ActorSets, SessionsOpen, SessionsEnd, SessionsRequest,
     SessionsExternal, SessionsOwning, SessionsGoing, SessionsShutdown

-----------------------------------------------------------------------------
(***************************************************************************)
(* Drains                                                                  *)
(***************************************************************************)
\* What a step can do to a session of an instance that is being drained.
Quieter(i) ==
  \A x \in OfInstance(i)' :
    /\ x \in OfInstance(i) /\ (InSetup(x)' => InSetup(x))
    /\ ~InSetup(x) /\ tunnel[x].state \in {"none", "closed"} => tunnel'[x].state = tunnel[x].state
    /\ ~InSetup(x) /\ x \in tab.dropped => x \in tab'.dropped

LEMMA QuieterFrame ==
  ASSUME SetupKept, tab.dropped \subseteq tab'.dropped, NEW i,
         \A x \in Session : \/ tunnel'[x].state = tunnel[x].state
                            \/ tunnel[x].state \in {"open", "closing"}
  PROVE  Quieter(i)
<1>1. \A x \in Session : setup'[x].pc = setup[x].pc /\ setup'[x].inst = setup[x].inst
  BY DEF SetupKept
<1> QED  BY <1>1 DEF Quieter, OfInstance, InSetup

LEMMA QuieterLater ==
  ASSUME NEW s \in Session, InSetup(s), NEW pc \in {"closingLate", "done"}, Later(s, pc),
         tab.dropped \subseteq tab'.dropped, NEW i,
         \A x \in Session \ {s} : tunnel'[x] = tunnel[x]
  PROVE  Quieter(i)
<1>1. \A x \in Session : setup'[x].inst = setup[x].inst /\ (x # s => setup'[x].pc = setup[x].pc)
  BY DEF Later
<1> QED  BY <1>1 DEF Quieter, OfInstance, InSetup

LEMMA QuieterStep ==
  ASSUME Types, [Next]_vars, NEW i \in drained
  PROVE  Quieter(i)
<1>0. CASE UNCHANGED vars
  BY <1>0 DEF vars, Quieter, OfInstance, InSetup
<1>c. ASSUME NEW S, Closes(S)
      PROVE  \A x \in Session : \/ tunnel'[x].state = tunnel[x].state
                                \/ tunnel[x].state \in {"open", "closing"}
  BY <1>c DEF Closes
<1>1. ASSUME NEW s \in Session, Published(s) PROVE Quieter(i)
  BY <1>1, QuieterLater DEF Published, InSetup
<1>2. ASSUME NEW s \in Session, TooLate(s) PROVE Quieter(i)
  BY <1>2, QuieterLater DEF TooLate, InSetup
<1>3. ASSUME NEW s \in Session, Ended(s) PROVE Quieter(i)
  BY <1>3, QuieterLater DEF Ended
<1>4. ASSUME NEW s \in Session, External(s) PROVE Quieter(i)
  <2>1. \A x \in Session : \/ tunnel'[x].state = tunnel[x].state
                           \/ tunnel[x].state \in {"open", "closing"}
    BY <1>4, <1>c DEF External, Settling
  <2> QED  BY <1>4, <2>1, QuieterFrame DEF External
<1>5. ASSUME NEW s \in Session, Noticed(s) PROVE Quieter(i)
  BY <1>5, QuieterFrame DEF Noticed, Entered
<1>6. ASSUME NEW s \in Session, NEW j, NEW k, Requested(s, j, k) PROVE Quieter(i)
  BY <1>6 DEF Requested, Quieter, OfInstance, InSetup
<1>7. ASSUME NEW a, NEW s \in Session, Owning(a, s) PROVE Quieter(i)
  BY <1>7, <1>c, QuieterFrame DEF Owning
<1>8. ASSUME NEW a, Returning(a) PROVE Quieter(i)
  BY <1>8, QuieterFrame DEF Returning, Entered
<1>9. ASSUME NEW a, Going(a) PROVE Quieter(i)
  BY <1>9, <1>c, QuieterFrame DEF Going
<1>10. ASSUME Stopping \/ ClosingSessions \/ ClosingCleanups \/ HasStopped PROVE Quieter(i)
  BY <1>10, <1>c, QuieterFrame DEF Stopping, ClosingSessions, ClosingCleanups, HasStopped
<1> QED
  BY <1>0, <1>1, <1>2, <1>3, <1>4, <1>5, <1>6, <1>7, <1>8, <1>9, <1>10, Steps

LEMMA RestsOn ==
  ASSUME NEW i, Quieter(i)
  PROVE  (Rests(i) => Rests(i)') /\ (Empty(i) => Empty(i)')
BY DEF Quieter, Rests, Empty

\* The same of the instance i of a drain that keeps it.
LEMMA AtInstance ==
  ASSUME NEW d, NEW i, act'[d].inst = i
  PROVE  (Rests(i)' => Rests(act[d].inst)') /\ (Empty(i)' => Empty(act[d].inst)')
BY DEF Rests, Empty, OfInstance, InSetup

LEMMA InstanceOn ==
  ASSUME Types, [Next]_vars, NEW d, act[d].inst \in drained, act'[d].inst = act[d].inst
  PROVE  /\ Rests(act[d].inst) => Rests(act[d].inst)'
         /\ Empty(act[d].inst) => Empty(act[d].inst)'
<1>1. PICK i \in drained : act[d].inst = i
  OBVIOUS
<1>2. /\ Rests(i) => Rests(act[d].inst)'
      /\ Empty(i) => Empty(act[d].inst)'
  BY <1>1, QuieterStep, RestsOn, AtInstance
<1> QED  BY <1>1, <1>2

\* A drain is granted when the daemon knows of nothing that is left: then nothing is.
LEMMA VerdictIsTrue ==
  ASSUME Types, Sessions, shut.pc = "open", NEW i, Rests(i),
         OfInstance(i) \cap (Owned \cup cleanup) = {}
  PROVE  Empty(i)
<1> SUFFICES ASSUME NEW s \in OfInstance(i)
             PROVE  tunnel[s].state \in {"none", "closed"} \/ s \in tab.dropped
  BY DEF Empty, Rests
<1>1. s \in Session /\ ~Listed(s) /\ s \notin cleanup /\ setup[s].pc # "closingLate"
  BY DEF OfInstance, Owned, Rests, InSetup
<1>2. Told(s) /\ tunnel[s].state \in {"none", "open", "closing", "closed", "failed"}
  BY <1>1 DEF Sessions, Types, TunnelType
<1> QED  BY <1>1, <1>2 DEF Told, Listed

LEMMA DrainingFrame ==
  ASSUME Types, Draining, [Next]_vars, drained' = drained, \A d \in Drainer : act'[d] = act[d]
  PROVE  Draining'
<1> SUFFICES ASSUME NEW d \in Drainer, Drains(d)'
             PROVE  /\ act'[d].inst \in drained'
                    /\ act'[d].pc # "beginWait" => Rests(act[d].inst)'
                    /\ act'[d].pc = "drained" => Empty(act[d].inst)'
                    /\ \A e \in Drainer : Drains(e)' /\ act'[e].inst = act'[d].inst => e = d
  BY DEF Draining
<1>1. Drains(d) /\ \A e \in Drainer : Drains(e)' => Drains(e)
  BY DEF Drains
<1>2. act[d].inst \in drained
  BY <1>1 DEF Draining
<1>3. /\ Rests(act[d].inst) => Rests(act[d].inst)'
      /\ Empty(act[d].inst) => Empty(act[d].inst)'
  BY <1>2, InstanceOn
<1> QED  BY <1>1, <1>2, <1>3 DEF Draining

\* What a drain that goes on, begins or ends leaves to the others.
LEMMA DrainingOthers ==
  ASSUME Types, Draining, [Next]_vars, NEW d \in Drainer, Moves(d, act'[d].pc),
         Keeps(d) \/ Begun(d) \/ Released(d), NEW e \in Drainer \ {d}, Drains(e)'
  PROVE  /\ act'[e].inst \in drained'
         /\ act'[e].pc # "beginWait" => Rests(act[e].inst)'
         /\ act'[e].pc = "drained" => Empty(act[e].inst)'
         /\ Drains(d)' => act'[d].inst # act'[e].inst
         /\ \A f \in Drainer \ {d} : Drains(f)' /\ act'[f].inst = act'[e].inst => f = e
<1>1. \A f \in Drainer \ {d} : act'[f] = act[f] /\ (Drains(f)' => Drains(f))
  BY ActorSets DEF Moves, Drains
<1>2. Drains(e) /\ act'[e] = act[e] /\ act[e].inst \in drained
  BY <1>1 DEF Draining
<1>3. /\ Rests(act[e].inst) => Rests(act[e].inst)'
      /\ Empty(act[e].inst) => Empty(act[e].inst)'
  BY <1>2, InstanceOn
<1>4. Drains(d) => act[d].inst # act[e].inst
  BY <1>2 DEF Draining
<1>5. act[e].inst \in drained' /\ (Drains(d)' => act'[d].inst # act[e].inst)
  <2>1. CASE Keeps(d)
    BY <1>2, <1>4, <2>1 DEF Keeps
  <2>2. CASE Begun(d)
    BY <1>2, <2>2 DEF Begun
  <2>3. CASE Released(d)
    BY <1>2, <1>4, <2>3 DEF Released, Drains
  <2> QED  BY <2>1, <2>2, <2>3
<1> QED  BY <1>1, <1>2, <1>3, <1>5 DEF Draining

LEMMA DrainingDrain ==
  ASSUME Types, Sessions, Draining, [Next]_vars, NEW d \in Drainer, Moves(d, act'[d].pc),
         Keeps(d) \/ (Begun(d) /\ SetupKept) \/ Released(d)
  PROVE  Draining'
<1>1. ASSUME NEW e \in Drainer \ {d}, Drains(e)'
      PROVE  /\ act'[e].inst \in drained'
             /\ act'[e].pc # "beginWait" => Rests(act[e].inst)'
             /\ act'[e].pc = "drained" => Empty(act[e].inst)'
             /\ Drains(d)' => act'[d].inst # act'[e].inst
             /\ \A f \in Drainer \ {d} : Drains(f)' /\ act'[f].inst = act'[e].inst => f = e
  BY <1>1, DrainingOthers
<1>2. ASSUME Drains(d)'
      PROVE  /\ act'[d].inst \in drained'
             /\ act'[d].pc # "beginWait" => Rests(act[d].inst)'
             /\ act'[d].pc = "drained" => Empty(act[d].inst)'
  <2>1. CASE Keeps(d)
    <3>1. act[d].inst \in drained /\ act'[d].inst = act[d].inst /\ drained' = drained
      BY <2>1 DEF Keeps, Draining
    <3>2. /\ Rests(act[d].inst) => Rests(act[d].inst)'
          /\ Empty(act[d].inst) => Empty(act[d].inst)'
      BY <3>1, InstanceOn
    <3>3. act[d].pc # "beginWait" \/ Tracked(act[d].inst) = {} => Rests(act[d].inst)
      BY <2>1 DEF Keeps, Draining, Tracked, Rests
    <3>4. act'[d].pc = "drained" => Empty(act[d].inst)
      BY <2>1, <3>3, VerdictIsTrue DEF Keeps
    <3> QED  BY <2>1, <3>1, <3>2, <3>3, <3>4 DEF Keeps
  <2>2. CASE Begun(d) /\ SetupKept
    <3>1. /\ act'[d].inst \in drained' /\ act'[d].pc # "drained"
          /\ act'[d].pc = "beginWait" \/ Tracked(act'[d].inst) = {}
      BY <2>2 DEF Begun
    <3>2. Tracked(act'[d].inst) = {} => Rests(act[d].inst)'
      BY <2>2 DEF SetupKept, Tracked, Rests, OfInstance, InSetup
    <3> QED  BY <3>1, <3>2
  <2>3. CASE Released(d)
    BY <1>2, <2>3 DEF Released, Drains
  <2> QED  BY <2>1, <2>2, <2>3
<1> QED  BY <1>1, <1>2 DEF Draining

LEMMA DrainingInit == Init => Draining
<1> SUFFICES ASSUME Init PROVE Draining
  OBVIOUS
<1>1. \A d \in Drainer : act[d].pc = "idle"
  BY ActorSets, NewFrames, Places DEF Init
<1> QED  BY <1>1 DEF Draining, Drains

LEMMA DrainingStep == Types /\ Sessions /\ Draining /\ [Next]_vars => Draining'
<1> SUFFICES ASSUME Types, Sessions, Draining, [Next]_vars PROVE Draining'
  OBVIOUS
<1>0. CASE UNCHANGED vars
  BY <1>0, DrainingFrame DEF vars
<1>1. ASSUME NEW s \in Session,
             \/ Published(s) \/ TooLate(s) \/ Ended(s) \/ External(s) \/ Noticed(s)
             \/ \E i, k : Requested(s, i, k)
      PROVE  Draining'
  <2>1. drained' = drained /\ act' = act
    BY <1>1 DEF Published, TooLate, Ended, External, Noticed, Requested
  <2> QED  BY <2>1, DrainingFrame
<1>2. ASSUME NEW c \in Closer, Returning(c) \/ \E s \in Session : Owning(c, s) PROVE Draining'
  <2>1. drained' = drained /\ \A d \in Drainer : act'[d] = act[d]
    BY <1>2, ActorSets DEF Returning, Owning, Moves
  <2> QED  BY <2>1, DrainingFrame
<1>3. ASSUME NEW d \in Drainer, Keeps(d), Returning(d) \/ \E s \in Session : Owning(d, s)
      PROVE  Draining'
  BY <1>3, DrainingDrain DEF Returning, Owning
<1>4. ASSUME NEW d \in Drainer, Going(d), Keeps(d) \/ Begun(d) \/ Released(d) PROVE Draining'
  BY <1>4, DrainingDrain DEF Going
<1>5. ASSUME Stopping \/ ClosingSessions \/ ClosingCleanups \/ HasStopped PROVE Draining'
  <2>1. drained' = drained /\ act' = act
    BY <1>5 DEF Stopping, ClosingSessions, ClosingCleanups, HasStopped
  <2> QED  BY <2>1, DrainingFrame
<1> QED  BY <1>0, <1>1, <1>2, <1>3, <1>4, <1>5, Steps

-----------------------------------------------------------------------------
(***************************************************************************)
(* The shutdown                                                            *)
(***************************************************************************)
\* A step that begins and ends no setup, and opens and closes no tunnel when
\* the shutdown has closed the open ones.
LEMMA ShutdownFrame ==
  ASSUME Shutdown, SetupKept, UNCHANGED shut,
         \A x \in Session : \/ tunnel'[x].state = tunnel[x].state
                            \/ tunnel[x].state = "open"
                            \/ tunnel'[x].state \in {"closed", "failed"}
  PROVE  Shutdown'
<1>1. \A x \in Session : setup'[x].pc = setup[x].pc /\ (setup[x].aborted => setup'[x].aborted)
  BY DEF SetupKept
<1> QED  BY <1>1 DEF Shutdown

\* The end of a setup, or its late answer.
LEMMA ShutdownLater ==
  ASSUME Sessions, Shutdown, NEW s \in Session, Ended(s) \/ TooLate(s)
  PROVE  Shutdown'
<1>1. /\ \A x \in Session : setup'[x].aborted = setup[x].aborted
      /\ \A x \in Session \ {s} : setup'[x].pc = setup[x].pc /\ tunnel'[x] = tunnel[x]
      /\ shut' = shut
  BY DEF Ended, TooLate, Later
<1>2. CASE Ended(s)
  <2>1. /\ setup'[s].pc = "done" /\ tunnel' = tunnel /\ setup[s].pc \in {"opening", "closingLate"}
        /\ setup[s].pc = "closingLate" => tunnel[s].state # "closing"
    BY <1>2 DEF Ended, Later, InSetup, Settled
  <2>2. setup[s].pc = "opening" => tunnel[s].state = "none"
    BY DEF Sessions, Tunnels
  <2> QED  BY <1>1, <2>1, <2>2 DEF Shutdown
<1>3. CASE TooLate(s)
  <2>1. setup'[s].pc = "closingLate" /\ tunnel'[s].state = "closing"
    BY <1>3 DEF TooLate, Later
  <2> QED  BY <1>1, <2>1 DEF Shutdown
<1> QED  BY <1>2, <1>3

LEMMA ShutdownGoesOn ==
  ASSUME Types, Sessions, Shutdown, Stopping \/ ClosingSessions \/ ClosingCleanups \/ HasStopped
  PROVE  Shutdown'
<1>1. \A x \in Session : setup'[x].pc = setup[x].pc /\ (setup[x].aborted => setup'[x].aborted)
  BY DEF Stopping, ClosingSessions, ClosingCleanups, HasStopped, SetupKept
<1>2. CASE Stopping
  BY <1>2 DEF Stopping, Shutdown
<1>3. CASE ClosingSessions
  <2>1. /\ shut.pc = "server" /\ shut'.pc = "sessions" /\ shut'.wait = Owned
    BY <1>3 DEF ClosingSessions
  <2>2. ASSUME NEW x \in Session
        PROVE  /\ tunnel'[x].state # "open"
               /\ tunnel'[x].state = "closing" => setup'[x].pc = "closingLate" \/ x \in Owned
    <3>1. Told(x)
      BY <2>1 DEF Sessions
    <3>2. /\ tunnel[x].state = "open" /\ x \in Owned => tunnel'[x].state = "closing"
          /\ tunnel[x].state # "open" \/ x \notin Owned => tunnel'[x].state = tunnel[x].state
      BY <1>3 DEF ClosingSessions, Closes
    <3> QED  BY <1>1, <3>1, <3>2 DEF Told, Owned, Listed
  <2>3. \A x \in Session : setup'[x].pc = "opening" => setup'[x].aborted
    BY <1>1, <2>1 DEF Shutdown
  <2> QED  BY <2>1, <2>2, <2>3 DEF Shutdown
<1>4. CASE ClosingCleanups
  <2>1. shut.pc = "sessions" /\ shut'.pc = "cleanups" /\ \A x \in shut.wait : Settled(x)
    BY <1>4 DEF ClosingCleanups
  <2>2. \A x \in Session : tunnel[x].state # "open" /\ tunnel'[x].state = tunnel[x].state
    BY <1>4, <2>1 DEF Shutdown, ClosingCleanups, Closes
  <2>3. \A x \in Session : tunnel[x].state = "closing" => setup[x].pc = "closingLate"
    BY <2>1 DEF Shutdown, Settled
  <2>4. \A x \in Session : setup'[x].pc = "opening" => setup'[x].aborted
    BY <1>1, <2>1 DEF Shutdown
  <2> QED  BY <1>1, <2>1, <2>2, <2>3, <2>4 DEF Shutdown
<1>5. CASE HasStopped
  BY <1>1, <1>5 DEF HasStopped, Shutdown
<1> QED  BY <1>2, <1>3, <1>4, <1>5

LEMMA ShutdownInit == Init => Shutdown
BY DEF Init, Shutdown

LEMMA ShutdownStepKept == Types /\ Sessions /\ Shutdown /\ [Next]_vars => Shutdown'
<1> SUFFICES ASSUME Types, Sessions, Shutdown, [Next]_vars PROVE Shutdown'
  OBVIOUS
<1>0. CASE UNCHANGED vars
  BY <1>0 DEF vars, Shutdown
<1>c. ASSUME NEW S, Closes(S)
      PROVE  \A x \in Session : tunnel'[x].state = tunnel[x].state \/ tunnel[x].state = "open"
  BY <1>c DEF Closes
<1>1. ASSUME NEW s \in Session, Published(s) \/ \E i, k : Requested(s, i, k) PROVE Shutdown'
  BY <1>1 DEF Published, Requested, Shutdown
<1>2. ASSUME NEW s \in Session, Ended(s) \/ TooLate(s) PROVE Shutdown'
  BY <1>2, ShutdownLater
<1>3. ASSUME NEW s \in Session, External(s) PROVE Shutdown'
  <2>1. \A x \in Session : \/ tunnel'[x].state = tunnel[x].state
                           \/ tunnel[x].state = "open"
                           \/ tunnel'[x].state \in {"closed", "failed"}
    BY <1>3, <1>c DEF External, Settling
  <2> QED  BY <1>3, <2>1, ShutdownFrame DEF External
<1>4. ASSUME NEW s \in Session, Noticed(s) PROVE Shutdown'
  BY <1>4, ShutdownFrame DEF Noticed
<1>5. ASSUME NEW a, NEW s \in Session, Owning(a, s) PROVE Shutdown'
  BY <1>5, <1>c, ShutdownFrame DEF Owning
<1>6. ASSUME NEW a, Returning(a) PROVE Shutdown'
  BY <1>6, ShutdownFrame DEF Returning
<1>7. ASSUME NEW a, Going(a) PROVE Shutdown'
  BY <1>7, <1>c, ShutdownFrame DEF Going
<1> QED
  BY <1>0, <1>1, <1>2, <1>3, <1>4, <1>5, <1>6, <1>7, ShutdownGoesOn, Steps

-----------------------------------------------------------------------------
(***************************************************************************)
(* The invariant and the theorems                                          *)
(***************************************************************************)
LEMMA Invariant == Spec => []Inv
<1>1. Init => Inv
  BY TypesInit, KeysInit, SessionsInit, DrainingInit, ShutdownInit DEF Inv
<1>2. Inv /\ [Next]_vars => Inv'
  BY TypesStep, KeysStep, SessionsStep, DrainingStep, ShutdownStepKept DEF Inv
<1> QED  BY <1>1, <1>2, PTL DEF Spec

LEMMA AtMostOne ==
  ASSUME NEW S, \A x, y \in S : x = y
  PROVE  Cardinality(S) <= 1
<1>1. CASE S = {}
  BY <1>1, FS_EmptySet
<1>2. CASE S # {}
  <2>1. PICK x : S = {x}
    <3>1. PICK x : x \in S
      BY <1>2
    <3>2. S = {x}
      BY <3>1
    <3> QED  BY <3>2
  <2> QED  BY <2>1, FS_Singleton
<1> QED  BY <1>1, <1>2

\* However requests with one idempotency key, closings, failures and evictions
\* interleave, at most one setup or session has the key, and a request that uses
\* it again finds that one (createSession, sessionIdsByIdempotencyKey).
THEOREM KeyHasOneSession == Spec => []OneSessionPerKey
<1>1. Inv => OneSessionPerKey
  <2> SUFFICES ASSUME Inv, NEW k \in Key,
                      NEW H, H = {s \in Session : setup[s].key = k /\ (InSetup(s) \/ Listed(s))}
               PROVE  Cardinality(H) <= 1 /\ \A s \in H : s \in {tab.key[k], pending[k]}
    BY DEF OneSessionPerKey
  <2>0. None \notin Session
    BY SessionsAssumption
  <2>1. \A s \in H : /\ InSetup(s) \/ Listed(s)
                     /\ InSetup(s) => pending[k] = s
                     /\ Listed(s) => tab.key[k] = s /\ pending[k] = None
    BY DEF Inv, Keys
  <2>2. \A x, y \in H : x = y
    BY <2>0, <2>1
  <2> QED  BY <2>1, <2>2, AtMostOne
<1> QED  BY <1>1, Invariant, PTL

\* What GET /sessions says is true, and a session that could not be closed is
\* shown as failed or kept as a pending cleanup, unless more recent failures took
\* its place (closeOwnedSession, markFailed, and createSession watching closed).
THEOREM NoFailureIsHidden == Spec => []FailuresAreTold
<1>1. Inv => StatusTellsTheTruth
  BY DEF Inv, Sessions, Told, Awaited, Closers, Waits, StatusTellsTheTruth
<1>2. Inv => FailureIsKept
  <2> SUFFICES ASSUME Inv, Quiet, shut.pc \in {"open", "server"}, NEW s \in Session,
                      tunnel[s].state = "failed"
               PROVE  tab.state[s] = "failed" \/ s \in cleanup \cup tab.dropped
    BY DEF FailureIsKept
  <2>1. Told(s) /\ Settled(s) /\ tab.state[s] \in {"none", "live", "closing", "failed"}
    BY DEF Inv, Sessions, Types, TabType, Settled
  <2>2. setup[s].pc # "closingLate" /\ ~tunnel[s].watched
    BY <2>1 DEF Quiet, SessionReady
  <2>3. ~Awaited(s)
    BY <2>1 DEF Quiet, Ready, Awaited, Closers, Waits
  <2> QED  BY <2>1, <2>2, <2>3 DEF Told, Listed
<1> QED  BY <1>1, <1>2, Invariant, PTL DEF FailuresAreTold

\* While the client that drained an instance destroys it, no session of it is
\* being set up, open or closing; and after close() no tunnel of the daemon is
\* open, or closing but for a setup that answered too late.
THEOREM DrainAndShutdownLeaveNothing == Spec => []NothingStaysOpen
<1>1. Inv => DrainLeavesNothing
  BY DEF Inv, Draining, Drains, Empty, DrainLeavesNothing
<1>2. Inv => ShutdownClosesAll
  BY DEF Inv, Shutdown, ShutdownClosesAll
<1> QED  BY <1>1, <1>2, Invariant, PTL DEF NothingStaysOpen
=============================================================================
