---------------------- MODULE ConnectionGatewayProofs ----------------------
(***************************************************************************)
(* For any number of clients and of adapter cleanups: every channel is     *)
(* closed exactly once, no failed cleanup goes unreported, and everything  *)
(* is released after what uses it.                                         *)
(***************************************************************************)
EXTENDS ConnectionGateway, TLAPS

SockType == [tcp : {"none", "up", "destroyed", "gone"},
             entry : {"none", "opening", "channel"}, opening : BOOLEAN,
             chan : {"none", "open", "closing", "closed", "failed"}, closes : 0 .. 2]

\* Where a channel is known to whom: before it opens to #openConnection, while
\* it is open to #connections, afterwards to #pendingCleanups.
SockInv(k) ==
  /\ k.opening => k.chan = "none"
  /\ k.chan = "none" => k.closes = 0
  /\ k.chan = "open" => k.closes = 0 /\ k.entry = "channel" /\ k.tcp # "gone"
  /\ k.entry = "channel" => k.chan = "open"
  /\ k.chan \in {"closing", "closed", "failed"} => k.closes = 1
  /\ k.tcp \in {"none", "gone"} => k.entry = "none"
  /\ k.tcp = "none" => ~k.opening /\ k.chan = "none"

\* #close has emptied #connections, and what is added later is not kept there.
ChannelInv ==
  /\ sock \in [Socket -> SockType]
  /\ close \in [pc : {"none", "channels", "scope", "late", "ok", "rejected"},
                wait : SUBSET Socket]
  /\ \A s \in Socket : SockInv(sock[s]) /\ (close.pc # "none" => sock[s].entry = "none")

-----------------------------------------------------------------------------
LEMMA DestroyType ==
  ASSUME NEW k \in SockType
  PROVE  /\ Destroy(k) \in SockType
         /\ Destroy(k) = [k EXCEPT !.tcp = Destroy(k).tcp]
         /\ Destroy(k).tcp = IF k.tcp = "up" THEN "destroyed" ELSE k.tcp
BY DEF Destroy, SockType

LEMMA TearDownIsSafe ==
  ASSUME NEW k \in SockType, SockInv(k)
  PROVE  TearDown(k) \in SockType /\ SockInv(TearDown(k)) /\ TearDown(k).entry = "none"
<1>1. CASE k.entry = "none"
  BY <1>1 DEF TearDown
<1>2. CASE k.entry = "opening"
  <2>1. TearDown(k) = [k EXCEPT !.tcp = IF k.tcp = "up" THEN "destroyed" ELSE @, !.entry = "none"]
    BY <1>2 DEF TearDown, Destroy, SockType
  <2> QED
    BY <1>2, <2>1 DEF SockType, SockInv
<1>3. CASE k.entry = "channel"
  <2>2. k.chan = "open" /\ k.closes = 0 /\ k.closes + 1 = 1 /\ ~k.opening
    BY <1>3 DEF SockInv
  <2>1. TearDown(k) = [k EXCEPT !.tcp = IF k.tcp = "up" THEN "destroyed" ELSE @,
                                !.chan = "closing", !.closes = 1, !.entry = "none"]
    BY <1>3, <2>2 DEF TearDown, Track, Destroy, SockType
  <2>3. TearDown(k) \in SockType
    <3>1. 1 \in 0 .. 2
      OBVIOUS
    <3> QED
      BY <2>1, <3>1 DEF SockType
  <2>4. /\ TearDown(k).chan = "closing" /\ TearDown(k).closes = 1 /\ TearDown(k).entry = "none"
        /\ TearDown(k).opening = k.opening
        /\ TearDown(k).tcp = IF k.tcp = "up" THEN "destroyed" ELSE k.tcp
    BY <2>1, <2>2 DEF SockType
  <2> QED
    BY <2>2, <2>3, <2>4 DEF SockInv
<1> QED
  BY <1>1, <1>2, <1>3 DEF SockType

\* Whoever calls close(), after whatever happened to the sockets.
LEMMA CloseWithIsSafe ==
  ASSUME NEW sk \in [Socket -> SockType], \A s \in Socket : SockInv(sk[s]),
         close.pc # "none" => \A s \in Socket : sk[s].entry = "none",
         ChannelInv, CloseWith(sk)
  PROVE  ChannelInv'
<1>1. CASE close.pc # "none"
  BY <1>1 DEF CloseWith, ChannelInv
<1>2. CASE close.pc = "none"
  <2> DEFINE torn == [s \in Socket |-> TearDown(sk[s])]
  <2>1. sock' = torn /\ close' = [pc |-> "channels", wait |-> Pending(torn)]
    BY <1>2 DEF CloseWith
  <2>2. \A s \in Socket : torn[s] \in SockType /\ SockInv(torn[s]) /\ torn[s].entry = "none"
    BY TearDownIsSafe
  <2>3. Pending(torn) \subseteq Socket
    BY DEF Pending
  <2> HIDE DEF torn
  <2>4. torn \in [Socket -> SockType]
    BY <2>2 DEF torn
  <2> QED
    BY <2>1, <2>2, <2>3, <2>4 DEF ChannelInv
<1> QED
  BY <1>1, <1>2

LEMMA OneSocketIsSafe ==
  ASSUME ChannelInv, NEW s \in Socket, NEW k \in SockType, SockInv(k),
         close.pc # "none" => k.entry = "none",
         sock' = [sock EXCEPT ![s] = k], UNCHANGED close
  PROVE  ChannelInv'
BY DEF ChannelInv

\* What a connection becomes in each of its steps.
LEMMA AcceptIsSafe ==
  ASSUME ChannelInv, NEW s \in Socket, Accept(s)
  PROVE  ChannelInv'
<1> DEFINE k == sock[s]
<1>1. k \in SockType /\ SockInv(k) /\ k.tcp = "none"
  BY DEF ChannelInv, Accept
<1>2. k.chan = "none" /\ k.closes = 0 /\ k.entry = "none" /\ ~k.opening
  BY <1>1 DEF SockInv
<1>3. CASE close.pc # "none"
  <2> DEFINE n == [k EXCEPT !.tcp = "destroyed"]
  <2>1. n \in SockType /\ SockInv(n) /\ n.entry = "none"
    BY <1>1, <1>2 DEF SockType, SockInv
  <2>2. sock' = [sock EXCEPT ![s] = n] /\ UNCHANGED close
    BY <1>3 DEF Accept
  <2> QED
    BY <2>1, <2>2, OneSocketIsSafe
<1>4. CASE close.pc = "none"
  <2> DEFINE n == [k EXCEPT !.tcp = "up", !.entry = "opening", !.opening = TRUE]
  <2>1. n \in SockType /\ SockInv(n)
    BY <1>1, <1>2 DEF SockType, SockInv
  <2>2. sock' = [sock EXCEPT ![s] = n] /\ UNCHANGED close
    BY <1>4 DEF Accept
  <2> QED
    BY <1>4, <2>1, <2>2, OneSocketIsSafe
<1> QED
  BY <1>3, <1>4

LEMMA SocketEndsIsSafe ==
  ASSUME ChannelInv, NEW s \in Socket, SocketEnds(s)
  PROVE  ChannelInv'
<1> DEFINE k == sock[s]
           n == [k EXCEPT !.tcp = "destroyed"]
<1>1. k \in SockType /\ SockInv(k) /\ k.tcp = "up" /\ (close.pc # "none" => k.entry = "none")
  BY DEF ChannelInv, SocketEnds
<1>2. n \in SockType /\ n.entry = k.entry /\ SockInv(n)
  BY <1>1 DEF SockType, SockInv
<1>3. sock' = [sock EXCEPT ![s] = n] /\ UNCHANGED close
  BY <1>1 DEF SocketEnds, Destroy
<1> QED
  BY <1>1, <1>2, <1>3, OneSocketIsSafe

LEMMA SocketClosedIsSafe ==
  ASSUME ChannelInv, NEW s \in Socket, SocketClosed(s)
  PROVE  ChannelInv'
<1> DEFINE k == sock[s]
<1>1. k \in SockType /\ SockInv(k) /\ k.tcp = "destroyed"
  BY DEF ChannelInv, SocketClosed
<1>2. CASE k.entry = "channel"
  <2> DEFINE n == [k EXCEPT !.tcp = "gone", !.chan = "closing", !.closes = 1, !.entry = "none"]
  <2>1. k.chan = "open" /\ k.closes = 0 /\ k.closes + 1 = 1 /\ ~k.opening
    BY <1>1, <1>2 DEF SockInv
  <2>2. n \in SockType
    <3>1. 1 \in 0 .. 2
      OBVIOUS
    <3> QED
      BY <1>1, <3>1 DEF SockType
  <2>3. n.entry = "none" /\ SockInv(n)
    BY <1>1, <2>1 DEF SockType, SockInv
  <2>4. sock' = [sock EXCEPT ![s] = n] /\ UNCHANGED close
    BY <1>1, <1>2, <2>1 DEF SocketClosed, Track, SockType
  <2> QED
    BY <2>2, <2>3, <2>4, OneSocketIsSafe
<1>3. CASE k.entry # "channel"
  <2> DEFINE n == [k EXCEPT !.tcp = "gone", !.entry = "none"]
  <2>1. n \in SockType /\ n.entry = "none"
    BY <1>1 DEF SockType
  <2>2. SockInv(n)
    BY <1>1, <1>3 DEF SockType, SockInv
  <2>3. sock' = [sock EXCEPT ![s] = n] /\ UNCHANGED close
    BY <1>1, <1>3 DEF SocketClosed, SockType
  <2> QED
    BY <2>1, <2>2, <2>3, OneSocketIsSafe
<1> QED
  BY <1>2, <1>3

LEMMA ChannelOpensIsSafe ==
  ASSUME ChannelInv, NEW s \in Socket, ChannelOpens(s)
  PROVE  ChannelInv'
<1> DEFINE k == sock[s]
           wanted == close.pc = "none" /\ k.tcp = "up" /\ k.entry = "opening"
<1>1. /\ k \in SockType /\ SockInv(k) /\ k.opening
      /\ close.pc # "none" => k.entry = "none"
  BY DEF ChannelInv, ChannelOpens
<1>2. k.chan = "none" /\ k.closes = 0 /\ k.closes + 1 = 1 /\ k.tcp # "none" /\ k.entry # "channel"
  BY <1>1 DEF SockInv
<1>3. CASE wanted
  <2> DEFINE n == [k EXCEPT !.opening = FALSE, !.chan = "open", !.entry = "channel"]
  <2>1. n \in SockType /\ SockInv(n)
    BY <1>1, <1>2, <1>3 DEF SockType, SockInv
  <2>2. sock' = [sock EXCEPT ![s] = n] /\ UNCHANGED close
    BY <1>1, <1>3 DEF ChannelOpens, SockType
  <2> QED
    BY <1>3, <2>1, <2>2, OneSocketIsSafe
<1>4. CASE ~wanted
  <2> DEFINE n == [k EXCEPT !.opening = FALSE, !.chan = "closing", !.closes = 1,
                            !.tcp = IF @ = "up" THEN "destroyed" ELSE @]
  <2>1. n \in SockType
    <3>1. 1 \in 0 .. 2
      OBVIOUS
    <3> QED
      BY <1>1, <3>1 DEF SockType
  <2>2. n.entry = k.entry /\ SockInv(n)
    BY <1>1, <1>2 DEF SockType, SockInv
  <2>3. sock' = [sock EXCEPT ![s] = n] /\ UNCHANGED close
    BY <1>1, <1>2, <1>4 DEF ChannelOpens, Track, Destroy, SockType
  <2> QED
    BY <1>1, <2>1, <2>2, <2>3, OneSocketIsSafe
<1> QED
  BY <1>3, <1>4

LEMMA ChannelRefusedIsSafe ==
  ASSUME ChannelInv, NEW s \in Socket, ChannelRefused(s)
  PROVE  ChannelInv'
<1> DEFINE k == sock[s]
           n == [k EXCEPT !.tcp = IF @ = "up" THEN "destroyed" ELSE @,
                          !.opening = FALSE, !.entry = "none"]
           sk == [sock EXCEPT ![s] = n]
           fatal == close.pc = "none" /\ k.tcp = "up" /\ k.entry = "opening"
<1>1. k \in SockType /\ SockInv(k) /\ k.opening
  BY DEF ChannelInv, ChannelRefused
<1>2. k.chan = "none" /\ k.closes = 0 /\ k.tcp # "none"
  BY <1>1 DEF SockInv
<1>3. n \in SockType /\ SockInv(n) /\ n.entry = "none"
  BY <1>1, <1>2 DEF SockType, SockInv
<1>4. IF fatal THEN CloseWith(sk) ELSE sock' = sk /\ UNCHANGED close
  BY <1>1 DEF ChannelRefused, Destroy, SockType
<1>5. CASE fatal
  <2>1. sk \in [Socket -> SockType] /\ \A q \in Socket : SockInv(sk[q])
    BY <1>3 DEF ChannelInv
  <2> QED
    BY <1>4, <1>5, <2>1, CloseWithIsSafe
<1>6. CASE ~fatal
  BY <1>3, <1>4, <1>6, OneSocketIsSafe
<1> QED
  BY <1>5, <1>6

LEMMA ChannelCleanedIsSafe ==
  ASSUME ChannelInv, NEW s \in Socket, ChannelCleaned(s)
  PROVE  ChannelInv'
<1> DEFINE k == sock[s]
<1>1. /\ k \in SockType /\ SockInv(k) /\ k.chan = "closing"
      /\ close.pc # "none" => k.entry = "none"
  BY DEF ChannelInv, ChannelCleaned
<1>2. k.closes = 1 /\ ~k.opening /\ k.tcp # "none" /\ k.entry # "channel"
  BY <1>1 DEF SockInv
<1>3. \A r \in {"closed", "failed"} :
        LET n == [k EXCEPT !.chan = r] IN n \in SockType /\ SockInv(n) /\ n.entry = k.entry
  BY <1>1, <1>2 DEF SockType, SockInv
<1>4. CASE sock' = [sock EXCEPT ![s].chan = "closed"] /\ UNCHANGED close
  <2>1. sock' = [sock EXCEPT ![s] = [k EXCEPT !.chan = "closed"]]
    BY <1>4
  <2> QED
    BY <1>1, <1>3, <1>4, <2>1, OneSocketIsSafe
<1>5. CASE CloseWith([sock EXCEPT ![s].chan = "failed"])
  <2> DEFINE sk == [sock EXCEPT ![s] = [k EXCEPT !.chan = "failed"]]
  <2>1. sk \in [Socket -> SockType] /\ \A q \in Socket : SockInv(sk[q])
    BY <1>3 DEF ChannelInv
  <2>2. close.pc # "none" => \A q \in Socket : sk[q].entry = "none"
    BY <1>1, <1>3 DEF ChannelInv
  <2>3. CloseWith(sk)
    BY <1>5
  <2> QED
    BY <2>1, <2>2, <2>3, CloseWithIsSafe
<1> QED
  BY <1>4, <1>5 DEF ChannelCleaned

\* close() as its owner, the abort signal, or openEndpoint calls it.
LEMMA CloseIsSafe == ChannelInv /\ CloseWith(sock) => ChannelInv'
<1> SUFFICES ASSUME ChannelInv, CloseWith(sock) PROVE ChannelInv'
  OBVIOUS
<1>1. /\ sock \in [Socket -> SockType] /\ \A s \in Socket : SockInv(sock[s])
      /\ close.pc # "none" => \A s \in Socket : sock[s].entry = "none"
  BY DEF ChannelInv
<1> QED
  BY <1>1, CloseWithIsSafe

LEMMA PromiseIsSafe ==
  ChannelInv /\ (CloseScope \/ CloseLateChannels \/ CloseSettled) => ChannelInv'
BY DEF ChannelInv, CloseScope, CloseLateChannels, CloseSettled, Pending

LEMMA ChannelInvStep == ChannelInv /\ [Next]_vars => ChannelInv'
<1> SUFFICES ASSUME ChannelInv, [Next]_vars PROVE ChannelInv'
  OBVIOUS
<1>1. CASE UNCHANGED <<sock, close>>
  BY <1>1 DEF ChannelInv
<1>2. CASE Setup
  <2>1. CloseWith(sock) \/ UNCHANGED <<sock, close>>
    BY <1>2 DEF Setup, Open, GetMethods, AdapterRegisters, TransportOpens, TransportRefused,
                SetupAbandoned, Listen, SetupFailed, sessionVars
  <2> QED
    BY <1>1, <2>1, CloseIsSafe
<1>3. CASE OwnerCloses \/ Abort
  BY <1>1, <1>3, CloseIsSafe DEF OwnerCloses, Abort
<1>4. CASE CloseScope \/ CloseLateChannels \/ CloseSettled
  BY <1>4, PromiseIsSafe
<1>5. CASE LateTransport \/ LateTransportClosed \/ StartItem \/ EndItem \/ ScopeClosed
  BY <1>1, <1>5 DEF LateTransport, LateTransportClosed, StartItem, EndItem, ScopeClosed, sessionVars
<1>6. ASSUME NEW s \in Socket, Connection(s) PROVE ChannelInv'
  BY <1>6, AcceptIsSafe, SocketEndsIsSafe, SocketClosedIsSafe, ChannelOpensIsSafe,
     ChannelRefusedIsSafe, ChannelCleanedIsSafe DEF Connection
<1>7. CASE UNCHANGED vars
  BY <1>1, <1>7 DEF vars
<1> QED
  BY <1>2, <1>3, <1>4, <1>5, <1>6, <1>7 DEF Next

LEMMA InitChannelInv == Init => ChannelInv
BY DEF Init, ChannelInv, SockType, SockInv

LEMMA Channels == Spec => []ChannelInv
BY InitChannelInv, ChannelInvStep, PTL DEF Spec

\* A channel is closed exactly once, by whichever of the three paths of
\* LiveConnectionSession reaches it, for any number of clients.
THEOREM ChannelsClosedOnce == Spec => []ChannelsAreClosed
<1>1. ChannelInv => ChannelsAreClosed
  <2> SUFFICES ASSUME ChannelInv, NEW s \in Socket
               PROVE  /\ sock[s].closes <= 1
                      /\ sock[s].chan = "open" =>
                           close.pc = "none" /\ sock[s].entry = "channel" /\ sock[s].tcp # "gone"
                      /\ sock[s].chan \in {"closing", "closed", "failed"} => sock[s].closes = 1
    BY DEF ChannelsAreClosed
  <2>1. sock[s] \in SockType /\ SockInv(sock[s]) /\ (close.pc # "none" => sock[s].entry = "none")
    BY DEF ChannelInv
  <2> QED
    BY <2>1 DEF SockInv, SockType
<1> QED
  BY <1>1, Channels, PTL

-----------------------------------------------------------------------------
(***************************************************************************)
(* Failures.  #lifecycleErrors remembers the failures of channels from the *)
(* start and those of the scope from the moment it has closed; a close()   *)
(* that succeeded had none of either.                                      *)
(***************************************************************************)
ScopeType == [pc : {"unused", "open", "running", "done"}, todo : Seq(Item),
              cur : Item \cup {None}, ran : SUBSET Item, failed : SUBSET Item]

\* The scope, and that nothing has happened before openEndpoint is called.
ScopeInv ==
  /\ scope \in ScopeType
  /\ scope.cur # None => scope.pc = "running"
  /\ setup = "idle" => /\ scope.pc = "unused" /\ close.pc = "none"
                       /\ transport = "none" /\ ~listening
                       /\ \A s \in Socket : sock[s].tcp = "none"

FailureInv ==
  /\ close.pc \in {"late", "ok", "rejected"} => scope.pc = "done"
  /\ close.pc = "late" /\ scope.failed # {} => errs
  /\ close.pc = "ok" => scope.failed = {}
  /\ \A s \in Socket : sock[s].chan = "failed" => errs /\ (close.pc = "ok" => late)

LEMMA InitFailureInv == Init => ScopeInv /\ FailureInv
BY DEF Init, ScopeInv, ScopeType, FailureInv

\* close() does nothing twice, and fails no channel.
LEMMA CloseWithFailsNothing ==
  ASSUME NEW sk \in [Socket -> SockType], CloseWith(sk)
  PROVE  /\ close.pc # "none" => UNCHANGED close /\ sock' = sk
         /\ close.pc = "none" => close'.pc = "channels"
         /\ \A s \in Socket : sock'[s].chan = "failed" => sk[s].chan = "failed"
<1>1. \A k \in SockType : TearDown(k).chan = "failed" => k.chan = "failed"
  <2> SUFFICES ASSUME NEW k \in SockType PROVE TearDown(k).chan = "failed" => k.chan = "failed"
    OBVIOUS
  <2>1. CASE k.entry = "none"
    BY <2>1 DEF TearDown
  <2>2. CASE k.entry = "opening"
    BY <2>2 DEF TearDown, Destroy, SockType
  <2>3. CASE k.entry = "channel"
    BY <2>3 DEF TearDown, Track, Destroy, SockType
  <2> QED
    BY <2>1, <2>2, <2>3 DEF SockType
<1> QED
  BY <1>1 DEF CloseWith

LEMMA ClosingType ==
  ASSUME NEW sc \in ScopeType, sc.cur # None => sc.pc = "running"
  PROVE  /\ Closing(sc) \in ScopeType /\ (Closing(sc).cur # None => Closing(sc).pc = "running")
         /\ sc.pc = "done" => Closing(sc) = sc
         /\ Closing(sc).failed = sc.failed
BY DEF Closing, ScopeType

LEMMA RegisterType ==
  ASSUME ScopeInv, NEW items \in Seq(Item), Register(items)
  PROVE  /\ scope' \in ScopeType /\ scope'.cur = scope.cur /\ scope'.pc = scope.pc
         /\ scope'.failed = scope.failed
<1>1. scope \in ScopeType /\ scope.todo \in Seq(Item)
  BY DEF ScopeInv, ScopeType
<1>2. items \o scope.todo \in Seq(Item)
  BY <1>1
<1> QED
  BY <1>1, <1>2 DEF Register, ScopeType

LEMMA ItemTypes ==
  /\ <<"admission">> \in Seq(Item) /\ <<"server", "transport">> \in Seq(Item)
  /\ <<"listener">> \in Seq(Item) /\ \A c \in AdapterCleanup : <<c>> \in Seq(Item)
BY DEF Item

\* What openEndpoint does to the scope.
LEMMA SetupIsSafe ==
  ASSUME ScopeInv, Setup
  PROVE  /\ ScopeInv' /\ (scope.pc = "done" => scope'.pc = "done")
         /\ scope'.failed = scope.failed
<1>1. CASE Open
  <2>1. setup' # "idle"
    BY <1>1 DEF Open
  <2> QED
    BY <1>1, <2>1, ItemTypes DEF Open, ScopeInv, ScopeType
<1>2. CASE GetMethods
  BY <1>2, ClosingType DEF GetMethods, Throws, ScopeInv
<1>3. ASSUME NEW c \in AdapterCleanup, AdapterRegisters(c)
      PROVE  /\ ScopeInv' /\ (scope.pc = "done" => scope'.pc = "done")
             /\ scope'.failed = scope.failed
  BY <1>3, RegisterType, ItemTypes DEF AdapterRegisters, ScopeInv
<1>4. CASE TransportOpens
  BY <1>4, RegisterType, ItemTypes DEF TransportOpens, ScopeInv
<1>5. CASE TransportRefused
  BY <1>5, ClosingType DEF TransportRefused, Throws, ScopeInv
<1>6. CASE SetupAbandoned
  BY <1>6, ClosingType DEF SetupAbandoned, Throws, ScopeInv
<1>7. CASE Listen
  <2>1. setup' # "idle"
    BY <1>7 DEF Listen, Throws
  <2>2. CASE Throws
    BY <2>1, <2>2, ClosingType DEF Throws, ScopeInv
  <2>3. CASE Register(<<"listener">>)
    BY <2>1, <2>3, RegisterType, ItemTypes DEF ScopeInv
  <2> QED
    BY <1>7, <2>2, <2>3 DEF Listen
<1>8. CASE SetupFailed
  BY <1>8 DEF SetupFailed, ScopeInv
<1> QED
  BY <1>1, <1>2, <1>3, <1>4, <1>5, <1>6, <1>7, <1>8 DEF Setup

\* What the scope does itself; nothing fails once it is done.
LEMMA CleanupIsSafe ==
  ASSUME ScopeInv, StartItem \/ EndItem \/ ScopeClosed
  PROVE  ScopeInv' /\ scope.pc = "running"
<1>1. CASE StartItem
  <2>1. scope' = [scope EXCEPT !.cur = Head(scope.todo), !.todo = Tail(scope.todo)]
    BY <1>1 DEF StartItem
  <2>2. Head(scope.todo) \in Item /\ Tail(scope.todo) \in Seq(Item) /\ scope.pc = "running"
    BY <1>1 DEF StartItem, ScopeInv, ScopeType
  <2>3. setup # "idle" /\ UNCHANGED setup
    BY <1>1, <2>2 DEF StartItem, ScopeInv
  <2> QED
    BY <2>1, <2>2, <2>3 DEF ScopeInv, ScopeType
<1>2. CASE EndItem
  <2>1. scope.pc = "running" /\ scope.cur \in Item
    BY <1>2 DEF EndItem, ScopeInv, ScopeType
  <2>2. setup # "idle" /\ UNCHANGED setup
    BY <1>2, <2>1 DEF EndItem, ScopeInv
  <2>3. PICK fails \in BOOLEAN :
          scope' = [scope EXCEPT !.cur = None, !.ran = @ \cup {scope.cur},
                                 !.failed = IF fails THEN @ \cup {scope.cur} ELSE @]
    BY <1>2 DEF EndItem
  <2> QED
    BY <2>1, <2>2, <2>3 DEF ScopeInv, ScopeType
<1>3. CASE ScopeClosed
  BY <1>3 DEF ScopeClosed, ScopeInv, ScopeType
<1> QED
  BY <1>1, <1>2, <1>3

LEMMA ScopeInvStep == ChannelInv /\ ScopeInv /\ [Next]_vars => ScopeInv'
<1> SUFFICES ASSUME ChannelInv, ScopeInv, [Next]_vars PROVE ScopeInv'
  OBVIOUS
<1>1. CASE Setup
  BY <1>1, SetupIsSafe
<1>2. CASE StartItem \/ EndItem \/ ScopeClosed
  BY <1>2, CleanupIsSafe
<1>3. CASE OwnerCloses \/ Abort
  BY <1>3 DEF OwnerCloses, Abort, ScopeInv
<1>4. CASE CloseScope
  <2>1. setup # "idle"
    BY <1>4 DEF CloseScope, ScopeInv
  <2> QED
    BY <1>4, <2>1, ClosingType DEF CloseScope, ScopeInv
<1>5. CASE CloseLateChannels \/ CloseSettled
  BY <1>5 DEF CloseLateChannels, CloseSettled, ScopeInv
<1>6. CASE LateTransport \/ LateTransportClosed
  BY <1>6 DEF LateTransport, LateTransportClosed, ScopeInv, sessionVars
<1>7. ASSUME NEW s \in Socket, Connection(s) PROVE ScopeInv'
  <2>1. setup # "idle"
    <3>1. sock[s].tcp = "none" => sock[s].chan = "none" /\ ~sock[s].opening
      BY DEF ChannelInv, SockInv
    <3> QED
      BY <1>7, <3>1 DEF Connection, Accept, SocketEnds, SocketClosed, ChannelOpens,
                        ChannelRefused, ChannelCleaned, ScopeInv
  <2>2. UNCHANGED <<setup, scope>>
    BY <1>7 DEF Connection, Accept, SocketEnds, SocketClosed, ChannelOpens,
                ChannelRefused, ChannelCleaned
  <2> QED
    BY <2>1, <2>2 DEF ScopeInv
<1>8. CASE UNCHANGED vars
  BY <1>8 DEF vars, ScopeInv
<1> QED
  BY <1>1, <1>2, <1>3, <1>4, <1>5, <1>6, <1>7, <1>8 DEF Next

LEMMA FailureInvStep ==
  ChannelInv /\ ScopeInv /\ FailureInv /\ [Next]_vars => FailureInv'
<1> SUFFICES ASSUME ChannelInv, ScopeInv, FailureInv, [Next]_vars PROVE FailureInv'
  OBVIOUS
<1>0. sock \in [Socket -> SockType]
  BY DEF ChannelInv
<1>1. CASE Setup
  <2>1. (scope.pc = "done" => scope'.pc = "done") /\ scope'.failed = scope.failed
    BY <1>1, SetupIsSafe
  <2>2. CloseWith(sock) \/ UNCHANGED <<sock, close>>
    BY <1>1 DEF Setup, Open, GetMethods, AdapterRegisters, TransportOpens, TransportRefused,
                SetupAbandoned, Listen, SetupFailed, sessionVars
  <2>3. UNCHANGED <<errs, late>>
    BY <1>1 DEF Setup, Open, GetMethods, AdapterRegisters, TransportOpens, TransportRefused,
                SetupAbandoned, Listen, SetupFailed, sessionVars
  <2> QED
    BY <1>0, <2>1, <2>2, <2>3, CloseWithFailsNothing DEF FailureInv
<1>2. CASE StartItem \/ EndItem \/ ScopeClosed
  <2>1. scope.pc = "running" /\ UNCHANGED sessionVars
    BY <1>2, CleanupIsSafe DEF StartItem, EndItem, ScopeClosed
  <2> QED
    BY <2>1 DEF FailureInv, sessionVars
<1>3. CASE OwnerCloses \/ Abort
  <2>1. (CloseWith(sock) \/ UNCHANGED <<sock, close>>) /\ UNCHANGED <<errs, late, scope>>
    BY <1>3 DEF OwnerCloses, Abort
  <2> QED
    BY <1>0, <2>1, CloseWithFailsNothing DEF FailureInv
<1>4. CASE CloseScope
  BY <1>4 DEF CloseScope, FailureInv
<1>5. CASE CloseLateChannels
  BY <1>5 DEF CloseLateChannels, FailureInv
<1>6. CASE CloseSettled
  BY <1>6 DEF CloseSettled, FailureInv
<1>7. CASE LateTransport \/ LateTransportClosed
  BY <1>7 DEF LateTransport, LateTransportClosed, FailureInv, sessionVars
<1>8. ASSUME NEW s \in Socket, Connection(s) PROVE FailureInv'
  <2>1. CASE Accept(s) \/ SocketEnds(s) \/ SocketClosed(s) \/ ChannelOpens(s)
    <3>1. \A q \in Socket : sock'[q].chan = "failed" => sock[q].chan = "failed"
      <4>1. CASE Accept(s)
        BY <1>0, <4>1 DEF Accept, SockType
      <4>2. CASE SocketEnds(s)
        BY <1>0, <4>2 DEF SocketEnds, Destroy, SockType
      <4>3. CASE SocketClosed(s)
        BY <1>0, <4>3 DEF SocketClosed, Track, SockType
      <4>4. CASE ChannelOpens(s)
        BY <1>0, <4>4 DEF ChannelOpens, Track, Destroy, SockType
      <4> QED
        BY <2>1, <4>1, <4>2, <4>3, <4>4
    <3>2. UNCHANGED <<scope, close, errs, late>>
      BY <2>1 DEF Accept, SocketEnds, SocketClosed, ChannelOpens
    <3> QED
      BY <3>1, <3>2 DEF FailureInv
  <2>2. CASE ChannelRefused(s)
    <3> DEFINE sk == [sock EXCEPT ![s] = [Destroy(@) EXCEPT !.opening = FALSE, !.entry = "none"]]
    <3>1. /\ sk \in [Socket -> SockType]
          /\ \A q \in Socket : sk[q].chan = sock[q].chan
      BY <1>0, ZenonT(60) DEF Destroy, SockType
    <3>2. UNCHANGED <<scope, late>> /\ (errs => errs')
      BY <2>2 DEF ChannelRefused
    <3>3. CloseWith(sk) \/ (sock' = sk /\ UNCHANGED close)
      BY <2>2 DEF ChannelRefused
    <3> HIDE DEF sk
    <3> QED
      BY <3>1, <3>2, <3>3, CloseWithFailsNothing DEF FailureInv
  <2>3. CASE ChannelCleaned(s)
    <3>1. CASE sock' = [sock EXCEPT ![s].chan = "closed"] /\ UNCHANGED <<close, errs, late>>
      <4>1. \A q \in Socket : sock'[q].chan = "failed" => sock[q].chan = "failed"
        BY <1>0, <3>1 DEF SockType
      <4> QED
        BY <2>3, <3>1, <4>1 DEF ChannelCleaned, FailureInv
    <3>2. CASE /\ errs' = TRUE /\ late' = (late \/ close.pc = "ok")
               /\ CloseWith([sock EXCEPT ![s].chan = "failed"])
      <4>1. [sock EXCEPT ![s].chan = "failed"] \in [Socket -> SockType]
        BY <1>0 DEF SockType
      <4>2. UNCHANGED scope
        BY <2>3 DEF ChannelCleaned
      <4>3. UNCHANGED close \/ close'.pc = "channels"
        BY <3>2, <4>1, CloseWithFailsNothing
      <4>4. close'.pc = "ok" => late'
        BY <3>2, <4>3
      <4> QED
        BY <3>2, <4>2, <4>3, <4>4 DEF FailureInv
    <3> QED
      BY <2>3, <3>1, <3>2 DEF ChannelCleaned
  <2> QED
    BY <1>8, <2>1, <2>2, <2>3 DEF Connection
<1>9. CASE UNCHANGED vars
  BY <1>9 DEF vars, FailureInv
<1> QED
  BY <1>1, <1>2, <1>3, <1>4, <1>5, <1>6, <1>7, <1>8, <1>9 DEF Next

LEMMA Inductive == Spec => [](ChannelInv /\ ScopeInv /\ FailureInv)
BY InitChannelInv, InitFailureInv, ChannelInvStep, ScopeInvStep, FailureInvStep, PTL DEF Spec

-----------------------------------------------------------------------------
Flags ==
  /\ setup \in {"idle", "methods", "transport", "listen", "open", "failing", "closing", "thrown"}
  /\ transport \in {"none", "pending", "open", "closing", "closed", "failed"}
  /\ aborted \in BOOLEAN /\ listening \in BOOLEAN /\ errs \in BOOLEAN /\ late \in BOOLEAN

LEMMA FlagsStep == Flags /\ [Next]_vars => Flags'
<1> SUFFICES ASSUME Flags, [Next]_vars PROVE Flags'
  OBVIOUS
<1>1. CASE Setup
  BY <1>1 DEF Setup, Open, GetMethods, AdapterRegisters, TransportOpens, TransportRefused,
              SetupAbandoned, Listen, SetupFailed, Throws, Flags, sessionVars
<1>2. CASE StartItem \/ EndItem \/ ScopeClosed
  BY <1>2 DEF StartItem, EndItem, ScopeClosed, Flags, sessionVars
<1>3. CASE OwnerCloses \/ Abort \/ CloseScope \/ CloseLateChannels \/ CloseSettled
  BY <1>3 DEF OwnerCloses, Abort, CloseScope, CloseLateChannels, CloseSettled, Flags
<1>4. CASE LateTransport \/ LateTransportClosed
  BY <1>4 DEF LateTransport, LateTransportClosed, Flags, sessionVars
<1>5. ASSUME NEW s \in Socket, Connection(s) PROVE Flags'
  BY <1>5 DEF Connection, Accept, SocketEnds, SocketClosed, ChannelOpens, ChannelRefused,
              ChannelCleaned, Flags
<1>6. CASE UNCHANGED vars
  BY <1>6 DEF vars, Flags
<1> QED
  BY <1>1, <1>2, <1>3, <1>4, <1>5, <1>6 DEF Next

\* Types, and that #connections holds no channel that is being closed.
THEOREM TypeCorrect == Spec => []TypeOK
<1>1. Init => Flags
  BY DEF Init, Flags
<1>2. ChannelInv /\ ScopeInv /\ Flags => TypeOK
  BY DEF ChannelInv, ScopeInv, Flags, TypeOK, SockType, ScopeType, SockInv
<1> QED
  BY <1>1, <1>2, FlagsStep, Inductive, PTL DEF Spec

\* A close() that resolves hides no failed cleanup: of the scope, none; of a
\* channel, only one that the next close() reports.
THEOREM FailuresAreReported == Spec => []FailureIsReported
<1>1. FailureInv => FailureIsReported
  BY DEF FailureInv, FailureIsReported
<1> QED
  BY <1>1, Inductive, PTL
-----------------------------------------------------------------------------
(***************************************************************************)
(* Releases.  The scope is a stack: the listener lies on the server, the   *)
(* server on the transport, that on what the adapter registered, and the   *)
(* admission lies at the bottom.  What has been taken off it may not lie   *)
(* below what is still there.                                              *)
(***************************************************************************)
Rank(x) ==
  IF x = "listener" THEN 1 ELSE IF x = "server" THEN 2 ELSE IF x = "transport" THEN 3
  ELSE IF x = "admission" THEN 5 ELSE 4

Above(x, y) == x # y /\ Rank(x) <= Rank(y)

Elements(q) == {q[n] : n \in DOMAIN q}
Stack(q) == \A m, n \in DOMAIN q : m < n => Above(q[m], q[n])

Todo == Elements(scope.todo)
Released == scope.ran \cup ({scope.cur} \ {None})

Order ==
  /\ Stack(scope.todo)
  /\ \A x \in Released, y \in Todo : Above(x, y)
  /\ \A x \in scope.ran : scope.cur # None => Above(x, scope.cur)
  /\ scope.pc \in {"unused", "open"} => Released = {}
  /\ scope.pc \in {"unused", "done"} => scope.todo = <<>>

\* After Listen there may be clients, and a session that can be closed.
Begun == setup \in {"open", "closing", "thrown"}

\* What is registered and in use while openEndpoint goes on and afterwards.
Phases ==
  /\ setup \in {"methods", "transport", "listen"} => scope.pc = "open"
  /\ setup \in {"idle", "methods"} => transport = "none"
  /\ setup = "transport" => transport = "pending"
  /\ setup = "listen" => transport = "open" /\ "listener" \notin Todo
  /\ setup = "thrown" => Todo = {} /\ scope.todo = <<>> /\ scope.cur = None /\ scope.pc # "open"
  /\ transport \in {"none", "pending"} =>
       (Todo \cup Released) \cap {"listener", "server", "transport"} = {}
  /\ transport = "pending" => setup \in {"transport", "failing", "thrown"}
  /\ transport = "open" => "transport" \in Todo
  /\ "transport" \in Todo \cup Released => "server" \in Todo \cup Released
  /\ listening => Begun /\ "server" \in Todo
  /\ close.pc # "none" => Begun
  /\ \A s \in Socket : sock[s].tcp # "none" => Begun
  /\ "server" \in scope.ran => \A s \in Socket : sock[s].tcp \in {"none", "gone"}
  /\ setup = "open" /\ aborted => close.pc # "none"

Releases == Order /\ Phases

LEMMA Push ==
  ASSUME NEW q \in Seq(Item), NEW x \in Item, Stack(q), \A y \in Elements(q) : Above(x, y)
  PROVE  /\ <<x>> \o q \in Seq(Item) /\ Stack(<<x>> \o q)
         /\ Elements(<<x>> \o q) = {x} \cup Elements(q)
<1> DEFINE r == <<x>> \o q
<1>1. r \in Seq(Item) /\ Len(r) = Len(q) + 1 /\ Len(q) \in Nat
  OBVIOUS
<1>2. r[1] = x /\ \A n \in 2 .. Len(q) + 1 : r[n] = q[n - 1]
  OBVIOUS
<1>3. DOMAIN r = 1 .. Len(q) + 1 /\ DOMAIN q = 1 .. Len(q)
  BY <1>1
<1> HIDE DEF r
<1>4. Stack(r)
  <2> SUFFICES ASSUME NEW m \in DOMAIN r, NEW n \in DOMAIN r, m < n PROVE Above(r[m], r[n])
    BY DEF Stack
  <2>1. n \in 2 .. Len(q) + 1 /\ n - 1 \in DOMAIN q
    BY <1>1, <1>3
  <2>2. CASE m = 1
    BY <1>2, <2>1, <2>2 DEF Elements
  <2>3. CASE m # 1
    <3>1. m \in 2 .. Len(q) + 1 /\ m - 1 \in DOMAIN q /\ m - 1 < n - 1
      BY <1>1, <1>3, <2>3
    <3> QED  BY <1>2, <2>1, <3>1 DEF Stack
  <2> QED  BY <2>2, <2>3
<1>5. Elements(r) = {x} \cup Elements(q)
  <2>1. ASSUME NEW y \in Elements(r) PROVE y \in {x} \cup Elements(q)
    <3>1. PICK n \in DOMAIN r : y = r[n]
      BY DEF Elements
    <3>2. CASE n = 1
      BY <1>2, <3>1, <3>2
    <3>3. CASE n # 1
      <4>1. n \in 2 .. Len(q) + 1 /\ n - 1 \in DOMAIN q
        BY <1>1, <1>3, <3>3
      <4> QED  BY <1>2, <3>1, <4>1 DEF Elements
    <3> QED  BY <3>2, <3>3
  <2>2. x \in Elements(r)
    BY <1>1, <1>2, <1>3 DEF Elements
  <2>3. ASSUME NEW y \in Elements(q) PROVE y \in Elements(r)
    <3>1. PICK n \in DOMAIN q : y = q[n]
      BY DEF Elements
    <3>2. n + 1 \in DOMAIN r /\ n + 1 \in 2 .. Len(q) + 1 /\ (n + 1) - 1 = n
      BY <1>1, <1>3
    <3> QED  BY <1>2, <3>1, <3>2 DEF Elements
  <2> QED  BY <2>1, <2>2, <2>3
<1> QED  BY <1>1, <1>4, <1>5 DEF r

LEMMA Pop ==
  ASSUME NEW q \in Seq(Item), q # <<>>, Stack(q)
  PROVE  /\ Head(q) \in Item /\ Tail(q) \in Seq(Item) /\ Stack(Tail(q))
         /\ Elements(q) = {Head(q)} \cup Elements(Tail(q))
         /\ \A y \in Elements(Tail(q)) : Above(Head(q), y)
<1> DEFINE t == Tail(q)
<1>1. Len(q) \in Nat /\ Len(q) >= 1 /\ t \in Seq(Item) /\ Len(t) = Len(q) - 1 /\ Head(q) = q[1]
  OBVIOUS
<1>2. \A n \in 1 .. Len(q) - 1 : t[n] = q[n + 1]
  OBVIOUS
<1>3. DOMAIN t = 1 .. Len(q) - 1 /\ DOMAIN q = 1 .. Len(q) /\ q[1] \in Item
  BY <1>1
<1> HIDE DEF t
<1>4. Stack(t)
  <2> SUFFICES ASSUME NEW m \in DOMAIN t, NEW n \in DOMAIN t, m < n PROVE Above(t[m], t[n])
    BY DEF Stack
  <2>1. m + 1 \in DOMAIN q /\ n + 1 \in DOMAIN q /\ m + 1 < n + 1
    BY <1>1, <1>3
  <2> QED  BY <1>2, <1>3, <2>1 DEF Stack
<1>5. \A y \in Elements(t) : y \in Elements(q) /\ Above(q[1], y)
  <2> SUFFICES ASSUME NEW n \in DOMAIN t PROVE t[n] \in Elements(q) /\ Above(q[1], t[n])
    BY DEF Elements
  <2>1. 1 \in DOMAIN q /\ n + 1 \in DOMAIN q /\ 1 < n + 1
    BY <1>1, <1>3
  <2> QED  BY <1>2, <1>3, <2>1 DEF Stack, Elements
<1>6. \A y \in Elements(q) : y = q[1] \/ y \in Elements(t)
  <2> SUFFICES ASSUME NEW n \in DOMAIN q, n # 1 PROVE q[n] \in Elements(t)
    BY DEF Elements
  <2>1. n - 1 \in DOMAIN t /\ (n - 1) + 1 = n
    BY <1>1, <1>3
  <2> QED  BY <1>2, <1>3, <2>1 DEF Elements
<1>7. q[1] \in Elements(q)
  BY <1>1, <1>3 DEF Elements
<1> QED  BY <1>1, <1>3, <1>4, <1>5, <1>6, <1>7 DEF t

LEMMA InitReleases == Init => Releases
BY DEF Init, Releases, Order, Phases, Todo, Released, Elements, Stack, Begun

\* What happens to the scope, in terms of what lies on it and what was taken off.
Same == UNCHANGED <<Todo, Released, scope.todo, scope.ran, scope.cur>>

LEMMA SameScope == ASSUME UNCHANGED scope, Order PROVE Order' /\ Same /\ scope'.pc = scope.pc
BY DEF Order, Same, Todo, Released, Elements, Stack

LEMMA ClosingEffect ==
  ASSUME ScopeInv, Order, scope' = Closing(scope)
  PROVE  /\ Order' /\ Same
         /\ scope'.pc = IF scope.pc = "open" THEN "running" ELSE scope.pc
<1>1. /\ scope'.todo = scope.todo /\ scope'.ran = scope.ran /\ scope'.cur = scope.cur
      /\ scope'.pc = IF scope.pc = "open" THEN "running" ELSE scope.pc
  BY DEF ScopeInv, ScopeType, Closing
<1>2. Same
  BY <1>1 DEF Same, Todo, Released, Elements
<1> QED  BY <1>1, <1>2 DEF Order, Same, Stack

LEMMA RegisterEffect ==
  ASSUME ScopeInv, Order, scope.pc = "open", NEW x \in Item,
         \A y \in Todo : Above(x, y), Register(<<x>>)
  PROVE  /\ Order' /\ Todo' = {x} \cup Todo /\ Released' = Released
         /\ scope'.pc = "open" /\ UNCHANGED <<scope.ran, scope.cur>>
<1>1. /\ scope'.todo = <<x>> \o scope.todo /\ scope'.ran = scope.ran
      /\ scope'.cur = scope.cur /\ scope'.pc = "open" /\ scope.todo \in Seq(Item)
  BY DEF ScopeInv, ScopeType, Register
<1>2. Stack(scope'.todo) /\ Elements(scope'.todo) = {x} \cup Elements(scope.todo)
  BY <1>1, Push DEF Order, Todo
<1>3. Released' = Released /\ Released = {}
  BY <1>1 DEF Released, Order
<1>4. Todo' = {x} \cup Todo
  BY <1>2 DEF Todo
<1> QED  BY <1>1, <1>2, <1>3, <1>4 DEF Order

LEMMA RegisterTwoEffect ==
  ASSUME ScopeInv, Order, scope.pc = "open",
         \A y \in Todo : y \notin {"listener", "server", "transport"},
         Register(<<"server", "transport">>)
  PROVE  /\ Order' /\ Todo' = {"server", "transport"} \cup Todo /\ Released' = Released
         /\ scope'.pc = "open" /\ UNCHANGED <<scope.ran, scope.cur>>
<1> DEFINE q == scope.todo
           r == <<"transport">> \o q
<1>1. /\ scope'.todo = <<"server", "transport">> \o q /\ scope'.ran = scope.ran
      /\ scope'.cur = scope.cur /\ scope'.pc = "open" /\ q \in Seq(Item)
  BY DEF ScopeInv, ScopeType, Register
<1>2. "server" \in Item /\ "transport" \in Item
  BY DEF Item
<1>3. <<"server", "transport">> \o q = <<"server">> \o r
  BY <1>1, <1>2
<1>4. \A y \in Elements(q) : Above("transport", y) /\ Above("server", y)
  BY DEF Todo, Above, Rank
<1>5. r \in Seq(Item) /\ Stack(r) /\ Elements(r) = {"transport"} \cup Elements(q)
  BY <1>1, <1>2, <1>4, Push DEF Order
<1>6. \A y \in Elements(r) : Above("server", y)
  BY <1>4, <1>5 DEF Above, Rank
<1> HIDE DEF r
<1>7. Stack(<<"server">> \o r) /\ Elements(<<"server">> \o r) = {"server"} \cup Elements(r)
  BY <1>2, <1>5, <1>6, Push
<1>8. Stack(scope'.todo) /\ Elements(scope'.todo) = {"server", "transport"} \cup Elements(q)
  BY <1>1, <1>3, <1>5, <1>7
<1>9. Released' = Released /\ Released = {}
  BY <1>1 DEF Released, Order
<1>10. Todo' = {"server", "transport"} \cup Todo
  BY <1>8 DEF Todo
<1> QED  BY <1>1, <1>8, <1>9, <1>10 DEF Order

LEMMA StartEffect ==
  ASSUME ScopeInv, Order, StartItem
  PROVE  /\ Order' /\ Head(scope.todo) \in Todo /\ scope'.cur = Head(scope.todo)
         /\ Todo' = Todo \ {scope'.cur} /\ Released' = Released \cup {scope'.cur}
         /\ scope'.pc = "running" /\ scope'.ran = scope.ran
<1> DEFINE x == Head(scope.todo)
<1>1. /\ scope.todo # <<>> /\ scope.todo \in Seq(Item) /\ scope.cur = None
      /\ scope'.todo = Tail(scope.todo) /\ scope'.cur = x /\ scope'.ran = scope.ran
      /\ scope'.pc = "running" /\ scope.pc = "running"
  BY DEF ScopeInv, ScopeType, StartItem
<1>2. /\ x \in Item /\ Stack(Tail(scope.todo)) /\ Todo = {x} \cup Elements(Tail(scope.todo))
      /\ \A y \in Elements(Tail(scope.todo)) : Above(x, y)
  BY <1>1, Pop DEF Order, Todo
<1>3. x # None
  BY <1>2, GatewayAssumption
<1> HIDE DEF x
<1>4. Todo' = Elements(Tail(scope.todo))
  BY <1>1 DEF Todo
<1>5. Released = scope.ran /\ Released' = Released \cup {x}
  BY <1>1, <1>3 DEF Released
<1>6. Todo' = Todo \ {x}
  BY <1>2, <1>4 DEF Above
<1>7. x \in Todo
  BY <1>2
<1>8. \A z \in Released : Above(z, x)
  BY <1>7 DEF Order
<1>9. Order'
  BY <1>1, <1>2, <1>4, <1>5, <1>6, <1>8 DEF Order
<1> QED  BY <1>1, <1>5, <1>6, <1>7, <1>9 DEF x

LEMMA EndEffect ==
  ASSUME ScopeInv, Order, EndItem
  PROVE  /\ Order' /\ Todo' = Todo /\ Released' = Released
         /\ scope.pc = "running" /\ scope'.pc = "running"
         /\ scope'.cur = None /\ scope'.ran = scope.ran \cup {scope.cur}
<1>1. /\ scope'.todo = scope.todo /\ scope'.cur = None /\ scope'.ran = scope.ran \cup {scope.cur}
      /\ scope.pc = "running" /\ scope'.pc = "running" /\ scope.cur # None
  BY DEF ScopeInv, ScopeType, EndItem
<1>2. Todo' = Todo
  BY <1>1 DEF Todo
<1>3. Released' = Released
  BY <1>1 DEF Released
<1> QED  BY <1>1, <1>2, <1>3 DEF Order

\* openEndpoint: each of its steps registers what the next one relies on.
LEMMA SetupReleases ==
  ASSUME ChannelInv, ScopeInv, FailureInv, Flags, Releases, Setup
  PROVE  Releases'
<1> USE DEF Releases
<1>0. \A s \in Socket : sock[s].tcp \in {"none", "up", "destroyed", "gone"}
  BY DEF ChannelInv, SockType
<1>1. CASE Open
  <2>1. CASE setup' = "thrown" /\ UNCHANGED scope
    <3>1. Order' /\ Same /\ scope'.pc = scope.pc
      BY <2>1, SameScope
    <3>2. setup = "idle" /\ UNCHANGED <<aborted, transport, listening, sessionVars>>
      BY <1>1 DEF Open
    <3>3. scope.pc = "unused" /\ scope.todo = <<>> /\ Todo = {} /\ scope.cur = None
      BY <3>2 DEF ScopeInv, Order, Todo, Elements
    <3> QED  BY <2>1, <3>1, <3>2, <3>3 DEF Phases, Begun, Same, sessionVars
  <2>2. CASE setup' = "methods" /\ scope' = [scope EXCEPT !.pc = "open", !.todo = <<"admission">>]
    <3>1. /\ setup = "idle" /\ UNCHANGED <<aborted, transport, listening, sessionVars>>
      BY <1>1 DEF Open
    <3>2. /\ scope.pc = "unused" /\ Released = {} /\ close.pc = "none" /\ ~listening
          /\ transport = "none" /\ \A s \in Socket : sock[s].tcp = "none"
      BY <3>1 DEF ScopeInv, Order
    <3>3. /\ scope'.todo = <<"admission">> /\ scope'.pc = "open"
          /\ scope'.ran = scope.ran /\ scope'.cur = scope.cur
      BY <2>2 DEF ScopeInv, ScopeType
    <3>4. Released' = {} /\ Todo' = {"admission"} /\ scope.ran = {} /\ scope.cur = None
      BY <3>2, <3>3 DEF Released, Todo, Elements, ScopeInv
    <3>5. Order'
      BY <3>3, <3>4 DEF Order, Stack
    <3> QED  BY <2>2, <3>1, <3>2, <3>3, <3>4, <3>5 DEF Phases, Begun, sessionVars
  <2> QED  BY <1>1, <2>1, <2>2 DEF Open
<1>2. ASSUME Throws, setup \in {"methods", "transport", "listen"},
             transport' \in {transport, "none"}, transport' = "none" => transport \in {"none", "pending"},
             UNCHANGED <<aborted, listening, sessionVars>>
      PROVE  Releases'
  <2>1. Order' /\ Same /\ scope'.pc = "running" /\ setup' = "failing"
    BY <1>2, ClosingEffect DEF Throws, Phases
  <2> QED  BY <1>2, <2>1 DEF Phases, Begun, Same, sessionVars
<1>3. CASE GetMethods
  <2>1. CASE ~aborted /\ setup' = "transport" /\ transport' = "pending" /\ UNCHANGED scope
    <3>1. Order' /\ Same /\ scope'.pc = scope.pc
      BY <2>1, SameScope
    <3>2. setup = "methods" /\ UNCHANGED <<aborted, listening, sessionVars>>
      BY <1>3 DEF GetMethods
    <3> QED  BY <2>1, <3>1, <3>2 DEF Phases, Begun, Same, sessionVars
  <2> QED  BY <1>2, <1>3, <2>1 DEF GetMethods
<1>4. ASSUME NEW c \in AdapterCleanup, AdapterRegisters(c) PROVE Releases'
  <2>1. /\ transport = "pending" /\ scope.pc = "open" /\ Register(<<c>>)
        /\ c \notin Todo \cup Released
        /\ UNCHANGED <<setup, aborted, transport, listening, sessionVars>>
    BY <1>4 DEF AdapterRegisters, Registered, Todo, Elements, Released
  <2>2. c \in Item /\ c \notin {"admission", "transport", "server", "listener"} /\ Rank(c) = 4
    BY GatewayAssumption DEF Item, Rank
  <2>3. \A y \in Todo : Above(c, y)
    BY <2>1, <2>2 DEF Phases, Above, Rank
  <2>4. /\ Order' /\ Todo' = {c} \cup Todo /\ Released' = Released
        /\ scope'.pc = "open" /\ UNCHANGED <<scope.ran, scope.cur>>
    BY <2>1, <2>2, <2>3, RegisterEffect
  <2>5. setup # "thrown"
    BY <2>1 DEF Phases
  <2> QED  BY <2>1, <2>2, <2>4, <2>5 DEF Phases, Begun, sessionVars
<1>5. CASE TransportOpens
  <2>1. /\ setup = "transport" /\ transport = "pending" /\ transport' = "open" /\ setup' = "listen"
        /\ Register(<<"server", "transport">>) /\ UNCHANGED <<aborted, listening, sessionVars>>
    BY <1>5 DEF TransportOpens
  <2>2. scope.pc = "open" /\ \A y \in Todo : y \notin {"listener", "server", "transport"}
    BY <2>1 DEF Phases
  <2>3. /\ Order' /\ Todo' = {"server", "transport"} \cup Todo /\ Released' = Released
        /\ scope'.pc = "open" /\ UNCHANGED <<scope.ran, scope.cur>>
    BY <2>1, <2>2, RegisterTwoEffect
  <2> QED  BY <2>1, <2>2, <2>3 DEF Phases, Begun, sessionVars
<1>6. CASE TransportRefused
  <2>1. CASE setup = "transport"
    BY <1>2, <1>6, <2>1 DEF TransportRefused
  <2>2. CASE setup # "transport"
    <3>1. /\ transport = "pending" /\ transport' = "none"
          /\ UNCHANGED <<setup, scope, aborted, listening, sessionVars>>
      BY <1>6, <2>2 DEF TransportRefused
    <3>2. Order' /\ Same /\ scope'.pc = scope.pc
      BY <3>1, SameScope
    <3> QED  BY <2>2, <3>1, <3>2 DEF Phases, Begun, Same, sessionVars
  <2> QED  BY <2>1, <2>2
<1>7. CASE SetupAbandoned
  BY <1>2, <1>7 DEF SetupAbandoned, Phases
<1>8. CASE Listen
  <2>1. setup = "listen" /\ UNCHANGED <<aborted, transport, errs, late>>
    BY <1>8 DEF Listen
  <2>2. CASE Throws /\ UNCHANGED <<listening, sock, close>>
    BY <1>2, <2>1, <2>2 DEF sessionVars, Phases
  <2>3. CASE /\ listening' = TRUE /\ Register(<<"listener">>)
             /\ IF aborted THEN setup' = "closing" /\ CloseWith(sock)
                           ELSE setup' = "open" /\ UNCHANGED <<sock, close>>
    <3>1. /\ scope.pc = "open" /\ transport = "open" /\ "listener" \in Item
          /\ "transport" \in Todo /\ "server" \in Todo \cup Released /\ "listener" \notin Todo
      BY <2>1 DEF Phases, Item
    <3>2. Released = {} /\ "server" \in Todo
      BY <3>1 DEF Order
    <3>3. \A y \in Todo : Above("listener", y)
      BY <3>1 DEF Above, Rank
    <3>4. /\ Order' /\ Todo' = {"listener"} \cup Todo /\ Released' = Released
          /\ scope'.pc = "open" /\ UNCHANGED <<scope.ran, scope.cur>>
      BY <2>3, <3>1, <3>3, RegisterEffect
    <3>5. setup' \in {"open", "closing"} /\ (setup' = "open" => ~aborted)
      BY <2>3
    <3>6. scope'.ran = {}
      BY <3>2, <3>4 DEF Released
    <3> QED  BY <2>1, <2>3, <3>1, <3>2, <3>4, <3>5, <3>6 DEF Phases, Begun
  <2> QED  BY <1>8, <2>2, <2>3 DEF Listen
<1>9. CASE SetupFailed
  <2>1. /\ setup \in {"failing", "closing"} /\ setup' = "thrown"
        /\ UNCHANGED <<aborted, transport, listening, scope, sessionVars>>
    BY <1>9 DEF SetupFailed
  <2>2. scope.pc = "done"
    BY <1>9 DEF SetupFailed, FailureInv
  <2>3. scope.todo = <<>> /\ Todo = {} /\ scope.cur = None
    BY <2>2 DEF Order, Todo, Elements, ScopeInv
  <2>4. Order' /\ Same /\ scope'.pc = scope.pc
    BY <2>1, SameScope
  <2> QED  BY <2>1, <2>2, <2>3, <2>4 DEF Phases, Begun, Same, sessionVars
<1> QED
  BY <1>1, <1>3, <1>4, <1>5, <1>6, <1>7, <1>8, <1>9 DEF Setup

\* The scope takes the top of the stack off and waits for it.
LEMMA CleanupReleases ==
  ASSUME ScopeInv, Releases, StartItem \/ EndItem \/ ScopeClosed
  PROVE  Releases'
<1> USE DEF Releases
<1>1. CASE StartItem
  <2>1. /\ Order' /\ scope'.cur \in Todo
        /\ Todo' = Todo \ {scope'.cur} /\ Released' = Released \cup {scope'.cur}
        /\ scope'.pc = "running" /\ scope'.ran = scope.ran
    BY <1>1, StartEffect
  <2>2. /\ scope.pc = "running" /\ UNCHANGED <<setup, aborted, sessionVars>>
        /\ transport' = IF scope'.cur = "transport" THEN "closing" ELSE transport
        /\ listening' = (listening /\ scope'.cur # "server")
    BY <1>1, StartEffect DEF StartItem
  <2>3. setup \notin {"methods", "transport", "listen", "thrown"}
    BY <2>1, <2>2 DEF Phases
  <2> QED  BY <2>1, <2>2, <2>3 DEF Phases, Begun, sessionVars
<1>2. CASE EndItem
  <2>1. /\ Order' /\ Todo' = Todo /\ Released' = Released
        /\ scope.pc = "running" /\ scope'.pc = "running"
        /\ scope'.cur = None /\ scope'.ran = scope.ran \cup {scope.cur}
    BY <1>2, EndEffect
  <2>2. /\ UNCHANGED <<setup, aborted, listening, sessionVars>> /\ scope.cur # None
        /\ scope.cur = "server" => \A s \in Socket : sock[s].tcp \in {"none", "gone"}
        /\ scope.cur # "transport" => transport' = transport
        /\ scope.cur = "transport" => transport' \in {"failed", "closed"}
    BY <1>2 DEF EndItem
  <2>3. setup \notin {"methods", "transport", "listen", "thrown"}
    BY <2>1, <2>2 DEF Phases
  <2>4. scope.cur \in Released
    BY <2>2 DEF Released
  <2> QED  BY <2>1, <2>2, <2>3, <2>4 DEF Phases, Begun, sessionVars
<1>3. CASE ScopeClosed
  <2>1. /\ scope'.todo = scope.todo /\ scope'.cur = scope.cur /\ scope'.ran = scope.ran
        /\ scope'.pc = "done" /\ scope.pc = "running" /\ scope.todo = <<>>
        /\ UNCHANGED <<setup, aborted, transport, listening, sessionVars>>
    BY <1>3 DEF ScopeClosed, ScopeInv, ScopeType
  <2>2. Todo' = Todo /\ Released' = Released
    BY <2>1 DEF Todo, Released
  <2>3. Order'
    BY <2>1, <2>2 DEF Order
  <2> QED  BY <2>1, <2>2, <2>3 DEF Phases, Begun, sessionVars
<1> QED  BY <1>1, <1>2, <1>3

\* close() disconnects clients but makes none.
LEMMA CloseWithConnectsNobody ==
  ASSUME NEW sk \in [Socket -> SockType], CloseWith(sk)
  PROVE  /\ close'.pc # "none"
         /\ \A s \in Socket : sk[s].tcp \in {"none", "gone"} => sock'[s].tcp = sk[s].tcp
<1>1. ASSUME NEW k \in SockType, k.tcp \in {"none", "gone"} PROVE TearDown(k).tcp = k.tcp
  <2>1. CASE k.entry = "none"
    BY <2>1 DEF TearDown
  <2>2. CASE k.entry = "opening"
    BY <1>1, <2>2 DEF TearDown, Destroy, SockType
  <2>3. CASE k.entry = "channel"
    BY <1>1, <2>3 DEF TearDown, Track, Destroy, SockType
  <2> QED
    BY <2>1, <2>2, <2>3 DEF SockType
<1>2. CASE close.pc # "none"
  BY <1>2 DEF CloseWith
<1>3. CASE close.pc = "none"
  <2>1. sock' = [s \in Socket |-> TearDown(sk[s])] /\ close'.pc = "channels"
    BY <1>3 DEF CloseWith
  <2> QED
    BY <1>1, <2>1
<1> QED
  BY <1>2, <1>3

\* No socket is connected anew, and the session closes or not.
LEMMA SocketsOnly ==
  ASSUME Releases, UNCHANGED <<setup, transport, listening, scope>>,
         aborted' = aborted \/ close'.pc # "none" \/ setup # "open",
         close.pc # "none" => close'.pc # "none", close'.pc # "none" => Begun,
         \A s \in Socket : sock[s].tcp \in {"none", "gone"} => sock'[s].tcp = sock[s].tcp
  PROVE  Releases'
<1>1. Order' /\ Same /\ scope'.pc = scope.pc
  BY SameScope DEF Releases
<1> QED
  BY <1>1 DEF Releases, Phases, Begun, Same

LEMMA CloseReleases ==
  ASSUME ChannelInv, ScopeInv, Releases,
         OwnerCloses \/ Abort \/ CloseScope \/ CloseLateChannels \/ CloseSettled
  PROVE  Releases'
<1>0. sock \in [Socket -> SockType]
  BY DEF ChannelInv
<1>1. CASE OwnerCloses \/ Abort
  <2>1. CASE setup = "open" /\ CloseWith(sock)
    <3>1. UNCHANGED <<setup, transport, listening, scope>>
      BY <1>1 DEF OwnerCloses, Abort
    <3> QED
      BY <1>0, <2>1, <3>1, CloseWithConnectsNobody, SocketsOnly DEF Begun
  <2>2. CASE setup # "open" /\ UNCHANGED <<setup, transport, listening, scope, sock, close>>
    BY <2>2, SocketsOnly DEF Releases, Phases
  <2> QED
    BY <1>1, <2>1, <2>2 DEF OwnerCloses, Abort
<1>2. CASE CloseScope
  <2>1. /\ UNCHANGED <<setup, aborted, transport, listening, sock>>
        /\ scope' = Closing(scope) /\ close.pc # "none" /\ close'.pc # "none"
    BY <1>2 DEF CloseScope
  <2>2. /\ Order' /\ Same
        /\ scope'.pc = IF scope.pc = "open" THEN "running" ELSE scope.pc
    BY <2>1, ClosingEffect DEF Releases
  <2> QED
    BY <2>1, <2>2 DEF Releases, Phases, Begun, Same
<1>3. CASE CloseLateChannels \/ CloseSettled
  <2>1. /\ UNCHANGED <<setup, aborted, transport, listening, scope, sock>>
        /\ close.pc # "none" /\ close'.pc # "none"
    BY <1>3 DEF CloseLateChannels, CloseSettled
  <2> QED
    BY <2>1, SocketsOnly DEF Releases, Phases
<1> QED
  BY <1>1, <1>2, <1>3

LEMMA ConnectionReleases ==
  ASSUME ChannelInv, ScopeInv, Releases, NEW s \in Socket, Connection(s)
  PROVE  Releases'
<1>0. /\ sock \in [Socket -> SockType] /\ SockInv(sock[s])
      /\ UNCHANGED <<setup, aborted, transport, listening, scope>>
  BY DEF ChannelInv, Connection, Accept, SocketEnds, SocketClosed, ChannelOpens,
         ChannelRefused, ChannelCleaned
<1>1. CASE Accept(s)
  <2>1. Order' /\ Same /\ scope'.pc = scope.pc
    BY <1>0, SameScope DEF Releases
  <2>2. Begun /\ "server" \notin scope.ran
    BY <1>1 DEF Accept, Releases, Phases, Order, Released, Above
  <2>3. UNCHANGED close
    BY <1>1 DEF Accept
  <2> QED
    BY <1>0, <2>1, <2>2, <2>3 DEF Releases, Phases, Begun, Same
<1>2. ASSUME sock[s].tcp # "none" PROVE Begun
  BY <1>2 DEF Releases, Phases
<1>3. CASE SocketEnds(s) \/ SocketClosed(s) \/ ChannelOpens(s)
  <2>1. UNCHANGED close /\ (close.pc # "none" => Begun)
    BY <1>3 DEF SocketEnds, SocketClosed, ChannelOpens, Releases, Phases
  <2>2. \A q \in Socket : sock[q].tcp \in {"none", "gone"} => sock'[q].tcp = sock[q].tcp
    <3>1. CASE SocketEnds(s)
      BY <1>0, <3>1 DEF SocketEnds
    <3>2. CASE SocketClosed(s)
      BY <1>0, <3>2 DEF SocketClosed
    <3>3. CASE ChannelOpens(s)
      BY <1>0, <3>3 DEF ChannelOpens, Track, Destroy, SockType
    <3> QED
      BY <1>3, <3>1, <3>2, <3>3
  <2> QED
    BY <1>0, <2>1, <2>2, SocketsOnly
<1>4. ASSUME NEW sk \in [Socket -> SockType], CloseWith(sk) \/ (sock' = sk /\ UNCHANGED close),
             \A q \in Socket : sock[q].tcp \in {"none", "gone"} => sk[q].tcp = sock[q].tcp,
             sock[s].tcp # "none"
      PROVE  Releases'
  <2>1. \A q \in Socket : sock[q].tcp \in {"none", "gone"} => sock'[q].tcp = sock[q].tcp
    BY <1>4, CloseWithConnectsNobody
  <2>2. close.pc # "none" => close'.pc # "none"
    BY <1>4, CloseWithConnectsNobody
  <2> QED
    BY <1>0, <1>2, <1>4, <2>1, <2>2, SocketsOnly
<1>5. CASE ChannelRefused(s)
  <2> DEFINE sk == [sock EXCEPT ![s] = [Destroy(@) EXCEPT !.opening = FALSE, !.entry = "none"]]
  <2>1. /\ sk \in [Socket -> SockType]
        /\ \A q \in Socket : sock[q].tcp \in {"none", "gone"} => sk[q].tcp = sock[q].tcp
    BY <1>0, ZenonT(60) DEF Destroy, SockType
  <2>2. CloseWith(sk) \/ (sock' = sk /\ UNCHANGED close)
    BY <1>5 DEF ChannelRefused
  <2>3. sock[s].tcp # "none"
    BY <1>0, <1>5 DEF ChannelRefused, SockInv
  <2> HIDE DEF sk
  <2> QED
    BY <1>4, <2>1, <2>2, <2>3
<1>6. CASE ChannelCleaned(s)
  <2>1. sock[s].tcp # "none"
    BY <1>0, <1>6 DEF ChannelCleaned, SockInv
  <2>2. ASSUME NEW c \in {"closed", "failed"}
        PROVE  /\ [sock EXCEPT ![s].chan = c] \in [Socket -> SockType]
               /\ \A q \in Socket : [sock EXCEPT ![s].chan = c][q].tcp = sock[q].tcp
    BY <1>0 DEF SockType
  <2>3. CASE sock' = [sock EXCEPT ![s].chan = "closed"] /\ UNCHANGED close
    BY <1>4, <2>1, <2>2, <2>3
  <2>4. CASE CloseWith([sock EXCEPT ![s].chan = "failed"])
    BY <1>4, <2>1, <2>2, <2>4
  <2> QED
    BY <1>6, <2>3, <2>4 DEF ChannelCleaned
<1> QED
  BY <1>1, <1>3, <1>5, <1>6 DEF Connection

LEMMA ReleasesStep ==
  ChannelInv /\ ScopeInv /\ FailureInv /\ Flags /\ Releases /\ [Next]_vars => Releases'
<1> SUFFICES ASSUME ChannelInv, ScopeInv, FailureInv, Flags, Releases, [Next]_vars
             PROVE  Releases'
  OBVIOUS
<1>1. CASE LateTransport \/ LateTransportClosed
  <2>1. /\ UNCHANGED <<setup, aborted, listening, scope, sessionVars>>
        /\ setup' \notin {"idle", "methods", "transport", "listen"} \/ transport = "closing"
        /\ transport' \notin {"none", "pending", "open"}
    BY <1>1 DEF LateTransport, LateTransportClosed
  <2>2. Order' /\ Same /\ scope'.pc = scope.pc
    BY <2>1, SameScope DEF Releases
  <2> QED
    BY <2>1, <2>2 DEF Releases, Phases, Begun, Same, sessionVars
<1>2. CASE UNCHANGED vars
  <2>1. Order' /\ Same /\ scope'.pc = scope.pc
    BY <1>2, SameScope DEF Releases, vars
  <2> QED
    BY <1>2, <2>1 DEF Releases, Phases, Begun, Same, vars
<1> QED
  BY <1>1, <1>2, SetupReleases, CleanupReleases, CloseReleases, ConnectionReleases DEF Next

\* Of a setup that has thrown nothing is left, and nothing is released while
\* something still uses it, whatever the adapter registered and however the
\* transport, the clients and the deadline race.
THEOREM ReleasesInOrder == Spec => []ReleasesAreSound
<1>1. Init => Flags /\ Releases
  BY InitReleases DEF Init, Flags
<1>2. ChannelInv /\ ScopeInv /\ Releases => ReleasesAreSound
  <2> SUFFICES ASSUME ChannelInv, ScopeInv, Releases PROVE ReleasesAreSound
    OBVIOUS
  <2>1. Registered = Todo \cup Released
    BY DEF Registered, Todo, Elements, Released
  <2>2. \A x \in Released, y \in Todo : x # y /\ Rank(x) <= Rank(y)
    BY DEF Releases, Order, Above
  <2>3. SetupLeavesNothing
    BY DEF SetupLeavesNothing, Releases, Phases
  <2>4. ASSUME "transport" \in Released
        PROVE  ~listening /\ \A s \in Socket : sock[s].tcp \in {"none", "gone"} /\ sock[s].chan # "open"
    <3>1. "server" \in Released /\ ~listening
      BY <2>2, <2>4 DEF Rank, Releases, Phases
    <3>2. "server" \in scope.ran
      <4>1. CASE scope.cur = "server"
        BY <2>4, <4>1, GatewayAssumption DEF Released, Releases, Order, Above, Rank, Item
      <4> QED
        BY <3>1, <4>1 DEF Released
    <3>3. \A s \in Socket : sock[s].tcp \in {"none", "gone"}
      BY <3>2 DEF Releases, Phases
    <3> QED
      BY <3>1, <3>3 DEF ChannelInv, SockInv
  <2>5. ASSUME Released \cap AdapterCleanup # {}, "transport" \in Registered
        PROVE  "transport" \in scope.ran
    <3>1. PICK c \in AdapterCleanup : c \in Released
      BY <2>5
    <3>2. Rank(c) = 4 /\ c # "transport" /\ c # None
      BY GatewayAssumption DEF Rank, Item
    <3>3. "transport" \in Released
      BY <2>1, <2>2, <2>5, <3>1, <3>2 DEF Rank
    <3>4. scope.cur # "transport"
      BY <3>1, <3>2, GatewayAssumption DEF Released, Releases, Order, Above, Rank, Item
    <3> QED
      BY <3>3, <3>4 DEF Released
  <2>6. ASSUME "admission" \in Released PROVE Registered = Released
    <3>1. \A y \in Todo : FALSE
      <4> SUFFICES ASSUME NEW y \in Todo PROVE FALSE
        OBVIOUS
      <4> QED
        BY <2>2, <2>6 DEF Rank
    <3> QED
      BY <2>1, <3>1
  <2> QED
    BY <2>3, <2>4, <2>5, <2>6 DEF ReleasesAreSound, ReleasedInOrder, Released
<1> QED
  BY <1>1, <1>2, FlagsStep, Inductive, ReleasesStep, PTL DEF Spec
=============================================================================
