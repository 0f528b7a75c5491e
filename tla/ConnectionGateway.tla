------------------------- MODULE ConnectionGateway -------------------------
(***************************************************************************)
(* One tunnel: ConnectionGateway.openEndpoint, the LiveConnectionSession   *)
(* it returns, and the CleanupScope both release their resources through.  *)
(*                                                                         *)
(* An action is the code between two awaits together with the microtasks   *)
(* that follow it without any I/O.  The access adapter, its transport and  *)
(* the channels are external: they answer late, refuse, or fail to close;  *)
(* a channel that is being opened may never answer.                        *)
(***************************************************************************)
EXTENDS Naturals, Sequences, FiniteSets

CONSTANTS
  Socket,          \* connections that clients make to the local endpoint
  AdapterCleanup,  \* what an adapter may register with registerCleanup
  None             \* no cleanup

Item == {"admission", "transport", "server", "listener"} \cup AdapterCleanup

ASSUME GatewayAssumption ==
  /\ None \notin Item
  /\ AdapterCleanup \cap {"admission", "transport", "server", "listener"} = {}

VARIABLES
  setup,      \* where openEndpoint is
  aborted,    \* the caller's context.signal
  transport,  \* pendingTransport and what became of it
  listening,  \* the local server accepts connections
  scope,      \* CleanupScope; history: what it has run, and what failed
  sock,       \* the sockets, their entries in #connections, their channels
  close,      \* #closePromise and the cleanups it waits for
  errs,       \* #lifecycleErrors is not empty
  late        \* #lateCleanupFailure is set

vars == <<setup, aborted, transport, listening, scope, sock, close, errs, late>>
sessionVars == <<sock, close, errs, late>>

Init ==
  /\ setup = "idle" /\ aborted \in BOOLEAN
  /\ transport = "none" /\ listening = FALSE
  /\ scope = [pc |-> "unused", todo |-> <<>>, cur |-> None, ran |-> {}, failed |-> {}]
  /\ sock = [s \in Socket |-> [tcp |-> "none", entry |-> "none", opening |-> FALSE,
                               chan |-> "none", closes |-> 0]]
  /\ close = [pc |-> "none", wait |-> {}]
  /\ errs = FALSE /\ late = FALSE

(***************************************************************************)
(* CleanupScope                                                            *)
(***************************************************************************)
Registered == {scope.todo[n] : n \in DOMAIN scope.todo} \cup scope.ran
                \cup ({scope.cur} \ {None})

\* The last one registered is the first to run.
Register(items) == scope' = [scope EXCEPT !.todo = items \o @]

Closing(sc) == [sc EXCEPT !.pc = IF @ = "open" THEN "running" ELSE @]

\* Mutant: the cleanups run in the order of their registration.
StartItemInOrder ==
  /\ scope.pc = "running" /\ scope.cur = None /\ scope.todo # <<>>
  /\ LET item == scope.todo[Len(scope.todo)] IN
     /\ scope' = [scope EXCEPT !.cur = item, !.todo = SubSeq(@, 1, Len(@) - 1)]
     /\ transport' = IF item = "transport" THEN "closing" ELSE transport
     /\ listening' = (listening /\ item # "server")
  /\ UNCHANGED <<setup, aborted, sessionVars>>

StartItem ==
  /\ scope.pc = "running" /\ scope.cur = None /\ scope.todo # <<>>
  /\ LET item == Head(scope.todo) IN
     /\ scope' = [scope EXCEPT !.cur = item, !.todo = Tail(@)]
     /\ transport' = IF item = "transport" THEN "closing" ELSE transport
     /\ listening' = (listening /\ item # "server")
  /\ UNCHANGED <<setup, aborted, sessionVars>>

\* server.close() waits for the sockets; adapters and transports may fail.
EndItem ==
  /\ scope.cur # None
  /\ scope.cur = "server" => \A s \in Socket : sock[s].tcp \in {"none", "gone"}
  /\ \E fails \in IF scope.cur \in AdapterCleanup \cup {"transport"} THEN BOOLEAN ELSE {FALSE} :
       /\ scope' = [scope EXCEPT !.cur = None, !.ran = @ \cup {scope.cur},
                                 !.failed = IF fails THEN @ \cup {scope.cur} ELSE @]
       /\ transport' = IF scope.cur # "transport" THEN transport
                       ELSE IF fails THEN "failed" ELSE "closed"
  /\ UNCHANGED <<setup, aborted, listening, sessionVars>>

ScopeClosed ==
  /\ scope.pc = "running" /\ scope.cur = None /\ scope.todo = <<>>
  /\ scope' = [scope EXCEPT !.pc = "done"]
  /\ UNCHANGED <<setup, aborted, transport, listening, sessionVars>>

(***************************************************************************)
(* LiveConnectionSession.close                                             *)
(***************************************************************************)
Destroy(k) == [k EXCEPT !.tcp = IF @ = "up" THEN "destroyed" ELSE @]

\* #trackChannelCleanup; #pendingCleanups are the channels that are closing.
Track(k) == [k EXCEPT !.chan = "closing", !.closes = @ + 1]
Pending(sk) == {s \in Socket : sk[s].chan = "closing"}

\* What close() does to an entry of #connections.
TearDown(k) ==
  CASE k.entry = "none" -> k
    [] k.entry = "opening" -> [Destroy(k) EXCEPT !.entry = "none"]
    [] k.entry = "channel" -> [Track(Destroy(k)) EXCEPT !.entry = "none"]

\* this.close() after the sockets have become sk.
CloseWith(sk) ==
  IF close.pc # "none"
  THEN sock' = sk /\ UNCHANGED close
  ELSE LET torn == [s \in Socket |-> TearDown(sk[s])] IN
       sock' = torn /\ close' = [pc |-> "channels", wait |-> Pending(torn)]

OwnerCloses ==
  /\ setup = "open"
  /\ close.pc = "none" /\ CloseWith(sock)
  /\ UNCHANGED <<setup, aborted, transport, listening, scope, errs, late>>

Awaited == close.wait \cap Pending(sock) = {}

\* Mutant: close() also waits for the channels that are being opened.
CloseScopeAfterOpens ==
  /\ close.pc = "channels" /\ Awaited /\ \A s \in Socket : ~sock[s].opening
  /\ close' = [pc |-> "scope", wait |-> {}]
  /\ scope' = Closing(scope)
  /\ UNCHANGED <<setup, aborted, transport, listening, sock, errs, late>>

CloseScope ==
  /\ close.pc = "channels" /\ Awaited
  /\ close' = [pc |-> "scope", wait |-> {}]
  /\ scope' = Closing(scope)
  /\ UNCHANGED <<setup, aborted, transport, listening, sock, errs, late>>

\* Mutant: the errors of the cleanup scope are forgotten.
CloseLateForgetful ==
  /\ close.pc = "scope" /\ scope.pc = "done"
  /\ close' = [pc |-> "late", wait |-> Pending(sock)]
  /\ UNCHANGED <<setup, aborted, transport, listening, scope, sock, errs, late>>

CloseLateChannels ==
  /\ close.pc = "scope" /\ scope.pc = "done"
  /\ errs' = (errs \/ scope.failed # {})
  /\ close' = [pc |-> "late", wait |-> Pending(sock)]
  /\ UNCHANGED <<setup, aborted, transport, listening, scope, sock, late>>

CloseSettled ==
  /\ close.pc = "late" /\ Awaited
  /\ close' = [pc |-> IF errs THEN "rejected" ELSE "ok", wait |-> {}]
  /\ UNCHANGED <<setup, aborted, transport, listening, scope, sock, errs, late>>

(***************************************************************************)
(* openEndpoint                                                            *)
(***************************************************************************)
\* Rejected arguments, an unknown instance or an absent provider throw at once.
Open ==
  /\ setup = "idle"
  /\ \/ setup' = "thrown" /\ UNCHANGED scope
     \/ /\ ~aborted
        /\ setup' = "methods"
        /\ scope' = [scope EXCEPT !.pc = "open", !.todo = <<"admission">>]
  /\ UNCHANGED <<aborted, transport, listening, sessionVars>>

Throws == setup' = "failing" /\ scope' = Closing(scope)

\* getAccessMethods answers in time, and an adapter supports a method; or not.
GetMethods ==
  /\ setup = "methods"
  /\ \/ ~aborted /\ setup' = "transport" /\ transport' = "pending" /\ UNCHANGED scope
     \/ Throws /\ UNCHANGED transport
  /\ UNCHANGED <<aborted, listening, sessionVars>>

\* Once the scope closes, register throws into the adapter.
AdapterRegisters(c) ==
  /\ transport = "pending" /\ scope.pc = "open" /\ c \notin Registered
  /\ Register(<<c>>)
  /\ UNCHANGED <<setup, aborted, transport, listening, sessionVars>>

TransportOpens ==
  /\ setup = "transport" /\ transport = "pending" /\ ~aborted
  /\ transport' = "open" /\ Register(<<"server", "transport">>)
  /\ setup' = "listen"
  /\ UNCHANGED <<aborted, listening, sessionVars>>

\* The adapter rejects, in time or when nobody listens any more.
TransportRefused ==
  /\ transport = "pending"
  /\ transport' = "none"
  /\ IF setup = "transport" THEN Throws ELSE UNCHANGED <<setup, scope>>
  /\ UNCHANGED <<aborted, listening, sessionVars>>

\* The host's deadline passes or the caller aborts; the adapter goes on.
SetupAbandoned ==
  /\ setup = "transport"
  /\ Throws
  /\ UNCHANGED <<aborted, transport, listening, sessionVars>>

LateTransport ==
  /\ transport = "pending" /\ setup \in {"failing", "thrown"}
  /\ transport' = "closing"
  /\ UNCHANGED <<setup, aborted, listening, scope, sessionVars>>

LateTransportClosed ==
  /\ transport = "closing" /\ "transport" \notin Registered
  /\ transport' \in {"closed", "failed"}
  /\ UNCHANGED <<setup, aborted, listening, scope, sessionVars>>

Listen ==
  /\ setup = "listen"
  /\ \/ Throws /\ UNCHANGED <<listening, sock, close>>
     \/ /\ listening' = TRUE /\ Register(<<"listener">>)
        /\ IF aborted THEN setup' = "closing" /\ CloseWith(sock)
                      ELSE setup' = "open" /\ UNCHANGED <<sock, close>>
  /\ UNCHANGED <<aborted, transport, errs, late>>

SetupFailed ==
  /\ \/ setup = "failing" /\ scope.pc = "done"
     \/ setup = "closing" /\ close.pc \in {"ok", "rejected"}
  /\ setup' = "thrown"
  /\ UNCHANGED <<aborted, transport, listening, scope, sessionVars>>

\* onAbort closes the session that openEndpoint has returned.
Abort ==
  /\ ~aborted /\ aborted' = TRUE
  /\ IF setup = "open" THEN CloseWith(sock) ELSE UNCHANGED <<sock, close>>
  /\ UNCHANGED <<setup, transport, listening, scope, errs, late>>

(***************************************************************************)
(* The connections of a session                                            *)
(***************************************************************************)
Accept(s) ==
  /\ listening /\ sock[s].tcp = "none"
  /\ sock' = [sock EXCEPT ![s] =
                IF close.pc # "none" THEN [@ EXCEPT !.tcp = "destroyed"]
                ELSE [@ EXCEPT !.tcp = "up", !.entry = "opening", !.opening = TRUE]]
  /\ UNCHANGED <<setup, aborted, transport, listening, scope, close, errs, late>>

\* The client disconnects, or the stream of the channel ends or fails.
SocketEnds(s) ==
  /\ sock[s].tcp = "up"
  /\ sock' = [sock EXCEPT ![s] = Destroy(@)]
  /\ UNCHANGED <<setup, aborted, transport, listening, scope, close, errs, late>>

\* The socket's "close" event.
SocketClosed(s) ==
  /\ sock[s].tcp = "destroyed"
  /\ LET k == [sock[s] EXCEPT !.tcp = "gone"] IN
     sock' = [sock EXCEPT ![s] = [(IF k.entry = "channel" THEN Track(k) ELSE k)
                                   EXCEPT !.entry = "none"]]
  /\ UNCHANGED <<setup, aborted, transport, listening, scope, close, errs, late>>

\* Mutant: a client that has left meanwhile is not noticed.
ChannelOpensForNobody(s) ==
  /\ sock[s].opening
  /\ LET k == [sock[s] EXCEPT !.opening = FALSE, !.chan = "open"] IN
     sock' = [sock EXCEPT ![s] = IF close.pc = "none" THEN [k EXCEPT !.entry = "channel"]
                                 ELSE Track(Destroy(k))]
  /\ UNCHANGED <<setup, aborted, transport, listening, scope, close, errs, late>>

ChannelOpens(s) ==
  /\ sock[s].opening
  /\ LET k == [sock[s] EXCEPT !.opening = FALSE, !.chan = "open"]
         wanted == close.pc = "none" /\ k.tcp = "up" /\ k.entry = "opening"
     IN sock' = [sock EXCEPT ![s] = IF wanted THEN [k EXCEPT !.entry = "channel"]
                                    ELSE Track(Destroy(k))]
  /\ UNCHANGED <<setup, aborted, transport, listening, scope, close, errs, late>>

\* A failure nobody caused ends the session.
ChannelRefused(s) ==
  /\ sock[s].opening
  /\ LET fatal == close.pc = "none" /\ sock[s].tcp = "up" /\ sock[s].entry = "opening"
         sk == [sock EXCEPT ![s] = [Destroy(@) EXCEPT !.opening = FALSE, !.entry = "none"]]
     IN /\ errs' = (errs \/ fatal)
        /\ IF fatal THEN CloseWith(sk) ELSE sock' = sk /\ UNCHANGED close
  /\ UNCHANGED <<setup, aborted, transport, listening, scope, late>>

\* The cleanup of a channel ends; its failure closes the session, or is kept
\* for the next close() when that has already succeeded.
ChannelCleaned(s) ==
  /\ sock[s].chan = "closing"
  /\ \/ /\ sock' = [sock EXCEPT ![s].chan = "closed"]
        /\ UNCHANGED <<close, errs, late>>
     \/ /\ errs' = TRUE /\ late' = (late \/ close.pc = "ok")
        /\ CloseWith([sock EXCEPT ![s].chan = "failed"])
  /\ UNCHANGED <<setup, aborted, transport, listening, scope>>

-----------------------------------------------------------------------------
Connection(s) ==
  \/ Accept(s) \/ SocketEnds(s) \/ SocketClosed(s) \/ ChannelOpens(s)
  \/ ChannelRefused(s) \/ ChannelCleaned(s)

Setup ==
  \/ Open \/ GetMethods \/ (\E c \in AdapterCleanup : AdapterRegisters(c))
  \/ TransportOpens \/ TransportRefused \/ SetupAbandoned \/ Listen \/ SetupFailed

Next ==
  \/ Setup \/ Abort \/ LateTransport \/ LateTransportClosed
  \/ OwnerCloses \/ CloseScope \/ CloseLateChannels \/ CloseSettled
  \/ StartItem \/ EndItem \/ ScopeClosed
  \/ \E s \in Socket : Connection(s)

\* HostOperationRunner bounds the setup; cleanups end and closed sockets are
\* noticed.  Whether clients connect or channels open is up to others.
Fairness ==
  /\ WF_vars(GetMethods) /\ WF_vars(SetupAbandoned) /\ WF_vars(Listen) /\ WF_vars(SetupFailed)
  /\ WF_vars(CloseScope) /\ WF_vars(CloseLateChannels) /\ WF_vars(CloseSettled)
  /\ WF_vars(StartItem) /\ WF_vars(EndItem) /\ WF_vars(ScopeClosed)
  /\ \A s \in Socket : WF_vars(SocketClosed(s)) /\ WF_vars(ChannelCleaned(s))

Spec == Init /\ [][Next]_vars
FairSpec == Spec /\ Fairness

-----------------------------------------------------------------------------
(***************************************************************************)
(* Properties                                                              *)
(***************************************************************************)
TypeOK ==
  /\ setup \in {"idle", "methods", "transport", "listen", "open", "failing", "closing", "thrown"}
  /\ transport \in {"none", "pending", "open", "closing", "closed", "failed"}
  /\ {aborted, listening, errs, late} \subseteq BOOLEAN
  /\ scope \in [pc : {"unused", "open", "running", "done"}, todo : Seq(Item),
                cur : Item \cup {None}, ran : SUBSET Item, failed : SUBSET Item]
  /\ sock \in [Socket -> [tcp : {"none", "up", "destroyed", "gone"},
                          entry : {"none", "opening", "channel"}, opening : BOOLEAN,
                          chan : {"none", "open", "closing", "closed", "failed"},
                          closes : 0 .. 2]]
  /\ \A s \in Socket : sock[s].entry = "channel" => sock[s].chan = "open"
  /\ close \in [pc : {"none", "channels", "scope", "late", "ok", "rejected"},
                wait : SUBSET Socket]

\* However a channel that opens late, its client, the end of its stream and the
\* closing of the session race: a channel is closed exactly once, and one that
\* is still open belongs to a connection of a session that is not closing.
ChannelsAreClosed ==
  \A s \in Socket :
    /\ sock[s].closes <= 1
    /\ sock[s].chan = "open" =>
         close.pc = "none" /\ sock[s].entry = "channel" /\ sock[s].tcp # "gone"
    /\ sock[s].chan \in {"closing", "closed", "failed"} => sock[s].closes = 1

\* When openEndpoint has thrown, nothing of the attempt is left: everything that
\* was registered has run, nobody listens, and no transport is open, also one
\* that the adapter delivers after the deadline.  A returned session of an
\* aborted caller is being closed.
SetupLeavesNothing ==
  /\ setup = "thrown" =>
       scope.todo = <<>> /\ scope.cur = None /\ ~listening /\ transport # "open"
  /\ setup = "open" /\ aborted => close.pc # "none"

\* Nothing is released while something still uses it: the transport only
\* when nobody listens, no client is connected and no channel is open; what the
\* adapter registered after the transport; the provider's admission last.
ReleasedInOrder ==
  LET released == scope.ran \cup ({scope.cur} \ {None}) IN
  /\ "transport" \in released =>
       /\ ~listening
       /\ \A s \in Socket : sock[s].tcp \in {"none", "gone"} /\ sock[s].chan # "open"
  /\ (released \cap AdapterCleanup # {} /\ "transport" \in Registered) =>
       "transport" \in scope.ran
  /\ "admission" \in released => Registered = released

\* A setup that fails is undone, and whatever is released is released after its users.
ReleasesAreSound == SetupLeavesNothing /\ ReleasedInOrder

\* A close() that succeeded means that every cleanup did; the failure of a channel
\* that opened too late for it is reported by the next close().
FailureIsReported ==
  close.pc = "ok" =>
    /\ scope.failed = {}
    /\ \A s \in Socket : sock[s].chan = "failed" => late

\* close() settles although channels may never finish opening, and so does
\* openEndpoint.
CloseSettles ==
  /\ (close.pc = "channels") ~> (close.pc \in {"ok", "rejected"})
  /\ (setup = "methods") ~> (setup \in {"open", "thrown"})

=============================================================================
