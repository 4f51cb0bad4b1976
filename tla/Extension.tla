------------------------------ MODULE Extension ------------------------------
(***************************************************************************)
(* Grants in the extension: the service worker's stored state and bridges  *)
(* (apps/extension/src/service-worker.ts, content-bridge.ts), composed     *)
(* with the promises of LeaseAuthority for the broker at the other end of  *)
(* its native port.  The exchange that authenticates a port is one call    *)
(* here; Pairing is about it.                                              *)
(*                                                                         *)
(* Chrome calls the worker's handlers without waiting for one another: a   *)
(* running handler is a task, a stack of frames.  An action runs one task  *)
(* from the end of an await through the effect of the call it awaits next, *)
(* so what a handler read from chrome.storage.session may be stale when it *)
(* writes.  Awaits without an effect on this state (badge, titles) are     *)
(* left out, and a broadcastState takes its read with the write before it. *)
(*                                                                         *)
(* The broker never sends broker.killed, so its handler is left out.       *)
(***************************************************************************)
EXTENDS LeaseAuthority, Sequences, SequencesExt

CONSTANTS
  Tasks,         \* handlers that run at the same time
  Tabs,          \* tabs of the browser
  Requests,      \* access requests
  Urls,          \* grantable urls, one per origin
  PendingShown,  \* requests kept for the popup: 10
  MaxHandlers,   \* bound: handlers started
  MaxEvents,     \* bound: navigations, failures, expiries and ends at the broker
  MaxPorts,      \* bound: native ports opened
  MaxDocs        \* bound: document ids made by bridges

\* None is no member of the pools.
ASSUME ExtensionAssumption ==
  /\ None \notin Tasks \cup Tabs \cup Requests \cup Leases \cup Commands \cup Urls
  /\ IsFiniteSet(Requests)
  /\ PendingShown \in Nat \ {0} /\ MaxHandlers \in Nat
  /\ MaxEvents \in Nat /\ MaxPorts \in Nat /\ MaxDocs \in Nat

VARIABLES
  awake,            \* the worker has been started and not been stopped since
  task,             \* task[t]: the frames of a running handler, the active one first
  started,          \* handlers started so far
  happened,         \* events of the environment so far, of those MaxEvents bounds
  storage,          \* chrome.storage.session: StoredState
  nativePort,       \* nativePort, by number; 0 is undefined
  lastPort,         \* the ports opened so far
  portState,        \* of nativePort: open, lost at the other end, or closed by the worker
  authenticated,    \* authenticatedNativePort
  brokerConnected,
  authQueue,        \* browserAuthenticationQueue: the head is running
  reconnectTimer,
  expiryTimer,      \* the lease expiryTimer is set for
  dueRevokes,       \* leases that a started navigation is about to revoke
  page,             \* page[tab]: its url, and the document id of its bridge or 0
  lastDoc,          \* the document ids made so far
  tabEvents,        \* tabs whose onUpdated or onRemoved event is not handled yet
  toExt, toBroker,  \* messages on nativePort, oldest first
  admitted,         \* this connection has a browser's authority
  joined,           \* and has registered the instance
  registered,       \* browsers has an entry for the instance
  closing,          \* registered connections that ended, which the broker has not seen
  asked,            \* asked[r]: unused, pending or closed
  granted,          \* granted[l]: what the user agreed to
  answering,        \* access.grant calls whose audit record is being written
  expired,          \* requests and leases whose expiresAt has passed
  torn,             \* leases whose bridge the worker has torn down
  effect            \* effect[k]: by whom call k acted on a tab, and the bridge's document there

handlers == <<task, started>>
ports == <<nativePort, lastPort, portState>>
session == <<authenticated, brokerConnected, authQueue>>
timers == <<reconnectTimer, expiryTimer, dueRevokes>>
worker == <<awake, ports, session, timers>>
browser == <<page, lastDoc, tabEvents>>
wire == <<toExt, toBroker>>
connection == <<admitted, joined, registered, closing>>
broker == <<authority, connection, asked, granted, answering>>
history == <<torn, effect>>
vars == <<worker, handlers, happened, storage, browser, wire, broker, expired, history>>

-----------------------------------------------------------------------------
(* Records *)

StoredState == [pending: Seq(Requests), grant: Leases \cup {None}]
EmptyState == [pending |-> <<>>, grant |-> None]

Consent ==
  [request: Requests \cup {None}, tab: Tabs \cup {None}, doc: Nat, url: Urls \cup {None}]
NoConsent == [request |-> None, tab |-> None, doc |-> 0, url |-> None]

\* What a call has done: the bridge carried it out, or the worker navigated the tab.  Document
\* 0 is one without a bridge.
Effect == [by: {"nobody", "bridge", "worker"}, doc: 0..MaxDocs]
NoEffect == [by |-> "nobody", doc |-> 0]

\* One frame of a handler: where it is, and its local variables.
Idle == [at |-> "end", lease |-> None, notify |-> FALSE, saw |-> EmptyState,
         request |-> None, tab |-> None, doc |-> 0, url |-> None, command |-> None,
         port |-> 0, pairing |-> FALSE]

Labels ==
  {"prune.write", "revoke.read", "revoke.teardown", "revoke.write", "revoke.notify",
   "init.connect", "auth.turn", "auth.wait", "register.send", "register.wait", "register.write",
   "register.close", "lost.reconnect", "requested.write",
   "execute.check", "execute.identify", "execute.send", "execute.fail",
   "grant.find", "grant.inject", "grant.verify", "grant.wait", "grant.recheck",
   "grant.write", "grant.teardown", "grant.revoke", "popup.state"}

Frame ==
  [at: Labels, lease: Leases \cup {None}, notify: BOOLEAN, saw: StoredState,
   request: Requests \cup {None}, tab: Tabs \cup {None}, doc: Nat, url: Urls \cup {None},
   command: Commands \cup {None}, port: 0..MaxPorts, pairing: BOOLEAN]

TypeOK ==
  /\ awake \in BOOLEAN /\ brokerConnected \in BOOLEAN /\ started \in 0..MaxHandlers
  /\ happened \in 0..MaxEvents
  /\ task \in [Tasks -> Seq(Frame)]
  /\ storage \in StoredState
  /\ nativePort \in 0..MaxPorts /\ lastPort \in 0..MaxPorts /\ authenticated \in 0..MaxPorts
  /\ portState \in {"open", "lost", "closed"} /\ authQueue \in Seq(Tasks)
  /\ reconnectTimer \in BOOLEAN
  /\ expiryTimer \in Leases \cup {None} /\ dueRevokes \subseteq Leases
  /\ page \in [Tabs -> [url: Urls \cup {None}, bridge: 0..MaxDocs]]
  /\ lastDoc \in 0..MaxDocs /\ tabEvents \subseteq Tabs
  /\ standing \in [Leases -> {"unissued", "live", "over"}]
  /\ under \in [Commands -> Leases \cup {None}]
  /\ outcome \in [Commands -> {"idle", "running", "result", "error"}]
  /\ admitted \in BOOLEAN /\ joined \in BOOLEAN /\ registered \in BOOLEAN
  /\ closing \in 0..MaxPorts
  /\ asked \in [Requests -> {"unused", "pending", "closed"}]
  /\ granted \in [Leases -> Consent]
  /\ \A a \in answering : a.lease \in Leases /\ a.to \in Tasks \cup {None}
  /\ expired \subseteq Requests \cup Leases
  /\ torn \subseteq Leases /\ effect \in [Commands -> Effect]

Init ==
  /\ AuthorityInit
  /\ awake = FALSE /\ task = [t \in Tasks |-> <<>>] /\ started = 0 /\ happened = 0
  /\ storage = EmptyState
  /\ nativePort = 0 /\ lastPort = 0 /\ portState = "closed"
  /\ authenticated = 0 /\ brokerConnected = FALSE /\ authQueue = <<>>
  /\ reconnectTimer = FALSE /\ expiryTimer = None /\ dueRevokes = {}
  /\ page \in [Tabs -> [url: Urls, bridge: {0}]] /\ lastDoc = 0 /\ tabEvents = {}
  /\ toExt = <<>> /\ toBroker = <<>>
  /\ admitted = FALSE /\ joined = FALSE /\ registered = FALSE /\ closing = 0
  /\ asked = [r \in Requests |-> "unused"]
  /\ granted = [l \in Leases |-> NoConsent] /\ answering = {}
  /\ expired = {} /\ torn = {} /\ effect = [k \in Commands |-> NoEffect]

-----------------------------------------------------------------------------
(* Tasks *)

Top(t) == Head(task[t])
Rest(t) == Tail(task[t])
At(t, label) == task[t] # <<>> /\ Top(t).at = label
Free(t) == awake /\ task[t] = <<>> /\ started < MaxHandlers

\* A handler that has nothing to do ends at once.
Begin(t, frames) ==
  /\ task' = [task EXCEPT ![t] = frames]
  /\ started' = IF frames = <<>> THEN started ELSE started + 1
Continue(t, frames) == task' = [task EXCEPT ![t] = frames] /\ UNCHANGED started
Goto(t, label) == Continue(t, <<[Top(t) EXCEPT !.at = label]>> \o Rest(t))
Return(t) == Continue(t, Rest(t))

\* An exception that no frame catches.
Throw(t) == Continue(t, <<>>)

\* Mutant: the broker is not told.
RevokeSilently(l, notify) == [Idle EXCEPT !.at = "revoke.read", !.lease = l]

\* revokeGrant(l, _, notify) as a frame.
Revoke(l, notify) == [Idle EXCEPT !.at = "revoke.read", !.lease = l, !.notify = notify]

\* pruneExpiredState returns s to the frame below, or broadcastState drops it.
UsesState == {"init.connect", "requested.write", "execute.check", "grant.find"}
Returned(s, rest) ==
  IF rest # <<>> /\ Head(rest).at \in UsesState
  THEN <<[Head(rest) EXCEPT !.saw = s]>> \o Tail(rest) ELSE rest

\* The elements of s that are in S, in their order (Array.filter).
Filtered(s, S) ==
  LET kept == {i \in DOMAIN s : s[i] \in S} IN
  [n \in 1..Cardinality(kept) |->
     s[CHOOSE i \in kept : Cardinality({j \in kept : j < i}) = n - 1]]

Unexpired(pending) == Filtered(pending, Requests \ expired)

\* pruneExpiredState has read s.  An expired grant is revoked first; what is written in
\* the end is what was read, without what has expired.
Pruned(s, rest) ==
  LET live == Unexpired(s.pending)
      write(grant) == [Idle EXCEPT !.at = "prune.write",
                                   !.saw = [pending |-> live, grant |-> grant]] IN
  IF s.grant \in expired THEN <<Revoke(s.grant, TRUE), write(None)>> \o rest
  ELSE IF live # s.pending THEN <<write(s.grant)>> \o rest
  ELSE Returned(s, rest)

\* The messages on the native port.  What is posted on a port that the other end has lost,
\* or that is not the current one, goes nowhere.
Message(m, to) == [m |-> m, to |-> to, request |-> None, lease |-> None, tab |-> None,
                   doc |-> 0, url |-> None, command |-> None, ok |-> FALSE]
PortOpen == nativePort # 0 /\ portState = "open"
Posted(p, message) ==
  IF PortOpen /\ nativePort = p THEN Append(toBroker, message) ELSE toBroker

\* access.revoke, whose answer nobody awaits.
TellRevoked(l) == Posted(nativePort, [Message("revoke", None) EXCEPT !.lease = l])

\* The worker takes the next message, also from a port that the other end has lost.
Receives(m) ==
  awake /\ nativePort # 0 /\ portState # "closed" /\ toExt # <<>> /\ Head(toExt).m = m
Taken == toExt' = Tail(toExt)

-----------------------------------------------------------------------------
(* pruneExpiredState, revokeGrant *)

PruneWrite(t) ==
  /\ At(t, "prune.write")
  /\ storage' = Top(t).saw
  /\ Continue(t, Returned(Top(t).saw, Rest(t)))
  /\ UNCHANGED <<worker, browser, wire, broker, expired, history>>

\* revokeGrant does nothing unless the stored grant is the lease it names.
RevokeRead(t) ==
  /\ At(t, "revoke.read")
  /\ IF storage.grant = Top(t).lease
     THEN Continue(t, <<[Top(t) EXCEPT !.at = "revoke.teardown", !.saw = storage]>> \o Rest(t))
     ELSE Return(t)
  /\ UNCHANGED <<worker, storage, browser, wire, broker, expired, history>>

\* bridge.teardown reaches the bridge of document d, or finds it gone.
TornDown(tab, d) == [page EXCEPT ![tab].bridge = IF @ = d THEN 0 ELSE @]

RevokeTeardown(t) ==
  LET l == Top(t).lease IN
  /\ At(t, "revoke.teardown")
  /\ page' = TornDown(granted[l].tab, granted[l].doc)
  /\ torn' = torn \cup {l}
  /\ Goto(t, "revoke.write")
  /\ UNCHANGED <<worker, storage, lastDoc, tabEvents, wire, broker, expired, effect>>

\* The timer is cleared, the state is written as it was read but for the grant, it is
\* broadcast, and the broker is told.
RevokeWrite(t) ==
  LET f == Top(t)
      written == [f.saw EXCEPT !.grant = None]
      last == [Idle EXCEPT !.at = "revoke.notify", !.lease = f.lease, !.notify = f.notify]
      next == Pruned(written, <<last>> \o Rest(t)) IN
  /\ At(t, "revoke.write")
  /\ expiryTimer' = None
  /\ storage' = written
  /\ IF Head(next) = last
     THEN toBroker' = (IF f.notify THEN TellRevoked(f.lease) ELSE toBroker) /\ Return(t)
     ELSE UNCHANGED toBroker /\ Continue(t, next)
  /\ UNCHANGED <<awake, ports, session, reconnectTimer, dueRevokes, browser, toExt, broker,
                 expired, history>>

\* The same notification when the broadcast had something to prune.
RevokeNotify(t) ==
  /\ At(t, "revoke.notify")
  /\ toBroker' = IF Top(t).notify THEN TellRevoked(Top(t).lease) ELSE toBroker
  /\ Return(t)
  /\ UNCHANGED <<worker, storage, browser, toExt, broker, expired, history>>

-----------------------------------------------------------------------------
(* The native port: initialize, connectNative, registerBrowser, handleNativeDisconnect *)

\* authenticateBrowser and pairBrowser run one after the other.
Authenticate(p, pairing) ==
  [Idle EXCEPT !.at = "auth.turn", !.port = p, !.pairing = pairing]

\* The popupState that a message of the popup ends with, unless it fails.
AnswerPopup == [Idle EXCEPT !.at = "popup.state"]

\* registerAuthenticatedBrowser(p)
Register(p) == [Idle EXCEPT !.at = "register.send", !.port = p]

\* connectNative, without a port: the registration runs in a task of its own, here the
\* one that connects.
Connect(t) ==
  /\ lastPort < MaxPorts
  /\ lastPort' = lastPort + 1 /\ nativePort' = lastPort + 1 /\ portState' = "open"
  /\ brokerConnected' = FALSE /\ reconnectTimer' = FALSE
  /\ authQueue' = Append(authQueue, t)
  /\ admitted' = FALSE /\ joined' = FALSE

\* The catch block: Chrome gives no port, and another attempt is scheduled.
ConnectFails ==
  /\ brokerConnected' = FALSE /\ reconnectTimer' = TRUE
  /\ UNCHANGED <<ports, authQueue, admitted, joined>>

\* initialize: Chrome starts the worker.
Initialize(t) ==
  /\ ~awake /\ started < MaxHandlers
  /\ awake' = TRUE
  /\ Begin(t, Pruned(storage, <<[Idle EXCEPT !.at = "init.connect"]>>))
  /\ UNCHANGED <<ports, session, timers, storage, browser, wire, broker, expired, history>>

InitializeConnect(t) ==
  /\ At(t, "init.connect")
  /\ expiryTimer' = Top(t).saw.grant
  /\ \/ nativePort = 0 /\ Connect(t) /\ Continue(t, <<Authenticate(lastPort + 1, FALSE)>>)
     \/ nativePort = 0 /\ ConnectFails /\ Return(t)
     \/ /\ nativePort # 0 /\ Return(t)
        /\ UNCHANGED <<ports, brokerConnected, reconnectTimer, authQueue, admitted, joined>>
  /\ UNCHANGED <<awake, authenticated, dueRevokes, storage, browser, wire, authority,
                 registered, closing, asked, granted, answering, expired, history>>

\* The timer of scheduleReconnect, or popup.reconnect without a port, whose popupState
\* runs beside the registration and is a PopupOpens.
Reconnect(t) ==
  /\ Free(t) /\ nativePort = 0
  /\ \/ Connect(t) /\ Begin(t, <<Authenticate(lastPort + 1, FALSE)>>)
     \/ ConnectFails /\ Begin(t, <<>>)
  /\ UNCHANGED <<awake, authenticated, expiryTimer, dueRevokes, storage, browser, wire,
                 authority, registered, closing, asked, granted, answering, expired, history>>

\* The timer fires, and there is a port by now: connectNative leaves that one alone.
ReconnectTimerIdle ==
  /\ awake /\ reconnectTimer /\ nativePort # 0
  /\ reconnectTimer' = FALSE
  /\ UNCHANGED <<awake, ports, session, expiryTimer, dueRevokes, handlers, storage, browser,
                 wire, broker, expired, history>>

\* popup.reconnect and popup.pair on a port; once it is authenticated the two are the same.
RegisterAgain(t, pairing) ==
  /\ Free(t) /\ nativePort # 0
  /\ pairing => authenticated # nativePort
  /\ authQueue' = Append(authQueue, t)
  /\ Begin(t, <<Authenticate(nativePort, pairing), AnswerPopup>>)
  /\ UNCHANGED <<awake, ports, authenticated, brokerConnected, timers, storage, browser, wire,
                 broker, expired, history>>

\* Nothing is done on a port that has been authenticated.  start, pair and complete are
\* one exchange here.
AuthTurn(t) ==
  LET p == Top(t).port IN
  /\ At(t, "auth.turn") /\ Head(authQueue) = t
  /\ IF authenticated = p
     THEN /\ authQueue' = Tail(authQueue)
          /\ Continue(t, <<Register(p)>> \o Rest(t)) /\ UNCHANGED toBroker
     ELSE toBroker' = Posted(p, Message("auth", t)) /\ Goto(t, "auth.wait") /\ UNCHANGED authQueue
  /\ UNCHANGED <<awake, ports, authenticated, brokerConnected, timers, storage, browser, toExt,
                 broker, expired, history>>

\* An unpaired browser is told so and waits for popup.pair, which broadcasts in any case.
AuthAnswered(t) ==
  LET f == Top(t)
      registers == <<Register(f.port)>> \o Rest(t) IN
  /\ At(t, "auth.wait") /\ Receives("auth") /\ Head(toExt).to = t /\ Taken
  /\ authQueue' = Tail(authQueue)
  /\ \/ /\ Head(toExt).ok
        /\ authenticated' = f.port
        /\ Continue(t, IF f.pairing THEN Pruned(storage, registers) ELSE registers)
     \/ /\ ~Head(toExt).ok
        /\ UNCHANGED authenticated
        /\ Continue(t, Pruned(storage, IF f.pairing THEN <<>> ELSE Rest(t)))
  /\ UNCHANGED <<awake, ports, brokerConnected, timers, storage, browser, toBroker, broker,
                 expired, history>>

\* browser.register and access.pending.list are one exchange here.
RegisterSend(t) ==
  /\ At(t, "register.send")
  /\ toBroker' = Posted(Top(t).port, Message("register", t))
  /\ Goto(t, "register.wait")
  /\ UNCHANGED <<worker, storage, browser, toExt, broker, expired, history>>

\* The broker's list is merged into the state read after it.
RegisterAnswered(t) ==
  /\ At(t, "register.wait") /\ Receives("register") /\ Head(toExt).to = t /\ Taken
  /\ brokerConnected' = TRUE
  /\ Continue(t, <<[Top(t) EXCEPT !.at = "register.write",
                       !.saw = [pending |-> Head(toExt).list, grant |-> storage.grant]]>>
                   \o Rest(t))
  /\ UNCHANGED <<awake, ports, authenticated, authQueue, timers, storage, browser, toBroker,
                 broker, expired, history>>

RegisterWrite(t) ==
  /\ At(t, "register.write")
  /\ storage' = Top(t).saw
  /\ Continue(t, Pruned(Top(t).saw, Rest(t)))
  /\ UNCHANGED <<worker, browser, wire, broker, expired, history>>

\* Mutant: an operation that fails is not followed by the next one.
AfterFailureBlocked(f) == authQueue

\* The queue goes on after an operation that failed, too.
AfterFailure(f) == IF f.at = "auth.wait" THEN Tail(authQueue) ELSE authQueue

\* A call that is awaited ends without an answer it accepts: 15 s have passed (70 s for
\* pairing), the port was lost, or the broker refused.  A registration then closes its
\* port, if that is the current one; a pairing tells the popup; a grant is undone.  An
\* answer still on its way will find nobody.
RpcFails(t) ==
  LET f == Top(t)
      orphaned(s) == Filtered(s, {m \in Range(s) : m.to # t})
      registering == f.at = "register.wait" \/ (f.at = "auth.wait" /\ ~f.pairing)
      closes == registering /\ nativePort = f.port IN
  /\ task[t] # <<>> /\ f.at \in {"auth.wait", "register.wait", "grant.wait"}
  /\ \/ f.at = "grant.wait" /\ Goto(t, "grant.teardown")
     \/ closes /\ Continue(t, Pruned(storage, <<[f EXCEPT !.at = "register.close"]>> \o Rest(t)))
     \/ registering /\ ~closes /\ Return(t)
     \/ f.at = "auth.wait" /\ f.pairing /\ Continue(t, Pruned(storage, <<>>))
  /\ brokerConnected' = (brokerConnected /\ ~closes)
  /\ authQueue' = AfterFailure(f)
  /\ toExt' = orphaned(toExt)
  /\ toBroker' = [i \in DOMAIN toBroker |->
       IF toBroker[i].to = t THEN [toBroker[i] EXCEPT !.to = None] ELSE toBroker[i]]
  /\ answering' = {[a EXCEPT !.to = IF @ = t THEN None ELSE @] : a \in answering}
  /\ UNCHANGED <<awake, ports, authenticated, timers, storage, browser, authority, connection,
                 asked, granted, expired, history>>

\* What the broker's end of an open port has coming.
PortEnds ==
  /\ closing' = IF PortOpen /\ joined THEN closing + 1 ELSE closing
  /\ toBroker' = <<>> /\ answering' = {}
  /\ UNCHANGED <<authority, admitted, joined, registered, asked, granted>>

\* port.disconnect().  Chrome calls onDisconnect at the other end only.
RegisterClose(t) ==
  LET closes == nativePort = Top(t).port IN
  /\ At(t, "register.close")
  /\ IF closes THEN PortEnds /\ portState' = "closed" /\ toExt' = <<>>
     ELSE UNCHANGED <<portState, wire, broker>>
  /\ Return(t)
  /\ UNCHANGED <<awake, nativePort, lastPort, session, timers, storage, browser, expired,
                 history>>

\* The native host or the broker goes away; what the worker has sent may be lost.
PortLost ==
  /\ PortOpen
  /\ PortEnds /\ portState' = "lost"
  /\ UNCHANGED <<awake, nativePort, lastPort, session, timers, handlers, storage, browser,
                 toExt, expired, history>>

\* Mutant: the reconnection is scheduled only when there is no grant to revoke.
AfterLossRevoked(s) ==
  IF s.grant # None THEN <<Revoke(s.grant, FALSE)>>
  ELSE Pruned(s, <<[Idle EXCEPT !.at = "lost.reconnect"]>>)

\* The grant is revoked, without telling the broker, or the state broadcast; then a
\* reconnection is scheduled.
AfterLoss(s) ==
  LET reconnect == <<[Idle EXCEPT !.at = "lost.reconnect"]>> IN
  IF s.grant # None THEN <<Revoke(s.grant, FALSE)>> \o reconnect ELSE Pruned(s, reconnect)

\* handleNativeDisconnect.  RpcFails is what its rejectPendingRpc causes.
PortLossSeen(t) ==
  /\ Free(t) /\ nativePort # 0 /\ portState = "lost"
  /\ nativePort' = 0
  /\ authenticated' = IF authenticated = nativePort THEN 0 ELSE authenticated
  /\ brokerConnected' = FALSE
  /\ toExt' = <<>>
  /\ Begin(t, AfterLoss(storage))
  /\ UNCHANGED <<awake, lastPort, portState, authQueue, timers, storage, browser, toBroker,
                 broker, expired, history>>

LostReconnect(t) ==
  /\ At(t, "lost.reconnect")
  /\ reconnectTimer' = TRUE
  /\ Return(t)
  /\ UNCHANGED <<awake, ports, session, expiryTimer, dueRevokes, storage, browser, wire, broker,
                 expired, history>>

\* Chrome stops the worker, and its port with it: its memory is gone, and storage and
\* pages stay.
WorkerStops ==
  /\ awake
  /\ awake' = FALSE /\ task' = [t \in Tasks |-> <<>>] /\ UNCHANGED started
  /\ nativePort' = 0 /\ portState' = "closed"
  /\ authenticated' = 0 /\ brokerConnected' = FALSE /\ authQueue' = <<>>
  /\ reconnectTimer' = FALSE /\ expiryTimer' = None /\ dueRevokes' = {}
  /\ PortEnds /\ toExt' = <<>>
  /\ UNCHANGED <<lastPort, storage, browser, expired, history>>

-----------------------------------------------------------------------------
(* Events: tabs, timers, popup, broker *)

\* The user loads a page in a tab, or closes it: the document and its bridge are gone.
Navigate(tab, url) ==
  /\ page[tab].bridge # 0 \/ page[tab].url # url
  /\ page' = [page EXCEPT ![tab] = [url |-> url, bridge |-> 0]]
  /\ tabEvents' = tabEvents \cup {tab}
  /\ UNCHANGED <<worker, handlers, storage, lastDoc, wire, broker, expired, history>>

\* tabs.onUpdated and tabs.onRemoved: revokeIfTab.
TabEvent(t, tab) ==
  /\ Free(t) /\ tab \in tabEvents
  /\ tabEvents' = tabEvents \ {tab}
  /\ Begin(t, IF storage.grant # None /\ granted[storage.grant].tab = tab
              THEN <<Revoke(storage.grant, TRUE)>> ELSE <<>>)
  /\ UNCHANGED <<worker, storage, page, lastDoc, wire, broker, expired, history>>

\* The timer of scheduleExpiry.
ExpiryTimer(t) ==
  /\ Free(t) /\ expiryTimer \in expired
  /\ expiryTimer' = None
  /\ Begin(t, <<Revoke(expiryTimer, TRUE)>>)
  /\ UNCHANGED <<awake, ports, session, reconnectTimer, dueRevokes, storage, browser, wire,
                 broker, expired, history>>

\* The timer that a navigate command leaves behind.
NavigationTimer(t, l) ==
  /\ Free(t) /\ l \in dueRevokes
  /\ dueRevokes' = dueRevokes \ {l}
  /\ Begin(t, <<Revoke(l, TRUE)>>)
  /\ UNCHANGED <<awake, ports, session, reconnectTimer, expiryTimer, storage, browser, wire,
                 broker, expired, history>>

\* popup.get-state matters when something that is stored has expired.
PopupOpens(t) ==
  /\ Free(t) /\ Pruned(storage, <<>>) # <<>>
  /\ Begin(t, Pruned(storage, <<>>))
  /\ UNCHANGED <<worker, storage, browser, wire, broker, expired, history>>

\* popup.revoke, of the grant the popup shows.
PopupRevokes(t) ==
  /\ Free(t) /\ storage.grant # None
  /\ Begin(t, <<Revoke(storage.grant, TRUE), AnswerPopup>>)
  /\ UNCHANGED <<worker, storage, browser, wire, broker, expired, history>>

\* popup.grant-current-tab, for a request the popup shows.
PopupGrants(t, r) ==
  /\ Free(t) /\ brokerConnected /\ r \in Range(storage.pending)
  /\ Begin(t, Pruned(storage, <<[Idle EXCEPT !.at = "grant.find", !.request = r], AnswerPopup>>))
  /\ UNCHANGED <<worker, storage, browser, wire, broker, expired, history>>

\* popupState
PopupState(t) ==
  /\ At(t, "popup.state")
  /\ Continue(t, Pruned(storage, Rest(t)))
  /\ UNCHANGED <<worker, storage, browser, wire, broker, expired, history>>

\* handleBrokerEvent, handleBrokerRequest: each message starts a handler.
EventArrives(t) ==
  LET e == Head(toExt) IN
  /\ Free(t)
  /\ \/ /\ Receives("requested")
        /\ Begin(t, Pruned(storage,
                           <<[Idle EXCEPT !.at = "requested.write", !.request = e.request]>>))
     \/ /\ Receives("revoked")
        /\ Begin(t, <<Revoke(e.lease, FALSE)>>)
     \/ /\ Receives("execute")
        /\ Begin(t, Pruned(storage,
                           <<[Idle EXCEPT !.at = "execute.check", !.command = e.command,
                                      !.port = nativePort]>>))
  /\ Taken
  /\ UNCHANGED <<worker, storage, browser, toBroker, broker, expired, history>>

\* The new request comes first, on top of the state that pruneExpiredState returned.
RequestedWrite(t) ==
  LET f == Top(t)
      others == Filtered(f.saw.pending, Requests \ {f.request})
      pending == SubSeq(<<f.request>> \o others, 1, Min({PendingShown, Len(others) + 1}))
      written == [f.saw EXCEPT !.pending = pending] IN
  /\ At(t, "requested.write")
  /\ storage' = written
  /\ Continue(t, Pruned(written, <<>>))
  /\ UNCHANGED <<worker, browser, wire, broker, expired, history>>

-----------------------------------------------------------------------------
(* executeBrowserCommand *)

\* The answer to browser.execute, on the port that the command came from.
Answer(t, ok) ==
  /\ toBroker' = Posted(Top(t).port,
                        [Message("executed", None) EXCEPT !.command = Top(t).command, !.ok = ok])
  /\ Return(t)

\* The grant is revoked, and then the command fails.
RevokeAndFail(t, l, notify) ==
  /\ Continue(t, <<Revoke(l, notify),
                   [Top(t) EXCEPT !.at = "execute.fail", !.saw = EmptyState]>>)
  /\ UNCHANGED toBroker

CommandMatches(t) == brokerConnected /\ Top(t).saw.grant = under[Top(t).command]

\* The grant must be the lease of the command and unexpired, and its tab still at the
\* granted origin.
ExecuteCheck(t) ==
  LET l == under[Top(t).command]
      matches == CommandMatches(t)
      there == page[granted[l].tab].url = granted[l].url IN
  /\ At(t, "execute.check")
  /\ \/ ~matches /\ Answer(t, FALSE)
     \/ matches /\ l \in expired /\ RevokeAndFail(t, l, FALSE)
     \/ matches /\ l \notin expired /\ ~there /\ RevokeAndFail(t, l, TRUE)
     \/ /\ matches /\ l \notin expired /\ there
        /\ Continue(t, <<[Top(t) EXCEPT !.at = "execute.identify", !.saw = EmptyState]>>)
        /\ UNCHANGED toBroker
  /\ UNCHANGED <<worker, storage, browser, toExt, broker, expired, history>>

\* assertDocumentIdentity
ExecuteIdentify(t) ==
  LET l == under[Top(t).command] IN
  /\ At(t, "execute.identify")
  /\ IF page[granted[l].tab].bridge = granted[l].doc
     THEN Goto(t, "execute.send") /\ UNCHANGED toBroker
     ELSE RevokeAndFail(t, l, TRUE)
  /\ UNCHANGED <<worker, storage, browser, toExt, broker, expired, history>>

\* Mutant: any document is the expected one.
BridgeAcceptsAny(tab, d) == page[tab].bridge # 0

\* The bridge's listener: there, enabled, and asked for its own document.
BridgeAccepts(tab, d) == page[tab].bridge # 0 /\ page[tab].bridge = d

\* snapshot, highlight and scroll are carried out by the bridge, which may also fail.
ExecuteSend(t) ==
  LET k == Top(t).command
      g == granted[under[k]] IN
  /\ At(t, "execute.send")
  /\ \/ /\ BridgeAccepts(g.tab, g.doc)
        /\ effect' = [effect EXCEPT ![k] = [by |-> "bridge", doc |-> page[g.tab].bridge]]
        /\ \E ok \in BOOLEAN : Answer(t, ok)
     \/ /\ ~BridgeAccepts(g.tab, g.doc)
        /\ RevokeAndFail(t, under[k], TRUE) /\ UNCHANGED effect
  /\ UNCHANGED <<worker, storage, browser, toExt, broker, expired, torn>>

\* navigate sends the tab to another page of the granted origin without asking the
\* bridge again, and a timer revokes the grant.
ExecuteNavigate(t) ==
  LET k == Top(t).command
      l == under[k]
      tab == granted[l].tab IN
  /\ At(t, "execute.send")
  /\ page[tab].url # None
  /\ page' = [page EXCEPT ![tab] = [url |-> granted[l].url, bridge |-> 0]]
  /\ tabEvents' = tabEvents \cup {tab}
  /\ dueRevokes' = dueRevokes \cup {l}
  /\ effect' = [effect EXCEPT ![k] = [by |-> "worker", doc |-> page[tab].bridge]]
  /\ Answer(t, TRUE)
  /\ UNCHANGED <<awake, ports, session, reconnectTimer, expiryTimer, storage, lastDoc, toExt,
                 broker, expired, torn>>

\* requireCommandScopes, a target outside the granted origin, and a tab that is gone fail a
\* command and leave the grant.
ExecuteRefused(t) ==
  /\ \/ /\ At(t, "execute.check")
        /\ CommandMatches(t) /\ under[Top(t).command] \notin expired
     \/ At(t, "execute.send")
  /\ Answer(t, FALSE)
  /\ UNCHANGED <<worker, storage, browser, toExt, broker, expired, history>>

ExecuteFail(t) ==
  /\ At(t, "execute.fail")
  /\ Answer(t, FALSE)
  /\ UNCHANGED <<worker, storage, browser, toExt, broker, expired, history>>

-----------------------------------------------------------------------------
(* grantCurrentTab *)

\* The request is looked up in the state that was read, the active tab is queried, and
\* the grant that was read is revoked.
GrantFind(t) ==
  LET f == Top(t) IN
  /\ At(t, "grant.find")
  /\ \/ f.request \notin Range(f.saw.pending) /\ Throw(t)
     \/ \E tab \in Tabs :
          LET chosen == [f EXCEPT !.at = "grant.inject", !.tab = tab, !.url = page[tab].url,
                                  !.saw = EmptyState] IN
          /\ f.request \in Range(f.saw.pending)
          /\ IF page[tab].url = None THEN Throw(t)
             ELSE IF f.saw.grant = None THEN Continue(t, <<chosen>> \o Rest(t))
             ELSE Continue(t, <<Revoke(f.saw.grant, TRUE), chosen>> \o Rest(t))
  /\ UNCHANGED <<worker, storage, browser, wire, broker, expired, history>>

\* A bridge that is there stays, with its document id.
DocId(tab) == IF page[tab].bridge # 0 THEN page[tab].bridge ELSE lastDoc + 1

\* executeScript and identifyDocument, which fail on a page that is not grantable (and at
\* the bound).
GrantInject(t) ==
  LET tab == Top(t).tab
      doc == DocId(tab) IN
  /\ At(t, "grant.inject")
  /\ IF page[tab].url = None \/ doc > MaxDocs
     THEN Throw(t) /\ UNCHANGED <<page, lastDoc>>
     ELSE /\ Continue(t, <<[Top(t) EXCEPT !.at = "grant.verify", !.doc = doc]>> \o Rest(t))
          /\ page' = [page EXCEPT ![tab].bridge = doc]
          /\ lastDoc' = Max({lastDoc, doc})
  /\ UNCHANGED <<worker, storage, tabEvents, wire, broker, expired, history>>

\* Tab and request are looked at again, and the broker is asked.
GrantVerify(t) ==
  LET f == Top(t) IN
  /\ At(t, "grant.verify")
  /\ IF /\ page[f.tab].url = f.url
        /\ f.request \in Range(storage.pending) /\ f.request \notin expired
     THEN /\ toBroker' = Posted(nativePort, [Message("grant", t) EXCEPT !.request = f.request,
                                          !.tab = f.tab, !.doc = f.doc, !.url = f.url])
          /\ Goto(t, "grant.wait")
     ELSE Goto(t, "grant.teardown") /\ UNCHANGED toBroker
  /\ UNCHANGED <<worker, storage, browser, toExt, broker, expired, history>>

\* The lease must be active and what was asked for.
GrantAnswered(t) ==
  LET l == Head(toExt).lease IN
  /\ At(t, "grant.wait") /\ Receives("lease") /\ Head(toExt).to = t /\ Taken
  /\ IF Head(toExt).ok /\ l \notin expired
     THEN Continue(t, <<[Top(t) EXCEPT !.at = "grant.recheck", !.lease = l]>> \o Rest(t))
     ELSE Goto(t, "grant.teardown")
  /\ UNCHANGED <<worker, storage, browser, toBroker, broker, expired, history>>

\* Tab and document are looked at once more, and the state is read.
GrantRecheck(t) ==
  LET f == Top(t) IN
  /\ At(t, "grant.recheck")
  /\ IF page[f.tab].url = f.url /\ page[f.tab].bridge = f.doc
     THEN Continue(t, <<[f EXCEPT !.at = "grant.write", !.saw = storage]>> \o Rest(t))
     ELSE Goto(t, "grant.teardown")
  /\ UNCHANGED <<worker, storage, browser, wire, broker, expired, history>>

\* Nothing asks whether the port is still there or the lease has been revoked meanwhile.
GrantWrite(t) ==
  LET f == Top(t)
      written == [pending |-> Filtered(f.saw.pending, Requests \ {f.request}),
                  grant |-> f.lease] IN
  /\ At(t, "grant.write")
  /\ storage' = written
  /\ expiryTimer' = f.lease
  /\ Continue(t, Pruned(written, Rest(t)))
  /\ UNCHANGED <<awake, ports, session, reconnectTimer, dueRevokes, browser, wire, broker,
                 expired, history>>

\* The catch block: the bridge is torn down, and then a lease that was obtained is given
\* back.
GrantTeardown(t) ==
  LET f == Top(t) IN
  /\ At(t, "grant.teardown")
  /\ page' = TornDown(f.tab, f.doc)
  /\ torn' = torn \cup ({f.lease} \ {None})
  /\ Goto(t, "grant.revoke")
  /\ UNCHANGED <<worker, storage, lastDoc, tabEvents, wire, broker, expired, effect>>

GrantRevoke(t) ==
  LET l == Top(t).lease IN
  /\ At(t, "grant.revoke")
  /\ toBroker' = IF l = None THEN toBroker ELSE TellRevoked(l)
  /\ Throw(t)
  /\ UNCHANGED <<worker, storage, browser, toExt, broker, expired, history>>

-----------------------------------------------------------------------------
(* The broker, as LeaseAuthority and the daemon's connection to this browser *)

\* An answer or event; it is lost when the port is.
Reply(m, to) == [m |-> m, to |-> to, request |-> None, lease |-> None, command |-> None,
                 ok |-> TRUE, list |-> <<>>]
Sent(message) == IF PortOpen THEN Append(toExt, message) ELSE toExt

\* An event to the browser registered for the instance.
Emitted(event) == IF registered /\ joined THEN Sent(event) ELSE toExt

Revoked(l) == [Reply("revoked", None) EXCEPT !.lease = l]
PendingAtBroker == {r \in Requests : asked[r] = "pending" /\ r \notin expired}

\* access.request, and the end of a request: denied, or its agent disconnected.
Ask(r) ==
  /\ asked[r] = "unused"
  /\ asked' = [asked EXCEPT ![r] = "pending"]
  /\ toExt' = Emitted([Reply("requested", None) EXCEPT !.request = r])
  /\ UNCHANGED <<worker, handlers, storage, browser, toBroker, authority, connection,
                 granted, answering, expired, history>>

Withdraw(r) ==
  /\ asked[r] = "pending"
  /\ asked' = [asked EXCEPT ![r] = "closed"]
  /\ UNCHANGED <<worker, handlers, storage, browser, wire, authority, connection,
                 granted, answering, expired, history>>

Expire(x) ==
  /\ x \notin expired
  /\ \/ x \in Requests /\ asked[x] = "pending"
     \/ x \in Leases /\ standing[x] = "live"
  /\ expired' = expired \cup {x}
  /\ UNCHANGED <<worker, handlers, storage, browser, wire, broker, history>>

BrokerEnds(l) ==
  /\ standing[l] = "live"
  /\ End({l})
  /\ toExt' = Emitted(Revoked(l))
  /\ UNCHANGED <<worker, handlers, storage, browser, toBroker, connection, asked,
                 granted, answering, expired, history>>

BrokerDispatches(k, l) ==
  /\ registered /\ l \notin expired
  /\ Dispatch(k, l, {})
  /\ toExt' = Emitted([Reply("execute", None) EXCEPT !.command = k])
  /\ UNCHANGED <<worker, handlers, storage, browser, toBroker, connection, asked,
                 granted, answering, expired, history>>

\* Mutant: a close is handled more than once.
BrokerSeesCloseAgain ==
  /\ closing' = closing - 1 /\ registered' = FALSE
  /\ End(LiveLeases)
  /\ UNCHANGED <<worker, handlers, storage, browser, wire, admitted, joined, asked, granted,
                 answering, expired, history>>

\* disconnected(): every lease of the instance ends, and its browsers entry goes, also
\* when it is another connection's by now.
BrokerSeesClose ==
  /\ closing > 0
  /\ closing' = closing - 1 /\ registered' = FALSE
  /\ End(LiveLeases)
  /\ UNCHANGED <<worker, handlers, storage, browser, wire, admitted, joined, asked, granted,
                 answering, expired, history>>

\* browser.auth.*, browser.register, access.pending.list.  A refusal is RpcFails for the
\* caller.
BrokerAdmits ==
  LET q == Head(toBroker)
      replied(answer) == IF q.to = None THEN toExt ELSE Sent(answer) IN
  /\ toBroker # <<>>
  /\ toBroker' = Tail(toBroker)
  /\ \/ /\ q.m = "auth" /\ ~admitted
        /\ \E paired \in BOOLEAN :
             /\ admitted' = paired
             /\ toExt' = replied([Reply("auth", q.to) EXCEPT !.ok = paired])
        /\ UNCHANGED <<joined, registered>>
     \/ /\ q.m = "register" /\ admitted
        /\ joined' = TRUE /\ registered' = TRUE
        /\ toExt' = replied([Reply("register", q.to) EXCEPT !.list = SetToSeq(PendingAtBroker)])
        /\ UNCHANGED admitted
     \/ /\ (q.m = "auth" /\ admitted) \/ (q.m = "register" /\ ~admitted)
        /\ UNCHANGED <<admitted, joined, registered, toExt>>
  /\ UNCHANGED <<worker, handlers, storage, browser, authority, closing, asked, granted,
                 answering, expired, history>>

\* access.grant, up to its audit record; refused (or at the bound), it fails for the caller.
BrokerGrants ==
  LET q == Head(toBroker)
      accepted == /\ joined /\ q.request \in PendingAtBroker
                  /\ \E l \in Leases : standing[l] = "unissued" IN
  /\ toBroker # <<>> /\ q.m = "grant"
  /\ toBroker' = Tail(toBroker)
  /\ \/ \E l \in Leases :
          /\ accepted
          /\ Issue(l, {})
          /\ asked' = [asked EXCEPT ![q.request] = "closed"]
          /\ granted' = [granted EXCEPT ![l] =
               [request |-> q.request, tab |-> q.tab, doc |-> q.doc, url |-> q.url]]
          /\ answering' = answering \cup {[lease |-> l, to |-> q.to]}
     \/ ~accepted /\ UNCHANGED <<authority, asked, granted, answering>>
  /\ UNCHANGED <<worker, handlers, storage, browser, toExt, connection, expired,
                 history>>

BrokerAnswersGrant ==
  \E a \in answering :
    /\ answering' = answering \ {a}
    /\ toExt' = IF a.to = None THEN toExt
                ELSE Sent([Reply("lease", a.to) EXCEPT !.lease = a.lease,
                             !.ok = standing[a.lease] = "live" /\ a.lease \notin expired])
    /\ UNCHANGED <<worker, handlers, storage, browser, toBroker, authority, connection,
                   asked, granted, expired, history>>

\* access.revoke, from a registered browser, and the answer to browser.execute, whose
\* course in the broker is left to BrokerState.
BrokerIsTold ==
  LET q == Head(toBroker)
      revokes == q.m = "revoke" /\ joined /\ standing[q.lease] = "live" IN
  /\ toBroker # <<>> /\ q.m \in {"revoke", "executed"}
  /\ toBroker' = Tail(toBroker)
  /\ \/ revokes /\ End({q.lease}) /\ toExt' = Emitted(Revoked(q.lease))
     \/ ~revokes /\ UNCHANGED <<authority, toExt>>
  /\ UNCHANGED <<worker, handlers, storage, browser, connection, asked, granted,
                 answering, expired, history>>

-----------------------------------------------------------------------------
\* A running handler goes on to its next await.
TaskStep(t) ==
  \/ PruneWrite(t)
  \/ RevokeRead(t) \/ RevokeTeardown(t) \/ RevokeWrite(t) \/ RevokeNotify(t)
  \/ InitializeConnect(t) \/ AuthTurn(t) \/ AuthAnswered(t) \/ RegisterSend(t)
  \/ RegisterAnswered(t) \/ RegisterWrite(t)
  \/ RpcFails(t) \/ RegisterClose(t) \/ LostReconnect(t)
  \/ RequestedWrite(t) \/ PopupState(t)
  \/ ExecuteCheck(t) \/ ExecuteIdentify(t) \/ ExecuteSend(t) \/ ExecuteNavigate(t)
  \/ ExecuteRefused(t) \/ ExecuteFail(t)
  \/ GrantFind(t) \/ GrantInject(t) \/ GrantVerify(t) \/ GrantAnswered(t) \/ GrantRecheck(t)
  \/ GrantWrite(t) \/ GrantTeardown(t) \/ GrantRevoke(t)

\* Chrome calls a handler.
HandlerStarts(t) ==
  \/ Initialize(t) \/ Reconnect(t) \/ ReconnectTimerIdle \/ PortLossSeen(t) \/ EventArrives(t)
  \/ \E pairing \in BOOLEAN : RegisterAgain(t, pairing)
  \/ \E tab \in Tabs : TabEvent(t, tab)
  \/ ExpiryTimer(t) \/ \E l \in Leases : NavigationTimer(t, l)
  \/ PopupOpens(t) \/ PopupRevokes(t) \/ \E r \in Requests : PopupGrants(t, r)

\* The broker takes what its sockets bring.
BrokerHears ==
  \/ BrokerSeesClose \/ BrokerAdmits \/ BrokerGrants \/ BrokerAnswersGrant \/ BrokerIsTold

\* Agents and their calls.
Agents ==
  \/ \E r \in Requests : Ask(r)
  \/ \E k \in Commands, l \in Leases : BrokerDispatches(k, l)

\* Users, the clock, failures, and what ends at the broker.
Events ==
  \/ \E tab \in Tabs, url \in Urls \cup {None} : Navigate(tab, url)
  \/ PortLost \/ WorkerStops
  \/ \E x \in Requests \cup Leases : Expire(x)
  \/ \E r \in Requests : Withdraw(r)
  \/ \E l \in Leases : BrokerEnds(l)

Next ==
  \/ /\ (\E t \in Tasks : TaskStep(t) \/ HandlerStarts(t)) \/ BrokerHears \/ Agents
     /\ UNCHANGED happened
  \/ /\ happened < MaxEvents /\ happened' = happened + 1
     /\ Events

Spec == Init /\ [][Next]_vars

-----------------------------------------------------------------------------
(* Properties *)

\* What call k does to a tab meets the very document that was granted under its lease, and
\* none whose bridge the worker has torn down for that lease.
Consented(k) ==
  LET l == under[k] IN
  effect'[k].doc = granted[l].doc /\ l \notin torn /\ standing[l] # "unissued"
Acts(k, by) == effect'[k] # effect[k] /\ effect'[k].by = by

\* A bridge reads or changes a page only where its user agreed to it, although grant,
\* revocations, navigation and the call run interleaved and storage may bring back or lose
\* a grant (executeBrowserCommand, revokeGrant, and the checks of the bridge's listener).
\* What the worker does to a tab without its bridge is NavigatesWithConsent.
ActsWithConsent ==
  [][\A k \in Commands : Acts(k, "bridge") => Consented(k)]_vars

\* The same of a navigation, which the worker makes by itself (executeBrowserCommand, after
\* assertDocumentIdentity).  "The service worker rechecks tab origin and document identity
\* immediately before execution" (docs/SECURITY_ARCHITECTURE.md:192-193).
NavigatesWithConsent ==
  [][\A k \in Commands : Acts(k, "worker") => Consented(k)]_vars

\* What the worker gives up, the broker gives up: while a lease whose bridge was torn down
\* is live and unexpired, its revocation is under way, as a frame that will send it, as a
\* message to the broker, or with a connection that has ended.
TornLeasesEnd ==
  \A l \in torn : standing[l] = "live" /\ l \notin expired =>
    \/ \E t \in Tasks : \E i \in DOMAIN task[t] :
         /\ task[t][i].lease = l
         /\ task[t][i].at \in {"revoke.write", "revoke.notify", "grant.revoke"}
    \/ \E i \in DOMAIN toBroker : toBroker[i].m = "revoke" /\ toBroker[i].lease = l
    \/ closing > 0

\* A worker whose port is gone has a plan to get another, however long the revocation that
\* the loss brings about takes: the loss is still to be handled, or a handler is on its way
\* to connect or to set the reconnect timer, or the timer is set (handleNativeDisconnect,
\* connectNative).  It has none only for a port that it closed itself: nativePort still
\* holds that one, Chrome calls no onDisconnect for it, and connectNative returns when it
\* sees it (registerBrowser, registerAuthenticatedBrowser).
ReconnectPending ==
  awake /\ ~PortOpen =>
    \/ reconnectTimer
    \/ \E t \in Tasks : \E i \in DOMAIN task[t] :
         task[t][i].at \in {"init.connect", "lost.reconnect"}
    \/ nativePort # 0 /\ portState \in {"lost", "closed"}

\* The queue of authentications is always being served: whoever is in it is a running
\* handler that waits for its turn or, at its head, for an answer, and no other handler
\* takes part, so one that fails or whose port is gone holds up none (SerialQueue).
QueueServed ==
  /\ \A i, j \in DOMAIN authQueue : i # j => authQueue[i] # authQueue[j]
  /\ \A t \in Tasks :
       LET position == {i \in DOMAIN authQueue : authQueue[i] = t} IN
       /\ At(t, "auth.turn") => position # {}
       /\ At(t, "auth.wait") <=> position = {1} /\ ~At(t, "auth.turn")
       /\ position # {} => At(t, "auth.turn") \/ At(t, "auth.wait")

=============================================================================
