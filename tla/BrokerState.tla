----------------------------- MODULE BrokerState -----------------------------
(***************************************************************************)
(* The authority kept by the broker process: class BrokerState of          *)
(* apps/broker/src/broker-state.ts, driven by the connections that         *)
(* daemon.ts accepts.                                                      *)
(*                                                                         *)
(* Agents ask for access, a browser grants or denies, and a grant creates  *)
(* a lease under which the agent's commands are forwarded to the browser.  *)
(* Node runs one callback at a time, so an action is the synchronous part  *)
(* of a handler, up to its next await.  Three awaits matter here: waiting  *)
(* for the browser's answer to a command, waiting for an audit record      *)
(* before a result is handed out, and waiting for an audit record before a *)
(* grant is answered.  Anything may happen in between.                     *)
(*                                                                         *)
(* Every call first runs maintainState(), so each action of a caller       *)
(* starts from SweptRequests and SweptLeases, what that leaves behind.     *)
(***************************************************************************)
EXTENDS Integers, FiniteSets, FiniteSetsExt

CONSTANTS
  Conns,               \* accepted sockets; each is used once
  Instances,           \* browserInstanceId values
  Requests,            \* request ids randomUUID() can still produce
  Leases,              \* lease ids randomUUID() can still produce
  Commands,            \* execute() calls of the agents
  None,                \* a model value: undefined
  Pipelines,           \* whether a peer sends calls behind its browser.auth.complete
  MaxTime,             \* bound on the clock
  ScopeChoices,        \* scope sets that are asked for and granted
  Kinds,               \* commands the agents call
  ByteChoices,         \* sizes of snapshot results
  GrantTTLs,           \* lifetimes a grant can have
  RequestTTL,          \* ACCESS_REQUEST_TTL_MS
  MaxLeaseTTL,         \* MAX_LEASE_TTL_MS
  IdleTimeout,         \* LEASE_IDLE_TIMEOUT_MS
  UseLimit,            \* LEASE_USE_LIMIT
  MaxInFlight,         \* LEASE_MAX_IN_FLIGHT
  CommandsPerWindow,   \* LEASE_COMMANDS_PER_WINDOW
  CommandWindow,       \* LEASE_COMMAND_WINDOW_MS
  EgressBudget,        \* LEASE_EGRESS_BUDGET_BYTES
  SnapshotMax,         \* SNAPSHOT_MAX_RESULT_BYTES
  PendingPerSession,   \* ACCESS_PENDING_PER_SESSION_LIMIT
  PendingGlobal,       \* ACCESS_PENDING_GLOBAL_LIMIT
  RequestsPerSession,  \* ACCESS_REQUESTS_PER_SESSION_WINDOW
  RequestsGlobal,      \* ACCESS_REQUESTS_GLOBAL_WINDOW
  RateWindow,          \* ACCESS_REQUEST_RATE_WINDOW_MS
  RequestRecordLimit,  \* ACCESS_REQUEST_RECORD_LIMIT
  LeaseRecordLimit,    \* LEASE_RECORD_LIMIT
  Retention,           \* TERMINAL_RECORD_RETENTION_MS
  MaintenanceInterval  \* STATE_MAINTENANCE_INTERVAL_MS

Positive == Nat \ {0}

\* The values of constants.ts: each positive, a terminal record retained longer
\* than any lease can live, a snapshot never larger than what a lease may egress.
ASSUME LimitsAssumption ==
  /\ RequestTTL \in Positive /\ MaxLeaseTTL \in Positive /\ IdleTimeout \in Positive
  /\ UseLimit \in Positive /\ MaxInFlight \in Positive /\ CommandsPerWindow \in Positive
  /\ CommandWindow \in Positive /\ EgressBudget \in Positive /\ SnapshotMax \in Positive
  /\ PendingPerSession \in Positive /\ PendingGlobal \in Positive
  /\ RequestsPerSession \in Positive /\ RequestsGlobal \in Positive
  /\ RateWindow \in Positive /\ RequestRecordLimit \in Positive
  /\ LeaseRecordLimit \in Positive /\ Retention \in Positive
  /\ MaintenanceInterval \in Positive
  /\ MaxLeaseTTL < Retention /\ SnapshotMax <= EgressBudget

\* What the callers send: lifetimes the schema lets through, result sizes, and
\* command kinds with the scopes each needs.
ASSUME InputsAssumption ==
  /\ MaxTime \in Positive /\ Pipelines \in BOOLEAN
  /\ GrantTTLs \subseteq 1..MaxLeaseTTL
  /\ ByteChoices \subseteq Nat
  /\ Kinds \subseteq {"snapshot", "highlight", "scroll", "navigate"}

\* The pools are finite and undefined is none of their members.
ASSUME PoolsAssumption ==
  /\ IsFiniteSet(Requests) /\ IsFiniteSet(Leases) /\ IsFiniteSet(Commands)
  /\ None \notin Conns /\ None \notin Instances
  /\ None \notin Requests /\ None \notin Leases

VARIABLES
  now,                \* Date.now(), at least 1: 0 stands for an unset time stamp
  conn,               \* conn[c]: what the broker knows of the peer on socket c
  instanceOf,         \* instanceOf[c]: context.browserInstanceId
  browsers,           \* browsers[i]: connection registered for instance i
  request,            \* request[r]: the AccessRequest with id r
  lease,              \* lease[l]: the Lease with id l
  command,            \* command[k]: where the execute() call k is
  sessionWindow,      \* accessRequestWindows
  globalWindow,       \* globalAccessRequestWindow
  nextMaintenanceAt

links == <<conn, instanceOf, browsers>>
windows == <<sessionWindow, globalWindow>>
vars == <<now, links, request, lease, command, windows, nextMaintenanceAt>>

-----------------------------------------------------------------------------
(* Records *)

\* A connection context and its session id are made together and live as long as
\* the role lasts, so a session is named by its connection.
\* upgrading: its agent session has been ended, and the browser context that replaces
\* it is made when the promise of disconnected() settles.
ConnStates == {"new", "agent", "upgrading", "browser", "closed"}

RequestStatus == {"unused", "pending", "granted", "denied", "expired", "revoked"}

\* `stored' is membership in the accessRequests Map; the other fields outlive it.
RequestRecord ==
  [stored: BOOLEAN, status: RequestStatus, session: Conns \cup {None},
   scopes: ScopeChoices \cup {{}}, expiresAt: Nat, terminalAt: Nat,
   lease: Leases \cup {None}]

NoRequest ==
  [stored |-> FALSE, status |-> "unused", session |-> None, scopes |-> {},
   expiresAt |-> 0, terminalAt |-> 0, lease |-> None]

NewRequest(c, scopes) ==
  [stored |-> TRUE, status |-> "pending", session |-> c, scopes |-> scopes,
   expiresAt |-> now + RequestTTL, terminalAt |-> 0, lease |-> None]

\* USER_REVOKED stands for every reason a browser gives but LEASE_EXPIRED.
BrowserReasons == {"USER_REVOKED", "LEASE_EXPIRED"}
Reasons ==
  BrowserReasons \cup {"AGENT_REVOKED", "AGENT_DISCONNECTED",
                       "BROWSER_DISCONNECTED", "USE_LIMIT_EXHAUSTED"}

\* No reason is left undefined.
ASSUME ReasonsAssumption == None \notin Reasons

\* `stored' is membership in the leases Map: a command in flight keeps the object
\* when the Map has dropped it.  `answered': the access.grant call has returned.
LeaseRecord ==
  [stored: BOOLEAN, request: Requests \cup {None}, session: Conns \cup {None},
   instance: Instances \cup {None}, scopes: ScopeChoices \cup {{}}, expiresAt: Nat,
   lastUsedAt: Nat, inFlight: Int, windowStartedAt: Nat, commandsInWindow: Nat,
   remainingUses: Int, remainingEgress: Int, revokedAt: Nat,
   reason: Reasons \cup {None}, answered: BOOLEAN]

NoLease ==
  [stored |-> FALSE, request |-> None, session |-> None, instance |-> None,
   scopes |-> {}, expiresAt |-> 0, lastUsedAt |-> 0, inFlight |-> 0,
   windowStartedAt |-> 0, commandsInWindow |-> 0, remainingUses |-> 0,
   remainingEgress |-> 0, revokedAt |-> 0, reason |-> None, answered |-> TRUE]

\* Mutant of NewLease: lastUsedAt stays unset until the first command.
NewLeaseNeverUsed(q, session, i, scopes, ttl) ==
  [stored |-> TRUE, request |-> q, session |-> session, instance |-> i,
   scopes |-> scopes, expiresAt |-> now + ttl, lastUsedAt |-> None, inFlight |-> 0,
   windowStartedAt |-> now, commandsInWindow |-> 0, remainingUses |-> UseLimit,
   remainingEgress |-> 0, revokedAt |-> 0, reason |-> None, answered |-> FALSE]

NewLease(q, session, i, scopes, ttl) ==
  [stored |-> TRUE, request |-> q, session |-> session, instance |-> i,
   scopes |-> scopes, expiresAt |-> now + ttl, lastUsedAt |-> now, inFlight |-> 0,
   windowStartedAt |-> now, commandsInWindow |-> 0, remainingUses |-> UseLimit,
   remainingEgress |-> IF "data.egress.model" \in scopes THEN EgressBudget ELSE 0,
   revokedAt |-> 0, reason |-> None, answered |-> FALSE]

\* sent: at the browser; auditing: its result accepted, the "allowed" record being
\* written; denying: refused or failed, the "denied" record being written.
\* `via' is the connection it is at, `bytes' the egress it holds or returned.
CommandRecord ==
  [pc: {"idle", "sent", "auditing", "denying", "result", "error"},
   lease: Leases \cup {None}, kind: Kinds \cup {None}, via: Conns \cup {None}, bytes: Nat]

NoCommand == [pc |-> "idle", lease |-> None, kind |-> None, via |-> None, bytes |-> 0]

Window == [startedAt: Nat, count: Nat]
NoWindow == [startedAt |-> 0, count |-> 0]

TypeOK ==
  /\ now \in Positive
  /\ conn \in [Conns -> ConnStates]
  /\ instanceOf \in [Conns -> Instances \cup {None}]
  /\ browsers \in [Instances -> Conns \cup {None}]
  /\ request \in [Requests -> RequestRecord]
  /\ lease \in [Leases -> LeaseRecord]
  /\ command \in [Commands -> CommandRecord]
  /\ sessionWindow \in [Conns -> Window]
  /\ globalWindow \in Window
  /\ nextMaintenanceAt \in Nat

Init ==
  /\ now = 1
  /\ conn = [c \in Conns |-> "new"]
  /\ instanceOf = [c \in Conns |-> None]
  /\ browsers = [i \in Instances |-> None]
  /\ request = [r \in Requests |-> NoRequest]
  /\ lease = [l \in Leases |-> NoLease]
  /\ command = [k \in Commands |-> NoCommand]
  /\ sessionWindow = [c \in Conns |-> NoWindow]
  /\ globalWindow = NoWindow
  /\ nextMaintenanceAt = 0

-----------------------------------------------------------------------------
(* revokeLease, isLeaseActive, expireRecords, maintainState *)

\* A lease that was created and not revoked since.
Live(x) == x.request # None /\ x.revokedAt = 0

\* Mutant of Revoked: the early return of revokeLease is gone.
RevokedAgain(x, why) ==
  IF why = None \/ x.request = None THEN x ELSE [x EXCEPT !.revokedAt = now, !.reason = why]

\* revokeLease on the lease: nothing when it is revoked already.
Revoked(x, why) ==
  IF why = None \/ ~Live(x) THEN x ELSE [x EXCEPT !.revokedAt = now, !.reason = why]

\* Mutant of ClosedWith: a lapse is recorded on the request like a revocation.
ClosedAsRevoked(q, x, why) ==
  IF why = None \/ ~Live(x) \/ ~q.stored THEN q
  ELSE [q EXCEPT !.status = "revoked", !.terminalAt = now]

\* revokeLease on the request the lease x came from, if the Map still has it.
ClosedWith(q, x, why) ==
  IF why = None \/ ~Live(x) \/ ~q.stored THEN q
  ELSE [q EXCEPT !.status = IF why = "LEASE_EXPIRED" THEN "expired" ELSE "revoked",
                 !.terminalAt = now]

\* Mutant of LapseReason: the idle timeout is forgotten.
LapseReasonWithoutIdle(x) ==
  IF ~Live(x) THEN None
  ELSE IF x.expiresAt <= now THEN "LEASE_EXPIRED"
  ELSE IF x.remainingUses <= 0 /\ x.inFlight = 0 THEN "USE_LIMIT_EXHAUSTED"
  ELSE None

\* isLeaseActive: the reason a live lease is found inactive for, None when it is not.
LapseReason(x) ==
  IF ~Live(x) THEN None
  ELSE IF x.expiresAt <= now \/ x.lastUsedAt + IdleTimeout <= now THEN "LEASE_EXPIRED"
  ELSE IF x.remainingUses <= 0 /\ x.inFlight = 0 THEN "USE_LIMIT_EXHAUSTED"
  ELSE None

\* expireRecords looks at the leases of the Map only.
SweepReason(x) == IF x.stored THEN LapseReason(x) ELSE None

PendingExpired(q) ==
  IF q.stored /\ q.status = "pending" /\ q.expiresAt <= now
  THEN [q EXCEPT !.status = "expired", !.terminalAt = now] ELSE q

ExpiredRequest(q) ==
  IF q.lease = None THEN PendingExpired(q)
  ELSE ClosedWith(q, lease[q.lease], SweepReason(lease[q.lease]))

ExpiredLease(x) == Revoked(x, SweepReason(x))

\* What maintainState() prunes, at most once per MaintenanceInterval.
MaintenanceDue == now >= nextMaintenanceAt
Stale(t) == t + Retention <= now

PrunableRequest(q) == MaintenanceDue /\ q.status # "pending" /\ Stale(q.terminalAt)
PrunableLease(x) == MaintenanceDue /\ ~Live(x) /\ Stale(x.revokedAt)

Dropped(x) == [x EXCEPT !.stored = FALSE]

\* The records as maintainState() leaves them at the start of a call.
SweptRequest(r) ==
  LET q == ExpiredRequest(request[r]) IN IF PrunableRequest(q) THEN Dropped(q) ELSE q

SweptLease(l) ==
  LET x == ExpiredLease(lease[l]) IN IF PrunableLease(x) THEN Dropped(x) ELSE x

SweptRequests == [r \in Requests |-> SweptRequest(r)]
SweptLeases == [l \in Leases |-> SweptLease(l)]

Sweep ==
  nextMaintenanceAt' = IF MaintenanceDue THEN now + MaintenanceInterval ELSE nextMaintenanceAt

\* The records after a call that revokes lease l for `reason'.
RevokeInCall(l, reason) ==
  /\ Sweep
  /\ lease' = [SweptLeases EXCEPT ![l] = Revoked(@, reason)]
  /\ request' = [SweptRequests EXCEPT ![lease[l].request] =
                   ClosedWith(@, SweptLease(l), reason)]

\* The same between calls, where nothing was swept: `x' is what the step makes of the
\* lease before it revokes it.
RevokeLease(l, x, reason) ==
  /\ lease' = [lease EXCEPT ![l] = Revoked(x, reason)]
  /\ request' = [request EXCEPT ![x.request] = ClosedWith(@, x, reason)]

-----------------------------------------------------------------------------
(* Connections *)

\* session.hello: every authenticated peer starts as an agent.
Hello(c) ==
  /\ conn[c] = "new"
  /\ conn' = [conn EXCEPT ![c] = "agent"]
  /\ UNCHANGED <<now, instanceOf, browsers, request, lease, command, windows,
                 nextMaintenanceAt>>

\* What disconnected(context) revokes: the leases of the browser instance if the
\* context has one, else the leases and the pending requests of its session.
DisconnectReason(c, x) ==
  IF ~x.stored THEN None
  ELSE IF instanceOf[c] # None
       THEN IF x.instance = instanceOf[c] THEN "BROWSER_DISCONNECTED" ELSE None
       ELSE IF x.session = c THEN "AGENT_DISCONNECTED" ELSE None

DropsPending(c, q) ==
  instanceOf[c] = None /\ q.stored /\ q.status = "pending" /\ q.session = c

DisconnectedRequest(c, q) ==
  IF DropsPending(c, q) THEN [q EXCEPT !.status = "revoked", !.terminalAt = now]
  ELSE IF q.lease = None THEN q
  ELSE ClosedWith(q, lease[q.lease], DisconnectReason(c, lease[q.lease]))

\* Mutant of Disconnected: browsers.delete is missing.
DisconnectedStillListed(c) ==
  /\ browsers' = browsers
  /\ lease' = [l \in Leases |-> Revoked(lease[l], DisconnectReason(c, lease[l]))]
  /\ request' = [r \in Requests |-> DisconnectedRequest(c, request[r])]

Disconnected(c) ==
  /\ browsers' = [i \in Instances |-> IF i = instanceOf[c] THEN None ELSE browsers[i]]
  /\ lease' = [l \in Leases |-> Revoked(lease[l], DisconnectReason(c, lease[l]))]
  /\ request' = [r \in Requests |-> DisconnectedRequest(c, request[r])]

\* Mutant of UpgradeBegins: the agent context is replaced without disconnected().
UpgradeWithoutDisconnect(c) ==
  /\ conn[c] = "agent"
  /\ conn' = [conn EXCEPT ![c] = "upgrading"]
  /\ UNCHANGED <<now, instanceOf, browsers, request, lease, command, windows,
                 nextMaintenanceAt>>

\* browser.auth.complete, up to its await of disconnected(): the agent session ends.
UpgradeBegins(c) ==
  /\ conn[c] = "agent"
  /\ conn' = [conn EXCEPT ![c] = "upgrading"]
  /\ Disconnected(c)
  /\ UNCHANGED <<now, instanceOf, command, windows, nextMaintenanceAt>>

\* After the await a browser context, with a new session, takes the socket.
UpgradeEnds(c) ==
  /\ conn[c] = "upgrading"
  /\ conn' = [conn EXCEPT ![c] = "browser"]
  /\ UNCHANGED <<now, instanceOf, browsers, request, lease, command, windows,
                 nextMaintenanceAt>>

\* Calls on socket c are still handled as its agent's.  During an upgrade that is a
\* call which came in the same chunk of input as browser.auth.complete.
CallsAsAgent(c) == conn[c] = "agent" \/ (Pipelines /\ conn[c] = "upgrading")

\* The socket closes.  A pending call to a browser is rejected: see CommandFails.
Close(c) ==
  /\ conn[c] # "closed"
  /\ conn' = [conn EXCEPT ![c] = "closed"]
  /\ IF conn[c] = "new" THEN UNCHANGED <<browsers, lease, request>> ELSE Disconnected(c)
  /\ UNCHANGED <<now, instanceOf, command, windows, nextMaintenanceAt>>

\* browser.register.  A connection may name any instance, and another than before.
RegisterBrowser(c, i) ==
  /\ conn[c] = "browser"
  /\ instanceOf' = [instanceOf EXCEPT ![c] = i]
  /\ browsers' = [browsers EXCEPT ![i] = c]
  /\ Sweep /\ request' = SweptRequests /\ lease' = SweptLeases
  /\ UNCHANGED <<now, conn, command, windows>>

\* broker.status, access.status, access.pending.list, browser.tabs.list, and every
\* call that is refused without an effect of its own.
ReadOrRefused(c) ==
  /\ CallsAsAgent(c) \/ conn[c] = "browser"
  /\ Sweep /\ request' = SweptRequests /\ lease' = SweptLeases
  /\ UNCHANGED <<now, links, command, windows>>

-----------------------------------------------------------------------------
(* Access requests *)

\* resetWindowIfNeeded
ResetIfNeeded(w) ==
  IF w.startedAt = 0 \/ now < w.startedAt \/ now - w.startedAt >= RateWindow
  THEN [startedAt |-> now, count |-> 0] ELSE w

RateLimited(c) ==
  \/ ResetIfNeeded(sessionWindow[c]).count >= RequestsPerSession
  \/ ResetIfNeeded(globalWindow).count >= RequestsGlobal

\* Mutant of ReserveRate: only the session's window counts.
ReserveSessionRate(c) ==
  LET counted(w) == IF RateLimited(c) THEN w ELSE [w EXCEPT !.count = @ + 1] IN
  /\ sessionWindow' = [sessionWindow EXCEPT ![c] = counted(ResetIfNeeded(@))]
  /\ globalWindow' = ResetIfNeeded(globalWindow)

\* reserveAccessRequestRate: both windows are reset when due, and counted only when
\* neither limit is reached.
ReserveRate(c) ==
  LET counted(w) == IF RateLimited(c) THEN w ELSE [w EXCEPT !.count = @ + 1] IN
  /\ sessionWindow' = [sessionWindow EXCEPT ![c] = counted(ResetIfNeeded(@))]
  /\ globalWindow' = counted(ResetIfNeeded(globalWindow))

Pending(q) == q.stored /\ q.status = "pending"
PendingIn(R) == {r \in Requests : Pending(R[r])}

PendingLimited(c) ==
  \/ Cardinality({r \in PendingIn(SweptRequests) : request[r].session = c})
       >= PendingPerSession
  \/ Cardinality(PendingIn(SweptRequests)) >= PendingGlobal

StoredRequests(R) == {r \in Requests : R[r].stored}
StoredLeases(L) == {l \in Leases : L[l].stored}

\* Mutant of RoomForRequest: the limit is off by one.
RoomForOneMoreRequest(R) ==
  LET terminal == {r \in StoredRequests(R) : R[r].status # "pending"} IN
  IF Cardinality(StoredRequests(R)) <= RequestRecordLimit THEN {R}
  ELSE {[R EXCEPT ![r].stored = FALSE] : r \in terminal}

\* Mutant of RoomForRequest: the sort is the other way round.
RoomForRequestNewestFirst(R) ==
  LET terminal == {r \in StoredRequests(R) : R[r].status # "pending"}
      newest == {r \in terminal : \A q \in terminal : R[q].terminalAt <= R[r].terminalAt}
  IN  IF Cardinality(StoredRequests(R)) < RequestRecordLimit THEN {R}
      ELSE {[R EXCEPT ![r].stored = FALSE] : r \in newest}

\* ensureAccessRequestCapacity: what the Map may hold when it returns.  When the Map
\* is full it drops the record that has been terminal longest, and throws (the empty
\* set here) when every record is pending.
RoomForRequest(R) ==
  LET terminal == {r \in StoredRequests(R) : R[r].status # "pending"}
      oldest == {r \in terminal : \A q \in terminal : R[r].terminalAt <= R[q].terminalAt}
  IN  IF Cardinality(StoredRequests(R)) < RequestRecordLimit THEN {R}
      ELSE {[R EXCEPT ![r].stored = FALSE] : r \in oldest}

\* access.request, up to its audit record; the answer only repeats the request.
RequestAccess(c, r, scopes) ==
  /\ CallsAsAgent(c)
  /\ request[r].status = "unused"
  /\ ~RateLimited(c) /\ ~PendingLimited(c)
  /\ Sweep
  /\ ReserveRate(c)
  /\ \E R \in RoomForRequest(SweptRequests) :
       request' = [R EXCEPT ![r] = NewRequest(c, scopes)]
  /\ lease' = SweptLeases
  /\ UNCHANGED <<now, links, command>>

\* access.request refused by a limit; past the rate limit the call still counts.
RefuseRequest(c) ==
  /\ CallsAsAgent(c)
  /\ RateLimited(c) \/ PendingLimited(c) \/ RoomForRequest(SweptRequests) = {}
  /\ Sweep
  /\ ReserveRate(c)
  /\ request' = SweptRequests /\ lease' = SweptLeases
  /\ UNCHANGED <<now, links, command>>

\* ensureLeaseCapacity, in the same way: only revoked leases are dropped.
RoomForLease(L) ==
  LET revoked == {l \in StoredLeases(L) : ~Live(L[l])}
      oldest == {l \in revoked : \A m \in revoked : L[l].revokedAt <= L[m].revokedAt}
  IN  IF Cardinality(StoredLeases(L)) < LeaseRecordLimit THEN {L}
      ELSE {[L EXCEPT ![l].stored = FALSE] : l \in oldest}

\* access.grant, up to its audit record.
Grant(c, q, l, scopes, ttl) ==
  /\ conn[c] = "browser" /\ instanceOf[c] # None
  /\ Pending(SweptRequest(q))
  /\ scopes # {} /\ scopes \subseteq request[q].scopes
  /\ lease[l].request = None
  /\ Sweep
  /\ \E L \in RoomForLease(SweptLeases) :
       lease' = [L EXCEPT ![l] =
                   NewLease(q, request[q].session, instanceOf[c], scopes, ttl)]
  /\ request' = [SweptRequests EXCEPT ![q].status = "granted", ![q].terminalAt = now,
                                      ![q].lease = l]
  /\ UNCHANGED <<now, links, command, windows>>

Answered(x) == [x EXCEPT !.answered = TRUE]

\* The audit record of a grant is written: the answer says whether the lease is still
\* active, and finding it lapsed revokes it.
GrantAnswered(l) ==
  /\ ~lease[l].answered
  /\ RevokeLease(l, Answered(lease[l]), LapseReason(lease[l]))
  /\ UNCHANGED <<now, links, command, windows, nextMaintenanceAt>>

\* The audit record of a grant cannot be written: the browser gets an error, and the
\* lease stays.
GrantAuditFails(l) ==
  /\ ~lease[l].answered
  /\ lease' = [lease EXCEPT ![l] = Answered(@)]
  /\ UNCHANGED <<now, links, request, command, windows, nextMaintenanceAt>>

\* access.deny
Deny(c, q) ==
  /\ conn[c] = "browser"
  /\ Pending(SweptRequest(q))
  /\ Sweep
  /\ request' = [SweptRequests EXCEPT ![q].status = "denied", ![q].terminalAt = now]
  /\ lease' = SweptLeases
  /\ UNCHANGED <<now, links, command, windows>>

\* access.revoke by the agent whose session owns the lease
AgentRevoke(c, l) ==
  /\ CallsAsAgent(c)
  /\ SweptLease(l).stored /\ lease[l].session = c
  /\ RevokeInCall(l, "AGENT_REVOKED")
  /\ UNCHANGED <<now, links, command, windows>>

\* access.revoke by a browser of the instance the lease was granted in
BrowserRevoke(c, l, reason) ==
  /\ conn[c] = "browser"
  /\ SweptLease(l).stored /\ lease[l].instance = instanceOf[c]
  /\ RevokeInCall(l, reason)
  /\ UNCHANGED <<now, links, command, windows>>

-----------------------------------------------------------------------------
(* Commands: execute, navigate, executeWithLease *)

RequiredScopes(kind) ==
  CASE kind = "snapshot" -> {"page.a11y.read", "data.egress.model"}
    [] kind = "highlight" -> {"page.highlight"}
    [] kind = "scroll" -> {"page.scroll"}
    [] kind = "navigate" -> {"page.navigate.same_origin"}

\* Mutant of Usable: requireOwnedLease is called with active = false.
UsableInactive(x, c, kind) ==
  x.stored /\ x.session = c /\ RequiredScopes(kind) \subseteq x.scopes

\* requireOwnedLease and requireScope: the caller may try to use this lease.
Usable(x, c, kind) ==
  x.stored /\ x.session = c /\ Live(x) /\ RequiredScopes(kind) \subseteq x.scopes

CommandWindowOver(x) == now - x.windowStartedAt >= CommandWindow

\* Mutant of WithinBudgets: one command more than the limit may be in flight.
WithinLooseBudgets(x) ==
  /\ x.inFlight <= MaxInFlight
  /\ CommandWindowOver(x) \/ x.commandsInWindow < CommandsPerWindow
  /\ x.remainingUses > 0

\* authorizeCommand (of the policy only the use budget can refuse a lease that is
\* active) and the checks of reserveCommand.  A highlight refused for want of uses may
\* restart the command window first; nothing reads the window of such a lease again.
WithinBudgets(x) ==
  /\ x.inFlight < MaxInFlight
  /\ CommandWindowOver(x) \/ x.commandsInWindow < CommandsPerWindow
  /\ x.remainingUses > 0

\* what reserveCommand takes from the lease
Reserved(x) ==
  [x EXCEPT !.windowStartedAt = IF CommandWindowOver(x) THEN now ELSE @,
            !.commandsInWindow = IF CommandWindowOver(x) THEN 1 ELSE @ + 1,
            !.inFlight = @ + 1, !.remainingUses = @ - 1, !.lastUsedAt = now]

\* The call is admitted and sent to the browser.
Admit(c, k, l, kind) ==
  /\ CallsAsAgent(c)
  /\ command[k].pc = "idle"
  /\ Usable(SweptLease(l), c, kind)
  /\ browsers[lease[l].instance] # None
  /\ WithinBudgets(SweptLease(l))
  /\ Sweep
  /\ lease' = [SweptLeases EXCEPT ![l] = Reserved(@)]
  /\ request' = SweptRequests
  /\ command' = [command EXCEPT ![k] =
       [pc |-> "sent", lease |-> l, kind |-> kind,
        via |-> browsers[lease[l].instance], bytes |-> 0]]
  /\ UNCHANGED <<now, links, windows>>

\* The call finds that no browser is registered for the lease.
AdmitWithoutBrowser(c, l, kind) ==
  /\ CallsAsAgent(c)
  /\ Usable(SweptLease(l), c, kind)
  /\ browsers[lease[l].instance] = None
  /\ RevokeInCall(l, "BROWSER_DISCONNECTED")
  /\ UNCHANGED <<now, links, command, windows>>

\* reserveSnapshotEgress accepts a result of this size.
FitsEgress(x, kind, bytes) ==
  kind = "snapshot" => bytes <= SnapshotMax /\ bytes <= x.remainingEgress

\* Only a snapshot is measured.
Measured(kind, bytes) == IF kind = "snapshot" THEN bytes ELSE 0

Charged(x, bytes) == [x EXCEPT !.remainingEgress = @ - bytes]
Refunded(x, bytes) == [x EXCEPT !.remainingEgress = @ + bytes]

\* The browser answers and the result is accepted: egress is reserved, and the result
\* waits for its audit record.
ResultAccepted(k, bytes) ==
  LET l == command[k].lease IN
  /\ command[k].pc = "sent" /\ conn[command[k].via] = "browser"
  /\ Live(lease[l]) /\ LapseReason(lease[l]) = None
  /\ FitsEgress(lease[l], command[k].kind, bytes)
  /\ command' = [command EXCEPT ![k].pc = "auditing", ![k].via = None,
                                ![k].bytes = Measured(command[k].kind, bytes)]
  /\ lease' = [lease EXCEPT ![l] = Charged(@, Measured(command[k].kind, bytes))]
  /\ UNCHANGED <<now, links, request, windows, nextMaintenanceAt>>

\* The browser answers and the result is refused: the lease was revoked meanwhile, or
\* is now found lapsed and revoked, or the result is too large.
ResultRefused(k, bytes) ==
  LET l == command[k].lease
      why == LapseReason(lease[l]) IN
  /\ command[k].pc = "sent" /\ conn[command[k].via] = "browser"
  /\ ~Live(lease[l]) \/ why # None \/ ~FitsEgress(lease[l], command[k].kind, bytes)
  /\ command' = [command EXCEPT ![k].pc = "denying", ![k].via = None]
  /\ RevokeLease(l, lease[l], why)
  /\ UNCHANGED <<now, links, windows, nextMaintenanceAt>>

\* Mutant of CommandFails: there is no timer, a call ends when its connection closes.
CommandFailsWithConnection(k) ==
  /\ command[k].pc = "sent" /\ conn[command[k].via] # "browser"
  /\ command' = [command EXCEPT ![k].pc = "denying", ![k].via = None]
  /\ UNCHANGED <<now, links, request, lease, windows, nextMaintenanceAt>>

\* The browser answers with an error, 15 s pass without an answer, or its connection
\* has closed; an answer that comes later is dropped by RpcPeer.
CommandFails(k) ==
  /\ command[k].pc = "sent"
  /\ command' = [command EXCEPT ![k].pc = "denying", ![k].via = None]
  /\ UNCHANGED <<now, links, request, lease, windows, nextMaintenanceAt>>

\* Mutant of AuditFails: the reserved egress is not given back.
AuditFailsWithoutRefund(k) ==
  /\ command[k].pc = "auditing"
  /\ command' = [command EXCEPT ![k].pc = "denying", ![k].bytes = 0]
  /\ UNCHANGED <<now, links, request, lease, windows, nextMaintenanceAt>>

\* The audit record of an accepted result cannot be written: the egress is given back.
AuditFails(k) ==
  /\ command[k].pc = "auditing"
  /\ command' = [command EXCEPT ![k].pc = "denying", ![k].bytes = 0]
  /\ lease' = [lease EXCEPT ![command[k].lease] = Refunded(@, command[k].bytes)]
  /\ UNCHANGED <<now, links, request, windows, nextMaintenanceAt>>

Spent(x) == x.remainingUses <= 0 /\ x.inFlight = 0

\* The finally block: the slot is free again, and a lease without uses is revoked when
\* its last command has settled.
Freed(x) == [x EXCEPT !.inFlight = @ - 1]

\* Mutant of Settle: a lease without uses is left to the next call.
SettleWithoutRevoking(l) == RevokeLease(l, Freed(lease[l]), None)

Settle(l) ==
  LET x == Freed(lease[l])
  IN  RevokeLease(l, x, IF Spent(x) THEN "USE_LIMIT_EXHAUSTED" ELSE None)

\* The audit record is written: the result goes to the agent.
ResultReturned(k) ==
  /\ command[k].pc = "auditing"
  /\ command' = [command EXCEPT ![k].pc = "result"]
  /\ Settle(command[k].lease)
  /\ UNCHANGED <<now, links, windows, nextMaintenanceAt>>

\* The denial's audit record is written, or fails: the agent gets an error either way.
ErrorReturned(k) ==
  /\ command[k].pc = "denying"
  /\ command' = [command EXCEPT ![k].pc = "error"]
  /\ Settle(command[k].lease)
  /\ UNCHANGED <<now, links, windows, nextMaintenanceAt>>

\* Date.now(); bounded by MaxTime.
Tick ==
  /\ now < MaxTime
  /\ now' = now + 1
  /\ UNCHANGED <<links, request, lease, command, windows, nextMaintenanceAt>>

-----------------------------------------------------------------------------
AgentCall(c) ==
  \/ \E r \in Requests, scopes \in ScopeChoices : RequestAccess(c, r, scopes)
  \/ RefuseRequest(c)
  \/ \E l \in Leases : AgentRevoke(c, l)
  \/ \E k \in Commands, l \in Leases, kind \in Kinds : Admit(c, k, l, kind)
  \/ \E l \in Leases, kind \in Kinds : AdmitWithoutBrowser(c, l, kind)

BrowserCall(c) ==
  \/ \E i \in Instances : RegisterBrowser(c, i)
  \/ \E q \in Requests, l \in Leases, scopes \in ScopeChoices, ttl \in GrantTTLs :
       Grant(c, q, l, scopes, ttl)
  \/ \E q \in Requests : Deny(c, q)
  \/ \E l \in Leases, reason \in BrowserReasons : BrowserRevoke(c, l, reason)

CommandStep(k) ==
  \/ \E bytes \in ByteChoices : ResultAccepted(k, bytes) \/ ResultRefused(k, bytes)
  \/ CommandFails(k)
  \/ AuditFails(k)
  \/ ResultReturned(k)
  \/ ErrorReturned(k)

Next ==
  \/ \E c \in Conns :
       Hello(c) \/ UpgradeBegins(c) \/ UpgradeEnds(c) \/ Close(c) \/ ReadOrRefused(c)
         \/ AgentCall(c) \/ BrowserCall(c)
  \/ \E l \in Leases : GrantAnswered(l) \/ GrantAuditFails(l)
  \/ \E k \in Commands : CommandStep(k)
  \/ Tick

Spec == Init /\ [][Next]_vars

\* RpcPeer's timer ends every call that the browser leaves unanswered, and an append to
\* the audit log completes or fails: nothing else is assumed to happen.
Fairness ==
  \A k \in Commands :
    WF_vars(CommandFails(k)) /\ WF_vars(ResultReturned(k)) /\ WF_vars(ErrorReturned(k))

FairSpec == Spec /\ Fairness

-----------------------------------------------------------------------------
(* Safety *)

AgentConnected(session) == session \in Conns /\ conn[session] = "agent"

\* Authority never outlives the session that asked for it: a pending request and a live
\* lease belong to a session whose agent is still connected, whatever order disconnects,
\* grants, upgrades and evictions come in (unless peers pipeline).
\* A live lease is also never lost from the leases Map, where only disconnected() and
\* the sweep can find it.
AuthorityEndsWithSession ==
  /\ \A r \in Requests : Pending(request[r]) => AgentConnected(request[r].session)
  /\ \A l \in Leases :
       Live(lease[l]) => lease[l].stored /\ AgentConnected(lease[l].session)

\* The two records of one decision agree: a request has at most one lease and a lease
\* one request, of the same session and no wider in scope; and while the request is
\* retained its status is granted exactly as long as the lease is live.
LeaseTrail ==
  /\ \A l \in Leases : lease[l].request # None =>
       LET q == request[lease[l].request] IN
       /\ q.lease = l /\ q.session = lease[l].session /\ lease[l].scopes \subseteq q.scopes
       /\ q.stored => /\ q.status = "granted" <=> Live(lease[l])
                      /\ q.status = "expired" <=> lease[l].reason = "LEASE_EXPIRED"
  /\ \A r \in Requests : request[r].lease # None => lease[request[r].lease].request = r

\* A browser's connection takes with it, when it closes, its place in the browsers Map and
\* the leases of its instance, whatever was registered, replaced, granted and revoked
\* around it, and in whatever order connections of one instance close (registerBrowser,
\* disconnected).  What stays is only what a connection that names another instance
\* since had as the first.
BrowsersLeave ==
  /\ \A i \in Instances : browsers[i] # None =>
       LET c == browsers[i] IN
       conn[c] = "browser" \/ (conn[c] = "closed" /\ instanceOf[c] \notin {None, i})
  /\ \A l \in Leases : Live(lease[l]) =>
       \E c \in Conns :
         \/ conn[c] = "browser" /\ instanceOf[c] = lease[l].instance
         \/ instanceOf[c] \notin {None, lease[l].instance}

Outstanding(l) ==
  {k \in Commands : command[k].lease = l /\ command[k].pc \in {"sent", "auditing", "denying"}}

\* The in-flight counter is the number of calls that have not returned, through every
\* mixture of results, failures, timeouts and audit errors, so the slots neither leak
\* nor are handed out twice, and never exceed the limit.
InFlightMatches ==
  \A l \in Leases :
    lease[l].inFlight = Cardinality(Outstanding(l)) /\ lease[l].inFlight <= MaxInFlight

\* Every admitted command, and nothing else, takes one use, uses never run below zero,
\* and a lease without uses does not stay live once its last command has settled.
UsesAccounted ==
  \A l \in Leases : lease[l].request # None =>
    /\ lease[l].remainingUses = UseLimit - Cardinality({k \in Commands : command[k].lease = l})
    /\ lease[l].remainingUses >= 0
    /\ Spent(lease[l]) => ~Live(lease[l])

EgressGranted(x) == IF "data.egress.model" \in x.scopes THEN EgressBudget ELSE 0

EgressHeld(l) ==
  MapThenSumSet(LAMBDA k : command[k].bytes,
    {k \in Commands : command[k].lease = l /\ command[k].pc \in {"auditing", "result"}})

\* The bytes returned, those reserved by results still being audited and those left
\* over always add up to what was granted: concurrent snapshots cannot overspend, and
\* a refund happens once, on the failure it belongs to.
EgressAccounted ==
  \A l \in Leases : lease[l].request # None =>
    /\ lease[l].remainingEgress + EgressHeld(l) = EgressGranted(lease[l])
    /\ lease[l].remainingEgress >= 0

\* The Maps stay within their limits, and so do the pending requests of each session.
RecordsBounded ==
  /\ Cardinality(StoredRequests(request)) <= RequestRecordLimit
  /\ Cardinality(StoredLeases(lease)) <= LeaseRecordLimit
  /\ Cardinality(PendingIn(request)) <= PendingGlobal
  /\ \A c \in Conns :
       Cardinality({r \in PendingIn(request) : request[r].session = c}) <= PendingPerSession

CreatedAt(x) == x.expiresAt - RequestTTL

CreatedSince(t) == {r \in Requests : request[r].status # "unused" /\ CreatedAt(request[r]) >= t}

\* The fixed windows count at least the requests created in them, also when records
\* were denied, evicted or pruned since: a session's window and the global one never
\* let more through than their limits.
RateWindowsHold ==
  /\ Cardinality(CreatedSince(globalWindow.startedAt)) <= globalWindow.count
  /\ globalWindow.count <= RequestsGlobal
  /\ \A c \in Conns :
       /\ Cardinality({r \in CreatedSince(sessionWindow[c].startedAt) :
                         request[r].session = c}) <= sessionWindow[c].count
       /\ sessionWindow[c].count <= RequestsPerSession

-----------------------------------------------------------------------------
(* What a step may never do *)

Ended == {"denied", "expired", "revoked"}

\* An end is final: a revoked lease keeps its reason and time and gets no command, a
\* closed request is not reopened or closed again with another verdict.
EndIsFinal ==
  /\ \A l \in Leases : lease[l].revokedAt # 0 =>
       /\ lease'[l].revokedAt = lease[l].revokedAt /\ lease'[l].reason = lease[l].reason
       /\ lease'[l].remainingUses = lease[l].remainingUses
  /\ \A r \in Requests : request[r].status \in Ended =>
       request'[r].status = request[r].status /\ request'[r].terminalAt = request[r].terminalAt

EndStaysFinal == [][EndIsFinal]_vars

\* Expiry is lazy, found by the sweep or a check and never by a timer, and still no
\* command is sent, and no result accepted, past the lifetime or idle time of its lease.
UsedInTime ==
  \A k \in Commands :
    (\/ command[k].pc = "idle" /\ command'[k].pc = "sent"
     \/ command[k].pc = "sent" /\ command'[k].pc = "auditing")
    => LET x == lease[command'[k].lease] IN
       now < x.expiresAt /\ now < x.lastUsedAt + IdleTimeout /\ Live(x)

LeasesUsedInTime == [][UsedInTime]_vars

\* Records leave the Maps only when they are over, and then only because they have been
\* over for the retention time or because the Map is full and they were over longest.
RecordLeaves ==
  /\ \A r \in Requests : request[r].stored /\ ~request'[r].stored =>
       /\ request'[r].status # "pending"
       /\ \/ Stale(request'[r].terminalAt)
          \/ /\ Cardinality(StoredRequests(request)) = RequestRecordLimit
             /\ \A q \in StoredRequests(request') :
                  request'[q].status = "pending"
                    \/ request'[r].terminalAt <= request'[q].terminalAt
  /\ \A l \in Leases : lease[l].stored /\ ~lease'[l].stored =>
       /\ ~Live(lease'[l])
       /\ \/ Stale(lease'[l].revokedAt)
          \/ /\ Cardinality(StoredLeases(lease)) = LeaseRecordLimit
             /\ \A m \in StoredLeases(lease') :
                  Live(lease'[m]) \/ lease'[l].revokedAt <= lease'[m].revokedAt

RecordsRetained == [][RecordLeaves]_vars

-----------------------------------------------------------------------------
(* Liveness, of FairSpec *)

\* Every admitted command comes back to its agent, with a result or an error, whatever
\* the browser, its connection, the audit log and the other calls do.
CommandsSettle ==
  \A k \in Commands :
    command[k].pc \in {"sent", "auditing", "denying"} ~> command[k].pc \in {"result", "error"}

-----------------------------------------------------------------------------
(* Refinement *)

Standing(x) == IF x.request = None THEN "unissued" ELSE IF Live(x) THEN "live" ELSE "over"

Outcome(k) ==
  IF command[k].pc \in {"idle", "result", "error"} THEN command[k].pc ELSE "running"

Authority == INSTANCE LeaseAuthority WITH
  standing <- [l \in Leases |-> Standing(lease[l])],
  under <- [k \in Commands |-> command[k].lease],
  outcome <- [k \in Commands |-> Outcome(k)]

\* The broker implements LeaseAuthority: through every sweep, eviction, disconnect, lapse
\* and failed audit record, a lease is issued once and never lives again after its end,
\* no call is dispatched under a lease that is not live or has no use left, and every
\* call returns at most once.
ImplementsAuthority == Authority!AuthoritySpec

=============================================================================
