-------------------------- MODULE BrokerStateProofs --------------------------
(* What holds of BrokerState for every number of connections, records and commands  *)
(* and every value of the limits.                                                   *)
EXTENDS BrokerState, TLAPS

-----------------------------------------------------------------------------
(* Type correctness *)

\* revokeLease leaves a lease a lease.
LEMMA RevokedType ==
  ASSUME now \in Positive, NEW x \in LeaseRecord, NEW why \in Reasons \cup {None}
  PROVE  Revoked(x, why) \in LeaseRecord
BY DEF Revoked, LeaseRecord, Positive

\* revokeLease leaves the request of a lease a request, whatever lease is revoked.
LEMMA ClosedWithType ==
  ASSUME now \in Positive, NEW q \in RequestRecord, NEW x, NEW why
  PROVE  ClosedWith(q, x, why) \in RequestRecord
BY DEF ClosedWith, RequestRecord, RequestStatus, Positive

\* A lease lapses for one of the known reasons.
LEMMA LapseReasonType ==
  ASSUME NEW x
  PROVE  /\ LapseReason(x) \in Reasons \cup {None}
         /\ SweepReason(x) \in Reasons \cup {None}
BY DEF LapseReason, SweepReason, Reasons, BrowserReasons

\* A record that leaves its Map is still a record.
LEMMA DroppedType ==
  /\ \A q \in RequestRecord : Dropped(q) \in RequestRecord
  /\ \A x \in LeaseRecord : Dropped(x) \in LeaseRecord
BY DEF Dropped, RequestRecord, LeaseRecord

\* maintainState() leaves records of the same types.
LEMMA SweptType ==
  ASSUME TypeOK
  PROVE  /\ SweptRequests \in [Requests -> RequestRecord]
         /\ SweptLeases \in [Leases -> LeaseRecord]
<1>1. ASSUME NEW r \in Requests PROVE SweptRequest(r) \in RequestRecord
  <2>1. request[r] \in RequestRecord /\ now \in Positive
    BY <1>1 DEF TypeOK
  <2>2. PendingExpired(request[r]) \in RequestRecord
    BY <2>1 DEF PendingExpired, RequestRecord, RequestStatus, Positive
  <2>3. ExpiredRequest(request[r]) \in RequestRecord
    BY <2>1, <2>2, ClosedWithType DEF ExpiredRequest
  <2> QED
    BY <2>3, DroppedType DEF SweptRequest
<1>2. ASSUME NEW l \in Leases PROVE SweptLease(l) \in LeaseRecord
  <2>1. lease[l] \in LeaseRecord /\ now \in Positive
    BY <1>2 DEF TypeOK
  <2>2. ExpiredLease(lease[l]) \in LeaseRecord
    BY <2>1, LapseReasonType, RevokedType DEF ExpiredLease
  <2> QED
    BY <2>2, DroppedType DEF SweptLease
<1> QED
  BY <1>1, <1>2 DEF SweptRequests, SweptLeases

\* disconnected() leaves browsers and records of the same types.
LEMMA DisconnectedType ==
  ASSUME TypeOK, NEW c \in Conns, Disconnected(c)
  PROVE  /\ browsers' \in [Instances -> Conns \cup {None}]
         /\ request' \in [Requests -> RequestRecord]
         /\ lease' \in [Leases -> LeaseRecord]
<1>1. browsers' \in [Instances -> Conns \cup {None}]
  BY DEF Disconnected, TypeOK
<1>2. ASSUME NEW r \in Requests PROVE DisconnectedRequest(c, request[r]) \in RequestRecord
  <2>1. request[r] \in RequestRecord /\ now \in Positive
    BY <1>2 DEF TypeOK
  <2>2. [request[r] EXCEPT !.status = "revoked", !.terminalAt = now] \in RequestRecord
    BY <2>1 DEF RequestRecord, RequestStatus, Positive
  <2> QED
    BY <2>1, <2>2, ClosedWithType DEF DisconnectedRequest
<1>3. ASSUME NEW l \in Leases
      PROVE  Revoked(lease[l], DisconnectReason(c, lease[l])) \in LeaseRecord
  <2>1. lease[l] \in LeaseRecord /\ now \in Positive
    BY <1>3 DEF TypeOK
  <2>2. DisconnectReason(c, lease[l]) \in Reasons \cup {None}
    BY DEF DisconnectReason, Reasons, BrowserReasons
  <2> QED
    BY <2>1, <2>2, RevokedType
<1> QED
  BY <1>1, <1>2, <1>3 DEF Disconnected

\* A revocation leaves records of the same types, in a call and between calls.
LEMMA RevocationType ==
  ASSUME TypeOK, NEW l, NEW why \in Reasons \cup {None}
  PROVE  /\ RevokeInCall(l, why) =>
              /\ request' \in [Requests -> RequestRecord]
              /\ lease' \in [Leases -> LeaseRecord]
         /\ \A x \in LeaseRecord : RevokeLease(l, x, why) =>
              /\ request' \in [Requests -> RequestRecord]
              /\ lease' \in [Leases -> LeaseRecord]
<1>1. now \in Positive
  BY DEF TypeOK
<1>2. ASSUME RevokeInCall(l, why)
      PROVE  /\ request' \in [Requests -> RequestRecord]
             /\ lease' \in [Leases -> LeaseRecord]
  BY <1>1, <1>2, SweptType, RevokedType, ClosedWithType DEF RevokeInCall
<1>3. ASSUME NEW x \in LeaseRecord, RevokeLease(l, x, why)
      PROVE  /\ request' \in [Requests -> RequestRecord]
             /\ lease' \in [Leases -> LeaseRecord]
  BY <1>1, <1>3, RevokedType, ClosedWithType DEF RevokeLease, TypeOK
<1> QED
  BY <1>2, <1>3

\* A rate window that is counted stays a window.
LEMMA ReserveRateType ==
  ASSUME TypeOK, NEW c \in Conns, ReserveRate(c)
  PROVE  sessionWindow' \in [Conns -> Window] /\ globalWindow' \in Window
<1>1. ASSUME NEW w \in Window
      PROVE  /\ ResetIfNeeded(w) \in Window
             /\ [ResetIfNeeded(w) EXCEPT !.count = @ + 1] \in Window
  <2>1. ResetIfNeeded(w) \in Window
    BY DEF ResetIfNeeded, Window, TypeOK, Positive
  <2>2. \A v \in Window : [v EXCEPT !.count = @ + 1] \in Window
    BY DEF Window
  <2> QED
    BY <2>1, <2>2
<1> QED
  BY <1>1 DEF ReserveRate, TypeOK

\* Making room only takes records out of the Map.
LEMMA RoomType ==
  /\ \A R \in [Requests -> RequestRecord] : RoomForRequest(R) \subseteq [Requests -> RequestRecord]
  /\ \A L \in [Leases -> LeaseRecord] : RoomForLease(L) \subseteq [Leases -> LeaseRecord]
<1>1. ASSUME NEW R \in [Requests -> RequestRecord], NEW S \in RoomForRequest(R)
      PROVE  S \in [Requests -> RequestRecord]
  <2>1. S = R \/ \E r \in Requests : S = [R EXCEPT ![r].stored = FALSE]
    BY DEF RoomForRequest, StoredRequests
  <2>2. ASSUME NEW r \in Requests PROVE [R EXCEPT ![r].stored = FALSE] \in [Requests -> RequestRecord]
    <3>1. Dropped(R[r]) \in RequestRecord
      BY <2>2, DroppedType
    <3>2. [R EXCEPT ![r].stored = FALSE] = [R EXCEPT ![r] = Dropped(R[r])]
      BY DEF Dropped
    <3> QED
      BY <3>1, <3>2
  <2> QED
    BY <2>1, <2>2
<1>2. ASSUME NEW L \in [Leases -> LeaseRecord], NEW M \in RoomForLease(L)
      PROVE  M \in [Leases -> LeaseRecord]
  <2>1. M = L \/ \E l \in Leases : M = [L EXCEPT ![l].stored = FALSE]
    BY DEF RoomForLease, StoredLeases
  <2>2. ASSUME NEW l \in Leases PROVE [L EXCEPT ![l].stored = FALSE] \in [Leases -> LeaseRecord]
    <3>1. Dropped(L[l]) \in LeaseRecord
      BY <2>2, DroppedType
    <3>2. [L EXCEPT ![l].stored = FALSE] = [L EXCEPT ![l] = Dropped(L[l])]
      BY DEF Dropped
    <3> QED
      BY <3>1, <3>2
  <2> QED
    BY <2>1, <2>2
<1> QED
  BY <1>1, <1>2

\* Every call of the broker reads the clock in the same way.
LEMMA SweepType ==
  ASSUME TypeOK, Sweep
  PROVE  nextMaintenanceAt' \in Nat
BY LimitsAssumption DEF Sweep, TypeOK, Positive

LEMMA TypeInit == Init => TypeOK
<1> SUFFICES ASSUME Init PROVE TypeOK
  OBVIOUS
<1>1. NoRequest \in RequestRecord
  BY DEF NoRequest, RequestRecord, RequestStatus
<1>2. NoLease \in LeaseRecord
  BY DEF NoLease, LeaseRecord
<1>3. NoCommand \in CommandRecord
  BY DEF NoCommand, CommandRecord
<1>4. NoWindow \in Window
  BY DEF NoWindow, Window
<1> QED
  BY <1>1, <1>2, <1>3, <1>4 DEF Init, TypeOK, ConnStates, Positive

LEMMA TypeOfConnections ==
  ASSUME TypeOK, NEW c \in Conns,
         \/ Hello(c) \/ UpgradeBegins(c) \/ UpgradeEnds(c) \/ Close(c) \/ ReadOrRefused(c)
         \/ \E i \in Instances : RegisterBrowser(c, i)
  PROVE  TypeOK'
<1>1. CASE Hello(c)
  BY <1>1 DEF Hello, TypeOK, ConnStates, windows
<1>2. CASE UpgradeBegins(c)
  BY <1>2, DisconnectedType DEF UpgradeBegins, TypeOK, ConnStates, windows
<1>3. CASE Close(c)
  <2>1. /\ browsers' \in [Instances -> Conns \cup {None}]
        /\ request' \in [Requests -> RequestRecord]
        /\ lease' \in [Leases -> LeaseRecord]
    <3>1. CASE conn[c] = "new"
      BY <1>3, <3>1 DEF Close, TypeOK
    <3>2. CASE conn[c] # "new"
      BY <1>3, <3>2, DisconnectedType DEF Close
    <3> QED
      BY <3>1, <3>2
  <2> QED
    BY <1>3, <2>1 DEF Close, TypeOK, ConnStates, windows
<1>4. CASE ReadOrRefused(c)
  BY <1>4, SweptType, SweepType DEF ReadOrRefused, TypeOK, windows, links
<1>5. ASSUME NEW i \in Instances, RegisterBrowser(c, i) PROVE TypeOK'
  BY <1>5, SweptType, SweepType DEF RegisterBrowser, TypeOK, windows
<1>6. CASE UpgradeEnds(c)
  BY <1>6 DEF UpgradeEnds, TypeOK, ConnStates, windows
<1> QED
  BY <1>1, <1>2, <1>3, <1>4, <1>5, <1>6

\* A lease that exists was granted in a browser instance.
Placed == \A l \in Leases : lease[l].request # None => lease[l].instance \in Instances

LEMMA TypeOfAgentCall ==
  ASSUME TypeOK, Placed, NEW c \in Conns, AgentCall(c)
  PROVE  TypeOK'
<1>1. ASSUME NEW r \in Requests, NEW scopes \in ScopeChoices, RequestAccess(c, r, scopes)
      PROVE  TypeOK'
  <2>1. NewRequest(c, scopes) \in RequestRecord
    BY LimitsAssumption DEF NewRequest, RequestRecord, RequestStatus, TypeOK, Positive
  <2>2. request' \in [Requests -> RequestRecord]
    BY <1>1, <2>1, SweptType, RoomType DEF RequestAccess
  <2> QED
    BY <1>1, <2>2, SweptType, SweepType, ReserveRateType DEF RequestAccess, TypeOK, links
<1>2. CASE RefuseRequest(c)
  BY <1>2, SweptType, SweepType, ReserveRateType DEF RefuseRequest, TypeOK, links
<1>3. ASSUME NEW l \in Leases, AgentRevoke(c, l) PROVE TypeOK'
  <2>1. "AGENT_REVOKED" \in Reasons \cup {None}
    BY DEF Reasons
  <2> QED
    BY <1>3, <2>1, RevocationType, SweepType
    DEF AgentRevoke, RevokeInCall, TypeOK, links, windows
<1>4. ASSUME NEW k \in Commands, NEW l \in Leases, NEW kind \in Kinds, Admit(c, k, l, kind)
      PROVE  TypeOK'
  <2>1. ASSUME NEW x \in LeaseRecord PROVE Reserved(x) \in LeaseRecord
    <3>1. now \in Nat /\ x.commandsInWindow + 1 \in Nat
      BY <2>1 DEF LeaseRecord, TypeOK, Positive
    <3>2. x.inFlight + 1 \in Int /\ x.remainingUses - 1 \in Int
      BY <2>1 DEF LeaseRecord
    <3>3. CASE CommandWindowOver(x)
      BY <2>1, <3>1, <3>2, <3>3 DEF Reserved, LeaseRecord
    <3>4. CASE ~CommandWindowOver(x)
      BY <2>1, <3>1, <3>2, <3>4 DEF Reserved, LeaseRecord
    <3> QED
      BY <3>3, <3>4
  <2>2. lease' \in [Leases -> LeaseRecord]
    BY <1>4, <2>1, SweptType DEF Admit
  <2>3. lease[l].instance \in Instances
    BY <1>4 DEF Admit, Usable, Live, Placed, SweptLease, ExpiredLease, Revoked, Dropped
  <2>4. command' \in [Commands -> CommandRecord]
    BY <1>4, <2>3 DEF Admit, TypeOK, CommandRecord
  <2> QED
    BY <1>4, <2>2, <2>4, SweptType, SweepType DEF Admit, TypeOK, links, windows
<1>5. ASSUME NEW l \in Leases, NEW kind \in Kinds, AdmitWithoutBrowser(c, l, kind)
      PROVE  TypeOK'
  <2>1. "BROWSER_DISCONNECTED" \in Reasons \cup {None}
    BY DEF Reasons
  <2> QED
    BY <1>5, <2>1, RevocationType, SweepType
    DEF AdmitWithoutBrowser, RevokeInCall, TypeOK, links, windows
<1> QED
  BY <1>1, <1>2, <1>3, <1>4, <1>5 DEF AgentCall

LEMMA TypeOfBrowserCall ==
  ASSUME TypeOK, NEW c \in Conns, BrowserCall(c)
  PROVE  TypeOK'
<1>1. ASSUME NEW i \in Instances, RegisterBrowser(c, i) PROVE TypeOK'
  BY <1>1, TypeOfConnections
<1>2. ASSUME NEW q \in Requests, NEW l \in Leases, NEW scopes \in ScopeChoices,
             NEW ttl \in GrantTTLs, Grant(c, q, l, scopes, ttl)
      PROVE  TypeOK'
  <2>1. NewLease(q, request[q].session, instanceOf[c], scopes, ttl) \in LeaseRecord
    BY LimitsAssumption, InputsAssumption
    DEF NewLease, LeaseRecord, TypeOK, RequestRecord, Positive
  <2>2. lease' \in [Leases -> LeaseRecord]
    BY <1>2, <2>1, SweptType, RoomType DEF Grant
  <2>3. request' \in [Requests -> RequestRecord]
    <3>1. \A p \in RequestRecord :
            [p EXCEPT !.status = "granted", !.terminalAt = now, !.lease = l] \in RequestRecord
      BY DEF RequestRecord, RequestStatus, TypeOK, Positive
    <3>2. request' = [SweptRequests EXCEPT ![q] =
            [SweptRequests[q] EXCEPT !.status = "granted", !.terminalAt = now, !.lease = l]]
      BY <1>2 DEF Grant
    <3> QED
      BY <3>1, <3>2, SweptType
  <2> QED
    BY <1>2, <2>2, <2>3, SweepType DEF Grant, TypeOK, links, windows
<1>3. ASSUME NEW q \in Requests, Deny(c, q) PROVE TypeOK'
  <2>1. request' \in [Requests -> RequestRecord]
    <3>1. \A p \in RequestRecord :
            [p EXCEPT !.status = "denied", !.terminalAt = now] \in RequestRecord
      BY DEF RequestRecord, RequestStatus, TypeOK, Positive
    <3>2. request' = [SweptRequests EXCEPT ![q] =
            [SweptRequests[q] EXCEPT !.status = "denied", !.terminalAt = now]]
      BY <1>3 DEF Deny
    <3> QED
      BY <3>1, <3>2, SweptType
  <2> QED
    BY <1>3, <2>1, SweptType, SweepType DEF Deny, TypeOK, links, windows
<1>4. ASSUME NEW l \in Leases, NEW reason \in BrowserReasons, BrowserRevoke(c, l, reason)
      PROVE  TypeOK'
  <2>1. reason \in Reasons \cup {None}
    BY DEF Reasons
  <2> QED
    BY <1>4, <2>1, RevocationType, SweepType
    DEF BrowserRevoke, RevokeInCall, TypeOK, links, windows
<1> QED
  BY <1>1, <1>2, <1>3, <1>4 DEF BrowserCall

\* What the finally block does leaves records of the same types.
LEMMA SettleType ==
  ASSUME TypeOK, NEW l \in Leases \cup {None}, Settle(l)
  PROVE  /\ request' \in [Requests -> RequestRecord]
         /\ lease' \in [Leases -> LeaseRecord]
<1> DEFINE x == Freed(lease[l])
           why == IF Spent(x) THEN "USE_LIMIT_EXHAUSTED" ELSE None
<1>1. why \in Reasons \cup {None}
  BY DEF Reasons
<1>2. RevokeLease(l, x, why)
  BY DEF Settle
<1> HIDE DEF why
<1>3. CASE l \in Leases
  <2>1. lease[l] \in LeaseRecord
    BY <1>3 DEF TypeOK
  <2>2. x \in LeaseRecord
    BY <2>1 DEF Freed, LeaseRecord
  <2> QED
    BY <1>1, <1>2, <2>2, RevocationType
<1>4. CASE l \notin Leases
  BY <1>2, <1>4, ClosedWithType DEF RevokeLease, TypeOK
<1> QED
  BY <1>3, <1>4

LEMMA TypeOfCommandStep ==
  ASSUME TypeOK, NEW k \in Commands, CommandStep(k)
  PROVE  TypeOK'
<1>1. command[k] \in CommandRecord /\ command[k].lease \in Leases \cup {None}
  BY DEF TypeOK, CommandRecord
<1>2. ASSUME NEW bytes \in ByteChoices, ResultAccepted(k, bytes) PROVE TypeOK'
  <2>1. Measured(command[k].kind, bytes) \in Nat
    BY InputsAssumption DEF Measured
  <2>2. command' \in [Commands -> CommandRecord]
    <3>1. [command[k] EXCEPT !.pc = "auditing", !.via = None,
             !.bytes = Measured(command[k].kind, bytes)] \in CommandRecord
      BY <1>1, <2>1 DEF CommandRecord
    <3> QED
      BY <1>2, <3>1 DEF ResultAccepted, TypeOK
  <2>3. lease' \in [Leases -> LeaseRecord]
    <3>1. \A x \in LeaseRecord : Charged(x, Measured(command[k].kind, bytes)) \in LeaseRecord
      BY <2>1 DEF Charged, LeaseRecord
    <3> QED
      BY <1>2, <3>1 DEF ResultAccepted, TypeOK
  <2> QED
    BY <1>2, <2>2, <2>3 DEF ResultAccepted, TypeOK, links, windows
<1>3. ASSUME NEW bytes \in ByteChoices, ResultRefused(k, bytes) PROVE TypeOK'
  <2> DEFINE l == command[k].lease
  <2>1. command' \in [Commands -> CommandRecord]
    BY <1>1, <1>3 DEF ResultRefused, TypeOK, CommandRecord
  <2>2. RevokeLease(l, lease[l], LapseReason(lease[l]))
    BY <1>3 DEF ResultRefused
  <2>3. request' \in [Requests -> RequestRecord] /\ lease' \in [Leases -> LeaseRecord]
    <3>1. CASE l \in Leases
      <4>1. lease[l] \in LeaseRecord
        BY <3>1 DEF TypeOK
      <4> QED
        BY <2>2, <4>1, LapseReasonType, RevocationType
    <3>2. CASE l \notin Leases
      BY <2>2, <3>2, ClosedWithType DEF RevokeLease, TypeOK
    <3> QED
      BY <3>1, <3>2
  <2> QED
    BY <1>3, <2>1, <2>3 DEF ResultRefused, TypeOK, links, windows
<1>4. CASE CommandFails(k)
  BY <1>1, <1>4 DEF CommandFails, TypeOK, CommandRecord, links, windows
<1>5. CASE AuditFails(k)
  <2>1. command' \in [Commands -> CommandRecord]
    BY <1>1, <1>5 DEF AuditFails, TypeOK, CommandRecord
  <2>2. \A x \in LeaseRecord : Refunded(x, command[k].bytes) \in LeaseRecord
    BY <1>1 DEF Refunded, LeaseRecord, CommandRecord
  <2> QED
    BY <1>5, <2>1, <2>2 DEF AuditFails, TypeOK, links, windows
<1>6. CASE ResultReturned(k)
  <2>1. command' \in [Commands -> CommandRecord]
    BY <1>1, <1>6 DEF ResultReturned, TypeOK, CommandRecord
  <2> QED
    BY <1>1, <1>6, <2>1, SettleType DEF ResultReturned, TypeOK, links, windows
<1>7. CASE ErrorReturned(k)
  <2>1. command' \in [Commands -> CommandRecord]
    BY <1>1, <1>7 DEF ErrorReturned, TypeOK, CommandRecord
  <2> QED
    BY <1>1, <1>7, <2>1, SettleType DEF ErrorReturned, TypeOK, links, windows
<1> QED
  BY <1>2, <1>3, <1>4, <1>5, <1>6, <1>7 DEF CommandStep

LEMMA TypeOfGrantAudit ==
  ASSUME TypeOK, NEW l \in Leases, GrantAnswered(l) \/ GrantAuditFails(l)
  PROVE  TypeOK'
<1>1. lease[l] \in LeaseRecord /\ Answered(lease[l]) \in LeaseRecord
  BY DEF TypeOK, Answered, LeaseRecord
<1>2. CASE GrantAnswered(l)
  BY <1>1, <1>2, LapseReasonType, RevocationType DEF GrantAnswered, TypeOK, links, windows
<1>3. CASE GrantAuditFails(l)
  BY <1>1, <1>3 DEF GrantAuditFails, TypeOK, links, windows
<1> QED
  BY <1>2, <1>3

-----------------------------------------------------------------------------
(* What a step does to the records.  Nineteen actions change the two Maps in eight  *)
(* ways only; what follows is proved of each way.                                   *)

\* The lease y is x with other counters.
Touched(x, y) ==
  /\ y \in LeaseRecord
  /\ y.stored = x.stored /\ y.request = x.request /\ y.session = x.session
  /\ y.instance = x.instance /\ y.scopes = x.scopes
  /\ y.revokedAt = x.revokedAt /\ y.reason = x.reason /\ y.remainingUses = x.remainingUses

TouchAndRevoke ==
  \E l \in Leases : \E x \in LeaseRecord : \E why \in Reasons \cup {None} :
    Touched(lease[l], x) /\ RevokeLease(l, x, why)

RevokeAfterSweep == \E l \in Leases, why \in Reasons : RevokeInCall(l, why)

JustSweep == request' = SweptRequests /\ lease' = SweptLeases

SomeRequest == \E c \in Conns, r \in Requests, scopes \in ScopeChoices : RequestAccess(c, r, scopes)
SomeDeny == \E c \in Conns, q \in Requests : Deny(c, q)
SomeGrant ==
  \E c \in Conns, q \in Requests, l \in Leases, scopes \in ScopeChoices, ttl \in GrantTTLs :
    Grant(c, q, l, scopes, ttl)
SomeAdmit ==
  \E c \in Conns, k \in Commands, l \in Leases, kind \in Kinds : Admit(c, k, l, kind)
SomeEnd ==
  \E c \in Conns : Disconnected(c) /\ (UpgradeBegins(c) \/ (Close(c) /\ conn[c] # "new"))

\* A command that was admitted names its lease.
Addressed == \A k \in Commands : command[k].pc # "idle" => command[k].lease \in Leases

LEMMA StepShape ==
  ASSUME TypeOK, Addressed, Next
  PROVE  \/ UNCHANGED <<request, lease>>
         \/ JustSweep \/ RevokeAfterSweep \/ TouchAndRevoke
         \/ SomeRequest \/ SomeDeny \/ SomeGrant \/ SomeAdmit \/ SomeEnd
<1> DEFINE Goal ==
      \/ UNCHANGED <<request, lease>>
      \/ JustSweep \/ RevokeAfterSweep \/ TouchAndRevoke
      \/ SomeRequest \/ SomeDeny \/ SomeGrant \/ SomeAdmit \/ SomeEnd
<1>1. ASSUME NEW l \in Leases, NEW x \in LeaseRecord, Touched(lease[l], x),
             lease' = [lease EXCEPT ![l] = x], request' = request
      PROVE  TouchAndRevoke
  <2>1. Revoked(x, None) = x /\ \A q : ClosedWith(q, x, None) = q
    BY DEF Revoked, ClosedWith
  <2>2. RevokeLease(l, x, None)
    BY <1>1, <2>1 DEF RevokeLease, TypeOK
  <2> QED
    BY <1>1, <2>2 DEF TouchAndRevoke
<1>2. ASSUME NEW c \in Conns,
             Hello(c) \/ UpgradeBegins(c) \/ UpgradeEnds(c) \/ Close(c) \/ ReadOrRefused(c)
      PROVE  Goal
  <2>1. CASE Hello(c) \/ UpgradeEnds(c)
    BY <2>1 DEF Hello, UpgradeEnds
  <2>2. CASE UpgradeBegins(c)
    BY <2>2 DEF UpgradeBegins, SomeEnd
  <2>3. CASE Close(c)
    BY <2>3 DEF Close, SomeEnd
  <2>4. CASE ReadOrRefused(c)
    BY <2>4 DEF ReadOrRefused, JustSweep
  <2> QED
    BY <1>2, <2>1, <2>2, <2>3, <2>4
<1>3. ASSUME NEW c \in Conns, AgentCall(c) PROVE Goal
  <2>1. CASE RefuseRequest(c)
    BY <2>1 DEF RefuseRequest, JustSweep
  <2>2. ASSUME NEW l \in Leases, AgentRevoke(c, l) PROVE Goal
    BY <2>2 DEF AgentRevoke, RevokeAfterSweep, Reasons
  <2>3. ASSUME NEW l \in Leases, NEW kind \in Kinds, AdmitWithoutBrowser(c, l, kind) PROVE Goal
    BY <2>3 DEF AdmitWithoutBrowser, RevokeAfterSweep, Reasons
  <2> QED
    BY <1>3, <2>1, <2>2, <2>3 DEF AgentCall, SomeRequest, SomeAdmit
<1>4. ASSUME NEW c \in Conns, BrowserCall(c) PROVE Goal
  <2>1. ASSUME NEW i \in Instances, RegisterBrowser(c, i) PROVE Goal
    BY <2>1 DEF RegisterBrowser, JustSweep
  <2>2. ASSUME NEW l \in Leases, NEW reason \in BrowserReasons, BrowserRevoke(c, l, reason)
        PROVE  Goal
    BY <2>2 DEF BrowserRevoke, RevokeAfterSweep, Reasons
  <2> QED
    BY <1>4, <2>1, <2>2 DEF BrowserCall, SomeGrant, SomeDeny
<1>5. ASSUME NEW l \in Leases, GrantAnswered(l) \/ GrantAuditFails(l) PROVE Goal
  <2>1. lease[l] \in LeaseRecord
    BY DEF TypeOK
  <2>2. Answered(lease[l]) \in LeaseRecord /\ Touched(lease[l], Answered(lease[l]))
    BY <2>1 DEF Answered, Touched, LeaseRecord
  <2>3. CASE GrantAnswered(l)
    BY <2>2, <2>3, LapseReasonType DEF GrantAnswered, TouchAndRevoke
  <2>4. CASE GrantAuditFails(l)
    BY <1>1, <2>2, <2>4 DEF GrantAuditFails
  <2> QED
    BY <1>5, <2>3, <2>4
<1>6. ASSUME NEW k \in Commands, CommandStep(k) PROVE Goal
  <2> DEFINE l == command[k].lease
  <2>1. CASE CommandFails(k)
    BY <2>1 DEF CommandFails
  <2>2. ASSUME ~CommandFails(k) PROVE Goal
    <3>1. l \in Leases /\ lease[l] \in LeaseRecord
      BY <1>6, <2>2
      DEF CommandStep, ResultAccepted, ResultRefused, AuditFails, ResultReturned, ErrorReturned,
          Addressed, TypeOK
    <3>2. ASSUME NEW bytes \in ByteChoices, ResultAccepted(k, bytes) PROVE Goal
      <4> DEFINE x == Charged(lease[l], Measured(command[k].kind, bytes))
      <4>1. Measured(command[k].kind, bytes) \in Int
        BY InputsAssumption DEF Measured
      <4>2. x \in LeaseRecord /\ Touched(lease[l], x)
        BY <3>1, <4>1 DEF Charged, Touched, LeaseRecord
      <4> QED
        BY <1>1, <3>1, <3>2, <4>2 DEF ResultAccepted
    <3>3. ASSUME NEW bytes \in ByteChoices, ResultRefused(k, bytes) PROVE Goal
      <4>1. Touched(lease[l], lease[l])
        BY <3>1 DEF Touched
      <4> QED
        BY <3>1, <3>3, <4>1, LapseReasonType DEF ResultRefused, TouchAndRevoke
    <3>4. CASE AuditFails(k)
      <4> DEFINE x == Refunded(lease[l], command[k].bytes)
      <4>1. command[k].bytes \in Int
        BY DEF TypeOK, CommandRecord
      <4>2. x \in LeaseRecord /\ Touched(lease[l], x)
        BY <3>1, <4>1 DEF Refunded, Touched, LeaseRecord
      <4> QED
        BY <1>1, <3>1, <3>4, <4>2 DEF AuditFails
    <3>5. ASSUME Settle(l) PROVE Goal
      <4>1. Freed(lease[l]) \in LeaseRecord /\ Touched(lease[l], Freed(lease[l]))
        BY <3>1 DEF Freed, Touched, LeaseRecord
      <4>2. \E why \in Reasons \cup {None} : RevokeLease(l, Freed(lease[l]), why)
        BY <3>5 DEF Settle, Reasons
      <4> QED
        BY <3>1, <4>1, <4>2 DEF TouchAndRevoke
    <3> QED
      BY <1>6, <2>2, <3>2, <3>3, <3>4, <3>5 DEF CommandStep, ResultReturned, ErrorReturned
  <2> QED
    BY <2>1, <2>2
<1>7. CASE Tick
  BY <1>7 DEF Tick
<1> QED
  BY <1>2, <1>3, <1>4, <1>5, <1>6, <1>7 DEF Next

-----------------------------------------------------------------------------
(* What a step may do to a lease that exists *)

\* From x to y: whose lease it is stays, a live lease stays in its Map or ends, and an
\* ended one stays as it ended.
LeaseMove(x, y) ==
  /\ y.request = x.request /\ y.session = x.session
  /\ y.instance = x.instance /\ y.scopes = x.scopes
  /\ Live(y) => Live(x) /\ y.stored = x.stored
  /\ ~Live(x) => /\ y.revokedAt = x.revokedAt /\ y.reason = x.reason
                 /\ y.remainingUses = x.remainingUses

LEMMA MoveTransitive ==
  ASSUME NEW x, NEW y, NEW z, LeaseMove(x, y), LeaseMove(y, z)
  PROVE  LeaseMove(x, z)
BY DEF LeaseMove

LEMMA RevokedMove ==
  ASSUME now \in Positive, NEW x \in LeaseRecord, NEW why \in Reasons \cup {None}
  PROVE  /\ LeaseMove(x, Revoked(x, why))
         /\ why # None => ~Live(Revoked(x, why))
<1>1. CASE why = None \/ ~Live(x)
  BY <1>1 DEF Revoked, LeaseMove
<1>2. CASE why # None /\ Live(x)
  <2>1. Revoked(x, why) = [x EXCEPT !.revokedAt = now, !.reason = why]
    BY <1>2 DEF Revoked
  <2>2. ~Live(Revoked(x, why))
    BY <2>1 DEF Live, LeaseRecord, Positive
  <2> QED
    BY <1>2, <2>1, <2>2 DEF LeaseMove, LeaseRecord
<1> QED
  BY <1>1, <1>2

LEMMA DroppedMove ==
  ASSUME NEW x \in LeaseRecord, ~Live(x)
  PROVE  LeaseMove(x, Dropped(x)) /\ ~Live(Dropped(x))
BY DEF LeaseMove, Dropped, Live, LeaseRecord

LEMMA SweptMove ==
  ASSUME TypeOK, NEW l \in Leases
  PROVE  LeaseMove(lease[l], SweptLease(l))
<1>1. lease[l] \in LeaseRecord /\ now \in Positive
  BY DEF TypeOK
<1>2. ExpiredLease(lease[l]) \in LeaseRecord /\ LeaseMove(lease[l], ExpiredLease(lease[l]))
  BY <1>1, LapseReasonType, RevokedType, RevokedMove DEF ExpiredLease
<1>3. CASE PrunableLease(ExpiredLease(lease[l]))
  BY <1>2, <1>3, DroppedMove, MoveTransitive DEF SweptLease, PrunableLease
<1>4. CASE ~PrunableLease(ExpiredLease(lease[l]))
  BY <1>2, <1>4 DEF SweptLease
<1> QED
  BY <1>3, <1>4

\* ensureLeaseCapacity drops ended leases only.
LEMMA RoomForLeaseMove ==
  ASSUME NEW L \in [Leases -> LeaseRecord], NEW M \in RoomForLease(L), NEW l \in Leases
  PROVE  /\ LeaseMove(L[l], M[l])
         /\ M[l] = L[l] \/ M[l] = Dropped(L[l])
<1>1. M[l] = L[l] \/ (M[l] = Dropped(L[l]) /\ ~Live(L[l]))
  <2>1. M = L \/ \E m \in Leases : ~Live(L[m]) /\ M = [L EXCEPT ![m].stored = FALSE]
    BY DEF RoomForLease, StoredLeases
  <2>2. ASSUME NEW m \in Leases, ~Live(L[m]), M = [L EXCEPT ![m].stored = FALSE]
        PROVE  M[l] = L[l] \/ (M[l] = Dropped(L[l]) /\ ~Live(L[l]))
    BY <2>2 DEF Dropped
  <2> QED
    BY <2>1, <2>2
<1>2. LeaseMove(L[l], L[l])
  BY DEF LeaseMove
<1> QED
  BY <1>1, <1>2, DroppedMove

GrantOf(l) ==
  \E c \in Conns, q \in Requests, scopes \in ScopeChoices, ttl \in GrantTTLs :
    Grant(c, q, l, scopes, ttl)

\* Every step but the grant that creates it moves a lease in this way.
LEMMA LeaseSteps ==
  ASSUME TypeOK, Addressed, [Next]_vars, NEW l \in Leases, ~GrantOf(l)
  PROVE  LeaseMove(lease[l], lease'[l])
<1>1. lease[l] \in LeaseRecord /\ now \in Positive
  BY DEF TypeOK
<1>2. LeaseMove(lease[l], lease[l])
  BY DEF LeaseMove
<1>3. LeaseMove(lease[l], SweptLeases[l]) /\ SweptLeases[l] \in LeaseRecord
  BY SweptMove, SweptType DEF SweptLeases
<1>4. CASE UNCHANGED <<request, lease>>
  BY <1>2, <1>4
<1>5. CASE UNCHANGED vars
  BY <1>2, <1>5 DEF vars
<1>6. CASE JustSweep
  BY <1>3, <1>6 DEF JustSweep
<1>7. CASE SomeRequest \/ SomeDeny
  BY <1>3, <1>7 DEF SomeRequest, SomeDeny, RequestAccess, Deny
<1>8. CASE RevokeAfterSweep
  <2>1. PICK m \in Leases, why \in Reasons : RevokeInCall(m, why)
    BY <1>8 DEF RevokeAfterSweep
  <2>2. lease'[l] = SweptLeases[l] \/ lease'[l] = Revoked(SweptLeases[l], why)
    BY <2>1 DEF RevokeInCall, SweptLeases
  <2> QED
    BY <1>1, <1>3, <2>2, RevokedMove, MoveTransitive
<1>9. CASE TouchAndRevoke
  <2>1. PICK m \in Leases, x \in LeaseRecord, why \in Reasons \cup {None} :
          Touched(lease[m], x) /\ RevokeLease(m, x, why)
    BY <1>9 DEF TouchAndRevoke
  <2>2. CASE m = l
    <3>1. LeaseMove(lease[l], x)
      BY <2>1, <2>2 DEF Touched, LeaseMove, Live
    <3>2. lease'[l] = Revoked(x, why)
      BY <2>1, <2>2 DEF RevokeLease, TypeOK
    <3> QED
      BY <1>1, <3>1, <3>2, RevokedMove, MoveTransitive
  <2>3. CASE m # l
    BY <1>2, <2>1, <2>3 DEF RevokeLease, TypeOK
  <2> QED
    BY <2>2, <2>3
<1>10. CASE SomeGrant
  <2>1. PICK c \in Conns, q \in Requests, m \in Leases, scopes \in ScopeChoices,
             ttl \in GrantTTLs : Grant(c, q, m, scopes, ttl)
    BY <1>10 DEF SomeGrant
  <2>2. m # l
    BY <2>1 DEF GrantOf
  <2>3. PICK L \in RoomForLease(SweptLeases) :
          lease' = [L EXCEPT ![m] = NewLease(q, request[q].session, instanceOf[c], scopes, ttl)]
    BY <2>1 DEF Grant
  <2>4. lease'[l] = L[l]
    BY <2>2, <2>3, SweptType, RoomType
  <2> QED
    BY <1>3, <2>3, <2>4, SweptType, RoomForLeaseMove, MoveTransitive
<1>11. CASE SomeAdmit
  <2>1. PICK c \in Conns, k \in Commands, m \in Leases, kind \in Kinds : Admit(c, k, m, kind)
    BY <1>11 DEF SomeAdmit
  <2>2. CASE m = l
    <3>1. lease'[l] = Reserved(SweptLeases[l]) /\ Live(SweptLeases[l])
      BY <2>1, <2>2 DEF Admit, Usable, SweptLeases
    <3>2. LeaseMove(SweptLeases[l], Reserved(SweptLeases[l]))
      BY <1>3, <3>1 DEF LeaseMove, Reserved, Live, LeaseRecord
    <3> QED
      BY <1>3, <3>1, <3>2, MoveTransitive
  <2>3. CASE m # l
    BY <1>3, <2>1, <2>3 DEF Admit, SweptLeases
  <2> QED
    BY <2>2, <2>3
<1>12. CASE SomeEnd
  <2>1. PICK c \in Conns : Disconnected(c)
    BY <1>12 DEF SomeEnd
  <2>2. lease'[l] = Revoked(lease[l], DisconnectReason(c, lease[l]))
    BY <2>1 DEF Disconnected
  <2>3. DisconnectReason(c, lease[l]) \in Reasons \cup {None}
    BY DEF DisconnectReason, Reasons
  <2> QED
    BY <1>1, <2>2, <2>3, RevokedMove
<1> QED
  BY <1>4, <1>5, <1>6, <1>7, <1>8, <1>9, <1>10, <1>11, <1>12, StepShape

-----------------------------------------------------------------------------
(* Type correctness, with what it needs: commands name leases, leases instances *)

TypeInv == TypeOK /\ Placed /\ Addressed

LEMMA PlacedStep ==
  ASSUME TypeInv, [Next]_vars, TypeOK'
  PROVE  Placed'
<1> SUFFICES ASSUME NEW l \in Leases, lease'[l].request # None
             PROVE  lease'[l].instance \in Instances
  BY DEF Placed
<1>1. CASE GrantOf(l)
  <2>1. PICK c \in Conns, q \in Requests, scopes \in ScopeChoices, ttl \in GrantTTLs :
          Grant(c, q, l, scopes, ttl)
    BY <1>1 DEF GrantOf
  <2>2. instanceOf[c] \in Instances
    BY <2>1 DEF Grant, TypeInv, TypeOK
  <2>3. lease'[l] = NewLease(q, request[q].session, instanceOf[c], scopes, ttl)
    BY <2>1, SweptType, RoomType DEF Grant, TypeInv
  <2> QED
    BY <2>2, <2>3 DEF NewLease
<1>2. CASE ~GrantOf(l)
  BY <1>2, LeaseSteps DEF TypeInv, Placed, LeaseMove
<1> QED
  BY <1>1, <1>2

LEMMA AddressedStep ==
  ASSUME TypeInv, [Next]_vars
  PROVE  Addressed'
<1> SUFFICES ASSUME NEW k \in Commands, command'[k].pc # "idle"
             PROVE  command'[k].lease \in Leases
  BY DEF Addressed
<1>1. command[k] \in CommandRecord /\ command \in [Commands -> CommandRecord]
  BY DEF TypeInv, TypeOK
<1>2. CASE command' = command
  BY <1>2 DEF TypeInv, Addressed
<1>3. CASE SomeAdmit
  BY <1>1, <1>3 DEF SomeAdmit, Admit, TypeInv, Addressed
<1>4. ASSUME NEW j \in Commands, CommandStep(j) PROVE command'[k].lease \in Leases
  <2>1. command[j].pc # "idle"
    BY <1>4 DEF CommandStep, ResultAccepted, ResultRefused, CommandFails, AuditFails,
                ResultReturned, ErrorReturned
  <2>2. command'[j].lease = command[j].lease /\ (j # k => command'[k] = command[k])
    BY <1>1, <1>4
    DEF CommandStep, ResultAccepted, ResultRefused, CommandFails, AuditFails,
        ResultReturned, ErrorReturned, CommandRecord
  <2> QED
    BY <2>1, <2>2 DEF TypeInv, Addressed
<1>5. (\E j \in Commands : CommandStep(j)) \/ SomeAdmit \/ command' = command
  <2>1. ASSUME NEW c \in Conns, AgentCall(c) PROVE SomeAdmit \/ command' = command
    BY <2>1 DEF AgentCall, SomeAdmit, RequestAccess, RefuseRequest, AgentRevoke,
                AdmitWithoutBrowser
  <2>2. ASSUME NEW c \in Conns, BrowserCall(c) PROVE command' = command
    BY <2>2 DEF BrowserCall, RegisterBrowser, Grant, Deny, BrowserRevoke
  <2> QED
    BY <2>1, <2>2 DEF Next, vars, Hello, UpgradeBegins, UpgradeEnds, Close, ReadOrRefused,
                      GrantAnswered, GrantAuditFails, Tick
<1> QED
  BY <1>2, <1>3, <1>4, <1>5

LEMMA TypeStep ==
  ASSUME TypeInv, [Next]_vars
  PROVE  TypeOK'
<1>1. CASE UNCHANGED vars
  BY <1>1 DEF TypeInv, TypeOK, vars, links, windows
<1>2. CASE Next
  <2>1. CASE Tick
    BY <2>1 DEF Tick, TypeInv, TypeOK, links, windows, Positive
  <2> QED
    BY <1>2, <2>1, TypeOfConnections, TypeOfAgentCall, TypeOfBrowserCall, TypeOfCommandStep,
       TypeOfGrantAudit
    DEF Next, TypeInv
<1> QED
  BY <1>1, <1>2

LEMMA TypeInvariant == Spec => []TypeInv
<1>1. Init => TypeInv
  BY TypeInit DEF TypeInv, Placed, Addressed, Init, NoLease, NoCommand
<1>2. TypeInv /\ [Next]_vars => TypeInv'
  BY TypeStep, PlacedStep, AddressedStep DEF TypeInv
<1> QED
  BY <1>1, <1>2, PTL DEF Spec

\* Every variable keeps its type, through every call, disconnect and failure.
THEOREM TypeCorrect == Spec => []TypeOK
<1>1. TypeInv => TypeOK
  BY DEF TypeInv
<1> QED
  BY <1>1, TypeInvariant, PTL

-----------------------------------------------------------------------------
(* What a browser's connection leaves when it closes *)

\* The steps that touch a connection.
Relink(c) ==
  \/ Hello(c) \/ UpgradeBegins(c) \/ UpgradeEnds(c) \/ Close(c)
  \/ \E i \in Instances : RegisterBrowser(c, i)

LEMMA LinkSteps ==
  ASSUME [Next]_vars
  PROVE  UNCHANGED links \/ \E c \in Conns : Relink(c)
<1>1. ASSUME NEW d \in Conns, AgentCall(d) \/ ReadOrRefused(d) PROVE UNCHANGED links
  BY <1>1 DEF AgentCall, RequestAccess, RefuseRequest, AgentRevoke, Admit, AdmitWithoutBrowser,
              ReadOrRefused, links
<1>2. ASSUME NEW d \in Conns, BrowserCall(d)
      PROVE  UNCHANGED links \/ \E i \in Instances : RegisterBrowser(d, i)
  BY <1>2 DEF BrowserCall, Grant, Deny, BrowserRevoke, links
<1>3. ASSUME NEW k \in Commands, CommandStep(k) PROVE UNCHANGED links
  BY <1>3 DEF CommandStep, ResultAccepted, ResultRefused, CommandFails, AuditFails,
              ResultReturned, ErrorReturned, links
<1>4. ASSUME NEW l \in Leases, GrantAnswered(l) \/ GrantAuditFails(l) PROVE UNCHANGED links
  BY <1>4 DEF GrantAnswered, GrantAuditFails, links
<1>5. Tick \/ UNCHANGED vars => UNCHANGED links
  BY DEF Tick, vars, links
<1> QED
  BY <1>1, <1>2, <1>3, <1>4, <1>5 DEF Next, Relink

\* Who is listed is an open connection that has registered, or a closed one that named
\* another instance in the end.
Listed ==
  \A i \in Instances : browsers[i] # None =>
    LET c == browsers[i] IN
    /\ conn[c] \in {"browser", "closed"}
    /\ conn[c] = "browser" => instanceOf[c] # None
    /\ conn[c] = "closed" => instanceOf[c] \notin {None, i}

\* disconnected() finds every live lease in its Map.
LiveStored == \A l \in Leases : Live(lease[l]) => lease[l].stored

\* A live lease has a browser's connection of its instance, unless one has changed.
Served(x) ==
  \E c \in Conns :
    \/ conn[c] = "browser" /\ instanceOf[c] = x.instance
    \/ instanceOf[c] \notin {None, x.instance}

LiveServed == \A l \in Leases : Live(lease[l]) => Served(lease[l])

BrowserInv == TypeInv /\ Listed /\ LiveStored /\ LiveServed

LEMMA ListedStep ==
  ASSUME TypeInv, Listed, [Next]_vars
  PROVE  Listed'
<1> USE DEF TypeInv, TypeOK
<1>1. CASE UNCHANGED links
  BY <1>1 DEF links, Listed
<1>2. ASSUME NEW c \in Conns, Hello(c) PROVE Listed'
  BY <1>2 DEF Hello, Listed
<1>3. ASSUME NEW c \in Conns, UpgradeBegins(c) \/ UpgradeEnds(c) PROVE Listed'
  BY <1>3 DEF UpgradeBegins, UpgradeEnds, Disconnected, Listed
<1>4. ASSUME NEW c \in Conns, Close(c) PROVE Listed'
  <2>1. CASE conn[c] = "new"
    BY <1>4, <2>1 DEF Close, Listed
  <2>2. CASE conn[c] # "new"
    BY <1>4, <2>2 DEF Close, Disconnected, Listed
  <2> QED
    BY <2>1, <2>2
<1>5. ASSUME NEW c \in Conns, NEW i \in Instances, RegisterBrowser(c, i) PROVE Listed'
  BY <1>5, PoolsAssumption DEF RegisterBrowser, Listed
<1> QED
  BY <1>1, <1>2, <1>3, <1>4, <1>5, LinkSteps DEF Relink

\* A grant is made on a browser's connection, and the last connection of an instance that
\* closes ends what was granted on it.
LEMMA LiveStep ==
  ASSUME BrowserInv, [Next]_vars, NEW l \in Leases, Live(lease'[l])
  PROVE  lease'[l].stored /\ Served(lease[l])'
<1>1. TypeInv /\ TypeOK /\ Addressed /\ Placed /\ now \in Positive /\ lease[l] \in LeaseRecord
  BY DEF BrowserInv, TypeInv, TypeOK
<1>2. ASSUME NEW c \in Conns, NEW q \in Requests, NEW scopes \in ScopeChoices,
             NEW ttl \in GrantTTLs, Grant(c, q, l, scopes, ttl)
      PROVE  lease'[l].stored /\ Served(lease[l])'
  <2>1. lease'[l] = NewLease(q, request[q].session, instanceOf[c], scopes, ttl)
    BY <1>1, <1>2, SweptType, RoomType DEF Grant
  <2>2. lease'[l].stored /\ lease'[l].instance = instanceOf'[c] /\ conn'[c] = "browser"
    BY <1>2, <2>1 DEF NewLease, Grant, links
  <2> QED
    BY <2>2 DEF Served
<1>3. CASE ~GrantOf(l)
  <2>1. LeaseMove(lease[l], lease'[l])
    BY <1>1, <1>3, LeaseSteps
  <2>2. Live(lease[l]) /\ lease'[l].stored /\ lease'[l].instance = lease[l].instance
    BY <2>1 DEF LeaseMove, BrowserInv, LiveStored
  <2>3. lease[l].stored /\ lease[l].instance \in Instances /\ None \notin Instances
    BY <1>1, <2>2, PoolsAssumption DEF Live, Placed, BrowserInv, LiveStored
  <2>4. PICK c \in Conns : \/ conn[c] = "browser" /\ instanceOf[c] = lease[l].instance
                           \/ instanceOf[c] \notin {None, lease[l].instance}
    BY <2>2 DEF BrowserInv, LiveServed, Served
  <2>5. SUFFICES \/ conn'[c] = "browser" /\ instanceOf'[c] = lease[l].instance
                 \/ instanceOf'[c] \notin {None, lease[l].instance}
    BY <2>2 DEF Served
  <2>6. CASE UNCHANGED links
    BY <2>4, <2>6 DEF links
  <2>7. ASSUME NEW d \in Conns, Hello(d) \/ UpgradeBegins(d) \/ UpgradeEnds(d)
        PROVE  \/ conn'[c] = "browser" /\ instanceOf'[c] = lease[l].instance
               \/ instanceOf'[c] \notin {None, lease[l].instance}
    BY <1>1, <2>4, <2>7 DEF Hello, UpgradeBegins, UpgradeEnds, TypeOK
  <2>8. ASSUME NEW d \in Conns, Close(d), c # d \/ conn[c] # "browser" \/ instanceOf[c] # lease[l].instance
        PROVE  \/ conn'[c] = "browser" /\ instanceOf'[c] = lease[l].instance
               \/ instanceOf'[c] \notin {None, lease[l].instance}
    BY <1>1, <2>4, <2>8 DEF Close, TypeOK
  <2>9. ASSUME Close(c), conn[c] = "browser", instanceOf[c] = lease[l].instance PROVE FALSE
    <3>1. DisconnectReason(c, lease[l]) = "BROWSER_DISCONNECTED"
      BY <2>3, <2>9 DEF DisconnectReason
    <3>2. lease'[l] = Revoked(lease[l], "BROWSER_DISCONNECTED")
      BY <2>9, <3>1 DEF Close, Disconnected
    <3>3. "BROWSER_DISCONNECTED" \in Reasons /\ None # "BROWSER_DISCONNECTED"
      BY ReasonsAssumption DEF Reasons
    <3> QED
      BY <1>1, <3>2, <3>3, RevokedMove
  <2>10. ASSUME NEW d \in Conns, NEW i \in Instances, RegisterBrowser(d, i)
         PROVE  \/ conn'[c] = "browser" /\ instanceOf'[c] = lease[l].instance
                \/ instanceOf'[c] \notin {None, lease[l].instance}
    BY <1>1, <2>3, <2>4, <2>10 DEF RegisterBrowser, TypeOK
  <2> QED
    BY <2>6, <2>7, <2>8, <2>9, <2>10, LinkSteps DEF Relink
<1> QED
  BY <1>2, <1>3 DEF GrantOf

\* For any number of connections and instances, and any registrations, a connection that
\* closes leaves neither its place among the browsers nor a lease of its instance, unless
\* a connection has named another instance since.
THEOREM BrowsersTakeLeave == Spec => []BrowsersLeave
<1>1. Init => Listed /\ LiveStored /\ LiveServed
  BY DEF Init, Listed, LiveStored, LiveServed, Live, NoLease
<1>2. TypeInv /\ Listed /\ LiveStored /\ LiveServed /\ [Next]_vars
        => Listed' /\ LiveStored' /\ LiveServed'
  <2> SUFFICES ASSUME BrowserInv, [Next]_vars PROVE Listed' /\ LiveStored' /\ LiveServed'
    BY DEF BrowserInv
  <2>1. Listed'
    BY ListedStep DEF BrowserInv
  <2>2. LiveStored' /\ LiveServed'
    BY LiveStep DEF LiveStored, LiveServed
  <2> QED
    BY <2>1, <2>2
<1>3. Listed /\ LiveServed => BrowsersLeave
  BY DEF Listed, LiveServed, Served, BrowsersLeave
<1> QED
  BY <1>1, <1>2, <1>3, TypeInvariant, PTL DEF Spec

-----------------------------------------------------------------------------
(* What a step may do to a request, and to a request and its lease together *)

\* From q to p: whose request it is and what it led to stays, and it does not become
\* pending.
RequestMove(q, p) ==
  /\ p.session = q.session /\ p.scopes = q.scopes /\ p.lease = q.lease
  /\ Pending(p) => Pending(q)
  /\ p.status \in {"unused", "pending"} => p.status = q.status

\* The request q in its Map and its lease x tell the same story (as LeaseTrail has it).
Agree(q, x) ==
  q.stored => /\ q.status = "granted" <=> Live(x)
              /\ q.status = "expired" <=> x.reason = "LEASE_EXPIRED"

FinalMove(q, p) ==
  q.status \in Ended => p.status = q.status /\ p.terminalAt = q.terminalAt

PairMove(q, x, p, y) == Agree(q, x) => Agree(p, y) /\ FinalMove(q, p)

LEMMA RequestMoveTransitive ==
  /\ \A p, q, r : RequestMove(p, q) /\ RequestMove(q, r) => RequestMove(p, r)
  /\ \A p, q, r : FinalMove(p, q) /\ FinalMove(q, r) => FinalMove(p, r)
<1>1. \A p, q, r : RequestMove(p, q) /\ RequestMove(q, r) => RequestMove(p, r)
  BY DEF RequestMove
<1>2. \A p, q, r : FinalMove(p, q) /\ FinalMove(q, r) => FinalMove(p, r)
  BY DEF FinalMove
<1> QED
  BY <1>1, <1>2

LEMMA PairMoveTransitive ==
  ASSUME NEW q, NEW x, NEW p, NEW y, NEW r, NEW z, PairMove(q, x, p, y), PairMove(p, y, r, z)
  PROVE  PairMove(q, x, r, z)
BY RequestMoveTransitive DEF PairMove

\* revokeLease closes a lease and its request with one verdict, and neither twice.
LEMMA ClosedPair ==
  ASSUME now \in Positive, NEW q \in RequestRecord, NEW x \in LeaseRecord,
         NEW why \in Reasons \cup {None}
  PROVE  /\ RequestMove(q, ClosedWith(q, x, why))
         /\ PairMove(q, x, ClosedWith(q, x, why), Revoked(x, why))
<1>1. CASE why = None \/ ~Live(x)
  BY <1>1 DEF Revoked, ClosedWith, RequestMove, PairMove, FinalMove
<1>2. CASE why # None /\ Live(x) /\ ~q.stored
  BY <1>2 DEF ClosedWith, RequestMove, PairMove, FinalMove, Agree
<1>3. CASE why # None /\ Live(x) /\ q.stored
  <2> DEFINE p == ClosedWith(q, x, why)
             y == Revoked(x, why)
  <2>1. /\ p.status = IF why = "LEASE_EXPIRED" THEN "expired" ELSE "revoked"
        /\ p.session = q.session /\ p.scopes = q.scopes /\ p.lease = q.lease
    BY <1>3 DEF ClosedWith, RequestRecord
  <2>2. y.reason = why /\ ~Live(y)
    BY <1>3, RevokedMove DEF Revoked, LeaseRecord
  <2>3. RequestMove(q, p)
    BY <2>1 DEF RequestMove, Pending
  <2>4. Agree(q, x) => q.status \notin Ended
    BY <1>3 DEF Agree, Ended
  <2>5. Agree(p, y)
    BY <2>1, <2>2 DEF Agree
  <2> QED
    BY <2>3, <2>4, <2>5 DEF PairMove, FinalMove
<1> QED
  BY <1>1, <1>2, <1>3

LEMMA DroppedRequestMove ==
  ASSUME NEW q \in RequestRecord, q.status # "pending"
  PROVE  /\ RequestMove(q, Dropped(q)) /\ FinalMove(q, Dropped(q))
         /\ \A y : Agree(Dropped(q), y)
<1>1. /\ ~Dropped(q).stored /\ Dropped(q).status = q.status
      /\ Dropped(q).session = q.session /\ Dropped(q).scopes = q.scopes
      /\ Dropped(q).lease = q.lease /\ Dropped(q).terminalAt = q.terminalAt
  BY DEF Dropped, RequestRecord
<1> QED
  BY <1>1 DEF RequestMove, FinalMove, Agree, Pending

\* The same two facts of the lease: what its Map does, and what counters do.
LEMMA LeaseOnlyPair ==
  ASSUME NEW q, NEW x \in LeaseRecord
  PROVE  /\ PairMove(q, x, q, Dropped(x))
         /\ \A y : Touched(x, y) => PairMove(q, x, q, y)
<1>1. PairMove(q, x, q, Dropped(x))
  BY DEF PairMove, Agree, FinalMove, Dropped, Live, LeaseRecord
<1>2. \A y : Touched(x, y) => PairMove(q, x, q, y)
  BY DEF PairMove, Agree, FinalMove, Touched, Live
<1> QED
  BY <1>1, <1>2

\* maintainState() moves a request that has no lease, and one that has with its lease.
LEMMA SweptRequestMove ==
  ASSUME TypeOK, NEW r \in Requests
  PROVE  /\ request[r].lease = None =>
              RequestMove(request[r], SweptRequest(r)) /\ FinalMove(request[r], SweptRequest(r))
         /\ \A l \in Leases : request[r].lease = l =>
              /\ RequestMove(request[r], SweptRequest(r))
              /\ PairMove(request[r], lease[l], SweptRequest(r), SweptLease(l))
<1> DEFINE q == request[r]
           p == ExpiredRequest(q)
<1>1. q \in RequestRecord /\ now \in Positive
  BY DEF TypeOK
<1>2. p \in RequestRecord
  <2>1. PendingExpired(q) \in RequestRecord
    BY <1>1 DEF PendingExpired, RequestRecord, RequestStatus, Positive
  <2> QED
    BY <1>1, <2>1, ClosedWithType DEF ExpiredRequest
<1>3. \/ SweptRequest(r) = p
      \/ SweptRequest(r) = Dropped(p) /\ p.status # "pending"
  BY DEF SweptRequest, PrunableRequest
<1>4. ASSUME q.lease = None
      PROVE  RequestMove(q, SweptRequest(r)) /\ FinalMove(q, SweptRequest(r))
  <2>1. p = PendingExpired(q)
    BY <1>4 DEF ExpiredRequest
  <2>2. RequestMove(q, p) /\ FinalMove(q, p)
    BY <1>1, <2>1 DEF PendingExpired, RequestMove, FinalMove, Pending, Ended, RequestRecord
  <2> QED
    BY <1>2, <1>3, <2>2, DroppedRequestMove, RequestMoveTransitive
<1>5. ASSUME NEW l \in Leases, q.lease = l
      PROVE  /\ RequestMove(q, SweptRequest(r))
             /\ PairMove(q, lease[l], SweptRequest(r), SweptLease(l))
  <2> DEFINE x == lease[l]
             y == ExpiredLease(x)
  <2>1. x \in LeaseRecord
    BY DEF TypeOK
  <2>2. y \in LeaseRecord
    BY <1>1, <2>1, LapseReasonType, RevokedType DEF ExpiredLease
  <2>3. p = ClosedWith(q, x, SweepReason(x))
    BY <1>5, PoolsAssumption DEF ExpiredRequest
  <2>4. RequestMove(q, p) /\ PairMove(q, x, p, y)
    BY <1>1, <2>1, <2>3, ClosedPair, LapseReasonType DEF ExpiredLease
  <2>5. PairMove(p, y, p, SweptLease(l))
    <3>1. PairMove(p, y, p, y)
      BY DEF PairMove, FinalMove
    <3> QED
      BY <2>2, <3>1, LeaseOnlyPair DEF SweptLease
  <2>6. PairMove(q, x, p, SweptLease(l))
    BY <2>4, <2>5, PairMoveTransitive
  <2>7. CASE SweptRequest(r) = p
    BY <2>4, <2>6, <2>7
  <2>8. CASE SweptRequest(r) = Dropped(p) /\ p.status # "pending"
    BY <1>2, <2>4, <2>6, <2>8, DroppedRequestMove, RequestMoveTransitive DEF PairMove
  <2> QED
    BY <1>3, <2>7, <2>8
<1> QED
  BY <1>4, <1>5

\* ensureAccessRequestCapacity drops no pending request.
LEMMA RoomForRequestMove ==
  ASSUME NEW R \in [Requests -> RequestRecord], NEW S \in RoomForRequest(R), NEW r \in Requests
  PROVE  S[r] = R[r] \/ (S[r] = Dropped(R[r]) /\ R[r].status # "pending")
<1>1. ASSUME NEW t \in Requests, R[t].status # "pending", S = [R EXCEPT ![t].stored = FALSE]
      PROVE  S[r] = R[r] \/ (S[r] = Dropped(R[r]) /\ R[r].status # "pending")
  BY <1>1 DEF Dropped
<1>2. S = R \/ \E t \in Requests : R[t].status # "pending" /\ S = [R EXCEPT ![t].stored = FALSE]
  BY DEF RoomForRequest, StoredRequests
<1> QED
  BY <1>1, <1>2

\* A request leads to a lease only when it is granted, and only a lease can be revoked.
Unlinked ==
  /\ \A r \in Requests : request[r].lease # None => request[r].status \notin {"unused", "pending"}
  /\ \A l \in Leases : lease[l].request = None => lease[l].revokedAt = 0

TrailInv == TypeInv /\ LeaseTrail /\ Unlinked

AccessOf(r) == \E c \in Conns, scopes \in ScopeChoices : RequestAccess(c, r, scopes)
GrantFor(r) ==
  \E c \in Conns, l \in Leases, scopes \in ScopeChoices, ttl \in GrantTTLs : Grant(c, r, l, scopes, ttl)

\* A step that neither creates nor grants request r, when r has no lease.
LEMMA LoneRequestSteps ==
  ASSUME TrailInv, [Next]_vars, NEW r \in Requests, request[r].lease = None,
         ~AccessOf(r), ~GrantFor(r)
  PROVE  RequestMove(request[r], request'[r]) /\ FinalMove(request[r], request'[r])
<1> DEFINE Goal == RequestMove(request[r], request'[r]) /\ FinalMove(request[r], request'[r])
<1>1. TypeOK /\ Addressed /\ now \in Positive /\ request[r] \in RequestRecord
  BY DEF TrailInv, TypeInv, TypeOK
<1>2. RequestMove(request[r], request[r]) /\ FinalMove(request[r], request[r])
  BY DEF RequestMove, FinalMove
<1>3. /\ SweptRequests[r] = SweptRequest(r) /\ SweptRequest(r) \in RequestRecord
      /\ RequestMove(request[r], SweptRequest(r)) /\ FinalMove(request[r], SweptRequest(r))
  BY <1>1, SweptRequestMove, SweptType DEF SweptRequests
<1>4. \A m \in Leases : lease[m].request # r
  BY PoolsAssumption DEF TrailInv, LeaseTrail
<1>5. CASE UNCHANGED <<request, lease>> \/ UNCHANGED vars
  BY <1>2, <1>5 DEF vars
<1>6. CASE JustSweep
  BY <1>3, <1>6 DEF JustSweep
<1>7. CASE SomeRequest
  <2>1. PICK c \in Conns, t \in Requests, scopes \in ScopeChoices : RequestAccess(c, t, scopes)
    BY <1>7 DEF SomeRequest
  <2>2. t # r
    BY <2>1 DEF AccessOf
  <2>3. PICK R \in RoomForRequest(SweptRequests) : request' = [R EXCEPT ![t] = NewRequest(c, scopes)]
    BY <2>1 DEF RequestAccess
  <2>4. request'[r] = R[r]
    BY <1>1, <2>2, <2>3, SweptType, RoomType
  <2>5. \/ R[r] = SweptRequest(r)
        \/ R[r] = Dropped(SweptRequest(r)) /\ SweptRequest(r).status # "pending"
    BY <1>1, <1>3, <2>3, SweptType, RoomForRequestMove
  <2> QED
    BY <1>3, <2>4, <2>5, DroppedRequestMove, RequestMoveTransitive
<1>8. CASE SomeDeny
  <2>1. PICK c \in Conns, t \in Requests : Deny(c, t)
    BY <1>8 DEF SomeDeny
  <2>2. CASE t # r
    BY <1>3, <2>1, <2>2 DEF Deny, SweptRequests
  <2>3. CASE t = r
    <3>1. Pending(SweptRequest(r))
      BY <2>1, <2>3 DEF Deny
    <3>2. request'[r] = [SweptRequest(r) EXCEPT !.status = "denied", !.terminalAt = now]
      BY <2>1, <2>3 DEF Deny, SweptRequests
    <3>3. RequestMove(SweptRequest(r), request'[r]) /\ FinalMove(SweptRequest(r), request'[r])
      BY <1>3, <3>1, <3>2 DEF RequestMove, FinalMove, Pending, Ended, RequestRecord
    <3> QED
      BY <1>3, <3>3, RequestMoveTransitive
  <2> QED
    BY <2>2, <2>3
<1>9. CASE SomeGrant
  <2>1. PICK c \in Conns, t \in Requests, m \in Leases, scopes \in ScopeChoices,
             ttl \in GrantTTLs : Grant(c, t, m, scopes, ttl)
    BY <1>9 DEF SomeGrant
  <2>2. t # r
    BY <2>1 DEF GrantFor
  <2> QED
    BY <1>3, <2>1, <2>2 DEF Grant, SweptRequests
<1>10. CASE SomeAdmit
  BY <1>3, <1>10 DEF SomeAdmit, Admit
<1>11. CASE RevokeAfterSweep
  BY <1>3, <1>4, <1>11 DEF RevokeAfterSweep, RevokeInCall, SweptRequests
<1>12. CASE TouchAndRevoke
  BY <1>1, <1>2, <1>4, <1>12 DEF TouchAndRevoke, RevokeLease, Touched, TypeOK
<1>13. CASE SomeEnd
  <2>1. PICK c \in Conns : Disconnected(c)
    BY <1>13 DEF SomeEnd
  <2>2. request'[r] = DisconnectedRequest(c, request[r])
    BY <2>1 DEF Disconnected
  <2>3. CASE DropsPending(c, request[r])
    <3>1. request'[r] = [request[r] EXCEPT !.status = "revoked", !.terminalAt = now]
      BY <2>2, <2>3 DEF DisconnectedRequest
    <3> QED
      BY <1>1, <2>3, <3>1 DEF DropsPending, RequestMove, FinalMove, Pending, Ended, RequestRecord
  <2>4. CASE ~DropsPending(c, request[r])
    BY <1>2, <2>2, <2>4 DEF DisconnectedRequest
  <2> QED
    BY <2>3, <2>4
<1> QED
  BY <1>1, <1>5, <1>6, <1>7, <1>8, <1>9, <1>10, <1>11, <1>12, <1>13, StepShape

\* Every step moves a request together with the lease it led to.
LEMMA LinkedRequestSteps ==
  ASSUME TrailInv, [Next]_vars, NEW r \in Requests, NEW l \in Leases, request[r].lease = l
  PROVE  /\ RequestMove(request[r], request'[r])
         /\ PairMove(request[r], lease[l], request'[r], lease'[l])
<1> DEFINE q == request[r]
           x == lease[l]
           Goal == RequestMove(q, request'[r]) /\ PairMove(q, x, request'[r], lease'[l])
<1>1. /\ TypeOK /\ Addressed /\ now \in Positive
      /\ q \in RequestRecord /\ x \in LeaseRecord
  BY DEF TrailInv, TypeInv, TypeOK
<1>2. x.request = r /\ q.status \notin {"unused", "pending"}
  BY PoolsAssumption DEF TrailInv, LeaseTrail, Unlinked
<1>3. \A m \in Leases : m # l => lease[m].request # r
  BY PoolsAssumption DEF TrailInv, LeaseTrail
<1>4. RequestMove(q, q) /\ PairMove(q, x, q, x)
  BY DEF RequestMove, PairMove, FinalMove
<1>5. /\ SweptRequests[r] = SweptRequest(r) /\ SweptRequest(r) \in RequestRecord
      /\ SweptLeases[l] = SweptLease(l) /\ SweptLease(l) \in LeaseRecord
      /\ RequestMove(q, SweptRequest(r)) /\ PairMove(q, x, SweptRequest(r), SweptLease(l))
      /\ ~Pending(SweptRequest(r)) /\ SweptRequest(r).status \notin {"unused", "pending"}
  <2>1. RequestMove(q, SweptRequest(r)) /\ PairMove(q, x, SweptRequest(r), SweptLease(l))
    BY <1>1, SweptRequestMove
  <2> QED
    BY <1>1, <1>2, <2>1, SweptType DEF SweptRequests, SweptLeases, RequestMove, Pending
<1>6. CASE UNCHANGED <<request, lease>> \/ UNCHANGED vars
  BY <1>4, <1>6 DEF vars
<1>7. CASE JustSweep
  BY <1>5, <1>7 DEF JustSweep
<1>8. CASE SomeRequest
  <2>1. PICK c \in Conns, t \in Requests, scopes \in ScopeChoices : RequestAccess(c, t, scopes)
    BY <1>8 DEF SomeRequest
  <2>2. t # r
    BY <1>2, <2>1 DEF RequestAccess
  <2>3. PICK R \in RoomForRequest(SweptRequests) : request' = [R EXCEPT ![t] = NewRequest(c, scopes)]
    BY <2>1 DEF RequestAccess
  <2>4. request'[r] = R[r] /\ lease'[l] = SweptLease(l)
    BY <1>1, <1>5, <2>1, <2>2, <2>3, SweptType, RoomType DEF RequestAccess
  <2>5. \/ R[r] = SweptRequest(r)
        \/ R[r] = Dropped(SweptRequest(r)) /\ SweptRequest(r).status # "pending"
    BY <1>1, <1>5, <2>3, SweptType, RoomForRequestMove
  <2> QED
    BY <1>5, <2>4, <2>5, DroppedRequestMove, RequestMoveTransitive DEF PairMove
<1>9. CASE SomeDeny
  <2>1. PICK c \in Conns, t \in Requests : Deny(c, t)
    BY <1>9 DEF SomeDeny
  <2>2. t # r
    BY <1>5, <2>1 DEF Deny
  <2> QED
    BY <1>5, <2>1, <2>2 DEF Deny, SweptRequests
<1>10. CASE SomeGrant
  <2>1. PICK c \in Conns, t \in Requests, m \in Leases, scopes \in ScopeChoices,
             ttl \in GrantTTLs : Grant(c, t, m, scopes, ttl)
    BY <1>10 DEF SomeGrant
  <2>2. t # r /\ m # l
    BY <1>2, <1>5, <2>1, PoolsAssumption DEF Grant
  <2>3. PICK L \in RoomForLease(SweptLeases) :
          lease' = [L EXCEPT ![m] = NewLease(t, request[t].session, instanceOf[c], scopes, ttl)]
    BY <2>1 DEF Grant
  <2>4. request'[r] = SweptRequest(r) /\ lease'[l] = L[l]
    BY <1>1, <1>5, <2>1, <2>2, <2>3, SweptType, RoomType DEF Grant, SweptRequests
  <2>5. L[l] = SweptLease(l) \/ L[l] = Dropped(SweptLease(l))
    BY <1>1, <1>5, <2>3, SweptType, RoomForLeaseMove
  <2>6. PairMove(SweptRequest(r), SweptLease(l), SweptRequest(r), L[l])
    BY <1>5, <2>5, LeaseOnlyPair DEF PairMove, FinalMove
  <2> QED
    BY <1>5, <2>4, <2>6, PairMoveTransitive
<1>11. CASE SomeAdmit
  <2>1. PICK c \in Conns, k \in Commands, m \in Leases, kind \in Kinds : Admit(c, k, m, kind)
    BY <1>11 DEF SomeAdmit
  <2>2. request'[r] = SweptRequest(r)
    BY <1>5, <2>1 DEF Admit
  <2>3. lease'[l] = SweptLease(l) \/ lease'[l] = Reserved(SweptLease(l))
    BY <1>5, <2>1 DEF Admit, SweptLeases
  <2>4. PairMove(SweptRequest(r), SweptLease(l), SweptRequest(r), lease'[l])
    BY <1>5, <2>3 DEF PairMove, FinalMove, Agree, Live, Reserved, LeaseRecord
  <2> QED
    BY <1>5, <2>2, <2>4, PairMoveTransitive
<1>12. CASE RevokeAfterSweep
  <2>1. PICK m \in Leases, why \in Reasons : RevokeInCall(m, why)
    BY <1>12 DEF RevokeAfterSweep
  <2>2. CASE m # l
    BY <1>3, <1>5, <2>1, <2>2 DEF RevokeInCall, SweptLeases, SweptRequests
  <2>3. CASE m = l
    <3>1. /\ request'[r] = ClosedWith(SweptRequest(r), SweptLease(l), why)
          /\ lease'[l] = Revoked(SweptLease(l), why)
      BY <1>2, <1>5, <2>1, <2>3 DEF RevokeInCall, SweptLeases, SweptRequests
    <3>2. /\ RequestMove(SweptRequest(r), request'[r])
          /\ PairMove(SweptRequest(r), SweptLease(l), request'[r], lease'[l])
      BY <1>1, <1>5, <3>1, ClosedPair
    <3> QED
      BY <1>5, <3>2, PairMoveTransitive, RequestMoveTransitive
  <2> QED
    BY <2>2, <2>3
<1>13. CASE TouchAndRevoke
  <2>1. PICK m \in Leases, y \in LeaseRecord, why \in Reasons \cup {None} :
          Touched(lease[m], y) /\ RevokeLease(m, y, why)
    BY <1>13 DEF TouchAndRevoke
  <2>2. CASE m # l
    BY <1>1, <1>3, <1>4, <2>1, <2>2 DEF RevokeLease, Touched, TypeOK
  <2>3. CASE m = l
    <3>1. request'[r] = ClosedWith(q, y, why) /\ lease'[l] = Revoked(y, why)
      BY <1>1, <1>2, <2>1, <2>3 DEF RevokeLease, Touched, TypeOK
    <3>2. PairMove(q, x, q, y)
      BY <1>1, <2>1, <2>3, LeaseOnlyPair
    <3>3. RequestMove(q, request'[r]) /\ PairMove(q, y, request'[r], lease'[l])
      BY <1>1, <3>1, ClosedPair
    <3> QED
      BY <3>2, <3>3, PairMoveTransitive
  <2> QED
    BY <2>2, <2>3
<1>14. CASE SomeEnd
  <2>1. PICK c \in Conns : Disconnected(c)
    BY <1>14 DEF SomeEnd
  <2>2. ~DropsPending(c, q)
    BY <1>2 DEF DropsPending
  <2>3. /\ request'[r] = ClosedWith(q, x, DisconnectReason(c, x))
        /\ lease'[l] = Revoked(x, DisconnectReason(c, x))
    BY <2>1, <2>2, PoolsAssumption DEF Disconnected, DisconnectedRequest
  <2>4. DisconnectReason(c, x) \in Reasons \cup {None}
    BY DEF DisconnectReason, Reasons
  <2> QED
    BY <1>1, <2>3, <2>4, ClosedPair
<1> QED
  BY <1>1, <1>6, <1>7, <1>8, <1>9, <1>10, <1>11, <1>12, <1>13, <1>14, StepShape

-----------------------------------------------------------------------------
(* The two records of a decision agree *)

LEMMA LinkOf ==
  ASSUME TrailInv, NEW l \in Leases, lease[l].request # None
  PROVE  /\ lease[l].request \in Requests /\ request[lease[l].request].lease = l
         /\ ~GrantOf(l) /\ Agree(request[lease[l].request], lease[l])
<1>1. lease[l].request \in Requests
  BY DEF TrailInv, TypeInv, TypeOK, LeaseRecord
<1>2. ~GrantOf(l)
  BY DEF GrantOf, Grant
<1>3. /\ request[lease[l].request].lease = l
      /\ Agree(request[lease[l].request], lease[l])
  BY DEF TrailInv, LeaseTrail, Agree
<1> QED
  BY <1>1, <1>2, <1>3

LEMMA LeaseOf ==
  ASSUME TrailInv, NEW r \in Requests, request[r].lease # None
  PROVE  /\ request[r].lease \in Leases /\ lease[request[r].lease].request = r
         /\ lease[request[r].lease].request # None
BY PoolsAssumption DEF TrailInv, TypeInv, TypeOK, RequestRecord, LeaseTrail

\* The sweep opens nothing.
LEMMA SweptPending ==
  ASSUME TrailInv, NEW r \in Requests
  PROVE  RequestMove(request[r], SweptRequest(r))
BY SweptRequestMove, LeaseOf DEF TrailInv, TypeInv

\* Only pending requests are granted.
LEMMA GrantedWasPending ==
  ASSUME TrailInv, NEW r \in Requests, GrantFor(r)
  PROVE  Pending(request[r]) /\ request[r].lease = None
BY SweptPending DEF GrantFor, Grant, RequestMove, Pending, TrailInv, Unlinked

\* The records a grant leaves.
LEMMA GrantEffect ==
  ASSUME TrailInv, NEW c \in Conns, NEW q \in Requests, NEW l \in Leases,
         NEW scopes \in ScopeChoices, NEW ttl \in GrantTTLs, Grant(c, q, l, scopes, ttl)
  PROVE  /\ lease'[l] = NewLease(q, request[q].session, instanceOf[c], scopes, ttl)
         /\ request'[q] = [SweptRequest(q) EXCEPT !.status = "granted", !.terminalAt = now,
                                                 !.lease = l]
         /\ SweptRequest(q) \in RequestRecord
<1>1. TypeOK
  BY DEF TrailInv, TypeInv
<1>2. SweptRequest(q) \in RequestRecord
  BY <1>1, SweptType DEF SweptRequests
<1> QED
  BY <1>1, <1>2, SweptType, RoomType DEF Grant, SweptRequests

\* Every step but its creation and its grant moves a request without opening it.
LEMMA RequestSteps ==
  ASSUME TrailInv, [Next]_vars, NEW r \in Requests, ~AccessOf(r), ~GrantFor(r)
  PROVE  /\ RequestMove(request[r], request'[r])
         /\ FinalMove(request[r], request'[r])
<1>1. CASE request[r].lease = None
  BY <1>1, LoneRequestSteps
<1>2. CASE request[r].lease # None
  BY <1>2, LeaseOf, LinkOf, LinkedRequestSteps DEF PairMove
<1> QED
  BY <1>1, <1>2

LEMMA TrailOfLease ==
  ASSUME TrailInv, [Next]_vars, NEW l \in Leases, lease'[l].request # None
  PROVE  LET q == request'[lease'[l].request] IN
         /\ q.lease = l /\ q.session = lease'[l].session /\ lease'[l].scopes \subseteq q.scopes
         /\ Agree(q, lease'[l])
<1>1. ASSUME NEW c \in Conns, NEW q \in Requests, NEW scopes \in ScopeChoices,
             NEW ttl \in GrantTTLs, Grant(c, q, l, scopes, ttl)
      PROVE  /\ lease'[l].request = q /\ request'[q].lease = l
             /\ request'[q].session = lease'[l].session
             /\ lease'[l].scopes \subseteq request'[q].scopes
             /\ Agree(request'[q], lease'[l])
  <2>0. /\ lease'[l] = NewLease(q, request[q].session, instanceOf[c], scopes, ttl)
        /\ request'[q] = [SweptRequest(q) EXCEPT !.status = "granted", !.terminalAt = now,
                                                !.lease = l]
        /\ SweptRequest(q) \in RequestRecord
    BY <1>1, GrantEffect
  <2>1. /\ lease'[l].request = q /\ lease'[l].session = request[q].session
        /\ lease'[l].scopes = scopes /\ lease'[l].revokedAt = 0 /\ lease'[l].reason = None
    BY <2>0 DEF NewLease
  <2>2. /\ request'[q].lease = l /\ request'[q].status = "granted"
        /\ request'[q].session = SweptRequest(q).session
        /\ request'[q].scopes = SweptRequest(q).scopes
    BY <2>0 DEF RequestRecord
  <2>3. SweptRequest(q).session = request[q].session /\ SweptRequest(q).scopes = request[q].scopes
    BY SweptPending DEF RequestMove
  <2>4. scopes \subseteq request[q].scopes
    BY <1>1 DEF Grant
  <2>5. Agree(request'[q], lease'[l])
    BY <2>1, <2>2, PoolsAssumption, ReasonsAssumption DEF Agree, Live, Reasons, BrowserReasons
  <2> QED
    BY <2>1, <2>2, <2>3, <2>4, <2>5
<1>2. CASE ~GrantOf(l)
  <2> DEFINE r == lease[l].request
  <2>1. LeaseMove(lease[l], lease'[l])
    BY <1>2, LeaseSteps DEF TrailInv, TypeInv
  <2>2. r # None /\ lease'[l].request = r
    BY <2>1 DEF LeaseMove
  <2>3. r \in Requests /\ request[r].lease = l /\ Agree(request[r], lease[l])
    BY <2>2, LinkOf
  <2>4. request[r].session = lease[l].session /\ lease[l].scopes \subseteq request[r].scopes
    BY <2>2 DEF TrailInv, LeaseTrail
  <2>5. RequestMove(request[r], request'[r]) /\ Agree(request'[r], lease'[l])
    BY <2>3, LinkedRequestSteps DEF PairMove
  <2> QED
    BY <2>1, <2>2, <2>3, <2>4, <2>5 DEF LeaseMove, RequestMove
<1> QED
  BY <1>1, <1>2 DEF GrantOf

LEMMA TrailOfRequest ==
  ASSUME TrailInv, [Next]_vars, NEW r \in Requests, request'[r].lease # None
  PROVE  /\ lease'[request'[r].lease].request = r
         /\ request'[r].status \notin {"unused", "pending"}
<1>1. CASE request[r].lease # None
  <2> DEFINE l == request[r].lease
  <2>1. l \in Leases /\ lease[l].request = r /\ ~GrantOf(l)
    BY <1>1, LeaseOf, LinkOf
  <2>2. RequestMove(request[r], request'[r])
    BY <2>1, LinkedRequestSteps
  <2>3. LeaseMove(lease[l], lease'[l])
    BY <2>1, LeaseSteps DEF TrailInv, TypeInv
  <2> QED
    BY <1>1, <2>1, <2>2, <2>3 DEF RequestMove, LeaseMove, TrailInv, Unlinked
<1>2. CASE request[r].lease = None /\ GrantFor(r)
  <2>1. PICK c \in Conns, l \in Leases, scopes \in ScopeChoices, ttl \in GrantTTLs :
          Grant(c, r, l, scopes, ttl)
    BY <1>2 DEF GrantFor
  <2>2. /\ lease'[l] = NewLease(r, request[r].session, instanceOf[c], scopes, ttl)
        /\ request'[r] = [SweptRequest(r) EXCEPT !.status = "granted", !.terminalAt = now,
                                                !.lease = l]
        /\ SweptRequest(r) \in RequestRecord
    BY <2>1, GrantEffect
  <2>3. request'[r].lease = l /\ request'[r].status = "granted"
    BY <2>2 DEF RequestRecord
  <2>4. lease'[l].request = r
    BY <2>2 DEF NewLease
  <2> QED
    BY <2>3, <2>4
<1>3. CASE request[r].lease = None /\ AccessOf(r)
  <2>1. PICK c \in Conns, scopes \in ScopeChoices : RequestAccess(c, r, scopes)
    BY <1>3 DEF AccessOf
  <2>2. request'[r] = NewRequest(c, scopes)
    BY <2>1, SweptType, RoomType DEF RequestAccess, TrailInv, TypeInv
  <2> QED
    BY <2>2 DEF NewRequest
<1>4. CASE request[r].lease = None /\ ~AccessOf(r) /\ ~GrantFor(r)
  BY <1>4, RequestSteps DEF RequestMove
<1> QED
  BY <1>1, <1>2, <1>3, <1>4

LEMMA TrailStep ==
  ASSUME TrailInv, [Next]_vars
  PROVE  LeaseTrail' /\ Unlinked'
<1>1. LeaseTrail'
  BY TrailOfLease, TrailOfRequest DEF LeaseTrail, Agree
<1>2. ASSUME NEW l \in Leases, lease'[l].request = None PROVE lease'[l].revokedAt = 0
  <2>1. ~GrantOf(l)
    <3>1. ASSUME NEW c \in Conns, NEW q \in Requests, NEW scopes \in ScopeChoices,
                 NEW ttl \in GrantTTLs, Grant(c, q, l, scopes, ttl)
          PROVE  FALSE
      <4>1. TypeOK
        BY DEF TrailInv, TypeInv
      <4>2. lease'[l] = NewLease(q, request[q].session, instanceOf[c], scopes, ttl)
        BY <3>1, <4>1, SweptType, RoomType DEF Grant
      <4> QED
        BY <1>2, <4>2, PoolsAssumption DEF NewLease
    <3> QED
      BY <3>1 DEF GrantOf
  <2>2. LeaseMove(lease[l], lease'[l])
    BY <2>1, LeaseSteps DEF TrailInv, TypeInv
  <2> QED
    BY <1>2, <2>2 DEF LeaseMove, Live, TrailInv, Unlinked
<1> QED
  BY <1>1, <1>2, TrailOfRequest DEF Unlinked

LEMMA TrailInvariant == Spec => []TrailInv
<1>1. Init => TrailInv
  BY TypeInit DEF TrailInv, TypeInv, Placed, Addressed, LeaseTrail, Unlinked, Init, NoLease,
                  NoRequest, NoCommand
<1>2. TrailInv /\ [Next]_vars => TrailInv'
  BY TypeStep, PlacedStep, AddressedStep, TrailStep DEF TrailInv, TypeInv
<1> QED
  BY <1>1, <1>2, PTL DEF Spec

\* For any numbers of records and any interleaving, a request and its lease name each
\* other, belong to one session, and end together with the same verdict.
THEOREM TrailHolds == Spec => []LeaseTrail
<1>1. TrailInv => LeaseTrail
  BY DEF TrailInv
<1> QED
  BY <1>1, TrailInvariant, PTL

\* No call, disconnect, sweep or late answer reopens or re-dates what has ended.
THEOREM EndsAreFinal == Spec => EndStaysFinal
<1>1. ASSUME TrailInv, [Next]_vars, NEW l \in Leases, lease[l].revokedAt # 0
      PROVE  /\ lease'[l].revokedAt = lease[l].revokedAt /\ lease'[l].reason = lease[l].reason
             /\ lease'[l].remainingUses = lease[l].remainingUses
  <2>1. lease[l].request # None /\ ~Live(lease[l])
    BY <1>1 DEF TrailInv, Unlinked, Live
  <2> QED
    BY <1>1, <2>1, LinkOf, LeaseSteps DEF TrailInv, TypeInv, LeaseMove
<1>2. ASSUME TrailInv, [Next]_vars, NEW r \in Requests, request[r].status \in Ended
      PROVE  /\ request'[r].status = request[r].status
             /\ request'[r].terminalAt = request[r].terminalAt
  <2>1. ~AccessOf(r)
    BY <1>2 DEF AccessOf, RequestAccess, Ended
  <2>2. ~GrantFor(r)
    BY <1>2, GrantedWasPending DEF Pending, Ended
  <2> QED
    BY <1>2, <2>1, <2>2, RequestSteps DEF FinalMove
<1>3. TrailInv /\ [Next]_vars => [EndIsFinal]_vars
  BY <1>1, <1>2 DEF EndIsFinal
<1> QED
  BY <1>3, TrailInvariant, PTL DEF Spec, EndStaysFinal

-----------------------------------------------------------------------------
(* Authority ends with the session that asked for it *)

\* A connection names an instance only after its upgrade to a browser, so what ends an
\* agent's connection is the branch of disconnected() for agents.
AgentsUnnamed == \A c \in Conns : conn[c] \in {"new", "agent"} => instanceOf[c] = None

AuthorityInv == TrailInv /\ AgentsUnnamed /\ AuthorityEndsWithSession

\* What a step may do to a connection.
LEMMA ConnSteps ==
  ASSUME TypeOK, [Next]_vars, NEW c \in Conns
  PROVE  /\ conn[c] = "agent" /\ conn'[c] # "agent" => Disconnected(c)
         /\ conn'[c] \in {"new", "agent"} =>
              conn[c] \in {"new", "agent"} /\ instanceOf'[c] = instanceOf[c]
<1> DEFINE Goal ==
      /\ conn[c] = "agent" /\ conn'[c] # "agent" => Disconnected(c)
      /\ conn'[c] \in {"new", "agent"} =>
           conn[c] \in {"new", "agent"} /\ instanceOf'[c] = instanceOf[c]
<1>1. CASE UNCHANGED links
  BY <1>1 DEF links
<1>2. ASSUME NEW d \in Conns, Hello(d) \/ UpgradeBegins(d) \/ UpgradeEnds(d) \/ Close(d)
      PROVE  Goal
  <2>1. CASE Hello(d)
    BY <2>1 DEF Hello, TypeOK
  <2>2. CASE UpgradeBegins(d) \/ UpgradeEnds(d)
    BY <2>2 DEF UpgradeBegins, UpgradeEnds, TypeOK
  <2>3. CASE Close(d)
    BY <2>3 DEF Close, TypeOK
  <2> QED
    BY <1>2, <2>1, <2>2, <2>3
<1>3. ASSUME NEW d \in Conns, NEW i \in Instances, RegisterBrowser(d, i) PROVE Goal
  BY <1>3 DEF RegisterBrowser, TypeOK
<1>4. ASSUME NEW d \in Conns, Relink(d) PROVE Goal
  BY <1>2, <1>3, <1>4 DEF Relink
<1>5. UNCHANGED links \/ \E d \in Conns : Relink(d)
  BY LinkSteps
<1>6. CASE \E d \in Conns : Relink(d)
  BY <1>4, <1>6
<1> QED
  BY <1>1, <1>5, <1>6

\* disconnected() leaves an agent's session nothing pending and nothing live.
LEMMA AgentLeavesNothing ==
  ASSUME AuthorityInv, NEW c \in Conns, conn[c] = "agent", Disconnected(c)
  PROVE  /\ \A r \in Requests : Pending(request'[r]) => request[r].session # c
         /\ \A l \in Leases : Live(lease'[l]) => lease[l].session # c
<1>1. now \in Positive /\ instanceOf[c] = None
  BY DEF AuthorityInv, TrailInv, TypeInv, TypeOK, AgentsUnnamed
<1>2. ASSUME NEW r \in Requests, request[r].session = c PROVE ~Pending(request'[r])
  <2>1. request[r] \in RequestRecord /\ request'[r] = DisconnectedRequest(c, request[r])
    BY DEF AuthorityInv, TrailInv, TypeInv, TypeOK, Disconnected
  <2>2. CASE Pending(request[r])
    <3>1. DropsPending(c, request[r])
      BY <1>1, <1>2, <2>2 DEF DropsPending, Pending
    <3>2. request'[r] = [request[r] EXCEPT !.status = "revoked", !.terminalAt = now]
      BY <2>1, <3>1 DEF DisconnectedRequest
    <3> QED
      BY <2>1, <3>2 DEF Pending, RequestRecord
  <2>3. CASE ~Pending(request[r])
    <3>1. ~DropsPending(c, request[r])
      BY <2>3 DEF DropsPending, Pending
    <3>2. \A x, why : ~Pending(ClosedWith(request[r], x, why))
      BY <2>1, <2>3 DEF ClosedWith, Pending, RequestRecord
    <3> QED
      BY <2>1, <2>3, <3>1, <3>2 DEF DisconnectedRequest
  <2> QED
    BY <2>2, <2>3
<1>3. ASSUME NEW l \in Leases, lease[l].session = c PROVE ~Live(lease'[l])
  <2>1. lease[l] \in LeaseRecord
    BY DEF AuthorityInv, TrailInv, TypeInv, TypeOK
  <2>2. lease'[l] = Revoked(lease[l], DisconnectReason(c, lease[l]))
    BY DEF Disconnected
  <2>3. CASE Live(lease[l])
    <3>1. lease[l].stored
      BY <2>3 DEF AuthorityInv, AuthorityEndsWithSession
    <3>2. DisconnectReason(c, lease[l]) = "AGENT_DISCONNECTED"
      BY <1>1, <1>3, <3>1 DEF DisconnectReason
    <3>3. "AGENT_DISCONNECTED" \in Reasons
      BY DEF Reasons
    <3> QED
      BY <1>1, <2>1, <2>2, <3>2, <3>3, RevokedMove, ReasonsAssumption
  <2>4. CASE ~Live(lease[l])
    BY <2>2, <2>4 DEF Revoked
  <2> QED
    BY <2>3, <2>4
<1> QED
  BY <1>2, <1>3

LEMMA AuthorityStep ==
  ASSUME AuthorityInv, [Next]_vars, ~Pipelines
  PROVE  AuthorityEndsWithSession'
<1>1. TrailInv /\ TypeOK /\ Addressed
  BY DEF AuthorityInv, TrailInv, TypeInv
<1>2. ASSUME NEW r \in Requests, Pending(request'[r]) PROVE AgentConnected(request[r].session)'
  <2>1. ~GrantFor(r)
    <3>1. ASSUME NEW c \in Conns, NEW l \in Leases, NEW scopes \in ScopeChoices,
                 NEW ttl \in GrantTTLs, Grant(c, r, l, scopes, ttl)
          PROVE  FALSE
      <4>1. request'[r].status = "granted"
        BY <1>1, <3>1, SweptType DEF Grant, RequestRecord
      <4> QED
        BY <1>2, <4>1 DEF Pending
    <3> QED
      BY <3>1 DEF GrantFor
  <2>2. ASSUME NEW c \in Conns, NEW scopes \in ScopeChoices, RequestAccess(c, r, scopes)
        PROVE  AgentConnected(request[r].session)'
    <3>1. request'[r] = NewRequest(c, scopes)
      BY <1>1, <2>2, SweptType, RoomType DEF RequestAccess
    <3> QED
      BY <2>2, <3>1 DEF NewRequest, RequestAccess, CallsAsAgent, links, AgentConnected
  <2>3. CASE ~AccessOf(r)
    <3>1. RequestMove(request[r], request'[r])
      BY <1>1, <2>1, <2>3, RequestSteps
    <3>2. Pending(request[r]) /\ request'[r].session = request[r].session
      BY <1>2, <3>1 DEF RequestMove
    <3>3. AgentConnected(request[r].session)
      BY <3>2 DEF AuthorityInv, AuthorityEndsWithSession
    <3> QED
      BY <1>1, <1>2, <3>2, <3>3, ConnSteps, AgentLeavesNothing DEF AgentConnected
  <2> QED
    BY <2>2, <2>3 DEF AccessOf
<1>3. ASSUME NEW l \in Leases, Live(lease'[l])
      PROVE  lease'[l].stored /\ AgentConnected(lease[l].session)'
  <2>1. ASSUME NEW c \in Conns, NEW q \in Requests, NEW scopes \in ScopeChoices,
               NEW ttl \in GrantTTLs, Grant(c, q, l, scopes, ttl)
        PROVE  lease'[l].stored /\ AgentConnected(lease[l].session)'
    <3>1. lease'[l] = NewLease(q, request[q].session, instanceOf[c], scopes, ttl)
      BY <1>1, <2>1, SweptType, RoomType DEF Grant
    <3>2. Pending(request[q])
      BY <1>1, <2>1, GrantedWasPending DEF GrantFor
    <3> QED
      BY <2>1, <3>1, <3>2
      DEF NewLease, Grant, links, AgentConnected, AuthorityInv, AuthorityEndsWithSession
  <2>2. CASE ~GrantOf(l)
    <3>1. LeaseMove(lease[l], lease'[l])
      BY <1>1, <2>2, LeaseSteps
    <3>2. Live(lease[l]) /\ lease'[l].stored = lease[l].stored /\ lease'[l].session = lease[l].session
      BY <1>3, <3>1 DEF LeaseMove
    <3>3. lease[l].stored /\ AgentConnected(lease[l].session)
      BY <3>2 DEF AuthorityInv, AuthorityEndsWithSession
    <3> QED
      BY <1>1, <1>3, <3>2, <3>3, ConnSteps, AgentLeavesNothing DEF AgentConnected
  <2> QED
    BY <2>1, <2>2 DEF GrantOf
<1> QED
  BY <1>2, <1>3 DEF AuthorityEndsWithSession

\* However connections come and go, are upgraded, and records are swept and evicted, no
\* request stays pending and no lease stays live once its agent's session has ended: as
\* long as no peer sends a call in one chunk with its browser.auth.complete.
THEOREM AuthorityEnds == ASSUME ~Pipelines PROVE Spec => []AuthorityEndsWithSession
<1>1. Init => AgentsUnnamed /\ AuthorityEndsWithSession
  BY DEF Init, AgentsUnnamed, AuthorityEndsWithSession, Pending, Live, NoRequest, NoLease
<1>2. TrailInv /\ TrailInv' /\ AgentsUnnamed /\ AuthorityEndsWithSession /\ [Next]_vars
        => AgentsUnnamed' /\ AuthorityEndsWithSession'
  <2> SUFFICES ASSUME AuthorityInv, [Next]_vars PROVE AgentsUnnamed' /\ AuthorityEndsWithSession'
    BY DEF AuthorityInv
  <2>1. AgentsUnnamed'
    BY ConnSteps DEF AgentsUnnamed, AuthorityInv, TrailInv, TypeInv
  <2> QED
    BY <2>1, AuthorityStep
<1> QED
  BY <1>1, <1>2, TrailInvariant, PTL DEF Spec

-----------------------------------------------------------------------------
(* Nothing is sent or accepted past the time of its lease *)

\* A lease that is usable after the sweep had not lapsed before it.
LEMMA UsableIsInTime ==
  ASSUME TypeOK, NEW l \in Leases, Live(SweptLease(l)), SweptLease(l).stored
  PROVE  Live(lease[l]) /\ LapseReason(lease[l]) = None
<1> DEFINE x == lease[l]
           why == SweepReason(x)
<1>1. x \in LeaseRecord /\ now \in Positive
  BY DEF TypeOK
<1>2. Live(x)
  BY SweptMove DEF LeaseMove
<1>3. ExpiredLease(x) \in LeaseRecord
  BY <1>1, LapseReasonType, RevokedType DEF ExpiredLease
<1>4. SweptLease(l) = ExpiredLease(x)
  BY <1>3 DEF SweptLease, Dropped, LeaseRecord
<1>5. why = None
  BY <1>1, <1>4, RevokedMove, LapseReasonType DEF ExpiredLease
<1>6. x.stored
  BY <1>1, <1>4, <1>5 DEF ExpiredLease, Revoked
<1> QED
  BY <1>2, <1>5, <1>6 DEF SweepReason

LEMMA InTime ==
  ASSUME now \in Positive, NEW x \in LeaseRecord, Live(x), LapseReason(x) = None
  PROVE  now < x.expiresAt /\ now < x.lastUsedAt + IdleTimeout
<1>1. ~(x.expiresAt <= now \/ x.lastUsedAt + IdleTimeout <= now)
  BY ReasonsAssumption DEF LapseReason, Reasons, BrowserReasons
<1> QED
  BY <1>1, LimitsAssumption DEF LeaseRecord, Positive

\* Only Admit sends a command and only ResultAccepted accepts its result.
LEMMA UsedInTimeStep ==
  ASSUME TypeInv, [Next]_vars
  PROVE  UsedInTime
<1>1. TypeOK /\ Addressed /\ now \in Positive
  BY DEF TypeInv, TypeOK
<1> DEFINE Used(k) ==
      \/ command[k].pc = "idle" /\ command'[k].pc = "sent"
      \/ command[k].pc = "sent" /\ command'[k].pc = "auditing"
<1>2. SUFFICES ASSUME NEW k \in Commands, Used(k)
               PROVE  /\ command'[k].lease \in Leases
                      /\ Live(lease[command'[k].lease])
                      /\ LapseReason(lease[command'[k].lease]) = None
  BY <1>1, <1>2, InTime DEF UsedInTime, TypeOK
<1>3. command[k] \in CommandRecord /\ command \in [Commands -> CommandRecord]
  BY <1>1 DEF TypeOK
<1>4. command' # command
  BY <1>2
<1>5. ASSUME NEW c \in Conns, NEW j \in Commands, NEW l \in Leases, NEW kind \in Kinds,
             Admit(c, j, l, kind)
      PROVE  /\ command'[k].lease \in Leases
             /\ Live(lease[command'[k].lease])
             /\ LapseReason(lease[command'[k].lease]) = None
  <2>1. j = k
    BY <1>2, <1>3, <1>5 DEF Admit
  <2>2. command'[k].lease = l
    BY <1>3, <1>5, <2>1 DEF Admit
  <2>3. Live(SweptLease(l)) /\ SweptLease(l).stored
    BY <1>5 DEF Admit, Usable
  <2> QED
    BY <1>1, <2>2, <2>3, UsableIsInTime
<1>6. ASSUME NEW j \in Commands, CommandStep(j)
      PROVE  /\ command'[k].lease \in Leases
             /\ Live(lease[command'[k].lease])
             /\ LapseReason(lease[command'[k].lease]) = None
  <2>1. ASSUME NEW bytes \in ByteChoices, ResultAccepted(j, bytes)
        PROVE  /\ command'[k].lease \in Leases
               /\ Live(lease[command'[k].lease])
               /\ LapseReason(lease[command'[k].lease]) = None
    <3>1. j = k /\ command'[k].lease = command[k].lease /\ command[k].pc = "sent"
      BY <1>2, <1>3, <2>1 DEF ResultAccepted, CommandRecord
    <3> QED
      BY <1>1, <2>1, <3>1 DEF ResultAccepted, Addressed
  <2>2. ASSUME ~\E bytes \in ByteChoices : ResultAccepted(j, bytes) PROVE FALSE
    BY <1>2, <1>3, <1>6, <2>2
    DEF CommandStep, ResultRefused, CommandFails, AuditFails, ResultReturned, ErrorReturned,
        CommandRecord
  <2> QED
    BY <2>1, <2>2
<1>7. (\E j \in Commands : CommandStep(j)) \/ SomeAdmit
  <2>1. ASSUME NEW c \in Conns, AgentCall(c) PROVE SomeAdmit
    BY <1>4, <2>1 DEF AgentCall, SomeAdmit, RequestAccess, RefuseRequest, AgentRevoke,
                      AdmitWithoutBrowser
  <2>2. ASSUME NEW c \in Conns, BrowserCall(c) PROVE FALSE
    BY <1>4, <2>2 DEF BrowserCall, RegisterBrowser, Grant, Deny, BrowserRevoke
  <2> QED
    BY <1>4, <2>1, <2>2 DEF Next, vars, Hello, UpgradeBegins, UpgradeEnds, Close, ReadOrRefused,
                            GrantAnswered, GrantAuditFails, Tick
<1> QED
  BY <1>5, <1>6, <1>7 DEF SomeAdmit

\* Though nothing but calls looks at the clock, no command is sent and no result accepted
\* on a lease whose lifetime or idle time is over, for any of these times.
THEOREM UsesAreInTime == Spec => LeasesUsedInTime
<1>1. TypeInv /\ [Next]_vars => [UsedInTime]_vars
  BY UsedInTimeStep
<1> QED
  BY <1>1, TypeInvariant, PTL DEF Spec, LeasesUsedInTime

=============================================================================
