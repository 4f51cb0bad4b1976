# TabGrant in TLA+

TabGrant lets a local agent use one browser tab under a lease that the user grants in
the browser. This directory models the parts of it that decide who may do what, checks
them with TLC and proves the most important facts with TLAPS.

    tlc -config BrokerSessions.cfg MCBrokerState     # any of the configurations below
    tlc -config AuditRecovery.cfg MCAuditLog
    tlc -config ExtensionGrants.cfg MCExtension
    tlc -config Pairing.cfg MCPairing
    tlc -config Daemons.cfg MCDaemonLifecycle
    tlc -config Policy.cfg MCPolicy
    tlapm BrokerStateProofs.tla                      # the proofs
    tlapm BrokerBudgetProofs.tla
    tlapm BrokerRecordProofs.tla
    tlapm AuditLogProofs.tla
    tlapm DaemonLifecycleProofs.tla
    tlapm PairingProofs.tla
    tlapm PolicyProofs.tla
    tlapm ExtensionProofs.tla

Source paths below are relative to the repository's root.

## The system

| Part | State it keeps | Operations | Talks to |
| --- | --- | --- | --- |
| Broker state, `apps/broker/src/broker-state.ts` | access requests, leases with their budgets, registered browsers, rate windows | `access.request/grant/deny/revoke/status`, `browser.*` commands, `disconnected` | browser (commands, events), audit log (every decision) |
| Daemon, `daemon.ts` | sockets and their contexts, pairing prompt and challenges, kill-switch timer | accept, `session.hello`, `browser.auth.start/pair/complete`, close, start, stop | broker state, files, operating system prompt |
| RPC peers, `wire.ts`, `native-framing.ts` | calls waiting for an answer, inbound rate and concurrency | request, answer, event, timeout, destroy | every process |
| Native host, `native-host.ts` | calls relayed to the extension, startup queue | relay in both directions | extension (stdio), broker (socket) |
| Audit log, `audit.ts` | hash-chained segments, signed manifest, a queue of writes | initialize and verify, record, rotate, expire | files |
| Secrets and pairings, `auth.ts` | `broker.secret`, `authority.secret`, pairing file | create once, verify hello, challenge and proof, persist a pairing | files |
| Kill switch, `kill-switch.ts` | one file | activate, clear, read | files, daemon's 200 ms monitor |
| Capabilities and policy, `capability.ts`, `packages/policy` | none | issue and verify a token, evaluate a request | broker state |
| Extension, `apps/extension/src/service-worker.ts` | pending list and one grant in session storage, port, calls waiting, expiry timer | connect, authenticate, register, grant, execute, revoke, prune | native host, content bridge, popup |
| Content bridge, popup | the page's document identity; what the popup shows | snapshot, highlight, scroll, navigate | service worker |
| Installer, `installer.ts` | native-host manifest and launcher files | install, uninstall | files other programs may change |
| MCP server, CLI, autostart, doctor | none | translate, start, diagnose | broker |

An agent's call goes MCP server → socket → broker state → socket → native host →
extension → content bridge, and the answer comes back the same way. Events
(`access.requested`, `access.revoked`, `broker.killed`) go only from broker to extension.

What is hard here:

- **awaits inside handlers.** The broker is one Node process; a handler is atomic only
  up to its next `await`. A lease may be revoked, used up, expired or orphaned while a
  command waits for the browser or for its audit record, and a grant or an upgrade of a
  connection has the same gap. The extension reads and writes storage around awaits.
- **several actors end the same thing.** Agent, browser, two kinds of disconnect,
  expiry and exhausted uses all revoke a lease.
- **no timers for expiry.** Lapsed leases and requests are found by the next call.
- **limits and retention.** Pending limits, rate windows, capped Maps with eviction,
  pruning at intervals, in-flight slots, uses, an egress budget with refunds.
- **failure.** Audit appends fail, browsers time out on two hops, connections are
  replaced before the old one is closed, processes end between two file operations.

What makes each part correct: the broker never lets authority outlive its session, its
lifetime or its budgets, and its records of one decision agree; a call ends exactly
once; the audit log, after any crash, either verifies or is refused; a pairing needs one
approved prompt and a challenge is used once; one daemon owns the socket and none serves
once the switch is on; the extension never executes under a grant it has dropped, and
drops what the broker has revoked; the installer never removes what it did not write.
Where the code falls short of this, Findings says how.

`PROJECT.json` lists the parts with their status and, under `hazards`, each place in the
code where these can go wrong with the properties that cover it.

## Modules

| Module | What it is |
| --- | --- |
| `LeaseAuthority` | what the broker promises about leases and calls, without sessions, clocks, budgets or audit |
| `BrokerState` | the broker's authority: connections, requests, leases, commands; implements `LeaseAuthority` |
| `AuditLog` | the audit log on disk: segments, manifest, failures, restarts |
| `Extension` | the service worker, the bridges in the pages and the native port, with `LeaseAuthority` as the broker at the other end |
| `Pairing` | how a connection becomes a browser's: challenges, prompts, the pairing file |
| `DaemonLifecycle` | broker processes and clients on one set of files: start, stop, kill switch |
| `Policy` | the policy engine as an operator, and the two who ask it |
| `MCBrokerState`, `MCAuditLog`, `MCExtension`, `MCPairing`, `MCDaemonLifecycle`, `MCPolicy` | values, symmetry sets and reduced starts for TLC |
| `BrokerStateProofs`, `BrokerBudgetProofs`, `BrokerRecordProofs` | theorems about `BrokerState`: its types, authority and ends; its budgets and `ImplementsAuthority`; its Maps and rate windows |
| `AuditLogProofs`, `DaemonLifecycleProofs`, `PairingProofs`, `PolicyProofs`, `ExtensionProofs` | theorems about the module each is named after |

`LeaseAuthority` is where the parts meet. `BrokerState` is shown to implement it, by the
mapping `Standing`, `Outcome` of its records (`ImplementsAuthority`); `Extension` extends
it, so that the worker is checked against everything the broker may do and not against
one scenario of it. What an action of `BrokerState` sweeps on the way, `LeaseAuthority`
allows as a set of leases that end together with the step. `Pairing` says when a
connection of `BrokerState` may upgrade (`UpgradeBegins`), `Policy` what `Admit` asks, and
`DaemonLifecycle` when there is a broker at all.

### BrokerState

An action is the synchronous part of a handler, up to its next `await`.

| Code | Model |
| --- | --- |
| `accessRequests`, `leases` | `request`, `lease`: functions from an id to a record; the field `stored` is membership in the Map, because a running command keeps a lease object that the Map has dropped |
| `browsers`, `context.browserInstanceId` | `browsers`, `instanceOf` |
| context of a socket in `accept` | `conn[c]`: new, agent, upgrading, browser, closed |
| `accessRequestWindows`, `globalAccessRequestWindow` | `sessionWindow`, `globalWindow` |
| an `execute` call that has not returned | `command[k]`, with `pc` the await it is at |
| `Date.now()` | `now`, advanced by `Tick` |
| `maintainState`, `expireRecords` | `SweptRequests`, `SweptLeases`, `Sweep`: in every action that is a call |
| `revokeLease`, `isLeaseActive` | `Revoked` with `ClosedWith`, `LapseReason` |
| `requestAccess` | `RequestAccess`, `RefuseRequest` |
| `grantAccess` | `Grant`, then `GrantAnswered` or `GrantAuditFails` |
| `browserDeny`, `agentRevoke`, `browserRevoke` | `Deny`, `AgentRevoke`, `BrowserRevoke` |
| `execute`, `navigate`, `executeWithLease` | `Admit` or `AdmitWithoutBrowser`; `ResultAccepted`, `ResultRefused` or `CommandFails`; `AuditFails`; `ResultReturned` or `ErrorReturned` |
| `disconnected`, socket close | `Disconnected`, `Close` |
| `session.hello`, `browser.auth.complete` | `Hello`, `UpgradeBegins`, `UpgradeEnds` |
| `browser.register` | `RegisterBrowser` |
| reads and calls refused without effect | `ReadOrRefused` |

Choices made in the model:

- A session id and its context are made together and never shared, so a session is named
  by its connection. Each member of `Conns` is used once; a reconnect is another member.
- Time does not pass inside a synchronous part and does not go backwards. 0 stands for a
  time stamp that is not set.
- Which record is evicted among those that ended at the same time depends on the order of
  a Map; the model may pick any of them.
- A connection may register any instance, and again another one, as the broker lets it.
  The extension registers the instance it authenticated as.
- `USER_REVOKED` stands for every reason a browser may give but `LEASE_EXPIRED`, the only
  one the code tells apart.
- An append to the audit log is an await that succeeds or fails. A record whose failure
  only changes which error a caller gets is not a step of its own. A failed record of a
  browser's disconnect stops the daemon, which is `DisconnectFails` of `DaemonLifecycle`.
- The signed capability and the policy evaluated by `authorizeCommand` repeat the fields
  of the lease; what remains of them is the scopes, the lifetime and the uses. That this
  is all there is to it is `EngineAgrees` of `Policy`.
- Events sent to browsers have no effect on the broker's state; `Extension` has them.
- `Pipelines` says whether a peer sends calls in the same chunk of input behind
  `browser.auth.complete`. The extension waits for the answer; the broker does not
  insist on it. While an upgrade awaits, other connections may act too, which is more
  than the promise queue of Node allows and so on the safe side.

### AuditLog

An action is one operation on the file system, because segments and manifest are
different files and everything can stop between two of them.

| Code | Model |
| --- | --- |
| the log's directory | `disk`: a file or `None` per segment index, and the manifest |
| what a loss of power may undo | `images`: every state of the disk since the directory was last synced |
| `segments`, `poisoned` | the same names |
| `segmentCreatedAt`, `segmentBytes`, `previousHash` | `active` |
| the `initialize()` or `record()` at the head of `writeQueue` | `op`, with `pc` the file operation it is at |
| `initialize` | `StartFresh`, `StartVerified` or `StartRefused`, then expiry or publication |
| `record` | `RecordBegins`; expiry; rotation if the segment is full; `Opens`, `Appends`, `Describes`, publication |
| `removeExpiredSegments` | `ExpireSegment`, `ExpireEnds`, `ExpireFails`, `Proceed` |
| `rotateCurrentSegment` | `RotateUnlinks`, `RotateRenames`, `RotateEnds`, `RotateFails` |
| `persistManifest`, `atomicWritePrivateFile` | `Publishes`, `Syncs`, `PublishFails` |
| an exception in `record()`, `failAfterMutation` | `Throw` |
| the end of the process, of the machine | `Crash`, `PowerFails` |

Choices made in the model:

- HMACs and digests are perfect. A hash is known by the record it is the hash of, the
  digest of a file by its lines; `recordCount` and `firstHash` are part of the latter.
- `writeQueue` runs one operation at a time, so calls that wait in it are not state: they
  come in the order of `RecordBegins`.
- A power failure falls back to a state of the disk since the last sync of the directory:
  changes reach the disk in the order they were made. That an append was synced by then is
  not used, which is on the safe side.
- A write that is cut short leaves a torn line or the whole one.
- No record is longer than a segment; the schema caps it at a few kilobytes.
- Temporary files, permissions, symbolic links and `generation` are left out: no other
  operation reads them.
- `acked`, `retired`, `calls` and `damaged` record history for the properties; `damaged`
  says that an append has failed since the start.

### Extension

Chrome calls handlers without waiting for one another, so a handler is a task: a stack of
frames, one per function that awaits another. An action runs one task from the end of an
await through the effect of the call it awaits next. What a frame read is in the frame
(`saw`), and may be stale when it is written.

| Code | Model |
| --- | --- |
| `chrome.storage.session` | `storage`: the pending list and the lease of the grant |
| `nativePort`, `authenticatedNativePort`, `brokerConnected` | `nativePort`, `authenticated`, `brokerConnected` |
| `browserAuthenticationQueue` (`serial-queue.ts`) | `authQueue`, its head running; `AfterFailure` |
| `reconnectTimer`, `expiryTimer`, the timer of `navigate` | `reconnectTimer`, `expiryTimer`, `dueRevokes` |
| a tab, its document's bridge | `page[tab]`: url and document id |
| both directions of the native port | `toExt`, `toBroker`: in order, dropped when an end goes away |
| `initialize`, `connectNative`, `registerBrowser` | `Initialize`, `InitializeConnect`, `Connect`, `ConnectFails`, `AuthTurn`, `AuthAnswered`, `RegisterSend`, `RegisterAnswered`, `RegisterWrite` |
| `handleNativeDisconnect`, `scheduleReconnect` | `PortLossSeen`, `LostReconnect`, `Reconnect`, `ReconnectTimerIdle` |
| a call that times out or is rejected | `RpcFails`, `RegisterClose` |
| `pruneExpiredState`, `broadcastState` | `Pruned`, `PruneWrite` |
| `revokeGrant` | `RevokeRead`, `RevokeTeardown`, `RevokeWrite`, `RevokeNotify` |
| `handleBrokerEvent`, `handleBrokerRequest` | `EventArrives`, `RequestedWrite` |
| `executeBrowserCommand`, the bridge's listener | `ExecuteCheck`, `ExecuteIdentify`, `ExecuteSend` with `BridgeAccepts`, `ExecuteNavigate`, `ExecuteRefused` (scopes, target, a tab that is gone), `ExecuteFail` |
| `grantCurrentTab` | `GrantFind` to `GrantWrite`, `GrantTeardown`, `GrantRevoke` |
| popup messages, tab events, timers | `PopupGrants`, `PopupRevokes`, `PopupOpens`, `RegisterAgain`, `PopupState`, `TabEvent`, `ExpiryTimer`, `NavigationTimer` |
| the broker | `LeaseAuthority` and `BrokerAdmits`, `BrokerGrants`, `BrokerAnswersGrant`, `BrokerIsTold`, `BrokerSeesClose`, `BrokerDispatches`, `Ask`, `Withdraw`, `BrokerEnds` |
| users, Chrome, the clock | `Navigate`, `WorkerStops`, `PortLost`, `Expire` |

Choices made in the model:

- `start`, `pair` and `complete` of an authentication are one exchange, and so are
  `browser.register` and `access.pending.list`. `Pairing` has the broker's side of the
  first.
- `broker.killed` has a handler in the worker and no sender in the broker; it is left out.
- `initialize()` is taken once per start of the worker. Chrome also calls it on
  installation and start-up, when it finds a port and does no more than set the timer.
- `port.disconnect()` causes `onDisconnect` at the other end only, as Chrome documents it.
- A url stands for its origin; `None` is a page that cannot be granted, or a closed tab.
- The lifetime of a request or lease ends by `Expire`: a clock would only tell apart how
  many of them end together.
- Badge, titles, key storage and what the bridge does to a page are left out. `effect`
  records for a call which document it acted on, and whether the bridge or, for `navigate`,
  the worker did it; `torn` records the leases whose bridge was torn down.

### Pairing

| Code | Model |
| --- | --- |
| `browserChallenge`, `browserChallengePairsKey`, `browserAuthTransitionActive`, `pairingAttempts` of a connection | the same names, per connection |
| `pairingPromptActive`, `lastPairingPromptAt`, `globalPairingAttempts` of the daemon | the same names |
| the await a handler is at | `handler[c]`: lookup, prompt, persist, disconnect |
| `browser-pairing.json` | `pairingFile` |
| `browser.auth.start` | `Start`, `StartReads`, `StartEnds` |
| `browser.auth.pair` | `Pair` or `PairRefused`, `PromptEnds` |
| `browser.auth.complete` | `Complete`, `PersistEnds`, `UpgradeEnds` |
| `session.hello`, close | `Hello`, `Close` |

The identity (extension id, instance, public key) is one key. Signatures are perfect. The
prompt is killed after `PromptTimeout`, which is when `PromptEnds` must have come. A
handler goes on when its connection closes. `prompts`, `consumed`, `proven` and `paired`
record history for the properties.

### DaemonLifecycle

| Code | Model |
| --- | --- |
| the operation of `start` or `stop` a process is at | `phase[d]` |
| `server.listen`, `accept` | `phase[d]` "listen" between bind(2) and listen(2), when the name is there and refuses connections; then `listening` |
| `broker.secret` | `secretFile`, and `secretOf[d]` once it is read |
| the socket file: whose server is bound to it | `socketPath` |
| `disabled.json` | `marker` |
| `start` | `Check`, `Inspect`, `Probe`, `Unlink`, `ReadSecret` to `RereadSecret`, `InitializeAudit`, `Bind`, `Listen`, `Chmod`, and `StartFails` |
| the monitor, signals, `trackDisconnect`, `stop` | `MonitorStops`, `StopRequested`, `DisconnectFails`, `StopUnlinks` |
| the end of a process | `Crash` |
| `tabgrant kill`, `tabgrant enable` | `ActivateKillSwitch`, `ClearKillSwitch` |
| `connectBrokerWithAutostart` | `ClientAsks`, `ClientConnects`, `ClientSpawns`, `ClientGivesUp`, `ClientLeaves` |

An action is one operation on a file or socket, since nothing but the file system keeps
two processes apart; binding and listening are two. `collided` records, for `StartsExclude`,
that somebody was about to remove the name of a daemon between them. A client connects,
reads the secret and says hello in one step: who else changes the secret or the socket in
between only makes that attempt fail. `broker.secret` stands for both secrets, which are made by the same
function. Modes, owners and symbolic links are left out, and Windows' pipes.

### Policy

| Code | Model |
| --- | --- |
| `evaluatePolicy` | `Decision`, with `CommonCode`, `CommitCode`, `GrantCode`, `ScopePresent`, `StaleReference`, `ApprovalCode`, each the first code that applies |
| `FIXED_SCOPE_BY_ACTION`, `RISK_BY_ACTION`, the word lists | `Fixed`, `R2Kinds`, `R3Kinds`, `ForbiddenCode` |
| `CapabilitySchema`, `LeaseSchema` | `WellFormedCapability`, `WellFormedLease` |
| `CapabilityIssuer.issue` | `Issue` |
| `authorizeCommand`, `actionForCommand`, `isLeaseActive`, `reserveCommand` | `Authorized`, `ActionForCommand`, `IsLeaseActive`, `Execute` with `Reserve` |
| `lease.policyLease`, the lease itself | `policyLease`, `lease`: two copies of lifetime, last use and end |
| a caller that prepares and commits (external) | `Prepare`, `Approve`, `Commit` |

Only the broker asks the engine today, and only to prepare; commits, receipts and
preparations are part of the engine's interface and of its tests, and the model asks
for them as these do. A hash is the record it is made of. Of the client, the task, the
tab, the audience and the policy version, which never change under a grant and are
compared in the same way, only the client is kept. `PageContext` is that of the broker, and
`NeverRegained` is about callers of that shape: they report a rate that is allowed (the
broker counts rates itself, `broker-state.ts:1014` passes whether uses remain), and a
document that a navigation has left does not come back.

### Properties

| Property | Says | Hazard |
| --- | --- | --- |
| `AuthorityEndsWithSession` | pending requests and live leases belong to connected agents, and no live lease is lost from the Map | disconnects, upgrades, grants and evictions in any order |
| `LeaseTrail` | request and lease of one decision agree: link, session, scopes, verdict | six ways to end a lease, requests evicted before their lease |
| `BrowsersLeave` | a browser's connection takes its entry and the leases of its instance with it, unless a connection named a second instance | reconnects, re-registration, closes in any order |
| `EndStaysFinal` | what is revoked, denied or expired stays so, with its reason and time | double revocation |
| `ImplementsAuthority` | the broker implements `LeaseAuthority` | all of these together |
| `InFlightMatches`, `UsesAccounted`, `EgressAccounted` | the three budgets of a lease are exact | concurrent results, refunds, exhaustion with commands in flight |
| `LeasesUsedInTime` | no command or result past lifetime or idle time | lazy expiry |
| `RecordsBounded`, `RateWindowsHold`, `RecordsRetained` | limits hold; records leave only when over, and the oldest first | windows, eviction, pruning |
| `CommandsSettle` | every admitted command comes back | silent browsers, failing audit log |
| `NothingAcknowledgedLost` | an acknowledged record is on every disk that a crash or loss of power can leave | stops and failures in the middle of rotation, expiry, publication |
| `CleanRestart` | the files of a serving logger verify, and its memory agrees with them | three ways to set the active segment's fields |
| `RetentionKept` | an acknowledgement leaves no segment past retention | age at the limit, several segments |
| `OperationsEnd` | every start and every `record()` ends | one queue for all decisions |
| `ActsWithConsent` | a bridge acts on the document its lease was granted for, and not after its bridge was torn down | grants, revocations, navigation and storage in any interleaving |
| `TornLeasesEnd` | a lease the worker gave up is over at the broker, past its deadline, or its revocation or its connection's end is under way | stale writes, grants that fail half way |
| `ReconnectPending` | a worker without an open port has a reconnection coming, unless it closed the port itself | revocation before the reconnect, connections that fail |
| `QueueServed` | whoever waits in the authentication queue is served | failures and lost ports in the queue |
| `PromptsSpaced` | one prompt at a time, not within the cooldown, not above the limit | connections that compete, close, time out |
| `PairedByConsent`, `BrowsersProven` | what is paired was approved and proved; what is a browser proved an unused challenge | expiry, second completions, closes |
| `ChallengeKept` | nothing but expiry or its completion takes a challenge away | calls during awaits |
| `BusyOnlyWhileRunning` | the flags are set exactly while a handler runs that resets them | failures on every path |
| `SecretShared` | all daemons have the secret that is in the file | create-then-write, crash in between |
| `StartsExclude`, `StartsSucceed` | one daemon listens and the socket file is its own, unless somebody was about to remove the name between bind and listen; some start succeeds unless somebody stops | stale sockets, concurrent starts, stops, crashes |
| `KillStops` | a daemon that has started stops when the switch is used | the switch is used during a start |
| `EngineAgrees` | the broker's checks and the engine's allow the same commands | two copies of one lease |
| `CommitsAsApproved` | a commit is what was approved, where it was approved, once | four things that change between prepare and commit |
| `NeverRegained` | what was refused under a grant stays refused | limits, lapses and renewals |
| `ManifestBindsFiles`, `NavigatesWithConsent`, `KillClosesConnections` | statements of the documentation that the code does not keep | see Findings |

## Runs

| Configuration | Shows | Bounds |
| --- | --- | --- |
| `BrokerSessions` | `TypeOK`, `AuthorityEndsWithSession`, `LeaseTrail`, `EndStaysFinal`, `ImplementsAuthority` | 3 connections, 1 instance, 2 requests, 2 leases, 1 command, no passing of time |
| `BrokerBudgets` | `InFlightMatches`, `UsesAccounted`, `EgressAccounted`, `LeasesUsedInTime` | 1 lease, 3 commands, 2 slots, 3 uses, 3 units of egress with results of 2 and 3, 3 ticks |
| `BrokerReconnects` | `BrowsersLeave`, `CommandsSettle` | an agent and 2 browsers connected, 2 instances, 1 request, 1 lease, 1 command, 2 ticks |
| `BrokerAdmission` | `RecordsBounded`, `RateWindowsHold`, `RecordsRetained` | 2 agents and a browser that stay, 4 requests, Maps of 2 and 1 records, windows of 2 ticks |
| `AuditRecovery` | `TypeOK`, `NothingAcknowledgedLost`, `CleanRestart`, `RetentionKept`, `OperationsEnd` | 3 segments of 2 units, 4 records of 1 or 2, retention of 2 ticks |
| `ExtensionGrants` | `TypeOK`, `ActsWithConsent`, `TornLeasesEnd`, `ReconnectPending`, `QueueServed` | a granted lease, 2 handlers at a time of 3, 2 requests, 2 leases, 1 command, 1 tab, 2 ports, 2 documents, 1 event |
| `Pairing` | `TypeOK`, `PromptsSpaced`, `PairedByConsent`, `BrowsersProven`, `ChallengeKept`, `BusyOnlyWhileRunning` | 2 connections, 2 keys, 4 calls, 3 ticks |
| `Daemons` | `TypeOK`, `SecretShared`, `StartsExclude`, `KillStops`, `StartsSucceed` | 3 daemons, 1 client, 1 fault, 1 use of the kill switch |
| `Policy` | `TypeOK`, `EngineAgrees`, `CommitsAsApproved`, `NeverRegained` | 8 actions, 2 grants, 2 uses, 2 preparations, 1 receipt, 2 documents, 2 page states, 3 ticks |
| `AuditDamage`, `ExtensionNavigation`, `DaemonKill` | a finding each | the smallest that reach it |

Broker: three connections are an agent, a browser and one more: the browser's reconnect, a
second agent, or an agent that upgrades. Two requests and two leases let one decision be
evicted or revoked beside another. `BrokerReconnects` starts where an agent and the
connections of two browsers are there, one registered: with two instances each of them may
replace the other or register again under another one, and an agent that upgrades is a
third. The limits are scaled down so that each is reached by
the actors there are and one further call finds it reached; `LimitsAssumption` keeps the
relations the real values of `constants.ts` have.

Audit log: four records over three segments of two units are enough for a segment with two
records, for a rotation that moves two segments, and for one that evicts the oldest;
failures, crashes and restarts are not bounded.

Extension: every race there is between two handlers on one stored state, so two run at a
time, and a third starts after one of them; the run begins where the worker is registered
and has granted a lease, with or without another request shown, and from there new grants,
commands, reconnections and a stop of the worker are within the bounds. One event (a
navigation, a loss, a stop, an expiry, an end at the broker) falls anywhere between them.
Messages queue without a bound of their own.

Pairing: two connections compete for the one prompt; four calls are a prompt, its
completion and two that interfere; the limits of both windows are 2, and each window, the
cooldown, the challenge and the prompt end within the three ticks.

Daemons: two start together and a third finds what they leave. One fault is a crash or an
operation that fails, anywhere; one use of the switch may be cleared again.

Policy: the clock passes lifetime, idle time, receipt and element reference; an action
of each family is asked for, with and without a reference to the page.

Pools of ids, calls and clocks are finite, so a run may come to rest: deadlock is not
checked. Symmetry permutes ids that nothing orders; the liveness runs use none.

Fairness is assumed only where the code gives it:

- `BrokerState`'s `Fairness`: the timer of `RpcPeer` (or the answer or close that comes
  first) ends a call that is at the browser, and a pending append to the audit log
  returns. Nothing is assumed of agents, browsers or the clock.
- `AuditLog`'s `FairSpec` shows where the last of these comes from: a file operation that
  was started returns, with or without an error, and `OperationsEnd` concludes that every
  `record()` does.
- `DaemonLifecycle`'s `Spec`: the next file operation of a process that is starting or
  stopping returns, and the 200 ms timer of its monitor fires. Nothing is assumed of
  users, clients or crashes.

`Extension`, `Pairing` and `Policy` have safety properties only; `QueueServed`,
`ReconnectPending` and `BusyOnlyWhileRunning` are the invariants that keep them from
getting stuck.

Every property of a passing run comes with a mutant, a small plausible mistake in one
operator (in its module, in front of the operator it replaces, marked "Mutant of" or
"Mutant:"), under which TLC finds the property violated.

### Findings

1. `ManifestBindsFiles`. The manifest "binds each file's byte length, record count, SHA-256
   digest" (`docs/ARCHITECTURE.md:233`). A failed append rejects its record without
   poisoning the logger. Records that fit the damaged segment are then refused by the size
   check, but one that rotates it publishes the old descriptor for the changed file and is
   acknowledged; the next start refuses the files.
2. `NavigatesWithConsent`. "The service worker rechecks tab origin and document identity
   immediately before execution" (`docs/SECURITY_ARCHITECTURE.md:192`). The bridge
   says which document it is in (`service-worker.ts:299`), and by the time its answer has
   arrived and `tabs.update` (305) takes effect the tab may show another. The other commands are checked once more by the bridge that carries them out; `navigate` is
   not, and may take away a document that has replaced the granted one.
3. `KillClosesConnections`. "The running broker monitors that marker, closes connections,
   and stops" (`docs/SECURITY_ARCHITECTURE.md:253`). `start` listens before it sets the
   mode of the socket file and before it starts the monitor. When another daemon removes
   the file in between, `chmod` fails and `start` rejects, but nothing closes the server:
   the process serves its connections on without a monitor.

### What else reading and modelling showed

None of these is a run; each follows from the lines named.

Broker:

- A lease is checked when the browser answers (`broker-state.ts:664`), and the result is
  returned after its audit record is written (682), without another look: "A result is not
  returned after the lease has been revoked" (`docs/SECURITY_ARCHITECTURE.md:136`) does not
  hold of a revocation in between.
- `registerBrowser` overwrites the connection's instance (426), and `disconnected` looks for
  the last one only: a connection that registers a second instance leaves entry and leases of
  the first when it closes, although "when the browser connection closes, leases for that
  browser instance are revoked" (`docs/SECURITY_ARCHITECTURE.md:100`). `BrowsersLeave` has
  this exception. The extension has one instance and never does it; the broker does not
  insist.
- `disconnected` deletes the entry of the instance, whoever's it is
  (`broker-state.ts:222`): when an instance has registered again before its old connection
  closes, the close unregisters the new one. `BrokerSeesClose` of `Extension` has it too.
- Calls that a peer sends in the chunk behind its `browser.auth.complete` run under the
  session just ended (`daemon.ts:298`), so that "when an agent connection closes, its
  pending requests are revoked and all its active leases are revoked"
  (`docs/SECURITY_ARCHITECTURE.md:99`) does not hold of it. The extension waits for the
  answer; `Pipelines` is the switch in `BrokerState`.
- The active segment of the audit log is deleted by age (`audit.ts:462`), with the records
  it received last; `PRIVACY.md:170` says it rotates. The tests expect the deletion.

Extension:

- When a registration fails, the worker closes its port (`service-worker.ts:135`, 172), and
  Chrome calls no `onDisconnect` on the side that closes. `nativePort` keeps the closed port:
  the grant and its bridge stay until they expire although the broker has revoked the lease,
  `connectNative` returns at 103, and "Reconnect" registers on the closed port once more.
  Only a new start of the worker ends it. `ReconnectPending` has this exception, and the
  comment at 601, that disconnect handling revokes the local lease, does not hold of it.
- A grant may be stored after a disconnect has been handled, or after its revocation has
  arrived (`service-worker.ts:436-445`), and a stale write of `revokeGrant` may bring a
  grant back or drop one. `ActsWithConsent` and `TornLeasesEnd` hold all the same, because
  the bridge is gone or the broker refuses: storage alone is not what protects the page.
- Two grants at the same time overwrite each other; two `access.requested` events may lose
  a request from the popup's list, until the next registration.
- A grant that times out in the extension may be a live lease at the broker until it
  lapses; the extension never learns its id.
- A pairing that times out in the extension and succeeds at the broker leaves a connection
  that refuses to authenticate again, until the port is closed.

Daemon:

- A process that ends between creating and writing a secret leaves an empty file, which
  every later start refuses. `SecretShared` holds; `StartsSucceed` excludes it as a fault.
- A start unlinks by name what its probe found unanswered, an await earlier
  (`daemon.ts:421-427`), and `stop` and `server.close` unlink the socket whoever's it is. A
  daemon that has replaced a stale file meanwhile, or that was probed between bind(2) and
  listen(2), loses its socket file while it listens, and both daemons go on. `StartsExclude`
  says that every way to this goes through a moment where one is about to remove the name
  while another is between bind and listen.
- Closing a socket does not dismiss its prompt, and a completion goes on after the close.
- A pairing replaced between lookup and completion lets the old key complete: what
  `BrowsersProven` says is that its key has been paired, not that it still is.

## Proofs

`BrokerStateProofs` holds for any connections, instances, ids, commands and limits that
satisfy the assumptions of `BrokerState`: limits are positive, retention exceeds the
longest lease, pools are finite and `None` is not in them.

| Theorem | States |
| --- | --- |
| `TypeCorrect` | `Spec => []TypeOK` |
| `BrowsersTakeLeave` | `Spec => []BrowsersLeave` |
| `TrailHolds` | `Spec => []LeaseTrail` |
| `EndsAreFinal` | `Spec => EndStaysFinal` |
| `AuthorityEnds` | `Spec => []AuthorityEndsWithSession`, assuming `~Pipelines` |
| `UsesAreInTime` | `Spec => LeasesUsedInTime` |

The argument goes in layers. `TypeOK` alone is not inductive: a record that is in its Map
must have an owner (`Placed`) and a command that is under way must name a lease and a
connection (`Addressed`); the three together are `TypeInv`. `StepShape` then says that the
nineteen actions that touch the two Maps do so in eight ways, so that the later proofs
need not go through `Next` again. From it `LeaseSteps` and `RequestSteps` derive what may
happen to one lease (it is created, or moves: its identity is kept and an end is final)
and to one request together with its lease. `TrailInv` adds `LeaseTrail` and that a
pending or unused request has no lease (`Unlinked`). For `AuthorityInv` the point is that
an agent context has no instance (`AgentsUnnamed`), so that its disconnect takes the
branch that ends its session; `AgentLeavesNothing` shows that branch leaves nothing
behind. `BrowsersTakeLeave` needs `BrowserInv`: a live lease is in the Map (`LiveStored`), so a
close finds it, and a connection gets an instance only by `browser.register`. `EndsAreFinal` and `UsesAreInTime` follow from the step lemmas.

Without `~Pipelines`, `AuthorityEnds` is false, as said above.

`BrokerBudgetProofs` and `BrokerRecordProofs` build on these under the same assumptions.

| Theorem | States |
| --- | --- |
| `SlotsMatch` | `Spec => []InFlightMatches` |
| `UsesAddUp` | `Spec => []UsesAccounted` |
| `EgressAddsUp` | `Spec => []EgressAccounted` |
| `BrokerImplements` | `Spec => ImplementsAuthority` |
| `RecordsStayBounded` | `Spec => []RecordsBounded` |
| `RecordsLeaveOver` | `Spec => RecordsRetained` |
| `RatesHold` | `Spec => []RateWindowsHold` |

`BudgetInv` holds the three equations together, with the bounds of one command's bytes
(`Bounded`) and that what a command names was issued (`Issued`), without which the id of a
new lease could already have commands on its account. A step moves one command and changes
one lease's counters, or ends leases and leaves their counters alone; each equation is
then one command more or less in a set whose size or sum is known. The sum of the reserved
bytes is a recursive definition of the library, over finite sets: `Units` has an element
for each byte of each command, and a smallest set of commands for which the sum differs
from the number of its units cannot exist (`SumsCount`), so that the rest is about sizes
of sets.

`BrokerImplements` needs `UsesAccounted`: the broker checks a counter, `LeaseAuthority` counts
the commands dispatched. For every step `Ending` is the set of leases that it ends, by its
sweep or by what it is for, which is the `E` of the abstract step; `StandingStep` and
`IssuedIsLive` say what becomes of the other leases. A step that changes no command is
`Issue` or `End`, and one that does moves one command (`CommandShape`) and is `Dispatch`,
`Finish` or `End`.

For the Maps, `Kept` says what a step may do to the record of a request, and `AccessEffect`
what the call that makes one leaves of the others. `RecordInv` adds `RecordsBounded` to the
types; `RecordsRetained` also needs that an id that was never used is not in the Map
(`Unmade`). A rate window counts the requests made since it opened, and all there have been
were made before its end (`Fits`, in `RateInv`): so one that is opened because the last is
over starts with none to count.

`AuditLogProofs` holds for any number of segments (two at least), records, sizes up to
that of a segment, and any retention.

| Theorem | States |
| --- | --- |
| `AuditTypeCorrect` | `Spec => []TypeOK` |
| `AcknowledgedRecordsKept` | `Spec => []NothingAcknowledgedLost` |
| `ServingLoggerRestarts` | `Spec => []CleanRestart` |
| `SegmentsExpire` | `Spec => RetentionKept` |

`TypeInv` adds to the types that a running logger knows only segments that exist and that
an operation past expiry has a record to write (`Present`): without it a descriptor could
be taken of a missing file. `KeptInv` adds that a rename finds its destination free and
that the record about to be acknowledged is in the active segment; it is acknowledged by
the step that leaves only the present disk as an image. `CleanRestart` speaks of a logger
between operations, so `Coherent` says for each `pc` how far files, descriptors, manifest
and active fields agree: all of them until the first change, files and descriptors during
expiry and rotation, and in between an append and its descriptor what the chain of the
grown segment is (`AppendVerifies`). `CleanInv` is `Coherent` for a logger that is neither
poisoned nor damaged. `RetentionKept` also speaks of damaged ones, so `DatedInv` needs less of
each segment (`Traced`): its descriptor has the time of its first line, and only the active
file may lack a descriptor, while it is empty or has bytes the logger has not counted, in
which case it is not appended to again; past expiry every segment is `Young`, and stays so.

`DaemonLifecycleProofs` holds for any daemons, clients, faults and uses of the switch.

| Theorem | States |
| --- | --- |
| `LifecycleTypeCorrect` | `Spec => []TypeOK` |
| `SecretIsShared` | `Spec => []SecretShared` |
| `StartsAreExclusive` | `Spec => []StartsExclude` |

`SecretShared` is not inductive: it does not say who may still write the file. `SecretInv`
adds that an unwritten file is empty and has one creator (`OneWriter`), that a secret in
memory is the one in the file (`Filed`), that a start past `ensureBrokerSecret` holds one
(`Held`) and that who listens is past it (`Serves`). Exclusive creation gives `OneWriter`;
a write then meets an empty file, so nobody can hold another secret. `StartsExclude` rests
on `Exclusive`, which is kept until a collision: who has bound the name or listens has it, and
who is about to remove it knows that nobody listens, either because a probe found nobody
or because it has just closed the one server there was. `Reachable` adds that who is past
listening still listens, and so is the daemon at the other end of a connection.

`PairingProofs` holds for any connections, keys, limits and bounds.

| Theorem | States |
| --- | --- |
| `PairingTypes` | `Spec => []TypeOK` |
| `NobodyLeftBusy` | `Spec => []BusyOnlyWhileRunning` |
| `PromptsKeepApart` | `Spec => []PromptsSpaced` |
| `OnlyConsentPairs` | `Spec => []PairedByConsent` |
| `OnlyProofUpgrades` | `Spec => []BrowsersProven` |
| `ChallengesStay` | `Spec => ChallengeKept` |

`BusyInv` says that a flag is set exactly while the connection's handler runs (`Busy`) and
that there is one prompt at a time (`OnePrompt`): without the latter the end of one prompt
would clear the daemon's flag under another. `MoveKeeps` settles the handlers that show no
prompt, `PromptBegins` and `PromptFinishes` the one that does. `PromptInv` connects the
daemon's memory with the prompts there have been: the attempts it remembers are the last of
them, and the window of all others is over (`Counted`), so that a limit on what is
remembered is one on what was shown. `ConsentInv` says for each connection what its
challenge and its handler rest on (`ChallengeInv`, `ProofInv`): a challenge that pairs has
an approved prompt for its key behind it, a handler that persists a pairing has taken such
a challenge in time, and a browser has proved one whose key has been paired. What was
shown and paired only grows (`Grows`), so none of this can be taken back.

`PolicyProofs` holds for any actions, grants, lifetimes and bounds. `ActionsAssumption`
says that the elements an action names were captured before the first question;
`AbsentAssumption` that `None` is neither a code of the protocol nor a time.

| Theorem | States |
| --- | --- |
| `PolicyTypes` | `Spec => []TypeOK` |
| `EngineAndBrokerAgree` | `Spec => []EngineAgrees` |
| `CommitsApproved` | `Spec => []CommitsAsApproved` |
| `RefusedForEver` | `Spec => NeverRegained` |

`GrantInv` is what the two copies of a lease have in common: the same last use, before the
end of the lifetime, the same end. From it the engine's checks of a command of the broker
come down to the scope, the tab's document and the lease, which are the broker's own
(`OwnGrantCode`, `PlainDecision`). `Approved` relates the commits so far to receipts and
preparations: each names a receipt that was consumed then and honours it (`Honours`), and
no two name the same. For `NeverRegained`, an answer allows exactly while `Open` holds: the
conjunction of conditions of which each, once false, stays false, since a use renews only
a lease that has not lapsed (`OpenStep`).

`ExtensionProofs` holds for any handlers, tabs, requests (finitely many), leases, calls,
ports, documents and events, and for all that `LeaseAuthority` may do at the other end.

| Theorem | States |
| --- | --- |
| `ExtensionTypes` | `Spec => []TypeOK` |
| `Reconnects` | `Spec => []ReconnectPending` |
| `QueueIsServed` | `Spec => []QueueServed` |
| `TornLeasesEndAtBroker` | `Spec => []TornLeasesEnd` |

A handler that resumes uses what its frame kept across the await, so `IInv` says what that
is. `TasksTyped`, `WireTyped` and the other typed parts narrow the types to what has been
issued, dispatched, opened and loaded (`Known`, `Dispatched`), and `Proper` says which
fields a frame has at each await; `FramesGrow` keeps both true while the broker issues
more. What a handler returns to is the frame beneath it: `Stacked` says that one which is
interrupted has only a revocation or a pruning above it, and that only an answer to the
popup waits below any other. `QueueInv` then says who is in the queue by what is on the
stacks, and `PlanInv` who will reconnect: it also needs that a worker that has stopped runs
nothing. A port that is held and no longer open is one whose loss Chrome will report, or one
that the worker closed, for which the theorem promises nothing. There is a lemma for each
action (`...Keeps`), and `PushedOn` and its like say what an action does to a stack. The
pending list is filtered by `Filtered`, whose result is a sequence of the same elements
(`FilteredType`, by `NthMember`).

`TornLeasesEnd` needs `EndInv` beside `IInv`. `TornInv` is the property itself, said of
every lease that was torn down: expired, not live or live while its connection closes (`Gone`), a handler
past its teardown that will still tell the broker (`Ending`), or told (`Told`). A revocation
may also be one that tells nobody (`revokeGrant(grant, false)`); `ReasonInv` says that such
a one has a reason at every await it is at: the lease has expired, its connection has ended,
or the broker said itself that it is over. Those reasons need the other two parts: what an
`access.revoked` on its way names is over at the broker (`OverInv`), and a lease is live,
and a message waits for the broker, only while the port they were issued for is open, or
while its close is still to be seen (`PortInv`). None of the parts is
inductive alone, so each action has one lemma for all four (`...Ends`), most of them from
`Moved`, which says when a step of one handler keeps them.

Only model-checked:

- `CommandsSettle`, `OperationsEnd`, `KillStops` and `StartsSucceed`: liveness under
  fairness is beyond the prover;
- `ActsWithConsent` of `Extension`, which needs what becomes of a grant that is being
  stored, and of every copy of the stored state that a handler still holds, when the lease
  is torn down meanwhile.

## Plan

The modules are written so that they can be proved about: no `RECURSIVE` operator, an
action per operation, invariants as conjunctions. In this order:

1. A proof of `ActsWithConsent` of `Extension`.
2. `RpcPeer`: correlation and timeouts over two hops, the startup queue of the native host,
   inbound limits. `Installer`: conditional removal against concurrent replacement.

## Not modelled

- The installer (`installer.ts`): one process that replaces files of its own on request. Its
  races with other programs are in the plan.
- Framing, inbound limits and the queue of the native host (`wire.ts`, `native-framing.ts`,
  `native-host.ts`): their effect on a call, to be answered, to time out or to be rejected,
  is in `BrokerState` and `Extension`; the mechanism is in the plan.
- The MCP tools and the rest of the command line: they translate calls and keep no state.
- The doctor, the scripts and the schemas, but for the refinements that are in `Policy`: no
  state, or data that no property here tells apart.
- Cryptography, and what snapshot, highlight and scroll do to a page.
