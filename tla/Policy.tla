-------------------------------- MODULE Policy --------------------------------
(***************************************************************************)
(* The policy engine of packages/policy/src/engine.ts and the two who ask  *)
(* it: the broker, before every command (authorizeCommand and              *)
(* reserveCommand of broker-state.ts, with the capabilities of             *)
(* capability.ts), and a caller that prepares an action of risk R2, shows  *)
(* it to the user and commits it with the receipt, as the types of the     *)
(* engine and packages/policy/test have it; nothing in the repository does *)
(* that yet, and the caller is no part of the code.                        *)
(*                                                                         *)
(* evaluatePolicy is an operator; the machine below makes the questions it *)
(* is asked: time passes, the page changes, the lease is used, lapses and  *)
(* is revoked.  An action or a hash is the record it is made of; of the    *)
(* client, the task, the profile, the tab, the audience and the policy     *)
(* version, which never change under a grant, only the client is kept.     *)
(* Signatures are taken as verified and enterpriseAllowed as true, which   *)
(* is what the broker says of both.                                        *)
(***************************************************************************)
EXTENDS Integers, FiniteSets, Sequences

CONSTANTS
  None,          \* a model value: absent
  Client, Stranger,  \* whom the grant names, and somebody else
  Home, Elsewhere,   \* origins
  Witnesses,     \* hashes of the state of a page
  Actions,       \* what may be asked for
  Grants,        \* what a grant may contain: its scopes and the action types it may prepare
  Ttl, IdleTimeout, UseLimit,    \* of a grant
  ReceiptTtl,    \* of an approval
  MaxTime, MaxDocument, MaxEpoch, MaxPrepared, MaxReceipts  \* bounds

ASSUME PolicyAssumption ==
  /\ {Ttl, IdleTimeout, UseLimit, ReceiptTtl} \subseteq Nat \ {0}
  /\ {MaxTime, MaxDocument, MaxEpoch, MaxPrepared, MaxReceipts} \subseteq Nat
  /\ Client # Stranger /\ Home # Elsewhere

VARIABLES
  now,
  page,          \* the document of the tab
  capability,    \* as issued
  policyLease,   \* the lease the engine reads
  lease,         \* the lease the broker reads
  preparations,  \* prepared actions, by number
  receipts,      \* approvals, by number
  commits        \* what has been committed, in order

grant == <<capability, policyLease, lease>>
vars == <<now, page, grant, preparations, receipts, commits>>

-----------------------------------------------------------------------------
(* The tables of the engine *)

Fixed == {"page.a11y.read", "page.screenshot.read", "page.scroll", "page.highlight",
          "page.click.reversible", "page.form.draft"}
R2Kinds == {"page.form.submit"}
R3Kinds == {"content.publish", "message.send", "data.delete", "security.permission.change",
            "financial.transaction", "security.oauth.consent"}
KnownKinds == Fixed \cup {"page.navigate"} \cup R2Kinds \cup R3Kinds

\* The kinds the tests name for each family of forbidden words.
ForbiddenCode ==
  [kind \in {"browser.cookie.read", "browser.password.read", "browser.cdp.command",
             "browser.script.execute"} |->
   CASE kind = "browser.cookie.read" -> "COOKIE_ACCESS_FORBIDDEN"
     [] kind = "browser.password.read" -> "SECRET_ACCESS_FORBIDDEN"
     [] kind = "browser.cdp.command" -> "CDP_ACCESS_FORBIDDEN"
     [] kind = "browser.script.execute" -> "ARBITRARY_CODE_FORBIDDEN"]

\* BrokerErrorCodeSchema
Codes ==
  {"INVALID_REQUEST", "UNSUPPORTED_PROTOCOL", "CAPABILITY_MISSING", "CAPABILITY_INVALID",
   "CAPABILITY_EXPIRED", "CAPABILITY_REVOKED", "CAPABILITY_SCOPE_DENIED",
   "CAPABILITY_CONTEXT_MISMATCH", "LEASE_EXPIRED", "LEASE_REVOKED",
   "STALE_ELEMENT_REFERENCE", "UNKNOWN_ACTION", "ACTION_FORBIDDEN",
   "SECRET_ACCESS_FORBIDDEN", "COOKIE_ACCESS_FORBIDDEN", "ARBITRARY_CODE_FORBIDDEN",
   "CDP_ACCESS_FORBIDDEN", "PREPARE_REQUIRED", "APPROVAL_REQUIRED", "APPROVAL_INVALID",
   "APPROVAL_EXPIRED", "APPROVAL_REPLAYED", "STATE_CHANGED", "RISK_NOT_SUPPORTED",
   "POLICY_UNAVAILABLE", "ENTERPRISE_POLICY_DENIED", "RATE_LIMITED", "INTERNAL_ERROR"}

\* The elements an action names were captured in the first state of their document, before
\* the first question.
ASSUME ActionsAssumption ==
  \A a \in Actions : \A ref \in a.targets :
    ref.issuedAt = 0 /\ ref.epoch = 0 /\ ref.expiresAt \in Nat

-----------------------------------------------------------------------------
(* evaluatePolicy: the code of the first refusal, or None *)

\* CapabilitySchema, LeaseSchema
WellFormedCapability(c) == c.issuedAt < c.expiresAt /\ c.scopes # {}
WellFormedLease(x) == x.issuedAt < x.expiresAt /\ x.lastUsedAt \in x.issuedAt..x.expiresAt

\* Who asks, in which document.
Binding(r) == <<r.client, r.document, r.origin>>

\* validateGrant
GrantCode(c, x, ctx) ==
  IF ~ctx.rateLimitAllowed THEN "RATE_LIMITED"
  ELSE IF Binding(c) # Binding(ctx) \/ Binding(x) # Binding(ctx)
  THEN "CAPABILITY_CONTEXT_MISMATCH"
  ELSE IF c.issuedAt > ctx.now \/ c.expiresAt <= ctx.now THEN "CAPABILITY_EXPIRED"
  ELSE IF \/ x.issuedAt < c.issuedAt \/ x.expiresAt > c.expiresAt
          \/ x.idleTimeout > c.idleTimeout \/ x.remainingUses > c.useLimit
  THEN "CAPABILITY_INVALID"
  ELSE IF x.state = "revoked" THEN "LEASE_REVOKED"
  ELSE IF \/ x.state # "active" \/ x.expiresAt <= ctx.now
          \/ x.lastUsedAt + x.idleTimeout <= ctx.now \/ x.remainingUses <= 0
  THEN "LEASE_EXPIRED"
  ELSE None

\* staleReference
StaleReference(a, ctx) ==
  \E ref \in a.targets :
    \/ ref.expiresAt <= ctx.now \/ ref.issuedAt > ctx.now
    \/ <<ref.document, ref.origin>> # <<ctx.document, ctx.origin>>
    \/ ctx.epoch # None /\ ref.epoch # ctx.epoch

\* requiredScopePresent
ScopePresent(a, c) ==
  \/ a.kind = "page.navigate" /\ a.to = c.origin /\ "page.navigate.same_origin" \in c.scopes
  \/ a.kind = "page.navigate" /\ a.to \in c.origins
  \/ a.kind \in R2Kinds \cup R3Kinds /\ a.kind \in c.actionTypes
  \/ a.kind \in Fixed /\ a.kind \in c.scopes

\* What is refused in either phase.
CommonCode(a, c, x, ctx) ==
  IF a.kind \in DOMAIN ForbiddenCode THEN ForbiddenCode[a.kind]
  ELSE IF a.kind \notin KnownKinds THEN "UNKNOWN_ACTION"
  ELSE IF ~WellFormedCapability(c) \/ ~WellFormedLease(x) THEN "CAPABILITY_INVALID"
  ELSE IF GrantCode(c, x, ctx) # None THEN GrantCode(c, x, ctx)
  ELSE IF StaleReference(a, ctx) THEN "STALE_ELEMENT_REFERENCE"
  ELSE IF ~(a.classes \subseteq c.dataClasses) \/ ~ScopePresent(a, c)
  THEN "CAPABILITY_SCOPE_DENIED"
  ELSE None

\* Mutant of SameState: the page is not compared with what was prepared.
SameAction(a, receipt, ctx) ==
  /\ receipt.prepareId = ctx.prepared.prepareId
  /\ receipt.action = a /\ receipt.action = ctx.prepared.action
  /\ receipt.witness = ctx.prepared.witness
  /\ Binding(receipt) = Binding(ctx)

\* expectedPairs
SameState(a, receipt, ctx) ==
  /\ receipt.prepareId = ctx.prepared.prepareId
  /\ receipt.action = a /\ receipt.action = ctx.prepared.action
  /\ receipt.witness = ctx.prepared.witness /\ receipt.witness = ctx.witness
  /\ Binding(receipt) = Binding(ctx)

\* validateApproval
ApprovalCode(a, receipt, ctx) ==
  IF ctx.prepared = None THEN "PREPARE_REQUIRED"
  ELSE IF receipt = None THEN "APPROVAL_REQUIRED"
  ELSE IF receipt.consumedAt # None THEN "APPROVAL_REPLAYED"
  ELSE IF receipt.issuedAt > ctx.now \/ receipt.expiresAt <= ctx.now THEN "APPROVAL_EXPIRED"
  ELSE IF ~SameState(a, receipt, ctx) THEN "STATE_CHANGED"
  ELSE IF receipt.verifiedAt \notin receipt.issuedAt..receipt.expiresAt THEN "APPROVAL_INVALID"
  ELSE None

\* What only a commit is refused for: of risk R3 always, of R2 without its receipt, of R0
\* and R1 since they are executed as they are evaluated.
CommitCode(a, receipt, ctx) ==
  CASE a.kind \in R3Kinds -> "RISK_NOT_SUPPORTED"
    [] a.kind \in R2Kinds -> ApprovalCode(a, receipt, ctx)
    [] OTHER -> "PREPARE_REQUIRED"

\* evaluatePolicy: the code of a refusal, or the outcome.
Decision(phase, a, c, x, receipt, ctx) ==
  LET common == CommonCode(a, c, x, ctx)
      commit == CommitCode(a, receipt, ctx)
  IN IF common # None THEN common
     ELSE IF phase = "commit" /\ commit # None THEN commit
     ELSE IF phase = "prepare" /\ a.kind \in R2Kinds \cup R3Kinds THEN "ALLOW_PREPARE"
     ELSE "ALLOW"

Allowing == {"ALLOW", "ALLOW_PREPARE"}

\* Absent is no answer of the engine and no time.
ASSUME AbsentAssumption == None \notin Codes \cup Allowing /\ None \notin Nat

-----------------------------------------------------------------------------
(* The broker asks *)

\* CapabilityIssuer.issue; action types other than those of the broker's scopes are those
\* of other issuers.
Issue(scopes, actionTypes) ==
  [client |-> Client, document |-> 0, origin |-> Home, scopes |-> scopes,
   actionTypes |-> actionTypes, origins |-> {}, dataClasses |-> {"visible", "private"},
   issuedAt |-> 0, expiresAt |-> Ttl, idleTimeout |-> IdleTimeout, useLimit |-> UseLimit]

\* actionForCommand
Plain(kind, to) == [kind |-> kind, to |-> to, targets |-> {}, classes |-> {}]
ActionForCommand ==
  [command \in {"snapshot", "scroll", "navigate"} |->
   CASE command = "snapshot" -> Plain("page.a11y.read", None)
     [] command = "scroll" -> Plain("page.scroll", None)
     [] command = "navigate" -> Plain("page.navigate", Home)]

\* requireScope, in execute and navigate
RequiredScopes ==
  [command \in {"snapshot", "scroll", "navigate", "highlight"} |->
   CASE command = "snapshot" -> {"page.a11y.read", "data.egress.model"}
     [] command = "scroll" -> {"page.scroll"}
     [] command = "navigate" -> {"page.navigate.same_origin"}
     [] command = "highlight" -> {"page.highlight"}]

\* The context of authorizeCommand, which takes the binding from the lease itself.
BrokerContext ==
  [now |-> now, client |-> policyLease.client, document |-> policyLease.document,
   origin |-> policyLease.origin, epoch |-> None, witness |-> None, prepared |-> None,
   rateLimitAllowed |-> policyLease.remainingUses > 0]

\* authorizeCommand: a highlight, whose action the broker cannot build, is only asked for its
\* scope.
Authorized(command) ==
  command # "highlight" =>
    Decision("prepare", ActionForCommand[command], capability, policyLease, None,
             BrokerContext) = "ALLOW"

\* isLeaseActive
IsLeaseActive ==
  /\ ~lease.revoked
  /\ now < lease.expiresAt /\ now < lease.lastUsedAt + IdleTimeout

\* Mutant of Reserve: the lease of the engine does not learn that it was used.
ReserveUse ==
  /\ policyLease' = [policyLease EXCEPT !.remainingUses = @ - 1]
  /\ lease' = [lease EXCEPT !.lastUsedAt = now]

\* reserveCommand
Reserve ==
  /\ policyLease' = [policyLease EXCEPT !.remainingUses = @ - 1, !.lastUsedAt = now]
  /\ lease' = [lease EXCEPT !.lastUsedAt = now]

\* Mutant of Execute: reserveCommand leaves the uses to the engine.
ExecuteUncounted(command) ==
  /\ IsLeaseActive /\ RequiredScopes[command] \subseteq lease.scopes
  /\ Authorized(command)
  /\ Reserve
  /\ UNCHANGED <<now, page, capability, preparations, receipts, commits>>

\* Mutant of Execute: only the engine looks at the idle time.
ExecuteIdle(command) ==
  /\ ~lease.revoked /\ now < lease.expiresAt /\ RequiredScopes[command] \subseteq lease.scopes
  /\ Authorized(command) /\ policyLease.remainingUses > 0
  /\ Reserve
  /\ UNCHANGED <<now, page, capability, preparations, receipts, commits>>

\* execute and navigate, up to the call to the browser
Execute(command) ==
  /\ IsLeaseActive /\ RequiredScopes[command] \subseteq lease.scopes
  /\ Authorized(command) /\ policyLease.remainingUses > 0
  /\ Reserve
  /\ UNCHANGED <<now, page, capability, preparations, receipts, commits>>

\* revokeLease
RevokeLease(state) ==
  /\ ~lease.revoked
  /\ lease' = [lease EXCEPT !.revoked = TRUE]
  /\ policyLease' = [policyLease EXCEPT !.state = state]
  /\ UNCHANGED <<now, page, capability, preparations, receipts, commits>>

\* A call or the sweep finds the lease lapsed, or somebody revokes it.
ExpireLease == ~IsLeaseActive /\ RevokeLease("expired")
Revoke == RevokeLease("revoked")

-----------------------------------------------------------------------------
(* A caller prepares and commits; the user approves *)

\* The context of a caller that knows the page.
PageContext(client, p) ==
  [now |-> now, client |-> client, document |-> page.document, origin |-> page.origin,
   epoch |-> page.epoch, witness |-> page.witness, rateLimitAllowed |-> TRUE,
   prepared |-> IF p = None THEN None ELSE preparations[p]]

Prepare(client, a) ==
  /\ Len(preparations) < MaxPrepared
  /\ Decision("prepare", a, capability, policyLease, None, PageContext(client, None))
       = "ALLOW_PREPARE"
  /\ preparations' = Append(preparations,
       [prepareId |-> Len(preparations) + 1, action |-> a, witness |-> page.witness])
  /\ UNCHANGED <<now, page, grant, receipts, commits>>

\* The user was seen now or just before.
Approve(p, verifiedAt) ==
  /\ Len(receipts) < MaxReceipts
  /\ receipts' = Append(receipts,
       [prepareId |-> preparations[p].prepareId, action |-> preparations[p].action,
        witness |-> preparations[p].witness, client |-> Client,
        document |-> page.document, origin |-> page.origin,
        issuedAt |-> now, expiresAt |-> now + ReceiptTtl, verifiedAt |-> verifiedAt,
        consumedAt |-> None])
  /\ UNCHANGED <<now, page, grant, preparations, commits>>

\* Whatever preparation and receipt the caller brings; what is allowed is done, and the
\* receipt is consumed.
Commit(client, a, p, r) ==
  /\ Decision("commit", a, capability, policyLease, IF r = None THEN None ELSE receipts[r],
              PageContext(client, p)) = "ALLOW"
  /\ commits' = Append(commits, [client |-> client, action |-> a, receipt |-> r,
                                 page |-> page, at |-> now])
  /\ receipts' = [receipts EXCEPT ![r].consumedAt = now]
  /\ UNCHANGED <<now, page, grant, preparations>>

-----------------------------------------------------------------------------
(* Time and the page *)

Tick ==
  /\ now < MaxTime
  /\ now' = now + 1
  /\ UNCHANGED <<page, grant, preparations, receipts, commits>>

PageChanges(witness) ==
  /\ page.epoch < MaxEpoch
  /\ page' = [page EXCEPT !.epoch = @ + 1, !.witness = witness]
  /\ UNCHANGED <<now, grant, preparations, receipts, commits>>

Navigates(origin, witness) ==
  /\ page.document < MaxDocument
  /\ page' = [document |-> page.document + 1, origin |-> origin, epoch |-> 0,
              witness |-> witness]
  /\ UNCHANGED <<now, grant, preparations, receipts, commits>>

Init ==
  /\ now = 0
  /\ page \in [document : {0}, origin : {Home}, epoch : {0}, witness : Witnesses]
  /\ \E g \in Grants :
       /\ capability = Issue(g.scopes, g.actionTypes)
       /\ lease = [scopes |-> g.scopes, expiresAt |-> Ttl, lastUsedAt |-> 0, revoked |-> FALSE]
  /\ policyLease =
       [client |-> Client, document |-> 0, origin |-> Home, state |-> "active",
        issuedAt |-> 0, expiresAt |-> Ttl, lastUsedAt |-> 0, idleTimeout |-> IdleTimeout,
        remainingUses |-> UseLimit]
  /\ preparations = <<>> /\ receipts = <<>> /\ commits = <<>>

Clients == {Client, Stranger}

Next ==
  \/ Tick \/ ExpireLease \/ Revoke
  \/ \E command \in DOMAIN RequiredScopes : Execute(command)
  \/ \E witness \in Witnesses :
       PageChanges(witness) \/ \E origin \in {Home, Elsewhere} : Navigates(origin, witness)
  \/ \E client \in Clients, a \in Actions :
       \/ Prepare(client, a)
       \/ \E p \in DOMAIN preparations \cup {None}, r \in DOMAIN receipts \cup {None} :
            Commit(client, a, p, r)
  \/ \E p \in DOMAIN preparations, verifiedAt \in {now, now - 1} \cap Nat :
       Approve(p, verifiedAt)

Spec == Init /\ [][Next]_vars

-----------------------------------------------------------------------------
(* Properties *)

\* The variables keep their types; no counter goes below zero.
TypeOK ==
  /\ now \in 0..MaxTime
  /\ page \in [document : 0..MaxDocument, origin : {Home, Elsewhere}, epoch : 0..MaxEpoch,
               witness : Witnesses]
  /\ lease.lastUsedAt \in 0..MaxTime /\ lease.revoked \in BOOLEAN
  /\ policyLease.state \in {"active", "revoked", "expired"}
  /\ policyLease.lastUsedAt \in 0..MaxTime /\ policyLease.remainingUses \in 0..UseLimit
  /\ Len(preparations) <= MaxPrepared /\ Len(receipts) <= MaxReceipts

\* The two copies of a lease never disagree: what the broker finds active, with the scope
\* granted and a use left, the engine allows, and nothing else, at every moment of the
\* life of the lease (isLeaseActive and reserveCommand against validateGrant).
EngineAgrees ==
  \A command \in DOMAIN ActionForCommand :
    Authorized(command) <=>
      /\ IsLeaseActive /\ policyLease.remainingUses > 0
      /\ RequiredScopes[command] \ {"data.egress.model"} \subseteq lease.scopes

\* What is committed is what the user approved: by the client of the grant, the same
\* action, once, while the receipt is valid, on the document it was approved on and in
\* the state it was prepared in (validateApproval).
CommitsAsApproved ==
  \A i \in DOMAIN commits :
    LET commit == commits[i]
        receipt == receipts[commit.receipt]
        prepared == preparations[receipt.prepareId] IN
    /\ commit.client = Client /\ commit.action = prepared.action
    /\ commit.page.document = receipt.document /\ commit.page.witness = prepared.witness
    /\ commit.at \in receipt.issuedAt..(receipt.expiresAt - 1)
    /\ receipt.verifiedAt >= receipt.issuedAt
    /\ \A j \in DOMAIN commits : commits[j].receipt = commit.receipt => i = j

\* Authority only shrinks: what the engine has refused a caller under a grant it refuses
\* for ever, whatever commands the broker has executed, by time, navigation, changes of
\* the page or the end of the lease.
NeverRegained ==
  [][\A a \in Actions :
       LET decision ==
             Decision("prepare", a, capability, policyLease, None, PageContext(Client, None))
       IN decision \notin Allowing => decision' \notin Allowing]_vars

=============================================================================
