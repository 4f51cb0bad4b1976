---------------------------- MODULE PolicyProofs ----------------------------
(* What holds of Policy for every action, grant, lifetime and bound: the engine and the  *)
(* broker read the same lease, what is committed is what was approved, and what is        *)
(* refused stays refused.                                                                 *)
EXTENDS Policy, TLAPS

-----------------------------------------------------------------------------
(* What the variables hold *)

\* The capability and the lease of the engine are those issued for the lease of the broker,
\* and both leases were last used at the same time, before they ended.
GrantInv ==
  /\ capability = Issue(lease.scopes, capability.actionTypes)
  /\ lease = [scopes |-> lease.scopes, expiresAt |-> Ttl, lastUsedAt |-> lease.lastUsedAt,
              revoked |-> lease.revoked]
  /\ policyLease =
       [client |-> Client, document |-> 0, origin |-> Home, state |-> policyLease.state,
        issuedAt |-> 0, expiresAt |-> Ttl, lastUsedAt |-> lease.lastUsedAt,
        idleTimeout |-> IdleTimeout, remainingUses |-> policyLease.remainingUses]
  /\ policyLease.state = "active" <=> ~lease.revoked
  /\ lease.lastUsedAt < Ttl
  /\ page.document = 0 => page.origin = Home

Page == [document : 0..MaxDocument, origin : {Home, Elsewhere}, epoch : 0..MaxEpoch,
         witness : Witnesses]
Preparation == [prepareId : Nat, action : Actions, witness : Witnesses]
Receipt ==
  [prepareId : Nat, action : Actions, witness : Witnesses, client : {Client},
   document : Nat, origin : {Home, Elsewhere}, issuedAt : Nat, expiresAt : Nat,
   verifiedAt : Nat, consumedAt : Nat \cup {None}]
Commitment ==
  [client : Clients, action : Actions, receipt : Nat \cup {None}, page : Page, at : Nat]

Listed ==
  /\ preparations \in Seq(Preparation)
  /\ receipts \in Seq(Receipt)
  /\ commits \in Seq(Commitment)

TypeInv == TypeOK /\ Listed /\ GrantInv

LEMMA Bounds ==
  /\ Ttl \in Nat \ {0} /\ IdleTimeout \in Nat \ {0} /\ UseLimit \in Nat \ {0}
  /\ ReceiptTtl \in Nat \ {0} /\ MaxTime \in Nat /\ MaxDocument \in Nat /\ MaxEpoch \in Nat
  /\ MaxPrepared \in Nat /\ MaxReceipts \in Nat
BY PolicyAssumption

LEMMA TypeInit == Init => TypeInv
<1> SUFFICES ASSUME Init PROVE TypeInv
  OBVIOUS
<1>1. PICK g \in Grants :
        /\ capability = Issue(g.scopes, g.actionTypes)
        /\ lease = [scopes |-> g.scopes, expiresAt |-> Ttl, lastUsedAt |-> 0, revoked |-> FALSE]
  BY DEF Init
<1>2. TypeOK /\ Listed
  BY <1>1, Bounds DEF Init, TypeOK, Listed
<1> QED
  BY <1>1, <1>2, Bounds DEF Init, TypeInv, GrantInv, Issue

\* A commit that is allowed brings a receipt.
LEMMA CommitReceipt ==
  ASSUME TypeInv, NEW client \in Clients, NEW a \in Actions,
         NEW p \in DOMAIN preparations \cup {None}, NEW r \in DOMAIN receipts \cup {None},
         Commit(client, a, p, r)
  PROVE  /\ CommonCode(a, capability, policyLease, PageContext(client, p)) = None
         /\ r \in DOMAIN receipts /\ r # None
         /\ ApprovalCode(a, receipts[r], PageContext(client, p)) = None
<1> DEFINE ctx == PageContext(client, p)
           receipt == IF r = None THEN None ELSE receipts[r]
           common == CommonCode(a, capability, policyLease, ctx)
           commit == CommitCode(a, receipt, ctx)
<1>1. Decision("commit", a, capability, policyLease, receipt, ctx) = "ALLOW"
  BY DEF Commit
<1>2. common # "ALLOW" /\ commit # "ALLOW"
  <2>1. common # "ALLOW"
    BY AbsentAssumption DEF CommonCode, GrantCode, ForbiddenCode, Allowing
  <2>2. commit # "ALLOW"
    BY AbsentAssumption DEF CommitCode, ApprovalCode, Allowing
  <2> QED
    BY <2>1, <2>2
<1> HIDE DEF common, commit
<1>3. common = None /\ commit = None
  BY <1>1, <1>2 DEF Decision, common, commit
<1>4. ApprovalCode(a, receipt, ctx) = None
  BY <1>3, AbsentAssumption DEF commit, CommitCode, Codes
<1>5. receipt # None
  BY <1>4, AbsentAssumption DEF ApprovalCode, Codes
<1> QED
  BY <1>3, <1>4, <1>5 DEF common

-----------------------------------------------------------------------------
(* What a step leaves alone *)

\* The steps of the caller and of the user are not about the grant, the others not about
\* what was prepared, approved and committed.
SomePrepare == \E client \in Clients, a \in Actions : Prepare(client, a)
SomeApprove ==
  \E p \in DOMAIN preparations, verifiedAt \in {now, now - 1} \cap Nat : Approve(p, verifiedAt)
SomeCommit ==
  \E client \in Clients, a \in Actions :
    \E p \in DOMAIN preparations \cup {None}, r \in DOMAIN receipts \cup {None} :
      Commit(client, a, p, r)

lists == <<preparations, receipts, commits>>

LEMMA ListSteps ==
  ASSUME [Next]_vars, ~SomePrepare, ~SomeApprove, ~SomeCommit
  PROVE  UNCHANGED lists
BY DEF Next, vars, SomePrepare, SomeApprove, SomeCommit, lists, Tick, ExpireLease, Revoke,
       RevokeLease, Execute, PageChanges, Navigates

LEMMA CallerSteps ==
  ASSUME SomePrepare \/ SomeApprove \/ SomeCommit
  PROVE  UNCHANGED <<now, page, grant>>
BY DEF SomePrepare, SomeApprove, SomeCommit, Prepare, Approve, Commit

\* What one step does to time, page and grant.
GrantSteps ==
  \/ UNCHANGED <<now, page, grant>>
  \/ Tick
  \/ \E witness \in Witnesses : PageChanges(witness)
  \/ \E witness \in Witnesses, origin \in {Home, Elsewhere} : Navigates(origin, witness)
  \/ \E state \in {"expired", "revoked"} : RevokeLease(state)
  \/ \E command \in DOMAIN RequiredScopes : Execute(command)

LEMMA GrantShape ==
  ASSUME [Next]_vars
  PROVE  GrantSteps
<1>1. ASSUME SomePrepare \/ SomeApprove \/ SomeCommit PROVE GrantSteps
  BY <1>1, CallerSteps DEF GrantSteps
<1> QED
  BY <1>1 DEF Next, vars, SomePrepare, SomeApprove, SomeCommit, ExpireLease, Revoke, GrantSteps

LEMMA GrantStep ==
  ASSUME TypeInv, [Next]_vars
  PROVE  GrantInv'
<1>1. GrantInv /\ now \in Nat /\ page.document \in Nat /\ page \in Page
  BY Bounds DEF TypeInv, TypeOK, Page
<1>2. CASE UNCHANGED <<now, page, grant>>
  BY <1>1, <1>2 DEF GrantInv, grant
<1>3. CASE Tick
  BY <1>1, <1>3 DEF GrantInv, grant, Tick
<1>4. CASE \E witness \in Witnesses : PageChanges(witness)
  <2>1. page'.document = page.document /\ page'.origin = page.origin /\ UNCHANGED grant
    BY <1>1, <1>4 DEF PageChanges, Page
  <2> QED
    BY <1>1, <2>1 DEF GrantInv, grant
<1>5. CASE \E witness \in Witnesses, origin \in {Home, Elsewhere} : Navigates(origin, witness)
  <2>1. page'.document # 0 /\ UNCHANGED grant
    BY <1>1, <1>5 DEF Navigates
  <2> QED
    BY <1>1, <2>1 DEF GrantInv, grant
<1>6. PICK s, t, v : lease = [scopes |-> s, expiresAt |-> Ttl, lastUsedAt |-> t, revoked |-> v]
  BY <1>1 DEF GrantInv
<1>7. PICK phase, u :
        policyLease =
          [client |-> Client, document |-> 0, origin |-> Home, state |-> phase, issuedAt |-> 0,
           expiresAt |-> Ttl, lastUsedAt |-> lease.lastUsedAt, idleTimeout |-> IdleTimeout,
           remainingUses |-> u]
  BY <1>1 DEF GrantInv
<1>8. ASSUME NEW state \in {"expired", "revoked"}, RevokeLease(state) PROVE GrantInv'
  <2>1. lease' = [scopes |-> lease.scopes, expiresAt |-> Ttl, lastUsedAt |-> lease.lastUsedAt,
                  revoked |-> TRUE]
    BY <1>8, <1>6 DEF RevokeLease
  <2>2. policyLease' =
          [client |-> Client, document |-> 0, origin |-> Home, state |-> state,
           issuedAt |-> 0, expiresAt |-> Ttl, lastUsedAt |-> lease.lastUsedAt,
           idleTimeout |-> IdleTimeout, remainingUses |-> policyLease.remainingUses]
    BY <1>8, <1>7 DEF RevokeLease
  <2>3. capability' = capability /\ page' = page /\ state # "active"
    BY <1>8 DEF RevokeLease
  <2> QED
    BY <1>1, <2>1, <2>2, <2>3 DEF GrantInv
<1>9. ASSUME NEW command \in DOMAIN RequiredScopes, Execute(command) PROVE GrantInv'
  <2>1. now < Ttl
    BY <1>1, <1>9 DEF Execute, IsLeaseActive, GrantInv
  <2>2. lease' = [scopes |-> lease.scopes, expiresAt |-> Ttl, lastUsedAt |-> now,
                  revoked |-> lease.revoked]
    BY <1>9, <1>6 DEF Execute, Reserve
  <2>3. policyLease' =
          [client |-> Client, document |-> 0, origin |-> Home, state |-> policyLease.state,
           issuedAt |-> 0, expiresAt |-> Ttl, lastUsedAt |-> now,
           idleTimeout |-> IdleTimeout, remainingUses |-> policyLease.remainingUses - 1]
    BY <1>9, <1>7 DEF Execute, Reserve
  <2>4. capability' = capability /\ page' = page
    BY <1>9 DEF Execute
  <2> QED
    BY <1>1, <2>1, <2>2, <2>3, <2>4 DEF GrantInv
<1> QED
  BY <1>2, <1>3, <1>4, <1>5, <1>8, <1>9, GrantShape DEF GrantSteps

LEMMA ListedStep ==
  ASSUME TypeInv, [Next]_vars
  PROVE  /\ Listed' /\ Len(preparations') <= MaxPrepared /\ Len(receipts') <= MaxReceipts
<1>1. /\ Listed /\ TypeOK /\ now \in Nat /\ page \in Page /\ page.document \in Nat
      /\ Len(preparations) <= MaxPrepared /\ Len(receipts) <= MaxReceipts
  BY Bounds DEF TypeInv, TypeOK, Page
<1>2. CASE SomePrepare
  <2>1. PICK client \in Clients, a \in Actions : Prepare(client, a)
    BY <1>2 DEF SomePrepare
  <2> DEFINE made == [prepareId |-> Len(preparations) + 1, action |-> a, witness |-> page.witness]
  <2>2. made \in Preparation /\ preparations' = Append(preparations, made)
    BY <1>1, <2>1 DEF Prepare, Preparation, Listed, Page
  <2>3. Len(preparations) < MaxPrepared /\ UNCHANGED <<receipts, commits>>
    BY <2>1 DEF Prepare
  <2> HIDE DEF made
  <2> QED
    BY <1>1, <2>2, <2>3, Bounds DEF Listed
<1>3. CASE SomeApprove
  <2>1. PICK p \in DOMAIN preparations, verifiedAt \in {now, now - 1} \cap Nat :
          Approve(p, verifiedAt)
    BY <1>3 DEF SomeApprove
  <2> DEFINE made ==
        [prepareId |-> preparations[p].prepareId, action |-> preparations[p].action,
         witness |-> preparations[p].witness, client |-> Client,
         document |-> page.document, origin |-> page.origin,
         issuedAt |-> now, expiresAt |-> now + ReceiptTtl, verifiedAt |-> verifiedAt,
         consumedAt |-> None]
  <2>2. preparations[p] \in Preparation
    BY <1>1 DEF Listed
  <2>3. now + ReceiptTtl \in Nat /\ verifiedAt \in Nat
    BY <1>1, <2>1, Bounds
  <2>4. made \in Receipt
    BY <1>1, <2>2, <2>3 DEF Receipt, Preparation, Page
  <2>5. receipts' = Append(receipts, made) /\ Len(receipts) < MaxReceipts
        /\ UNCHANGED <<preparations, commits>>
    BY <2>1 DEF Approve
  <2> HIDE DEF made
  <2> QED
    BY <1>1, <2>4, <2>5, Bounds DEF Listed
<1>4. CASE SomeCommit
  <2>1. PICK client \in Clients, a \in Actions, p \in DOMAIN preparations \cup {None},
             r \in DOMAIN receipts \cup {None} : Commit(client, a, p, r)
    BY <1>4 DEF SomeCommit
  <2> DEFINE made == [client |-> client, action |-> a, receipt |-> r, page |-> page, at |-> now]
  <2>2. r \in DOMAIN receipts /\ r \in Nat
    <3>1. r \in DOMAIN receipts
      BY <2>1, CommitReceipt
    <3> QED
      BY <1>1, <3>1 DEF Listed
  <2>3. made \in Commitment
    BY <1>1, <2>2 DEF Commitment
  <2>4. commits' = Append(commits, made) /\ preparations' = preparations
        /\ receipts' = [receipts EXCEPT ![r].consumedAt = now]
    BY <2>1 DEF Commit
  <2>5. [receipts[r] EXCEPT !.consumedAt = now] \in Receipt
    <3>1. receipts[r] \in Receipt
      BY <1>1, <2>2 DEF Listed
    <3> QED
      BY <1>1, <3>1 DEF Receipt
  <2>6. receipts' \in Seq(Receipt) /\ Len(receipts') = Len(receipts)
    BY <1>1, <2>2, <2>4, <2>5 DEF Listed
  <2> HIDE DEF made
  <2> QED
    BY <1>1, <2>3, <2>4, <2>6 DEF Listed
<1>5. CASE ~SomePrepare /\ ~SomeApprove /\ ~SomeCommit
  BY <1>1, <1>5, ListSteps DEF Listed, lists
<1> QED
  BY <1>2, <1>3, <1>4, <1>5

LEMMA TypeStep ==
  ASSUME TypeInv, [Next]_vars
  PROVE  TypeInv'
<1>1. /\ TypeOK /\ GrantInv /\ now \in Nat /\ page \in Page
      /\ page.document \in Nat /\ page.epoch \in Nat
  BY Bounds DEF TypeInv, TypeOK, Page
<1>2. Listed' /\ Len(preparations') <= MaxPrepared /\ Len(receipts') <= MaxReceipts
  BY ListedStep
<1> DEFINE Rest ==
      /\ now \in 0..MaxTime /\ page \in Page
      /\ lease.lastUsedAt \in 0..MaxTime /\ lease.revoked \in BOOLEAN
      /\ policyLease.state \in {"active", "revoked", "expired"}
      /\ policyLease.lastUsedAt \in 0..MaxTime /\ policyLease.remainingUses \in 0..UseLimit
<1>3. Rest
  BY <1>1 DEF TypeOK
<1>4. Rest'
  <2>1. CASE UNCHANGED <<now, page, grant>>
    BY <1>3, <2>1 DEF grant
  <2>2. CASE Tick
    BY <1>3, <2>2, Bounds DEF grant, Tick
  <2>3. ASSUME NEW witness \in Witnesses, PageChanges(witness) PROVE Rest'
    <3>1. page' \in Page
      <4>1. page.epoch + 1 \in 0..MaxEpoch
        BY <1>1, <2>3, Bounds DEF PageChanges
      <4> QED
        BY <1>1, <2>3, <4>1 DEF PageChanges, Page
    <3> QED
      BY <1>3, <2>3, <3>1 DEF PageChanges, grant
  <2>4. ASSUME NEW witness \in Witnesses, NEW origin \in {Home, Elsewhere},
               Navigates(origin, witness)
        PROVE  Rest'
    <3>1. page' \in Page
      BY <1>1, <2>4, Bounds DEF Navigates, Page
    <3> QED
      BY <1>3, <2>4, <3>1 DEF Navigates, grant
  <2>5. ASSUME NEW state \in {"expired", "revoked"}, RevokeLease(state) PROVE Rest'
    BY <1>1, <1>3, <2>5 DEF GrantInv, RevokeLease
  <2>6. ASSUME NEW command \in DOMAIN RequiredScopes, Execute(command) PROVE Rest'
    BY <1>1, <1>3, <2>6, Bounds DEF GrantInv, Execute, Reserve
  <2> QED
    BY <2>1, <2>2, <2>3, <2>4, <2>5, <2>6, GrantShape DEF GrantSteps
<1> QED
  BY <1>2, <1>4, GrantStep DEF TypeInv, TypeOK, Page

LEMMA TypeInvariant == Spec => []TypeInv
BY TypeInit, TypeStep, PTL DEF Spec

\* Every variable keeps its type, and no use is counted that there was not.
THEOREM PolicyTypes == Spec => []TypeOK
BY TypeInvariant, PTL DEF TypeInv

-----------------------------------------------------------------------------
(* The engine and the broker agree *)

LEMMA GrantFields ==
  ASSUME TypeInv
  PROVE  /\ capability.client = Client /\ capability.document = 0 /\ capability.origin = Home
         /\ capability.scopes = lease.scopes /\ capability.origins = {}
         /\ capability.issuedAt = 0 /\ capability.expiresAt = Ttl
         /\ capability.idleTimeout = IdleTimeout /\ capability.useLimit = UseLimit
         /\ lease.expiresAt = Ttl
         /\ policyLease.client = Client /\ policyLease.document = 0 /\ policyLease.origin = Home
         /\ policyLease.issuedAt = 0 /\ policyLease.expiresAt = Ttl
         /\ policyLease.lastUsedAt = lease.lastUsedAt /\ policyLease.idleTimeout = IdleTimeout
         /\ policyLease.state = "active" <=> ~lease.revoked
<1>1. PICK s, t : capability = Issue(s, t) /\ s = lease.scopes
  BY DEF TypeInv, GrantInv
<1>2. PICK own, last, v :
        lease = [scopes |-> own, expiresAt |-> Ttl, lastUsedAt |-> last, revoked |-> v]
  BY DEF TypeInv, GrantInv
<1>3. PICK phase, used, u :
        /\ used = lease.lastUsedAt
        /\ policyLease =
             [client |-> Client, document |-> 0, origin |-> Home, state |-> phase,
              issuedAt |-> 0, expiresAt |-> Ttl, lastUsedAt |-> used,
              idleTimeout |-> IdleTimeout, remainingUses |-> u]
  BY DEF TypeInv, GrantInv
<1>4. policyLease.state = "active" <=> ~lease.revoked
  BY DEF TypeInv, GrantInv
<1> QED
  BY <1>1, <1>2, <1>3, <1>4 DEF Issue

\* The numbers the two of them compare.
LEMMA GrantNumbers ==
  ASSUME TypeInv
  PROVE  /\ now \in Nat /\ lease.lastUsedAt \in Nat /\ lease.lastUsedAt < Ttl
         /\ policyLease.remainingUses \in 0..UseLimit
         /\ WellFormedLease(policyLease)
         /\ WellFormedCapability(capability) <=> lease.scopes # {}
<1>1. /\ now \in Nat /\ lease.lastUsedAt \in Nat /\ lease.lastUsedAt < Ttl
      /\ policyLease.remainingUses \in 0..UseLimit
  BY Bounds DEF TypeInv, TypeOK, GrantInv
<1> QED
  BY <1>1, GrantFields, Bounds DEF WellFormedLease, WellFormedCapability

\* What validateGrant says of the grant in a context that is its own.
LEMMA OwnGrantCode ==
  ASSUME TypeInv, NEW ctx, Binding(ctx) = <<Client, 0, Home>>, ctx.now = now,
         ctx.rateLimitAllowed \in BOOLEAN
  PROVE  GrantCode(capability, policyLease, ctx) = None <=>
           ctx.rateLimitAllowed /\ IsLeaseActive /\ policyLease.remainingUses > 0
<1>1. Binding(capability) = Binding(ctx) /\ Binding(policyLease) = Binding(ctx)
  BY GrantFields DEF Binding
<1>2. /\ ~(capability.issuedAt > ctx.now)
      /\ capability.expiresAt <= ctx.now <=> Ttl <= now
      /\ ~(\/ policyLease.issuedAt < capability.issuedAt
           \/ policyLease.expiresAt > capability.expiresAt
           \/ policyLease.idleTimeout > capability.idleTimeout
           \/ policyLease.remainingUses > capability.useLimit)
  BY GrantFields, GrantNumbers, Bounds
<1>3. GrantCode(capability, policyLease, ctx) = None <=>
        /\ ctx.rateLimitAllowed /\ ~(Ttl <= now)
        /\ policyLease.state = "active" /\ ~(policyLease.expiresAt <= ctx.now)
        /\ ~(policyLease.lastUsedAt + policyLease.idleTimeout <= ctx.now)
        /\ ~(policyLease.remainingUses <= 0)
  BY <1>1, <1>2, AbsentAssumption DEF GrantCode, Codes
<1>4. /\ ~(Ttl <= now) <=> now < lease.expiresAt
      /\ ~(policyLease.expiresAt <= ctx.now) <=> now < lease.expiresAt
      /\ ~(policyLease.lastUsedAt + policyLease.idleTimeout <= ctx.now)
           <=> now < lease.lastUsedAt + IdleTimeout
      /\ ~(policyLease.remainingUses <= 0) <=> policyLease.remainingUses > 0
  BY GrantFields, GrantNumbers, Bounds
<1> QED
  BY <1>3, <1>4, GrantFields DEF IsLeaseActive

\* What the engine says of an action without elements that is executed as it is evaluated.
LEMMA PlainDecision ==
  ASSUME TypeInv, NEW a, a.kind \in Fixed \cup {"page.navigate"},
         a.targets = {}, a.classes = {}
  PROVE  Decision("prepare", a, capability, policyLease, None, BrokerContext) = "ALLOW" <=>
           /\ lease.scopes # {} /\ IsLeaseActive /\ policyLease.remainingUses > 0
           /\ ScopePresent(a, capability)
<1> DEFINE ctx == BrokerContext
           common == CommonCode(a, capability, policyLease, ctx)
<1>1. /\ Binding(ctx) = <<Client, 0, Home>> /\ ctx.now = now
      /\ ctx.rateLimitAllowed \in BOOLEAN
      /\ ctx.rateLimitAllowed <=> policyLease.remainingUses > 0
  <2>1. ctx.rateLimitAllowed = (policyLease.remainingUses > 0)
    BY ZenonT(30) DEF BrokerContext
  <2>2. (policyLease.remainingUses > 0) \in BOOLEAN
    OBVIOUS
  <2>3. Binding(ctx) = <<Client, 0, Home>> /\ ctx.now = now
    BY GrantFields DEF Binding, BrokerContext
  <2> HIDE DEF ctx
  <2> QED
    BY <2>1, <2>2, <2>3
<1>2. GrantCode(capability, policyLease, ctx) = None <=>
        IsLeaseActive /\ policyLease.remainingUses > 0
  BY <1>1, OwnGrantCode
<1>3. /\ a.kind \notin DOMAIN ForbiddenCode /\ a.kind \in KnownKinds
      /\ a.kind \notin R2Kinds \cup R3Kinds
  BY DEF ForbiddenCode, KnownKinds, Fixed, R2Kinds, R3Kinds
<1>4. ~StaleReference(a, ctx) /\ a.classes \subseteq capability.dataClasses
  BY DEF StaleReference
<1>5. common = None <=>
        /\ WellFormedCapability(capability) /\ WellFormedLease(policyLease)
        /\ GrantCode(capability, policyLease, ctx) = None /\ ScopePresent(a, capability)
  BY <1>3, <1>4, AbsentAssumption DEF CommonCode, Codes
<1>6. common # "ALLOW"
  BY AbsentAssumption DEF CommonCode, GrantCode, ForbiddenCode, Allowing
<1> HIDE DEF common
<1>7. Decision("prepare", a, capability, policyLease, None, ctx) = "ALLOW" <=> common = None
  BY <1>3, <1>6 DEF Decision, common
<1> QED
  BY <1>2, <1>5, <1>7, GrantNumbers

LEMMA Agreement ==
  ASSUME TypeInv
  PROVE  EngineAgrees
<1> DEFINE Active == IsLeaseActive /\ policyLease.remainingUses > 0
<1>1. Authorized("snapshot") <=> Active /\ "page.a11y.read" \in lease.scopes
  <2> DEFINE a == Plain("page.a11y.read", None)
  <2>1. /\ a.kind = "page.a11y.read" /\ a.targets = {} /\ a.classes = {}
        /\ ActionForCommand["snapshot"] = a
    BY DEF Plain, ActionForCommand
  <2>2. ScopePresent(a, capability) <=> "page.a11y.read" \in lease.scopes
    BY <2>1, GrantFields DEF ScopePresent, Fixed, R2Kinds, R3Kinds
  <2>3. a.kind \in Fixed
    BY <2>1 DEF Fixed
  <2> HIDE DEF a
  <2> QED
    BY <2>1, <2>2, <2>3, PlainDecision DEF Authorized
<1>2. Authorized("scroll") <=> Active /\ "page.scroll" \in lease.scopes
  <2> DEFINE a == Plain("page.scroll", None)
  <2>1. /\ a.kind = "page.scroll" /\ a.targets = {} /\ a.classes = {}
        /\ ActionForCommand["scroll"] = a
    BY DEF Plain, ActionForCommand
  <2>2. ScopePresent(a, capability) <=> "page.scroll" \in lease.scopes
    BY <2>1, GrantFields DEF ScopePresent, Fixed, R2Kinds, R3Kinds
  <2>3. a.kind \in Fixed
    BY <2>1 DEF Fixed
  <2> HIDE DEF a
  <2> QED
    BY <2>1, <2>2, <2>3, PlainDecision DEF Authorized
<1>3. Authorized("navigate") <=> Active /\ "page.navigate.same_origin" \in lease.scopes
  <2> DEFINE a == Plain("page.navigate", Home)
  <2>1. /\ a.kind = "page.navigate" /\ a.to = Home /\ a.targets = {} /\ a.classes = {}
        /\ ActionForCommand["navigate"] = a
    BY DEF Plain, ActionForCommand
  <2>2. ScopePresent(a, capability) <=> "page.navigate.same_origin" \in lease.scopes
    BY <2>1, GrantFields DEF ScopePresent, Fixed, R2Kinds, R3Kinds
  <2> HIDE DEF a
  <2> QED
    BY <2>1, <2>2, PlainDecision DEF Authorized
<1>4. /\ RequiredScopes["snapshot"] \ {"data.egress.model"} = {"page.a11y.read"}
      /\ RequiredScopes["scroll"] \ {"data.egress.model"} = {"page.scroll"}
      /\ RequiredScopes["navigate"] \ {"data.egress.model"} = {"page.navigate.same_origin"}
      /\ DOMAIN ActionForCommand = {"snapshot", "scroll", "navigate"}
  BY DEF RequiredScopes, ActionForCommand
<1> QED
  BY <1>1, <1>2, <1>3, <1>4 DEF EngineAgrees

\* The policy engine allows a command of the broker exactly while the broker finds the
\* lease active, with a use left and the scope granted: neither copy of the lease is ever
\* more generous than the other.
THEOREM EngineAndBrokerAgree == Spec => []EngineAgrees
BY TypeInvariant, Agreement, PTL

-----------------------------------------------------------------------------
(* What is committed is what was approved *)

\* A commit against its receipt and what was prepared.
Honours(commit, receipt, prepared) ==
  /\ commit.client = Client /\ commit.action = prepared.action
  /\ commit.page.document = receipt.document /\ commit.page.witness = prepared.witness
  /\ commit.at \in receipt.issuedAt..(receipt.expiresAt - 1)
  /\ receipt.verifiedAt >= receipt.issuedAt

\* Preparations have their own numbers, receipts are of something prepared, and what is
\* committed honours its receipt, which is then consumed, so that none serves twice.
Approved ==
  /\ \A n \in DOMAIN preparations : preparations[n].prepareId = n
  /\ \A n \in DOMAIN receipts :
       /\ receipts[n].prepareId \in DOMAIN preparations
       /\ receipts[n].action = preparations[receipts[n].prepareId].action
       /\ receipts[n].witness = preparations[receipts[n].prepareId].witness
  /\ \A i \in DOMAIN commits :
       /\ commits[i].receipt \in DOMAIN receipts
       /\ receipts[commits[i].receipt].consumedAt # None
       /\ Honours(commits[i], receipts[commits[i].receipt],
                  preparations[receipts[commits[i].receipt].prepareId])
  /\ \A i, j \in DOMAIN commits : commits[j].receipt = commits[i].receipt => i = j

ApprovedInv == TypeInv /\ Approved

LEMMA ApprovedPrepare ==
  ASSUME ApprovedInv, SomePrepare
  PROVE  Approved'
<1>1. PICK client \in Clients, a \in Actions : Prepare(client, a)
  BY DEF SomePrepare
<1> DEFINE made == [prepareId |-> Len(preparations) + 1, action |-> a, witness |-> page.witness]
<1>2. /\ preparations' = Append(preparations, made) /\ made.prepareId = Len(preparations) + 1
      /\ UNCHANGED <<receipts, commits>>
  BY <1>1 DEF Prepare
<1> HIDE DEF made
<1>3. preparations \in Seq(Preparation) /\ Approved
  BY DEF ApprovedInv, TypeInv, Listed
<1>4. /\ DOMAIN preparations' = 1..(Len(preparations) + 1)
      /\ DOMAIN preparations = 1..Len(preparations) /\ Len(preparations) \in Nat
      /\ preparations'[Len(preparations) + 1] = made
      /\ \A n \in DOMAIN preparations :
           n \in DOMAIN preparations' /\ preparations'[n] = preparations[n]
  BY <1>2, <1>3
<1>5. \A n \in DOMAIN preparations' : preparations'[n].prepareId = n
  <2> SUFFICES ASSUME NEW n \in DOMAIN preparations' PROVE preparations'[n].prepareId = n
    OBVIOUS
  <2>1. n = Len(preparations) + 1 \/ n \in DOMAIN preparations
    BY <1>4
  <2> QED
    BY <1>2, <1>3, <1>4, <2>1 DEF Approved
<1>6. \A n \in DOMAIN receipts :
        /\ receipts[n].prepareId \in DOMAIN preparations
        /\ preparations'[receipts[n].prepareId] = preparations[receipts[n].prepareId]
  BY <1>3, <1>4 DEF Approved
<1> QED
  BY <1>2, <1>3, <1>4, <1>5, <1>6 DEF Approved

LEMMA ApprovedApprove ==
  ASSUME ApprovedInv, SomeApprove
  PROVE  Approved'
<1>1. PICK p \in DOMAIN preparations, verifiedAt \in {now, now - 1} \cap Nat :
        Approve(p, verifiedAt)
  BY DEF SomeApprove
<1> DEFINE made ==
      [prepareId |-> preparations[p].prepareId, action |-> preparations[p].action,
       witness |-> preparations[p].witness, client |-> Client,
       document |-> page.document, origin |-> page.origin,
       issuedAt |-> now, expiresAt |-> now + ReceiptTtl, verifiedAt |-> verifiedAt,
       consumedAt |-> None]
<1>2. receipts \in Seq(Receipt) /\ Approved
  BY DEF ApprovedInv, TypeInv, Listed
<1>3. /\ receipts' = Append(receipts, made) /\ UNCHANGED <<preparations, commits>>
      /\ made.prepareId = p /\ made.action = preparations[p].action
      /\ made.witness = preparations[p].witness
  BY <1>1, <1>2 DEF Approve, Approved
<1> HIDE DEF made
<1>4. /\ DOMAIN receipts' = 1..(Len(receipts) + 1)
      /\ DOMAIN receipts = 1..Len(receipts) /\ Len(receipts) \in Nat
      /\ receipts'[Len(receipts) + 1] = made
      /\ \A n \in DOMAIN receipts : n \in DOMAIN receipts' /\ receipts'[n] = receipts[n]
  BY <1>2, <1>3
<1>5. \A n \in DOMAIN receipts' :
        /\ receipts'[n].prepareId \in DOMAIN preparations
        /\ receipts'[n].action = preparations[receipts'[n].prepareId].action
        /\ receipts'[n].witness = preparations[receipts'[n].prepareId].witness
  <2> SUFFICES ASSUME NEW n \in DOMAIN receipts'
               PROVE  /\ receipts'[n].prepareId \in DOMAIN preparations
                      /\ receipts'[n].action = preparations[receipts'[n].prepareId].action
                      /\ receipts'[n].witness = preparations[receipts'[n].prepareId].witness
    OBVIOUS
  <2>1. n = Len(receipts) + 1 \/ n \in DOMAIN receipts
    BY <1>4
  <2> QED
    BY <1>2, <1>3, <1>4, <2>1 DEF Approved
<1>6. \A i \in DOMAIN commits :
        /\ commits[i].receipt \in DOMAIN receipts'
        /\ receipts'[commits[i].receipt] = receipts[commits[i].receipt]
  BY <1>2, <1>4 DEF Approved
<1> QED
  BY <1>2, <1>3, <1>5, <1>6 DEF Approved

LEMMA ApprovedCommit ==
  ASSUME ApprovedInv, SomeCommit
  PROVE  Approved'
<1>1. PICK client \in Clients, a \in Actions, p \in DOMAIN preparations \cup {None},
           r \in DOMAIN receipts \cup {None} : Commit(client, a, p, r)
  BY DEF SomeCommit
<1> DEFINE ctx == PageContext(client, p)
           made == [client |-> client, action |-> a, receipt |-> r, page |-> page, at |-> now]
<1>2. /\ preparations \in Seq(Preparation) /\ receipts \in Seq(Receipt)
      /\ commits \in Seq(Commitment) /\ Approved /\ now \in Nat
  BY Bounds DEF ApprovedInv, TypeInv, TypeOK, Listed
<1>3. /\ r \in DOMAIN receipts /\ r # None
      /\ ApprovalCode(a, receipts[r], ctx) = None
  BY <1>1, CommitReceipt DEF ApprovedInv
<1>4. /\ receipts[r].consumedAt = None
      /\ ~(receipts[r].issuedAt > ctx.now \/ receipts[r].expiresAt <= ctx.now)
      /\ SameState(a, receipts[r], ctx)
      /\ receipts[r].verifiedAt \in receipts[r].issuedAt..receipts[r].expiresAt
  BY <1>3, AbsentAssumption DEF ApprovalCode, Codes
<1>5. ctx.now = now /\ ctx.witness = page.witness /\ Binding(ctx) = <<client, page.document, page.origin>>
  BY DEF PageContext, Binding
<1>6. receipts[r] \in Receipt
  BY <1>2, <1>3
<1>7. /\ commits' = Append(commits, made) /\ UNCHANGED preparations
      /\ receipts' = [receipts EXCEPT ![r].consumedAt = now]
  BY <1>1 DEF Commit
<1>8. /\ receipts[r].action = a /\ receipts[r].witness = page.witness
      /\ receipts[r].client = client /\ receipts[r].document = page.document
  BY <1>4, <1>5 DEF SameState, Binding
<1>9. /\ made.client = client /\ made.action = a /\ made.receipt = r
      /\ made.page = page /\ made.at = now
  OBVIOUS
<1>10. Honours(made, receipts[r], preparations[receipts[r].prepareId])
  <2>1. /\ preparations[receipts[r].prepareId].action = a
        /\ preparations[receipts[r].prepareId].witness = page.witness
    BY <1>2, <1>3, <1>8 DEF Approved
  <2>2. receipts[r].issuedAt \in Nat /\ receipts[r].expiresAt \in Nat /\ client = Client
    BY <1>6, <1>8 DEF Receipt
  <2>3. now \in receipts[r].issuedAt..(receipts[r].expiresAt - 1)
    BY <1>2, <1>4, <1>5, <2>2
  <2> QED
    BY <1>4, <1>8, <1>9, <2>1, <2>2, <2>3 DEF Honours
<1> HIDE DEF made
<1>11. /\ DOMAIN receipts' = DOMAIN receipts
       /\ \A n \in DOMAIN receipts : n # r => receipts'[n] = receipts[n]
       /\ receipts'[r] = [receipts[r] EXCEPT !.consumedAt = now]
  BY <1>2, <1>3, <1>7
<1>12. /\ receipts'[r].consumedAt # None
       /\ receipts'[r].prepareId = receipts[r].prepareId
       /\ receipts'[r].action = receipts[r].action /\ receipts'[r].witness = receipts[r].witness
       /\ receipts'[r].document = receipts[r].document
       /\ receipts'[r].issuedAt = receipts[r].issuedAt
       /\ receipts'[r].expiresAt = receipts[r].expiresAt
       /\ receipts'[r].verifiedAt = receipts[r].verifiedAt
  <2>1. None # now
    BY <1>2, AbsentAssumption
  <2> QED
    BY <1>6, <1>11, <2>1 DEF Receipt
<1>13. /\ DOMAIN commits' = 1..(Len(commits) + 1)
       /\ DOMAIN commits = 1..Len(commits) /\ Len(commits) \in Nat
       /\ commits'[Len(commits) + 1] = made
       /\ \A i \in DOMAIN commits : commits'[i] = commits[i]
  BY <1>2, <1>7
<1>14. \A i \in DOMAIN commits : commits[i].receipt \in DOMAIN receipts /\ commits[i].receipt # r
  BY <1>2, <1>4 DEF Approved
<1>15. \A i \in DOMAIN commits' : i \in DOMAIN commits \/ i = Len(commits) + 1
  BY <1>13
<1>16. \A n \in DOMAIN receipts' :
         /\ receipts'[n].prepareId \in DOMAIN preparations
         /\ receipts'[n].action = preparations[receipts'[n].prepareId].action
         /\ receipts'[n].witness = preparations[receipts'[n].prepareId].witness
  <2> SUFFICES ASSUME NEW n \in DOMAIN receipts
               PROVE  /\ receipts'[n].prepareId \in DOMAIN preparations
                      /\ receipts'[n].action = preparations[receipts'[n].prepareId].action
                      /\ receipts'[n].witness = preparations[receipts'[n].prepareId].witness
    BY <1>11
  <2>1. /\ receipts'[n].prepareId = receipts[n].prepareId
        /\ receipts'[n].action = receipts[n].action
        /\ receipts'[n].witness = receipts[n].witness
    BY <1>11, <1>12
  <2> QED
    BY <1>2, <2>1 DEF Approved
<1>17. Honours(made, receipts'[r], preparations[receipts'[r].prepareId])
  BY <1>10, <1>12 DEF Honours
<1>18. \A i \in DOMAIN commits' :
         /\ commits'[i].receipt \in DOMAIN receipts'
         /\ receipts'[commits'[i].receipt].consumedAt # None
         /\ Honours(commits'[i], receipts'[commits'[i].receipt],
                    preparations[receipts'[commits'[i].receipt].prepareId])
  <2>1. ASSUME NEW i \in DOMAIN commits
        PROVE  /\ commits'[i].receipt \in DOMAIN receipts'
               /\ receipts'[commits'[i].receipt] = receipts[commits[i].receipt]
               /\ receipts[commits[i].receipt].consumedAt # None
               /\ Honours(commits[i], receipts[commits[i].receipt],
                          preparations[receipts[commits[i].receipt].prepareId])
    BY <1>2, <1>11, <1>13, <1>14 DEF Approved
  <2>2. /\ commits'[Len(commits) + 1].receipt = r /\ r \in DOMAIN receipts'
        /\ commits'[Len(commits) + 1] = made
    BY <1>3, <1>9, <1>11, <1>13
  <2>3. \A i \in DOMAIN commits : commits'[i] = commits[i]
    BY <1>13
  <2> QED
    BY <1>12, <1>15, <1>17, <2>1, <2>2, <2>3
<1>19. \A i, j \in DOMAIN commits' : commits'[j].receipt = commits'[i].receipt => i = j
  BY <1>2, <1>9, <1>13, <1>14, <1>15 DEF Approved
<1> QED
  <2>1. \A n \in DOMAIN preparations' : preparations'[n].prepareId = n
    BY <1>2, <1>7 DEF Approved
  <2>2. preparations' = preparations
    BY <1>7
  <2> QED
    BY <1>16, <1>18, <1>19, <2>1, <2>2 DEF Approved

LEMMA ApprovedStep ==
  ASSUME ApprovedInv, [Next]_vars
  PROVE  ApprovedInv'
<1>1. ASSUME ~SomePrepare, ~SomeApprove, ~SomeCommit PROVE Approved'
  <2>1. UNCHANGED <<preparations, receipts, commits>> /\ Approved
    BY <1>1, ListSteps DEF ApprovedInv, lists
  <2> QED
    BY <2>1 DEF Approved
<1> QED
  BY <1>1, TypeStep, ApprovedPrepare, ApprovedApprove, ApprovedCommit DEF ApprovedInv

LEMMA ApprovedMeans ==
  ASSUME ApprovedInv
  PROVE  CommitsAsApproved
BY DEF ApprovedInv, Approved, Honours, CommitsAsApproved

\* What is committed is what the user approved, once, while the approval is valid, and in
\* the state of the page it was shown for, however many preparations and approvals the
\* caller mixes.
THEOREM CommitsApproved == Spec => []CommitsAsApproved
<1>1. Init => ApprovedInv
  <2>1. ASSUME Init PROVE Approved
    <3>1. DOMAIN preparations = {} /\ DOMAIN receipts = {} /\ DOMAIN commits = {}
      BY <2>1 DEF Init
    <3> QED
      BY <3>1 DEF Approved
  <2> QED
    BY <2>1, TypeInit DEF ApprovedInv
<1> QED
  BY <1>1, ApprovedStep, ApprovedMeans, PTL DEF Spec

-----------------------------------------------------------------------------
(* What is refused stays refused *)

\* What the engine says of an action the client of the grant asks to prepare.
Answer(a) ==
  Decision("prepare", a, capability, policyLease, None, PageContext(Client, None))

\* When it is no refusal.
Open(a) ==
  /\ a.kind \notin DOMAIN ForbiddenCode /\ a.kind \in KnownKinds
  /\ WellFormedCapability(capability)
  /\ page.document = 0 /\ page.origin = Home
  /\ IsLeaseActive /\ policyLease.remainingUses > 0
  /\ \A ref \in a.targets :
       /\ now < ref.expiresAt /\ ref.document = 0 /\ ref.origin = Home /\ page.epoch = 0
  /\ a.classes \subseteq capability.dataClasses /\ ScopePresent(a, capability)

AnswersOpen == \A a \in Actions : Answer(a) \in Allowing <=> Open(a)

LEMMA AnswerMeans ==
  ASSUME TypeInv
  PROVE  AnswersOpen
<1> SUFFICES ASSUME NEW a \in Actions PROVE Answer(a) \in Allowing <=> Open(a)
  BY DEF AnswersOpen
<1> DEFINE ctx == PageContext(Client, None)
           common == CommonCode(a, capability, policyLease, ctx)
           own == page.document = 0 /\ page.origin = Home
<1>1. /\ Binding(ctx) = <<Client, page.document, page.origin>> /\ ctx.now = now
      /\ ctx.document = page.document /\ ctx.origin = page.origin
      /\ ctx.epoch = page.epoch /\ ctx.rateLimitAllowed = TRUE
  BY DEF Binding, PageContext
<1>2. now \in Nat /\ page.epoch \in Nat /\ page.epoch # None
  BY Bounds, AbsentAssumption DEF TypeInv, TypeOK
<1> HIDE DEF ctx
<1>3. GrantCode(capability, policyLease, ctx) = None => own
  BY <1>1, GrantFields, AbsentAssumption DEF GrantCode, Binding, Codes
<1>4. ASSUME own
      PROVE  GrantCode(capability, policyLease, ctx) = None <=>
               IsLeaseActive /\ policyLease.remainingUses > 0
  BY <1>1, <1>4, OwnGrantCode
<1>5. ASSUME own
      PROVE  ~StaleReference(a, ctx) <=>
               \A ref \in a.targets :
                 now < ref.expiresAt /\ ref.document = 0 /\ ref.origin = Home /\ page.epoch = 0
  <2>1. ASSUME NEW ref \in a.targets
        PROVE  /\ ~(ref.issuedAt > ctx.now) /\ ref.epoch = 0
               /\ ref.expiresAt <= ctx.now <=> ~(now < ref.expiresAt)
    BY <1>1, <1>2, ActionsAssumption
  <2> QED
    BY <1>1, <1>2, <1>5, <2>1 DEF StaleReference
<1>6. common = None <=>
        /\ a.kind \notin DOMAIN ForbiddenCode /\ a.kind \in KnownKinds
        /\ WellFormedCapability(capability) /\ WellFormedLease(policyLease)
        /\ GrantCode(capability, policyLease, ctx) = None /\ ~StaleReference(a, ctx)
        /\ a.classes \subseteq capability.dataClasses /\ ScopePresent(a, capability)
  <2>1. a.kind \in DOMAIN ForbiddenCode => ForbiddenCode[a.kind] # None
    BY AbsentAssumption DEF ForbiddenCode, Codes
  <2> QED
    BY <2>1, AbsentAssumption DEF CommonCode, Codes
<1>7. common # "ALLOW" /\ common # "ALLOW_PREPARE"
  BY AbsentAssumption DEF CommonCode, GrantCode, ForbiddenCode, Allowing
<1> HIDE DEF common
<1>8. Answer(a) \in Allowing <=> common = None
  <2>1. Answer(a) = Decision("prepare", a, capability, policyLease, None, ctx)
    BY DEF Answer, ctx
  <2> QED
    BY <1>7, <2>1 DEF Decision, Allowing, common
<1> QED
  BY <1>3, <1>4, <1>5, <1>6, <1>8, GrantNumbers DEF Open

\* Nothing a refusal may rest on is ever undone.
LEMMA OpenStep ==
  ASSUME TypeInv, TypeInv', [Next]_vars, NEW a \in Actions, Open(a)'
  PROVE  Open(a)
<1>1. /\ now \in Nat /\ page.document \in Nat /\ page.epoch \in Nat
      /\ now' \in Nat /\ lease.lastUsedAt \in Nat
      /\ policyLease.remainingUses \in Nat /\ page \in Page
      /\ page.document = 0 => page.origin = Home
  BY Bounds DEF TypeInv, TypeOK, GrantInv, Page
<1> DEFINE Live == IsLeaseActive /\ policyLease.remainingUses > 0
           Same == now' = now /\ page' = page
           Kept == capability' = capability /\ (Live' => Live)
           Moved == /\ now <= now'
                    /\ page'.document = 0 => page.document = 0 /\ page.epoch <= page'.epoch
<1>2. Kept /\ Moved
  <2>1. CASE UNCHANGED <<now, page, grant>>
    BY <1>1, <2>1 DEF grant, IsLeaseActive
  <2>2. CASE Tick
    <3>1. now' = now + 1 /\ UNCHANGED <<page, capability, policyLease, lease>>
      BY <2>2 DEF Tick, grant
    <3>2. lease.expiresAt = Ttl /\ IdleTimeout \in Nat /\ Ttl \in Nat
      BY GrantFields, Bounds
    <3> QED
      BY <1>1, <3>1, <3>2 DEF IsLeaseActive
  <2>3. ASSUME NEW witness \in Witnesses, PageChanges(witness) PROVE Kept /\ Moved
    <3>1. page'.document = page.document /\ page'.epoch = page.epoch + 1
      BY <1>1, <2>3 DEF PageChanges, Page
    <3>2. UNCHANGED <<now, capability, policyLease, lease>>
      BY <2>3 DEF PageChanges, grant
    <3> QED
      BY <1>1, <3>1, <3>2 DEF IsLeaseActive
  <2>4. ASSUME NEW witness \in Witnesses, NEW origin \in {Home, Elsewhere},
               Navigates(origin, witness)
        PROVE  Kept /\ Moved
    <3>1. page'.document # 0
      BY <1>1, <2>4 DEF Navigates
    <3>2. UNCHANGED <<now, capability, policyLease, lease>>
      BY <2>4 DEF Navigates, grant
    <3> QED
      BY <1>1, <3>1, <3>2 DEF IsLeaseActive
  <2>5. ASSUME NEW state \in {"expired", "revoked"}, RevokeLease(state) PROVE Kept /\ Moved
    <3>1. lease'.revoked = TRUE
      <4>1. PICK s, t, v :
              lease = [scopes |-> s, expiresAt |-> Ttl, lastUsedAt |-> t, revoked |-> v]
        BY DEF TypeInv, GrantInv
      <4> QED
        BY <2>5, <4>1 DEF RevokeLease
    <3> QED
      BY <1>1, <2>5, <3>1 DEF RevokeLease, IsLeaseActive
  <2>6. ASSUME NEW command \in DOMAIN RequiredScopes, Execute(command) PROVE Kept /\ Moved
    BY <1>1, <2>6 DEF Execute
  <2> QED
    BY <2>1, <2>2, <2>3, <2>4, <2>5, <2>6, GrantShape DEF GrantSteps
<1>3. page.document = 0 /\ page.origin = Home /\ page.epoch <= page'.epoch
  BY <1>1, <1>2 DEF Open
<1>4. \A ref \in a.targets :
        now < ref.expiresAt /\ ref.document = 0 /\ ref.origin = Home /\ page.epoch = 0
  BY <1>1, <1>2, <1>3, ActionsAssumption DEF Open
<1> QED
  BY <1>2, <1>3, <1>4 DEF Open

\* Authority only shrinks: no step turns a refusal into a permission.
THEOREM RefusedForEver == Spec => NeverRegained
<1>1. ASSUME TypeInv, TypeInv', AnswersOpen, AnswersOpen', [Next]_vars
      PROVE  \A a \in Actions : Answer(a) \notin Allowing => Answer(a)' \notin Allowing
  BY <1>1, OpenStep DEF AnswersOpen
<1>2. ASSUME TypeInv, TypeInv', AnswersOpen, AnswersOpen', [Next]_vars
      PROVE  [\A a \in Actions :
                LET decision ==
                      Decision("prepare", a, capability, policyLease, None,
                               PageContext(Client, None))
                IN decision \notin Allowing => decision' \notin Allowing]_vars
  BY <1>1, <1>2 DEF Answer
<1> QED
  BY <1>2, TypeInvariant, AnswerMeans, PTL DEF Spec, NeverRegained

=============================================================================
