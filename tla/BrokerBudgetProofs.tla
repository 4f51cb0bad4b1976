------------------------- MODULE BrokerBudgetProofs -------------------------
(* The budgets of a lease, for every number of leases and commands and every limit:  *)
(* slots, uses and egress add up.  And from the uses: BrokerState implements          *)
(* LeaseAuthority.                                                                    *)
EXTENDS BrokerStateProofs, FiniteSetTheorems

-----------------------------------------------------------------------------
(* Sums over sets of commands.  The sum of natural numbers is the size of a set, which *)
(* reduces what is recursive about it to one lemma.                                    *)

BytesOf(cmd, S) == MapThenSumSet(LAMBDA k : cmd[k].bytes, S)

\* One unit for each byte of each command.
Units(cmd, S) == {p \in S \X (1..SnapshotMax) : p[2] <= cmd[p[1]].bytes}

Measurable(cmd, S) == IsFiniteSet(S) /\ \A k \in S : cmd[k].bytes \in 0..SnapshotMax

LEMMA IntervalSize ==
  ASSUME NEW n \in Nat
  PROVE  IsFiniteSet(1..n) /\ Cardinality(1..n) = n
<1>1. 1 \in Int /\ n \in Int
  OBVIOUS
<1>2. IsFiniteSet(1..n) /\ Cardinality(1..n) = IF 1 > n THEN 0 ELSE n - 1 + 1
  BY <1>1, FS_Interval
<1> QED
  BY <1>2

LEMMA ColumnSize ==
  ASSUME NEW k, NEW S, IsFiniteSet(S)
  PROVE  IsFiniteSet({k} \X S) /\ Cardinality({k} \X S) = Cardinality(S)
<1>1. IsFiniteSet({k}) /\ Cardinality({k}) = 1
  BY FS_Singleton
<1>2. IsFiniteSet({k} \X S) /\ Cardinality({k} \X S) = Cardinality({k}) * Cardinality(S)
  BY <1>1, FS_Product, Zenon
<1>3. Cardinality(S) \in Nat
  BY FS_CardinalityType
<1> QED
  BY <1>1, <1>2, <1>3

LEMMA UnitsFinite ==
  ASSUME NEW cmd, NEW S, Measurable(cmd, S)
  PROVE  IsFiniteSet(Units(cmd, S)) /\ Cardinality(Units(cmd, S)) \in Nat
<1>1. IsFiniteSet(1..SnapshotMax)
  BY LimitsAssumption, IntervalSize DEF Positive
<1>2. IsFiniteSet(S \X (1..SnapshotMax))
  BY <1>1, FS_Product, Zenon DEF Measurable
<1>3. IsFiniteSet(Units(cmd, S))
  BY <1>2, FS_Subset DEF Units
<1> QED
  BY <1>3, FS_CardinalityType

LEMMA UnitsOfNone ==
  ASSUME NEW cmd
  PROVE  Cardinality(Units(cmd, {})) = 0
<1>1. Units(cmd, {}) = {}
  BY DEF Units
<1> QED
  BY <1>1, FS_EmptySet

\* A command that is taken out takes its units with it.
LEMMA UnitsRemoved ==
  ASSUME NEW cmd, NEW S, Measurable(cmd, S), NEW k \in S
  PROVE  Cardinality(Units(cmd, S)) = cmd[k].bytes + Cardinality(Units(cmd, S \ {k}))
<1> DEFINE b == cmd[k].bytes
           own == {k} \X (1..b)
           rest == Units(cmd, S \ {k})
<1>1. SnapshotMax \in Nat /\ b \in 0..SnapshotMax
  BY LimitsAssumption DEF Positive, Measurable
<1>2. Units(cmd, S) = rest \cup own
  BY <1>1 DEF Units
<1>3. rest \cap own = {}
  BY DEF Units
<1>4. IsFiniteSet(own) /\ Cardinality(own) = b
  <2>1. b \in Nat
    BY <1>1
  <2>2. IsFiniteSet(1..b) /\ Cardinality(1..b) = b
    BY <2>1, IntervalSize
  <2> QED
    BY <2>2, ColumnSize
<1>5. Measurable(cmd, S \ {k})
  BY FS_RemoveElement DEF Measurable
<1>6. IsFiniteSet(rest) /\ Cardinality(rest) \in Nat
  BY <1>5, UnitsFinite
<1>7. Cardinality(rest \cup own) = Cardinality(rest) + Cardinality(own) - Cardinality(rest \cap own)
  BY <1>4, <1>6, FS_Union
<1>8. Cardinality(rest \cap own) = 0
  BY <1>3, FS_EmptySet
<1> QED
  BY <1>1, <1>2, <1>4, <1>6, <1>7, <1>8

\* The equation that defines the sum over the subsets of S.
Summand(cmd, g, s) ==
  IF s = {} THEN 0 ELSE cmd[CHOOSE k \in s : TRUE].bytes + g[s \ {CHOOSE k \in s : TRUE}]

Sums(cmd, S, g) == g = [s \in SUBSET S |-> Summand(cmd, g, s)]

\* Whatever satisfies the equation counts the units.
LEMMA SumsCount ==
  ASSUME NEW cmd, NEW S, Measurable(cmd, S), NEW g, Sums(cmd, S, g)
  PROVE  \A s \in SUBSET S : g[s] = Cardinality(Units(cmd, s))
<1> DEFINE wrong == {s \in SUBSET S : g[s] # Cardinality(Units(cmd, s))}
<1>1. SUFFICES ASSUME wrong # {} PROVE FALSE
  OBVIOUS
<1>2. IsWellFoundedOn(StrictSubsetOrdering(S), SUBSET S)
  BY FS_StrictSubsetOrderingWellFounded, FS_FiniteSubsetsOfFinite DEF Measurable
<1>3. PICK s \in wrong : \A t \in wrong : <<t, s>> \notin StrictSubsetOrdering(S)
  BY <1>1, <1>2, WFMin
<1>4. g[s] = Summand(cmd, g, s)
  BY <1>3 DEF Sums
<1>5. CASE s = {}
  BY <1>3, <1>4, <1>5, UnitsOfNone DEF Summand
<1>6. CASE s # {}
  <2> DEFINE k == CHOOSE j \in s : TRUE
             t == s \ {k}
  <2>1. k \in s
    BY <1>6
  <2>2. g[s] = cmd[k].bytes + g[t]
    BY <1>4, <1>6 DEF Summand
  <2> HIDE DEF k
  <2>3. t \in SUBSET S /\ <<t, s>> \in StrictSubsetOrdering(S)
    BY <1>3, <2>1 DEF StrictSubsetOrdering
  <2>4. g[t] = Cardinality(Units(cmd, t))
    BY <1>3, <2>3
  <2>5. Measurable(cmd, s)
    BY <1>3, FS_Subset DEF Measurable
  <2>6. Cardinality(Units(cmd, s)) = cmd[k].bytes + Cardinality(Units(cmd, t))
    BY <2>1, <2>5, UnitsRemoved
  <2> QED
    BY <1>3, <2>4, <2>2, <2>6
<1> QED
  BY <1>5, <1>6

\* There is such a function: the one that counts.
LEMMA CountSums ==
  ASSUME NEW cmd, NEW S, Measurable(cmd, S)
  PROVE  Sums(cmd, S, [s \in SUBSET S |-> Cardinality(Units(cmd, s))])
<1> DEFINE h == [s \in SUBSET S |-> Cardinality(Units(cmd, s))]
<1>1. ASSUME NEW s \in SUBSET S
      PROVE  Cardinality(Units(cmd, s)) = Summand(cmd, h, s)
  <2>1. CASE s = {}
    BY <2>1, UnitsOfNone DEF Summand
  <2>2. CASE s # {}
    <3> DEFINE k == CHOOSE j \in s : TRUE
    <3>1. k \in s
      BY <2>2
    <3>2. Summand(cmd, h, s) = cmd[k].bytes + h[s \ {k}]
      BY <2>2 DEF Summand
    <3> HIDE DEF k
    <3>3. Measurable(cmd, s)
      BY FS_Subset DEF Measurable
    <3>4. Cardinality(Units(cmd, s)) = cmd[k].bytes + Cardinality(Units(cmd, s \ {k}))
      BY <3>1, <3>3, UnitsRemoved
    <3>5. h[s \ {k}] = Cardinality(Units(cmd, s \ {k}))
      OBVIOUS
    <3> QED
      BY <3>4, <3>5, <3>2
  <2> QED
    BY <2>1, <2>2
<1>2. \A s \in SUBSET S : h[s] = Summand(cmd, h, s)
  BY <1>1
<1>3. h = [s \in SUBSET S |-> h[s]]
  OBVIOUS
<1> HIDE DEF h
<1>4. h = [s \in SUBSET S |-> Summand(cmd, h, s)]
  BY <1>2, <1>3
<1>5. Sums(cmd, S, h)
  BY <1>4 DEF Sums
<1> QED
  BY <1>5 DEF h

LEMMA BytesCounted ==
  ASSUME NEW cmd, NEW S, Measurable(cmd, S)
  PROVE  BytesOf(cmd, S) = Cardinality(Units(cmd, S))
<1> DEFINE g == CHOOSE f : f = [s \in SUBSET S |-> Summand(cmd, f, s)]
<1>1. g = [s \in SUBSET S |-> Summand(cmd, g, s)]
  BY CountSums DEF Sums
<1>2. BytesOf(cmd, S) = g[S]
  BY DEF BytesOf, MapThenSumSet, MapThenFoldSet, Summand
<1>3. Sums(cmd, S, g)
  BY <1>1 DEF Sums
<1> QED
  BY <1>2, <1>3, SumsCount

\* What the sum does when one command is taken out, and when none has other bytes.
LEMMA BytesRemoved ==
  ASSUME NEW cmd, NEW S, Measurable(cmd, S), NEW k \in S
  PROVE  BytesOf(cmd, S) = cmd[k].bytes + BytesOf(cmd, S \ {k})
<1>1. Measurable(cmd, S \ {k})
  BY FS_RemoveElement DEF Measurable
<1> QED
  BY <1>1, BytesCounted, UnitsRemoved

LEMMA BytesUnchanged ==
  ASSUME NEW cmd, NEW to, NEW S, Measurable(cmd, S), \A k \in S : to[k].bytes = cmd[k].bytes
  PROVE  BytesOf(to, S) = BytesOf(cmd, S)
<1>1. Measurable(to, S) /\ Units(to, S) = Units(cmd, S)
  BY DEF Measurable, Units
<1> QED
  BY <1>1, BytesCounted

LEMMA BytesNatural ==
  ASSUME NEW cmd, NEW S, Measurable(cmd, S)
  PROVE  /\ BytesOf(cmd, S) \in Nat
         /\ S = {} => BytesOf(cmd, S) = 0
BY BytesCounted, UnitsFinite, UnitsOfNone

-----------------------------------------------------------------------------
(* What a step does to the account of a lease *)

SameAccount(x, y) ==
  /\ y.request = x.request /\ y.scopes = x.scopes /\ y.inFlight = x.inFlight
  /\ y.remainingUses = x.remainingUses /\ y.remainingEgress = x.remainingEgress

\* Nobody who ends a lease or drops it from its Map changes its account.
LEMMA RevokedAccount ==
  ASSUME NEW x \in LeaseRecord, NEW why
  PROVE  SameAccount(x, Revoked(x, why)) /\ SameAccount(x, Dropped(x))
BY DEF SameAccount, Revoked, Dropped, LeaseRecord

LEMMA SweptAccount ==
  ASSUME TypeOK, NEW l \in Leases
  PROVE  SameAccount(lease[l], SweptLease(l)) /\ SweptLease(l) \in LeaseRecord
<1>1. lease[l] \in LeaseRecord /\ now \in Positive
  BY DEF TypeOK
<1>2. SameAccount(lease[l], ExpiredLease(lease[l])) /\ ExpiredLease(lease[l]) \in LeaseRecord
  BY <1>1, RevokedAccount, RevokedType, LapseReasonType DEF ExpiredLease
<1>3. SweptLease(l) \in LeaseRecord
  BY SweptType DEF SweptLeases
<1> QED
  BY <1>2, <1>3, RevokedAccount DEF SweptLease, SameAccount

\* The commands change when one is admitted or goes on.
LEMMA CommandShape ==
  ASSUME [Next]_vars, command' # command
  PROVE  SomeAdmit \/ \E k \in Commands : CommandStep(k)
<1>1. ASSUME NEW c \in Conns, AgentCall(c) PROVE SomeAdmit
  BY <1>1 DEF AgentCall, SomeAdmit, RequestAccess, RefuseRequest, AgentRevoke,
              AdmitWithoutBrowser
<1>2. ASSUME NEW c \in Conns, BrowserCall(c) PROVE FALSE
  BY <1>2 DEF BrowserCall, RegisterBrowser, Grant, Deny, BrowserRevoke
<1> QED
  BY <1>1, <1>2 DEF Next, vars, Hello, UpgradeBegins, UpgradeEnds, Close, ReadOrRefused,
                    GrantAnswered, GrantAuditFails, Tick

\* The steps that leave the commands alone leave the accounts alone, but for the grant
\* that opens one.
LEMMA QuietSteps ==
  ASSUME TypeInv, [Next]_vars, ~SomeAdmit, ~\E k \in Commands : CommandStep(k),
         NEW l \in Leases, ~GrantOf(l)
  PROVE  SameAccount(lease[l], lease'[l])
<1>1. TypeOK /\ lease[l] \in LeaseRecord /\ SameAccount(lease[l], lease[l])
  BY DEF TypeInv, TypeOK, SameAccount
<1>2. /\ SameAccount(lease[l], SweptLeases[l])
      /\ \A why : SameAccount(lease[l], Revoked(SweptLeases[l], why))
  <2>1. SameAccount(lease[l], SweptLeases[l]) /\ SweptLeases[l] \in LeaseRecord
    BY <1>1, SweptAccount DEF SweptLeases
  <2> QED
    BY <2>1, RevokedAccount DEF SameAccount
<1>3. CASE UNCHANGED lease
  BY <1>1, <1>3
<1>4. CASE lease' = SweptLeases
  BY <1>2, <1>4
<1>5. ASSUME NEW m \in Leases, NEW why, RevokeInCall(m, why)
      PROVE  SameAccount(lease[l], lease'[l])
  <2>1. lease'[l] = SweptLeases[l] \/ lease'[l] = Revoked(SweptLeases[l], why)
    BY <1>5 DEF RevokeInCall, SweptLeases
  <2> QED
    BY <1>2, <2>1
<1>6. ASSUME NEW c \in Conns, Disconnected(c)
      PROVE  SameAccount(lease[l], lease'[l])
  BY <1>1, <1>6, RevokedAccount DEF Disconnected
<1>7. ASSUME NEW m \in Leases, GrantAnswered(m) \/ GrantAuditFails(m)
      PROVE  SameAccount(lease[l], lease'[l])
  <2>1. Answered(lease[l]) \in LeaseRecord /\ SameAccount(lease[l], Answered(lease[l]))
    BY <1>1 DEF Answered, LeaseRecord, SameAccount
  <2>2. \/ lease'[l] = lease[l] \/ lease'[l] = Answered(lease[l])
        \/ \E why : lease'[l] = Revoked(Answered(lease[l]), why)
    BY <1>1, <1>7 DEF GrantAnswered, GrantAuditFails, RevokeLease, TypeOK
  <2>3. \A why : SameAccount(lease[l], Revoked(Answered(lease[l]), why))
    BY <2>1, RevokedAccount DEF SameAccount
  <2> QED
    BY <1>1, <2>1, <2>2, <2>3
<1>8. ASSUME NEW c \in Conns, NEW q \in Requests, NEW m \in Leases,
             NEW scopes \in ScopeChoices, NEW ttl \in GrantTTLs, Grant(c, q, m, scopes, ttl)
      PROVE  SameAccount(lease[l], lease'[l])
  <2>1. m # l
    BY <1>8 DEF GrantOf
  <2>2. PICK L \in RoomForLease(SweptLeases) :
          lease' = [L EXCEPT ![m] = NewLease(q, request[q].session, instanceOf[c], scopes, ttl)]
    BY <1>8 DEF Grant
  <2>3. lease'[l] = L[l]
    BY <1>1, <2>1, <2>2, SweptType, RoomType
  <2>4. L[l] = SweptLeases[l] \/ L[l] = Dropped(SweptLeases[l])
    BY <1>1, <2>2, SweptType, RoomForLeaseMove
  <2>5. SweptLeases[l] \in LeaseRecord
    BY <1>1, SweptType
  <2>6. SameAccount(SweptLeases[l], L[l])
    BY <2>4, <2>5, RevokedAccount DEF SameAccount
  <2> QED
    BY <1>2, <2>3, <2>6 DEF SameAccount
<1>9. ASSUME NEW c \in Conns, AgentCall(c) PROVE SameAccount(lease[l], lease'[l])
  BY <1>4, <1>5, <1>9
  DEF AgentCall, SomeAdmit, RequestAccess, RefuseRequest, AgentRevoke, AdmitWithoutBrowser
<1>10. ASSUME NEW c \in Conns, BrowserCall(c) PROVE SameAccount(lease[l], lease'[l])
  BY <1>4, <1>5, <1>8, <1>10 DEF BrowserCall, RegisterBrowser, Deny, BrowserRevoke
<1>11. CASE UNCHANGED vars
  BY <1>3, <1>11 DEF vars
<1> QED
  BY <1>3, <1>4, <1>6, <1>7, <1>9, <1>10, <1>11
  DEF Next, Hello, UpgradeBegins, UpgradeEnds, Close, ReadOrRefused, Tick

-----------------------------------------------------------------------------
(* What a step does to a command and the account of its lease *)

\* y is x after taking so many slots, uses and bytes.
Takes(x, y, slots, uses, bytes) ==
  /\ y.request = x.request /\ y.scopes = x.scopes
  /\ y.inFlight = x.inFlight + slots
  /\ y.remainingUses = x.remainingUses - uses
  /\ y.remainingEgress = x.remainingEgress - bytes

LEMMA AdmitEffect ==
  ASSUME TypeInv, NEW c \in Conns, NEW k \in Commands, NEW l \in Leases, NEW kind \in Kinds,
         Admit(c, k, l, kind)
  PROVE  /\ command[k].pc = "idle" /\ command'[k].pc = "sent"
         /\ command'[k].lease = l /\ command'[k].bytes = 0
         /\ \A j \in Commands \ {k} : command'[j] = command[j]
         /\ lease[l].request # None /\ lease[l].inFlight < MaxInFlight
         /\ lease[l].remainingUses > 0 /\ Live(lease[l])
         /\ Takes(lease[l], lease'[l], 1, 1, 0)
         /\ \A m \in Leases \ {l} : SameAccount(lease[m], lease'[m])
<1>1. TypeOK
  BY DEF TypeInv
<1>2. /\ SameAccount(lease[l], SweptLease(l)) /\ SweptLease(l) \in LeaseRecord
      /\ lease[l] \in LeaseRecord
  BY <1>1, SweptAccount DEF TypeOK
<1>3. lease'[l] = Reserved(SweptLease(l))
  BY DEF Admit, SweptLeases
<1>4. Takes(SweptLease(l), Reserved(SweptLease(l)), 1, 1, 0)
  BY <1>2 DEF Takes, Reserved, LeaseRecord
<1>5. Takes(lease[l], lease'[l], 1, 1, 0)
  BY <1>2, <1>3, <1>4 DEF Takes, SameAccount
<1>6. ASSUME NEW m \in Leases \ {l} PROVE SameAccount(lease[m], lease'[m])
  BY <1>1, <1>6, SweptAccount DEF Admit, SweptLeases
<1>7. /\ Live(SweptLease(l)) /\ SweptLease(l).inFlight < MaxInFlight
      /\ SweptLease(l).remainingUses > 0
  BY DEF Admit, Usable, WithinBudgets
<1>8. Live(lease[l])
  BY <1>1, <1>7, SweptMove DEF LeaseMove
<1>9. /\ command[k].pc = "idle" /\ command'[k].pc = "sent"
      /\ command'[k].lease = l /\ command'[k].bytes = 0
      /\ \A j \in Commands \ {k} : command'[j] = command[j]
  BY <1>1 DEF Admit, TypeOK
<1> QED
  BY <1>2, <1>5, <1>6, <1>7, <1>8, <1>9 DEF SameAccount, Live

\* From one place to the next, what the command takes from its lease.
Moved(c, d, from, to) == c.pc = from /\ d.pc = to /\ d.lease = c.lease

CommandMove(c, d, x, y) ==
  \/ /\ Moved(c, d, "sent", "auditing") /\ d.bytes \in 0..SnapshotMax
     /\ d.bytes = 0 \/ d.bytes <= x.remainingEgress
     /\ Takes(x, y, 0, 0, d.bytes)
  \/ Moved(c, d, "sent", "denying") /\ d.bytes = c.bytes /\ Takes(x, y, 0, 0, 0)
  \/ Moved(c, d, "auditing", "denying") /\ d.bytes = 0 /\ Takes(x, y, 0, 0, -c.bytes)
  \/ /\ Moved(c, d, "auditing", "result") \/ Moved(c, d, "denying", "error")
     /\ d.bytes = c.bytes
     /\ Takes(x, y, -1, 0, 0)
     /\ Spent(y) => ~Live(y)

LEMMA SettleEffect ==
  ASSUME TypeOK, NEW l \in Leases, Settle(l)
  PROVE  Takes(lease[l], lease'[l], -1, 0, 0) /\ (Spent(lease'[l]) => ~Live(lease'[l]))
<1> DEFINE x == Freed(lease[l])
           why == IF Spent(x) THEN "USE_LIMIT_EXHAUSTED" ELSE None
<1>1. x \in LeaseRecord /\ Takes(lease[l], x, -1, 0, 0) /\ now \in Positive
  BY DEF TypeOK, Freed, Takes, LeaseRecord
<1>2. lease'[l] = Revoked(x, why)
  BY DEF Settle, RevokeLease, TypeOK
<1>3. SameAccount(x, Revoked(x, why))
  BY <1>1, RevokedAccount
<1>4. why \in Reasons \cup {None} /\ (Spent(x) => why # None)
  BY ReasonsAssumption DEF Reasons
<1>5. Spent(Revoked(x, why)) => ~Live(Revoked(x, why))
  BY <1>1, <1>3, <1>4, RevokedMove DEF SameAccount, Spent
<1> QED
  BY <1>1, <1>2, <1>3, <1>5 DEF Takes, SameAccount

LEMMA CommandEffect ==
  ASSUME TypeInv, NEW k \in Commands, CommandStep(k)
  PROVE  LET l == command[k].lease IN
         /\ l \in Leases
         /\ \A j \in Commands \ {k} : command'[j] = command[j]
         /\ \A m \in Leases \ {l} : lease'[m] = lease[m]
         /\ CommandMove(command[k], command'[k], lease[l], lease'[l])
<1> DEFINE l == command[k].lease
<1>1. TypeOK /\ Addressed /\ command[k] \in CommandRecord
  BY DEF TypeInv, TypeOK
<1>2. command[k].pc # "idle"
  BY DEF CommandStep, ResultAccepted, ResultRefused, CommandFails, AuditFails, ResultReturned,
         ErrorReturned
<1>3. l \in Leases /\ lease[l] \in LeaseRecord
  BY <1>1, <1>2 DEF Addressed, TypeOK
<1>4. \A j \in Commands \ {k} : command'[j] = command[j]
  BY <1>1 DEF TypeOK, CommandStep, ResultAccepted, ResultRefused, CommandFails, AuditFails,
              ResultReturned, ErrorReturned
<1>5. \A m \in Leases \ {l} : lease'[m] = lease[m]
  BY <1>1 DEF TypeOK, CommandStep, ResultAccepted, ResultRefused, CommandFails, AuditFails,
              ResultReturned, ErrorReturned, RevokeLease, Settle
<1>6. ASSUME NEW bytes \in ByteChoices, ResultAccepted(k, bytes)
      PROVE  CommandMove(command[k], command'[k], lease[l], lease'[l])
  <2> DEFINE b == Measured(command[k].kind, bytes)
  <2>1. b \in 0..SnapshotMax /\ (b = 0 \/ b <= lease[l].remainingEgress)
    BY <1>6, InputsAssumption, LimitsAssumption
    DEF ResultAccepted, FitsEgress, Measured, Positive
  <2>2. Moved(command[k], command'[k], "sent", "auditing") /\ command'[k].bytes = b
    BY <1>1, <1>6 DEF ResultAccepted, Moved, TypeOK, CommandRecord
  <2>3. lease'[l] = Charged(lease[l], b)
    BY <1>1, <1>3, <1>6 DEF ResultAccepted, TypeOK
  <2>4. Takes(lease[l], Charged(lease[l], b), 0, 0, b)
    BY <1>3, <2>1 DEF Takes, Charged, LeaseRecord
  <2> QED
    BY <2>1, <2>2, <2>3, <2>4 DEF CommandMove
<1>7. ASSUME NEW bytes \in ByteChoices, ResultRefused(k, bytes)
      PROVE  CommandMove(command[k], command'[k], lease[l], lease'[l])
  <2>1. Moved(command[k], command'[k], "sent", "denying") /\ command'[k].bytes = command[k].bytes
    BY <1>1, <1>7 DEF ResultRefused, Moved, TypeOK, CommandRecord
  <2>2. lease'[l] = Revoked(lease[l], LapseReason(lease[l]))
    BY <1>1, <1>3, <1>7 DEF ResultRefused, RevokeLease, TypeOK
  <2>3. SameAccount(lease[l], lease'[l])
    BY <1>3, <2>2, RevokedAccount
  <2>4. Takes(lease[l], lease'[l], 0, 0, 0)
    BY <1>3, <2>3 DEF Takes, SameAccount, LeaseRecord
  <2> QED
    BY <2>1, <2>4 DEF CommandMove
<1>8. ASSUME CommandFails(k)
      PROVE  CommandMove(command[k], command'[k], lease[l], lease'[l])
  <2>1. Moved(command[k], command'[k], "sent", "denying") /\ command'[k].bytes = command[k].bytes
    BY <1>1, <1>8 DEF CommandFails, Moved, TypeOK, CommandRecord
  <2>2. Takes(lease[l], lease'[l], 0, 0, 0)
    BY <1>3, <1>8 DEF CommandFails, Takes, LeaseRecord
  <2> QED
    BY <2>1, <2>2 DEF CommandMove
<1>9. ASSUME AuditFails(k)
      PROVE  CommandMove(command[k], command'[k], lease[l], lease'[l])
  <2>1. Moved(command[k], command'[k], "auditing", "denying") /\ command'[k].bytes = 0
    BY <1>1, <1>9 DEF AuditFails, Moved, TypeOK, CommandRecord
  <2>2. lease'[l] = Refunded(lease[l], command[k].bytes)
    BY <1>1, <1>3, <1>9 DEF AuditFails, TypeOK
  <2>3. Takes(lease[l], lease'[l], 0, 0, -command[k].bytes)
    BY <1>1, <1>3, <2>2 DEF Refunded, Takes, LeaseRecord, CommandRecord
  <2> QED
    BY <2>1, <2>3 DEF CommandMove
<1>10. ASSUME ResultReturned(k) \/ ErrorReturned(k)
       PROVE  CommandMove(command[k], command'[k], lease[l], lease'[l])
  <2>1. /\ \/ Moved(command[k], command'[k], "auditing", "result")
           \/ Moved(command[k], command'[k], "denying", "error")
        /\ command'[k].bytes = command[k].bytes
    BY <1>1, <1>10 DEF ResultReturned, ErrorReturned, Moved, TypeOK, CommandRecord
  <2>2. Settle(l)
    BY <1>10 DEF ResultReturned, ErrorReturned
  <2> QED
    BY <1>1, <1>3, <2>1, <2>2, SettleEffect DEF CommandMove
<1> QED
  BY <1>3, <1>4, <1>5, <1>6, <1>7, <1>8, <1>9, <1>10 DEF CommandStep

-----------------------------------------------------------------------------
(* The inductive invariant: the three accounts, and what makes a new lease start with  *)
(* empty ones: no command names a lease that is not issued.                            *)

Issued ==
  \A k \in Commands :
    /\ command[k].pc = "idle" => command[k].lease = None
    /\ command[k].lease # None => lease[command[k].lease].request # None

Bounded == \A k \in Commands : command[k].bytes \in 0..SnapshotMax

BudgetInv == TypeInv /\ Issued /\ Bounded /\ InFlightMatches /\ UsesAccounted /\ EgressAccounted

Named(l) == {k \in Commands : command[k].lease = l}

Paying(l) == {k \in Commands : command[k].lease = l /\ command[k].pc \in {"auditing", "result"}}

\* Sets of commands are finite, and those that hold egress of a lease can be added up.
LEMMA CommandSets ==
  ASSUME Bounded, NEW S \in SUBSET Commands
  PROVE  /\ IsFiniteSet(S) /\ Cardinality(S) \in Nat
         /\ Measurable(command, S)
<1>1. IsFiniteSet(S)
  BY PoolsAssumption, FS_Subset
<1> QED
  BY <1>1, FS_CardinalityType DEF Bounded, Measurable

LEMMA HeldIsBytes ==
  ASSUME NEW l
  PROVE  EgressHeld(l) = BytesOf(command, Paying(l))
BY DEF EgressHeld, BytesOf, Paying

\* A step that is none of a command's changes none.
LEMMA QuietCommands ==
  ASSUME [Next]_vars, ~SomeAdmit, ~\E k \in Commands : CommandStep(k)
  PROVE  command' = command
BY CommandShape

\* What a new lease starts with.
LEMMA OpenedAccount ==
  ASSUME BudgetInv, NEW l \in Leases, GrantOf(l), [Next]_vars
  PROVE  /\ lease[l].request = None /\ lease'[l].request # None
         /\ lease'[l].inFlight = 0 /\ lease'[l].remainingUses = UseLimit
         /\ lease'[l].remainingEgress = EgressGranted(lease'[l])
         /\ command' = command /\ Named(l) = {}
<1>1. PICK c \in Conns, q \in Requests, scopes \in ScopeChoices, ttl \in GrantTTLs :
        Grant(c, q, l, scopes, ttl)
  BY DEF GrantOf
<1>2. lease'[l] = NewLease(q, request[q].session, instanceOf[c], scopes, ttl)
  BY <1>1, SweptType, RoomType DEF Grant, BudgetInv, TypeInv
<1>3. lease[l].request = None /\ command' = command
  BY <1>1 DEF Grant
<1>4. Named(l) = {}
  BY <1>3, PoolsAssumption DEF BudgetInv, Issued, Named
<1> QED
  BY <1>2, <1>3, <1>4, PoolsAssumption DEF NewLease, EgressGranted

LEMMA IssuedStep ==
  ASSUME BudgetInv, [Next]_vars
  PROVE  Issued' /\ Bounded'
<1>1. TypeInv /\ TypeOK /\ Addressed /\ Issued /\ Bounded
  BY DEF BudgetInv, TypeInv
<1>2. \A l \in Leases : lease[l].request # None => lease'[l].request # None
  BY <1>1, LeaseSteps, OpenedAccount DEF LeaseMove
<1>3. \A k \in Commands : command[k].lease \in Leases \cup {None}
  BY <1>1 DEF TypeOK, CommandRecord
<1>4. ASSUME command' = command PROVE Issued' /\ Bounded'
  BY <1>1, <1>2, <1>3, <1>4 DEF Issued, Bounded
<1>5. ASSUME NEW c \in Conns, NEW k \in Commands, NEW l \in Leases, NEW kind \in Kinds,
             Admit(c, k, l, kind)
      PROVE  Issued' /\ Bounded'
  <2>1. /\ command'[k].pc = "sent" /\ command'[k].lease = l /\ command'[k].bytes = 0
        /\ \A j \in Commands \ {k} : command'[j] = command[j]
        /\ lease[l].request # None
    BY <1>1, <1>5, AdmitEffect
  <2>2. Issued'
    BY <1>1, <1>2, <1>3, <2>1 DEF Issued
  <2>3. 0 \in 0..SnapshotMax
    BY LimitsAssumption DEF Positive
  <2>4. Bounded'
    BY <1>1, <2>1, <2>3 DEF Bounded
  <2> QED
    BY <2>2, <2>4
<1>6. ASSUME NEW k \in Commands, CommandStep(k) PROVE Issued' /\ Bounded'
  <2>1. /\ \A j \in Commands \ {k} : command'[j] = command[j]
        /\ command'[k].lease = command[k].lease /\ command[k].lease \in Leases
        /\ command'[k].pc # "idle"
        /\ command'[k].bytes \in 0..SnapshotMax
    BY <1>1, <1>6, CommandEffect, LimitsAssumption DEF CommandMove, Moved, Bounded, Positive
  <2>2. Issued'
    BY <1>1, <1>2, <1>3, <2>1 DEF Issued
  <2>3. Bounded'
    BY <1>1, <2>1 DEF Bounded
  <2> QED
    BY <2>2, <2>3
<1> QED
  BY <1>4, <1>5, <1>6, CommandShape DEF SomeAdmit

-----------------------------------------------------------------------------
(* Slots *)

\* The calls under way of a lease, after a command is admitted or goes on.
LEMMA OutstandingStep ==
  ASSUME NEW k \in Commands, NEW l \in Leases,
         \A j \in Commands \ {k} : command'[j] = command[j],
         command'[k].lease = l, command[k].lease \in {l, None}
  PROVE  /\ \A m \in Leases \ {l} : Outstanding(m)' = Outstanding(m)
         /\ command'[k].pc \in {"sent", "auditing", "denying"} =>
              Outstanding(l)' = Outstanding(l) \cup {k}
         /\ command'[k].pc \in {"result", "error"} => Outstanding(l)' = Outstanding(l) \ {k}
<1>1. None \notin Leases
  BY PoolsAssumption
<1>2. \A m \in Leases \ {l} : Outstanding(m)' = Outstanding(m)
  BY <1>1 DEF Outstanding
<1>3. ASSUME command'[k].pc \in {"sent", "auditing", "denying"}
      PROVE  Outstanding(l)' = Outstanding(l) \cup {k}
  BY <1>3 DEF Outstanding
<1>4. ASSUME command'[k].pc \in {"result", "error"}
      PROVE  Outstanding(l)' = Outstanding(l) \ {k}
  BY <1>4 DEF Outstanding
<1> QED
  BY <1>2, <1>3, <1>4

LEMMA SlotsStep ==
  ASSUME BudgetInv, [Next]_vars
  PROVE  InFlightMatches'
<1>1. /\ TypeInv /\ TypeOK /\ Bounded
      /\ MaxInFlight \in Nat /\ MaxInFlight > 0
      /\ \A l \in Leases : /\ lease[l].inFlight = Cardinality(Outstanding(l))
                           /\ lease[l].inFlight <= MaxInFlight
  BY LimitsAssumption DEF BudgetInv, TypeInv, InFlightMatches, Positive
<1>2. \A l : Outstanding(l) \in SUBSET Commands
  BY DEF Outstanding
<1>3. \A l : IsFiniteSet(Outstanding(l)) /\ Cardinality(Outstanding(l)) \in Nat
  BY <1>1, <1>2, CommandSets
<1> SUFFICES ASSUME NEW m \in Leases
             PROVE  /\ lease'[m].inFlight = Cardinality(Outstanding(m)')
                    /\ lease'[m].inFlight <= MaxInFlight
  BY DEF InFlightMatches
<1>4. CASE ~SomeAdmit /\ ~\E k \in Commands : CommandStep(k)
  <2>1. command' = command /\ Outstanding(m)' = Outstanding(m)
    BY <1>4, QuietCommands DEF Outstanding
  <2>2. CASE GrantOf(m)
    <3>1. lease'[m].inFlight = 0 /\ Named(m) = {}
      BY <2>2, OpenedAccount
    <3>2. Outstanding(m) = {}
      BY <3>1 DEF Outstanding, Named
    <3> QED
      BY <1>1, <2>1, <3>1, <3>2, FS_EmptySet
  <2>3. CASE ~GrantOf(m)
    BY <1>1, <1>4, <2>1, <2>3, QuietSteps DEF SameAccount
  <2> QED
    BY <2>2, <2>3
<1>5. ASSUME NEW c \in Conns, NEW k \in Commands, NEW l \in Leases, NEW kind \in Kinds,
             Admit(c, k, l, kind)
      PROVE  /\ lease'[m].inFlight = Cardinality(Outstanding(m)')
             /\ lease'[m].inFlight <= MaxInFlight
  <2>1. /\ command[k].pc = "idle" /\ command'[k].pc = "sent" /\ command'[k].lease = l
        /\ \A j \in Commands \ {k} : command'[j] = command[j]
        /\ lease[l].inFlight < MaxInFlight /\ lease'[l].inFlight = lease[l].inFlight + 1
        /\ \A n \in Leases \ {l} : lease'[n].inFlight = lease[n].inFlight
    BY <1>1, <1>5, AdmitEffect DEF Takes, SameAccount
  <2>2. command[k].lease = None
    BY <2>1 DEF BudgetInv, Issued
  <2>3. /\ \A n \in Leases \ {l} : Outstanding(n)' = Outstanding(n)
        /\ Outstanding(l)' = Outstanding(l) \cup {k}
    BY <2>1, <2>2, OutstandingStep
  <2>4. k \notin Outstanding(l)
    BY <2>1 DEF Outstanding
  <2>5. Cardinality(Outstanding(l) \cup {k}) = Cardinality(Outstanding(l)) + 1
    BY <1>3, <2>4, FS_AddElement
  <2> QED
    BY <1>1, <1>3, <2>1, <2>3, <2>5
<1>6. ASSUME NEW k \in Commands, CommandStep(k)
      PROVE  /\ lease'[m].inFlight = Cardinality(Outstanding(m)')
             /\ lease'[m].inFlight <= MaxInFlight
  <2> DEFINE l == command[k].lease
  <2>1. /\ l \in Leases /\ command'[k].lease = l
        /\ \A j \in Commands \ {k} : command'[j] = command[j]
        /\ \A n \in Leases \ {l} : lease'[n] = lease[n]
        /\ CommandMove(command[k], command'[k], lease[l], lease'[l])
    BY <1>1, <1>6, CommandEffect DEF CommandMove, Moved
  <2>2. /\ \A n \in Leases \ {l} : Outstanding(n)' = Outstanding(n)
        /\ command'[k].pc \in {"sent", "auditing", "denying"} =>
             Outstanding(l)' = Outstanding(l) \cup {k}
        /\ command'[k].pc \in {"result", "error"} => Outstanding(l)' = Outstanding(l) \ {k}
    BY <2>1, OutstandingStep
  <2>3. k \in Outstanding(l)
    BY <2>1 DEF CommandMove, Moved, Outstanding
  <2>4. \/ /\ command'[k].pc \in {"auditing", "denying"}
           /\ lease'[l].inFlight = lease[l].inFlight + 0
        \/ /\ command'[k].pc \in {"result", "error"}
           /\ lease'[l].inFlight = lease[l].inFlight + -1
    BY <2>1 DEF CommandMove, Moved, Takes
  <2>5. CASE command'[k].pc \in {"auditing", "denying"} /\ lease'[l].inFlight = lease[l].inFlight + 0
    <3>1. Outstanding(l)' = Outstanding(l)
      BY <2>2, <2>3, <2>5
    <3> QED
      BY <1>1, <1>3, <2>1, <2>2, <2>5, <3>1
  <2>6. CASE command'[k].pc \in {"result", "error"} /\ lease'[l].inFlight = lease[l].inFlight + -1
    <3>1. Outstanding(l)' = Outstanding(l) \ {k}
      BY <2>2, <2>6
    <3>2. Cardinality(Outstanding(l) \ {k}) = Cardinality(Outstanding(l)) - 1
      BY <1>3, <2>3, FS_RemoveElement
    <3>3. /\ lease[l].inFlight = Cardinality(Outstanding(l)) /\ lease[l].inFlight <= MaxInFlight
          /\ Cardinality(Outstanding(l)) \in Nat
      BY <1>1, <1>3, <2>1
    <3>4. /\ lease'[l].inFlight = Cardinality(Outstanding(l)')
          /\ lease'[l].inFlight <= MaxInFlight
      BY <1>1, <2>6, <3>1, <3>2, <3>3
    <3> QED
      BY <1>1, <2>1, <2>2, <3>4
  <2> QED
    BY <2>4, <2>5, <2>6
<1> QED
  BY <1>4, <1>5, <1>6 DEF SomeAdmit

-----------------------------------------------------------------------------
(* Uses *)

\* A lease that is issued does not come to life again.
LEMMA LiveOnce ==
  ASSUME BudgetInv, [Next]_vars, NEW l \in Leases, lease[l].request # None
  PROVE  ~GrantOf(l) /\ (Live(lease'[l]) => Live(lease[l]))
BY LeaseSteps, OpenedAccount DEF BudgetInv, TypeInv, LeaseMove

UsesOf(l) ==
  /\ lease[l].remainingUses = UseLimit - Cardinality(Named(l))
  /\ lease[l].remainingUses >= 0
  /\ Spent(lease[l]) => ~Live(lease[l])

LEMMA UsesStep ==
  ASSUME BudgetInv, [Next]_vars
  PROVE  UsesAccounted'
<1>1. /\ TypeInv /\ TypeOK /\ Bounded /\ UseLimit \in Nat /\ UseLimit > 0
      /\ \A l \in Leases : lease[l].request # None => UsesOf(l)
      /\ \A l \in Leases : lease[l].inFlight = Cardinality(Outstanding(l))
  BY LimitsAssumption
  DEF BudgetInv, TypeInv, InFlightMatches, UsesAccounted, UsesOf, Named, Positive
<1>2. \A l : /\ IsFiniteSet(Named(l)) /\ Cardinality(Named(l)) \in Nat
             /\ Cardinality(Outstanding(l)) \in Nat
  BY <1>1, CommandSets DEF Named, Outstanding
<1> SUFFICES ASSUME NEW m \in Leases, lease'[m].request # None
             PROVE  UsesOf(m)'
  BY DEF UsesAccounted, UsesOf, Named
<1>3. ASSUME SameAccount(lease[m], lease'[m]), ~GrantOf(m), Named(m)' = Named(m)
      PROVE  UsesOf(m)'
  BY <1>1, <1>3, LiveOnce DEF SameAccount, UsesOf, Spent
<1>4. CASE ~SomeAdmit /\ ~\E k \in Commands : CommandStep(k)
  <2>1. command' = command /\ Named(m)' = Named(m)
    BY <1>4, QuietCommands DEF Named
  <2>2. CASE GrantOf(m)
    <3>1. lease'[m].inFlight = 0 /\ lease'[m].remainingUses = UseLimit /\ Named(m) = {}
      BY <2>2, OpenedAccount
    <3> QED
      BY <1>1, <2>1, <3>1, FS_EmptySet DEF UsesOf, Spent
  <2>3. CASE ~GrantOf(m)
    BY <1>1, <1>3, <1>4, <2>1, <2>3, QuietSteps
  <2> QED
    BY <2>2, <2>3
<1>5. ASSUME NEW c \in Conns, NEW k \in Commands, NEW l \in Leases, NEW kind \in Kinds,
             Admit(c, k, l, kind)
      PROVE  UsesOf(m)'
  <2>1. /\ command[k].pc = "idle" /\ command'[k].lease = l
        /\ \A j \in Commands \ {k} : command'[j] = command[j]
        /\ lease[l].request # None /\ lease[l].remainingUses > 0
        /\ Takes(lease[l], lease'[l], 1, 1, 0)
        /\ \A n \in Leases \ {l} : SameAccount(lease[n], lease'[n])
    BY <1>1, <1>5, AdmitEffect
  <2>2. command[k].lease = None
    BY <2>1 DEF BudgetInv, Issued
  <2>3. CASE m = l
    <3>1. Named(l)' = Named(l) \cup {k} /\ k \notin Named(l)
      BY <2>1, <2>2, PoolsAssumption DEF Named
    <3>2. Cardinality(Named(l) \cup {k}) = Cardinality(Named(l)) + 1
      BY <1>2, <3>1, FS_AddElement
    <3>3. /\ lease'[l].remainingUses = lease[l].remainingUses - 1
          /\ lease'[l].inFlight = lease[l].inFlight + 1
      BY <2>1 DEF Takes
    <3>4. lease[l].remainingUses = UseLimit - Cardinality(Named(l)) /\ lease[l].inFlight \in Nat
      BY <1>1, <1>2, <2>1 DEF UsesOf
    <3>5. lease'[l].remainingUses = UseLimit - Cardinality(Named(l)')
      BY <1>1, <1>2, <3>1, <3>2, <3>3, <3>4
    <3>6. lease'[l].remainingUses >= 0 /\ lease'[l].inFlight # 0
      BY <1>1, <1>2, <2>1, <3>3, <3>4
    <3> QED
      BY <2>3, <3>5, <3>6 DEF UsesOf, Spent
  <2>4. CASE m # l
    <3>1. Named(m)' = Named(m)
      BY <2>1, <2>2, <2>4, PoolsAssumption DEF Named
    <3>2. SameAccount(lease[m], lease'[m]) /\ lease[m].request # None
      BY <2>1, <2>4 DEF SameAccount
    <3> QED
      BY <1>3, <3>1, <3>2, LiveOnce
  <2> QED
    BY <2>3, <2>4
<1>6. ASSUME NEW k \in Commands, CommandStep(k)
      PROVE  UsesOf(m)'
  <2> DEFINE l == command[k].lease
  <2>1. /\ l \in Leases /\ command'[k].lease = l
        /\ \A j \in Commands \ {k} : command'[j] = command[j]
        /\ \A n \in Leases \ {l} : lease'[n] = lease[n]
        /\ CommandMove(command[k], command'[k], lease[l], lease'[l])
    BY <1>1, <1>6, CommandEffect DEF CommandMove, Moved
  <2>2. Named(m)' = Named(m)
    BY <2>1 DEF Named
  <2>3. CASE m = l
    <3>1. /\ lease'[l].request = lease[l].request
          /\ lease'[l].remainingUses = lease[l].remainingUses - 0
          /\ (Spent(lease'[l]) => ~Live(lease'[l])) \/ lease'[l].inFlight = lease[l].inFlight + 0
      BY <2>1 DEF CommandMove, Takes
    <3>2. UsesOf(m) /\ lease[m].inFlight \in Nat /\ lease[m].request # None
      BY <1>1, <1>2, <2>3, <3>1
    <3>3. lease'[m].remainingUses = lease[m].remainingUses
      BY <1>1, <1>2, <2>3, <3>1, <3>2 DEF UsesOf
    <3>4. Live(lease'[m]) => Live(lease[m])
      BY <3>2, LiveOnce
    <3>5. Spent(lease'[m]) => ~Live(lease'[m])
      BY <2>3, <3>1, <3>2, <3>3, <3>4 DEF UsesOf, Spent
    <3> QED
      BY <2>2, <3>2, <3>3, <3>5 DEF UsesOf
  <2>4. CASE m # l
    <3>1. SameAccount(lease[m], lease'[m]) /\ lease[m].request # None
      BY <2>1, <2>4 DEF SameAccount
    <3> QED
      BY <1>3, <2>2, <3>1, LiveOnce
  <2> QED
    BY <2>3, <2>4
<1> QED
  BY <1>4, <1>5, <1>6 DEF SomeAdmit

-----------------------------------------------------------------------------
(* Egress *)

EgressOf(l) ==
  /\ lease[l].remainingEgress + BytesOf(command, Paying(l)) = EgressGranted(lease[l])
  /\ lease[l].remainingEgress >= 0

\* What a command changes in what is held of its lease: it adds its bytes when its result
\* is accepted, takes them back when the audit fails, and nothing else.
LEMMA HeldStep ==
  ASSUME BudgetInv, NEW k \in Commands, CommandStep(k)
  PROVE  LET l == command[k].lease
             held == BytesOf(command, Paying(l))
         IN  /\ command[k].pc = "sent" /\ command'[k].pc = "auditing" =>
                  BytesOf(command, Paying(l))' = held + command'[k].bytes
             /\ command[k].pc = "auditing" /\ command'[k].pc = "denying" =>
                  held = command[k].bytes + BytesOf(command, Paying(l))'
             /\ command'[k].pc \in {"result", "error"}
                  \/ (command[k].pc = "sent" /\ command'[k].pc = "denying") =>
                  BytesOf(command, Paying(l))' = held
<1> DEFINE l == command[k].lease
           P == Paying(l)
           Q == {j \in Commands : command'[j].lease = l /\ command'[j].pc \in {"auditing", "result"}}
<1>1. /\ l \in Leases /\ command'[k].lease = l
      /\ \A j \in Commands \ {k} : command'[j] = command[j]
      /\ CommandMove(command[k], command'[k], lease[l], lease'[l])
  BY CommandEffect DEF CommandMove, Moved, BudgetInv
<1>2. P \in SUBSET Commands /\ Q \in SUBSET Commands /\ P \ {k} \in SUBSET Commands
  BY DEF Paying
<1>3. Measurable(command, P) /\ Measurable(command, P \ {k})
  BY <1>2, CommandSets DEF BudgetInv
<1>4. command'[k].bytes \in 0..SnapshotMax
  BY <1>1, LimitsAssumption DEF CommandMove, BudgetInv, Bounded, Positive
<1>5. Measurable(command', Q)
  BY <1>1, <1>2, <1>4, CommandSets DEF Measurable, BudgetInv, Bounded
<1>6. BytesOf(command', P \ {k}) = BytesOf(command, P \ {k})
  <2>1. \A j \in P \ {k} : command'[j].bytes = command[j].bytes
    BY <1>1, <1>2
  <2> HIDE DEF P
  <2> QED
    BY <1>3, <2>1, BytesUnchanged
<1>7. BytesOf(command, P) \in Nat /\ BytesOf(command, P \ {k}) \in Nat
  BY <1>3, BytesNatural
<1>8. ASSUME command[k].pc = "sent", command'[k].pc = "auditing"
      PROVE  BytesOf(command', Q) = BytesOf(command, P) + command'[k].bytes
  <2>1. k \in Q /\ Q \ {k} = P \ {k} /\ P \ {k} = P
    BY <1>1, <1>8 DEF Paying
  <2> HIDE DEF P, Q
  <2>2. BytesOf(command', Q) = command'[k].bytes + BytesOf(command', Q \ {k})
    BY <1>5, <2>1, BytesRemoved
  <2> QED
    BY <1>4, <1>6, <1>7, <2>1, <2>2
<1>9. ASSUME command[k].pc = "auditing", command'[k].pc = "denying"
      PROVE  BytesOf(command, P) = command[k].bytes + BytesOf(command', Q)
  <2>1. k \in P /\ Q = P \ {k}
    BY <1>1, <1>9 DEF Paying
  <2> HIDE DEF P, Q
  <2>2. BytesOf(command, P) = command[k].bytes + BytesOf(command, P \ {k})
    BY <1>3, <2>1, BytesRemoved
  <2> QED
    BY <1>6, <2>1, <2>2
<1>10. ASSUME \/ command'[k].pc \in {"result", "error"}
              \/ command[k].pc = "sent" /\ command'[k].pc = "denying"
       PROVE  BytesOf(command', Q) = BytesOf(command, P)
  <2>1. Q = P /\ \A j \in P : command'[j].bytes = command[j].bytes
    BY <1>1, <1>10 DEF Paying, CommandMove, Moved
  <2> HIDE DEF P, Q
  <2> QED
    BY <1>3, <2>1, BytesUnchanged
<1>11. BytesOf(command, Paying(l))' = BytesOf(command', {j \in Commands :
         command'[j].lease = command'[k].lease /\ command'[j].pc \in {"auditing", "result"}})
  BY DEF Paying
<1> QED
  BY <1>1, <1>8, <1>9, <1>10, <1>11

LEMMA EgressStep ==
  ASSUME BudgetInv, [Next]_vars
  PROVE  EgressAccounted'
<1>1. /\ TypeInv /\ TypeOK /\ Bounded
      /\ \A l \in Leases : lease[l].request # None => EgressOf(l)
  BY HeldIsBytes DEF BudgetInv, TypeInv, EgressAccounted, EgressOf
<1>2. \A l : /\ Measurable(command, Paying(l)) /\ BytesOf(command, Paying(l)) \in Nat
             /\ Paying(l) = {} => BytesOf(command, Paying(l)) = 0
  <2>1. \A l : Paying(l) \in SUBSET Commands
    BY DEF Paying
  <2>2. \A l : Measurable(command, Paying(l))
    BY <1>1, <2>1, CommandSets
  <2> QED
    BY <2>2, BytesNatural
<1> SUFFICES ASSUME NEW m \in Leases, lease'[m].request # None
             PROVE  EgressOf(m)'
  <2>1. \A m \in Leases : lease'[m].request # None => EgressOf(m)'
    OBVIOUS
  <2>2. \A m : EgressHeld(m)' = BytesOf(command, Paying(m))'
    BY DEF EgressHeld, BytesOf, Paying
  <2> QED
    BY <2>1, <2>2 DEF EgressAccounted, EgressOf
<1>3. lease[m].remainingEgress \in Int
  BY <1>1 DEF TypeOK, LeaseRecord
<1>4. ASSUME SameAccount(lease[m], lease'[m]), EgressOf(m),
             BytesOf(command, Paying(m))' = BytesOf(command, Paying(m))
      PROVE  EgressOf(m)'
  BY <1>4 DEF SameAccount, EgressOf, EgressGranted
<1>5. CASE ~SomeAdmit /\ ~\E k \in Commands : CommandStep(k)
  <2>1. command' = command
    BY <1>5, QuietCommands
  <2>2. BytesOf(command, Paying(m))' = BytesOf(command, Paying(m))
    BY <2>1 DEF Paying
  <2>3. CASE GrantOf(m)
    <3>1. /\ lease'[m].remainingEgress = EgressGranted(lease'[m])
          /\ Named(m) = {}
      BY <2>3, OpenedAccount
    <3>2. EgressGranted(lease'[m]) \in Nat
      BY LimitsAssumption DEF EgressGranted, Positive
    <3>3. Paying(m) = {}
      BY <3>1 DEF Paying, Named
    <3> QED
      BY <1>2, <2>2, <3>1, <3>2, <3>3 DEF EgressOf
  <2>4. CASE ~GrantOf(m)
    <3>1. SameAccount(lease[m], lease'[m])
      BY <1>1, <1>5, <2>4, QuietSteps
    <3> QED
      BY <1>1, <1>4, <2>2, <3>1 DEF SameAccount
  <2> QED
    BY <2>3, <2>4
<1>6. ASSUME NEW c \in Conns, NEW k \in Commands, NEW l \in Leases, NEW kind \in Kinds,
             Admit(c, k, l, kind)
      PROVE  EgressOf(m)'
  <2>1. /\ command[k].pc = "idle" /\ command'[k].pc = "sent"
        /\ \A j \in Commands \ {k} : command'[j] = command[j]
        /\ Takes(lease[l], lease'[l], 1, 1, 0)
        /\ \A n \in Leases \ {l} : SameAccount(lease[n], lease'[n])
    BY <1>1, <1>6, AdmitEffect
  <2>2. Paying(m)' = Paying(m) /\ \A j \in Paying(m) : command'[j].bytes = command[j].bytes
    BY <2>1 DEF Paying
  <2>3. BytesOf(command', Paying(m)) = BytesOf(command, Paying(m))
    BY <1>2, <2>2, BytesUnchanged
  <2>4. /\ lease'[m].remainingEgress = lease[m].remainingEgress
        /\ lease'[m].scopes = lease[m].scopes /\ lease'[m].request = lease[m].request
    BY <1>3, <2>1 DEF Takes, SameAccount
  <2> QED
    BY <1>1, <2>2, <2>3, <2>4 DEF EgressOf, EgressGranted
<1>7. ASSUME NEW k \in Commands, CommandStep(k)
      PROVE  EgressOf(m)'
  <2> DEFINE l == command[k].lease
             held == BytesOf(command, Paying(m))
             heldThen == BytesOf(command, Paying(m))'
  <2>1. /\ l \in Leases /\ command'[k].lease = l
        /\ \A j \in Commands \ {k} : command'[j] = command[j]
        /\ \A n \in Leases \ {l} : lease'[n] = lease[n]
        /\ CommandMove(command[k], command'[k], lease[l], lease'[l])
    BY <1>1, <1>7, CommandEffect DEF CommandMove, Moved
  <2>2. CASE m # l
    <3>1. Paying(m)' = Paying(m) /\ \A j \in Paying(m) : command'[j].bytes = command[j].bytes
      BY <2>1, <2>2 DEF Paying
    <3>2. BytesOf(command', Paying(m)) = BytesOf(command, Paying(m))
      BY <1>2, <3>1, BytesUnchanged
    <3>3. SameAccount(lease[m], lease'[m]) /\ lease[m].request # None
      BY <2>1, <2>2 DEF SameAccount
    <3> QED
      BY <1>1, <1>4, <3>1, <3>2, <3>3
  <2>3. CASE m = l
    <3>1. /\ lease'[m].request = lease[m].request /\ lease'[m].scopes = lease[m].scopes
      BY <2>1, <2>3 DEF CommandMove, Takes
    <3>2. EgressOf(m)
      BY <1>1, <3>1
    <3>3. held \in Nat /\ command[k].bytes \in Nat
      BY <1>2, LimitsAssumption DEF BudgetInv, Bounded, Positive
    <3>4. Paying(command[k].lease)' = Paying(m)'
      BY <2>1, <2>3 DEF Paying
    <3>5. /\ command[k].pc = "sent" /\ command'[k].pc = "auditing" =>
               heldThen = held + command'[k].bytes
          /\ command[k].pc = "auditing" /\ command'[k].pc = "denying" =>
               held = command[k].bytes + heldThen
          /\ command'[k].pc \in {"result", "error"}
               \/ (command[k].pc = "sent" /\ command'[k].pc = "denying") => heldThen = held
      BY <1>7, <2>3, <3>4, HeldStep
    <3>6. \/ /\ command[k].pc = "sent" /\ command'[k].pc = "auditing"
             /\ command'[k].bytes \in Nat
             /\ command'[k].bytes = 0 \/ command'[k].bytes <= lease[m].remainingEgress
             /\ lease'[m].remainingEgress = lease[m].remainingEgress - command'[k].bytes
          \/ /\ command[k].pc = "auditing" /\ command'[k].pc = "denying"
             /\ lease'[m].remainingEgress = lease[m].remainingEgress - (-command[k].bytes)
          \/ /\ command'[k].pc \in {"result", "error"}
                  \/ (command[k].pc = "sent" /\ command'[k].pc = "denying")
             /\ lease'[m].remainingEgress = lease[m].remainingEgress - 0
      BY <2>1, <2>3, LimitsAssumption DEF CommandMove, Moved, Takes, Positive
    <3>7. EgressGranted(lease'[m]) = EgressGranted(lease[m])
      BY <3>1 DEF EgressGranted
    <3>8. lease[m].remainingEgress + held = EgressGranted(lease[m]) /\ lease[m].remainingEgress >= 0
      BY <3>2 DEF EgressOf
    <3> HIDE DEF held, heldThen
    <3>9. /\ lease'[m].remainingEgress + heldThen = EgressGranted(lease[m])
          /\ lease'[m].remainingEgress >= 0
      <4>1. ASSUME lease'[m].remainingEgress = lease[m].remainingEgress - command'[k].bytes,
                   heldThen = held + command'[k].bytes, command'[k].bytes \in Nat,
                   command'[k].bytes = 0 \/ command'[k].bytes <= lease[m].remainingEgress
            PROVE  /\ lease'[m].remainingEgress + heldThen = EgressGranted(lease[m])
                   /\ lease'[m].remainingEgress >= 0
        BY <1>3, <3>3, <3>8, <4>1
      <4>2. ASSUME lease'[m].remainingEgress = lease[m].remainingEgress - (-command[k].bytes),
                   held = command[k].bytes + heldThen, heldThen \in Nat
            PROVE  /\ lease'[m].remainingEgress + heldThen = EgressGranted(lease[m])
                   /\ lease'[m].remainingEgress >= 0
        BY <1>3, <3>3, <3>8, <4>2
      <4>3. ASSUME lease'[m].remainingEgress = lease[m].remainingEgress - 0, heldThen = held
            PROVE  /\ lease'[m].remainingEgress + heldThen = EgressGranted(lease[m])
                   /\ lease'[m].remainingEgress >= 0
        BY <1>3, <3>3, <3>8, <4>3
      <4>4. heldThen \in Nat
        <5>1. Bounded'
          BY IssuedStep
        <5>2. Measurable(command, Paying(m))'
          <6>1. Paying(m)' \in SUBSET Commands
            BY DEF Paying
          <6>2. IsFiniteSet(Paying(m)')
            BY <6>1, CommandSets, <1>1
          <6> QED
            BY <5>1, <6>1, <6>2 DEF Bounded, Measurable
        <5> QED
          BY <5>2, BytesNatural DEF heldThen
      <4> QED
        BY <3>5, <3>6, <4>1, <4>2, <4>3, <4>4
    <3> QED
      BY <3>7, <3>9 DEF EgressOf, heldThen
  <2> QED
    BY <2>2, <2>3
<1> QED
  BY <1>5, <1>6, <1>7 DEF SomeAdmit

-----------------------------------------------------------------------------
(* The budgets hold *)

LEMMA BudgetInit == Init => BudgetInv
<1> SUFFICES ASSUME Init PROVE BudgetInv
  OBVIOUS
<1>1. TypeOK
  BY TypeInit
<1>2. \A k \in Commands : command[k] = NoCommand
  BY DEF Init
<1>3. \A l \in Leases : lease[l].request = None /\ lease[l].inFlight = 0
  BY DEF Init, NoLease
<1>4. TypeInv
  BY <1>1, <1>2, <1>3 DEF TypeInv, Placed, Addressed, NoCommand
<1>5. Issued /\ Bounded
  BY <1>2, LimitsAssumption DEF Issued, Bounded, NoCommand, Positive
<1>6. \A l \in Leases : Outstanding(l) = {}
  BY <1>2 DEF Outstanding, NoCommand
<1>7. InFlightMatches
  BY <1>3, <1>6, FS_EmptySet, LimitsAssumption DEF InFlightMatches, Positive
<1>8. UsesAccounted /\ EgressAccounted
  BY <1>3 DEF UsesAccounted, EgressAccounted
<1> QED
  BY <1>4, <1>5, <1>7, <1>8 DEF BudgetInv

LEMMA BudgetStep == BudgetInv /\ [Next]_vars => BudgetInv'
<1> SUFFICES ASSUME BudgetInv, [Next]_vars PROVE BudgetInv'
  OBVIOUS
<1>1. TypeInv'
  BY TypeStep, PlacedStep, AddressedStep DEF BudgetInv, TypeInv
<1> QED
  BY <1>1, IssuedStep, SlotsStep, UsesStep, EgressStep DEF BudgetInv

LEMMA BudgetInvariant == Spec => []BudgetInv
BY BudgetInit, BudgetStep, PTL DEF Spec

\* The in-flight counter of a lease is the number of its calls that have not returned,
\* and stays within LEASE_MAX_IN_FLIGHT, whatever results, timeouts, closes and audit
\* errors come together (reserveCommand, the finally block of executeWithLease).
THEOREM SlotsMatch == Spec => []InFlightMatches
<1>1. BudgetInv => InFlightMatches
  BY DEF BudgetInv
<1> QED
  BY <1>1, BudgetInvariant, PTL

\* A lease has as many uses less as commands were admitted under it, never less than none,
\* and is not live once it has none left and its last command has settled.
THEOREM UsesAddUp == Spec => []UsesAccounted
<1>1. BudgetInv => UsesAccounted
  BY DEF BudgetInv
<1> QED
  BY <1>1, BudgetInvariant, PTL

\* The egress left, held and returned of a lease add up to what was granted and none of it
\* is overspent, for any number of concurrent snapshots (reserveSnapshotEgress).
THEOREM EgressAddsUp == Spec => []EgressAccounted
<1>1. BudgetInv => EgressAccounted
  BY DEF BudgetInv
<1> QED
  BY <1>1, BudgetInvariant, PTL

-----------------------------------------------------------------------------
(* BrokerState implements LeaseAuthority *)

\* The live leases that a step ends.
Ending ==
  {l \in Leases : Standing(lease[l]) = "live" /\ Standing(lease'[l]) = "over"}

LEMMA StandingStep ==
  ASSUME BudgetInv, [Next]_vars, NEW l \in Leases, ~GrantOf(l)
  PROVE  Standing(lease'[l]) = IF l \in Ending THEN "over" ELSE Standing(lease[l])
<1>1. LeaseMove(lease[l], lease'[l])
  BY LeaseSteps DEF BudgetInv, TypeInv
<1> QED
  BY <1>1 DEF Ending, Standing, LeaseMove, Live

\* A grant issues one lease.
LEMMA GrantIssuesOne ==
  ASSUME BudgetInv, [Next]_vars, NEW l \in Leases, GrantOf(l), NEW m \in Leases \ {l}
  PROVE  ~GrantOf(m)
<1>1. PICK c \in Conns, q \in Requests, scopes \in ScopeChoices, ttl \in GrantTTLs :
        Grant(c, q, l, scopes, ttl)
  BY DEF GrantOf
<1>2. PICK L \in RoomForLease(SweptLeases) :
        lease' = [L EXCEPT ![l] = NewLease(q, request[q].session, instanceOf[c], scopes, ttl)]
  BY <1>1 DEF Grant
<1>3. TypeOK /\ SweptLeases \in [Leases -> LeaseRecord]
  BY SweptType DEF BudgetInv, TypeInv
<1>4. lease'[m] = L[m]
  BY <1>2, <1>3, RoomType
<1>5. L[m].request = SweptLeases[m].request
  BY <1>2, <1>3, RoomForLeaseMove DEF LeaseMove
<1>6. SweptLeases[m].request = lease[m].request
  BY <1>3, SweptAccount DEF SweptLeases, SameAccount
<1> QED
  BY <1>4, <1>5, <1>6, OpenedAccount

LEMMA IssuedIsLive ==
  ASSUME BudgetInv, [Next]_vars, NEW l \in Leases, GrantOf(l)
  PROVE  Standing(lease[l]) = "unissued" /\ Standing(lease'[l]) = "live"
<1>1. PICK c \in Conns, q \in Requests, scopes \in ScopeChoices, ttl \in GrantTTLs :
        Grant(c, q, l, scopes, ttl)
  BY DEF GrantOf
<1>2. lease'[l] = NewLease(q, request[q].session, instanceOf[c], scopes, ttl)
  BY <1>1, SweptType, RoomType DEF Grant, BudgetInv, TypeInv
<1>3. q # None
  BY PoolsAssumption
<1> QED
  BY <1>1, <1>2, <1>3 DEF Grant, Standing, Live, NewLease

\* The mapped state.
standingMap == [l \in Leases |-> Standing(lease[l])]
underMap == [k \in Commands |-> command[k].lease]
outcomeMap == [k \in Commands |-> Outcome(k)]

LEMMA EndingIsLive == Ending \in SUBSET Authority!LiveLeases
BY DEF Ending, Authority!LiveLeases

LEMMA OverEnding ==
  ASSUME BudgetInv, [Next]_vars, \A l \in Leases : ~GrantOf(l)
  PROVE  standingMap' = Authority!Over(Ending)
<1>1. \A l \in Leases : Standing(lease'[l]) = IF l \in Ending THEN "over" ELSE Standing(lease[l])
  BY StandingStep
<1> QED
  BY <1>1 DEF standingMap, Authority!Over

\* Each step of the broker is one of LeaseAuthority's, or none.
LEMMA AuthorityMoves ==
  ASSUME BudgetInv, [Next]_vars
  PROVE  Authority!AuthorityNext \/ UNCHANGED <<standingMap, underMap, outcomeMap>>
<1> DEFINE E == Ending
<1>1. E \in SUBSET Authority!LiveLeases
  BY EndingIsLive
<1>2. TypeInv /\ TypeOK
  BY DEF BudgetInv, TypeInv
<1>3. ASSUME NEW l \in Leases, GrantOf(l)
      PROVE  Authority!Issue(l, E)
  <2>1. command' = command
    BY <1>3, OpenedAccount
  <2>2. Standing(lease[l]) = "unissued" /\ Standing(lease'[l]) = "live"
    BY <1>3, IssuedIsLive
  <2>3. \A m \in Leases \ {l} :
          Standing(lease'[m]) = IF m \in E THEN "over" ELSE Standing(lease[m])
    BY <1>3, GrantIssuesOne, StandingStep
  <2>4. standingMap' = [Authority!Over(E) EXCEPT ![l] = "live"]
    BY <2>2, <2>3 DEF standingMap, Authority!Over
  <2>5. underMap' = underMap /\ outcomeMap' = outcomeMap
    BY <2>1 DEF underMap, outcomeMap, Outcome
  <2> QED
    BY <2>2, <2>4, <2>5 DEF Authority!Issue, standingMap, underMap, outcomeMap
<1>4. ASSUME command' = command, \A l \in Leases : ~GrantOf(l)
      PROVE  Authority!End(E)
  <2>1. standingMap' = Authority!Over(E)
    BY <1>4, OverEnding
  <2>2. underMap' = underMap /\ outcomeMap' = outcomeMap
    BY <1>4 DEF underMap, outcomeMap, Outcome
  <2> QED
    BY <2>1, <2>2 DEF Authority!End, standingMap, underMap, outcomeMap
<1>5. ASSUME command' # command
      PROVE  \A l \in Leases : ~GrantOf(l)
  BY <1>5, OpenedAccount
<1>6. ASSUME NEW c \in Conns, NEW k \in Commands, NEW l \in Leases, NEW kind \in Kinds,
             Admit(c, k, l, kind)
      PROVE  Authority!Dispatch(k, l, E)
  <2>1. /\ command[k].pc = "idle" /\ command'[k].pc = "sent" /\ command'[k].lease = l
        /\ \A j \in Commands \ {k} : command'[j] = command[j]
        /\ lease[l].request # None /\ lease[l].remainingUses > 0 /\ Live(lease[l])
    BY <1>2, <1>6, AdmitEffect
  <2>2. standingMap' = Authority!Over(E)
    BY <1>5, <2>1, OverEnding
  <2>3. l \notin E
    <3>1. lease'[l] = Reserved(SweptLease(l)) /\ Live(SweptLease(l))
      BY <1>6 DEF Admit, SweptLeases, Usable
    <3>2. SweptLease(l) \in LeaseRecord
      BY <1>2, SweptAccount
    <3>3. Live(lease'[l])
      BY <3>1, <3>2 DEF Reserved, Live, LeaseRecord
    <3> QED
      BY <3>3 DEF Ending, Standing, Live
  <2>4. Authority!Uses(l) < UseLimit
    <3>1. lease[l].remainingUses = UseLimit - Cardinality(Named(l))
      BY <2>1 DEF BudgetInv, UsesAccounted, Named
    <3>2. Cardinality(Named(l)) \in Nat /\ UseLimit \in Nat
      BY CommandSets, LimitsAssumption DEF Named, BudgetInv, Positive
    <3>3. Authority!Uses(l) = Cardinality(Named(l))
      <4>1. {j \in Commands : [i \in Commands |-> command[i].lease][j] = l} = Named(l)
        BY Zenon DEF Named
      <4>2. Authority!Uses(l)
              = Cardinality({j \in Commands : [i \in Commands |-> command[i].lease][j] = l})
        BY Zenon DEF Authority!Uses, Authority!Cardinality, Cardinality
      <4> QED
        BY <4>1, <4>2
    <3> QED
      BY <2>1, <3>1, <3>2, <3>3
  <2>5. underMap' = [underMap EXCEPT ![k] = l]
    BY <2>1 DEF underMap
  <2>6. outcomeMap' = [outcomeMap EXCEPT ![k] = "running"]
    BY <2>1 DEF outcomeMap, Outcome
  <2>7. outcomeMap[k] = "idle" /\ standingMap[l] = "live"
    BY <2>1 DEF outcomeMap, Outcome, standingMap, Standing
  <2> QED
    BY <2>2, <2>3, <2>4, <2>5, <2>6, <2>7
    DEF Authority!Dispatch, standingMap, underMap, outcomeMap
<1>7. ASSUME NEW k \in Commands, CommandStep(k)
      PROVE  \/ Authority!End(E)
             \/ \E how \in {"result", "error"} : Authority!Finish(k, how, E)
  <2>1. /\ \A j \in Commands \ {k} : command'[j] = command[j]
        /\ CommandMove(command[k], command'[k], lease[command[k].lease], lease'[command[k].lease])
    BY <1>2, <1>7, CommandEffect
  <2>2. command'[k].pc # command[k].pc
    BY <2>1 DEF CommandMove, Moved
  <2>3. standingMap' = Authority!Over(E)
    BY <1>5, <2>2, OverEnding
  <2>4. underMap' = underMap
    BY <2>1 DEF underMap, CommandMove, Moved
  <2>5. CASE command'[k].pc \in {"auditing", "denying"}
    <3>1. outcomeMap' = outcomeMap
      BY <2>1, <2>5 DEF outcomeMap, Outcome, CommandMove, Moved
    <3> QED
      BY <2>3, <2>4, <3>1 DEF Authority!End, standingMap, underMap, outcomeMap
  <2>6. CASE command'[k].pc \in {"result", "error"}
    <3>1. outcomeMap[k] = "running"
      BY <2>1, <2>6 DEF outcomeMap, Outcome, CommandMove, Moved
    <3>2. outcomeMap' = [outcomeMap EXCEPT ![k] = command'[k].pc]
      BY <2>1, <2>6 DEF outcomeMap, Outcome
    <3> QED
      BY <2>3, <2>4, <2>6, <3>1, <3>2 DEF Authority!Finish, standingMap, underMap, outcomeMap
  <2> QED
    BY <2>1, <2>5, <2>6 DEF CommandMove, Moved
<1>8. CASE command' = command
  <2>1. CASE \E l \in Leases : GrantOf(l)
    BY <1>1, <1>3, <2>1 DEF Authority!AuthorityNext
  <2>2. CASE \A l \in Leases : ~GrantOf(l)
    BY <1>1, <1>4, <1>8, <2>2 DEF Authority!AuthorityNext
  <2> QED
    BY <2>1, <2>2
<1>9. CASE command' # command
  <2>1. SomeAdmit \/ \E k \in Commands : CommandStep(k)
    BY <1>9, CommandShape
  <2>2. CASE SomeAdmit
    <3>1. PICK c \in Conns, k \in Commands, l \in Leases, kind \in Kinds : Admit(c, k, l, kind)
      BY <2>2 DEF SomeAdmit
    <3>2. Authority!Dispatch(k, l, E)
      BY <1>6, <3>1
    <3> HIDE DEF E
    <3> QED
      BY <1>1, <3>2 DEF Authority!AuthorityNext, Authority!Dispatch
  <2>3. CASE \E k \in Commands : CommandStep(k)
    BY <1>1, <1>7, <2>3 DEF Authority!AuthorityNext
  <2> QED
    BY <2>1, <2>2, <2>3
<1> QED
  BY <1>8, <1>9

LEMMA AuthorityOpens == Init => Authority!AuthorityInit
BY DEF Init, Authority!AuthorityInit, NoLease, NoCommand, Standing, Outcome

\* The broker implements LeaseAuthority, for every number of connections, leases and calls
\* and every limit: a lease is issued once and never lives again, a call is dispatched
\* under a live lease with a use left, and returns at most once.
THEOREM BrokerImplements == Spec => ImplementsAuthority
<1>1. BudgetInv /\ [Next]_vars => [Authority!AuthorityNext]_(Authority!authority)
  BY AuthorityMoves DEF Authority!authority, standingMap, underMap, outcomeMap
<1> QED
  BY <1>1, AuthorityOpens, BudgetInvariant, PTL DEF Spec, ImplementsAuthority, Authority!AuthoritySpec

=============================================================================
