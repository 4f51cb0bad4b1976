------------------------- MODULE BrokerRecordProofs -------------------------
(* The Maps of the broker, for every number of sockets, records and calls and every  *)
(* limit: they stay within their limits, records leave them only when they are over,  *)
(* and the rate windows count every request made in them.                             *)
EXTENDS BrokerStateProofs, FiniteSetTheorems

-----------------------------------------------------------------------------
(* What a step may do to the record of a request, whoever it belongs to *)

\* From q to p: its owner and lifetime stay, it does not come back into the Map or
\* become pending, once out of the Map its status stays, and its id stays used.
Kept(q, p) ==
  /\ p.session = q.session /\ p.expiresAt = q.expiresAt
  /\ p.stored => q.stored
  /\ Pending(p) => Pending(q)
  /\ ~q.stored => p.status = q.status
  /\ p.status = "unused" => q.status = "unused"

LEMMA KeptTransitive ==
  ASSUME NEW q, NEW p, NEW s, Kept(q, p), Kept(p, s)
  PROVE  Kept(q, s)
BY DEF Kept

LEMMA KeptClosed ==
  ASSUME NEW q \in RequestRecord, NEW x, NEW why
  PROVE  /\ Kept(q, ClosedWith(q, x, why))
         /\ ClosedWith(q, x, why).stored = q.stored
BY DEF Kept, ClosedWith, Pending, RequestRecord

LEMMA KeptDropped ==
  ASSUME NEW q \in RequestRecord
  PROVE  Kept(q, Dropped(q))
BY DEF Kept, Dropped, Pending, RequestRecord

\* maintainState() keeps every record, and drops those that have been over long enough.
LEMMA SweptKept ==
  ASSUME TypeOK, NEW r \in Requests
  PROVE  /\ Kept(request[r], SweptRequest(r)) /\ SweptRequest(r) \in RequestRecord
         /\ request[r].stored /\ ~SweptRequest(r).stored =>
              SweptRequest(r).status # "pending" /\ Stale(SweptRequest(r).terminalAt)
<1> DEFINE q == request[r]
           p == ExpiredRequest(q)
<1>1. q \in RequestRecord /\ now \in Positive
  BY DEF TypeOK
<1>2. Kept(q, p) /\ p.stored = q.stored /\ p \in RequestRecord
  <2>1. CASE q.lease = None
    <3>1. p = PendingExpired(q)
      BY <2>1 DEF ExpiredRequest
    <3> QED
      BY <1>1, <3>1 DEF PendingExpired, Kept, Pending, RequestRecord, RequestStatus, Positive
  <2>2. CASE q.lease # None
    BY <1>1, <2>2, KeptClosed, ClosedWithType DEF ExpiredRequest
  <2> QED
    BY <2>1, <2>2
<1>3. SweptRequest(r) \in RequestRecord
  BY SweptType DEF SweptRequests
<1>4. CASE PrunableRequest(p)
  <2>1. SweptRequest(r) = Dropped(p) /\ p.status # "pending" /\ Stale(p.terminalAt)
    BY <1>4 DEF SweptRequest, PrunableRequest
  <2>2. Dropped(p).status = p.status /\ Dropped(p).terminalAt = p.terminalAt
    BY <1>2 DEF Dropped, RequestRecord
  <2> QED
    BY <1>2, <1>3, <2>1, <2>2, KeptDropped, KeptTransitive
<1>5. CASE ~PrunableRequest(p)
  BY <1>2, <1>3, <1>5 DEF SweptRequest
<1> QED
  BY <1>4, <1>5

\* Where the record of a request comes from when no call makes the request: the sweep,
\* the closing of its lease, its own end.  `Left' says why it is no longer in the Map.
Left(q, p) == q.stored /\ ~p.stored => p.status # "pending" /\ Stale(p.terminalAt)

LEMMA KeptSteps ==
  ASSUME TypeInv, [Next]_vars, NEW r \in Requests, ~SomeRequest
  PROVE  Kept(request[r], request'[r]) /\ Left(request[r], request'[r])
<1> DEFINE Goal == Kept(request[r], request'[r]) /\ Left(request[r], request'[r])
<1>1. TypeOK /\ Addressed /\ now \in Positive /\ request[r] \in RequestRecord
  BY DEF TypeInv, TypeOK
<1>2. Kept(request[r], request[r])
  BY DEF Kept
<1>3. /\ SweptRequests[r] = SweptRequest(r) /\ SweptRequest(r) \in RequestRecord
      /\ Kept(request[r], SweptRequest(r)) /\ Left(request[r], SweptRequest(r))
  BY <1>1, SweptKept DEF SweptRequests, Left
<1>4. \A x, why : /\ Kept(request[r], ClosedWith(request[r], x, why))
                  /\ Left(request[r], ClosedWith(request[r], x, why))
  BY <1>1, KeptClosed DEF Left
<1>5. \A x, why : /\ Kept(request[r], ClosedWith(SweptRequest(r), x, why))
                  /\ Left(request[r], ClosedWith(SweptRequest(r), x, why))
  <2> SUFFICES ASSUME NEW x, NEW why
               PROVE  /\ Kept(request[r], ClosedWith(SweptRequest(r), x, why))
                      /\ Left(request[r], ClosedWith(SweptRequest(r), x, why))
    OBVIOUS
  <2>1. /\ Kept(SweptRequest(r), ClosedWith(SweptRequest(r), x, why))
        /\ ClosedWith(SweptRequest(r), x, why).stored = SweptRequest(r).stored
    BY <1>3, KeptClosed
  <2>2. ~SweptRequest(r).stored => ClosedWith(SweptRequest(r), x, why) = SweptRequest(r)
    BY DEF ClosedWith
  <2> QED
    BY <1>3, <2>1, <2>2, KeptTransitive DEF Left
<1>6. CASE UNCHANGED <<request, lease>> \/ UNCHANGED vars
  BY <1>2, <1>6 DEF vars, Left
<1>7. CASE JustSweep \/ SomeAdmit
  BY <1>3, <1>7 DEF JustSweep, SomeAdmit, Admit
<1>8. ASSUME NEW q \in RequestRecord, Pending(SweptRequest(r)),
             q.stored = SweptRequest(r).stored, q.status \notin {"unused", "pending"},
             q.session = SweptRequest(r).session, q.expiresAt = SweptRequest(r).expiresAt
      PROVE  Kept(request[r], q) /\ Left(request[r], q)
  <2>1. Kept(SweptRequest(r), q)
    BY <1>8 DEF Kept, Pending
  <2> QED
    BY <1>3, <1>8, <2>1, KeptTransitive DEF Left, Pending
<1>9. CASE SomeDeny
  <2>1. PICK c \in Conns, t \in Requests : Deny(c, t)
    BY <1>9 DEF SomeDeny
  <2>2. CASE t # r
    BY <1>3, <2>1, <2>2 DEF Deny, SweptRequests
  <2>3. CASE t = r
    <3>1. Pending(SweptRequest(r))
      BY <2>1, <2>3 DEF Deny
    <3>2. request'[r] = [SweptRequest(r) EXCEPT !.status = "denied", !.terminalAt = now]
      BY <2>1, <2>3 DEF Deny, SweptRequests
    <3>3. /\ request'[r] \in RequestRecord /\ request'[r].status = "denied"
          /\ request'[r].stored = SweptRequest(r).stored
          /\ request'[r].session = SweptRequest(r).session
          /\ request'[r].expiresAt = SweptRequest(r).expiresAt
      BY <1>1, <1>3, <3>2 DEF RequestRecord, RequestStatus, Positive
    <3> QED
      BY <1>8, <3>1, <3>3
  <2> QED
    BY <2>2, <2>3
<1>10. CASE SomeGrant
  <2>1. PICK c \in Conns, t \in Requests, m \in Leases, scopes \in ScopeChoices,
             ttl \in GrantTTLs : Grant(c, t, m, scopes, ttl)
    BY <1>10 DEF SomeGrant
  <2>2. CASE t # r
    BY <1>3, <2>1, <2>2 DEF Grant, SweptRequests
  <2>3. CASE t = r
    <3>1. Pending(SweptRequest(r))
      BY <2>1, <2>3 DEF Grant
    <3>2. request'[r] = [SweptRequest(r) EXCEPT !.status = "granted", !.terminalAt = now,
                                                !.lease = m]
      BY <2>1, <2>3 DEF Grant, SweptRequests
    <3>3. /\ request'[r] \in RequestRecord /\ request'[r].status = "granted"
          /\ request'[r].stored = SweptRequest(r).stored
          /\ request'[r].session = SweptRequest(r).session
          /\ request'[r].expiresAt = SweptRequest(r).expiresAt
      BY <1>1, <1>3, <3>2 DEF RequestRecord, RequestStatus, Positive
    <3> QED
      BY <1>8, <3>1, <3>3
  <2> QED
    BY <2>2, <2>3
<1>11. CASE RevokeAfterSweep
  <2>1. PICK l \in Leases, why \in Reasons : RevokeInCall(l, why)
    BY <1>11 DEF RevokeAfterSweep
  <2> QED
    BY <1>3, <1>5, <2>1 DEF RevokeInCall, SweptRequests
<1>12. CASE TouchAndRevoke
  <2>1. PICK l \in Leases, x \in LeaseRecord, why \in Reasons \cup {None} : RevokeLease(l, x, why)
    BY <1>12 DEF TouchAndRevoke
  <2>2. request'[r] = request[r] \/ request'[r] = ClosedWith(request[r], x, why)
    BY <1>1, <2>1 DEF RevokeLease, TypeOK
  <2> QED
    BY <1>2, <1>4, <2>2 DEF Left
<1>13. CASE SomeEnd
  <2>1. PICK c \in Conns : Disconnected(c)
    BY <1>13 DEF SomeEnd
  <2>2. request'[r] = DisconnectedRequest(c, request[r])
    BY <2>1 DEF Disconnected
  <2>3. CASE DropsPending(c, request[r])
    <3>1. request'[r] = [request[r] EXCEPT !.status = "revoked", !.terminalAt = now]
      BY <2>2, <2>3 DEF DisconnectedRequest
    <3> QED
      BY <1>1, <2>3, <3>1 DEF DropsPending, Kept, Left, Pending, RequestRecord
  <2>4. CASE ~DropsPending(c, request[r])
    BY <1>2, <1>4, <2>2, <2>4 DEF DisconnectedRequest, Left
  <2> QED
    BY <2>3, <2>4
<1> QED
  BY <1>1, <1>6, <1>7, <1>9, <1>10, <1>11, <1>12, <1>13, StepShape

-----------------------------------------------------------------------------
(* Counting records *)

\* A finite set that gains at most one element.
LEMMA OneMore ==
  ASSUME NEW S, IsFiniteSet(S), NEW x, NEW T, T \subseteq S \cup {x}
  PROVE  Cardinality(T) \in Nat /\ Cardinality(T) <= Cardinality(S) + 1
<1>1. Cardinality(S) \in Nat
  BY FS_CardinalityType
<1>2. IsFiniteSet(S \cup {x}) /\ Cardinality(S \cup {x}) <= Cardinality(S) + 1
  <2>1. CASE x \in S
    <3>1. S \cup {x} = S
      BY <2>1
    <3> QED
      BY <1>1, <3>1
  <2>2. CASE x \notin S
    <3>1. IsFiniteSet(S \cup {x}) /\ Cardinality(S \cup {x}) = Cardinality(S) + 1
      BY <2>2, FS_AddElement
    <3> QED
      BY <1>1, <3>1
  <2> QED
    BY <2>1, <2>2
<1>3. Cardinality(T) <= Cardinality(S \cup {x}) /\ IsFiniteSet(T)
  BY <1>2, FS_Subset
<1>4. Cardinality(T) \in Nat /\ Cardinality(S \cup {x}) \in Nat
  BY <1>2, <1>3, FS_CardinalityType
<1> QED
  BY <1>1, <1>2, <1>3, <1>4

LEMMA NoMore ==
  ASSUME NEW S, IsFiniteSet(S), NEW T, T \subseteq S
  PROVE  Cardinality(T) \in Nat /\ Cardinality(S) \in Nat /\ Cardinality(T) <= Cardinality(S)
BY FS_Subset, FS_CardinalityType

LEMMA RecordSets ==
  /\ \A R : IsFiniteSet(StoredRequests(R)) /\ IsFiniteSet(PendingIn(R))
  /\ \A L : IsFiniteSet(StoredLeases(L))
  /\ \A S : S \subseteq Requests => IsFiniteSet(S)
BY PoolsAssumption, FS_Subset DEF StoredRequests, PendingIn, StoredLeases

\* ensureAccessRequestCapacity leaves room for one record, and what it dropped was over
\* longest.
LEMMA RoomLeft ==
  ASSUME NEW R \in [Requests -> RequestRecord], NEW S \in RoomForRequest(R)
  PROVE  /\ StoredRequests(S) \subseteq StoredRequests(R)
         /\ Cardinality(StoredRequests(R)) <= RequestRecordLimit =>
              Cardinality(StoredRequests(S)) + 1 <= RequestRecordLimit
         /\ \A r \in Requests : R[r].stored /\ ~S[r].stored =>
              /\ S[r].status # "pending" /\ Cardinality(StoredRequests(R)) >= RequestRecordLimit
              /\ S[r].status = R[r].status /\ S[r].terminalAt = R[r].terminalAt
              /\ \A q \in StoredRequests(S) :
                   S[q].status = "pending" \/ S[r].terminalAt <= S[q].terminalAt
<1> DEFINE n == Cardinality(StoredRequests(R))
           terminal == {r \in StoredRequests(R) : R[r].status # "pending"}
<1>1. n \in Nat /\ RequestRecordLimit \in Nat
  BY RecordSets, FS_CardinalityType, LimitsAssumption DEF Positive
<1>2. CASE n < RequestRecordLimit
  <2>1. S = R
    BY <1>2 DEF RoomForRequest
  <2> QED
    BY <1>1, <1>2, <2>1
<1>3. CASE ~(n < RequestRecordLimit)
  <2>1. PICK t \in terminal : /\ \A q \in terminal : R[t].terminalAt <= R[q].terminalAt
                              /\ S = [R EXCEPT ![t].stored = FALSE]
    BY <1>3 DEF RoomForRequest
  <2>2. t \in Requests /\ R[t].stored /\ R[t].status # "pending"
    BY <2>1 DEF StoredRequests
  <2>3. /\ S[t].status = R[t].status /\ S[t].terminalAt = R[t].terminalAt /\ ~S[t].stored
        /\ \A r \in Requests \ {t} : S[r] = R[r]
    BY <2>1, <2>2 DEF RequestRecord
  <2>4. StoredRequests(S) = StoredRequests(R) \ {t}
    BY <2>3 DEF StoredRequests
  <2>5. Cardinality(StoredRequests(S)) = n - 1
    BY <2>1, <2>4, RecordSets, FS_RemoveElement
  <2>6. \A q \in StoredRequests(S) : S[q].status = "pending" \/ S[t].terminalAt <= S[q].terminalAt
    BY <2>1, <2>3, <2>4 DEF StoredRequests
  <2> QED
    BY <1>1, <1>3, <2>2, <2>3, <2>4, <2>5, <2>6
<1> QED
  BY <1>2, <1>3

\* ensureLeaseCapacity, in the same way.
LEMMA LeaseRoomLeft ==
  ASSUME NEW L \in [Leases -> LeaseRecord], NEW M \in RoomForLease(L)
  PROVE  /\ StoredLeases(M) \subseteq StoredLeases(L)
         /\ Cardinality(StoredLeases(L)) <= LeaseRecordLimit =>
              Cardinality(StoredLeases(M)) + 1 <= LeaseRecordLimit
         /\ \A l \in Leases : L[l].stored /\ ~M[l].stored =>
              /\ ~Live(M[l]) /\ Cardinality(StoredLeases(L)) >= LeaseRecordLimit
              /\ \A m \in StoredLeases(M) : Live(M[m]) \/ M[l].revokedAt <= M[m].revokedAt
<1> DEFINE n == Cardinality(StoredLeases(L))
           revoked == {l \in StoredLeases(L) : ~Live(L[l])}
<1>1. n \in Nat /\ LeaseRecordLimit \in Nat
  BY RecordSets, FS_CardinalityType, LimitsAssumption DEF Positive
<1>2. CASE n < LeaseRecordLimit
  <2>1. M = L
    BY <1>2 DEF RoomForLease
  <2> QED
    BY <1>1, <1>2, <2>1
<1>3. CASE ~(n < LeaseRecordLimit)
  <2>1. PICK k \in revoked : /\ \A m \in revoked : L[k].revokedAt <= L[m].revokedAt
                             /\ M = [L EXCEPT ![k].stored = FALSE]
    BY <1>3 DEF RoomForLease
  <2>2. k \in Leases /\ L[k].stored /\ ~Live(L[k])
    BY <2>1 DEF StoredLeases
  <2>3. /\ M[k].revokedAt = L[k].revokedAt /\ M[k].request = L[k].request /\ ~M[k].stored
        /\ \A l \in Leases \ {k} : M[l] = L[l]
    BY <2>1, <2>2 DEF LeaseRecord
  <2>4. StoredLeases(M) = StoredLeases(L) \ {k}
    BY <2>3 DEF StoredLeases
  <2>5. Cardinality(StoredLeases(M)) = n - 1
    BY <2>1, <2>4, RecordSets, FS_RemoveElement
  <2>6. \A m \in StoredLeases(M) : Live(M[m]) \/ M[k].revokedAt <= M[m].revokedAt
    BY <2>1, <2>3, <2>4 DEF StoredLeases
  <2> QED
    BY <1>1, <1>3, <2>2, <2>3, <2>4, <2>5, <2>6 DEF Live
<1> QED
  BY <1>2, <1>3

-----------------------------------------------------------------------------
(* The records of leases *)

\* From x to y: it does not come back into the Map, and leaves it over and stale.
Stays(x, y) ==
  /\ y.stored => x.stored
  /\ x.stored /\ ~y.stored => ~Live(y) /\ Stale(y.revokedAt)

LEMMA SweptStays ==
  ASSUME TypeOK, NEW l \in Leases
  PROVE  Stays(lease[l], SweptLease(l)) /\ SweptLease(l) \in LeaseRecord
<1> DEFINE x == ExpiredLease(lease[l])
<1>1. lease[l] \in LeaseRecord /\ now \in Positive
  BY DEF TypeOK
<1>2. x \in LeaseRecord /\ x.stored = lease[l].stored
  <2>1. x \in LeaseRecord
    BY <1>1, LapseReasonType, RevokedType DEF ExpiredLease
  <2> QED
    BY <1>1, <2>1 DEF ExpiredLease, Revoked, LeaseRecord
<1>3. SweptLease(l) \in LeaseRecord
  BY SweptType DEF SweptLeases
<1>4. CASE PrunableLease(x)
  <2>1. SweptLease(l) = Dropped(x) /\ ~Live(x) /\ Stale(x.revokedAt)
    BY <1>4 DEF SweptLease, PrunableLease
  <2>2. ~Live(Dropped(x)) /\ Dropped(x).revokedAt = x.revokedAt /\ ~Dropped(x).stored
    BY <1>2, <2>1 DEF Dropped, Live, LeaseRecord
  <2> QED
    BY <1>3, <2>1, <2>2 DEF Stays
<1>5. CASE ~PrunableLease(x)
  BY <1>2, <1>3, <1>5 DEF SweptLease, Stays
<1> QED
  BY <1>4, <1>5

LEMMA StaySteps ==
  ASSUME TypeInv, [Next]_vars, NEW l \in Leases, ~SomeGrant
  PROVE  Stays(lease[l], lease'[l])
<1>1. TypeOK /\ Addressed /\ now \in Positive /\ lease[l] \in LeaseRecord
  BY DEF TypeInv, TypeOK
<1>2. Stays(lease[l], lease[l])
  BY DEF Stays
<1>3. /\ SweptLeases[l] = SweptLease(l) /\ SweptLease(l) \in LeaseRecord
      /\ Stays(lease[l], SweptLease(l))
  BY <1>1, SweptStays DEF SweptLeases
<1>4. ASSUME NEW x \in LeaseRecord, NEW why
      PROVE  /\ Revoked(x, why).stored = x.stored
             /\ ~Live(x) => Revoked(x, why) = x
  BY <1>4 DEF Revoked, LeaseRecord
<1>5. CASE UNCHANGED <<request, lease>> \/ UNCHANGED vars
  BY <1>2, <1>5 DEF vars
<1>6. CASE JustSweep \/ SomeDeny \/ SomeRequest
  BY <1>3, <1>6 DEF JustSweep, SomeDeny, SomeRequest, Deny, RequestAccess
<1>7. CASE SomeAdmit
  <2>1. PICK c \in Conns, k \in Commands, m \in Leases, kind \in Kinds : Admit(c, k, m, kind)
    BY <1>7 DEF SomeAdmit
  <2>2. CASE m # l
    BY <1>3, <2>1, <2>2 DEF Admit, SweptLeases
  <2>3. CASE m = l
    <3>1. lease'[l] = Reserved(SweptLease(l)) /\ SweptLease(l).stored
      BY <2>1, <2>3 DEF Admit, Usable, SweptLeases
    <3>2. lease'[l].stored = SweptLease(l).stored
      BY <1>3, <3>1 DEF Reserved, LeaseRecord
    <3> QED
      BY <1>3, <3>1, <3>2 DEF Stays
  <2> QED
    BY <2>2, <2>3
<1>8. CASE RevokeAfterSweep
  <2>1. PICK m \in Leases, why \in Reasons : RevokeInCall(m, why)
    BY <1>8 DEF RevokeAfterSweep
  <2>2. lease'[l] = SweptLease(l) \/ lease'[l] = Revoked(SweptLease(l), why)
    BY <2>1 DEF RevokeInCall, SweptLeases
  <2> QED
    BY <1>3, <1>4, <2>2 DEF Stays
<1>9. CASE TouchAndRevoke
  <2>1. PICK m \in Leases, x \in LeaseRecord, why \in Reasons \cup {None} :
          Touched(lease[m], x) /\ RevokeLease(m, x, why)
    BY <1>9 DEF TouchAndRevoke
  <2>2. CASE m = l
    <3>1. lease'[l] = Revoked(x, why)
      BY <1>1, <2>1, <2>2 DEF RevokeLease, TypeOK
    <3> QED
      BY <1>4, <2>1, <2>2, <3>1 DEF Stays, Touched
  <2>3. CASE m # l
    BY <1>1, <1>2, <2>1, <2>3 DEF RevokeLease, TypeOK
  <2> QED
    BY <2>2, <2>3
<1>10. CASE SomeEnd
  <2>1. PICK c \in Conns : Disconnected(c)
    BY <1>10 DEF SomeEnd
  <2>2. lease'[l] = Revoked(lease[l], DisconnectReason(c, lease[l]))
    BY <2>1 DEF Disconnected
  <2> QED
    BY <1>1, <1>4, <2>2 DEF Stays
<1> QED
  BY <1>1, <1>5, <1>6, <1>7, <1>8, <1>9, <1>10, StepShape

-----------------------------------------------------------------------------
(* The Maps within their limits *)

RecordInv == TypeInv /\ RecordsBounded

PendingOf(c, R) == {r \in PendingIn(R) : R[r].session = c}

\* The records after a request for access: one more, from those the sweep and
\* ensureAccessRequestCapacity left.
LEMMA AccessEffect ==
  ASSUME TypeOK, NEW c \in Conns, NEW t \in Requests, NEW scopes \in ScopeChoices,
         RequestAccess(c, t, scopes)
  PROVE  /\ request'[t] = NewRequest(c, scopes)
         /\ \A r \in Requests \ {t} : Kept(request[r], request'[r])
         /\ PendingIn(request') \subseteq PendingIn(SweptRequests) \cup {t}
         /\ \E R \in RoomForRequest(SweptRequests) :
              /\ \A r \in Requests \ {t} : request'[r] = R[r]
              /\ \A r \in Requests :
                   R[r] = SweptRequest(r) \/ R[r] = Dropped(SweptRequest(r))
<1>1. PICK R \in RoomForRequest(SweptRequests) : request' = [R EXCEPT ![t] = NewRequest(c, scopes)]
  BY DEF RequestAccess
<1>2. SweptRequests \in [Requests -> RequestRecord] /\ R \in [Requests -> RequestRecord]
  BY SweptType, RoomType
<1>3. \A r \in Requests :
        \/ R[r] = SweptRequests[r]
        \/ R[r] = Dropped(SweptRequests[r]) /\ SweptRequests[r].status # "pending"
  BY <1>2, RoomForRequestMove
<1>4. \A r \in Requests : SweptRequests[r] = SweptRequest(r)
  BY DEF SweptRequests
<1>5. request'[t] = NewRequest(c, scopes) /\ \A r \in Requests \ {t} : request'[r] = R[r]
  BY <1>1, <1>2
<1>6. ASSUME NEW r \in Requests PROVE Kept(request[r], R[r]) /\ Kept(SweptRequest(r), R[r])
  <2>1. Kept(request[r], SweptRequest(r)) /\ SweptRequest(r) \in RequestRecord
    BY SweptKept
  <2>2. Kept(SweptRequest(r), R[r])
    BY <1>3, <1>4, <2>1, KeptDropped DEF Kept
  <2> QED
    BY <2>1, <2>2, KeptTransitive
<1>7. PendingIn(request') \subseteq PendingIn(SweptRequests) \cup {t}
  BY <1>4, <1>5, <1>6 DEF PendingIn, Kept
<1> QED
  BY <1>3, <1>4, <1>5, <1>6, <1>7

\* The sets of records without a request for access, or without a grant, only shrink.
LEMMA QuietRecords ==
  ASSUME TypeInv, [Next]_vars
  PROVE  /\ ~SomeRequest =>
              /\ StoredRequests(request') \subseteq StoredRequests(request)
              /\ PendingIn(request') \subseteq PendingIn(request)
              /\ \A c \in Conns : PendingOf(c, request') \subseteq PendingOf(c, request)
         /\ ~SomeGrant => StoredLeases(lease') \subseteq StoredLeases(lease)
<1>1. ~SomeRequest => \A r \in Requests : Kept(request[r], request'[r])
  BY KeptSteps
<1>2. ~SomeGrant => \A l \in Leases : Stays(lease[l], lease'[l])
  BY StaySteps
<1> QED
  BY <1>1, <1>2 DEF StoredRequests, StoredLeases, PendingIn, PendingOf, Kept, Stays

LEMMA SweptRecords ==
  ASSUME TypeOK
  PROVE  /\ StoredRequests(SweptRequests) \subseteq StoredRequests(request)
         /\ StoredLeases(SweptLeases) \subseteq StoredLeases(lease)
<1>1. \A r \in Requests : Kept(request[r], SweptRequests[r])
  BY SweptKept DEF SweptRequests
<1>2. \A l \in Leases : Stays(lease[l], SweptLeases[l])
  BY SweptStays DEF SweptLeases
<1> QED
  BY <1>1, <1>2 DEF StoredRequests, StoredLeases, Kept, Stays

LEMMA RequestsStep ==
  ASSUME RecordInv, [Next]_vars
  PROVE  /\ Cardinality(StoredRequests(request')) <= RequestRecordLimit
         /\ Cardinality(PendingIn(request')) <= PendingGlobal
         /\ \A d \in Conns : Cardinality(PendingOf(d, request')) <= PendingPerSession
<1>1. /\ Cardinality(StoredRequests(request)) <= RequestRecordLimit
      /\ Cardinality(PendingIn(request)) <= PendingGlobal
      /\ \A d \in Conns : Cardinality(PendingOf(d, request)) <= PendingPerSession
  BY DEF RecordInv, RecordsBounded, PendingOf
<1>2. /\ RequestRecordLimit \in Nat /\ PendingGlobal \in Nat /\ PendingPerSession \in Nat
      /\ IsFiniteSet(StoredRequests(request)) /\ IsFiniteSet(PendingIn(request))
      /\ \A d \in Conns : IsFiniteSet(PendingOf(d, request))
  BY LimitsAssumption, RecordSets, FS_Subset DEF Positive, PendingOf
<1>3. TypeInv /\ TypeOK
  BY DEF RecordInv, TypeInv
<1>4. CASE ~SomeRequest
  <2>1. /\ StoredRequests(request') \subseteq StoredRequests(request)
        /\ PendingIn(request') \subseteq PendingIn(request)
        /\ \A d \in Conns : PendingOf(d, request') \subseteq PendingOf(d, request)
    BY <1>3, <1>4, QuietRecords
  <2>2. /\ Cardinality(StoredRequests(request')) \in Nat
        /\ Cardinality(StoredRequests(request)) \in Nat
        /\ Cardinality(StoredRequests(request')) <= Cardinality(StoredRequests(request))
    BY <1>2, <2>1, NoMore
  <2>3. /\ Cardinality(PendingIn(request')) \in Nat /\ Cardinality(PendingIn(request)) \in Nat
        /\ Cardinality(PendingIn(request')) <= Cardinality(PendingIn(request))
    BY <1>2, <2>1, NoMore
  <2>4. ASSUME NEW d \in Conns
        PROVE  Cardinality(PendingOf(d, request')) <= PendingPerSession
    <3>1. /\ Cardinality(PendingOf(d, request')) \in Nat /\ Cardinality(PendingOf(d, request)) \in Nat
          /\ Cardinality(PendingOf(d, request')) <= Cardinality(PendingOf(d, request))
      BY <1>2, <2>1, NoMore
    <3> QED
      BY <1>1, <1>2, <3>1
  <2> QED
    BY <1>1, <1>2, <2>2, <2>3, <2>4
<1>5. CASE SomeRequest
  <2>1. PICK c \in Conns, t \in Requests, scopes \in ScopeChoices : RequestAccess(c, t, scopes)
    BY <1>5 DEF SomeRequest
  <2>2. /\ request'[t] = NewRequest(c, scopes)
        /\ \A r \in Requests \ {t} : Kept(request[r], request'[r])
        /\ PendingIn(request') \subseteq PendingIn(SweptRequests) \cup {t}
    BY <1>3, <2>1, AccessEffect
  <2>3. PICK R \in RoomForRequest(SweptRequests) : \A r \in Requests \ {t} : request'[r] = R[r]
    BY <1>3, <2>1, AccessEffect
  <2>4. Cardinality(StoredRequests(request')) <= RequestRecordLimit
    <3>1. SweptRequests \in [Requests -> RequestRecord]
      BY <1>3, SweptType
    <3>2. /\ Cardinality(StoredRequests(SweptRequests)) \in Nat
          /\ Cardinality(StoredRequests(request)) \in Nat
          /\ Cardinality(StoredRequests(SweptRequests)) <= Cardinality(StoredRequests(request))
      BY <1>2, <1>3, SweptRecords, NoMore
    <3>3. Cardinality(StoredRequests(R)) + 1 <= RequestRecordLimit
      BY <1>1, <1>2, <3>1, <3>2, RoomLeft
    <3>4. StoredRequests(request') \subseteq StoredRequests(R) \cup {t}
      BY <2>3 DEF StoredRequests
    <3>5. /\ Cardinality(StoredRequests(request')) \in Nat
          /\ Cardinality(StoredRequests(request')) <= Cardinality(StoredRequests(R)) + 1
      BY <3>4, RecordSets, OneMore
    <3>6. Cardinality(StoredRequests(R)) \in Nat
      BY RecordSets, FS_CardinalityType
    <3> QED
      BY <1>2, <3>3, <3>5, <3>6
  <2>5. /\ ~(Cardinality({r \in PendingIn(SweptRequests) : request[r].session = c})
               >= PendingPerSession)
        /\ ~(Cardinality(PendingIn(SweptRequests)) >= PendingGlobal)
    BY <2>1 DEF RequestAccess, PendingLimited
  <2>6. Cardinality(PendingIn(request')) <= PendingGlobal
    <3>1. /\ Cardinality(PendingIn(request')) \in Nat
          /\ Cardinality(PendingIn(request')) <= Cardinality(PendingIn(SweptRequests)) + 1
      BY <2>2, RecordSets, OneMore
    <3>2. Cardinality(PendingIn(SweptRequests)) \in Nat
      BY RecordSets, FS_CardinalityType
    <3> QED
      BY <1>2, <2>5, <3>1, <3>2
  <2>7. ASSUME NEW d \in Conns
        PROVE  Cardinality(PendingOf(d, request')) <= PendingPerSession
    <3>1. CASE d = c
      <4> DEFINE own == {r \in PendingIn(SweptRequests) : request[r].session = c}
      <4>1. IsFiniteSet(own)
        BY RecordSets, FS_Subset
      <4>2. PendingOf(d, request') \subseteq own \cup {t}
        BY <2>2, <3>1 DEF PendingOf, Kept, PendingIn
      <4>3. /\ Cardinality(PendingOf(d, request')) \in Nat
            /\ Cardinality(PendingOf(d, request')) <= Cardinality(own) + 1
        BY <4>1, <4>2, OneMore
      <4>4. Cardinality(own) \in Nat /\ ~(Cardinality(own) >= PendingPerSession)
        BY <2>5, <4>1, FS_CardinalityType
      <4> QED
        BY <1>2, <4>3, <4>4
    <3>2. CASE d # c
      <4>1. request'[t].session = c
        BY <2>2 DEF NewRequest
      <4>2. PendingOf(d, request') \subseteq PendingOf(d, request)
        BY <2>2, <3>2, <4>1 DEF PendingOf, PendingIn, Kept
      <4>3. /\ Cardinality(PendingOf(d, request')) \in Nat
            /\ Cardinality(PendingOf(d, request)) \in Nat
            /\ Cardinality(PendingOf(d, request')) <= Cardinality(PendingOf(d, request))
        BY <1>2, <4>2, NoMore
      <4> QED
        BY <1>1, <1>2, <4>3
    <3> QED
      BY <3>1, <3>2
  <2> QED
    BY <2>4, <2>6, <2>7
<1> QED
  BY <1>4, <1>5

LEMMA LeasesStep ==
  ASSUME RecordInv, [Next]_vars
  PROVE  Cardinality(StoredLeases(lease')) <= LeaseRecordLimit
<1>1. /\ Cardinality(StoredLeases(lease)) <= LeaseRecordLimit /\ LeaseRecordLimit \in Nat
      /\ IsFiniteSet(StoredLeases(lease)) /\ TypeInv /\ TypeOK
  BY LimitsAssumption, RecordSets DEF RecordInv, RecordsBounded, TypeInv, Positive
<1>2. CASE ~SomeGrant
  <2>1. StoredLeases(lease') \subseteq StoredLeases(lease)
    BY <1>1, <1>2, QuietRecords
  <2>2. /\ Cardinality(StoredLeases(lease')) \in Nat /\ Cardinality(StoredLeases(lease)) \in Nat
        /\ Cardinality(StoredLeases(lease')) <= Cardinality(StoredLeases(lease))
    BY <1>1, <2>1, NoMore
  <2> QED
    BY <1>1, <2>2
<1>3. CASE SomeGrant
  <2>1. PICK c \in Conns, q \in Requests, l \in Leases, scopes \in ScopeChoices,
             ttl \in GrantTTLs : Grant(c, q, l, scopes, ttl)
    BY <1>3 DEF SomeGrant
  <2>2. PICK L \in RoomForLease(SweptLeases) :
          lease' = [L EXCEPT ![l] = NewLease(q, request[q].session, instanceOf[c], scopes, ttl)]
    BY <2>1 DEF Grant
  <2>3. SweptLeases \in [Leases -> LeaseRecord] /\ L \in [Leases -> LeaseRecord]
    BY <1>1, <2>2, SweptType, RoomType
  <2>4. /\ Cardinality(StoredLeases(SweptLeases)) \in Nat
        /\ Cardinality(StoredLeases(lease)) \in Nat
        /\ Cardinality(StoredLeases(SweptLeases)) <= Cardinality(StoredLeases(lease))
    BY <1>1, SweptRecords, NoMore
  <2>5. Cardinality(StoredLeases(L)) + 1 <= LeaseRecordLimit
    BY <1>1, <2>2, <2>3, <2>4, LeaseRoomLeft
  <2>6. StoredLeases(lease') \subseteq StoredLeases(L) \cup {l}
    BY <2>2, <2>3 DEF StoredLeases
  <2>7. /\ Cardinality(StoredLeases(lease')) \in Nat
        /\ Cardinality(StoredLeases(lease')) <= Cardinality(StoredLeases(L)) + 1
    BY <2>6, RecordSets, OneMore
  <2>8. Cardinality(StoredLeases(L)) \in Nat
    BY RecordSets, FS_CardinalityType
  <2> QED
    BY <1>1, <2>5, <2>7, <2>8
<1> QED
  BY <1>2, <1>3

LEMMA RecordInit == Init => RecordInv
<1> SUFFICES ASSUME Init PROVE RecordInv
  OBVIOUS
<1>1. TypeInv
  BY TypeInit DEF Init, TypeInv, Placed, Addressed, NoLease, NoCommand
<1>2. /\ StoredRequests(request) = {} /\ StoredLeases(lease) = {} /\ PendingIn(request) = {}
      /\ \A c \in Conns : {r \in PendingIn(request) : request[r].session = c} = {}
  BY DEF Init, StoredRequests, StoredLeases, PendingIn, Pending, NoRequest, NoLease
<1> QED
  BY <1>1, <1>2, FS_EmptySet, LimitsAssumption DEF RecordInv, RecordsBounded, Positive

LEMMA RecordStep == RecordInv /\ [Next]_vars => RecordInv'
<1> SUFFICES ASSUME RecordInv, [Next]_vars PROVE RecordInv'
  OBVIOUS
<1>1. TypeInv'
  BY TypeStep, PlacedStep, AddressedStep DEF RecordInv, TypeInv
<1>2. RecordsBounded'
  BY RequestsStep, LeasesStep DEF RecordsBounded, PendingOf
<1> QED
  BY <1>1, <1>2 DEF RecordInv

\* The Maps of requests and leases stay within ACCESS_REQUEST_RECORD_LIMIT and
\* LEASE_RECORD_LIMIT, and the pending requests within the limits of each session and of
\* the broker, whatever is asked, granted, ended, pruned and evicted.
THEOREM RecordsStayBounded == Spec => []RecordsBounded
<1>1. RecordInv => RecordsBounded
  BY DEF RecordInv
<1> QED
  BY <1>1, RecordInit, RecordStep, PTL DEF Spec

-----------------------------------------------------------------------------
(* What leaves the Maps *)

\* An id that was never used is not in the Map.
Unmade == \A r \in Requests : request[r].status = "unused" => ~request[r].stored

LEMMA UnmadeStep ==
  ASSUME TypeInv, [Next]_vars, Unmade
  PROVE  Unmade'
<1>1. ASSUME NEW r \in Requests, Kept(request[r], request'[r])
      PROVE  request'[r].status = "unused" => ~request'[r].stored
  BY <1>1 DEF Unmade, Kept
<1>2. CASE ~SomeRequest
  BY <1>1, <1>2, KeptSteps DEF Unmade
<1>3. CASE SomeRequest
  <2>1. PICK c \in Conns, t \in Requests, scopes \in ScopeChoices : RequestAccess(c, t, scopes)
    BY <1>3 DEF SomeRequest
  <2>2. /\ request'[t] = NewRequest(c, scopes)
        /\ \A r \in Requests \ {t} : Kept(request[r], request'[r])
    BY <2>1, AccessEffect DEF TypeInv
  <2> QED
    BY <1>1, <2>2 DEF Unmade, NewRequest
<1> QED
  BY <1>2, <1>3

\* A request leaves the Map in the sweep or by ensureAccessRequestCapacity.
LEMMA RequestLeaves ==
  ASSUME RecordInv, Unmade, [Next]_vars, NEW r \in Requests,
         request[r].stored, ~request'[r].stored
  PROVE  /\ request'[r].status # "pending"
         /\ \/ Stale(request'[r].terminalAt)
            \/ /\ Cardinality(StoredRequests(request)) = RequestRecordLimit
               /\ \A q \in StoredRequests(request') :
                    request'[q].status = "pending"
                      \/ request'[r].terminalAt <= request'[q].terminalAt
<1>1. TypeInv /\ TypeOK /\ Cardinality(StoredRequests(request)) <= RequestRecordLimit
  BY DEF RecordInv, RecordsBounded, TypeInv
<1>2. CASE ~SomeRequest
  BY <1>1, <1>2, KeptSteps DEF Left
<1>3. CASE SomeRequest
  <2>1. PICK c \in Conns, t \in Requests, scopes \in ScopeChoices : RequestAccess(c, t, scopes)
    BY <1>3 DEF SomeRequest
  <2>2. t # r /\ request'[t] = NewRequest(c, scopes)
    BY <1>1, <2>1, AccessEffect DEF RequestAccess, Unmade
  <2>3. PICK R \in RoomForRequest(SweptRequests) :
          /\ \A q \in Requests \ {t} : request'[q] = R[q]
          /\ \A q \in Requests : R[q] = SweptRequest(q) \/ R[q] = Dropped(SweptRequest(q))
    BY <1>1, <2>1, AccessEffect
  <2>4. request'[r] = R[r]
    BY <2>2, <2>3
  <2>5. /\ Left(request[r], SweptRequest(r)) /\ SweptRequest(r) \in RequestRecord
        /\ SweptRequests[r] = SweptRequest(r) /\ SweptRequests \in [Requests -> RequestRecord]
    BY <1>1, SweptKept, SweptType DEF SweptRequests, Left
  <2>6. CASE ~SweptRequest(r).stored
    <3>1. R[r].status = SweptRequest(r).status /\ R[r].terminalAt = SweptRequest(r).terminalAt
      BY <2>3, <2>5 DEF Dropped, RequestRecord
    <3> QED
      BY <2>4, <2>5, <2>6, <3>1 DEF Left
  <2>7. CASE SweptRequest(r).stored
    <3>1. /\ R[r].status # "pending"
          /\ Cardinality(StoredRequests(SweptRequests)) >= RequestRecordLimit
          /\ \A q \in StoredRequests(R) :
               R[q].status = "pending" \/ R[r].terminalAt <= R[q].terminalAt
      BY <2>4, <2>5, <2>7, RoomLeft
    <3>2. /\ Cardinality(StoredRequests(SweptRequests)) \in Nat
          /\ Cardinality(StoredRequests(request)) \in Nat
          /\ Cardinality(StoredRequests(SweptRequests)) <= Cardinality(StoredRequests(request))
      BY <1>1, RecordSets, SweptRecords, NoMore
    <3>3. Cardinality(StoredRequests(request)) = RequestRecordLimit
      BY <1>1, <3>1, <3>2, LimitsAssumption DEF Positive
    <3>4. ASSUME NEW q \in StoredRequests(request'), request'[q].status # "pending"
          PROVE  request'[r].terminalAt <= request'[q].terminalAt
      <4>1. q \in Requests \ {t}
        BY <2>2, <3>4 DEF StoredRequests, NewRequest
      <4>2. request'[q] = R[q] /\ q \in StoredRequests(R)
        BY <2>3, <4>1 DEF StoredRequests
      <4> QED
        BY <2>4, <3>1, <3>4, <4>2
    <3> QED
      BY <2>4, <3>1, <3>3, <3>4
  <2> QED
    BY <2>6, <2>7
<1> QED
  BY <1>2, <1>3

\* And a lease in the sweep or by ensureLeaseCapacity.
LEMMA LeaseLeaves ==
  ASSUME RecordInv, [Next]_vars, NEW l \in Leases, lease[l].stored, ~lease'[l].stored
  PROVE  /\ ~Live(lease'[l])
         /\ \/ Stale(lease'[l].revokedAt)
            \/ /\ Cardinality(StoredLeases(lease)) = LeaseRecordLimit
               /\ \A m \in StoredLeases(lease') :
                    Live(lease'[m]) \/ lease'[l].revokedAt <= lease'[m].revokedAt
<1>1. TypeInv /\ TypeOK /\ Cardinality(StoredLeases(lease)) <= LeaseRecordLimit
  BY DEF RecordInv, RecordsBounded, TypeInv
<1>2. CASE ~SomeGrant
  BY <1>1, <1>2, StaySteps DEF Stays
<1>3. CASE SomeGrant
  <2>1. PICK c \in Conns, t \in Requests, n \in Leases, scopes \in ScopeChoices,
             ttl \in GrantTTLs : Grant(c, t, n, scopes, ttl)
    BY <1>3 DEF SomeGrant
  <2>2. PICK L \in RoomForLease(SweptLeases) :
          lease' = [L EXCEPT ![n] = NewLease(t, request[t].session, instanceOf[c], scopes, ttl)]
    BY <2>1 DEF Grant
  <2>3. SweptLeases \in [Leases -> LeaseRecord] /\ L \in [Leases -> LeaseRecord]
    BY <1>1, <2>2, SweptType, RoomType
  <2>4. /\ lease'[n] = NewLease(t, request[t].session, instanceOf[c], scopes, ttl)
        /\ \A m \in Leases \ {n} : lease'[m] = L[m]
    BY <2>2, <2>3
  <2>5. lease'[n].stored /\ Live(lease'[n])
    BY <2>4, PoolsAssumption DEF NewLease, Live
  <2>6. n # l /\ lease'[l] = L[l]
    BY <2>4, <2>5
  <2>7. Stays(lease[l], SweptLease(l)) /\ SweptLeases[l] = SweptLease(l)
    BY <1>1, SweptStays DEF SweptLeases
  <2>8. CASE ~SweptLease(l).stored
    <3>1. L[l] = SweptLease(l) \/ L[l] = Dropped(SweptLease(l))
      BY <2>2, <2>3, <2>7, RoomForLeaseMove
    <3>2. SweptLease(l) \in LeaseRecord
      BY <2>3, <2>7
    <3>3. L[l].revokedAt = SweptLease(l).revokedAt /\ L[l].request = SweptLease(l).request
      BY <3>1, <3>2 DEF Dropped, LeaseRecord
    <3> QED
      BY <2>6, <2>7, <2>8, <3>3 DEF Stays, Live
  <2>9. CASE SweptLease(l).stored
    <3>1. /\ ~Live(L[l]) /\ Cardinality(StoredLeases(SweptLeases)) >= LeaseRecordLimit
          /\ \A m \in StoredLeases(L) : Live(L[m]) \/ L[l].revokedAt <= L[m].revokedAt
      BY <2>2, <2>3, <2>6, <2>7, <2>9, LeaseRoomLeft
    <3>2. /\ Cardinality(StoredLeases(SweptLeases)) \in Nat
          /\ Cardinality(StoredLeases(lease)) \in Nat
          /\ Cardinality(StoredLeases(SweptLeases)) <= Cardinality(StoredLeases(lease))
      BY <1>1, RecordSets, SweptRecords, NoMore
    <3>3. Cardinality(StoredLeases(lease)) = LeaseRecordLimit
      BY <1>1, <3>1, <3>2, LimitsAssumption DEF Positive
    <3>4. ASSUME NEW m \in StoredLeases(lease'), ~Live(lease'[m])
          PROVE  lease'[l].revokedAt <= lease'[m].revokedAt
      <4>1. m \in Leases \ {n}
        BY <2>5, <3>4 DEF StoredLeases
      <4>2. lease'[m] = L[m] /\ m \in StoredLeases(L)
        BY <2>4, <4>1 DEF StoredLeases
      <4> QED
        BY <2>6, <3>1, <3>4, <4>2
    <3> QED
      BY <2>6, <3>1, <3>3, <3>4
  <2> QED
    BY <2>8, <2>9
<1> QED
  BY <1>2, <1>3

\* A record leaves its Map only when it is over, and then only because it has been over
\* for TERMINAL_RECORD_RETENTION_MS or because the Map is full and it was over longest.
THEOREM RecordsLeaveOver == Spec => RecordsRetained
<1>1. Init => RecordInv /\ Unmade
  BY RecordInit DEF Init, Unmade, NoRequest
<1>2. RecordInv /\ Unmade /\ [Next]_vars => (RecordInv /\ Unmade)'
  BY RecordStep, UnmadeStep DEF RecordInv
<1>3. RecordInv /\ Unmade /\ [Next]_vars => RecordLeaves
  BY RequestLeaves, LeaseLeaves DEF RecordLeaves
<1>4. RecordInv /\ Unmade /\ [Next]_vars => [RecordLeaves]_vars
  BY <1>3
<1> QED
  BY <1>1, <1>2, <1>4, PTL DEF Spec, RecordsRetained

-----------------------------------------------------------------------------
(* Rate windows.  A window fits the requests S made at the times `at' when all of them *)
(* were made before it ends, and it counts those that were made since it started.      *)

Since(S, at, t) == {r \in S : at[r] >= t}

Fits(w, S, at, limit) ==
  /\ w.startedAt <= now /\ w.count <= limit
  /\ \A r \in S : w.startedAt # 0 /\ at[r] < w.startedAt + RateWindow
  /\ Cardinality(Since(S, at, w.startedAt)) <= w.count

MadeAt == [r \in Requests |-> CreatedAt(request[r])]
Made == {r \in Requests : request[r].status # "unused"}
MadeBy(c) == {r \in Made : request[r].session = c}

WindowsFit ==
  /\ Fits(globalWindow, Made, MadeAt, RequestsGlobal)
  /\ \A c \in Conns : Fits(sessionWindow[c], MadeBy(c), MadeAt, RequestsPerSession)

\* The window runs at this moment.
Running(w) == w.startedAt # 0 /\ w.startedAt <= now /\ now < w.startedAt + RateWindow

\* resetWindowIfNeeded starts the window again only when it counts nothing that a later
\* window would have to count.
LEMMA ResetFits ==
  ASSUME TypeOK, NEW w \in Window, NEW S \in SUBSET Requests, NEW at \in [Requests -> Int],
         NEW limit \in Nat, Fits(w, S, at, limit)
  PROVE  /\ ResetIfNeeded(w) \in Window /\ Running(ResetIfNeeded(w))
         /\ Fits(ResetIfNeeded(w), S, at, limit)
<1>1. now \in Nat /\ now > 0 /\ RateWindow \in Nat /\ RateWindow > 0
      /\ w.startedAt \in Nat /\ w.count \in Nat
  BY LimitsAssumption DEF TypeOK, Positive, Window
<1> DEFINE over == w.startedAt = 0 \/ now < w.startedAt \/ now - w.startedAt >= RateWindow
<1>2. CASE ~over
  BY <1>1, <1>2 DEF ResetIfNeeded, Running, Fits
<1>3. CASE over
  <2> DEFINE v == [startedAt |-> now, count |-> 0]
  <2>1. ResetIfNeeded(w) = v
    BY <1>3 DEF ResetIfNeeded
  <2>2. \A r \in S : w.startedAt # 0 /\ at[r] < now
    BY <1>1, <1>3 DEF Fits
  <2>3. Since(S, at, now) = {}
    BY <1>1, <2>2 DEF Since
  <2>4. Cardinality(Since(S, at, v.startedAt)) = 0
    BY <2>3, FS_EmptySet
  <2>5. \A r \in S : at[r] < v.startedAt + RateWindow
    BY <1>1, <2>2
  <2> QED
    BY <1>1, <2>1, <2>4, <2>5 DEF Fits, Running, Window
<1> QED
  BY <1>2, <1>3

\* One more is counted, whether or not a request is made.
LEMMA CountFits ==
  ASSUME TypeOK, NEW w \in Window, NEW S \in SUBSET Requests, NEW at \in [Requests -> Int],
         NEW limit \in Nat, Fits(w, S, at, limit), Running(w), w.count < limit
  PROVE  /\ Fits([w EXCEPT !.count = @ + 1], S, at, limit)
         /\ \A r \in Requests :
              Fits([w EXCEPT !.count = @ + 1], S \cup {r}, [at EXCEPT ![r] = now], limit)
<1> DEFINE v == [w EXCEPT !.count = @ + 1]
<1>1. /\ w.startedAt \in Nat /\ w.count \in Nat /\ now \in Nat /\ RateWindow \in Nat
      /\ v.startedAt = w.startedAt /\ v.count = w.count + 1
  BY LimitsAssumption DEF TypeOK, Positive, Window
<1>2. IsFiniteSet(Since(S, at, w.startedAt)) /\ Cardinality(Since(S, at, w.startedAt)) \in Nat
  <2>1. Since(S, at, w.startedAt) \subseteq Requests
    BY DEF Since
  <2> QED
    BY <2>1, RecordSets, FS_CardinalityType
<1> HIDE DEF v
<1>3. Fits(v, S, at, limit)
  BY <1>1, <1>2 DEF Fits
<1>4. ASSUME NEW r \in Requests PROVE Fits(v, S \cup {r}, [at EXCEPT ![r] = now], limit)
  <2> DEFINE later == [at EXCEPT ![r] = now]
  <2>1. \A s \in S \cup {r} : later[s] = now \/ (s \in S /\ later[s] = at[s])
    OBVIOUS
  <2>2. \A s \in S \cup {r} : w.startedAt # 0 /\ later[s] < w.startedAt + RateWindow
    BY <2>1 DEF Fits, Running
  <2>3. Since(S \cup {r}, later, w.startedAt) \subseteq Since(S, at, w.startedAt) \cup {r}
    BY DEF Since
  <2>4. /\ Cardinality(Since(S \cup {r}, later, w.startedAt)) \in Nat
        /\ Cardinality(Since(S \cup {r}, later, w.startedAt))
             <= Cardinality(Since(S, at, w.startedAt)) + 1
    BY <1>2, <2>3, OneMore
  <2>5. Cardinality(Since(S \cup {r}, later, w.startedAt)) <= w.count + 1
    BY <1>1, <1>2, <2>4 DEF Fits
  <2> HIDE DEF later
  <2> QED
    BY <1>1, <2>2, <2>5 DEF Fits, later
<1> QED
  BY <1>3, <1>4 DEF v

LEMMA MadeTypes ==
  ASSUME TypeOK
  PROVE  /\ MadeAt \in [Requests -> Int] /\ Made \in SUBSET Requests
         /\ \A c \in Conns : MadeBy(c) \in SUBSET Requests
         /\ RequestsGlobal \in Nat /\ RequestsPerSession \in Nat
         /\ globalWindow \in Window /\ \A c \in Conns : sessionWindow[c] \in Window
BY LimitsAssumption DEF TypeOK, MadeAt, Made, MadeBy, CreatedAt, RequestRecord, Positive

RateInv == TypeInv /\ Unmade /\ WindowsFit

\* What the windows see of the requests does not change but by a request for access.
LEMMA MadeKept ==
  ASSUME TypeInv, Unmade, [Next]_vars
  PROVE  /\ ~SomeRequest => /\ Made' = Made /\ MadeAt' = MadeAt
                            /\ \A c \in Conns : MadeBy(c)' = MadeBy(c)
         /\ \A c \in Conns, t \in Requests, scopes \in ScopeChoices :
              RequestAccess(c, t, scopes) =>
                /\ t \notin Made /\ Made' = Made \cup {t}
                /\ MadeAt' = [MadeAt EXCEPT ![t] = now]
                /\ MadeBy(c)' = MadeBy(c) \cup {t}
                /\ \A d \in Conns \ {c} : MadeBy(d)' = MadeBy(d)
<1>1. \A r \in Requests : Kept(request[r], request'[r]) =>
        /\ request'[r].status = "unused" <=> request[r].status = "unused"
        /\ CreatedAt(request'[r]) = CreatedAt(request[r])
        /\ request'[r].session = request[r].session
  BY DEF Kept, Unmade, CreatedAt
<1>2. CASE ~SomeRequest
  <2>1. \A r \in Requests : Kept(request[r], request'[r])
    BY <1>2, KeptSteps
  <2> QED
    BY <1>1, <1>2, <2>1 DEF Made, MadeAt, MadeBy, SomeRequest
<1>3. ASSUME NEW c \in Conns, NEW t \in Requests, NEW scopes \in ScopeChoices,
             RequestAccess(c, t, scopes)
      PROVE  /\ t \notin Made /\ Made' = Made \cup {t}
             /\ MadeAt' = [MadeAt EXCEPT ![t] = now]
             /\ MadeBy(c)' = MadeBy(c) \cup {t}
             /\ \A d \in Conns \ {c} : MadeBy(d)' = MadeBy(d)
  <2>1. /\ request'[t] = NewRequest(c, scopes)
        /\ \A r \in Requests \ {t} : Kept(request[r], request'[r])
    BY <1>3, AccessEffect DEF TypeInv
  <2>2. /\ request'[t].status # "unused" /\ request'[t].session = c
        /\ CreatedAt(request'[t]) = now
    BY <2>1, LimitsAssumption DEF NewRequest, CreatedAt, Positive, TypeInv, TypeOK
  <2>3. t \notin Made
    BY <1>3 DEF RequestAccess, Made
  <2>4. \A r \in Requests \ {t} :
          /\ request'[r].status = "unused" <=> request[r].status = "unused"
          /\ CreatedAt(request'[r]) = CreatedAt(request[r])
          /\ request'[r].session = request[r].session
    BY <1>1, <2>1
  <2>5. Made' = Made \cup {t}
    BY <2>2, <2>4 DEF Made
  <2>6. MadeAt' = [MadeAt EXCEPT ![t] = now]
    BY <2>2, <2>4 DEF MadeAt
  <2>7. MadeBy(c)' = MadeBy(c) \cup {t}
    BY <2>2, <2>4 DEF MadeBy, Made
  <2>8. \A d \in Conns \ {c} : MadeBy(d)' = MadeBy(d)
    BY <2>2, <2>3, <2>4 DEF MadeBy, Made
  <2> QED
    BY <2>3, <2>5, <2>6, <2>7, <2>8
<1> QED
  BY <1>2, <1>3 DEF SomeRequest

\* Only the requests for access reserve a rate, and only the tick moves the clock.
LEMMA RateShape ==
  ASSUME TypeOK, [Next]_vars
  PROVE  /\ now' \in Nat /\ now \in Nat /\ now <= now'
         /\ \/ UNCHANGED windows /\ ~SomeRequest
            \/ now' = now /\ (SomeRequest \/ \E c \in Conns : RefuseRequest(c))
<1> DEFINE Goal == now' = now /\ UNCHANGED windows
<1>1. ASSUME NEW c \in Conns,
             Hello(c) \/ UpgradeBegins(c) \/ UpgradeEnds(c) \/ Close(c) \/ ReadOrRefused(c)
      PROVE  Goal
  BY <1>1 DEF Hello, UpgradeBegins, UpgradeEnds, Close, ReadOrRefused
<1>2. ASSUME NEW c \in Conns, BrowserCall(c) PROVE Goal
  BY <1>2 DEF BrowserCall, RegisterBrowser, Grant, Deny, BrowserRevoke
<1>3. ASSUME NEW c \in Conns, AgentCall(c) PROVE Goal \/ SomeRequest \/ RefuseRequest(c)
  BY <1>3 DEF AgentCall, AgentRevoke, Admit, AdmitWithoutBrowser, SomeRequest
<1>4. ASSUME NEW l \in Leases, GrantAnswered(l) \/ GrantAuditFails(l) PROVE Goal
  BY <1>4 DEF GrantAnswered, GrantAuditFails
<1>5. ASSUME NEW k \in Commands, CommandStep(k) PROVE Goal
  BY <1>5 DEF CommandStep, ResultAccepted, ResultRefused, CommandFails, AuditFails,
              ResultReturned, ErrorReturned
<1>6. Tick => UNCHANGED windows
  BY DEF Tick
<1>7. SomeRequest \/ (\E c \in Conns : RefuseRequest(c)) => now' = now
  BY DEF SomeRequest, RequestAccess, RefuseRequest
<1>8. now \in Nat /\ (now' = now \/ Tick)
  BY <1>1, <1>2, <1>3, <1>4, <1>5, <1>7 DEF TypeOK, Positive, Next, vars
<1>9. now' \in Nat /\ now <= now'
  BY <1>8 DEF Tick
<1>10. UNCHANGED windows \/ SomeRequest \/ \E c \in Conns : RefuseRequest(c)
  BY <1>1, <1>2, <1>3, <1>4, <1>5, <1>6 DEF Next, vars, Tick
<1> QED
  BY <1>7, <1>8, <1>9, <1>10

\* The windows of a session and of the broker, after one of its agent's requests.
LEMMA ReservedWindows ==
  ASSUME RateInv, NEW c \in Conns, ReserveRate(c)
  PROVE  /\ \A d \in Conns \ {c} : sessionWindow'[d] = sessionWindow[d]
         /\ Fits(globalWindow', Made, MadeAt, RequestsGlobal)
         /\ Fits(sessionWindow'[c], MadeBy(c), MadeAt, RequestsPerSession)
         /\ ~RateLimited(c) => \A t \in Requests :
              /\ Fits(globalWindow', Made \cup {t}, [MadeAt EXCEPT ![t] = now], RequestsGlobal)
              /\ Fits(sessionWindow'[c], MadeBy(c) \cup {t}, [MadeAt EXCEPT ![t] = now],
                      RequestsPerSession)
<1> DEFINE g == ResetIfNeeded(globalWindow)
           s == ResetIfNeeded(sessionWindow[c])
<1>1. TypeOK /\ sessionWindow \in [Conns -> Window]
  BY DEF RateInv, TypeInv, TypeOK
<1>2. /\ g \in Window /\ Running(g) /\ Fits(g, Made, MadeAt, RequestsGlobal)
  BY <1>1, MadeTypes, ResetFits DEF RateInv, WindowsFit
<1>3. /\ s \in Window /\ Running(s) /\ Fits(s, MadeBy(c), MadeAt, RequestsPerSession)
  BY <1>1, MadeTypes, ResetFits DEF RateInv, WindowsFit
<1>4. \A d \in Conns \ {c} : sessionWindow'[d] = sessionWindow[d]
  BY <1>1 DEF ReserveRate
<1>5. CASE RateLimited(c)
  <2>1. globalWindow' = g /\ sessionWindow'[c] = s
    BY <1>1, <1>5 DEF ReserveRate
  <2> QED
    BY <1>2, <1>3, <1>4, <1>5, <2>1
<1>6. CASE ~RateLimited(c)
  <2>1. /\ globalWindow' = [g EXCEPT !.count = @ + 1]
        /\ sessionWindow'[c] = [s EXCEPT !.count = @ + 1]
    BY <1>1, <1>6 DEF ReserveRate
  <2>2. g.count < RequestsGlobal /\ s.count < RequestsPerSession
    BY <1>2, <1>3, <1>6, MadeTypes, <1>1 DEF RateLimited, Window
  <2> HIDE DEF g, s
  <2>3. /\ Fits(globalWindow', Made, MadeAt, RequestsGlobal)
        /\ \A t \in Requests :
             Fits(globalWindow', Made \cup {t}, [MadeAt EXCEPT ![t] = now], RequestsGlobal)
    BY <1>1, <1>2, <2>1, <2>2, MadeTypes, CountFits
  <2>4. /\ Fits(sessionWindow'[c], MadeBy(c), MadeAt, RequestsPerSession)
        /\ \A t \in Requests :
             Fits(sessionWindow'[c], MadeBy(c) \cup {t}, [MadeAt EXCEPT ![t] = now],
                  RequestsPerSession)
    BY <1>1, <1>3, <2>1, <2>2, MadeTypes, CountFits
  <2> QED
    BY <1>4, <2>3, <2>4
<1> QED
  BY <1>5, <1>6

LEMMA WindowsStep ==
  ASSUME RateInv, [Next]_vars
  PROVE  WindowsFit'
<1>1. TypeInv /\ TypeOK /\ Unmade
  BY DEF RateInv, TypeInv
<1>2. CASE UNCHANGED windows /\ ~SomeRequest
  <2>1. /\ Made' = Made /\ MadeAt' = MadeAt /\ \A c \in Conns : MadeBy(c)' = MadeBy(c)
    BY <1>1, <1>2, MadeKept
  <2>2. now' \in Nat /\ now \in Nat /\ now <= now'
    BY <1>1, RateShape
  <2>3. globalWindow' = globalWindow /\ sessionWindow' = sessionWindow
    BY <1>2 DEF windows
  <2>4. /\ globalWindow.startedAt \in Nat
        /\ \A c \in Conns : sessionWindow[c].startedAt \in Nat
    BY <1>1, MadeTypes DEF Window
  <2> QED
    BY <2>1, <2>2, <2>3, <2>4 DEF RateInv, WindowsFit, Fits
<1>3. ASSUME NEW c \in Conns, RefuseRequest(c), ~SomeRequest, now' = now
      PROVE  WindowsFit'
  <2>1. /\ Made' = Made /\ MadeAt' = MadeAt /\ \A d \in Conns : MadeBy(d)' = MadeBy(d)
    BY <1>1, <1>3, MadeKept
  <2>2. /\ \A d \in Conns \ {c} : sessionWindow'[d] = sessionWindow[d]
        /\ Fits(globalWindow', Made, MadeAt, RequestsGlobal)
        /\ Fits(sessionWindow'[c], MadeBy(c), MadeAt, RequestsPerSession)
    BY <1>3, ReservedWindows DEF RefuseRequest
  <2>3. \A d \in Conns : Fits(sessionWindow'[d], MadeBy(d), MadeAt, RequestsPerSession)
    BY <2>2 DEF RateInv, WindowsFit
  <2> QED
    BY <1>3, <2>1, <2>2, <2>3 DEF WindowsFit, Fits
<1>4. ASSUME NEW c \in Conns, NEW t \in Requests, NEW scopes \in ScopeChoices,
             RequestAccess(c, t, scopes), now' = now
      PROVE  WindowsFit'
  <2>1. /\ t \notin Made /\ Made' = Made \cup {t}
        /\ MadeAt' = [MadeAt EXCEPT ![t] = now]
        /\ MadeBy(c)' = MadeBy(c) \cup {t}
        /\ \A d \in Conns \ {c} : MadeBy(d)' = MadeBy(d)
    BY <1>1, <1>4, MadeKept
  <2>2. /\ \A d \in Conns \ {c} : sessionWindow'[d] = sessionWindow[d]
        /\ Fits(globalWindow', Made', MadeAt', RequestsGlobal)
        /\ Fits(sessionWindow'[c], MadeBy(c)', MadeAt', RequestsPerSession)
    BY <1>4, <2>1, ReservedWindows DEF RequestAccess
  <2>3. ASSUME NEW d \in Conns \ {c}
        PROVE  Fits(sessionWindow'[d], MadeBy(d)', MadeAt', RequestsPerSession)
    <3>1. Fits(sessionWindow[d], MadeBy(d), MadeAt, RequestsPerSession)
      BY DEF RateInv, WindowsFit
    <3>2. \A r \in MadeBy(d) : MadeAt'[r] = MadeAt[r]
      BY <1>1, <2>1, MadeTypes DEF MadeBy
    <3>3. \A u : Since(MadeBy(d), MadeAt', u) = Since(MadeBy(d), MadeAt, u)
      BY <3>2 DEF Since
    <3> QED
      BY <2>1, <2>2, <3>1, <3>2, <3>3 DEF Fits
  <2>4. \A d \in Conns : Fits(sessionWindow'[d], MadeBy(d)', MadeAt', RequestsPerSession)
    BY <2>2, <2>3
  <2> QED
    BY <1>4, <2>2, <2>4 DEF WindowsFit, Fits
<1> QED
  BY <1>1, <1>2, <1>3, <1>4, RateShape DEF SomeRequest

LEMMA RateInit == Init => RateInv
<1> SUFFICES ASSUME Init PROVE RateInv
  OBVIOUS
<1>1. TypeInv
  BY RecordInit DEF RecordInv
<1>2. Unmade /\ Made = {} /\ \A c \in Conns : MadeBy(c) = {}
  BY DEF Init, Unmade, Made, MadeBy, NoRequest
<1>3. \A t : Cardinality(Since({}, MadeAt, t)) = 0
  <2>1. \A t : Since({}, MadeAt, t) = {}
    BY DEF Since
  <2> QED
    BY <2>1, FS_EmptySet
<1> QED
  BY <1>1, <1>2, <1>3, LimitsAssumption DEF Init, RateInv, WindowsFit, Fits, NoWindow, Positive

LEMMA RateStep == RateInv /\ [Next]_vars => RateInv'
<1> SUFFICES ASSUME RateInv, [Next]_vars PROVE RateInv'
  OBVIOUS
<1>1. TypeInv'
  BY TypeStep, PlacedStep, AddressedStep DEF RateInv, TypeInv
<1> QED
  BY <1>1, UnmadeStep, WindowsStep DEF RateInv

\* The rate windows of the sessions and of the broker count every request made in them,
\* evicted and pruned ones included, and never count past their limits.
THEOREM RatesHold == Spec => []RateWindowsHold
<1>1. RateInv => RateWindowsHold
  <2> SUFFICES ASSUME RateInv PROVE RateWindowsHold
    OBVIOUS
  <2>1. \A t : CreatedSince(t) = Since(Made, MadeAt, t)
    BY DEF CreatedSince, Since, Made, MadeAt
  <2>2. \A c \in Conns : \A t :
          {r \in CreatedSince(t) : request[r].session = c} = Since(MadeBy(c), MadeAt, t)
    BY DEF CreatedSince, Since, Made, MadeBy, MadeAt
  <2> QED
    BY <2>1, <2>2 DEF RateInv, WindowsFit, Fits, RateWindowsHold
<1> QED
  BY <1>1, RateInit, RateStep, PTL DEF Spec

=============================================================================
