--------------------------- MODULE ExtensionProofs ---------------------------
(* What holds of Extension for any number of handlers, tabs, requests, leases, calls,   *)
(* ports, documents and events.                                                          *)
EXTENDS Extension, FiniteSetTheorems, SequenceTheorems, WellFoundedInduction, TLAPS

-----------------------------------------------------------------------------
(* Sequences *)

LEMMA LeastOf ==
  ASSUME NEW S, S \subseteq Nat, S # {}
  PROVE  \E x \in S : \A y \in S : x <= y
<1>1. PICK x \in S : \A y \in S : <<y, x>> \notin OpToRel(<, Nat)
  BY NatLessThanWellFounded, WFMin
<1>2. \A y \in S : x <= y
  <2> TAKE y \in S
  <2>1. x \in Nat /\ y \in Nat
    BY <1>1
  <2>2. ~(y < x)
    BY <1>1, <2>1 DEF OpToRel
  <2> QED
    BY <2>1, <2>2
<1> QED
  BY <1>1, <1>2

\* A finite set of numbers has an n-th member.
LEMMA NthMember ==
  ASSUME NEW K, K \subseteq Nat, IsFiniteSet(K), NEW n \in 1..Cardinality(K)
  PROVE  \E i \in K : Cardinality({j \in K : j < i}) = n - 1
<1> DEFINE below(i) == {j \in K : j < i}
           missing == {m \in 1..Cardinality(K) : \A i \in K : Cardinality(below(i)) # m - 1}
<1>1. SUFFICES ASSUME missing # {} PROVE FALSE
  OBVIOUS
<1>2. Cardinality(K) \in Nat
  BY FS_CardinalityType
<1>3. PICK m \in missing : \A o \in missing : m <= o
  <2>1. missing \subseteq Nat
    BY <1>2
  <2> QED
    BY <1>1, <2>1, LeastOf
<1>4. m \in 1..Cardinality(K) /\ \A i \in K : Cardinality(below(i)) # m - 1
  OBVIOUS
<1>5. CASE m = 1
  <2>1. K # {}
    BY <1>2, <1>4, FS_EmptySet
  <2>2. PICK x \in K : \A y \in K : x <= y
    BY <2>1, LeastOf
  <2>3. below(x) = {}
    <3>1. ASSUME NEW y \in K PROVE ~(y < x)
      <4>1. x \in Nat /\ y \in Nat /\ x <= y
        BY <2>2
      <4> QED
        BY <4>1
    <3> QED
      BY <3>1
  <2> QED
    BY <1>4, <1>5, <2>2, <2>3, FS_EmptySet
<1>6. CASE m # 1
  <2>1. m - 1 \in 1..Cardinality(K) /\ m - 1 \notin missing
    BY <1>2, <1>3, <1>4, <1>6
  <2>2. PICK i \in K : Cardinality(below(i)) = m - 2
    <3>1. m - 1 - 1 = m - 2
      BY <2>1
    <3>2. \E i \in K : Cardinality(below(i)) = m - 1 - 1
      BY <2>1
    <3> QED
      BY <3>1, <3>2
  <2> DEFINE upto == below(i) \cup {i}
  <2>3. IsFiniteSet(upto) /\ Cardinality(upto) = m - 1
    <3>1. IsFiniteSet(below(i)) /\ i \notin below(i)
      <4>1. below(i) \in SUBSET K /\ i \in Nat
        OBVIOUS
      <4> QED
        BY <4>1, FS_Subset
    <3>2. IsFiniteSet(upto) /\ Cardinality(upto) = Cardinality(below(i)) + 1
      BY <3>1, FS_AddElement
    <3>3. m \in Nat
      BY <1>2, <1>4
    <3> QED
      BY <2>2, <3>2, <3>3
  <2>4. K \ upto # {}
    BY <1>2, <1>4, <2>3
  <2>5. PICK x \in K \ upto : \A y \in K \ upto : x <= y
    BY <2>4, LeastOf
  <2>6. below(x) = upto
    <3>1. ASSUME NEW y \in K PROVE y < x <=> y \in upto
      <4>1. x \in Nat /\ y \in Nat /\ i \in Nat /\ i # x /\ ~(x < i)
        BY <2>5
      <4>2. y \in K \ upto => x <= y
        BY <2>5
      <4> QED
        BY <4>1, <4>2
    <3>2. upto \subseteq K
      OBVIOUS
    <3> QED
      BY <3>1, <3>2
  <2> QED
    BY <1>4, <2>3, <2>5, <2>6
<1> QED
  BY <1>5, <1>6

\* A filtered sequence has elements of the sequence that are in the set, and no more.
LEMMA FilteredType ==
  ASSUME NEW T, NEW s \in Seq(T), NEW S
  PROVE  /\ Filtered(s, S) \in Seq(T)
         /\ \A n \in DOMAIN Filtered(s, S) :
              Filtered(s, S)[n] \in S /\ \E i \in DOMAIN s : Filtered(s, S)[n] = s[i]
         /\ Len(Filtered(s, S)) <= Len(s)
<1> DEFINE kept == {i \in DOMAIN s : s[i] \in S}
           pick(n) == CHOOSE i \in kept : Cardinality({j \in kept : j < i}) = n - 1
<1>1. DOMAIN s = 1..Len(s) /\ Len(s) \in Nat /\ kept \subseteq Nat
  OBVIOUS
<1>2. IsFiniteSet(1..Len(s)) /\ Cardinality(1..Len(s)) = Len(s)
  <2>1. IsFiniteSet(1..Len(s)) /\ Cardinality(1..Len(s)) = IF 1 > Len(s) THEN 0 ELSE Len(s) - 1 + 1
    BY <1>1, FS_Interval
  <2> QED
    BY <1>1, <2>1
<1>3. IsFiniteSet(kept) /\ Cardinality(kept) \in Nat /\ Cardinality(kept) <= Len(s)
  <2>1. kept \in SUBSET (1..Len(s))
    BY <1>1
  <2> QED
    BY <1>2, <2>1, FS_Subset, FS_CardinalityType
<1>4. ASSUME NEW n \in 1..Cardinality(kept)
      PROVE  pick(n) \in kept
  <2>1. \E i \in kept : Cardinality({j \in kept : j < i}) = n - 1
    BY <1>1, <1>3, NthMember
  <2> QED
    BY <2>1
<1> HIDE DEF pick
<1>5. Filtered(s, S) = [n \in 1..Cardinality(kept) |-> s[pick(n)]]
  BY DEF Filtered, pick
<1>6. \A n \in 1..Cardinality(kept) : s[pick(n)] \in S /\ s[pick(n)] \in T
  BY <1>1, <1>4
<1> QED
  BY <1>1, <1>3, <1>4, <1>5, <1>6

LEMMA Push ==
  ASSUME NEW F, NEW s \in Seq(F), NEW f \in F
  PROVE  /\ <<f>> \o s \in Seq(F) /\ <<f>> \o s # <<>> /\ Len(<<f>> \o s) = Len(s) + 1
         /\ Head(<<f>> \o s) = f /\ Tail(<<f>> \o s) = s
         /\ (<<f>> \o s)[1] = f /\ \A i \in DOMAIN s : (<<f>> \o s)[i + 1] = s[i]
         /\ Range(<<f>> \o s) = {f} \cup Range(s)
<1>1. /\ <<f>> \o s \in Seq(F) /\ Len(<<f>> \o s) = Len(s) + 1
      /\ (<<f>> \o s)[1] = f /\ \A i \in 1..Len(s) : (<<f>> \o s)[i + 1] = s[i]
      /\ DOMAIN (<<f>> \o s) = 1..(Len(s) + 1) /\ DOMAIN s = 1..Len(s) /\ Len(s) \in Nat
  OBVIOUS
<1>2. Tail(<<f>> \o s) = s
  <2>1. Tail(<<f>> \o s) \in Seq(F) /\ Len(Tail(<<f>> \o s)) = Len(s)
    BY <1>1
  <2>2. \A i \in 1..Len(s) : Tail(<<f>> \o s)[i] = s[i]
    BY <1>1
  <2> QED
    BY <2>1, <2>2, SeqEqual
<1>3. Range(<<f>> \o s) = {f} \cup Range(s)
  <2>1. ASSUME NEW x \in Range(<<f>> \o s) PROVE x \in {f} \cup Range(s)
    <3>1. PICK i \in 1..(Len(s) + 1) : x = (<<f>> \o s)[i]
      BY <1>1 DEF Range
    <3>2. CASE i = 1
      BY <1>1, <3>1, <3>2
    <3>3. CASE i # 1
      <4>1. i - 1 \in 1..Len(s) /\ (i - 1) + 1 = i
        BY <1>1, <3>3
      <4>2. x = s[i - 1]
        BY <1>1, <3>1, <4>1
      <4> QED
        BY <1>1, <4>1, <4>2 DEF Range
    <3> QED
      BY <3>2, <3>3
  <2>2. f \in Range(<<f>> \o s)
    BY <1>1 DEF Range
  <2>3. ASSUME NEW x \in Range(s) PROVE x \in Range(<<f>> \o s)
    <3>1. PICK i \in 1..Len(s) : x = s[i]
      BY <1>1 DEF Range
    <3>2. i + 1 \in 1..(Len(s) + 1) /\ (<<f>> \o s)[i + 1] = x
      BY <1>1, <3>1
    <3> QED
      BY <1>1, <3>2 DEF Range
  <2> QED
    BY <2>1, <2>2, <2>3
<1>4. Head(<<f>> \o s) = f /\ <<f>> \o s # <<>>
  BY <1>1
<1>5. \A i \in DOMAIN s : (<<f>> \o s)[i + 1] = s[i]
  BY <1>1
<1> QED
  BY <1>1, <1>2, <1>3, <1>4, <1>5, Zenon

LEMMA Pop ==
  ASSUME NEW F, NEW s \in Seq(F), s # <<>>
  PROVE  /\ Head(s) \in F /\ Tail(s) \in Seq(F) /\ s = <<Head(s)>> \o Tail(s)
         /\ Range(s) = {Head(s)} \cup Range(Tail(s))
<1>1. Head(s) \in F /\ Tail(s) \in Seq(F)
  OBVIOUS
<1>2. s = <<Head(s)>> \o Tail(s)
  <2>1. <<Head(s)>> \o Tail(s) \in Seq(F) /\ Len(<<Head(s)>> \o Tail(s)) = Len(s)
    BY <1>1
  <2>2. \A i \in 1..Len(s) : (<<Head(s)>> \o Tail(s))[i] = s[i]
    BY <1>1
  <2> QED
    BY <2>1, <2>2, SeqEqual
<1> QED
  BY <1>1, <1>2, Push

LEMMA RangeOf ==
  ASSUME NEW F, NEW s \in Seq(F)
  PROVE  /\ Range(s) \subseteq F /\ (s = <<>> <=> Range(s) = {}) /\ Range(<<>>) = {}
         /\ \A i \in DOMAIN s : s[i] \in Range(s)
<1>1. DOMAIN s = 1..Len(s) /\ Len(s) \in Nat /\ \A i \in 1..Len(s) : s[i] \in F
  OBVIOUS
<1>2. s # <<>> => 1 \in DOMAIN s
  OBVIOUS
<1>3. DOMAIN <<>> = {}
  OBVIOUS
<1> QED
  BY <1>1, <1>2, <1>3 DEF Range

-----------------------------------------------------------------------------
(* What the frames and messages hold.  A lease that is named anywhere has been issued, *)
(* a command has been dispatched under one, a document and a port have been made.      *)

Known == {l \in Leases : standing[l] # "unissued"}
Dispatched == {k \in Commands : under[k] \in Known}

Revoking == {"revoke.read", "revoke.teardown", "revoke.write", "revoke.notify"}
Executing == {"execute.check", "execute.identify", "execute.send", "execute.fail"}
Identified ==
  {"grant.verify", "grant.wait", "grant.recheck", "grant.write", "grant.teardown",
   "grant.revoke"}
Located == Identified \cup {"grant.inject"}
Answered == {"grant.recheck", "grant.write"}

\* What a frame holds depends on where it is.
Proper(f) ==
  /\ f.at \in Revoking \cup Answered => f.lease # None
  /\ f.at \in Executing => f.command # None
  /\ f.at \in Located \cup {"requested.write", "grant.find"} => f.request # None
  /\ f.at \in Located => f.tab # None /\ f.url # None
  /\ f.at \in Identified => f.doc # 0

StoredIn(leases) == [pending: Seq(Requests), grant: leases \cup {None}]

FieldsIn(labels, leases, commands, docs, opened) ==
  [at: labels, lease: leases \cup {None}, notify: BOOLEAN, saw: StoredIn(leases),
   request: Requests \cup {None}, tab: Tabs \cup {None}, doc: 0..docs,
   url: Urls \cup {None}, command: commands \cup {None}, port: 0..opened,
   pairing: BOOLEAN]

FramesIn(leases, commands, docs, opened) ==
  {f \in FieldsIn(Labels, leases, commands, docs, opened) : Proper(f)}

Stored == StoredIn(Known)
Frames == FramesIn(Known, Dispatched, lastDoc, lastPort)

LEMMA FramesGrow ==
  ASSUME NEW K, NEW K2, K \subseteq K2, NEW D, NEW D2, D \subseteq D2,
         NEW d \in Nat, NEW d2 \in Nat, d <= d2, NEW p \in Nat, NEW p2 \in Nat, p <= p2
  PROVE  /\ StoredIn(K) \subseteq StoredIn(K2)
         /\ FramesIn(K, D, d, p) \subseteq FramesIn(K2, D2, d2, p2)
<1>1. StoredIn(K) \subseteq StoredIn(K2)
  BY DEF StoredIn
<1>2. 0..d \subseteq 0..d2 /\ 0..p \subseteq 0..p2
  OBVIOUS
<1> QED
  BY <1>1, <1>2 DEF FramesIn, FieldsIn

\* A frame of which one field changes.
LEMMA FrameFields ==
  ASSUME NEW f \in Frames
  PROVE  /\ f.at \in Labels /\ f.lease \in Known \cup {None} /\ f.notify \in BOOLEAN
         /\ f.saw \in Stored /\ f.request \in Requests \cup {None} /\ f.tab \in Tabs \cup {None}
         /\ f.doc \in 0..lastDoc /\ f.url \in Urls \cup {None}
         /\ f.command \in Dispatched \cup {None} /\ f.port \in 0..lastPort
         /\ f.pairing \in BOOLEAN /\ Proper(f)
BY DEF Frames, FramesIn, FieldsIn, Stored

LEMMA Relabelled ==
  ASSUME NEW f \in Frames, NEW label \in Labels
  PROVE  LET g == [f EXCEPT !.at = label] IN
         /\ Proper(g) => g \in Frames
         /\ g.at = label /\ g.lease = f.lease /\ g.notify = f.notify /\ g.request = f.request
         /\ g.tab = f.tab /\ g.doc = f.doc /\ g.url = f.url /\ g.command = f.command
         /\ g.port = f.port /\ g.pairing = f.pairing /\ g.saw = f.saw
BY DEF Frames, FramesIn, FieldsIn, Stored

LEMMA Resaw ==
  ASSUME NEW f \in Frames, NEW s \in Stored
  PROVE  /\ [f EXCEPT !.saw = s] \in Frames /\ [f EXCEPT !.saw = s].at = f.at
         /\ [f EXCEPT !.saw = s].lease = f.lease /\ [f EXCEPT !.saw = s].notify = f.notify
BY DEF Frames, FramesIn, FieldsIn, Stored, Proper


\* Idle is all but a frame: only its label is none.
LEMMA IdleFields ==
  ASSUME lastDoc \in Nat
  PROVE  /\ \A n \in Nat : Idle \in FieldsIn({"end"}, Known, Dispatched, lastDoc, n)
         /\ Idle.lease = None /\ Idle.request = None /\ Idle.tab = None /\ Idle.doc = 0
         /\ Idle.url = None /\ Idle.command = None /\ Idle.port = 0 /\ ~Idle.notify
         /\ EmptyState \in Stored /\ EmptyState.grant = None
<1>1. EmptyState \in StoredIn(Known) /\ EmptyState.grant = None
  BY DEF EmptyState, StoredIn
<1>2. /\ Idle.lease = None /\ Idle.request = None /\ Idle.tab = None /\ Idle.doc = 0
      /\ Idle.url = None /\ Idle.command = None /\ Idle.port = 0 /\ ~Idle.notify
  BY DEF Idle
<1>3. ASSUME NEW n \in Nat
      PROVE  Idle \in FieldsIn({"end"}, Known, Dispatched, lastDoc, n)
  <2>1. 0 \in 0..lastDoc /\ 0 \in 0..n /\ FALSE \in BOOLEAN
    OBVIOUS
  <2> QED
    BY <1>1, <2>1 DEF Idle, FieldsIn
<1> QED
  BY <1>1, <1>2, <1>3 DEF Stored

\* The frames that are pushed on a stack.
\* The frame that revokeGrant leaves to notify the broker.
NotifyFrame(l, notify) ==
  [Idle EXCEPT !.at = "revoke.notify", !.lease = l, !.notify = notify]

LEMMA RevokeFrame ==
  ASSUME lastDoc \in Nat, lastPort \in Nat, NEW l \in Known, NEW notify \in BOOLEAN
  PROVE  /\ Revoke(l, notify) \in Frames /\ Revoke(l, notify).at = "revoke.read"
         /\ Revoke(l, notify).lease = l /\ Revoke(l, notify).notify = notify
         /\ NotifyFrame(l, notify) \in Frames /\ NotifyFrame(l, notify).at = "revoke.notify"
         /\ NotifyFrame(l, notify).lease = l /\ NotifyFrame(l, notify).notify = notify
<1>1. ASSUME NEW label \in Revoking
      PROVE  LET f == [Idle EXCEPT !.at = label, !.lease = l, !.notify = notify] IN
             f \in Frames /\ f.at = label /\ f.lease = l /\ f.notify = notify
  <2> DEFINE f == [Idle EXCEPT !.at = label, !.lease = l, !.notify = notify]
  <2>1. f \in FieldsIn(Labels, Known, Dispatched, lastDoc, lastPort)
    BY IdleFields DEF FieldsIn, Labels, Revoking
  <2>2. f.at = label /\ f.lease = l /\ f.notify = notify
    BY IdleFields DEF FieldsIn
  <2>3. Proper(f)
    BY <2>2, ExtensionAssumption
       DEF Proper, Known, Revoking, Answered, Executing, Located, Identified
  <2> QED
    BY <2>1, <2>2, <2>3 DEF Frames, FramesIn
<1> QED
  BY <1>1 DEF Revoke, NotifyFrame, Revoking

LEMMA PruneFrame ==
  ASSUME lastDoc \in Nat, lastPort \in Nat, NEW s \in Stored
  PROVE  LET f == [Idle EXCEPT !.at = "prune.write", !.saw = s] IN
         f \in Frames /\ f.at = "prune.write" /\ f.saw = s
<1> DEFINE f == [Idle EXCEPT !.at = "prune.write", !.saw = s]
<1>1. f \in FieldsIn(Labels, Known, Dispatched, lastDoc, lastPort)
  BY IdleFields DEF FieldsIn, Labels, Stored
<1>2. f.at = "prune.write" /\ f.saw = s
  BY IdleFields DEF FieldsIn
<1>3. Proper(f)
  BY <1>2 DEF Proper, Revoking, Answered, Executing, Located, Identified
<1> QED
  BY <1>1, <1>2, <1>3 DEF Frames, FramesIn

LEMMA PortFrame ==
  ASSUME lastDoc \in Nat, NEW n \in Nat, NEW p \in 0..n, NEW pairing \in BOOLEAN
  PROVE  LET made == FramesIn(Known, Dispatched, lastDoc, n) IN
         /\ Authenticate(p, pairing) \in made /\ Authenticate(p, pairing).at = "auth.turn"
         /\ Register(p) \in made /\ Register(p).at = "register.send"
<1> DEFINE f == [Idle EXCEPT !.at = "auth.turn", !.port = p, !.pairing = pairing]
           g == [Idle EXCEPT !.at = "register.send", !.port = p]
<1>1. Idle \in FieldsIn({"end"}, Known, Dispatched, lastDoc, n)
  BY IdleFields
<1>2. /\ f \in FieldsIn(Labels, Known, Dispatched, lastDoc, n)
      /\ g \in FieldsIn(Labels, Known, Dispatched, lastDoc, n)
  <2>1. "auth.turn" \in Labels /\ "register.send" \in Labels
    BY DEF Labels
  <2>2. f \in FieldsIn(Labels, Known, Dispatched, lastDoc, n)
    BY <1>1, <2>1 DEF FieldsIn
  <2>3. g \in FieldsIn(Labels, Known, Dispatched, lastDoc, n)
    BY <1>1, <2>1 DEF FieldsIn
  <2> QED
    BY <2>2, <2>3
<1>3. f.at = "auth.turn" /\ g.at = "register.send"
  BY <1>1 DEF FieldsIn
<1>4. Proper(f) /\ Proper(g)
  BY <1>3 DEF Proper, Revoking, Answered, Executing, Located, Identified
<1> QED
  BY <1>2, <1>3, <1>4 DEF FramesIn, Authenticate, Register

LEMMA BareFrame ==
  ASSUME lastDoc \in Nat, lastPort \in Nat,
         NEW label \in {"init.connect", "lost.reconnect", "popup.state"}
  PROVE  LET f == [Idle EXCEPT !.at = label] IN f \in Frames /\ f.at = label
<1> DEFINE f == [Idle EXCEPT !.at = label]
<1>1. f \in FieldsIn(Labels, Known, Dispatched, lastDoc, lastPort)
  BY IdleFields DEF FieldsIn, Labels
<1>2. f.at = label
  BY IdleFields DEF FieldsIn
<1>3. Proper(f)
  BY <1>2 DEF Proper, Revoking, Answered, Executing, Located, Identified
<1> QED
  BY <1>1, <1>2, <1>3 DEF Frames, FramesIn

LEMMA RequestFrame ==
  ASSUME lastDoc \in Nat, lastPort \in Nat, NEW r \in Requests,
         NEW label \in {"requested.write", "grant.find"}
  PROVE  LET f == [Idle EXCEPT !.at = label, !.request = r] IN f \in Frames /\ f.at = label
<1> DEFINE f == [Idle EXCEPT !.at = label, !.request = r]
<1>1. f \in FieldsIn(Labels, Known, Dispatched, lastDoc, lastPort)
  BY IdleFields DEF FieldsIn, Labels
<1>2. f.at = label /\ f.request = r
  BY IdleFields DEF FieldsIn
<1>3. Proper(f)
  BY <1>2, ExtensionAssumption DEF Proper, Revoking, Answered, Executing, Located, Identified
<1> QED
  BY <1>1, <1>2, <1>3 DEF Frames, FramesIn

LEMMA ExecuteFrame ==
  ASSUME lastDoc \in Nat, lastPort \in Nat, NEW k \in Dispatched, NEW p \in 0..lastPort
  PROVE  LET f == [Idle EXCEPT !.at = "execute.check", !.command = k, !.port = p] IN
         f \in Frames /\ f.at = "execute.check"
<1> DEFINE f == [Idle EXCEPT !.at = "execute.check", !.command = k, !.port = p]
<1>1. f \in FieldsIn(Labels, Known, Dispatched, lastDoc, lastPort)
  BY IdleFields DEF FieldsIn, Labels
<1>2. f.at = "execute.check" /\ f.command = k
  BY IdleFields DEF FieldsIn
<1>3. Proper(f)
  BY <1>2, ExtensionAssumption
     DEF Proper, Dispatched, Revoking, Answered, Executing, Located, Identified
<1> QED
  BY <1>1, <1>2, <1>3 DEF Frames, FramesIn

-----------------------------------------------------------------------------
(* Stacks.  A frame that is interrupted has the frames of a revocation or of a pruning *)
(* above it; only an answer to the popup waits below any other frame.                  *)

Interrupts == Revoking \cup {"prune.write"}

\* Where a frame may be that is not on top.
Resting ==
  {"prune.write", "revoke.notify", "init.connect", "register.send", "register.close",
   "lost.reconnect", "requested.write", "execute.check", "execute.fail", "grant.find",
   "grant.inject", "popup.state"}

Held(s) == {f.at : f \in Range(s)}

Stacked(s) ==
  /\ \A i, j \in DOMAIN s : i < j => s[i].at \in Interrupts \/ s[j].at = "popup.state"
  /\ \A i \in DOMAIN s : i > 1 => s[i].at \in Resting

StackOf(frames) == {s \in Seq(frames) : Stacked(s)}
Stack == StackOf(Frames)

LEMMA PushedOn ==
  ASSUME NEW F, NEW s \in StackOf(F), NEW f \in F, Held(s) \subseteq Resting,
         f.at \in Interrupts \/ Held(s) \subseteq {"popup.state"}
  PROVE  /\ <<f>> \o s \in StackOf(F) /\ <<f>> \o s # <<>>
         /\ Head(<<f>> \o s) = f /\ Tail(<<f>> \o s) = s
         /\ Range(<<f>> \o s) = {f} \cup Range(s)
         /\ Held(<<f>> \o s) = {f.at} \cup Held(s)
<1> DEFINE new == <<f>> \o s
<1>1. s \in Seq(F) /\ Stacked(s)
  BY DEF StackOf
<1>2. /\ new \in Seq(F) /\ new # <<>> /\ Len(new) = Len(s) + 1
      /\ Head(new) = f /\ Tail(new) = s
      /\ new[1] = f /\ \A i \in DOMAIN s : new[i + 1] = s[i]
      /\ Range(new) = {f} \cup Range(s)
  BY <1>1, Push
<1>3. DOMAIN s = 1..Len(s) /\ DOMAIN new = 1..(Len(s) + 1) /\ Len(s) \in Nat
  BY <1>1, <1>2
<1>4. Held(new) = {f.at} \cup Held(s)
  BY <1>2 DEF Held
<1>5. ASSUME NEW i \in DOMAIN new, i > 1
      PROVE  i - 1 \in DOMAIN s /\ new[i] = s[i - 1] /\ new[i].at \in Held(s)
  <2>1. i - 1 \in DOMAIN s /\ (i - 1) + 1 = i
    BY <1>3, <1>5
  <2>2. new[i] = s[i - 1] /\ s[i - 1] \in Range(s)
    BY <1>1, <1>2, <2>1, RangeOf
  <2> QED
    BY <2>1, <2>2 DEF Held
<1>6. Stacked(new)
  <2>1. ASSUME NEW i \in DOMAIN new, NEW j \in DOMAIN new, i < j
        PROVE  new[i].at \in Interrupts \/ new[j].at = "popup.state"
    <3>1. i \in Nat /\ j \in Nat /\ i >= 1 /\ j > 1
      BY <1>3, <2>1
    <3>2. j - 1 \in DOMAIN s /\ new[j] = s[j - 1] /\ new[j].at \in Held(s)
      BY <1>5, <3>1
    <3>3. CASE i = 1
      BY <1>2, <3>2, <3>3
    <3>4. CASE i > 1
      <4>1. i - 1 \in DOMAIN s /\ new[i] = s[i - 1] /\ i - 1 < j - 1
        BY <1>5, <2>1, <3>1, <3>4
      <4> QED
        BY <1>1, <3>2, <4>1 DEF Stacked
    <3> QED
      BY <3>1, <3>3, <3>4
  <2>2. \A i \in DOMAIN new : i > 1 => new[i].at \in Resting
    BY <1>5
  <2> QED
    BY <2>1, <2>2 DEF Stacked
<1> QED
  BY <1>2, <1>4, <1>6 DEF StackOf

LEMMA StackPushed ==
  ASSUME NEW s \in Stack, NEW f \in Frames, Held(s) \subseteq Resting,
         f.at \in Interrupts \/ Held(s) \subseteq {"popup.state"}
  PROVE  /\ <<f>> \o s \in Stack /\ <<f>> \o s # <<>>
         /\ Head(<<f>> \o s) = f /\ Tail(<<f>> \o s) = s
         /\ Range(<<f>> \o s) = {f} \cup Range(s)
         /\ Held(<<f>> \o s) = {f.at} \cup Held(s)
BY PushedOn DEF Stack

LEMMA StackPopped ==
  ASSUME NEW s \in Stack, s # <<>>
  PROVE  /\ Head(s) \in Frames /\ Tail(s) \in Stack /\ s = <<Head(s)>> \o Tail(s)
         /\ Range(s) = {Head(s)} \cup Range(Tail(s))
         /\ Held(s) = {Head(s).at} \cup Held(Tail(s))
         /\ Held(Tail(s)) \subseteq Resting
         /\ Head(s).at \notin Interrupts => Held(Tail(s)) \subseteq {"popup.state"}
<1>1. s \in Seq(Frames) /\ Stacked(s)
  BY DEF Stack, StackOf
<1>2. /\ Head(s) \in Frames /\ Tail(s) \in Seq(Frames) /\ s = <<Head(s)>> \o Tail(s)
      /\ Range(s) = {Head(s)} \cup Range(Tail(s))
  BY <1>1, Pop
<1>3. Held(s) = {Head(s).at} \cup Held(Tail(s))
  BY <1>2 DEF Held
<1>4. /\ DOMAIN s = 1..Len(s) /\ Len(s) \in Nat /\ Len(s) >= 1
      /\ DOMAIN Tail(s) = 1..(Len(s) - 1) /\ Head(s) = s[1]
      /\ \A i \in DOMAIN Tail(s) : Tail(s)[i] = s[i + 1]
  BY <1>1
<1>5. ASSUME NEW i \in DOMAIN Tail(s)
      PROVE  i \in Nat /\ i + 1 \in DOMAIN s /\ i + 1 > 1 /\ Tail(s)[i] = s[i + 1]
  BY <1>4
<1>6. Stacked(Tail(s))
  <2>1. ASSUME NEW i \in DOMAIN Tail(s), NEW j \in DOMAIN Tail(s), i < j
        PROVE  Tail(s)[i].at \in Interrupts \/ Tail(s)[j].at = "popup.state"
    <3>1. i + 1 < j + 1
      BY <1>5, <2>1
    <3> QED
      BY <1>1, <1>5, <3>1 DEF Stacked
  <2>2. ASSUME NEW i \in DOMAIN Tail(s) PROVE Tail(s)[i].at \in Resting
    BY <1>1, <1>5 DEF Stacked
  <2> QED
    BY <2>1, <2>2 DEF Stacked
<1>7. ASSUME NEW f \in Range(Tail(s))
      PROVE  /\ f.at \in Resting
             /\ Head(s).at \notin Interrupts => f.at = "popup.state"
  <2>1. PICK i \in DOMAIN Tail(s) : f = Tail(s)[i]
    BY DEF Range
  <2>2. 1 \in DOMAIN s /\ 1 < i + 1 /\ i + 1 \in DOMAIN s /\ f = s[i + 1]
    BY <1>4, <1>5, <2>1
  <2> QED
    BY <1>1, <1>4, <2>2 DEF Stacked
<1> QED
  BY <1>2, <1>3, <1>6, <1>7 DEF Stack, StackOf, Held

\* Two frames are pushed one after the other.
LEMMA PushTwo ==
  ASSUME NEW s \in Seq(Frames), NEW a \in Frames, NEW b \in Frames
  PROVE <<a, b>> \o s = <<a>> \o (<<b>> \o s)
<1>1. <<a, b>> \o s \in Seq(Frames) /\ <<a>> \o (<<b>> \o s) \in Seq(Frames)
  OBVIOUS
<1>2. /\ Len(<<a, b>> \o s) = Len(s) + 2 /\ Len(<<a>> \o (<<b>> \o s)) = Len(s) + 2
      /\ Len(s) \in Nat
  OBVIOUS
<1>3. \A i \in 1..(Len(s) + 2) : (<<a, b>> \o s)[i] = (<<a>> \o (<<b>> \o s))[i]
  OBVIOUS
<1> QED
  BY <1>1, <1>2, <1>3, SeqEqual

LEMMA StackEmpty ==
  /\ <<>> \in Stack /\ Held(<<>>) = {}
  /\ \A s \in Stack : s \in Seq(Frames) /\ (Held(s) = {} <=> s = <<>>)
<1>1. \A s \in Stack : s \in Seq(Frames)
  BY DEF Stack, StackOf
<1>2. \A s \in Stack : Held(s) = {} <=> s = <<>>
  <2> TAKE s \in Stack
  <2>1. s = <<>> <=> Range(s) = {}
    BY <1>1, RangeOf
  <2>2. Held(s) = {} <=> Range(s) = {}
    BY DEF Held
  <2> QED
    BY <2>1, <2>2
<1>3. <<>> \in Stack
  BY DEF Stack, StackOf, Stacked
<1> QED
  BY <1>1, <1>2, <1>3

\* What cannot rest is on top.
LEMMA OnTop ==
  ASSUME NEW s \in Stack, NEW label \in Held(s), label \in Resting => FALSE
  PROVE  s # <<>> /\ Head(s).at = label
<1>1. s # <<>>
  BY StackEmpty
<1> QED
  BY <1>1, StackPopped

\* The revocations that a stack has under way.
Revocations(s) == {f \in Range(s) : f.at \in Revoking}

LEMMA ReturnedStack ==
  ASSUME NEW s \in Stored, NEW rest \in Stack, Held(rest) \subseteq Resting
  PROVE  LET p == Returned(s, rest) IN
         /\ p \in Stack /\ Held(p) = Held(rest) /\ Revocations(p) = Revocations(rest)
<1> DEFINE f == Head(rest)
           g == [f EXCEPT !.saw = s]
<1>1. ASSUME rest # <<>>, f.at \in UsesState
      PROVE  LET p == <<g>> \o Tail(rest) IN
             /\ p \in Stack /\ Held(p) = Held(rest) /\ Revocations(p) = Revocations(rest)
  <2>1. /\ f \in Frames /\ Tail(rest) \in Stack /\ Range(rest) = {f} \cup Range(Tail(rest))
        /\ Held(rest) = {f.at} \cup Held(Tail(rest)) /\ Held(Tail(rest)) \subseteq Resting
        /\ f.at \notin Interrupts => Held(Tail(rest)) \subseteq {"popup.state"}
    BY <1>1, StackPopped
  <2>2. g \in Frames /\ g.at = f.at
    BY <2>1, Resaw
  <2>3. /\ <<g>> \o Tail(rest) \in Stack /\ Range(<<g>> \o Tail(rest)) = {g} \cup Range(Tail(rest))
        /\ Held(<<g>> \o Tail(rest)) = {g.at} \cup Held(Tail(rest))
    BY <2>1, <2>2, StackPushed
  <2>4. f.at \notin Revoking
    BY <1>1 DEF UsesState, Revoking
  <2> HIDE DEF f, g
  <2>5. Revocations(<<g>> \o Tail(rest)) = Revocations(rest)
    BY <2>1, <2>2, <2>3, <2>4 DEF Revocations
  <2> QED
    BY <2>1, <2>2, <2>3, <2>5
<1> HIDE DEF f, g
<1>2. Returned(s, rest) = IF rest # <<>> /\ f.at \in UsesState THEN <<g>> \o Tail(rest) ELSE rest
  BY DEF Returned, f, g
<1> QED
  BY <1>1, <1>2

\* A pruning adds its write, and before it the revocation of a grant that has expired.
LEMMA PrunedStack ==
  ASSUME lastDoc \in Nat, lastPort \in Nat, None \notin expired,
         NEW s \in Stored, NEW rest \in Stack, Held(rest) \subseteq Resting
  PROVE  LET p == Pruned(s, rest) IN
         /\ p \in Stack /\ Held(rest) \subseteq Held(p)
         /\ Held(p) \subseteq Held(rest) \cup {"prune.write", "revoke.read"}
         /\ Revocations(rest) \subseteq Revocations(p)
         /\ \A f \in Revocations(p) \ Revocations(rest) : f.at = "revoke.read" /\ f.notify
<1> DEFINE live == Unexpired(s.pending)
           write(grant) == [Idle EXCEPT !.at = "prune.write",
                                        !.saw = [pending |-> live, grant |-> grant]]
           revoke == Revoke(s.grant, TRUE)
           written(grant) == <<write(grant)>> \o rest
<1>1. s.pending \in Seq(Requests) /\ s.grant \in Known \cup {None}
  BY DEF Stored, StoredIn
<1>2. live \in Seq(Requests)
  BY <1>1, FilteredType DEF Unexpired
<1>3. ASSUME NEW grant \in Known \cup {None}
      PROVE  /\ written(grant) \in Stack /\ Held(written(grant)) = {"prune.write"} \cup Held(rest)
             /\ Range(written(grant)) = {write(grant)} \cup Range(rest)
             /\ write(grant) \in Frames /\ write(grant).at = "prune.write"
  <2>1. [pending |-> live, grant |-> grant] \in Stored
    BY <1>2 DEF Stored, StoredIn
  <2>2. write(grant) \in Frames /\ write(grant).at = "prune.write"
    BY <2>1, PruneFrame
  <2> HIDE DEF write
  <2> QED
    BY <2>2, StackPushed DEF Interrupts
<1> HIDE DEF write
<1>4. ASSUME NEW grant \in Known \cup {None}
      PROVE  Revocations(written(grant)) = Revocations(rest)
  BY <1>3 DEF Revocations, Revoking
<1>5. ASSUME s.grant \in expired, s.grant # None
      PROVE  LET p == <<revoke, write(None)>> \o rest IN
             /\ p \in Stack /\ Held(p) = {"prune.write", "revoke.read"} \cup Held(rest)
             /\ Revocations(p) = {revoke} \cup Revocations(rest)
             /\ revoke.at = "revoke.read" /\ revoke.notify
  <2>1. revoke \in Frames /\ revoke.at = "revoke.read" /\ revoke.notify
    BY <1>1, <1>5, RevokeFrame
  <2> HIDE DEF revoke
  <2>2. /\ written(None) \in Stack /\ Held(written(None)) = {"prune.write"} \cup Held(rest)
        /\ Revocations(written(None)) = Revocations(rest)
    BY <1>3, <1>4
  <2>3. write(None) \in Frames /\ rest \in Seq(Frames)
    BY <1>3, StackEmpty
  <2>4. <<revoke, write(None)>> \o rest = <<revoke>> \o written(None)
    BY <2>1, <2>3, PushTwo
  <2> HIDE DEF written
  <2>5. Held(written(None)) \subseteq Resting /\ revoke.at \in Interrupts
    BY <2>1, <2>2 DEF Resting, Interrupts, Revoking
  <2>6. /\ <<revoke>> \o written(None) \in Stack
        /\ Held(<<revoke>> \o written(None)) = {revoke.at} \cup Held(written(None))
        /\ Range(<<revoke>> \o written(None)) = {revoke} \cup Range(written(None))
    BY <2>1, <2>2, <2>5, StackPushed
  <2>7. Revocations(<<revoke>> \o written(None)) = {revoke} \cup Revocations(written(None))
    BY <2>1, <2>6 DEF Revocations, Revoking
  <2> QED
    BY <2>1, <2>2, <2>4, <2>6, <2>7
<1>6. LET p == Returned(s, rest) IN
      /\ p \in Stack /\ Held(p) = Held(rest) /\ Revocations(p) = Revocations(rest)
  BY ReturnedStack
<1>7. Pruned(s, rest) = IF s.grant \in expired THEN <<revoke, write(None)>> \o rest
                        ELSE IF live # s.pending THEN written(s.grant) ELSE Returned(s, rest)
  BY DEF Pruned, write
<1> DEFINE p == Pruned(s, rest)
<1> HIDE DEF live, revoke, written, p
<1>8. CASE s.grant \in expired
  <2>1. s.grant # None
    BY <1>8
  <2>2. p = <<revoke, write(None)>> \o rest
    BY <1>7, <1>8 DEF p
  <2> QED
    BY <1>5, <1>8, <2>1, <2>2 DEF p
<1>9. CASE s.grant \notin expired /\ live # s.pending
  <2>1. p = written(s.grant)
    BY <1>7, <1>9 DEF p
  <2> QED
    BY <1>1, <1>3, <1>4, <2>1 DEF p
<1>10. CASE s.grant \notin expired /\ live = s.pending
  <2>1. p = Returned(s, rest)
    BY <1>7, <1>10 DEF p
  <2> QED
    BY <1>6, <2>1 DEF p
<1> QED
  BY <1>8, <1>9, <1>10

-----------------------------------------------------------------------------
(* The inductive invariant *)

Agreed == [request: Requests, tab: Tabs, doc: 1..lastDoc, url: Urls]

ToExt ==
  {m \in [m: {"auth", "register", "lease", "requested", "revoked", "execute"},
          to: Tasks \cup {None}, request: Requests \cup {None}, lease: Known \cup {None},
          command: Dispatched \cup {None}, ok: BOOLEAN, list: Seq(Requests)] :
     /\ m.m = "requested" => m.request # None
     /\ m.m \in {"lease", "revoked"} => m.lease # None
     /\ m.m = "execute" => m.command # None}

ToBroker ==
  {m \in [m: {"auth", "register", "grant", "revoke", "executed"}, to: Tasks \cup {None},
          request: Requests \cup {None}, lease: Known \cup {None}, tab: Tabs \cup {None},
          doc: 0..lastDoc, url: Urls \cup {None}, command: Dispatched \cup {None},
          ok: BOOLEAN] :
     /\ m.m = "grant" => m.request # None /\ m.tab # None /\ m.doc # 0 /\ m.url # None
     /\ m.m = "revoke" => m.lease # None}

TasksTyped == task \in [Tasks -> Stack] /\ storage \in Stored /\ started \in 0..MaxHandlers

WorkerTyped ==
  /\ awake \in BOOLEAN /\ brokerConnected \in BOOLEAN /\ reconnectTimer \in BOOLEAN
  /\ authQueue \in Seq(Tasks) /\ expiryTimer \in Known \cup {None} /\ dueRevokes \subseteq Known

\* Only a port that was opened can close.
PortsTyped ==
  /\ lastPort \in 0..MaxPorts /\ nativePort \in 0..lastPort /\ authenticated \in 0..lastPort
  /\ portState \in {"open", "lost", "closed"}
  /\ closing \in Nat /\ closing + (IF PortOpen THEN 1 ELSE 0) <= lastPort

PagesTyped ==
  /\ lastDoc \in 0..MaxDocs /\ page \in [Tabs -> [url: Urls \cup {None}, bridge: 0..lastDoc]]
  /\ tabEvents \subseteq Tabs /\ torn \subseteq Known /\ effect \in [Commands -> Effect]

BrokerTyped ==
  /\ standing \in [Leases -> {"unissued", "live", "over"}]
  /\ under \in [Commands -> Known \cup {None}]
  /\ outcome \in [Commands -> {"idle", "running", "result", "error"}]
  /\ admitted \in BOOLEAN /\ joined \in BOOLEAN /\ registered \in BOOLEAN
  /\ asked \in [Requests -> {"unused", "pending", "closed"}]
  /\ granted \in [Leases -> Consent] /\ \A l \in Known : granted[l] \in Agreed
  /\ answering \subseteq [lease: Known, to: Tasks \cup {None}]
  /\ expired \subseteq Requests \cup Leases

WireTyped == toExt \in Seq(ToExt) /\ toBroker \in Seq(ToBroker)

\* The queue of authentications has every handler that waits for its turn or its answer,
\* once, and only its head waits for an answer.
Taking == {"auth.turn", "auth.wait"}

QueueInv ==
  /\ \A i, j \in DOMAIN authQueue : i # j => authQueue[i] # authQueue[j]
  /\ \A t \in Tasks : t \in Range(authQueue) <=> Held(task[t]) \cap Taking # {}
  /\ \A t \in Tasks : "auth.wait" \in Held(task[t]) => Head(authQueue) = t

\* A worker that has stopped runs nothing; one without a port has a plan to get one.
Planning == {"init.connect", "lost.reconnect"}

PlanInv ==
  /\ ~awake => nativePort = 0 /\ \A t \in Tasks : task[t] = <<>>
  /\ awake /\ nativePort = 0 =>
       reconnectTimer \/ \E t \in Tasks : Held(task[t]) \cap Planning # {}

IInv ==
  /\ TasksTyped /\ WorkerTyped /\ PortsTyped /\ PagesTyped /\ BrokerTyped /\ WireTyped
  /\ QueueInv /\ PlanInv

-----------------------------------------------------------------------------
(* What every step needs *)

pools == <<standing, under, lastDoc, lastPort>>

LEMMA PoolsKept ==
  ASSUME UNCHANGED pools
  PROVE  /\ Known' = Known /\ Dispatched' = Dispatched /\ Stored' = Stored
         /\ Frames' = Frames /\ Stack' = Stack /\ Agreed' = Agreed
         /\ ToExt' = ToExt /\ ToBroker' = ToBroker
<1>1. Known' = Known
  BY DEF pools, Known
<1>2. Dispatched' = Dispatched
  BY <1>1 DEF pools, Dispatched
<1>3. Stored' = Stored /\ Frames' = Frames
  BY <1>1, <1>2 DEF pools, Stored, Frames
<1>4. Stack' = Stack
  BY <1>3 DEF Stack
<1>5. Agreed' = Agreed /\ ToExt' = ToExt /\ ToBroker' = ToBroker
  BY <1>1, <1>2 DEF pools, Agreed, ToExt, ToBroker
<1> QED
  BY <1>1, <1>2, <1>3, <1>4, <1>5

LEMMA PoolsGrow ==
  ASSUME Known \subseteq Known', Dispatched \subseteq Dispatched',
         lastDoc \in Nat, lastDoc' \in Nat, lastDoc <= lastDoc',
         lastPort \in Nat, lastPort' \in Nat, lastPort <= lastPort'
  PROVE  /\ Stored \subseteq Stored' /\ Frames \subseteq Frames' /\ Stack \subseteq Stack'
         /\ Agreed \subseteq Agreed' /\ ToExt \subseteq ToExt' /\ ToBroker \subseteq ToBroker'
         /\ Seq(ToExt) \subseteq Seq(ToExt') /\ Seq(ToBroker) \subseteq Seq(ToBroker')
         /\ 0..lastDoc \subseteq 0..lastDoc' /\ 0..lastPort \subseteq 0..lastPort'
<1>1. Stored \subseteq Stored' /\ Frames \subseteq Frames'
  BY FramesGrow DEF Stored, Frames
<1>2. Stack \subseteq Stack'
  BY <1>1 DEF Stack, StackOf
<1>3. 0..lastDoc \subseteq 0..lastDoc' /\ 1..lastDoc \subseteq 1..lastDoc'
  OBVIOUS
<1>4. Agreed \subseteq Agreed'
  BY <1>3 DEF Agreed
<1>5. ToExt \subseteq ToExt'
  BY DEF ToExt
<1>6. ToBroker \subseteq ToBroker'
  BY <1>3 DEF ToBroker
<1>7. 0..lastPort \subseteq 0..lastPort'
  OBVIOUS
<1> QED
  BY <1>1, <1>2, <1>3, <1>4, <1>5, <1>6, <1>7

\* What is known of the handler that takes a step.
LEMMA AtTop ==
  ASSUME IInv, NEW t \in Tasks, task[t] # <<>>
  PROVE  LET f == Top(t)
             rest == Rest(t) IN
         /\ f \in Frames /\ rest \in Stack /\ task[t] = <<f>> \o rest
         /\ Range(task[t]) = {f} \cup Range(rest) /\ Held(task[t]) = {f.at} \cup Held(rest)
         /\ Held(rest) \subseteq Resting
         /\ f.at \notin Interrupts => Held(rest) \subseteq {"popup.state"}
         /\ awake /\ lastDoc \in Nat /\ lastPort \in Nat /\ None \notin expired
<1>1. task[t] \in Stack
  BY DEF IInv, TasksTyped
<1>2. awake
  BY DEF IInv, PlanInv
<1>3. lastDoc \in Nat /\ lastPort \in Nat
  BY DEF IInv, PagesTyped, PortsTyped
<1>4. None \notin expired
  BY ExtensionAssumption DEF IInv, BrokerTyped
<1> QED
  BY <1>1, <1>2, <1>3, <1>4, StackPopped DEF Top, Rest

\* A step of a handler that plans nothing, takes no part in an authentication and ends
\* neither.
Marked == Taking \cup Planning

LEMMA Steady ==
  ASSUME IInv, NEW t \in Tasks, NEW new \in Stack, UNCHANGED pools,
         task' = [task EXCEPT ![t] = new], awake \/ new = <<>>,
         Held(new) \cap Marked = Held(task[t]) \cap Marked,
         UNCHANGED <<awake, nativePort, reconnectTimer, authQueue>>,
         storage' \in Stored, started' \in 0..MaxHandlers
  PROVE  TasksTyped' /\ QueueInv' /\ PlanInv'
<1>1. task' \in [Tasks -> Stack] /\ task'[t] = new /\ \A u \in Tasks \ {t} : task'[u] = task[u]
  BY DEF IInv, TasksTyped
<1>2. TasksTyped'
  BY <1>1, PoolsKept DEF TasksTyped
<1>3. ASSUME NEW u \in Tasks
      PROVE  Held(task'[u]) \cap Marked = Held(task[u]) \cap Marked
  BY <1>1
<1>4. ASSUME NEW u \in Tasks
      PROVE  /\ Held(task'[u]) \cap Taking = Held(task[u]) \cap Taking
             /\ Held(task'[u]) \cap Planning = Held(task[u]) \cap Planning
             /\ "auth.wait" \in Held(task'[u]) <=> "auth.wait" \in Held(task[u])
  BY <1>3 DEF Marked, Taking
<1>5. QueueInv'
  BY <1>4 DEF IInv, QueueInv
<1>6. PlanInv'
  BY <1>1, <1>4 DEF IInv, PlanInv
<1> QED
  BY <1>2, <1>5, <1>6

\* The parts of the invariant that a step leaves alone.
LEMMA Kept ==
  ASSUME IInv, UNCHANGED pools
  PROVE  /\ UNCHANGED <<awake, brokerConnected, reconnectTimer, authQueue, expiryTimer,
                        dueRevokes>> => WorkerTyped'
         /\ UNCHANGED <<ports, authenticated, closing>> => PortsTyped'
         /\ UNCHANGED <<browser, history>> => PagesTyped'
         /\ UNCHANGED <<broker, expired>> => BrokerTyped'
         /\ UNCHANGED wire => WireTyped'
<1> USE PoolsKept DEF IInv, pools
<1>1. UNCHANGED <<awake, brokerConnected, reconnectTimer, authQueue, expiryTimer, dueRevokes>>
        => WorkerTyped'
  BY DEF WorkerTyped
<1>2. UNCHANGED <<ports, authenticated, closing>> => PortsTyped'
  BY DEF PortsTyped, ports, PortOpen
<1>3. UNCHANGED <<browser, history>> => PagesTyped'
  BY DEF PagesTyped, browser, history
<1>4. UNCHANGED <<broker, expired>> => BrokerTyped'
  BY DEF BrokerTyped, broker, authority, connection
<1>5. UNCHANGED wire => WireTyped'
  BY DEF WireTyped, wire
<1> QED
  BY <1>1, <1>2, <1>3, <1>4, <1>5

\* What is posted on a port.
MessagesIn(ms) ==
  [m: ms, to: Tasks \cup {None},
   request: Requests \cup {None}, lease: Known \cup {None}, tab: Tabs \cup {None},
   doc: 0..lastDoc, url: Urls \cup {None}, command: Dispatched \cup {None}, ok: BOOLEAN]

LEMMA MessageFields ==
  ASSUME lastDoc \in Nat, NEW to \in Tasks \cup {None},
         NEW m \in {"auth", "register", "grant", "revoke", "executed"}
  PROVE  /\ Message(m, to) \in MessagesIn({m}) /\ Message(m, to).m = m
         /\ Message(m, to).to = to
         /\ m \notin {"grant", "revoke"} => Message(m, to) \in ToBroker
<1>1. 0 \in 0..lastDoc /\ FALSE \in BOOLEAN
  OBVIOUS
<1> QED
  BY <1>1 DEF Message, MessagesIn, ToBroker

LEMMA RevokeMessage ==
  ASSUME lastDoc \in Nat, NEW l \in Known
  PROVE  LET q == [Message("revoke", None) EXCEPT !.lease = l] IN
         q \in ToBroker /\ q.m = "revoke" /\ q.lease = l /\ q.to = None
<1>1. Message("revoke", None) \in MessagesIn({"revoke"}) /\ Message("revoke", None).to = None
  BY MessageFields
<1>2. l # None
  BY ExtensionAssumption DEF Known
<1> QED
  BY <1>1, <1>2 DEF MessagesIn, ToBroker

LEMMA PostedTyped ==
  ASSUME WireTyped, NEW p, NEW q \in ToBroker
  PROVE  Posted(p, q) \in Seq(ToBroker)
BY DEF Posted, WireTyped

-----------------------------------------------------------------------------
(* pruneExpiredState, revokeGrant *)

LEMMA PruneWriteKeeps ==
  ASSUME IInv, NEW t \in Tasks, PruneWrite(t)
  PROVE  IInv'
<1> DEFINE f == Top(t)
           rest == Rest(t)
           new == Returned(f.saw, rest)
<1>1. /\ f \in Frames /\ rest \in Stack /\ f.at = "prune.write" /\ awake
      /\ Held(task[t]) = {f.at} \cup Held(rest) /\ Held(rest) \subseteq Resting
  BY AtTop DEF PruneWrite, At
<1>2. f.saw \in Stored
  BY <1>1, FrameFields
<1>3. new \in Stack /\ Held(new) = Held(rest)
  BY <1>1, <1>2, ReturnedStack
<1>4. /\ UNCHANGED <<worker, browser, wire, broker, expired, history>>
      /\ UNCHANGED pools /\ UNCHANGED started
      /\ task' = [task EXCEPT ![t] = new] /\ storage' = f.saw
  BY DEF PruneWrite, Continue, pools, broker, authority, browser, worker, ports
<1> HIDE DEF new, f, rest
<1>5. Held(new) \cap Marked = Held(task[t]) \cap Marked
  BY <1>1, <1>3 DEF Marked, Taking, Planning
<1>6. TasksTyped' /\ QueueInv' /\ PlanInv'
  <2>1. UNCHANGED <<awake, nativePort, reconnectTimer, authQueue>>
    BY <1>4 DEF worker, ports, session, timers
  <2>2. storage' \in Stored /\ started' \in 0..MaxHandlers
    BY <1>2, <1>4 DEF IInv, TasksTyped
  <2> QED
    BY <1>1, <1>3, <1>4, <1>5, <2>1, <2>2, Steady
<1>7. WorkerTyped' /\ PortsTyped' /\ PagesTyped' /\ BrokerTyped' /\ WireTyped'
  BY <1>4, Kept DEF worker, ports, session, timers, broker, connection
<1> QED
  BY <1>6, <1>7 DEF IInv

LEMMA RevokeReadKeeps ==
  ASSUME IInv, NEW t \in Tasks, RevokeRead(t)
  PROVE  IInv'
<1> DEFINE f == Top(t)
           rest == Rest(t)
           g == [f EXCEPT !.at = "revoke.teardown", !.saw = storage]
           new == IF storage.grant = f.lease THEN <<g>> \o rest ELSE rest
<1>1. /\ f \in Frames /\ rest \in Stack /\ f.at = "revoke.read" /\ awake
      /\ Held(task[t]) = {f.at} \cup Held(rest) /\ Held(rest) \subseteq Resting
  BY AtTop DEF RevokeRead, At
<1>2. /\ UNCHANGED <<worker, storage, browser, wire, broker, expired, history>>
      /\ UNCHANGED pools /\ UNCHANGED started
      /\ task' = [task EXCEPT ![t] = new]
  BY DEF RevokeRead, Continue, Return, pools, broker, authority, browser, worker, ports
<1> HIDE DEF f, rest
<1>3. g \in Frames /\ g.at = "revoke.teardown"
  <2>1. storage \in Stored /\ f.lease # None
    BY <1>1, FrameFields DEF IInv, TasksTyped, Proper, Revoking
  <2>2. g.at = "revoke.teardown" /\ g.lease = f.lease /\ (Proper(g) => g \in Frames)
    <3>1. "revoke.teardown" \in Labels
      BY DEF Labels
    <3> QED
      BY <1>1, <2>1, <3>1 DEF Frames, FramesIn, FieldsIn, Stored
  <2>3. Proper(g)
    BY <2>1, <2>2 DEF Proper, Revoking, Answered, Executing, Located, Identified
  <2> QED
    BY <2>2, <2>3
<1>4. new \in Stack /\ Held(new) \subseteq {"revoke.teardown"} \cup Held(rest)
      /\ Held(rest) \subseteq Held(new)
  <2> HIDE DEF g
  <2>1. <<g>> \o rest \in Stack /\ Held(<<g>> \o rest) = {g.at} \cup Held(rest)
    BY <1>1, <1>3, StackPushed DEF Interrupts, Revoking
  <2> QED
    BY <1>1, <1>3, <2>1
<1> HIDE DEF new
<1>5. Held(new) \cap Marked = Held(task[t]) \cap Marked
  BY <1>1, <1>4 DEF Marked, Taking, Planning
<1>6. TasksTyped' /\ QueueInv' /\ PlanInv'
  <2>1. UNCHANGED <<awake, nativePort, reconnectTimer, authQueue>>
    BY <1>2 DEF worker, ports, session, timers
  <2>2. storage' \in Stored /\ started' \in 0..MaxHandlers
    BY <1>2 DEF IInv, TasksTyped
  <2> QED
    BY <1>1, <1>2, <1>4, <1>5, <2>1, <2>2, Steady
<1>7. WorkerTyped' /\ PortsTyped' /\ PagesTyped' /\ BrokerTyped' /\ WireTyped'
  BY <1>2, Kept DEF worker, ports, session, timers, broker, connection
<1> QED
  BY <1>6, <1>7 DEF IInv

\* The bridge of a page is gone, or stays.
LEMMA TornDownTyped ==
  ASSUME PagesTyped, NEW tab, NEW d
  PROVE  TornDown(tab, d) \in [Tabs -> [url: Urls \cup {None}, bridge: 0..lastDoc]]
<1>1. lastDoc \in Nat /\ 0 \in 0..lastDoc
  BY DEF PagesTyped
<1> QED
  BY <1>1 DEF PagesTyped, TornDown

LEMMA RevokeTeardownKeeps ==
  ASSUME IInv, NEW t \in Tasks, RevokeTeardown(t)
  PROVE  IInv'
<1> DEFINE f == Top(t)
           rest == Rest(t)
           g == [f EXCEPT !.at = "revoke.write"]
           new == <<g>> \o rest
<1>1. /\ f \in Frames /\ rest \in Stack /\ f.at = "revoke.teardown" /\ awake
      /\ Held(task[t]) = {f.at} \cup Held(rest) /\ Held(rest) \subseteq Resting
  BY AtTop DEF RevokeTeardown, At
<1>2. f.lease \in Known
  BY <1>1, FrameFields DEF Proper, Revoking
<1>3. /\ UNCHANGED <<worker, storage, lastDoc, tabEvents, wire, broker, expired, effect>>
      /\ UNCHANGED pools /\ UNCHANGED started
      /\ task' = [task EXCEPT ![t] = new] /\ torn' = torn \cup {f.lease}
      /\ page' = TornDown(granted[f.lease].tab, granted[f.lease].doc)
  BY DEF RevokeTeardown, Goto, Continue, pools, broker, authority, worker, ports
<1> HIDE DEF f, rest
<1>4. g \in Frames /\ g.at = "revoke.write"
  <2>1. g.at = "revoke.write" /\ g.lease = f.lease /\ (Proper(g) => g \in Frames)
    <3>1. "revoke.write" \in Labels
      BY DEF Labels
    <3> QED
      BY <1>1, <3>1, Relabelled
  <2>2. f.lease # None
    BY <1>2, ExtensionAssumption DEF Known
  <2>3. Proper(g)
    BY <2>1, <2>2 DEF Proper, Revoking, Answered, Executing, Located, Identified
  <2> QED
    BY <2>1, <2>3
<1> HIDE DEF g
<1>5. new \in Stack /\ Held(new) = {"revoke.write"} \cup Held(rest)
  BY <1>1, <1>4, StackPushed DEF Interrupts, Revoking
<1> HIDE DEF new
<1>6. Held(new) \cap Marked = Held(task[t]) \cap Marked
  BY <1>1, <1>5 DEF Marked, Taking, Planning
<1>7. TasksTyped' /\ QueueInv' /\ PlanInv'
  <2>1. UNCHANGED <<awake, nativePort, reconnectTimer, authQueue>>
    BY <1>3 DEF worker, ports, session, timers
  <2>2. storage' \in Stored /\ started' \in 0..MaxHandlers
    BY <1>3 DEF IInv, TasksTyped
  <2> QED
    BY <1>1, <1>3, <1>5, <1>6, <2>1, <2>2, Steady
<1>8. WorkerTyped' /\ PortsTyped' /\ BrokerTyped' /\ WireTyped'
  BY <1>3, Kept DEF worker, ports, session, timers, broker, connection
<1>9. PagesTyped'
  <2>1. page' \in [Tabs -> [url: Urls \cup {None}, bridge: 0..lastDoc]]
    BY <1>3, TornDownTyped DEF IInv
  <2> QED
    BY <1>2, <1>3, <2>1, PoolsKept DEF IInv, PagesTyped
<1> QED
  BY <1>7, <1>8, <1>9 DEF IInv

LEMMA RevokeWriteKeeps ==
  ASSUME IInv, NEW t \in Tasks, RevokeWrite(t)
  PROVE  IInv'
<1> DEFINE f == Top(t)
           rest == Rest(t)
           written == [f.saw EXCEPT !.grant = None]
           last == [Idle EXCEPT !.at = "revoke.notify", !.lease = f.lease, !.notify = f.notify]
           next == Pruned(written, <<last>> \o rest)
           new == IF Head(next) = last THEN rest ELSE next
<1>1. /\ f \in Frames /\ rest \in Stack /\ f.at = "revoke.write" /\ awake
      /\ Held(task[t]) = {f.at} \cup Held(rest) /\ Held(rest) \subseteq Resting
      /\ lastDoc \in Nat /\ lastPort \in Nat /\ None \notin expired
  BY AtTop DEF RevokeWrite, At
<1>2. f.lease \in Known /\ f.notify \in BOOLEAN /\ f.saw \in Stored
  BY <1>1, FrameFields DEF Proper, Revoking
<1>3. /\ UNCHANGED <<awake, ports, session, reconnectTimer, dueRevokes, browser, toExt, broker,
                     expired, history>>
      /\ UNCHANGED pools /\ UNCHANGED started
      /\ task' = [task EXCEPT ![t] = new] /\ storage' = written /\ expiryTimer' = None
      /\ toBroker' = IF Head(next) = last /\ f.notify THEN TellRevoked(f.lease) ELSE toBroker
  BY DEF RevokeWrite, Return, Continue, pools, broker, authority, browser, ports
<1> HIDE DEF f, rest
<1>4. written \in Stored
  BY <1>2 DEF Stored, StoredIn
<1>5. last \in Frames /\ last.at = "revoke.notify"
  <2>1. last = NotifyFrame(f.lease, f.notify)
    BY DEF NotifyFrame
  <2> QED
    BY <1>1, <1>2, <2>1, RevokeFrame
<1>6. toBroker' \in Seq(ToBroker)
  <2>1. TellRevoked(f.lease) \in Seq(ToBroker)
    BY <1>1, <1>2, RevokeMessage, PostedTyped DEF TellRevoked, IInv
  <2> QED
    BY <1>3, <2>1 DEF IInv, WireTyped
<1> HIDE DEF written, last
<1>7. <<last>> \o rest \in Stack /\ Held(<<last>> \o rest) = {"revoke.notify"} \cup Held(rest)
  BY <1>1, <1>5, StackPushed DEF Interrupts, Revoking
<1>8. /\ next \in Stack /\ {"revoke.notify"} \cup Held(rest) \subseteq Held(next)
      /\ Held(next) \subseteq {"revoke.notify", "prune.write", "revoke.read"} \cup Held(rest)
  <2>1. Held(<<last>> \o rest) \subseteq Resting
    BY <1>1, <1>7 DEF Resting
  <2> QED
    BY <1>1, <1>4, <1>7, <2>1, PrunedStack
<1> HIDE DEF next
<1>9. /\ new \in Stack /\ Held(rest) \subseteq Held(new)
      /\ Held(new) \subseteq {"revoke.notify", "prune.write", "revoke.read"} \cup Held(rest)
  BY <1>1, <1>8
<1> HIDE DEF new
<1>10. Held(new) \cap Marked = Held(task[t]) \cap Marked
  BY <1>1, <1>9 DEF Marked, Taking, Planning
<1>11. TasksTyped' /\ QueueInv' /\ PlanInv'
  <2>1. UNCHANGED <<awake, nativePort, reconnectTimer, authQueue>>
    BY <1>3 DEF ports, session
  <2>2. storage' \in Stored /\ started' \in 0..MaxHandlers
    BY <1>3, <1>4 DEF IInv, TasksTyped
  <2> QED
    BY <1>1, <1>3, <1>9, <1>10, <2>1, <2>2, Steady
<1>12. PortsTyped' /\ PagesTyped' /\ BrokerTyped'
  BY <1>3, Kept DEF session, broker, connection
<1>13. WorkerTyped' /\ WireTyped'
  BY <1>3, <1>6, PoolsKept DEF IInv, WorkerTyped, WireTyped, session
<1> QED
  BY <1>11, <1>12, <1>13 DEF IInv

LEMMA RevokeNotifyKeeps ==
  ASSUME IInv, NEW t \in Tasks, RevokeNotify(t)
  PROVE  IInv'
<1> DEFINE f == Top(t)
           rest == Rest(t)
<1>1. /\ f \in Frames /\ rest \in Stack /\ f.at = "revoke.notify" /\ awake
      /\ Held(task[t]) = {f.at} \cup Held(rest) /\ lastDoc \in Nat
  BY AtTop DEF RevokeNotify, At
<1>2. f.lease \in Known
  BY <1>1, FrameFields DEF Proper, Revoking
<1>3. /\ UNCHANGED <<worker, storage, browser, toExt, broker, expired, history>>
      /\ UNCHANGED pools /\ UNCHANGED started
      /\ task' = [task EXCEPT ![t] = rest]
      /\ toBroker' = IF f.notify THEN TellRevoked(f.lease) ELSE toBroker
  BY DEF RevokeNotify, Return, Continue, pools, broker, authority, browser, worker, ports
<1>4. toBroker' \in Seq(ToBroker)
  <2>1. TellRevoked(f.lease) \in Seq(ToBroker)
    BY <1>1, <1>2, RevokeMessage, PostedTyped DEF TellRevoked, IInv
  <2> QED
    BY <1>3, <2>1 DEF IInv, WireTyped
<1> HIDE DEF f, rest
<1>5. Held(rest) \cap Marked = Held(task[t]) \cap Marked
  BY <1>1 DEF Marked, Taking, Planning
<1>6. TasksTyped' /\ QueueInv' /\ PlanInv'
  <2>1. UNCHANGED <<awake, nativePort, reconnectTimer, authQueue>>
    BY <1>3 DEF worker, ports, session, timers
  <2>2. storage' \in Stored /\ started' \in 0..MaxHandlers
    BY <1>3 DEF IInv, TasksTyped
  <2> QED
    BY <1>1, <1>3, <1>5, <2>1, <2>2, Steady
<1>7. WorkerTyped' /\ PortsTyped' /\ PagesTyped' /\ BrokerTyped'
  BY <1>3, Kept DEF worker, ports, session, timers, broker, connection
<1>8. WireTyped'
  BY <1>3, <1>4, PoolsKept DEF IInv, WireTyped
<1> QED
  BY <1>6, <1>7, <1>8 DEF IInv

-----------------------------------------------------------------------------
(* The queue of authentications *)

LEMMA QueueJoined ==
  ASSUME IInv, NEW t \in Tasks, Held(task[t]) \cap Taking = {},
         authQueue' = Append(authQueue, t),
         \A u \in Tasks \ {t} : task'[u] = task[u],
         Held(task'[t]) \cap Taking # {}, "auth.wait" \notin Held(task'[t])
  PROVE  QueueInv' /\ authQueue' \in Seq(Tasks)
<1> DEFINE q == authQueue
<1>1. q \in Seq(Tasks) /\ QueueInv /\ t \notin Range(q)
  BY DEF IInv, WorkerTyped, QueueInv
<1>2. /\ authQueue' \in Seq(Tasks) /\ Len(authQueue') = Len(q) + 1 /\ Len(q) \in Nat
      /\ DOMAIN q = 1..Len(q) /\ DOMAIN authQueue' = 1..(Len(q) + 1)
      /\ authQueue'[Len(q) + 1] = t /\ \A i \in 1..Len(q) : authQueue'[i] = q[i]
  BY <1>1
<1>3. \A i \in DOMAIN q : q[i] # t
  BY <1>1 DEF Range
<1>4. \A i, j \in DOMAIN authQueue' : i # j => authQueue'[i] # authQueue'[j]
  <2> TAKE i, j \in DOMAIN authQueue'
  <2>1. /\ i \in 1..Len(q) \/ i = Len(q) + 1
        /\ j \in 1..Len(q) \/ j = Len(q) + 1
    BY <1>2
  <2>2. \A a, b \in DOMAIN q : a # b => q[a] # q[b]
    BY <1>1 DEF QueueInv
  <2> QED
    BY <1>2, <1>3, <2>1, <2>2
<1>5. ASSUME NEW u \in Tasks
      PROVE  u \in Range(authQueue') <=> u = t \/ u \in Range(q)
  <2>1. ASSUME u \in Range(authQueue') PROVE u = t \/ u \in Range(q)
    <3>1. PICK i \in DOMAIN authQueue' : authQueue'[i] = u
      BY <2>1 DEF Range
    <3>2. i \in 1..Len(q) \/ i = Len(q) + 1
      BY <1>2
    <3> QED
      BY <1>2, <3>1, <3>2 DEF Range
  <2>2. t \in Range(authQueue')
    <3>1. Len(q) + 1 \in DOMAIN authQueue'
      BY <1>2
    <3> QED
      BY <1>2, <3>1 DEF Range
  <2>3. ASSUME u \in Range(q) PROVE u \in Range(authQueue')
    <3>1. PICK i \in DOMAIN q : q[i] = u
      BY <2>3 DEF Range
    <3>2. i \in DOMAIN authQueue' /\ authQueue'[i] = u
      BY <1>2, <3>1
    <3> QED
      BY <3>2 DEF Range
  <2> QED
    BY <2>1, <2>2, <2>3
<1>6. ASSUME NEW u \in Tasks
      PROVE  u \in Range(authQueue') <=> Held(task'[u]) \cap Taking # {}
  BY <1>1, <1>5 DEF QueueInv
<1>7. ASSUME NEW u \in Tasks, "auth.wait" \in Held(task'[u])
      PROVE  Head(authQueue') = u
  <2>1. u # t /\ task'[u] = task[u]
    BY <1>7
  <2>2. Head(q) = u /\ u \in Range(q)
    BY <1>1, <1>7, <2>1 DEF QueueInv, Taking
  <2>3. q # <<>>
    BY <1>1, <2>2, RangeOf
  <2> QED
    BY <1>1, <2>2, <2>3
<1>8. \A u \in Tasks : "auth.wait" \in Held(task'[u]) => Head(authQueue') = u
  BY <1>7
<1>9. \A u \in Tasks : u \in Range(authQueue)' <=> Held(task[u])' \cap Taking # {}
  BY <1>6
<1> QED
  BY <1>2, <1>4, <1>8, <1>9 DEF QueueInv

LEMMA QueueLeft ==
  ASSUME IInv, NEW t \in Tasks, Held(task[t]) \cap Taking # {}, Head(authQueue) = t,
         authQueue' = Tail(authQueue),
         \A u \in Tasks \ {t} : task'[u] = task[u], Held(task'[t]) \cap Taking = {}
  PROVE  QueueInv' /\ authQueue' \in Seq(Tasks)
<1> DEFINE q == authQueue
<1>1. q \in Seq(Tasks) /\ QueueInv /\ t \in Range(q) /\ q # <<>>
  <2>1. q \in Seq(Tasks) /\ QueueInv /\ t \in Range(q)
    BY DEF IInv, WorkerTyped, QueueInv
  <2> QED
    BY <2>1, RangeOf
<1>2. /\ authQueue' \in Seq(Tasks) /\ Len(authQueue') = Len(q) - 1 /\ Len(q) \in Nat
      /\ Len(q) >= 1 /\ DOMAIN q = 1..Len(q) /\ DOMAIN authQueue' = 1..(Len(q) - 1)
      /\ q[1] = t /\ \A i \in 1..(Len(q) - 1) : authQueue'[i] = q[i + 1]
  BY <1>1
<1>3. \A i \in 1..(Len(q) - 1) : i + 1 \in 1..Len(q) /\ i + 1 # 1
  BY <1>2
<1>4. \A a, b \in DOMAIN q : a # b => q[a] # q[b]
  BY <1>1 DEF QueueInv
<1>5. \A i, j \in DOMAIN authQueue' : i # j => authQueue'[i] # authQueue'[j]
  <2> TAKE i, j \in DOMAIN authQueue'
  <2>1. i + 1 \in DOMAIN q /\ j + 1 \in DOMAIN q /\ (i # j => i + 1 # j + 1)
    BY <1>2
  <2> QED
    BY <1>2, <1>4, <2>1
<1>6. ASSUME NEW u \in Tasks
      PROVE  u \in Range(authQueue') <=> u # t /\ u \in Range(q)
  <2>1. ASSUME u \in Range(authQueue') PROVE u # t /\ u \in Range(q)
    <3>1. PICK i \in DOMAIN authQueue' : authQueue'[i] = u
      BY <2>1 DEF Range
    <3>2. i + 1 \in DOMAIN q /\ 1 \in DOMAIN q /\ i + 1 # 1 /\ q[i + 1] = u
      BY <1>2, <1>3, <3>1
    <3> QED
      BY <1>2, <1>4, <3>2 DEF Range
  <2>2. ASSUME u # t, u \in Range(q) PROVE u \in Range(authQueue')
    <3>1. PICK i \in DOMAIN q : q[i] = u
      BY <2>2 DEF Range
    <3>2. i # 1 /\ i \in 1..Len(q)
      BY <1>2, <2>2, <3>1
    <3>3. i - 1 \in DOMAIN authQueue' /\ (i - 1) + 1 = i
      BY <1>2, <3>2
    <3>4. authQueue'[i - 1] = u
      BY <1>2, <3>1, <3>3
    <3> QED
      BY <3>3, <3>4 DEF Range
  <2> QED
    BY <2>1, <2>2
<1>7. ASSUME NEW u \in Tasks
      PROVE  u \in Range(authQueue') <=> Held(task'[u]) \cap Taking # {}
  BY <1>1, <1>6 DEF QueueInv
<1>8. ASSUME NEW u \in Tasks PROVE "auth.wait" \notin Held(task'[u])
  BY <1>1 DEF QueueInv, Taking
<1>9. \A u \in Tasks : u \in Range(authQueue)' <=> Held(task[u])' \cap Taking # {}
  BY <1>7
<1> QED
  BY <1>2, <1>5, <1>8, <1>9 DEF QueueInv

LEMMA QueueWaits ==
  ASSUME IInv, NEW t \in Tasks, Held(task[t]) \cap Taking # {}, Head(authQueue) = t,
         UNCHANGED authQueue,
         \A u \in Tasks \ {t} : task'[u] = task[u], Held(task'[t]) \cap Taking # {}
  PROVE  QueueInv'
<1>1. QueueInv
  BY DEF IInv
<1>2. \A u \in Tasks : u \in Range(authQueue)' <=> Held(task[u])' \cap Taking # {}
  BY <1>1 DEF QueueInv
<1>3. ASSUME NEW u \in Tasks, "auth.wait" \in Held(task'[u])
      PROVE  Head(authQueue) = u
  BY <1>1, <1>3 DEF QueueInv
<1> QED
  BY <1>1, <1>2, <1>3 DEF QueueInv

LEMMA QueueKept ==
  ASSUME IInv, UNCHANGED authQueue,
         \A u \in Tasks : Held(task'[u]) \cap Taking = Held(task[u]) \cap Taking
  PROVE  QueueInv'
<1>1. ASSUME NEW u \in Tasks
      PROVE  "auth.wait" \in Held(task'[u]) => "auth.wait" \in Held(task[u])
  BY DEF Taking
<1> QED
  BY <1>1 DEF IInv, QueueInv

-----------------------------------------------------------------------------
(* New stacks *)

LEMMA OneFrame ==
  ASSUME NEW F, NEW f \in F
  PROVE  <<f>> \in StackOf(F) /\ Held(<<f>>) = {f.at} /\ Range(<<f>>) = {f}
<1>1. <<f>> \in Seq(F) /\ DOMAIN <<f>> = {1} /\ <<f>>[1] = f
  OBVIOUS
<1>2. Range(<<f>>) = {f}
  BY <1>1 DEF Range
<1>3. Stacked(<<f>>)
  BY <1>1 DEF Stacked
<1> QED
  BY <1>1, <1>2, <1>3 DEF StackOf, Held

LEMMA TwoFrames ==
  ASSUME NEW f \in Frames, NEW g \in Frames, g.at \in Resting,
         f.at \in Interrupts \/ g.at = "popup.state"
  PROVE  <<f, g>> \in Stack /\ Held(<<f, g>>) = {f.at, g.at}
<1>1. <<g>> \in Stack /\ Held(<<g>>) = {g.at}
  BY OneFrame DEF Stack
<1>2. <<f>> \o <<g>> = <<f, g>>
  <2>1. <<f>> \o <<g>> \in Seq(Frames) /\ <<f, g>> \in Seq(Frames)
    OBVIOUS
  <2>2. Len(<<f>> \o <<g>>) = 2 /\ Len(<<f, g>>) = 2
    OBVIOUS
  <2>3. \A i \in 1..2 : (<<f>> \o <<g>>)[i] = <<f, g>>[i]
    OBVIOUS
  <2> QED
    BY <2>1, <2>2, <2>3, SeqEqual
<1>3. /\ <<f>> \o <<g>> \in Stack
      /\ Held(<<f>> \o <<g>>) = {f.at} \cup Held(<<g>>)
  BY <1>1, StackPushed
<1> QED
  BY <1>1, <1>2, <1>3

-----------------------------------------------------------------------------
(* The native port *)

LEMMA Connects ==
  ASSUME IInv, NEW t \in Tasks, nativePort = 0, Connect(t), Held(task[t]) \cap Taking = {},
         task' = [task EXCEPT ![t] = <<Authenticate(lastPort + 1, FALSE)>>],
         started' \in 0..MaxHandlers, expiryTimer' \in Known \cup {None}, awake,
         UNCHANGED <<awake, authenticated, dueRevokes, storage, browser, wire, authority,
                     registered, closing, asked, granted, answering, expired, history>>
  PROVE  IInv'
<1> DEFINE new == <<Authenticate(lastPort + 1, FALSE)>>
<1>1. lastPort \in Nat /\ lastPort' = lastPort + 1 /\ lastPort' \in 0..MaxPorts
  BY ExtensionAssumption DEF IInv, PortsTyped, Connect
<1>2. UNCHANGED <<standing, under, outcome, lastDoc>> /\ lastDoc \in Nat
  BY DEF IInv, PagesTyped, authority, browser
<1>3. Known' = Known /\ Dispatched' = Dispatched
  BY <1>2 DEF Known, Dispatched
<1>4. /\ Stored \subseteq Stored' /\ Stack \subseteq Stack' /\ Agreed \subseteq Agreed'
      /\ Seq(ToExt) \subseteq Seq(ToExt') /\ Seq(ToBroker) \subseteq Seq(ToBroker')
      /\ 0..lastPort \subseteq 0..lastPort'
  BY <1>1, <1>2, <1>3, PoolsGrow
<1>5. new \in Stack' /\ Held(new) = {"auth.turn"}
  <2> DEFINE f == Authenticate(lastPort + 1, FALSE)
  <2>1. f \in FramesIn(Known, Dispatched, lastDoc, lastPort + 1) /\ f.at = "auth.turn"
    <3> DEFINE n == lastPort + 1
    <3>1. n \in Nat /\ n \in 0..n /\ FALSE \in BOOLEAN
      BY <1>1
    <3> HIDE DEF n
    <3>2. Authenticate(n, FALSE) \in FramesIn(Known, Dispatched, lastDoc, n)
          /\ Authenticate(n, FALSE).at = "auth.turn"
      BY <1>2, <3>1, PortFrame
    <3> QED
      BY <3>2 DEF n
  <2>2. f \in Frames'
    BY <1>1, <1>2, <1>3, <2>1 DEF Frames
  <2> HIDE DEF f
  <2>3. <<f>> \in StackOf(Frames') /\ Held(<<f>>) = {f.at}
    BY <2>2, OneFrame
  <2> QED
    BY <2>1, <2>3 DEF f, Stack
<1> HIDE DEF new
<1>6. /\ task' \in [Tasks -> Stack'] /\ task'[t] = new
      /\ \A u \in Tasks \ {t} : task'[u] = task[u]
  BY <1>4, <1>5 DEF IInv, TasksTyped, new
<1>7. TasksTyped'
  BY <1>4, <1>6 DEF IInv, TasksTyped
<1>8. QueueInv' /\ authQueue' \in Seq(Tasks)
  BY <1>5, <1>6, QueueJoined DEF Connect, Taking
<1>9. WorkerTyped'
  BY <1>3, <1>8 DEF IInv, WorkerTyped, Connect
<1>10. PortsTyped' /\ PlanInv'
  <2>1. nativePort' = lastPort + 1 /\ portState' = "open" /\ nativePort' # 0
    BY <1>1 DEF Connect
  <2>2. PlanInv'
    BY <2>1 DEF PlanInv
  <2>3. closing \in Nat /\ closing <= lastPort
    BY <1>1 DEF IInv, PortsTyped
  <2>4. closing' \in Nat /\ closing' + (IF PortOpen' THEN 1 ELSE 0) <= lastPort'
    BY <1>1, <2>3
  <2>5. authenticated' \in 0..lastPort'
    BY <1>4 DEF IInv, PortsTyped
  <2>6. nativePort' \in 0..lastPort'
    BY <1>1, <2>1
  <2> QED
    BY <1>1, <2>1, <2>2, <2>4, <2>5, <2>6 DEF PortsTyped
<1>11. PagesTyped'
  BY <1>3 DEF IInv, PagesTyped, browser, history
<1>12. BrokerTyped'
  <2>1. admitted' \in BOOLEAN /\ joined' \in BOOLEAN
    BY DEF Connect
  <2> QED
    BY <1>2, <1>3, <1>4, <2>1 DEF IInv, BrokerTyped
<1>13. WireTyped'
  BY <1>4 DEF IInv, WireTyped, wire
<1> QED
  BY <1>7, <1>8, <1>9, <1>10, <1>11, <1>12, <1>13 DEF IInv

\* Without a port from Chrome another attempt is scheduled.
LEMMA ConnectFailsKeeps ==
  ASSUME IInv, NEW t \in Tasks, ConnectFails, awake, NEW new \in Stack,
         task' = [task EXCEPT ![t] = new], Held(new) \cap Taking = Held(task[t]) \cap Taking,
         started' \in 0..MaxHandlers, expiryTimer' \in Known \cup {None},
         UNCHANGED <<awake, authenticated, dueRevokes, storage, browser, wire, authority,
                     registered, closing, asked, granted, answering, expired, history>>
  PROVE  IInv'
<1>1. UNCHANGED pools
  BY DEF pools, authority, browser, ports, ConnectFails
<1>2. /\ task' \in [Tasks -> Stack] /\ task'[t] = new
      /\ \A u \in Tasks \ {t} : task'[u] = task[u]
  BY DEF IInv, TasksTyped
<1>3. TasksTyped'
  BY <1>1, <1>2, PoolsKept DEF IInv, TasksTyped
<1>4. QueueInv'
  <2>1. \A u \in Tasks : Held(task'[u]) \cap Taking = Held(task[u]) \cap Taking
    BY <1>2
  <2> QED
    BY <2>1, QueueKept DEF ConnectFails
<1>5. PlanInv'
  BY DEF PlanInv, ConnectFails
<1>6. PortsTyped' /\ PagesTyped' /\ BrokerTyped' /\ WireTyped'
  BY <1>1, Kept DEF ConnectFails, broker, connection
<1>7. WorkerTyped'
  BY <1>1, PoolsKept DEF IInv, WorkerTyped, ConnectFails
<1> QED
  BY <1>3, <1>4, <1>5, <1>6, <1>7 DEF IInv

LEMMA InitializeKeeps ==
  ASSUME IInv, NEW t \in Tasks, Initialize(t)
  PROVE  IInv'
<1> DEFINE f == [Idle EXCEPT !.at = "init.connect"]
           new == Pruned(storage, <<f>>)
<1>1. /\ UNCHANGED <<ports, session, timers, storage, browser, wire, broker, expired, history>>
      /\ UNCHANGED pools /\ ~awake /\ awake' /\ awake' \in BOOLEAN
      /\ task' = [task EXCEPT ![t] = new] /\ started' \in {started, started + 1}
      /\ started < MaxHandlers
  BY DEF Initialize, Begin, pools, broker, authority, browser, ports
<1>2. storage \in Stored /\ lastDoc \in Nat /\ lastPort \in Nat /\ None \notin expired
  BY ExtensionAssumption DEF IInv, TasksTyped, PagesTyped, PortsTyped, BrokerTyped
<1>3. f \in Frames /\ f.at = "init.connect"
  BY <1>2, BareFrame
<1> HIDE DEF f
<1>4. <<f>> \in Stack /\ Held(<<f>>) = {"init.connect"}
  BY <1>3, OneFrame DEF Stack
<1>5. /\ new \in Stack /\ "init.connect" \in Held(new)
      /\ Held(new) \subseteq {"init.connect", "prune.write", "revoke.read"}
  <2>1. Held(<<f>>) \subseteq Resting
    BY <1>4 DEF Resting
  <2> QED
    BY <1>2, <1>4, <2>1, PrunedStack
<1> HIDE DEF new
<1>6. /\ task' \in [Tasks -> Stack] /\ task'[t] = new
      /\ \A u \in Tasks \ {t} : task'[u] = task[u]
  BY <1>1, <1>5 DEF IInv, TasksTyped
<1>7. TasksTyped'
  BY <1>1, <1>6, PoolsKept, ExtensionAssumption DEF IInv, TasksTyped
<1>8. Held(new) \cap Taking = Held(task[t]) \cap Taking
  <2>1. task[t] = <<>>
    BY <1>1 DEF IInv, PlanInv
  <2> QED
    BY <1>5, <2>1, StackEmpty DEF Taking
<1>9. QueueInv'
  <2>1. \A u \in Tasks : Held(task'[u]) \cap Taking = Held(task[u]) \cap Taking
    BY <1>6, <1>8
  <2> QED
    BY <1>1, <2>1, QueueKept DEF session
<1>10. PlanInv'
  BY <1>1, <1>5, <1>6 DEF PlanInv, Planning
<1>11. PortsTyped' /\ PagesTyped' /\ BrokerTyped' /\ WireTyped'
  BY <1>1, Kept DEF ports, session, broker, connection
<1>12. WorkerTyped'
  BY <1>1, PoolsKept DEF IInv, WorkerTyped, session, timers
<1> QED
  BY <1>7, <1>9, <1>10, <1>11, <1>12 DEF IInv

LEMMA InitializeConnectKeeps ==
  ASSUME IInv, NEW t \in Tasks, InitializeConnect(t)
  PROVE  IInv'
<1> DEFINE f == Top(t)
           rest == Rest(t)
<1>1. /\ f \in Frames /\ rest \in Stack /\ f.at = "init.connect" /\ awake
      /\ Held(task[t]) = {f.at} \cup Held(rest) /\ Held(rest) \subseteq {"popup.state"}
  BY AtTop DEF InitializeConnect, At, Interrupts, Revoking
<1>2. /\ UNCHANGED <<awake, authenticated, dueRevokes, storage, browser, wire, authority,
                     registered, closing, asked, granted, answering, expired, history>>
      /\ expiryTimer' = f.saw.grant
  BY DEF InitializeConnect
<1>3. expiryTimer' \in Known \cup {None}
  BY <1>1, <1>2, FrameFields DEF Stored, StoredIn
<1>4. started \in 0..MaxHandlers
  BY DEF IInv, TasksTyped
<1>5. ASSUME nativePort = 0 PROVE IInv'
  <2>1. /\ started' = started
        /\ \/ /\ Connect(t)
              /\ task' = [task EXCEPT ![t] = <<Authenticate(lastPort + 1, FALSE)>>]
           \/ ConnectFails /\ task' = [task EXCEPT ![t] = rest]
    BY <1>5 DEF InitializeConnect, Continue, Return
  <2>2. Held(task[t]) \cap Taking = {} /\ Held(rest) \cap Taking = {}
    BY <1>1 DEF Taking
  <2> HIDE DEF rest
  <2>3. CASE Connect(t) /\ task' = [task EXCEPT ![t] = <<Authenticate(lastPort + 1, FALSE)>>]
    BY <1>1, <1>2, <1>3, <1>4, <1>5, <2>1, <2>2, <2>3, Connects
  <2>4. CASE ConnectFails /\ task' = [task EXCEPT ![t] = rest]
    BY <1>1, <1>2, <1>3, <1>4, <2>1, <2>2, <2>4, ConnectFailsKeeps
  <2> QED
    BY <2>1, <2>3, <2>4
<1>6. ASSUME nativePort # 0 PROVE IInv'
  <2>1. /\ task' = [task EXCEPT ![t] = rest] /\ started' = started
        /\ UNCHANGED <<ports, brokerConnected, reconnectTimer, authQueue, admitted, joined>>
    BY <1>6 DEF InitializeConnect, Return, Continue
  <2>2. UNCHANGED pools
    BY <1>2, <2>1 DEF pools, authority, browser, ports
  <2> HIDE DEF f, rest
  <2>3. /\ task' \in [Tasks -> Stack] /\ task'[t] = rest
        /\ \A u \in Tasks \ {t} : task'[u] = task[u]
    BY <1>1, <2>1 DEF IInv, TasksTyped
  <2>4. TasksTyped'
    BY <1>2, <1>4, <2>1, <2>2, <2>3, PoolsKept DEF IInv, TasksTyped
  <2>5. QueueInv'
    <3>1. Held(rest) \cap Taking = Held(task[t]) \cap Taking
      BY <1>1 DEF Taking
    <3>2. \A u \in Tasks : Held(task'[u]) \cap Taking = Held(task[u]) \cap Taking
      BY <2>3, <3>1
    <3> QED
      BY <2>1, <3>2, QueueKept
  <2>6. PlanInv'
    BY <1>1, <1>2, <1>6, <2>1 DEF PlanInv, ports
  <2>7. PortsTyped' /\ PagesTyped' /\ BrokerTyped' /\ WireTyped'
    BY <1>2, <2>1, <2>2, Kept DEF broker, connection
  <2>8. WorkerTyped'
    BY <1>2, <1>3, <2>1, <2>2, PoolsKept DEF IInv, WorkerTyped
  <2> QED
    BY <2>4, <2>5, <2>6, <2>7, <2>8 DEF IInv
<1> QED
  BY <1>5, <1>6

LEMMA ReconnectKeeps ==
  ASSUME IInv, NEW t \in Tasks, Reconnect(t)
  PROVE  IInv'
<1> DEFINE new == <<Authenticate(lastPort + 1, FALSE)>>
<1>1. /\ task[t] = <<>> /\ awake /\ nativePort = 0 /\ started < MaxHandlers
      /\ UNCHANGED <<awake, authenticated, dueRevokes, storage, browser, wire, authority,
                     registered, closing, asked, granted, answering, expired, history>>
      /\ UNCHANGED expiryTimer
  BY DEF Reconnect, Free
<1>2. \/ Connect(t) /\ Begin(t, new)
      \/ ConnectFails /\ Begin(t, <<>>)
  BY DEF Reconnect
<1>3. started' \in 0..MaxHandlers
  <2>1. started' \in {started, started + 1} /\ started \in 0..MaxHandlers
    BY <1>2 DEF Begin, IInv, TasksTyped
  <2> QED
    BY <1>1, <2>1, ExtensionAssumption
<1>4. Held(task[t]) = {} /\ <<>> \in Stack
  BY <1>1, StackEmpty
<1>5. expiryTimer' \in Known \cup {None}
  BY <1>1 DEF IInv, WorkerTyped
<1>6. CASE Connect(t) /\ Begin(t, new)
  <2>1. task' = [task EXCEPT ![t] = new]
    BY <1>6 DEF Begin
  <2> QED
    BY <1>1, <1>3, <1>4, <1>5, <1>6, <2>1, Connects
<1> HIDE DEF new
<1>7. CASE ConnectFails /\ Begin(t, <<>>)
  <2>1. task' = [task EXCEPT ![t] = <<>>]
    BY <1>7 DEF Begin
  <2> QED
    BY <1>1, <1>3, <1>4, <1>5, <1>7, <2>1, ConnectFailsKeeps
<1> QED
  BY <1>2, <1>6, <1>7

LEMMA ReconnectTimerIdleKeeps ==
  ASSUME IInv, ReconnectTimerIdle
  PROVE  IInv'
<1>1. /\ UNCHANGED <<awake, ports, session, expiryTimer, dueRevokes, handlers, storage,
                     browser, wire, broker, expired, history>>
      /\ UNCHANGED pools /\ awake /\ nativePort # 0 /\ reconnectTimer' = FALSE
  BY DEF ReconnectTimerIdle, pools, broker, authority, browser, ports
<1>2. TasksTyped' /\ QueueInv' /\ PlanInv'
  BY <1>1, PoolsKept DEF IInv, TasksTyped, QueueInv, PlanInv, handlers, session, ports
<1>3. PortsTyped' /\ PagesTyped' /\ BrokerTyped' /\ WireTyped'
  BY <1>1, Kept DEF ports, session, broker, connection
<1>4. WorkerTyped'
  BY <1>1, PoolsKept DEF IInv, WorkerTyped, session
<1> QED
  BY <1>2, <1>3, <1>4 DEF IInv

LEMMA Shifted ==
  ASSUME IInv, NEW t \in Tasks, NEW new \in Stack, UNCHANGED pools,
         task' = [task EXCEPT ![t] = new], storage' \in Stored, started' \in 0..MaxHandlers
  PROVE  /\ TasksTyped' /\ task'[t] = new
         /\ \A u \in Tasks \ {t} : task'[u] = task[u]
<1>1. /\ task' \in [Tasks -> Stack] /\ task'[t] = new
      /\ \A u \in Tasks \ {t} : task'[u] = task[u]
  BY DEF IInv, TasksTyped
<1> QED
  BY <1>1, PoolsKept DEF TasksTyped

LEMMA PlanKept ==
  ASSUME IInv, awake, UNCHANGED <<awake, nativePort, reconnectTimer>>,
         \A u \in Tasks : Held(task'[u]) \cap Planning = Held(task[u]) \cap Planning
  PROVE  PlanInv'
BY DEF IInv, PlanInv

LEMMA RegisterAgainKeeps ==
  ASSUME IInv, NEW t \in Tasks, NEW pairing \in BOOLEAN, RegisterAgain(t, pairing)
  PROVE  IInv'
<1> DEFINE new == <<Authenticate(nativePort, pairing), AnswerPopup>>
<1>1. /\ task[t] = <<>> /\ awake /\ nativePort # 0 /\ started < MaxHandlers
      /\ authQueue' = Append(authQueue, t)
      /\ task' = [task EXCEPT ![t] = new] /\ started' \in {started, started + 1}
      /\ UNCHANGED <<awake, ports, authenticated, brokerConnected, timers, storage, browser,
                     wire, broker, expired, history>>
      /\ UNCHANGED pools
  BY DEF RegisterAgain, Begin, Free, pools, broker, authority, browser, ports
<1>2. storage' \in Stored /\ started' \in 0..MaxHandlers
  BY <1>1, ExtensionAssumption DEF IInv, TasksTyped
<1>3. new \in Stack /\ Held(new) = {"auth.turn", "popup.state"}
  <2> DEFINE f == Authenticate(nativePort, pairing)
             g == AnswerPopup
  <2>1. lastDoc \in Nat /\ lastPort \in Nat /\ nativePort \in 0..lastPort
    BY DEF IInv, PagesTyped, PortsTyped
  <2>2. f \in Frames /\ f.at = "auth.turn"
    BY <2>1, PortFrame DEF Frames
  <2>3. g \in Frames /\ g.at = "popup.state"
    BY <2>1, BareFrame DEF AnswerPopup
  <2> HIDE DEF f, g
  <2>4. <<f, g>> \in Stack /\ Held(<<f, g>>) = {f.at, g.at}
    BY <2>2, <2>3, TwoFrames DEF Resting
  <2> QED
    BY <2>2, <2>3, <2>4 DEF f, g
<1> HIDE DEF new
<1>4. TasksTyped' /\ task'[t] = new /\ \A u \in Tasks \ {t} : task'[u] = task[u]
  BY <1>1, <1>2, <1>3, Shifted
<1>5. QueueInv' /\ authQueue' \in Seq(Tasks)
  <2>1. /\ Held(task[t]) \cap Taking = {} /\ Held(task'[t]) \cap Taking # {}
        /\ "auth.wait" \notin Held(task'[t])
    <3>1. Held(task[t]) = {}
      BY <1>1, StackEmpty
    <3>2. Held(task'[t]) = {"auth.turn", "popup.state"}
      BY <1>3, <1>4
    <3> QED
      BY <3>1, <3>2 DEF Taking
  <2> QED
    BY <1>1, <1>4, <2>1, QueueJoined
<1>6. PlanInv'
  BY <1>1 DEF PlanInv, ports
<1>7. PortsTyped' /\ PagesTyped' /\ BrokerTyped' /\ WireTyped'
  BY <1>1, Kept DEF broker, connection
<1>8. WorkerTyped'
  BY <1>1, <1>5, PoolsKept DEF IInv, WorkerTyped, timers
<1> QED
  BY <1>4, <1>5, <1>6, <1>7, <1>8 DEF IInv

LEMMA AuthTurnKeeps ==
  ASSUME IInv, NEW t \in Tasks, AuthTurn(t)
  PROVE  IInv'
<1> DEFINE f == Top(t)
           rest == Rest(t)
           g == [f EXCEPT !.at = "auth.wait"]
           h == Register(f.port)
           new == IF authenticated = f.port THEN <<h>> \o rest ELSE <<g>> \o rest
<1>1. /\ f \in Frames /\ rest \in Stack /\ f.at = "auth.turn" /\ awake
      /\ Held(task[t]) = {f.at} \cup Held(rest) /\ Held(rest) \subseteq {"popup.state"}
      /\ lastDoc \in Nat /\ lastPort \in Nat
  BY AtTop DEF AuthTurn, At, Interrupts, Revoking
<1>2. /\ UNCHANGED <<awake, ports, authenticated, brokerConnected, timers, storage, browser,
                     toExt, broker, expired, history>>
      /\ UNCHANGED pools /\ UNCHANGED started /\ task' = [task EXCEPT ![t] = new]
      /\ Head(authQueue) = t
      /\ authenticated = f.port => authQueue' = Tail(authQueue) /\ UNCHANGED toBroker
      /\ authenticated # f.port =>
           UNCHANGED authQueue /\ toBroker' = Posted(f.port, Message("auth", t))
  BY DEF AuthTurn, Goto, Continue, pools, broker, authority, browser, ports
<1> HIDE DEF f, rest
<1>3. h \in Frames /\ h.at = "register.send"
  <2>1. f.port \in 0..lastPort
    BY <1>1, FrameFields
  <2> QED
    BY <1>1, <2>1, PortFrame DEF Frames
<1>4. g \in Frames /\ g.at = "auth.wait"
  <2>1. "auth.wait" \in Labels
    BY DEF Labels
  <2>2. g.at = "auth.wait" /\ (Proper(g) => g \in Frames)
    BY <1>1, <2>1, Relabelled
  <2>3. Proper(g)
    BY <2>2 DEF Proper, Revoking, Answered, Executing, Located, Identified
  <2> QED
    BY <2>2, <2>3
<1> HIDE DEF g, h
<1>5. /\ <<g>> \o rest \in Stack /\ Held(<<g>> \o rest) = {"auth.wait"} \cup Held(rest)
      /\ <<h>> \o rest \in Stack /\ Held(<<h>> \o rest) = {"register.send"} \cup Held(rest)
  <2>1. Held(rest) \subseteq Resting
    BY <1>1 DEF Resting
  <2> QED
    BY <1>1, <1>3, <1>4, <2>1, StackPushed
<1>6. new \in Stack
  BY <1>5
<1>7. storage' \in Stored /\ started' \in 0..MaxHandlers
  BY <1>2 DEF IInv, TasksTyped
<1>8. TasksTyped' /\ task'[t] = new /\ \A u \in Tasks \ {t} : task'[u] = task[u]
  <2> HIDE DEF new
  <2> QED
    BY <1>2, <1>6, <1>7, Shifted
<1>9. Held(task[t]) \cap Taking # {}
  BY <1>1 DEF Taking
<1>10. QueueInv' /\ authQueue' \in Seq(Tasks)
  <2>1. CASE authenticated = f.port
    <3>1. Held(task'[t]) \cap Taking = {}
      BY <1>1, <1>5, <1>8, <2>1 DEF Taking
    <3> QED
      BY <1>2, <1>8, <1>9, <2>1, <3>1, QueueLeft
  <2>2. CASE authenticated # f.port
    <3>1. Held(task'[t]) \cap Taking # {}
      BY <1>5, <1>8, <2>2 DEF Taking
    <3>2. UNCHANGED authQueue
      BY <1>2, <2>2
    <3> QED
      BY <1>2, <1>8, <1>9, <3>1, <3>2, QueueWaits DEF IInv, WorkerTyped
  <2> QED
    BY <2>1, <2>2
<1>11. PlanInv'
  <2>1. Held(task'[t]) \cap Planning = Held(task[t]) \cap Planning
    BY <1>1, <1>5, <1>8 DEF Planning
  <2>2. \A u \in Tasks : Held(task'[u]) \cap Planning = Held(task[u]) \cap Planning
    BY <1>8, <2>1
  <2>3. UNCHANGED <<awake, nativePort, reconnectTimer>>
    BY <1>2 DEF ports, timers
  <2> QED
    BY <1>1, <2>2, <2>3, PlanKept
<1>12. PortsTyped' /\ PagesTyped' /\ BrokerTyped'
  BY <1>2, Kept DEF broker, connection
<1>13. WorkerTyped'
  BY <1>2, <1>10, PoolsKept DEF IInv, WorkerTyped, timers
<1>14. WireTyped'
  <2>1. Message("auth", t) \in ToBroker
    BY <1>1, MessageFields
  <2>2. Posted(f.port, Message("auth", t)) \in Seq(ToBroker)
    BY <2>1, PostedTyped DEF IInv
  <2> QED
    BY <1>2, <2>2, PoolsKept DEF IInv, WireTyped
<1> QED
  BY <1>8, <1>10, <1>11, <1>12, <1>13, <1>14 DEF IInv

\* The next message for the worker.
LEMMA NextMessage ==
  ASSUME WireTyped, toExt # <<>>
  PROVE  Head(toExt) \in ToExt /\ Tail(toExt) \in Seq(ToExt)
BY DEF WireTyped

LEMMA AuthAnsweredKeeps ==
  ASSUME IInv, NEW t \in Tasks, AuthAnswered(t)
  PROVE  IInv'
<1> DEFINE f == Top(t)
           rest == Rest(t)
           h == Register(f.port)
           registers == <<h>> \o rest
           ok == Head(toExt).ok
           new == IF ok
                  THEN IF f.pairing THEN Pruned(storage, registers) ELSE registers
                  ELSE Pruned(storage, IF f.pairing THEN <<>> ELSE rest)
<1>1. /\ f \in Frames /\ rest \in Stack /\ f.at = "auth.wait" /\ awake
      /\ Held(task[t]) = {f.at} \cup Held(rest) /\ Held(rest) \subseteq {"popup.state"}
      /\ lastDoc \in Nat /\ lastPort \in Nat /\ None \notin expired
  BY AtTop DEF AuthAnswered, At, Interrupts, Revoking
<1>2. /\ UNCHANGED <<awake, ports, brokerConnected, timers, storage, browser, toBroker, broker,
                     expired, history>>
      /\ UNCHANGED pools /\ UNCHANGED started
      /\ authQueue' = Tail(authQueue) /\ toExt # <<>> /\ toExt' = Tail(toExt)
      /\ authenticated' \in {f.port, authenticated}
      /\ task' = [task EXCEPT ![t] = new]
  BY DEF AuthAnswered, Receives, Taken, Continue, pools, broker, authority, browser, ports
<1> HIDE DEF f, rest, ok
<1>3. storage \in Stored /\ f.port \in 0..lastPort
  BY <1>1, FrameFields DEF IInv, TasksTyped
<1>4. h \in Frames /\ h.at = "register.send"
  BY <1>1, <1>3, PortFrame DEF Frames
<1> HIDE DEF h
<1>5. registers \in Stack /\ Held(registers) = {"register.send"} \cup Held(rest)
  <2>1. Held(rest) \subseteq Resting
    BY <1>1 DEF Resting
  <2> QED
    BY <1>1, <1>4, <2>1, StackPushed
<1> HIDE DEF registers
<1>6. ASSUME NEW s \in Stack, Held(s) \subseteq {"register.send", "popup.state"}
      PROVE  /\ Pruned(storage, s) \in Stack
             /\ Held(Pruned(storage, s))
                  \subseteq {"register.send", "popup.state", "prune.write", "revoke.read"}
  <2>1. Held(s) \subseteq Resting
    BY <1>6 DEF Resting
  <2> QED
    BY <1>1, <1>3, <1>6, <2>1, PrunedStack
<1>7. /\ new \in Stack
      /\ Held(new) \subseteq {"register.send", "popup.state", "prune.write", "revoke.read"}
  <2>1. Held(registers) \subseteq {"register.send", "popup.state"}
    BY <1>1, <1>5
  <2>2. CASE ok /\ f.pairing
    BY <1>5, <1>6, <2>1, <2>2
  <2>3. CASE ok /\ ~f.pairing
    BY <1>5, <2>1, <2>3
  <2>4. CASE ~ok /\ f.pairing
    BY <1>6, <2>4, StackEmpty
  <2>5. CASE ~ok /\ ~f.pairing
    BY <1>1, <1>6, <2>5
  <2> QED
    BY <2>2, <2>3, <2>4, <2>5
<1> HIDE DEF new
<1>8. storage' \in Stored /\ started' \in 0..MaxHandlers
  BY <1>2 DEF IInv, TasksTyped
<1>9. TasksTyped' /\ task'[t] = new /\ \A u \in Tasks \ {t} : task'[u] = task[u]
  BY <1>2, <1>7, <1>8, Shifted
<1>10. QueueInv' /\ authQueue' \in Seq(Tasks)
  <2>1. Held(task[t]) \cap Taking # {} /\ Held(task'[t]) \cap Taking = {}
    BY <1>1, <1>7, <1>9 DEF Taking
  <2>2. Head(authQueue) = t
    BY <1>1 DEF IInv, QueueInv
  <2> QED
    BY <1>2, <1>9, <2>1, <2>2, QueueLeft
<1>11. PlanInv'
  <2>1. Held(task'[t]) \cap Planning = Held(task[t]) \cap Planning
    BY <1>1, <1>7, <1>9 DEF Planning
  <2>2. \A u \in Tasks : Held(task'[u]) \cap Planning = Held(task[u]) \cap Planning
    BY <1>9, <2>1
  <2>3. UNCHANGED <<awake, nativePort, reconnectTimer>>
    BY <1>2 DEF ports, timers
  <2> QED
    BY <1>1, <2>2, <2>3, PlanKept
<1>12. PagesTyped' /\ BrokerTyped'
  BY <1>2, Kept DEF broker, connection
<1>13. WorkerTyped'
  BY <1>2, <1>10, PoolsKept DEF IInv, WorkerTyped, timers
<1>14. WireTyped'
  BY <1>2, NextMessage, PoolsKept DEF IInv, WireTyped
<1>15. PortsTyped'
  BY <1>2, <1>3 DEF IInv, PortsTyped, PortOpen, ports, broker, connection
<1> QED
  BY <1>9, <1>10, <1>11, <1>12, <1>13, <1>14, <1>15 DEF IInv

LEMMA RegisterSendKeeps ==
  ASSUME IInv, NEW t \in Tasks, RegisterSend(t)
  PROVE  IInv'
<1> DEFINE f == Top(t)
           rest == Rest(t)
           g == [f EXCEPT !.at = "register.wait"]
           new == <<g>> \o rest
<1>1. /\ f \in Frames /\ rest \in Stack /\ f.at = "register.send" /\ awake
      /\ Held(task[t]) = {f.at} \cup Held(rest) /\ Held(rest) \subseteq {"popup.state"}
      /\ Held(rest) \subseteq Resting /\ lastDoc \in Nat
  BY AtTop DEF RegisterSend, At, Interrupts, Revoking
<1>2. /\ UNCHANGED <<worker, storage, browser, toExt, broker, expired, history>>
      /\ UNCHANGED pools /\ UNCHANGED started /\ task' = [task EXCEPT ![t] = new]
      /\ toBroker' = Posted(f.port, Message("register", t))
  BY DEF RegisterSend, Goto, Continue, pools, broker, authority, browser, worker, ports
<1> HIDE DEF f, rest
<1>3. g \in Frames /\ g.at = "register.wait"
  <2>1. "register.wait" \in Labels
    BY DEF Labels
  <2>2. g.at = "register.wait" /\ (Proper(g) => g \in Frames)
    BY <1>1, <2>1, Relabelled
  <2>3. Proper(g)
    BY <2>2 DEF Proper, Revoking, Answered, Executing, Located, Identified
  <2> QED
    BY <2>2, <2>3
<1> HIDE DEF g
<1>4. new \in Stack /\ Held(new) = {"register.wait"} \cup Held(rest)
  BY <1>1, <1>3, StackPushed
<1> HIDE DEF new
<1>5. TasksTyped' /\ QueueInv' /\ PlanInv'
  <2>1. UNCHANGED <<awake, nativePort, reconnectTimer, authQueue>>
    BY <1>2 DEF worker, ports, session, timers
  <2>2. storage' \in Stored /\ started' \in 0..MaxHandlers
    BY <1>2 DEF IInv, TasksTyped
  <2>3. Held(new) \cap Marked = Held(task[t]) \cap Marked
    BY <1>1, <1>4 DEF Marked, Taking, Planning
  <2> QED
    BY <1>1, <1>2, <1>4, <2>1, <2>2, <2>3, Steady
<1>6. WorkerTyped' /\ PortsTyped' /\ PagesTyped' /\ BrokerTyped'
  BY <1>2, Kept DEF worker, ports, session, timers, broker, connection
<1>7. WireTyped'
  <2>1. Message("register", t) \in ToBroker
    BY <1>1, MessageFields
  <2>2. Posted(f.port, Message("register", t)) \in Seq(ToBroker)
    BY <2>1, PostedTyped DEF IInv
  <2> QED
    BY <1>2, <2>2, PoolsKept DEF IInv, WireTyped
<1> QED
  BY <1>5, <1>6, <1>7 DEF IInv

LEMMA RegisterAnsweredKeeps ==
  ASSUME IInv, NEW t \in Tasks, RegisterAnswered(t)
  PROVE  IInv'
<1> DEFINE f == Top(t)
           rest == Rest(t)
           s == [pending |-> Head(toExt).list, grant |-> storage.grant]
           g == [f EXCEPT !.at = "register.write", !.saw = s]
           new == <<g>> \o rest
<1>1. /\ f \in Frames /\ rest \in Stack /\ f.at = "register.wait" /\ awake
      /\ Held(task[t]) = {f.at} \cup Held(rest) /\ Held(rest) \subseteq {"popup.state"}
      /\ Held(rest) \subseteq Resting
  BY AtTop DEF RegisterAnswered, At, Interrupts, Revoking
<1>2. /\ UNCHANGED <<awake, ports, authenticated, authQueue, timers, storage, browser, toBroker,
                     broker, expired, history>>
      /\ UNCHANGED pools /\ UNCHANGED started /\ task' = [task EXCEPT ![t] = new]
      /\ toExt # <<>> /\ toExt' = Tail(toExt) /\ brokerConnected' = TRUE
  BY DEF RegisterAnswered, Receives, Taken, Continue, pools, broker, authority, browser, ports
<1> HIDE DEF f, rest
<1>3. s \in Stored
  <2>1. Head(toExt).list \in Seq(Requests)
    BY <1>2, NextMessage DEF IInv, ToExt
  <2>2. storage.grant \in Known \cup {None}
    BY DEF IInv, TasksTyped, Stored, StoredIn
  <2> QED
    BY <2>1, <2>2 DEF Stored, StoredIn
<1> HIDE DEF s
<1>4. g \in Frames /\ g.at = "register.write"
  <2>1. "register.write" \in Labels
    BY DEF Labels
  <2>2. g.at = "register.write" /\ (Proper(g) => g \in Frames)
    BY <1>1, <1>3, <2>1 DEF Frames, FramesIn, FieldsIn, Stored
  <2>3. Proper(g)
    BY <2>2 DEF Proper, Revoking, Answered, Executing, Located, Identified
  <2> QED
    BY <2>2, <2>3
<1> HIDE DEF g
<1>5. new \in Stack /\ Held(new) = {"register.write"} \cup Held(rest)
  BY <1>1, <1>4, StackPushed
<1> HIDE DEF new
<1>6. TasksTyped' /\ QueueInv' /\ PlanInv'
  <2>1. UNCHANGED <<awake, nativePort, reconnectTimer, authQueue>>
    BY <1>2 DEF ports, timers
  <2>2. storage' \in Stored /\ started' \in 0..MaxHandlers
    BY <1>2 DEF IInv, TasksTyped
  <2>3. Held(new) \cap Marked = Held(task[t]) \cap Marked
    BY <1>1, <1>5 DEF Marked, Taking, Planning
  <2> QED
    BY <1>1, <1>2, <1>5, <2>1, <2>2, <2>3, Steady
<1>7. PortsTyped' /\ PagesTyped' /\ BrokerTyped'
  BY <1>2, Kept DEF broker, connection
<1>8. WorkerTyped' /\ WireTyped'
  BY <1>2, NextMessage, PoolsKept DEF IInv, WorkerTyped, WireTyped, timers
<1> QED
  BY <1>6, <1>7, <1>8 DEF IInv

LEMMA RegisterWriteKeeps ==
  ASSUME IInv, NEW t \in Tasks, RegisterWrite(t)
  PROVE  IInv'
<1> DEFINE f == Top(t)
           rest == Rest(t)
           new == Pruned(f.saw, rest)
<1>1. /\ f \in Frames /\ rest \in Stack /\ f.at = "register.write" /\ awake
      /\ Held(task[t]) = {f.at} \cup Held(rest) /\ Held(rest) \subseteq Resting
      /\ lastDoc \in Nat /\ lastPort \in Nat /\ None \notin expired
  BY AtTop DEF RegisterWrite, At
<1>2. /\ UNCHANGED <<worker, browser, wire, broker, expired, history>>
      /\ UNCHANGED pools /\ UNCHANGED started /\ task' = [task EXCEPT ![t] = new]
      /\ storage' = f.saw
  BY DEF RegisterWrite, Continue, pools, broker, authority, browser, worker, ports
<1> HIDE DEF f, rest
<1>3. f.saw \in Stored
  BY <1>1, FrameFields
<1>4. /\ new \in Stack /\ Held(rest) \subseteq Held(new)
      /\ Held(new) \subseteq Held(rest) \cup {"prune.write", "revoke.read"}
  BY <1>1, <1>3, PrunedStack
<1> HIDE DEF new
<1>5. TasksTyped' /\ QueueInv' /\ PlanInv'
  <2>1. UNCHANGED <<awake, nativePort, reconnectTimer, authQueue>>
    BY <1>2 DEF worker, ports, session, timers
  <2>2. storage' \in Stored /\ started' \in 0..MaxHandlers
    BY <1>2, <1>3 DEF IInv, TasksTyped
  <2>3. Held(new) \cap Marked = Held(task[t]) \cap Marked
    BY <1>1, <1>4 DEF Marked, Taking, Planning
  <2> QED
    BY <1>1, <1>2, <1>4, <2>1, <2>2, <2>3, Steady
<1>6. WorkerTyped' /\ PortsTyped' /\ PagesTyped' /\ BrokerTyped' /\ WireTyped'
  BY <1>2, Kept DEF worker, ports, session, timers, broker, connection
<1> QED
  BY <1>5, <1>6 DEF IInv

LEMMA LostReconnectKeeps ==
  ASSUME IInv, NEW t \in Tasks, LostReconnect(t)
  PROVE  IInv'
<1> DEFINE f == Top(t)
           rest == Rest(t)
<1>1. /\ rest \in Stack /\ f.at = "lost.reconnect" /\ awake
      /\ Held(task[t]) = {f.at} \cup Held(rest)
  BY AtTop DEF LostReconnect, At
<1>2. /\ UNCHANGED <<awake, ports, session, expiryTimer, dueRevokes, storage, browser, wire,
                     broker, expired, history>>
      /\ UNCHANGED pools /\ UNCHANGED started /\ task' = [task EXCEPT ![t] = rest]
      /\ reconnectTimer' = TRUE
  BY DEF LostReconnect, Return, Continue, pools, broker, authority, browser, ports
<1> HIDE DEF f, rest
<1>3. storage' \in Stored /\ started' \in 0..MaxHandlers
  BY <1>2 DEF IInv, TasksTyped
<1>4. TasksTyped' /\ task'[t] = rest /\ \A u \in Tasks \ {t} : task'[u] = task[u]
  BY <1>1, <1>2, <1>3, Shifted
<1>5. QueueInv'
  <2>1. Held(rest) \cap Taking = Held(task[t]) \cap Taking
    BY <1>1 DEF Taking
  <2>2. \A u \in Tasks : Held(task'[u]) \cap Taking = Held(task[u]) \cap Taking
    BY <1>4, <2>1
  <2> QED
    BY <1>2, <2>2, QueueKept DEF session
<1>6. PlanInv'
  BY <1>1, <1>2 DEF PlanInv
<1>7. PortsTyped' /\ PagesTyped' /\ BrokerTyped' /\ WireTyped'
  BY <1>2, Kept DEF session, broker, connection
<1>8. WorkerTyped'
  BY <1>2, PoolsKept DEF IInv, WorkerTyped, session
<1> QED
  BY <1>4, <1>5, <1>6, <1>7, <1>8 DEF IInv

LEMMA RpcFailsKeeps ==
  ASSUME IInv, NEW t \in Tasks, RpcFails(t)
  PROVE  IInv'
<1> DEFINE f == Top(t)
           rest == Rest(t)
           g == [f EXCEPT !.at = "grant.teardown"]
           h == [f EXCEPT !.at = "register.close"]
           left == {"grant.teardown", "register.close", "popup.state", "prune.write",
                    "revoke.read"}
           others == {m \in Range(toExt) : m.to # t}
<1>1. f.at \in {"auth.wait", "register.wait", "grant.wait"} /\ task[t] # <<>>
  BY DEF RpcFails
<1>2. /\ f \in Frames /\ rest \in Stack /\ awake
      /\ Held(task[t]) = {f.at} \cup Held(rest) /\ Held(rest) \subseteq {"popup.state"}
      /\ Held(rest) \subseteq Resting /\ lastDoc \in Nat /\ lastPort \in Nat /\ None \notin expired
  BY <1>1, AtTop DEF Interrupts, Revoking
<1>3. /\ UNCHANGED <<awake, ports, authenticated, timers, storage, browser, authority,
                     connection, asked, granted, expired, history>>
      /\ UNCHANGED pools /\ UNCHANGED started
      /\ brokerConnected' \in BOOLEAN
      /\ authQueue' = IF f.at = "auth.wait" THEN Tail(authQueue) ELSE authQueue
      /\ toExt' = Filtered(toExt, others)
      /\ toBroker' = [i \in DOMAIN toBroker |->
           IF toBroker[i].to = t THEN [toBroker[i] EXCEPT !.to = None] ELSE toBroker[i]]
      /\ answering' = {[a EXCEPT !.to = IF @ = t THEN None ELSE @] : a \in answering}
      /\ \/ f.at = "grant.wait" /\ task' = [task EXCEPT ![t] = <<g>> \o rest]
         \/ task' = [task EXCEPT ![t] = Pruned(storage, <<h>> \o rest)]
         \/ task' = [task EXCEPT ![t] = rest]
         \/ task' = [task EXCEPT ![t] = Pruned(storage, <<>>)]
  BY DEF RpcFails, AfterFailure, Goto, Return, Continue, pools, authority, browser, ports, IInv,
         WorkerTyped
<1> HIDE DEF f, rest
<1>4. storage \in Stored /\ started \in 0..MaxHandlers
  BY DEF IInv, TasksTyped
<1>5. f.at = "grant.wait" => g \in Frames /\ g.at = "grant.teardown"
  <2>1. "grant.teardown" \in Labels
    BY DEF Labels
  <2>2. /\ g.at = "grant.teardown" /\ (Proper(g) => g \in Frames)
        /\ g.request = f.request /\ g.tab = f.tab /\ g.doc = f.doc /\ g.url = f.url
    BY <1>2, <2>1, Relabelled
  <2>3. f.at = "grant.wait" => f.request # None /\ f.tab # None /\ f.url # None /\ f.doc # 0
    BY <1>2, FrameFields DEF Proper, Located, Identified
  <2>4. f.at = "grant.wait" => Proper(g)
    BY <2>2, <2>3 DEF Proper, Revoking, Answered, Executing, Located, Identified
  <2> QED
    BY <2>2, <2>4
<1>6. h \in Frames /\ h.at = "register.close"
  <2>1. "register.close" \in Labels
    BY DEF Labels
  <2>2. h.at = "register.close" /\ (Proper(h) => h \in Frames)
    BY <1>2, <2>1, Relabelled
  <2>3. Proper(h)
    BY <2>2 DEF Proper, Revoking, Answered, Executing, Located, Identified
  <2> QED
    BY <2>2, <2>3
<1> HIDE DEF g, h
<1>7. f.at = "grant.wait" => <<g>> \o rest \in Stack /\ Held(<<g>> \o rest) \subseteq left
  BY <1>2, <1>5, StackPushed
<1>8. Pruned(storage, <<h>> \o rest) \in Stack /\ Held(Pruned(storage, <<h>> \o rest)) \subseteq left
  <2>1. <<h>> \o rest \in Stack /\ Held(<<h>> \o rest) = {"register.close"} \cup Held(rest)
    BY <1>2, <1>6, StackPushed
  <2>2. Held(<<h>> \o rest) \subseteq Resting
    BY <1>2, <2>1 DEF Resting
  <2>3. /\ Pruned(storage, <<h>> \o rest) \in Stack
        /\ Held(Pruned(storage, <<h>> \o rest))
             \subseteq Held(<<h>> \o rest) \cup {"prune.write", "revoke.read"}
    BY <1>2, <1>4, <2>1, <2>2, PrunedStack
  <2> QED
    BY <1>2, <2>1, <2>3
<1>9. Pruned(storage, <<>>) \in Stack /\ Held(Pruned(storage, <<>>)) \subseteq left
  <2>1. /\ Pruned(storage, <<>>) \in Stack
        /\ Held(Pruned(storage, <<>>)) \subseteq Held(<<>>) \cup {"prune.write", "revoke.read"}
    BY <1>2, <1>4, StackEmpty, PrunedStack
  <2> QED
    BY <2>1, StackEmpty
<1>10. PICK new \in Stack : task' = [task EXCEPT ![t] = new] /\ Held(new) \subseteq left
  BY <1>2, <1>3, <1>7, <1>8, <1>9
<1>11. TasksTyped' /\ task'[t] = new /\ \A u \in Tasks \ {t} : task'[u] = task[u]
  BY <1>3, <1>4, <1>10, Shifted
<1>12. QueueInv' /\ authQueue' \in Seq(Tasks)
  <2>1. Held(task'[t]) \cap Taking = {}
    BY <1>10, <1>11 DEF Taking
  <2>2. CASE f.at = "auth.wait"
    <3>1. Held(task[t]) \cap Taking # {} /\ "auth.wait" \in Held(task[t])
      BY <1>2, <2>2 DEF Taking
    <3>2. Head(authQueue) = t
      BY <3>1 DEF IInv, QueueInv
    <3> QED
      BY <1>3, <1>11, <2>1, <2>2, <3>1, <3>2, QueueLeft
  <2>3. CASE f.at # "auth.wait"
    <3>1. Held(task[t]) \cap Taking = {}
      BY <1>1, <1>2, <2>3 DEF Taking
    <3>2. \A u \in Tasks : Held(task'[u]) \cap Taking = Held(task[u]) \cap Taking
      BY <1>11, <2>1, <3>1
    <3>3. UNCHANGED authQueue
      BY <1>3, <2>3
    <3> QED
      BY <3>2, <3>3, QueueKept DEF IInv, WorkerTyped
  <2> QED
    BY <2>2, <2>3
<1>13. PlanInv'
  <2>1. Held(task'[t]) \cap Planning = Held(task[t]) \cap Planning
    BY <1>1, <1>2, <1>10, <1>11 DEF Planning
  <2>2. \A u \in Tasks : Held(task'[u]) \cap Planning = Held(task[u]) \cap Planning
    BY <1>11, <2>1
  <2>3. UNCHANGED <<awake, nativePort, reconnectTimer>>
    BY <1>3 DEF ports, timers
  <2> QED
    BY <1>2, <2>2, <2>3, PlanKept
<1>14. PortsTyped' /\ PagesTyped'
  BY <1>3, Kept DEF connection
<1>15. WorkerTyped'
  BY <1>3, <1>12, PoolsKept DEF IInv, WorkerTyped, timers
<1>16. WireTyped'
  <2>1. toExt \in Seq(ToExt) /\ toBroker \in Seq(ToBroker)
    BY DEF IInv, WireTyped
  <2>2. toExt' \in Seq(ToExt)
    BY <1>3, <2>1, FilteredType
  <2>3. \A m \in ToBroker : [m EXCEPT !.to = None] \in ToBroker
    BY DEF ToBroker
  <2>4. toBroker' \in Seq(ToBroker)
    <3>1. \A i \in DOMAIN toBroker : toBroker[i] \in ToBroker
      BY <2>1
    <3>2. DOMAIN toBroker = 1..Len(toBroker) /\ Len(toBroker) \in Nat
      BY <2>1
    <3>3. toBroker' \in [1..Len(toBroker) -> ToBroker]
      BY <1>3, <2>3, <3>1, <3>2
    <3> QED
      BY <3>2, <3>3
  <2> QED
    BY <1>3, <2>2, <2>4, PoolsKept DEF WireTyped
<1>17. BrokerTyped'
  <2>1. answering' \subseteq [lease: Known, to: Tasks \cup {None}]
    BY <1>3 DEF IInv, BrokerTyped
  <2> QED
    BY <1>3, <2>1, PoolsKept DEF IInv, BrokerTyped, authority, connection
<1> QED
  BY <1>11, <1>12, <1>13, <1>14, <1>15, <1>16, <1>17 DEF IInv

\* What ends with a port.
LEMMA PortEnded ==
  ASSUME IInv, PortEnds, UNCHANGED <<lastPort, lastDoc, expired>>, ~PortOpen'
  PROVE  /\ closing' \in Nat /\ closing' + (IF PortOpen' THEN 1 ELSE 0) <= lastPort'
         /\ toBroker' \in Seq(ToBroker) /\ UNCHANGED <<standing, under>> /\ BrokerTyped'
<1>1. UNCHANGED pools
  BY DEF PortEnds, authority, pools
<1>2. closing' \in Nat /\ closing' <= lastPort
  <2>1. closing \in Nat /\ lastPort \in Nat /\ closing + (IF PortOpen THEN 1 ELSE 0) <= lastPort
    BY DEF IInv, PortsTyped
  <2>2. closing' = IF PortOpen /\ joined THEN closing + 1 ELSE closing
    BY DEF PortEnds
  <2> QED
    BY <2>1, <2>2
<1>3. closing' + (IF PortOpen' THEN 1 ELSE 0) <= lastPort'
  BY <1>2
<1>4. toBroker' \in Seq(ToBroker)
  BY DEF PortEnds
<1>5. BrokerTyped'
  BY <1>1, PoolsKept DEF IInv, BrokerTyped, PortEnds, authority
<1> QED
  BY <1>1, <1>2, <1>3, <1>4, <1>5 DEF pools

LEMMA RegisterCloseKeeps ==
  ASSUME IInv, NEW t \in Tasks, RegisterClose(t)
  PROVE  IInv'
<1> DEFINE f == Top(t)
           rest == Rest(t)
           closes == nativePort = f.port
<1>1. /\ rest \in Stack /\ f.at = "register.close" /\ awake
      /\ Held(task[t]) = {f.at} \cup Held(rest)
  BY AtTop DEF RegisterClose, At
<1>2. /\ UNCHANGED <<awake, nativePort, lastPort, session, timers, storage, browser, expired,
                     history>>
      /\ UNCHANGED started /\ task' = [task EXCEPT ![t] = rest]
      /\ closes => PortEnds /\ portState' = "closed" /\ toExt' = <<>>
      /\ ~closes => UNCHANGED <<portState, wire, broker>>
  BY DEF RegisterClose, Return, Continue
<1> HIDE DEF f, rest, closes
<1>3. UNCHANGED pools
  <2>1. UNCHANGED authority
    BY <1>2 DEF PortEnds, broker
  <2> QED
    BY <1>2, <2>1 DEF pools, authority, browser
<1>4. TasksTyped' /\ QueueInv' /\ PlanInv'
  <2>1. UNCHANGED <<awake, nativePort, reconnectTimer, authQueue>>
    BY <1>2 DEF session, timers
  <2>2. storage' \in Stored /\ started' \in 0..MaxHandlers
    BY <1>2 DEF IInv, TasksTyped
  <2>3. Held(rest) \cap Marked = Held(task[t]) \cap Marked
    BY <1>1 DEF Marked, Taking, Planning
  <2> QED
    BY <1>1, <1>2, <1>3, <2>1, <2>2, <2>3, Steady
<1>5. PagesTyped' /\ WorkerTyped'
  BY <1>2, <1>3, Kept DEF session, timers
<1>6. PortsTyped' /\ BrokerTyped' /\ WireTyped'
  <2>1. CASE closes
    <3>1. ~PortOpen' /\ UNCHANGED lastDoc
      BY <1>2, <2>1 DEF PortOpen, browser
    <3>2. /\ closing' \in Nat /\ closing' + (IF PortOpen' THEN 1 ELSE 0) <= lastPort'
          /\ toBroker' \in Seq(ToBroker) /\ BrokerTyped'
      BY <1>2, <2>1, <3>1, PortEnded
    <3>3. WireTyped'
      BY <1>2, <1>3, <2>1, <3>2, PoolsKept DEF WireTyped
    <3>4. PortsTyped'
      BY <1>2, <2>1, <3>2 DEF IInv, PortsTyped, session
    <3> QED
      BY <3>2, <3>3, <3>4
  <2>2. CASE ~closes
    BY <1>2, <1>3, <2>2, Kept DEF ports, session, broker, connection
  <2> QED
    BY <2>1, <2>2
<1> QED
  BY <1>4, <1>5, <1>6 DEF IInv

LEMMA PortLostKeeps ==
  ASSUME IInv, PortLost
  PROVE  IInv'
<1>1. /\ UNCHANGED <<awake, nativePort, lastPort, session, timers, handlers, storage, browser,
                     toExt, expired, history>>
      /\ PortEnds /\ portState' = "lost"
  BY DEF PortLost
<1>2. UNCHANGED pools /\ ~PortOpen' /\ UNCHANGED lastDoc
  BY <1>1 DEF PortEnds, PortOpen, pools, authority, browser
<1>3. /\ closing' \in Nat /\ closing' + (IF PortOpen' THEN 1 ELSE 0) <= lastPort'
      /\ toBroker' \in Seq(ToBroker) /\ BrokerTyped'
  BY <1>1, <1>2, PortEnded
<1>4. PortsTyped'
  BY <1>1, <1>3 DEF IInv, PortsTyped, session
<1>5. WireTyped'
  BY <1>1, <1>2, <1>3, PoolsKept DEF IInv, WireTyped
<1>6. PagesTyped' /\ WorkerTyped'
  BY <1>1, <1>2, Kept DEF session, timers
<1>7. TasksTyped'
  BY <1>1, <1>2, PoolsKept DEF IInv, TasksTyped, handlers
<1>8. QueueInv' /\ PlanInv'
  BY <1>1 DEF IInv, QueueInv, PlanInv, handlers, session, timers
<1> QED
  BY <1>3, <1>4, <1>5, <1>6, <1>7, <1>8 DEF IInv

LEMMA WorkerStopsKeeps ==
  ASSUME IInv, WorkerStops
  PROVE  IInv'
<1>1. /\ UNCHANGED <<lastPort, storage, browser, expired, history>> /\ UNCHANGED started
      /\ awake' = FALSE /\ task' = [t \in Tasks |-> <<>>] /\ nativePort' = 0
      /\ portState' = "closed" /\ authenticated' = 0 /\ brokerConnected' = FALSE
      /\ authQueue' = <<>> /\ reconnectTimer' = FALSE /\ expiryTimer' = None
      /\ dueRevokes' = {} /\ PortEnds /\ toExt' = <<>>
  BY DEF WorkerStops
<1>2. UNCHANGED pools /\ ~PortOpen' /\ UNCHANGED lastDoc
  BY <1>1 DEF PortEnds, PortOpen, pools, authority, browser
<1>3. /\ closing' \in Nat /\ closing' + (IF PortOpen' THEN 1 ELSE 0) <= lastPort'
      /\ toBroker' \in Seq(ToBroker) /\ BrokerTyped'
  BY <1>1, <1>2, PortEnded
<1>4. PortsTyped'
  <2>1. lastPort' \in 0..MaxPorts /\ 0 \in 0..lastPort'
    BY <1>1 DEF IInv, PortsTyped
  <2> QED
    BY <1>1, <1>3, <2>1 DEF PortsTyped
<1>5. WireTyped'
  BY <1>1, <1>2, <1>3, PoolsKept DEF IInv, WireTyped
<1>6. PagesTyped'
  BY <1>1, <1>2, Kept
<1>7. TasksTyped'
  BY <1>1, <1>2, PoolsKept, StackEmpty DEF IInv, TasksTyped
<1>8. WorkerTyped'
  <2>1. awake' \in BOOLEAN /\ brokerConnected' \in BOOLEAN /\ reconnectTimer' \in BOOLEAN
    BY <1>1
  <2>2. authQueue' \in Seq(Tasks) /\ expiryTimer' \in Known' \cup {None}
    BY <1>1
  <2>3. dueRevokes' \subseteq Known'
    BY <1>1
  <2> QED
    BY <2>1, <2>2, <2>3 DEF WorkerTyped
<1>9. QueueInv'
  <2>1. \A u \in Tasks : Held(task'[u]) = {}
    BY <1>1, StackEmpty
  <2>2. Range(authQueue') = {} /\ DOMAIN authQueue' = {}
    BY <1>1 DEF Range
  <2>3. \A u \in Tasks : u \in Range(authQueue)' <=> Held(task[u])' \cap Taking # {}
    BY <2>1, <2>2
  <2> QED
    BY <2>1, <2>2, <2>3 DEF QueueInv
<1>10. PlanInv'
  BY <1>1 DEF PlanInv
<1> QED
  BY <1>3, <1>4, <1>5, <1>6, <1>7, <1>8, <1>9, <1>10 DEF IInv

LEMMA PortLossSeenKeeps ==
  ASSUME IInv, NEW t \in Tasks, PortLossSeen(t)
  PROVE  IInv'
<1> DEFINE f == [Idle EXCEPT !.at = "lost.reconnect"]
           revoke == Revoke(storage.grant, FALSE)
           new == AfterLoss(storage)
<1>1. /\ task[t] = <<>> /\ awake /\ started < MaxHandlers /\ nativePort' = 0
      /\ task' = [task EXCEPT ![t] = new] /\ started' \in {started, started + 1}
      /\ UNCHANGED <<awake, lastPort, portState, authQueue, timers, storage, browser, toBroker,
                     broker, expired, history>>
      /\ UNCHANGED pools /\ authenticated' \in {0, authenticated} /\ brokerConnected' = FALSE
      /\ toExt' = <<>>
  BY DEF PortLossSeen, Begin, Free, pools, broker, authority, browser
<1>2. storage \in Stored /\ lastDoc \in Nat /\ lastPort \in Nat /\ None \notin expired
  BY ExtensionAssumption DEF IInv, TasksTyped, PagesTyped, PortsTyped, BrokerTyped
<1>3. f \in Frames /\ f.at = "lost.reconnect"
  BY <1>2, BareFrame
<1> HIDE DEF f
<1>4. <<f>> \in Stack /\ Held(<<f>>) = {"lost.reconnect"}
  BY <1>3, OneFrame DEF Stack
<1>5. /\ new \in Stack /\ "lost.reconnect" \in Held(new)
      /\ Held(new) \subseteq {"lost.reconnect", "prune.write", "revoke.read"}
  <2>1. new = IF storage.grant # None THEN <<revoke>> \o <<f>> ELSE Pruned(storage, <<f>>)
    BY DEF AfterLoss, f
  <2>2. Held(<<f>>) \subseteq Resting
    BY <1>4 DEF Resting
  <2>3. CASE storage.grant # None
    <3>1. storage.grant \in Known /\ FALSE \in BOOLEAN
      BY <1>2, <2>3 DEF Stored, StoredIn
    <3>2. revoke \in Frames /\ revoke.at = "revoke.read"
      BY <1>2, <3>1, RevokeFrame
    <3> HIDE DEF revoke, new
    <3>3. /\ <<revoke>> \o <<f>> \in Stack
          /\ Held(<<revoke>> \o <<f>>) = {revoke.at} \cup Held(<<f>>)
      BY <1>4, <2>2, <3>2, StackPushed DEF Interrupts, Revoking
    <3> QED
      BY <1>4, <2>1, <2>3, <3>2, <3>3
  <2>4. CASE storage.grant = None
    <3>1. /\ Pruned(storage, <<f>>) \in Stack /\ Held(<<f>>) \subseteq Held(Pruned(storage, <<f>>))
          /\ Held(Pruned(storage, <<f>>)) \subseteq Held(<<f>>) \cup {"prune.write", "revoke.read"}
      BY <1>2, <1>4, <2>2, PrunedStack
    <3> HIDE DEF new
    <3> QED
      BY <1>4, <2>1, <2>4, <3>1
  <2> QED
    BY <2>3, <2>4
<1> HIDE DEF new
<1>6. storage' \in Stored /\ started' \in 0..MaxHandlers
  BY <1>1, ExtensionAssumption DEF IInv, TasksTyped
<1>7. TasksTyped' /\ task'[t] = new /\ \A u \in Tasks \ {t} : task'[u] = task[u]
  BY <1>1, <1>5, <1>6, Shifted
<1>8. QueueInv'
  <2>1. Held(new) \cap Taking = Held(task[t]) \cap Taking
    BY <1>1, <1>5, StackEmpty DEF Taking
  <2>2. \A u \in Tasks : Held(task'[u]) \cap Taking = Held(task[u]) \cap Taking
    BY <1>7, <2>1
  <2> QED
    BY <1>1, <2>2, QueueKept
<1>9. PlanInv'
  BY <1>1, <1>5, <1>7 DEF PlanInv, Planning
<1>10. PagesTyped' /\ BrokerTyped'
  BY <1>1, Kept
<1>11. WorkerTyped' /\ WireTyped'
  <2>1. WorkerTyped'
    BY <1>1, PoolsKept DEF IInv, WorkerTyped, timers
  <2>2. <<>> \in Seq(ToExt)
    OBVIOUS
  <2>3. WireTyped'
    BY <1>1, <2>2, PoolsKept DEF IInv, WireTyped
  <2> QED
    BY <2>1, <2>3
<1>12. PortsTyped'
  <2>1. closing \in Nat /\ closing <= lastPort
    BY <1>2 DEF IInv, PortsTyped
  <2>2. closing' + (IF PortOpen' THEN 1 ELSE 0) <= lastPort'
    BY <1>1, <1>2, <2>1 DEF PortOpen, broker, connection
  <2> QED
    BY <1>1, <1>2, <2>1, <2>2 DEF IInv, PortsTyped, broker, connection
<1> QED
  BY <1>7, <1>8, <1>9, <1>10, <1>11, <1>12 DEF IInv

-----------------------------------------------------------------------------
(* Handlers of events, timers and the popup *)

LEMMA Begins ==
  ASSUME IInv, NEW t \in Tasks, NEW new \in Stack, Free(t), Begin(t, new), UNCHANGED pools,
         Held(new) \cap Marked = {},
         UNCHANGED <<awake, nativePort, reconnectTimer, authQueue, storage>>
  PROVE  TasksTyped' /\ QueueInv' /\ PlanInv'
<1>1. /\ task[t] = <<>> /\ awake /\ started < MaxHandlers
      /\ task' = [task EXCEPT ![t] = new] /\ started' \in {started, started + 1}
  BY DEF Free, Begin
<1>2. storage' \in Stored /\ started' \in 0..MaxHandlers
  BY <1>1, ExtensionAssumption DEF IInv, TasksTyped
<1>3. Held(new) \cap Marked = Held(task[t]) \cap Marked
  BY <1>1, StackEmpty
<1> QED
  BY <1>1, <1>2, <1>3, Steady

LEMMA RevokeStack ==
  ASSUME IInv, NEW l \in Known, NEW notify \in BOOLEAN
  PROVE  <<Revoke(l, notify)>> \in Stack /\ Held(<<Revoke(l, notify)>>) \cap Marked = {}
<1>1. lastDoc \in Nat /\ lastPort \in Nat
  BY DEF IInv, PagesTyped, PortsTyped
<1>2. Revoke(l, notify) \in Frames /\ Revoke(l, notify).at = "revoke.read"
  BY <1>1, RevokeFrame
<1> QED
  BY <1>2, OneFrame DEF Stack, Marked, Taking, Planning

LEMMA StoredGrant ==
  ASSUME IInv
  PROVE  /\ storage \in Stored /\ storage.grant \in Known \cup {None}
         /\ storage.pending \in Seq(Requests)
         /\ lastDoc \in Nat /\ lastPort \in Nat /\ None \notin expired
BY ExtensionAssumption
   DEF IInv, TasksTyped, Stored, StoredIn, PagesTyped, PortsTyped, BrokerTyped

LEMMA TabEventKeeps ==
  ASSUME IInv, NEW t \in Tasks, NEW tab \in Tabs, TabEvent(t, tab)
  PROVE  IInv'
<1> DEFINE new == IF storage.grant # None /\ granted[storage.grant].tab = tab
                  THEN <<Revoke(storage.grant, TRUE)>> ELSE <<>>
<1>1. /\ Free(t) /\ Begin(t, new) /\ tabEvents' = tabEvents \ {tab}
      /\ UNCHANGED <<worker, storage, page, lastDoc, wire, broker, expired, history>>
      /\ UNCHANGED pools
  BY DEF TabEvent, pools, broker, authority, worker, ports
<1>2. new \in Stack /\ Held(new) \cap Marked = {}
  <2>1. CASE storage.grant # None
    <3>1. storage.grant \in Known /\ TRUE \in BOOLEAN
      BY <2>1, StoredGrant
    <3> QED
      BY <3>1, RevokeStack, StackEmpty
  <2>2. CASE storage.grant = None
    BY <2>2, StackEmpty
  <2> QED
    BY <2>1, <2>2
<1> HIDE DEF new
<1>3. TasksTyped' /\ QueueInv' /\ PlanInv'
  <2>1. UNCHANGED <<awake, nativePort, reconnectTimer, authQueue, storage>>
    BY <1>1 DEF worker, ports, session, timers
  <2> QED
    BY <1>1, <1>2, <2>1, Begins
<1>4. WorkerTyped' /\ PortsTyped' /\ BrokerTyped' /\ WireTyped'
  BY <1>1, Kept DEF worker, ports, session, timers, broker, connection
<1>5. PagesTyped'
  BY <1>1, PoolsKept DEF IInv, PagesTyped, history
<1> QED
  BY <1>3, <1>4, <1>5 DEF IInv

LEMMA ExpiryTimerKeeps ==
  ASSUME IInv, NEW t \in Tasks, ExpiryTimer(t)
  PROVE  IInv'
<1> DEFINE new == <<Revoke(expiryTimer, TRUE)>>
<1>1. /\ Free(t) /\ Begin(t, new) /\ expiryTimer \in expired /\ expiryTimer' = None
      /\ UNCHANGED <<awake, ports, session, reconnectTimer, dueRevokes, storage, browser, wire,
                     broker, expired, history>>
      /\ UNCHANGED pools
  BY DEF ExpiryTimer, pools, broker, authority, browser, ports
<1>2. new \in Stack /\ Held(new) \cap Marked = {}
  <2>1. expiryTimer \in Known /\ TRUE \in BOOLEAN
    BY <1>1, StoredGrant DEF IInv, WorkerTyped
  <2> QED
    BY <2>1, RevokeStack
<1> HIDE DEF new
<1>3. TasksTyped' /\ QueueInv' /\ PlanInv'
  <2>1. UNCHANGED <<awake, nativePort, reconnectTimer, authQueue, storage>>
    BY <1>1 DEF ports, session
  <2> QED
    BY <1>1, <1>2, <2>1, Begins
<1>4. PortsTyped' /\ PagesTyped' /\ BrokerTyped' /\ WireTyped'
  BY <1>1, Kept DEF session, broker, connection
<1>5. WorkerTyped'
  BY <1>1, PoolsKept DEF IInv, WorkerTyped, session
<1> QED
  BY <1>3, <1>4, <1>5 DEF IInv

LEMMA NavigationTimerKeeps ==
  ASSUME IInv, NEW t \in Tasks, NEW l \in Leases, NavigationTimer(t, l)
  PROVE  IInv'
<1> DEFINE new == <<Revoke(l, TRUE)>>
<1>1. /\ Free(t) /\ Begin(t, new) /\ l \in dueRevokes /\ dueRevokes' = dueRevokes \ {l}
      /\ UNCHANGED <<awake, ports, session, reconnectTimer, expiryTimer, storage, browser, wire,
                     broker, expired, history>>
      /\ UNCHANGED pools
  BY DEF NavigationTimer, pools, broker, authority, browser, ports
<1>2. new \in Stack /\ Held(new) \cap Marked = {}
  <2>1. l \in Known /\ TRUE \in BOOLEAN
    BY <1>1 DEF IInv, WorkerTyped
  <2> QED
    BY <2>1, RevokeStack
<1> HIDE DEF new
<1>3. TasksTyped' /\ QueueInv' /\ PlanInv'
  <2>1. UNCHANGED <<awake, nativePort, reconnectTimer, authQueue, storage>>
    BY <1>1 DEF ports, session
  <2> QED
    BY <1>1, <1>2, <2>1, Begins
<1>4. PortsTyped' /\ PagesTyped' /\ BrokerTyped' /\ WireTyped'
  BY <1>1, Kept DEF session, broker, connection
<1>5. WorkerTyped'
  BY <1>1, PoolsKept DEF IInv, WorkerTyped, session
<1> QED
  BY <1>3, <1>4, <1>5 DEF IInv

LEMMA PopupOpensKeeps ==
  ASSUME IInv, NEW t \in Tasks, PopupOpens(t)
  PROVE  IInv'
<1> DEFINE new == Pruned(storage, <<>>)
<1>1. /\ Free(t) /\ Begin(t, new)
      /\ UNCHANGED <<worker, storage, browser, wire, broker, expired, history>>
      /\ UNCHANGED pools
  BY DEF PopupOpens, pools, broker, authority, browser, worker, ports
<1>2. new \in Stack /\ Held(new) \subseteq {"prune.write", "revoke.read"}
  BY StoredGrant, StackEmpty, PrunedStack
<1> HIDE DEF new
<1>3. TasksTyped' /\ QueueInv' /\ PlanInv'
  <2>1. UNCHANGED <<awake, nativePort, reconnectTimer, authQueue, storage>>
    BY <1>1 DEF worker, ports, session, timers
  <2>2. Held(new) \cap Marked = {}
    BY <1>2 DEF Marked, Taking, Planning
  <2> QED
    BY <1>1, <1>2, <2>1, <2>2, Begins
<1>4. WorkerTyped' /\ PortsTyped' /\ PagesTyped' /\ BrokerTyped' /\ WireTyped'
  BY <1>1, Kept DEF worker, ports, session, timers, broker, connection
<1> QED
  BY <1>3, <1>4 DEF IInv

LEMMA PopupRevokesKeeps ==
  ASSUME IInv, NEW t \in Tasks, PopupRevokes(t)
  PROVE  IInv'
<1> DEFINE f == Revoke(storage.grant, TRUE)
           new == <<f, AnswerPopup>>
<1>1. /\ Free(t) /\ Begin(t, new) /\ storage.grant # None
      /\ UNCHANGED <<worker, storage, browser, wire, broker, expired, history>>
      /\ UNCHANGED pools
  BY DEF PopupRevokes, pools, broker, authority, browser, worker, ports
<1>2. new \in Stack /\ Held(new) = {"revoke.read", "popup.state"}
  <2>1. storage.grant \in Known /\ TRUE \in BOOLEAN
    BY <1>1, StoredGrant
  <2>2. f \in Frames /\ f.at = "revoke.read"
    BY <2>1, StoredGrant, RevokeFrame
  <2>3. AnswerPopup \in Frames /\ AnswerPopup.at = "popup.state"
    BY StoredGrant, BareFrame DEF AnswerPopup
  <2> HIDE DEF f
  <2> QED
    BY <2>2, <2>3, TwoFrames DEF Resting
<1> HIDE DEF new
<1>3. TasksTyped' /\ QueueInv' /\ PlanInv'
  <2>1. UNCHANGED <<awake, nativePort, reconnectTimer, authQueue, storage>>
    BY <1>1 DEF worker, ports, session, timers
  <2>2. Held(new) \cap Marked = {}
    BY <1>2 DEF Marked, Taking, Planning
  <2> QED
    BY <1>1, <1>2, <2>1, <2>2, Begins
<1>4. WorkerTyped' /\ PortsTyped' /\ PagesTyped' /\ BrokerTyped' /\ WireTyped'
  BY <1>1, Kept DEF worker, ports, session, timers, broker, connection
<1> QED
  BY <1>3, <1>4 DEF IInv

LEMMA PopupGrantsKeeps ==
  ASSUME IInv, NEW t \in Tasks, NEW r \in Requests, PopupGrants(t, r)
  PROVE  IInv'
<1> DEFINE f == [Idle EXCEPT !.at = "grant.find", !.request = r]
           rest == <<f, AnswerPopup>>
           new == Pruned(storage, rest)
<1>1. /\ Free(t) /\ Begin(t, new)
      /\ UNCHANGED <<worker, storage, browser, wire, broker, expired, history>>
      /\ UNCHANGED pools
  BY DEF PopupGrants, pools, broker, authority, browser, worker, ports
<1>2. rest \in Stack /\ Held(rest) = {"grant.find", "popup.state"}
  <2>1. f \in Frames /\ f.at = "grant.find"
    BY StoredGrant, RequestFrame
  <2>2. AnswerPopup \in Frames /\ AnswerPopup.at = "popup.state"
    BY StoredGrant, BareFrame DEF AnswerPopup
  <2> HIDE DEF f
  <2> QED
    BY <2>1, <2>2, TwoFrames DEF Resting
<1> HIDE DEF rest
<1>3. /\ new \in Stack
      /\ Held(new) \subseteq {"grant.find", "popup.state", "prune.write", "revoke.read"}
  <2>1. Held(rest) \subseteq Resting
    BY <1>2 DEF Resting
  <2> QED
    BY <1>2, <2>1, StoredGrant, PrunedStack
<1> HIDE DEF new
<1>4. TasksTyped' /\ QueueInv' /\ PlanInv'
  <2>1. UNCHANGED <<awake, nativePort, reconnectTimer, authQueue, storage>>
    BY <1>1 DEF worker, ports, session, timers
  <2>2. Held(new) \cap Marked = {}
    BY <1>3 DEF Marked, Taking, Planning
  <2> QED
    BY <1>1, <1>3, <2>1, <2>2, Begins
<1>5. WorkerTyped' /\ PortsTyped' /\ PagesTyped' /\ BrokerTyped' /\ WireTyped'
  BY <1>1, Kept DEF worker, ports, session, timers, broker, connection
<1> QED
  BY <1>4, <1>5 DEF IInv

LEMMA PopupStateKeeps ==
  ASSUME IInv, NEW t \in Tasks, PopupState(t)
  PROVE  IInv'
<1> DEFINE f == Top(t)
           rest == Rest(t)
           new == Pruned(storage, rest)
<1>1. /\ rest \in Stack /\ f.at = "popup.state" /\ awake
      /\ Held(task[t]) = {f.at} \cup Held(rest) /\ Held(rest) \subseteq Resting
  BY AtTop DEF PopupState, At
<1>2. /\ UNCHANGED <<worker, storage, browser, wire, broker, expired, history>>
      /\ UNCHANGED pools /\ UNCHANGED started /\ task' = [task EXCEPT ![t] = new]
  BY DEF PopupState, Continue, pools, broker, authority, browser, worker, ports
<1> HIDE DEF f, rest
<1>3. /\ new \in Stack /\ Held(rest) \subseteq Held(new)
      /\ Held(new) \subseteq Held(rest) \cup {"prune.write", "revoke.read"}
  BY <1>1, StoredGrant, PrunedStack
<1> HIDE DEF new
<1>4. TasksTyped' /\ QueueInv' /\ PlanInv'
  <2>1. UNCHANGED <<awake, nativePort, reconnectTimer, authQueue>>
    BY <1>2 DEF worker, ports, session, timers
  <2>2. storage' \in Stored /\ started' \in 0..MaxHandlers
    BY <1>2 DEF IInv, TasksTyped
  <2>3. Held(new) \cap Marked = Held(task[t]) \cap Marked
    BY <1>1, <1>3 DEF Marked, Taking, Planning
  <2> QED
    BY <1>1, <1>2, <1>3, <2>1, <2>2, <2>3, Steady
<1>5. WorkerTyped' /\ PortsTyped' /\ PagesTyped' /\ BrokerTyped' /\ WireTyped'
  BY <1>2, Kept DEF worker, ports, session, timers, broker, connection
<1> QED
  BY <1>4, <1>5 DEF IInv

\* A pruning on a stack of one frame that takes no part in an authentication.
LEMMA PrunedOne ==
  ASSUME IInv, NEW s \in Stored, NEW f \in Frames, f.at \in Resting, f.at \notin Marked
  PROVE  /\ Pruned(s, <<f>>) \in Stack /\ f.at \in Held(Pruned(s, <<f>>))
         /\ Held(Pruned(s, <<f>>)) \cap Marked = {}
<1>1. <<f>> \in Stack /\ Held(<<f>>) = {f.at}
  BY OneFrame DEF Stack
<1>2. /\ Pruned(s, <<f>>) \in Stack /\ Held(<<f>>) \subseteq Held(Pruned(s, <<f>>))
      /\ Held(Pruned(s, <<f>>)) \subseteq Held(<<f>>) \cup {"prune.write", "revoke.read"}
  BY <1>1, StoredGrant, PrunedStack
<1> QED
  BY <1>1, <1>2 DEF Marked, Taking, Planning

LEMMA EventArrivesKeeps ==
  ASSUME IInv, NEW t \in Tasks, EventArrives(t)
  PROVE  IInv'
<1> DEFINE e == Head(toExt)
           f == [Idle EXCEPT !.at = "requested.write", !.request = e.request]
           g == [Idle EXCEPT !.at = "execute.check", !.command = e.command, !.port = nativePort]
<1>1. /\ Free(t) /\ toExt # <<>> /\ toExt' = Tail(toExt)
      /\ UNCHANGED <<worker, storage, browser, toBroker, broker, expired, history>>
      /\ UNCHANGED pools
      /\ \/ e.m = "requested" /\ Begin(t, Pruned(storage, <<f>>))
         \/ e.m = "revoked" /\ Begin(t, <<Revoke(e.lease, FALSE)>>)
         \/ e.m = "execute" /\ Begin(t, Pruned(storage, <<g>>))
  BY DEF EventArrives, Receives, Taken, pools, broker, authority, browser, worker, ports
<1>2. e \in ToExt /\ Tail(toExt) \in Seq(ToExt)
  BY <1>1, NextMessage DEF IInv
<1> HIDE DEF e
<1>3. PICK new \in Stack : Begin(t, new) /\ Held(new) \cap Marked = {}
  <2>1. CASE e.m = "requested"
    <3>1. e.request \in Requests
      BY <1>2, <2>1 DEF ToExt
    <3>2. "requested.write" \in {"requested.write", "grant.find"}
      OBVIOUS
    <3>3. f \in Frames /\ f.at = "requested.write"
      BY <3>1, <3>2, StoredGrant, RequestFrame
    <3> HIDE DEF f
    <3>4. Pruned(storage, <<f>>) \in Stack /\ Held(Pruned(storage, <<f>>)) \cap Marked = {}
      <4>1. f.at \in Resting /\ f.at \notin Marked
        BY <3>3 DEF Resting, Marked, Taking, Planning
      <4> QED
        BY <3>3, <4>1, StoredGrant, PrunedOne
    <3> QED
      BY <1>1, <2>1, <3>4
  <2>2. CASE e.m = "revoked"
    <3>1. e.lease \in Known /\ FALSE \in BOOLEAN
      BY <1>2, <2>2 DEF ToExt
    <3>2. /\ <<Revoke(e.lease, FALSE)>> \in Stack
          /\ Held(<<Revoke(e.lease, FALSE)>>) \cap Marked = {}
      BY <3>1, RevokeStack
    <3> QED
      BY <1>1, <2>2, <3>2
  <2>3. CASE e.m = "execute"
    <3>1. e.command \in Dispatched /\ nativePort \in 0..lastPort
      BY <1>2, <2>3 DEF ToExt, IInv, PortsTyped
    <3>2. g \in Frames /\ g.at = "execute.check"
      BY <3>1, StoredGrant, ExecuteFrame
    <3> HIDE DEF g
    <3>3. Pruned(storage, <<g>>) \in Stack /\ Held(Pruned(storage, <<g>>)) \cap Marked = {}
      <4>1. g.at \in Resting /\ g.at \notin Marked
        BY <3>2 DEF Resting, Marked, Taking, Planning
      <4> QED
        BY <3>2, <4>1, StoredGrant, PrunedOne
    <3> QED
      BY <1>1, <2>3, <3>3
  <2> QED
    BY <1>1, <2>1, <2>2, <2>3
<1>4. TasksTyped' /\ QueueInv' /\ PlanInv'
  <2>1. UNCHANGED <<awake, nativePort, reconnectTimer, authQueue, storage>>
    BY <1>1 DEF worker, ports, session, timers
  <2> QED
    BY <1>1, <1>3, <2>1, Begins
<1>5. WorkerTyped' /\ PortsTyped' /\ PagesTyped' /\ BrokerTyped'
  BY <1>1, Kept DEF worker, ports, session, timers, broker, connection
<1>6. WireTyped'
  BY <1>1, <1>2, PoolsKept DEF IInv, WireTyped
<1> QED
  BY <1>4, <1>5, <1>6 DEF IInv

LEMMA RequestedWriteKeeps ==
  ASSUME IInv, NEW t \in Tasks, RequestedWrite(t)
  PROVE  IInv'
<1> DEFINE f == Top(t)
           rest == Rest(t)
           others == Filtered(f.saw.pending, Requests \ {f.request})
           list == <<f.request>> \o others
           shown == Min({PendingShown, Len(others) + 1})
           written == [f.saw EXCEPT !.pending = SubSeq(list, 1, shown)]
           new == Pruned(written, <<>>)
<1>1. /\ f \in Frames /\ rest \in Stack /\ f.at = "requested.write" /\ awake
      /\ Held(task[t]) = {f.at} \cup Held(rest) /\ Held(rest) \subseteq {"popup.state"}
  BY AtTop DEF RequestedWrite, At, Interrupts, Revoking
<1>2. /\ UNCHANGED <<worker, browser, wire, broker, expired, history>>
      /\ UNCHANGED pools /\ UNCHANGED started /\ task' = [task EXCEPT ![t] = new]
      /\ storage' = written
  BY DEF RequestedWrite, Continue, pools, broker, authority, browser, worker, ports
<1> HIDE DEF f, rest
<1>3. f.saw \in Stored /\ f.saw.pending \in Seq(Requests) /\ f.request \in Requests
  BY <1>1, FrameFields DEF Stored, StoredIn, Proper
<1>4. others \in Seq(Requests)
  BY <1>3, FilteredType
<1> HIDE DEF others
<1>5. list \in Seq(Requests) /\ Len(list) = Len(others) + 1 /\ Len(others) \in Nat
  BY <1>3, <1>4
<1>6. shown \in Nat /\ shown <= Len(list)
  <2>1. PendingShown \in Nat /\ Len(others) + 1 \in Nat
    BY <1>5, ExtensionAssumption
  <2>2. \E x \in {PendingShown, Len(others) + 1} :
          \A y \in {PendingShown, Len(others) + 1} : x <= y
    BY <2>1
  <2>3. /\ shown \in {PendingShown, Len(others) + 1}
        /\ \A y \in {PendingShown, Len(others) + 1} : shown <= y
    BY <2>2 DEF Min
  <2> QED
    BY <1>5, <2>1, <2>3
<1> HIDE DEF list, shown
<1>7. SubSeq(list, 1, shown) \in Seq(Requests)
  <2>1. \A i \in 1..shown : i \in 1..Len(list)
    BY <1>5, <1>6
  <2> QED
    BY <1>5, <1>6, <2>1, SubSeqProperties
<1>8. written \in Stored
  BY <1>3, <1>7 DEF Stored, StoredIn
<1> HIDE DEF written
<1>9. new \in Stack /\ Held(new) \subseteq {"prune.write", "revoke.read"}
  BY <1>8, StoredGrant, StackEmpty, PrunedStack
<1> HIDE DEF new
<1>10. TasksTyped' /\ QueueInv' /\ PlanInv'
  <2>1. UNCHANGED <<awake, nativePort, reconnectTimer, authQueue>>
    BY <1>2 DEF worker, ports, session, timers
  <2>2. storage' \in Stored /\ started' \in 0..MaxHandlers
    BY <1>2, <1>8 DEF IInv, TasksTyped
  <2>3. Held(new) \cap Marked = Held(task[t]) \cap Marked
    BY <1>1, <1>9 DEF Marked, Taking, Planning
  <2> QED
    BY <1>1, <1>2, <1>9, <2>1, <2>2, <2>3, Steady
<1>11. WorkerTyped' /\ PortsTyped' /\ PagesTyped' /\ BrokerTyped' /\ WireTyped'
  BY <1>2, Kept DEF worker, ports, session, timers, broker, connection
<1> QED
  BY <1>10, <1>11 DEF IInv

-----------------------------------------------------------------------------
(* executeBrowserCommand *)

\* The stack of a command that fails after its revocation, and what answers one.
Failing(t, notify) ==
  <<Revoke(under[Top(t).command], notify),
    [Top(t) EXCEPT !.at = "execute.fail", !.saw = EmptyState]>>
Executed(t, ok) ==
  Posted(Top(t).port, [Message("executed", None) EXCEPT !.command = Top(t).command, !.ok = ok])

LEMMA ExecutingAt ==
  ASSUME IInv, NEW t \in Tasks, task[t] # <<>>, Top(t).at \in Executing
  PROVE  LET f == Top(t)
             l == under[f.command] IN
         /\ f \in Frames /\ awake /\ f.command \in Dispatched /\ f.command \in Commands
         /\ l \in Known /\ granted[l] \in Agreed /\ f.port \in 0..lastPort
         /\ Rest(t) \in Stack /\ Held(Rest(t)) \cap Marked = Held(task[t]) \cap Marked
         /\ Held(task[t]) \cap Marked = {}
         /\ \A notify \in BOOLEAN :
              Failing(t, notify) \in Stack /\ Held(Failing(t, notify)) \cap Marked = {}
         /\ \A ok \in BOOLEAN : Executed(t, ok) \in Seq(ToBroker)
<1> DEFINE f == Top(t)
           rest == Rest(t)
           l == under[f.command]
           g == [f EXCEPT !.at = "execute.fail", !.saw = EmptyState]
<1>1. /\ f \in Frames /\ rest \in Stack /\ f.at \in Executing /\ awake
      /\ Held(task[t]) = {f.at} \cup Held(rest) /\ Held(rest) \subseteq {"popup.state"}
      /\ lastDoc \in Nat /\ lastPort \in Nat
  <2>1. f.at \notin Interrupts
    BY DEF Executing, Interrupts, Revoking
  <2> QED
    BY <2>1, AtTop
<1>2. f.command \in Dispatched /\ f.command \in Commands /\ l \in Known
  BY <1>1, FrameFields DEF Proper, Dispatched
<1>3. granted[l] \in Agreed
  BY <1>2 DEF IInv, BrokerTyped
<1>4. f.port \in 0..lastPort
  BY <1>1, FrameFields
<1>5. Held(task[t]) \cap Marked = {} /\ Held(rest) \cap Marked = {}
  BY <1>1 DEF Executing, Marked, Taking, Planning
<1>6. g \in Frames /\ g.at = "execute.fail"
  <2> HIDE DEF f
  <2>1. "execute.fail" \in Labels /\ EmptyState \in Stored
    BY <1>1, IdleFields DEF Labels
  <2>2. g.at = "execute.fail" /\ g.command = f.command /\ (Proper(g) => g \in Frames)
    BY <1>1, <2>1 DEF Frames, FramesIn, FieldsIn, Stored
  <2>3. f.command # None
    BY <1>2, ExtensionAssumption
  <2>4. Proper(g)
    BY <2>2, <2>3 DEF Proper, Revoking, Answered, Executing, Located, Identified
  <2> QED
    BY <2>2, <2>4
<1>7. ASSUME NEW notify \in BOOLEAN
      PROVE  Failing(t, notify) \in Stack /\ Held(Failing(t, notify)) \cap Marked = {}
  <2> DEFINE h == Revoke(l, notify)
  <2>1. h \in Frames /\ h.at = "revoke.read"
    BY <1>1, <1>2, RevokeFrame
  <2>2. Failing(t, notify) = <<h, g>>
    BY DEF Failing
  <2> HIDE DEF g, h
  <2>3. <<h, g>> \in Stack /\ Held(<<h, g>>) = {"revoke.read", "execute.fail"}
    BY <1>6, <2>1, TwoFrames DEF Resting, Interrupts, Revoking
  <2> QED
    BY <2>2, <2>3 DEF Marked, Taking, Planning
<1>8. ASSUME NEW ok \in BOOLEAN
      PROVE  Executed(t, ok) \in Seq(ToBroker)
  <2> DEFINE q == [Message("executed", None) EXCEPT !.command = f.command, !.ok = ok]
  <2> HIDE DEF f
  <2>1. q \in ToBroker
    <3>1. Message("executed", None) \in MessagesIn({"executed"})
      BY <1>1, MessageFields
    <3> QED
      BY <1>2, <3>1 DEF MessagesIn, ToBroker
  <2>2. Executed(t, ok) = Posted(f.port, q)
    BY DEF Executed, f
  <2> HIDE DEF q
  <2> QED
    BY <2>1, <2>2, PostedTyped DEF IInv
<1> QED
  BY <1>1, <1>2, <1>3, <1>4, <1>5, <1>7, <1>8

\* A step of a command within the worker.
LEMMA ExecutingSteady ==
  ASSUME IInv, NEW t \in Tasks, task[t] # <<>>, Top(t).at \in Executing, NEW new \in Stack,
         task' = [task EXCEPT ![t] = new], Held(new) \cap Marked = {}, UNCHANGED pools,
         UNCHANGED <<awake, nativePort, reconnectTimer, authQueue, storage, started>>
  PROVE  TasksTyped' /\ QueueInv' /\ PlanInv'
<1>1. Held(new) \cap Marked = Held(task[t]) \cap Marked /\ awake
  BY ExecutingAt
<1>2. storage' \in Stored /\ started' \in 0..MaxHandlers
  BY DEF IInv, TasksTyped
<1> QED
  BY <1>1, <1>2, Steady

\* A command that has failed is answered.
LEMMA AnswerKeeps ==
  ASSUME IInv, NEW t \in Tasks, task[t] # <<>>, Top(t).at \in Executing, Answer(t, FALSE),
         UNCHANGED <<worker, storage, browser, toExt, broker, expired, history>>
  PROVE  IInv'
<1>2. /\ UNCHANGED pools /\ UNCHANGED started
      /\ task' = [task EXCEPT ![t] = Rest(t)] /\ toBroker' = Executed(t, FALSE)
  BY DEF Answer, Return, Continue, Executed, pools, broker, authority, browser, worker, ports
<1>3. /\ Rest(t) \in Stack /\ Held(Rest(t)) \cap Marked = {}
      /\ Executed(t, FALSE) \in Seq(ToBroker)
  BY ExecutingAt
<1>4. TasksTyped' /\ QueueInv' /\ PlanInv'
  <2>1. UNCHANGED <<awake, nativePort, reconnectTimer, authQueue, storage, started>>
    BY <1>2 DEF worker, ports, session, timers
  <2> QED
    BY <1>2, <1>3, <2>1, ExecutingSteady
<1>5. WorkerTyped' /\ PortsTyped' /\ PagesTyped' /\ BrokerTyped'
  BY <1>2, Kept DEF worker, ports, session, timers, broker, connection
<1>6. WireTyped'
  BY <1>2, <1>3, PoolsKept DEF IInv, WireTyped
<1> QED
  BY <1>4, <1>5, <1>6 DEF IInv

LEMMA ExecuteCheckKeeps ==
  ASSUME IInv, NEW t \in Tasks, ExecuteCheck(t)
  PROVE  IInv'
<1> DEFINE f == Top(t)
           g == [f EXCEPT !.at = "execute.identify", !.saw = EmptyState]
<1>1. f.at = "execute.check" /\ task[t] # <<>>
  BY DEF ExecuteCheck, At
<1>2. /\ UNCHANGED <<worker, storage, browser, toExt, broker, expired, history>>
      /\ UNCHANGED pools /\ UNCHANGED started
      /\ \/ task' = [task EXCEPT ![t] = Rest(t)] /\ toBroker' = Executed(t, FALSE)
         \/ task' = [task EXCEPT ![t] = Failing(t, FALSE)] /\ UNCHANGED toBroker
         \/ task' = [task EXCEPT ![t] = Failing(t, TRUE)] /\ UNCHANGED toBroker
         \/ task' = [task EXCEPT ![t] = <<g>>] /\ UNCHANGED toBroker
  BY DEF ExecuteCheck, Answer, RevokeAndFail, Return, Continue, Failing, Executed, pools, broker,
         authority, browser, worker, ports
<1>3. f.at \in Executing
  BY <1>1 DEF Executing
<1>4. <<g>> \in Stack /\ Held(<<g>>) \cap Marked = {}
  <2>1. f \in Frames /\ f.command \in Dispatched /\ lastDoc \in Nat
    BY <1>1, <1>3, ExecutingAt, StoredGrant
  <2> HIDE DEF f
  <2>2. "execute.identify" \in Labels /\ EmptyState \in Stored
    BY <2>1, IdleFields DEF Labels
  <2>3. g.at = "execute.identify" /\ g.command = f.command /\ (Proper(g) => g \in Frames)
    BY <2>1, <2>2 DEF Frames, FramesIn, FieldsIn, Stored
  <2>4. f.command # None
    BY <2>1, ExtensionAssumption DEF Dispatched
  <2>5. Proper(g)
    BY <2>3, <2>4 DEF Proper, Revoking, Answered, Executing, Located, Identified
  <2> HIDE DEF g
  <2> QED
    BY <2>3, <2>5, OneFrame DEF Stack, Marked, Taking, Planning
<1>5. PICK new \in Stack : task' = [task EXCEPT ![t] = new] /\ Held(new) \cap Marked = {}
  BY <1>1, <1>2, <1>3, <1>4, ExecutingAt
<1>6. toBroker' \in Seq(ToBroker)
  BY <1>1, <1>2, <1>3, ExecutingAt DEF IInv, WireTyped
<1>7. TasksTyped' /\ QueueInv' /\ PlanInv'
  <2>1. UNCHANGED <<awake, nativePort, reconnectTimer, authQueue, storage, started>>
    BY <1>2 DEF worker, ports, session, timers
  <2> QED
    BY <1>1, <1>2, <1>3, <1>5, <2>1, ExecutingSteady
<1>8. WorkerTyped' /\ PortsTyped' /\ PagesTyped' /\ BrokerTyped'
  BY <1>2, Kept DEF worker, ports, session, timers, broker, connection
<1>9. WireTyped'
  BY <1>2, <1>6, PoolsKept DEF IInv, WireTyped
<1> QED
  BY <1>7, <1>8, <1>9 DEF IInv

LEMMA ExecuteIdentifyKeeps ==
  ASSUME IInv, NEW t \in Tasks, ExecuteIdentify(t)
  PROVE  IInv'
<1> DEFINE f == Top(t)
           rest == Rest(t)
           g == [f EXCEPT !.at = "execute.send"]
<1>1. f.at = "execute.identify" /\ task[t] # <<>>
  BY DEF ExecuteIdentify, At
<1>2. /\ UNCHANGED <<worker, storage, browser, wire, broker, expired, history>>
      /\ UNCHANGED pools /\ UNCHANGED started
      /\ \/ task' = [task EXCEPT ![t] = <<g>> \o rest]
         \/ task' = [task EXCEPT ![t] = Failing(t, TRUE)]
  BY DEF ExecuteIdentify, RevokeAndFail, Goto, Continue, Failing, pools, broker,
         authority, browser, worker, ports, wire
<1>3. f.at \in Executing
  BY <1>1 DEF Executing
<1>4. <<g>> \o rest \in Stack /\ Held(<<g>> \o rest) \cap Marked = {}
  <2>1. /\ f \in Frames /\ rest \in Stack /\ Held(rest) \subseteq {"popup.state"}
        /\ Held(rest) \subseteq Resting
    BY <1>1, AtTop DEF Interrupts, Revoking
  <2>2. f.command \in Dispatched
    BY <1>1, <1>3, ExecutingAt
  <2> HIDE DEF f, rest
  <2>3. "execute.send" \in Labels
    BY DEF Labels
  <2>4. g.at = "execute.send" /\ g.command = f.command /\ (Proper(g) => g \in Frames)
    BY <2>1, <2>3, Relabelled
  <2>5. f.command # None
    BY <2>2, ExtensionAssumption DEF Dispatched
  <2>6. Proper(g)
    BY <2>4, <2>5 DEF Proper, Revoking, Answered, Executing, Located, Identified
  <2> HIDE DEF g
  <2>7. <<g>> \o rest \in Stack /\ Held(<<g>> \o rest) = {"execute.send"} \cup Held(rest)
    BY <2>1, <2>4, <2>6, StackPushed
  <2> QED
    BY <2>1, <2>7 DEF Marked, Taking, Planning
<1>5. PICK new \in Stack : task' = [task EXCEPT ![t] = new] /\ Held(new) \cap Marked = {}
  BY <1>1, <1>2, <1>3, <1>4, ExecutingAt
<1>6. TasksTyped' /\ QueueInv' /\ PlanInv'
  <2>1. UNCHANGED <<awake, nativePort, reconnectTimer, authQueue, storage, started>>
    BY <1>2 DEF worker, ports, session, timers
  <2> QED
    BY <1>1, <1>2, <1>3, <1>5, <2>1, ExecutingSteady
<1>7. WorkerTyped' /\ PortsTyped' /\ PagesTyped' /\ BrokerTyped' /\ WireTyped'
  BY <1>2, Kept DEF worker, ports, session, timers, broker, connection
<1> QED
  BY <1>6, <1>7 DEF IInv

LEMMA ExecuteSendKeeps ==
  ASSUME IInv, NEW t \in Tasks, ExecuteSend(t)
  PROVE  IInv'
<1> DEFINE f == Top(t)
           g == granted[under[f.command]]
<1>1. f.at \in Executing /\ task[t] # <<>>
  BY DEF ExecuteSend, At, Executing
<1>2. /\ UNCHANGED <<worker, storage, browser, toExt, broker, expired, torn>>
      /\ UNCHANGED pools /\ UNCHANGED started
      /\ effect' \in {effect, [effect EXCEPT ![f.command] =
                                 [by |-> "bridge", doc |-> page[g.tab].bridge]]}
      /\ \/ task' = [task EXCEPT ![t] = Failing(t, TRUE)] /\ UNCHANGED toBroker
         \/ \E ok \in BOOLEAN :
              task' = [task EXCEPT ![t] = Rest(t)] /\ toBroker' = Executed(t, ok)
  BY DEF ExecuteSend, Answer, RevokeAndFail, Return, Continue, Failing, Executed, pools, broker,
         authority, browser, worker, ports
<1>3. PICK new \in Stack : task' = [task EXCEPT ![t] = new] /\ Held(new) \cap Marked = {}
  BY <1>1, <1>2, ExecutingAt
<1>4. toBroker' \in Seq(ToBroker)
  <2>1. toBroker \in Seq(ToBroker)
    BY DEF IInv, WireTyped
  <2>2. \A ok \in BOOLEAN : Executed(t, ok) \in Seq(ToBroker)
    BY <1>1, ExecutingAt
  <2>3. toBroker' = toBroker \/ \E ok \in BOOLEAN : toBroker' = Executed(t, ok)
    BY <1>2
  <2> QED
    BY <2>1, <2>2, <2>3
<1>5. effect' \in [Commands -> Effect]
  <2>1. f.command \in Commands /\ g.tab \in Tabs
    BY <1>1, ExecutingAt DEF Agreed
  <2>2. /\ page[g.tab].bridge \in 0..lastDoc /\ lastDoc \in 0..MaxDocs
        /\ effect \in [Commands -> Effect]
    BY <2>1 DEF IInv, PagesTyped
  <2>3. [by |-> "bridge", doc |-> page[g.tab].bridge] \in Effect
    BY <2>2, ExtensionAssumption DEF Effect
  <2> QED
    BY <1>2, <2>1, <2>2, <2>3
<1>6. TasksTyped' /\ QueueInv' /\ PlanInv'
  <2>1. UNCHANGED <<awake, nativePort, reconnectTimer, authQueue, storage, started>>
    BY <1>2 DEF worker, ports, session, timers
  <2> QED
    BY <1>1, <1>2, <1>3, <2>1, ExecutingSteady
<1>7. WorkerTyped' /\ PortsTyped' /\ BrokerTyped'
  BY <1>2, Kept DEF worker, ports, session, timers, broker, connection
<1>8. WireTyped'
  BY <1>2, <1>4, PoolsKept DEF IInv, WireTyped
<1>9. PagesTyped'
  BY <1>2, <1>5, PoolsKept DEF IInv, PagesTyped, browser
<1> QED
  BY <1>6, <1>7, <1>8, <1>9 DEF IInv

LEMMA ExecuteNavigateKeeps ==
  ASSUME IInv, NEW t \in Tasks, ExecuteNavigate(t)
  PROVE  IInv'
<1> DEFINE f == Top(t)
           l == under[f.command]
           tab == granted[l].tab
<1>1. f.at \in Executing /\ task[t] # <<>>
  BY DEF ExecuteNavigate, At, Executing
<1>2. /\ UNCHANGED <<awake, ports, session, reconnectTimer, expiryTimer, storage, lastDoc, toExt,
                     broker, expired, torn>>
      /\ UNCHANGED pools /\ UNCHANGED started
      /\ page' = [page EXCEPT ![tab] = [url |-> granted[l].url, bridge |-> 0]]
      /\ tabEvents' = tabEvents \cup {tab} /\ dueRevokes' = dueRevokes \cup {l}
      /\ effect' = [effect EXCEPT ![f.command] = [by |-> "worker", doc |-> page[tab].bridge]]
      /\ task' = [task EXCEPT ![t] = Rest(t)] /\ toBroker' = Executed(t, TRUE)
  BY DEF ExecuteNavigate, Answer, Return, Continue, Executed, pools, broker, authority, ports
<1>3. /\ Rest(t) \in Stack /\ Held(Rest(t)) \cap Marked = {} /\ l \in Known
      /\ tab \in Tabs /\ granted[l].url \in Urls /\ Executed(t, TRUE) \in Seq(ToBroker)
      /\ f.command \in Commands
  BY <1>1, ExecutingAt DEF Agreed
<1> HIDE DEF f, l, tab
<1>4. TasksTyped' /\ QueueInv' /\ PlanInv'
  <2>1. UNCHANGED <<awake, nativePort, reconnectTimer, authQueue, storage, started>>
    BY <1>2 DEF ports, session
  <2> QED
    BY <1>1, <1>2, <1>3, <2>1, ExecutingSteady DEF f
<1>5. PortsTyped' /\ BrokerTyped'
  BY <1>2, Kept DEF session, broker, connection
<1>6. WireTyped' /\ WorkerTyped'
  BY <1>2, <1>3, PoolsKept DEF IInv, WireTyped, WorkerTyped, session
<1>7. PagesTyped'
  <2>1. 0 \in 0..lastDoc
    BY StoredGrant
  <2>2. page' \in [Tabs -> [url: Urls \cup {None}, bridge: 0..lastDoc]]
    BY <1>2, <1>3, <2>1 DEF IInv, PagesTyped
  <2>3. effect' \in [Commands -> Effect]
    <3>1. /\ page[tab].bridge \in 0..lastDoc /\ lastDoc \in 0..MaxDocs
          /\ effect \in [Commands -> Effect]
      BY <1>3 DEF IInv, PagesTyped
    <3>2. [by |-> "worker", doc |-> page[tab].bridge] \in Effect
      BY <3>1, ExtensionAssumption DEF Effect
    <3> QED
      BY <1>2, <1>3, <3>1, <3>2
  <2> QED
    BY <1>2, <1>3, <2>2, <2>3, PoolsKept DEF IInv, PagesTyped
<1> QED
  BY <1>4, <1>5, <1>6, <1>7 DEF IInv

LEMMA ExecuteRefusedKeeps ==
  ASSUME IInv, NEW t \in Tasks, ExecuteRefused(t)
  PROVE  IInv'
<1>1. Top(t).at \in Executing /\ task[t] # <<>>
  BY DEF ExecuteRefused, At, Executing
<1>2. UNCHANGED <<worker, storage, browser, toExt, broker, expired, history>> /\ Answer(t, FALSE)
  BY DEF ExecuteRefused
<1> QED
  BY <1>1, <1>2, AnswerKeeps

LEMMA ExecuteFailKeeps ==
  ASSUME IInv, NEW t \in Tasks, ExecuteFail(t)
  PROVE  IInv'
<1>1. Top(t).at \in Executing /\ task[t] # <<>>
  BY DEF ExecuteFail, At, Executing
<1>2. UNCHANGED <<worker, storage, browser, toExt, broker, expired, history>> /\ Answer(t, FALSE)
  BY DEF ExecuteFail
<1> QED
  BY <1>1, <1>2, AnswerKeeps

LEMMA NavigateKeeps ==
  ASSUME IInv, NEW tab \in Tabs, NEW url \in Urls \cup {None}, Navigate(tab, url)
  PROVE  IInv'
<1>1. /\ UNCHANGED <<worker, handlers, storage, lastDoc, wire, broker, expired, history>>
      /\ page' = [page EXCEPT ![tab] = [url |-> url, bridge |-> 0]]
      /\ tabEvents' = tabEvents \cup {tab}
  BY DEF Navigate
<1>2. UNCHANGED pools
  BY <1>1 DEF pools, worker, ports, broker, authority
<1>3. WorkerTyped' /\ PortsTyped' /\ BrokerTyped' /\ WireTyped'
  BY <1>1, <1>2, Kept DEF worker, ports, session, timers, broker, connection
<1>4. TasksTyped'
  BY <1>1, <1>2, PoolsKept DEF IInv, TasksTyped, handlers
<1>5. QueueInv' /\ PlanInv'
  BY <1>1 DEF IInv, QueueInv, PlanInv, handlers, worker, ports, session, timers
<1>6. PagesTyped'
  <2>1. 0 \in 0..lastDoc
    BY StoredGrant
  <2>2. page' \in [Tabs -> [url: Urls \cup {None}, bridge: 0..lastDoc]]
    BY <1>1, <2>1 DEF IInv, PagesTyped
  <2> QED
    BY <1>1, <1>2, <2>2, PoolsKept DEF IInv, PagesTyped, history
<1> QED
  BY <1>3, <1>4, <1>5, <1>6 DEF IInv

-----------------------------------------------------------------------------
(* grantCurrentTab *)

Granting ==
  {"grant.find", "grant.inject", "grant.verify", "grant.wait", "grant.recheck", "grant.write",
   "grant.teardown", "grant.revoke"}

\* The stacks that a grant may go on with.
LEMMA GrantingAt ==
  ASSUME IInv, NEW t \in Tasks, task[t] # <<>>, Top(t).at \in Granting
  PROVE  LET f == Top(t)
             rest == Rest(t) IN
         /\ f \in Frames /\ awake /\ rest \in Stack /\ f.request \in Requests
         /\ Held(rest) \subseteq {"popup.state"} /\ Held(rest) \subseteq Resting
         /\ f.at # "grant.find" => f.tab \in Tabs /\ f.url \in Urls
         /\ f.at \in Identified => f.doc \in 1..lastDoc
         /\ f.at \in Answered => f.lease \in Known
         /\ \A g \in Frames : g.at \in Granting =>
              /\ <<g>> \o rest \in Stack /\ Held(<<g>> \o rest) = {g.at} \cup Held(rest)
              /\ Held(<<g>> \o rest) \cap Marked = {}
         /\ Held(task[t]) \cap Marked = {}
<1> DEFINE f == Top(t)
           rest == Rest(t)
<1>1. /\ f \in Frames /\ rest \in Stack /\ awake
      /\ Held(task[t]) = {f.at} \cup Held(rest) /\ Held(rest) \subseteq {"popup.state"}
      /\ Held(rest) \subseteq Resting
  <2>1. f.at \notin Interrupts
    BY DEF Granting, Interrupts, Revoking
  <2> QED
    BY <2>1, AtTop
<1>2. f.at \in Granting
  OBVIOUS
<1> HIDE DEF f, rest
<1>3. Held(task[t]) \cap Marked = {}
  BY <1>1, <1>2 DEF Granting, Marked, Taking, Planning
<1>4. f.request \in Requests
  BY <1>1, <1>2, FrameFields DEF Proper, Granting, Located, Identified
<1>5. f.at # "grant.find" => f.tab \in Tabs /\ f.url \in Urls
  BY <1>1, <1>2, FrameFields DEF Proper, Granting, Located, Identified
<1>6. f.at \in Identified => f.doc \in 1..lastDoc
  <2>1. f.doc \in 0..lastDoc /\ lastDoc \in Nat /\ (f.at \in Identified => f.doc # 0)
    BY <1>1, FrameFields, StoredGrant DEF Proper
  <2> QED
    BY <2>1
<1>7. f.at \in Answered => f.lease \in Known
  BY <1>1, FrameFields DEF Proper
<1>8. ASSUME NEW g \in Frames, g.at \in Granting
      PROVE  /\ <<g>> \o rest \in Stack /\ Held(<<g>> \o rest) = {g.at} \cup Held(rest)
             /\ Held(<<g>> \o rest) \cap Marked = {}
  <2>1. <<g>> \o rest \in Stack /\ Held(<<g>> \o rest) = {g.at} \cup Held(rest)
    BY <1>1, StackPushed
  <2> QED
    BY <1>1, <1>8, <2>1 DEF Granting, Marked, Taking, Planning
<1> QED
  BY <1>1, <1>3, <1>4, <1>5, <1>6, <1>7, <1>8 DEF f, rest

LEMMA GrantingSteady ==
  ASSUME IInv, NEW t \in Tasks, task[t] # <<>>, Top(t).at \in Granting, NEW new \in Stack,
         task' = [task EXCEPT ![t] = new], Held(new) \cap Marked = {}, UNCHANGED pools,
         UNCHANGED <<awake, nativePort, reconnectTimer, authQueue, started>>,
         storage' \in Stored
  PROVE  TasksTyped' /\ QueueInv' /\ PlanInv'
<1>1. Held(new) \cap Marked = Held(task[t]) \cap Marked /\ awake
  BY GrantingAt
<1>2. started' \in 0..MaxHandlers
  BY DEF IInv, TasksTyped
<1> QED
  BY <1>1, <1>2, Steady

\* A grant that goes on as it was, or to its catch block.
LEMMA GrantGoesOn ==
  ASSUME IInv, NEW t \in Tasks, task[t] # <<>>, Top(t).at \in Identified \cap Granting,
         NEW label \in {"grant.wait", "grant.teardown", "grant.revoke"}
  PROVE  LET g == [Top(t) EXCEPT !.at = label] IN
         <<g>> \o Rest(t) \in Stack /\ Held(<<g>> \o Rest(t)) \cap Marked = {}
<1> DEFINE f == Top(t)
           g == [f EXCEPT !.at = label]
<1>1. /\ f \in Frames /\ f.request \in Requests /\ f.tab \in Tabs /\ f.url \in Urls
      /\ f.doc \in 1..lastDoc /\ lastDoc \in Nat
  BY GrantingAt, StoredGrant DEF Identified
<1> HIDE DEF f
<1>2. label \in Labels /\ label \in Granting
  BY DEF Labels, Granting
<1>3. /\ g.at = label /\ g.request = f.request /\ g.tab = f.tab /\ g.doc = f.doc
      /\ g.url = f.url /\ (Proper(g) => g \in Frames)
  BY <1>1, <1>2, Relabelled
<1>4. f.request # None /\ f.tab # None /\ f.url # None /\ f.doc # 0
  BY <1>1, ExtensionAssumption
<1>5. Proper(g)
  BY <1>3, <1>4 DEF Proper, Revoking, Answered, Executing, Located, Identified
<1> HIDE DEF g
<1>6. <<g>> \o Rest(t) \in Stack /\ Held(<<g>> \o Rest(t)) \cap Marked = {}
  BY <1>2, <1>3, <1>5, GrantingAt
<1> QED
  BY <1>6 DEF g, f

LEMMA GrantFindKeeps ==
  ASSUME IInv, NEW t \in Tasks, GrantFind(t)
  PROVE  IInv'
<1> DEFINE f == Top(t)
           rest == Rest(t)
           chosen(tab) == [f EXCEPT !.at = "grant.inject", !.tab = tab, !.url = page[tab].url,
                                    !.saw = EmptyState]
           revoke == Revoke(f.saw.grant, TRUE)
<1>1. f.at = "grant.find" /\ f.at \in Granting /\ task[t] # <<>>
  BY DEF GrantFind, At, Granting
<1>2. /\ UNCHANGED <<worker, storage, browser, wire, broker, expired, history>>
      /\ UNCHANGED pools /\ UNCHANGED started
      /\ \/ task' = [task EXCEPT ![t] = <<>>]
         \/ \E tab \in Tabs :
              /\ page[tab].url # None
              /\ \/ task' = [task EXCEPT ![t] = <<chosen(tab)>> \o rest]
                 \/ /\ f.saw.grant # None
                    /\ task' = [task EXCEPT ![t] = <<revoke, chosen(tab)>> \o rest]
  BY DEF GrantFind, Throw, Continue, pools, broker, authority, browser, worker, ports
<1>3. /\ f \in Frames /\ rest \in Stack /\ f.request \in Requests
      /\ Held(rest) \subseteq {"popup.state"} /\ Held(rest) \subseteq Resting
      /\ \A g \in Frames : g.at \in Granting =>
              /\ <<g>> \o rest \in Stack /\ Held(<<g>> \o rest) = {g.at} \cup Held(rest)
              /\ Held(<<g>> \o rest) \cap Marked = {}
  BY <1>1, GrantingAt
<1> HIDE DEF f, rest
<1>4. ASSUME NEW tab \in Tabs, page[tab].url # None
      PROVE  /\ <<chosen(tab)>> \o rest \in Stack
             /\ Held(<<chosen(tab)>> \o rest) \cap Marked = {}
             /\ f.saw.grant # None =>
                  /\ <<revoke, chosen(tab)>> \o rest \in Stack
                  /\ Held(<<revoke, chosen(tab)>> \o rest) \cap Marked = {}
  <2> DEFINE g == chosen(tab)
  <2>1. page[tab].url \in Urls
    BY <1>4 DEF IInv, PagesTyped
  <2>2. "grant.inject" \in Labels /\ EmptyState \in Stored
    BY IdleFields, StoredGrant DEF Labels
  <2>3. /\ g.at = "grant.inject" /\ g.tab = tab /\ g.url = page[tab].url
        /\ g.request = f.request /\ (Proper(g) => g \in Frames)
    BY <1>3, <2>1, <2>2 DEF Frames, FramesIn, FieldsIn, Stored
  <2>4. Proper(g)
    BY <1>3, <2>1, <2>3, ExtensionAssumption
       DEF Proper, Revoking, Answered, Executing, Located, Identified
  <2> HIDE DEF chosen
  <2>5. g.at \in Granting
    BY <2>3 DEF Granting
  <2>6. /\ <<g>> \o rest \in Stack /\ Held(<<g>> \o rest) = {g.at} \cup Held(rest)
        /\ Held(<<g>> \o rest) \cap Marked = {}
    BY <1>3, <2>3, <2>4, <2>5
  <2>7. ASSUME f.saw.grant # None
        PROVE  /\ <<revoke, g>> \o rest \in Stack
               /\ Held(<<revoke, g>> \o rest) \cap Marked = {}
    <3>1. f.saw.grant \in Known /\ TRUE \in BOOLEAN
      BY <1>3, <2>7, FrameFields DEF Stored, StoredIn
    <3>2. revoke \in Frames /\ revoke.at = "revoke.read"
      BY <3>1, StoredGrant, RevokeFrame
    <3> HIDE DEF revoke
    <3>3. <<revoke, g>> \o rest = <<revoke>> \o (<<g>> \o rest)
      BY <1>3, <2>3, <2>4, <3>2, PushTwo, StackEmpty
    <3>4. Held(<<g>> \o rest) \subseteq Resting
      BY <1>3, <2>3, <2>6 DEF Resting
    <3>5. /\ <<revoke>> \o (<<g>> \o rest) \in Stack
          /\ Held(<<revoke>> \o (<<g>> \o rest)) = {revoke.at} \cup Held(<<g>> \o rest)
      BY <2>6, <3>2, <3>4, StackPushed DEF Interrupts, Revoking
    <3> QED
      BY <2>6, <3>2, <3>3, <3>5 DEF Marked, Taking, Planning
  <2> QED
    BY <2>6, <2>7
<1> HIDE DEF chosen, revoke
<1>5. PICK new \in Stack : task' = [task EXCEPT ![t] = new] /\ Held(new) \cap Marked = {}
  BY <1>2, <1>4, StackEmpty
<1>6. TasksTyped' /\ QueueInv' /\ PlanInv'
  <2>1. UNCHANGED <<awake, nativePort, reconnectTimer, authQueue, started>> /\ storage' \in Stored
    BY <1>2, StoredGrant DEF worker, ports, session, timers
  <2> QED
    BY <1>1, <1>2, <1>5, <2>1, GrantingSteady DEF f
<1>7. WorkerTyped' /\ PortsTyped' /\ PagesTyped' /\ BrokerTyped' /\ WireTyped'
  BY <1>2, Kept DEF worker, ports, session, timers, broker, connection
<1> QED
  BY <1>6, <1>7 DEF IInv

\* The parts that a step leaves alone which issues a lease, dispatches a call or makes a
\* document.
LEMMA KeptGrown ==
  ASSUME IInv, Known \subseteq Known', Dispatched \subseteq Dispatched', UNCHANGED lastPort,
         lastDoc' \in 0..MaxDocs, lastDoc <= lastDoc'
  PROVE  /\ Stored \subseteq Stored' /\ Frames \subseteq Frames' /\ Stack \subseteq Stack'
         /\ Agreed \subseteq Agreed' /\ ToExt \subseteq ToExt' /\ ToBroker \subseteq ToBroker'
         /\ Seq(ToExt) \subseteq Seq(ToExt') /\ Seq(ToBroker) \subseteq Seq(ToBroker')
         /\ UNCHANGED <<task, storage, started>> => TasksTyped'
         /\ UNCHANGED <<awake, brokerConnected, reconnectTimer, authQueue, expiryTimer,
                        dueRevokes>> => WorkerTyped'
         /\ UNCHANGED <<ports, authenticated, closing>> => PortsTyped'
         /\ UNCHANGED <<browser, history>> => PagesTyped'
         /\ UNCHANGED wire => WireTyped'
<1>1. lastPort \in Nat /\ lastDoc \in Nat /\ lastDoc' \in Nat
  BY StoredGrant, ExtensionAssumption
<1>2. /\ Stored \subseteq Stored' /\ Frames \subseteq Frames' /\ Stack \subseteq Stack'
      /\ Agreed \subseteq Agreed' /\ ToExt \subseteq ToExt' /\ ToBroker \subseteq ToBroker'
      /\ Seq(ToExt) \subseteq Seq(ToExt') /\ Seq(ToBroker) \subseteq Seq(ToBroker')
      /\ 0..lastDoc \subseteq 0..lastDoc'
  BY <1>1, PoolsGrow
<1>3. UNCHANGED <<task, storage, started>> => TasksTyped'
  BY <1>2 DEF IInv, TasksTyped
<1>4. UNCHANGED <<awake, brokerConnected, reconnectTimer, authQueue, expiryTimer, dueRevokes>>
        => WorkerTyped'
  BY DEF IInv, WorkerTyped
<1>5. UNCHANGED <<ports, authenticated, closing>> => PortsTyped'
  BY DEF IInv, PortsTyped, ports, PortOpen
<1>6. UNCHANGED <<browser, history>> => PagesTyped'
  BY DEF IInv, PagesTyped, browser, history
<1>7. UNCHANGED wire => WireTyped'
  BY <1>2 DEF IInv, WireTyped, wire
<1> QED
  BY <1>2, <1>3, <1>4, <1>5, <1>6, <1>7

LEMMA GrantInjectKeeps ==
  ASSUME IInv, NEW t \in Tasks, GrantInject(t)
  PROVE  IInv'
<1> DEFINE f == Top(t)
           rest == Rest(t)
           doc == DocId(f.tab)
           g == [f EXCEPT !.at = "grant.verify", !.doc = doc]
<1>1. f.at = "grant.inject" /\ f.at \in Granting /\ task[t] # <<>>
  BY DEF GrantInject, At, Granting
<1>2. /\ UNCHANGED <<worker, storage, tabEvents, wire, broker, expired, history>>
      /\ UNCHANGED started /\ UNCHANGED <<standing, under, lastPort>>
  BY DEF GrantInject, Throw, Continue, broker, authority, worker, ports
<1>3. \/ task' = [task EXCEPT ![t] = <<>>] /\ UNCHANGED <<page, lastDoc>>
      \/ /\ page[f.tab].url # None /\ ~(doc > MaxDocs)
         /\ task' = [task EXCEPT ![t] = <<g>> \o rest]
         /\ page' = [page EXCEPT ![f.tab].bridge = doc] /\ lastDoc' = Max({lastDoc, doc})
  BY DEF GrantInject, Throw, Continue
<1>4. /\ f \in Frames /\ rest \in Stack /\ f.request \in Requests
      /\ f.tab \in Tabs /\ f.url \in Urls
      /\ Held(rest) \subseteq {"popup.state"} /\ Held(rest) \subseteq Resting
  BY <1>1, GrantingAt
<1>5. CASE task' = [task EXCEPT ![t] = <<>>] /\ UNCHANGED <<page, lastDoc>>
  <2>1. UNCHANGED pools /\ UNCHANGED browser
    BY <1>2, <1>5 DEF pools, browser
  <2>2. UNCHANGED <<awake, nativePort, reconnectTimer, authQueue, started>> /\ storage' \in Stored
    BY <1>2, StoredGrant DEF worker, ports, session, timers
  <2>3. Held(<<>>) \cap Marked = {}
    BY StackEmpty
  <2>4. TasksTyped' /\ QueueInv' /\ PlanInv'
    BY <1>1, <1>5, <2>1, <2>2, <2>3, StackEmpty, GrantingSteady
  <2>5. WorkerTyped' /\ PortsTyped' /\ PagesTyped' /\ BrokerTyped' /\ WireTyped'
    BY <1>2, <2>1, Kept DEF worker, ports, session, timers, broker, connection
  <2> QED
    BY <2>4, <2>5 DEF IInv
<1>6. CASE /\ page[f.tab].url # None /\ ~(doc > MaxDocs)
           /\ task' = [task EXCEPT ![t] = <<g>> \o rest]
           /\ page' = [page EXCEPT ![f.tab].bridge = doc] /\ lastDoc' = Max({lastDoc, doc})
  <2>1. /\ lastDoc \in 0..MaxDocs /\ page[f.tab].bridge \in 0..lastDoc /\ MaxDocs \in Nat
        /\ page \in [Tabs -> [url: Urls \cup {None}, bridge: 0..lastDoc]]
    BY <1>4, ExtensionAssumption DEF IInv, PagesTyped
  <2>2. doc \in 1..MaxDocs /\ doc \in 1..(lastDoc + 1)
    BY <1>6, <2>1 DEF DocId
  <2> HIDE DEF doc
  <2>3. lastDoc' \in 0..MaxDocs /\ lastDoc <= lastDoc' /\ doc \in 1..lastDoc'
    <3>1. \E x \in {lastDoc, doc} : \A y \in {lastDoc, doc} : x >= y
      BY <2>1, <2>2
    <3>2. Max({lastDoc, doc}) \in {lastDoc, doc} /\ \A y \in {lastDoc, doc} : Max({lastDoc, doc}) >= y
      BY <3>1 DEF Max
    <3> QED
      BY <1>6, <2>1, <2>2, <3>2
  <2>4. Known' = Known /\ Dispatched' = Dispatched
    BY <1>2 DEF Known, Dispatched
  <2>5. /\ Stored \subseteq Stored' /\ Frames \subseteq Frames' /\ Stack \subseteq Stack'
        /\ Agreed \subseteq Agreed'
    BY <1>2, <2>3, <2>4, KeptGrown
  <2> HIDE DEF f, rest
  <2>6. g \in Frames' /\ g.at = "grant.verify"
    <3>1. f \in Frames' /\ "grant.verify" \in Labels /\ doc \in 0..lastDoc' /\ lastDoc' \in Nat
      BY <1>4, <2>1, <2>3, <2>5 DEF Labels
    <3>2. /\ g.at = "grant.verify" /\ g.request = f.request /\ g.tab = f.tab /\ g.url = f.url
          /\ g.doc = doc /\ (Proper(g) => g \in Frames')
      BY <3>1 DEF Frames, FramesIn, FieldsIn, Stored
    <3>3. f.request # None /\ f.tab # None /\ f.url # None /\ doc # 0
      BY <1>4, <2>2, ExtensionAssumption
    <3>4. Proper(g)
      BY <3>2, <3>3 DEF Proper, Revoking, Answered, Executing, Located, Identified
    <3> QED
      BY <3>2, <3>4
  <2> DEFINE new == <<g>> \o rest
  <2> HIDE DEF g
  <2>7. new \in Stack' /\ Held(new) = {"grant.verify"} \cup Held(rest)
    <3>1. rest \in StackOf(Frames')
      BY <1>4, <2>5 DEF Stack
    <3>2. new \in StackOf(Frames') /\ Held(new) = {g.at} \cup Held(rest)
      BY <1>4, <2>6, <3>1, PushedOn
    <3> QED
      BY <2>6, <3>2 DEF Stack
  <2> HIDE DEF new
  <2>8. /\ task' = [task EXCEPT ![t] = new] /\ task'[t] = new
        /\ \A u \in Tasks \ {t} : task'[u] = task[u]
    BY <1>6 DEF IInv, TasksTyped, new
  <2>9. TasksTyped'
    BY <1>2, <2>5, <2>7, <2>8 DEF IInv, TasksTyped
  <2>10. Held(new) \cap Marked = Held(task[t]) \cap Marked /\ awake
    <3>1. Held(task[t]) \cap Marked = {} /\ awake
      BY <1>1, GrantingAt DEF f
    <3>2. Held(new) \cap Marked = {}
      BY <1>4, <2>7 DEF Marked, Taking, Planning
    <3> QED
      BY <3>1, <3>2
  <2>11. ASSUME NEW u \in Tasks
         PROVE  /\ Held(task'[u]) \cap Taking = Held(task[u]) \cap Taking
                /\ Held(task'[u]) \cap Planning = Held(task[u]) \cap Planning
    BY <2>8, <2>10 DEF Marked
  <2>12. QueueInv' /\ PlanInv'
    <3>1. UNCHANGED <<awake, nativePort, reconnectTimer, authQueue>>
      BY <1>2 DEF worker, ports, session, timers
    <3> QED
      BY <2>10, <2>11, <3>1, QueueKept, PlanKept
  <2>13. WorkerTyped' /\ PortsTyped' /\ WireTyped'
    BY <1>2, <2>3, <2>4, KeptGrown DEF worker, ports, session, timers, broker, connection
  <2>14. BrokerTyped'
    BY <1>2, <2>4, <2>5 DEF IInv, BrokerTyped, broker, authority, connection
  <2>15. PagesTyped'
    <3>1. page' \in [Tabs -> [url: Urls \cup {None}, bridge: 0..lastDoc']]
      <4>1. doc \in 0..lastDoc' /\ 0..lastDoc \subseteq 0..lastDoc'
        BY <2>1, <2>3
      <4> QED
        BY <1>6, <2>1, <4>1
    <3> QED
      BY <1>2, <2>3, <2>4, <3>1 DEF IInv, PagesTyped, history
  <2> QED
    BY <2>9, <2>12, <2>13, <2>14, <2>15 DEF IInv
<1> QED
  BY <1>3, <1>5, <1>6

LEMMA GrantVerifyKeeps ==
  ASSUME IInv, NEW t \in Tasks, GrantVerify(t)
  PROVE  IInv'
<1> DEFINE f == Top(t)
           g(label) == [f EXCEPT !.at = label]
           q == [Message("grant", t) EXCEPT !.request = f.request, !.tab = f.tab, !.doc = f.doc,
                                            !.url = f.url]
<1>1. f.at = "grant.verify" /\ f.at \in Identified \cap Granting /\ task[t] # <<>>
  BY DEF GrantVerify, At, Granting, Identified
<1>2. /\ UNCHANGED <<worker, storage, browser, toExt, broker, expired, history>>
      /\ UNCHANGED pools /\ UNCHANGED started
      /\ toBroker' \in {toBroker, Posted(nativePort, q)}
      /\ \E label \in {"grant.wait", "grant.teardown"} :
           task' = [task EXCEPT ![t] = <<g(label)>> \o Rest(t)]
  BY DEF GrantVerify, Goto, Continue, pools, broker, authority, browser, worker, ports
<1>3. PICK new \in Stack : task' = [task EXCEPT ![t] = new] /\ Held(new) \cap Marked = {}
  BY <1>1, <1>2, GrantGoesOn
<1>4. q \in ToBroker
  <2>1. /\ f.request \in Requests /\ f.tab \in Tabs /\ f.url \in Urls /\ f.doc \in 1..lastDoc
        /\ lastDoc \in Nat
    BY <1>1, GrantingAt, StoredGrant DEF Granting
  <2> HIDE DEF f
  <2>2. Message("grant", t) \in MessagesIn({"grant"})
    BY <2>1, MessageFields
  <2>3. f.request # None /\ f.tab # None /\ f.url # None /\ f.doc # 0 /\ f.doc \in 0..lastDoc
    BY <2>1, ExtensionAssumption
  <2> QED
    BY <2>1, <2>2, <2>3 DEF MessagesIn, ToBroker
<1> HIDE DEF q
<1>5. toBroker' \in Seq(ToBroker)
  BY <1>2, <1>4, PostedTyped DEF IInv, WireTyped
<1>6. TasksTyped' /\ QueueInv' /\ PlanInv'
  <2>1. UNCHANGED <<awake, nativePort, reconnectTimer, authQueue, started>> /\ storage' \in Stored
    BY <1>2, StoredGrant DEF worker, ports, session, timers
  <2> QED
    BY <1>1, <1>2, <1>3, <2>1, GrantingSteady
<1>7. WorkerTyped' /\ PortsTyped' /\ PagesTyped' /\ BrokerTyped'
  BY <1>2, Kept DEF worker, ports, session, timers, broker, connection
<1>8. WireTyped'
  BY <1>2, <1>5, PoolsKept DEF IInv, WireTyped
<1> QED
  BY <1>6, <1>7, <1>8 DEF IInv

LEMMA GrantAnsweredKeeps ==
  ASSUME IInv, NEW t \in Tasks, GrantAnswered(t)
  PROVE  IInv'
<1> DEFINE f == Top(t)
           l == Head(toExt).lease
           g == [f EXCEPT !.at = "grant.recheck", !.lease = l]
           h == [f EXCEPT !.at = "grant.teardown"]
<1>1. f.at = "grant.wait" /\ f.at \in Identified \cap Granting /\ task[t] # <<>>
  BY DEF GrantAnswered, At, Granting, Identified
<1>2. /\ UNCHANGED <<worker, storage, browser, toBroker, broker, expired, history>>
      /\ UNCHANGED pools /\ UNCHANGED started /\ toExt # <<>> /\ toExt' = Tail(toExt)
      /\ Head(toExt).m = "lease"
      /\ \/ task' = [task EXCEPT ![t] = <<g>> \o Rest(t)]
         \/ task' = [task EXCEPT ![t] = <<h>> \o Rest(t)]
  BY DEF GrantAnswered, Receives, Taken, Goto, Continue, pools, broker, authority, browser,
         worker, ports
<1>3. Head(toExt) \in ToExt /\ Tail(toExt) \in Seq(ToExt) /\ l \in Known
  BY <1>2, NextMessage DEF IInv, ToExt
<1>4. <<g>> \o Rest(t) \in Stack /\ Held(<<g>> \o Rest(t)) \cap Marked = {}
  <2>1. /\ f \in Frames /\ f.request \in Requests /\ f.tab \in Tabs /\ f.url \in Urls
        /\ f.doc \in 1..lastDoc /\ lastDoc \in Nat
    BY <1>1, GrantingAt, StoredGrant DEF Granting
  <2> HIDE DEF f, l
  <2>2. "grant.recheck" \in Labels
    BY DEF Labels
  <2>3. /\ g.at = "grant.recheck" /\ g.lease = l /\ g.request = f.request /\ g.tab = f.tab
        /\ g.doc = f.doc /\ g.url = f.url /\ (Proper(g) => g \in Frames)
    BY <1>3, <2>1, <2>2 DEF Frames, FramesIn, FieldsIn, Stored
  <2>4. /\ f.request # None /\ f.tab # None /\ f.url # None /\ f.doc # 0
        /\ l # None
    BY <1>3, <2>1, ExtensionAssumption DEF Known
  <2>5. Proper(g)
    BY <2>3, <2>4 DEF Proper, Revoking, Answered, Executing, Located, Identified
  <2> HIDE DEF g
  <2>6. g \in Frames /\ g.at \in Granting
    BY <2>3, <2>5 DEF Granting
  <2> QED
    BY <1>1, <2>6, GrantingAt DEF f
<1>5. <<h>> \o Rest(t) \in Stack /\ Held(<<h>> \o Rest(t)) \cap Marked = {}
  BY <1>1, GrantGoesOn
<1> HIDE DEF g, h
<1>6. PICK new \in Stack : task' = [task EXCEPT ![t] = new] /\ Held(new) \cap Marked = {}
  BY <1>2, <1>4, <1>5
<1>7. TasksTyped' /\ QueueInv' /\ PlanInv'
  <2>1. UNCHANGED <<awake, nativePort, reconnectTimer, authQueue, started>> /\ storage' \in Stored
    BY <1>2, StoredGrant DEF worker, ports, session, timers
  <2> QED
    BY <1>1, <1>2, <1>6, <2>1, GrantingSteady
<1>8. WorkerTyped' /\ PortsTyped' /\ PagesTyped' /\ BrokerTyped'
  BY <1>2, Kept DEF worker, ports, session, timers, broker, connection
<1>9. WireTyped'
  BY <1>2, <1>3, PoolsKept DEF IInv, WireTyped
<1> QED
  BY <1>7, <1>8, <1>9 DEF IInv

LEMMA GrantRecheckKeeps ==
  ASSUME IInv, NEW t \in Tasks, GrantRecheck(t)
  PROVE  IInv'
<1> DEFINE f == Top(t)
           g == [f EXCEPT !.at = "grant.write", !.saw = storage]
           h == [f EXCEPT !.at = "grant.teardown"]
<1>1. f.at = "grant.recheck" /\ f.at \in Identified \cap Granting /\ task[t] # <<>>
  BY DEF GrantRecheck, At, Granting, Identified
<1>2. /\ UNCHANGED <<worker, storage, browser, wire, broker, expired, history>>
      /\ UNCHANGED pools /\ UNCHANGED started
      /\ \/ task' = [task EXCEPT ![t] = <<g>> \o Rest(t)]
         \/ task' = [task EXCEPT ![t] = <<h>> \o Rest(t)]
  BY DEF GrantRecheck, Goto, Continue, pools, broker, authority, browser, worker, ports
<1>3. <<g>> \o Rest(t) \in Stack /\ Held(<<g>> \o Rest(t)) \cap Marked = {}
  <2>1. /\ f \in Frames /\ f.request \in Requests /\ f.tab \in Tabs /\ f.url \in Urls
        /\ f.doc \in 1..lastDoc /\ lastDoc \in Nat /\ f.lease \in Known /\ storage \in Stored
    BY <1>1, GrantingAt, StoredGrant DEF Granting, Answered
  <2> HIDE DEF f
  <2>2. "grant.write" \in Labels
    BY DEF Labels
  <2>3. /\ g.at = "grant.write" /\ g.lease = f.lease /\ g.request = f.request /\ g.tab = f.tab
        /\ g.doc = f.doc /\ g.url = f.url /\ (Proper(g) => g \in Frames)
    BY <2>1, <2>2 DEF Frames, FramesIn, FieldsIn, Stored
  <2>4. /\ f.request # None /\ f.tab # None /\ f.url # None /\ f.doc # 0
        /\ f.lease # None
    BY <2>1, ExtensionAssumption DEF Known
  <2>5. Proper(g)
    BY <2>3, <2>4 DEF Proper, Revoking, Answered, Executing, Located, Identified
  <2> HIDE DEF g
  <2>6. g \in Frames /\ g.at \in Granting
    BY <2>3, <2>5 DEF Granting
  <2> QED
    BY <1>1, <2>6, GrantingAt DEF f
<1>4. <<h>> \o Rest(t) \in Stack /\ Held(<<h>> \o Rest(t)) \cap Marked = {}
  BY <1>1, GrantGoesOn
<1> HIDE DEF g, h
<1>5. PICK new \in Stack : task' = [task EXCEPT ![t] = new] /\ Held(new) \cap Marked = {}
  BY <1>2, <1>3, <1>4
<1>6. TasksTyped' /\ QueueInv' /\ PlanInv'
  <2>1. UNCHANGED <<awake, nativePort, reconnectTimer, authQueue, started>> /\ storage' \in Stored
    BY <1>2, StoredGrant DEF worker, ports, session, timers
  <2> QED
    BY <1>1, <1>2, <1>5, <2>1, GrantingSteady
<1>7. WorkerTyped' /\ PortsTyped' /\ PagesTyped' /\ BrokerTyped' /\ WireTyped'
  BY <1>2, Kept DEF worker, ports, session, timers, broker, connection
<1> QED
  BY <1>6, <1>7 DEF IInv

LEMMA GrantWriteKeeps ==
  ASSUME IInv, NEW t \in Tasks, GrantWrite(t)
  PROVE  IInv'
<1> DEFINE f == Top(t)
           rest == Rest(t)
           written == [pending |-> Filtered(f.saw.pending, Requests \ {f.request}),
                       grant |-> f.lease]
           new == Pruned(written, rest)
<1>1. f.at = "grant.write" /\ f.at \in Granting /\ task[t] # <<>>
  BY DEF GrantWrite, At, Granting
<1>2. /\ UNCHANGED <<awake, ports, session, reconnectTimer, dueRevokes, browser, wire, broker,
                     expired, history>>
      /\ UNCHANGED pools /\ UNCHANGED started /\ storage' = written /\ expiryTimer' = f.lease
      /\ task' = [task EXCEPT ![t] = new]
  BY DEF GrantWrite, Continue, pools, broker, authority, browser, ports
<1>3. /\ f.lease \in Known /\ f \in Frames /\ rest \in Stack
      /\ Held(rest) \subseteq {"popup.state"} /\ Held(rest) \subseteq Resting
  BY <1>1, GrantingAt DEF Answered
<1> HIDE DEF f, rest
<1>4. written \in Stored
  <2>1. f.saw.pending \in Seq(Requests)
    BY <1>3, FrameFields DEF Stored, StoredIn
  <2>2. Filtered(f.saw.pending, Requests \ {f.request}) \in Seq(Requests)
    BY <2>1, FilteredType
  <2> QED
    BY <1>3, <2>2 DEF Stored, StoredIn
<1> HIDE DEF written
<1>5. new \in Stack /\ Held(new) \subseteq Held(rest) \cup {"prune.write", "revoke.read"}
  BY <1>3, <1>4, StoredGrant, PrunedStack
<1> HIDE DEF new
<1>6. Held(new) \cap Marked = {}
  BY <1>3, <1>5 DEF Marked, Taking, Planning
<1>7. TasksTyped' /\ QueueInv' /\ PlanInv'
  <2>1. UNCHANGED <<awake, nativePort, reconnectTimer, authQueue, started>> /\ storage' \in Stored
    BY <1>2, <1>4 DEF ports, session
  <2> QED
    BY <1>1, <1>2, <1>5, <1>6, <2>1, GrantingSteady DEF f
<1>8. PortsTyped' /\ PagesTyped' /\ BrokerTyped' /\ WireTyped'
  BY <1>2, Kept DEF session, broker, connection
<1>9. WorkerTyped'
  BY <1>2, <1>3, PoolsKept DEF IInv, WorkerTyped, session
<1> QED
  BY <1>7, <1>8, <1>9 DEF IInv

LEMMA GrantTeardownKeeps ==
  ASSUME IInv, NEW t \in Tasks, GrantTeardown(t)
  PROVE  IInv'
<1> DEFINE f == Top(t)
           new == <<[f EXCEPT !.at = "grant.revoke"]>> \o Rest(t)
<1>1. f.at = "grant.teardown" /\ f.at \in Granting \cap Identified /\ task[t] # <<>>
  BY DEF GrantTeardown, At, Granting, Identified
<1>2. /\ UNCHANGED <<worker, storage, lastDoc, tabEvents, wire, broker, expired, effect>>
      /\ UNCHANGED pools /\ UNCHANGED started
      /\ page' = TornDown(f.tab, f.doc)
      /\ torn' = torn \cup ({f.lease} \ {None})
      /\ task' = [task EXCEPT ![t] = new]
  BY DEF GrantTeardown, Goto, Continue, pools, broker, authority, worker, ports
<1>3. f.lease \in Known \cup {None}
  BY <1>1, GrantingAt, FrameFields
<1>4. new \in Stack /\ Held(new) \cap Marked = {}
  BY <1>1, GrantGoesOn
<1> HIDE DEF f, new
<1>5. TasksTyped' /\ QueueInv' /\ PlanInv'
  <2>1. UNCHANGED <<awake, nativePort, reconnectTimer, authQueue, started>> /\ storage' \in Stored
    BY <1>2, StoredGrant DEF worker, ports, session, timers
  <2> QED
    BY <1>1, <1>2, <1>4, <2>1, GrantingSteady DEF f
<1>6. WorkerTyped' /\ PortsTyped' /\ BrokerTyped' /\ WireTyped'
  BY <1>2, Kept DEF worker, ports, session, timers, broker, connection
<1>7. PagesTyped'
  <2>1. page' \in [Tabs -> [url: Urls \cup {None}, bridge: 0..lastDoc]]
    BY <1>2, TornDownTyped DEF IInv
  <2>2. torn' \subseteq Known
    BY <1>2, <1>3 DEF IInv, PagesTyped
  <2> QED
    BY <1>2, <2>1, <2>2, PoolsKept DEF IInv, PagesTyped
<1> QED
  BY <1>5, <1>6, <1>7 DEF IInv

LEMMA GrantRevokeKeeps ==
  ASSUME IInv, NEW t \in Tasks, GrantRevoke(t)
  PROVE  IInv'
<1> DEFINE f == Top(t)
<1>1. f.at = "grant.revoke" /\ f.at \in Granting /\ task[t] # <<>>
  BY DEF GrantRevoke, At, Granting
<1>2. /\ UNCHANGED <<worker, storage, browser, toExt, broker, expired, history>>
      /\ UNCHANGED pools /\ UNCHANGED started
      /\ toBroker' = IF f.lease = None THEN toBroker ELSE TellRevoked(f.lease)
      /\ task' = [task EXCEPT ![t] = <<>>]
  BY DEF GrantRevoke, Throw, Continue, pools, broker, authority, browser, worker, ports
<1>3. f.lease \in Known \cup {None}
  BY <1>1, GrantingAt, FrameFields
<1> HIDE DEF f
<1>4. toBroker' \in Seq(ToBroker)
  <2>1. f.lease # None => TellRevoked(f.lease) \in Seq(ToBroker)
    BY <1>3, StoredGrant, RevokeMessage, PostedTyped DEF TellRevoked, IInv
  <2> QED
    BY <1>2, <2>1 DEF IInv, WireTyped
<1>5. TasksTyped' /\ QueueInv' /\ PlanInv'
  <2>1. UNCHANGED <<awake, nativePort, reconnectTimer, authQueue, started>> /\ storage' \in Stored
    BY <1>2, StoredGrant DEF worker, ports, session, timers
  <2>2. Held(<<>>) \cap Marked = {}
    BY StackEmpty
  <2> QED
    BY <1>1, <1>2, <2>1, <2>2, StackEmpty, GrantingSteady DEF f
<1>6. WorkerTyped' /\ PortsTyped' /\ PagesTyped' /\ BrokerTyped'
  BY <1>2, Kept DEF worker, ports, session, timers, broker, connection
<1>7. WireTyped'
  BY <1>2, <1>4, PoolsKept DEF IInv, WireTyped
<1> QED
  BY <1>5, <1>6, <1>7 DEF IInv

-----------------------------------------------------------------------------
(* The broker *)

\* A step that the worker and its pages do not notice.
LEMMA Unnoticed ==
  ASSUME IInv, UNCHANGED <<worker, handlers, storage, browser, history>>,
         Known \subseteq Known', Dispatched \subseteq Dispatched'
  PROVE  /\ TasksTyped' /\ WorkerTyped' /\ PagesTyped' /\ QueueInv' /\ PlanInv'
         /\ UNCHANGED closing => PortsTyped'
         /\ Agreed \subseteq Agreed' /\ ToExt \subseteq ToExt' /\ ToBroker \subseteq ToBroker'
         /\ Seq(ToExt) \subseteq Seq(ToExt') /\ Seq(ToBroker) \subseteq Seq(ToBroker')
<1>1. UNCHANGED lastPort /\ UNCHANGED lastDoc
  BY DEF worker, ports, browser
<1>2. lastDoc \in 0..MaxDocs /\ lastDoc \in Nat
  BY StoredGrant DEF IInv, PagesTyped
<1>3. lastDoc' \in 0..MaxDocs /\ lastDoc <= lastDoc'
  BY <1>1, <1>2
<1>4. TasksTyped' /\ WorkerTyped' /\ PagesTyped' /\ (UNCHANGED closing => PortsTyped')
  BY <1>1, <1>3, KeptGrown DEF worker, handlers, ports, session, timers
<1>5. QueueInv' /\ PlanInv'
  BY DEF IInv, QueueInv, PlanInv, handlers, worker, ports, session, timers
<1>6. /\ Agreed \subseteq Agreed' /\ ToExt \subseteq ToExt' /\ ToBroker \subseteq ToBroker'
      /\ Seq(ToExt) \subseteq Seq(ToExt') /\ Seq(ToBroker) \subseteq Seq(ToBroker')
  BY <1>1, <1>3, KeptGrown
<1> QED
  BY <1>4, <1>5, <1>6

\* What is sent to the worker.
RepliesIn(ms, leases, commands) ==
  [m: ms, to: Tasks \cup {None}, request: Requests \cup {None}, lease: leases \cup {None},
   command: commands \cup {None}, ok: BOOLEAN, list: Seq(Requests)]

LEMMA ReplyFields ==
  ASSUME NEW to \in Tasks \cup {None}, NEW m, NEW leases, NEW commands
  PROVE  Reply(m, to) \in RepliesIn({m}, leases, commands)
<1>1. <<>> \in Seq(Requests)
  OBVIOUS
<1> QED
  BY <1>1 DEF Reply, RepliesIn

LEMMA SentTyped ==
  ASSUME NEW S, toExt \in Seq(S), NEW e \in S
  PROVE  Sent(e) \in Seq(S) /\ Emitted(e) \in Seq(S)
BY DEF Sent, Emitted

\* Leases that end stay known.
LEMMA OverKnown ==
  ASSUME IInv, NEW E, E \subseteq LiveLeases, End(E)
  PROVE  /\ Known' = Known /\ Dispatched' = Dispatched /\ UNCHANGED <<under, outcome>>
         /\ standing' \in [Leases -> {"unissued", "live", "over"}]
<1>1. standing' = Over(E) /\ UNCHANGED <<under, outcome>>
  BY DEF End
<1>2. standing' \in [Leases -> {"unissued", "live", "over"}]
  BY <1>1 DEF IInv, BrokerTyped, Over
<1>3. \A l \in Leases : standing'[l] = "unissued" <=> standing[l] = "unissued"
  BY <1>1 DEF IInv, BrokerTyped, Over, LiveLeases
<1>4. Known' = Known
  BY <1>3 DEF Known
<1> QED
  BY <1>1, <1>2, <1>4 DEF Dispatched

LEMMA AskKeeps ==
  ASSUME IInv, NEW r \in Requests, Ask(r)
  PROVE  IInv'
<1> DEFINE e == [Reply("requested", None) EXCEPT !.request = r]
<1>1. /\ UNCHANGED <<worker, handlers, storage, browser, toBroker, authority, connection,
                     granted, answering, expired, history>>
      /\ asked' = [asked EXCEPT ![r] = "pending"] /\ toExt' = Emitted(e)
  BY DEF Ask
<1>2. UNCHANGED pools
  BY <1>1 DEF pools, authority, worker, ports, browser
<1>3. e \in ToExt
  <2>1. Reply("requested", None) \in RepliesIn({"requested"}, Known, Dispatched)
    BY ReplyFields
  <2>2. r # None
    BY ExtensionAssumption
  <2> QED
    BY <2>1, <2>2 DEF RepliesIn, ToExt
<1> HIDE DEF e
<1>4. WireTyped'
  <2>1. toExt' \in Seq(ToExt)
    BY <1>1, <1>3, SentTyped DEF IInv, WireTyped
  <2> QED
    BY <1>1, <1>2, <2>1, PoolsKept DEF IInv, WireTyped
<1>5. BrokerTyped'
  BY <1>1, <1>2, PoolsKept DEF IInv, BrokerTyped, authority, connection
<1>6. TasksTyped' /\ WorkerTyped' /\ PortsTyped' /\ PagesTyped' /\ QueueInv' /\ PlanInv'
  BY <1>1, <1>2, PoolsKept, Unnoticed DEF connection
<1> QED
  BY <1>4, <1>5, <1>6 DEF IInv

LEMMA WithdrawKeeps ==
  ASSUME IInv, NEW r \in Requests, Withdraw(r)
  PROVE  IInv'
<1>1. /\ UNCHANGED <<worker, handlers, storage, browser, wire, authority, connection,
                     granted, answering, expired, history>>
      /\ asked' = [asked EXCEPT ![r] = "closed"]
  BY DEF Withdraw
<1>2. UNCHANGED pools
  BY <1>1 DEF pools, authority, worker, ports, browser
<1>3. WireTyped'
  BY <1>1, <1>2, Kept
<1>4. BrokerTyped'
  BY <1>1, <1>2, PoolsKept DEF IInv, BrokerTyped, authority, connection
<1>5. TasksTyped' /\ WorkerTyped' /\ PortsTyped' /\ PagesTyped' /\ QueueInv' /\ PlanInv'
  BY <1>1, <1>2, PoolsKept, Unnoticed DEF connection
<1> QED
  BY <1>3, <1>4, <1>5 DEF IInv

LEMMA ExpireKeeps ==
  ASSUME IInv, NEW x \in Requests \cup Leases, Expire(x)
  PROVE  IInv'
<1>1. /\ UNCHANGED <<worker, handlers, storage, browser, wire, broker, history>>
      /\ expired' = expired \cup {x}
  BY DEF Expire
<1>2. UNCHANGED pools
  BY <1>1 DEF pools, broker, authority, worker, ports, browser
<1>3. WireTyped'
  BY <1>1, <1>2, Kept
<1>4. BrokerTyped'
  BY <1>1, <1>2, PoolsKept DEF IInv, BrokerTyped, broker, authority, connection
<1>5. TasksTyped' /\ WorkerTyped' /\ PortsTyped' /\ PagesTyped' /\ QueueInv' /\ PlanInv'
  BY <1>1, <1>2, PoolsKept, Unnoticed DEF broker, connection
<1> QED
  BY <1>3, <1>4, <1>5 DEF IInv

\* An answer or event that names a known lease.
LEMMA LeaseReply ==
  ASSUME NEW l \in Known, NEW to \in Tasks \cup {None}, NEW ok \in BOOLEAN
  PROVE  Revoked(l) \in ToExt /\ [Reply("lease", to) EXCEPT !.lease = l, !.ok = ok] \in ToExt
<1>1. /\ Reply("revoked", None) \in RepliesIn({"revoked"}, Known, Dispatched)
      /\ Reply("lease", to) \in RepliesIn({"lease"}, Known, Dispatched)
  BY ReplyFields
<1>2. l # None
  BY ExtensionAssumption DEF Known
<1> QED
  BY <1>1, <1>2 DEF Revoked, RepliesIn, ToExt

LEMMA BrokerEndsKeeps ==
  ASSUME IInv, NEW l \in Leases, BrokerEnds(l)
  PROVE  IInv'
<1>1. /\ UNCHANGED <<worker, handlers, storage, browser, toBroker, connection, asked,
                     granted, answering, expired, history>>
      /\ standing[l] = "live" /\ End({l}) /\ toExt' = Emitted(Revoked(l))
  BY DEF BrokerEnds
<1>2. /\ Known' = Known /\ Dispatched' = Dispatched /\ UNCHANGED <<under, outcome>>
      /\ standing' \in [Leases -> {"unissued", "live", "over"}]
  BY <1>1, OverKnown DEF LiveLeases
<1>3. /\ TasksTyped' /\ WorkerTyped' /\ PagesTyped' /\ QueueInv' /\ PlanInv' /\ PortsTyped'
      /\ Agreed \subseteq Agreed' /\ ToExt \subseteq ToExt' /\ ToBroker \subseteq ToBroker'
      /\ Seq(ToExt) \subseteq Seq(ToExt') /\ Seq(ToBroker) \subseteq Seq(ToBroker')
  BY <1>1, <1>2, Unnoticed DEF connection
<1>4. WireTyped'
  <2>1. l \in Known
    BY <1>1 DEF Known
  <2>2. toExt' \in Seq(ToExt)
    BY <1>1, <2>1, LeaseReply, SentTyped DEF IInv, WireTyped
  <2> QED
    BY <1>1, <1>3, <2>2 DEF IInv, WireTyped
<1>5. BrokerTyped'
  BY <1>1, <1>2, <1>3 DEF IInv, BrokerTyped, connection
<1> QED
  BY <1>3, <1>4, <1>5 DEF IInv

LEMMA BrokerSeesCloseKeeps ==
  ASSUME IInv, BrokerSeesClose
  PROVE  IInv'
<1>1. /\ UNCHANGED <<worker, handlers, storage, browser, wire, admitted, joined, asked, granted,
                     answering, expired, history>>
      /\ closing > 0 /\ closing' = closing - 1 /\ registered' = FALSE /\ End(LiveLeases)
  BY DEF BrokerSeesClose
<1>2. /\ Known' = Known /\ Dispatched' = Dispatched /\ UNCHANGED <<under, outcome>>
      /\ standing' \in [Leases -> {"unissued", "live", "over"}]
  BY <1>1, OverKnown
<1>3. /\ TasksTyped' /\ WorkerTyped' /\ PagesTyped' /\ QueueInv' /\ PlanInv'
      /\ Agreed \subseteq Agreed'
      /\ Seq(ToExt) \subseteq Seq(ToExt') /\ Seq(ToBroker) \subseteq Seq(ToBroker')
  BY <1>1, <1>2, Unnoticed
<1>4. PortsTyped'
  <2>1. UNCHANGED <<ports, authenticated>> /\ UNCHANGED PortOpen
    BY <1>1 DEF worker, ports, session, PortOpen
  <2>2. /\ closing \in Nat /\ lastPort \in Nat
        /\ closing + (IF PortOpen THEN 1 ELSE 0) <= lastPort
    BY DEF IInv, PortsTyped
  <2>3. closing' \in Nat /\ closing' + (IF PortOpen THEN 1 ELSE 0) <= lastPort
    BY <1>1, <2>2
  <2> QED
    BY <2>1, <2>3 DEF IInv, PortsTyped, ports
<1>5. WireTyped'
  BY <1>1, <1>3 DEF IInv, WireTyped, wire
<1>6. BrokerTyped'
  BY <1>1, <1>2, <1>3 DEF IInv, BrokerTyped
<1> QED
  BY <1>3, <1>4, <1>5, <1>6 DEF IInv

LEMMA BrokerDispatchesKeeps ==
  ASSUME IInv, NEW k \in Commands, NEW l \in Leases, BrokerDispatches(k, l)
  PROVE  IInv'
<1> DEFINE e == [Reply("execute", None) EXCEPT !.command = k]
<1>1. /\ UNCHANGED <<worker, handlers, storage, browser, toBroker, connection, asked,
                     granted, answering, expired, history>>
      /\ standing[l] = "live" /\ under' = [under EXCEPT ![k] = l]
      /\ standing' = Over({}) /\ outcome' = [outcome EXCEPT ![k] = "running"]
      /\ toExt' = Emitted(e)
  BY DEF BrokerDispatches, Dispatch
<1>2. UNCHANGED standing /\ Known' = Known /\ l \in Known
  <2>1. UNCHANGED standing
    BY <1>1 DEF IInv, BrokerTyped, Over
  <2> QED
    BY <1>1, <2>1 DEF Known
<1>3. /\ under' \in [Commands -> Known \cup {None}] /\ under'[k] = l
      /\ \A c \in Commands \ {k} : under'[c] = under[c]
  BY <1>1, <1>2 DEF IInv, BrokerTyped
<1>4. Dispatched \subseteq Dispatched' /\ k \in Dispatched'
  BY <1>2, <1>3 DEF Dispatched
<1>5. /\ TasksTyped' /\ WorkerTyped' /\ PagesTyped' /\ QueueInv' /\ PlanInv' /\ PortsTyped'
      /\ Agreed \subseteq Agreed' /\ ToExt \subseteq ToExt' /\ ToBroker \subseteq ToBroker'
      /\ Seq(ToExt) \subseteq Seq(ToExt') /\ Seq(ToBroker) \subseteq Seq(ToBroker')
  BY <1>1, <1>2, <1>4, Unnoticed DEF connection
<1>6. e \in ToExt'
  <2>1. Reply("execute", None) \in RepliesIn({"execute"}, Known', Dispatched')
    BY ReplyFields
  <2>2. k # None
    BY ExtensionAssumption
  <2> QED
    BY <1>4, <2>1, <2>2 DEF RepliesIn, ToExt
<1> HIDE DEF e
<1>7. WireTyped'
  <2>1. toExt \in Seq(ToExt') /\ toBroker' \in Seq(ToBroker')
    BY <1>1, <1>5 DEF IInv, WireTyped
  <2>2. toExt' \in Seq(ToExt')
    BY <1>1, <1>6, <2>1, SentTyped
  <2> QED
    BY <2>1, <2>2 DEF WireTyped
<1>8. BrokerTyped'
  BY <1>1, <1>2, <1>3, <1>5 DEF IInv, BrokerTyped, connection
<1> QED
  BY <1>5, <1>7, <1>8 DEF IInv

\* What is next to be heard.
LEMMA NextHeard ==
  ASSUME WireTyped, toBroker # <<>>
  PROVE  Head(toBroker) \in ToBroker /\ Tail(toBroker) \in Seq(ToBroker)
BY DEF WireTyped

LEMMA BrokerIsToldKeeps ==
  ASSUME IInv, BrokerIsTold
  PROVE  IInv'
<1> DEFINE q == Head(toBroker)
<1>1. /\ UNCHANGED <<worker, handlers, storage, browser, connection, asked, granted,
                     answering, expired, history>>
      /\ toBroker # <<>> /\ toBroker' = Tail(toBroker)
      /\ \/ /\ q.m = "revoke" /\ standing[q.lease] = "live" /\ End({q.lease})
            /\ toExt' = Emitted(Revoked(q.lease))
         \/ UNCHANGED <<authority, toExt>>
  BY DEF BrokerIsTold
<1>2. q \in ToBroker /\ Tail(toBroker) \in Seq(ToBroker)
  BY <1>1, NextHeard DEF IInv
<1> HIDE DEF q
<1>3. /\ Known' = Known /\ Dispatched' = Dispatched /\ UNCHANGED under
      /\ standing' \in [Leases -> {"unissued", "live", "over"}] /\ UNCHANGED outcome
      /\ toExt' \in Seq(ToExt)
  <2>1. CASE /\ q.m = "revoke" /\ standing[q.lease] = "live" /\ End({q.lease})
             /\ toExt' = Emitted(Revoked(q.lease))
    <3>1. q.lease \in Known /\ q.lease \in Leases
      BY <1>2, <2>1 DEF ToBroker, Known
    <3>2. /\ Known' = Known /\ Dispatched' = Dispatched /\ UNCHANGED <<under, outcome>>
          /\ standing' \in [Leases -> {"unissued", "live", "over"}]
      BY <2>1, <3>1, OverKnown DEF LiveLeases
    <3>3. toExt' \in Seq(ToExt)
      BY <2>1, <3>1, LeaseReply, SentTyped DEF IInv, WireTyped
    <3> QED
      BY <3>2, <3>3
  <2>2. CASE UNCHANGED <<authority, toExt>>
    BY <2>2 DEF IInv, BrokerTyped, WireTyped, authority, Known, Dispatched
  <2> QED
    BY <1>1, <2>1, <2>2
<1>4. /\ TasksTyped' /\ WorkerTyped' /\ PagesTyped' /\ QueueInv' /\ PlanInv' /\ PortsTyped'
      /\ Agreed \subseteq Agreed'
      /\ Seq(ToExt) \subseteq Seq(ToExt') /\ Seq(ToBroker) \subseteq Seq(ToBroker')
  BY <1>1, <1>3, Unnoticed DEF connection
<1>5. WireTyped'
  BY <1>1, <1>2, <1>3, <1>4 DEF WireTyped
<1>6. BrokerTyped'
  BY <1>1, <1>3, <1>4 DEF IInv, BrokerTyped, connection
<1> QED
  BY <1>4, <1>5, <1>6 DEF IInv

LEMMA BrokerAnswersGrantKeeps ==
  ASSUME IInv, BrokerAnswersGrant
  PROVE  IInv'
<1>1. PICK a \in answering :
        /\ answering' = answering \ {a}
        /\ toExt' = IF a.to = None THEN toExt
                    ELSE Sent([Reply("lease", a.to) EXCEPT !.lease = a.lease,
                                 !.ok = standing[a.lease] = "live" /\ a.lease \notin expired])
        /\ UNCHANGED <<worker, handlers, storage, browser, toBroker, authority, connection,
                       asked, granted, expired, history>>
  BY DEF BrokerAnswersGrant
<1> DEFINE ok == standing[a.lease] = "live" /\ a.lease \notin expired
           e == [Reply("lease", a.to) EXCEPT !.lease = a.lease, !.ok = ok]
<1>2. UNCHANGED pools
  BY <1>1 DEF pools, authority, worker, ports, browser
<1>3. a.lease \in Known /\ a.to \in Tasks \cup {None}
  BY DEF IInv, BrokerTyped
<1>4. ok \in BOOLEAN
  OBVIOUS
<1>5. toExt' = IF a.to = None THEN toExt ELSE Sent(e)
  BY <1>1
<1> HIDE DEF ok
<1>6. e \in ToExt
  BY <1>3, <1>4, LeaseReply
<1> HIDE DEF e
<1>7. WireTyped'
  <2>1. toExt' \in Seq(ToExt)
    BY <1>5, <1>6, SentTyped DEF IInv, WireTyped
  <2> QED
    BY <1>1, <1>2, <2>1, PoolsKept DEF IInv, WireTyped
<1>8. BrokerTyped'
  BY <1>1, <1>2, PoolsKept DEF IInv, BrokerTyped, authority, connection
<1>9. TasksTyped' /\ WorkerTyped' /\ PortsTyped' /\ PagesTyped' /\ QueueInv' /\ PlanInv'
  BY <1>1, <1>2, PoolsKept, Unnoticed DEF connection
<1> QED
  BY <1>7, <1>8, <1>9 DEF IInv

LEMMA PendingListed ==
  SetToSeq(PendingAtBroker) \in Seq(Requests)
<1> DEFINE S == PendingAtBroker
           n == Cardinality(S)
<1>1. S \subseteq Requests /\ IsFiniteSet(S)
  <2>1. S \in SUBSET Requests
    BY DEF PendingAtBroker
  <2> QED
    BY <2>1, ExtensionAssumption, FS_Subset
<1>2. n \in Nat /\ ExistsBijection(1..n, S)
  BY <1>1, FS_CardinalityType
<1> HIDE DEF S
<1>3. \E f \in [1..Cardinality(S) -> S] : IsInjective(f)
  BY <1>2 DEF ExistsBijection, Bijection, Injection
<1>4. SetToSeq(S) \in [1..Cardinality(S) -> S]
  BY <1>3 DEF SetToSeq
<1> HIDE DEF n
<1>5. SetToSeq(S) \in [1..n -> Requests]
  BY <1>1, <1>4 DEF n
<1>6. SetToSeq(S) \in Seq(Requests)
  BY <1>2, <1>5
<1> QED
  BY <1>6 DEF S

LEMMA BrokerAdmitsKeeps ==
  ASSUME IInv, BrokerAdmits
  PROVE  IInv'
<1> DEFINE q == Head(toBroker)
           list == SetToSeq(PendingAtBroker)
           told(paired) == [Reply("auth", q.to) EXCEPT !.ok = paired]
           listed == [Reply("register", q.to) EXCEPT !.list = list]
<1>1. /\ UNCHANGED <<worker, handlers, storage, browser, authority, closing, asked, granted,
                     answering, expired, history>>
      /\ toBroker # <<>> /\ toBroker' = Tail(toBroker)
      /\ \/ /\ \E paired \in BOOLEAN :
                 admitted' = paired /\ toExt' \in {toExt, Sent(told(paired))}
            /\ UNCHANGED <<joined, registered>>
         \/ /\ joined' = TRUE /\ registered' = TRUE /\ UNCHANGED admitted
            /\ toExt' \in {toExt, Sent(listed)}
         \/ UNCHANGED <<admitted, joined, registered, toExt>>
  BY DEF BrokerAdmits
<1>2. q.to \in Tasks \cup {None} /\ Tail(toBroker) \in Seq(ToBroker)
  BY <1>1, NextHeard DEF IInv, ToBroker
<1>3. list \in Seq(Requests)
  BY PendingListed
<1>4. UNCHANGED pools
  BY <1>1 DEF pools, authority, worker, ports, browser
<1> HIDE DEF q, list
<1>5. listed \in ToExt /\ \A paired \in BOOLEAN : told(paired) \in ToExt
  <2>1. /\ Reply("auth", q.to) \in RepliesIn({"auth"}, Known, Dispatched)
        /\ Reply("register", q.to) \in RepliesIn({"register"}, Known, Dispatched)
    BY <1>2, ReplyFields
  <2> QED
    BY <1>3, <2>1 DEF RepliesIn, ToExt
<1> HIDE DEF listed, told
<1>6. toExt' \in Seq(ToExt)
  BY <1>1, <1>5, SentTyped DEF IInv, WireTyped
<1>7. admitted' \in BOOLEAN /\ joined' \in BOOLEAN /\ registered' \in BOOLEAN
  BY <1>1 DEF IInv, BrokerTyped
<1>8. WireTyped'
  BY <1>1, <1>2, <1>4, <1>6, PoolsKept DEF WireTyped
<1>9. BrokerTyped'
  BY <1>1, <1>4, <1>7, PoolsKept DEF IInv, BrokerTyped, authority
<1>10. TasksTyped' /\ WorkerTyped' /\ PortsTyped' /\ PagesTyped' /\ QueueInv' /\ PlanInv'
  BY <1>1, <1>4, PoolsKept, Unnoticed
<1> QED
  BY <1>8, <1>9, <1>10 DEF IInv

LEMMA BrokerGrantsKeeps ==
  ASSUME IInv, BrokerGrants
  PROVE  IInv'
<1> DEFINE q == Head(toBroker)
           consent == [request |-> q.request, tab |-> q.tab, doc |-> q.doc, url |-> q.url]
<1>1. /\ UNCHANGED <<worker, handlers, storage, browser, toExt, connection, expired, history>>
      /\ toBroker # <<>> /\ toBroker' = Tail(toBroker) /\ q.m = "grant"
      /\ \/ UNCHANGED <<authority, asked, granted, answering>>
         \/ \E l \in Leases :
              /\ standing[l] = "unissued" /\ standing' = [Over({}) EXCEPT ![l] = "live"]
              /\ UNCHANGED <<under, outcome>>
              /\ asked' = [asked EXCEPT ![q.request] = "closed"]
              /\ granted' = [granted EXCEPT ![l] = consent]
              /\ answering' = answering \cup {[lease |-> l, to |-> q.to]}
  BY DEF BrokerGrants, Issue
<1>2. q \in ToBroker /\ Tail(toBroker) \in Seq(ToBroker) /\ lastDoc \in Nat
  BY <1>1, NextHeard, StoredGrant DEF IInv
<1>3. consent \in Agreed /\ consent \in Consent /\ q.to \in Tasks \cup {None}
  <2>1. /\ q.request \in Requests /\ q.tab \in Tabs /\ q.url \in Urls /\ q.doc \in 0..lastDoc
        /\ q.doc # 0 /\ q.to \in Tasks \cup {None}
    BY <1>1, <1>2 DEF ToBroker
  <2> HIDE DEF q
  <2>2. q.doc \in 1..lastDoc /\ q.doc \in Nat
    BY <1>2, <2>1
  <2> QED
    BY <2>1, <2>2 DEF Agreed, Consent
<1> HIDE DEF q, consent
<1>4. CASE UNCHANGED <<authority, asked, granted, answering>>
  <2>1. UNCHANGED pools
    BY <1>1, <1>4 DEF pools, authority, worker, ports, browser
  <2>2. WireTyped'
    BY <1>1, <1>2, <2>1, PoolsKept DEF IInv, WireTyped
  <2>3. BrokerTyped'
    BY <1>1, <1>4, <2>1, Kept DEF broker
  <2>4. TasksTyped' /\ WorkerTyped' /\ PortsTyped' /\ PagesTyped' /\ QueueInv' /\ PlanInv'
    BY <1>1, <2>1, PoolsKept, Unnoticed DEF connection
  <2> QED
    BY <2>2, <2>3, <2>4 DEF IInv
<1>5. ASSUME NEW l \in Leases,
             standing[l] = "unissued", standing' = [Over({}) EXCEPT ![l] = "live"],
             UNCHANGED <<under, outcome>>,
             asked' = [asked EXCEPT ![q.request] = "closed"],
             granted' = [granted EXCEPT ![l] = consent],
             answering' = answering \cup {[lease |-> l, to |-> q.to]}
      PROVE  IInv'
  <2>1. /\ standing' \in [Leases -> {"unissued", "live", "over"}] /\ standing'[l] = "live"
        /\ \A m \in Leases \ {l} : standing'[m] = standing[m]
    BY <1>5 DEF IInv, BrokerTyped, Over
  <2>2. Known' = Known \cup {l} /\ l \notin Known
    BY <1>5, <2>1 DEF Known
  <2>3. Dispatched \subseteq Dispatched'
    BY <1>5, <2>2 DEF Dispatched
  <2>4. /\ TasksTyped' /\ WorkerTyped' /\ PagesTyped' /\ QueueInv' /\ PlanInv' /\ PortsTyped'
        /\ Agreed \subseteq Agreed'
        /\ Seq(ToExt) \subseteq Seq(ToExt') /\ Seq(ToBroker) \subseteq Seq(ToBroker')
    BY <1>1, <2>2, <2>3, Unnoticed DEF connection
  <2>5. WireTyped'
    BY <1>1, <1>2, <2>4 DEF IInv, WireTyped
  <2>6. granted' \in [Leases -> Consent] /\ \A m \in Known' : granted'[m] \in Agreed'
    <3>1. granted \in [Leases -> Consent] /\ \A m \in Known : granted[m] \in Agreed
      BY DEF IInv, BrokerTyped
    <3>2. ASSUME NEW m \in Known' PROVE granted'[m] \in Agreed'
      <4>1. CASE m = l
        BY <1>3, <1>5, <2>4, <3>1, <4>1
      <4>2. CASE m # l
        <5>1. m \in Known /\ m \in Leases
          BY <2>2, <4>2 DEF Known
        <5>2. granted'[m] = granted[m]
          BY <1>5, <3>1, <4>2, <5>1
        <5> QED
          BY <2>4, <3>1, <5>1, <5>2
      <4> QED
        BY <4>1, <4>2
    <3> QED
      BY <1>3, <1>5, <3>1, <3>2
  <2>7. asked' \in [Requests -> {"unused", "pending", "closed"}]
    BY <1>5 DEF IInv, BrokerTyped
  <2>8. answering' \subseteq [lease: Known', to: Tasks \cup {None}]
    BY <1>3, <1>5, <2>2 DEF IInv, BrokerTyped
  <2>9. under' \in [Commands -> Known' \cup {None}]
        /\ outcome' \in [Commands -> {"idle", "running", "result", "error"}]
    BY <1>5, <2>2 DEF IInv, BrokerTyped
  <2>10. BrokerTyped'
    BY <1>1, <2>1, <2>6, <2>7, <2>8, <2>9 DEF IInv, BrokerTyped, connection
  <2> QED
    BY <2>4, <2>5, <2>10 DEF IInv
<1> QED
  BY <1>1, <1>4, <1>5

-----------------------------------------------------------------------------
(* The theorems *)

LEMMA Begun ==
  ASSUME Init
  PROVE  IInv
<1>1. Known = {} /\ Dispatched = {}
  BY DEF Init, AuthorityInit, Known, Dispatched
<1>2. /\ MaxPorts \in Nat /\ MaxDocs \in Nat /\ MaxHandlers \in Nat
      /\ 0 \in 0..MaxPorts /\ 0 \in 0..MaxDocs /\ 0 \in 0..MaxHandlers /\ 0 \in 0..0 /\ 0 \in Nat
  BY ExtensionAssumption
<1>3. TasksTyped
  <2>1. EmptyState \in Stored
    BY <1>2, IdleFields DEF Init
  <2> QED
    BY <1>2, <2>1, StackEmpty DEF Init, TasksTyped
<1>4. WorkerTyped
  <2>1. <<>> \in Seq(Tasks)
    OBVIOUS
  <2> QED
    BY <2>1 DEF Init, WorkerTyped
<1>5. PortsTyped
  BY <1>2 DEF Init, PortsTyped, PortOpen
<1>6. PagesTyped
  <2>1. page \in [Tabs -> [url: Urls \cup {None}, bridge: 0..lastDoc]]
    <3>1. [url: Urls, bridge: {0}] \subseteq [url: Urls \cup {None}, bridge: 0..0]
      BY <1>2
    <3> QED
      BY <3>1 DEF Init
  <2>2. NoEffect \in Effect
    BY <1>2 DEF NoEffect, Effect
  <2> QED
    BY <1>2, <2>1, <2>2 DEF Init, PagesTyped
<1>7. BrokerTyped
  <2>1. NoConsent \in Consent
    BY <1>2 DEF NoConsent, Consent
  <2> QED
    BY <1>1, <2>1 DEF Init, AuthorityInit, BrokerTyped
<1>8. WireTyped
  <2>1. <<>> \in Seq(ToExt) /\ <<>> \in Seq(ToBroker)
    OBVIOUS
  <2> QED
    BY <2>1 DEF Init, WireTyped
<1>9. QueueInv
  <2>1. \A u \in Tasks : Held(task[u]) = {}
    BY StackEmpty DEF Init
  <2>2. Range(authQueue) = {} /\ DOMAIN authQueue = {}
    BY DEF Init, Range
  <2> QED
    BY <2>1, <2>2 DEF QueueInv
<1>10. PlanInv
  BY DEF Init, PlanInv
<1> QED
  BY <1>3, <1>4, <1>5, <1>6, <1>7, <1>8, <1>9, <1>10 DEF IInv

LEMMA TaskStepKeeps ==
  ASSUME IInv, NEW t \in Tasks, TaskStep(t)
  PROVE  IInv'
<1>1. CASE PruneWrite(t)
  BY <1>1, PruneWriteKeeps
<1>2. CASE RevokeRead(t)
  BY <1>2, RevokeReadKeeps
<1>3. CASE RevokeTeardown(t)
  BY <1>3, RevokeTeardownKeeps
<1>4. CASE RevokeWrite(t)
  BY <1>4, RevokeWriteKeeps
<1>5. CASE RevokeNotify(t)
  BY <1>5, RevokeNotifyKeeps
<1>6. CASE InitializeConnect(t)
  BY <1>6, InitializeConnectKeeps
<1>7. CASE AuthTurn(t)
  BY <1>7, AuthTurnKeeps
<1>8. CASE AuthAnswered(t)
  BY <1>8, AuthAnsweredKeeps
<1>9. CASE RegisterSend(t)
  BY <1>9, RegisterSendKeeps
<1>10. CASE RegisterAnswered(t)
  BY <1>10, RegisterAnsweredKeeps
<1>11. CASE RegisterWrite(t)
  BY <1>11, RegisterWriteKeeps
<1>12. CASE RpcFails(t)
  BY <1>12, RpcFailsKeeps
<1>13. CASE RegisterClose(t)
  BY <1>13, RegisterCloseKeeps
<1>14. CASE LostReconnect(t)
  BY <1>14, LostReconnectKeeps
<1>15. CASE RequestedWrite(t)
  BY <1>15, RequestedWriteKeeps
<1>16. CASE PopupState(t)
  BY <1>16, PopupStateKeeps
<1>17. CASE ExecuteCheck(t)
  BY <1>17, ExecuteCheckKeeps
<1>18. CASE ExecuteIdentify(t)
  BY <1>18, ExecuteIdentifyKeeps
<1>19. CASE ExecuteSend(t)
  BY <1>19, ExecuteSendKeeps
<1>20. CASE ExecuteNavigate(t)
  BY <1>20, ExecuteNavigateKeeps
<1>21. CASE ExecuteFail(t)
  BY <1>21, ExecuteFailKeeps
<1>22. CASE GrantFind(t)
  BY <1>22, GrantFindKeeps
<1>23. CASE GrantInject(t)
  BY <1>23, GrantInjectKeeps
<1>24. CASE GrantVerify(t)
  BY <1>24, GrantVerifyKeeps
<1>25. CASE GrantAnswered(t)
  BY <1>25, GrantAnsweredKeeps
<1>26. CASE GrantRecheck(t)
  BY <1>26, GrantRecheckKeeps
<1>27. CASE GrantWrite(t)
  BY <1>27, GrantWriteKeeps
<1>28. CASE GrantTeardown(t)
  BY <1>28, GrantTeardownKeeps
<1>29. CASE ExecuteRefused(t)
  BY <1>29, ExecuteRefusedKeeps
<1>30. CASE GrantRevoke(t)
  BY <1>30, GrantRevokeKeeps
<1> QED
  BY <1>1, <1>2, <1>3, <1>4, <1>5, <1>6, <1>7, <1>8, <1>9, <1>10, <1>11, <1>12, <1>13, <1>14,
     <1>15, <1>16, <1>17, <1>18, <1>19, <1>20, <1>21, <1>22, <1>23, <1>24, <1>25, <1>26, <1>27,
     <1>28, <1>29, <1>30 DEF TaskStep

LEMMA HandlerKeeps ==
  ASSUME IInv, NEW t \in Tasks, HandlerStarts(t)
  PROVE  IInv'
<1>1. CASE Initialize(t)
  BY <1>1, InitializeKeeps
<1>2. CASE Reconnect(t)
  BY <1>2, ReconnectKeeps
<1>3. CASE PortLossSeen(t)
  BY <1>3, PortLossSeenKeeps
<1>4. CASE EventArrives(t)
  BY <1>4, EventArrivesKeeps
<1>5. CASE \E pairing \in BOOLEAN : RegisterAgain(t, pairing)
  BY <1>5, RegisterAgainKeeps
<1>6. CASE \E tab \in Tabs : TabEvent(t, tab)
  BY <1>6, TabEventKeeps
<1>7. CASE ExpiryTimer(t)
  BY <1>7, ExpiryTimerKeeps
<1>8. CASE \E l \in Leases : NavigationTimer(t, l)
  BY <1>8, NavigationTimerKeeps
<1>9. CASE PopupOpens(t)
  BY <1>9, PopupOpensKeeps
<1>10. CASE PopupRevokes(t)
  BY <1>10, PopupRevokesKeeps
<1>11. CASE \E r \in Requests : PopupGrants(t, r)
  BY <1>11, PopupGrantsKeeps
<1>12. CASE ReconnectTimerIdle
  BY <1>12, ReconnectTimerIdleKeeps
<1> QED
  BY <1>1, <1>2, <1>3, <1>4, <1>5, <1>6, <1>7, <1>8, <1>9, <1>10, <1>11,
     <1>12 DEF HandlerStarts

LEMMA BrokerKeeps ==
  ASSUME IInv, BrokerHears \/ Agents
  PROVE  IInv'
<1>1. CASE BrokerSeesClose
  BY <1>1, BrokerSeesCloseKeeps
<1>2. CASE BrokerAdmits
  BY <1>2, BrokerAdmitsKeeps
<1>3. CASE BrokerGrants
  BY <1>3, BrokerGrantsKeeps
<1>4. CASE BrokerAnswersGrant
  BY <1>4, BrokerAnswersGrantKeeps
<1>5. CASE BrokerIsTold
  BY <1>5, BrokerIsToldKeeps
<1>6. CASE \E r \in Requests : Ask(r)
  BY <1>6, AskKeeps
<1>7. CASE \E k \in Commands, l \in Leases : BrokerDispatches(k, l)
  BY <1>7, BrokerDispatchesKeeps
<1> QED
  BY <1>1, <1>2, <1>3, <1>4, <1>5, <1>6, <1>7 DEF BrokerHears, Agents

LEMMA EventsKeep ==
  ASSUME IInv, Events
  PROVE  IInv'
<1>1. CASE \E tab \in Tabs, url \in Urls \cup {None} : Navigate(tab, url)
  BY <1>1, NavigateKeeps
<1>2. CASE PortLost
  BY <1>2, PortLostKeeps
<1>3. CASE WorkerStops
  BY <1>3, WorkerStopsKeeps
<1>4. CASE \E x \in Requests \cup Leases : Expire(x)
  BY <1>4, ExpireKeeps
<1>5. CASE \E r \in Requests : Withdraw(r)
  BY <1>5, WithdrawKeeps
<1>6. CASE \E l \in Leases : BrokerEnds(l)
  BY <1>6, BrokerEndsKeeps
<1> QED
  BY <1>1, <1>2, <1>3, <1>4, <1>5, <1>6 DEF Events

LEMMA StutterKeeps ==
  ASSUME IInv, UNCHANGED vars
  PROVE  IInv'
<1>1. UNCHANGED pools
  BY DEF vars, worker, ports, browser, broker, authority, pools
<1>2. WorkerTyped' /\ PortsTyped' /\ PagesTyped' /\ BrokerTyped' /\ WireTyped'
  BY <1>1, Kept DEF vars, worker, ports, session, timers, broker, connection
<1>3. TasksTyped' /\ QueueInv' /\ PlanInv'
  BY <1>1, PoolsKept
     DEF IInv, TasksTyped, QueueInv, PlanInv, vars, handlers, worker, ports, session, timers
<1> QED
  BY <1>2, <1>3 DEF IInv

\* The inductive invariant.
LEMMA Always ==
  Spec => [](IInv /\ happened \in 0..MaxEvents)
<1> DEFINE Inv == IInv /\ happened \in 0..MaxEvents
<1>1. Init => Inv
  <2>1. 0 \in 0..MaxEvents
    BY ExtensionAssumption
  <2> QED
    BY <2>1, Begun DEF Init
<1>2. Inv /\ [Next]_vars => Inv'
  <2>1. ASSUME Inv, NEW t \in Tasks, TaskStep(t) \/ HandlerStarts(t) PROVE IInv'
    BY <2>1, TaskStepKeeps, HandlerKeeps
  <2>2. ASSUME Inv, Next PROVE Inv'
    <3>1. IInv'
      BY <2>1, <2>2, BrokerKeeps, EventsKeep DEF Next
    <3>2. happened' \in 0..MaxEvents
      BY <2>2, ExtensionAssumption DEF Next
    <3> QED
      BY <3>1, <3>2
  <2>3. ASSUME Inv, UNCHANGED vars PROVE Inv'
    BY <2>3, StutterKeeps DEF vars
  <2> QED
    BY <2>2, <2>3
<1> QED
  BY <1>1, <1>2, PTL DEF Spec

LEMMA FramesAreFrames ==
  ASSUME IInv
  PROVE  Frames \subseteq Frame /\ Stored \subseteq StoredState
<1>1. Known \subseteq Leases /\ Dispatched \subseteq Commands
  BY DEF Known, Dispatched
<1>2. 0..lastDoc \subseteq Nat /\ 0..lastPort \subseteq 0..MaxPorts
  BY ExtensionAssumption DEF IInv, PortsTyped, PagesTyped
<1>3. Stored \subseteq StoredState
  BY <1>1 DEF Stored, StoredIn, StoredState
<1>4. ASSUME NEW f \in Frames PROVE f \in Frame
  <2>1. f \in FieldsIn(Labels, Known, Dispatched, lastDoc, lastPort)
    BY DEF Frames, FramesIn
  <2>2. StoredIn(Known) \subseteq StoredState
    BY <1>3 DEF Stored
  <2> QED
    BY <1>1, <1>2, <2>1, <2>2 DEF FieldsIn, Frame
<1> QED
  BY <1>3, <1>4

\* Types: the state of the worker, its handlers' frames and local variables, the pages, the
\* broker's records and the audit of effects stay within their types and bounds, whatever
\* handlers, failures and messages interleave.
THEOREM ExtensionTypes == Spec => []TypeOK
<1>1. IInv /\ happened \in 0..MaxEvents => TypeOK
  <2> SUFFICES ASSUME IInv, happened \in 0..MaxEvents PROVE TypeOK
    OBVIOUS
  <2>1. Known \subseteq Leases
    BY DEF Known
  <2>2. task \in [Tasks -> Seq(Frame)] /\ storage \in StoredState
    <3>1. \A s \in Stack : s \in Seq(Frame)
      BY StackEmpty, FramesAreFrames
    <3> QED
      BY <3>1, FramesAreFrames DEF IInv, TasksTyped
  <2>3. /\ nativePort \in 0..MaxPorts /\ lastPort \in 0..MaxPorts /\ authenticated \in 0..MaxPorts
        /\ closing \in 0..MaxPorts /\ portState \in {"open", "lost", "closed"}
    <3>1. /\ lastPort \in 0..MaxPorts /\ nativePort \in 0..lastPort
          /\ authenticated \in 0..lastPort /\ closing \in Nat /\ MaxPorts \in Nat
          /\ closing + (IF PortOpen THEN 1 ELSE 0) <= lastPort
          /\ portState \in {"open", "lost", "closed"}
      BY ExtensionAssumption DEF IInv, PortsTyped
    <3>2. closing <= lastPort
      BY <3>1
    <3> QED
      BY <3>1, <3>2
  <2>4. /\ lastDoc \in 0..MaxDocs /\ tabEvents \subseteq Tabs /\ torn \subseteq Leases
        /\ effect \in [Commands -> Effect]
        /\ page \in [Tabs -> [url: Urls \cup {None}, bridge: 0..MaxDocs]]
    <3>1. /\ lastDoc \in 0..MaxDocs /\ tabEvents \subseteq Tabs /\ torn \subseteq Leases
          /\ effect \in [Commands -> Effect] /\ MaxDocs \in Nat
          /\ page \in [Tabs -> [url: Urls \cup {None}, bridge: 0..lastDoc]]
      BY <2>1, ExtensionAssumption DEF IInv, PagesTyped
    <3>2. 0..lastDoc \subseteq 0..MaxDocs
      BY <3>1
    <3> QED
      BY <3>1, <3>2
  <2>5. \A a \in answering : a.lease \in Leases /\ a.to \in Tasks \cup {None}
    BY <2>1 DEF IInv, BrokerTyped
  <2>6. /\ standing \in [Leases -> {"unissued", "live", "over"}]
        /\ under \in [Commands -> Leases \cup {None}]
        /\ outcome \in [Commands -> {"idle", "running", "result", "error"}]
        /\ admitted \in BOOLEAN /\ joined \in BOOLEAN /\ registered \in BOOLEAN
        /\ asked \in [Requests -> {"unused", "pending", "closed"}]
        /\ granted \in [Leases -> Consent] /\ expired \subseteq Requests \cup Leases
    BY <2>1 DEF IInv, BrokerTyped
  <2>7. /\ awake \in BOOLEAN /\ brokerConnected \in BOOLEAN /\ reconnectTimer \in BOOLEAN
        /\ authQueue \in Seq(Tasks) /\ expiryTimer \in Leases \cup {None}
        /\ dueRevokes \subseteq Leases /\ started \in 0..MaxHandlers
    BY <2>1 DEF IInv, WorkerTyped, TasksTyped
  <2> QED
    BY <2>2, <2>3, <2>4, <2>5, <2>6, <2>7 DEF TypeOK
<1> QED
  BY <1>1, Always, PTL

\* ReconnectPending: however its port was lost and whatever handlers ran meanwhile, an awake
\* worker without an open port has the reconnect timer set, a handler that will set it or
\* connect, or still holds the port, whose loss it has not handled or which it closed itself
\* (handleNativeDisconnect, initialize, connectNative).
THEOREM Reconnects == Spec => []ReconnectPending
<1>1. IInv => ReconnectPending
  <2> SUFFICES ASSUME IInv, awake, nativePort = 0, ~reconnectTimer
               PROVE  \E t \in Tasks : \E i \in DOMAIN task[t] :
                        task[t][i].at \in {"init.connect", "lost.reconnect"}
    BY DEF ReconnectPending, PortOpen, IInv, PortsTyped
  <2>1. PICK t \in Tasks : Held(task[t]) \cap Planning # {}
    BY DEF IInv, PlanInv
  <2>2. PICK f \in Range(task[t]) : f.at \in Planning
    BY <2>1 DEF Held
  <2>3. \E i \in DOMAIN task[t] : task[t][i] = f
    BY <2>2 DEF Range
  <2> QED
    BY <2>2, <2>3 DEF Planning
<1> QED
  BY <1>1, Always, PTL

\* QueueServed: the queue of authentications holds each handler that takes part in one once
\* and none that does not, and its head is the one that runs, so neither a failure nor a lost
\* port leaves it blocked (SerialQueue, authenticateBrowser, pairBrowser).
THEOREM QueueIsServed == Spec => []QueueServed
<1>1. IInv => QueueServed
  <2> SUFFICES ASSUME IInv PROVE QueueServed
    OBVIOUS
  <2>1. QueueInv /\ authQueue \in Seq(Tasks) /\ task \in [Tasks -> Stack]
    BY DEF IInv, WorkerTyped, TasksTyped
  <2>2. ASSUME NEW t \in Tasks
        PROVE  LET position == {i \in DOMAIN authQueue : authQueue[i] = t} IN
               /\ At(t, "auth.turn") => position # {}
               /\ At(t, "auth.wait") <=> position = {1} /\ ~At(t, "auth.turn")
               /\ position # {} => At(t, "auth.turn") \/ At(t, "auth.wait")
    <3> DEFINE position == {i \in DOMAIN authQueue : authQueue[i] = t}
    <3>1. position # {} <=> t \in Range(authQueue)
      BY DEF Range
    <3>2. position # {} <=> Held(task[t]) \cap Taking # {}
      BY <2>1, <3>1 DEF QueueInv
    <3>3. \A label \in Taking : label \in Held(task[t]) <=> At(t, label)
      <4> TAKE label \in Taking
      <4>1. label \notin Resting
        BY DEF Taking, Resting
      <4>2. label \in Held(task[t]) => At(t, label)
        BY <2>1, <4>1, OnTop DEF At, Top
      <4>3. At(t, label) => label \in Held(task[t])
        BY <2>1, StackPopped DEF At, Top
      <4> QED
        BY <4>2, <4>3
    <3>4. /\ At(t, "auth.turn") => position # {}
          /\ position # {} => At(t, "auth.turn") \/ At(t, "auth.wait")
      BY <3>2, <3>3 DEF Taking
    <3>5. At(t, "auth.wait") => ~At(t, "auth.turn")
      BY DEF At
    <3>6. ASSUME At(t, "auth.wait") PROVE position = {1}
      <4>1. t \in Range(authQueue) /\ Head(authQueue) = t
        BY <2>1, <3>1, <3>2, <3>3, <3>6 DEF QueueInv, Taking
      <4>2. authQueue # <<>>
        BY <2>1, <4>1, RangeOf
      <4>3. 1 \in DOMAIN authQueue /\ authQueue[1] = t
        BY <2>1, <4>1, <4>2
      <4> QED
        BY <2>1, <4>3 DEF QueueInv
    <3>7. position = {1} /\ ~At(t, "auth.turn") => At(t, "auth.wait")
      BY <3>4
    <3> QED
      BY <3>4, <3>5, <3>6, <3>7
  <2>3. \A i, j \in DOMAIN authQueue : i # j => authQueue[i] # authQueue[j]
    BY <2>1 DEF QueueInv
  <2> QED
    BY <2>2, <2>3 DEF QueueServed
<1> QED
  BY <1>1, Always, PTL

-----------------------------------------------------------------------------
(* TornLeasesEnd.  What a lease whose bridge was torn down can still wait for: its      *)
(* revocation has been told, or a handler is about to, or its connection has ended.     *)

Gone(l) == standing[l] = "live" => closing > 0
Sending == {"revoke.write", "revoke.notify", "grant.revoke"}
Ending(l) == \E t \in Tasks : \E f \in Range(task[t]) : f.lease = l /\ f.at \in Sending
Told(l) == \E m \in Range(toBroker) : m.m = "revoke" /\ m.lease = l
Settled(l) == l \in expired \/ Gone(l) \/ Ending(l) \/ Told(l)

\* Where a handler has a lease to give up.
Undoing == Interrupts \cup {"grant.revoke"}

\* A revocation that will not tell the broker has a reason.
Justified(f) == f.notify \/ f.lease \in expired \/ Gone(f.lease)

\* A lease is live only for a connection, and what is posted is on one.
PortInv ==
  /\ \A l \in Leases : Gone(l) \/ (joined /\ PortOpen)
  /\ toBroker # <<>> => PortOpen
OverInv == \A m \in Range(toExt) : m.m = "revoked" => standing[m.lease] = "over"
ReasonInv == \A t \in Tasks : \A f \in Revocations(task[t]) : Justified(f)
TornInv == \A l \in torn : Settled(l)
EndInv == PortInv /\ OverInv /\ ReasonInv /\ TornInv

\* What a step of the worker leaves alone.
settled == <<nativePort, portState, standing, joined, closing, expired>>

\* Nothing that the broker was sent is taken back, and more only goes to an open port.
Asks == Range(toBroker) \subseteq Range(toBroker') /\ (UNCHANGED toBroker \/ PortOpen)
Hears == Range(toExt') \subseteq Range(toExt)

LEMMA Posts ==
  ASSUME IInv, NEW p, NEW q, toBroker' = Posted(p, q)
  PROVE  Asks /\ (PortOpen /\ p = nativePort => q \in Range(toBroker'))
<1>1. toBroker \in Seq(ToBroker \cup {q})
  BY DEF IInv, WireTyped
<1>2. CASE PortOpen /\ nativePort = p
  <2> DEFINE n == Len(toBroker)
  <2>1. toBroker' = Append(toBroker, q) /\ n \in Nat
    BY <1>1, <1>2 DEF Posted
  <2>2. DOMAIN toBroker = 1..n /\ DOMAIN toBroker' = 1..(n + 1)
    BY <1>1, <2>1
  <2>3. \A i \in 1..n : toBroker'[i] = toBroker[i]
    BY <1>1, <2>1
  <2>4. toBroker'[n + 1] = q
    BY <1>1, <2>1
  <2> HIDE DEF n
  <2>5. 1..n \subseteq 1..(n + 1) /\ n + 1 \in 1..(n + 1)
    BY <2>1
  <2>6. Range(toBroker) \subseteq Range(toBroker') /\ q \in Range(toBroker')
    BY <2>2, <2>3, <2>4, <2>5 DEF Range
  <2> QED
    BY <1>2, <2>6 DEF Asks
<1>3. CASE ~(PortOpen /\ nativePort = p)
  BY <1>3 DEF Posted, Asks
<1> QED
  BY <1>2, <1>3

LEMMA Silent ==
  /\ UNCHANGED toBroker => Asks
  /\ UNCHANGED toExt => Hears
BY DEF Asks, Hears

LEMMA Takes ==
  ASSUME IInv, toExt # <<>>, Taken
  PROVE  Hears
BY Pop DEF IInv, WireTyped, Taken, Hears

LEMMA Moved ==
  ASSUME EndInv, NEW t \in Tasks, \A u \in Tasks \ {t} : task'[u] = task[u],
         \A f \in Revocations(task'[t]) : Justified(f),
         \A l \in torn' \ torn : Settled(l)',
         \A f \in Range(task[t]) : f.at \in Sending /\ f.lease \in torn => Settled(f.lease)',
         \A m \in Range(toBroker) : m.m = "revoke" => Told(m.lease)',
         toBroker' # <<>> => toBroker # <<>> \/ PortOpen, Hears, UNCHANGED settled
  PROVE  EndInv'
<1>1. /\ \A l : Gone(l)' <=> Gone(l)
      /\ PortOpen' <=> PortOpen
      /\ \A f : Justified(f)' <=> Justified(f)
  BY DEF settled, Gone, PortOpen, Justified
<1>2. PortInv' /\ OverInv' /\ ReasonInv'
  <2>1. PortInv'
    BY <1>1 DEF EndInv, PortInv, settled
  <2>2. OverInv'
    BY DEF EndInv, OverInv, Hears, settled
  <2>3. ReasonInv'
    BY <1>1 DEF EndInv, ReasonInv
  <2> QED
    BY <2>1, <2>2, <2>3
<1>3. ASSUME NEW l \in torn PROVE Settled(l)'
  <2>1. Settled(l)
    BY DEF EndInv, TornInv
  <2>2. CASE l \in expired \/ Gone(l)
    BY <1>1, <2>2 DEF Settled, settled
  <2>3. CASE Told(l)
    BY <2>3 DEF Told, Settled
  <2>4. CASE Ending(l)
    <3>1. PICK u \in Tasks : \E f \in Range(task[u]) : f.lease = l /\ f.at \in Sending
      BY <2>4 DEF Ending
    <3>2. CASE u = t
      BY <3>1, <3>2
    <3>3. CASE u # t
      BY <3>1, <3>3 DEF Ending, Settled
    <3> QED
      BY <3>2, <3>3
  <2> QED
    BY <2>1, <2>2, <2>3, <2>4 DEF Settled
<1>4. TornInv'
  BY <1>3 DEF TornInv
<1> QED
  BY <1>2, <1>4 DEF EndInv

\* A handler that has no revocation under way.
LEMMA NoneUnder ==
  ASSUME IInv, NEW t \in Tasks, task[t] = <<>> \/ Top(t).at \notin Undoing
  PROVE  /\ Revocations(task[t]) = {} /\ \A f \in Range(task[t]) : f.at \notin Sending
         /\ task[t] # <<>> => Revocations(Rest(t)) = {} /\ Rest(t) \in Seq(Frames)
<1>1. CASE task[t] = <<>>
  BY <1>1, StackEmpty DEF Revocations, Held
<1>2. CASE task[t] # <<>>
  <2>1. /\ Held(task[t]) = {Top(t).at} \cup Held(Rest(t)) /\ Held(Rest(t)) \subseteq {"popup.state"}
        /\ Top(t).at \notin Undoing /\ Rest(t) \in Stack
    BY <1>2, AtTop DEF Undoing
  <2>2. Rest(t) \in Seq(Frames)
    BY <2>1, StackEmpty
  <2>3. Held(Rest(t)) \cap Revoking = {} /\ Held(task[t]) \cap Revoking = {}
        /\ Held(task[t]) \cap Sending = {}
    BY <2>1 DEF Undoing, Interrupts, Revoking, Sending
  <2> QED
    BY <2>2, <2>3 DEF Revocations, Held
<1> QED
  BY <1>1, <1>2

\* Most steps of a handler.
LEMMA Resumes ==
  ASSUME IInv, EndInv, NEW t \in Tasks, task[t] = <<>> \/ Top(t).at \notin Undoing,
         NEW new, task' = [task EXCEPT ![t] = new], \A f \in Revocations(new) : Justified(f),
         Asks, Hears, UNCHANGED settled, UNCHANGED torn
  PROVE  EndInv'
<1>1. task'[t] = new /\ \A u \in Tasks \ {t} : task'[u] = task[u]
  BY DEF IInv, TasksTyped
<1>2. \A f \in Range(task[t]) : f.at \in Sending => Settled(f.lease)'
  BY NoneUnder
<1>3. \A m \in Range(toBroker) : m.m = "revoke" => Told(m.lease)'
  BY DEF Asks, Told
<1>4. toBroker' # <<>> => toBroker # <<>> \/ PortOpen
  BY DEF Asks
<1> QED
  BY <1>1, <1>2, <1>3, <1>4, Moved

\* Frames that are pushed.
LEMMA OneRevokes ==
  ASSUME NEW f
  PROVE  /\ Revocations(<<f>>) \subseteq {f} /\ (f.at \notin Revoking => Revocations(<<f>>) = {})
         /\ Revocations(<<>>) = {}
<1>1. Range(<<f>>) = {f}
  <2>1. f \in {f}
    OBVIOUS
  <2> QED
    BY <2>1, OneFrame
<1>2. Range(<<>>) = {}
  <2>1. DOMAIN <<>> = {}
    OBVIOUS
  <2> QED
    BY <2>1 DEF Range
<1> QED
  BY <1>1, <1>2 DEF Revocations

LEMMA PushRevokes ==
  ASSUME NEW F, NEW s \in Seq(F), NEW f
  PROVE  Revocations(<<f>> \o s) = Revocations(<<f>>) \cup Revocations(s)
<1> DEFINE G == F \cup {f}
<1>1. s \in Seq(G) /\ f \in G
  OBVIOUS
<1> HIDE DEF G
<1>2. Range(<<f>> \o s) = {f} \cup Range(s)
  BY <1>1, Push
<1>3. Range(<<f>>) = {f}
  BY <1>1, OneFrame
<1> QED
  BY <1>2, <1>3 DEF Revocations

LEMMA PushTwoRevokes ==
  ASSUME NEW F, NEW s \in Seq(F), NEW a, NEW b
  PROVE  Revocations(<<a, b>> \o s)
           = Revocations(<<a>>) \cup Revocations(<<b>>) \cup Revocations(s)
<1> DEFINE G == F \cup {a, b}
<1>1. s \in Seq(G) /\ <<b>> \in Seq(G) /\ <<b>> \o s \in Seq(G)
  OBVIOUS
<1>2. <<a, b>> \o s = <<a>> \o (<<b>> \o s)
  <2>1. <<a, b>> \o s \in Seq(G) /\ <<a>> \o (<<b>> \o s) \in Seq(G)
    OBVIOUS
  <2>2. /\ Len(<<a, b>> \o s) = Len(s) + 2 /\ Len(<<a>> \o (<<b>> \o s)) = Len(s) + 2
        /\ Len(s) \in Nat
    OBVIOUS
  <2>3. \A i \in 1..(Len(s) + 2) : (<<a, b>> \o s)[i] = (<<a>> \o (<<b>> \o s))[i]
    OBVIOUS
  <2> QED
    BY <2>1, <2>2, <2>3, SeqEqual
<1> HIDE DEF G
<1>3. Revocations(<<b>> \o s) = Revocations(<<b>>) \cup Revocations(s)
  BY <1>1, PushRevokes
<1>4. Revocations(<<a>> \o (<<b>> \o s)) = Revocations(<<a>>) \cup Revocations(<<b>> \o s)
  BY <1>1, PushRevokes
<1> QED
  BY <1>2, <1>3, <1>4

LEMMA PairRevokes ==
  ASSUME NEW a, NEW b
  PROVE  Revocations(<<a, b>>) = Revocations(<<a>>) \cup Revocations(<<b>>)
<1> DEFINE G == {a, b}
<1>1. <<a, b>> = <<a>> \o <<b>>
  <2>1. <<a>> \o <<b>> \in Seq(G) /\ <<a, b>> \in Seq(G)
    OBVIOUS
  <2>2. Len(<<a>> \o <<b>>) = 2 /\ Len(<<a, b>>) = 2
    OBVIOUS
  <2>3. \A i \in 1..2 : (<<a>> \o <<b>>)[i] = <<a, b>>[i]
    OBVIOUS
  <2> QED
    BY <2>1, <2>2, <2>3, SeqEqual
<1>2. <<b>> \in Seq(G)
  OBVIOUS
<1> HIDE DEF G
<1>3. Revocations(<<a>> \o <<b>>) = Revocations(<<a>>) \cup Revocations(<<b>>)
  BY <1>2, PushRevokes
<1> QED
  BY <1>1, <1>3

LEMMA RevokeFields ==
  ASSUME NEW l, NEW notify
  PROVE  /\ Revoke(l, notify).lease = l /\ Revoke(l, notify).notify = notify
         /\ Revoke(l, notify).at = "revoke.read"
BY DEF Revoke, Idle

\* A pruning adds a revocation only to tell the broker.
LEMMA PrunedRevokes ==
  ASSUME NEW F, NEW rest \in Seq(F), NEW s,
         rest # <<>> => [Head(rest) EXCEPT !.saw = s].at = Head(rest).at
  PROVE  /\ Revocations(rest) \subseteq Revocations(Pruned(s, rest))
         /\ \A f \in Revocations(Pruned(s, rest)) : f \in Revocations(rest) \/ f.notify
<1> DEFINE live == Unexpired(s.pending)
           write(grant) == [Idle EXCEPT !.at = "prune.write",
                                        !.saw = [pending |-> live, grant |-> grant]]
           revoke == Revoke(s.grant, TRUE)
           g == [Head(rest) EXCEPT !.saw = s]
<1>1. /\ \A grant : write(grant).at \notin Revoking
      /\ revoke.notify
  BY RevokeFields DEF Idle, Revoking
<1>2. Pruned(s, rest) = IF s.grant \in expired THEN <<revoke, write(None)>> \o rest
                        ELSE IF live # s.pending THEN <<write(s.grant)>> \o rest
                        ELSE Returned(s, rest)
  BY DEF Pruned
<1>3. Returned(s, rest) = IF rest # <<>> /\ Head(rest).at \in UsesState
                          THEN <<g>> \o Tail(rest) ELSE rest
  BY DEF Returned
<1> HIDE DEF live, write, revoke
<1>4. CASE s.grant \in expired
  <2> DEFINE w == write(None)
  <2>1. Pruned(s, rest) = <<revoke, w>> \o rest /\ w.at \notin Revoking
    BY <1>1, <1>2, <1>4
  <2> HIDE DEF w
  <2>2. Revocations(<<revoke, w>> \o rest)
          = Revocations(<<revoke>>) \cup Revocations(<<w>>) \cup Revocations(rest)
    BY PushTwoRevokes
  <2>3. Revocations(<<revoke>>) \subseteq {revoke} /\ Revocations(<<w>>) = {}
    BY <2>1, OneRevokes
  <2> QED
    BY <1>1, <2>1, <2>2, <2>3
<1>5. CASE s.grant \notin expired /\ live # s.pending
  <2> DEFINE w == write(s.grant)
  <2>1. Pruned(s, rest) = <<w>> \o rest /\ w.at \notin Revoking
    BY <1>1, <1>2, <1>5
  <2> HIDE DEF w
  <2>2. Revocations(<<w>> \o rest) = Revocations(<<w>>) \cup Revocations(rest)
    BY PushRevokes
  <2>3. Revocations(<<w>>) = {}
    BY <2>1, OneRevokes
  <2> QED
    BY <2>1, <2>2, <2>3
<1>6. CASE s.grant \notin expired /\ live = s.pending /\ rest # <<>> /\ Head(rest).at \in UsesState
  <2>1. Tail(rest) \in Seq(F) /\ Range(rest) = {Head(rest)} \cup Range(Tail(rest))
    BY <1>6, Pop
  <2>2. Head(rest).at \notin Revoking /\ g.at \notin Revoking
    BY <1>6 DEF UsesState, Revoking
  <2> HIDE DEF g
  <2>3. Pruned(s, rest) = <<g>> \o Tail(rest)
    BY <1>2, <1>3, <1>6
  <2>4. Revocations(<<g>> \o Tail(rest)) = Revocations(Tail(rest))
    <3>1. Revocations(<<g>> \o Tail(rest)) = Revocations(<<g>>) \cup Revocations(Tail(rest))
      BY <2>1, PushRevokes
    <3>2. Revocations(<<g>>) = {}
      BY <2>2, OneRevokes
    <3> QED
      BY <3>1, <3>2
  <2>5. Revocations(rest) = Revocations(Tail(rest))
    BY <2>1, <2>2 DEF Revocations
  <2> QED
    BY <2>3, <2>4, <2>5
<1>7. CASE s.grant \notin expired /\ live = s.pending /\ ~(rest # <<>> /\ Head(rest).at \in UsesState)
  <2>1. Pruned(s, rest) = rest
    BY <1>2, <1>3, <1>7
  <2> QED
    BY <2>1
<1> QED
  BY <1>4, <1>5, <1>6, <1>7

LEMMA SawKept ==
  ASSUME NEW f \in Frames, NEW s
  PROVE  [f EXCEPT !.saw = s].at = f.at
BY DEF Frames, FramesIn, FieldsIn

\* A handler whose top frame goes on, with what is below it.
LEMMA Carries ==
  ASSUME IInv, EndInv, NEW t \in Tasks, task[t] # <<>>, NEW new,
         task' = [task EXCEPT ![t] = new], Revocations(Rest(t)) \subseteq Revocations(new),
         \A f \in Revocations(new) : f \in Revocations(Rest(t)) \/ Justified(f),
         Top(t).at \in Sending => \A l \in torn : l = Top(t).lease => Settled(l)',
         \A l \in torn' \ torn : Settled(l)', Asks, Hears, UNCHANGED settled
  PROVE  EndInv'
<1>1. task'[t] = new /\ \A u \in Tasks \ {t} : task'[u] = task[u]
  BY DEF IInv, TasksTyped
<1>2. Range(task[t]) = {Top(t)} \cup Range(Rest(t)) /\ Held(Rest(t)) \subseteq Resting
  BY AtTop
<1>3. \A f \in Revocations(new) : Justified(f)
  BY <1>2 DEF EndInv, ReasonInv, Revocations
<1>4. ASSUME NEW f \in Range(task[t]), f.at \in Sending, f.lease \in torn
      PROVE  Settled(f.lease)'
  <2>1. CASE f \in Range(Rest(t))
    <3> f.at \in Resting
      BY <1>2, <2>1 DEF Held
    <3>1. f \in Revocations(new)
      BY <1>4, <2>1 DEF Revocations, Sending, Revoking, Resting
    <3>2. f \in Range(task'[t])
      BY <1>1, <3>1 DEF Revocations
    <3> QED
      BY <1>4, <3>2 DEF Settled, Ending
  <2> QED
    BY <1>2, <1>4, <2>1
<1>5. \A m \in Range(toBroker) : m.m = "revoke" => Told(m.lease)'
  BY DEF Asks, Told
<1>6. toBroker' # <<>> => toBroker # <<>> \/ PortOpen
  BY DEF Asks
<1> QED
  BY <1>1, <1>3, <1>4, <1>5, <1>6, Moved

\* The broker is told, or has no connection any more.
LEMMA Telling ==
  ASSUME IInv, EndInv, NEW l \in Leases, toBroker' = TellRevoked(l), UNCHANGED settled
  PROVE  Asks /\ Settled(l)'
<1> DEFINE q == [Message("revoke", None) EXCEPT !.lease = l]
<1>1. q.m = "revoke" /\ q.lease = l
  BY DEF Message
<1>2. toBroker' = Posted(nativePort, q)
  BY DEF TellRevoked
<1> HIDE DEF q
<1>3. Asks /\ (PortOpen => q \in Range(toBroker'))
  BY <1>2, Posts
<1>4. CASE PortOpen
  BY <1>1, <1>3, <1>4 DEF Settled, Told
<1>5. CASE ~PortOpen
  <2>1. Gone(l)
    BY <1>5 DEF EndInv, PortInv
  <2> QED
    BY <1>3, <2>1 DEF Settled, Gone, settled
<1> QED
  BY <1>4, <1>5

LEMMA PruneWriteEnds ==
  ASSUME IInv, EndInv, NEW t \in Tasks, PruneWrite(t)
  PROVE  EndInv'
<1> DEFINE f == Top(t)
           rest == Rest(t)
           new == Returned(f.saw, rest)
<1>1. /\ f \in Frames /\ rest \in Stack /\ f.at = "prune.write" /\ task[t] # <<>>
      /\ Held(rest) \subseteq Resting
  BY AtTop DEF PruneWrite, At
<1>2. f.saw \in Stored
  BY <1>1, FrameFields
<1>3. Revocations(new) = Revocations(rest)
  BY <1>1, <1>2, ReturnedStack
<1>4. task' = [task EXCEPT ![t] = new] /\ UNCHANGED <<settled, torn, toBroker, toExt>>
  BY DEF PruneWrite, Continue, settled, broker, authority, connection, wire, worker, ports, history
<1>5. f.at \notin Sending
  BY <1>1 DEF Sending
<1> HIDE DEF new
<1> QED
  BY <1>1, <1>3, <1>4, <1>5, Carries, Silent

\* The top frame of a revocation goes on.
LEMMA RevokingAt ==
  ASSUME IInv, EndInv, NEW t \in Tasks, task[t] # <<>>, Top(t).at \in Revoking
  PROVE  /\ Top(t) \in Frames /\ Rest(t) \in Seq(Frames) /\ Rest(t) \in Stack
         /\ Top(t).lease \in Known /\ Top(t).lease \in Leases /\ Top(t).notify \in BOOLEAN
         /\ Top(t).saw \in Stored /\ Justified(Top(t)) /\ Held(Rest(t)) \subseteq Resting
<1>1. /\ Top(t) \in Frames /\ Rest(t) \in Stack /\ Range(task[t]) = {Top(t)} \cup Range(Rest(t))
      /\ Held(Rest(t)) \subseteq Resting
  BY AtTop
<1>2. Top(t).lease \in Known /\ Top(t).notify \in BOOLEAN /\ Top(t).saw \in Stored
  BY <1>1, FrameFields DEF Proper
<1>3. Justified(Top(t))
  BY <1>1 DEF EndInv, ReasonInv, Revocations
<1> QED
  BY <1>1, <1>2, <1>3, StackEmpty DEF Known

LEMMA RevokeReadEnds ==
  ASSUME IInv, EndInv, NEW t \in Tasks, RevokeRead(t)
  PROVE  EndInv'
<1> DEFINE f == Top(t)
           rest == Rest(t)
           g == [f EXCEPT !.at = "revoke.teardown", !.saw = storage]
           new == IF storage.grant = f.lease THEN <<g>> \o rest ELSE rest
<1>1. f.at = "revoke.read" /\ task[t] # <<>>
  BY DEF RevokeRead, At
<1>2. f \in Frames /\ rest \in Seq(Frames) /\ Justified(f)
  BY <1>1, RevokingAt DEF Revoking
<1>3. task' = [task EXCEPT ![t] = new] /\ UNCHANGED <<settled, torn, toBroker, toExt>>
  BY DEF RevokeRead, Continue, Return, settled, broker, authority, connection, wire, worker,
         ports, history
<1>4. Justified(g)
  <2>1. g.lease = f.lease /\ g.notify = f.notify
    BY <1>2 DEF Frames, FramesIn, FieldsIn
  <2> QED
    BY <1>2, <2>1 DEF Justified
<1>5. f.at \notin Sending
  BY <1>1 DEF Sending
<1> HIDE DEF f, g
<1>6. Revocations(<<g>> \o rest) = Revocations(<<g>>) \cup Revocations(rest)
  BY <1>2, PushRevokes
<1>7. Revocations(<<g>>) \subseteq {g}
  BY OneRevokes
<1>8. Revocations(rest) \subseteq Revocations(new)
      /\ \A h \in Revocations(new) : h \in Revocations(rest) \/ Justified(h)
  BY <1>4, <1>6, <1>7
<1> HIDE DEF new
<1> QED
  BY <1>1, <1>3, <1>5, <1>8, Carries, Silent DEF f

LEMMA RevokeTeardownEnds ==
  ASSUME IInv, EndInv, NEW t \in Tasks, RevokeTeardown(t)
  PROVE  EndInv'
<1> DEFINE f == Top(t)
           rest == Rest(t)
           g == [f EXCEPT !.at = "revoke.write"]
           new == <<g>> \o rest
<1>1. f.at = "revoke.teardown" /\ task[t] # <<>>
  BY DEF RevokeTeardown, At
<1>2. f \in Frames /\ rest \in Seq(Frames) /\ Justified(f)
  BY <1>1, RevokingAt DEF Revoking
<1>3. /\ task' = [task EXCEPT ![t] = new] /\ UNCHANGED <<settled, toBroker, toExt>>
      /\ torn' = torn \cup {f.lease}
  BY DEF RevokeTeardown, Goto, Continue, settled, broker, authority, connection, wire, worker,
         ports
<1>4. g.at = "revoke.write" /\ g.lease = f.lease /\ Justified(g)
  <2>1. g.at = "revoke.write" /\ g.lease = f.lease /\ g.notify = f.notify
    BY <1>2 DEF Frames, FramesIn, FieldsIn
  <2> QED
    BY <1>2, <2>1 DEF Justified
<1>5. f.at \notin Sending
  BY <1>1 DEF Sending
<1> HIDE DEF f, g
<1>6. Revocations(new) = Revocations(<<g>>) \cup Revocations(rest)
  BY <1>2, PushRevokes
<1>7. Revocations(<<g>>) \subseteq {g}
  BY OneRevokes
<1>8. g \in Range(new)
  <2>1. rest \in Seq(Frames \cup {g}) /\ g \in Frames \cup {g}
    BY <1>2
  <2> QED
    BY <2>1, Push
<1> HIDE DEF new
<1>9. ASSUME NEW l, l = f.lease PROVE Settled(l)'
  <2>1. task'[t] = new
    BY <1>3 DEF IInv, TasksTyped
  <2> QED
    BY <1>4, <1>8, <1>9, <2>1 DEF Settled, Ending, Sending
<1>10. \A h \in Revocations(new) : h \in Revocations(rest) \/ Justified(h)
  BY <1>4, <1>6, <1>7
<1>11. \A l \in torn' \ torn : Settled(l)'
  BY <1>3, <1>9
<1> QED
  BY <1>1, <1>3, <1>5, <1>6, <1>10, <1>11, Carries, Silent DEF f

LEMMA RevokeWriteEnds ==
  ASSUME IInv, EndInv, NEW t \in Tasks, RevokeWrite(t)
  PROVE  EndInv'
<1> DEFINE f == Top(t)
           rest == Rest(t)
           written == [f.saw EXCEPT !.grant = None]
           last == [Idle EXCEPT !.at = "revoke.notify", !.lease = f.lease, !.notify = f.notify]
           next == Pruned(written, <<last>> \o rest)
           new == IF Head(next) = last THEN rest ELSE next
<1>1. f.at = "revoke.write" /\ task[t] # <<>>
  BY DEF RevokeWrite, At
<1>2. /\ f \in Frames /\ rest \in Seq(Frames) /\ Justified(f) /\ f.lease \in Known
      /\ f.lease \in Leases /\ f.notify \in BOOLEAN
  BY <1>1, RevokingAt DEF Revoking
<1>3. /\ task' = [task EXCEPT ![t] = new] /\ UNCHANGED <<settled, torn, toExt>>
      /\ toBroker' = IF Head(next) = last /\ f.notify THEN TellRevoked(f.lease) ELSE toBroker
  BY DEF RevokeWrite, Return, Continue, settled, broker, authority, connection, ports, history
<1>4. last \in Frames /\ last.at = "revoke.notify" /\ last.lease = f.lease /\ last.notify = f.notify
  <2>1. last = NotifyFrame(f.lease, f.notify)
    BY DEF NotifyFrame
  <2>2. lastDoc \in Nat /\ lastPort \in Nat
    BY DEF IInv, PagesTyped, PortsTyped
  <2> QED
    BY <1>2, <2>1, <2>2, RevokeFrame
<1>5. Justified(last)
  BY <1>2, <1>4 DEF Justified
<1> HIDE DEF f, rest, last, written
<1>6. /\ <<last>> \o rest \in Seq(Frames) /\ Head(<<last>> \o rest) = last
      /\ last \in Range(<<last>> \o rest)
  BY <1>2, <1>4, Push
<1>7. Revocations(<<last>> \o rest) = Revocations(<<last>>) \cup Revocations(rest)
  BY <1>2, PushRevokes
<1>8. Revocations(<<last>>) \subseteq {last} /\ last \in Revocations(<<last>> \o rest)
  BY <1>4, <1>6, OneRevokes DEF Revocations, Revoking
<1>9. /\ Revocations(<<last>> \o rest) \subseteq Revocations(next)
      /\ \A g \in Revocations(next) : g \in Revocations(<<last>> \o rest) \/ g.notify
  <2>1. [last EXCEPT !.saw = written].at = last.at
    BY <1>4, SawKept
  <2> QED
    BY <1>6, <2>1, PrunedRevokes
<1> HIDE DEF next
<1>10. /\ Revocations(rest) \subseteq Revocations(new)
       /\ \A g \in Revocations(new) : g \in Revocations(rest) \/ Justified(g)
  BY <1>5, <1>7, <1>8, <1>9 DEF Justified
<1>11. ASSUME NEW l, l = f.lease PROVE Asks /\ Settled(l)'
  <2>1. CASE Head(next) = last /\ f.notify
    BY <1>2, <1>3, <1>11, <2>1, Telling
  <2>2. CASE Head(next) = last /\ ~f.notify
    <3>1. l \in expired \/ Gone(l)
      BY <1>2, <1>11, <2>2 DEF Justified
    <3> QED
      BY <1>3, <2>2, <3>1, Silent DEF Settled, Gone, settled
  <2>3. CASE Head(next) # last
    <3>1. task'[t] = next
      BY <1>3, <2>3 DEF IInv, TasksTyped
    <3>2. last \in Range(task'[t])
      BY <1>8, <1>9, <3>1 DEF Revocations
    <3>3. last.lease = l /\ last.at \in Sending
      BY <1>4, <1>11 DEF Sending
    <3> QED
      BY <1>3, <2>3, <3>2, <3>3, Silent DEF Settled, Ending
  <2> QED
    BY <2>1, <2>2, <2>3
<1> HIDE DEF new
<1> QED
  BY <1>1, <1>3, <1>10, <1>11, Carries, Silent DEF f, rest

LEMMA RevokeNotifyEnds ==
  ASSUME IInv, EndInv, NEW t \in Tasks, RevokeNotify(t)
  PROVE  EndInv'
<1> DEFINE f == Top(t)
           rest == Rest(t)
<1>1. f.at = "revoke.notify" /\ task[t] # <<>>
  BY DEF RevokeNotify, At
<1>2. Justified(f) /\ f.lease \in Leases
  BY <1>1, RevokingAt DEF Revoking
<1>3. /\ task' = [task EXCEPT ![t] = rest] /\ UNCHANGED <<settled, torn, toExt>>
      /\ toBroker' = IF f.notify THEN TellRevoked(f.lease) ELSE toBroker
  BY DEF RevokeNotify, Return, Continue, settled, broker, authority, connection, worker, ports,
         history
<1>4. ASSUME NEW l, l = f.lease PROVE Asks /\ Settled(l)'
  <2>1. CASE f.notify
    BY <1>2, <1>3, <1>4, <2>1, Telling
  <2>2. CASE ~f.notify
    <3>1. l \in expired \/ Gone(l)
      BY <1>2, <1>4, <2>2 DEF Justified
    <3> QED
      BY <1>3, <2>2, <3>1, Silent DEF Settled, Gone, settled
  <2> QED
    BY <2>1, <2>2
<1> QED
  BY <1>1, <1>3, <1>4, Carries, Silent

LEMMA OverKept ==
  ASSUME EndInv, Hears, UNCHANGED standing
  PROVE  OverInv'
BY DEF EndInv, OverInv, Hears

LEMMA EmptyHears ==
  toExt' = <<>> => Hears
<1>1. DOMAIN <<>> = {}
  OBVIOUS
<1> QED
  BY <1>1 DEF Hears, Range

\* Without an open port every lease waits for its connection's end, if anything.
LEMMA AllGone ==
  ASSUME IInv', \A l \in Leases : Gone(l)', toBroker' = <<>>, OverInv'
  PROVE  EndInv'
<1>1. PortInv'
  BY DEF PortInv
<1>2. ASSUME NEW t \in Tasks, NEW f \in Revocations(task'[t])
      PROVE  Justified(f)'
  <2>1. task'[t] \in Seq(Frames') /\ f \in Range(task'[t]) /\ f.at \in Revoking
    BY DEF IInv, TasksTyped, Stack, StackOf, Revocations
  <2>2. f \in Frames'
    BY <2>1, RangeOf
  <2>3. f.lease \in Known'
    BY <2>1, <2>2 DEF Frames, FramesIn, FieldsIn, Proper
  <2>4. f.lease \in Leases
    BY <2>3 DEF Known
  <2> QED
    BY <2>4 DEF Justified
<1>3. ReasonInv'
  BY <1>2 DEF ReasonInv
<1>4. torn' \subseteq Leases
  BY DEF IInv, PagesTyped, Known
<1>5. TornInv'
  BY <1>4 DEF TornInv, Settled
<1> QED
  BY <1>1, <1>3, <1>5 DEF EndInv

LEMMA NoPort ==
  ASSUME EndInv, ~PortOpen, UNCHANGED <<standing, closing, toBroker>>
  PROVE  (\A l \in Leases : Gone(l)') /\ toBroker' = <<>>
BY DEF EndInv, PortInv, Gone

LEMMA PortGone ==
  ASSUME IInv, EndInv, PortEnds
  PROVE  (\A l \in Leases : Gone(l)') /\ toBroker' = <<>> /\ UNCHANGED standing
<1>1. closing \in Nat
  BY DEF IInv, PortsTyped
<1> QED
  BY <1>1 DEF EndInv, PortInv, Gone, PortEnds, authority

\* A handler without a revocation under way goes on, or returns.
LEMMA Goes ==
  ASSUME IInv, NEW t \in Tasks, task[t] # <<>>, Top(t).at \notin Undoing, NEW g,
         g.at \notin Revoking
  PROVE  Revocations(<<g>> \o Rest(t)) = {} /\ Revocations(Rest(t)) = {}
<1>1. Revocations(Rest(t)) = {} /\ Rest(t) \in Seq(Frames)
  BY NoneUnder
<1>2. Revocations(<<g>> \o Rest(t)) = Revocations(<<g>>) \cup Revocations(Rest(t))
  BY <1>1, PushRevokes
<1>3. Revocations(<<g>>) = {}
  BY OneRevokes
<1> QED
  BY <1>1, <1>2, <1>3

\* A pruning in a handler without one.
LEMMA Prunes ==
  ASSUME NEW F, NEW rest \in Seq(F), Revocations(rest) = {}, NEW s,
         rest # <<>> => [Head(rest) EXCEPT !.saw = s].at = Head(rest).at
  PROVE  \A f \in Revocations(Pruned(s, rest)) : Justified(f)
BY PrunedRevokes DEF Justified

LEMMA PrunesRest ==
  ASSUME IInv, NEW t \in Tasks, task[t] # <<>>, Top(t).at \notin Undoing, NEW s
  PROVE  \A f \in Revocations(Pruned(s, Rest(t))) : Justified(f)
<1>1. Revocations(Rest(t)) = {} /\ Rest(t) \in Seq(Frames)
  BY NoneUnder
<1>2. Rest(t) # <<>> => [Head(Rest(t)) EXCEPT !.saw = s].at = Head(Rest(t)).at
  <2>1. Rest(t) # <<>> => Head(Rest(t)) \in Frames
    BY <1>1, Pop
  <2> QED
    BY <2>1, SawKept
<1> QED
  BY <1>1, <1>2, Prunes

\* A pruning before one other frame, or none.
LEMMA PrunesOne ==
  ASSUME NEW g, NEW s, g.at \notin Revoking, [g EXCEPT !.saw = s].at = g.at
  PROVE  /\ \A f \in Revocations(Pruned(s, <<g>>)) : Justified(f)
         /\ \A f \in Revocations(Pruned(s, <<>>)) : Justified(f)
<1>1. <<g>> \in Seq({g}) /\ Head(<<g>>) = g /\ <<>> \in Seq({g})
  OBVIOUS
<1>2. Revocations(<<g>>) = {} /\ Revocations(<<>>) = {}
  BY OneRevokes
<1>3. \A f \in Revocations(Pruned(s, <<g>>)) : Justified(f)
  BY <1>1, <1>2, Prunes
<1>4. \A f \in Revocations(Pruned(s, <<>>)) : Justified(f)
  BY <1>1, <1>2, Prunes
<1> QED
  BY <1>3, <1>4

LEMMA InitializeConnectEnds ==
  ASSUME IInv, EndInv, NEW t \in Tasks, InitializeConnect(t)
  PROVE  EndInv'
<1>1. task[t] # <<>> /\ Top(t).at \notin Undoing
  BY DEF InitializeConnect, At, Undoing, Interrupts, Revoking
<1>2. UNCHANGED <<standing, closing, expired, torn, toBroker, toExt>>
  BY DEF InitializeConnect, authority, wire, history
<1>3. CASE nativePort = 0
  <2>1. (\A l \in Leases : Gone(l)') /\ toBroker' = <<>>
    BY <1>2, <1>3, NoPort DEF PortOpen
  <2> QED
    BY <1>2, <2>1, InitializeConnectKeeps, OverKept, Silent, AllGone
<1>4. CASE nativePort # 0
  <2>1. task' = [task EXCEPT ![t] = Rest(t)] /\ UNCHANGED settled
    BY <1>2, <1>4 DEF InitializeConnect, Return, Continue, settled, ports
  <2>2. Revocations(Rest(t)) = {}
    BY <1>1, NoneUnder
  <2> QED
    BY <1>1, <1>2, <2>1, <2>2, Resumes, Silent
<1> QED
  BY <1>3, <1>4

LEMMA ReconnectEnds ==
  ASSUME IInv, EndInv, NEW t \in Tasks, Reconnect(t)
  PROVE  EndInv'
<1>1. UNCHANGED <<standing, closing, expired, torn, toBroker, toExt>> /\ nativePort = 0
  BY DEF Reconnect, authority, wire, history
<1>2. (\A l \in Leases : Gone(l)') /\ toBroker' = <<>>
  BY <1>1, NoPort DEF PortOpen
<1> QED
  BY <1>1, <1>2, ReconnectKeeps, OverKept, Silent, AllGone

LEMMA ReconnectTimerIdleEnds ==
  ASSUME IInv, EndInv, ReconnectTimerIdle
  PROVE  EndInv'
BY DEF ReconnectTimerIdle, ports, handlers, wire, broker, authority, connection, history, EndInv,
       PortInv, OverInv, ReasonInv, TornInv, Gone, Settled, Ending, Told, Justified, PortOpen

LEMMA RegisterCloseEnds ==
  ASSUME IInv, EndInv, NEW t \in Tasks, RegisterClose(t)
  PROVE  EndInv'
<1>1. task[t] # <<>> /\ Top(t).at \notin Undoing
  BY DEF RegisterClose, At, Undoing, Interrupts, Revoking
<1>2. CASE nativePort = Top(t).port
  <2>1. PortEnds /\ toExt' = <<>>
    BY <1>2 DEF RegisterClose
  <2>2. (\A l \in Leases : Gone(l)') /\ toBroker' = <<>> /\ UNCHANGED standing
    BY <2>1, PortGone
  <2> QED
    BY <2>1, <2>2, RegisterCloseKeeps, OverKept, EmptyHears, AllGone
<1>3. CASE nativePort # Top(t).port
  <2>1. /\ task' = [task EXCEPT ![t] = Rest(t)]
        /\ UNCHANGED <<settled, torn, toBroker, toExt>>
    BY <1>3 DEF RegisterClose, Return, Continue, settled, broker, authority, connection, wire,
                history
  <2>2. Revocations(Rest(t)) = {}
    BY <1>1, NoneUnder
  <2> QED
    BY <1>1, <2>1, <2>2, Resumes, Silent
<1> QED
  BY <1>2, <1>3

LEMMA PortLostEnds ==
  ASSUME IInv, EndInv, PortLost
  PROVE  EndInv'
<1>1. PortEnds /\ toExt' = toExt
  BY DEF PortLost
<1>2. (\A l \in Leases : Gone(l)') /\ toBroker' = <<>> /\ UNCHANGED standing
  BY <1>1, PortGone
<1> QED
  BY <1>1, <1>2, PortLostKeeps, OverKept, Silent, AllGone

LEMMA WorkerStopsEnds ==
  ASSUME IInv, EndInv, WorkerStops
  PROVE  EndInv'
<1>1. PortEnds /\ toExt' = <<>>
  BY DEF WorkerStops
<1>2. (\A l \in Leases : Gone(l)') /\ toBroker' = <<>> /\ UNCHANGED standing
  BY <1>1, PortGone
<1> QED
  BY <1>1, <1>2, WorkerStopsKeeps, OverKept, EmptyHears, AllGone

LEMMA PortLossSeenEnds ==
  ASSUME IInv, EndInv, NEW t \in Tasks, PortLossSeen(t)
  PROVE  EndInv'
<1>1. UNCHANGED <<standing, closing, toBroker>> /\ toExt' = <<>> /\ portState = "lost"
  BY DEF PortLossSeen, broker, authority, connection
<1>2. (\A l \in Leases : Gone(l)') /\ toBroker' = <<>>
  BY <1>1, NoPort DEF PortOpen
<1> QED
  BY <1>1, <1>2, PortLossSeenKeeps, OverKept, EmptyHears, AllGone

LEMMA PrunesPush ==
  ASSUME IInv, NEW t \in Tasks, task[t] # <<>>, Top(t).at \notin Undoing, NEW g,
         g.at \notin Revoking, NEW s, [g EXCEPT !.saw = s].at = g.at
  PROVE  \A f \in Revocations(Pruned(s, <<g>> \o Rest(t))) : Justified(f)
<1> DEFINE F == Frames \cup {g}
<1>1. Rest(t) \in Seq(F) /\ g \in F
  BY NoneUnder
<1> HIDE DEF F
<1>2. <<g>> \o Rest(t) \in Seq(F) /\ Head(<<g>> \o Rest(t)) = g
  BY <1>1, Push
<1>3. Revocations(<<g>> \o Rest(t)) = {}
  BY Goes
<1> QED
  BY <1>2, <1>3, Prunes

LEMMA AuthTurnEnds ==
  ASSUME IInv, EndInv, NEW t \in Tasks, AuthTurn(t)
  PROVE  EndInv'
<1> DEFINE p == Top(t).port
           g == Register(p)
           h == [Top(t) EXCEPT !.at = "auth.wait"]
<1>1. task[t] # <<>> /\ Top(t).at \notin Undoing
  BY DEF AuthTurn, At, Undoing, Interrupts, Revoking
<1>2. UNCHANGED <<settled, torn, toExt>>
  BY DEF AuthTurn, settled, ports, broker, authority, connection, history
<1>3. CASE authenticated = p
  <2>1. task' = [task EXCEPT ![t] = <<g>> \o Rest(t)] /\ UNCHANGED toBroker
    BY <1>3 DEF AuthTurn, Continue
  <2>2. g.at \notin Revoking
    BY DEF Register, Idle, Revoking
  <2> HIDE DEF g
  <2>3. Revocations(<<g>> \o Rest(t)) = {}
    BY <1>1, <2>2, Goes
  <2> QED
    BY <1>1, <1>2, <2>1, <2>3, Resumes, Silent
<1>4. CASE authenticated # p
  <2>1. /\ task' = [task EXCEPT ![t] = <<h>> \o Rest(t)]
        /\ toBroker' = Posted(p, Message("auth", t))
    BY <1>4 DEF AuthTurn, Goto, Continue
  <2>2. h.at \notin Revoking
    <3>1. Top(t) \in Frames
      BY <1>1, AtTop
    <3>2. h.at = "auth.wait"
      BY <3>1 DEF Frames, FramesIn, FieldsIn
    <3> QED
      BY <3>2 DEF Revoking
  <2> HIDE DEF h
  <2>3. Revocations(<<h>> \o Rest(t)) = {}
    BY <1>1, <2>2, Goes
  <2>4. Asks
    BY <2>1, Posts
  <2> QED
    BY <1>1, <1>2, <2>1, <2>3, <2>4, Resumes, Silent
<1> QED
  BY <1>3, <1>4

LEMMA AuthAnsweredEnds ==
  ASSUME IInv, EndInv, NEW t \in Tasks, AuthAnswered(t)
  PROVE  EndInv'
<1> DEFINE g == Register(Top(t).port)
           s == storage
<1>1. task[t] # <<>> /\ Top(t).at \notin Undoing
  BY DEF AuthAnswered, At, Undoing, Interrupts, Revoking
<1>2. UNCHANGED <<settled, torn, toBroker>> /\ Taken /\ toExt # <<>>
  BY DEF AuthAnswered, Receives, settled, ports, broker, authority, connection, history
<1>3. Hears
  BY <1>2, Takes
<1>4. /\ g.at \notin Revoking /\ [g EXCEPT !.saw = s].at = g.at
  BY DEF Register, Idle, Revoking
<1>5. \/ task' = [task EXCEPT ![t] = Pruned(s, <<g>> \o Rest(t))]
      \/ task' = [task EXCEPT ![t] = <<g>> \o Rest(t)]
      \/ task' = [task EXCEPT ![t] = Pruned(s, <<>>)]
      \/ task' = [task EXCEPT ![t] = Pruned(s, Rest(t))]
  BY DEF AuthAnswered, Continue
<1> HIDE DEF g, s
<1>6. CASE task' = [task EXCEPT ![t] = Pruned(s, <<g>> \o Rest(t))]
  <2>1. \A f \in Revocations(Pruned(s, <<g>> \o Rest(t))) : Justified(f)
    BY <1>1, <1>4, PrunesPush
  <2> QED
    BY <1>1, <1>2, <1>3, <1>6, <2>1, Resumes, Silent
<1>7. CASE task' = [task EXCEPT ![t] = <<g>> \o Rest(t)]
  <2>1. Revocations(<<g>> \o Rest(t)) = {}
    BY <1>1, <1>4, Goes
  <2> QED
    BY <1>1, <1>2, <1>3, <1>7, <2>1, Resumes, Silent
<1>8. CASE task' = [task EXCEPT ![t] = Pruned(s, <<>>)]
  <2>1. \A f \in Revocations(Pruned(s, <<>>)) : Justified(f)
    BY <1>4, PrunesOne
  <2> QED
    BY <1>1, <1>2, <1>3, <1>8, <2>1, Resumes, Silent
<1>9. CASE task' = [task EXCEPT ![t] = Pruned(s, Rest(t))]
  <2>1. \A f \in Revocations(Pruned(s, Rest(t))) : Justified(f)
    BY <1>1, PrunesRest
  <2> QED
    BY <1>1, <1>2, <1>3, <1>9, <2>1, Resumes, Silent
<1> QED
  BY <1>5, <1>6, <1>7, <1>8, <1>9

LEMMA RegisterSendEnds ==
  ASSUME IInv, EndInv, NEW t \in Tasks, RegisterSend(t)
  PROVE  EndInv'
<1> DEFINE g == [Top(t) EXCEPT !.at = "register.wait"]
<1>1. task[t] # <<>> /\ Top(t).at \notin Undoing
  BY DEF RegisterSend, At, Undoing, Interrupts, Revoking
<1>2. /\ UNCHANGED <<settled, torn, toExt>> /\ task' = [task EXCEPT ![t] = <<g>> \o Rest(t)]
      /\ toBroker' = Posted(Top(t).port, Message("register", t))
  BY DEF RegisterSend, Goto, Continue, settled, worker, ports, broker, authority, connection,
         history
<1>3. g.at \notin Revoking
  <2>1. Top(t) \in Frames
    BY <1>1, AtTop
  <2>2. g.at = "register.wait"
    BY <2>1 DEF Frames, FramesIn, FieldsIn
  <2> QED
    BY <2>2 DEF Revoking
<1> HIDE DEF g
<1>4. Revocations(<<g>> \o Rest(t)) = {}
  BY <1>1, <1>3, Goes
<1>5. Asks
  BY <1>2, Posts
<1> QED
  BY <1>1, <1>2, <1>4, <1>5, Resumes, Silent

LEMMA RegisterAnsweredEnds ==
  ASSUME IInv, EndInv, NEW t \in Tasks, RegisterAnswered(t)
  PROVE  EndInv'
<1> DEFINE g == [Top(t) EXCEPT !.at = "register.write",
                               !.saw = [pending |-> Head(toExt).list, grant |-> storage.grant]]
<1>1. task[t] # <<>> /\ Top(t).at \notin Undoing
  BY DEF RegisterAnswered, At, Undoing, Interrupts, Revoking
<1>2. /\ UNCHANGED <<settled, torn, toBroker>> /\ task' = [task EXCEPT ![t] = <<g>> \o Rest(t)]
      /\ Taken /\ toExt # <<>>
  BY DEF RegisterAnswered, Receives, Continue, settled, ports, broker, authority, connection,
         history
<1>3. Hears
  BY <1>2, Takes
<1>4. g.at \notin Revoking
  <2>1. Top(t) \in Frames
    BY <1>1, AtTop
  <2>2. g.at = "register.write"
    BY <2>1 DEF Frames, FramesIn, FieldsIn
  <2> QED
    BY <2>2 DEF Revoking
<1> HIDE DEF g
<1>5. Revocations(<<g>> \o Rest(t)) = {}
  BY <1>1, <1>4, Goes
<1> QED
  BY <1>1, <1>2, <1>3, <1>5, Resumes, Silent

LEMMA RegisterWriteEnds ==
  ASSUME IInv, EndInv, NEW t \in Tasks, RegisterWrite(t)
  PROVE  EndInv'
<1> DEFINE new == Pruned(Top(t).saw, Rest(t))
<1>1. task[t] # <<>> /\ Top(t).at \notin Undoing
  BY DEF RegisterWrite, At, Undoing, Interrupts, Revoking
<1>2. UNCHANGED <<settled, torn, toBroker, toExt>> /\ task' = [task EXCEPT ![t] = new]
  BY DEF RegisterWrite, Continue, settled, worker, ports, wire, broker, authority, connection,
         history
<1>3. \A f \in Revocations(new) : Justified(f)
  BY <1>1, PrunesRest
<1> HIDE DEF new
<1> QED
  BY <1>1, <1>2, <1>3, Resumes, Silent

LEMMA LostReconnectEnds ==
  ASSUME IInv, EndInv, NEW t \in Tasks, LostReconnect(t)
  PROVE  EndInv'
<1>1. task[t] # <<>> /\ Top(t).at \notin Undoing
  BY DEF LostReconnect, At, Undoing, Interrupts, Revoking
<1>2. UNCHANGED <<settled, torn, toBroker, toExt>> /\ task' = [task EXCEPT ![t] = Rest(t)]
  BY DEF LostReconnect, Return, Continue, settled, ports, wire, broker, authority, connection,
         history
<1>3. Revocations(Rest(t)) = {}
  BY <1>1, NoneUnder
<1> QED
  BY <1>1, <1>2, <1>3, Resumes, Silent

LEMMA RequestedWriteEnds ==
  ASSUME IInv, EndInv, NEW t \in Tasks, RequestedWrite(t)
  PROVE  EndInv'
<1>1. task[t] # <<>> /\ Top(t).at \notin Undoing
  BY DEF RequestedWrite, At, Undoing, Interrupts, Revoking
<1>2. UNCHANGED <<settled, torn, toBroker, toExt>>
  BY DEF RequestedWrite, settled, worker, ports, wire, broker, authority, connection, history
<1>3. PICK s : task' = [task EXCEPT ![t] = Pruned(s, <<>>)]
  BY DEF RequestedWrite, Continue
<1>4. \A f \in Revocations(Pruned(s, <<>>)) : Justified(f)
  <2>1. Idle.at \notin Revoking /\ [Idle EXCEPT !.saw = s].at = Idle.at
    BY DEF Idle, Revoking
  <2> QED
    BY <2>1, PrunesOne
<1> QED
  BY <1>1, <1>2, <1>3, <1>4, Resumes, Silent

LEMMA PopupStateEnds ==
  ASSUME IInv, EndInv, NEW t \in Tasks, PopupState(t)
  PROVE  EndInv'
<1> DEFINE new == Pruned(storage, Rest(t))
<1>1. task[t] # <<>> /\ Top(t).at \notin Undoing
  BY DEF PopupState, At, Undoing, Interrupts, Revoking
<1>2. UNCHANGED <<settled, torn, toBroker, toExt>> /\ task' = [task EXCEPT ![t] = new]
  BY DEF PopupState, Continue, settled, worker, ports, wire, broker, authority, connection,
         history
<1>3. \A f \in Revocations(new) : Justified(f)
  BY <1>1, PrunesRest
<1> HIDE DEF new
<1> QED
  BY <1>1, <1>2, <1>3, Resumes, Silent

LEMMA RpcFailsEnds ==
  ASSUME IInv, EndInv, NEW t \in Tasks, RpcFails(t)
  PROVE  EndInv'
<1> DEFINE g == [Top(t) EXCEPT !.at = "grant.teardown"]
           h == [Top(t) EXCEPT !.at = "register.close"]
           s == storage
<1>1. task[t] # <<>> /\ Top(t).at \notin Undoing /\ Top(t) \in Frames
  <2>1. task[t] # <<>> /\ Top(t).at \in {"auth.wait", "register.wait", "grant.wait"}
    BY DEF RpcFails
  <2>2. Top(t).at \notin Undoing
    BY <2>1 DEF Undoing, Interrupts, Revoking
  <2> QED
    BY <2>1, <2>2, AtTop
<1>2. UNCHANGED <<settled, torn>>
  BY DEF RpcFails, settled, ports, authority, connection, history
<1>3. Hears
  <2> DEFINE S == {m \in Range(toExt) : m.to # t}
  <2>1. toExt' = Filtered(toExt, S) /\ toExt \in Seq(ToExt)
    BY DEF RpcFails, IInv, WireTyped
  <2> HIDE DEF S
  <2>2. \A n \in DOMAIN toExt' : \E i \in DOMAIN toExt : toExt'[n] = toExt[i]
    BY <2>1, FilteredType
  <2> QED
    BY <2>2 DEF Hears, Range
<1>4. /\ toBroker' # <<>> => toBroker # <<>>
      /\ \A m \in Range(toBroker) : m.m = "revoke" => Told(m.lease)'
  <2> DEFINE q(i) == IF toBroker[i].to = t THEN [toBroker[i] EXCEPT !.to = None] ELSE toBroker[i]
  <2>1. toBroker' = [i \in DOMAIN toBroker |-> q(i)] /\ toBroker \in Seq(ToBroker)
    BY DEF RpcFails, IInv, WireTyped
  <2>2. ASSUME NEW i \in DOMAIN toBroker
        PROVE  q(i).m = toBroker[i].m /\ q(i).lease = toBroker[i].lease
    <3>1. toBroker[i] \in ToBroker
      BY <2>1
    <3> QED
      BY <3>1 DEF ToBroker
  <2> HIDE DEF q
  <2>3. \A i \in DOMAIN toBroker : q(i) \in Range(toBroker')
    BY <2>1 DEF Range
  <2>4. \A m \in Range(toBroker) : m.m = "revoke" => Told(m.lease)'
    BY <2>2, <2>3 DEF Range, Told
  <2>5. toBroker = <<>> => toBroker' = <<>>
    <3>1. SUFFICES ASSUME toBroker = <<>> PROVE toBroker' = <<>>
      OBVIOUS
    <3>2. DOMAIN toBroker = {} /\ toBroker' = [i \in {} |-> q(i)]
      BY <2>1, <3>1
    <3> QED
      BY <3>2
  <2> QED
    BY <2>4, <2>5
<1>5. g.at \notin Revoking /\ h.at \notin Revoking /\ [h EXCEPT !.saw = s].at = h.at
  <2>1. g.at = "grant.teardown" /\ h.at = "register.close" /\ [h EXCEPT !.saw = s].at = h.at
    BY <1>1 DEF Frames, FramesIn, FieldsIn
  <2> QED
    BY <2>1 DEF Revoking
<1>6. \/ task' = [task EXCEPT ![t] = <<g>> \o Rest(t)]
      \/ task' = [task EXCEPT ![t] = Pruned(s, <<h>> \o Rest(t))]
      \/ task' = [task EXCEPT ![t] = Rest(t)]
      \/ task' = [task EXCEPT ![t] = Pruned(s, <<>>)]
  BY DEF RpcFails, Goto, Return, Continue
<1> HIDE DEF g, h, s
<1>7. PICK new : task' = [task EXCEPT ![t] = new] /\ \A f \in Revocations(new) : Justified(f)
  <2>1. Revocations(<<g>> \o Rest(t)) = {} /\ Revocations(Rest(t)) = {}
    BY <1>1, <1>5, Goes
  <2>2. \A f \in Revocations(Pruned(s, <<h>> \o Rest(t))) : Justified(f)
    BY <1>1, <1>5, PrunesPush
  <2>3. \A f \in Revocations(Pruned(s, <<>>)) : Justified(f)
    BY <1>5, PrunesOne
  <2>4. CASE task' = [task EXCEPT ![t] = <<g>> \o Rest(t)]
    BY <2>1, <2>4
  <2>5. CASE task' = [task EXCEPT ![t] = Pruned(s, <<h>> \o Rest(t))]
    BY <2>2, <2>5
  <2>6. CASE task' = [task EXCEPT ![t] = Rest(t)]
    BY <2>1, <2>6
  <2>7. CASE task' = [task EXCEPT ![t] = Pruned(s, <<>>)]
    BY <2>3, <2>7
  <2> QED
    BY <1>6, <2>4, <2>5, <2>6, <2>7
<1>8. task'[t] = new /\ \A u \in Tasks \ {t} : task'[u] = task[u]
  BY <1>7 DEF IInv, TasksTyped
<1>9. \A f \in Range(task[t]) : f.at \notin Sending
  BY <1>1, NoneUnder
<1>10. \A f \in Range(task[t]) : f.at \in Sending => Settled(f.lease)'
  BY <1>9
<1> QED
  BY <1>2, <1>3, <1>4, <1>7, <1>8, <1>10, Moved

\* A handler that starts with the revocation of a lease.
LEMMA StartsRevoking ==
  ASSUME IInv, EndInv, NEW t \in Tasks, task[t] = <<>>, NEW l, NEW notify, NEW g,
         notify \/ l \in expired \/ Gone(l), g.at \notin Revoking,
         \/ task' = [task EXCEPT ![t] = <<Revoke(l, notify)>>]
         \/ task' = [task EXCEPT ![t] = <<Revoke(l, notify), g>>],
         Asks, Hears, UNCHANGED settled, UNCHANGED torn
  PROVE  EndInv'
<1> DEFINE f == Revoke(l, notify)
<1>1. Justified(f)
  BY RevokeFields DEF Justified
<1> HIDE DEF f
<1>2. Revocations(<<f>>) \subseteq {f} /\ Revocations(<<g>>) = {}
  BY OneRevokes
<1>3. Revocations(<<f, g>>) = Revocations(<<f>>) \cup Revocations(<<g>>)
  BY PairRevokes
<1>4. CASE task' = [task EXCEPT ![t] = <<f>>]
  <2>1. \A h \in Revocations(<<f>>) : Justified(h)
    BY <1>1, <1>2
  <2> QED
    BY <1>4, <2>1, Resumes
<1>5. CASE task' = [task EXCEPT ![t] = <<f, g>>]
  <2>1. \A h \in Revocations(<<f, g>>) : Justified(h)
    BY <1>1, <1>2, <1>3
  <2> QED
    BY <1>5, <2>1, Resumes
<1> QED
  BY <1>4, <1>5 DEF f

LEMMA AnswerPopupAt ==
  AnswerPopup.at \notin Revoking
BY DEF AnswerPopup, Idle, Revoking

LEMMA InitializeEnds ==
  ASSUME IInv, EndInv, NEW t \in Tasks, Initialize(t)
  PROVE  EndInv'
<1> DEFINE g == [Idle EXCEPT !.at = "init.connect"]
           s == storage
<1>1. task[t] = <<>>
  BY DEF Initialize, IInv, PlanInv
<1>2. /\ UNCHANGED <<settled, torn, toBroker, toExt>>
      /\ task' = [task EXCEPT ![t] = Pruned(s, <<g>>)]
  BY DEF Initialize, Begin, settled, ports, wire, broker, authority, connection, history
<1>3. g.at \notin Revoking /\ [g EXCEPT !.saw = s].at = g.at
  BY DEF Idle, Revoking
<1> HIDE DEF g, s
<1>4. \A f \in Revocations(Pruned(s, <<g>>)) : Justified(f)
  BY <1>3, PrunesOne
<1> QED
  BY <1>1, <1>2, <1>4, Resumes, Silent

LEMMA RegisterAgainEnds ==
  ASSUME IInv, EndInv, NEW t \in Tasks, NEW pairing \in BOOLEAN, RegisterAgain(t, pairing)
  PROVE  EndInv'
<1> DEFINE f == Authenticate(nativePort, pairing)
           g == AnswerPopup
<1>1. task[t] = <<>>
  BY DEF RegisterAgain, Free
<1>2. UNCHANGED <<settled, torn, toBroker, toExt>> /\ task' = [task EXCEPT ![t] = <<f, g>>]
  BY DEF RegisterAgain, Begin, settled, ports, wire, broker, authority, connection, history
<1>3. f.at \notin Revoking /\ g.at \notin Revoking
  BY AnswerPopupAt DEF Authenticate, Idle, Revoking
<1> HIDE DEF f, g
<1>4. Revocations(<<f, g>>) = {}
  <2>1. Revocations(<<f, g>>) = Revocations(<<f>>) \cup Revocations(<<g>>)
    BY PairRevokes
  <2>2. Revocations(<<f>>) = {} /\ Revocations(<<g>>) = {}
    BY <1>3, OneRevokes
  <2> QED
    BY <2>1, <2>2
<1> QED
  BY <1>1, <1>2, <1>4, Resumes, Silent

LEMMA TabEventEnds ==
  ASSUME IInv, EndInv, NEW t \in Tasks, NEW tab \in Tabs, TabEvent(t, tab)
  PROVE  EndInv'
<1>1. task[t] = <<>>
  BY DEF TabEvent, Free
<1>2. /\ UNCHANGED <<settled, torn, toBroker, toExt>>
      /\ \/ task' = [task EXCEPT ![t] = <<>>]
         \/ task' = [task EXCEPT ![t] = <<Revoke(storage.grant, TRUE)>>]
  BY DEF TabEvent, Begin, settled, worker, ports, wire, broker, authority, connection, history
<1>3. CASE task' = [task EXCEPT ![t] = <<>>]
  <2>1. Revocations(<<>>) = {}
    BY OneRevokes
  <2> QED
    BY <1>1, <1>2, <1>3, <2>1, Resumes, Silent
<1>4. CASE task' = [task EXCEPT ![t] = <<Revoke(storage.grant, TRUE)>>]
  BY <1>1, <1>2, <1>4, AnswerPopupAt, StartsRevoking, Silent
<1> QED
  BY <1>2, <1>3, <1>4

LEMMA ExpiryTimerEnds ==
  ASSUME IInv, EndInv, NEW t \in Tasks, ExpiryTimer(t)
  PROVE  EndInv'
<1>1. task[t] = <<>>
  BY DEF ExpiryTimer, Free
<1>2. /\ UNCHANGED <<settled, torn, toBroker, toExt>>
      /\ task' = [task EXCEPT ![t] = <<Revoke(expiryTimer, TRUE)>>]
  BY DEF ExpiryTimer, Begin, settled, ports, wire, broker, authority, connection, history
<1> QED
  BY <1>1, <1>2, AnswerPopupAt, StartsRevoking, Silent

LEMMA NavigationTimerEnds ==
  ASSUME IInv, EndInv, NEW t \in Tasks, NEW l \in Leases, NavigationTimer(t, l)
  PROVE  EndInv'
<1>1. task[t] = <<>>
  BY DEF NavigationTimer, Free
<1>2. /\ UNCHANGED <<settled, torn, toBroker, toExt>>
      /\ task' = [task EXCEPT ![t] = <<Revoke(l, TRUE)>>]
  BY DEF NavigationTimer, Begin, settled, ports, wire, broker, authority, connection, history
<1> QED
  BY <1>1, <1>2, AnswerPopupAt, StartsRevoking, Silent

LEMMA PopupRevokesEnds ==
  ASSUME IInv, EndInv, NEW t \in Tasks, PopupRevokes(t)
  PROVE  EndInv'
<1>1. task[t] = <<>>
  BY DEF PopupRevokes, Free
<1>2. /\ UNCHANGED <<settled, torn, toBroker, toExt>>
      /\ task' = [task EXCEPT ![t] = <<Revoke(storage.grant, TRUE), AnswerPopup>>]
  BY DEF PopupRevokes, Begin, settled, worker, ports, wire, broker, authority, connection,
         history
<1> QED
  BY <1>1, <1>2, AnswerPopupAt, StartsRevoking, Silent

LEMMA PopupOpensEnds ==
  ASSUME IInv, EndInv, NEW t \in Tasks, PopupOpens(t)
  PROVE  EndInv'
<1> DEFINE s == storage
<1>1. task[t] = <<>>
  BY DEF PopupOpens, Free
<1>2. /\ UNCHANGED <<settled, torn, toBroker, toExt>>
      /\ task' = [task EXCEPT ![t] = Pruned(s, <<>>)]
  BY DEF PopupOpens, Begin, settled, worker, ports, wire, broker, authority, connection, history
<1> HIDE DEF s
<1>3. \A f \in Revocations(Pruned(s, <<>>)) : Justified(f)
  <2>1. Idle.at \notin Revoking /\ [Idle EXCEPT !.saw = s].at = Idle.at
    BY DEF Idle, Revoking
  <2> QED
    BY <2>1, PrunesOne
<1> QED
  BY <1>1, <1>2, <1>3, Resumes, Silent

LEMMA PopupGrantsEnds ==
  ASSUME IInv, EndInv, NEW t \in Tasks, NEW r \in Requests, PopupGrants(t, r)
  PROVE  EndInv'
<1> DEFINE s == storage
           f == [Idle EXCEPT !.at = "grant.find", !.request = r]
           g == AnswerPopup
<1>1. task[t] = <<>>
  BY DEF PopupGrants, Free
<1>2. /\ UNCHANGED <<settled, torn, toBroker, toExt>>
      /\ task' = [task EXCEPT ![t] = Pruned(s, <<f, g>>)]
  BY DEF PopupGrants, Begin, settled, worker, ports, wire, broker, authority, connection,
         history
<1>3. /\ f.at \notin Revoking /\ [f EXCEPT !.saw = s].at = f.at
      /\ g.at \notin Revoking
  BY AnswerPopupAt DEF Idle, Revoking
<1> HIDE DEF s, f, g
<1>4. <<f, g>> \in Seq({f, g}) /\ Head(<<f, g>>) = f
  OBVIOUS
<1>5. Revocations(<<f, g>>) = {}
  <2>1. Revocations(<<f, g>>) = Revocations(<<f>>) \cup Revocations(<<g>>)
    BY PairRevokes
  <2>2. Revocations(<<f>>) = {} /\ Revocations(<<g>>) = {}
    BY <1>3, OneRevokes
  <2> QED
    BY <2>1, <2>2
<1>6. \A h \in Revocations(Pruned(s, <<f, g>>)) : Justified(h)
  BY <1>3, <1>4, <1>5, Prunes
<1> QED
  BY <1>1, <1>2, <1>6, Resumes, Silent

LEMMA EventArrivesEnds ==
  ASSUME IInv, EndInv, NEW t \in Tasks, EventArrives(t)
  PROVE  EndInv'
<1> DEFINE e == Head(toExt)
           s == storage
           f == [Idle EXCEPT !.at = "requested.write", !.request = e.request]
           g == [Idle EXCEPT !.at = "execute.check", !.command = e.command, !.port = nativePort]
<1>1. task[t] = <<>> /\ toExt # <<>> /\ Taken
  BY DEF EventArrives, Free, Receives
<1>2. UNCHANGED <<settled, torn, toBroker>> /\ Hears
  BY <1>1, Takes DEF EventArrives, settled, worker, ports, broker, authority, connection,
     history
<1>3. \/ task' = [task EXCEPT ![t] = Pruned(s, <<f>>)]
      \/ task' = [task EXCEPT ![t] = Pruned(s, <<g>>)]
      \/ e.m = "revoked" /\ task' = [task EXCEPT ![t] = <<Revoke(e.lease, FALSE)>>]
  BY DEF EventArrives, Begin, Receives
<1>4. /\ f.at \notin Revoking /\ [f EXCEPT !.saw = s].at = f.at
      /\ g.at \notin Revoking /\ [g EXCEPT !.saw = s].at = g.at
  BY DEF Idle, Revoking
<1>5. e.m = "revoked" => Gone(e.lease)
  <2>1. e \in Range(toExt)
    BY <1>1, Pop DEF IInv, WireTyped
  <2> QED
    BY <2>1 DEF EndInv, OverInv, Gone
<1> HIDE DEF e, f, g, s
<1>6. CASE task' = [task EXCEPT ![t] = Pruned(s, <<f>>)]
  <2>1. \A h \in Revocations(Pruned(s, <<f>>)) : Justified(h)
    BY <1>4, PrunesOne
  <2> QED
    BY <1>1, <1>2, <1>6, <2>1, Resumes, Silent
<1>7. CASE task' = [task EXCEPT ![t] = Pruned(s, <<g>>)]
  <2>1. \A h \in Revocations(Pruned(s, <<g>>)) : Justified(h)
    BY <1>4, PrunesOne
  <2> QED
    BY <1>1, <1>2, <1>7, <2>1, Resumes, Silent
<1>8. CASE e.m = "revoked" /\ task' = [task EXCEPT ![t] = <<Revoke(e.lease, FALSE)>>]
  BY <1>1, <1>2, <1>5, <1>8, AnswerPopupAt, StartsRevoking, Silent
<1> QED
  BY <1>3, <1>6, <1>7, <1>8

LEMMA NavigateEnds ==
  ASSUME IInv, EndInv, NEW tab \in Tabs, NEW url \in Urls \cup {None}, Navigate(tab, url)
  PROVE  EndInv'
BY DEF Navigate, worker, ports, handlers, wire, broker, authority, connection, history, EndInv,
       PortInv, OverInv, ReasonInv, TornInv, Gone, Settled, Ending, Told, Justified, PortOpen

LEMMA AnswerEnds ==
  ASSUME IInv, EndInv, NEW t \in Tasks, task[t] # <<>>, Top(t).at \notin Undoing, NEW ok,
         Answer(t, ok), UNCHANGED <<settled, torn, toExt>>
  PROVE  EndInv'
<1>1. task' = [task EXCEPT ![t] = Rest(t)]
  BY DEF Answer, Return, Continue
<1>2. Asks
  BY Posts DEF Answer
<1>3. Revocations(Rest(t)) = {}
  BY NoneUnder
<1> QED
  BY <1>1, <1>2, <1>3, Resumes, Silent

LEMMA FailureEnds ==
  ASSUME IInv, EndInv, NEW t \in Tasks, task[t] # <<>>, Top(t).at \notin Undoing, NEW l,
         NEW notify, notify \/ l \in expired, RevokeAndFail(t, l, notify),
         UNCHANGED <<settled, torn, toExt>>
  PROVE  EndInv'
<1> DEFINE f == Revoke(l, notify)
           g == [Top(t) EXCEPT !.at = "execute.fail", !.saw = EmptyState]
<1>1. task' = [task EXCEPT ![t] = <<f, g>>] /\ UNCHANGED toBroker
  BY DEF RevokeAndFail, Continue
<1>2. Justified(f)
  BY RevokeFields DEF Justified
<1>3. g.at \notin Revoking
  <2>1. Top(t) \in Frames
    BY AtTop
  <2>2. g.at = "execute.fail"
    BY <2>1 DEF Frames, FramesIn, FieldsIn
  <2> QED
    BY <2>2 DEF Revoking
<1> HIDE DEF f, g
<1>4. Revocations(<<f>>) \subseteq {f} /\ Revocations(<<g>>) = {}
  BY <1>3, OneRevokes
<1>5. Revocations(<<f, g>>) = Revocations(<<f>>) \cup Revocations(<<g>>)
  BY PairRevokes
<1>6. \A h \in Revocations(<<f, g>>) : Justified(h)
  BY <1>2, <1>4, <1>5
<1> QED
  BY <1>1, <1>6, Resumes, Silent

\* A handler that only moves to another label.
LEMMA GoesTo ==
  ASSUME IInv, EndInv, NEW t \in Tasks, task[t] # <<>>, Top(t).at \notin Undoing,
         NEW label, label \notin Revoking, Goto(t, label), Asks, Hears,
         UNCHANGED <<settled, torn>>
  PROVE  EndInv'
<1> DEFINE g == [Top(t) EXCEPT !.at = label]
<1>1. task' = [task EXCEPT ![t] = <<g>> \o Rest(t)]
  BY DEF Goto, Continue
<1>2. g.at \notin Revoking
  <2>1. Top(t) \in Frames
    BY AtTop
  <2>2. g.at = label
    BY <2>1 DEF Frames, FramesIn, FieldsIn
  <2> QED
    BY <2>2
<1> HIDE DEF g
<1>3. Revocations(<<g>> \o Rest(t)) = {}
  BY <1>2, Goes
<1> QED
  BY <1>1, <1>3, Resumes

LEMMA ExecuteCheckEnds ==
  ASSUME IInv, EndInv, NEW t \in Tasks, ExecuteCheck(t)
  PROVE  EndInv'
<1> DEFINE l == under[Top(t).command]
           g == [Top(t) EXCEPT !.at = "execute.identify", !.saw = EmptyState]
<1>1. task[t] # <<>> /\ Top(t).at \notin Undoing
  BY DEF ExecuteCheck, At, Undoing, Interrupts, Revoking
<1>2. UNCHANGED <<settled, torn, toExt>>
  BY DEF ExecuteCheck, settled, worker, ports, broker, authority, connection, history
<1>3. \/ Answer(t, FALSE)
      \/ l \in expired /\ RevokeAndFail(t, l, FALSE)
      \/ RevokeAndFail(t, l, TRUE)
      \/ task' = [task EXCEPT ![t] = <<g>>] /\ UNCHANGED toBroker
  BY DEF ExecuteCheck, Continue
<1>4. g.at \notin Revoking
  <2>1. Top(t) \in Frames
    BY <1>1, AtTop
  <2>2. g.at = "execute.identify"
    BY <2>1 DEF Frames, FramesIn, FieldsIn
  <2> QED
    BY <2>2 DEF Revoking
<1> HIDE DEF l, g
<1>5. CASE Answer(t, FALSE)
  BY <1>1, <1>2, <1>5, AnswerEnds
<1>6. CASE l \in expired /\ RevokeAndFail(t, l, FALSE)
  BY <1>1, <1>2, <1>6, FailureEnds
<1>7. CASE RevokeAndFail(t, l, TRUE)
  BY <1>1, <1>2, <1>7, FailureEnds
<1>8. CASE task' = [task EXCEPT ![t] = <<g>>] /\ UNCHANGED toBroker
  <2>1. Revocations(<<g>>) = {}
    BY <1>4, OneRevokes
  <2> QED
    BY <1>1, <1>2, <1>8, <2>1, Resumes, Silent
<1> QED
  BY <1>3, <1>5, <1>6, <1>7, <1>8

LEMMA ExecuteIdentifyEnds ==
  ASSUME IInv, EndInv, NEW t \in Tasks, ExecuteIdentify(t)
  PROVE  EndInv'
<1> DEFINE l == under[Top(t).command]
<1>1. task[t] # <<>> /\ Top(t).at \notin Undoing
  BY DEF ExecuteIdentify, At, Undoing, Interrupts, Revoking
<1>2. UNCHANGED <<settled, torn, toExt>>
  BY DEF ExecuteIdentify, settled, worker, ports, broker, authority, connection, history
<1>3. \/ Goto(t, "execute.send") /\ UNCHANGED toBroker
      \/ RevokeAndFail(t, l, TRUE)
  BY DEF ExecuteIdentify
<1> HIDE DEF l
<1>4. CASE Goto(t, "execute.send") /\ UNCHANGED toBroker
  <2>1. "execute.send" \notin Revoking
    BY DEF Revoking
  <2> QED
    BY <1>1, <1>2, <1>4, <2>1, GoesTo, Silent
<1>5. CASE RevokeAndFail(t, l, TRUE)
  BY <1>1, <1>2, <1>5, FailureEnds
<1> QED
  BY <1>3, <1>4, <1>5

LEMMA ExecuteSendEnds ==
  ASSUME IInv, EndInv, NEW t \in Tasks, ExecuteSend(t)
  PROVE  EndInv'
<1> DEFINE l == under[Top(t).command]
<1>1. task[t] # <<>> /\ Top(t).at \notin Undoing
  BY DEF ExecuteSend, At, Undoing, Interrupts, Revoking
<1>2. UNCHANGED <<settled, torn, toExt>>
  BY DEF ExecuteSend, settled, worker, ports, broker, authority, connection
<1>3. \/ \E ok \in BOOLEAN : Answer(t, ok)
      \/ RevokeAndFail(t, l, TRUE)
  BY DEF ExecuteSend
<1> HIDE DEF l
<1>4. CASE \E ok \in BOOLEAN : Answer(t, ok)
  BY <1>1, <1>2, <1>4, AnswerEnds
<1>5. CASE RevokeAndFail(t, l, TRUE)
  BY <1>1, <1>2, <1>5, FailureEnds
<1> QED
  BY <1>3, <1>4, <1>5

LEMMA ExecuteNavigateEnds ==
  ASSUME IInv, EndInv, NEW t \in Tasks, ExecuteNavigate(t)
  PROVE  EndInv'
<1>1. task[t] # <<>> /\ Top(t).at \notin Undoing
  BY DEF ExecuteNavigate, At, Undoing, Interrupts, Revoking
<1>2. UNCHANGED <<settled, torn, toExt>> /\ Answer(t, TRUE)
  BY DEF ExecuteNavigate, settled, ports, broker, authority, connection
<1> QED
  BY <1>1, <1>2, AnswerEnds

LEMMA ExecuteRefusedEnds ==
  ASSUME IInv, EndInv, NEW t \in Tasks, ExecuteRefused(t)
  PROVE  EndInv'
<1>1. task[t] # <<>> /\ Top(t).at \notin Undoing
  BY DEF ExecuteRefused, At, Undoing, Interrupts, Revoking
<1>2. UNCHANGED <<settled, torn, toExt>> /\ Answer(t, FALSE)
  BY DEF ExecuteRefused, settled, worker, ports, broker, authority, connection, history
<1> QED
  BY <1>1, <1>2, AnswerEnds

LEMMA ExecuteFailEnds ==
  ASSUME IInv, EndInv, NEW t \in Tasks, ExecuteFail(t)
  PROVE  EndInv'
<1>1. task[t] # <<>> /\ Top(t).at \notin Undoing
  BY DEF ExecuteFail, At, Undoing, Interrupts, Revoking
<1>2. UNCHANGED <<settled, torn, toExt>> /\ Answer(t, FALSE)
  BY DEF ExecuteFail, settled, worker, ports, broker, authority, connection, history
<1> QED
  BY <1>1, <1>2, AnswerEnds

LEMMA GrantFindEnds ==
  ASSUME IInv, EndInv, NEW t \in Tasks, GrantFind(t)
  PROVE  EndInv'
<1> DEFINE f == Top(t)
           chosen(tab) == [f EXCEPT !.at = "grant.inject", !.tab = tab, !.url = page[tab].url,
                                    !.saw = EmptyState]
           revoke == Revoke(f.saw.grant, TRUE)
<1>1. task[t] # <<>> /\ f.at \notin Undoing
  BY DEF GrantFind, At, Undoing, Interrupts, Revoking
<1>2. UNCHANGED <<settled, torn, toBroker, toExt>>
  BY DEF GrantFind, settled, worker, ports, wire, broker, authority, connection, history
<1>3. \/ task' = [task EXCEPT ![t] = <<>>]
      \/ \E tab \in Tabs :
           \/ task' = [task EXCEPT ![t] = <<chosen(tab)>> \o Rest(t)]
           \/ task' = [task EXCEPT ![t] = <<revoke, chosen(tab)>> \o Rest(t)]
  BY DEF GrantFind, Throw, Continue
<1>4. ASSUME NEW tab \in Tabs PROVE chosen(tab).at \notin Revoking
  <2>1. f \in Frames
    BY <1>1, AtTop
  <2>2. chosen(tab).at = "grant.inject"
    BY <2>1 DEF Frames, FramesIn, FieldsIn
  <2> QED
    BY <2>2 DEF Revoking
<1>5. Justified(revoke)
  BY RevokeFields DEF Justified
<1> HIDE DEF chosen, revoke
<1>6. CASE task' = [task EXCEPT ![t] = <<>>]
  <2>1. Revocations(<<>>) = {}
    BY OneRevokes
  <2> QED
    BY <1>1, <1>2, <1>6, <2>1, Resumes, Silent
<1>7. ASSUME NEW tab \in Tabs, task' = [task EXCEPT ![t] = <<chosen(tab)>> \o Rest(t)]
      PROVE  EndInv'
  <2>1. Revocations(<<chosen(tab)>> \o Rest(t)) = {}
    BY <1>1, <1>4, Goes
  <2> QED
    BY <1>1, <1>2, <1>7, <2>1, Resumes, Silent
<1>8. ASSUME NEW tab \in Tabs, task' = [task EXCEPT ![t] = <<revoke, chosen(tab)>> \o Rest(t)]
      PROVE  EndInv'
  <2> DEFINE g == chosen(tab)
             rest == Rest(t)
  <2>1. g.at \notin Revoking /\ rest \in Seq(Frames) /\ Revocations(rest) = {}
    BY <1>1, <1>4, NoneUnder
  <2>2. task' = [task EXCEPT ![t] = <<revoke, g>> \o rest]
    BY <1>8
  <2> HIDE DEF g, rest
  <2>3. Revocations(<<revoke, g>> \o rest)
          = Revocations(<<revoke>>) \cup Revocations(<<g>>) \cup Revocations(rest)
    BY <2>1, PushTwoRevokes
  <2>4. Revocations(<<revoke>>) \subseteq {revoke} /\ Revocations(<<g>>) = {}
    BY <2>1, OneRevokes
  <2>5. \A h \in Revocations(<<revoke, g>> \o rest) : Justified(h)
    BY <1>5, <2>1, <2>3, <2>4
  <2> QED
    BY <1>1, <1>2, <2>2, <2>5, Resumes, Silent
<1> QED
  BY <1>3, <1>6, <1>7, <1>8

LEMMA GrantInjectEnds ==
  ASSUME IInv, EndInv, NEW t \in Tasks, GrantInject(t)
  PROVE  EndInv'
<1> DEFINE g == [Top(t) EXCEPT !.at = "grant.verify", !.doc = DocId(Top(t).tab)]
<1>1. task[t] # <<>> /\ Top(t).at \notin Undoing
  BY DEF GrantInject, At, Undoing, Interrupts, Revoking
<1>2. UNCHANGED <<settled, torn, toBroker, toExt>>
  BY DEF GrantInject, settled, worker, ports, wire, broker, authority, connection, history
<1>3. \/ task' = [task EXCEPT ![t] = <<>>]
      \/ task' = [task EXCEPT ![t] = <<g>> \o Rest(t)]
  BY DEF GrantInject, Throw, Continue
<1>4. g.at \notin Revoking
  <2>1. Top(t) \in Frames
    BY <1>1, AtTop
  <2>2. g.at = "grant.verify"
    BY <2>1 DEF Frames, FramesIn, FieldsIn
  <2> QED
    BY <2>2 DEF Revoking
<1> HIDE DEF g
<1>5. CASE task' = [task EXCEPT ![t] = <<>>]
  <2>1. Revocations(<<>>) = {}
    BY OneRevokes
  <2> QED
    BY <1>1, <1>2, <1>5, <2>1, Resumes, Silent
<1>6. CASE task' = [task EXCEPT ![t] = <<g>> \o Rest(t)]
  <2>1. Revocations(<<g>> \o Rest(t)) = {}
    BY <1>1, <1>4, Goes
  <2> QED
    BY <1>1, <1>2, <1>6, <2>1, Resumes, Silent
<1> QED
  BY <1>3, <1>5, <1>6

LEMMA GrantVerifyEnds ==
  ASSUME IInv, EndInv, NEW t \in Tasks, GrantVerify(t)
  PROVE  EndInv'
<1>1. task[t] # <<>> /\ Top(t).at \notin Undoing
  BY DEF GrantVerify, At, Undoing, Interrupts, Revoking
<1>2. UNCHANGED <<settled, torn, toExt>>
  BY DEF GrantVerify, settled, worker, ports, broker, authority, connection, history
<1>3. \/ Goto(t, "grant.wait") /\ \E q : toBroker' = Posted(nativePort, q)
      \/ Goto(t, "grant.teardown") /\ UNCHANGED toBroker
  BY DEF GrantVerify
<1>4. "grant.wait" \notin Revoking /\ "grant.teardown" \notin Revoking
  BY DEF Revoking
<1>5. Asks
  BY <1>3, Posts, Silent
<1> QED
  BY <1>1, <1>2, <1>3, <1>4, <1>5, GoesTo, Silent

LEMMA GrantAnsweredEnds ==
  ASSUME IInv, EndInv, NEW t \in Tasks, GrantAnswered(t)
  PROVE  EndInv'
<1> DEFINE g == [Top(t) EXCEPT !.at = "grant.recheck", !.lease = Head(toExt).lease]
<1>1. task[t] # <<>> /\ Top(t).at \notin Undoing
  BY DEF GrantAnswered, At, Undoing, Interrupts, Revoking
<1>2. UNCHANGED <<settled, torn, toBroker>> /\ Taken /\ toExt # <<>>
  BY DEF GrantAnswered, Receives, settled, worker, ports, broker, authority, connection, history
<1>3. Hears
  BY <1>2, Takes
<1>4. \/ task' = [task EXCEPT ![t] = <<g>> \o Rest(t)]
      \/ Goto(t, "grant.teardown")
  BY DEF GrantAnswered, Continue
<1>5. g.at \notin Revoking /\ "grant.teardown" \notin Revoking
  <2>1. Top(t) \in Frames
    BY <1>1, AtTop
  <2>2. g.at = "grant.recheck"
    BY <2>1 DEF Frames, FramesIn, FieldsIn
  <2> QED
    BY <2>2 DEF Revoking
<1> HIDE DEF g
<1>6. CASE task' = [task EXCEPT ![t] = <<g>> \o Rest(t)]
  <2>1. Revocations(<<g>> \o Rest(t)) = {}
    BY <1>1, <1>5, Goes
  <2> QED
    BY <1>1, <1>2, <1>3, <1>6, <2>1, Resumes, Silent
<1>7. CASE Goto(t, "grant.teardown")
  BY <1>1, <1>2, <1>3, <1>5, <1>7, GoesTo, Silent
<1> QED
  BY <1>4, <1>6, <1>7

LEMMA GrantRecheckEnds ==
  ASSUME IInv, EndInv, NEW t \in Tasks, GrantRecheck(t)
  PROVE  EndInv'
<1> DEFINE g == [Top(t) EXCEPT !.at = "grant.write", !.saw = storage]
<1>1. task[t] # <<>> /\ Top(t).at \notin Undoing
  BY DEF GrantRecheck, At, Undoing, Interrupts, Revoking
<1>2. UNCHANGED <<settled, torn, toBroker, toExt>>
  BY DEF GrantRecheck, settled, worker, ports, wire, broker, authority, connection, history
<1>3. \/ task' = [task EXCEPT ![t] = <<g>> \o Rest(t)]
      \/ Goto(t, "grant.teardown")
  BY DEF GrantRecheck, Continue
<1>4. g.at \notin Revoking /\ "grant.teardown" \notin Revoking
  <2>1. Top(t) \in Frames
    BY <1>1, AtTop
  <2>2. g.at = "grant.write"
    BY <2>1 DEF Frames, FramesIn, FieldsIn
  <2> QED
    BY <2>2 DEF Revoking
<1> HIDE DEF g
<1>5. CASE task' = [task EXCEPT ![t] = <<g>> \o Rest(t)]
  <2>1. Revocations(<<g>> \o Rest(t)) = {}
    BY <1>1, <1>4, Goes
  <2> QED
    BY <1>1, <1>2, <1>5, <2>1, Resumes, Silent
<1>6. CASE Goto(t, "grant.teardown")
  BY <1>1, <1>2, <1>4, <1>6, GoesTo, Silent
<1> QED
  BY <1>3, <1>5, <1>6

LEMMA GrantWriteEnds ==
  ASSUME IInv, EndInv, NEW t \in Tasks, GrantWrite(t)
  PROVE  EndInv'
<1>1. task[t] # <<>> /\ Top(t).at \notin Undoing
  BY DEF GrantWrite, At, Undoing, Interrupts, Revoking
<1>2. UNCHANGED <<settled, torn, toBroker, toExt>>
  BY DEF GrantWrite, settled, ports, wire, broker, authority, connection, history
<1>3. PICK s : task' = [task EXCEPT ![t] = Pruned(s, Rest(t))]
  BY DEF GrantWrite, Continue
<1>4. \A f \in Revocations(Pruned(s, Rest(t))) : Justified(f)
  BY <1>1, PrunesRest
<1> QED
  BY <1>1, <1>2, <1>3, <1>4, Resumes, Silent

LEMMA GrantTeardownEnds ==
  ASSUME IInv, EndInv, NEW t \in Tasks, GrantTeardown(t)
  PROVE  EndInv'
<1> DEFINE f == Top(t)
           g == [f EXCEPT !.at = "grant.revoke"]
           new == <<g>> \o Rest(t)
<1>1. task[t] # <<>> /\ f.at \notin Undoing /\ f.at \notin Sending
  BY DEF GrantTeardown, At, Undoing, Interrupts, Revoking, Sending
<1>2. /\ UNCHANGED <<settled, toBroker, toExt>> /\ task' = [task EXCEPT ![t] = new]
      /\ torn' = torn \cup ({f.lease} \ {None})
  BY DEF GrantTeardown, Goto, Continue, settled, worker, ports, wire, broker, authority,
         connection
<1>3. g.at = "grant.revoke" /\ g.lease = f.lease
  <2>1. f \in Frames
    BY <1>1, AtTop
  <2> QED
    BY <2>1 DEF Frames, FramesIn, FieldsIn
<1> HIDE DEF f, g
<1>4. Revocations(Rest(t)) = {} /\ Rest(t) \in Seq(Frames)
  BY <1>1, NoneUnder DEF f
<1>5. Revocations(new) = {}
  <2>1. g.at \notin Revoking
    BY <1>3 DEF Revoking
  <2> QED
    BY <1>1, <2>1, Goes DEF f
<1>6. g \in Range(new)
  <2>1. Rest(t) \in Seq(Frames \cup {g}) /\ g \in Frames \cup {g}
    BY <1>4
  <2> QED
    BY <2>1, Push
<1> HIDE DEF new
<1>7. \A l \in torn' \ torn : Settled(l)'
  <2>1. task'[t] = new
    BY <1>2 DEF IInv, TasksTyped
  <2>2. g.at \in Sending
    BY <1>3 DEF Sending
  <2>3. ASSUME NEW l, l = f.lease PROVE Settled(l)'
    BY <1>3, <1>6, <2>1, <2>2, <2>3 DEF Settled, Ending
  <2> QED
    BY <1>2, <2>3
<1> QED
  BY <1>1, <1>2, <1>4, <1>5, <1>7, Carries, Silent DEF f

LEMMA GrantRevokeEnds ==
  ASSUME IInv, EndInv, NEW t \in Tasks, GrantRevoke(t)
  PROVE  EndInv'
<1> DEFINE f == Top(t)
<1>1. task[t] # <<>> /\ f.at = "grant.revoke" /\ f.at \notin Interrupts
  BY DEF GrantRevoke, At, Interrupts, Revoking
<1>2. /\ UNCHANGED <<settled, torn, toExt>> /\ task' = [task EXCEPT ![t] = <<>>]
      /\ toBroker' = IF f.lease = None THEN toBroker ELSE TellRevoked(f.lease)
  BY DEF GrantRevoke, Throw, Continue, settled, worker, ports, broker, authority, connection,
         history
<1>3. Revocations(Rest(t)) = {} /\ Revocations(<<>>) = {}
  <2>1. Held(Rest(t)) \subseteq {"popup.state"}
    BY <1>1, AtTop
  <2>2. Revocations(Rest(t)) = {}
    BY <2>1 DEF Revocations, Held, Revoking
  <2> QED
    BY <2>2, OneRevokes
<1>4. ASSUME f.lease # None PROVE Asks /\ \A l : l = f.lease => Settled(l)'
  <2>1. f.lease \in Leases
    BY <1>1, <1>4, AtTop, FrameFields DEF Known
  <2>2. ASSUME NEW l, l = f.lease PROVE Asks /\ Settled(l)'
    BY <1>2, <1>4, <2>1, <2>2, Telling
  <2> QED
    BY <2>2
<1>5. Asks /\ \A l \in torn : l = f.lease => Settled(l)'
  <2>1. None \notin torn
    BY ExtensionAssumption DEF IInv, PagesTyped, Known
  <2> QED
    BY <1>2, <1>4, <2>1, Silent
<1> QED
  BY <1>1, <1>2, <1>3, <1>5, Carries, Silent DEF f

\* A step outside the worker.
worlds == <<task, torn, nativePort, portState>>

LEMMA Elsewhere ==
  ASSUME IInv, EndInv, UNCHANGED worlds, expired \subseteq expired',
         \A l \in Known : Gone(l) => Gone(l)',
         \A l \in Leases : Gone(l)' \/ (joined' /\ PortOpen),
         toBroker' # <<>> => toBroker # <<>>,
         \A l \in Known : Told(l) => Told(l)' \/ Gone(l)', OverInv'
  PROVE  EndInv'
<1>1. PortOpen' <=> PortOpen
  BY DEF worlds, PortOpen
<1>2. PortInv'
  BY <1>1 DEF EndInv, PortInv
<1>3. ASSUME NEW t \in Tasks, NEW f \in Revocations(task[t])
      PROVE  Justified(f)'
  <2>1. Justified(f)
    BY DEF EndInv, ReasonInv
  <2>2. task[t] \in Seq(Frames) /\ f \in Range(task[t]) /\ f.at \in Revoking
    BY DEF IInv, TasksTyped, Stack, StackOf, Revocations
  <2>3. f \in Frames
    BY <2>2, RangeOf
  <2>4. f.lease \in Known
    BY <2>2, <2>3, FrameFields DEF Proper
  <2> QED
    BY <2>1, <2>4 DEF Justified
<1>4. ReasonInv'
  BY <1>3 DEF ReasonInv, worlds
<1>5. ASSUME NEW l \in torn
      PROVE  Settled(l)'
  <2>1. Settled(l) /\ l \in Known
    BY DEF EndInv, TornInv, IInv, PagesTyped
  <2>2. Ending(l)' <=> Ending(l)
    BY DEF Ending, worlds
  <2> QED
    BY <2>1, <2>2 DEF Settled
<1>6. TornInv'
  BY <1>5 DEF TornInv, worlds
<1> QED
  BY <1>2, <1>4, <1>6 DEF EndInv

\* What was sent stays true, and what is sent now is.
LEMMA OverSent ==
  ASSUME IInv, EndInv, NEW e, toExt' = toExt \/ toExt' = Append(toExt, e),
         \A l \in Leases : standing[l] = "over" => standing'[l] = "over",
         e.m = "revoked" => standing'[e.lease] = "over"
  PROVE  OverInv'
<1>1. ASSUME NEW m \in Range(toExt'), m.m = "revoked"
      PROVE  standing'[m.lease] = "over"
  <2>1. toExt \in Seq(ToExt)
    BY DEF IInv, WireTyped
  <2>2. CASE m \in Range(toExt)
    <3>1. m \in ToExt
      BY <2>1, <2>2, RangeOf
    <3>2. m.lease \in Leases
      BY <1>1, <3>1 DEF ToExt, Known
    <3> QED
      BY <1>1, <2>2, <3>2 DEF EndInv, OverInv
  <2>3. m \in Range(toExt) \/ m = e
    <3>1. CASE toExt' = toExt
      BY <3>1
    <3>2. CASE toExt' = Append(toExt, e)
      <4> DEFINE n == Len(toExt)
      <4>1. /\ DOMAIN toExt = 1..n /\ DOMAIN toExt' = 1..(n + 1) /\ n \in Nat
            /\ toExt'[n + 1] = e /\ \A i \in 1..n : toExt'[i] = toExt[i]
        <5>1. toExt \in Seq(ToExt \cup {e}) /\ e \in ToExt \cup {e}
          BY <2>1
        <5> QED
          BY <3>2, <5>1
      <4> HIDE DEF n
      <4>2. PICK i \in 1..(n + 1) : m = toExt'[i]
        BY <4>1 DEF Range
      <4>3. CASE i = n + 1
        BY <4>1, <4>2, <4>3
      <4>4. CASE i # n + 1
        <5>1. i \in 1..n
          BY <4>1, <4>4
        <5> QED
          BY <4>1, <4>2, <5>1 DEF Range
      <4> QED
        BY <4>3, <4>4
    <3> QED
      BY <3>1, <3>2
  <2> QED
    BY <1>1, <2>2, <2>3
<1> QED
  BY <1>1 DEF OverInv

LEMMA Sends ==
  ASSUME NEW e
  PROVE  /\ Sent(e) = toExt \/ Sent(e) = Append(toExt, e)
         /\ Emitted(e) = toExt \/ Emitted(e) = Append(toExt, e)
BY DEF Sent, Emitted

\* Leases that end.
LEMMA Overs ==
  ASSUME IInv, NEW E, End(E)
  PROVE  /\ \A l \in Leases : standing[l] = "over" => standing'[l] = "over"
         /\ \A l \in Leases : standing'[l] = "live" => standing[l] = "live" /\ l \notin E
         /\ \A l \in Leases : l \in E => standing'[l] = "over"
BY DEF End, Over

\* The broker hears the next message.
LEMMA HearsNext ==
  ASSUME IInv, EndInv, toBroker # <<>>, toBroker' = Tail(toBroker)
  PROVE  /\ PortOpen
         /\ \A l : Told(l) => Told(l)' \/ (Head(toBroker).m = "revoke" /\ Head(toBroker).lease = l)
<1>1. Range(toBroker) = {Head(toBroker)} \cup Range(Tail(toBroker))
  BY Pop DEF IInv, WireTyped
<1> QED
  BY <1>1 DEF Told, EndInv, PortInv

LEMMA AskEnds ==
  ASSUME IInv, EndInv, NEW r \in Requests, Ask(r)
  PROVE  EndInv'
<1> DEFINE e == [Reply("requested", None) EXCEPT !.request = r]
<1>1. /\ UNCHANGED <<worlds, expired, toBroker, standing, closing, joined>>
      /\ toExt' = Emitted(e)
  BY DEF Ask, worlds, worker, ports, handlers, authority, connection, history
<1>2. e.m = "requested"
  BY DEF Reply
<1> HIDE DEF e
<1>3. OverInv'
  BY <1>1, <1>2, Sends, OverSent
<1> QED
  BY <1>1, <1>3, Elsewhere DEF Gone, Told, EndInv, PortInv

LEMMA WithdrawEnds ==
  ASSUME IInv, EndInv, NEW r \in Requests, Withdraw(r)
  PROVE  EndInv'
<1>1. UNCHANGED <<worlds, expired, toBroker, toExt, standing, closing, joined>>
  BY DEF Withdraw, worlds, worker, ports, handlers, wire, authority, connection, history
<1>2. OverInv'
  BY <1>1, OverKept, Silent
<1> QED
  BY <1>1, <1>2, Elsewhere DEF Gone, Told, EndInv, PortInv

LEMMA ExpireEnds ==
  ASSUME IInv, EndInv, NEW x \in Requests \cup Leases, Expire(x)
  PROVE  EndInv'
<1>1. UNCHANGED <<worlds, toBroker, toExt, standing, closing, joined>> /\ expired \subseteq expired'
  BY DEF Expire, worlds, worker, ports, handlers, wire, broker, authority, connection, history
<1>2. OverInv'
  BY <1>1, OverKept, Silent
<1> QED
  BY <1>1, <1>2, Elsewhere DEF Gone, Told, EndInv, PortInv

LEMMA BrokerEndsEnds ==
  ASSUME IInv, EndInv, NEW l \in Leases, BrokerEnds(l)
  PROVE  EndInv'
<1> DEFINE e == Revoked(l)
           E == {l}
<1>1. /\ UNCHANGED <<worlds, expired, toBroker, closing, joined>> /\ End(E) /\ toExt' = Emitted(e)
  BY DEF BrokerEnds, worlds, worker, ports, handlers, connection, history
<1>2. /\ \A k \in Leases : standing[k] = "over" => standing'[k] = "over"
      /\ \A k \in Leases : standing'[k] = "live" => standing[k] = "live"
      /\ standing'[l] = "over"
  <2>1. l \in E
    OBVIOUS
  <2> HIDE DEF E
  <2> QED
    BY <1>1, <2>1, Overs
<1>3. e.lease = l
  BY DEF Revoked, Reply
<1> HIDE DEF e
<1>4. OverInv'
  BY <1>1, <1>2, <1>3, Sends, OverSent
<1> QED
  BY <1>1, <1>2, <1>4, Elsewhere DEF Gone, Told, EndInv, PortInv, Known

LEMMA BrokerSeesCloseEnds ==
  ASSUME IInv, EndInv, BrokerSeesClose
  PROVE  EndInv'
<1>1. UNCHANGED <<worlds, expired, toBroker, toExt, joined>> /\ End(LiveLeases)
  BY DEF BrokerSeesClose, worlds, worker, ports, handlers, wire, history
<1>2. /\ \A k \in Leases : standing[k] = "over" => standing'[k] = "over"
      /\ \A k \in Leases : standing'[k] # "live"
  BY <1>1, Overs DEF LiveLeases
<1>3. OverInv'
  <2> DEFINE e == Reply("auth", None)
  <2>1. e.m # "revoked"
    BY DEF Reply
  <2> HIDE DEF e
  <2> QED
    BY <1>1, <1>2, <2>1, OverSent
<1> QED
  BY <1>1, <1>2, <1>3, Elsewhere DEF Gone, Told, Known

LEMMA BrokerDispatchesEnds ==
  ASSUME IInv, EndInv, NEW k \in Commands, NEW l \in Leases, BrokerDispatches(k, l)
  PROVE  EndInv'
<1> DEFINE e == [Reply("execute", None) EXCEPT !.command = k]
<1>1. /\ UNCHANGED <<worlds, expired, toBroker, closing, joined>> /\ toExt' = Emitted(e)
      /\ standing' = Over({})
  BY DEF BrokerDispatches, Dispatch, worlds, worker, ports, handlers, connection, history
<1>2. UNCHANGED standing
  BY <1>1 DEF IInv, BrokerTyped, Over
<1>3. e.m = "execute"
  BY DEF Reply
<1> HIDE DEF e
<1>4. OverInv'
  BY <1>1, <1>2, <1>3, Sends, OverSent
<1> QED
  BY <1>1, <1>2, <1>4, Elsewhere DEF Gone, Told, EndInv, PortInv

LEMMA BrokerAnswersGrantEnds ==
  ASSUME IInv, EndInv, BrokerAnswersGrant
  PROVE  EndInv'
<1>1. /\ UNCHANGED <<worlds, expired, toBroker, standing, closing, joined>>
      /\ \/ UNCHANGED toExt
         \/ \E a \in answering :
              toExt' = Sent([Reply("lease", a.to) EXCEPT !.lease = a.lease,
                               !.ok = standing[a.lease] = "live" /\ a.lease \notin expired])
  BY DEF BrokerAnswersGrant, worlds, worker, ports, handlers, authority, connection, history
<1>2. PICK e : (toExt' = toExt \/ toExt' = Append(toExt, e)) /\ e.m = "lease"
  <2>1. CASE UNCHANGED toExt
    <3>1. Reply("lease", None).m = "lease"
      BY DEF Reply
    <3> QED
      BY <2>1, <3>1
  <2>2. ASSUME NEW a \in answering,
               toExt' = Sent([Reply("lease", a.to) EXCEPT !.lease = a.lease,
                                !.ok = standing[a.lease] = "live" /\ a.lease \notin expired])
        PROVE  \E e : (toExt' = toExt \/ toExt' = Append(toExt, e)) /\ e.m = "lease"
    <3> DEFINE g == [Reply("lease", a.to) EXCEPT !.lease = a.lease,
                       !.ok = standing[a.lease] = "live" /\ a.lease \notin expired]
    <3>1. g.m = "lease"
      BY DEF Reply
    <3>2. toExt' = Sent(g)
      BY <2>2
    <3> HIDE DEF g
    <3> QED
      BY <3>1, <3>2, Sends
  <2> QED
    BY <1>1, <2>1, <2>2
<1>3. OverInv'
  BY <1>1, <1>2, OverSent
<1> QED
  BY <1>1, <1>3, Elsewhere DEF Gone, Told, EndInv, PortInv

LEMMA BrokerAdmitsEnds ==
  ASSUME IInv, EndInv, BrokerAdmits
  PROVE  EndInv'
<1> DEFINE q == Head(toBroker)
           paired(ok) == [Reply("auth", q.to) EXCEPT !.ok = ok]
           listed == [Reply("register", q.to) EXCEPT !.list = SetToSeq(PendingAtBroker)]
<1>1. /\ UNCHANGED <<worlds, expired, standing, closing>> /\ toBroker # <<>>
      /\ toBroker' = Tail(toBroker) /\ q.m \in {"auth", "register"} /\ joined' \in {joined, TRUE}
      /\ \/ UNCHANGED toExt
         \/ toExt' = Sent(listed)
         \/ \E ok \in BOOLEAN : toExt' = Sent(paired(ok))
  BY DEF BrokerAdmits, worlds, worker, ports, handlers, authority, history
<1>2. listed.m # "revoked" /\ \A ok \in BOOLEAN : paired(ok).m # "revoked"
  BY DEF Reply
<1> HIDE DEF listed, paired
<1>3. OverInv'
  <2>1. CASE UNCHANGED toExt
    BY <1>1, <1>2, <2>1, OverSent
  <2>2. CASE toExt' = Sent(listed)
    BY <1>1, <1>2, <2>2, Sends, OverSent
  <2>3. ASSUME NEW ok \in BOOLEAN, toExt' = Sent(paired(ok))
        PROVE  OverInv'
    BY <1>1, <1>2, <2>3, Sends, OverSent
  <2> QED
    BY <1>1, <2>1, <2>2, <2>3
<1>4. PortOpen /\ \A l : Told(l) => Told(l)'
  BY <1>1, HearsNext
<1>5. \A l : Gone(l)' <=> Gone(l)
  BY <1>1 DEF Gone
<1>6. \A l \in Leases : Gone(l)' \/ (joined' /\ PortOpen)
  <2>1. joined => joined'
    BY <1>1
  <2>2. \A l \in Leases : Gone(l) \/ (joined /\ PortOpen)
    BY DEF EndInv, PortInv
  <2> QED
    BY <1>5, <2>1, <2>2
<1> QED
  BY <1>1, <1>3, <1>4, <1>5, <1>6, Elsewhere

LEMMA BrokerGrantsEnds ==
  ASSUME IInv, EndInv, BrokerGrants
  PROVE  EndInv'
<1>1. /\ UNCHANGED <<worlds, expired, closing, joined, toExt>> /\ toBroker # <<>>
      /\ toBroker' = Tail(toBroker) /\ Head(toBroker).m = "grant"
      /\ \/ UNCHANGED standing
         \/ \E l \in Leases :
              /\ joined /\ standing[l] = "unissued" /\ standing' = [Over({}) EXCEPT ![l] = "live"]
  BY DEF BrokerGrants, Issue, worlds, worker, ports, handlers, connection, authority, history
<1>2. PortOpen /\ \A l : Told(l) => Told(l)'
  BY <1>1, HearsNext
<1>3. /\ \A l \in Known : standing'[l] = standing[l]
      /\ \A l \in Leases : standing'[l] = standing[l] \/ joined
  <2>1. CASE UNCHANGED standing
    BY <2>1
  <2>2. CASE \E l \in Leases :
               /\ joined /\ standing[l] = "unissued" /\ standing' = [Over({}) EXCEPT ![l] = "live"]
    BY <2>2 DEF Known, Over
  <2> QED
    BY <1>1, <2>1, <2>2
<1>4. \A l \in Leases : standing[l] = "over" => l \in Known
  BY DEF Known
<1>5. OverInv'
  <2> DEFINE e == Reply("auth", None)
  <2>1. e.m # "revoked"
    BY DEF Reply
  <2> HIDE DEF e
  <2> QED
    BY <1>1, <1>3, <1>4, <2>1, OverSent
<1>6. \A l \in Known : Gone(l) => Gone(l)'
  BY <1>1, <1>3 DEF Gone
<1>7. \A l \in Leases : Gone(l)' \/ (joined' /\ PortOpen)
  BY <1>1, <1>2, <1>3 DEF Gone, EndInv, PortInv
<1> QED
  BY <1>1, <1>2, <1>5, <1>6, <1>7, Elsewhere

LEMMA BrokerIsToldEnds ==
  ASSUME IInv, EndInv, BrokerIsTold
  PROVE  EndInv'
<1> DEFINE q == Head(toBroker)
           l == q.lease
           e == Revoked(l)
           E == {l}
           revokes == q.m = "revoke" /\ joined /\ standing[l] = "live"
<1>1. /\ UNCHANGED <<worlds, expired, closing, joined>> /\ toBroker # <<>>
      /\ toBroker' = Tail(toBroker)
      /\ \/ revokes /\ End(E) /\ toExt' = Emitted(e)
         \/ ~revokes /\ UNCHANGED <<standing, toExt>>
  BY DEF BrokerIsTold, worlds, worker, ports, handlers, authority, connection, history
<1>2. PortOpen /\ \A k : Told(k) => Told(k)' \/ (q.m = "revoke" /\ l = k)
  BY <1>1, HearsNext
<1>3. q.m = "revoke" => l \in Leases
  <2>1. q \in ToBroker
    BY <1>1, NextHeard DEF IInv
  <2> QED
    BY <2>1 DEF ToBroker, Known
<1>4. e.lease = l
  BY DEF Revoked, Reply
<1> HIDE DEF e, l
<1>5. CASE revokes /\ End(E) /\ toExt' = Emitted(e)
  <2>1. /\ \A k \in Leases : standing[k] = "over" => standing'[k] = "over"
        /\ \A k \in Leases : standing'[k] = "live" => standing[k] = "live" /\ k # l
        /\ standing'[l] = "over"
    <3>1. l \in E /\ l \in Leases
      BY <1>3, <1>5
    <3> HIDE DEF E
    <3>2. /\ \A k \in Leases : standing[k] = "over" => standing'[k] = "over"
          /\ \A k \in Leases : standing'[k] = "live" => standing[k] = "live" /\ k \notin E
          /\ \A k \in Leases : k \in E => standing'[k] = "over"
      BY <1>5, Overs
    <3> QED
      BY <3>1, <3>2
  <2>2. OverInv'
    BY <1>4, <1>5, <2>1, Sends, OverSent
  <2>3. \A k \in Leases : Gone(k) => Gone(k)'
    BY <1>1, <2>1 DEF Gone
  <2>4. \A k \in Leases : Gone(k)' \/ (joined' /\ PortOpen)
    BY <1>1, <2>3 DEF EndInv, PortInv
  <2>5. \A k \in Leases : Told(k) => Told(k)' \/ Gone(k)'
    BY <1>2, <2>1 DEF Gone
  <2> QED
    BY <1>1, <2>2, <2>3, <2>4, <2>5, Elsewhere DEF Known
<1>6. CASE ~revokes /\ UNCHANGED <<standing, toExt>>
  <2>1. OverInv'
    BY <1>6, OverKept, Silent
  <2>2. \A k : Gone(k)' <=> Gone(k)
    BY <1>1, <1>6 DEF Gone
  <2>3. \A k \in Leases : Gone(k)' \/ (joined' /\ PortOpen)
    BY <1>1, <2>2 DEF EndInv, PortInv
  <2>4. q.m = "revoke" => Gone(l)
    BY <1>3, <1>6 DEF EndInv, PortInv, Gone
  <2>5. \A k \in Leases : Told(k) => Told(k)' \/ Gone(k)'
    BY <1>2, <2>2, <2>4
  <2> QED
    BY <1>1, <2>1, <2>2, <2>3, <2>5, Elsewhere DEF Known
<1> QED
  BY <1>1, <1>5, <1>6

LEMMA EndBegun ==
  ASSUME Init
  PROVE  EndInv
<1>1. \A l \in Leases : Gone(l)
  BY DEF Init, AuthorityInit, Gone
<1>2. toExt = <<>> /\ toBroker = <<>> /\ torn = {}
  BY DEF Init
<1>3. Range(toExt) = {}
  <2>1. DOMAIN toExt = {}
    BY <1>2
  <2> QED
    BY <2>1 DEF Range
<1>4. \A t \in Tasks : Revocations(task[t]) = {}
  BY OneRevokes DEF Init
<1> QED
  BY <1>1, <1>2, <1>3, <1>4 DEF EndInv, PortInv, OverInv, ReasonInv, TornInv

LEMMA TaskStepEnds ==
  ASSUME IInv, EndInv, NEW t \in Tasks, TaskStep(t)
  PROVE  EndInv'
<1>1. CASE PruneWrite(t)
  BY <1>1, PruneWriteEnds
<1>2. CASE RevokeRead(t)
  BY <1>2, RevokeReadEnds
<1>3. CASE RevokeTeardown(t)
  BY <1>3, RevokeTeardownEnds
<1>4. CASE RevokeWrite(t)
  BY <1>4, RevokeWriteEnds
<1>5. CASE RevokeNotify(t)
  BY <1>5, RevokeNotifyEnds
<1>6. CASE InitializeConnect(t)
  BY <1>6, InitializeConnectEnds
<1>7. CASE AuthTurn(t)
  BY <1>7, AuthTurnEnds
<1>8. CASE AuthAnswered(t)
  BY <1>8, AuthAnsweredEnds
<1>9. CASE RegisterSend(t)
  BY <1>9, RegisterSendEnds
<1>10. CASE RegisterAnswered(t)
  BY <1>10, RegisterAnsweredEnds
<1>11. CASE RegisterWrite(t)
  BY <1>11, RegisterWriteEnds
<1>12. CASE RpcFails(t)
  BY <1>12, RpcFailsEnds
<1>13. CASE RegisterClose(t)
  BY <1>13, RegisterCloseEnds
<1>14. CASE LostReconnect(t)
  BY <1>14, LostReconnectEnds
<1>15. CASE RequestedWrite(t)
  BY <1>15, RequestedWriteEnds
<1>16. CASE PopupState(t)
  BY <1>16, PopupStateEnds
<1>17. CASE ExecuteCheck(t)
  BY <1>17, ExecuteCheckEnds
<1>18. CASE ExecuteIdentify(t)
  BY <1>18, ExecuteIdentifyEnds
<1>19. CASE ExecuteSend(t)
  BY <1>19, ExecuteSendEnds
<1>20. CASE ExecuteNavigate(t)
  BY <1>20, ExecuteNavigateEnds
<1>21. CASE ExecuteFail(t)
  BY <1>21, ExecuteFailEnds
<1>22. CASE GrantFind(t)
  BY <1>22, GrantFindEnds
<1>23. CASE GrantInject(t)
  BY <1>23, GrantInjectEnds
<1>24. CASE GrantVerify(t)
  BY <1>24, GrantVerifyEnds
<1>25. CASE GrantAnswered(t)
  BY <1>25, GrantAnsweredEnds
<1>26. CASE GrantRecheck(t)
  BY <1>26, GrantRecheckEnds
<1>27. CASE GrantWrite(t)
  BY <1>27, GrantWriteEnds
<1>28. CASE GrantTeardown(t)
  BY <1>28, GrantTeardownEnds
<1>29. CASE ExecuteRefused(t)
  BY <1>29, ExecuteRefusedEnds
<1>30. CASE GrantRevoke(t)
  BY <1>30, GrantRevokeEnds
<1> QED
  BY <1>1, <1>2, <1>3, <1>4, <1>5, <1>6, <1>7, <1>8, <1>9, <1>10, <1>11, <1>12, <1>13, <1>14,
     <1>15, <1>16, <1>17, <1>18, <1>19, <1>20, <1>21, <1>22, <1>23, <1>24, <1>25, <1>26, <1>27,
     <1>28, <1>29, <1>30 DEF TaskStep

LEMMA HandlerEnds ==
  ASSUME IInv, EndInv, NEW t \in Tasks, HandlerStarts(t)
  PROVE  EndInv'
<1>1. CASE Initialize(t)
  BY <1>1, InitializeEnds
<1>2. CASE Reconnect(t)
  BY <1>2, ReconnectEnds
<1>3. CASE PortLossSeen(t)
  BY <1>3, PortLossSeenEnds
<1>4. CASE EventArrives(t)
  BY <1>4, EventArrivesEnds
<1>5. CASE \E pairing \in BOOLEAN : RegisterAgain(t, pairing)
  BY <1>5, RegisterAgainEnds
<1>6. CASE \E tab \in Tabs : TabEvent(t, tab)
  BY <1>6, TabEventEnds
<1>7. CASE ExpiryTimer(t)
  BY <1>7, ExpiryTimerEnds
<1>8. CASE \E l \in Leases : NavigationTimer(t, l)
  BY <1>8, NavigationTimerEnds
<1>9. CASE PopupOpens(t)
  BY <1>9, PopupOpensEnds
<1>10. CASE PopupRevokes(t)
  BY <1>10, PopupRevokesEnds
<1>11. CASE \E r \in Requests : PopupGrants(t, r)
  BY <1>11, PopupGrantsEnds
<1>12. CASE ReconnectTimerIdle
  BY <1>12, ReconnectTimerIdleEnds
<1> QED
  BY <1>1, <1>2, <1>3, <1>4, <1>5, <1>6, <1>7, <1>8, <1>9, <1>10, <1>11,
     <1>12 DEF HandlerStarts

LEMMA BrokerStepEnds ==
  ASSUME IInv, EndInv, BrokerHears \/ Agents
  PROVE  EndInv'
<1>1. CASE BrokerSeesClose
  BY <1>1, BrokerSeesCloseEnds
<1>2. CASE BrokerAdmits
  BY <1>2, BrokerAdmitsEnds
<1>3. CASE BrokerGrants
  BY <1>3, BrokerGrantsEnds
<1>4. CASE BrokerAnswersGrant
  BY <1>4, BrokerAnswersGrantEnds
<1>5. CASE BrokerIsTold
  BY <1>5, BrokerIsToldEnds
<1>6. CASE \E r \in Requests : Ask(r)
  BY <1>6, AskEnds
<1>7. CASE \E k \in Commands, l \in Leases : BrokerDispatches(k, l)
  BY <1>7, BrokerDispatchesEnds
<1> QED
  BY <1>1, <1>2, <1>3, <1>4, <1>5, <1>6, <1>7 DEF BrokerHears, Agents

LEMMA EventEnds ==
  ASSUME IInv, EndInv, Events
  PROVE  EndInv'
<1>1. CASE \E tab \in Tabs, url \in Urls \cup {None} : Navigate(tab, url)
  BY <1>1, NavigateEnds
<1>2. CASE PortLost
  BY <1>2, PortLostEnds
<1>3. CASE WorkerStops
  BY <1>3, WorkerStopsEnds
<1>4. CASE \E x \in Requests \cup Leases : Expire(x)
  BY <1>4, ExpireEnds
<1>5. CASE \E r \in Requests : Withdraw(r)
  BY <1>5, WithdrawEnds
<1>6. CASE \E l \in Leases : BrokerEnds(l)
  BY <1>6, BrokerEndsEnds
<1> QED
  BY <1>1, <1>2, <1>3, <1>4, <1>5, <1>6 DEF Events

LEMMA StutterEnds ==
  ASSUME EndInv, UNCHANGED vars
  PROVE  EndInv'
<1>1. UNCHANGED <<task, torn, standing, joined, closing, expired, toExt, toBroker,
                 nativePort, portState>>
  BY DEF vars, worker, ports, wire, broker, authority, connection, handlers, history
<1>2. /\ \A l : (Gone(l)' <=> Gone(l)) /\ (Settled(l)' <=> Settled(l))
      /\ \A f : Justified(f)' <=> Justified(f)
      /\ PortOpen' <=> PortOpen
  BY <1>1 DEF Gone, Settled, Ending, Told, Justified, PortOpen
<1> QED
  BY <1>1, <1>2 DEF EndInv, PortInv, OverInv, ReasonInv, TornInv

LEMMA AlwaysEnds ==
  Spec => []EndInv
<1>1. ASSUME IInv, EndInv, Next
      PROVE  EndInv'
  <2>1. ASSUME NEW t \in Tasks, TaskStep(t) \/ HandlerStarts(t)
        PROVE  EndInv'
    BY <1>1, <2>1, TaskStepEnds, HandlerEnds
  <2> QED
    BY <1>1, <2>1, BrokerStepEnds, EventEnds DEF Next
<1>2. IInv /\ EndInv /\ [Next]_vars => EndInv'
  BY <1>1, StutterEnds
<1> QED
  BY <1>2, EndBegun, Always, PTL DEF Spec

\* A lease whose bridge the worker tore down cannot stay live at the broker unnoticed: it
\* is past its deadline, or a handler is still on its way to tell the broker (revokeGrant,
\* grantCurrentTab's catch block), or what it posted is on the port, or the connection
\* the lease was issued for has ended and the broker is about to see that
\* (handleNativeDisconnect; the host's socket closing at the broker).
THEOREM TornLeasesEndAtBroker ==
  Spec => []TornLeasesEnd
<1>1. ASSUME EndInv
      PROVE  TornLeasesEnd
  <2>1. SUFFICES ASSUME NEW l \in torn, standing[l] = "live", l \notin expired
                 PROVE  \/ \E t \in Tasks : \E i \in DOMAIN task[t] :
                             task[t][i].lease = l /\ task[t][i].at \in Sending
                        \/ \E i \in DOMAIN toBroker :
                             toBroker[i].m = "revoke" /\ toBroker[i].lease = l
                        \/ closing > 0
    BY DEF TornLeasesEnd, Sending
  <2>2. Gone(l) \/ Ending(l) \/ Told(l)
    BY <1>1, <2>1 DEF EndInv, TornInv, Settled
  <2>3. CASE Gone(l)
    BY <2>1, <2>3 DEF Gone
  <2>4. CASE Ending(l)
    BY <2>4 DEF Ending, Range
  <2>5. CASE Told(l)
    BY <2>5 DEF Told, Range
  <2> QED
    BY <2>2, <2>3, <2>4, <2>5
<1> QED
  BY <1>1, AlwaysEnds, PTL

=============================================================================
