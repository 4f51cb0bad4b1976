----------------------------- MODULE PairingProofs -----------------------------
(* Theorems about Pairing, for any connections, keys, limits and bounds. *)
EXTENDS Pairing, TLAPS, WellFoundedInduction

-----------------------------------------------------------------------------
(* The inductive invariant: the flags and the handlers, and one prompt at a time. *)

Flags ==
  /\ browserAuthTransitionActive \in [Conns -> BOOLEAN]
  /\ pairingPromptActive \in BOOLEAN
  /\ handler = [c \in Conns |-> handler[c]]

Busy(c) == browserAuthTransitionActive[c] <=> handler[c] # Nothing

OnePrompt ==
  /\ pairingPromptActive <=> \E c \in Conns : handler[c].at = "prompt"
  /\ \A c, e \in Conns : handler[c].at = "prompt" /\ handler[e].at = "prompt" => c = e

BusyInv == Flags /\ (\A c \in Conns : Busy(c)) /\ OnePrompt

-----------------------------------------------------------------------------
(* What a step does to the flag and the handler of one connection *)

\* A handler begins, goes on or ends; the flag of its connection goes with it.
Moves(c, to) ==
  /\ handler' = [handler EXCEPT ![c] = to]
  /\ browserAuthTransitionActive' = [browserAuthTransitionActive EXCEPT ![c] = (to # Nothing)]

\* A handler that waits for something is not Nothing.
LEMMA AwaitingSomething ==
  ASSUME NEW at, NEW challenge, NEW pairs, at # "nothing"
  PROVE  Awaiting(at, challenge, pairs) # Nothing /\ Awaiting(at, challenge, pairs).at = at
  BY DEF Awaiting, Nothing

\* A flag that is set or left set moves with a handler that goes on.
LEMMA GoesOnBusy ==
  ASSUME Flags, NEW c \in Conns, browserAuthTransitionActive[c],
         UNCHANGED browserAuthTransitionActive
  PROVE  browserAuthTransitionActive' = [browserAuthTransitionActive EXCEPT ![c] = TRUE]
  BY DEF Flags

\* A step of a handler that has to do with no prompt keeps the invariant.
LEMMA MoveKeeps ==
  ASSUME BusyInv, NEW c \in Conns, NEW to, Moves(c, to),
         handler[c].at # "prompt", to.at # "prompt", UNCHANGED pairingPromptActive
  PROVE  BusyInv'
<1>1. Flags'
  BY DEF BusyInv, Flags, Moves
<1>2. \A e \in Conns : handler'[e] = IF e = c THEN to ELSE handler[e]
  BY DEF BusyInv, Flags, Moves
<1>3. \A e \in Conns : browserAuthTransitionActive'[e] =
        IF e = c THEN to # Nothing ELSE browserAuthTransitionActive[e]
  BY DEF BusyInv, Flags, Moves
<1>4. \A e \in Conns : Busy(e)'
  BY <1>2, <1>3 DEF BusyInv, Busy
<1>5. \A e \in Conns : handler'[e].at = "prompt" <=> handler[e].at = "prompt"
  BY <1>2
<1>6. OnePrompt'
  BY <1>5 DEF BusyInv, OnePrompt
<1> QED BY <1>1, <1>4, <1>6 DEF BusyInv

\* A prompt is shown while there is none, and its end is the end of its handler.
LEMMA PromptBegins ==
  ASSUME BusyInv, NEW c \in Conns, Pair(c)
  PROVE  BusyInv'
<1>0. /\ Awaiting("prompt", NoChallenge, FALSE) # Nothing
      /\ Awaiting("prompt", NoChallenge, FALSE).at = "prompt"
  BY AwaitingSomething
<1>1. /\ Moves(c, Awaiting("prompt", NoChallenge, FALSE))
      /\ ~pairingPromptActive /\ pairingPromptActive' = TRUE
  BY <1>0 DEF Pair, Moves, Await, Transition
<1>2. \A e \in Conns :
        handler'[e] = IF e = c THEN Awaiting("prompt", NoChallenge, FALSE) ELSE handler[e]
  BY <1>1 DEF BusyInv, Flags, Moves
<1>3. \A e \in Conns : browserAuthTransitionActive'[e] =
        IF e = c THEN TRUE ELSE browserAuthTransitionActive[e]
  BY <1>1, <1>0 DEF BusyInv, Flags, Moves
<1>4. \A e \in Conns : Busy(e)'
  BY <1>2, <1>3, <1>0 DEF BusyInv, Busy
<1>5. \A e \in Conns : handler'[e].at = "prompt" <=> e = c
  BY <1>1, <1>2, <1>0 DEF BusyInv, OnePrompt
<1>6. OnePrompt'
  BY <1>1, <1>5 DEF OnePrompt
<1>7. Flags'
  BY <1>1 DEF BusyInv, Flags, Moves
<1> QED BY <1>4, <1>6, <1>7 DEF BusyInv

LEMMA PromptFinishes ==
  ASSUME BusyInv, NEW c \in Conns, NEW approved, PromptEnds(c, approved)
  PROVE  BusyInv'
<1>1. /\ Moves(c, Nothing) /\ handler[c].at = "prompt" /\ pairingPromptActive' = FALSE
  BY DEF PromptEnds, PromptOver, Moves, Ended, Transition
<1>2. \A e \in Conns : handler'[e] = IF e = c THEN Nothing ELSE handler[e]
  BY <1>1 DEF BusyInv, Flags, Moves
<1>3. \A e \in Conns : browserAuthTransitionActive'[e] =
        IF e = c THEN FALSE ELSE browserAuthTransitionActive[e]
  BY <1>1 DEF BusyInv, Flags, Moves
<1>4. \A e \in Conns : Busy(e)'
  BY <1>2, <1>3 DEF BusyInv, Busy
<1>5. \A e \in Conns : handler'[e].at # "prompt"
  BY <1>1, <1>2 DEF BusyInv, OnePrompt, Nothing, Awaiting
<1>6. OnePrompt'
  BY <1>1, <1>5 DEF OnePrompt
<1>7. Flags'
  BY <1>1 DEF BusyInv, Flags, Moves
<1> QED BY <1>4, <1>6, <1>7 DEF BusyInv

\* Every step keeps the invariant.
LEMMA BusyStep == BusyInv /\ [Next]_vars => BusyInv'
<1> SUFFICES ASSUME BusyInv, [Next]_vars PROVE BusyInv'
  OBVIOUS
<1>0. Nothing.at = "nothing"
  BY DEF Nothing, Awaiting
<1>1. ASSUME UNCHANGED <<handler, browserAuthTransitionActive, pairingPromptActive>>
      PROVE  BusyInv'
  BY <1>1 DEF BusyInv, Flags, Busy, OnePrompt
<1>2. ASSUME NEW c \in Conns, Start(c)
      PROVE  BusyInv'
  <2> DEFINE lookup == Awaiting("lookup", NoChallenge, FALSE)
  <2>1. lookup # Nothing /\ lookup.at = "lookup"
    BY AwaitingSomething
  <2>2. ~browserAuthTransitionActive[c] /\ UNCHANGED pairingPromptActive
    BY <1>2 DEF Start, MayAuthenticate, FreeForTransition, admission
  <2>3. Moves(c, lookup)
    BY <1>2, <2>1 DEF Start, Moves, Await, Transition
  <2>4. handler[c].at # "prompt"
    BY <1>0, <2>2 DEF BusyInv, Busy
  <2> HIDE DEF lookup
  <2> QED BY <2>1, <2>2, <2>3, <2>4, MoveKeeps
<1>3. ASSUME NEW c \in Conns, StartReads(c)
      PROVE  BusyInv'
  <2>1. PICK at \in {"paired", "unpaired"} :
          handler' = [handler EXCEPT ![c] = Awaiting(at, NoChallenge, FALSE)]
    BY <1>3 DEF StartReads, Await
  <2>2. handler[c].at = "lookup" /\ UNCHANGED <<browserAuthTransitionActive, pairingPromptActive>>
    BY <1>3 DEF StartReads, admission
  <2>3. browserAuthTransitionActive[c]
    BY <1>0, <2>2 DEF BusyInv, Busy
  <2>4. Moves(c, Awaiting(at, NoChallenge, FALSE))
    BY <2>1, <2>2, <2>3, GoesOnBusy, AwaitingSomething DEF Moves, BusyInv
  <2> QED BY <2>2, <2>4, AwaitingSomething, MoveKeeps
<1>4. ASSUME NEW c \in Conns, StartEnds(c)
      PROVE  BusyInv'
  <2>1. Moves(c, Nothing) /\ UNCHANGED pairingPromptActive /\ handler[c].at # "prompt"
    BY <1>4 DEF StartEnds, Moves, Ended, Transition, admission
  <2> QED BY <1>0, <2>1, MoveKeeps
<1>5. ASSUME NEW c \in Conns, NEW id, NEW proof, Complete(c, id, proof)
      PROVE  BusyInv'
  <2>1. UNCHANGED pairingPromptActive /\ ~browserAuthTransitionActive[c]
    BY <1>5 DEF Complete, admission
  <2>2. handler[c].at # "prompt"
    BY <1>0, <2>1 DEF BusyInv, Busy
  <2>3. CASE proof /\ browserChallenge[c].id = id
    <3>1. PICK at \in {"persist", "disconnect"} :
            handler' = [handler EXCEPT ![c] =
              Awaiting(at, browserChallenge[c], browserChallengePairsKey[c])]
      BY <1>5, <2>3 DEF Complete, Await
    <3> DEFINE next == Awaiting(at, browserChallenge[c], browserChallengePairsKey[c])
    <3>2. next # Nothing /\ next.at # "prompt"
      BY AwaitingSomething
    <3>3. Moves(c, next)
      BY <1>5, <2>3, <3>1, <3>2 DEF Complete, Moves, Transition
    <3> HIDE DEF next
    <3> QED BY <2>1, <2>2, <3>2, <3>3, MoveKeeps
  <2>4. CASE ~(proof /\ browserChallenge[c].id = id)
    BY <1>1, <1>5, <2>1, <2>4 DEF Complete
  <2> QED BY <2>3, <2>4
<1>6. ASSUME NEW c \in Conns, NEW renamed, NEW written, PersistEnds(c, renamed, written)
      PROVE  BusyInv'
  <2>1. UNCHANGED pairingPromptActive /\ handler[c].at = "persist"
    BY <1>6 DEF PersistEnds, admission
  <2>2. browserAuthTransitionActive[c]
    BY <1>0, <2>1 DEF BusyInv, Busy
  <2>3. CASE written
    <3>1. /\ handler' = [handler EXCEPT ![c] = Awaiting("disconnect", handler[c].challenge, TRUE)]
          /\ UNCHANGED browserAuthTransitionActive
      BY <1>6, <2>3 DEF PersistEnds, AfterPersisting, Await
    <3> DEFINE next == Awaiting("disconnect", handler[c].challenge, TRUE)
    <3>2. next # Nothing /\ next.at = "disconnect"
      BY AwaitingSomething
    <3>3. Moves(c, next)
      BY <2>2, <3>1, <3>2, GoesOnBusy DEF Moves, BusyInv
    <3> HIDE DEF next
    <3> QED BY <2>1, <3>2, <3>3, MoveKeeps
  <2>4. CASE ~written
    <3>1. Moves(c, Nothing)
      BY <1>6, <2>4 DEF PersistEnds, AfterPersisting, Ended, Transition, Moves
    <3> QED BY <1>0, <2>1, <3>1, MoveKeeps
  <2> QED BY <2>3, <2>4
<1>7. ASSUME NEW c \in Conns, NEW ok, UpgradeEnds(c, ok)
      PROVE  BusyInv'
  <2>1. Moves(c, Nothing) /\ UNCHANGED pairingPromptActive /\ handler[c].at # "prompt"
    BY <1>7 DEF UpgradeEnds, Moves, Ended, Transition, admission
  <2> QED BY <1>0, <2>1, MoveKeeps
<1>8. ASSUME NEW c \in Conns, Hello(c) \/ Close(c) \/ PairRefused(c)
      PROVE  BusyInv'
  BY <1>1, <1>8 DEF Hello, Close, PairRefused, authentication, admission
<1>9. CASE Tick \/ UNCHANGED vars
  BY <1>1, <1>9 DEF Tick, vars, authentication, admission
<1> QED BY <1>2, <1>3, <1>4, <1>5, <1>6, <1>7, <1>8, <1>9, PromptBegins, PromptFinishes
        DEF Next, BrowserAuthCalls, HandlerStep

LEMMA BusyInit == Init => BusyInv
<1> SUFFICES ASSUME Init PROVE BusyInv
  OBVIOUS
<1>1. /\ handler = [c \in Conns |-> Nothing]
      /\ browserAuthTransitionActive = [c \in Conns |-> FALSE] /\ pairingPromptActive = FALSE
  BY DEF Init
<1>2. Nothing.at = "nothing"
  BY DEF Nothing, Awaiting
<1> QED BY <1>1, <1>2 DEF BusyInv, Flags, Busy, OnePrompt

\* Whatever a handler of the authentication runs into, and whichever connections close
\* meanwhile, it leaves neither its connection busy nor the prompt taken.
THEOREM NobodyLeftBusy == Spec => []BusyOnlyWhileRunning
<1>1. BusyInv => BusyOnlyWhileRunning
  BY DEF BusyInv, Busy, OnePrompt, BusyOnlyWhileRunning
<1> QED BY <1>1, BusyInit, BusyStep, PTL DEF Spec

-----------------------------------------------------------------------------
(* The attempts of a window *)

LEMMA LeastOf ==
  ASSUME NEW S, S \subseteq Nat, S # {}
  PROVE  Min(S) \in S /\ \A y \in S : Min(S) <= y
<1>1. PICK x \in S : \A y \in S : <<y, x>> \notin OpToRel(<, Nat)
  BY NatLessThanWellFounded, WFMin
<1>2. \A y \in S : x <= y
  <2> TAKE y \in S
  <2>1. x \in Nat /\ y \in Nat
    BY <1>1
  <2>2. ~(y < x)
    BY <1>1, <2>1 DEF OpToRel
  <2> QED
    BY <2>1, <2>2
<1> QED
  BY <1>1, <1>2, Zenon DEF Min

LEMMA LimitsTyped ==
  /\ MaxTime \in Nat /\ MaxChallenges \in Nat /\ MaxCalls \in Nat
  /\ ChallengeTTL \in Nat \ {0} /\ PromptTimeout \in Nat \ {0} /\ PromptCooldown \in Nat \ {0}
  /\ AttemptWindow \in Nat \ {0} /\ Attempts \in Nat \ {0}
  /\ GlobalWindow \in Nat \ {0} /\ GlobalAttempts \in Nat \ {0}
  /\ None \notin Keys /\ None \notin Conns /\ None \notin Nat
BY PairingAssumption

\* What is left of the attempts is their end, and what is dropped has lapsed.
LEMMA RecentSuffix ==
  ASSUME NEW times \in Seq(Times), NEW window \in Nat, now \in Nat
  PROVE  \E d \in 0..Len(times) :
           /\ Recent(times, window) = SubSeq(times, d + 1, Len(times))
           /\ \A i \in 1..d : times[i] + window <= now
<1> DEFINE kept == {i \in DOMAIN times : times[i] > now - window}
           all == kept \cup {Len(times) + 1}
           first == Min(all)
<1>1. DOMAIN times = 1..Len(times) /\ Len(times) \in Nat /\ Times \subseteq Nat
  BY LimitsTyped DEF Times
<1>2. all \subseteq Nat /\ all # {}
  BY <1>1
<1>3. first \in all /\ \A y \in all : first <= y
  BY <1>2, LeastOf
<1>4. Recent(times, window) = SubSeq(times, first, Len(times))
  BY DEF Recent
<1>5. first \in 1..(Len(times) + 1)
  BY <1>1, <1>3
<1> HIDE DEF first
<1>6. ASSUME NEW i \in 1..(first - 1) PROVE times[i] + window <= now
  <2>1. i \in DOMAIN times /\ i < first /\ i \in Nat
    BY <1>1, <1>5
  <2>2. times[i] \in Times
    BY <2>1
  <2>3. i \notin kept
    BY <1>3, <1>5, <2>1
  <2>4. times[i] \in Nat /\ ~(times[i] > now - window)
    BY <1>1, <2>1, <2>2, <2>3
  <2> HIDE DEF kept
  <2> QED
    BY <2>4
<1>7. first - 1 \in 0..Len(times) /\ first = (first - 1) + 1
  BY <1>1, <1>5
<1> QED
  BY <1>4, <1>6, <1>7

LEMMA RecentTyped ==
  ASSUME NEW times \in Seq(Times), NEW window \in Nat, now \in Times
  PROVE  /\ Recent(times, window) \in Seq(Times)
         /\ Append(Recent(times, window), now) \in Seq(Times)
<1>1. now \in Nat
  BY LimitsTyped DEF Times
<1>2. PICK d \in 0..Len(times) : Recent(times, window) = SubSeq(times, d + 1, Len(times))
  BY <1>1, RecentSuffix
<1>3. SubSeq(times, d + 1, Len(times)) \in Seq(Times)
  BY <1>2
<1> QED
  BY <1>2, <1>3

-----------------------------------------------------------------------------
(* What the variables hold *)

Handlers ==
  [at : {"nothing", "lookup", "paired", "unpaired", "prompt", "persist", "disconnect"},
   challenge : Challenges \cup {NoChallenge}, pairs : BOOLEAN]
Prompts ==
  [conn : Conns, from : Times, to : Times \cup {None}, approved : 0..MaxChallenges]
Pairings ==
  [key : Keys, conn : Conns \cup {None}, id : 0..MaxChallenges, at : Times]

\* Before a challenge, and after one.
Starting == {"lookup", "paired", "unpaired", "prompt"}
Ending == {"persist", "disconnect"}

BasicTypes ==
  /\ now \in Times /\ profile \in [Conns -> Keys]
  /\ calls \in 0..MaxCalls /\ open \subseteq Conns
  /\ role \in [Conns -> {"none", "agent", "browser"}]
  /\ pairingFile \in Keys \cup {None}

ChallengeTypes ==
  /\ browserChallenge \in [Conns -> Challenges \cup {NoChallenge}]
  /\ browserChallengePairsKey \in [Conns -> BOOLEAN]
  /\ made \in [Conns -> 0..MaxChallenges]

\* A handler that may make a challenge has a number left for it, and one that pairs has the
\* challenge it was answered.
HandlerTypes ==
  /\ browserAuthTransitionActive \in [Conns -> BOOLEAN]
  /\ handler \in [Conns -> Handlers]
  /\ \A c \in Conns :
       /\ handler[c].at \in Starting => made[c] < MaxChallenges
       /\ handler[c].at \in Ending => handler[c].challenge \in Challenges
       /\ handler[c].at = "prompt" => prompts # <<>>

AdmissionTypes ==
  /\ pairingAttempts \in [Conns -> Seq(Times)]
  /\ pairingPromptActive \in BOOLEAN /\ lastPairingPromptAt \in Times \cup {None}
  /\ globalPairingAttempts \in Seq(Times)
  /\ prompts \in Seq(Prompts)

HistoryTypes ==
  /\ consumed \in [Conns -> Seq(1..MaxChallenges)]
  /\ proven \in [Conns -> Challenges \cup {NoChallenge}]
  /\ paired \in Seq(Pairings)

TypeInv == BasicTypes /\ ChallengeTypes /\ HandlerTypes /\ AdmissionTypes /\ HistoryTypes

LEMMA TypeMeans ==
  ASSUME TypeInv
  PROVE  TypeOK
<1>1. \A i \in DOMAIN prompts : prompts[i] \in Prompts
  BY DEF TypeInv, AdmissionTypes
<1> QED
  BY <1>1 DEF TypeInv, BasicTypes, ChallengeTypes, HandlerTypes, AdmissionTypes, HistoryTypes,
              TypeOK, Handlers, Prompts

LEMMA TypeInit ==
  ASSUME Init
  PROVE  TypeInv
<1>1. NoChallenge \in Challenges \cup {NoChallenge} /\ Nothing \in Handlers
      /\ Nothing.at = "nothing"
  BY DEF Nothing, Awaiting, Handlers
<1>2. 0 \in Times /\ 0 \in 0..MaxChallenges /\ 0 \in 0..MaxCalls
  BY LimitsTyped DEF Times
<1>3. BasicTypes /\ ChallengeTypes
  BY <1>1, <1>2 DEF Init, BasicTypes, ChallengeTypes
<1>4. HandlerTypes
  BY <1>1 DEF Init, HandlerTypes, Starting, Ending
<1>5. AdmissionTypes
  <2>1. pairingAttempts \in [Conns -> Seq(Times)]
    BY DEF Init
  <2>2. /\ pairingPromptActive = FALSE /\ lastPairingPromptAt = None
        /\ globalPairingAttempts = <<>> /\ prompts = <<>>
    BY DEF Init
  <2>3. <<>> \in Seq(Times) /\ <<>> \in Seq(Prompts)
    OBVIOUS
  <2> QED
    BY <2>1, <2>2, <2>3, Zenon DEF AdmissionTypes
<1>6. paired \in Seq(Pairings)
  <2>1. CASE pairingFile = None
    BY <2>1 DEF Init
  <2>2. CASE pairingFile # None
    <3>1. [key |-> pairingFile, conn |-> None, id |-> 0, at |-> 0] \in Pairings
      BY <1>2, <2>2 DEF Init, Pairings
    <3> QED
      BY <2>2, <3>1 DEF Init
  <2> QED
    BY <2>1, <2>2
<1>7. HistoryTypes
  BY <1>1, <1>6 DEF Init, HistoryTypes
<1> QED
  BY <1>3, <1>4, <1>5, <1>7 DEF TypeInv

\* The challenge a handler makes.
LEMMA ChallengeTyped ==
  ASSUME TypeInv, NEW c \in Conns, NEW pairs \in BOOLEAN, Challenge(c, pairs),
         made[c] < MaxChallenges
  PROVE  ChallengeTypes' /\ made[c] + 1 \in 1..MaxChallenges
<1>1. made[c] \in 0..MaxChallenges /\ MaxChallenges \in Nat /\ now \in Nat
  BY LimitsTyped DEF TypeInv, BasicTypes, ChallengeTypes, Times
<1>2. made[c] + 1 \in 1..MaxChallenges /\ made[c] + 1 \in 0..MaxChallenges
      /\ now + ChallengeTTL \in Nat
  BY <1>1, LimitsTyped
<1>3. [id |-> made[c] + 1, key |-> profile[c], expiresAt |-> now + ChallengeTTL] \in Challenges
  BY <1>2 DEF Challenges, TypeInv, BasicTypes
<1> QED
  BY <1>2, <1>3 DEF TypeInv, ChallengeTypes, Challenge

LEMMA ClearedTyped ==
  ASSUME ChallengeTypes, NEW c \in Conns, ClearChallenge(c), UNCHANGED made
  PROVE  ChallengeTypes'
BY DEF ChallengeTypes, ClearChallenge

\* What a handler awaits next.
LEMMA HandlerTyped ==
  ASSUME HandlerTypes, NEW c \in Conns, NEW to \in Handlers, NEW active \in BOOLEAN,
         handler' = [handler EXCEPT ![c] = to],
         \/ Transition(c, active) \/ UNCHANGED browserAuthTransitionActive,
         \A e \in Conns \ {c} : made'[e] = made[e],
         prompts # <<>> => prompts' # <<>>,
         to.at \in Starting => made'[c] < MaxChallenges,
         to.at \in Ending => to.challenge \in Challenges,
         to.at = "prompt" => prompts' # <<>>
  PROVE  HandlerTypes'
<1>1. browserAuthTransitionActive' \in [Conns -> BOOLEAN] /\ handler' \in [Conns -> Handlers]
  BY DEF HandlerTypes, Transition
<1>2. handler'[c] = to /\ \A e \in Conns \ {c} : handler'[e] = handler[e]
  BY DEF HandlerTypes
<1> QED
  BY <1>1, <1>2 DEF HandlerTypes

LEMMA AwaitTyped ==
  ASSUME NEW at \in {"lookup", "paired", "unpaired", "prompt", "persist", "disconnect"},
         NEW challenge \in Challenges \cup {NoChallenge}, NEW pairs \in BOOLEAN
  PROVE  /\ Awaiting(at, challenge, pairs) \in Handlers
         /\ Awaiting(at, challenge, pairs).at = at
         /\ Awaiting(at, challenge, pairs).challenge = challenge
BY DEF Awaiting, Handlers

LEMMA NothingTyped ==
  Nothing \in Handlers /\ Nothing.at = "nothing" /\ Nothing.at \notin Starting \cup Ending
BY DEF Nothing, Awaiting, Handlers, Starting, Ending

LEMMA CallTypes ==
  ASSUME TypeInv, NEW c \in Conns, BrowserAuthCalls(c)
  PROVE  TypeInv'
<1>1. BasicTypes /\ ChallengeTypes /\ HandlerTypes /\ AdmissionTypes /\ HistoryTypes
  BY DEF TypeInv
<1>2. /\ now \in Times /\ made[c] \in 0..MaxChallenges /\ calls \in 0..MaxCalls
      /\ AttemptWindow \in Nat /\ GlobalWindow \in Nat
      /\ NoChallenge \in Challenges \cup {NoChallenge}
  BY <1>1, LimitsTyped DEF BasicTypes, ChallengeTypes
<1>3. ASSUME calls < MaxCalls /\ calls' = calls + 1,
             UNCHANGED <<now, profile, open, role, pairingFile>>
      PROVE  BasicTypes'
  BY <1>1, <1>2, <1>3, LimitsTyped DEF BasicTypes
<1>4. CASE Start(c)
  <2>1. BasicTypes'
    BY <1>3, <1>4 DEF Start, MayAuthenticate
  <2>2. ChallengeTypes'
    BY <1>1, <1>4, ClearedTyped DEF Start
  <2>3. HandlerTypes'
    <3> DEFINE to == Awaiting("lookup", NoChallenge, FALSE)
    <3>1. to \in Handlers /\ to.at = "lookup"
      BY <1>2, AwaitTyped
    <3>2. /\ handler' = [handler EXCEPT ![c] = to] /\ Transition(c, TRUE)
          /\ made[c] < MaxChallenges /\ UNCHANGED <<made, prompts>>
      BY <1>4 DEF Start, MayAuthenticate, Await, admission
    <3> HIDE DEF to
    <3> QED
      BY <1>1, <3>1, <3>2, HandlerTyped DEF Ending
  <2>4. AdmissionTypes' /\ HistoryTypes'
    BY <1>1, <1>4 DEF Start, admission, history, AdmissionTypes, HistoryTypes
  <2> QED
    BY <2>1, <2>2, <2>3, <2>4 DEF TypeInv
<1>5. CASE PairRefused(c)
  <2>1. BasicTypes'
    BY <1>3, <1>5 DEF PairRefused, MayAuthenticate
  <2>2. ChallengeTypes'
    BY <1>1, <1>5, ClearedTyped DEF PairRefused
  <2>3. HandlerTypes' /\ HistoryTypes'
    BY <1>1, <1>5 DEF PairRefused, history, HandlerTypes, HistoryTypes
  <2>4. AdmissionTypes'
    <3>1. pairingAttempts[c] \in Seq(Times) /\ globalPairingAttempts \in Seq(Times)
      BY <1>1 DEF AdmissionTypes
    <3> DEFINE recent == Recent(pairingAttempts[c], AttemptWindow)
               everywhere == Recent(globalPairingAttempts, GlobalWindow)
    <3>2. recent \in Seq(Times) /\ Append(recent, now) \in Seq(Times) /\ everywhere \in Seq(Times)
      BY <1>2, <3>1, RecentTyped
    <3>3. /\ \E s \in {recent, Append(recent, now)} :
               pairingAttempts' = [pairingAttempts EXCEPT ![c] = s]
          /\ globalPairingAttempts' \in {everywhere, globalPairingAttempts}
          /\ UNCHANGED <<pairingPromptActive, lastPairingPromptAt, prompts>>
      BY <1>5 DEF PairRefused
    <3> HIDE DEF recent, everywhere
    <3> QED
      BY <1>1, <3>1, <3>2, <3>3 DEF AdmissionTypes
  <2> QED
    BY <2>1, <2>2, <2>3, <2>4 DEF TypeInv
<1>6. CASE Pair(c)
  <2> DEFINE shown == [conn |-> c, from |-> now, to |-> None, approved |-> 0]
  <2>1. BasicTypes'
    BY <1>3, <1>6 DEF Pair, MayAuthenticate
  <2>2. ChallengeTypes'
    BY <1>1, <1>6, ClearedTyped DEF Pair
  <2>3. shown \in Prompts
    BY <1>2, LimitsTyped DEF Prompts
  <2>4. prompts' = Append(prompts, shown) /\ prompts \in Seq(Prompts)
    BY <1>1, <1>6 DEF Pair, AdmissionTypes
  <2> HIDE DEF shown
  <2>5. prompts' \in Seq(Prompts) /\ prompts' # <<>>
    BY <2>3, <2>4
  <2>6. HandlerTypes'
    <3> DEFINE to == Awaiting("prompt", NoChallenge, FALSE)
    <3>1. to \in Handlers /\ to.at = "prompt"
      BY <1>2, AwaitTyped
    <3>2. /\ handler' = [handler EXCEPT ![c] = to] /\ Transition(c, TRUE)
          /\ made[c] < MaxChallenges /\ UNCHANGED made
      BY <1>6 DEF Pair, MayAuthenticate, Await
    <3> HIDE DEF to
    <3> QED
      BY <1>1, <2>5, <3>1, <3>2, HandlerTyped DEF Ending
  <2>7. AdmissionTypes'
    <3>1. pairingAttempts[c] \in Seq(Times) /\ globalPairingAttempts \in Seq(Times)
      BY <1>1 DEF AdmissionTypes
    <3> DEFINE recent == Append(Recent(pairingAttempts[c], AttemptWindow), now)
               everywhere == Append(Recent(globalPairingAttempts, GlobalWindow), now)
    <3>2. recent \in Seq(Times) /\ everywhere \in Seq(Times)
      BY <1>2, <3>1, RecentTyped
    <3>3. /\ pairingAttempts' = [pairingAttempts EXCEPT ![c] = recent]
          /\ globalPairingAttempts' = everywhere /\ pairingPromptActive' = TRUE
          /\ UNCHANGED lastPairingPromptAt
      BY <1>6 DEF Pair
    <3> HIDE DEF recent, everywhere
    <3> QED
      BY <1>1, <2>5, <3>2, <3>3 DEF AdmissionTypes
  <2>8. HistoryTypes'
    BY <1>1, <1>6 DEF Pair, history, HistoryTypes
  <2> QED
    BY <2>1, <2>2, <2>6, <2>7, <2>8 DEF TypeInv
<1>7. ASSUME NEW id \in 1..MaxChallenges, NEW proof \in BOOLEAN, Complete(c, id, proof)
      PROVE  TypeInv'
  <2>1. BasicTypes'
    BY <1>3, <1>7 DEF Complete
  <2>2. ChallengeTypes'
    BY <1>1, <1>7, ClearedTyped DEF Complete
  <2>3. browserChallenge[c] \in Challenges \cup {NoChallenge} /\ browserChallengePairsKey[c] \in BOOLEAN
    BY <1>1 DEF ChallengeTypes
  <2>4. browserChallenge[c] \in Challenges
    BY <1>2, <1>7, <2>3, LimitsTyped DEF Complete, Completes, NoChallenge
  <2>5. HandlerTypes'
    <3>1. CASE UNCHANGED <<handler, browserAuthTransitionActive>>
      BY <1>1, <1>7, <3>1 DEF Complete, HandlerTypes, admission
    <3>2. CASE ~UNCHANGED <<handler, browserAuthTransitionActive>>
      <4>1. PICK at \in {"persist", "disconnect"} :
              /\ Transition(c, TRUE)
              /\ handler' = [handler EXCEPT ![c] =
                   Awaiting(at, browserChallenge[c], browserChallengePairsKey[c])]
        BY <1>7, <3>2 DEF Complete, Await
      <4> DEFINE to == Awaiting(at, browserChallenge[c], browserChallengePairsKey[c])
      <4>2. to \in Handlers /\ to.at = at /\ to.challenge = browserChallenge[c]
        <5>1. at \in {"lookup", "paired", "unpaired", "prompt", "persist", "disconnect"}
          OBVIOUS
        <5> QED
          BY <2>3, <5>1, AwaitTyped
      <4>3. UNCHANGED <<made, prompts>>
        BY <1>7 DEF Complete, admission
      <4> HIDE DEF to
      <4> QED
        BY <1>1, <2>4, <4>1, <4>2, <4>3, HandlerTyped DEF Starting, to
    <3> QED
      BY <3>1, <3>2
  <2>6. AdmissionTypes'
    BY <1>1, <1>7 DEF Complete, admission, AdmissionTypes
  <2>7. HistoryTypes'
    <3>1. consumed' = [consumed EXCEPT ![c] = Append(@, id)] /\ UNCHANGED paired
      BY <1>7 DEF Complete
    <3>2. proven' = proven \/ proven' = [proven EXCEPT ![c] = browserChallenge[c]]
      BY <1>7 DEF Complete
    <3>3. Append(consumed[c], id) \in Seq(1..MaxChallenges)
      BY <1>1 DEF HistoryTypes
    <3> QED
      BY <1>1, <2>3, <3>1, <3>2, <3>3 DEF HistoryTypes
  <2> QED
    BY <2>1, <2>2, <2>5, <2>6, <2>7 DEF TypeInv
<1> QED
  BY <1>4, <1>5, <1>6, <1>7 DEF BrowserAuthCalls

LEMMA HandlerStepTypes ==
  ASSUME TypeInv, NEW c \in Conns, HandlerStep(c)
  PROVE  TypeInv'
<1>1. BasicTypes /\ ChallengeTypes /\ HandlerTypes /\ AdmissionTypes /\ HistoryTypes
  BY DEF TypeInv
<1>2. /\ now \in Times /\ made[c] \in 0..MaxChallenges /\ handler[c] \in Handlers
      /\ NoChallenge \in Challenges \cup {NoChallenge}
  BY <1>1 DEF BasicTypes, ChallengeTypes, HandlerTypes
<1>3. CASE StartReads(c)
  <2>1. BasicTypes' /\ ChallengeTypes' /\ AdmissionTypes' /\ HistoryTypes'
    BY <1>1, <1>3 DEF StartReads, BasicTypes, ChallengeTypes, AdmissionTypes, HistoryTypes,
                      admission, history
  <2>2. PICK at \in {"paired", "unpaired"} :
          handler' = [handler EXCEPT ![c] = Awaiting(at, NoChallenge, FALSE)]
    BY <1>3 DEF StartReads, Await
  <2> DEFINE to == Awaiting(at, NoChallenge, FALSE)
  <2>3. to \in Handlers /\ to.at = at
    <3>1. at \in {"lookup", "paired", "unpaired", "prompt", "persist", "disconnect"}
      OBVIOUS
    <3> QED
      BY <1>2, <3>1 DEF Awaiting, Handlers
  <2>4. /\ handler' = [handler EXCEPT ![c] = to]
        /\ UNCHANGED <<made, prompts, browserAuthTransitionActive>> /\ handler[c].at = "lookup"
    BY <1>3, <2>2 DEF StartReads, admission
  <2>5. made[c] < MaxChallenges
    BY <1>1, <2>4 DEF HandlerTypes, Starting
  <2> HIDE DEF to
  <2>6. HandlerTypes'
    BY <1>1, <2>3, <2>4, <2>5, HandlerTyped DEF Ending
  <2> QED
    BY <2>1, <2>6 DEF TypeInv
<1>4. CASE StartEnds(c)
  <2>1. /\ handler' = [handler EXCEPT ![c] = Nothing] /\ Transition(c, FALSE)
        /\ handler[c].at \in Starting /\ UNCHANGED prompts
    BY <1>4 DEF StartEnds, Ended, Starting, admission
  <2>2. made[c] < MaxChallenges
    BY <1>1, <2>1 DEF HandlerTypes
  <2>3. ChallengeTypes'
    <3>1. CASE Challenge(c, FALSE)
      BY <2>2, <3>1, ChallengeTyped
    <3>2. CASE NoChallengeMade
      BY <1>1, <3>2 DEF NoChallengeMade, ChallengeTypes
    <3> QED
      BY <1>4, <3>1, <3>2 DEF StartEnds
  <2>4. \A e \in Conns \ {c} : made'[e] = made[e]
    BY <1>1, <1>4 DEF StartEnds, Challenge, NoChallengeMade, ChallengeTypes
  <2>5. HandlerTypes'
    BY <1>1, <2>1, <2>4, HandlerTyped, NothingTyped
  <2>6. BasicTypes' /\ AdmissionTypes' /\ HistoryTypes'
    BY <1>1, <1>4 DEF StartEnds, BasicTypes, AdmissionTypes, HistoryTypes, admission, history
  <2> QED
    BY <2>3, <2>5, <2>6 DEF TypeInv
<1>5. ASSUME NEW approved \in BOOLEAN, PromptEnds(c, approved) PROVE TypeInv'
  <2>1. /\ handler' = [handler EXCEPT ![c] = Nothing] /\ Transition(c, FALSE)
        /\ handler[c].at = "prompt"
    BY <1>5 DEF PromptEnds, Ended
  <2>2. made[c] < MaxChallenges /\ prompts # <<>> /\ prompts \in Seq(Prompts)
    BY <1>1, <2>1 DEF HandlerTypes, Starting, AdmissionTypes
  <2>3. ChallengeTypes'
    <3>1. CASE approved
      BY <1>5, <2>2, <3>1, ChallengeTyped DEF PromptEnds
    <3>2. CASE ~approved
      BY <1>1, <1>5, <3>2 DEF PromptEnds, NoChallengeMade, ChallengeTypes
    <3> QED
      BY <3>1, <3>2
  <2>4. \A e \in Conns \ {c} : made'[e] = made[e]
    BY <1>1, <1>5 DEF PromptEnds, Challenge, NoChallengeMade, ChallengeTypes
  <2> DEFINE m == Len(prompts)
             ended == [prompts[m] EXCEPT !.to = now, !.approved = IF approved THEN made[c] + 1 ELSE 0]
  <2>5. prompts' = [prompts EXCEPT ![m] = ended]
    BY <1>5 DEF PromptEnds
  <2>6. ended \in Prompts
    <3>1. prompts[m] \in Prompts
      BY <2>2
    <3>2. (IF approved THEN made[c] + 1 ELSE 0) \in 0..MaxChallenges
      BY <1>2, <2>2, LimitsTyped
    <3> QED
      BY <1>2, <3>1, <3>2 DEF Prompts
  <2> HIDE DEF ended
  <2>7. prompts' \in Seq(Prompts) /\ prompts' # <<>>
    BY <2>2, <2>5, <2>6
  <2>8. HandlerTypes'
    BY <1>1, <2>1, <2>4, <2>7, HandlerTyped, NothingTyped
  <2>9. AdmissionTypes'
    BY <1>1, <1>2, <1>5, <2>7 DEF PromptEnds, PromptOver, PromptDismissedAt, AdmissionTypes
  <2>10. BasicTypes' /\ HistoryTypes'
    BY <1>1, <1>5 DEF PromptEnds, BasicTypes, HistoryTypes, history
  <2> QED
    BY <2>3, <2>8, <2>9, <2>10 DEF TypeInv
<1>6. ASSUME NEW renamed \in BOOLEAN, NEW written \in BOOLEAN, PersistEnds(c, renamed, written)
      PROVE  TypeInv'
  <2>1. handler[c].at = "persist" /\ UNCHANGED <<made, prompts>>
    BY <1>6 DEF PersistEnds, admission
  <2>2. handler[c].challenge \in Challenges
    BY <1>1, <2>1 DEF HandlerTypes, Ending
  <2>3. handler[c].challenge.key \in Keys /\ handler[c].challenge.id \in 0..MaxChallenges
    <3>1. \A x \in 1..MaxChallenges : x \in 0..MaxChallenges
      BY LimitsTyped
    <3> QED
      BY <2>2, <3>1 DEF Challenges
  <2> DEFINE new == [key |-> handler[c].challenge.key, conn |-> c,
                     id |-> handler[c].challenge.id, at |-> now]
  <2>4. new \in Pairings
    BY <1>2, <2>3 DEF Pairings
  <2>5. \/ UNCHANGED <<pairingFile, paired>>
        \/ pairingFile' = handler[c].challenge.key /\ paired' = Append(paired, new)
    BY <1>6 DEF PersistEnds
  <2> HIDE DEF new
  <2>6. HistoryTypes'
    <3>1. UNCHANGED <<consumed, proven>>
      BY <1>6 DEF PersistEnds
    <3>2. paired' \in Seq(Pairings)
      <4>1. paired \in Seq(Pairings)
        BY <1>1 DEF HistoryTypes
      <4> QED
        BY <2>4, <2>5, <4>1
    <3> QED
      BY <1>1, <3>1, <3>2 DEF HistoryTypes
  <2>7. BasicTypes' /\ ChallengeTypes' /\ AdmissionTypes'
    BY <1>1, <1>6, <2>3, <2>5 DEF PersistEnds, BasicTypes, ChallengeTypes, AdmissionTypes, admission
  <2>8. HandlerTypes'
    <3>1. CASE written
      <4> DEFINE to == Awaiting("disconnect", handler[c].challenge, TRUE)
      <4>1. to \in Handlers /\ to.at = "disconnect" /\ to.challenge = handler[c].challenge
        BY <2>2, AwaitTyped
      <4>2. handler' = [handler EXCEPT ![c] = to] /\ UNCHANGED browserAuthTransitionActive
        BY <1>6, <3>1 DEF PersistEnds, AfterPersisting, Await
      <4> HIDE DEF to
      <4> QED
        BY <1>1, <2>1, <2>2, <4>1, <4>2, HandlerTyped DEF Starting
    <3>2. CASE ~written
      <4>1. handler' = [handler EXCEPT ![c] = Nothing] /\ Transition(c, FALSE)
        BY <1>6, <3>2 DEF PersistEnds, AfterPersisting, Ended
      <4> QED
        BY <1>1, <2>1, <4>1, HandlerTyped, NothingTyped
    <3> QED
      BY <3>1, <3>2
  <2> QED
    BY <2>6, <2>7, <2>8 DEF TypeInv
<1>7. ASSUME NEW ok \in BOOLEAN, UpgradeEnds(c, ok) PROVE TypeInv'
  <2>1. /\ handler' = [handler EXCEPT ![c] = Nothing] /\ Transition(c, FALSE)
        /\ UNCHANGED <<made, prompts>>
    BY <1>7 DEF UpgradeEnds, Ended, admission
  <2>2. HandlerTypes'
    BY <1>1, <2>1, HandlerTyped, NothingTyped
  <2>3. BasicTypes' /\ ChallengeTypes' /\ AdmissionTypes' /\ HistoryTypes'
    BY <1>1, <1>7 DEF UpgradeEnds, BasicTypes, ChallengeTypes, AdmissionTypes, HistoryTypes,
                      admission, history
  <2> QED
    BY <2>2, <2>3 DEF TypeInv
<1> QED
  BY <1>3, <1>4, <1>5, <1>6, <1>7 DEF HandlerStep

LEMMA TypeStep ==
  ASSUME TypeInv, [Next]_vars
  PROVE  TypeInv'
<1>1. CASE Tick
  BY <1>1, LimitsTyped DEF Tick, authentication, admission, history, TypeInv, BasicTypes, Times,
                           ChallengeTypes, HandlerTypes, AdmissionTypes, HistoryTypes
<1>2. ASSUME NEW c \in Conns, Hello(c) \/ Close(c) PROVE TypeInv'
  BY <1>2 DEF Hello, Close, authentication, admission, history, TypeInv, BasicTypes,
              ChallengeTypes, HandlerTypes, AdmissionTypes, HistoryTypes
<1>3. CASE UNCHANGED vars
  BY <1>3 DEF vars, authentication, admission, history, TypeInv, BasicTypes,
              ChallengeTypes, HandlerTypes, AdmissionTypes, HistoryTypes
<1> QED
  BY <1>1, <1>2, <1>3, CallTypes, HandlerStepTypes DEF Next

LEMMA TypeInvariant == Spec => []TypeInv
BY TypeInit, TypeStep, PTL DEF Spec

\* Every variable keeps its type: a challenge has a number, and what is written to the file
\* is a key.
THEOREM PairingTypes == Spec => []TypeOK
BY TypeInvariant, TypeMeans, PTL

-----------------------------------------------------------------------------
(* Prompts *)

\* The attempts that are remembered are the last prompts that were shown, and the window is
\* over for the prompts that are not.
Counted(attempts, shown, at) ==
  /\ Len(attempts) <= Len(shown)
  /\ \A k \in 1..Len(attempts) : attempts[k] = shown[Len(shown) - Len(attempts) + k].from
  /\ \A i \in 1..(Len(shown) - Len(attempts)) : shown[i].from + GlobalWindow <= at

\* Only the last prompt may be open, its handler waits for it, and the cooldown is measured
\* from the end of the last one that is not.
PromptInv ==
  /\ \A i \in DOMAIN prompts :
       prompts[i].to = None <=> pairingPromptActive /\ i = Len(prompts)
  /\ \A c \in Conns : handler[c].at = "prompt" => prompts[Len(prompts)].conn = c
  /\ ~pairingPromptActive /\ prompts # <<>> => lastPairingPromptAt = prompts[Len(prompts)].to
  /\ \A i \in DOMAIN prompts :
       /\ prompts[i].from <= now
       /\ prompts[i].to # None => prompts[i].from <= prompts[i].to /\ prompts[i].to <= now
  /\ PromptsSpaced
  /\ Counted(globalPairingAttempts, prompts, now)

LEMMA CountedRecent ==
  ASSUME TypeInv, Counted(globalPairingAttempts, prompts, now)
  PROVE  Counted(Recent(globalPairingAttempts, GlobalWindow), prompts, now)
<1> DEFINE times == globalPairingAttempts
           n == Len(times)
           m == Len(prompts)
<1>1. times \in Seq(Times) /\ prompts \in Seq(Prompts) /\ GlobalWindow \in Nat /\ now \in Nat
  BY LimitsTyped DEF TypeInv, BasicTypes, AdmissionTypes, Times
<1>2. PICK d \in 0..n :
        /\ Recent(times, GlobalWindow) = SubSeq(times, d + 1, n)
        /\ \A i \in 1..d : times[i] + GlobalWindow <= now
  BY <1>1, RecentSuffix
<1>3. n \in Nat /\ m \in Nat /\ n <= m /\ d \in Nat /\ d <= n
  BY <1>1 DEF Counted
<1> DEFINE rest == SubSeq(times, d + 1, n)
<1>4. Len(rest) = n - d /\ \A k \in 1..(n - d) : rest[k] = times[d + k]
  BY <1>1, <1>3
<1>5. \A k \in 1..n : times[k] = prompts[m - n + k].from
  BY DEF Counted
<1>6. ASSUME NEW k \in 1..(n - d) PROVE rest[k] = prompts[m - (n - d) + k].from
  <2>1. d + k \in 1..n /\ m - n + (d + k) = m - (n - d) + k
    BY <1>3
  <2> QED
    BY <1>4, <1>5, <2>1
<1>7. ASSUME NEW i \in 1..(m - (n - d)) PROVE prompts[i].from + GlobalWindow <= now
  <2>1. CASE i <= m - n
    <3>1. i \in 1..(m - n)
      BY <1>3, <2>1
    <3> QED
      BY <3>1 DEF Counted
  <2>2. CASE i > m - n
    <3>1. i - (m - n) \in 1..d /\ i - (m - n) \in 1..n /\ m - n + (i - (m - n)) = i
      BY <1>3, <2>2
    <3> QED
      BY <1>2, <1>5, <3>1
  <2> QED
    BY <1>3, <2>1, <2>2
<1>8. n - d <= m
  BY <1>3
<1> QED
  BY <1>2, <1>4, <1>6, <1>7, <1>8 DEF Counted

LEMMA CountedNext ==
  ASSUME NEW attempts \in Seq(Times), NEW shown \in Seq(Prompts), NEW at \in Times,
         Counted(attempts, shown, at), NEW prompt \in Prompts, prompt.from = at
  PROVE  Counted(Append(attempts, at), Append(shown, prompt), at)
<1> DEFINE n == Len(attempts)
           m == Len(shown)
           more == Append(attempts, at)
           all == Append(shown, prompt)
<1>1. n \in Nat /\ m \in Nat /\ n <= m
  BY DEF Counted
<1>2. /\ Len(more) = n + 1 /\ Len(all) = m + 1
      /\ \A k \in 1..n : more[k] = attempts[k]
      /\ \A i \in 1..m : all[i] = shown[i]
      /\ more[n + 1] = at /\ all[m + 1] = prompt
  BY <1>1
<1>3. ASSUME NEW k \in 1..(n + 1) PROVE more[k] = all[(m + 1) - (n + 1) + k].from
  <2>1. CASE k = n + 1
    <3>1. (m + 1) - (n + 1) + k = m + 1
      BY <1>1, <2>1
    <3> QED
      BY <1>2, <2>1, <3>1
  <2>2. CASE k # n + 1
    <3>1. k \in 1..n /\ (m + 1) - (n + 1) + k = m - n + k /\ m - n + k \in 1..m
      BY <1>1, <2>2
    <3>2. attempts[k] = shown[m - n + k].from
      BY <3>1 DEF Counted
    <3> QED
      BY <1>2, <3>1, <3>2
  <2> QED
    BY <2>1, <2>2
<1>4. ASSUME NEW i \in 1..((m + 1) - (n + 1)) PROVE all[i].from + GlobalWindow <= at
  <2>1. i \in 1..(m - n) /\ i \in 1..m
    BY <1>1
  <2> QED
    BY <1>2, <2>1 DEF Counted
<1> HIDE DEF more, all
<1>5. n + 1 <= m + 1
  BY <1>1
<1> QED
  BY <1>2, <1>3, <1>4, <1>5 DEF Counted, more, all

LEMMA PromptQuiet ==
  ASSUME TypeInv, TypeInv', PromptInv, now <= now',
         UNCHANGED <<prompts, pairingPromptActive, lastPairingPromptAt>>,
         \A c \in Conns : handler'[c].at = "prompt" => handler[c].at = "prompt",
         Counted(globalPairingAttempts', prompts, now)
  PROVE  PromptInv'
<1>1. /\ prompts \in Seq(Prompts) /\ now \in Nat /\ now' \in Nat /\ GlobalWindow \in Nat
      /\ globalPairingAttempts' \in Seq(Times)
  BY LimitsTyped DEF TypeInv, BasicTypes, AdmissionTypes, Times
<1>2. \A i \in DOMAIN prompts :
        /\ prompts[i].from \in Nat
        /\ prompts[i].to # None => prompts[i].to \in Nat
  <2>1. \A i \in DOMAIN prompts : prompts[i] \in Prompts
    BY <1>1
  <2> QED
    BY <2>1, LimitsTyped DEF Prompts, Times
<1>3. Counted(globalPairingAttempts', prompts, now')
  <2>1. \A i \in 1..(Len(prompts) - Len(globalPairingAttempts')) : i \in DOMAIN prompts
    BY <1>1
  <2> QED
    BY <1>1, <1>2, <2>1 DEF Counted
<1>4. \A i \in DOMAIN prompts :
        /\ prompts[i].from <= now'
        /\ prompts[i].to # None => prompts[i].from <= prompts[i].to /\ prompts[i].to <= now'
  BY <1>1, <1>2 DEF PromptInv
<1> QED
  BY <1>3, <1>4 DEF PromptInv, PromptsSpaced

LEMMA PromptShown ==
  ASSUME TypeInv, TypeInv', BusyInv, PromptInv, NEW c \in Conns, Pair(c)
  PROVE  PromptInv'
<1> DEFINE shown == [conn |-> c, from |-> now, to |-> None, approved |-> 0]
           m == Len(prompts)
           everywhere == Recent(globalPairingAttempts, GlobalWindow)
<1>1. /\ prompts \in Seq(Prompts) /\ globalPairingAttempts \in Seq(Times)
      /\ now \in Times /\ now \in Nat /\ m \in Nat
      /\ GlobalWindow \in Nat /\ GlobalAttempts \in Nat /\ PromptCooldown \in Nat
      /\ None \notin Nat
  BY LimitsTyped DEF TypeInv, BasicTypes, AdmissionTypes, Times
<1>2. shown \in Prompts /\ shown.conn = c /\ shown.from = now /\ shown.to = None
  BY <1>1, LimitsTyped DEF Prompts
<1>3. /\ prompts' = Append(prompts, shown) /\ now' = now
      /\ ~pairingPromptActive /\ pairingPromptActive' = TRUE
      /\ ~Cooling /\ UNCHANGED lastPairingPromptAt
      /\ Len(everywhere) < GlobalAttempts
      /\ globalPairingAttempts' = Append(everywhere, now)
  BY DEF Pair
<1> HIDE DEF shown
<1>4. /\ Len(prompts') = m + 1 /\ DOMAIN prompts' = 1..(m + 1) /\ DOMAIN prompts = 1..m
      /\ prompts'[m + 1] = shown /\ \A i \in 1..m : prompts'[i] = prompts[i]
  BY <1>1, <1>2, <1>3
<1>5. \A i \in 1..m : prompts[i].from \in Nat /\ prompts[i].to \in Nat
  <2>1. \A i \in 1..m : prompts[i] \in Prompts /\ prompts[i].to # None
    BY <1>1, <1>3, <1>4 DEF PromptInv
  <2> QED
    BY <2>1, LimitsTyped DEF Prompts, Times
<1>6. everywhere \in Seq(Times) /\ Counted(everywhere, prompts, now)
  BY <1>1, RecentTyped, CountedRecent DEF PromptInv
<1>7. Counted(globalPairingAttempts', prompts', now')
  BY <1>1, <1>2, <1>3, <1>6, CountedNext
<1>8. \A e \in Conns : handler'[e].at = "prompt" => e = c
  <2>1. \A e \in Conns : handler[e].at # "prompt"
    BY <1>3 DEF BusyInv, OnePrompt
  <2>2. \A e \in Conns \ {c} : handler'[e] = handler[e]
    BY DEF Pair, Await, TypeInv, HandlerTypes
  <2> QED
    BY <2>1, <2>2
<1>9. ASSUME NEW i \in 1..m
      PROVE  /\ now - prompts[i].to >= PromptCooldown
             /\ m + 1 - i >= GlobalAttempts => now - prompts[i].from >= GlobalWindow
  <2>1. now - prompts[m].to >= PromptCooldown
    <3>1. lastPairingPromptAt = prompts[m].to
      BY <1>1, <1>3 DEF PromptInv
    <3>2. prompts[m].to \in Nat
      BY <1>1, <1>5
    <3> QED
      BY <1>1, <1>3, <3>1, <3>2 DEF Cooling
  <2>2. now - prompts[i].to >= PromptCooldown
    <3>1. CASE i = m
      BY <2>1, <3>1
    <3>2. CASE i # m
      <4>1. i < m /\ m \in 1..m
        BY <1>1, <3>2
      <4>2. prompts[m].from - prompts[i].to >= PromptCooldown /\ prompts[m].from <= now
        BY <1>4, <4>1 DEF PromptInv, PromptsSpaced
      <4> QED
        BY <1>1, <1>5, <4>1, <4>2
    <3> QED
      BY <3>1, <3>2
  <2>3. ASSUME m + 1 - i >= GlobalAttempts PROVE now - prompts[i].from >= GlobalWindow
    <3>1. Len(everywhere) \in Nat /\ Len(everywhere) < GlobalAttempts
      BY <1>3, <1>6
    <3>2. i \in 1..(m - Len(everywhere))
      BY <1>1, <2>3, <3>1
    <3>3. prompts[i].from + GlobalWindow <= now
      BY <1>6, <3>2 DEF Counted
    <3> QED
      BY <1>1, <1>5, <3>3
  <2> QED
    BY <2>2, <2>3
<1>10. PromptsSpaced'
  <2> SUFFICES ASSUME NEW i \in 1..(m + 1), NEW j \in 1..(m + 1), i < j
               PROVE  /\ prompts'[i].to # None
                      /\ prompts'[j].from - prompts'[i].to >= PromptCooldown
                      /\ j - i >= GlobalAttempts =>
                           prompts'[j].from - prompts'[i].from >= GlobalWindow
    BY <1>4 DEF PromptsSpaced
  <2>1. i \in 1..m /\ prompts'[i] = prompts[i] /\ prompts[i].to # None
    BY <1>1, <1>4, <1>5
  <2>2. CASE j = m + 1
    BY <1>2, <1>4, <1>9, <2>1, <2>2
  <2>3. CASE j # m + 1
    <3>1. j \in 1..m /\ prompts'[j] = prompts[j]
      BY <1>1, <1>4, <2>3
    <3> QED
      BY <1>4, <2>1, <3>1 DEF PromptInv, PromptsSpaced
  <2> QED
    BY <2>2, <2>3
<1>11. \A i \in DOMAIN prompts' : prompts'[i].to = None <=> i = m + 1
  <2> TAKE i \in DOMAIN prompts'
  <2>1. i \in 1..(m + 1)
    BY <1>4
  <2>2. CASE i = m + 1
    BY <1>2, <1>4, <2>2
  <2>3. CASE i # m + 1
    <3>1. i \in 1..m /\ prompts'[i] = prompts[i]
      BY <1>1, <1>4, <2>1, <2>3
    <3> QED
      BY <1>1, <1>5, <2>3, <3>1
  <2> QED
    BY <2>2, <2>3
<1>12. \A i \in DOMAIN prompts' :
         /\ prompts'[i].from <= now'
         /\ prompts'[i].to # None =>
              prompts'[i].from <= prompts'[i].to /\ prompts'[i].to <= now'
  <2> TAKE i \in DOMAIN prompts'
  <2>1. CASE i = m + 1
    BY <1>1, <1>2, <1>3, <1>4, <2>1
  <2>2. CASE i # m + 1
    <3>1. i \in 1..m /\ prompts'[i] = prompts[i]
      BY <1>1, <1>4, <2>2
    <3> QED
      BY <1>3, <1>4, <3>1 DEF PromptInv
  <2> QED
    BY <2>1, <2>2
<1>13. \A e \in Conns : handler'[e].at = "prompt" => prompts'[Len(prompts')].conn = e
  BY <1>2, <1>4, <1>8
<1> QED
  BY <1>3, <1>4, <1>7, <1>10, <1>11, <1>12, <1>13 DEF PromptInv

LEMMA PromptAnswered ==
  ASSUME TypeInv, TypeInv', BusyInv, PromptInv, NEW c \in Conns, NEW approved \in BOOLEAN,
         PromptEnds(c, approved)
  PROVE  PromptInv'
<1> DEFINE m == Len(prompts)
           ended == [prompts[m] EXCEPT !.to = now, !.approved = IF approved THEN made[c] + 1 ELSE 0]
<1>1. /\ prompts \in Seq(Prompts) /\ globalPairingAttempts \in Seq(Times)
      /\ now \in Nat /\ m \in Nat
      /\ GlobalWindow \in Nat /\ GlobalAttempts \in Nat /\ PromptCooldown \in Nat
      /\ None \notin Nat
  BY LimitsTyped DEF TypeInv, BasicTypes, AdmissionTypes, Times
<1>2. /\ handler[c].at = "prompt" /\ pairingPromptActive' = FALSE
      /\ lastPairingPromptAt' = now /\ now' = now
      /\ prompts' = [prompts EXCEPT ![m] = ended]
      /\ handler' = [handler EXCEPT ![c] = Nothing] /\ UNCHANGED globalPairingAttempts
  BY DEF PromptEnds, PromptOver, PromptDismissedAt, Ended
<1>3. pairingPromptActive /\ prompts # <<>>
  BY <1>2 DEF BusyInv, OnePrompt, TypeInv, HandlerTypes
<1>4. m \in 1..m /\ DOMAIN prompts = 1..m
  BY <1>1, <1>3
<1>5. ended.conn = prompts[m].conn /\ ended.from = prompts[m].from /\ ended.to = now
  <2>1. prompts[m] \in Prompts
    BY <1>1, <1>4
  <2> QED
    BY <2>1 DEF Prompts
<1> HIDE DEF ended
<1>6. /\ Len(prompts') = m /\ DOMAIN prompts' = 1..m
      /\ prompts'[m] = ended /\ \A i \in 1..m : i # m => prompts'[i] = prompts[i]
  <2>1. DOMAIN prompts' = DOMAIN prompts /\ prompts' \in Seq(Prompts)
    BY <1>2 DEF TypeInv, AdmissionTypes
  <2>2. Len(prompts') = m
    BY <1>1, <2>1
  <2> QED
    BY <1>2, <1>4, <2>1, <2>2
<1>7. \A i \in 1..m : prompts'[i].from = prompts[i].from
  BY <1>5, <1>6
<1>8. \A i \in 1..m : i # m => prompts[i].to # None
  BY <1>4 DEF PromptInv
<1>9. \A i \in DOMAIN prompts' : prompts'[i].to # None
  BY <1>1, <1>5, <1>6, <1>8
<1>10. PromptsSpaced'
  <2> SUFFICES ASSUME NEW i \in 1..m, NEW j \in 1..m, i < j
               PROVE  /\ prompts'[i].to # None
                      /\ prompts'[j].from - prompts'[i].to >= PromptCooldown
                      /\ j - i >= GlobalAttempts =>
                           prompts'[j].from - prompts'[i].from >= GlobalWindow
    BY <1>6 DEF PromptsSpaced
  <2>1. i # m
    BY <1>1
  <2> QED
    BY <1>4, <1>6, <1>7, <2>1 DEF PromptInv, PromptsSpaced
<1>11. \A i \in DOMAIN prompts' :
         /\ prompts'[i].from <= now'
         /\ prompts'[i].to # None =>
              prompts'[i].from <= prompts'[i].to /\ prompts'[i].to <= now'
  <2> TAKE i \in DOMAIN prompts'
  <2>1. CASE i = m
    <3>1. prompts[m].from <= now /\ now <= now
      BY <1>1, <1>4 DEF PromptInv
    <3> QED
      BY <1>2, <1>5, <1>6, <2>1, <3>1
  <2>2. CASE i # m
    BY <1>2, <1>4, <1>6, <2>2 DEF PromptInv
  <2> QED
    BY <2>1, <2>2
<1>12. \A e \in Conns : handler'[e].at # "prompt"
  <2>1. \A e \in Conns : handler'[e] = IF e = c THEN Nothing ELSE handler[e]
    BY <1>2 DEF TypeInv, HandlerTypes
  <2> QED
    BY <1>2, <2>1, NothingTyped DEF BusyInv, OnePrompt
<1>13. Counted(globalPairingAttempts', prompts', now')
  <2>1. Counted(globalPairingAttempts, prompts, now) /\ Len(globalPairingAttempts) \in Nat
    BY <1>1 DEF PromptInv
  <2>2. \A k \in 1..Len(globalPairingAttempts) : m - Len(globalPairingAttempts) + k \in 1..m
    BY <1>1, <2>1 DEF Counted
  <2>3. \A i \in 1..(m - Len(globalPairingAttempts)) : i \in 1..m
    BY <1>1, <2>1
  <2> QED
    BY <1>2, <1>6, <1>7, <2>1, <2>2, <2>3 DEF Counted
<1> QED
  BY <1>2, <1>5, <1>6, <1>9, <1>10, <1>11, <1>12, <1>13 DEF PromptInv

\* The steps that show no prompt and answer none.
LEMMA PromptRest ==
  ASSUME TypeInv, PromptInv, [Next]_vars,
         \A c \in Conns : ~Pair(c) /\ \A approved \in BOOLEAN : ~PromptEnds(c, approved)
  PROVE  /\ now <= now' /\ UNCHANGED <<prompts, pairingPromptActive, lastPairingPromptAt>>
         /\ \A c \in Conns : handler'[c].at = "prompt" => handler[c].at = "prompt"
         /\ Counted(globalPairingAttempts', prompts, now)
<1> DEFINE Rest == /\ now <= now'
                   /\ UNCHANGED <<prompts, pairingPromptActive, lastPairingPromptAt>>
                   /\ \A c \in Conns : handler'[c].at = "prompt" => handler[c].at = "prompt"
                   /\ Counted(globalPairingAttempts', prompts, now)
<1>1. now \in Nat /\ handler \in [Conns -> Handlers]
      /\ Counted(globalPairingAttempts, prompts, now)
  BY LimitsTyped DEF TypeInv, BasicTypes, HandlerTypes, Times, PromptInv
<1>2. ASSUME UNCHANGED <<now, handler, admission>> PROVE Rest
  BY <1>1, <1>2 DEF admission
<1>3. ASSUME UNCHANGED <<now, admission>>, NEW c \in Conns, NEW to,
             handler' = [handler EXCEPT ![c] = to], to.at # "prompt"
      PROVE  Rest
  <2>1. \A e \in Conns : handler'[e] = IF e = c THEN to ELSE handler[e]
    BY <1>1, <1>3
  <2> QED
    BY <1>1, <1>3, <2>1 DEF admission
<1>4. CASE Tick
  BY <1>1, <1>4 DEF Tick, authentication, admission
<1>5. CASE UNCHANGED vars
  BY <1>2, <1>5 DEF vars, authentication
<1>6. ASSUME NEW c \in Conns, Hello(c) \/ Close(c) PROVE Rest
  BY <1>2, <1>6 DEF Hello, Close, authentication
<1>7. ASSUME NEW c \in Conns, Start(c) PROVE Rest
  <2>1. Awaiting("lookup", NoChallenge, FALSE).at = "lookup"
    BY DEF Awaiting
  <2> QED
    BY <1>3, <1>7, <2>1 DEF Start, Await
<1>8. ASSUME NEW c \in Conns, PairRefused(c) PROVE Rest
  <2>1. globalPairingAttempts' \in {Recent(globalPairingAttempts, GlobalWindow), globalPairingAttempts}
    BY <1>8 DEF PairRefused
  <2>2. Counted(globalPairingAttempts', prompts, now)
    BY <1>1, <2>1, CountedRecent
  <2> QED
    BY <1>1, <1>8, <2>2 DEF PairRefused
<1>9. ASSUME NEW c \in Conns, NEW id, NEW proof, Complete(c, id, proof) PROVE Rest
  <2>1. CASE UNCHANGED handler
    BY <1>2, <1>9, <2>1 DEF Complete
  <2>2. CASE ~UNCHANGED handler
    <3>1. PICK at \in {"persist", "disconnect"} :
            handler' = [handler EXCEPT ![c] =
              Awaiting(at, browserChallenge[c], browserChallengePairsKey[c])]
      BY <1>9, <2>2 DEF Complete, Await
    <3>2. Awaiting(at, browserChallenge[c], browserChallengePairsKey[c]).at # "prompt"
      BY DEF Awaiting
    <3> QED
      BY <1>3, <1>9, <3>1, <3>2 DEF Complete
  <2> QED
    BY <2>1, <2>2
<1>10. ASSUME NEW c \in Conns, StartReads(c) PROVE Rest
  <2>1. PICK at \in {"paired", "unpaired"} :
          handler' = [handler EXCEPT ![c] = Awaiting(at, NoChallenge, FALSE)]
    BY <1>10 DEF StartReads, Await
  <2>2. Awaiting(at, NoChallenge, FALSE).at # "prompt"
    BY DEF Awaiting
  <2> QED
    BY <1>3, <1>10, <2>1, <2>2 DEF StartReads
<1>11. ASSUME NEW c \in Conns, StartEnds(c) PROVE Rest
  BY <1>3, <1>11, NothingTyped DEF StartEnds, Ended
<1>12. ASSUME NEW c \in Conns, NEW renamed, NEW written, PersistEnds(c, renamed, written) PROVE Rest
  <2>1. PICK to \in {Awaiting("disconnect", handler[c].challenge, TRUE), Nothing} :
          handler' = [handler EXCEPT ![c] = to]
    BY <1>12 DEF PersistEnds, AfterPersisting, Await, Ended
  <2>2. to.at # "prompt"
    BY NothingTyped DEF Awaiting
  <2> QED
    BY <1>3, <1>12, <2>1, <2>2 DEF PersistEnds
<1>13. ASSUME NEW c \in Conns, NEW ok, UpgradeEnds(c, ok) PROVE Rest
  BY <1>3, <1>13, NothingTyped DEF UpgradeEnds, Ended
<1> QED
  BY <1>4, <1>5, <1>6, <1>7, <1>8, <1>9, <1>10, <1>11, <1>12, <1>13
     DEF Next, BrowserAuthCalls, HandlerStep

LEMMA PromptStep ==
  ASSUME TypeInv, TypeInv', BusyInv, PromptInv, [Next]_vars
  PROVE  PromptInv'
<1>1. ASSUME NEW c \in Conns, Pair(c) PROVE PromptInv'
  BY <1>1, PromptShown
<1>2. ASSUME NEW c \in Conns, NEW approved \in BOOLEAN, PromptEnds(c, approved)
      PROVE  PromptInv'
  BY <1>2, PromptAnswered
<1>3. ASSUME \A c \in Conns : ~Pair(c) /\ \A approved \in BOOLEAN : ~PromptEnds(c, approved)
      PROVE  PromptInv'
  BY <1>3, PromptRest, PromptQuiet
<1> QED
  BY <1>1, <1>2, <1>3

LEMMA PromptInit == ASSUME Init PROVE PromptInv
<1>1. /\ prompts = <<>> /\ globalPairingAttempts = <<>> /\ handler = [c \in Conns |-> Nothing]
  BY DEF Init
<1>2. Len(prompts) = 0 /\ Len(globalPairingAttempts) = 0 /\ DOMAIN prompts = {}
  BY <1>1
<1>3. Counted(globalPairingAttempts, prompts, now)
  BY <1>2 DEF Counted
<1> QED
  BY <1>1, <1>2, <1>3, NothingTyped DEF PromptInv, PromptsSpaced

-----------------------------------------------------------------------------
(* Consent and proof *)

\* The user approved challenge id of connection c, and had done so at time at.
ConsentAmong(shown, c, id, at) ==
  \E j \in DOMAIN shown :
    /\ shown[j].conn = c /\ shown[j].approved = id
    /\ shown[j].to # None /\ shown[j].to <= at
Consented(c, id, at) == ConsentAmong(prompts, c, id, at)

EverPaired(key) == \E i \in DOMAIN paired : paired[i].key = key

\* What is left of a connection to its own steps.
Local(c) ==
  <<browserChallenge[c], browserChallengePairsKey[c], handler[c], made[c], consumed[c],
    proven[c], role[c]>>

\* A challenge is there only while no handler runs; it is the last one made, of the key of
\* the profile, unused, and made for a consent or for a pairing.
ChallengeInv(c) ==
  browserChallenge[c] # NoChallenge =>
    /\ handler[c] = Nothing
    /\ browserChallenge[c].key = profile[c] /\ browserChallenge[c].id = made[c]
    /\ made[c] \notin Range(consumed[c])
    /\ browserChallengePairsKey[c] => Consented(c, made[c], now)
    /\ ~browserChallengePairsKey[c] => EverPaired(profile[c])

Proved(c) == proven[c].id \in Range(consumed[c]) /\ proven[c].key = profile[c]

\* What a handler has learned holds while it waits, and when it makes a browser.
ProofInv(c) ==
  /\ \A i \in DOMAIN consumed[c] : consumed[c][i] <= made[c]
  /\ IsInjective(consumed[c])
  /\ proven[c].id <= made[c]
  /\ handler[c].at = "paired" => EverPaired(profile[c])
  /\ handler[c].at \in Ending => proven[c] = handler[c].challenge /\ Proved(c)
  /\ handler[c].at = "persist" => Consented(c, proven[c].id, now)
  /\ handler[c].at = "disconnect" => EverPaired(profile[c])
  /\ role[c] = "browser" => Proved(c) /\ EverPaired(profile[c])

ConsentInv ==
  /\ \A c \in Conns : ChallengeInv(c) /\ ProofInv(c)
  /\ pairingFile # None => EverPaired(pairingFile)
  /\ PairedByConsent

\* What has been shown and answered, and what has been paired, stays so.
Grows ==
  /\ profile' = profile /\ now' \in Nat /\ now <= now'
  /\ \A j \in DOMAIN prompts :
       prompts[j].to # None => j \in DOMAIN prompts' /\ prompts'[j] = prompts[j]
  /\ \A i \in DOMAIN paired : i \in DOMAIN paired' /\ paired'[i] = paired[i]

LEMMA ConsentKept ==
  ASSUME TypeInv, Grows, NEW c, NEW id
  PROVE  /\ Consented(c, id, now) => Consented(c, id, now)'
         /\ \A at : Consented(c, id, at) => ConsentAmong(prompts', c, id, at)
<1>1. \A j \in DOMAIN prompts : prompts[j].to # None => prompts[j].to \in Nat
  <2>1. \A j \in DOMAIN prompts : prompts[j] \in Prompts
    BY DEF TypeInv, AdmissionTypes
  <2> QED
    BY <2>1, LimitsTyped DEF Prompts, Times
<1>2. now \in Nat /\ now' \in Nat /\ now <= now'
  BY LimitsTyped DEF TypeInv, BasicTypes, Times, Grows
<1>3. Consented(c, id, now) => Consented(c, id, now)'
  BY <1>1, <1>2 DEF Consented, ConsentAmong, Grows
<1> QED
  BY <1>1, <1>3 DEF Consented, ConsentAmong, Grows

LEMMA PairedKept ==
  ASSUME Grows, NEW key
  PROVE  EverPaired(key) => EverPaired(key)'
BY DEF EverPaired, Grows

\* A step of another connection.
LEMMA LocalKept ==
  ASSUME TypeInv, Grows, NEW c \in Conns, UNCHANGED Local(c), ChallengeInv(c), ProofInv(c)
  PROVE  ChallengeInv(c)' /\ ProofInv(c)'
<1>1. /\ UNCHANGED <<browserChallenge[c], browserChallengePairsKey[c], handler[c], made[c],
                     consumed[c], proven[c], role[c]>>
      /\ profile'[c] = profile[c]
  BY DEF Local, Grows
<1>2. \A id : Consented(c, id, now) => Consented(c, id, now)'
  BY ConsentKept
<1>3. \A key : EverPaired(key) => EverPaired(key)'
  BY PairedKept
<1>4. ChallengeInv(c)'
  BY <1>1, <1>2, <1>3 DEF ChallengeInv
<1>5. ProofInv(c)'
  BY <1>1, <1>2, <1>3 DEF ProofInv, Proved
<1> QED
  BY <1>4, <1>5

LEMMA StepGrows ==
  ASSUME TypeInv, TypeInv', BusyInv, PromptInv, [Next]_vars
  PROVE  Grows
<1>1. now \in Nat /\ now' \in Nat /\ prompts \in Seq(Prompts) /\ paired \in Seq(Pairings)
  BY LimitsTyped DEF TypeInv, BasicTypes, AdmissionTypes, HistoryTypes, Times
<1>2. profile' = profile
  BY DEF Next, vars, BrowserAuthCalls, HandlerStep, Tick, Hello, Close, Start, PairRefused, Pair,
         Complete, StartReads, StartEnds, PromptEnds, PersistEnds, UpgradeEnds
<1>3. now <= now'
  <2>1. Tick \/ now' = now
    BY DEF Next, vars, BrowserAuthCalls, HandlerStep, Hello, Close, Start, PairRefused, Pair,
           Complete, StartReads, StartEnds, PromptEnds, PersistEnds, UpgradeEnds
  <2> QED
    BY <1>1, <2>1 DEF Tick
<1>4. \A j \in DOMAIN prompts :
        prompts[j].to # None => j \in DOMAIN prompts' /\ prompts'[j] = prompts[j]
  <2>1. ASSUME NEW c \in Conns, Pair(c)
        PROVE  \A j \in DOMAIN prompts : j \in DOMAIN prompts' /\ prompts'[j] = prompts[j]
    <3> DEFINE shown == [conn |-> c, from |-> now, to |-> None, approved |-> 0]
    <3>1. prompts' = Append(prompts, shown)
      BY <2>1 DEF Pair
    <3> HIDE DEF shown
    <3> QED
      BY <1>1, <3>1
  <2>2. ASSUME NEW c \in Conns, NEW approved \in BOOLEAN, PromptEnds(c, approved)
        PROVE  \A j \in DOMAIN prompts :
                 prompts[j].to # None => j \in DOMAIN prompts' /\ prompts'[j] = prompts[j]
    <3> DEFINE m == Len(prompts)
               ended == [prompts[m] EXCEPT !.to = now,
                                           !.approved = IF approved THEN made[c] + 1 ELSE 0]
    <3>1. prompts' = [prompts EXCEPT ![m] = ended] /\ handler[c].at = "prompt"
      BY <2>2 DEF PromptEnds
    <3>2. \A j \in DOMAIN prompts : prompts[j].to # None => j # m
      BY <3>1 DEF PromptInv, BusyInv, OnePrompt
    <3> HIDE DEF ended
    <3> QED
      BY <1>1, <3>1, <3>2
  <2>3. ASSUME \A c \in Conns : ~Pair(c) /\ \A approved \in BOOLEAN : ~PromptEnds(c, approved)
        PROVE  prompts' = prompts
    BY <2>3, PromptRest
  <2> QED
    BY <2>1, <2>2, <2>3
<1>5. \A i \in DOMAIN paired : i \in DOMAIN paired' /\ paired'[i] = paired[i]
  <2>1. ASSUME NEW c \in Conns, NEW renamed, NEW written, PersistEnds(c, renamed, written)
        PROVE  \A i \in DOMAIN paired : i \in DOMAIN paired' /\ paired'[i] = paired[i]
    <3> DEFINE new == [key |-> handler[c].challenge.key, conn |-> c,
                       id |-> handler[c].challenge.id, at |-> now]
    <3>1. paired' = paired \/ paired' = Append(paired, new)
      BY <2>1 DEF PersistEnds
    <3> HIDE DEF new
    <3> QED
      BY <1>1, <3>1
  <2>2. ASSUME \A c \in Conns : \A renamed, written \in BOOLEAN : ~PersistEnds(c, renamed, written)
        PROVE  paired' = paired
    BY <2>2 DEF Next, vars, BrowserAuthCalls, HandlerStep, Tick, Hello, Close, Start, PairRefused,
                Pair, Complete, StartReads, StartEnds, PromptEnds, UpgradeEnds, history
  <2> QED
    BY <2>1, <2>2
<1> QED
  BY <1>1, <1>2, <1>3, <1>4, <1>5 DEF Grows

StepOf(c) == Hello(c) \/ Close(c) \/ BrowserAuthCalls(c) \/ HandlerStep(c)

LEMMA OthersLocal ==
  ASSUME TypeInv, NEW c \in Conns, StepOf(c), NEW e \in Conns, e # c
  PROVE  UNCHANGED Local(e)
<1>1. /\ browserChallenge \in [Conns -> Challenges \cup {NoChallenge}]
      /\ browserChallengePairsKey \in [Conns -> BOOLEAN] /\ made \in [Conns -> 0..MaxChallenges]
      /\ handler \in [Conns -> Handlers] /\ consumed \in [Conns -> Seq(1..MaxChallenges)]
      /\ proven \in [Conns -> Challenges \cup {NoChallenge}]
      /\ role \in [Conns -> {"none", "agent", "browser"}]
  BY DEF TypeInv, BasicTypes, ChallengeTypes, HandlerTypes, HistoryTypes
<1>2. /\ browserChallenge'[e] = browserChallenge[e]
      /\ browserChallengePairsKey'[e] = browserChallengePairsKey[e] /\ made'[e] = made[e]
  BY <1>1 DEF StepOf, BrowserAuthCalls, HandlerStep, Hello, Close, Start, PairRefused, Pair,
              Complete, StartReads, StartEnds, PromptEnds, PersistEnds, UpgradeEnds,
              authentication, ClearChallenge, Challenge, NoChallengeMade
<1>3. handler'[e] = handler[e]
  BY <1>1 DEF StepOf, BrowserAuthCalls, HandlerStep, Hello, Close, Start, PairRefused, Pair,
              Complete, StartReads, StartEnds, PromptEnds, PersistEnds, UpgradeEnds,
              authentication, AfterPersisting, Await, Ended
<1>4. consumed'[e] = consumed[e] /\ proven'[e] = proven[e]
  BY <1>1 DEF StepOf, BrowserAuthCalls, HandlerStep, Hello, Close, Start, PairRefused, Pair,
              Complete, StartReads, StartEnds, PromptEnds, PersistEnds, UpgradeEnds, history
<1>5. role'[e] = role[e]
  BY <1>1 DEF StepOf, BrowserAuthCalls, HandlerStep, Hello, Close, Start, PairRefused, Pair,
              Complete, StartReads, StartEnds, PromptEnds, PersistEnds, UpgradeEnds
<1> QED
  BY <1>2, <1>3, <1>4, <1>5 DEF Local

\* A handler that begins finds no other, and leaves no challenge there.
LEMMA CallConsents ==
  ASSUME TypeInv, TypeInv', BusyInv, Grows, NEW c \in Conns, BrowserAuthCalls(c),
         ChallengeInv(c), ProofInv(c)
  PROVE  ChallengeInv(c)' /\ ProofInv(c)'
<1>1. /\ browserChallenge \in [Conns -> Challenges \cup {NoChallenge}]
      /\ browserChallengePairsKey \in [Conns -> BOOLEAN] /\ made \in [Conns -> 0..MaxChallenges]
      /\ handler \in [Conns -> Handlers] /\ consumed \in [Conns -> Seq(1..MaxChallenges)]
      /\ proven \in [Conns -> Challenges \cup {NoChallenge}] /\ MaxChallenges \in Nat
  BY LimitsTyped DEF TypeInv, ChallengeTypes, HandlerTypes, HistoryTypes
<1>2. profile'[c] = profile[c]
  BY DEF Grows
<1>3. \A id : Consented(c, id, now) => Consented(c, id, now)'
  BY ConsentKept
<1>4. EverPaired(profile[c]) => EverPaired(profile[c])'
  BY <1>2, PairedKept DEF EverPaired
<1>5. ~browserAuthTransitionActive[c] => handler[c] = Nothing
  BY DEF BusyInv, Busy
<1>6. browserChallenge'[c] = NoChallenge /\ made'[c] = made[c] /\ role[c] = "agent" /\ role' = role
      /\ handler[c] = Nothing
  BY <1>1, <1>5 DEF BrowserAuthCalls, Start, PairRefused, Pair, Complete, ClearChallenge,
                    MayAuthenticate, FreeForTransition
<1>7. ChallengeInv(c)'
  BY <1>6 DEF ChallengeInv
<1>8. ASSUME UNCHANGED <<consumed, proven>>,
             handler'[c].at \in {"nothing", "lookup", "prompt"}
      PROVE  ProofInv(c)'
  BY <1>6, <1>8 DEF ProofInv, Ending
<1>9. ASSUME Start(c) \/ PairRefused(c) \/ Pair(c) PROVE ProofInv(c)'
  <2>1. UNCHANGED <<consumed, proven>>
    BY <1>9 DEF Start, PairRefused, Pair, history
  <2>2. handler'[c].at \in {"nothing", "lookup", "prompt"}
    <3>1. CASE PairRefused(c)
      BY <1>6, <3>1, NothingTyped DEF PairRefused
    <3>2. ASSUME NEW at \in {"lookup", "prompt"}, Await(c, at, NoChallenge, FALSE)
          PROVE  handler'[c].at = at
      BY <1>1, <3>2 DEF Await, Awaiting
    <3> QED
      BY <1>9, <3>1, <3>2 DEF Start, Pair
  <2> QED
    BY <1>8, <2>1, <2>2
<1>10. ASSUME NEW id \in 1..MaxChallenges, NEW proof \in BOOLEAN, Complete(c, id, proof)
       PROVE  ProofInv(c)'
  <2>1. /\ browserChallenge[c].id = id /\ consumed'[c] = Append(consumed[c], id)
        /\ id \in Nat /\ id # 0
    BY <1>1, <1>10 DEF Complete, Completes
  <2>2. browserChallenge[c] # NoChallenge
    BY <2>1 DEF NoChallenge
  <2>3. /\ browserChallenge[c].key = profile[c] /\ id = made[c]
        /\ made[c] \notin Range(consumed[c])
        /\ browserChallengePairsKey[c] => Consented(c, made[c], now)
        /\ ~browserChallengePairsKey[c] => EverPaired(profile[c])
    BY <2>1, <2>2 DEF ChallengeInv
  <2>4. consumed[c] \in Seq(1..MaxChallenges) /\ Len(consumed[c]) \in Nat
    BY <1>1
  <2> DEFINE n == Len(consumed[c])
  <2>5. /\ DOMAIN consumed'[c] = 1..(n + 1) /\ DOMAIN consumed[c] = 1..n
        /\ consumed'[c][n + 1] = id /\ \A i \in 1..n : consumed'[c][i] = consumed[c][i]
    BY <2>1, <2>4
  <2>6. /\ \A i \in DOMAIN consumed'[c] : consumed'[c][i] <= made'[c]
        /\ IsInjective(consumed'[c]) /\ id \in Range(consumed'[c])
    <3>1. \A i \in 1..(n + 1) : i = n + 1 \/ i \in 1..n
      BY <2>4
    <3>2. \A i \in 1..n : consumed[c][i] <= made[c] /\ consumed[c][i] # id
      BY <2>3, <2>5 DEF ProofInv, Range
    <3>3. id <= id /\ n + 1 \in 1..(n + 1)
      BY <2>1, <2>4
    <3>4. \A i \in DOMAIN consumed'[c] : consumed'[c][i] <= made'[c]
      BY <1>6, <2>3, <2>5, <3>1, <3>2, <3>3
    <3>5. \A a, b \in 1..n : consumed[c][a] = consumed[c][b] => a = b
      BY <2>5 DEF ProofInv, IsInjective
    <3>6. IsInjective(consumed'[c])
      <4> SUFFICES ASSUME NEW a \in 1..(n + 1), NEW b \in 1..(n + 1),
                          consumed'[c][a] = consumed'[c][b]
                   PROVE  a = b
        BY <2>5 DEF IsInjective
      <4> QED
        BY <2>5, <3>1, <3>2, <3>5
    <3> QED
      BY <2>5, <3>3, <3>4, <3>6 DEF Range
  <2>7. CASE proof
    <3> DEFINE at == IF browserChallengePairsKey[c] THEN "persist" ELSE "disconnect"
    <3>1. /\ handler'[c] = Awaiting(at, browserChallenge[c], browserChallengePairsKey[c])
          /\ proven'[c] = browserChallenge[c]
      BY <1>1, <1>10, <2>1, <2>7 DEF Complete, Await
    <3>2. /\ handler'[c].at = at /\ handler'[c].challenge = browserChallenge[c]
      BY <3>1 DEF Awaiting
    <3>3. id <= id
      BY <2>1
    <3> QED
      BY <1>2, <1>3, <1>4, <1>6, <2>1, <2>3, <2>6, <3>1, <3>2, <3>3 DEF ProofInv, Proved
  <2>8. CASE ~proof
    <3>1. handler' = handler /\ proven' = proven
      BY <1>10, <2>8 DEF Complete
    <3> QED
      BY <1>6, <2>6, <3>1, NothingTyped DEF ProofInv
  <2> QED
    BY <2>7, <2>8
<1> QED
  BY <1>7, <1>9, <1>10 DEF BrowserAuthCalls

\* A handler that goes on makes its challenge for what it has learned, and its browser of
\* what was proved.
LEMMA HandlerConsents ==
  ASSUME TypeInv, TypeInv', BusyInv, PromptInv, Grows, NEW c \in Conns, HandlerStep(c),
         ConsentInv
  PROVE  ChallengeInv(c)' /\ ProofInv(c)'
<1>1. /\ browserChallenge \in [Conns -> Challenges \cup {NoChallenge}]
      /\ browserChallengePairsKey \in [Conns -> BOOLEAN] /\ made \in [Conns -> 0..MaxChallenges]
      /\ handler \in [Conns -> Handlers] /\ consumed \in [Conns -> Seq(1..MaxChallenges)]
      /\ proven \in [Conns -> Challenges \cup {NoChallenge}] /\ MaxChallenges \in Nat
      /\ role \in [Conns -> {"none", "agent", "browser"}]
  BY LimitsTyped DEF TypeInv, BasicTypes, ChallengeTypes, HandlerTypes, HistoryTypes
<1>2. profile'[c] = profile[c] /\ profile[c] \in Keys /\ profile[c] # None
  BY LimitsTyped DEF Grows, TypeInv, BasicTypes
<1>3. \A id : Consented(c, id, now) => Consented(c, id, now)'
  BY ConsentKept
<1>4. EverPaired(profile[c]) => EverPaired(profile[c])'
  BY <1>2, PairedKept DEF EverPaired
<1>5. ChallengeInv(c) /\ ProofInv(c) /\ consumed' = consumed /\ proven' = proven
  BY DEF ConsentInv, HandlerStep, StartReads, StartEnds, PromptEnds, PersistEnds, UpgradeEnds,
         history
<1>6. handler[c] # Nothing /\ browserChallenge[c] = NoChallenge
  <2>1. handler[c] # Nothing
    BY NothingTyped DEF HandlerStep, StartReads, StartEnds, PromptEnds, PersistEnds, UpgradeEnds
  <2> QED
    BY <1>5, <2>1 DEF ChallengeInv
\* A step that makes no challenge.
<1>7. ASSUME browserChallenge' = browserChallenge PROVE ChallengeInv(c)'
  BY <1>6, <1>7 DEF ChallengeInv
\* A step that ends.
<1>8. ASSUME handler' = [handler EXCEPT ![c] = Nothing], role' = role,
             made'[c] = made[c] \/ made'[c] = made[c] + 1
      PROVE  ProofInv(c)'
  <2>1. handler'[c].at \notin {"paired", "persist", "disconnect"}
    BY <1>1, <1>8, NothingTyped
  <2>2. /\ \A i \in DOMAIN consumed[c] : consumed[c][i] \in Nat
        /\ made[c] \in Nat /\ proven[c].id \in Nat
    BY <1>1 DEF Challenges, NoChallenge
  <2>3. /\ \A i \in DOMAIN consumed[c] : consumed[c][i] <= made'[c]
        /\ proven[c].id <= made'[c]
    BY <1>5, <1>8, <2>2 DEF ProofInv
  <2> QED
    BY <1>2, <1>4, <1>5, <1>8, <2>1, <2>3 DEF ProofInv, Proved, Ending
\* A step that makes one.
<1>9. ASSUME NEW pairs \in BOOLEAN, NEW id, id = made[c] + 1, Challenge(c, pairs),
             handler' = [handler EXCEPT ![c] = Nothing],
             pairs => Consented(c, id, now)',
             ~pairs => EverPaired(profile[c])
      PROVE  ChallengeInv(c)'
  <2>1. /\ browserChallenge'[c].key = profile[c] /\ browserChallenge'[c].id = id
        /\ made'[c] = id /\ browserChallengePairsKey'[c] = pairs
        /\ handler'[c] = Nothing
    BY <1>1, <1>9 DEF Challenge
  <2>2. id \notin Range(consumed[c])
    <3>1. /\ \A i \in DOMAIN consumed[c] : consumed[c][i] \in Nat
          /\ made[c] \in Nat
      BY <1>1
    <3>2. \A i \in DOMAIN consumed[c] : consumed[c][i] # id
      BY <1>5, <1>9, <3>1 DEF ProofInv
    <3> QED
      BY <3>2 DEF Range
  <2> QED
    BY <1>2, <1>4, <1>5, <1>9, <2>1, <2>2 DEF ChallengeInv
<1>10. CASE StartReads(c)
  <2>1. /\ browserChallenge' = browserChallenge /\ made' = made /\ role' = role
        /\ handler[c].at = "lookup"
    BY <1>10 DEF StartReads
  <2>2. PICK at \in {"paired", "unpaired"} :
          /\ handler' = [handler EXCEPT ![c] = Awaiting(at, NoChallenge, FALSE)]
          /\ at = "paired" => pairingFile = profile[c]
    BY <1>10 DEF StartReads, Await
  <2>3. handler'[c].at = at
    BY <1>1, <2>2 DEF Awaiting
  <2>4. at = "paired" => EverPaired(profile[c])
    BY <1>2, <2>2 DEF ConsentInv
  <2>5. ProofInv(c)'
    BY <1>2, <1>4, <1>5, <2>1, <2>3, <2>4 DEF ProofInv, Proved, Ending
  <2> QED
    BY <1>7, <2>1, <2>5
<1>11. CASE StartEnds(c)
  <2>1. handler' = [handler EXCEPT ![c] = Nothing] /\ role' = role
    BY <1>11 DEF StartEnds, Ended
  <2>2. CASE handler[c].at = "paired" /\ Challenge(c, FALSE)
    <3>1. EverPaired(profile[c]) /\ made'[c] = made[c] + 1
      BY <1>1, <1>5, <2>2 DEF ProofInv, Challenge
    <3> QED
      BY <1>8, <1>9, <2>1, <2>2, <3>1
  <2>3. CASE NoChallengeMade
    BY <1>7, <1>8, <2>1, <2>3 DEF NoChallengeMade
  <2> QED
    BY <1>11, <2>2, <2>3 DEF StartEnds
<1>12. ASSUME NEW approved \in BOOLEAN, PromptEnds(c, approved)
       PROVE  ChallengeInv(c)' /\ ProofInv(c)'
  <2>1. handler' = [handler EXCEPT ![c] = Nothing] /\ role' = role /\ now' = now
        /\ handler[c].at = "prompt"
    BY <1>12 DEF PromptEnds, Ended
  <2>2. CASE approved
    <3>1. PICK id : id = made[c] + 1
      OBVIOUS
    <3> DEFINE m == Len(prompts)
               ended == [prompts[m] EXCEPT !.to = now, !.approved = id]
    <3>2. Challenge(c, TRUE) /\ prompts' = [prompts EXCEPT ![m] = ended]
      BY <1>12, <2>2, <3>1 DEF PromptEnds
    <3>3. prompts \in Seq(Prompts) /\ prompts # <<>> /\ now \in Nat
      BY <2>1, LimitsTyped DEF TypeInv, BasicTypes, AdmissionTypes, HandlerTypes, Times
    <3>4. m \in DOMAIN prompts /\ prompts[m] \in Prompts /\ prompts[m].conn = c
      BY <2>1, <3>3 DEF PromptInv
    <3>5. ended.conn = c /\ ended.to = now /\ ended.approved = id
      BY <3>4 DEF Prompts
    <3> HIDE DEF ended
    <3>6. m \in DOMAIN prompts' /\ prompts'[m] = ended
      BY <3>2, <3>3, <3>4
    <3>7. now # None /\ now <= now
      BY <3>3, LimitsTyped
    <3>8. Consented(c, id, now)'
      BY <2>1, <3>5, <3>6, <3>7 DEF Consented, ConsentAmong
    <3>9. made'[c] = made[c] + 1
      BY <1>1, <3>2 DEF Challenge
    <3> QED
      BY <1>8, <1>9, <2>1, <3>1, <3>2, <3>8, <3>9
  <2>3. CASE ~approved
    BY <1>7, <1>8, <1>12, <2>1, <2>3 DEF PromptEnds, NoChallengeMade
  <2> QED
    BY <2>2, <2>3
<1>13. ASSUME NEW renamed \in BOOLEAN, NEW written \in BOOLEAN, PersistEnds(c, renamed, written)
       PROVE  ChallengeInv(c)' /\ ProofInv(c)'
  <2>1. /\ browserChallenge' = browserChallenge /\ made' = made /\ role' = role
        /\ handler[c].at = "persist"
    BY <1>13 DEF PersistEnds
  <2>2. proven[c] = handler[c].challenge /\ Proved(c)
    BY <1>5, <2>1 DEF ProofInv, Ending
  <2>3. CASE written
    <3>1. /\ handler' = [handler EXCEPT ![c] = Awaiting("disconnect", handler[c].challenge, TRUE)]
          /\ paired' = Append(paired, [key |-> handler[c].challenge.key, conn |-> c,
                                       id |-> handler[c].challenge.id, at |-> now])
      BY <1>13, <2>3 DEF PersistEnds, AfterPersisting, Await
    <3>2. /\ handler'[c].at = "disconnect" /\ handler'[c].challenge = handler[c].challenge
      BY <1>1, <3>1 DEF Awaiting
    <3>3. EverPaired(profile[c])'
      <4> DEFINE new == [key |-> handler[c].challenge.key, conn |-> c,
                         id |-> handler[c].challenge.id, at |-> now]
      <4>1. new.key = profile[c] /\ paired' = Append(paired, new) /\ paired \in Seq(Pairings)
        BY <2>2, <3>1 DEF Proved, TypeInv, HistoryTypes
      <4> HIDE DEF new
      <4>2. Len(paired) + 1 \in DOMAIN paired' /\ paired'[Len(paired) + 1] = new
        BY <4>1
      <4> QED
        BY <1>2, <4>1, <4>2 DEF EverPaired
    <3> QED
      BY <1>2, <1>4, <1>5, <1>7, <2>1, <2>2, <3>2, <3>3 DEF ProofInv, Proved
  <2>4. CASE ~written
    <3>1. handler' = [handler EXCEPT ![c] = Nothing]
      BY <1>13, <2>4 DEF PersistEnds, AfterPersisting, Ended
    <3> QED
      BY <1>7, <1>8, <2>1, <3>1
  <2> QED
    BY <2>3, <2>4
<1>14. ASSUME NEW ok \in BOOLEAN, UpgradeEnds(c, ok)
       PROVE  ChallengeInv(c)' /\ ProofInv(c)'
  <2>1. /\ browserChallenge' = browserChallenge /\ made' = made
        /\ handler[c].at = "disconnect" /\ handler' = [handler EXCEPT ![c] = Nothing]
    BY <1>14 DEF UpgradeEnds, Ended
  <2>2. Proved(c) /\ EverPaired(profile[c])
    BY <1>5, <2>1 DEF ProofInv, Ending
  <2>3. handler'[c].at = "nothing"
    BY <1>1, <2>1, NothingTyped
  <2> QED
    BY <1>2, <1>4, <1>5, <1>7, <2>1, <2>2, <2>3 DEF ProofInv, Proved, Ending
<1> QED
  BY <1>10, <1>11, <1>12, <1>13, <1>14 DEF HandlerStep

\* The challenge proved on a connection is never an older one.
LEMMA ProvenGrows ==
  ASSUME TypeInv, ConsentInv, [Next]_vars, NEW c \in Conns
  PROVE  /\ proven[c].id \in Nat /\ proven'[c].id \in Nat /\ proven[c].id <= proven'[c].id
<1>1. /\ proven \in [Conns -> Challenges \cup {NoChallenge}]
      /\ browserChallenge \in [Conns -> Challenges \cup {NoChallenge}]
      /\ made \in [Conns -> 0..MaxChallenges] /\ MaxChallenges \in Nat
  BY LimitsTyped DEF TypeInv, ChallengeTypes, HistoryTypes
<1>2. proven[c].id \in Nat /\ made[c] \in Nat
  BY <1>1 DEF Challenges, NoChallenge
<1>3. ASSUME NEW e \in Conns, NEW id \in 1..MaxChallenges, NEW proof \in BOOLEAN,
             Complete(e, id, proof)
      PROVE  proven'[c].id \in Nat /\ proven[c].id <= proven'[c].id
  <2>1. CASE proven' = proven
    BY <1>2, <2>1
  <2>2. CASE proven' = [proven EXCEPT ![e] = browserChallenge[e]] /\ e # c
    BY <1>1, <1>2, <2>2
  <2>3. CASE proven' = [proven EXCEPT ![e] = browserChallenge[e]] /\ e = c
    <3>1. proven'[c] = browserChallenge[c]
      BY <1>1, <2>3
    <3>2. browserChallenge[c] # NoChallenge
      BY <1>1, <1>3, <2>3 DEF Complete, Completes, NoChallenge
    <3>3. browserChallenge[c].id = made[c] /\ proven[c].id <= made[c]
      BY <3>2 DEF ConsentInv, ChallengeInv, ProofInv
    <3> QED
      BY <1>2, <3>1, <3>3
  <2> QED
    BY <1>3, <2>1, <2>2, <2>3 DEF Complete
<1>4. ASSUME \A e \in Conns : \A id \in 1..MaxChallenges, proof \in BOOLEAN : ~Complete(e, id, proof)
      PROVE  proven' = proven
  BY <1>4 DEF Next, vars, BrowserAuthCalls, HandlerStep, Tick, Hello, Close, Start, PairRefused,
              Pair, StartReads, StartEnds, PromptEnds, PersistEnds, UpgradeEnds, history
<1>5. CASE proven' = proven
  BY <1>2, <1>5
<1> QED
  BY <1>2, <1>3, <1>4, <1>5

LEMMA ConsentStep ==
  ASSUME TypeInv, TypeInv', BusyInv, PromptInv, ConsentInv, [Next]_vars
  PROVE  ConsentInv'
<1>1. Grows
  BY StepGrows
<1>2. ASSUME NEW c \in Conns PROVE ChallengeInv(c)' /\ ProofInv(c)'
  <2>1. ChallengeInv(c) /\ ProofInv(c)
    BY DEF ConsentInv
  <2>2. CASE UNCHANGED Local(c)
    BY <1>1, <2>1, <2>2, LocalKept
  <2>3. CASE BrowserAuthCalls(c)
    BY <1>1, <2>1, <2>3, CallConsents
  <2>4. CASE HandlerStep(c)
    BY <1>1, <2>4, HandlerConsents
  <2>5. CASE Hello(c)
    <3>1. /\ role'[c] = "agent" /\ UNCHANGED <<browserChallenge, browserChallengePairsKey, handler,
                                              made, consumed, proven>>
      BY <2>5 DEF Hello, authentication, history, TypeInv, BasicTypes
    <3>2. profile'[c] = profile[c]
      BY <1>1 DEF Grows
    <3>3. \A id : Consented(c, id, now) => Consented(c, id, now)'
      BY <1>1, ConsentKept
    <3>4. EverPaired(profile[c]) => EverPaired(profile[c])'
      BY <1>1, <3>2, PairedKept DEF EverPaired
    <3>5. ChallengeInv(c)'
      BY <2>1, <3>1, <3>2, <3>3, <3>4 DEF ChallengeInv
    <3>6. ProofInv(c)'
      BY <2>1, <3>1, <3>2, <3>3, <3>4 DEF ProofInv, Proved
    <3> QED
      BY <3>5, <3>6
  <2>6. CASE Close(c)
    <3>1. UNCHANGED Local(c)
      BY <2>6 DEF Close, Local, authentication, history
    <3> QED
      BY <2>2, <3>1
  <2>7. CASE Tick \/ UNCHANGED vars
    <3>1. UNCHANGED Local(c)
      BY <2>7 DEF Tick, vars, Local, authentication, history
    <3> QED
      BY <2>2, <3>1
  <2>8. ASSUME NEW e \in Conns, e # c, StepOf(e) PROVE UNCHANGED Local(c)
    BY <2>8, OthersLocal
  <2> QED
    BY <2>2, <2>3, <2>4, <2>5, <2>6, <2>7, <2>8 DEF Next, StepOf
<1>3. pairingFile' # None => EverPaired(pairingFile)'
  <2>1. CASE pairingFile' = pairingFile
    <3>1. EverPaired(pairingFile) => EverPaired(pairingFile)'
      BY <1>1, <2>1, PairedKept DEF EverPaired
    <3> QED
      BY <2>1, <3>1 DEF ConsentInv
  <2>2. CASE pairingFile' # pairingFile
    <3>1. PICK c \in Conns, renamed \in BOOLEAN, written \in BOOLEAN :
            PersistEnds(c, renamed, written)
      BY <2>2 DEF Next, vars, BrowserAuthCalls, HandlerStep, Tick, Hello, Close, Start, PairRefused,
                  Pair, Complete, StartReads, StartEnds, PromptEnds, UpgradeEnds
    <3> DEFINE new == [key |-> handler[c].challenge.key, conn |-> c,
                       id |-> handler[c].challenge.id, at |-> now]
    <3>2. pairingFile' = new.key /\ paired' = Append(paired, new) /\ paired \in Seq(Pairings)
      BY <2>2, <3>1 DEF PersistEnds, TypeInv, HistoryTypes
    <3> HIDE DEF new
    <3>3. Len(paired) + 1 \in DOMAIN paired' /\ paired'[Len(paired) + 1] = new
      BY <3>2
    <3> QED
      BY <3>2, <3>3 DEF EverPaired
  <2> QED
    BY <2>1, <2>2
<1> DEFINE Fine(p) ==
      p.conn # None =>
        /\ p.key = profile'[p.conn] /\ proven'[p.conn].id >= p.id
        /\ ConsentAmong(prompts', p.conn, p.id, p.at)
<1>4. ASSUME NEW i \in DOMAIN paired PROVE Fine(paired[i])
  <2> SUFFICES ASSUME paired[i].conn # None PROVE Fine(paired[i])
    OBVIOUS
  <2>1. paired[i] \in Pairings
    BY DEF TypeInv, HistoryTypes
  <2>2. paired[i].conn \in Conns /\ paired[i].id \in Nat /\ paired[i].at \in Nat
    BY <2>1, LimitsTyped DEF Pairings, Times
  <2>3. /\ paired[i].key = profile[paired[i].conn] /\ proven[paired[i].conn].id >= paired[i].id
        /\ Consented(paired[i].conn, paired[i].id, paired[i].at)
    BY DEF ConsentInv, PairedByConsent, Consented, ConsentAmong
  <2>4. /\ proven[paired[i].conn].id \in Nat /\ proven'[paired[i].conn].id \in Nat
        /\ proven[paired[i].conn].id <= proven'[paired[i].conn].id
    BY <2>2, ProvenGrows
  <2>5. ConsentAmong(prompts', paired[i].conn, paired[i].id, paired[i].at)
    BY <1>1, <2>3, ConsentKept
  <2>6. profile' = profile
    BY <1>1 DEF Grows
  <2> QED
    BY <2>2, <2>3, <2>4, <2>5, <2>6
<1>5. PairedByConsent'
  <2>1. CASE paired' = paired
    BY <1>4, <2>1 DEF PairedByConsent, ConsentAmong
  <2>2. CASE paired' # paired
    <3>1. PICK c \in Conns, renamed \in BOOLEAN, written \in BOOLEAN :
            PersistEnds(c, renamed, written)
      BY <2>2 DEF Next, vars, BrowserAuthCalls, HandlerStep, Tick, Hello, Close, Start, PairRefused,
                  Pair, Complete, StartReads, StartEnds, PromptEnds, UpgradeEnds, history
    <3> DEFINE new == [key |-> handler[c].challenge.key, conn |-> c,
                       id |-> handler[c].challenge.id, at |-> now]
    <3>2. /\ paired' = Append(paired, new) /\ paired \in Seq(Pairings)
          /\ handler[c].at = "persist" /\ proven' = proven /\ now \in Nat
      BY <2>2, <3>1, LimitsTyped DEF PersistEnds, TypeInv, BasicTypes, HistoryTypes, Times
    <3>3. /\ proven[c] = handler[c].challenge /\ proven[c].key = profile[c]
          /\ Consented(c, proven[c].id, now)
      BY <3>2 DEF ConsentInv, ProofInv, Proved, Ending
    <3>4. proven[c].id \in Nat /\ profile' = profile
      BY <1>1, ProvenGrows DEF Grows
    <3>5. ConsentAmong(prompts', c, proven[c].id, now)
      BY <1>1, <3>3, ConsentKept
    <3>6. Fine(new)
      BY <3>2, <3>3, <3>4, <3>5
    <3> HIDE DEF new, Fine
    <3>7. /\ DOMAIN paired' = 1..(Len(paired) + 1) /\ DOMAIN paired = 1..Len(paired)
          /\ Len(paired) \in Nat
          /\ paired'[Len(paired) + 1] = new /\ \A i \in DOMAIN paired : paired'[i] = paired[i]
      BY <3>2
    <3>8. ASSUME NEW i \in DOMAIN paired' PROVE Fine(paired'[i])
      <4>1. CASE i = Len(paired) + 1
        BY <3>6, <3>7, <4>1
      <4>2. CASE i # Len(paired) + 1
        <5>1. i \in DOMAIN paired
          BY <3>7, <4>2
        <5> QED
          BY <1>4, <3>7, <5>1
      <4> QED
        BY <4>1, <4>2
    <3> QED
      BY <3>8 DEF PairedByConsent, Fine, ConsentAmong
  <2> QED
    BY <2>1, <2>2
<1> QED
  BY <1>2, <1>3, <1>5 DEF ConsentInv

LEMMA ConsentInit == ASSUME Init PROVE ConsentInv
<1>1. /\ browserChallenge = [c \in Conns |-> NoChallenge]
      /\ handler = [c \in Conns |-> Nothing] /\ role = [c \in Conns |-> "none"]
      /\ made = [c \in Conns |-> 0] /\ consumed = [c \in Conns |-> <<>>]
      /\ proven = [c \in Conns |-> NoChallenge]
  BY DEF Init
<1>2. NoChallenge.id = 0 /\ DOMAIN <<>> = {}
  BY DEF NoChallenge
<1>3. ASSUME NEW c \in Conns PROVE ChallengeInv(c) /\ ProofInv(c)
  <2>1. /\ browserChallenge[c] = NoChallenge /\ handler[c] = Nothing /\ role[c] = "none"
        /\ made[c] = 0 /\ DOMAIN consumed[c] = {} /\ proven[c].id = 0
    BY <1>1, <1>2
  <2> QED
    BY <2>1, NothingTyped DEF ChallengeInv, ProofInv, IsInjective
<1>4. (pairingFile # None => EverPaired(pairingFile)) /\ PairedByConsent
  <2>1. CASE pairingFile = None
    <3>1. DOMAIN paired = {}
      BY <2>1 DEF Init
    <3> QED
      BY <2>1, <3>1 DEF PairedByConsent
  <2>2. CASE pairingFile # None
    <3>1. paired = <<[key |-> pairingFile, conn |-> None, id |-> 0, at |-> 0]>>
      BY <2>2 DEF Init
    <3>2. DOMAIN paired = {1} /\ paired[1].key = pairingFile /\ paired[1].conn = None
      BY <3>1
    <3> QED
      BY <3>2 DEF EverPaired, PairedByConsent
  <2> QED
    BY <2>1, <2>2
<1> QED
  BY <1>3, <1>4 DEF ConsentInv

-----------------------------------------------------------------------------
(* The theorems *)

PairInv == TypeInv /\ BusyInv /\ PromptInv /\ ConsentInv

LEMMA PairInvariant == Spec => []PairInv
<1>1. Init => PairInv
  BY TypeInit, BusyInit, PromptInit, ConsentInit DEF PairInv
<1>2. PairInv /\ [Next]_vars => PairInv'
  BY TypeStep, BusyStep, PromptStep, ConsentStep DEF PairInv
<1> QED
  BY <1>1, <1>2, PTL DEF Spec

\* The user is asked one thing at a time, not again within the cooldown of an answer, and
\* never more often than the limit in any window, however the connections share the calls.
THEOREM PromptsKeepApart == Spec => []PromptsSpaced
<1>1. PairInv => PromptsSpaced
  BY DEF PairInv, PromptInv
<1> QED
  BY <1>1, PairInvariant, PTL

\* Whatever the pairing file is given was approved by the user on the connection that
\* completes, and proved there.
THEOREM OnlyConsentPairs == Spec => []PairedByConsent
<1>1. PairInv => PairedByConsent
  BY DEF PairInv, ConsentInv
<1> QED
  BY <1>1, PairInvariant, PTL

\* No connection becomes a browser's but by the proof of a key that has been paired, with
\* a challenge of its own that it used once.
THEOREM OnlyProofUpgrades == Spec => []BrowsersProven
<1>1. PairInv => BrowsersProven
  BY DEF PairInv, ConsentInv, ProofInv, Proved, EverPaired, BrowsersProven
<1> QED
  BY <1>1, PairInvariant, PTL

\* A challenge stays what its peer was given until it expires or is completed.
THEOREM ChallengesStay == Spec => ChallengeKept
<1>1. ASSUME PairInv, [Next]_vars, NEW c \in Conns, browserChallenge[c] # NoChallenge,
             browserChallenge'[c] # browserChallenge[c]
      PROVE  \/ browserChallenge[c].expiresAt <= now
             \/ browserChallenge[c].id \in Range(consumed'[c])
  <2>1. TypeInv /\ BusyInv /\ handler[c] = Nothing
    BY <1>1 DEF PairInv, ConsentInv, ChallengeInv
  <2>2. /\ browserChallenge \in [Conns -> Challenges \cup {NoChallenge}]
        /\ consumed \in [Conns -> Seq(1..MaxChallenges)]
    BY <2>1 DEF TypeInv, ChallengeTypes, HistoryTypes
  <2>3. StepOf(c)
    <3>1. ASSUME NEW e \in Conns, e # c, StepOf(e) PROVE FALSE
      BY <1>1, <2>1, <3>1, OthersLocal DEF Local
    <3>2. ~Tick /\ ~UNCHANGED vars
      BY <1>1 DEF Tick, vars, authentication
    <3> QED
      BY <1>1, <3>1, <3>2 DEF Next, StepOf
  <2>4. ~Hello(c) /\ ~Close(c) /\ ~HandlerStep(c)
    BY <1>1, <2>1, NothingTyped DEF Hello, Close, authentication, HandlerStep, StartReads,
       StartEnds, PromptEnds, PersistEnds, UpgradeEnds
  <2>5. CASE Start(c) \/ PairRefused(c) \/ Pair(c)
    BY <1>1, <2>5 DEF Start, PairRefused, Pair, MayAuthenticate, FreeForTransition, Expired
  <2>6. ASSUME NEW id \in 1..MaxChallenges, NEW proof \in BOOLEAN, Complete(c, id, proof)
        PROVE  browserChallenge[c].id \in Range(consumed'[c])
    <3>1. consumed'[c] = Append(consumed[c], id) /\ browserChallenge[c].id = id
      BY <2>2, <2>6 DEF Complete, Completes
    <3>2. consumed[c] \in Seq(1..MaxChallenges)
      BY <2>2
    <3>3. Len(consumed[c]) + 1 \in DOMAIN consumed'[c] /\ consumed'[c][Len(consumed[c]) + 1] = id
      BY <3>1, <3>2
    <3> QED
      BY <3>1, <3>3 DEF Range
  <2> QED
    BY <2>3, <2>4, <2>5, <2>6 DEF StepOf, BrowserAuthCalls
<1>2. ASSUME PairInv, [Next]_vars
      PROVE  [\A c \in Conns :
                LET challenge == browserChallenge[c] IN
                challenge # NoChallenge /\ browserChallenge'[c] # challenge =>
                  challenge.expiresAt <= now \/ challenge.id \in Range(consumed'[c])]_vars
  BY <1>1, <1>2
<1> QED
  BY <1>2, PairInvariant, PTL DEF Spec, ChallengeKept

=============================================================================
