------------------------------- MODULE Pairing -------------------------------
(***************************************************************************)
(* How a connection to the broker becomes a browser's: the calls           *)
(* browser.auth.start, browser.auth.pair and browser.auth.complete in      *)
(* accept() of apps/broker/src/daemon.ts, with the prompt and the pairing  *)
(* file of apps/broker/src/auth.ts.                                        *)
(*                                                                         *)
(* Every connection starts as an agent's.  A key that has been paired is   *)
(* challenged at once, another one after the user has approved it in a     *)
(* prompt, and who answers the challenge is the browser; after a prompt    *)
(* the key is written to the pairing file first.  A handler is taken from  *)
(* one await to the next: the lookup of the file, the prompt, the writing  *)
(* of the file, the end of the agent's session.  It goes on when its       *)
(* connection has closed meanwhile.                                        *)
(*                                                                         *)
(* An identity (extension id, instance and public key) is its key here;    *)
(* signatures are perfect, and nonces of session.hello are left out.       *)
(***************************************************************************)
EXTENDS Integers, Sequences, FiniteSets, SequencesExt

CONSTANTS
  Conns,           \* accepted sockets; each is used once
  Keys,            \* keys of the browser profiles
  None,            \* a model value: undefined
  MaxTime,         \* bound on the clock
  MaxChallenges,   \* bound on the challenges made on a connection
  MaxCalls,        \* bound on the calls of browser.auth
  ChallengeTTL,    \* BROWSER_CHALLENGE_TTL_MS
  PromptTimeout,   \* the timeout of executeFile: the prompt is killed
  PromptCooldown,  \* PAIRING_PROMPT_COOLDOWN_MS
  AttemptWindow,   \* PAIRING_ATTEMPT_WINDOW_MS
  Attempts,        \* PAIRING_ATTEMPTS_PER_CONNECTION
  GlobalWindow,    \* GLOBAL_PAIRING_ATTEMPT_WINDOW_MS
  GlobalAttempts   \* GLOBAL_PAIRING_ATTEMPTS

ASSUME PairingAssumption ==
  /\ None \notin Keys \cup Conns \cup Nat
  /\ MaxTime \in Nat /\ MaxChallenges \in Nat /\ MaxCalls \in Nat
  /\ {ChallengeTTL, PromptTimeout, PromptCooldown, AttemptWindow, Attempts,
      GlobalWindow, GlobalAttempts} \subseteq Nat \ {0}

VARIABLES
  now,                    \* Date.now(), in the unit of the constants
  profile,                \* profile[c]: the key of the browser profile behind c
  calls,                  \* the calls of browser.auth so far
  open,                   \* connections that have not closed
  role,                   \* role[c]: of context, or none before session.hello
  browserChallenge,       \* per connection, as the four below
  browserChallengePairsKey,
  browserAuthTransitionActive,
  pairingAttempts,
  handler,                \* handler[c]: what its authentication handler awaits, and for what
  pairingPromptActive,
  lastPairingPromptAt,
  globalPairingAttempts,
  pairingFile,            \* the key in browser-pairing.json
  made,                   \* made[c]: challenges made on c; the last one is number made[c]
  prompts,                \* history: the prompts shown
  consumed,               \* history: consumed[c], the challenges completions have used up
  proven,                 \* history: proven[c], the challenge whose proof was accepted
  paired                  \* history: the pairings written, oldest first

authentication ==
  <<browserChallenge, browserChallengePairsKey, browserAuthTransitionActive, handler, made>>
admission ==
  <<pairingAttempts, pairingPromptActive, lastPairingPromptAt, globalPairingAttempts, prompts>>
history == <<consumed, proven, paired>>
vars == <<now, profile, calls, open, role, authentication, admission, pairingFile, history>>

Times == 0..MaxTime
Challenges == [id: 1..MaxChallenges, key: Keys, expiresAt: Nat]
NoChallenge == [id |-> 0, key |-> None, expiresAt |-> 0]
Awaiting(at, challenge, pairs) == [at |-> at, challenge |-> challenge, pairs |-> pairs]
Nothing == Awaiting("nothing", NoChallenge, FALSE)

TypeOK ==
  /\ now \in Times /\ profile \in [Conns -> Keys]
  /\ calls \in 0..MaxCalls /\ open \subseteq Conns
  /\ role \in [Conns -> {"none", "agent", "browser"}]
  /\ browserChallenge \in [Conns -> Challenges \cup {NoChallenge}]
  /\ browserChallengePairsKey \in [Conns -> BOOLEAN]
  /\ browserAuthTransitionActive \in [Conns -> BOOLEAN]
  /\ pairingAttempts \in [Conns -> Seq(Times)]
  /\ handler \in [Conns -> [at: {"nothing", "lookup", "paired", "unpaired", "prompt", "persist",
                                 "disconnect"},
                            challenge: Challenges \cup {NoChallenge}, pairs: BOOLEAN]]
  /\ pairingPromptActive \in BOOLEAN /\ lastPairingPromptAt \in Times \cup {None}
  /\ globalPairingAttempts \in Seq(Times)
  /\ pairingFile \in Keys \cup {None}
  /\ made \in [Conns -> 0..MaxChallenges]
  /\ \A i \in DOMAIN prompts :
       /\ prompts[i].conn \in Conns /\ prompts[i].from \in Times
       /\ prompts[i].to \in Times \cup {None} /\ prompts[i].approved \in 0..MaxChallenges
  /\ consumed \in [Conns -> Seq(1..MaxChallenges)]
  /\ proven \in [Conns -> Challenges \cup {NoChallenge}]

Init ==
  /\ now = 0 /\ profile \in [Conns -> Keys]
  /\ calls = 0 /\ open = Conns /\ role = [c \in Conns |-> "none"]
  /\ browserChallenge = [c \in Conns |-> NoChallenge]
  /\ browserChallengePairsKey = [c \in Conns |-> FALSE]
  /\ browserAuthTransitionActive = [c \in Conns |-> FALSE]
  /\ pairingAttempts = [c \in Conns |-> <<>>]
  /\ handler = [c \in Conns |-> Nothing]
  /\ pairingPromptActive = FALSE /\ lastPairingPromptAt = None /\ globalPairingAttempts = <<>>
  /\ pairingFile \in Keys \cup {None}
  /\ made = [c \in Conns |-> 0] /\ prompts = <<>>
  /\ consumed = [c \in Conns |-> <<>>] /\ proven = [c \in Conns |-> NoChallenge]
  /\ paired = IF pairingFile = None THEN <<>>
              ELSE <<[key |-> pairingFile, conn |-> None, id |-> 0, at |-> 0]>>

-----------------------------------------------------------------------------
(* Connections *)

\* session.hello: whatever role is claimed, it is an agent's connection.
Hello(c) ==
  /\ c \in open /\ role[c] = "none"
  /\ role' = [role EXCEPT ![c] = "agent"]
  /\ UNCHANGED <<now, profile, calls, open, authentication, admission, pairingFile, history>>

\* No handler is told.
Close(c) ==
  /\ c \in open
  /\ open' = open \ {c}
  /\ UNCHANGED <<now, profile, calls, role, authentication, admission, pairingFile, history>>

\* The prompt is killed when its time is over.
PromptDue == \E c \in Conns : handler[c].at = "prompt" /\ Last(prompts).from + PromptTimeout <= now
Tick ==
  /\ now < MaxTime /\ ~PromptDue
  /\ now' = now + 1
  /\ UNCHANGED <<profile, calls, open, role, authentication, admission, pairingFile, history>>

-----------------------------------------------------------------------------
(* Reservations *)

\* clearExpiredBrowserChallenge
Expired(c) == browserChallenge[c] # NoChallenge /\ browserChallenge[c].expiresAt <= now

\* reserveBrowserAuthTransition: what it refuses changes nothing.
FreeForTransition(c) ==
  ~browserAuthTransitionActive[c] /\ (browserChallenge[c] = NoChallenge \/ Expired(c))

\* A call of an agent that has a key to prove.
MayAuthenticate(c) ==
  /\ calls < MaxCalls /\ calls' = calls + 1
  /\ c \in open /\ role[c] = "agent" /\ made[c] < MaxChallenges
  /\ FreeForTransition(c)

ClearChallenge(c) ==
  /\ browserChallenge' = [browserChallenge EXCEPT ![c] = NoChallenge]
  /\ browserChallengePairsKey' = [browserChallengePairsKey EXCEPT ![c] = FALSE]

Transition(c, active) ==
  browserAuthTransitionActive' = [browserAuthTransitionActive EXCEPT ![c] = active]

Await(c, at, challenge, pairs) ==
  handler' = [handler EXCEPT ![c] = Awaiting(at, challenge, pairs)]
Ended(c) == handler' = [handler EXCEPT ![c] = Nothing]

\* Mutant: every challenge pairs its key.
ChallengePairing(c, pairs) ==
  /\ made' = [made EXCEPT ![c] = @ + 1]
  /\ browserChallenge' = [browserChallenge EXCEPT ![c] =
       [id |-> made[c] + 1, key |-> profile[c], expiresAt |-> now + ChallengeTTL]]
  /\ browserChallengePairsKey' = [browserChallengePairsKey EXCEPT ![c] = TRUE]

\* createBrowserAuthChallenge
Challenge(c, pairs) ==
  /\ made' = [made EXCEPT ![c] = @ + 1]
  /\ browserChallenge' = [browserChallenge EXCEPT ![c] =
       [id |-> made[c] + 1, key |-> profile[c], expiresAt |-> now + ChallengeTTL]]
  /\ browserChallengePairsKey' = [browserChallengePairsKey EXCEPT ![c] = pairs]

NoChallengeMade == UNCHANGED <<made, browserChallenge, browserChallengePairsKey>>

\* The attempts are shifted from the front until the oldest is within the window.
Recent(times, window) ==
  SubSeq(times, Min({i \in DOMAIN times : times[i] > now - window} \cup {Len(times) + 1}),
         Len(times))

Cooling == lastPairingPromptAt # None /\ now - lastPairingPromptAt < PromptCooldown

-----------------------------------------------------------------------------
(* browser.auth.start *)

Start(c) ==
  /\ MayAuthenticate(c)
  /\ ClearChallenge(c) /\ Transition(c, TRUE) /\ Await(c, "lookup", NoChallenge, FALSE)
  /\ UNCHANGED <<now, profile, open, role, made, admission, pairingFile, history>>

\* isPairedBrowserKey reads the file; a file that cannot be read pairs nobody.
StartReads(c) ==
  /\ handler[c].at = "lookup"
  /\ \/ pairingFile = profile[c] /\ Await(c, "paired", NoChallenge, FALSE)
     \/ Await(c, "unpaired", NoChallenge, FALSE)
  /\ UNCHANGED <<now, profile, calls, open, role, browserChallenge, browserChallengePairsKey,
                 browserAuthTransitionActive, made, admission, pairingFile, history>>

StartEnds(c) ==
  /\ \/ handler[c].at = "paired" /\ Challenge(c, FALSE)
     \/ handler[c].at = "unpaired" /\ NoChallengeMade
  /\ Transition(c, FALSE) /\ Ended(c)
  /\ UNCHANGED <<now, profile, calls, open, role, admission, pairingFile, history>>

-----------------------------------------------------------------------------
(* browser.auth.pair *)

\* The attempt counts for the connection although a prompt is active or has just ended,
\* and for everyone only when a prompt is shown.
PairRefused(c) ==
  LET recent == Recent(pairingAttempts[c], AttemptWindow)
      everywhere == Recent(globalPairingAttempts, GlobalWindow)
      mine == Len(recent) < Attempts
      early == pairingPromptActive \/ Cooling IN
  /\ MayAuthenticate(c)
  /\ ~mine \/ early \/ Len(everywhere) >= GlobalAttempts
  /\ pairingAttempts' = [pairingAttempts EXCEPT ![c] = IF mine THEN Append(recent, now) ELSE recent]
  /\ globalPairingAttempts' = IF mine /\ ~early THEN everywhere ELSE globalPairingAttempts
  /\ ClearChallenge(c)
  /\ UNCHANGED <<now, profile, open, role, browserAuthTransitionActive, handler, made,
                 pairingPromptActive, lastPairingPromptAt, prompts, pairingFile, history>>

Pair(c) ==
  LET recent == Recent(pairingAttempts[c], AttemptWindow)
      everywhere == Recent(globalPairingAttempts, GlobalWindow) IN
  /\ MayAuthenticate(c)
  /\ Len(recent) < Attempts /\ ~pairingPromptActive /\ ~Cooling
  /\ Len(everywhere) < GlobalAttempts
  /\ pairingAttempts' = [pairingAttempts EXCEPT ![c] = Append(recent, now)]
  /\ globalPairingAttempts' = Append(everywhere, now)
  /\ pairingPromptActive' = TRUE
  /\ prompts' = Append(prompts, [conn |-> c, from |-> now, to |-> None, approved |-> 0])
  /\ ClearChallenge(c) /\ Transition(c, TRUE) /\ Await(c, "prompt", NoChallenge, FALSE)
  /\ UNCHANGED <<now, profile, open, role, made, lastPairingPromptAt, pairingFile, history>>

\* Mutant: the cooldown is measured from the launch of the prompt.
PromptStartedAt == Last(prompts).from

\* Mutant: the end of the cooldown is kept.
CooldownEndsAt == now + PromptCooldown

\* The cooldown is measured from dismissal.
PromptDismissedAt == now

\* Mutant: a prompt that is denied or fails stays active.
PromptOverIfApproved(approved) == pairingPromptActive' = ~approved

PromptOver(approved) == pairingPromptActive' = FALSE

\* The user approves or denies, or the prompt fails or is killed.
PromptEnds(c, approved) ==
  /\ handler[c].at = "prompt"
  /\ PromptOver(approved) /\ lastPairingPromptAt' = PromptDismissedAt
  /\ prompts' = [prompts EXCEPT ![Len(prompts)].to = now,
                                ![Len(prompts)].approved = IF approved THEN made[c] + 1 ELSE 0]
  /\ IF approved THEN Challenge(c, TRUE) ELSE NoChallengeMade
  /\ Transition(c, FALSE) /\ Ended(c)
  /\ UNCHANGED <<now, profile, calls, open, role, pairingAttempts, globalPairingAttempts,
                 pairingFile, history>>

-----------------------------------------------------------------------------
(* browser.auth.complete *)

\* Mutant: whatever challenge is there is taken.
AnyCompletion(c, id) == browserChallenge[c] # NoChallenge /\ ~Expired(c)

\* The challenge that a completion names.
Completes(c, id) == browserChallenge[c].id = id /\ ~Expired(c)

\* The peer answers one of the challenges it was given, with a proof or without.  The
\* challenge is consumed before its proof is verified.
Complete(c, id, proof) ==
  LET challenge == browserChallenge[c] IN
  /\ calls < MaxCalls /\ calls' = calls + 1
  /\ c \in open /\ role[c] = "agent" /\ ~browserAuthTransitionActive[c]
  /\ Completes(c, id)
  /\ ClearChallenge(c)
  /\ consumed' = [consumed EXCEPT ![c] = Append(@, id)]
  /\ IF proof /\ challenge.id = id
     THEN /\ Transition(c, TRUE)
          /\ Await(c, IF browserChallengePairsKey[c] THEN "persist" ELSE "disconnect",
                   challenge, browserChallengePairsKey[c])
          /\ proven' = [proven EXCEPT ![c] = challenge]
     ELSE UNCHANGED <<browserAuthTransitionActive, handler, proven>>
  /\ UNCHANGED <<now, profile, open, role, made, admission, pairingFile, paired>>

\* Mutant: the upgrade does not depend on the file.
GoesOn(c, written) ==
  /\ Await(c, "disconnect", handler[c].challenge, TRUE)
  /\ UNCHANGED browserAuthTransitionActive

\* Without the file the completion fails.
AfterPersisting(c, written) ==
  IF written
  THEN Await(c, "disconnect", handler[c].challenge, TRUE) /\ UNCHANGED browserAuthTransitionActive
  ELSE Ended(c) /\ Transition(c, FALSE)

\* persistApprovedBrowserPairing: the new file is renamed over the old one.  It may fail
\* before, or after at its chmod.
PersistEnds(c, renamed, written) ==
  /\ handler[c].at = "persist" /\ (written => renamed)
  /\ IF renamed
     THEN /\ pairingFile' = handler[c].challenge.key
          /\ paired' = Append(paired, [key |-> handler[c].challenge.key, conn |-> c,
                                       id |-> handler[c].challenge.id, at |-> now])
     ELSE UNCHANGED <<pairingFile, paired>>
  /\ AfterPersisting(c, written)
  /\ UNCHANGED <<now, profile, calls, open, role, browserChallenge, browserChallengePairsKey, made,
                 admission, consumed, proven>>

\* The agent's session has ended; when that fails, it remains the agent's connection.
UpgradeEnds(c, ok) ==
  /\ handler[c].at = "disconnect"
  /\ role' = IF ok THEN [role EXCEPT ![c] = "browser"] ELSE role
  /\ Transition(c, FALSE) /\ Ended(c)
  /\ UNCHANGED <<now, profile, calls, open, browserChallenge, browserChallengePairsKey, made,
                 admission, pairingFile, history>>

-----------------------------------------------------------------------------
BrowserAuthCalls(c) ==
  \/ Start(c) \/ PairRefused(c) \/ Pair(c)
  \/ \E id \in 1..MaxChallenges, proof \in BOOLEAN : Complete(c, id, proof)

\* What a handler waits for.
HandlerStep(c) ==
  \/ StartReads(c) \/ StartEnds(c)
  \/ \E approved \in BOOLEAN : PromptEnds(c, approved)
  \/ \E renamed, written \in BOOLEAN : PersistEnds(c, renamed, written)
  \/ \E ok \in BOOLEAN : UpgradeEnds(c, ok)

Next == Tick \/ \E c \in Conns : Hello(c) \/ Close(c) \/ BrowserAuthCalls(c) \/ HandlerStep(c)

Spec == Init /\ [][Next]_vars

-----------------------------------------------------------------------------
(* Properties *)

\* The user is asked one thing at a time, not again within the cooldown of the last
\* answer, and never more often than the limit in any window of time, from whichever
\* connections the calls come and however they end (browser.auth.pair).
PromptsSpaced ==
  \A i, j \in DOMAIN prompts : i < j =>
    /\ prompts[i].to # None /\ prompts[j].from - prompts[i].to >= PromptCooldown
    /\ j - i >= GlobalAttempts => prompts[j].from - prompts[i].from >= GlobalWindow

\* Only the user's consent pairs a browser: whatever is written to the pairing file is the
\* key of a profile that the user approved on the connection that completes, and that
\* proved the challenge made for that approval before it expired.
PairedByConsent ==
  \A i \in DOMAIN paired : paired[i].conn # None =>
    LET c == paired[i].conn IN
    /\ paired[i].key = profile[c]
    /\ proven[c].id >= paired[i].id
    /\ \E j \in DOMAIN prompts :
         /\ prompts[j].conn = c /\ prompts[j].approved = paired[i].id
         /\ prompts[j].to # None /\ prompts[j].to <= paired[i].at

\* A browser's connection is that of a profile which has been paired, and which proved it
\* on this connection with a challenge that nobody had used (browser.auth.complete).
BrowsersProven ==
  \A c \in Conns :
    /\ IsInjective(consumed[c])
    /\ role[c] = "browser" =>
         /\ proven[c].id \in Range(consumed[c]) /\ proven[c].key = profile[c]
         /\ \E i \in DOMAIN paired : paired[i].key = profile[c]

\* A challenge that a peer was given stays until it expires or is completed: no call that
\* runs meanwhile on the connection replaces it, and no completion of another one takes it.
ChallengeKept ==
  [][\A c \in Conns :
       LET challenge == browserChallenge[c] IN
       challenge # NoChallenge /\ browserChallenge'[c] # challenge =>
         challenge.expiresAt <= now \/ challenge.id \in Range(consumed'[c])]_vars

\* No connection is left busy, and the prompt is not left taken: the flags are set exactly
\* while a handler runs that will reset them, whatever fails or closes meanwhile.
BusyOnlyWhileRunning ==
  /\ \A c \in Conns : browserAuthTransitionActive[c] <=> handler[c] # Nothing
  /\ pairingPromptActive <=> \E c \in Conns : handler[c].at = "prompt"

=============================================================================
