SPECIFICATION Spec
CONSTANTS
  None = None
  Conns = {c1, c2}
  Keys = {k1, k2}
  MaxTime = 3
  MaxChallenges = 2
  MaxCalls = 4
  ChallengeTTL = 2
  PromptTimeout = 2
  PromptCooldown = 1
  AttemptWindow = 2
  Attempts = 2
  GlobalWindow = 3
  GlobalAttempts = 2
SYMMETRY Symmetry
INVARIANTS TypeOK PromptsSpaced PairedByConsent BrowsersProven BusyOnlyWhileRunning
PROPERTIES ChallengeKept
CHECK_DEADLOCK FALSE
