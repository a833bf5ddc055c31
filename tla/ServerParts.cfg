\* Three sessions with a call; two requests with frames around the limit; logs of
\* up to three lines in two seconds; three external runs.
CONSTANTS
  NoSession = NoSession
  Sessions = {s1, s2, s3}
  Calls = {k1}
  Junk = Junk
  Requests = {q1, q2}
  HeaderBytes = 4
  MaxFrame = 2
  Sizes = {1, 2, 3}
  Growth = {0, 1}
  MaxJunk = 2
  Limit = 1
  RingSize = 2
  MaxLines = 3
  MaxClock = 2
  NoRun = NoRun
  Runs = {r1, r2, r3}
CHECK_DEADLOCK FALSE
SPECIFICATION PartsSpec
INVARIANT PartsTypeOK
INVARIANT AuditNamesExecutor
INVARIANT DecodedAsWritten
INVARIANT LimitsAgree
INVARIANT ClearedStaysCleared
INVARIANT ErrorsSurface
INVARIANT RuntimeLogIsOfThisRun
INVARIANT NoStrayRun
PROPERTY ImplementsRegistry
PROPERTY CallsAreRecorded
PROPERTY AnswersReachProxies
