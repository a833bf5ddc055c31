\* One request over up to three connections, two faults.
CONSTANTS
  r1 = r1
  NoReq = NoReq
  Requests <- OneRequest
  MaxConns = 3
  MaxFaults = 2
  MaxPings = 1
  IdleTicks = 1
SPECIFICATION FairSpec
INVARIANT TypeOK
INVARIANT AtMostOnce
INVARIANT ReadyAgreement
INVARIANT NoStrandedRequest
PROPERTY CallsOnlyWhenReady
PROPERTY ImplementsContract
PROPERTY EventuallyLinked
