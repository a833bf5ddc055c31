\* Three sessions, one proxy with a call, chunks of up to three frames: the cache,
\* and everything that must eventually happen.
CONSTANTS
  s1 = s1 s2 = s2 s3 = s3
  p1 = p1
  k1 = k1
  NoSession = NoSession
  NoCall = NoCall
  Sessions <- ThreeSessions
  Proxies = {p1}
  Calls <- OneCall
  Owner <- OwnerOne
  MaxChunk = 3
CHECK_DEADLOCK FALSE
SPECIFICATION FairSpec
INVARIANT TypeOK
INVARIANT HeldByReady
INVARIANT ActiveTracksReady
INVARIANT CacheAgrees
PROPERTY ImplementsRegistry
PROPERTY CallsSettle
PROPERTY ClosedLeavesCache
