\* What RemoteAddonSession documents, against the order in which main() applies things.
CONSTANTS
  s1 = s1 s2 = s2 s3 = s3
  p1 = p1
  k1 = k1
  NoSession = NoSession
  NoCall = NoCall
  Sessions <- TwoSessions
  Proxies = {p1}
  Calls <- NoCalls
  Owner <- NoOwner
  MaxChunk = 2
CHECK_DEADLOCK FALSE
SPECIFICATION Spec
INVARIANT CacheAlwaysAgrees
