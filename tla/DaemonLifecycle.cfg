\* Three proxies that start at any time.
CONSTANTS
  d1 = d1 d2 = d2 d3 = d3
  l1 = l1 l2 = l2 l3 = l3
  Nobody = Nobody
  Foreign = Foreign
  Absent = Absent
  Partial = Partial
  Daemons <- ThreeDaemons
  Launchers <- ThreeLaunchers
CHECK_DEADLOCK FALSE
SPECIFICATION FairSpec
INVARIANT TypeOK
INVARIANT PortsTogether
INVARIANT ListedWasUp
INVARIANT ListedUnlessOverlapped
PROPERTY LauncherEnds
PROPERTY NoLingering
