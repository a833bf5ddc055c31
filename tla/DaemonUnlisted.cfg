\* Two proxies that start together, against what the daemon documents.
CONSTANTS
  d1 = d1 d2 = d2 d3 = d3
  l1 = l1 l2 = l2 l3 = l3
  Nobody = Nobody
  Foreign = Foreign
  Absent = Absent
  Partial = Partial
  Daemons <- TwoDaemons
  Launchers <- TwoLaunchers
CHECK_DEADLOCK FALSE
SPECIFICATION Spec
INVARIANT ServingIsListed
