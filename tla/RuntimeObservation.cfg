\* Two runs of a scene that changes, is paused, clicked and waited for, in an engine
\* with and in one without the session callbacks.
CONSTANTS
  Absent = Absent
  None = None
  Target = "b"
  Values = {"a", "b"}
  MAX_EVENTS = 2
  EventsRead = 2
  SessionCallbacks = {TRUE, FALSE}
  MaxRuns = 2
  MaxChanges = 2
  MaxCommands = 2
CHECK_DEADLOCK FALSE
SPECIFICATION FairSpec
INVARIANT TypeOK
INVARIANT StaleOnlyAtStart
INVARIANT LastSentIsKept
INVARIANT PauseIsReported
PROPERTY SnapshotCatchesUp
PROPERTY WaitEnds
