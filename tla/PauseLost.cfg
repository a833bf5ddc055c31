\* What pause_scene promises, against a command sent before the game is connected.
CONSTANTS
  Absent = Absent
  None = None
  Target = "b"
  Values = {"b"}
  MAX_EVENTS = 2
  EventsRead = 2
  SessionCallbacks = {TRUE}
  MaxRuns = 1
  MaxChanges = 0
  MaxCommands = 1
CHECK_DEADLOCK FALSE
SPECIFICATION FairSpec
PROPERTY PauseTakesEffect
