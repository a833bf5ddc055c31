\* What get_running_scene_tree promises, in an engine without the session callbacks.
CONSTANTS
  Absent = Absent
  None = None
  Target = "b"
  Values = {"b"}
  MAX_EVENTS = 2
  EventsRead = 2
  SessionCallbacks = {FALSE}
  MaxRuns = 2
  MaxChanges = 0
  MaxCommands = 0
CHECK_DEADLOCK FALSE
SPECIFICATION Spec
INVARIANT ReadIsOfThisRun
