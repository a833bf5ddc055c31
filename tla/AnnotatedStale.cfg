\* What get_annotated_screenshot promises, against the events it reads.
CONSTANTS
  Absent = Absent
  None = None
  Target = "b"
  Values = {"b"}
  MAX_EVENTS = 2
  EventsRead = 2
  SessionCallbacks = {TRUE}
  MaxRuns = 2
  MaxChanges = 0
  MaxCommands = 2
CHECK_DEADLOCK FALSE
SPECIFICATION Spec
PROPERTY AnnotatesRunningScene
