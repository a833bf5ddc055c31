\* Every tool; an editor that restarts with other levels stands for the next one.
CONSTANTS
  e1 = e1
  NoEditor = NoEditor
  NoHello = NoHello
  Unset = Unset
  Unknown = Unknown
  Editors <- OneEditor
  Tools <- AllTools
  Envs = {Unset, Unknown, "ReadOnly"}
  Settings = {"Dangerous", Unknown}
  Varying = {"commands"}
CHECK_DEADLOCK FALSE
SPECIFICATION Spec
INVARIANT TypeOK
INVARIANT UsableIsServedToWriters
PROPERTY ServedWithinPolicy
