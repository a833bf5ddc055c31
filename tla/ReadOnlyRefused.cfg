\* What the manifest enables at ReadOnly, against what the services answer.
CONSTANTS
  e1 = e1
  NoEditor = NoEditor
  NoHello = NoHello
  Unset = Unset
  Unknown = Unknown
  Editors <- OneEditor
  Tools <- AllTools
  Envs = {Unset, Unknown, "ReadOnly"}
  Settings = {"Dangerous", Unknown}
  Varying = {"commands"}
CHECK_DEADLOCK FALSE
SPECIFICATION Spec
INVARIANT UsableIsServed
