------------------------ MODULE AccessControl_proofs ------------------------
(***************************************************************************)
(* What is served, for any editors, configurations and sets of tools.      *)
(***************************************************************************)
EXTENDS AccessControl, TLAPS

\* What the level of an editor, and its project, must allow for t.
AddonAllows(e, t) ==
  /\ MinimumLevel(t) # "ReadOnly" => AtLeast(e, MinimumLevel(t))
  /\ t = "execute_editor_script" => "editorScript" \in facts[e]
  /\ t = "filesystem_write_raw" => "prefixes" \in facts[e]
  /\ t = "os_shell" => "commands" \in facts[e]

\* A call on its way has passed the server's own level.
LetThrough ==
  call.stage # "idle" =>
    call.tool \in Tools /\ Rank(serverLevel) >= Rank(MinimumLevel(call.tool))

\* What a call consists of, whatever was known when it was checked.
CallRecord ==
  call = [tool |-> call.tool, checked |-> call.checked, stage |-> call.stage, at |-> call.at]

Inv == serverLevel \in Levels /\ CallRecord /\ LetThrough

-----------------------------------------------------------------------------
(* The services *)

\* The observation and the project service serve no writing tool below its level.
LEMMA EarlyServicesGuard ==
  ASSUME NEW e, NEW t, t \in WriteTools,
         ObservationAnswer(e, t) = "served" \/ ProjectAnswer(e, t) = "served"
  PROVE  AtLeast(e, "WorkspaceWrite")
<1>1. CASE ObservationAnswer(e, t) = "served"
  BY <1>1 DEF ObservationAnswer, WriteTools
<1>2. CASE ProjectAnswer(e, t) = "served"
  BY <1>2 DEF ProjectAnswer, WriteTools
<1> QED
  BY <1>1, <1>2

\* The workspace service lets nothing past it without WorkspaceWrite.
LEMMA WorkspaceGuards ==
  ASSUME NEW e, NEW t, ~AtLeast(e, "WorkspaceWrite")
  PROVE  WorkspaceAnswer(e, t) = "refused"
BY DEF WorkspaceAnswer

LEMMA ServedToWriters ==
  ASSUME NEW e, NEW t, t \in WriteTools, Answer(e, t) = "served"
  PROVE  AtLeast(e, "WorkspaceWrite")
<1> SUFFICES ASSUME ~AtLeast(e, "WorkspaceWrite") PROVE FALSE
  OBVIOUS
<1>1. ObservationAnswer(e, t) # "served" /\ ProjectAnswer(e, t) # "served"
  BY EarlyServicesGuard
<1>2. WorkspaceAnswer(e, t) = "refused"
  BY WorkspaceGuards
<1> QED
  BY <1>1, <1>2 DEF Answer, FirstAnswer

\* No service before the dangerous one knows its methods.
LEMMA DangerousIsLast ==
  ASSUME NEW e, NEW t, t \in DangerousTools, Answer(e, t) = "served"
  PROVE  DangerousAnswer(e, t) = "served"
<1>1. ObservationAnswer(e, t) = "unhandled"
  BY DEF DangerousTools, ObservationAnswer
<1>2. ProjectAnswer(e, t) = "unhandled"
  BY DEF DangerousTools, ProjectAnswer
<1>3. WorkspaceAnswer(e, t) # "served"
  BY DEF DangerousTools, WorkspaceAnswer
<1>4. VerificationAnswer(e, t) = "unhandled"
  BY DEF DangerousTools, VerificationAnswer
<1> QED
  BY <1>1, <1>2, <1>3, <1>4 DEF Answer, FirstAnswer

LEMMA ServedIsAllowed ==
  ASSUME NEW e, NEW t, Answer(e, t) = "served"
  PROVE  AddonAllows(e, t)
<1>1. CASE t \in DangerousTools
  <2>1. DangerousAnswer(e, t) = "served"
    BY <1>1, DangerousIsLast
  <2>2. MinimumLevel(t) = "Dangerous"
    BY <1>1 DEF MinimumLevel
  <2> QED
    BY <1>1, <2>1, <2>2 DEF DangerousAnswer, AddonAllows
<1>2. CASE t \notin DangerousTools
  <2>1. t # "execute_editor_script" /\ t # "filesystem_write_raw" /\ t # "os_shell"
    BY <1>2 DEF DangerousTools
  <2>2. CASE t \in WriteTools
    <3>1. AtLeast(e, "WorkspaceWrite")
      BY <2>2, ServedToWriters
    <3> QED
      BY <1>2, <2>1, <2>2, <3>1 DEF MinimumLevel, AddonAllows
  <2>3. CASE t \notin WriteTools
    BY <1>2, <2>1, <2>3 DEF MinimumLevel, AddonAllows
  <2> QED
    BY <2>2, <2>3
<1> QED
  BY <1>1, <1>2

-----------------------------------------------------------------------------
(* The server *)

\* What is read unchecked takes no more than the level that every server has.
LEMMA UncheckedIsReadOnly ==
  ASSUME NEW t, t \in ResourceMethods \cup {"get_output_logs", "get_godot_errors"},
         serverLevel \in Levels
  PROVE  Rank(serverLevel) >= Rank(MinimumLevel(t))
<1>1. t \notin DangerousTools /\ t \notin WriteTools
  BY DEF ResourceMethods, DangerousTools, WriteTools
<1>2. MinimumLevel(t) = "ReadOnly"
  BY <1>1 DEF MinimumLevel
<1>3. Rank("ReadOnly") = 1 /\ Rank(serverLevel) \in 1..3
  BY DEF Rank, Levels
<1> QED
  BY <1>2, <1>3

LEMMA InitInv == Init => Inv
BY DEF Init, Inv, CallRecord, LetThrough, Idle

LEMMA NextInv == Inv /\ [Next]_vars => Inv'
<1> SUFFICES ASSUME Inv, [Next]_vars PROVE Inv'
  OBVIOUS
<1> USE DEF Inv, CallRecord, LetThrough, Idle
<1>1. ASSUME NEW e \in Editors, StartBridge(e) \/ StopBridge(e) \/ LoseConnection(e) PROVE Inv'
  <2>1. call' = Idle \/ UNCHANGED call
    BY <1>1 DEF StartBridge, StopBridge, LoseConnection, CloseSession, callVars
  <2>2. UNCHANGED serverLevel
    BY <1>1 DEF StartBridge, StopBridge, LoseConnection
  <2> QED
    BY <2>1, <2>2 DEF MinimumLevel
<1>2. ASSUME NEW e \in Editors, Relaunch(e) \/ Configure(e) \/ Activate(e) PROVE Inv'
  BY <1>2 DEF Relaunch, Configure, Activate, serverVars, callVars, MinimumLevel
<1>3. CASE LearnActive
  BY <1>3 DEF LearnActive, callVars, MinimumLevel
<1>4. ASSUME NEW t \in Tools, CallTool(t) PROVE Inv'
  BY <1>4 DEF CallTool, Request, Advertised, serverVars, MinimumLevel
<1>5. ASSUME NEW t \in Tools, ReadUnchecked(t) PROVE Inv'
  <2>1. Rank(serverLevel) >= Rank(MinimumLevel(t))
    BY <1>5, UncheckedIsReadOnly DEF ReadUnchecked
  <2> QED
    BY <1>5, <2>1 DEF ReadUnchecked, Request, serverVars, MinimumLevel
<1>6. CASE Relay
  <2>1. CASE call' = Idle
    BY <1>6, <2>1 DEF Relay, serverVars
  <2>2. CASE call' = [call EXCEPT !.stage = "arrived", !.at = active]
    <3>1. call' = [tool |-> call.tool, checked |-> call.checked, stage |-> "arrived", at |-> active]
      BY <2>2
    <3> QED
      BY <1>6, <3>1 DEF Relay, serverVars, MinimumLevel
  <2> QED
    BY <1>6, <2>1, <2>2 DEF Relay
<1>7. CASE HandleRequest
  <2>1. CASE call' = Idle
    BY <1>7, <2>1 DEF HandleRequest, serverVars
  <2>2. CASE call' = [call EXCEPT !.stage = "relayed", !.at = NoEditor]
    <3>1. call' = [tool |-> call.tool, checked |-> call.checked, stage |-> "relayed", at |-> NoEditor]
      BY <2>2
    <3> QED
      BY <1>7, <3>1 DEF HandleRequest, serverVars, MinimumLevel
  <2> QED
    BY <1>7, <2>1, <2>2 DEF HandleRequest
<1>8. CASE UNCHANGED vars
  BY <1>8 DEF vars, serverVars, callVars, MinimumLevel
<1> QED
  BY <1>1, <1>2, <1>3, <1>4, <1>5, <1>6, <1>7, <1>8 DEF Next

\* A step that serves a call is the editor's answer to it.
LEMMA ServingStep ==
  ASSUME Inv, [Next]_vars, Serves
  PROVE  Answer(call.at, call.tool) = "served"
<1> USE DEF Serves
<1>1. ASSUME NEW e \in Editors, StartBridge(e) \/ StopBridge(e) \/ LoseConnection(e) PROVE FALSE
  BY <1>1 DEF StartBridge, StopBridge, LoseConnection, CloseSession, callVars
<1>2. ASSUME NEW e \in Editors, Relaunch(e) \/ Configure(e) \/ Activate(e) PROVE FALSE
  BY <1>2 DEF Relaunch, Configure, Activate, callVars
<1>3. ASSUME NEW t \in Tools, CallTool(t) \/ ReadUnchecked(t) PROVE FALSE
  BY <1>3 DEF CallTool, ReadUnchecked
<1>4. CASE LearnActive \/ UNCHANGED vars
  BY <1>4 DEF LearnActive, vars, callVars
<1>5. CASE Relay
  BY <1>5 DEF Relay
<1>6. CASE HandleRequest
  BY <1>6 DEF HandleRequest
<1> QED
  BY <1>1, <1>2, <1>3, <1>4, <1>5, <1>6 DEF Next

\* Whichever editor a call reaches, however it was configured or replaced since
\* the server checked: it is served only within the server's level, the editor's
\* level at that moment and the opt-ins of its project.
THEOREM PolicyHolds == Spec => ServedWithinPolicy
<1>1. Inv /\ [Next]_vars => WithinPolicy
  <2> SUFFICES ASSUME Inv, [Next]_vars, Serves
               PROVE  /\ Rank(serverLevel) >= Rank(MinimumLevel(call.tool))
                      /\ AddonAllows(call.at, call.tool)
    BY DEF WithinPolicy, AddonAllows
  <2>1. Answer(call.at, call.tool) = "served"
    BY ServingStep
  <2>2. AddonAllows(call.at, call.tool)
    BY <2>1, ServedIsAllowed
  <2> QED
    BY <2>2 DEF Inv, LetThrough, Serves
<1>2. UNCHANGED vars => WithinPolicy
  BY DEF vars, callVars, WithinPolicy, Serves
<1> QED
  BY <1>1, <1>2, InitInv, NextInv, PTL DEF Spec, ServedWithinPolicy

-----------------------------------------------------------------------------
(* What is let through is served *)

\* What a server that checks a call against hello h lets through.
LetThroughBy(h, t) ==
  /\ t \in MCP_TOOLS
  /\ Rank(KnownLevel(h.level)) >= Rank(MinimumLevel(t))
  /\ RequiredCapabilities(t) \subseteq h.enabled

\* A call that carries what it was checked against passed that check.
CheckedInv ==
  call.stage # "idle" /\ call.checked # NoHello => LetThroughBy(call.checked, call.tool)

LEMMA InitChecked == Init => CheckedInv
BY DEF Init, CheckedInv, Idle

LEMMA NextChecked == CallRecord /\ CheckedInv /\ [Next]_vars => CheckedInv'
<1> SUFFICES ASSUME CallRecord, CheckedInv, [Next]_vars PROVE CheckedInv'
  OBVIOUS
<1> USE DEF CheckedInv, CallRecord, Idle
<1> HIDE DEF LetThroughBy
<1>1. ASSUME NEW e \in Editors, StartBridge(e) \/ StopBridge(e) \/ LoseConnection(e)
      PROVE  CheckedInv'
  BY <1>1 DEF StartBridge, StopBridge, LoseConnection, CloseSession, callVars
<1>2. ASSUME NEW e \in Editors, Relaunch(e) \/ Configure(e) \/ Activate(e) PROVE CheckedInv'
  BY <1>2 DEF Relaunch, Configure, Activate, callVars
<1>3. CASE LearnActive \/ UNCHANGED vars
  BY <1>3 DEF LearnActive, vars, callVars
<1>4. ASSUME NEW t \in Tools \cap MCP_TOOLS, CallTool(t) PROVE CheckedInv'
  <2>1. CASE UNCHANGED call
    BY <2>1
  <2>2. CASE Usable(t) /\ Request(t, view) /\ call' # call
    <3>1. /\ view # NoHello
          /\ call' = [tool |-> t, checked |-> view, stage |-> "relayed", at |-> NoEditor]
      BY <2>2 DEF Request
    <3>2. LetThroughBy(view, t)
      BY <2>2, <3>1 DEF Usable, LetThroughBy
    <3> QED
      BY <3>1, <3>2
  <2> QED
    BY <1>4, <2>1, <2>2 DEF CallTool
<1>5. ASSUME NEW t \in Tools, ReadUnchecked(t) PROVE CheckedInv'
  BY <1>5 DEF ReadUnchecked, Request
<1>6. CASE Relay
  <2>1. CASE call' = [call EXCEPT !.stage = "arrived", !.at = active]
    <3>1. call' = [tool |-> call.tool, checked |-> call.checked, stage |-> "arrived", at |-> active]
      BY <2>1
    <3> QED
      BY <1>6, <3>1 DEF Relay
  <2> QED
    BY <1>6, <2>1 DEF Relay
<1>7. CASE HandleRequest
  <2>1. CASE call' = [call EXCEPT !.stage = "relayed", !.at = NoEditor]
    <3>1. call' = [tool |-> call.tool, checked |-> call.checked, stage |-> "relayed", at |-> NoEditor]
      BY <2>1
    <3> QED
      BY <1>7, <3>1 DEF HandleRequest
  <2> QED
    BY <1>7, <2>1 DEF HandleRequest
<1> QED
  BY <1>1, <1>2, <1>3, <1>4, <1>5, <1>6, <1>7 DEF Next

\* Every tool of the catalog is some service's.
LEMMA ReadToolsServed ==
  ASSUME NEW e, AtLeast(e, "WorkspaceWrite"), NEW t \in ReadTools
  PROVE  Answer(e, t) = "served"
<1>1. CASE t \in {"get_project_info", "get_editor_state", "get_scene_tree", "find_nodes",
                  "get_open_scripts", "view_script", "get_output_logs", "get_godot_errors",
                  "get_menu_items"}
  <2>1. ObservationAnswer(e, t) = "served"
    BY <1>1 DEF ObservationAnswer
  <2> QED
    BY <2>1 DEF Answer, FirstAnswer
<1>2. CASE t \in {"search_project", "get_uid", "resolve_uid", "get_selection"}
  <2>1. ObservationAnswer(e, t) = "unhandled" /\ ProjectAnswer(e, t) = "served"
    BY <1>2 DEF ObservationAnswer, ProjectAnswer
  <2> QED
    BY <2>1 DEF Answer, FirstAnswer
<1>3. CASE t \in {"get_editor_screenshot", "get_running_scene_screenshot",
                  "get_annotated_screenshot", "get_runtime_debug_events",
                  "get_running_scene_tree", "get_running_node",
                  "get_running_node_property", "wait_for_runtime_condition",
                  "get_running_audio_players", "compile_project"}
  <2>1. ObservationAnswer(e, t) = "unhandled" /\ ProjectAnswer(e, t) = "unhandled"
    BY <1>3 DEF ObservationAnswer, ProjectAnswer
  <2>2. WorkspaceAnswer(e, t) = "unhandled"
    BY <1>3 DEF WorkspaceAnswer
  <2>3. VerificationAnswer(e, t) = "served"
    BY <1>3 DEF VerificationAnswer
  <2> QED
    BY <2>1, <2>2, <2>3 DEF Answer, FirstAnswer
<1> QED
  BY <1>1, <1>2, <1>3 DEF ReadTools

LEMMA WriteToolsServed ==
  ASSUME NEW e, AtLeast(e, "WorkspaceWrite"), NEW t \in WriteTools
  PROVE  Answer(e, t) = "served"
<1>1. CASE t = "clear_output_logs"
  <2>1. ObservationAnswer(e, t) = "served"
    BY <1>1 DEF ObservationAnswer
  <2> QED
    BY <2>1 DEF Answer, FirstAnswer
<1>2. CASE t \in {"resave_resources", "set_selection", "focus_node"}
  <2>1. ObservationAnswer(e, t) = "unhandled" /\ ProjectAnswer(e, t) = "served"
    BY <1>2 DEF ObservationAnswer, ProjectAnswer
  <2> QED
    BY <2>1 DEF Answer, FirstAnswer
<1>3. CASE t \in {"create_scene", "open_scene", "save_scene", "play_scene", "stop_scene",
                  "pause_scene", "add_node", "move_node", "delete_node", "update_property",
                  "create_script", "attach_script"}
  <2>1. ObservationAnswer(e, t) = "unhandled" /\ ProjectAnswer(e, t) = "unhandled"
    BY <1>3 DEF ObservationAnswer, ProjectAnswer
  <2>2. WorkspaceAnswer(e, t) = "served"
    BY <1>3 DEF WorkspaceAnswer
  <2> QED
    BY <2>1, <2>2 DEF Answer, FirstAnswer
<1>4. CASE t \in {"run_tests", "clear_runtime_debug_events", "simulate_mouse"}
  <2>1. ObservationAnswer(e, t) = "unhandled" /\ ProjectAnswer(e, t) = "unhandled"
    BY <1>4 DEF ObservationAnswer, ProjectAnswer
  <2>2. WorkspaceAnswer(e, t) = "unhandled"
    BY <1>4 DEF WorkspaceAnswer
  <2>3. VerificationAnswer(e, t) = "served"
    BY <1>4 DEF VerificationAnswer
  <2> QED
    BY <2>1, <2>2, <2>3 DEF Answer, FirstAnswer
<1> QED
  BY <1>1, <1>2, <1>3, <1>4 DEF WriteTools

\* An announced capability has been looked for in the project.
LEMMA EnabledIsProbed ==
  ASSUME NEW e, NEW c \in Enabled(e), c \notin AlwaysEnabled
  PROVE  Probes(c) \subseteq facts[e]
BY DEF Enabled

\* Levels that the server knows and that reach the last one are the last one.
LEMMA DangerousLevel ==
  ASSUME NEW level, Rank(KnownLevel(level)) >= Rank("Dangerous")
  PROVE  level = "Dangerous"
<1>1. KnownLevel(level) \in Levels
  BY DEF KnownLevel, Levels
<1>2. Rank("ReadOnly") = 1 /\ Rank("WorkspaceWrite") = 2 /\ Rank("Dangerous") = 3
  BY DEF Rank
<1>3. KnownLevel(level) = "Dangerous"
  BY <1>1, <1>2 DEF Levels
<1> QED
  BY <1>3 DEF KnownLevel

LEMMA DangerousToolsServed ==
  ASSUME NEW e, AtLeast(e, "WorkspaceWrite"), NEW t \in DangerousTools,
         LetThroughBy(Identity(e), t)
  PROVE  Answer(e, t) = "served"
<1>1. Level(e) = "Dangerous"
  <2>1. Rank(KnownLevel(Level(e))) >= Rank("Dangerous")
    BY DEF LetThroughBy, MinimumLevel, Identity
  <2> QED
    BY <2>1, DangerousLevel
<1>2. AtLeast(e, "Dangerous")
  BY <1>1 DEF AtLeast, Rank
<1>3. RequiredCapabilities(t) \subseteq Enabled(e)
  BY DEF LetThroughBy, Identity
<1>4. t = "execute_editor_script" => "editorScript" \in facts[e]
  <2> SUFFICES ASSUME t = "execute_editor_script" PROVE "editorScript" \in facts[e]
    OBVIOUS
  <2>1. "danger.execute_editor_script" \in Enabled(e)
    BY <1>3 DEF RequiredCapabilities, NeededToRun
  <2>2. Probes("danger.execute_editor_script") \subseteq facts[e]
    BY <2>1, EnabledIsProbed DEF AlwaysEnabled
  <2> QED
    BY <2>2 DEF Probes
<1>5. t = "filesystem_write_raw" => "prefixes" \in facts[e]
  <2> SUFFICES ASSUME t = "filesystem_write_raw" PROVE "prefixes" \in facts[e]
    OBVIOUS
  <2>1. "danger.filesystem_write_raw" \in Enabled(e)
    BY <1>3 DEF RequiredCapabilities, NeededToRun
  <2>2. Probes("danger.filesystem_write_raw") \subseteq facts[e]
    BY <2>1, EnabledIsProbed DEF AlwaysEnabled
  <2> QED
    BY <2>2 DEF Probes
<1>6. t = "os_shell" => "commands" \in facts[e]
  <2> SUFFICES ASSUME t = "os_shell" PROVE "commands" \in facts[e]
    OBVIOUS
  <2>1. "danger.os_shell" \in Enabled(e)
    BY <1>3 DEF RequiredCapabilities, NeededToRun
  <2>2. Probes("danger.os_shell") \subseteq facts[e]
    BY <2>1, EnabledIsProbed DEF AlwaysEnabled
  <2> QED
    BY <2>2 DEF Probes
<1>7. DangerousAnswer(e, t) = "served"
  BY <1>2, <1>4, <1>5, <1>6 DEF DangerousAnswer
<1>8. ObservationAnswer(e, t) = "unhandled" /\ ProjectAnswer(e, t) = "unhandled"
  BY DEF DangerousTools, ObservationAnswer, ProjectAnswer
<1>9. WorkspaceAnswer(e, t) = "unhandled"
  BY DEF DangerousTools, WorkspaceAnswer
<1>10. VerificationAnswer(e, t) = "unhandled"
  BY DEF DangerousTools, VerificationAnswer
<1> QED
  BY <1>7, <1>8, <1>9, <1>10 DEF Answer, FirstAnswer

LEMMA IdentityIsHello == ASSUME NEW e PROVE Identity(e) # NoHello
<1>1. Level(e) \in Levels \cup {NoLevel}
  BY DEF Level, Normalize, Levels, DEFAULT_SECURITY_LEVEL
<1>2. Enabled(e) \subseteq Capabilities
  BY DEF Enabled, AlwaysEnabled, Capabilities, ReadCapabilities
<1> QED
  BY <1>1, <1>2, AccessAssumption DEF Identity

\* Catalog, manifest and services agree on every tool: for any editors and any
\* configuration, isEntryUsable() on current information lets nothing through that
\* an editor with WorkspaceWrite then turns down.
THEOREM LetThroughIsServed == Spec => []UsableIsServedToWriters
<1>1. CheckedInv => UsableIsServedToWriters
  <2> SUFFICES ASSUME CheckedInv, CurrentlyChecked, AtLeast(call.at, "WorkspaceWrite")
               PROVE  Answer(call.at, call.tool) = "served"
    BY DEF UsableIsServedToWriters
  <2>1. LetThroughBy(Identity(call.at), call.tool)
    BY IdentityIsHello DEF CheckedInv, CurrentlyChecked
  <2>2. call.tool \in ReadTools \cup WriteTools \cup DangerousTools
    BY <2>1 DEF LetThroughBy, MCP_TOOLS
  <2> QED
    BY <2>1, <2>2, ReadToolsServed, WriteToolsServed, DangerousToolsServed
<1>2. Inv => CallRecord
  BY DEF Inv
<1> QED
  BY <1>1, <1>2, InitInv, NextInv, InitChecked, NextChecked, PTL DEF Spec

-----------------------------------------------------------------------------
(* Types *)

\* Every method that the server sends is known to some service, which serves or
\* refuses it.
LEMMA AnswerIsKnown ==
  ASSUME NEW e, NEW t \in MCP_TOOLS \cup ResourceMethods
  PROVE  Answer(e, t) \in {"served", "refused"}
<1>1. CASE ~AtLeast(e, "WorkspaceWrite")
  <2>1. WorkspaceAnswer(e, t) = "refused"
    BY <1>1, WorkspaceGuards
  <2>2. /\ ObservationAnswer(e, t) \in {"served", "refused", "unhandled"}
        /\ ProjectAnswer(e, t) \in {"served", "refused", "unhandled"}
    BY DEF ObservationAnswer, ProjectAnswer
  <2> QED
    BY <2>1, <2>2 DEF Answer, FirstAnswer
<1>2. CASE AtLeast(e, "WorkspaceWrite")
  <2>1. CASE t \in DangerousTools
    <3>1. ObservationAnswer(e, t) = "unhandled" /\ ProjectAnswer(e, t) = "unhandled"
      BY <2>1 DEF DangerousTools, ObservationAnswer, ProjectAnswer
    <3>2. WorkspaceAnswer(e, t) = "unhandled" /\ VerificationAnswer(e, t) = "unhandled"
      BY <1>2, <2>1 DEF DangerousTools, WorkspaceAnswer, VerificationAnswer
    <3>3. DangerousAnswer(e, t) \in {"served", "refused"}
      BY <2>1 DEF DangerousAnswer
    <3> QED
      BY <3>1, <3>2, <3>3 DEF Answer, FirstAnswer
  <2>2. CASE t \in {"read_file", "inspect_node_file"}
    <3>1. ObservationAnswer(e, t) = "unhandled" /\ ProjectAnswer(e, t) = "served"
      BY <2>2 DEF ObservationAnswer, ProjectAnswer
    <3> QED
      BY <3>1 DEF Answer, FirstAnswer
  <2>3. \/ t \in ReadTools \cup WriteTools \cup DangerousTools
        \/ t \in {"read_file", "inspect_node_file"}
    BY DEF MCP_TOOLS, ResourceMethods, ReadTools
  <2> QED
    BY <1>2, <2>1, <2>2, <2>3, ReadToolsServed, WriteToolsServed
<1> QED
  BY <1>1, <1>2

LEMMA IdentityTyped == ASSUME NEW e PROVE Identity(e) \in Hellos
<1>1. Level(e) \in Levels \cup {NoLevel}
  BY DEF Level, Normalize, Levels, DEFAULT_SECURITY_LEVEL
<1>2. Enabled(e) \subseteq Capabilities
  BY DEF Enabled, AlwaysEnabled, Capabilities, ReadCapabilities
<1> QED
  BY <1>1, <1>2 DEF Identity, Hellos

\* A call on its way is one of the tools.
CallNamesTool == call.stage # "idle" => call.tool \in Tools

LEMMA InitTyped == Init => TypeOK /\ CallNamesTool
BY AccessAssumption DEF Init, TypeOK, CallNamesTool, Idle

LEMMA NextTyped ==
  TypeOK /\ CallNamesTool /\ [Next]_vars => (TypeOK /\ CallNamesTool)'
<1> SUFFICES ASSUME TypeOK, CallNamesTool, [Next]_vars PROVE (TypeOK /\ CallNamesTool)'
  OBVIOUS
<1> DEFINE Records == [tool : Tools \cup {"none"}, checked : Hellos \cup {NoHello},
                       stage : {"idle", "relayed", "arrived"}, at : Editors \cup {NoEditor}]
<1> USE DEF TypeOK, CallNamesTool
<1>0. Idle \in Records /\ Idle.stage = "idle"
  BY DEF Idle
<1>1. ASSUME NEW e \in Editors, CloseSession(e)
      PROVE  /\ active' \in Editors \cup {NoEditor}
             /\ call' \in Records /\ (call'.stage # "idle" => call'.tool \in Tools)
             /\ result' \in {"none", "no_ready_session", "tool_not_enabled", "fallback",
                             "served", "refused", "rejected"}
  BY <1>0, <1>1 DEF CloseSession, callVars
<1>2. ASSUME NEW e \in Editors, StartBridge(e) PROVE (TypeOK /\ CallNamesTool)'
  BY <1>1, <1>2, IdentityTyped DEF StartBridge
<1>3. ASSUME NEW e \in Editors, StopBridge(e) \/ LoseConnection(e)
      PROVE  (TypeOK /\ CallNamesTool)'
  BY <1>1, <1>3 DEF StopBridge, LoseConnection, addonVars
<1>4. ASSUME NEW e \in Editors, Relaunch(e) \/ Activate(e) PROVE (TypeOK /\ CallNamesTool)'
  BY <1>4, AccessAssumption DEF Relaunch, Activate, addonVars, serverVars, callVars
<1>5. ASSUME NEW e \in Editors, Configure(e) PROVE (TypeOK /\ CallNamesTool)'
  <2>1. setting' \in [Editors -> Levels \cup {Unknown}]
    BY <1>5, AccessAssumption DEF Configure
  <2>2. facts' \in [Editors -> SUBSET Facts]
    BY <1>5, AccessAssumption DEF Configure
  <2> QED
    BY <1>5, <2>1, <2>2 DEF Configure, serverVars, callVars
<1>6. CASE LearnActive
  BY <1>6 DEF LearnActive, addonVars, callVars
<1>7. ASSUME NEW t \in Tools, NEW h \in Hellos \cup {NoHello}, Request(t, h)
      PROVE  /\ call' \in Records /\ (call'.stage # "idle" => call'.tool \in Tools)
             /\ result' \in {"none", "no_ready_session", "tool_not_enabled", "fallback",
                             "served", "refused", "rejected"}
  BY <1>7 DEF Request
<1>8. ASSUME NEW t \in Tools, CallTool(t) PROVE (TypeOK /\ CallNamesTool)'
  BY <1>7, <1>8 DEF CallTool, addonVars, serverVars
<1>9. ASSUME NEW t \in Tools, ReadUnchecked(t) PROVE (TypeOK /\ CallNamesTool)'
  BY <1>7, <1>9 DEF ReadUnchecked, addonVars, serverVars
<1>10. CASE Relay
  BY <1>0, <1>10 DEF Relay, addonVars, serverVars
<1>11. CASE HandleRequest
  <2>1. call.tool \in MCP_TOOLS \cup ResourceMethods
    BY <1>11, AccessAssumption DEF HandleRequest
  <2>2. result' \in {"served", "refused"}
    BY <1>11, <2>1, AnswerIsKnown DEF HandleRequest
  <2> QED
    BY <1>0, <1>11, <2>2 DEF HandleRequest, addonVars, serverVars
<1>12. CASE UNCHANGED vars
  BY <1>12 DEF vars, addonVars, serverVars, callVars
<1> QED
  BY <1>2, <1>3, <1>4, <1>5, <1>6, <1>8, <1>9, <1>10, <1>11, <1>12 DEF Next

\* Every variable keeps its type; above all, every method that the server sends
\* is known to one of the services, in an editor of any level.
THEOREM AccessTypeCorrect == Spec => []TypeOK
<1> QED
  BY InitTyped, NextTyped, PTL DEF Spec
=============================================================================
