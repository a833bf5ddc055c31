---------------------------- MODULE AccessControl ----------------------------
(***************************************************************************)
(* Which calls are offered, let through and served: the security level and *)
(* the capabilities that an editor announces when it connects, the check   *)
(* that the MCP server makes against what it knows of the active editor,   *)
(* and the checks that the addon's services make when a request arrives.   *)
(* A tool and the bridge method it is mapped to have one name here.        *)
(***************************************************************************)
EXTENDS Naturals, FiniteSets

CONSTANTS Editors,
          NoEditor, NoHello,
          Tools,        \* the tools that are called
          Envs,         \* values of GODOT_LOOP_MCP_SECURITY_LEVEL, Unset among them
          Settings,     \* values of the project setting for the level
          Unset, Unknown, \* no value, and one that is no level
          Varying       \* the facts about a project that differ or change

\* What the services look for in an editor and its project.
Facts == {"gui", "console", "telemetry", "adapter", "editorScript", "prefixes", "commands"}
Levels == {"ReadOnly", "WorkspaceWrite", "Dangerous"}
DEFAULT_SECURITY_LEVEL == "WorkspaceWrite"
Rank(level) ==
  CASE level = "ReadOnly" -> 1 [] level = "WorkspaceWrite" -> 2 [] level = "Dangerous" -> 3
    [] OTHER -> 0
-----------------------------------------------------------------------------
(* The tables of catalog.ts and capability_registry.gd. *)

\* minimumSecurityLevel, as in the rows of MCP_TOOLS.
DangerousTools ==
  {"execute_menu_item", "execute_editor_script", "filesystem_write_raw", "os_shell"}
WriteTools ==
  {"resave_resources", "set_selection", "focus_node", "create_scene", "open_scene",
   "save_scene", "play_scene", "stop_scene", "pause_scene", "add_node", "move_node",
   "delete_node", "update_property", "create_script", "attach_script", "run_tests",
   "clear_runtime_debug_events", "simulate_mouse", "clear_output_logs"}
ReadTools ==
  {"get_project_info", "search_project", "get_uid", "resolve_uid", "get_editor_state",
   "get_selection", "get_scene_tree", "find_nodes", "get_open_scripts", "view_script",
   "compile_project", "get_editor_screenshot", "get_running_scene_screenshot",
   "get_annotated_screenshot", "get_runtime_debug_events", "get_running_scene_tree",
   "get_running_node", "get_running_node_property", "wait_for_runtime_condition",
   "get_running_audio_players", "get_output_logs", "get_godot_errors", "get_menu_items"}
MCP_TOOLS == ReadTools \cup WriteTools \cup DangerousTools

MinimumLevel(t) ==
  IF t \in DangerousTools THEN "Dangerous"
  ELSE IF t \in WriteTools THEN "WorkspaceWrite" ELSE "ReadOnly"

\* requiredCapabilities: none, for get_editor_state, or one.
NeededToEdit(t) ==
  CASE t = "get_project_info" -> {"project.info"}
    [] t = "search_project" -> {"project.search"}
    [] t \in {"get_uid", "resolve_uid"} -> {"resource.uid"}
    [] t = "resave_resources" -> {"resource.resave"}
    [] t = "get_selection" -> {"editor.selection.read"}
    [] t = "set_selection" -> {"editor.selection.write"}
    [] t = "focus_node" -> {"editor.focus"}
    [] t \in {"get_scene_tree", "find_nodes"} -> {"scene.read"}
    [] t \in {"get_open_scripts", "view_script"} -> {"script.read"}
    [] t \in {"play_scene", "stop_scene", "pause_scene"} -> {"play.control"}
    [] t \in {"create_scene", "open_scene", "save_scene", "add_node", "move_node",
              "delete_node", "update_property"} -> {"scene.write"}
    [] t \in {"create_script", "attach_script"} -> {"script.write"}
    [] OTHER -> {}

NeededToRun(t) ==
  CASE t = "run_tests" -> {"tests.run"}
    [] t = "compile_project" -> {"compile.check"}
    [] t = "get_editor_screenshot" -> {"screenshot.editor"}
    [] t \in {"get_running_scene_screenshot", "get_annotated_screenshot"} -> {"screenshot.runtime"}
    [] t \in {"get_runtime_debug_events", "get_running_scene_tree", "get_running_node",
              "get_running_node_property", "wait_for_runtime_condition",
              "get_running_audio_players", "clear_runtime_debug_events"} -> {"runtime.debug"}
    [] t = "simulate_mouse" -> {"runtime.input"}
    [] t = "clear_output_logs" -> {"logs.clear"}
    [] t \in {"get_output_logs", "get_godot_errors"} -> {"logs.read"}
    [] t = "get_menu_items" -> {"editor.menu.read"}
    [] t = "execute_menu_item" -> {"editor.menu.execute"}
    [] t = "execute_editor_script" -> {"danger.execute_editor_script"}
    [] t = "filesystem_write_raw" -> {"danger.filesystem_write_raw"}
    [] t = "os_shell" -> {"danger.os_shell"}
    [] OTHER -> {}

RequiredCapabilities(t) == NeededToEdit(t) \cup NeededToRun(t)

\* The bridge methods that resources and templates read.
ResourceMethods ==
  {"get_project_info", "get_editor_state", "get_scene_tree", "get_selection", "get_open_scripts",
   "view_script", "read_file", "inspect_node_file", "resolve_uid"}

\* build_manifest: the level that a capability takes.
DangerousCapabilities ==
  {"danger.execute_editor_script", "danger.filesystem_write_raw", "danger.os_shell",
   "editor.menu.execute"}
WriteCapabilities ==
  {"editor.selection.write", "editor.focus", "scene.write", "script.write", "resource.resave",
   "logs.clear", "play.control", "tests.run", "runtime.input"}
ReadCapabilities ==
  {"project.info", "project.search", "editor.state", "editor.selection.read", "scene.read",
   "script.read", "resource.uid", "logs.read", "editor.console.capture", "screenshot.editor",
   "screenshot.runtime", "runtime.debug", "compile.check", "editor.menu.read"}
Capabilities == ReadCapabilities \cup WriteCapabilities \cup DangerousCapabilities

CapabilityLevel(c) ==
  IF c \in DangerousCapabilities THEN "Dangerous"
  ELSE IF c \in WriteCapabilities THEN "WorkspaceWrite" ELSE "ReadOnly"

\* No security level: what _normalize_security_level makes of an unknown value.
NoLevel == ""
-----------------------------------------------------------------------------
ASSUME AccessAssumption ==
  /\ NoEditor \notin Editors
  /\ NoHello \notin [level : Levels \cup {NoLevel}, enabled : SUBSET Capabilities]
  /\ Tools \subseteq MCP_TOOLS \cup ResourceMethods
  /\ Unset \notin Levels /\ Unknown \notin Levels \cup {Unset}
  /\ Envs \subseteq Levels \cup {Unset, Unknown}
  /\ Settings \subseteq Levels \cup {Unknown}
  /\ Varying \subseteq Facts

VARIABLES
  env, setting,  \* where an editor's level comes from
  facts,         \* what is so in an editor and its project
  hello,         \* the identity that its bridge client was built with
  serverLevel,   \* config.securityLevel of the MCP server
  active,        \* the editor of the active session
  view,          \* what the MCP server knows of the active session
  call, result   \* a tool call on its way, and how the last one ended

addonVars == <<env, setting, facts, hello>>
serverVars == <<serverLevel, active, view>>
callVars == <<call, result>>
vars == <<addonVars, serverVars, callVars>>

Idle == [tool |-> "none", checked |-> NoHello, stage |-> "idle", at |-> NoEditor]
Hellos == [level : Levels \cup {NoLevel}, enabled : SUBSET Capabilities]

TypeOK ==
  /\ env \in [Editors -> Levels \cup {Unset, Unknown}]
  /\ setting \in [Editors -> Levels \cup {Unknown}]
  /\ facts \in [Editors -> SUBSET Facts]
  /\ hello \in [Editors -> Hellos \cup {NoHello}]
  /\ serverLevel \in Levels
  /\ active \in Editors \cup {NoEditor}
  /\ view \in Hellos \cup {NoHello}
  /\ call \in [tool : Tools \cup {"none"}, checked : Hellos \cup {NoHello},
               stage : {"idle", "relayed", "arrived"}, at : Editors \cup {NoEditor}]
  /\ result \in {"none", "no_ready_session", "tool_not_enabled", "fallback",
                 "served", "refused", "rejected"}

Init ==
  /\ env \in [Editors -> Envs]
  /\ setting \in [Editors -> Settings]
  /\ facts = [e \in Editors |-> Facts]
  /\ hello = [e \in Editors |-> NoHello]
  /\ serverLevel \in Levels
  /\ active = NoEditor /\ view = NoHello
  /\ call = Idle /\ result = "none"
-----------------------------------------------------------------------------
(* Levels and capabilities of an editor. *)

\* Mutant of Normalize: an unknown value is passed through.
NormalizeNothing(v) == IF v = Unset THEN DEFAULT_SECURITY_LEVEL ELSE v

\* _normalize_security_level.
Normalize(v) ==
  IF v \in Levels THEN v ELSE IF v = Unset THEN DEFAULT_SECURITY_LEVEL ELSE NoLevel

\* read_security_level, at this moment.
Level(e) ==
  IF Normalize(env[e]) # NoLevel THEN Normalize(env[e]) ELSE Normalize(setting[e])

\* is_security_level_at_least.
AtLeast(e, required) == Rank(Level(e)) >= Rank(required)

\* Mutant of Probes: the allowlist of commands is not looked at.
ProbesNoCommands(c) ==
  CASE c \in {"editor.menu.read", "screenshot.editor", "screenshot.runtime", "runtime.debug"} -> {"gui"}
    [] c = "runtime.input" -> {"gui", "telemetry"}
    [] c = "editor.console.capture" -> {"console"}
    [] c = "tests.run" -> {"adapter"}
    [] c = "danger.execute_editor_script" -> {"editorScript"}
    [] c = "danger.filesystem_write_raw" -> {"prefixes"}
    [] OTHER -> {}

\* What the services' get_capability_overrides look for.  _build_capability_overrides
\* takes runtime.debug from the capture, which replaces the verification
\* service's answer and does not ask for the telemetry autoload.
Probes(c) ==
  CASE c \in {"editor.menu.read", "screenshot.editor", "screenshot.runtime", "runtime.debug"} -> {"gui"}
    [] c = "runtime.input" -> {"gui", "telemetry"}
    [] c = "editor.console.capture" -> {"console"}
    [] c = "tests.run" -> {"adapter"}
    [] c = "danger.execute_editor_script" -> {"editorScript"}
    [] c = "danger.filesystem_write_raw" -> {"prefixes"}
    [] c = "danger.os_shell" -> {"commands"}
    [] OTHER -> {}

\* project.info, editor.state, scene.read, script.read and logs.read are always
\* enabled: they are not passed through _capability_availability.
AlwaysEnabled == {"project.info", "editor.state", "scene.read", "script.read", "logs.read"}
Enabled(e) ==
  AlwaysEnabled
  \cup {c \in Capabilities : AtLeast(e, CapabilityLevel(c)) /\ Probes(c) \subseteq facts[e]}

\* build_client_identity.
Identity(e) == [level |-> Level(e), enabled |-> Enabled(e)]
-----------------------------------------------------------------------------
(* Editors come, go and are configured. *)

\* A session that closes rejects the call that waits for its answer.
CloseSession(e) ==
  /\ active' = IF active = e THEN NoEditor ELSE active
  /\ IF call.at = e
     THEN call' = Idle /\ result' = "rejected"
     ELSE UNCHANGED callVars

\* _start_bridge: at start or from the menu.  Reconnections keep the identity.
StartBridge(e) ==
  /\ hello' = [hello EXCEPT ![e] = Identity(e)]
  /\ CloseSession(e)
  /\ UNCHANGED <<env, setting, facts, serverLevel, view>>

\* Disconnected by hand, or the plugin is disabled, or the editor quits.
StopBridge(e) ==
  /\ hello[e] # NoHello
  /\ hello' = [hello EXCEPT ![e] = NoHello]
  /\ CloseSession(e)
  /\ UNCHANGED <<env, setting, facts, serverLevel, view>>

\* The editor is started again, from another environment.
Relaunch(e) ==
  /\ hello[e] = NoHello
  /\ \E v \in Envs \ {env[e]} : env' = [env EXCEPT ![e] = v]
  /\ UNCHANGED <<setting, facts, hello, serverVars, callVars>>

\* The project is edited.  Display and logger are those of the process.
Configure(e) ==
  /\ \/ /\ \E v \in Settings \ {setting[e]} : setting' = [setting EXCEPT ![e] = v]
        /\ UNCHANGED facts
     \/ /\ \E f \in Varying :
             /\ f \in {"gui", "console"} => hello[e] = NoHello
             /\ facts' = [facts EXCEPT ![e] = IF f \in @ THEN @ \ {f} ELSE @ \cup {f}]
        /\ UNCHANGED setting
  /\ UNCHANGED <<env, hello, serverVars, callVars>>
-----------------------------------------------------------------------------
(* The daemon: its registry is modelled in full by DaemonRelay. *)

Activate(e) ==
  /\ hello[e] # NoHello /\ active # e
  /\ active' = e
  /\ UNCHANGED <<addonVars, serverLevel, view, callVars>>

LoseConnection(e) ==
  /\ active = e
  /\ CloseSession(e)
  /\ UNCHANGED <<addonVars, serverLevel, view>>

\* The MCP server learns of the active session, in a proxy some time later.
LearnActive ==
  /\ view' = IF active = NoEditor THEN NoHello ELSE hello[active]
  /\ view' # view
  /\ UNCHANGED <<addonVars, serverLevel, active, callVars>>
-----------------------------------------------------------------------------
(* The MCP server: mcp/server.ts. *)

\* minSecurityLevel takes a level that it does not know for ReadOnly.
KnownLevel(level) == IF level \in Levels THEN level ELSE "ReadOnly"

\* shouldAdvertiseEntry; the SDK turns down calls of tools that are not.
Advertised(t) == Rank(serverLevel) >= Rank(MinimumLevel(t))

\* isEntryUsable; clear_output_logs is also exposed without a session.
Usable(t) ==
  /\ Rank(serverLevel) >= Rank(MinimumLevel(t))
  /\ view = NoHello => t = "clear_output_logs"
  /\ view # NoHello =>
       /\ Rank(KnownLevel(view.level)) >= Rank(MinimumLevel(t))
       /\ RequiredCapabilities(t) \subseteq view.enabled

\* callAddonPayload.
Request(t, checked) ==
  IF view = NoHello
  THEN /\ result' = IF t \in {"get_output_logs", "get_godot_errors"} THEN "fallback" ELSE "no_ready_session"
       /\ UNCHANGED call
  ELSE /\ call' = [tool |-> t, checked |-> checked, stage |-> "relayed", at |-> NoEditor]
       /\ UNCHANGED result

\* registerBridgeTool and the other tools that ask toolAccessDenied first.
CallTool(t) ==
  /\ call.stage = "idle"
  /\ Advertised(t) /\ t \notin {"get_output_logs", "get_godot_errors"}
  /\ \/ Usable(t) /\ Request(t, view)
     \/ /\ ~Usable(t)
        /\ result' = IF view = NoHello /\ t # "clear_output_logs"
                     THEN "no_ready_session" ELSE "tool_not_enabled"
        /\ UNCHANGED call
  /\ UNCHANGED <<addonVars, serverVars>>

\* Resources, templates and the log tools ask the editor unchecked.
ReadUnchecked(t) ==
  /\ call.stage = "idle"
  /\ t \in ResourceMethods \cup {"get_output_logs", "get_godot_errors"}
  /\ Request(t, NoHello)
  /\ UNCHANGED <<addonVars, serverVars>>

\* The request goes to the session that is active now.
Relay ==
  /\ call.stage = "relayed"
  /\ IF active = NoEditor
     THEN call' = Idle /\ result' = "rejected"
     ELSE call' = [call EXCEPT !.stage = "arrived", !.at = active] /\ UNCHANGED result
  /\ UNCHANGED <<addonVars, serverVars>>
-----------------------------------------------------------------------------
(* The addon: handle_request of each service, in the order of plugin.gd. *)

ObservationAnswer(e, t) ==
  CASE t = "clear_output_logs" -> IF AtLeast(e, "WorkspaceWrite") THEN "served" ELSE "refused"
    [] t \in {"get_project_info", "get_editor_state", "get_scene_tree", "find_nodes",
              "get_open_scripts", "view_script", "get_output_logs", "get_godot_errors",
              "get_menu_items"} -> "served"
    [] OTHER -> "unhandled"

ProjectAnswer(e, t) ==
  CASE t \in {"resave_resources", "set_selection", "focus_node"} ->
         IF AtLeast(e, "WorkspaceWrite") THEN "served" ELSE "refused"
    [] t \in {"search_project", "get_uid", "resolve_uid", "get_selection",
              "inspect_node_file", "read_file"} -> "served"
    [] OTHER -> "unhandled"

\* The level is asked for before the method is looked at.
WorkspaceAnswer(e, t) ==
  CASE ~AtLeast(e, "WorkspaceWrite") -> "refused"
    [] AtLeast(e, "WorkspaceWrite")
       /\ t \in {"create_scene", "open_scene", "save_scene", "play_scene", "stop_scene",
                 "pause_scene", "add_node", "move_node", "delete_node", "update_property",
                 "create_script", "attach_script"} -> "served"
    [] OTHER -> "unhandled"

VerificationAnswer(e, t) ==
  CASE t \in {"run_tests", "clear_runtime_debug_events"} ->
         IF AtLeast(e, "WorkspaceWrite") THEN "served" ELSE "refused"
    [] t \in {"get_editor_screenshot", "get_running_scene_screenshot", "get_annotated_screenshot",
              "get_runtime_debug_events", "get_running_scene_tree", "get_running_node",
              "get_running_node_property", "wait_for_runtime_condition",
              "get_running_audio_players", "compile_project", "simulate_mouse"} -> "served"
    [] OTHER -> "unhandled"

\* An argument outside an allowlist is refused; here one inside it is given, if
\* the list has any.
DangerousAnswer(e, t) ==
  CASE t \notin DangerousTools -> "unhandled"
    [] t \in DangerousTools ->
         IF AtLeast(e, "Dangerous")
            /\ (t = "execute_editor_script" => "editorScript" \in facts[e])
            /\ (t = "filesystem_write_raw" => "prefixes" \in facts[e])
            /\ (t = "os_shell" => "commands" \in facts[e])
         THEN "served" ELSE "refused"

FirstAnswer(first, otherwise) == IF first # "unhandled" THEN first ELSE otherwise

\* Mutant of Answer: the workspace service comes after the verification service.
AnswerWorkspaceLate(e, t) ==
  FirstAnswer(ObservationAnswer(e, t), FirstAnswer(ProjectAnswer(e, t),
    FirstAnswer(VerificationAnswer(e, t), FirstAnswer(WorkspaceAnswer(e, t),
      DangerousAnswer(e, t)))))

\* _handle_bridge_request.
Answer(e, t) ==
  FirstAnswer(ObservationAnswer(e, t), FirstAnswer(ProjectAnswer(e, t),
    FirstAnswer(WorkspaceAnswer(e, t), FirstAnswer(VerificationAnswer(e, t),
      DangerousAnswer(e, t)))))

\* The editor answers; a wait whose condition does not hold asks again.
HandleRequest ==
  /\ call.stage = "arrived"
  /\ result' = Answer(call.at, call.tool)
  /\ \/ call' = Idle
     \/ /\ call.tool = "wait_for_runtime_condition" /\ result' = "served"
        /\ call' = [call EXCEPT !.stage = "relayed", !.at = NoEditor]
  /\ UNCHANGED <<addonVars, serverVars>>
-----------------------------------------------------------------------------
Next ==
  \/ \E e \in Editors : StartBridge(e) \/ StopBridge(e) \/ Relaunch(e) \/ Configure(e)
  \/ \E e \in Editors : Activate(e) \/ LoseConnection(e)
  \/ LearnActive \/ Relay \/ HandleRequest
  \/ \E t \in Tools \cap MCP_TOOLS : CallTool(t)
  \/ \E t \in Tools : ReadUnchecked(t)

Spec == Init /\ [][Next]_vars
-----------------------------------------------------------------------------
(* Properties *)

\* The editor that call has arrived at serves it in this step.
Serves == call.stage = "arrived" /\ call' # call /\ result' = "served"

\* Whatever is served is within both levels as they are at that moment, and a
\* dangerous tool has been opted into: not only when the editor connected or
\* when the server checked, whichever editor has become active since.  An editor
\* without a level, whose variable and setting are both unknown, is only read.
WithinPolicy ==
  Serves =>
    /\ Rank(serverLevel) >= Rank(MinimumLevel(call.tool))
    /\ MinimumLevel(call.tool) # "ReadOnly" => AtLeast(call.at, MinimumLevel(call.tool))
    /\ call.tool = "execute_editor_script" => "editorScript" \in facts[call.at]
    /\ call.tool = "filesystem_write_raw" => "prefixes" \in facts[call.at]
    /\ call.tool = "os_shell" => "commands" \in facts[call.at]
ServedWithinPolicy == [][WithinPolicy]_vars

\* The call was checked against what the editor that it reached would announce now.
CurrentlyChecked == call.stage = "arrived" /\ call.checked = Identity(call.at)

\* What the server lets through on current information is served by an editor
\* that allows writing: catalog, manifest and services agree on every tool.
UsableIsServedToWriters ==
  CurrentlyChecked /\ AtLeast(call.at, "WorkspaceWrite") => Answer(call.at, call.tool) = "served"

\* The manifest enables compile.check, screenshots and runtime.debug for
\* ReadOnly: tools let through on current information are served at any level.
UsableIsServed == CurrentlyChecked => Answer(call.at, call.tool) = "served"
=============================================================================
