------------------------- MODULE RuntimeObservation -------------------------
(***************************************************************************)
(* Watching a running game: the telemetry autoload inside the game, the    *)
(* editor's debugger plugin and capture store, and the tools that read     *)
(* them, among them the polling loop of wait_for_runtime_condition.        *)
(* One watched node stands for the scene and the runtime snapshot for the  *)
(* audio one, which is hashed, sent, cached and cleared the same way.      *)
(***************************************************************************)
EXTENDS Naturals, Sequences, SequencesExt

CONSTANTS Values,           \* what the watched property can be
          Absent, None,     \* the node is not in the tree; nothing captured
          Target,           \* the value a wait is for
          MAX_EVENTS,       \* capacity of the ring of events
          EventsRead,       \* how many of them the annotated screenshot reads
          SessionCallbacks, \* may the engine call _session_started / _stopped
          MaxRuns, MaxChanges, MaxCommands   \* bounds of a run of TLC

ASSUME RuntimeAssumption ==
  /\ Absent \notin Values /\ None \notin Values \cup {Absent}
  /\ Target \in Values
  /\ MAX_EVENTS \in Nat \ {0} /\ EventsRead \in 1..MAX_EVENTS
  /\ SessionCallbacks \subseteq BOOLEAN
  /\ {MaxRuns, MaxChanges, MaxCommands} \subseteq Nat

VARIABLES
  run,        \* how many times a scene was played
  status,     \* the current run, as the editor's process knows it
  node,       \* the watched node of the running game
  sent,       \* _last_runtime_snapshot_hash
  paused,     \* get_tree().paused
  up, down,   \* debugger messages to the editor and to the game
  callbacks,  \* whether the editor's engine calls them
  active,     \* _active_session_id >= 0
  snapshot,   \* _latest_runtime_snapshot
  events,     \* _events
  wait, late, \* the waiting tool, and whether its timeoutMs have passed
  asked,      \* the pause state last reported to the user in this run
  elements,   \* the enumerations in the last annotated screenshot, by position
  held,       \* every content the node has had in this run
  changes, commands   \* spent of the bounds; a wait is a command, too

gameVars   == <<run, status, node, sent, paused, held, changes>>
editorVars == <<callbacks, active, snapshot, events>>
waitVars   == <<wait, late>>
toolVars   == <<asked, elements, commands>>
vars == <<gameVars, up, down, editorVars, waitVars, toolVars>>

Contents == Values \cup {Absent}
Shot(c) == [event |-> "runtime_snapshot", run |-> run, data |-> c]
Event(name, x) == [event |-> name, run |-> run, data |-> x]
Shots == [event : {"runtime_snapshot"}, run : 1..MaxRuns, data : Contents]
Events ==
  [event : {"controls_result"}, run : 1..MaxRuns, data : Contents]
  \cup [event : {"ready", "node_added", "node_removed", "mouse_result", "shutdown"},
        run : 1..MaxRuns, data : {None}]
  \cup [event : {"pause_result"}, run : 1..MaxRuns, data : BOOLEAN]
Commands == [command : {"pause"}, data : BOOLEAN]
            \cup [command : {"simulate_mouse", "enumerate_controls"}, data : {None}]

TypeOK ==
  /\ run \in 0..MaxRuns
  /\ status \in {"stopped", "launched", "attached", "exiting"}
  /\ node \in Contents
  /\ sent \in Contents \cup {None}
  /\ paused \in BOOLEAN
  /\ up \in Seq(Shots \cup Events) /\ down \in Seq(Commands)
  /\ callbacks \in BOOLEAN
  /\ active \in BOOLEAN
  /\ snapshot \in Shots \cup {None}
  /\ events \in Seq(Events)
  /\ Len(events) <= MAX_EVENTS
  /\ wait \in {"idle", "asking", "sleeping", "matched", "timed_out", "failed", "rejected"}
  /\ late \in BOOLEAN
  /\ asked \in BOOLEAN \cup {None}
  /\ DOMAIN elements \subseteq 1..EventsRead
  /\ \A i \in DOMAIN elements : elements[i] \in Events /\ elements[i].event = "controls_result"
  /\ held \in SUBSET Contents
  /\ changes \in 0..MaxChanges /\ commands \in 0..MaxCommands

Init ==
  /\ run = 0 /\ status = "stopped" /\ node = Absent /\ sent = None /\ paused = FALSE
  /\ held = {} /\ changes = 0
  /\ up = <<>> /\ down = <<>>
  /\ callbacks \in SessionCallbacks
  /\ active = FALSE /\ snapshot = None /\ events = <<>>
  /\ wait = "idle" /\ late = FALSE
  /\ asked = None /\ elements = <<>> /\ commands = 0

\* get_runtime_state: isPlayingScene of a scene the editor plays.
Playing == status # "stopped"
-----------------------------------------------------------------------------
(* The life of a game, seen from the editor. *)

\* Mutant of EndSession: the snapshots outlive the session.
EndSessionOnly ==
  /\ up' = <<>> /\ down' = <<>>
  /\ active' = FALSE
  /\ UNCHANGED <<callbacks, snapshot, events>>

\* The debugger connection of a run ends with what is in it: _session_stopped,
\* if the engine calls it.
EndSession ==
  /\ up' = <<>> /\ down' = <<>>
  /\ active' = FALSE
  /\ snapshot' = IF callbacks THEN None ELSE snapshot
  /\ UNCHANGED <<callbacks, events>>

\* play_scene: the editor ends the previous run, if any, and starts a process.
PlayScene ==
  /\ run < MaxRuns
  /\ run' = run + 1 /\ status' = "launched"
  /\ node' = Absent /\ sent' = None /\ paused' = FALSE /\ held' = {}
  /\ EndSession
  /\ asked' = None
  /\ UNCHANGED <<changes, waitVars, elements, commands>>

\* stop_scene.
StopScene ==
  /\ Playing
  /\ status' = "stopped"
  /\ EndSession
  /\ UNCHANGED <<run, node, sent, paused, held, changes, waitVars, toolVars>>

\* The game is up and connects to the editor (_session_started, if the engine
\* calls it); its telemetry sends "ready" and the first snapshot (_ready,
\* _emit_ready).
Attach(c) ==
  /\ status = "launched"
  /\ status' = "attached"
  /\ node' = c /\ held' = {c} /\ sent' = c
  /\ up' = <<Event("ready", None), Shot(c)>>
  /\ active' = callbacks
  /\ UNCHANGED <<run, paused, changes, down, callbacks, snapshot, events, waitVars, toolVars>>

\* The game quits and says so (_exit_tree), or crashes.
Exit ==
  /\ status \in {"launched", "attached"}
  /\ status' = "exiting"
  /\ \/ UNCHANGED up
     \/ status = "attached" /\ up' = Append(up, Event("shutdown", None))
  /\ UNCHANGED <<run, node, sent, paused, held, changes, down, editorVars, waitVars, toolVars>>

\* The editor notices that the process or its connection is gone.
SessionEnds ==
  /\ status = "exiting"
  /\ status' = "stopped"
  /\ EndSession
  /\ UNCHANGED <<run, node, sent, paused, held, changes, waitVars, toolVars>>
-----------------------------------------------------------------------------
(* Inside the game: runtime_telemetry.gd. *)

\* _emit_runtime_snapshot_if_changed for content c, after the messages ms.
EmitIfChanged(ms, c) ==
  /\ sent' = c
  /\ up' = up \o ms \o (IF c = sent THEN <<>> ELSE <<Shot(c)>>)

Becomes(c) ==
  /\ changes < MaxChanges /\ changes' = changes + 1
  /\ node' = c /\ held' = held \cup {c}

\* A script sets a property: nothing is sent until something looks.
SetProperty(v) ==
  /\ status = "attached" /\ node \in Values \ {v}
  /\ Becomes(v)
  /\ UNCHANGED <<run, status, sent, paused, up, down, editorVars, waitVars, toolVars>>

\* _on_node_added, with the snapshot it defers to the end of the frame.
NodeAdded(v) ==
  /\ status = "attached" /\ node = Absent
  /\ Becomes(v)
  /\ EmitIfChanged(<<Event("node_added", None)>>, v)
  /\ UNCHANGED <<run, status, paused, down, editorVars, waitVars, toolVars>>

\* _on_node_removed.
NodeRemoved ==
  /\ status = "attached" /\ node # Absent
  /\ Becomes(Absent)
  /\ EmitIfChanged(<<Event("node_removed", None)>>, Absent)
  /\ UNCHANGED <<run, status, paused, down, editorVars, waitVars, toolVars>>

\* Mutant of Poll: the hash is stored, and the change is only reported with an event.
PollQuietly ==
  /\ status = "attached" /\ ~paused /\ node # sent
  /\ sent' = node
  /\ UNCHANGED <<run, status, node, paused, held, changes, up, down, editorVars, waitVars, toolVars>>

\* _process when its interval has passed.  The autoload inherits the tree's
\* process mode, so it stops with the tree; an unchanged poll changes nothing.
Poll ==
  /\ status = "attached" /\ ~paused /\ node # sent
  /\ EmitIfChanged(<<>>, node)
  /\ UNCHANGED <<run, status, node, paused, held, changes, down, editorVars, waitVars, toolVars>>

\* Mutant of PauseCommand: the result is taken before the tree is paused.
PauseAfterReport(p) ==
  /\ paused' = p
  /\ up' = Append(up, Event("pause_result", paused))
  /\ UNCHANGED sent

\* _handle_pause_command.
PauseCommand(p) ==
  /\ paused' = p
  /\ up' = Append(up, Event("pause_result", paused'))
  /\ UNCHANGED sent

\* _handle_simulate_mouse_command: the input is queued, what it does to the
\* scene happens later (SetProperty and the like).
MouseCommand ==
  /\ sent' = node
  /\ up' = up \o (IF node = sent THEN <<>> ELSE <<Shot(node)>>) \o <<Event("mouse_result", None)>>
  /\ UNCHANGED paused

\* _handle_enumerate_controls_command.
EnumerateCommand ==
  /\ up' = Append(up, Event("controls_result", node))
  /\ UNCHANGED <<sent, paused>>

\* _on_editor_command.
OnEditorCommand ==
  /\ status = "attached" /\ down # <<>>
  /\ LET cmd == Head(down) IN
       \/ cmd.command = "pause" /\ PauseCommand(cmd.data)
       \/ cmd.command = "simulate_mouse" /\ MouseCommand
       \/ cmd.command = "enumerate_controls" /\ EnumerateCommand
  /\ down' = Tail(down)
  /\ UNCHANGED <<run, status, node, held, changes, editorVars, waitVars, toolVars>>
-----------------------------------------------------------------------------
(* In the editor: runtime_debugger_plugin.gd, runtime_debug_capture.gd. *)

\* The newest n entries of a sequence.
Latest(n, s) == SubSeq(s, IF Len(s) > n THEN Len(s) - n + 1 ELSE 1, Len(s))

\* Mutant of RecordEvent: the ring is trimmed before the event is added.
RecordUntrimmed(m) ==
  IF m.event = "runtime_snapshot"
  THEN snapshot' = m /\ UNCHANGED events
  ELSE events' = Append(Latest(MAX_EVENTS, events), m) /\ UNCHANGED snapshot

\* record_event: snapshots are cached only, other events only kept in the ring.
RecordEvent(m) ==
  IF m.event = "runtime_snapshot"
  THEN snapshot' = m /\ UNCHANGED events
  ELSE events' = Latest(MAX_EVENTS, Append(events, m)) /\ UNCHANGED snapshot

\* _capture.
Capture ==
  /\ up # <<>>
  /\ RecordEvent(Head(up))
  /\ up' = Tail(up)
  /\ UNCHANGED <<gameVars, down, callbacks, active, waitVars, toolVars>>

\* send_command: without an active session the command is dropped silently.
SendCommand(c, x) ==
  down' = IF active THEN Append(down, [command |-> c, data |-> x]) ELSE down

UseTool == commands < MaxCommands /\ commands' = commands + 1

\* pause_scene, which reports the new state as soon as the command is sent.
PauseScene(p) ==
  /\ Playing /\ UseTool
  /\ SendCommand("pause", p)
  /\ asked' = p
  /\ UNCHANGED <<gameVars, up, editorVars, waitVars, elements>>

\* simulate_mouse.
SimulateMouse ==
  /\ Playing /\ UseTool
  /\ SendCommand("simulate_mouse", None)
  /\ UNCHANGED <<gameVars, up, editorVars, waitVars, asked, elements>>

\* get_annotated_screenshot: it asks the game for its controls and answers at
\* once with every enumeration among the latest events.
AnnotatedScreenshot ==
  /\ UseTool
  /\ SendCommand("enumerate_controls", None)
  /\ LET latest == Latest(EventsRead, events) IN
       elements' = Restrict(latest, {i \in DOMAIN latest : latest[i].event = "controls_result"})
  /\ UNCHANGED <<gameVars, up, editorVars, waitVars, asked>>

\* Mutant of ClearEvents: it clears the snapshots too.
ClearEverything ==
  /\ UseTool
  /\ events' = <<>> /\ snapshot' = None
  /\ UNCHANGED <<gameVars, up, down, callbacks, active, waitVars, asked, elements>>

\* clear_runtime_debug_events.
ClearEvents ==
  /\ UseTool
  /\ events' = <<>>
  /\ UNCHANGED <<gameVars, up, down, callbacks, active, snapshot, waitVars, asked, elements>>
-----------------------------------------------------------------------------
(* wait_for_runtime_condition: node = Target, on the server. *)

StartWait ==
  /\ UseTool
  /\ wait \notin {"asking", "sleeping"}
  /\ wait' = "asking" /\ late' = FALSE
  /\ UNCHANGED <<gameVars, up, down, editorVars, asked, elements>>

\* _get_running_node_property can answer: a scene is playing, a snapshot has
\* arrived and the node is in it.
Readable == Playing /\ snapshot # None /\ snapshot.data # Absent

\* One observation.  An error of the editor or of the connection ends the wait.
Observe ==
  /\ wait = "asking"
  /\ \/ /\ Readable
        /\ wait' = IF snapshot.data = Target THEN "matched" ELSE "sleeping"
     \/ ~Readable /\ wait' = "failed"
  /\ UNCHANGED <<gameVars, up, down, editorVars, late, toolVars>>

\* request() rejects: the session closed, or there is none any more.
ObserveRejected ==
  /\ wait = "asking"
  /\ wait' = "rejected"
  /\ UNCHANGED <<gameVars, up, down, editorVars, late, toolVars>>

\* Mutant of WakeUp: the timeout is not looked at.
WakeUnchecked ==
  /\ wait = "sleeping"
  /\ wait' = "asking"
  /\ UNCHANGED <<gameVars, up, down, editorVars, late, toolVars>>

\* delay(pollIntervalMs) is over: the loop's condition.
WakeUp ==
  /\ wait = "sleeping"
  /\ wait' = IF late THEN "timed_out" ELSE "asking"
  /\ UNCHANGED <<gameVars, up, down, editorVars, late, toolVars>>

TimeoutPasses ==
  /\ wait \in {"asking", "sleeping"} /\ ~late
  /\ late' = TRUE
  /\ UNCHANGED <<gameVars, up, down, editorVars, wait, toolVars>>
-----------------------------------------------------------------------------
GameNext ==
  \/ \E c \in Contents : Attach(c)
  \/ \E v \in Values : SetProperty(v) \/ NodeAdded(v)
  \/ NodeRemoved \/ Poll \/ OnEditorCommand \/ Exit

EditorNext ==
  \/ PlayScene \/ StopScene \/ SessionEnds \/ Capture
  \/ \E p \in BOOLEAN : PauseScene(p)
  \/ SimulateMouse \/ AnnotatedScreenshot \/ ClearEvents

WaitNext == StartWait \/ Observe \/ ObserveRejected \/ WakeUp \/ TimeoutPasses

Next == GameNext \/ EditorNext \/ WaitNext

Spec == Init /\ [][Next]_vars

\* Frame loops, event loops and clocks go on.  Nothing forces a user's step, a
\* change of the scene or the end of a game.
Fairness ==
  /\ WF_vars(\E c \in Contents : Attach(c))
  /\ WF_vars(Poll) /\ WF_vars(OnEditorCommand) /\ WF_vars(Capture) /\ WF_vars(SessionEnds)
  /\ WF_vars(Observe) /\ WF_vars(WakeUp) /\ WF_vars(TimeoutPasses)

FairSpec == Spec /\ Fairness
-----------------------------------------------------------------------------
(* Properties *)

\* m is the last message of s that is in S, and s has no message in S.
IsLast(m, s, S) ==
  m \in S /\ \E i \in DOMAIN s : s[i] = m /\ \A j \in DOMAIN s : j > i => s[j] \notin S
Lacks(s, S) == \A i \in DOMAIN s : s[i] \notin S

\* get_running_scene_tree is described as "the latest captured tree for the
\* currently running scene": what the cache holds while a scene plays was true of
\* this run, not of an earlier one.
ReadIsOfThisRun ==
  Playing /\ snapshot # None => snapshot.run = run /\ snapshot.data \in held

\* How long a read can be of an earlier run: never, if the engine calls
\* _session_stopped, which clears the cache; otherwise until the first snapshot
\* of this run is recorded, and never again however the run changes and ends.
StaleOnlyAtStart ==
  Playing /\ snapshot # None =>
    \/ snapshot.run = run /\ snapshot.data \in held
    \/ ~callbacks /\ snapshot.run < run /\ (sent = None \/ ~Lacks(up, Shots))

\* The game sends a content only once, so what it sent last must be in the
\* cache or on its way there: otherwise the tools would not see it again.
LastSentIsKept ==
  status = "attached" =>
    \/ IsLast(Shot(sent), up, Shots)
    \/ Lacks(up, Shots) /\ snapshot = Shot(sent)

\* What the game has said of its pause in this run.
Reports == [event : {"pause_result"}, run : {run}, data : BOOLEAN]

\* Once every result is recorded, the last one of this run that the ring holds is
\* the state of the game's tree: trimming and clearing never leave an older one.
PauseIsReported ==
  status = "attached" /\ up = <<>> =>
    \A m \in Reports : IsLast(m, events, Reports) => m.data = paused

\* A scene that stops changing while it runs is eventually seen as it is.
SnapshotCatchesUp ==
  \A c \in Contents :
    <>[](status = "attached" /\ ~paused /\ node = c) => <>[](snapshot = Shot(c))

\* A wait comes to an end, whatever happens to the game.
WaitEnds == wait = "asking" ~> wait \in {"matched", "timed_out", "failed", "rejected"}

\* pause_scene is described as "Pause or unpause the currently playing scene":
\* a state that was reported is reached, unless the run ends or is asked for another.
PauseTakesEffect ==
  \A p \in BOOLEAN :
    asked = p /\ Playing ~> paused = p \/ asked # p \/ ~Playing

\* get_annotated_screenshot is to capture "the running scene": its elements are
\* controls of this run, each of them once.
AnnotatesRunningScene ==
  [][elements' # elements =>
       \A i, j \in DOMAIN elements' : i = j /\ elements'[i].run = run]_vars
=============================================================================
