---------------------------- MODULE ExternalPlay ----------------------------
(***************************************************************************)
(* A headless editor plays a scene in a process of its own                 *)
(* (workspace_service.gd, _play_scene_external), tracks it by its pid, and *)
(* has it write runtime.log, which the log tools read as the output of the *)
(* scene that plays.  Processes end by themselves, an editor that dies     *)
(* leaves its process behind, and the system may refuse a kill.            *)
(* Its names let a module extend it beside another specification.          *)
(***************************************************************************)
CONSTANTS
  Runs,   \* the processes ever started
  NoRun   \* _runtime_pid = -1

VARIABLES
  stage,     \* of the editor: "down", "up", or "launching": inside the handler
  pid,       \* _runtime_pid
  alive,     \* the processes that run
  ended,     \* those that have ended
  log,       \* whose lines are in runtime.log
  beside,    \* history: those alive when runtime.log was emptied last
  abandoned  \* history: those whose editor died or whose kill was refused

playVars == <<stage, pid, alive, ended, log, beside, abandoned>>

PlayInit ==
  /\ stage = "down"
  /\ pid = NoRun
  /\ alive = {}
  /\ ended = {}
  /\ log = {}
  /\ beside = {}
  /\ abandoned = {}

\* OS.kill() of the tracked process, if it runs, which the system may refuse; the
\* processes of started are new.
Kill(started) ==
  \/ /\ alive' = (alive \ {pid}) \cup started
     /\ ended' = ended \cup (alive \cap {pid})
     /\ UNCHANGED abandoned
  \/ /\ alive' = alive \cup started
     /\ abandoned' = abandoned \cup (alive \cap {pid})
     /\ UNCHANGED ended

EditorStarts ==
  /\ stage = "down"
  /\ stage' = "up"
  /\ UNCHANGED <<pid, alive, ended, log, beside, abandoned>>

\* Mutant of Unload: dispose() forgets the process without killing it.
UnloadOnly ==
  /\ stage = "up"
  /\ stage' = "down"
  /\ pid' = NoRun
  /\ UNCHANGED <<alive, ended, log, beside, abandoned>>

\* dispose() of the service: the process is killed.
Unload ==
  /\ stage = "up"
  /\ stage' = "down"
  /\ Kill({})
  /\ pid' = NoRun
  /\ UNCHANGED <<log, beside>>

\* The editor dies, and nobody knows the pid any more.
EditorDies ==
  /\ stage # "down"
  /\ stage' = "down"
  /\ pid' = NoRun
  /\ abandoned' = abandoned \cup (alive \cap {pid})
  /\ UNCHANGED <<alive, ended, log, beside>>

\* poll() and get_runtime_state(): a process that has ended is forgotten.
Poll ==
  /\ stage = "up"
  /\ pid # NoRun /\ pid \notin alive
  /\ pid' = NoRun
  /\ UNCHANGED <<stage, alive, ended, log, beside, abandoned>>

\* Mutant of EmptyLog: the log is left to the new process.
KeepLog == UNCHANGED log

\* FileAccess.open() with WRITE.
EmptyLog == log' = {}

\* _play_scene_external() up to the kill: the log is emptied first, while the last
\* process may still write to it.
PlayTruncates ==
  /\ stage = "up"
  /\ stage' = "launching"
  /\ EmptyLog
  /\ beside' = alive
  /\ UNCHANGED <<pid, alive, ended, abandoned>>

\* The kill and the rest of it: a new process is created, or that fails.
PlayStarts ==
  /\ stage = "launching"
  /\ stage' = "up"
  /\ \/ pid' = NoRun /\ Kill({})
     \/ \E r \in Runs \ (alive \cup ended) : pid' = r /\ Kill({r})
  /\ UNCHANGED <<log, beside>>

\* _stop_scene(): the pid is forgotten also when the kill is refused.
StopScene ==
  /\ stage = "up"
  /\ pid # NoRun
  /\ Kill({})
  /\ pid' = NoRun
  /\ UNCHANGED <<stage, log, beside>>

RunLogs(r) ==
  /\ r \in alive
  /\ log' = log \cup {r}
  /\ UNCHANGED <<stage, pid, alive, ended, beside, abandoned>>

RunExits(r) ==
  /\ r \in alive
  /\ alive' = alive \ {r}
  /\ ended' = ended \cup {r}
  /\ UNCHANGED <<stage, pid, log, beside, abandoned>>

PlayNext ==
  \/ EditorStarts \/ Unload \/ EditorDies \/ Poll
  \/ PlayTruncates \/ PlayStarts \/ StopScene
  \/ \E r \in Runs : RunLogs(r) \/ RunExits(r)

PlaySpec == PlayInit /\ [][PlayNext]_playVars

-----------------------------------------------------------------------------
(* Properties *)

PlayTypeOK ==
  /\ stage \in {"down", "up", "launching"}
  /\ pid \in Runs \cup {NoRun}
  /\ stage = "down" => pid = NoRun
  /\ alive \subseteq Runs /\ ended \subseteq Runs \ alive
  /\ log \subseteq Runs /\ beside \subseteq Runs /\ abandoned \subseteq Runs

\* While a process is tracked, runtime.log holds its lines only, apart from those
\* of processes that were alive when the log was emptied for it: the one it
\* replaces, killed after that, or one that an editor has left behind.
RuntimeLogIsOfThisRun ==
  stage = "up" /\ pid # NoRun => log \subseteq {pid} \cup beside

\* A process that runs is the tracked one, unless its editor died or the system
\* refused to kill it: no sequence of plays, stops and reloads loses one.
NoStrayRun == alive \subseteq {pid} \cup abandoned
=============================================================================
