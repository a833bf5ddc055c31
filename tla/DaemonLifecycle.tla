-------------------------- MODULE DaemonLifecycle --------------------------
(***************************************************************************)
(* How daemons come and go (daemon/index.ts) and how a starting proxy      *)
(* finds one or spawns one (launcher.ts).  The processes share two TCP     *)
(* ports and the file daemon.json, and nothing else: there is no lock.     *)
(*                                                                         *)
(* A step ends where another process can see or change what is shared: at  *)
(* a system call on a port or on the file, or at a return to the event     *)
(* loop.  Within one daemon, listening on both ports and writing the file  *)
(* is one turn of its event loop (the host is an address), so a signal is  *)
(* handled before it or after it.  A kill has no handler and strikes       *)
(* anywhere.                                                               *)
(*                                                                         *)
(* All processes have the same configuration.  The disk works, and the pid *)
(* of a dead daemon is not used again.  One editor stands for all of them. *)
(***************************************************************************)
EXTENDS Naturals

CONSTANTS
  Daemons,    \* the processes that launchers may spawn
  Launchers,  \* starting proxies; each calls ensureDaemon() once
  Nobody,
  Foreign,    \* a program of another kind on the control port
  Absent,     \* daemon.json does not exist
  Partial     \* daemon.json is truncated and not written yet: not JSON

ASSUME LifecycleAssumption ==
  /\ {Nobody, Foreign, Absent, Partial} \cap Daemons = {}
  /\ Nobody # Foreign /\ Absent # Partial

VARIABLES
  daemon,   \* where each daemon process is
  bridge,   \* the daemon that listens on the bridge port
  control,  \* who listens on the control port
  linked,   \* the daemon that the editor's addon is connected to
  info,     \* the content of daemon.json
  step,     \* where each launcher is in ensureDaemon()
  found,    \* the daemon.json that it returns
  overlapped  \* a proxy started, or a signal came, while others were in transit

vars == <<daemon, bridge, control, linked, info, step, found, overlapped>>
launcherVars == <<step, found>>

TypeOK ==
  /\ daemon \in [Daemons -> {"none", "booting", "opening", "announcing", "writing",
                             "serving", "failing", "closing", "draining", "exiting", "dead"}]
  /\ bridge \in Daemons \cup {Nobody}
  /\ control \in Daemons \cup {Nobody, Foreign}
  /\ linked \in Daemons \cup {Nobody}
  /\ info \in Daemons \cup {Absent, Partial}
  /\ step \in [Launchers -> {"idle", "checking", "removing", "spawning", "polling",
                             "connecting", "connected", "failed"}]
  /\ found \in [Launchers -> Daemons \cup {Nobody}]
  /\ overlapped \in BOOLEAN

Init ==
  /\ daemon = [d \in Daemons |-> "none"]
  /\ bridge = Nobody
  /\ control \in {Nobody, Foreign}
  /\ linked = Nobody
  /\ info = Absent
  /\ step = [l \in Launchers |-> "idle"]
  /\ found = [l \in Launchers |-> Nobody]
  /\ overlapped = FALSE

Starting == {"booting", "opening", "announcing", "writing"}

\* isProcessAlive() of the pid that daemon.json records.
Alive(d) == daemon[d] \notin {"none", "dead"}

\* No process is between two stable points.
Settled ==
  /\ \A l \in Launchers : step[l] \in {"idle", "connected", "failed"}
  /\ \A d \in Daemons : daemon[d] \in {"none", "serving", "dead"}

\* Something new begins: does it meet others in transit?
Arrives == overlapped' = (overlapped \/ ~Settled)

Goes(d, from, to) == daemon[d] = from /\ daemon' = [daemon EXCEPT ![d] = to]

-----------------------------------------------------------------------------
(* The daemons *)

\* Mutant of ListenBridge: the daemon is announced when the first port is open.
ListenAndAnnounce(d) ==
  /\ IF bridge = Nobody THEN Goes(d, "booting", "opening") /\ bridge' = d /\ info' = d
                        ELSE Goes(d, "booting", "exiting") /\ UNCHANGED <<bridge, info>>
  /\ UNCHANGED <<control, linked, launcherVars>>

\* bridgeServer.listen().  On EADDRINUSE only exitCode is set: nothing keeps the
\* event loop alive, and the process will exit.
ListenBridge(d) ==
  /\ IF bridge = Nobody THEN Goes(d, "booting", "opening") /\ bridge' = d
                        ELSE Goes(d, "booting", "exiting") /\ UNCHANGED bridge
  /\ UNCHANGED <<control, linked, info, launcherVars>>

\* Mutant of ListenControl: the failure does not close the bridge server.
ListenControlOnly(d) ==
  /\ IF control = Nobody
     THEN Goes(d, "opening", "announcing") /\ control' = d
     ELSE Goes(d, "opening", "failing") /\ UNCHANGED control
  /\ UNCHANGED <<bridge, linked, info, launcherVars>>

\* controlServer.listen(), and bridgeServer.close() when it fails.
ListenControl(d) ==
  /\ IF control = Nobody
     THEN Goes(d, "opening", "announcing") /\ control' = d /\ UNCHANGED bridge
     ELSE Goes(d, "opening", "failing") /\ bridge' = Nobody /\ UNCHANGED control
  /\ UNCHANGED <<linked, info, launcherVars>>

\* writeDaemonInfo(): writeFileSync() truncates the file first ...
TruncateInfo(d) ==
  /\ Goes(d, "announcing", "writing")
  /\ info' = Partial
  /\ UNCHANGED <<bridge, control, linked, launcherVars>>

\* ... and then writes what it opened, which is lost if it was unlinked meanwhile.
WriteInfo(d) ==
  /\ Goes(d, "writing", "serving")
  /\ info' = IF info = Partial THEN d ELSE info
  /\ UNCHANGED <<bridge, control, linked, launcherVars>>

\* Mutant of Shutdown: the bridge port is given up first.
ShutdownBridgeFirst(d) ==
  /\ Arrives
  /\ Goes(d, "serving", "closing")
  /\ info' = Absent
  /\ bridge' = Nobody
  /\ UNCHANGED <<control, linked, launcherVars>>

\* shutdown() on a signal: removeDaemonInfo(), then the control server is closed.
Shutdown(d) ==
  /\ Arrives
  /\ Goes(d, "serving", "closing")
  /\ info' = Absent
  /\ control' = Nobody
  /\ UNCHANGED <<bridge, linked, launcherVars>>

\* bridgeServer.close(): it stops listening, and waits for the editor to leave.
CloseBridge(d) ==
  /\ Goes(d, "closing", "draining")
  /\ bridge' = Nobody
  /\ UNCHANGED <<control, linked, info, launcherVars>>

\* The "exit" handler unlinks daemon.json, whoever wrote it.
Exit(d) ==
  /\ daemon[d] \in {"exiting", "failing", "draining"}
  /\ bridge # d
  /\ linked # d
  /\ daemon' = [daemon EXCEPT ![d] = "dead"]
  /\ info' = Absent
  /\ UNCHANGED <<bridge, control, linked, launcherVars>>

Without(d, owner) == IF owner = d THEN Nobody ELSE owner

\* SIGKILL, or the end of the process tree on Windows: no handler runs.
Kill(d) ==
  /\ Alive(d)
  /\ daemon' = [daemon EXCEPT ![d] = "dead"]
  /\ bridge' = Without(d, bridge)
  /\ control' = Without(d, control)
  /\ linked' = Without(d, linked)
  /\ UNCHANGED <<info, launcherVars>>

-----------------------------------------------------------------------------
(* The environment *)

EditorConnects ==
  /\ linked = Nobody
  /\ bridge # Nobody
  /\ linked' = bridge
  /\ UNCHANGED <<daemon, bridge, control, info, launcherVars>>

\* The plugin is disabled or the editor quits; a daemon never makes it leave.
EditorLeaves ==
  /\ linked # Nobody
  /\ linked' = Nobody
  /\ UNCHANGED <<daemon, bridge, control, info, launcherVars>>

ForeignLeaves ==
  /\ control = Foreign
  /\ control' = Nobody
  /\ UNCHANGED <<daemon, bridge, linked, info, launcherVars>>

-----------------------------------------------------------------------------
(* The launchers *)

At(l, from, to) == step[l] = from /\ step' = [step EXCEPT ![l] = to]

\* Of the processes that have not started it does not matter which starts next.
NewProcess == CHOOSE d \in Daemons : daemon[d] = "none"

Launch(l) ==
  /\ Arrives
  /\ At(l, "idle", "checking")
  /\ UNCHANGED <<daemon, bridge, control, linked, info, found>>

\* What readDaemonInfo() and isProcessAlive() tell of daemon.json.
Listed == info \in Daemons
ListedAlive == Listed /\ Alive(info)

\* The daemon in the file is returned.
Takes(l, from) ==
  /\ ListedAlive
  /\ At(l, from, "connecting")
  /\ found' = [found EXCEPT ![l] = info]
  /\ UNCHANGED <<daemon, bridge, control, linked, info>>

\* Mutant of CheckFinds: whatever the file holds is taken for a daemon.
CheckUnparsed(l) ==
  /\ info # Absent
  /\ At(l, "checking", "connecting")
  /\ found' = [found EXCEPT ![l] = info]
  /\ UNCHANGED <<daemon, bridge, control, linked, info>>

CheckFinds(l) == Takes(l, "checking")

\* Mutant of CheckStale: the pid is not looked up.
CheckUnprobed(l) ==
  /\ Listed
  /\ At(l, "checking", "removing")
  /\ UNCHANGED <<daemon, bridge, control, linked, info, found>>

CheckStale(l) ==
  /\ Listed /\ ~ListedAlive
  /\ At(l, "checking", "removing")
  /\ UNCHANGED <<daemon, bridge, control, linked, info, found>>

\* A missing file, or one that cannot be parsed.
CheckNothing(l) ==
  /\ ~Listed
  /\ At(l, "checking", "spawning")
  /\ UNCHANGED <<daemon, bridge, control, linked, info, found>>

\* removeSafe(): the file is not read again before it is unlinked.
RemoveStale(l) ==
  /\ At(l, "removing", "spawning")
  /\ info' = Absent
  /\ UNCHANGED <<daemon, bridge, control, linked, found>>

SpawnDaemon(l) ==
  /\ At(l, "spawning", "polling")
  /\ \E d \in Daemons : Goes(d, "none", "booting") /\ d = NewProcess
  /\ UNCHANGED <<bridge, control, linked, info, found>>

PollFinds(l) == Takes(l, "polling")

\* Mutant of PollTimeout: no deadline.
PollForever(l) == FALSE /\ UNCHANGED vars

\* waitForDaemonReady() throws.  READY_TIMEOUT_MS outlasts every startup, and a
\* live daemon that stays listed is found before it.
PollTimeout(l) ==
  /\ At(l, "polling", "failed")
  /\ ~ListedAlive
  /\ \A d \in Daemons : daemon[d] \notin Starting
  /\ UNCHANGED <<daemon, bridge, control, linked, info, found>>

\* DaemonClient.connect() goes to the port, not to the process that was found.
ConnectControl(l) ==
  /\ IF control \in Daemons
     THEN At(l, "connecting", "connected") /\ found' = [found EXCEPT ![l] = control]
     ELSE At(l, "connecting", "failed") /\ UNCHANGED found
  /\ UNCHANGED <<daemon, bridge, control, linked, info>>

DaemonRuns(d) ==
  /\ \/ ListenBridge(d) \/ ListenControl(d) \/ TruncateInfo(d) \/ WriteInfo(d)
     \/ CloseBridge(d) \/ Exit(d)
  /\ UNCHANGED overlapped

LauncherRuns(l) ==
  /\ \/ CheckFinds(l) \/ CheckStale(l) \/ CheckNothing(l) \/ RemoveStale(l)
     \/ SpawnDaemon(l) \/ PollFinds(l) \/ PollTimeout(l) \/ ConnectControl(l)
  /\ UNCHANGED overlapped

EnvironmentRuns ==
  /\ \/ \E d \in Daemons : Kill(d)
     \/ EditorConnects \/ EditorLeaves \/ ForeignLeaves
  /\ UNCHANGED overlapped

Next ==
  \/ \E d \in Daemons : DaemonRuns(d) \/ Shutdown(d)
  \/ \E l \in Launchers : Launch(l) \/ LauncherRuns(l)
  \/ EnvironmentRuns

Spec == Init /\ [][Next]_vars

\* Processes run.  Nothing is assumed of signals, kills, proxies that may start,
\* the other program, and above all of the editor.
Fairness ==
  /\ \A d \in Daemons : WF_vars(DaemonRuns(d))
  /\ \A l \in Launchers : WF_vars(LauncherRuns(l))

FairSpec == Spec /\ Fairness

-----------------------------------------------------------------------------
(* Properties *)

\* Whoever reaches a daemon on the control port reaches the one that editors
\* connect to: through every startup, failure and shutdown, the control port
\* is held by the holder of the bridge port only.
PortsTogether == \A d \in Daemons : control = d => bridge = d

\* daemon.json never names a daemon that is not up yet: a launcher that finds a
\* name in it need not wait for the ports.
ListedWasUp == info \in Daemons => daemon[info] \notin Starting \cup {"none"}

\* The daemon that is running can be discovered.
ServingIsListed == \A d \in Daemons : daemon[d] = "serving" => info = d

\* As long as proxies start and signals come between settled processes, it can
\* be: kills at any point, crashes in a startup and stale files are no obstacle.
ListedUnlessOverlapped == ~overlapped => ServingIsListed

\* ensureDaemon() always ends, and the proxy connects or fails: in the end no
\* launcher is on its way.
LauncherEnds == <>[](\A l \in Launchers : step[l] \in {"idle", "connected", "failed"})

\* A daemon that lost the race for a port, or was told to stop, does not linger,
\* unless an editor is connected to it: then it waits for that editor.
NoLingering ==
  <>[](\A d \in Daemons : daemon[d] \in {"none", "serving", "dead"} \/ linked = d)
=============================================================================
