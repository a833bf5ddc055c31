----------------------- MODULE DaemonLifecycle_proofs -----------------------
(***************************************************************************)
(* The ports and daemon.json, for any number of daemons and launchers.     *)
(***************************************************************************)
EXTENDS DaemonLifecycle, TLAPS

\* A daemon holds the bridge port exactly from ListenBridge to CloseBridge.
HasBridge == {"opening", "announcing", "writing", "serving", "closing"}
BridgeHeld == \A d \in Daemons : bridge = d <=> daemon[d] \in HasBridge

\* The control port is held by a daemon that has opened both, and keeps it
\* until it is told to stop.
ControlHeld ==
  \A d \in Daemons : control = d => daemon[d] \in {"announcing", "writing", "serving"}

IInv == TypeOK /\ BridgeHeld /\ ControlHeld /\ ListedWasUp

LEMMA InitIInv == Init => IInv
<1> SUFFICES ASSUME Init PROVE IInv
    OBVIOUS
<1> USE LifecycleAssumption DEF Init
<1>1. TypeOK
    BY DEF TypeOK
<1>2. BridgeHeld
    BY DEF BridgeHeld, HasBridge
<1>3. ControlHeld
    BY DEF ControlHeld
<1>4. ListedWasUp
    BY DEF ListedWasUp
<1> QED
    BY <1>1, <1>2, <1>3, <1>4 DEF IInv

\* One step of a daemon, of a launcher and of the environment.
LEMMA DaemonStep ==
  ASSUME IInv, NEW d \in Daemons,
         \/ DaemonRuns(d)
         \/ Shutdown(d)
         \/ Kill(d) /\ UNCHANGED overlapped
  PROVE  IInv'
<1> USE LifecycleAssumption
        DEF IInv, TypeOK, BridgeHeld, HasBridge, ControlHeld, ListedWasUp, Starting, Goes,
            launcherVars
<1>1. CASE ListenBridge(d) /\ UNCHANGED overlapped
  <2>1. CASE bridge = Nobody
    BY <1>1, <2>1 DEF ListenBridge
  <2>2. CASE bridge # Nobody
    BY <1>1, <2>2 DEF ListenBridge
  <2> QED
    BY <2>1, <2>2
<1>2. CASE ListenControl(d) /\ UNCHANGED overlapped
  <2>1. CASE control = Nobody
    BY <1>2, <2>1 DEF ListenControl
  <2>2. CASE control # Nobody
    BY <1>2, <2>2 DEF ListenControl
  <2> QED
    BY <2>1, <2>2
<1>3. CASE TruncateInfo(d) /\ UNCHANGED overlapped
    BY <1>3 DEF TruncateInfo
<1>4. CASE WriteInfo(d) /\ UNCHANGED overlapped
    BY <1>4 DEF WriteInfo
<1>5. CASE CloseBridge(d) /\ UNCHANGED overlapped
    BY <1>5 DEF CloseBridge
<1>6. CASE Exit(d) /\ UNCHANGED overlapped
    BY <1>6 DEF Exit
<1>7. CASE Shutdown(d)
    BY <1>7 DEF Shutdown, Arrives
<1>8. CASE Kill(d) /\ UNCHANGED overlapped
    BY <1>8 DEF Kill, Without, Alive
<1> QED
    BY <1>1, <1>2, <1>3, <1>4, <1>5, <1>6, <1>7, <1>8 DEF DaemonRuns

LEMMA LauncherStep ==
  ASSUME IInv, NEW l \in Launchers, Launch(l) \/ LauncherRuns(l)
  PROVE  IInv'
<1> USE LifecycleAssumption
        DEF IInv, TypeOK, BridgeHeld, HasBridge, ControlHeld, ListedWasUp, Starting, At
<1>1. CASE Launch(l)
    BY <1>1 DEF Launch, Arrives
<1>2. CASE Takes(l, "checking") /\ UNCHANGED overlapped
    BY <1>2 DEF Takes, ListedAlive, Listed
<1>3. CASE CheckStale(l) /\ UNCHANGED overlapped
    BY <1>3 DEF CheckStale
<1>4. CASE CheckNothing(l) /\ UNCHANGED overlapped
    BY <1>4 DEF CheckNothing
<1>5. CASE RemoveStale(l) /\ UNCHANGED overlapped
    BY <1>5 DEF RemoveStale
<1>6. CASE SpawnDaemon(l) /\ UNCHANGED overlapped
  <2>1. PICK d \in Daemons : Goes(d, "none", "booting")
    BY <1>6 DEF SpawnDaemon
  <2> QED
    BY <1>6, <2>1 DEF SpawnDaemon, Goes
<1>7. CASE Takes(l, "polling") /\ UNCHANGED overlapped
    BY <1>7 DEF Takes, ListedAlive, Listed
<1>8. CASE PollTimeout(l) /\ UNCHANGED overlapped
    BY <1>8 DEF PollTimeout
<1>9. CASE ConnectControl(l) /\ UNCHANGED overlapped
  <2>1. CASE control \in Daemons
    BY <1>9, <2>1 DEF ConnectControl
  <2>2. CASE control \notin Daemons
    BY <1>9, <2>2 DEF ConnectControl
  <2> QED
    BY <2>1, <2>2
<1> QED
    BY <1>1, <1>2, <1>3, <1>4, <1>5, <1>6, <1>7, <1>8, <1>9
    DEF LauncherRuns, CheckFinds, PollFinds

LEMMA EnvironmentStep ==
  ASSUME IInv, (EditorConnects \/ EditorLeaves \/ ForeignLeaves) /\ UNCHANGED overlapped
  PROVE  IInv'
<1> USE LifecycleAssumption
        DEF IInv, TypeOK, BridgeHeld, HasBridge, ControlHeld, ListedWasUp, Starting, launcherVars
<1>1. CASE EditorConnects
    BY <1>1 DEF EditorConnects
<1>2. CASE EditorLeaves
    BY <1>2 DEF EditorLeaves
<1>3. CASE ForeignLeaves
    BY <1>3 DEF ForeignLeaves
<1> QED
    BY <1>1, <1>2, <1>3

LEMMA NextIInv == IInv /\ [Next]_vars => IInv'
<1> SUFFICES ASSUME IInv, [Next]_vars PROVE IInv'
    OBVIOUS
<1>1. CASE \E d \in Daemons : DaemonRuns(d) \/ Shutdown(d)
  <2>1. PICK d \in Daemons : DaemonRuns(d) \/ Shutdown(d)
    BY <1>1
  <2> QED
    BY <2>1, DaemonStep
<1>2. CASE \E l \in Launchers : Launch(l) \/ LauncherRuns(l)
  <2>1. PICK l \in Launchers : Launch(l) \/ LauncherRuns(l)
    BY <1>2
  <2> QED
    BY <2>1, LauncherStep
<1>3. CASE EnvironmentRuns
  <2>1. CASE \E d \in Daemons : Kill(d)
    <3>1. PICK d \in Daemons : Kill(d)
      BY <2>1
    <3> QED
      BY <1>3, <3>1, DaemonStep DEF EnvironmentRuns
  <2>2. CASE EditorConnects \/ EditorLeaves \/ ForeignLeaves
    BY <1>3, <2>2, EnvironmentStep DEF EnvironmentRuns
  <2> QED
    BY <1>3, <2>1, <2>2 DEF EnvironmentRuns
<1>4. CASE UNCHANGED vars
    BY <1>4 DEF vars, IInv, TypeOK, BridgeHeld, ControlHeld, ListedWasUp
<1> QED
    BY <1>1, <1>2, <1>3, <1>4 DEF Next

LEMMA Invariance == Spec => []IInv
<1> QED
    BY InitIInv, NextIInv, PTL DEF Spec

\* Every variable of the lifecycle keeps its type: ports, editor and file name
\* processes or the sentinels, wherever daemons and launchers are.
THEOREM LifecycleTypeCorrect == Spec => []TypeOK
<1>1. IInv => TypeOK
    BY DEF IInv
<1> QED
    BY <1>1, Invariance, PTL

\* However many daemons start, fail, stop and are killed, the control port leads
\* to the daemon that holds the bridge port (bridgeServer.listen before
\* controlServer.listen, shutdown() in the opposite order).
THEOREM PortsStayTogether == Spec => []PortsTogether
<1>1. IInv => PortsTogether
    BY DEF IInv, BridgeHeld, HasBridge, ControlHeld, PortsTogether
<1> QED
    BY <1>1, Invariance, PTL

\* However writes, unlinks and truncations of daemon.json interleave, it never
\* names a daemon that has not opened both of its ports.
THEOREM ListedDaemonWasUp == Spec => []ListedWasUp
<1>1. IInv => ListedWasUp
    BY DEF IInv
<1> QED
    BY <1>1, Invariance, PTL

-----------------------------------------------------------------------------
(* Without overlap *)

\* A daemon, a launcher between two stable points.
Moving(d) == daemon[d] \notin {"none", "serving", "dead"}
Busy(l) == step[l] \notin {"idle", "connected", "failed"}

\* As long as nothing overlaps, one launcher is busy at most, and a daemon that
\* moves is the only one alive: nobody else can unlink or truncate its file.
OneAtATime ==
  /\ \A l, m \in Launchers : Busy(l) /\ Busy(m) => l = m
  /\ \A d, e \in Daemons : Moving(d) /\ Alive(e) => d = e
  /\ \A d \in Daemons : Moving(d) => info # d
  /\ \A d \in Daemons : daemon[d] = "writing" => info = Partial
  /\ \A l \in Launchers, d \in Daemons : step[l] \in {"checking", "connecting"} => ~Moving(d)
  /\ \A l \in Launchers, d \in Daemons : step[l] \in {"removing", "spawning"} => ~Alive(d)

Quiet == ~overlapped => OneAtATime /\ ServingIsListed

\* What the steps below need of the types.
LEMMA Types ==
  ASSUME IInv
  PROVE  /\ daemon \in [Daemons -> {"none", "booting", "opening", "announcing", "writing",
                          "serving", "failing", "closing", "draining", "exiting", "dead"}]
         /\ step \in [Launchers -> {"idle", "checking", "removing", "spawning", "polling",
                             "connecting", "connected", "failed"}]
         /\ Partial \notin Daemons /\ Absent \notin Daemons /\ Nobody \notin Daemons
BY LifecycleAssumption DEF IInv, TypeOK

\* No two daemons serve.
LEMMA OneServes ==
  ASSUME IInv, NEW d \in Daemons, NEW e \in Daemons,
         daemon[d] = "serving", daemon[e] = "serving"
  PROVE  d = e
BY DEF IInv, BridgeHeld, HasBridge

\* A daemon that runs alone moves on, or ends.
LEMMA MovesQuiet ==
  ASSUME IInv, OneAtATime, ServingIsListed, NEW d \in Daemons, Moving(d),
         NEW stage \in {"booting", "opening", "announcing", "writing", "failing", "closing",
                        "draining", "exiting", "dead"},
         daemon' = [daemon EXCEPT ![d] = stage], UNCHANGED step,
         info' # d, stage = "writing" => info' = Partial
  PROVE  OneAtATime' /\ ServingIsListed'
<1>1. \A e \in Daemons \ {d} : ~Alive(e) /\ ~Alive(e)' /\ ~Moving(e)'
  BY Types DEF OneAtATime, Alive, Moving
<1>2. daemon'[d] = stage
  BY Types
<1>3. \A l \in Launchers : step[l] \notin {"checking", "connecting", "removing", "spawning"}
  BY DEF OneAtATime, Moving, Alive
<1> QED
  BY <1>1, <1>2, <1>3 DEF OneAtATime, ServingIsListed, Busy, Moving, Alive

LEMMA DaemonQuiet ==
  ASSUME IInv, Quiet, ~overlapped', NEW d \in Daemons, DaemonRuns(d)
  PROVE  OneAtATime' /\ ServingIsListed'
<1>0. OneAtATime /\ ServingIsListed
  BY DEF Quiet, DaemonRuns
<1> USE Types DEF Moving, Goes, launcherVars
<1>1. CASE ListenBridge(d)
  <2>1. Moving(d) /\ info # d
    BY <1>0, <1>1 DEF ListenBridge, OneAtATime
  <2>2. CASE bridge = Nobody
    BY <1>0, <1>1, <2>1, <2>2, MovesQuiet DEF ListenBridge
  <2>3. CASE bridge # Nobody
    BY <1>0, <1>1, <2>1, <2>3, MovesQuiet DEF ListenBridge
  <2> QED
    BY <2>2, <2>3
<1>2. CASE ListenControl(d)
  <2>1. Moving(d) /\ info # d
    BY <1>0, <1>2 DEF ListenControl, OneAtATime
  <2>2. CASE control = Nobody
    BY <1>0, <1>2, <2>1, <2>2, MovesQuiet DEF ListenControl
  <2>3. CASE control # Nobody
    BY <1>0, <1>2, <2>1, <2>3, MovesQuiet DEF ListenControl
  <2> QED
    BY <2>2, <2>3
<1>3. CASE TruncateInfo(d)
  BY <1>0, <1>3, MovesQuiet DEF TruncateInfo
<1>4. CASE WriteInfo(d)
  <2>1. /\ daemon[d] = "writing" /\ info = Partial
        /\ daemon' = [daemon EXCEPT ![d] = "serving"] /\ info' = d /\ UNCHANGED step
    BY <1>0, <1>4 DEF WriteInfo, OneAtATime
  <2>2. \A e \in Daemons \ {d} : ~Alive(e) /\ ~Alive(e)' /\ ~Moving(e)'
    BY <1>0, <2>1 DEF OneAtATime, Alive
  <2>3. \A l \in Launchers : step[l] \notin {"checking", "connecting", "removing", "spawning"}
    BY <1>0, <2>1 DEF OneAtATime, Alive
  <2> QED
    BY <1>0, <2>1, <2>2, <2>3 DEF OneAtATime, ServingIsListed, Busy, Alive
<1>5. CASE CloseBridge(d)
  <2>1. Moving(d) /\ info # d
    BY <1>0, <1>5 DEF CloseBridge, OneAtATime
  <2> QED
    BY <1>0, <1>5, <2>1, MovesQuiet DEF CloseBridge
<1>6. CASE Exit(d)
  BY <1>0, <1>6, MovesQuiet DEF Exit
<1> QED
  BY <1>1, <1>2, <1>3, <1>4, <1>5, <1>6 DEF DaemonRuns

\* A signal reaches a daemon that serves while nothing moves.
LEMMA ShutdownQuiet ==
  ASSUME IInv, Quiet, ~overlapped', NEW d \in Daemons, Shutdown(d)
  PROVE  OneAtATime' /\ ServingIsListed'
<1>1. ~overlapped /\ Settled
  BY DEF Shutdown, Arrives
<1>2. /\ daemon[d] = "serving" /\ daemon' = [daemon EXCEPT ![d] = "closing"]
      /\ info' = Absent /\ UNCHANGED step
  BY DEF Shutdown, Goes, launcherVars
<1>3. \A e \in Daemons \ {d} : daemon'[e] \in {"none", "dead"}
  <2>1. ASSUME NEW e \in Daemons \ {d} PROVE daemon'[e] \in {"none", "dead"}
    <3>1. daemon[e] # "serving"
      BY <1>2, OneServes
    <3> QED
      BY <1>1, <1>2, <3>1, Types DEF Settled
  <2> QED
    BY <2>1
<1>4. \A l \in Launchers : step'[l] \in {"idle", "connected", "failed"}
  BY <1>1, <1>2 DEF Settled
<1>5. daemon'[d] = "closing"
  BY <1>2, Types
<1> QED
  BY <1>2, <1>3, <1>4, <1>5, Types DEF OneAtATime, ServingIsListed, Busy, Moving, Alive

\* A launcher starts while nothing moves.
LEMMA LaunchQuiet ==
  ASSUME IInv, Quiet, ~overlapped', NEW l \in Launchers, Launch(l)
  PROVE  OneAtATime' /\ ServingIsListed'
<1>1. ~overlapped /\ Settled /\ OneAtATime /\ ServingIsListed
  BY DEF Launch, Arrives, Quiet
<1>2. step' = [step EXCEPT ![l] = "checking"] /\ UNCHANGED <<daemon, info>>
  BY DEF Launch, At
<1>3. \A m \in Launchers \ {l} : step'[m] \in {"idle", "connected", "failed"}
  BY <1>1, <1>2, Types DEF Settled
<1>4. step'[l] = "checking" /\ \A d \in Daemons : ~Moving(d)'
  BY <1>1, <1>2, Types DEF Settled, Moving
<1> QED
  BY <1>1, <1>2, <1>3, <1>4 DEF OneAtATime, ServingIsListed, Busy, Moving, Alive

\* The busy launcher goes on to where the daemons allow it to be.
LEMMA GoesOnQuiet ==
  ASSUME IInv, OneAtATime, ServingIsListed, NEW l \in Launchers, Busy(l),
         NEW stage \in {"removing", "spawning", "polling", "connecting", "connected", "failed"},
         step' = [step EXCEPT ![l] = stage], UNCHANGED daemon,
         info' = info \/ \A d \in Daemons : ~Alive(d),
         stage = "connecting" => \A d \in Daemons : ~Moving(d),
         stage \in {"removing", "spawning"} => \A d \in Daemons : ~Alive(d)
  PROVE  OneAtATime' /\ ServingIsListed'
<1>1. \A m \in Launchers \ {l} : step'[m] \in {"idle", "connected", "failed"} /\ ~Busy(m)'
  BY Types DEF OneAtATime, Busy
<1>2. step'[l] = stage
  BY Types
<1>3. \A d \in Daemons : (Moving(d)' <=> Moving(d)) /\ (Alive(d)' <=> Alive(d))
  BY DEF Moving, Alive
<1>4. ASSUME NEW d \in Daemons, info' # info
      PROVE  ~Moving(d)' /\ daemon'[d] # "serving" /\ daemon'[d] # "writing"
  BY <1>4 DEF Moving, Alive
<1> QED
  BY <1>1, <1>2, <1>3, <1>4 DEF OneAtATime, ServingIsListed

\* A daemon that is alive and listed serves: nothing moves.
LEMMA ListedIsStill ==
  ASSUME IInv, OneAtATime, ListedAlive
  PROVE  \A d \in Daemons : ~Moving(d)
<1>1. info \in Daemons /\ Alive(info)
  BY DEF ListedAlive, Listed
<1> QED
  BY <1>1 DEF OneAtATime

\* If no daemon is listed alive, none serves.
LEMMA UnlistedIsNone ==
  ASSUME ServingIsListed, ~ListedAlive, NEW d \in Daemons, ~Moving(d)
  PROVE  ~Alive(d)
BY DEF ServingIsListed, ListedAlive, Listed, Moving, Alive

LEMMA LauncherQuiet ==
  ASSUME IInv, Quiet, ~overlapped', NEW l \in Launchers, LauncherRuns(l)
  PROVE  OneAtATime' /\ ServingIsListed'
<1>0. OneAtATime /\ ServingIsListed
  BY DEF Quiet, LauncherRuns
<1> USE DEF At
<1>1. CASE CheckFinds(l) \/ PollFinds(l)
  <2>1. ListedAlive /\ Busy(l)
    BY <1>1, Types DEF CheckFinds, PollFinds, Takes, Busy
  <2>2. \A d \in Daemons : ~Moving(d)
    BY <1>0, <2>1, ListedIsStill
  <2> QED
    BY <1>0, <1>1, <2>1, <2>2, GoesOnQuiet DEF CheckFinds, PollFinds, Takes
<1>2. CASE CheckStale(l) \/ CheckNothing(l)
  <2>1. ~ListedAlive /\ step[l] = "checking" /\ Busy(l)
    BY <1>2 DEF CheckStale, CheckNothing, ListedAlive, Busy
  <2>2. \A d \in Daemons : ~Alive(d)
    BY <1>0, <2>1, UnlistedIsNone DEF OneAtATime
  <2> QED
    BY <1>0, <1>2, <2>1, <2>2, GoesOnQuiet DEF CheckStale, CheckNothing
<1>3. CASE RemoveStale(l)
  <2>1. Busy(l) /\ \A d \in Daemons : ~Alive(d)
    BY <1>0, <1>3 DEF RemoveStale, OneAtATime, Busy
  <2> QED
    BY <1>0, <1>3, <2>1, GoesOnQuiet DEF RemoveStale
<1>4. CASE SpawnDaemon(l)
  <2>1. PICK d \in Daemons : daemon[d] = "none" /\ daemon' = [daemon EXCEPT ![d] = "booting"]
    BY <1>4 DEF SpawnDaemon, Goes
  <2>2. /\ step[l] = "spawning" /\ step' = [step EXCEPT ![l] = "polling"] /\ UNCHANGED info
    BY <1>4 DEF SpawnDaemon
  <2>3. \A e \in Daemons \ {d} : daemon'[e] \in {"none", "dead"}
    BY <1>0, <2>1, <2>2, Types DEF OneAtATime, Alive
  <2>4. daemon'[d] = "booting" /\ info' # d
    <3>1. info # d
      BY <2>1 DEF IInv, ListedWasUp
    <3> QED
      BY <2>1, <2>2, <3>1, Types
  <2>5. \A m \in Launchers \ {l} : step'[m] \in {"idle", "connected", "failed"}
    BY <1>0, <2>2, Types DEF OneAtATime, Busy
  <2>6. step'[l] = "polling"
    BY <2>2, Types
  <2> QED
    BY <2>3, <2>4, <2>5, <2>6 DEF OneAtATime, ServingIsListed, Busy, Moving, Alive
<1>5. CASE PollTimeout(l)
  <2>1. Busy(l)
    BY <1>5 DEF PollTimeout, Busy
  <2> QED
    BY <1>0, <1>5, <2>1, GoesOnQuiet DEF PollTimeout
<1>6. CASE ConnectControl(l)
  <2>1. Busy(l)
    BY <1>6 DEF ConnectControl, Busy
  <2>2. CASE control \in Daemons
    BY <1>0, <1>6, <2>1, <2>2, GoesOnQuiet DEF ConnectControl
  <2>3. CASE control \notin Daemons
    BY <1>0, <1>6, <2>1, <2>3, GoesOnQuiet DEF ConnectControl
  <2> QED
    BY <2>2, <2>3
<1> QED
  BY <1>1, <1>2, <1>3, <1>4, <1>5, <1>6 DEF LauncherRuns

LEMMA EnvironmentQuiet ==
  ASSUME IInv, Quiet, ~overlapped', EnvironmentRuns \/ UNCHANGED vars
  PROVE  OneAtATime' /\ ServingIsListed'
<1>0. OneAtATime /\ ServingIsListed
  BY DEF Quiet, EnvironmentRuns, vars
<1>1. CASE UNCHANGED <<daemon, info, step>>
  BY <1>0, <1>1 DEF OneAtATime, ServingIsListed, Busy, Moving, Alive
<1>2. ASSUME NEW d \in Daemons, Kill(d) PROVE OneAtATime' /\ ServingIsListed'
  <2>1. daemon' = [daemon EXCEPT ![d] = "dead"] /\ UNCHANGED <<info, step>>
    BY <1>2 DEF Kill, launcherVars
  <2>2. \A e \in Daemons : daemon'[e] = IF e = d THEN "dead" ELSE daemon[e]
    BY <2>1, Types
  <2> QED
    BY <1>0, <2>1, <2>2 DEF OneAtATime, ServingIsListed, Busy, Moving, Alive
<1>3. CASE EditorConnects \/ EditorLeaves \/ ForeignLeaves \/ UNCHANGED vars
  BY <1>1, <1>3 DEF EditorConnects, EditorLeaves, ForeignLeaves, vars, launcherVars
<1> QED
  BY <1>2, <1>3 DEF EnvironmentRuns

LEMMA NextQuiet == IInv /\ Quiet /\ [Next]_vars => Quiet'
<1> SUFFICES ASSUME IInv, Quiet, [Next]_vars, ~overlapped'
             PROVE  OneAtATime' /\ ServingIsListed'
  BY DEF Quiet
<1> QED
  BY DaemonQuiet, ShutdownQuiet, LaunchQuiet, LauncherQuiet, EnvironmentQuiet DEF Next

LEMMA InitQuiet == Init => Quiet
BY DEF Init, Quiet, OneAtATime, ServingIsListed, Busy, Moving, Alive

\* A daemon that serves is in daemon.json, after any number of starts, crashes,
\* kills, failed ports and stale files, as long as proxies start and signals come
\* between settled processes: writes and unlinks that nothing orders cannot meet.
THEOREM DiscoverableUnlessOverlapped == Spec => []ListedUnlessOverlapped
<1>1. Quiet => ListedUnlessOverlapped
  BY DEF Quiet, ListedUnlessOverlapped
<1>2. Spec => []Quiet
  BY InitQuiet, NextQuiet, Invariance, PTL DEF Spec
<1> QED
  BY <1>1, <1>2, PTL
=============================================================================
