# Specifications of godot-loop-mcp

godot-loop-mcp lets an MCP client (an AI assistant) work inside a running
Godot editor. This directory holds TLA+ specifications of it, the model-checking
runs that exercise them, and machine-checked proofs of what matters most.
Everything is translated from the code; paths below are relative to the
repository.

## The system

    MCP client --stdio--> proxy --control port--> daemon --bridge port--> addon in the Godot editor

| component | code | state | operations |
|---|---|---|---|
| bridge client | `addons/godot_loop_mcp/bridge/bridge_client.gd` | connection state, pending hello, reconnect wait | start, stop, poll (connect, handshake, answer calls, ping, time out, reconnect) |
| AddonSession | `packages/server/src/transport/addonSession.ts` | ready, closed, pending requests, handshake and heartbeat timers | one handler per frame kind, request, timers, close |
| daemon registry | `packages/server/src/daemon/index.ts` | set of sessions, the active one | connect, ready, close with fallback |
| control server | `packages/server/src/daemon/controlServer.ts` | connected proxies, subscriptions | subscribe, session info, relay of addon requests, broadcast |
| proxy | `packages/server/src/proxy/{index,daemonClient,remoteAddonSession}.ts` | pending requests, cached session | startup, notifications, calls, exit |
| launcher and daemon lifecycle | `packages/server/src/proxy/launcher.ts`, `daemon/index.ts` | the two ports, `daemon.json` | find, spawn, wait; listen, announce, stop, exit |
| unified server | `packages/server/src/index.ts` | as the registry, its two ends | daemon and MCP server in one process |
| MCP server | `packages/server/src/mcp/*.ts`, `auditLogger.ts` | exposed tools, waits for runtime conditions, audit log | catalog, access checks, tool calls |
| codec | `packages/server/src/transport/protocol.ts`, `bridge/bridge_protocol.gd` | buffer of each decoder | encode, push, decode |
| logs | `packages/server/src/observation/logs.ts`, `observation/` | console ring of the editor, log files | log, read, filter, clear |
| plugin, capabilities | `plugin.gd`, `capabilities/`, `config/` | security level, overrides | routing of requests |
| editor services | `workspace/`, `verification/`, `project/`, `observation/`, `dangerous/` | play session, buffers | tools |
| runtime capture | `runtime/` | ring of events, telemetry hashes | messages from the running game |

The hard behaviour is where these parts meet. Two event loops, the editor's
frame loop and the users' processes interleave freely. Connections die with
frames in flight. Timers race with answers. The proxy keeps a copy of state
that the daemon changes. Several launchers and daemons share two ports and one
file with no lock. Bytes of frames are cut anywhere, and logs are written by
many and cleared by one. `PROJECT.json` lists these hazards with their lines.

## The modules

**SessionContract** is what `AddonSession.request()` promises its callers: a
request is settled at most once, resolved only with the outcome of an execution
in the editor, and executed at most once. A rejection says nothing about
execution: a call that timed out may still run.

**BridgeLink** is the whole bridge between one editor and the server. The
variables are the fields of both classes; the channels are the two directions
of each TCP connection. `Connect` to `BridgeDisconnected` are the branches of
`bridge_client.gd` (`_connect`, `_on_connected`, the cases of
`_handle_request` and `_handle_response`, the timers of `poll`); `Accept` to
`RequestTimeout` those of `AddonSession`. Connections are numbered and may
overlap: the server can still hold the old one when the addon opens the next.
A step handles one frame. The server's `isReady()` stays true between
`destroy()` and the socket's close event, as in the code, and requests can be
made in that gap.

**SessionRegistry** is what a server promises about the editor session that tool
calls go to: a session that becomes ready takes over, nothing else moves the
calls away from a ready one, and when the active one leaves, another ready one
takes its place. The daemon and the unified server have this code twice, and
both are shown to implement it.

**DaemonRelay** puts the daemon's registry, the control server and the proxies
together. An AddonSession appears through its callbacks only, which BridgeLink
models in full. A proxy handles all frames of a chunk before any promise that they
resolved continues, so a proxy step takes a chunk; `overtaken` records when the info
response was applied over newer notifications. A request or an answer may be too
large for the frame that takes it to the other side. The proxy's caller is told at
once (`ProxyCalls`); the daemon's `send()` logs it and sends nothing (`SendFails`),
and the relayed call is `"unsent"` until the proxy gives up. If the daemon
disappears while `main()` still waits, the code fails in its own shutdown function
(`shuttingDown` is declared further down) and the process ends anyway: `LostDaemon`
covers both.

**DaemonLifecycle** is `ensureDaemon()` and the life of a daemon, down to the
system calls on the ports and on `daemon.json`. Listening on both ports and
writing the file is one turn of the event loop, so signals come before or
after; a kill comes anywhere. The host is an address (no name lookup between
the steps), the disk works, a dead daemon's pid is not used again, all
processes have one configuration, and one editor stands for all. The history
variable `overlapped` says whether a proxy has started, or a signal has come,
while another process was between two stable points.

**RuntimeObservation** is a game that the editor plays and everything that
watches it: `runtime_telemetry.gd` inside the game, the debugger messages both
ways, `runtime_debugger_plugin.gd` and `runtime_debug_capture.gd` in the editor,
the tools of the workspace and verification services that command or read the
game, and the loop of `waitForRuntimeCondition()` on the server. One node stands
for a snapshot's content, `held` remembers what it has been in this run. The
telemetry's `_ready` and deferred `_emit_ready` are one step, as is a node event
with the snapshot deferred to the end of its frame. The autoload does not set
its process mode, so `_process` stops with a paused tree. A wait's observation
is one step at the editor; the way there is BridgeLink's and appears as a
rejection only. An observation that fails ends the wait (`mcp/server.ts:1234`),
also right after `play_scene`, although the tool is described as polling "until
a predicate matches or times out"; `dev/m4GuiSmoke.ts:202` retries the property
first and then waits for it.

The plugin relies on the engine calling `_session_started` and
`_session_stopped`. The virtual methods that Godot 4.4 documents for
EditorDebuggerPlugin do not include the two (sessions are announced through
`_setup_session` and signals of EditorDebuggerSession), and the repository holds
no test that would tell, since the scene of `dev/m4GuiSmoke.ts` presses its own
button. The constant `SessionCallbacks` is therefore the set of the answers that
a run considers, and the variable `callbacks` the one of a behaviour. `runtime`
takes both kinds of engine. `pause_lost` and `annotated_stale` take the plugin at its
word, and disagree all the same: where the two are not called, no command is ever
sent. `stale_read` takes the other engine: there, no snapshot is cleared between
runs.

**AccessControl** is who may call what: the level and the manifest that an
editor announces when its bridge starts (`capability_registry.gd`,
`plugin_settings.gd`), the check of the MCP server against the session it knows
(`isEntryUsable`), and the routing of a request through the five services with
the guards of each (`plugin.gd`, `handle_request`). The tables are the code's,
row by row; a tool and the bridge method it is mapped to have one name. The
level and the allowlists are read again at every request, the manifest is built
once: users reconfigure between the two. A fact stands for what a service looks
for (a display, an opt-in, an allowlist that is not empty); an argument is
taken from inside its allowlist. What always holds in an editor (a file system,
a selection) is left out. The registry of DaemonRelay appears as `Activate` and
`LoseConnection`, its notifications as a view that lags. An editor whose
variable and setting are both unknown words has no level: the server takes it
for ReadOnly, and the addon serves reads only.

**UnifiedServer** is `index.ts`: start and stop of the process, the registry with
the MCP server attached, and `auditedCall()` around each tool call. A call runs in
one turn up to its await and writes its audit entry when it goes on, with the
session it took at the start (`begun`); a wait for a runtime condition may ask
another session in each round (`asked` is the history of them). What a call is of
(`kind`) decides what is checked and recorded. Tools go through
`toolAccessDenied()`: without a session they fail. `get_output_logs`,
`get_godot_errors` and the resources do not (`mcp/server.ts:535-567`): with no
session the log tools answer from the files, as
`docs/implementation-milestones.md:147` has it, the resources that there is none,
and both are recorded as a success without a session (`ReadUnavailable`). Prompts
and the file of a scene ask nobody (`LocalCall`). The process does not end with its
standard input, and its `shutdown()` waits for the editor's connection, so `Exits`
needs the sessions gone.

**FrameCodec** is both decoders and the encoder, and the three hops on which they
matter: a call to the addon, its answer on the same socket, and the wrapping of that
answer for a proxy. A frame is its size and whether it is a JSON object; bytes
arrive cut anywhere. The encoder of the server has the limit `MAX_FRAME_BYTES`, the
addon's has none; the server's decoder destroys the socket on a frame it cannot take
and drops the frames it decoded before it in the same `push()`, the addon's skips
what is no object. Each decoder is its loop in closed form: the first position at
which it ends (`Complete`, `Throws`). `ControlServer.send()` logs a message that it
cannot encode and goes on (`swallowed`).

**ObservedLogs** is the console ring of the editor, the three log files, those
who write them, and the reads and the clear of the tools. A clear has two halves,
at the editor and then at the server, and lines are logged between them. Reads
change nothing and are operators: the ones of `observation_service.gd`, and
the fallbacks of `observation/logs.ts` with their sorting by second and their
window.

**ExternalPlay** is a scene played by a headless editor: a process tracked by
its pid, which writes `runtime.log` while the log tools read it. `_play_scene`
empties the log before it kills the process of the last run, so its two halves
are two actions. The system may refuse a kill, and an editor may die.

**MCServerParts** checks the last four side by side. They share no state, so a
behaviour runs one of them and leaves the others in their initial states.
`PartsTypeOK` is the type invariant of all four.

**DataLemmas** holds what the proofs need of data: a list without repetitions (to
find the last of a kind, to append and to remove), least numbers, and induction
and recursion over an interval of numbers.

Mutants stand before the definition they change and are used by no
specification: each is a plausible bug that the property it is paired with in
`PROJECT.json` must catch.

## What is checked

| run | bounds | shows |
|---|---|---|
| `link` | 1 request, 3 connections, 2 faults, 1 ping a side, fair | types, `AtMostOnce`, `ReadyAgreement`, `NoStrandedRequest`, `CallsOnlyWhenReady`, `ImplementsContract`, `EventuallyLinked` |
| `relay_live` | 3 sessions, 1 proxy, 1 call, chunks of 3, fair | types, `HeldByReady`, `ActiveTracksReady`, `CacheAgrees`, `ImplementsRegistry`, `CallsSettle`, `ClosedLeavesCache` |
| `cache_stale` | 2 sessions, 1 proxy | `CacheAlwaysAgrees` fails |
| `server_parts`: UnifiedServer | 3 sessions, 1 call of any kind, fair | `PartsTypeOK`, `AuditNamesExecutor`, `ImplementsRegistry`, `CallsAreRecorded` |
| `server_parts`: FrameCodec | 2 requests, payloads below, at and above the limit, 2 foreign frames, fair | `DecodedAsWritten`, `LimitsAgree`, `AnswersReachProxies` |
| `server_parts`: ObservedLogs | 3 lines in 2 seconds, limit 1, ring of 2 | `ClearedStaysCleared`, `ErrorsSurface` |
| `server_parts`: ExternalPlay | 3 processes | `RuntimeLogIsOfThisRun`, `NoStrayRun` |
| `lifecycle` | 3 daemons, 3 launchers, fair | types, `PortsTogether`, `ListedWasUp`, `ListedUnlessOverlapped`, `LauncherEnds`, `NoLingering` |
| `daemon_unlisted` | 2 daemons, 2 launchers | `ServingIsListed` fails |
| `runtime` | 2 runs, 2 values, 2 changes, 2 tool uses or waits, ring of 2, with and without session callbacks, fair | types, `StaleOnlyAtStart`, `LastSentIsKept`, `PauseIsReported`, `SnapshotCatchesUp`, `WaitEnds` |
| `stale_read` | 2 runs, 1 value, no session callbacks | `ReadIsOfThisRun` fails |
| `pause_lost` | 1 run, 1 tool use, fair | `PauseTakesEffect` fails |
| `annotated_stale` | 2 runs, 2 tool uses | `AnnotatesRunningScene` fails |
| `access` | 1 editor, all 46 tools and the resources, 3 values of the variable, 2 of the setting, 1 changing allowlist | types, `UsableIsServedToWriters`, `ServedWithinPolicy` |
| `readonly_refused` | as `access` | `UsableIsServed` fails |

Why the bounds are enough. In BridgeLink every reconnection
costs a fault or a close, so two faults reach the third connection with
leftovers of the first two; a further connection repeats the situation of the
second. Requests do not influence each other, and the proofs cover any number
of them. One unanswered ping a side suffices, since pings only reset the idle
count. In DaemonRelay the fallback of a fallback needs three sessions, and the
info response with a notification on each side needs a chunk of three; a second
proxy shares nothing with the first, and the proofs cover any number. In
DaemonLifecycle a winner, a loser and a late comer need three processes of each
kind; a new process takes the next name, which loses nothing since names mean
nothing. In RuntimeObservation a stale read needs a second run, an unsent change
two values and a return to the first, and a ring of two drops the oldest of
three events. In AccessControl one editor that stops, is started
again from another environment and connects again is to the server what another
editor is; the proof covers any number. In UnifiedServer a call begins with one
session, finds a second active when it goes on, and falls back to a third. In
FrameCodec a limit of two with payloads of one to three has both sides of the
limit, a header of four bytes gives every cut inside and outside of one, and two
requests let one cost the other's connection. In ObservedLogs a limit of one and
a window of two need a third line to hide an error. In ExternalPlay a third
process meets the leftovers of two.

Deadlock is checked for BridgeLink, whose addon is never stopped for good. The
daemon modules and the parts of `server_parts` may really stop (the process has
ended, the sockets are destroyed), and so may RuntimeObservation (the last run has
ended) and AccessControl (an editor that stays closed), so their configurations
switch it off.

**Fairness.** Weak fairness stands for event loops that run: what has arrived
is handled, a timer that bounds a wait fires, a socket whose peer is gone
reports it. It is never assumed of faults, pings, calls, signals, kills,
proxies that may start, or the user. In BridgeLink timers that tear a
connection down are faults, of which there are finitely many: this is the
assumption behind `EventuallyLinked`. `CallsSettle` assumes the session's timer
(10 s), and the proxy's (60 s) only for a call whose answer could not be encoded
for the proxy: nothing else ends that one. Every other call is settled without
it. In
DaemonLifecycle nothing is assumed of the editor, which a stopped daemon waits
for; `NoLingering` names that exception. In RuntimeObservation frames go on in
both processes and time passes; that a launched game connects is assumed only
when it does not exit first. In UnifiedServer the deadline of a wait is compared
between its rounds only, so a wait that can end again and again must end:
this is the one strong fairness. FrameCodec assumes that sockets deliver what is
written while they are open, and the session's own timer.

## Disagreements with the documentation

`cache_stale`: the answer to the proxy's initial query is applied in a promise
continuation, after the notifications that came in the same chunk
(`proxy/index.ts:119`, `proxy/daemonClient.ts:161`). A session that closed or
was replaced in between stays in the cache until the next notification.
`CacheAgrees` shows that this is the only way in which a proxy at rest can
disagree with the daemon.

`daemon_unlisted`: the exit handler removes `daemon.json` without looking whose
it is (`daemon/index.ts:219`). When two proxies start together, the daemon that
loses the port deletes the winner's file; the winner serves, but nobody finds
it. `ListedUnlessOverlapped` shows that it takes such an overlap, and
`PortsTogether` that the ports stay consistent even then.

`pause_lost`: `send_command()` drops a command when no debugger session is
active (`runtime_debugger_plugin.gd:44`), but `pause_scene` reports the new
state as soon as a scene is playing, which it is from `play_scene` on, before
the game has connected. `simulate_mouse` has the same gap (`"sent": true`).

`annotated_stale`: the annotated screenshot asks the game for its controls and
reads the captured events in the same call (`verification_service.gd:400-414`),
so it never has the answer to its own question, and returns every earlier
answer that is still in the ring, of earlier runs included.

`readonly_refused`: `workspace_service.gd:69` refuses every request below
WorkspaceWrite before it knows whether the method is its own, and comes before
the verification service. At ReadOnly the addon announces `compile.check`, the
screenshots and `runtime.debug` as enabled, the server offers and checks the
tools, and the addon answers that they require WorkspaceWrite.
`UsableIsServedToWriters` shows that there is no such disagreement from
WorkspaceWrite on. The same order is what guards `simulate_mouse`, which has no
check of its own.

`stale_read`: the snapshots of a run are cleared by `_session_stopped()` only
(`runtime_debugger_plugin.gd:33`). In an engine that does not call it, the tools
that read the running scene, which look at the playing state and at the cache,
answer with the tree of an earlier run. `StaleOnlyAtStart` shows how far this
goes: until the first snapshot of the new run has come, and not at all in an
engine that calls it.

Statements that are not runs, since they need no model to be refuted, or are
true of one of two modes:

- `plugin.gd:283` registers a project setting for the security level. An unset
  variable is normalised to WorkspaceWrite (`plugin_settings.gd:34`, line 140), so
  the setting is looked at only when the variable holds an unknown word.
  AccessControl has this as it is (`Level`, `Normalize`).
- `packages/server/README.md:108` has dangerous tools "hidden unless both server
  and addon opt into `Dangerous`", while `shouldAdvertiseEntry` looks at the
  server's level only (they are refused when called).
- `docs/implementation-milestones.md:186` makes the telemetry autoload a premise
  of `runtime.debug`, while the capture's override, merged last, announces it
  without.
- `mcp/server.ts:557` and `packages/server/README.md:100` say that the editor's
  console is preferred where it is captured. `_read_logs`
  (`observation_service.gd:259`) leaves it aside whenever a scene plays, also in
  an editor with a display, where `runtime.log` is that of an earlier headless
  run, and whenever `runtime.log` is not empty.
- The daemon and the proxies log to `daemon.log` and `proxy.log`, which the log
  tools neither read nor clear.
- In a proxy every session is the one `RemoteAddonSession`, whose fields are read
  after the await: there an audit entry names the editor that is active at the
  end. `AuditNamesExecutor` is about the unified server.
- The audit log says less than it seems to. A resource read, and a log tool that
  falls back to the files, is recorded as "success" also when the addon failed or
  there was none; the entry of a prompt names the active session although it was
  not asked; a call to a tool that the MCP library has disabled is not recorded
  at all. The first two are modelled, and `AuditNamesExecutor` names them.

## What is proved

`BridgeLink_proofs` proves, for any finite or infinite set of requests and any
bounds, every safety property that the bridge runs check: `TypeCorrect`,
`ReadyAgreed`, `NobodyStranded`, `CallsWhenReady`, `ExecutedAtMostOnce`, and
`BridgeImplementsContract`, the refinement of SessionContract. The only
assumption is `BridgeAssumption`: the bounds are naturals and `NoReq` is not a
request.

The inductive invariant `IInv` has two layers.

- `LinkInv` is about one connection at a time. `ReadyAgreement` is not inductive:
  whether the server may become ready depends on frames that are still in the
  channel. `Agreement` says that an acknowledgement in flight, or a ready
  session, comes from a client that is ready or has left; `Connected` and
  `Fresh` say which connections exist and that unused ones are empty;
  `CallsGuarded` that a call in flight to a live client finds it ready;
  `Waiting` that a waiting request is held by a ready, open session.
- `Delivery` and `Answered` follow a request: over all channels there is at
  most one call frame for it and none once it ran, and an answer frame exists
  only for a request that ran. At-most-once execution and the refinement rest
  on them.

Both layers are proved action by action. TLC agreed with `IInv` as an invariant
before it was proved.

`DaemonLifecycle_proofs` proves, for any sets of daemons and launchers,
`LifecycleTypeCorrect`, `PortsStayTogether` (`PortsTogether`) and
`ListedDaemonWasUp` (`ListedWasUp`), from `LifecycleAssumption`: `Nobody` and the
other sentinels are no processes. `PortsTogether` is not inductive, since a step
that takes a port knows nothing of the other one: `IInv` adds where a daemon is
when it holds them. `BridgeHeld` says that it has the bridge port exactly from
`ListenBridge` to `CloseBridge`; `ControlHeld` that it has the control port only
while it announces, writes or serves, all inside that interval.

`DiscoverableUnlessOverlapped` (`ListedUnlessOverlapped`) is the counterpart of
the run `daemon_unlisted`: as long as proxies start and signals come between
settled processes, the daemon that serves is the one in `daemon.json`. Its
invariant `Quiet` says what the absence of an overlap gives: `OneAtATime`, at
most one launcher or daemon is on its way, a daemon on its way is not in the
file, and a launcher that removes or spawns has no living daemon beside it.

`RuntimeObservation_proofs` proves `StaleReadsEnd` (`StaleOnlyAtStart`) for any
numbers of runs, changes and commands, any capacity and either kind of engine.
`ReadInv` carries the fact backwards along the way a snapshot takes: every one in
the channel is of this run and of a content the node has had in it, and a game
that has not connected yet has sent nothing. The cached one is of this run too,
or of an earlier one (`AgeInv`), and then the callbacks are not made and
the first snapshot of this run is still to be sent or on its way: once it is
recorded, nothing brings the earlier one back. `CommandsTyped` is needed because
what the game answers depends on the command it takes.

`ObservationTypeCorrect`, `SentIsKept` (`LastSentIsKept`) and `PauseReported`
(`PauseIsReported`) hold with or without the callbacks, by the invariant
`KeptInv`. `Dated` says that messages on their way are of this run and that events
of this run exist only once the game has connected. `PauseSaid` is
`PauseIsReported` while reports are still on their way: the last one in the
channel, or, when there is none, the last one in the ring, is the state of the
tree. The ring is trimmed at its head and cleared as a whole, which is why the
last report survives or none does.

`AccessControl_proofs` proves `PolicyHolds` (`ServedWithinPolicy`) for any
editors, tools and configurations, from `AccessAssumption`. One half is about
the services as functions: `ServedToWriters` and `DangerousIsLast` follow a
method through the order of `plugin.gd` and show that no service before the
right one serves it with a weaker guard. The other half is the invariant
`LetThrough`: a call on its way has passed the server's own level, also one that
is repeated by a wait. Together they need no fact about the manifest: a stale
or wrong manifest can only refuse.

`LetThroughIsServed` (`UsableIsServedToWriters`) does need the manifest: it goes
through the rows of the three tables with the invariant `CheckedInv`, that the
call on its way was let through by the identity it was checked against. When
that identity is what the editor would announce now, the services serve the
call. `AccessAssumption` separates `NoHello` from every identity.

`DaemonRelay_proofs` proves, for any sessions, proxies, calls and chunks,
`RelayTypeOK`, `RelayActiveTracksReady`, `RelayHeldByReady` and
`RelayImplementsRegistry`, from `RelayAssumption`. The invariant adds `Listed`:
the Set lists the sessions that are connected, each once. Without it the
fallback of a close could be the closed session itself, or miss a ready one.

The same module proves `RelayCacheAgrees` (`CacheAgrees`). The property is about a
proxy at rest; its invariant `Told` is about every proxy at every moment. `Early`
says who has subscribed and what came before that. `Current` says that what is on
its way to a subscribed proxy, applied to its cache, leads to the active session:
if notifications are on their way, the last of them names it (`Tells`), and if
none is, the cache of a proxy that serves has it already. An info response on its
way fits (`InfoFits`): it names the active session unless a notification behind it
corrects it. A chunk splits the queue (`Joined`), and the lemmas on joined queues
say what the part that is read leaves in the cache and what the rest still tells.
The exception `overtaken` is needed in `Current` at the one place where the code
applies the info response after newer notifications of the same chunk.

`UnifiedServer_proofs` proves the same of the other registry (`ServerTypeCorrect`,
`ServerKeepsRegistry`), where the type invariant already says that the Set holds
exactly the open sessions, and `AuditIsTruthful` (`AuditNamesExecutor`). The latter
is not inductive, since it is about entries that are written: `OnItsWay` says of a
call that waits that the session it began with has been asked, and is the only one
unless it is a wait. A call that asks nobody is answered in the step that begins it,
with the session or the lack of one that it found.

`ServerParts_proofs` is about `MCServerParts`. It proves the invariants of the other
three parts, composes them with those of UnifiedServer (`PartsInv`; a step of one
part leaves the others where they are), and states of `PartsSpec` what the run
`server_parts` checks: `PartsTypeCorrect` (`PartsTypeOK`), `FramesDecodedAsWritten`
(`DecodedAsWritten`), `EncoderFitsDecoder` (`LimitsAgree`), `ClearingHolds`
(`ClearedStaysCleared`) and `ErrorsAreFound` (`ErrorsSurface`). Its assumptions are
`CodecAssumption` (junk is no request, a header takes a byte at least, some payload,
like that of an error, fits the limit, and no answer leaves the modelled sizes
before it exceeds the limit) and `LogsAssumption` (the bounds are naturals).

- FrameCodec, by `CodecInv`. `Follows` says of one hop where its reader is: behind
  the writer, at the end of a frame, having handled the messages of the frames
  it took out, and on a live socket exactly at the last frame that has come in
  full (`IsWhole`). It is a statement about a stream and not about a hop, so
  that the lemmas about it (`FollowsAppended`, `FollowsOn`, `FollowsPush`) serve
  both decoders and all three hops. `IsWhole` survives a write only because a
  frame has a header: an empty one would be complete at once. `Carried` says
  what is in the streams: a request once in each (`Tidy`, from which "handled
  once" follows), only objects while the peer is an addon, only frames within
  the limit on the control socket, and an answer for each request that is
  resolved. `LimitsAgree` rests on it: the decoder of the proxy has nothing to
  throw at. Underneath, `BytesAdds`, `BytesGrow`, `BytesAppended`, `MessagesAdd`,
  `MessagesInTwo` and `MessagesOf` say what the two recursive functions on
  streams compute, and `ServerTakes` and `AddonTakes` what a push returns.
- ObservedLogs, by `LogsInv`. `Numbered` says that lines are numbered in the order
  of their stamps within a file, and that each file has one writer; `Emptied` adds to
  `ClearedStaysCleared` the half that it lacks: between the two halves of a clear
  the logs of the editor hold nothing from before it. That what a read returns is
  in the ring or a file (`ReadableIsLogged`) then gives the property.
  `ErrorsSurface` needs `Numbered` only: an error that the window leaves out has too
  many lines `Ahead` of it (`LatestLeavesOut`, `LastSortedLeavesOut`,
  `LaterIsAhead`), by the cardinalities of the sets that the reads count.
- ExternalPlay, by `PlayInv`: `PlayTypeCorrect`, `LogIsOfThisRun`
  (`RuntimeLogIsOfThisRun`) and `NothingStrays` (`NoStrayRun`), stated of
  `PlaySpec`, for any number of processes. `WritersKnown` carries the first
  property over the gap between emptying the log and killing its writer: all
  that can still write was alive when the log was emptied.

An instance has its own copy of the library modules that it extends
(`Codec!ToSet`, `Logs!Cardinality`); the lemma `SameOperators` identifies them.

All of this rests on `DataLemmas`. The induction theorems of the library have an
operator as a parameter and cannot be instantiated, but what they are used for is
within reach with sets and functions in their place. `HasLeast` gets the least
number of a set from the well-founded induction of the library;
`IntervalInduction` follows from it, for a set that is closed under the next
number; and `IterationExists` says that a function can be computed number by
number, so that a recursive function (`Bytes`, `Messages`) is known to satisfy
its equation. Each use defines the set of the numbers it has a fact about.

Every invariant and action property that a passing run checks is thus stated by a
theorem. Out of the prover's reach, and model-checked only, are the properties
under fairness: `EventuallyLinked`, `CallsSettle`, `ClosedLeavesCache`,
`SnapshotCatchesUp`, `WaitEnds`, `LauncherEnds`, `NoLingering`,
`CallsAreRecorded` and `AnswersReachProxies`.

## Plan

1. A half-open connection: the addon's ping that is never answered is only
   logged (`bridge_client.gd:283`). BridgeLink's network reports the loss of a
   peer; a link that swallows frames would be one more fault.
2. The reconnection delay, whose counter only `start()` resets
   (`bridge_client.gd:295`): delays are abstract in BridgeLink.
3. A pid that the system gives to another program (`launcher.ts:55`): one more
   kind of owner in DaemonLifecycle.

## Not modelled

Schemas, prompts and text formatting of the MCP server, the editor API calls of
the services, configuration parsing, the Logger's writing (it gives up on a file
after a failed append), file-system errors while logs are truncated, a clock
that steps back, menus, the development smoke scripts, workflows and PowerShell
scripts. They are input and output with no state that interleaves, or failures
for which the code has no branch of its own. Host names resolve to one address,
and all processes of one user have one configuration.
