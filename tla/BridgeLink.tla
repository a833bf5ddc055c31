----------------------------- MODULE BridgeLink -----------------------------
(***************************************************************************)
(* The bridge between one Godot editor and the server: the client of the   *)
(* addon (bridge_client.gd) and the AddonSessions (addonSession.ts) that   *)
(* the server creates for its successive TCP connections.                  *)
(*                                                                         *)
(* Connections are numbered in the order the client opens them.  Each has  *)
(* a FIFO channel per direction; a step handles one frame, since neither   *)
(* side's handler of a frame depends on how frames were cut into chunks.   *)
(* When a side leaves, what it has sent can still be read or be lost, and  *)
(* what was sent to it is gone: the channels hold readable frames only.    *)
(*                                                                         *)
(* Time is abstract: a timer may fire whenever it is armed.  The firings   *)
(* that tear a connection down, and the user's stops, are counted by       *)
(* faults and bounded by MaxFaults.                                        *)
(***************************************************************************)
EXTENDS Naturals, Sequences, FiniteSets

CONSTANTS
  Requests,   \* the calls of AddonSession.request()
  NoReq,      \* "no request" in a frame
  MaxConns,   \* bound: TCP connections the client opens
  MaxFaults,  \* bound: timeouts, failed connects, stops
  MaxPings,   \* bound: unanswered pings of each side
  IdleTicks   \* idleTimeoutMs / heartbeatIntervalMs

ASSUME BridgeAssumption ==
  /\ NoReq \notin Requests
  /\ MaxConns \in Nat /\ MaxFaults \in Nat /\ MaxPings \in Nat /\ IdleTicks \in Nat

VARIABLES
  \* the addon's client
  state,        \* _state
  desired,      \* _desired_running
  conn,         \* the connection of _tcp, 0 when disconnected
  opened,       \* connections opened so far
  helloPending, \* bridge.handshake.hello is in _pending_requests
  \* the server's AddonSession of each connection
  sock,         \* its socket
  ready,        \* the field ready
  deadline,     \* the handshakeDeadline timer is armed
  syncPending,  \* bridge.handshake.sync is in pendingRequests
  quiet,        \* heartbeat ticks since lastSeenAt
  \* the requests of the MCP side
  req,          \* the promise that request() returned
  reqOn,        \* the connection whose pendingRequests holds it, 0 if none does
  ran,          \* history: how many times the editor executed it
  \* the two directions of each connection
  toServer, toAddon,
  faults

addonVars  == <<state, desired, conn, opened, helloPending>>
serverVars == <<sock, ready, deadline, syncPending, quiet>>
reqVars    == <<req, reqOn>>
vars == <<addonVars, serverVars, reqVars, ran, toServer, toAddon, faults>>

Conns == 1..MaxConns
States == {"disconnected", "connecting", "handshaking", "ready", "reconnect_wait"}
SockStates == {"unused", "syn", "open", "destroyed", "closed"}

\* A frame: its kind, and the request that a call or its answer carries.
LinkTypes == {"hello", "helloOk", "sync", "syncAck", "ping", "pong"}
CallTypes == {"call", "result", "error"}
Frame == [type : LinkTypes, req : {NoReq}] \cup [type : CallTypes, req : Requests]
Plain(t) == [type |-> t, req |-> NoReq]
About(t, r) == [type |-> t, req |-> r]

\* The pings of one side that are not answered yet, sent along the channel out.
Unanswered(out, back) ==
  Cardinality({i \in DOMAIN out : out[i].type = "ping"})
  + Cardinality({i \in DOMAIN back : back[i].type = "pong"})

\* AddonSession.isReady(); it stays true between destroy() and the close event.
IsReady(c) == ready[c] /\ sock[c] # "closed"

TypeOK ==
  /\ state \in States
  /\ desired \in BOOLEAN
  /\ conn \in 0..MaxConns
  /\ opened \in 0..MaxConns
  /\ helloPending \in BOOLEAN
  /\ sock \in [Conns -> SockStates]
  /\ ready \in [Conns -> BOOLEAN]
  /\ deadline \in [Conns -> BOOLEAN]
  /\ syncPending \in [Conns -> BOOLEAN]
  /\ quiet \in [Conns -> Nat]
  /\ req \in [Requests -> {"idle", "waiting", "resolved", "rejected"}]
  /\ reqOn \in [Requests -> 0..MaxConns]
  /\ ran \in [Requests -> Nat]
  /\ toServer \in [Conns -> Seq(Frame)]
  /\ toAddon \in [Conns -> Seq(Frame)]
  /\ faults \in Nat

Init ==
  /\ state = "disconnected"
  /\ desired = FALSE
  /\ conn = 0
  /\ opened = 0
  /\ helloPending = FALSE
  /\ sock = [c \in Conns |-> "unused"]
  /\ ready = [c \in Conns |-> FALSE]
  /\ deadline = [c \in Conns |-> FALSE]
  /\ syncPending = [c \in Conns |-> FALSE]
  /\ quiet = [c \in Conns |-> 0]
  /\ req = [r \in Requests |-> "idle"]
  /\ reqOn = [r \in Requests |-> 0]
  /\ ran = [r \in Requests |-> 0]
  /\ toServer = [c \in Conns |-> <<>>]
  /\ toAddon = [c \in Conns |-> <<>>]
  /\ faults = 0

Fault == /\ faults < MaxFaults
         /\ faults' = faults + 1

-----------------------------------------------------------------------------
(* The addon's client *)

\* Mutant of Connect: a state that no reader of _state knows.
ConnectUnnamed ==
  /\ opened < MaxConns
  /\ opened' = opened + 1
  /\ conn' = opened + 1
  /\ sock' = [sock EXCEPT ![opened + 1] = "syn"]
  /\ helloPending' = FALSE
  /\ state' = "opening"
  /\ UNCHANGED <<ready, deadline, syncPending, quiet, reqVars, ran, toServer, toAddon>>

\* _connect(): a fresh socket; the attempt waits in the server's backlog.
Connect ==
  /\ opened < MaxConns
  /\ opened' = opened + 1
  /\ conn' = opened + 1
  /\ sock' = [sock EXCEPT ![opened + 1] = "syn"]
  /\ helloPending' = FALSE
  /\ state' = "connecting"
  /\ UNCHANGED <<ready, deadline, syncPending, quiet, reqVars, ran, toServer, toAddon>>

Start ==
  /\ ~desired
  /\ desired' = TRUE
  /\ Connect
  /\ UNCHANGED faults

\* stop(), called when the plugin is disabled, reloaded or the editor quits.
Stop ==
  /\ desired
  /\ desired' = FALSE
  /\ conn' = 0
  /\ helloPending' = FALSE
  /\ state' = "disconnected"
  /\ toAddon' = [c \in Conns |-> IF c = conn THEN <<>> ELSE toAddon[c]]
  /\ Fault
  /\ UNCHANGED <<opened, serverVars, reqVars, ran, toServer>>

\* The wait is over: poll() in STATE_RECONNECT_WAIT.
Reconnect ==
  /\ state = "reconnect_wait"
  /\ desired
  /\ Connect
  /\ UNCHANGED <<desired, faults>>

\* Mutant of ScheduleReconnect: gives up instead of waiting to try again.
ScheduleNoReconnect ==
  /\ conn' = 0
  /\ helloPending' = FALSE
  /\ state' = "disconnected"
  /\ toAddon' = [toAddon EXCEPT ![conn] = <<>>]
  /\ UNCHANGED <<desired, opened>>

\* _schedule_reconnect(): drops the socket and everything known of the peer.
ScheduleReconnect ==
  /\ conn' = 0
  /\ helloPending' = FALSE
  /\ state' = IF desired THEN "reconnect_wait" ELSE "disconnected"
  /\ toAddon' = [toAddon EXCEPT ![conn] = <<>>]
  /\ UNCHANGED <<desired, opened>>

\* The attempt is refused or exceeds connect_timeout_ms.  The server may still
\* accept it from its backlog and find it dead.
ConnectFails ==
  /\ state = "connecting"
  /\ sock[conn] = "syn"
  /\ ScheduleReconnect
  /\ Fault
  /\ UNCHANGED <<serverVars, reqVars, ran, toServer>>

\* _send_message(): a frame for a socket that is gone is dropped.
AddonSends(frames) ==
  toServer' = IF sock[conn] \in {"syn", "open"}
              THEN [toServer EXCEPT ![conn] = @ \o frames]
              ELSE toServer

\* _on_connected(): hello is written as soon as TCP is up, accepted or not.
OnConnected ==
  /\ state = "connecting"
  /\ sock[conn] \in {"syn", "open"}
  /\ state' = "handshaking"
  /\ helloPending' = TRUE
  /\ AddonSends(<<Plain("hello")>>)
  /\ UNCHANGED <<desired, conn, opened, serverVars, reqVars, ran, toAddon, faults>>

\* The next frame, read by _read_available_messages().
AddonReads(t) ==
  /\ state \in {"handshaking", "ready"}
  /\ toAddon[conn] # <<>>
  /\ Head(toAddon[conn]).type = t
  /\ toAddon' = [toAddon EXCEPT ![conn] = Tail(@)]
  /\ UNCHANGED <<desired, conn, opened, serverVars, reqVars, faults>>

\* The answer to hello; a pong that answers the client's own ping changes nothing.
ReadHelloOk ==
  /\ AddonReads("helloOk")
  /\ helloPending' = FALSE
  /\ UNCHANGED <<state, ran, toServer>>

ReadPong ==
  /\ AddonReads("pong")
  /\ UNCHANGED <<state, helloPending, ran, toServer>>

\* bridge.handshake.sync: answer, become ready, send the first ping.
ReadSync ==
  /\ AddonReads("sync")
  /\ AddonSends(<<Plain("syncAck"), Plain("ping")>>)
  /\ state' = "ready"
  /\ UNCHANGED <<helloPending, ran>>

ReadPing ==
  /\ AddonReads("ping")
  /\ AddonSends(<<Plain("pong")>>)
  /\ UNCHANGED <<state, helloPending, ran>>

\* Mutant of ReadCall: the frame is handled but stays in the buffer.
ReadCallTwice ==
  /\ state \in {"handshaking", "ready"}
  /\ toAddon[conn] # <<>>
  /\ Head(toAddon[conn]).type = "call"
  /\ LET r == Head(toAddon[conn]).req IN
     /\ ran[r] < 2
     /\ ran' = [ran EXCEPT ![r] = @ + 1]
     /\ \E outcome \in {"result", "error"} : AddonSends(<<About(outcome, r)>>)
  /\ UNCHANGED <<state, helloPending, toAddon, desired, conn, opened, serverVars, reqVars, faults>>

\* Any other method: the request handler runs to completion and is answered.
ReadCall ==
  /\ AddonReads("call")
  /\ LET r == Head(toAddon[conn]).req IN
     /\ ran' = [ran EXCEPT ![r] = @ + 1]
     /\ \E outcome \in {"result", "error"} : AddonSends(<<About(outcome, r)>>)
  /\ UNCHANGED <<state, helloPending>>

\* The heartbeat of poll() in STATE_READY.
AddonPing ==
  /\ state = "ready"
  /\ Unanswered(toServer[conn], toAddon[conn]) < MaxPings
  /\ AddonSends(<<Plain("ping")>>)
  /\ UNCHANGED <<addonVars, serverVars, reqVars, ran, toAddon, faults>>

\* _check_pending_request_timeouts(): only a lost hello reconnects.
HelloTimeout ==
  /\ state \in {"handshaking", "ready"}
  /\ helloPending
  /\ ScheduleReconnect
  /\ Fault
  /\ UNCHANGED <<serverVars, reqVars, ran, toServer>>

\* poll() sees the socket in STATUS_ERROR or STATUS_NONE.
BridgeDisconnected ==
  /\ conn # 0
  /\ sock[conn] \in {"destroyed", "closed"}
  /\ ScheduleReconnect
  /\ UNCHANGED <<serverVars, reqVars, ran, toServer, faults>>

AddonNext ==
  \/ Start \/ Stop \/ Reconnect \/ ConnectFails \/ OnConnected
  \/ ReadHelloOk \/ ReadPong \/ ReadSync \/ ReadPing \/ ReadCall
  \/ AddonPing \/ HelloTimeout \/ BridgeDisconnected

-----------------------------------------------------------------------------
(* The server's sessions *)

\* The connection handler: new AddonSession(socket, ...).
Accept(c) ==
  /\ sock[c] = "syn"
  /\ sock' = [sock EXCEPT ![c] = "open"]
  /\ deadline' = [deadline EXCEPT ![c] = TRUE]
  /\ UNCHANGED <<addonVars, ready, syncPending, quiet, reqVars, ran, toServer, toAddon, faults>>

\* handleData() of one frame; every byte counts as a sign of life.
ServerReads(c, t) ==
  /\ sock[c] = "open"
  /\ toServer[c] # <<>>
  /\ Head(toServer[c]).type = t
  /\ toServer' = [toServer EXCEPT ![c] = Tail(@)]
  /\ quiet' = [quiet EXCEPT ![c] = 0]
  /\ UNCHANGED <<addonVars, sock, ran, faults>>

\* send(): a write to a destroyed or deserted socket goes nowhere.
ServerSends(c, frames) ==
  toAddon' = IF sock[c] = "open" /\ conn = c
             THEN [toAddon EXCEPT ![c] = @ \o frames]
             ELSE toAddon

\* Mutant of HandleHello: the session is ready before the addon acknowledges.
HandleHelloEagerly(c) ==
  /\ ServerReads(c, "hello")
  /\ ServerSends(c, <<Plain("helloOk"), Plain("sync")>>)
  /\ ready' = [ready EXCEPT ![c] = TRUE]
  /\ UNCHANGED <<syncPending, deadline, reqVars>>

\* handleHello(): the hello response, then the sync request.
HandleHello(c) ==
  /\ ServerReads(c, "hello")
  /\ ServerSends(c, <<Plain("helloOk"), Plain("sync")>>)
  /\ syncPending' = [syncPending EXCEPT ![c] = TRUE]
  /\ UNCHANGED <<ready, deadline, reqVars>>

HandlePing(c) ==
  /\ ServerReads(c, "ping")
  /\ ServerSends(c, <<Plain("pong")>>)
  /\ UNCHANGED <<ready, deadline, syncPending, reqVars>>

\* handleResponse() of the sync request: onReady and startHeartbeat.
HandleSyncAck(c) ==
  /\ ServerReads(c, "syncAck")
  /\ IF syncPending[c]
     THEN /\ syncPending' = [syncPending EXCEPT ![c] = FALSE]
          /\ deadline' = [deadline EXCEPT ![c] = FALSE]
          /\ ready' = [ready EXCEPT ![c] = TRUE]
     ELSE UNCHANGED <<syncPending, deadline, ready>>
  /\ UNCHANGED <<reqVars, toAddon>>

\* A heartbeat's answer has no callback: it only shows that the addon lives.
HandlePong(c) ==
  /\ ServerReads(c, "pong")
  /\ UNCHANGED <<ready, deadline, syncPending, reqVars, toAddon>>

\* Their entries leave pendingRequests and their promises are settled.
Settle(R, outcome) ==
  /\ req' = [r \in Requests |-> IF r \in R THEN outcome ELSE req[r]]
  /\ reqOn' = [r \in Requests |-> IF r \in R THEN 0 ELSE reqOn[r]]

\* Mutant of HandleAnswer: an answer settles its request a second time.
HandleLateAnswer(c) ==
  \E t \in {"result", "error"} :
    /\ ServerReads(c, t)
    /\ Settle({Head(toServer[c]).req}, IF t = "result" THEN "resolved" ELSE "rejected")
    /\ UNCHANGED <<ready, deadline, syncPending, toAddon>>

\* handleResponse() of a call: unknown ids (timed out, closed) are ignored.
HandleAnswer(c) ==
  \E t \in {"result", "error"} :
    /\ ServerReads(c, t)
    /\ LET r == Head(toServer[c]).req IN
       IF reqOn[r] = c
       THEN Settle({r}, IF t = "result" THEN "resolved" ELSE "rejected")
       ELSE UNCHANGED reqVars
    /\ UNCHANGED <<ready, deadline, syncPending, toAddon>>

\* failHandshake(), from the handshakeDeadline timer.
HandshakeTimeout(c) ==
  /\ sock[c] = "open"
  /\ deadline[c]
  /\ ~ready[c]
  /\ sock' = [sock EXCEPT ![c] = "destroyed"]
  /\ deadline' = [deadline EXCEPT ![c] = FALSE]
  /\ Fault
  /\ UNCHANGED <<addonVars, ready, syncPending, quiet, reqVars, ran, toServer, toAddon>>

\* The interval of startHeartbeat(): ping, or give up on a silent addon.
HeartbeatPing(c) ==
  /\ sock[c] = "open"
  /\ ready[c]
  /\ quiet[c] < IdleTicks
  /\ Unanswered(toAddon[c], toServer[c]) < MaxPings
  /\ quiet' = [quiet EXCEPT ![c] = @ + 1]
  /\ ServerSends(c, <<Plain("ping")>>)
  /\ UNCHANGED <<addonVars, sock, ready, deadline, syncPending, reqVars, ran, toServer, faults>>

HeartbeatTimeout(c) ==
  /\ sock[c] = "open"
  /\ ready[c]
  /\ quiet[c] >= IdleTicks
  /\ sock' = [sock EXCEPT ![c] = "destroyed"]
  /\ Fault
  /\ UNCHANGED <<addonVars, ready, deadline, syncPending, quiet, reqVars, ran, toServer, toAddon>>

\* Mutant of Close: the pending requests are dropped without being rejected.
CloseSilently(c) ==
  /\ sock[c] = "destroyed" \/ (sock[c] = "open" /\ conn # c)
  /\ sock' = [sock EXCEPT ![c] = "closed"]
  /\ deadline' = [deadline EXCEPT ![c] = FALSE]
  /\ syncPending' = [syncPending EXCEPT ![c] = FALSE]
  /\ quiet' = [quiet EXCEPT ![c] = 0]
  /\ toServer' = [toServer EXCEPT ![c] = <<>>]
  /\ UNCHANGED <<addonVars, ready, reqVars, ran, toAddon, faults>>

\* close(), on the socket's close event: after destroy(), or once the addon left.
Close(c) ==
  /\ sock[c] = "destroyed" \/ (sock[c] = "open" /\ conn # c)
  /\ sock' = [sock EXCEPT ![c] = "closed"]
  /\ deadline' = [deadline EXCEPT ![c] = FALSE]
  /\ syncPending' = [syncPending EXCEPT ![c] = FALSE]
  /\ quiet' = [quiet EXCEPT ![c] = 0]
  /\ toServer' = [toServer EXCEPT ![c] = <<>>]
  /\ Settle({r \in Requests : reqOn[r] = c}, "rejected")
  /\ UNCHANGED <<addonVars, ready, ran, toAddon, faults>>

\* Mutant of Request: no isReady() test.
RequestUnchecked(r, c) ==
  /\ req[r] = "idle"
  /\ sock[c] \notin {"unused", "syn"}
  /\ req' = [req EXCEPT ![r] = "waiting"]
  /\ reqOn' = [reqOn EXCEPT ![r] = c]
  /\ ServerSends(c, <<About("call", r)>>)
  /\ UNCHANGED <<addonVars, serverVars, ran, toServer, faults>>

\* request() on a session that a caller holds, which may be closed by now.
Request(r, c) ==
  /\ req[r] = "idle"
  /\ sock[c] \notin {"unused", "syn"}
  /\ IF IsReady(c)
     THEN /\ req' = [req EXCEPT ![r] = "waiting"]
          /\ reqOn' = [reqOn EXCEPT ![r] = c]
          /\ ServerSends(c, <<About("call", r)>>)
     ELSE /\ req' = [req EXCEPT ![r] = "rejected"]
          /\ UNCHANGED <<reqOn, toAddon>>
  /\ UNCHANGED <<addonVars, serverVars, ran, toServer, faults>>

RequestTimeout(r) ==
  /\ reqOn[r] # 0
  /\ Settle({r}, "rejected")
  /\ UNCHANGED <<addonVars, serverVars, ran, toServer, toAddon, faults>>

HandleFrame(c) ==
  HandleHello(c) \/ HandlePing(c) \/ HandleSyncAck(c) \/ HandlePong(c) \/ HandleAnswer(c)

ServerNext(c) ==
  \/ Accept(c) \/ HandleFrame(c)
  \/ HandshakeTimeout(c) \/ HeartbeatPing(c) \/ HeartbeatTimeout(c) \/ Close(c)

Next ==
  \/ AddonNext
  \/ \E c \in Conns : ServerNext(c)
  \/ \E r \in Requests : RequestTimeout(r)
  \/ \E r \in Requests, c \in Conns : Request(r, c)

Spec == Init /\ [][Next]_vars

\* The event loops and the editor's frame loop run: what has arrived is handled,
\* a wait ends, a dead socket is noticed.  Nothing forces a fault, a ping or a call.
Fairness ==
  /\ WF_vars(Reconnect) /\ WF_vars(OnConnected)
  /\ WF_vars(ReadHelloOk \/ ReadPong \/ ReadSync \/ ReadPing \/ ReadCall)
  /\ WF_vars(BridgeDisconnected)
  /\ \A c \in Conns : WF_vars(Accept(c)) /\ WF_vars(HandleFrame(c)) /\ WF_vars(Close(c))

FairSpec == Spec /\ Fairness

-----------------------------------------------------------------------------
(* Properties *)

\* The editor never executes a request on a connection whose handshake it has
\* not completed itself: the server's isReady() guards the addon's state.
CallsOnlyWhenReady ==
  [][\A r \in Requests : ran'[r] # ran[r] => state = "ready"]_vars

\* Whatever is retried, reconnected or answered late, the editor executes a
\* request at most once.
AtMostOnce == \A r \in Requests : ran[r] <= 1

\* A session the server takes for ready is one whose client is ready as well,
\* or has left the connection for good.
ReadyAgreement == \A c \in Conns : ready[c] /\ conn = c => state = "ready"

\* A caller only waits on a session that is ready and not closed: close()
\* leaves nobody behind, whatever raced with it.
NoStrandedRequest ==
  \A r \in Requests : req[r] = "waiting" => reqOn[r] \in Conns /\ IsReady(reqOn[r])

\* What the caller of request() was promised.
Contract == INSTANCE SessionContract WITH
  executed <- {r \in Requests : ran[r] > 0}
ImplementsContract == Contract!Spec

\* When faults stop, both ends settle on one connection and agree it is ready,
\* unless the user has disabled the plugin.
EventuallyLinked == <>[](desired => conn # 0 /\ state = "ready" /\ IsReady(conn))
=============================================================================
