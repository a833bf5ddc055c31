--------------------------- MODULE UnifiedServer ---------------------------
(***************************************************************************)
(* The server in one process (index.ts): the bridge's registry of editor   *)
(* sessions with the MCP server attached to it (mcp/server.ts), and the    *)
(* audit log that every call is recorded in (auditedCall, auditLogger.ts). *)
(*                                                                         *)
(* A session is seen through the callbacks and promises of AddonSession,   *)
(* which BridgeLink models in full.  A call runs in one turn of the event  *)
(* loop up to its await; what is active by the time it goes on may be      *)
(* another session.                                                        *)
(***************************************************************************)
EXTENDS Naturals, Sequences, SequencesExt, FiniteSets

CONSTANTS
  Sessions, NoSession,  \* AddonSessions over the server's life
  Calls                 \* calls of the MCP client: of tools, resources and prompts

VARIABLES
  process,   \* index.ts: its event loop and its two ends
  phase,     \* of each AddonSession
  sessions,  \* the Set of sessions, in insertion order
  active,    \* activeSession
  call,      \* how far auditedCall() is
  kind,      \* what a call is of; it never changes
  begun,     \* the session that auditedCall() took at the start
  heldBy,    \* the session in whose pendingRequests the call is
  settled,   \* the outcome its promise has, until the call goes on
  asked,     \* history: the sessions that have been sent a request of the call
  audit      \* the entry of audit.log

bridgeVars == <<phase, sessions, active>>
callVars   == <<call, kind, begun, heldBy, settled, asked, audit>>
vars == <<process, bridgeVars, callVars>>

NoEntry == [status |-> "none", session |-> NoSession]
Entry == [status : {"none", "success", "error", "denied"},
          session : Sessions \cup {NoSession}]

\* A tool whose access is checked and that asks the editor once; the wait, which may
\* ask again; get_output_logs, get_godot_errors and the resources that ask the
\* editor, without a check; prompts and the resource that reads a scene's file.
Kinds == {"tool", "wait", "read", "local"}

Open == {s \in Sessions : phase[s] \in {"open", "ready"}}

\* The Set holds the sessions that are open, each once.
TypeOK ==
  /\ process \in {"starting", "listening", "closing", "stopping", "exited"}
  /\ phase \in [Sessions -> {"none", "open", "ready", "closed"}]
  /\ sessions \in Seq(Sessions) /\ IsInjective(sessions) /\ ToSet(sessions) = Open
  /\ active \in Sessions \cup {NoSession}
  /\ call \in [Calls -> {"idle", "waiting", "asleep", "answered"}]
  /\ kind \in [Calls -> Kinds]
  /\ begun \in [Calls -> Sessions \cup {NoSession}]
  /\ heldBy \in [Calls -> Sessions \cup {NoSession}]
  /\ settled \in [Calls -> {"none", "result", "error"}]
  /\ asked \in [Calls -> SUBSET Sessions]
  /\ audit \in [Calls -> Entry]

Init ==
  /\ process = "starting"
  /\ phase = [s \in Sessions |-> "none"]
  /\ sessions = <<>>
  /\ active = NoSession
  /\ call = [k \in Calls |-> "idle"]
  /\ kind \in [Calls -> Kinds]
  /\ begun = [k \in Calls |-> NoSession]
  /\ heldBy = [k \in Calls |-> NoSession]
  /\ settled = [k \in Calls |-> "none"]
  /\ asked = [k \in Calls |-> {}]
  /\ audit = [k \in Calls |-> NoEntry]

-----------------------------------------------------------------------------
(* The process *)

\* listen(), and its callback that connects the MCP transport.
Listens ==
  /\ process = "starting"
  /\ process' = "listening"
  /\ UNCHANGED <<bridgeVars, callVars>>

\* The port is taken: the error handler sets the exit code, nothing else runs.
ListenFails ==
  /\ process = "starting"
  /\ process' = "exited"
  /\ UNCHANGED <<bridgeVars, callVars>>

\* shutdown(), or connectStdio() fails: the MCP server closes.
Stops ==
  /\ process = "listening"
  /\ process' = "closing"
  /\ UNCHANGED <<bridgeVars, callVars>>

\* Then the bridge stops listening.  The sessions stay, and so do the calls they
\* hold.
StopsListening ==
  /\ process = "closing"
  /\ process' = "stopping"
  /\ UNCHANGED <<bridgeVars, callVars>>

\* The bridge's close callback exits once no connection is left.  It may come
\* before the close event of the last one, whose calls are then not settled.
Exits ==
  /\ process = "stopping"
  /\ \A s, t \in Open : s = t
  /\ process' = "exited"
  /\ UNCHANGED <<bridgeVars, callVars>>

Alive == process \in {"listening", "closing", "stopping"}

-----------------------------------------------------------------------------
(* The bridge *)

SessionConnects(s) ==
  /\ process \in {"listening", "closing"}
  /\ phase[s] = "none"
  /\ phase' = [phase EXCEPT ![s] = "open"]
  /\ sessions' = Append(sessions, s)
  /\ UNCHANGED <<process, active, callVars>>

\* onReady.
SessionReady(s) ==
  /\ Alive
  /\ phase[s] = "open"
  /\ phase' = [phase EXCEPT ![s] = "ready"]
  /\ active' = s
  /\ UNCHANGED <<process, sessions, callVars>>

\* selectLatestReadySession().
LatestReady(q) ==
  LET isReady(s) == phase[s] = "ready"
      i == SelectLastInSeq(q, isReady)
  IN  IF i = 0 THEN NoSession ELSE q[i]

\* Mutant of RejectHeld: close() clears pendingRequests without rejecting them.
ForgetHeld(s) ==
  /\ heldBy' = [k \in Calls |-> IF heldBy[k] = s THEN NoSession ELSE heldBy[k]]
  /\ UNCHANGED settled

\* AddonSession.close(): the pending requests of s are rejected.
RejectHeld(s) ==
  /\ heldBy' = [k \in Calls |-> IF heldBy[k] = s THEN NoSession ELSE heldBy[k]]
  /\ settled' = [k \in Calls |-> IF heldBy[k] = s THEN "error" ELSE settled[k]]

\* Mutant of SessionCloses: the fallback is chosen before the session is removed.
CloseAfterFallback(s) ==
  /\ Alive
  /\ phase[s] \in {"open", "ready"}
  /\ phase' = [phase EXCEPT ![s] = "closed"]
  /\ active' = IF active = s THEN LatestReady(sessions) ELSE active
  /\ sessions' = SelectSeq(sessions, LAMBDA t : t # s)
  /\ RejectHeld(s)
  /\ UNCHANGED <<process, call, kind, begun, asked, audit>>

\* Mutant of SessionCloses: onClose does not remove the session.
CloseUnremoved(s) ==
  /\ Alive
  /\ phase[s] \in {"open", "ready"}
  /\ phase' = [phase EXCEPT ![s] = "closed"]
  /\ active' = IF active = s THEN LatestReady(SelectSeq(sessions, LAMBDA t : t # s)) ELSE active
  /\ RejectHeld(s)
  /\ UNCHANGED <<process, sessions, call, kind, begun, asked, audit>>

\* close() of a session, then onClose.
SessionCloses(s) ==
  /\ Alive
  /\ phase[s] \in {"open", "ready"}
  /\ phase' = [phase EXCEPT ![s] = "closed"]
  /\ \E i \in DOMAIN sessions :
       /\ sessions[i] = s
       /\ sessions' = RemoveAt(sessions, i)
  /\ active' = IF active = s THEN LatestReady(sessions') ELSE active
  /\ RejectHeld(s)
  /\ UNCHANGED <<process, call, kind, begun, asked, audit>>

\* The addon answers, or the request's timer fires.
SessionSettles(k) ==
  /\ Alive
  /\ heldBy[k] # NoSession
  /\ heldBy' = [heldBy EXCEPT ![k] = NoSession]
  /\ \E outcome \in {"result", "error"} : settled' = [settled EXCEPT ![k] = outcome]
  /\ UNCHANGED <<process, bridgeVars, call, kind, begun, asked, audit>>

-----------------------------------------------------------------------------
(* Calls *)

\* auditedCall() after its await: the entry names the session of the start.
Answer(k, session, status) ==
  /\ call' = [call EXCEPT ![k] = "answered"]
  /\ audit' = [audit EXCEPT ![k] = [status |-> status, session |-> session]]

\* callAddonPayload() up to its await.
Ask(k) ==
  /\ heldBy' = [heldBy EXCEPT ![k] = active]
  /\ asked' = [asked EXCEPT ![k] = @ \cup {active}]
  /\ call' = [call EXCEPT ![k] = "waiting"]

\* A tool is called while no session is active.
CallUnavailable(k) ==
  /\ process = "listening" /\ call[k] = "idle" /\ kind[k] \in {"tool", "wait"}
  /\ active = NoSession
  /\ Answer(k, NoSession, "error")
  /\ UNCHANGED <<process, bridgeVars, kind, begun, heldBy, settled, asked>>

\* A tool is called that the active session does not offer.
CallDenied(k) ==
  /\ process = "listening" /\ call[k] = "idle" /\ kind[k] \in {"tool", "wait"}
  /\ active # NoSession
  /\ Answer(k, active, "denied")
  /\ UNCHANGED <<process, bridgeVars, kind, begun, heldBy, settled, asked>>

\* A read while no session is active: it answers from the files, or that nothing is
\* available, and neither is marked as an error; but a file may fail to be read.
ReadUnavailable(k) ==
  /\ process = "listening" /\ call[k] = "idle" /\ kind[k] = "read"
  /\ active = NoSession
  /\ \E status \in {"success", "error"} : Answer(k, NoSession, status)
  /\ UNCHANGED <<process, bridgeVars, kind, begun, heldBy, settled, asked>>

\* A prompt or a scene's file: no editor is asked, and the entry names the active one.
LocalCall(k) ==
  /\ process = "listening" /\ call[k] = "idle" /\ kind[k] = "local"
  /\ \E status \in {"success", "error"} : Answer(k, active, status)
  /\ UNCHANGED <<process, bridgeVars, kind, begun, heldBy, settled, asked>>

\* A call comes in and is sent to the active session.
CallBegins(k) ==
  /\ process = "listening" /\ call[k] = "idle" /\ kind[k] # "local"
  /\ active # NoSession
  /\ Ask(k)
  /\ begun' = [begun EXCEPT ![k] = active]
  /\ UNCHANGED <<process, bridgeVars, kind, settled, audit>>

\* What is recorded of a call that is settled: a failed request of a tool is an error,
\* that of a read is not, and a file that the answer takes in may fail to be read.
Statuses(k) ==
  {status \in {"success", "error"} :
     /\ settled[k] = "error" /\ kind[k] # "read" => status = "error"
     /\ settled[k] = "result" /\ kind[k] = "wait" => status = "success"}

\* Mutant of CallEnds: the session is looked up again when the entry is written.
CallEndsLate(k) ==
  /\ Alive
  /\ call[k] = "waiting" /\ settled[k] # "none"
  /\ \E status \in Statuses(k) : Answer(k, active, status)
  /\ settled' = [settled EXCEPT ![k] = "none"]
  /\ UNCHANGED <<process, bridgeVars, kind, begun, heldBy, asked>>

\* The call goes on: the outcome is its answer, unless a wait must look again.
CallEnds(k) ==
  /\ Alive
  /\ call[k] = "waiting" /\ settled[k] # "none"
  /\ \E status \in Statuses(k) : Answer(k, begun[k], status)
  /\ settled' = [settled EXCEPT ![k] = "none"]
  /\ UNCHANGED <<process, bridgeVars, kind, begun, heldBy, asked>>

\* waitForRuntimeCondition() has an observation that does not match.
WaitSleeps(k) ==
  /\ Alive
  /\ kind[k] = "wait" /\ call[k] = "waiting" /\ settled[k] = "result"
  /\ call' = [call EXCEPT ![k] = "asleep"]
  /\ settled' = [settled EXCEPT ![k] = "none"]
  /\ UNCHANGED <<process, bridgeVars, kind, begun, heldBy, asked, audit>>

\* The interval is over before the deadline: the session that is active now is asked.
WaitAsksAgain(k) ==
  /\ Alive
  /\ call[k] = "asleep"
  /\ active # NoSession
  /\ Ask(k)
  /\ UNCHANGED <<process, bridgeVars, kind, begun, settled, audit>>

\* The interval is over: no session is left to ask, or the deadline has passed,
\* which is an answer like any other.
WaitEnds(k) ==
  /\ Alive
  /\ call[k] = "asleep"
  /\ \/ active = NoSession /\ Answer(k, begun[k], "error")
     \/ Answer(k, begun[k], "success")
  /\ UNCHANGED <<process, bridgeVars, kind, begun, heldBy, settled, asked>>

Next ==
  \/ Listens \/ ListenFails \/ Stops \/ StopsListening \/ Exits
  \/ \E s \in Sessions : SessionConnects(s) \/ SessionReady(s) \/ SessionCloses(s)
  \/ \E k \in Calls : \/ SessionSettles(k)
                      \/ CallUnavailable(k) \/ CallDenied(k) \/ ReadUnavailable(k)
                      \/ LocalCall(k) \/ CallBegins(k)
                      \/ CallEnds(k) \/ WaitSleeps(k) \/ WaitAsksAgain(k) \/ WaitEnds(k)

Spec == Init /\ [][Next]_vars

\* The event loop runs, the session's timer bounds a request, and a wait has a
\* deadline: it cannot look again for ever.
Fairness ==
  \A k \in Calls : /\ WF_vars(SessionSettles(k))
                   /\ WF_vars(CallEnds(k) \/ WaitSleeps(k))
                   /\ SF_vars(WaitEnds(k))

-----------------------------------------------------------------------------
(* Properties *)

\* The registry of index.ts does what SessionRegistry promises, as the daemon's.
Registry == INSTANCE SessionRegistry WITH
  ready <- {s \in Sessions : phase[s] = "ready"},
  gone <- {s \in Sessions : phase[s] = "closed"}

ImplementsRegistry == Registry!Spec

\* Whatever became active while a call was out, its entry names a session that
\* it was sent to: the only one, unless it is a wait.  A call that was sent to none
\* is not recorded as a success, except one that needs no editor and a read
\* whose entry says that there was no session.
AuditNamesExecutor ==
  \A k \in Calls : audit[k].status # "none" =>
    IF asked[k] = {}
    THEN audit[k].status = "success" =>
           kind[k] = "local" \/ (kind[k] = "read" /\ audit[k].session = NoSession)
    ELSE /\ audit[k].session \in asked[k]
         /\ kind[k] # "wait" => asked[k] = {audit[k].session}

\* Every call is answered and recorded, however sessions come and go, unless the
\* process ends first.
CallsAreRecorded ==
  \A k \in Calls : call[k] # "idle" ~> audit[k].status # "none" \/ process = "exited"
=============================================================================
