---------------------------- MODULE DaemonRelay ----------------------------
(***************************************************************************)
(* The daemon between the editors and the MCP clients: its registry of     *)
(* AddonSessions and the active one (daemon/index.ts), the control server  *)
(* (controlServer.ts), and the proxies with their DaemonClient and their   *)
(* cached RemoteAddonSession (proxy/*.ts).                                 *)
(*                                                                         *)
(* A session is seen through the callbacks and promises of AddonSession,   *)
(* which BridgeLink models in full: it connects, may become ready, closes  *)
(* once, and settles each request it accepted.                             *)
(*                                                                         *)
(* A proxy reads its socket in chunks.  All frames of a chunk are handled  *)
(* before any promise they resolved is continued (handleData is one        *)
(* synchronous loop, continuations are microtasks), so ProxyReads takes a  *)
(* chunk of up to MaxChunk frames.  The daemon's handlers do not depend on *)
(* the cut, and take a frame at a time.                                    *)
(***************************************************************************)
EXTENDS Naturals, Sequences, SequencesExt

CONSTANTS
  Sessions, NoSession,  \* AddonSessions over the daemon's life
  Proxies,              \* proxy processes; one that exits is not restarted
  Calls, NoCall,        \* addon requests made through the proxies
  Owner,                \* Owner[k]: the proxy that makes call k
  MaxChunk              \* bound: frames in a chunk

ASSUME RelayAssumption ==
  /\ NoSession \notin Sessions /\ NoCall \notin Calls
  /\ Owner \in [Calls -> Proxies]
  /\ MaxChunk \in Nat \ {0}

VARIABLES
  \* the daemon
  phase,      \* of each AddonSession
  sessions,   \* the Set of sessions, in insertion order
  active,     \* activeSession
  running,    \* the control server is open
  registered, \* the proxies in the control server's map
  subscribed, \* their subscribed flags
  heldBy,     \* the session in whose pendingRequests a call is
  settled,    \* the outcome its promise has, until handleAddonRequest continues;
              \* "unsent" if the answer could not be sent then
  \* the proxies
  pc,         \* how far main() is
  view,       \* the session cached by remoteSession
  overtaken,  \* history: the info response was applied after newer notifications
  call,       \* the promises of addonRequest()
  \* the two directions of each control connection
  toDaemon, toProxy

daemonVars == <<phase, sessions, active, running, registered, subscribed, heldBy, settled>>
proxyVars  == <<pc, view, overtaken, call>>
vars == <<daemonVars, proxyVars, toDaemon, toProxy>>

FrameTypes == {"subscribe", "subscribed", "info", "ready", "closed",
               "call", "result", "error"}
Frame == [type : FrameTypes,
          session : Sessions \cup {NoSession},
          call : Calls \cup {NoCall}]
Plain(t) == [type |-> t, session |-> NoSession, call |-> NoCall]
About(t, s) == [type |-> t, session |-> s, call |-> NoCall]
OfCall(t, k) == [type |-> t, session |-> NoSession, call |-> k]

\* The control.session.* notifications, and the session each leaves in the cache.
IsNote(f) == f.type \in {"ready", "closed"}

\* Mutant of Effect: the session stays in the cache when it closes.
KeepClosed(f) == f.session

Effect(f) == IF f.type = "closed" THEN NoSession ELSE f.session

TypeOK ==
  /\ phase \in [Sessions -> {"none", "open", "ready", "closed"}]
  /\ sessions \in Seq(Sessions)
  /\ active \in Sessions \cup {NoSession}
  /\ running \in BOOLEAN
  /\ registered \in [Proxies -> BOOLEAN]
  /\ subscribed \in [Proxies -> BOOLEAN]
  /\ heldBy \in [Calls -> Sessions \cup {NoSession}]
  /\ settled \in [Calls -> {"none", "result", "error", "unsent"}]
  /\ pc \in [Proxies -> {"starting", "subscribing", "querying", "serving", "exited"}]
  /\ view \in [Proxies -> Sessions \cup {NoSession}]
  /\ overtaken \in [Proxies -> BOOLEAN]
  /\ call \in [Calls -> {"idle", "sent", "resolved", "rejected"}]
  /\ toDaemon \in [Proxies -> Seq(Frame)]
  /\ toProxy \in [Proxies -> Seq(Frame)]

Init ==
  /\ phase = [s \in Sessions |-> "none"]
  /\ sessions = <<>>
  /\ active = NoSession
  /\ running = TRUE
  /\ registered = [p \in Proxies |-> FALSE]
  /\ subscribed = [p \in Proxies |-> FALSE]
  /\ heldBy = [k \in Calls |-> NoSession]
  /\ settled = [k \in Calls |-> "none"]
  /\ pc = [p \in Proxies |-> "starting"]
  /\ view = [p \in Proxies |-> NoSession]
  /\ overtaken = [p \in Proxies |-> FALSE]
  /\ call = [k \in Calls |-> "idle"]
  /\ toDaemon = [p \in Proxies |-> <<>>]
  /\ toProxy = [p \in Proxies |-> <<>>]

-----------------------------------------------------------------------------
(* The daemon's sessions *)

\* The bridge server's connection handler.
SessionConnects(s) ==
  /\ phase[s] = "none"
  /\ phase' = [phase EXCEPT ![s] = "open"]
  /\ sessions' = Append(sessions, s)
  /\ UNCHANGED <<active, running, registered, subscribed, heldBy, settled, proxyVars,
                 toDaemon, toProxy>>

\* broadcast(): to every proxy that has subscribed.
Broadcast(notes) ==
  toProxy' = [p \in Proxies |-> IF registered[p] /\ subscribed[p]
                                THEN toProxy[p] \o notes ELSE toProxy[p]]

\* Mutant of SessionReady: a session that is active stays so.
ReadyBehindActive(s) ==
  /\ phase[s] = "open"
  /\ phase' = [phase EXCEPT ![s] = "ready"]
  /\ active' = IF active = NoSession THEN s ELSE active
  /\ Broadcast(<<About("ready", s)>>)
  /\ UNCHANGED <<sessions, running, registered, subscribed, heldBy, settled, proxyVars,
                 toDaemon>>

\* onReady: the session is promoted whatever was active.
SessionReady(s) ==
  /\ phase[s] = "open"
  /\ phase' = [phase EXCEPT ![s] = "ready"]
  /\ active' = s
  /\ Broadcast(<<About("ready", s)>>)
  /\ UNCHANGED <<sessions, running, registered, subscribed, heldBy, settled, proxyVars,
                 toDaemon>>

\* Mutant of LatestReady: the session that connected last, ready or not.
LatestOpen(q) == IF q = <<>> THEN NoSession ELSE q[Len(q)]

\* selectLatestReadySession(): the ready session that connected last.
LatestReady(q) ==
  LET isReady(s) == phase[s] = "ready"
      i == SelectLastInSeq(q, isReady)
  IN  IF i = 0 THEN NoSession ELSE q[i]

\* Mutant of ClosedNotes: a promoted fallback is not announced.
ClosedNotesOnly(s, fallback) == <<About("closed", s)>>

\* What onClose announces when the active session s is gone.
ClosedNotes(s, fallback) ==
  IF fallback = NoSession THEN <<About("closed", s)>>
  ELSE <<About("closed", s), About("ready", fallback)>>

\* Mutant of RejectHeld: close() forgets the pending requests until they time out.
LeaveHeld(s) == UNCHANGED <<heldBy, settled>>

\* Mutant of RejectHeld: close() clears pendingRequests without rejecting them.
ForgetHeld(s) ==
  /\ heldBy' = [k \in Calls |-> IF heldBy[k] = s THEN NoSession ELSE heldBy[k]]
  /\ UNCHANGED settled

\* AddonSession.close(): the pending requests of s are rejected.
RejectHeld(s) ==
  /\ heldBy' = [k \in Calls |-> IF heldBy[k] = s THEN NoSession ELSE heldBy[k]]
  /\ settled' = [k \in Calls |-> IF heldBy[k] = s THEN "error" ELSE settled[k]]

\* close() of a session, then onClose.
SessionCloses(s) ==
  /\ phase[s] \in {"open", "ready"}
  /\ phase' = [phase EXCEPT ![s] = "closed"]
  /\ \E i \in DOMAIN sessions :
       /\ sessions[i] = s
       /\ sessions' = RemoveAt(sessions, i)
  /\ active' = IF active = s THEN LatestReady(sessions') ELSE active
  /\ Broadcast(IF active = s THEN ClosedNotes(s, active') ELSE <<>>)
  /\ RejectHeld(s)
  /\ UNCHANGED <<running, registered, subscribed, proxyVars, toDaemon>>

\* The addon answers, or the request's timer fires: its promise is settled.
SessionSettles(k) ==
  /\ heldBy[k] # NoSession
  /\ heldBy' = [heldBy EXCEPT ![k] = NoSession]
  /\ \E outcome \in {"result", "error"} : settled' = [settled EXCEPT ![k] = outcome]
  /\ UNCHANGED <<phase, sessions, active, running, registered, subscribed, proxyVars,
                 toDaemon, toProxy>>

-----------------------------------------------------------------------------
(* The control server *)

\* send(): a write to a proxy that is gone is lost.
Send(p, frames) ==
  toProxy' = IF registered[p] THEN [toProxy EXCEPT ![p] = @ \o frames] ELSE toProxy

\* send() of a message that encodeMessage refuses: it is logged, and nothing else.
SendFails == UNCHANGED toProxy

DaemonReads(p, t) ==
  /\ toDaemon[p] # <<>>
  /\ Head(toDaemon[p]).type = t
  /\ toDaemon' = [toDaemon EXCEPT ![p] = Tail(@)]
  /\ UNCHANGED <<phase, sessions, active, running, registered, proxyVars>>

HandleSubscribe(p) ==
  /\ DaemonReads(p, "subscribe")
  /\ subscribed' = [subscribed EXCEPT ![p] = TRUE]
  /\ Send(p, <<Plain("subscribed")>>)
  /\ UNCHANGED <<heldBy, settled>>

\* Mutant of HandleSessionInfo: the answer carries the session as if it were a call.
HandleInfoAsCall(p) ==
  /\ DaemonReads(p, "info")
  /\ Send(p, <<OfCall("info", active)>>)
  /\ UNCHANGED <<subscribed, heldBy, settled>>

HandleSessionInfo(p) ==
  /\ DaemonReads(p, "info")
  /\ Send(p, <<About("info", active)>>)
  /\ UNCHANGED <<subscribed, heldBy, settled>>

\* handleAddonRequest() up to its await: the session active now gets the call,
\* whichever one the proxy had in mind.
HandleAddonRequest(p) ==
  /\ DaemonReads(p, "call")
  /\ LET k == Head(toDaemon[p]).call IN
     IF active = NoSession
     THEN /\ Send(p, <<OfCall("error", k)>>)
          /\ UNCHANGED <<heldBy, settled>>
     ELSE /\ heldBy' = [heldBy EXCEPT ![k] = active]
          /\ UNCHANGED <<settled, toProxy>>
  /\ UNCHANGED subscribed

\* handleAddonRequest() after its await: the outcome goes to the proxy, in a frame
\* that is longer than the addon's and may be above MAX_FRAME_BYTES.
ContinueAddonRequest(k) ==
  /\ settled[k] \in {"result", "error"}
  /\ \/ /\ settled' = [settled EXCEPT ![k] = "none"]
        /\ Send(Owner[k], <<OfCall(settled[k], k)>>)
     \/ /\ settled' = [settled EXCEPT ![k] = "unsent"]
        /\ SendFails
  /\ UNCHANGED <<phase, sessions, active, running, registered, subscribed, heldBy,
                 proxyVars, toDaemon>>

\* The daemon sees the close of a proxy's socket.
DropProxy(p) ==
  /\ registered[p]
  /\ pc[p] = "exited"
  /\ registered' = [registered EXCEPT ![p] = FALSE]
  /\ toDaemon' = [toDaemon EXCEPT ![p] = <<>>]
  /\ UNCHANGED <<phase, sessions, active, running, subscribed, heldBy, settled, proxyVars,
                 toProxy>>

\* ControlServer.close() in the daemon's shutdown: every proxy socket is destroyed.
CloseControl ==
  /\ running
  /\ running' = FALSE
  /\ registered' = [p \in Proxies |-> FALSE]
  /\ toDaemon' = [p \in Proxies |-> <<>>]
  /\ UNCHANGED <<phase, sessions, active, subscribed, heldBy, settled, proxyVars, toProxy>>

-----------------------------------------------------------------------------
(* The proxies *)

ProxyWrites(p, frames) ==
  toDaemon' = IF registered[p] THEN [toDaemon EXCEPT ![p] = @ \o frames] ELSE toDaemon

\* connect(), then subscribe().
ProxyConnects(p) ==
  /\ pc[p] = "starting"
  /\ running
  /\ pc' = [pc EXCEPT ![p] = "subscribing"]
  /\ registered' = [registered EXCEPT ![p] = TRUE]
  /\ toDaemon' = [toDaemon EXCEPT ![p] = <<Plain("subscribe")>>]
  /\ UNCHANGED <<phase, sessions, active, running, subscribed, heldBy, settled,
                 view, overtaken, call, toProxy>>

\* The last notification of a chunk decides the cache; the others are overwritten.
LastNote(chunk, s) ==
  \E i \in DOMAIN chunk :
    /\ IsNote(chunk[i])
    /\ \A j \in DOMAIN chunk : j > i => ~IsNote(chunk[j])
    /\ s = Effect(chunk[i])

\* The cache after the notifications of a chunk, handled synchronously.
Noted(p, chunk, s) ==
  IF \E i \in DOMAIN chunk : IsNote(chunk[i]) THEN LastNote(chunk, s) ELSE s = view[p]

\* handleResponse() for the calls that a chunk answers; late answers are ignored.
SettleCalls(chunk) ==
  call' = [k \in Calls |->
    IF call[k] = "sent" /\ \E i \in DOMAIN chunk : chunk[i] = OfCall("result", k)
    THEN "resolved"
    ELSE IF call[k] = "sent" /\ \E i \in DOMAIN chunk : chunk[i] = OfCall("error", k)
    THEN "rejected" ELSE call[k]]

Chunk(p, n) == SubSeq(toProxy[p], 1, n)

\* handleData() takes the first n frames that have arrived.
Takes(p, n) ==
  /\ n <= Len(toProxy[p])
  /\ toProxy' = [toProxy EXCEPT ![p] = SubSeq(@, n + 1, Len(@))]
  /\ UNCHANGED daemonVars

\* The answer to subscribe(): remoteSession is created after the whole chunk, so
\* a notification in it finds none and is dropped; then the info request is sent.
ReadSubscribed(p, n) ==
  /\ pc[p] = "subscribing"
  /\ Takes(p, n)
  /\ \E i \in 1..n : Chunk(p, n)[i].type = "subscribed"
  /\ pc' = [pc EXCEPT ![p] = "querying"]
  /\ ProxyWrites(p, <<Plain("info")>>)
  /\ UNCHANGED <<view, overtaken, call>>

\* A chunk without the info response, while main() waits for it.
ReadEarlyNotes(p, n) ==
  /\ pc[p] = "querying"
  /\ Takes(p, n)
  /\ \A i \in 1..n : Chunk(p, n)[i].type # "info"
  /\ \E s \in Sessions \cup {NoSession} :
       Noted(p, Chunk(p, n), s) /\ view' = [view EXCEPT ![p] = s]
  /\ UNCHANGED <<pc, overtaken, call, toDaemon>>

\* The chunk with the info response.  All its notifications come first, then the
\* continuation of main() applies the response over them and starts serving.
ReadInfo(p, n) ==
  /\ pc[p] = "querying"
  /\ Takes(p, n)
  /\ \E i \in 1..n :
       LET info == Chunk(p, n)[i]
           newer == \E j \in i+1..n : IsNote(Chunk(p, n)[j])
       IN /\ info.type = "info"
          /\ \E s \in Sessions \cup {NoSession} :
               /\ IF info.session = NoSession THEN Noted(p, Chunk(p, n), s)
                  ELSE s = info.session
               /\ view' = [view EXCEPT ![p] = s]
          /\ overtaken' = [overtaken EXCEPT ![p] = newer /\ info.session # NoSession]
  /\ pc' = [pc EXCEPT ![p] = "serving"]
  /\ UNCHANGED <<call, toDaemon>>

\* Any later chunk: notifications and answers.
ReadServing(p, n) ==
  /\ pc[p] = "serving"
  /\ Takes(p, n)
  /\ \E s \in Sessions \cup {NoSession} :
       Noted(p, Chunk(p, n), s) /\ view' = [view EXCEPT ![p] = s]
  /\ overtaken' = [overtaken EXCEPT ![p] =
       @ /\ \A i \in 1..n : ~IsNote(Chunk(p, n)[i])]
  /\ SettleCalls(Chunk(p, n))
  /\ UNCHANGED <<pc, toDaemon>>

ProxyReads(p) ==
  \E n \in 1..MaxChunk :
    ReadSubscribed(p, n) \/ ReadEarlyNotes(p, n) \/ ReadInfo(p, n) \/ ReadServing(p, n)

\* A tool call that needs a session, through request() and addonRequest(): sent,
\* or rejected at once because encodeMessage refuses it.
ProxyCalls(k) ==
  LET p == Owner[k] IN
  /\ call[k] = "idle"
  /\ pc[p] = "serving"
  /\ view[p] # NoSession
  /\ \/ /\ call' = [call EXCEPT ![k] = "sent"]
        /\ ProxyWrites(p, <<OfCall("call", k)>>)
     \/ /\ call' = [call EXCEPT ![k] = "rejected"]
        /\ UNCHANGED toDaemon
  /\ UNCHANGED <<daemonVars, pc, view, overtaken, toProxy>>

\* The proxy's own timer for a request to the daemon.
ProxyTimeout(k) ==
  /\ call[k] = "sent"
  /\ call' = [call EXCEPT ![k] = "rejected"]
  /\ UNCHANGED <<daemonVars, pc, view, overtaken, toDaemon, toProxy>>

\* The process ends: rejectAllPending(), nothing is read any more.
Exit(p) ==
  /\ pc' = [pc EXCEPT ![p] = "exited"]
  /\ view' = [view EXCEPT ![p] = NoSession]
  /\ overtaken' = [overtaken EXCEPT ![p] = FALSE]
  /\ call' = [k \in Calls |->
               IF Owner[k] = p /\ call[k] = "sent" THEN "rejected" ELSE call[k]]
  /\ toProxy' = [toProxy EXCEPT ![p] = <<>>]
  /\ UNCHANGED <<daemonVars, toDaemon>>

\* The MCP client is gone: stdin ends, or a signal.
ParentExits(p) ==
  /\ pc[p] # "exited"
  /\ Exit(p)

\* connect() is refused, or the control socket closes: onDisconnect.
LostDaemon(p) ==
  /\ pc[p] # "exited"
  /\ IF pc[p] = "starting" THEN ~running ELSE ~registered[p]
  /\ Exit(p)

Next ==
  \/ \E s \in Sessions : SessionConnects(s) \/ SessionReady(s) \/ SessionCloses(s)
  \/ \E k \in Calls : \/ SessionSettles(k) \/ ContinueAddonRequest(k)
                      \/ ProxyCalls(k) \/ ProxyTimeout(k)
  \/ \E p \in Proxies : \/ HandleSubscribe(p) \/ HandleSessionInfo(p)
                        \/ HandleAddonRequest(p) \/ DropProxy(p)
                        \/ ProxyConnects(p) \/ ProxyReads(p)
                        \/ ParentExits(p) \/ LostDaemon(p)
  \/ CloseControl

Spec == Init /\ [][Next]_vars

\* The event loops run, the session's timer bounds a request, sockets report
\* their end.  Sessions, proxies and calls come and go as they please.  The proxy's
\* own 60 s timer is needed only by a call whose answer could not be sent.
Fairness ==
  /\ \A k \in Calls :
       /\ WF_vars(SessionSettles(k)) /\ WF_vars(ContinueAddonRequest(k))
       /\ WF_vars(settled[k] = "unsent" /\ ProxyTimeout(k))
  /\ \A p \in Proxies :
       /\ WF_vars(HandleSubscribe(p) \/ HandleSessionInfo(p) \/ HandleAddonRequest(p))
       /\ WF_vars(ProxyReads(p))
       /\ WF_vars(LostDaemon(p))

FairSpec == Spec /\ Fairness

-----------------------------------------------------------------------------
(* Properties *)

\* The registry never points to a session that is gone or not ready, and never
\* forgets that a ready one is there, whatever the order of connects and closes.
ActiveTracksReady ==
  IF active = NoSession THEN \A s \in Sessions : phase[s] # "ready"
  ELSE phase[active] = "ready"

\* The daemon's callbacks, with its ordered set and its fallback, do what
\* SessionRegistry promises of the active session.
Registry == INSTANCE SessionRegistry WITH
  ready <- {s \in Sessions : phase[s] = "ready"},
  gone <- {s \in Sessions : phase[s] = "closed"}

ImplementsRegistry == Registry!Spec

\* Nothing is on its way to the proxy and main() has finished starting.
AtRest(p) == pc[p] = "serving" /\ registered[p] /\ toProxy[p] = <<>>

\* A proxy at rest believes what the daemon believes: the notifications it got
\* add up to the daemon's active session, unless its info response was applied
\* over newer notifications and none has come since.
CacheAgrees == \A p \in Proxies : AtRest(p) /\ ~overtaken[p] => view[p] = active

\* The same without the exception, which is what RemoteAddonSession documents.
CacheAlwaysAgrees == \A p \in Proxies : AtRest(p) => view[p] = active

\* A call is held by a session only while that session can still settle it.
HeldByReady == \A k \in Calls : heldBy[k] # NoSession => phase[heldBy[k]] = "ready"

\* Every call a proxy sends is settled: answered, failed over, or rejected with the
\* session, the daemon or the proxy itself; the proxy's timer does it for a call
\* whose answer the daemon could not send, and no other call has to wait for it.
CallsSettle == \A k \in Calls : call[k] = "sent" ~> call[k] \in {"resolved", "rejected"}

\* When a session goes away for good a proxy does not keep it: it is dropped
\* from the cache, unless the cache was overtaken at startup.
ClosedLeavesCache ==
  \A s \in Sessions, p \in Proxies :
    phase[s] = "closed" /\ view[p] = s ~> view[p] # s \/ overtaken[p]
=============================================================================
