------------------------ MODULE UnifiedServer_proofs ------------------------
(***************************************************************************)
(* The server in one process, for any sessions and calls: its audit log,   *)
(* its types and the refinement of SessionRegistry.                        *)
(***************************************************************************)
EXTENDS UnifiedServer, DataLemmas, TLAPS

\* What auditedCall() has of a call on its way: the session of its start is one
\* that was asked, and the only one unless the call is a wait.
OnItsWay(k) ==
  /\ call[k] = "idle" => asked[k] = {} /\ audit[k].status = "none"
  /\ call[k] \in {"waiting", "asleep"} =>
       /\ audit[k].status = "none"
       /\ begun[k] \in asked[k]
       /\ kind[k] # "wait" => asked[k] = {begun[k]}
  /\ call[k] = "asleep" => kind[k] = "wait"

\* What its entry says of a call.
Recorded(k) ==
  audit[k].status # "none" =>
    IF asked[k] = {}
    THEN audit[k].status = "success" =>
           kind[k] = "local" \/ (kind[k] = "read" /\ audit[k].session = NoSession)
    ELSE /\ audit[k].session \in asked[k]
         /\ kind[k] # "wait" => asked[k] = {audit[k].session}

CallTypes ==
  /\ call \in [Calls -> {"idle", "waiting", "asleep", "answered"}]
  /\ settled \in [Calls -> {"none", "result", "error"}]
  /\ begun = [k \in Calls |-> begun[k]]
  /\ asked = [k \in Calls |-> asked[k]]
  /\ audit = [k \in Calls |-> audit[k]]

Inv == CallTypes /\ \A k \in Calls : OnItsWay(k) /\ Recorded(k)

LEMMA InitInv == Init => Inv
BY DEF Init, Inv, CallTypes, OnItsWay, Recorded, NoEntry, Entry

\* A step that leaves every call as it is.
LEMMA SameCalls ==
  ASSUME Inv, CallTypes', UNCHANGED <<call, kind, begun, asked, audit>>
  PROVE  Inv'
BY DEF Inv, OnItsWay, Recorded

\* A step of one call has to keep what is said of that one.
LEMMA OneCall ==
  ASSUME Inv, CallTypes', NEW k \in Calls, OnItsWay(k)', Recorded(k)',
         \A j \in Calls \ {k} :
           /\ call'[j] = call[j] /\ begun'[j] = begun[j] /\ asked'[j] = asked[j]
           /\ audit'[j] = audit[j] /\ kind'[j] = kind[j]
  PROVE  Inv'
<1>1. ASSUME NEW j \in Calls, j # k PROVE OnItsWay(j)' /\ Recorded(j)'
  <2>1. /\ call'[j] = call[j] /\ begun'[j] = begun[j] /\ asked'[j] = asked[j]
        /\ audit'[j] = audit[j] /\ kind'[j] = kind[j]
    BY <1>1
  <2>2. OnItsWay(j) /\ Recorded(j)
    BY DEF Inv
  <2> QED
    BY <2>1, <2>2 DEF OnItsWay, Recorded
<1> QED
  BY <1>1 DEF Inv

LEMMA SessionsKeep ==
  ASSUME Inv, NEW s \in Sessions, SessionConnects(s) \/ SessionReady(s) \/ SessionCloses(s)
  PROVE  Inv'
<1>1. UNCHANGED <<call, kind, begun, asked, audit>>
  BY DEF SessionConnects, SessionReady, SessionCloses, callVars
<1>2. settled' \in [Calls -> {"none", "result", "error"}]
  BY DEF Inv, CallTypes, SessionConnects, SessionReady, SessionCloses, RejectHeld, callVars
<1> QED
  BY <1>1, <1>2, SameCalls DEF Inv, CallTypes

\* A call that is answered at once was sent to nobody.
LEMMA AnsweredAtOnce ==
  ASSUME Inv, NEW k \in Calls,
         CallUnavailable(k) \/ CallDenied(k) \/ ReadUnavailable(k) \/ LocalCall(k)
  PROVE  Inv'
<1>1. call[k] = "idle" /\ UNCHANGED <<kind, begun, settled, asked>>
  BY DEF CallUnavailable, CallDenied, ReadUnavailable, LocalCall
<1>2. PICK session, status :
        /\ Answer(k, session, status)
        /\ status = "success" => kind[k] = "local" \/ (kind[k] = "read" /\ session = NoSession)
  <2>1. CASE CallUnavailable(k) \/ CallDenied(k)
    BY <2>1 DEF CallUnavailable, CallDenied
  <2>2. CASE ReadUnavailable(k)
    BY <2>2 DEF ReadUnavailable
  <2>3. CASE LocalCall(k)
    BY <2>3 DEF LocalCall
  <2> QED
    BY <2>1, <2>2, <2>3
<1>3. CallTypes'
  BY <1>1, <1>2 DEF Inv, CallTypes, Answer
<1>4. /\ call'[k] = "answered" /\ asked'[k] = {}
      /\ audit'[k] = [status |-> status, session |-> session]
  BY <1>1, <1>2 DEF Inv, CallTypes, OnItsWay, Answer
<1>5. OnItsWay(k)' /\ Recorded(k)'
  BY <1>1, <1>2, <1>4 DEF OnItsWay, Recorded
<1>6. \A j \in Calls \ {k} :
        /\ call'[j] = call[j] /\ begun'[j] = begun[j] /\ asked'[j] = asked[j]
        /\ audit'[j] = audit[j] /\ kind'[j] = kind[j]
  BY <1>1, <1>2 DEF Inv, CallTypes, Answer
<1> QED
  BY <1>3, <1>5, <1>6, OneCall

LEMMA BeginsInv ==
  ASSUME Inv, NEW k \in Calls, CallBegins(k)
  PROVE  Inv'
<1>1. /\ call' = [call EXCEPT ![k] = "waiting"]
      /\ asked' = [asked EXCEPT ![k] = @ \cup {active}]
      /\ begun' = [begun EXCEPT ![k] = active]
      /\ UNCHANGED <<kind, settled, audit>>
  BY DEF CallBegins, Ask
<1>2. asked[k] = {} /\ audit[k].status = "none"
  BY DEF Inv, OnItsWay, CallBegins
<1>3. CallTypes'
  BY <1>1 DEF Inv, CallTypes
<1>4. call'[k] = "waiting" /\ asked'[k] = {active} /\ begun'[k] = active /\ audit'[k] = audit[k]
  BY <1>1, <1>2 DEF Inv, CallTypes
<1>5. OnItsWay(k)' /\ Recorded(k)'
  BY <1>2, <1>4 DEF OnItsWay, Recorded
<1>6. \A j \in Calls \ {k} :
        /\ call'[j] = call[j] /\ begun'[j] = begun[j] /\ asked'[j] = asked[j]
        /\ audit'[j] = audit[j] /\ kind'[j] = kind[j]
  BY <1>1 DEF Inv, CallTypes
<1> QED
  BY <1>3, <1>5, <1>6, OneCall

\* The entry of a call that was out is about the session it began with.
LEMMA EndsInv ==
  ASSUME Inv, NEW k \in Calls, CallEnds(k) \/ WaitEnds(k)
  PROVE  Inv'
<1>1. /\ call[k] \in {"waiting", "asleep"}
      /\ UNCHANGED <<kind, begun, asked>>
      /\ settled' \in [Calls -> {"none", "result", "error"}]
  BY DEF Inv, CallTypes, CallEnds, WaitEnds
<1>2. PICK status \in {"success", "error"} : Answer(k, begun[k], status)
  BY DEF CallEnds, WaitEnds, Statuses
<1>3. CallTypes'
  BY <1>1, <1>2 DEF Inv, CallTypes, Answer
<1>4. /\ call'[k] = "answered" /\ audit'[k] = [status |-> status, session |-> begun[k]]
      /\ begun[k] \in asked'[k]
      /\ kind'[k] # "wait" => asked'[k] = {begun[k]}
  BY <1>1, <1>2 DEF Inv, CallTypes, OnItsWay, Answer
<1>5. OnItsWay(k)' /\ Recorded(k)'
  BY <1>4 DEF OnItsWay, Recorded
<1>6. \A j \in Calls \ {k} :
        /\ call'[j] = call[j] /\ begun'[j] = begun[j] /\ asked'[j] = asked[j]
        /\ audit'[j] = audit[j] /\ kind'[j] = kind[j]
  BY <1>1, <1>2 DEF Inv, CallTypes, Answer
<1> QED
  BY <1>3, <1>5, <1>6, OneCall

\* A wait sleeps, and asks whichever session is active when it wakes.
LEMMA WaitsInv ==
  ASSUME Inv, NEW k \in Calls, WaitSleeps(k) \/ WaitAsksAgain(k)
  PROVE  Inv'
<1>1. /\ kind[k] = "wait" /\ call[k] \in {"waiting", "asleep"}
      /\ call' \in {[call EXCEPT ![k] = "asleep"], [call EXCEPT ![k] = "waiting"]}
      /\ asked' \in {asked, [asked EXCEPT ![k] = @ \cup {active}]}
      /\ settled' \in [Calls -> {"none", "result", "error"}]
      /\ UNCHANGED <<kind, begun, audit>>
  BY DEF Inv, CallTypes, OnItsWay, WaitSleeps, WaitAsksAgain, Ask
<1>2. CallTypes'
  BY <1>1 DEF Inv, CallTypes
<1>3. /\ call'[k] \in {"waiting", "asleep"} /\ kind'[k] = "wait"
      /\ begun'[k] \in asked'[k] /\ audit'[k].status = "none"
  BY <1>1 DEF Inv, CallTypes, OnItsWay
<1>4. OnItsWay(k)' /\ Recorded(k)'
  BY <1>3 DEF OnItsWay, Recorded
<1>5. \A j \in Calls \ {k} :
        /\ call'[j] = call[j] /\ begun'[j] = begun[j] /\ asked'[j] = asked[j]
        /\ audit'[j] = audit[j] /\ kind'[j] = kind[j]
  BY <1>1 DEF Inv, CallTypes
<1> QED
  BY <1>2, <1>4, <1>5, OneCall

LEMMA NextInv == Inv /\ [Next]_vars => Inv'
<1> SUFFICES ASSUME Inv, [Next]_vars PROVE Inv'
  OBVIOUS
<1>1. CASE Listens \/ ListenFails \/ Stops \/ StopsListening \/ Exits \/ UNCHANGED vars
  <2>1. UNCHANGED callVars
    BY <1>1 DEF Listens, ListenFails, Stops, StopsListening, Exits, vars
  <2>2. CallTypes'
    BY <2>1 DEF Inv, CallTypes, callVars
  <2> QED
    BY <2>1, <2>2, SameCalls DEF callVars
<1>2. ASSUME NEW k \in Calls, SessionSettles(k) PROVE Inv'
  <2>1. CallTypes'
    BY <1>2 DEF Inv, CallTypes, SessionSettles
  <2> QED
    BY <1>2, <2>1, SameCalls DEF SessionSettles
<1> QED
  BY <1>1, <1>2, SessionsKeep, AnsweredAtOnce, BeginsInv, EndsInv, WaitsInv DEF Next

\* Whichever session is active when a call goes on, and however many there have
\* been: auditedCall() records the one that the call was sent to.
THEOREM AuditIsTruthful == Spec => []AuditNamesExecutor
<1>1. Inv => AuditNamesExecutor
  BY DEF Inv, Recorded, AuditNamesExecutor
<1> QED
  BY <1>1, InitInv, NextInv, PTL DEF Spec

-----------------------------------------------------------------------------
(* The registry *)

BridgeTyped ==
  /\ phase \in [Sessions -> {"none", "open", "ready", "closed"}]
  /\ sessions \in Seq(Sessions) /\ IsInjective(sessions) /\ ToSet(sessions) = Open
  /\ active \in Sessions \cup {NoSession}

CallsTyped ==
  /\ call \in [Calls -> {"idle", "waiting", "asleep", "answered"}]
  /\ kind \in [Calls -> Kinds]
  /\ begun \in [Calls -> Sessions \cup {NoSession}]
  /\ heldBy \in [Calls -> Sessions \cup {NoSession}]
  /\ settled \in [Calls -> {"none", "result", "error"}]
  /\ asked \in [Calls -> SUBSET Sessions]
  /\ audit \in [Calls -> Entry]

ProcessTyped == process \in {"starting", "listening", "closing", "stopping", "exited"}

LEMMA TypeOKInParts ==
  /\ TypeOK => ProcessTyped /\ BridgeTyped /\ CallsTyped
  /\ (ProcessTyped /\ BridgeTyped /\ CallsTyped)' => TypeOK'
BY DEF TypeOK, ProcessTyped, BridgeTyped, CallsTyped

LEMMA PartsUnchanged ==
  /\ ProcessTyped /\ UNCHANGED process => ProcessTyped'
  /\ BridgeTyped /\ UNCHANGED bridgeVars => BridgeTyped'
  /\ CallsTyped /\ UNCHANGED callVars => CallsTyped'
BY DEF ProcessTyped, BridgeTyped, CallsTyped, bridgeVars, callVars, Open

LEMMA InitTyped == Init => TypeOK
<1> SUFFICES ASSUME Init PROVE TypeOK
  OBVIOUS
<1>1. sessions \in Seq(Sessions) /\ DOMAIN sessions = {}
  BY DEF Init
<1>2. IsInjective(sessions) /\ ToSet(sessions) = {} /\ Open = {}
  BY <1>1 DEF IsInjective, ToSet, Open, Init
<1>3. NoEntry \in Entry
  BY DEF NoEntry, Entry
<1> QED
  BY <1>1, <1>2, <1>3 DEF Init, TypeOK

\* selectLatestReadySession() finds a ready session if there is one in q.
LEMMA LatestReadyFinds ==
  ASSUME NEW q \in Seq(Sessions)
  PROVE  \/ LatestReady(q) = NoSession /\ \A s \in ToSet(q) : phase[s] # "ready"
         \/ LatestReady(q) \in ToSet(q) /\ phase[LatestReady(q)] = "ready"
<1> DEFINE I == {i \in 1..Len(q) : phase[q[i]] = "ready"}
<1>0. Len(q) \in Nat /\ DOMAIN q = 1..Len(q)
  BY LenProperties
<1>1. I # {} => Max(I) \in I /\ Max(I) # 0
  <2>1. I # {} => Max(I) \in I
    BY <1>0, MaxIsMember
  <2> QED
    BY <1>0, <2>1
<1>2. LatestReady(q) = IF I = {} THEN NoSession ELSE q[Max(I)]
  BY <1>1 DEF LatestReady, SelectLastInSeq
<1>3. CASE I = {}
  BY <1>0, <1>2, <1>3 DEF ToSet
<1>4. CASE I # {}
  <2>1. Max(I) \in DOMAIN q /\ phase[q[Max(I)]] = "ready"
    BY <1>0, <1>1, <1>4
  <2>2. q[Max(I)] \in ToSet(q)
    BY <2>1 DEF ToSet
  <2> QED
    BY <1>2, <1>4, <2>1, <2>2
<1> QED
  BY <1>3, <1>4

LEMMA ConnectsTyped ==
  ASSUME BridgeTyped, NEW s \in Sessions, SessionConnects(s)
  PROVE  BridgeTyped'
<1>1. /\ phase \in [Sessions -> {"none", "open", "ready", "closed"}] /\ phase[s] = "none"
      /\ phase' = [phase EXCEPT ![s] = "open"] /\ active' = active
      /\ sessions' = Append(sessions, s)
  BY DEF SessionConnects, BridgeTyped
<1>2. s \notin Open
  BY <1>1 DEF Open
<1>3. /\ sessions' \in Seq(Sessions) /\ IsInjective(sessions')
      /\ ToSet(sessions') = ToSet(sessions) \cup {s}
  BY <1>1, <1>2, AppendedOnce DEF BridgeTyped
<1>4. Open' = Open \cup {s}
  BY <1>1 DEF Open
<1> QED
  BY <1>1, <1>3, <1>4 DEF BridgeTyped

LEMMA ReadyTyped ==
  ASSUME BridgeTyped, NEW s \in Sessions, SessionReady(s)
  PROVE  BridgeTyped'
<1>1. /\ phase' = [phase EXCEPT ![s] = "ready"] /\ phase[s] = "open"
      /\ active' = s /\ sessions' = sessions
  BY DEF SessionReady
<1>2. Open' = Open
  BY <1>1 DEF BridgeTyped, Open
<1> QED
  BY <1>1, <1>2 DEF BridgeTyped

\* What a close leaves: the other open sessions, and the fallback among them.
LEMMA ClosesTyped ==
  ASSUME BridgeTyped, NEW s \in Sessions, SessionCloses(s)
  PROVE  /\ BridgeTyped'
         /\ active # s => active' = active
         /\ active = s =>
              \/ active' = NoSession /\ \A r \in Sessions : phase'[r] # "ready"
              \/ active' \in Sessions /\ phase'[active'] = "ready"
<1>1. /\ phase \in [Sessions -> {"none", "open", "ready", "closed"}]
      /\ phase[s] \in {"open", "ready"}
      /\ phase' = [phase EXCEPT ![s] = "closed"]
      /\ active' = IF active = s THEN LatestReady(sessions') ELSE active
  BY DEF SessionCloses, BridgeTyped
<1>2. PICK i \in DOMAIN sessions : sessions[i] = s /\ sessions' = RemoveAt(sessions, i)
  BY DEF SessionCloses
<1>3. /\ sessions' \in Seq(Sessions) /\ IsInjective(sessions')
      /\ ToSet(sessions') = ToSet(sessions) \ {s}
  BY <1>2, RemovedOnce DEF BridgeTyped
<1>4. Open' = Open \ {s}
  BY <1>1 DEF Open
<1>5. ToSet(sessions') = Open \ {s}
  BY <1>3 DEF BridgeTyped
<1>6. CASE active # s
  BY <1>1, <1>3, <1>4, <1>5, <1>6 DEF BridgeTyped
<1>7. CASE active = s
  <2>1. CASE /\ LatestReady(sessions') = NoSession
             /\ \A r \in ToSet(sessions') : phase[r] # "ready"
    <3>1. \A r \in Sessions : phase'[r] # "ready"
      BY <1>1, <1>5, <2>1 DEF Open
    <3> QED
      BY <1>1, <1>3, <1>4, <1>5, <1>7, <2>1, <3>1 DEF BridgeTyped
  <2>2. CASE /\ LatestReady(sessions') \in ToSet(sessions')
             /\ phase[LatestReady(sessions')] = "ready"
    <3>1. active' \in Sessions /\ active' # s /\ phase'[active'] = "ready"
      BY <1>1, <1>5, <1>7, <2>2 DEF Open
    <3> QED
      BY <1>1, <1>3, <1>4, <1>5, <3>1, <1>7 DEF BridgeTyped
  <2> QED
    BY <1>3, <2>1, <2>2, LatestReadyFinds
<1> QED
  BY <1>6, <1>7

LEMMA SessionStepsTyped ==
  ASSUME TypeOK, NEW s \in Sessions, SessionConnects(s) \/ SessionReady(s) \/ SessionCloses(s)
  PROVE  TypeOK'
<1>1. ProcessTyped /\ BridgeTyped /\ CallsTyped
  BY TypeOKInParts
<1>2. BridgeTyped'
  BY <1>1, ConnectsTyped, ReadyTyped, ClosesTyped
<1>3. process' = process
  BY DEF SessionConnects, SessionReady, SessionCloses
<1>4. CallsTyped'
  <2>1. CASE UNCHANGED callVars
    BY <1>1, <2>1, PartsUnchanged
  <2>2. CASE RejectHeld(s) /\ UNCHANGED <<call, kind, begun, asked, audit>>
    BY <1>1, <2>2 DEF CallsTyped, RejectHeld
  <2> QED
    BY <2>1, <2>2 DEF SessionConnects, SessionReady, SessionCloses
<1> QED
  BY <1>1, <1>2, <1>3, <1>4, TypeOKInParts, PartsUnchanged

LEMMA CallStepsTyped ==
  ASSUME TypeOK, NEW k \in Calls,
         \/ SessionSettles(k)
         \/ CallUnavailable(k) \/ CallDenied(k) \/ ReadUnavailable(k)
         \/ LocalCall(k) \/ CallBegins(k)
         \/ CallEnds(k) \/ WaitSleeps(k) \/ WaitAsksAgain(k) \/ WaitEnds(k)
  PROVE  TypeOK'
<1>1. ProcessTyped /\ BridgeTyped /\ CallsTyped
  BY TypeOKInParts
<1>2. UNCHANGED <<process, bridgeVars>>
  BY DEF SessionSettles, CallUnavailable, CallDenied, ReadUnavailable, LocalCall, CallBegins, CallEnds, WaitSleeps,
         WaitAsksAgain, WaitEnds
<1>3. active \in Sessions \cup {NoSession} /\ begun[k] \in Sessions \cup {NoSession}
  BY <1>1 DEF BridgeTyped, CallsTyped
<1>4. \A x \in Sessions \cup {NoSession}, status \in {"success", "error", "denied"} :
        [status |-> status, session |-> x] \in Entry
  BY DEF Entry
<1>5. CallsTyped'
  <2>1. CASE SessionSettles(k) \/ WaitSleeps(k)
    BY <1>1, <2>1 DEF SessionSettles, WaitSleeps, CallsTyped
  <2>2. CASE CallUnavailable(k) \/ CallDenied(k) \/ ReadUnavailable(k) \/ LocalCall(k)
    <3>1. PICK x \in Sessions \cup {NoSession}, status \in {"success", "error", "denied"} :
            Answer(k, x, status)
      BY <1>3, <2>2 DEF CallUnavailable, CallDenied, ReadUnavailable, LocalCall
    <3>2. UNCHANGED <<kind, begun, heldBy, settled, asked>>
      BY <2>2 DEF CallUnavailable, CallDenied, ReadUnavailable, LocalCall
    <3> QED
      BY <1>1, <1>4, <3>1, <3>2 DEF Answer, CallsTyped
  <2>3. CASE CallBegins(k)
    BY <1>1, <1>3, <2>3 DEF CallBegins, Ask, CallsTyped
  <2>4. CASE WaitAsksAgain(k)
    BY <1>1, <1>3, <2>4 DEF WaitAsksAgain, Ask, CallsTyped
  <2>5. CASE CallEnds(k) \/ WaitEnds(k)
    <3>1. PICK status \in {"success", "error"} : Answer(k, begun[k], status)
      BY <2>5 DEF CallEnds, Statuses, WaitEnds
    <3>2. /\ UNCHANGED <<kind, begun, heldBy, asked>>
          /\ settled' \in {settled, [settled EXCEPT ![k] = "none"]}
      BY <2>5 DEF CallEnds, WaitEnds
    <3> QED
      BY <1>1, <1>3, <1>4, <3>1, <3>2 DEF Answer, CallsTyped
  <2> QED
    BY <2>1, <2>2, <2>3, <2>4, <2>5
<1> QED
  BY <1>1, <1>2, <1>5, TypeOKInParts, PartsUnchanged

LEMMA NextTyped == TypeOK /\ [Next]_vars => TypeOK'
<1> SUFFICES ASSUME TypeOK, [Next]_vars PROVE TypeOK'
  OBVIOUS
<1>1. CASE Listens \/ ListenFails \/ Stops \/ StopsListening \/ Exits \/ UNCHANGED vars
  <2>1. ProcessTyped /\ BridgeTyped /\ CallsTyped
    BY TypeOKInParts
  <2>2. UNCHANGED <<bridgeVars, callVars>>
    BY <1>1 DEF Listens, ListenFails, Stops, StopsListening, Exits, vars
  <2>3. ProcessTyped'
    BY <1>1, <2>1 DEF Listens, ListenFails, Stops, StopsListening, Exits, vars, ProcessTyped
  <2> QED
    BY <2>1, <2>2, <2>3, TypeOKInParts, PartsUnchanged
<1> QED
  BY <1>1, SessionStepsTyped, CallStepsTyped DEF Next

LEMMA Typed == Spec => []TypeOK
BY InitTyped, NextTyped, PTL DEF Spec

\* The Set of sessions holds the open ones, each once, and every other variable
\* keeps its type.
THEOREM ServerTypeCorrect == Spec => []TypeOK
BY Typed

LEMMA RegistryInit == Init => Registry!Init
BY DEF Init, Registry!Init

LEMMA RegistryStep == TypeOK /\ [Next]_vars => [Registry!Next]_Registry!registry
<1> SUFFICES ASSUME TypeOK, [Next]_vars PROVE [Registry!Next]_Registry!registry
  OBVIOUS
<1> DEFINE ready == {s \in Sessions : phase[s] = "ready"}
           gone == {s \in Sessions : phase[s] = "closed"}
<1>0. phase \in [Sessions -> {"none", "open", "ready", "closed"}] /\ BridgeTyped
  BY TypeOKInParts DEF BridgeTyped
<1>1. ASSUME NEW s \in Sessions, SessionConnects(s) PROVE UNCHANGED Registry!registry
  <2>1. phase' = [phase EXCEPT ![s] = "open"] /\ phase[s] = "none" /\ active' = active
    BY <1>1 DEF SessionConnects
  <2>2. ready' = ready /\ gone' = gone
    BY <1>0, <2>1
  <2> QED
    BY <2>1, <2>2 DEF Registry!registry
<1>2. ASSUME NEW s \in Sessions, SessionReady(s) PROVE Registry!Promote(s)
  <2>1. phase' = [phase EXCEPT ![s] = "ready"] /\ phase[s] = "open" /\ active' = s
    BY <1>2 DEF SessionReady
  <2>2. ready' = ready \cup {s} /\ gone' = gone /\ s \notin ready \cup gone
    BY <1>0, <2>1
  <2> QED
    BY <2>1, <2>2 DEF Registry!Promote
<1>3. ASSUME NEW s \in Sessions, SessionCloses(s) PROVE Registry!Leave(s)
  <2>1. phase' = [phase EXCEPT ![s] = "closed"] /\ phase[s] \in {"open", "ready"}
    BY <1>3 DEF SessionCloses
  <2>2. ready' = ready \ {s} /\ gone' = gone \cup {s} /\ s \notin gone
    BY <1>0, <2>1
  <2>3. active' \in (IF active = s THEN Registry!Fallbacks(ready') ELSE {active})
    <3>1. CASE active = s
      BY <1>0, <1>3, <3>1, ClosesTyped DEF Registry!Fallbacks
    <3>2. CASE active # s
      BY <1>0, <1>3, <3>2, ClosesTyped
    <3> QED
      BY <3>1, <3>2
  <2> QED
    BY <2>2, <2>3 DEF Registry!Leave
<1>4. CASE UNCHANGED bridgeVars
  BY <1>4 DEF Registry!registry, bridgeVars
<1>5. ASSUME NEW k \in Calls,
             \/ SessionSettles(k)
             \/ CallUnavailable(k) \/ CallDenied(k) \/ ReadUnavailable(k)
             \/ LocalCall(k) \/ CallBegins(k)
             \/ CallEnds(k) \/ WaitSleeps(k) \/ WaitAsksAgain(k) \/ WaitEnds(k)
      PROVE  UNCHANGED bridgeVars
  BY <1>5 DEF SessionSettles, CallUnavailable, CallDenied, ReadUnavailable, LocalCall, CallBegins, CallEnds, WaitSleeps,
              WaitAsksAgain, WaitEnds
<1>6. CASE Listens \/ ListenFails \/ Stops \/ StopsListening \/ Exits \/ UNCHANGED vars
  BY <1>4, <1>6 DEF Listens, ListenFails, Stops, StopsListening, Exits, vars
<1> QED
  BY <1>1, <1>2, <1>3, <1>4, <1>5, <1>6 DEF Next, Registry!Next

\* The server that speaks MCP itself keeps the promise that the daemon keeps, for
\* any number of editors that come and go.
THEOREM ServerKeepsRegistry == Spec => ImplementsRegistry
<1> QED
  BY RegistryInit, RegistryStep, Typed, PTL DEF Spec, ImplementsRegistry, Registry!Spec
=============================================================================
