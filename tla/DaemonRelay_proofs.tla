------------------------- MODULE DaemonRelay_proofs -------------------------
(***************************************************************************)
(* The daemon's registry, for any sessions, proxies and calls: types, the  *)
(* active session, the calls a session holds, the refinement of            *)
(* SessionRegistry, and the caches of the proxies.                         *)
(***************************************************************************)
EXTENDS DaemonRelay, DataLemmas, SequenceTheorems, TLAPS

\* The Set of sessions lists each session once, from its connection to its close.
Listed ==
  /\ \A i \in 1..Len(sessions) : phase[sessions[i]] \in {"open", "ready"}
  /\ \A i, j \in 1..Len(sessions) : sessions[i] = sessions[j] => i = j
  /\ \A s \in Sessions :
       phase[s] \in {"open", "ready"} => \E i \in 1..Len(sessions) : sessions[i] = s

Inv == TypeOK /\ Listed /\ ActiveTracksReady /\ HeldByReady

-----------------------------------------------------------------------------
(* The last ready session of a sequence *)

\* selectLatestReadySession() finds a ready session if there is one in q.
LEMMA LatestReadyFinds ==
  ASSUME NEW q \in Seq(Sessions)
  PROVE  \/ /\ LatestReady(q) = NoSession
            /\ \A i \in 1..Len(q) : phase[q[i]] # "ready"
         \/ \E i \in 1..Len(q) : LatestReady(q) = q[i] /\ phase[q[i]] = "ready"
<1> DEFINE I == {i \in 1..Len(q) : phase[q[i]] = "ready"}
<1>1. LatestReady(q) = IF I = {} THEN NoSession ELSE q[Max(I)]
  <2>1. Len(q) \in Nat
    BY LenProperties
  <2>2. I # {} => Max(I) \in I
    BY <2>1, MaxIsMember
  <2>3. I # {} => Max(I) # 0
    BY <2>2
  <2> QED
    BY <2>3 DEF LatestReady, SelectLastInSeq
<1>2. CASE I = {}
  BY <1>1, <1>2
<1>3. CASE I # {}
  <2>1. Len(q) \in Nat
    BY LenProperties
  <2>2. Max(I) \in I
    BY <1>3, <2>1, MaxIsMember
  <2> QED
    BY <1>1, <1>3, <2>2
<1> QED
  BY <1>2, <1>3

-----------------------------------------------------------------------------
(* Frames and channels *)

LEMMA FramesAreTyped ==
  /\ \A t \in FrameTypes : Plain(t) \in Frame
  /\ \A t \in FrameTypes, s \in Sessions \cup {NoSession} : About(t, s) \in Frame
  /\ \A t \in FrameTypes, k \in Calls \cup {NoCall} : OfCall(t, k) \in Frame
BY DEF Plain, About, OfCall, Frame

LEMMA NotesAreTyped ==
  ASSUME NEW s \in Sessions, NEW f \in Sessions \cup {NoSession}
  PROVE  ClosedNotes(s, f) \in Seq(Frame)
<1>1. About("closed", s) \in Frame /\ About("ready", f) \in Frame
  BY FramesAreTyped DEF FrameTypes
<1> QED
  BY <1>1 DEF ClosedNotes

LEMMA BroadcastTyped ==
  ASSUME TypeOK, NEW notes \in Seq(Frame), Broadcast(notes)
  PROVE  toProxy' \in [Proxies -> Seq(Frame)]
<1>1. ASSUME NEW p \in Proxies PROVE toProxy[p] \o notes \in Seq(Frame)
  <2>1. toProxy[p] \in Seq(Frame)
    BY DEF TypeOK
  <2> QED
    BY <2>1, ConcatProperties
<1> QED
  BY <1>1 DEF TypeOK, Broadcast

LEMMA SendTyped ==
  ASSUME TypeOK, NEW p \in Proxies, NEW frames \in Seq(Frame), Send(p, frames)
  PROVE  toProxy' \in [Proxies -> Seq(Frame)]
<1>1. toProxy[p] \o frames \in Seq(Frame)
  <2>1. toProxy[p] \in Seq(Frame)
    BY DEF TypeOK
  <2> QED
    BY <2>1, ConcatProperties
<1> QED
  BY <1>1 DEF TypeOK, Send

LEMMA WritesTyped ==
  ASSUME TypeOK, NEW p \in Proxies, NEW frames \in Seq(Frame), ProxyWrites(p, frames)
  PROVE  toDaemon' \in [Proxies -> Seq(Frame)]
<1>1. toDaemon[p] \o frames \in Seq(Frame)
  <2>1. toDaemon[p] \in Seq(Frame)
    BY DEF TypeOK
  <2> QED
    BY <2>1, ConcatProperties
<1> QED
  BY <1>1 DEF TypeOK, ProxyWrites

LEMMA TakesTyped ==
  ASSUME TypeOK, NEW p \in Proxies, NEW n \in 1..MaxChunk, Takes(p, n)
  PROVE  toProxy' \in [Proxies -> Seq(Frame)]
<1> DEFINE q == toProxy[p]
<1>1. q \in Seq(Frame) /\ Len(q) \in Nat
  BY LenProperties DEF TypeOK
<1>2. \A i \in n + 1..Len(q) : q[i] \in Frame
  BY <1>1, ElementOfSeq
<1>3. SubSeq(q, n + 1, Len(q)) \in Seq(Frame)
  BY <1>1, <1>2, SubSeqProperties
<1> QED
  BY <1>3 DEF TypeOK, Takes

LEMMA ReadsTyped ==
  ASSUME TypeOK, NEW p \in Proxies, NEW t, DaemonReads(p, t)
  PROVE  /\ Head(toDaemon[p]) \in Frame
         /\ toDaemon' \in [Proxies -> Seq(Frame)]
<1>1. toDaemon[p] \in Seq(Frame) /\ toDaemon[p] # <<>>
  BY DEF TypeOK, DaemonReads
<1>2. Head(toDaemon[p]) \in Frame /\ Tail(toDaemon[p]) \in Seq(Frame)
  BY <1>1, HeadTailProperties
<1> QED
  BY <1>2 DEF TypeOK, DaemonReads

-----------------------------------------------------------------------------
(* The daemon's sessions keep the invariant *)

LEMMA InitInv == Init => Inv
<1> SUFFICES ASSUME Init PROVE Inv
  OBVIOUS
<1>1. TypeOK
  BY EmptySeq DEF Init, TypeOK
<1>2. Listed
  BY EmptySeq DEF Init, Listed
<1>3. ActiveTracksReady /\ HeldByReady
  BY DEF Init, ActiveTracksReady, HeldByReady
<1> QED
  BY <1>1, <1>2, <1>3 DEF Inv

LEMMA ConnectsInv ==
  ASSUME Inv, NEW s \in Sessions, SessionConnects(s)
  PROVE  Inv'
<1>0. TypeOK /\ Listed /\ ActiveTracksReady /\ HeldByReady
  BY DEF Inv
<1>1. /\ sessions \in Seq(Sessions) /\ Len(sessions) \in Nat
      /\ \A i \in 1..Len(sessions) : sessions[i] \in Sessions
  BY <1>0, LenProperties, ElementOfSeq DEF TypeOK
<1>2. /\ sessions' \in Seq(Sessions)
      /\ Len(sessions') = Len(sessions) + 1
      /\ \A i \in 1..Len(sessions) : sessions'[i] = sessions[i]
      /\ sessions'[Len(sessions) + 1] = s
  BY <1>1, AppendProperties DEF SessionConnects
<1>3. /\ phase \in [Sessions -> {"none", "open", "ready", "closed"}]
      /\ phase[s] = "none"
      /\ phase' = [phase EXCEPT ![s] = "open"]
  BY <1>0 DEF SessionConnects, TypeOK
<1>4. TypeOK'
  BY <1>0, <1>2, <1>3 DEF SessionConnects, TypeOK, proxyVars
<1>5. Listed'
  <2>1. ASSUME NEW i \in 1..Len(sessions') PROVE phase'[sessions'[i]] \in {"open", "ready"}
    BY <1>0, <1>1, <1>2, <1>3 DEF Listed
  <2>2. ASSUME NEW i \in 1..Len(sessions'), NEW j \in 1..Len(sessions'),
               sessions'[i] = sessions'[j]
        PROVE  i = j
    <3>1. \A m \in 1..Len(sessions) : sessions[m] # s
      BY <1>0, <1>3 DEF Listed
    <3> QED
      BY <1>0, <1>1, <1>2, <2>2, <3>1 DEF Listed
  <2>3. ASSUME NEW r \in Sessions, phase'[r] \in {"open", "ready"}
        PROVE  \E i \in 1..Len(sessions') : sessions'[i] = r
    <3>1. CASE r = s
      BY <1>1, <1>2, <3>1
    <3>2. CASE r # s
      <4>1. PICK i \in 1..Len(sessions) : sessions[i] = r
        BY <1>0, <1>3, <2>3, <3>2 DEF Listed
      <4> QED
        BY <1>1, <1>2, <4>1
    <3> QED
      BY <3>1, <3>2
  <2> QED
    BY <2>1, <2>2, <2>3 DEF Listed
<1>6. ActiveTracksReady' /\ HeldByReady'
  BY <1>0, <1>3 DEF SessionConnects, ActiveTracksReady, HeldByReady, TypeOK
<1> QED
  BY <1>4, <1>5, <1>6 DEF Inv

LEMMA ReadyInv ==
  ASSUME Inv, NEW s \in Sessions, SessionReady(s)
  PROVE  Inv'
<1>0. TypeOK /\ Listed /\ ActiveTracksReady /\ HeldByReady
  BY DEF Inv
<1>1. /\ phase \in [Sessions -> {"none", "open", "ready", "closed"}]
      /\ phase[s] = "open"
      /\ phase' = [phase EXCEPT ![s] = "ready"]
      /\ active' = s /\ sessions' = sessions /\ heldBy' = heldBy
  BY <1>0 DEF SessionReady, TypeOK
<1>2. TypeOK'
  <2>1. <<About("ready", s)>> \in Seq(Frame)
    BY FramesAreTyped DEF FrameTypes
  <2>2. toProxy' \in [Proxies -> Seq(Frame)]
    BY <1>0, <2>1, BroadcastTyped DEF SessionReady
  <2> QED
    BY <1>0, <1>1, <2>2 DEF SessionReady, TypeOK, proxyVars
<1>3. Listed'
  BY <1>0, <1>1, ElementOfSeq DEF Listed, TypeOK
<1>4. ActiveTracksReady' /\ HeldByReady'
  BY <1>0, <1>1, RelayAssumption DEF ActiveTracksReady, HeldByReady, TypeOK
<1> QED
  BY <1>2, <1>3, <1>4 DEF Inv

\* What a close leaves: sessions without s, and the fallback found in it.
LEMMA CloseLeaves ==
  ASSUME Inv, NEW s \in Sessions, SessionCloses(s)
  PROVE  /\ sessions' \in Seq(Sessions) /\ Len(sessions') \in Nat
         /\ \A j \in 1..Len(sessions') : \E m \in 1..Len(sessions) :
              sessions'[j] = sessions[m] /\ sessions[m] # s
         /\ \A j, m \in 1..Len(sessions') : sessions'[j] = sessions'[m] => j = m
         /\ \A m \in 1..Len(sessions) :
              sessions[m] # s => \E j \in 1..Len(sessions') : sessions'[j] = sessions[m]
<1>0. sessions \in Seq(Sessions) /\ Len(sessions) \in Nat /\ DOMAIN sessions = 1..Len(sessions)
  BY LenProperties DEF Inv, TypeOK
<1>1. PICK i \in 1..Len(sessions) : sessions[i] = s /\ sessions' = RemoveAt(sessions, i)
  BY <1>0 DEF SessionCloses
<1>2. /\ sessions' \in Seq(Sessions)
      /\ Len(sessions') = Len(sessions) - 1
      /\ \A j \in 1..Len(sessions) - 1 :
           sessions'[j] = IF j < i THEN sessions[j] ELSE sessions[j + 1]
  BY <1>0, <1>1, RemovedAt
<1>3. \A j, m \in 1..Len(sessions) : sessions[j] = sessions[m] => j = m
  BY DEF Inv, Listed
<1>4. ASSUME NEW j \in 1..Len(sessions')
      PROVE  \E m \in 1..Len(sessions) : sessions'[j] = sessions[m] /\ sessions[m] # s
  <2>1. CASE j < i
    BY <1>0, <1>1, <1>2, <1>3, <2>1
  <2>2. CASE ~(j < i)
    <3>1. j + 1 \in 1..Len(sessions) /\ j + 1 # i /\ sessions'[j] = sessions[j + 1]
      BY <1>0, <1>2, <2>2
    <3> QED
      BY <1>1, <1>3, <3>1
  <2> QED
    BY <2>1, <2>2
<1>5. ASSUME NEW j \in 1..Len(sessions'), NEW m \in 1..Len(sessions'),
             sessions'[j] = sessions'[m]
      PROVE  j = m
  <2> DEFINE at(n) == IF n < i THEN n ELSE n + 1
  <2>1. /\ at(j) \in 1..Len(sessions) /\ sessions'[j] = sessions[at(j)]
        /\ at(m) \in 1..Len(sessions) /\ sessions'[m] = sessions[at(m)]
    BY <1>0, <1>2
  <2>2. at(j) = at(m)
    BY <1>3, <1>5, <2>1
  <2> QED
    BY <1>0, <1>2, <2>2
<1>6. ASSUME NEW m \in 1..Len(sessions), sessions[m] # s
      PROVE  \E j \in 1..Len(sessions') : sessions'[j] = sessions[m]
  <2>1. m # i
    BY <1>1, <1>6
  <2>2. CASE m < i
    BY <1>0, <1>2, <2>2
  <2>3. CASE m > i
    <3>1. m - 1 \in 1..Len(sessions) - 1 /\ ~(m - 1 < i) /\ (m - 1) + 1 = m
      BY <1>0, <2>3
    <3>2. sessions'[m - 1] = sessions[m]
      BY <1>2, <3>1
    <3> QED
      BY <1>2, <3>1, <3>2
  <2> QED
    BY <2>1, <2>2, <2>3, <1>0
<1> QED
  BY <1>0, <1>2, <1>4, <1>5, <1>6

\* The active session after a close: a ready one, or none because none is left.
LEMMA CloseFallsBack ==
  ASSUME Inv, NEW s \in Sessions, SessionCloses(s)
  PROVE  /\ active' \in Sessions \cup {NoSession}
         /\ active # s => active' = active
         /\ active = s =>
              \/ active' = NoSession /\ \A r \in Sessions : phase'[r] # "ready"
              \/ active' \in Sessions /\ phase'[active'] = "ready"
<1>0. /\ phase \in [Sessions -> {"none", "open", "ready", "closed"}]
      /\ phase' = [phase EXCEPT ![s] = "closed"]
      /\ active \in Sessions \cup {NoSession}
  BY DEF Inv, TypeOK, SessionCloses
<1>1. CASE active # s
  BY <1>0, <1>1 DEF SessionCloses
<1>2. CASE active = s
  <2>1. active' = LatestReady(sessions')
    BY <1>2 DEF SessionCloses
  <2>2. sessions' \in Seq(Sessions)
    BY CloseLeaves
  <2>3. CASE \E i \in 1..Len(sessions') :
               LatestReady(sessions') = sessions'[i] /\ phase[sessions'[i]] = "ready"
    <3>1. PICK i \in 1..Len(sessions') :
            LatestReady(sessions') = sessions'[i] /\ phase[sessions'[i]] = "ready"
      BY <2>3
    <3>2. sessions'[i] \in Sessions
      BY <2>2, ElementOfSeq
    <3>3. sessions'[i] # s
      BY CloseLeaves
    <3> QED
      BY <1>0, <1>2, <2>1, <3>1, <3>2, <3>3
  <2>4. CASE /\ LatestReady(sessions') = NoSession
             /\ \A i \in 1..Len(sessions') : phase[sessions'[i]] # "ready"
    <3>1. ASSUME NEW r \in Sessions, phase'[r] = "ready" PROVE FALSE
      <4>1. r # s /\ phase[r] = "ready"
        BY <1>0, <3>1
      <4>2. PICK m \in 1..Len(sessions) : sessions[m] = r
        BY <4>1 DEF Inv, Listed
      <4>3. \E j \in 1..Len(sessions') : sessions'[j] = r
        BY <4>1, <4>2, CloseLeaves
      <4> QED
        BY <2>4, <4>1, <4>3
    <3> QED
      BY <1>2, <2>1, <2>4, <3>1
  <2> QED
    BY <2>2, <2>3, <2>4, LatestReadyFinds
<1> QED
  BY <1>1, <1>2

LEMMA ClosesInv ==
  ASSUME Inv, NEW s \in Sessions, SessionCloses(s)
  PROVE  Inv'
<1>0. TypeOK /\ Listed /\ ActiveTracksReady /\ HeldByReady
  BY DEF Inv
<1>1. /\ phase \in [Sessions -> {"none", "open", "ready", "closed"}]
      /\ phase[s] \in {"open", "ready"}
      /\ phase' = [phase EXCEPT ![s] = "closed"]
  BY <1>0 DEF SessionCloses, TypeOK
<1>2. TypeOK'
  <2>1. toProxy' \in [Proxies -> Seq(Frame)]
    <3>1. CASE active = s
      <4>1. ClosedNotes(s, active') \in Seq(Frame)
        BY CloseFallsBack, NotesAreTyped
      <4>2. Broadcast(ClosedNotes(s, active'))
        BY <3>1 DEF SessionCloses
      <4> QED
        BY <1>0, <4>1, <4>2, BroadcastTyped
    <3>2. CASE active # s
      <4>1. Broadcast(<<>>)
        BY <3>2 DEF SessionCloses
      <4> QED
        BY <1>0, <4>1, EmptySeq, BroadcastTyped
    <3> QED
      BY <3>1, <3>2
  <2>2. /\ heldBy' \in [Calls -> Sessions \cup {NoSession}]
        /\ settled' \in [Calls -> {"none", "result", "error", "unsent"}]
    BY <1>0 DEF SessionCloses, RejectHeld, TypeOK
  <2> QED
    BY <1>0, <1>1, <2>1, <2>2, CloseLeaves, CloseFallsBack
    DEF SessionCloses, TypeOK, proxyVars
<1>3. Listed'
  <2>1. ASSUME NEW j \in 1..Len(sessions') PROVE phase'[sessions'[j]] \in {"open", "ready"}
    <3>1. PICK m \in 1..Len(sessions) : sessions'[j] = sessions[m] /\ sessions[m] # s
      BY CloseLeaves
    <3>2. sessions[m] \in Sessions
      BY <1>0, ElementOfSeq DEF TypeOK
    <3> QED
      BY <1>0, <1>1, <3>1, <3>2 DEF Listed
  <2>2. ASSUME NEW r \in Sessions, phase'[r] \in {"open", "ready"}
        PROVE  \E j \in 1..Len(sessions') : sessions'[j] = r
    <3>1. r # s /\ phase[r] \in {"open", "ready"}
      BY <1>1, <2>2
    <3>2. PICK m \in 1..Len(sessions) : sessions[m] = r
      BY <1>0, <3>1 DEF Listed
    <3> QED
      BY <3>1, <3>2, CloseLeaves
  <2> QED
    BY <2>1, <2>2, CloseLeaves DEF Listed
<1>4. ActiveTracksReady'
  <2>1. CASE active = s
    BY <2>1, CloseFallsBack, RelayAssumption DEF ActiveTracksReady
  <2>2. CASE active # s
    <3>1. active' = active
      BY <2>2, CloseFallsBack
    <3> QED
      BY <1>0, <1>1, <2>2, <3>1 DEF ActiveTracksReady, TypeOK
  <2> QED
    BY <2>1, <2>2
<1>5. HeldByReady'
  <2>1. ASSUME NEW k \in Calls, heldBy'[k] # NoSession
        PROVE  phase'[heldBy'[k]] = "ready"
    <3>1. heldBy[k] # s /\ heldBy'[k] = heldBy[k]
      BY <2>1 DEF SessionCloses, RejectHeld
    <3>2. heldBy[k] \in Sessions /\ phase[heldBy[k]] = "ready"
      BY <1>0, <2>1, <3>1 DEF HeldByReady, TypeOK
    <3> QED
      BY <1>1, <3>1, <3>2
  <2> QED
    BY <2>1 DEF HeldByReady
<1> QED
  BY <1>2, <1>3, <1>4, <1>5 DEF Inv

-----------------------------------------------------------------------------
(* The other steps keep the invariant *)

\* A step that leaves the sessions alone has to keep the rest of it only.
LEMMA SameSessions ==
  ASSUME Inv, UNCHANGED <<phase, sessions, active>>, TypeOK',
         \A k \in Calls : heldBy'[k] # NoSession => heldBy'[k] = heldBy[k] \/ heldBy'[k] = active
  PROVE  Inv'
<1>1. Listed' /\ ActiveTracksReady'
  BY DEF Inv, Listed, ActiveTracksReady
<1>2. HeldByReady'
  BY DEF Inv, HeldByReady, ActiveTracksReady
<1> QED
  BY <1>1, <1>2 DEF Inv

LEMMA SettlesInv ==
  ASSUME Inv, NEW k \in Calls, SessionSettles(k)
  PROVE  Inv'
<1>1. TypeOK'
  BY DEF Inv, TypeOK, SessionSettles, proxyVars
<1>2. \A j \in Calls : heldBy'[j] # NoSession => heldBy'[j] = heldBy[j]
  BY DEF Inv, TypeOK, SessionSettles
<1> QED
  BY <1>1, <1>2, SameSessions DEF SessionSettles

\* The handlers of the control server.
LEMMA HandlersInv ==
  ASSUME Inv, NEW p \in Proxies,
         HandleSubscribe(p) \/ HandleSessionInfo(p) \/ HandleAddonRequest(p)
  PROVE  Inv'
<1>0. TypeOK
  BY DEF Inv
<1>1. CASE HandleSubscribe(p)
  <2>1. <<Plain("subscribed")>> \in Seq(Frame)
    BY FramesAreTyped DEF FrameTypes
  <2>2. toProxy' \in [Proxies -> Seq(Frame)] /\ toDaemon' \in [Proxies -> Seq(Frame)]
    BY <1>0, <1>1, <2>1, SendTyped, ReadsTyped DEF HandleSubscribe
  <2>3. TypeOK'
    BY <1>0, <1>1, <2>2 DEF HandleSubscribe, DaemonReads, TypeOK, proxyVars
  <2> QED
    BY <1>1, <2>3, SameSessions DEF HandleSubscribe, DaemonReads
<1>2. CASE HandleSessionInfo(p)
  <2>1. <<About("info", active)>> \in Seq(Frame)
    <3>1. active \in Sessions \cup {NoSession}
      BY <1>0 DEF TypeOK
    <3>2. About("info", active) \in Frame
      BY <3>1, FramesAreTyped DEF FrameTypes
    <3> QED
      BY <3>2
  <2>2. toProxy' \in [Proxies -> Seq(Frame)] /\ toDaemon' \in [Proxies -> Seq(Frame)]
    BY <1>0, <1>2, <2>1, SendTyped, ReadsTyped DEF HandleSessionInfo
  <2>3. TypeOK'
    BY <1>0, <1>2, <2>2 DEF HandleSessionInfo, DaemonReads, TypeOK, proxyVars
  <2> QED
    BY <1>2, <2>3, SameSessions DEF HandleSessionInfo, DaemonReads
<1>3. CASE HandleAddonRequest(p)
  <2> DEFINE k == Head(toDaemon[p]).call
  <2>1. k \in Calls \cup {NoCall} /\ toDaemon' \in [Proxies -> Seq(Frame)]
    BY <1>0, <1>3, ReadsTyped DEF HandleAddonRequest, Frame
  <2> HIDE DEF k
  <2>2. CASE active = NoSession
    <3>1. Send(p, <<OfCall("error", k)>>) /\ UNCHANGED <<heldBy, settled>>
      BY <1>3, <2>2 DEF HandleAddonRequest, k
    <3>2. <<OfCall("error", k)>> \in Seq(Frame)
      <4>1. OfCall("error", k) \in Frame
        BY <2>1, FramesAreTyped DEF FrameTypes
      <4> QED
        BY <4>1
    <3>3. toProxy' \in [Proxies -> Seq(Frame)]
      BY <1>0, <3>1, <3>2, SendTyped
    <3>4. TypeOK'
      BY <1>0, <1>3, <2>1, <3>1, <3>3
      DEF HandleAddonRequest, DaemonReads, TypeOK, proxyVars
    <3> QED
      BY <1>3, <3>1, <3>4, SameSessions DEF HandleAddonRequest, DaemonReads
  <2>3. CASE active # NoSession
    <3>1. heldBy' = [heldBy EXCEPT ![k] = active] /\ UNCHANGED <<settled, toProxy>>
      BY <1>3, <2>3 DEF HandleAddonRequest, k
    <3>2. TypeOK'
      BY <1>0, <1>3, <2>1, <3>1 DEF HandleAddonRequest, DaemonReads, TypeOK, proxyVars
    <3>3. \A j \in Calls : heldBy'[j] = heldBy[j] \/ heldBy'[j] = active
      BY <1>0, <3>1 DEF TypeOK
    <3> QED
      BY <1>3, <3>2, <3>3, SameSessions DEF HandleAddonRequest, DaemonReads
  <2> QED
    BY <2>2, <2>3
<1> QED
  BY <1>1, <1>2, <1>3

LEMMA ContinueInv ==
  ASSUME Inv, NEW k \in Calls, ContinueAddonRequest(k)
  PROVE  Inv'
<1>0. TypeOK
  BY DEF Inv
<1>1. settled[k] \in {"result", "error"} /\ Owner[k] \in Proxies
  BY <1>0, RelayAssumption DEF TypeOK, ContinueAddonRequest
<1>2. <<OfCall(settled[k], k)>> \in Seq(Frame)
  <2>1. OfCall(settled[k], k) \in Frame
    BY <1>1, FramesAreTyped DEF FrameTypes
  <2> QED
    BY <2>1
<1>3. toProxy' \in [Proxies -> Seq(Frame)]
  <2>1. CASE Send(Owner[k], <<OfCall(settled[k], k)>>)
    BY <1>0, <1>1, <1>2, <2>1, SendTyped
  <2>2. CASE SendFails
    BY <1>0, <2>2 DEF SendFails, TypeOK
  <2> QED
    BY <2>1, <2>2 DEF ContinueAddonRequest
<1>4. TypeOK'
  BY <1>0, <1>3 DEF ContinueAddonRequest, TypeOK, proxyVars
<1> QED
  BY <1>4, SameSessions DEF ContinueAddonRequest

LEMMA ConnectionsInv ==
  ASSUME Inv, CloseControl \/ \E p \in Proxies : DropProxy(p) \/ ProxyConnects(p)
  PROVE  Inv'
<1>0. TypeOK
  BY DEF Inv
<1>1. CASE CloseControl
  <2>1. TypeOK'
    BY <1>0, <1>1, EmptySeq DEF CloseControl, TypeOK, proxyVars
  <2> QED
    BY <1>1, <2>1, SameSessions DEF CloseControl
<1>2. ASSUME NEW p \in Proxies, DropProxy(p) PROVE Inv'
  <2>1. TypeOK'
    BY <1>0, <1>2, EmptySeq DEF DropProxy, TypeOK, proxyVars
  <2> QED
    BY <1>2, <2>1, SameSessions DEF DropProxy
<1>3. ASSUME NEW p \in Proxies, ProxyConnects(p) PROVE Inv'
  <2>1. <<Plain("subscribe")>> \in Seq(Frame)
    BY FramesAreTyped DEF FrameTypes
  <2>2. TypeOK'
    BY <1>0, <1>3, <2>1 DEF ProxyConnects, TypeOK
  <2> QED
    BY <1>3, <2>2, SameSessions DEF ProxyConnects
<1> QED
  BY <1>1, <1>2, <1>3

LEMMA ProxyReadsInv ==
  ASSUME Inv, NEW p \in Proxies, ProxyReads(p)
  PROVE  Inv'
<1>0. TypeOK
  BY DEF Inv
<1>1. PICK n \in 1..MaxChunk :
        ReadSubscribed(p, n) \/ ReadEarlyNotes(p, n) \/ ReadInfo(p, n) \/ ReadServing(p, n)
  BY DEF ProxyReads
<1>2. Takes(p, n)
  BY <1>1 DEF ReadSubscribed, ReadEarlyNotes, ReadInfo, ReadServing
<1>3. toProxy' \in [Proxies -> Seq(Frame)]
  BY <1>0, <1>2, TakesTyped
<1>4. TypeOK'
  <2>1. CASE ReadSubscribed(p, n)
    <3>1. <<Plain("info")>> \in Seq(Frame)
      BY FramesAreTyped DEF FrameTypes
    <3>2. toDaemon' \in [Proxies -> Seq(Frame)]
      BY <1>0, <2>1, <3>1, WritesTyped DEF ReadSubscribed
    <3> QED
      BY <1>0, <1>2, <1>3, <2>1, <3>2 DEF ReadSubscribed, Takes, TypeOK, daemonVars
  <2>2. CASE ReadEarlyNotes(p, n)
    BY <1>0, <1>2, <1>3, <2>2 DEF ReadEarlyNotes, Takes, TypeOK, daemonVars
  <2>3. CASE ReadInfo(p, n)
    <3>1. view' \in [Proxies -> Sessions \cup {NoSession}]
      BY <1>0, <2>3 DEF ReadInfo, TypeOK
    <3>2. overtaken' \in [Proxies -> BOOLEAN]
      BY <1>0, <2>3 DEF ReadInfo, TypeOK
    <3> QED
      BY <1>0, <1>2, <1>3, <2>3, <3>1, <3>2 DEF ReadInfo, Takes, TypeOK, daemonVars
  <2>4. CASE ReadServing(p, n)
    <3>1. view' \in [Proxies -> Sessions \cup {NoSession}]
      BY <1>0, <2>4 DEF ReadServing, TypeOK
    <3>2. overtaken' \in [Proxies -> BOOLEAN]
      BY <1>0, <2>4 DEF ReadServing, TypeOK
    <3>3. call' \in [Calls -> {"idle", "sent", "resolved", "rejected"}]
      BY <1>0, <2>4 DEF ReadServing, SettleCalls, TypeOK
    <3> QED
      BY <1>0, <1>2, <1>3, <2>4, <3>1, <3>2, <3>3
      DEF ReadServing, Takes, TypeOK, daemonVars
  <2> QED
    BY <1>1, <2>1, <2>2, <2>3, <2>4
<1> QED
  BY <1>2, <1>4, SameSessions DEF Takes, daemonVars

LEMMA ProxyCallsInv ==
  ASSUME Inv, NEW k \in Calls, ProxyCalls(k) \/ ProxyTimeout(k)
  PROVE  Inv'
<1>0. TypeOK
  BY DEF Inv
<1>1. TypeOK'
  <2>1. CASE ProxyCalls(k)
    <3>1. <<OfCall("call", k)>> \in Seq(Frame) /\ Owner[k] \in Proxies
      <4>1. OfCall("call", k) \in Frame
        BY FramesAreTyped DEF FrameTypes
      <4> QED
        BY <4>1, RelayAssumption
    <3>2. toDaemon' \in [Proxies -> Seq(Frame)]
      <4>1. CASE ProxyWrites(Owner[k], <<OfCall("call", k)>>)
        BY <1>0, <3>1, <4>1, WritesTyped
      <4>2. CASE UNCHANGED toDaemon
        BY <1>0, <4>2 DEF TypeOK
      <4> QED
        BY <2>1, <4>1, <4>2 DEF ProxyCalls
    <3> QED
      BY <1>0, <2>1, <3>2 DEF ProxyCalls, TypeOK, daemonVars
  <2>2. CASE ProxyTimeout(k)
    BY <1>0, <2>2 DEF ProxyTimeout, TypeOK, daemonVars
  <2> QED
    BY <2>1, <2>2
<1> QED
  BY <1>1, SameSessions DEF ProxyCalls, ProxyTimeout, daemonVars

LEMMA ExitInv ==
  ASSUME Inv, NEW p \in Proxies, Exit(p)
  PROVE  Inv'
<1>1. TypeOK'
  BY EmptySeq DEF Inv, Exit, TypeOK, daemonVars
<1> QED
  BY <1>1, SameSessions DEF Exit, daemonVars

LEMMA NextInv == Inv /\ [Next]_vars => Inv'
<1> SUFFICES ASSUME Inv, [Next]_vars PROVE Inv'
  OBVIOUS
<1>1. ASSUME NEW s \in Sessions, SessionConnects(s) \/ SessionReady(s) \/ SessionCloses(s)
      PROVE  Inv'
  BY <1>1, ConnectsInv, ReadyInv, ClosesInv
<1>2. ASSUME NEW k \in Calls,
             SessionSettles(k) \/ ContinueAddonRequest(k) \/ ProxyCalls(k) \/ ProxyTimeout(k)
      PROVE  Inv'
  BY <1>2, SettlesInv, ContinueInv, ProxyCallsInv
<1>3. ASSUME NEW p \in Proxies,
             \/ HandleSubscribe(p) \/ HandleSessionInfo(p) \/ HandleAddonRequest(p)
             \/ DropProxy(p) \/ ProxyConnects(p) \/ ProxyReads(p)
      PROVE  Inv'
  BY <1>3, HandlersInv, ConnectionsInv, ProxyReadsInv
<1>4. ASSUME NEW p \in Proxies, ParentExits(p) \/ LostDaemon(p) PROVE Inv'
  BY <1>4, ExitInv DEF ParentExits, LostDaemon
<1>5. CASE CloseControl
  BY <1>5, ConnectionsInv
<1>6. CASE UNCHANGED vars
  <2>1. TypeOK'
    BY <1>6 DEF Inv, TypeOK, vars, daemonVars, proxyVars
  <2> QED
    BY <1>6, <2>1, SameSessions DEF vars, daemonVars
<1> QED
  BY <1>1, <1>2, <1>3, <1>4, <1>5, <1>6 DEF Next

LEMMA InvHolds == Spec => []Inv
<1> QED
  BY InitInv, NextInv, PTL DEF Spec

-----------------------------------------------------------------------------
(* The theorems *)

\* Every variable keeps its type, and no frame is malformed, whatever the order of
\* connects, closes, chunks and exits.
THEOREM RelayTypeOK == Spec => []TypeOK
<1>1. Inv => TypeOK
  BY DEF Inv
<1> QED
  BY <1>1, InvHolds, PTL

\* The daemon's active session is a ready one, and there is one as long as any
\* session is ready: onReady, onClose and selectLatestReadySession() together.
THEOREM RelayActiveTracksReady == Spec => []ActiveTracksReady
<1>1. Inv => ActiveTracksReady
  BY DEF Inv
<1> QED
  BY <1>1, InvHolds, PTL

\* A relayed call never waits on a session that is not there to settle it.
THEOREM RelayHeldByReady == Spec => []HeldByReady
<1>1. Inv => HeldByReady
  BY DEF Inv
<1> QED
  BY <1>1, InvHolds, PTL

LEMMA RegistryInit == Init => Registry!Init
BY DEF Init, Registry!Init

LEMMA RegistryStep == Inv /\ [Next]_vars => [Registry!Next]_Registry!registry
<1> SUFFICES ASSUME Inv, [Next]_vars PROVE [Registry!Next]_Registry!registry
  OBVIOUS
<1> DEFINE ready == {s \in Sessions : phase[s] = "ready"}
           gone == {s \in Sessions : phase[s] = "closed"}
<1>0. phase \in [Sessions -> {"none", "open", "ready", "closed"}]
  BY DEF Inv, TypeOK
<1>1. ASSUME NEW s \in Sessions, SessionConnects(s) PROVE UNCHANGED Registry!registry
  <2>1. phase' = [phase EXCEPT ![s] = "open"] /\ phase[s] = "none" /\ active' = active
    BY <1>1 DEF SessionConnects
  <2>2. ready' = ready /\ gone' = gone
    BY <1>0, <2>1
  <2> QED
    BY <2>1, <2>2 DEF Registry!registry
<1>2. ASSUME NEW s \in Sessions, SessionReady(s) PROVE Registry!Promote(s)
  <2>1. phase' = [phase EXCEPT ![s] = "ready"] /\ phase[s] = "open" /\ active' = s
    BY <1>2 DEF SessionReady
  <2>2. ready' = ready \cup {s} /\ gone' = gone /\ s \notin ready \cup gone
    BY <1>0, <2>1
  <2> QED
    BY <2>1, <2>2 DEF Registry!Promote
<1>3. ASSUME NEW s \in Sessions, SessionCloses(s) PROVE Registry!Leave(s)
  <2>1. phase' = [phase EXCEPT ![s] = "closed"] /\ phase[s] \in {"open", "ready"}
    BY <1>3 DEF SessionCloses
  <2>2. ready' = ready \ {s} /\ gone' = gone \cup {s} /\ s \notin gone
    BY <1>0, <2>1
  <2>3. active' \in (IF active = s THEN Registry!Fallbacks(ready') ELSE {active})
    <3>1. CASE active = s
      BY <1>3, <3>1, CloseFallsBack DEF Registry!Fallbacks
    <3>2. CASE active # s
      BY <1>3, <3>2, CloseFallsBack
    <3> QED
      BY <3>1, <3>2
  <2> QED
    BY <2>2, <2>3 DEF Registry!Leave
<1>4. CASE UNCHANGED <<phase, active>>
  BY <1>4 DEF Registry!registry
<1>5. ASSUME NEW k \in Calls,
             SessionSettles(k) \/ ContinueAddonRequest(k) \/ ProxyCalls(k) \/ ProxyTimeout(k)
      PROVE  UNCHANGED <<phase, active>>
  BY <1>5 DEF SessionSettles, ContinueAddonRequest, ProxyCalls, ProxyTimeout, daemonVars
<1>6. ASSUME NEW p \in Proxies,
             \/ HandleSubscribe(p) \/ HandleSessionInfo(p) \/ HandleAddonRequest(p)
             \/ DropProxy(p) \/ ProxyConnects(p)
      PROVE  UNCHANGED <<phase, active>>
  BY <1>6 DEF HandleSubscribe, HandleSessionInfo, HandleAddonRequest, DaemonReads,
              DropProxy, ProxyConnects
<1>7. ASSUME NEW p \in Proxies, ProxyReads(p) \/ ParentExits(p) \/ LostDaemon(p)
      PROVE  UNCHANGED <<phase, active>>
  <2>1. ASSUME NEW n \in 1..MaxChunk, Takes(p, n) PROVE UNCHANGED <<phase, active>>
    BY <2>1 DEF Takes, daemonVars
  <2>2. CASE ProxyReads(p)
    BY <2>1, <2>2 DEF ProxyReads, ReadSubscribed, ReadEarlyNotes, ReadInfo, ReadServing
  <2>3. CASE Exit(p)
    BY <2>3 DEF Exit, daemonVars
  <2> QED
    BY <1>7, <2>2, <2>3 DEF ParentExits, LostDaemon
<1>8. CASE CloseControl \/ UNCHANGED vars
  BY <1>8, <1>4 DEF CloseControl, vars, daemonVars
<1> QED
  BY <1>1, <1>2, <1>3, <1>4, <1>5, <1>6, <1>7, <1>8 DEF Next, Registry!Next

\* The daemon implements what SessionRegistry promises of the active session, for
\* any number of editors that come and go.
THEOREM RelayImplementsRegistry == Spec => ImplementsRegistry
<1> QED
  BY RegistryInit, RegistryStep, InvHolds, PTL DEF Spec, ImplementsRegistry, Registry!Spec

-----------------------------------------------------------------------------
(* What is on its way to a proxy, with its cache, is the active session *)

\* No notification is among the frames from a to b.
NoNotes(q, a, b) == \A j \in a..b : ~IsNote(q[j])

\* The last notification among them leaves s in the cache.
LastIs(q, a, b, s) ==
  \E j \in a..b : IsNote(q[j]) /\ Effect(q[j]) = s /\ NoNotes(q, j + 1, b)

\* The notifications that are on their way, if any, add up to s.
Tells(q, s) == NoNotes(q, 1, Len(q)) \/ LastIs(q, 1, Len(q), s)

\* What an info response on its way says, with the notifications after it, is the
\* active session a; if it says none, so do those before it, or the cache v.
InfoFits(q, a, v) ==
  \A i \in 1..Len(q) : q[i].type = "info" =>
    /\ NoNotes(q, i + 1, Len(q)) => q[i].session = a
    /\ q[i].session = NoSession =>
         LastIs(q, 1, i - 1, NoSession) \/ (NoNotes(q, 1, i - 1) /\ v = NoSession)

\* Who has subscribed, and what has come before that.
Early(p) ==
  /\ pc[p] = "starting" => ~registered[p] /\ toProxy[p] = <<>>
  /\ pc[p] \in {"starting", "subscribing"} => view[p] = NoSession
  /\ pc[p] = "subscribing" =>
       /\ \A i \in 1..Len(toDaemon[p]) : toDaemon[p][i].type # "info"
       /\ \A i \in 1..Len(toProxy[p]) : toProxy[p][i].type # "info"
  /\ pc[p] \in {"querying", "serving"} => subscribed[p]
  /\ ~subscribed[p] =>
       \A i \in 1..Len(toProxy[p]) :
         ~IsNote(toProxy[p][i]) /\ toProxy[p][i].type # "subscribed"

\* The cache, and what is on its way to it, lead to the active session.
Current(p) ==
  registered[p] =>
    /\ Tells(toProxy[p], active)
    /\ pc[p] = "querying" =>
         /\ NoNotes(toProxy[p], 1, Len(toProxy[p])) /\ active = NoSession => view[p] = NoSession
         /\ InfoFits(toProxy[p], active, view[p])
    /\ pc[p] = "serving" /\ ~overtaken[p] /\ NoNotes(toProxy[p], 1, Len(toProxy[p])) =>
         view[p] = active

Told == \A p \in Proxies : Early(p) /\ Current(p)

-----------------------------------------------------------------------------
(* Frames that follow one another *)

\* r is q followed by t.
Joined(q, t, r) ==
  /\ Len(q) \in Nat /\ Len(t) \in Nat /\ Len(r) = Len(q) + Len(t)
  /\ \A i \in 1..Len(q) : r[i] = q[i]
  /\ \A i \in 1..Len(t) : r[Len(q) + i] = t[i]

\* A queue followed by what is appended to it.
LEMMA ConcatJoins ==
  ASSUME NEW q \in Seq(Frame), NEW t \in Seq(Frame)
  PROVE  Joined(q, t, q \o t)
BY ConcatProperties, LenProperties DEF Joined

\* The parts of a channel that a chunk is cut from.
LEMMA CutJoins ==
  ASSUME NEW r \in Seq(Frame), NEW n \in 1..Len(r)
  PROVE  Joined(SubSeq(r, 1, n), SubSeq(r, n + 1, Len(r)), r)
<1>1. Len(r) \in Nat /\ \A i \in 1..Len(r) : r[i] \in Frame
  BY LenProperties, ElementOfSeq
<1>2. Len(SubSeq(r, 1, n)) = n /\ \A i \in 1..n : SubSeq(r, 1, n)[i] = r[i]
  BY <1>1, SubSeqProperties
<1>3. /\ Len(SubSeq(r, n + 1, Len(r))) = Len(r) - n
      /\ \A i \in 1..Len(r) - n : SubSeq(r, n + 1, Len(r))[i] = r[n + i]
  <2>1. CASE n = Len(r)
    BY <1>1, <2>1, SubSeqProperties
  <2>2. CASE n < Len(r)
    BY <1>1, <2>2, SubSeqProperties
  <2> QED
    BY <1>1, <2>1, <2>2
<1> QED
  BY <1>1, <1>2, <1>3 DEF Joined

\* The notes of r in front of a place in its second part.
LEMMA JoinedNotes ==
  ASSUME NEW q, NEW t, NEW r, Joined(q, t, r)
  PROVE  /\ \A b \in 0..Len(q) : NoNotes(r, 1, b) <=> NoNotes(q, 1, b)
         /\ \A b \in 0..Len(t) :
              NoNotes(r, 1, Len(q) + b) <=> NoNotes(q, 1, Len(q)) /\ NoNotes(t, 1, b)
         /\ \A i \in 1..Len(q) :
              NoNotes(r, i + 1, Len(r)) <=> NoNotes(q, i + 1, Len(q)) /\ NoNotes(t, 1, Len(t))
         /\ \A i \in 0..Len(t), b \in 0..Len(t) :
              NoNotes(r, Len(q) + i + 1, Len(q) + b) <=> NoNotes(t, i + 1, b)
<1>1. \A i \in 0..Len(t), b \in 0..Len(t) :
        NoNotes(r, Len(q) + i + 1, Len(q) + b) <=> NoNotes(t, i + 1, b)
  <2> SUFFICES ASSUME NEW i \in 0..Len(t), NEW b \in 0..Len(t)
               PROVE  NoNotes(r, Len(q) + i + 1, Len(q) + b) <=> NoNotes(t, i + 1, b)
    OBVIOUS
  <2>1. ASSUME NoNotes(t, i + 1, b), NEW j \in Len(q) + i + 1..Len(q) + b PROVE ~IsNote(r[j])
    <3>1. j - Len(q) \in i + 1..b /\ r[j] = t[j - Len(q)]
      BY DEF Joined
    <3> QED
      BY <2>1, <3>1 DEF NoNotes
  <2>2. ASSUME NoNotes(r, Len(q) + i + 1, Len(q) + b), NEW j \in i + 1..b PROVE ~IsNote(t[j])
    <3>1. Len(q) + j \in Len(q) + i + 1..Len(q) + b /\ r[Len(q) + j] = t[j]
      BY DEF Joined
    <3> QED
      BY <2>2, <3>1 DEF NoNotes
  <2> QED
    BY <2>1, <2>2 DEF NoNotes
<1>2. \A i \in 0..Len(q), b \in 0..Len(q) : NoNotes(r, i + 1, b) <=> NoNotes(q, i + 1, b)
  <2> SUFFICES ASSUME NEW i \in 0..Len(q), NEW b \in 0..Len(q)
               PROVE  NoNotes(r, i + 1, b) <=> NoNotes(q, i + 1, b)
    OBVIOUS
  <2>1. \A j \in i + 1..b : r[j] = q[j]
    BY DEF Joined
  <2> QED
    BY <2>1 DEF NoNotes
<1>3. \A i \in 0..Len(q), b \in 0..Len(t) :
        NoNotes(r, i + 1, Len(q) + b) <=>
          NoNotes(r, i + 1, Len(q)) /\ NoNotes(r, Len(q) + 1, Len(q) + b)
  BY DEF Joined, NoNotes
<1>4. Len(q) \in Nat /\ Len(t) \in Nat /\ Len(r) = Len(q) + Len(t)
  BY DEF Joined
<1>5. \A b \in 0..Len(q) : NoNotes(r, 1, b) <=> NoNotes(q, 1, b)
  BY <1>2, <1>4
<1>6. \A b \in 0..Len(t) :
        NoNotes(r, 1, Len(q) + b) <=> NoNotes(q, 1, Len(q)) /\ NoNotes(t, 1, b)
  <2>1. \A b \in 0..Len(t) : NoNotes(r, Len(q) + 1, Len(q) + b) <=> NoNotes(t, 1, b)
    BY <1>1, <1>4
  <2>2. \A b \in 0..Len(t) :
          NoNotes(r, 1, Len(q) + b) <=>
            NoNotes(r, 1, Len(q)) /\ NoNotes(r, Len(q) + 1, Len(q) + b)
    BY <1>3, <1>4
  <2> QED
    BY <1>4, <1>5, <2>1, <2>2
<1>7. \A i \in 1..Len(q) :
        NoNotes(r, i + 1, Len(r)) <=> NoNotes(q, i + 1, Len(q)) /\ NoNotes(t, 1, Len(t))
  <2>1. NoNotes(r, Len(q) + 1, Len(r)) <=> NoNotes(t, 1, Len(t))
    BY <1>1, <1>4
  <2> QED
    BY <1>2, <1>3, <1>4, <2>1
<1> QED
  BY <1>1, <1>5, <1>6, <1>7

\* The last note of r in front of such a place.
LEMMA JoinedLast ==
  ASSUME NEW q, NEW t, NEW r, Joined(q, t, r), NEW s
  PROVE  /\ \A b \in 0..Len(q) : LastIs(r, 1, b, s) <=> LastIs(q, 1, b, s)
         /\ \A b \in 0..Len(t) :
              LastIs(r, 1, Len(q) + b, s) <=>
                LastIs(t, 1, b, s) \/ (NoNotes(t, 1, b) /\ LastIs(q, 1, Len(q), s))
<1>0. Len(q) \in Nat /\ Len(t) \in Nat /\ Len(r) = Len(q) + Len(t)
  BY DEF Joined
<1>1. ASSUME NEW b \in 0..Len(q) PROVE LastIs(r, 1, b, s) <=> LastIs(q, 1, b, s)
  <2>1. b \in Nat /\ \A j \in 1..b : r[j] = q[j]
    BY <1>0 DEF Joined
  <2>2. \A j \in 1..b : NoNotes(r, j + 1, b) <=> NoNotes(q, j + 1, b)
    BY <2>1 DEF NoNotes
  <2> QED
    BY <2>1, <2>2 DEF LastIs
<1>2. ASSUME NEW b \in 0..Len(t)
      PROVE  LastIs(r, 1, Len(q) + b, s) <=>
               LastIs(t, 1, b, s) \/ (NoNotes(t, 1, b) /\ LastIs(q, 1, Len(q), s))
  <2>1. \A j \in 1..b : /\ r[Len(q) + j] = t[j]
                        /\ NoNotes(r, Len(q) + j + 1, Len(q) + b) <=> NoNotes(t, j + 1, b)
    <3>1. \A j \in 1..b : r[Len(q) + j] = t[j]
      BY <1>0 DEF Joined
    <3>2. ASSUME NEW j \in 1..b
          PROVE  NoNotes(r, Len(q) + j + 1, Len(q) + b) <=> NoNotes(t, j + 1, b)
      <4>1. j \in 0..Len(t)
        BY <1>0
      <4> QED
        BY <4>1, JoinedNotes
    <3> QED
      BY <3>1, <3>2
  <2>2. \A j \in 1..Len(q) :
          /\ r[j] = q[j]
          /\ NoNotes(r, j + 1, Len(q) + b) <=> NoNotes(q, j + 1, Len(q)) /\ NoNotes(t, 1, b)
    <3>1. NoNotes(r, Len(q) + 1, Len(q) + b) <=> NoNotes(t, 1, b)
      <4>1. 0 \in 0..Len(t) /\ Len(q) + 0 + 1 = Len(q) + 1 /\ 0 + 1 = 1
        BY <1>0
      <4> QED
        BY <4>1, JoinedNotes
    <3>2. ASSUME NEW j \in 1..Len(q)
          PROVE  /\ r[j] = q[j]
                 /\ NoNotes(r, j + 1, Len(q) + b) <=>
                      NoNotes(q, j + 1, Len(q)) /\ NoNotes(r, Len(q) + 1, Len(q) + b)
      BY <1>0 DEF Joined, NoNotes
    <3> QED
      BY <3>1, <3>2
  <2>3. ASSUME LastIs(r, 1, Len(q) + b, s)
        PROVE  LastIs(t, 1, b, s) \/ (NoNotes(t, 1, b) /\ LastIs(q, 1, Len(q), s))
    <3>1. PICK j \in 1..Len(q) + b :
            IsNote(r[j]) /\ Effect(r[j]) = s /\ NoNotes(r, j + 1, Len(q) + b)
      BY <2>3 DEF LastIs
    <3>2. CASE j <= Len(q)
      BY <1>0, <2>2, <3>1, <3>2 DEF LastIs
    <3>3. CASE j > Len(q)
      <4>1. j - Len(q) \in 1..b /\ Len(q) + (j - Len(q)) = j
        BY <1>0, <3>3
      <4> QED
        BY <2>1, <3>1, <4>1 DEF LastIs
    <3> QED
      BY <1>0, <3>2, <3>3
  <2>4. ASSUME LastIs(t, 1, b, s) PROVE LastIs(r, 1, Len(q) + b, s)
    <3>1. PICK j \in 1..b : IsNote(t[j]) /\ Effect(t[j]) = s /\ NoNotes(t, j + 1, b)
      BY <2>4 DEF LastIs
    <3>2. Len(q) + j \in 1..Len(q) + b
      BY <1>0
    <3> QED
      BY <2>1, <3>1, <3>2 DEF LastIs
  <2>5. ASSUME NoNotes(t, 1, b), LastIs(q, 1, Len(q), s) PROVE LastIs(r, 1, Len(q) + b, s)
    <3>1. PICK j \in 1..Len(q) : IsNote(q[j]) /\ Effect(q[j]) = s /\ NoNotes(q, j + 1, Len(q))
      BY <2>5 DEF LastIs
    <3>2. j \in 1..Len(q) + b
      BY <1>0
    <3> QED
      BY <2>2, <2>5, <3>1, <3>2 DEF LastIs
  <2> QED
    BY <2>3, <2>4, <2>5
<1> QED
  BY <1>1, <1>2

-----------------------------------------------------------------------------
(* What frames written or read do to the notifications on their way *)

\* There is one last notification, with one effect.
LEMMA LastIsOne ==
  ASSUME NEW q, NEW b \in Nat, NEW s, NEW u, LastIs(q, 1, b, s)
  PROVE  ~NoNotes(q, 1, b) /\ (LastIs(q, 1, b, u) => s = u)
<1>1. PICK i \in 1..b : IsNote(q[i]) /\ Effect(q[i]) = s /\ NoNotes(q, i + 1, b)
  BY DEF LastIs
<1>2. ~NoNotes(q, 1, b)
  BY <1>1 DEF NoNotes
<1>3. ASSUME LastIs(q, 1, b, u) PROVE s = u
  <2>1. PICK j \in 1..b : IsNote(q[j]) /\ Effect(q[j]) = u /\ NoNotes(q, j + 1, b)
    BY <1>3 DEF LastIs
  <2>2. ~(i < j) /\ ~(j < i)
    BY <1>1, <2>1 DEF NoNotes
  <2>3. i = j
    BY <2>2
  <2> QED
    BY <1>1, <2>1, <2>3
<1> QED
  BY <1>2, <1>3

\* Frames that are no notifications.
LEMMA OtherAppended ==
  ASSUME NEW q, NEW t, NEW r, Joined(q, t, r), NEW a, NEW v, NoNotes(t, 1, Len(t))
  PROVE  /\ NoNotes(r, 1, Len(r)) <=> NoNotes(q, 1, Len(q))
         /\ Tells(q, a) => Tells(r, a)
         /\ InfoFits(q, a, v) /\ (\A i \in 1..Len(t) : t[i].type # "info") =>
              InfoFits(r, a, v)
<1>0. Len(q) \in Nat /\ Len(t) \in Nat /\ Len(r) = Len(q) + Len(t)
  BY DEF Joined
<1>1. NoNotes(r, 1, Len(r)) <=> NoNotes(q, 1, Len(q))
  BY <1>0, JoinedNotes
<1>2. LastIs(q, 1, Len(q), a) => LastIs(r, 1, Len(r), a)
  BY <1>0, JoinedLast
<1>3. ASSUME InfoFits(q, a, v), \A i \in 1..Len(t) : t[i].type # "info"
      PROVE  InfoFits(r, a, v)
  <2> SUFFICES ASSUME NEW i \in 1..Len(r), r[i].type = "info"
               PROVE  /\ NoNotes(r, i + 1, Len(r)) => r[i].session = a
                      /\ r[i].session = NoSession =>
                           \/ LastIs(r, 1, i - 1, NoSession)
                           \/ NoNotes(r, 1, i - 1) /\ v = NoSession
    BY DEF InfoFits
  <2>1. i \in 1..Len(q) /\ r[i] = q[i]
    <3>1. CASE i > Len(q)
      <4>1. i - Len(q) \in 1..Len(t) /\ Len(q) + (i - Len(q)) = i
        BY <1>0, <3>1
      <4> QED
        BY <1>3, <4>1 DEF Joined
    <3> QED
      BY <1>0, <3>1 DEF Joined
  <2>2. NoNotes(r, i + 1, Len(r)) => NoNotes(q, i + 1, Len(q))
    BY <2>1, JoinedNotes
  <2>3. i - 1 \in 0..Len(q)
    BY <1>0, <2>1
  <2>4. /\ LastIs(r, 1, i - 1, NoSession) <=> LastIs(q, 1, i - 1, NoSession)
        /\ NoNotes(r, 1, i - 1) <=> NoNotes(q, 1, i - 1)
    BY <2>3, JoinedLast, JoinedNotes
  <2> QED
    BY <1>3, <2>1, <2>2, <2>4 DEF InfoFits
<1> QED
  BY <1>1, <1>2, <1>3 DEF Tells

\* The info response is about the session that is active when it is written.
LEMMA InfoAppended ==
  ASSUME NEW q, NEW t, NEW r, Joined(q, t, r), NEW a, NEW v,
         Len(t) = 1, t[1] = About("info", a),
         Tells(q, a), InfoFits(q, a, v),
         NoNotes(q, 1, Len(q)) /\ a = NoSession => v = NoSession
  PROVE  InfoFits(r, a, v)
<1>0. Len(q) \in Nat /\ Len(r) = Len(q) + 1 /\ r[Len(q) + 1] = t[1]
  BY DEF Joined
<1> SUFFICES ASSUME NEW i \in 1..Len(r), r[i].type = "info"
             PROVE  /\ NoNotes(r, i + 1, Len(r)) => r[i].session = a
                    /\ r[i].session = NoSession =>
                         \/ LastIs(r, 1, i - 1, NoSession)
                         \/ NoNotes(r, 1, i - 1) /\ v = NoSession
  BY DEF InfoFits
<1>1. CASE i = Len(q) + 1
  <2>1. r[i].session = a
    BY <1>0, <1>1 DEF About
  <2>2. i - 1 = Len(q) /\ Len(q) \in 0..Len(q)
    BY <1>0, <1>1
  <2>3. /\ LastIs(r, 1, i - 1, a) <=> LastIs(q, 1, Len(q), a)
        /\ NoNotes(r, 1, i - 1) <=> NoNotes(q, 1, Len(q))
    BY <2>2, JoinedLast, JoinedNotes
  <2> QED
    BY <2>1, <2>3 DEF Tells
<1>2. CASE i # Len(q) + 1
  <2>1. i \in 1..Len(q) /\ i - 1 \in 0..Len(q) /\ r[i] = q[i]
    BY <1>0, <1>2 DEF Joined
  <2>2. NoNotes(r, i + 1, Len(r)) => NoNotes(q, i + 1, Len(q))
    BY <2>1, JoinedNotes
  <2>3. /\ LastIs(r, 1, i - 1, NoSession) <=> LastIs(q, 1, i - 1, NoSession)
        /\ NoNotes(r, 1, i - 1) <=> NoNotes(q, 1, i - 1)
    BY <2>1, JoinedLast, JoinedNotes
  <2> QED
    BY <2>1, <2>2, <2>3 DEF InfoFits
<1> QED
  BY <1>1, <1>2

\* Notifications, the last of which is about the session that is active now.
LEMMA NotesAppended ==
  ASSUME NEW q, NEW t, NEW r, Joined(q, t, r), NEW a, NEW old, NEW v,
         Len(t) >= 1, \A i \in 1..Len(t) : IsNote(t[i]), Effect(t[Len(t)]) = a
  PROVE  /\ Tells(r, a)
         /\ ~NoNotes(r, 1, Len(r))
         /\ InfoFits(q, old, v) => InfoFits(r, a, v)
<1>0. Len(q) \in Nat /\ Len(t) \in Nat /\ Len(r) = Len(q) + Len(t)
  BY DEF Joined
<1>1. ~NoNotes(t, 1, Len(t))
  BY <1>0 DEF NoNotes
<1>2. LastIs(t, 1, Len(t), a)
  BY <1>0 DEF LastIs, NoNotes
<1>3. LastIs(r, 1, Len(r), a)
  BY <1>0, <1>2, JoinedLast
<1>4. ~NoNotes(r, 1, Len(r))
  BY <1>0, <1>1, JoinedNotes
<1>5. ASSUME InfoFits(q, old, v), NEW i \in 1..Len(r), r[i].type = "info"
      PROVE  /\ NoNotes(r, i + 1, Len(r)) => r[i].session = a
             /\ r[i].session = NoSession =>
                  \/ LastIs(r, 1, i - 1, NoSession)
                  \/ NoNotes(r, 1, i - 1) /\ v = NoSession
  <2>1. i \in 1..Len(q) /\ i - 1 \in 0..Len(q) /\ r[i] = q[i]
    <3>1. CASE i > Len(q)
      <4>1. i - Len(q) \in 1..Len(t) /\ Len(q) + (i - Len(q)) = i
        BY <1>0, <3>1
      <4> QED
        BY <1>5, <4>1 DEF Joined, IsNote
    <3> QED
      BY <1>0, <3>1 DEF Joined
  <2>2. ~NoNotes(r, i + 1, Len(r))
    BY <1>1, <2>1, JoinedNotes
  <2>3. /\ LastIs(r, 1, i - 1, NoSession) <=> LastIs(q, 1, i - 1, NoSession)
        /\ NoNotes(r, 1, i - 1) <=> NoNotes(q, 1, i - 1)
    BY <2>1, JoinedLast, JoinedNotes
  <2> QED
    BY <1>5, <2>1, <2>2, <2>3 DEF InfoFits
<1> QED
  BY <1>3, <1>4, <1>5 DEF Tells, InfoFits

\* What a chunk c leaves in the cache that has been v.
Leaves(c, v, w) == (NoNotes(c, 1, Len(c)) /\ w = v) \/ LastIs(c, 1, Len(c), w)

\* A chunk leaves the effect of its last note in the cache, if it has one.
LEMMA NotedLeaves ==
  ASSUME NEW p, NEW c, Len(c) \in Nat, DOMAIN c = 1..Len(c), NEW w, Noted(p, c, w)
  PROVE  Leaves(c, view[p], w)
BY DEF Noted, LastNote, Leaves, LastIs, NoNotes

\* What is left behind a chunk c that is taken.
LEMMA RestTells ==
  ASSUME NEW c, NEW t, NEW r, Joined(c, t, r), NEW a, Tells(r, a)
  PROVE  Tells(t, a)
<1>0. Len(c) \in Nat /\ Len(t) \in Nat /\ Len(r) = Len(c) + Len(t)
  BY DEF Joined
<1>1. NoNotes(r, 1, Len(r)) => NoNotes(t, 1, Len(t))
  BY <1>0, JoinedNotes
<1>2. LastIs(r, 1, Len(r), a) => LastIs(t, 1, Len(t), a) \/ NoNotes(t, 1, Len(t))
  BY <1>0, JoinedLast
<1> QED
  BY <1>1, <1>2 DEF Tells

\* What it leaves in the cache when no notification is behind it.
LEMMA ChunkTaken ==
  ASSUME NEW c, NEW t, NEW r, Joined(c, t, r), NEW a, NEW v, NEW w,
         Tells(r, a), Leaves(c, v, w), NoNotes(t, 1, Len(t))
  PROVE  \/ NoNotes(c, 1, Len(c)) /\ NoNotes(r, 1, Len(r)) /\ w = v
         \/ LastIs(c, 1, Len(c), w) /\ w = a
<1>0. Len(c) \in Nat /\ Len(t) \in Nat /\ Len(r) = Len(c) + Len(t)
  BY DEF Joined
<1>1. NoNotes(r, 1, Len(r)) <=> NoNotes(c, 1, Len(c))
  BY <1>0, JoinedNotes
<1>2. LastIs(r, 1, Len(r), a) => LastIs(c, 1, Len(c), a)
  <2>1. ~LastIs(t, 1, Len(t), a)
    BY <1>0, LastIsOne
  <2> QED
    BY <1>0, <2>1, JoinedLast
<1>3. ASSUME LastIs(c, 1, Len(c), w) PROVE w = a
  BY <1>0, <1>1, <1>2, <1>3, LastIsOne DEF Tells
<1> QED
  BY <1>1, <1>3 DEF Leaves

\* The info responses behind it still fit.
LEMMA InfoBehind ==
  ASSUME NEW c, NEW t, NEW r, Joined(c, t, r), NEW a, NEW v, NEW w,
         InfoFits(r, a, v), Leaves(c, v, w)
  PROVE  InfoFits(t, a, w)
<1>0. Len(c) \in Nat /\ Len(t) \in Nat /\ Len(r) = Len(c) + Len(t)
  BY DEF Joined
<1> SUFFICES ASSUME NEW i \in 1..Len(t), t[i].type = "info"
             PROVE  /\ NoNotes(t, i + 1, Len(t)) => t[i].session = a
                    /\ t[i].session = NoSession =>
                         \/ LastIs(t, 1, i - 1, NoSession)
                         \/ NoNotes(t, 1, i - 1) /\ w = NoSession
  BY DEF InfoFits
<1>1. Len(c) + i \in 1..Len(r) /\ r[Len(c) + i] = t[i] /\ i - 1 \in 0..Len(t) /\ i \in 0..Len(t)
  BY <1>0 DEF Joined
<1>2. NoNotes(r, Len(c) + i + 1, Len(r)) <=> NoNotes(t, i + 1, Len(t))
  BY <1>0, <1>1, JoinedNotes
<1>3. Len(c) + i - 1 = Len(c) + (i - 1)
  BY <1>0
<1>4. /\ NoNotes(r, 1, Len(c) + (i - 1)) <=> NoNotes(c, 1, Len(c)) /\ NoNotes(t, 1, i - 1)
      /\ LastIs(r, 1, Len(c) + (i - 1), NoSession) <=>
           \/ LastIs(t, 1, i - 1, NoSession)
           \/ NoNotes(t, 1, i - 1) /\ LastIs(c, 1, Len(c), NoSession)
  BY <1>1, JoinedNotes, JoinedLast
<1>5. /\ NoNotes(r, Len(c) + i + 1, Len(r)) => t[i].session = a
      /\ t[i].session = NoSession =>
           \/ LastIs(r, 1, Len(c) + (i - 1), NoSession)
           \/ NoNotes(r, 1, Len(c) + (i - 1)) /\ v = NoSession
  BY <1>1, <1>3 DEF InfoFits
<1>6. ASSUME LastIs(c, 1, Len(c), NoSession) PROVE w = NoSession
  BY <1>0, <1>6, LastIsOne DEF Leaves
<1>7. ASSUME NoNotes(c, 1, Len(c)), v = NoSession PROVE w = NoSession
  BY <1>0, <1>7, LastIsOne DEF Leaves
<1> QED
  BY <1>2, <1>4, <1>5, <1>6, <1>7

\* It has an info response that names a session, and no newer notification.
LEMMA InfoSays ==
  ASSUME NEW c, NEW t, NEW r, Joined(c, t, r), NEW a, NEW v,
         InfoFits(r, a, v), NoNotes(t, 1, Len(t)),
         NEW i \in 1..Len(c), c[i].type = "info", NoNotes(c, i + 1, Len(c))
  PROVE  c[i].session = a
<1>1. i \in 1..Len(r) /\ r[i] = c[i]
  BY DEF Joined
<1>2. NoNotes(r, i + 1, Len(r))
  BY JoinedNotes
<1> QED
  BY <1>1, <1>2 DEF InfoFits

\* It has an info response that says there is no session.
LEMMA InfoSaysNone ==
  ASSUME NEW c, NEW t, NEW r, Joined(c, t, r), NEW a, NEW v, NEW w,
         Tells(r, a), InfoFits(r, a, v), NoNotes(t, 1, Len(t)), Leaves(c, v, w),
         NEW i \in 1..Len(c), c[i].type = "info", c[i].session = NoSession
  PROVE  w = a
<1>0. Len(c) \in Nat /\ Len(t) \in Nat /\ Len(r) = Len(c) + Len(t)
  BY DEF Joined
<1>1. i \in 1..Len(r) /\ r[i] = c[i] /\ i - 1 \in 0..Len(c)
  BY <1>0 DEF Joined
<1>2. (NoNotes(c, 1, Len(c)) /\ w = v) \/ w = a
  BY ChunkTaken
<1>3. CASE NoNotes(c, 1, Len(c)) /\ w = v
  <2>1. NoNotes(c, i + 1, Len(c)) /\ NoNotes(c, 1, i - 1)
    BY <1>0, <1>3 DEF NoNotes
  <2>2. NoNotes(r, 1, i - 1)
    BY <1>1, <2>1, JoinedNotes
  <2>3. ~LastIs(r, 1, i - 1, NoSession)
    BY <1>0, <2>2, LastIsOne
  <2>4. v = NoSession
    BY <1>1, <2>3 DEF InfoFits
  <2> QED
    <3>1. c[i].session = a
      BY <2>1, InfoSays
    <3> QED
      BY <1>3, <2>4, <3>1
<1> QED
  BY <1>2, <1>3

-----------------------------------------------------------------------------
(* Every step keeps Told *)

\* Nobody has subscribed when the daemon starts.
LEMMA InitTold == Init => Told
<1> SUFFICES ASSUME Init, NEW p \in Proxies PROVE Early(p) /\ Current(p)
  BY DEF Told
<1>1. Early(p)
  BY DEF Init, Early
<1>2. Current(p)
  BY DEF Init, Current
<1> QED
  BY <1>1, <1>2

NoInfo(q) == \A i \in 1..Len(q) : q[i].type # "info"

\* What a step leaves to a proxy that it does not concern.
LEMMA SameTold ==
  ASSUME NEW p \in Proxies, Early(p), Current(p),
         pc'[p] = pc[p], view'[p] = view[p], overtaken'[p] = overtaken[p],
         subscribed'[p] = subscribed[p], registered'[p] => registered[p],
         toProxy'[p] = toProxy[p], active' = active,
         pc[p] = "subscribing" /\ NoInfo(toDaemon[p]) => NoInfo(toDaemon'[p])
  PROVE  Early(p)' /\ Current(p)'
<1>1. Early(p)'
  BY DEF Early, NoInfo
<1>2. Current(p)'
  BY DEF Current
<1> QED
  BY <1>1, <1>2

\* A queue without info frames has none after its first frame is taken.
LEMMA TailHasNoInfo ==
  ASSUME NEW q \in Seq(Frame), q # <<>>, NoInfo(q)
  PROVE  NoInfo(Tail(q))
<1>1. /\ Len(q) \in Nat /\ Len(Tail(q)) = Len(q) - 1
      /\ \A i \in 1..Len(Tail(q)) : Tail(q)[i] = q[i + 1]
  BY HeadTailProperties, LenProperties
<1> QED
  BY <1>1 DEF NoInfo

\* A broadcast tells every subscriber about the session that is active now.
LEMMA BroadcastTold ==
  ASSUME Inv, Told, NEW notes \in Seq(Frame), Broadcast(notes),
         UNCHANGED <<registered, subscribed, proxyVars, toDaemon>>,
         \A i \in 1..Len(notes) : IsNote(notes[i]),
         \/ notes = <<>> /\ active' = active
         \/ Len(notes) >= 1 /\ Effect(notes[Len(notes)]) = active'
  PROVE  Told'
<1> SUFFICES ASSUME NEW p \in Proxies PROVE Early(p)' /\ Current(p)'
  BY DEF Told
<1> DEFINE q == toProxy[p]  r == toProxy'[p]
<1>1. Early(p) /\ Current(p)
  BY DEF Told
<1>2. UNCHANGED <<registered, subscribed, pc, view, overtaken, toDaemon>>
  BY DEF proxyVars
<1>3. q \in Seq(Frame) /\ Len(q) \in Nat /\ Len(notes) \in Nat
  BY LenProperties DEF Inv, TypeOK
<1>4. r = IF registered[p] /\ subscribed[p] THEN q \o notes ELSE q
  BY DEF Broadcast
<1>5. CASE ~registered[p]
  <2>1. Early(p)'
    BY <1>1, <1>2, <1>4, <1>5 DEF Early
  <2> QED
    BY <1>2, <1>5, <2>1 DEF Current
<1>6. CASE registered[p] /\ ~subscribed[p]
  <2>1. Early(p)'
    BY <1>1, <1>2, <1>4, <1>6 DEF Early
  <2>2. NoNotes(r, 1, Len(r)) /\ pc'[p] \notin {"querying", "serving"}
    BY <1>1, <1>2, <1>4, <1>6 DEF Early, NoNotes
  <2> QED
    BY <1>2, <2>1, <2>2 DEF Current, Tells
<1>7. CASE registered[p] /\ subscribed[p]
  <2>1. Joined(q, notes, r)
    BY <1>3, <1>4, <1>7, ConcatJoins
  <2>2. \A i \in 1..Len(r) : (\E j \in 1..Len(q) : r[i] = q[j]) \/ IsNote(r[i])
    <3>1. ASSUME NEW i \in 1..Len(r), i > Len(q) PROVE IsNote(r[i])
      <4>1. i - Len(q) \in 1..Len(notes) /\ Len(q) + (i - Len(q)) = i
        BY <1>3, <2>1, <3>1 DEF Joined
      <4> QED
        BY <2>1, <4>1 DEF Joined
    <3>2. \A i \in 1..Len(r) : i <= Len(q) => i \in 1..Len(q) /\ r[i] = q[i]
      BY <1>3, <2>1 DEF Joined
    <3> QED
      BY <1>3, <2>1, <3>1, <3>2 DEF Joined
  <2>3. Early(p)'
    BY <1>1, <1>2, <1>7, <2>2 DEF Early, IsNote
  <2>4. CASE notes = <<>> /\ active' = active
    <3>1. NoNotes(notes, 1, Len(notes)) /\ NoInfo(notes)
      BY <2>4 DEF NoNotes, NoInfo
    <3>2. /\ NoNotes(r, 1, Len(r)) <=> NoNotes(q, 1, Len(q))
          /\ Tells(q, active) => Tells(r, active)
          /\ InfoFits(q, active, view[p]) => InfoFits(r, active, view[p])
      BY <2>1, <3>1, OtherAppended DEF NoInfo
    <3> QED
      BY <1>1, <1>2, <2>3, <2>4, <3>2 DEF Current
  <2>5. CASE Len(notes) >= 1 /\ Effect(notes[Len(notes)]) = active'
    <3>1. /\ Tells(r, active')
          /\ ~NoNotes(r, 1, Len(r))
          /\ InfoFits(q, active, view[p]) => InfoFits(r, active', view[p])
      BY <2>1, <2>5, NotesAppended
    <3> QED
      BY <1>1, <1>2, <2>3, <3>1 DEF Current
  <2> QED
    BY <2>4, <2>5
<1> QED
  BY <1>5, <1>6, <1>7

\* An answer of the control server to p.
LEMMA SendTold ==
  ASSUME Inv, Told, NEW p \in Proxies, NEW f \in Frame, Send(p, <<f>>),
         ~IsNote(f), f.type = "subscribed" => subscribed'[p],
         f.type = "info" => f = About("info", active) /\ pc[p] # "subscribing",
         UNCHANGED <<active, registered, pc, view, overtaken>>,
         subscribed[p] => subscribed'[p],
         \A x \in Proxies \ {p} : subscribed'[x] = subscribed[x],
         \A x \in Proxies : NoInfo(toDaemon[x]) => NoInfo(toDaemon'[x])
  PROVE  Told'
<1> SUFFICES ASSUME NEW x \in Proxies PROVE Early(x)' /\ Current(x)'
  BY DEF Told
<1>1. \A y \in Proxies : Early(y) /\ Current(y)
  BY DEF Told
<1>2. CASE x # p \/ (~registered[p] /\ subscribed'[x] = subscribed[x])
  <2>1. toProxy'[x] = toProxy[x]
    BY <1>2 DEF Send, Inv, TypeOK
  <2> QED
    BY <1>1, <1>2, <2>1, SameTold
<1>3. CASE x = p /\ ~registered[p]
  <2>1. toProxy'[p] = toProxy[p]
    BY <1>3 DEF Send
  <2>2. Early(p)'
    BY <1>1, <2>1 DEF Early, NoInfo
  <2> QED
    BY <1>3, <2>2 DEF Current
<1>4. CASE x = p /\ registered[p]
  <2> DEFINE q == toProxy[p]  t == <<f>>  r == toProxy'[p]
  <2>1. q \in Seq(Frame) /\ t \in Seq(Frame) /\ Len(q) \in Nat /\ r = q \o t
    BY <1>4, LenProperties DEF Inv, TypeOK, Send
  <2>2. Joined(q, t, r)
    BY <2>1, ConcatJoins
  <2>3. \A i \in 1..Len(r) : (\E j \in 1..Len(q) : r[i] = q[j]) \/ r[i] = f
    BY <2>1, <2>2 DEF Joined
  <2>4. NoNotes(t, 1, Len(t))
    BY DEF NoNotes
  <2>5. Early(p)'
    <3>1. Early(p) /\ pc[p] # "starting"
      BY <1>1, <1>4 DEF Early
    <3>2. pc[p] = "subscribing" => NoInfo(toDaemon'[p]) /\ NoInfo(toProxy'[p])
      BY <2>3, <3>1 DEF Early, NoInfo
    <3>3. ~subscribed'[p] =>
            \A i \in 1..Len(r) : ~IsNote(r[i]) /\ r[i].type # "subscribed"
      BY <2>3, <3>1 DEF Early
    <3> QED
      BY <3>1, <3>2, <3>3 DEF Early, NoInfo
  <2>6. /\ NoNotes(r, 1, Len(r)) <=> NoNotes(q, 1, Len(q))
        /\ Tells(q, active) => Tells(r, active)
    BY <2>2, <2>4, OtherAppended
  <2>7. Current(p)
    BY <1>1
  <2>8. ASSUME pc[p] = "querying" PROVE InfoFits(r, active, view[p])
    <3>1. CASE f.type = "info"
      <4>1. Len(t) = 1 /\ t[1] = About("info", active)
        BY <3>1
      <4> QED
        BY <1>4, <2>2, <2>7, <2>8, <4>1, InfoAppended DEF Current
    <3>2. CASE f.type # "info"
      <4>1. \A i \in 1..Len(t) : t[i].type # "info"
        BY <3>2
      <4> QED
        BY <1>4, <2>2, <2>4, <2>7, <2>8, <4>1, OtherAppended DEF Current
    <3> QED
      BY <3>1, <3>2
  <2> QED
    BY <1>4, <2>5, <2>6, <2>7, <2>8 DEF Current
<1> QED
  BY <1>2, <1>3, <1>4

\* The handlers of the daemon.
LEMMA DaemonTold ==
  ASSUME Inv, Told,
         \/ \E s \in Sessions : SessionConnects(s) \/ SessionReady(s) \/ SessionCloses(s)
         \/ \E k \in Calls : SessionSettles(k) \/ ContinueAddonRequest(k)
  PROVE  Told'
<1>0. TypeOK
  BY DEF Inv
<1>1. ASSUME NEW s \in Sessions, SessionConnects(s) PROVE Told'
  <2>1. UNCHANGED <<active, registered, subscribed, pc, view, overtaken, toDaemon, toProxy>>
    BY <1>1 DEF SessionConnects, proxyVars
  <2> QED
    BY <2>1, SameTold DEF Told
<1>2. ASSUME NEW s \in Sessions, SessionReady(s) PROVE Told'
  <2> DEFINE notes == <<About("ready", s)>>
  <2>1. notes \in Seq(Frame) /\ \A i \in 1..Len(notes) : IsNote(notes[i])
    <3>1. About("ready", s) \in Frame /\ IsNote(About("ready", s))
      BY FramesAreTyped DEF FrameTypes, IsNote, About
    <3> QED
      BY <3>1
  <2>2. Effect(notes[Len(notes)]) = s
    BY DEF Effect, About
  <2>3. /\ Broadcast(notes) /\ active' = s
        /\ UNCHANGED <<registered, subscribed, proxyVars, toDaemon>>
    BY <1>2 DEF SessionReady
  <2>4. Len(notes) >= 1
    OBVIOUS
  <2> HIDE DEF notes
  <2> QED
    BY <2>1, <2>2, <2>3, <2>4, BroadcastTold
<1>3. ASSUME NEW s \in Sessions, SessionCloses(s) PROVE Told'
  <2>1. UNCHANGED <<registered, subscribed, proxyVars, toDaemon>>
    BY <1>3 DEF SessionCloses
  <2>2. CASE active # s
    <3>1. Broadcast(<<>>) /\ active' = active
      BY <1>3, <2>2 DEF SessionCloses
    <3>2. <<>> \in Seq(Frame) /\ \A i \in 1..Len(<<>>) : IsNote(<<>>[i])
      BY EmptySeq
    <3> QED
      BY <2>1, <3>1, <3>2, BroadcastTold
  <2>3. CASE active = s
    <3> DEFINE notes == ClosedNotes(s, active')
    <3>1. Broadcast(notes)
      BY <1>3, <2>3 DEF SessionCloses
    <3>2. active' \in Sessions \cup {NoSession}
      BY <1>3, ClosesInv DEF Inv, TypeOK
    <3>3. notes \in Seq(Frame)
      BY <3>2, NotesAreTyped
    <3>4. \A i \in 1..Len(notes) : IsNote(notes[i])
      BY DEF ClosedNotes, IsNote, About
    <3>5. Len(notes) >= 1 /\ Effect(notes[Len(notes)]) = active'
      BY DEF ClosedNotes, Effect, About
    <3> HIDE DEF notes
    <3> QED
      BY <2>1, <3>1, <3>3, <3>4, <3>5, BroadcastTold
  <2> QED
    BY <2>2, <2>3
<1>4. ASSUME NEW k \in Calls, SessionSettles(k) PROVE Told'
  <2>1. UNCHANGED <<active, registered, subscribed, pc, view, overtaken, toDaemon, toProxy>>
    BY <1>4 DEF SessionSettles, proxyVars
  <2> QED
    BY <2>1, SameTold DEF Told
<1>5. ASSUME NEW k \in Calls, ContinueAddonRequest(k) PROVE Told'
  <2> DEFINE f == OfCall(settled[k], k)
  <2>1. settled[k] \in {"result", "error"} /\ Owner[k] \in Proxies
    BY <1>0, <1>5, RelayAssumption DEF TypeOK, ContinueAddonRequest
  <2>2. f \in Frame /\ f.type \in {"result", "error"}
    BY <2>1, FramesAreTyped DEF FrameTypes, OfCall
  <2>3. /\ Send(Owner[k], <<f>>) \/ UNCHANGED toProxy
        /\ UNCHANGED <<active, registered, subscribed, pc, view, overtaken, toDaemon>>
    BY <1>5 DEF ContinueAddonRequest, SendFails, proxyVars
  <2> HIDE DEF f
  <2>4. ~IsNote(f) /\ f.type # "subscribed" /\ f.type # "info"
    BY <2>2 DEF IsNote
  <2>5. CASE Send(Owner[k], <<f>>)
    BY <2>1, <2>2, <2>3, <2>4, <2>5, SendTold
  <2>6. CASE UNCHANGED toProxy
    BY <2>3, <2>6, SameTold DEF Told
  <2> QED
    BY <2>3, <2>5, <2>6
<1> QED
  BY <1>1, <1>2, <1>3, <1>4, <1>5

\* The requests of a proxy that the daemon answers.
LEMMA HandlersTold ==
  ASSUME Inv, Told, NEW p \in Proxies,
         HandleSubscribe(p) \/ HandleSessionInfo(p) \/ HandleAddonRequest(p)
  PROVE  Told'
<1>0. TypeOK
  BY DEF Inv
<1>1. /\ UNCHANGED <<active, registered, pc, view, overtaken>>
      /\ toDaemon[p] # <<>> /\ toDaemon' = [toDaemon EXCEPT ![p] = Tail(@)]
  BY DEF HandleSubscribe, HandleSessionInfo, HandleAddonRequest, DaemonReads, proxyVars
<1>2. ASSUME NEW x \in Proxies, NoInfo(toDaemon[x]) PROVE NoInfo(toDaemon'[x])
  <2>1. toDaemon \in [Proxies -> Seq(Frame)]
    BY <1>0 DEF TypeOK
  <2>2. CASE x = p
    <3>1. NoInfo(Tail(toDaemon[p]))
      BY <1>1, <1>2, <2>1, <2>2, TailHasNoInfo
    <3> QED
      BY <1>1, <2>1, <2>2, <3>1
  <2>3. CASE x # p
    BY <1>1, <1>2, <2>1, <2>3
  <2> QED
    BY <2>2, <2>3
<1>3. CASE HandleSubscribe(p)
  <2> DEFINE f == Plain("subscribed")
  <2>1. f \in Frame /\ ~IsNote(f) /\ f.type = "subscribed"
    BY FramesAreTyped DEF FrameTypes, Plain, IsNote
  <2>2. subscribed' = [subscribed EXCEPT ![p] = TRUE] /\ Send(p, <<f>>)
    BY <1>3 DEF HandleSubscribe
  <2>3. subscribed'[p] /\ \A x \in Proxies \ {p} : subscribed'[x] = subscribed[x]
    BY <1>0, <2>2 DEF TypeOK
  <2> HIDE DEF f
  <2> QED
    BY <1>1, <1>2, <2>1, <2>2, <2>3, SendTold
<1>4. CASE HandleSessionInfo(p)
  <2> DEFINE f == About("info", active)
  <2>1. Send(p, <<f>>) /\ UNCHANGED subscribed /\ Head(toDaemon[p]).type = "info"
    BY <1>4 DEF HandleSessionInfo, DaemonReads
  <2>2. f \in Frame
    <3>1. active \in Sessions \cup {NoSession}
      BY <1>0 DEF TypeOK
    <3> QED
      BY <3>1, FramesAreTyped DEF FrameTypes
  <2>3. ~IsNote(f) /\ f.type = "info"
    BY DEF About, IsNote
  <2>4. pc[p] # "subscribing"
    <3>1. toDaemon[p] \in Seq(Frame)
      BY <1>0 DEF TypeOK
    <3>2. 1 \in 1..Len(toDaemon[p]) /\ toDaemon[p][1].type = "info"
      BY <1>1, <2>1, <3>1, HeadTailProperties, LenProperties
    <3> QED
      BY <3>2 DEF Told, Early
  <2>5. f = About("info", active)
    OBVIOUS
  <2> HIDE DEF f
  <2> QED
    BY <1>1, <1>2, <2>1, <2>2, <2>3, <2>4, <2>5, SendTold
<1>5. CASE HandleAddonRequest(p)
  <2> DEFINE k == Head(toDaemon[p]).call
  <2>1. k \in Calls \cup {NoCall} /\ UNCHANGED subscribed
    BY <1>0, <1>5, ReadsTyped DEF HandleAddonRequest, Frame
  <2>2. CASE active = NoSession
    <3> DEFINE f == OfCall("error", k)
    <3>1. Send(p, <<f>>)
      BY <1>5, <2>2 DEF HandleAddonRequest
    <3>2. f \in Frame
      BY <2>1, FramesAreTyped DEF FrameTypes
    <3>3. ~IsNote(f) /\ f.type # "subscribed" /\ f.type # "info"
      BY DEF OfCall, IsNote
    <3> HIDE DEF f
    <3> QED
      BY <1>1, <1>2, <2>1, <3>1, <3>2, <3>3, SendTold
  <2>3. CASE active # NoSession
    <3>1. UNCHANGED toProxy
      BY <1>5, <2>3 DEF HandleAddonRequest
    <3> QED
      BY <1>1, <1>2, <2>1, <3>1, SameTold DEF Told
  <2> QED
    BY <2>2, <2>3
<1> QED
  BY <1>3, <1>4, <1>5

\* Connections, and the proxies apart from what they read.
LEMMA ConnectionsTold ==
  ASSUME Inv, Told,
         \/ CloseControl
         \/ \E p \in Proxies : DropProxy(p) \/ ProxyConnects(p) \/ Exit(p)
         \/ \E k \in Calls : ProxyCalls(k) \/ ProxyTimeout(k)
         \/ UNCHANGED vars
  PROVE  Told'
<1>0. TypeOK /\ \A x \in Proxies : Early(x) /\ Current(x)
  BY DEF Inv, Told
<1>1. NoInfo(<<>>) /\ NoInfo(<<Plain("subscribe")>>)
  BY DEF NoInfo, Plain
<1>2. CASE CloseControl
  <2>1. UNCHANGED <<active, subscribed, pc, view, overtaken, toProxy>>
    BY <1>2 DEF CloseControl, proxyVars
  <2>2. \A x \in Proxies : ~registered'[x] /\ toDaemon'[x] = <<>>
    BY <1>2 DEF CloseControl
  <2> QED
    BY <1>0, <1>1, <2>1, <2>2, SameTold DEF Told
<1>3. ASSUME NEW p \in Proxies, DropProxy(p) PROVE Told'
  <2>1. UNCHANGED <<active, subscribed, pc, view, overtaken, toProxy>>
    BY <1>3 DEF DropProxy, proxyVars
  <2>2. \A x \in Proxies : /\ registered'[x] => registered[x]
                           /\ toDaemon'[x] = toDaemon[x] \/ toDaemon'[x] = <<>>
    BY <1>0, <1>3 DEF DropProxy, TypeOK
  <2> QED
    BY <1>0, <1>1, <2>1, <2>2, SameTold DEF Told
<1>4. ASSUME NEW p \in Proxies, ProxyConnects(p), NEW x \in Proxies
      PROVE  Early(x)' /\ Current(x)'
  <2>1. UNCHANGED <<active, subscribed, view, overtaken, toProxy>>
    BY <1>4 DEF ProxyConnects
  <2>2. CASE x # p
    <3>1. pc'[x] = pc[x] /\ registered'[x] = registered[x] /\ toDaemon'[x] = toDaemon[x]
      BY <1>0, <1>4, <2>2 DEF ProxyConnects, TypeOK
    <3> QED
      BY <1>0, <2>1, <3>1, SameTold
  <2>3. CASE x = p
    <3>1. pc[p] = "starting" /\ pc'[p] = "subscribing" /\ toDaemon'[p] = <<Plain("subscribe")>>
      BY <1>0, <1>4 DEF ProxyConnects, TypeOK
    <3>2. toProxy'[p] = <<>> /\ view'[p] = NoSession
      BY <1>0, <2>1, <3>1 DEF Early
    <3>3. Early(p)'
      BY <1>1, <3>1, <3>2 DEF Early, NoInfo
    <3>4. Tells(toProxy'[p], active')
      BY <3>2 DEF Tells, NoNotes
    <3> QED
      BY <2>3, <3>1, <3>3, <3>4 DEF Current
  <2> QED
    BY <2>2, <2>3
<1>5. ASSUME NEW p \in Proxies, Exit(p), NEW x \in Proxies
      PROVE  Early(x)' /\ Current(x)'
  <2>1. UNCHANGED <<active, registered, subscribed, toDaemon>>
    BY <1>5 DEF Exit, daemonVars
  <2>2. CASE x # p
    <3>1. /\ pc'[x] = pc[x] /\ view'[x] = view[x] /\ overtaken'[x] = overtaken[x]
          /\ toProxy'[x] = toProxy[x]
      BY <1>0, <1>5, <2>2 DEF Exit, TypeOK
    <3> QED
      BY <1>0, <2>1, <3>1, SameTold
  <2>3. CASE x = p
    <3>1. pc'[p] = "exited" /\ toProxy'[p] = <<>>
      BY <1>0, <1>5 DEF Exit, TypeOK
    <3>2. Early(p)'
      BY <3>1 DEF Early
    <3>3. Tells(toProxy'[p], active')
      BY <3>1 DEF Tells, NoNotes
    <3> QED
      BY <2>3, <3>1, <3>2, <3>3 DEF Current
  <2> QED
    BY <2>2, <2>3
<1>6. ASSUME NEW k \in Calls, ProxyCalls(k) PROVE Told'
  <2>1. UNCHANGED <<active, registered, subscribed, pc, view, overtaken, toProxy>>
    BY <1>6 DEF ProxyCalls, daemonVars
  <2>2. \A x \in Proxies : pc[x] = "subscribing" => toDaemon'[x] = toDaemon[x]
    BY <1>0, <1>6 DEF ProxyCalls, ProxyWrites, TypeOK
  <2> QED
    BY <1>0, <2>1, <2>2, SameTold DEF Told
<1>7. CASE (\E k \in Calls : ProxyTimeout(k)) \/ UNCHANGED vars
  <2>1. UNCHANGED <<active, registered, subscribed, pc, view, overtaken, toDaemon, toProxy>>
    BY <1>7 DEF ProxyTimeout, daemonVars, proxyVars, vars
  <2> QED
    BY <1>0, <2>1, SameTold DEF Told
<1> QED
  BY <1>2, <1>3, <1>4, <1>5, <1>6, <1>7 DEF Told

\* A proxy takes a chunk.
LEMMA ReadsTold ==
  ASSUME Inv, Told, NEW p \in Proxies, ProxyReads(p)
  PROVE  Told'
<1>0. TypeOK /\ \A x \in Proxies : Early(x) /\ Current(x)
  BY DEF Inv, Told
<1>1. PICK n \in 1..MaxChunk :
        ReadSubscribed(p, n) \/ ReadEarlyNotes(p, n) \/ ReadInfo(p, n) \/ ReadServing(p, n)
  BY DEF ProxyReads
<1> DEFINE r == toProxy[p]  c == Chunk(p, n)  t == SubSeq(r, n + 1, Len(r))
<1>2. Takes(p, n)
  BY <1>1 DEF ReadSubscribed, ReadEarlyNotes, ReadInfo, ReadServing
<1>3. UNCHANGED <<active, registered, subscribed>>
  BY <1>2 DEF Takes, daemonVars
<1>4. r \in Seq(Frame) /\ n \in 1..Len(r)
  <2>1. r \in Seq(Frame) /\ Len(r) \in Nat
    BY <1>0, LenProperties DEF TypeOK
  <2>2. n \in Nat /\ n >= 1 /\ n <= Len(r)
    BY <1>2, RelayAssumption DEF Takes
  <2> QED
    BY <2>1, <2>2
<1>5. toProxy'[p] = t
  BY <1>0, <1>2 DEF Takes, TypeOK
<1>6. Joined(c, t, r)
  BY <1>4, CutJoins DEF Chunk
<1>7. Len(c) = n /\ DOMAIN c = 1..n /\ n \in Nat
  BY <1>4, SubSeqProperties, LenProperties DEF Chunk
<1>8. /\ \A i \in 1..Len(t) : \E j \in 1..Len(r) : t[i] = r[j]
      /\ \A i \in 1..Len(c) : i \in 1..Len(r) /\ c[i] = r[i]
  <2>1. ASSUME NEW i \in 1..Len(t) PROVE \E j \in 1..Len(r) : t[i] = r[j]
    <3>1. Len(c) + i \in 1..Len(r) /\ r[Len(c) + i] = t[i]
      BY <1>6 DEF Joined
    <3> QED
      BY <3>1
  <2>2. \A i \in 1..Len(c) : i \in 1..Len(r) /\ c[i] = r[i]
    BY <1>6 DEF Joined
  <2> QED
    BY <2>1, <2>2
<1> HIDE DEF c, t, r
<1>9. ASSUME NEW x \in Proxies, x # p PROVE Early(x)' /\ Current(x)'
  <2>1. /\ pc'[x] = pc[x] /\ view'[x] = view[x] /\ overtaken'[x] = overtaken[x]
        /\ toDaemon'[x] = toDaemon[x]
    BY <1>0, <1>1, <1>9
    DEF ReadSubscribed, ReadEarlyNotes, ReadInfo, ReadServing, ProxyWrites, TypeOK
  <2>2. toProxy'[x] = toProxy[x]
    BY <1>0, <1>2, <1>9 DEF Takes, TypeOK
  <2> QED
    BY <1>0, <1>3, <2>1, <2>2, SameTold
<1>10. pc'[p] \in {"querying", "serving"} /\ subscribed[p]
  <2>1. CASE ReadSubscribed(p, n)
    <3>1. pc'[p] = "querying" /\ \E i \in 1..n : c[i].type = "subscribed"
      BY <1>0, <2>1 DEF ReadSubscribed, TypeOK, c
    <3> QED
      BY <1>0, <1>7, <1>8, <3>1 DEF Early, r
  <2>2. CASE ReadEarlyNotes(p, n) \/ ReadInfo(p, n) \/ ReadServing(p, n)
    BY <1>0, <2>2 DEF ReadEarlyNotes, ReadInfo, ReadServing, TypeOK, Early
  <2> QED
    BY <1>1, <2>1, <2>2
<1>11. Early(p)'
  BY <1>3, <1>10 DEF Early
<1>12. ASSUME registered[p] PROVE Tells(t, active)
  <2>1. Tells(r, active)
    BY <1>0, <1>12 DEF Current, r
  <2> QED
    BY <1>6, <2>1, RestTells
<1>13. CASE ReadSubscribed(p, n)
  <2>1. pc[p] = "subscribing" /\ pc'[p] = "querying" /\ view'[p] = NoSession
    BY <1>0, <1>13 DEF ReadSubscribed, TypeOK, Early
  <2>2. InfoFits(t, active, NoSession)
    BY <1>0, <1>8, <2>1 DEF Early, InfoFits, r
  <2>3. Current(p)'
    BY <1>3, <1>5, <1>12, <2>1, <2>2 DEF Current
  <2> QED
    BY <1>9, <1>11, <2>3 DEF Told
<1>14. CASE ReadEarlyNotes(p, n)
  <2>1. PICK w \in Sessions \cup {NoSession} :
          Noted(p, c, w) /\ view' = [view EXCEPT ![p] = w]
    BY <1>14 DEF ReadEarlyNotes, c
  <2>2. pc[p] = "querying" /\ pc'[p] = "querying" /\ view'[p] = w
    BY <1>0, <1>14, <2>1 DEF ReadEarlyNotes, TypeOK
  <2>3. Leaves(c, view[p], w)
    BY <1>7, <2>1, NotedLeaves
  <2>4. ASSUME registered[p]
        PROVE  /\ InfoFits(t, active, w)
               /\ NoNotes(t, 1, Len(t)) /\ active = NoSession => w = NoSession
    <3>1. /\ Tells(r, active) /\ InfoFits(r, active, view[p])
          /\ NoNotes(r, 1, Len(r)) /\ active = NoSession => view[p] = NoSession
      BY <1>0, <2>2, <2>4 DEF Current, r
    <3> QED
      BY <1>6, <2>3, <3>1, InfoBehind, ChunkTaken
  <2>5. Current(p)'
    BY <1>3, <1>5, <1>12, <2>2, <2>4 DEF Current
  <2> QED
    BY <1>9, <1>11, <2>5 DEF Told
<1>15. CASE ReadInfo(p, n)
  <2>1. PICK i \in 1..n :
          /\ c[i].type = "info"
          /\ \E s \in Sessions \cup {NoSession} :
               /\ IF c[i].session = NoSession THEN Noted(p, c, s) ELSE s = c[i].session
               /\ view' = [view EXCEPT ![p] = s]
          /\ overtaken' = [overtaken EXCEPT ![p] =
               (\E j \in i+1..n : IsNote(c[j])) /\ c[i].session # NoSession]
    BY <1>15 DEF ReadInfo, c
  <2>2. PICK w \in Sessions \cup {NoSession} :
          /\ IF c[i].session = NoSession THEN Noted(p, c, w) ELSE w = c[i].session
          /\ view' = [view EXCEPT ![p] = w]
    BY <2>1
  <2>3. pc[p] = "querying" /\ pc'[p] = "serving" /\ view'[p] = w
    BY <1>0, <1>15, <2>2 DEF ReadInfo, TypeOK
  <2>4. overtaken'[p] = ((\E j \in i+1..n : IsNote(c[j])) /\ c[i].session # NoSession)
    BY <1>0, <2>1 DEF TypeOK
  <2>5. ASSUME registered[p], ~overtaken'[p], NoNotes(t, 1, Len(t)) PROVE w = active
    <3>1. Tells(r, active) /\ InfoFits(r, active, view[p])
      BY <1>0, <2>3, <2>5 DEF Current, r
    <3>2. c[i].session = NoSession => Leaves(c, view[p], w)
      BY <1>7, <2>2, NotedLeaves
    <3>3. c[i].session # NoSession => w = c[i].session /\ NoNotes(c, i + 1, Len(c))
      BY <1>7, <2>2, <2>4, <2>5 DEF NoNotes
    <3>4. i \in 1..Len(c)
      BY <1>7
    <3>5. c[i].type = "info"
      BY <2>1
    <3>6. CASE c[i].session = NoSession
      BY <1>6, <2>5, <3>1, <3>2, <3>4, <3>5, <3>6, InfoSaysNone
    <3>7. CASE c[i].session # NoSession
      BY <1>6, <2>5, <3>1, <3>3, <3>4, <3>5, <3>7, InfoSays
    <3> QED
      BY <3>6, <3>7
  <2>6. Current(p)'
    BY <1>3, <1>5, <1>12, <2>3, <2>5 DEF Current
  <2> QED
    BY <1>9, <1>11, <2>6 DEF Told
<1>16. CASE ReadServing(p, n)
  <2>1. PICK w \in Sessions \cup {NoSession} :
          Noted(p, c, w) /\ view' = [view EXCEPT ![p] = w]
    BY <1>16 DEF ReadServing, c
  <2>2. pc[p] = "serving" /\ pc'[p] = "serving" /\ view'[p] = w
    BY <1>0, <1>16, <2>1 DEF ReadServing, TypeOK
  <2>3. overtaken'[p] = (overtaken[p] /\ NoNotes(c, 1, Len(c)))
    BY <1>0, <1>7, <1>16 DEF ReadServing, TypeOK, NoNotes, c
  <2>4. Leaves(c, view[p], w)
    BY <1>7, <2>1, NotedLeaves
  <2>5. ASSUME registered[p], ~overtaken'[p], NoNotes(t, 1, Len(t)) PROVE w = active
    <3>1. /\ Tells(r, active)
          /\ ~overtaken[p] /\ NoNotes(r, 1, Len(r)) => view[p] = active
      BY <1>0, <2>2, <2>5 DEF Current, r
    <3> QED
      BY <1>6, <2>3, <2>4, <2>5, <3>1, ChunkTaken
  <2>6. Current(p)'
    BY <1>3, <1>5, <1>12, <2>2, <2>5 DEF Current
  <2> QED
    BY <1>9, <1>11, <2>6 DEF Told
<1> QED
  BY <1>1, <1>13, <1>14, <1>15, <1>16

\* Every step keeps it.
LEMMA NextTold == Inv /\ Told /\ [Next]_vars => Told'
<1> SUFFICES ASSUME Inv, Told, [Next]_vars PROVE Told'
  OBVIOUS
<1>1. ASSUME NEW p \in Proxies, ParentExits(p) \/ LostDaemon(p) PROVE Told'
  BY <1>1, ConnectionsTold DEF ParentExits, LostDaemon
<1> QED
  BY <1>1, DaemonTold, HandlersTold, ConnectionsTold, ReadsTold DEF Next

\* A proxy at rest has the daemon's active session in its cache, however frames
\* were cut into chunks and whatever opened and closed meanwhile, unless its info
\* response was applied over newer notifications.
THEOREM RelayCacheAgrees == Spec => []CacheAgrees
<1>1. Told => CacheAgrees
  <2> SUFFICES ASSUME Told, NEW p \in Proxies, AtRest(p), ~overtaken[p]
               PROVE  view[p] = active
    BY DEF CacheAgrees
  <2>1. NoNotes(toProxy[p], 1, Len(toProxy[p]))
    BY DEF AtRest, NoNotes
  <2> QED
    BY <2>1 DEF Told, Current, AtRest
<1>2. Spec => []Told
  BY InitInv, NextInv, InitTold, NextTold, PTL DEF Spec
<1> QED
  BY <1>1, <1>2, PTL
=============================================================================
