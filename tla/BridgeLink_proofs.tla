------------------------- MODULE BridgeLink_proofs -------------------------
(* The theorems about BridgeLink, for any requests, connections and faults. *)
EXTENDS BridgeLink, TLAPS

-----------------------------------------------------------------------------
(* The frames of a channel *)

Elems(q) == {q[i] : i \in DOMAIN q}

\* The frame f occurs at one position at most.
Once(q, f) == \A i, j \in DOMAIN q : q[i] = f /\ q[j] = f => i = j

LEMMA ElemsEmpty == Elems(<<>>) = {}
BY DEF Elems

LEMMA ElemsOfOne == \A f : Elems(<<f>>) = {f}
BY DEF Elems

LEMMA ElemsOfTwo == \A f, g : Elems(<<f, g>>) = {f, g}
BY DEF Elems

LEMMA ElemsAppend ==
  ASSUME NEW S, NEW s \in Seq(S), NEW t \in Seq(S)
  PROVE  Elems(s \o t) \subseteq Elems(s) \cup Elems(t)
BY DEF Elems

LEMMA ElemsTail ==
  ASSUME NEW S, NEW s \in Seq(S), s # <<>>
  PROVE  Elems(Tail(s)) \subseteq Elems(s) /\ Head(s) \in Elems(s)
BY DEF Elems

LEMMA OnceTail ==
  ASSUME NEW S, NEW s \in Seq(S), s # <<>>, NEW f, Once(s, f)
  PROVE  /\ Once(Tail(s), f)
         /\ Head(s) = f => f \notin Elems(Tail(s))
BY DEF Once, Elems

LEMMA OnceAppend ==
  ASSUME NEW S, NEW s \in Seq(S), NEW t \in Seq(S), NEW f,
         \/ Once(s, f) /\ f \notin Elems(t)
         \/ f \notin Elems(s) /\ Once(t, f)
  PROVE  Once(s \o t, f)
BY DEF Once, Elems

LEMMA OnceSmall == \A f, g : Once(<<>>, f) /\ Once(<<g>>, f)
BY DEF Once

-----------------------------------------------------------------------------
(* Types *)

LEMMA FrameTyping ==
  /\ \A t \in LinkTypes : Plain(t) \in Frame
  /\ \A t \in CallTypes, r \in Requests : About(t, r) \in Frame
BY DEF Frame, Plain, About

LEMMA FramesTyping ==
  /\ <<>> \in Seq(Frame)
  /\ \A f \in Frame : <<f>> \in Seq(Frame)
  /\ \A f, g \in Frame : <<f, g>> \in Seq(Frame)
OBVIOUS

LEMMA SentTyping ==
  /\ \A t \in LinkTypes : <<Plain(t)>> \in Seq(Frame)
  /\ \A t, u \in LinkTypes : <<Plain(t), Plain(u)>> \in Seq(Frame)
  /\ \A t \in CallTypes, r \in Requests : <<About(t, r)>> \in Seq(Frame)
BY FrameTyping, FramesTyping

\* A send leaves the channels typed; only the sender's own channel can change,
\* and only by the frames that are sent.
LEMMA AddonSendsTyping ==
  ASSUME TypeOK, conn \in Conns, NEW frames \in Seq(Frame), AddonSends(frames)
  PROVE  /\ toServer' \in [Conns -> Seq(Frame)]
         /\ \A c \in Conns : \/ toServer'[c] = toServer[c]
                             \/ c = conn /\ toServer'[c] = toServer[c] \o frames
BY DEF TypeOK, AddonSends

LEMMA ServerSendsTyping ==
  ASSUME TypeOK, NEW c \in Conns, NEW frames \in Seq(Frame), ServerSends(c, frames)
  PROVE  /\ toAddon' \in [Conns -> Seq(Frame)]
         /\ \A d \in Conns : \/ toAddon'[d] = toAddon[d]
                             \/ d = c /\ conn = c /\ toAddon'[d] = toAddon[d] \o frames
BY DEF TypeOK, ServerSends

\* The client has a socket in the states in which it uses one.
Connected == state \in {"connecting", "handshaking", "ready"} <=> conn # 0

LEMMA InitType == Init => TypeOK /\ Connected
<1> SUFFICES ASSUME Init PROVE TypeOK /\ Connected
  OBVIOUS
<1>1. ready \in [Conns -> BOOLEAN] /\ deadline \in [Conns -> BOOLEAN]
      /\ syncPending \in [Conns -> BOOLEAN]
  BY Zenon DEF Init
<1>2. <<>> \in Seq(Frame)
  OBVIOUS
<1>3. toServer \in [Conns -> Seq(Frame)] /\ toAddon \in [Conns -> Seq(Frame)]
  BY <1>2, Zenon DEF Init
<1>4. quiet \in [Conns -> Nat] /\ sock \in [Conns -> SockStates]
  BY DEF Init, SockStates
<1>5. req \in [Requests -> {"idle", "waiting", "resolved", "rejected"}]
      /\ reqOn \in [Requests -> 0..MaxConns] /\ ran \in [Requests -> Nat]
  BY BridgeAssumption DEF Init
<1>6. desired \in BOOLEAN /\ helloPending \in BOOLEAN
  BY Zenon DEF Init
<1> QED
  BY <1>1, <1>3, <1>4, <1>5, <1>6, BridgeAssumption DEF Init, TypeOK, Connected, States

LEMMA AddonReadsTyping ==
  ASSUME TypeOK, Connected, NEW t, AddonReads(t)
  PROVE  /\ conn \in Conns
         /\ Head(toAddon[conn]) \in Frame
         /\ Head(toAddon[conn]).type = t
         /\ toAddon[conn] \in Seq(Frame) /\ toAddon[conn] # <<>>
         /\ toAddon' = [toAddon EXCEPT ![conn] = Tail(@)]
         /\ toAddon' \in [Conns -> Seq(Frame)]
<1>1. conn \in Conns
  BY DEF TypeOK, Connected, AddonReads, Conns
<1>2. toAddon[conn] \in Seq(Frame) /\ toAddon[conn] # <<>>
  BY <1>1 DEF TypeOK, AddonReads
<1>3. Tail(toAddon[conn]) \in Seq(Frame) /\ Head(toAddon[conn]) \in Frame
  BY <1>2
<1> QED
  BY <1>1, <1>2, <1>3 DEF TypeOK, AddonReads

LEMMA ServerReadsTyping ==
  ASSUME TypeOK, NEW c \in Conns, NEW t, ServerReads(c, t)
  PROVE  /\ Head(toServer[c]) \in Frame
         /\ Head(toServer[c]).type = t
         /\ toServer[c] \in Seq(Frame) /\ toServer[c] # <<>>
         /\ toServer' = [toServer EXCEPT ![c] = Tail(@)]
         /\ toServer' \in [Conns -> Seq(Frame)]
         /\ quiet' \in [Conns -> Nat]
BY DEF TypeOK, ServerReads

LEMMA LinkTyping ==
  ASSUME NEW f \in Frame, f.type \in LinkTypes
  PROVE  f = Plain(f.type)
BY DEF Frame, LinkTypes, CallTypes, Plain

LEMMA CallTyping ==
  ASSUME NEW f \in Frame, f.type \in CallTypes
  PROVE  f.req \in Requests /\ f = About(f.type, f.req)
BY DEF Frame, LinkTypes, CallTypes, About

LEMMA ConnectType ==
  ASSUME TypeOK, Connect
  PROVE  /\ opened' = opened + 1 /\ conn' = opened' /\ opened' \in Conns
         /\ conn' \in 0..MaxConns /\ opened' \in 0..MaxConns /\ conn' # 0
         /\ sock' \in [Conns -> SockStates]
         /\ helloPending' \in BOOLEAN
         /\ state' = "connecting"
<1>1. opened' = opened + 1 /\ conn' = opened' /\ opened' \in Conns
  BY BridgeAssumption DEF TypeOK, Connect, Conns
<1>2. sock' \in [Conns -> SockStates]
  BY <1>1 DEF TypeOK, Connect, SockStates
<1>3. helloPending' \in BOOLEAN
  BY Zenon DEF Connect
<1>4. conn' \in 0..MaxConns /\ opened' \in 0..MaxConns /\ conn' # 0
  BY <1>1 DEF Conns
<1> QED
  BY <1>1, <1>2, <1>3, <1>4 DEF Connect

LEMMA FaultType == TypeOK /\ Fault => faults' \in Nat
BY DEF TypeOK, Fault

LEMMA ScheduleReconnectType ==
  ASSUME TypeOK, ScheduleReconnect
  PROVE  /\ conn' = 0
         /\ state' \in {"reconnect_wait", "disconnected"}
         /\ helloPending' \in BOOLEAN
         /\ toAddon' \in [Conns -> Seq(Frame)]
         /\ \A c \in Conns : toAddon'[c] = IF c = conn THEN <<>> ELSE toAddon[c]
         /\ desired' = desired /\ opened' = opened
BY FramesTyping DEF TypeOK, ScheduleReconnect

LEMMA NextType == TypeOK /\ Connected /\ [Next]_vars => TypeOK' /\ Connected'
<1> SUFFICES ASSUME TypeOK, Connected, [Next]_vars PROVE TypeOK' /\ Connected'
  OBVIOUS
<1> USE BridgeAssumption
<1>0. 0 \in 0..MaxConns
  OBVIOUS
<1>1. CASE Start
  BY <1>1, ConnectType DEF Start, Connect, TypeOK, Connected, States, serverVars, reqVars
<1>2. CASE Stop
  <2>1. toAddon' \in [Conns -> Seq(Frame)]
    BY <1>2, FramesTyping DEF Stop, TypeOK
  <2>2. desired' \in BOOLEAN /\ helloPending' \in BOOLEAN
    BY <1>2, Zenon DEF Stop
  <2> QED
    BY <1>0, <1>2, <2>1, <2>2 DEF Stop, Fault, TypeOK, Connected, States, serverVars, reqVars
<1>3. CASE Reconnect
  BY <1>3, ConnectType DEF Reconnect, Connect, TypeOK, Connected, States, serverVars, reqVars
<1>4. CASE ConnectFails
  BY <1>0, <1>4, ScheduleReconnectType, FaultType DEF ConnectFails, TypeOK, Connected, States, serverVars, reqVars
<1>5. CASE OnConnected
  <2>1. conn \in Conns
    BY <1>5 DEF OnConnected, TypeOK, Connected, Conns
  <2>2. toServer' \in [Conns -> Seq(Frame)]
    BY <1>5, <2>1, SentTyping, AddonSendsTyping DEF OnConnected, LinkTypes
  <2> QED
    BY <1>5, <2>2 DEF OnConnected, TypeOK, Connected, States, addonVars, serverVars, reqVars
<1>6. CASE ReadHelloOk
  BY <1>6, AddonReadsTyping DEF ReadHelloOk, AddonReads, TypeOK, Connected, serverVars, reqVars
<1>7. CASE ReadPong
  BY <1>7, AddonReadsTyping DEF ReadPong, AddonReads, TypeOK, Connected, serverVars, reqVars
<1>8. CASE ReadSync
  <2>1. conn \in Conns
    BY <1>8, AddonReadsTyping DEF ReadSync, TypeOK, Connected, Conns
  <2>2. toServer' \in [Conns -> Seq(Frame)]
    BY <1>8, <2>1, SentTyping, AddonSendsTyping DEF ReadSync, LinkTypes
  <2> QED
    BY <1>8, <2>2, AddonReadsTyping DEF ReadSync, AddonReads, TypeOK, Connected, States, addonVars, serverVars, reqVars
<1>9. CASE ReadPing
  <2>1. conn \in Conns
    BY <1>9, AddonReadsTyping DEF ReadPing, TypeOK, Connected, Conns
  <2>2. toServer' \in [Conns -> Seq(Frame)]
    BY <1>9, <2>1, SentTyping, AddonSendsTyping DEF ReadPing, LinkTypes
  <2> QED
    BY <1>9, <2>2, AddonReadsTyping DEF ReadPing, AddonReads, TypeOK, Connected, States, addonVars, serverVars, reqVars
<1>10. CASE ReadCall
  <2>1. conn \in Conns /\ Head(toAddon[conn]).req \in Requests
    BY <1>10, AddonReadsTyping, CallTyping DEF ReadCall, CallTypes
  <2>2. toServer' \in [Conns -> Seq(Frame)]
    BY <1>10, <2>1, SentTyping, AddonSendsTyping DEF ReadCall, CallTypes
  <2>3. ran' \in [Requests -> Nat]
    BY <1>10, <2>1 DEF ReadCall, TypeOK
  <2> QED
    BY <1>10, <2>2, <2>3, AddonReadsTyping DEF ReadCall, AddonReads, TypeOK, Connected, serverVars, reqVars
<1>11. CASE AddonPing
  <2>1. conn \in Conns
    BY <1>11 DEF AddonPing, TypeOK, Connected, Conns
  <2>2. toServer' \in [Conns -> Seq(Frame)]
    BY <1>11, <2>1, SentTyping, AddonSendsTyping DEF AddonPing, LinkTypes
  <2> QED
    BY <1>11, <2>2 DEF AddonPing, TypeOK, Connected, States, addonVars, serverVars, reqVars
<1>12. CASE HelloTimeout
  BY <1>0, <1>12, ScheduleReconnectType, FaultType DEF HelloTimeout, TypeOK, Connected, States, serverVars, reqVars
<1>13. CASE BridgeDisconnected
  BY <1>0, <1>13, ScheduleReconnectType DEF BridgeDisconnected, TypeOK, Connected, States, serverVars, reqVars
<1>14. ASSUME NEW c \in Conns, Accept(c) PROVE TypeOK' /\ Connected'
  BY <1>14 DEF Accept, TypeOK, Connected, SockStates, addonVars, serverVars, reqVars
<1>15. ASSUME NEW c \in Conns, HandleHello(c) PROVE TypeOK' /\ Connected'
  <2>1. toAddon' \in [Conns -> Seq(Frame)]
    BY <1>15, SentTyping, ServerSendsTyping DEF HandleHello, LinkTypes
  <2> QED
    BY <1>15, <2>1, ServerReadsTyping DEF HandleHello, ServerReads, TypeOK, Connected, Conns, addonVars, serverVars, reqVars
<1>16. ASSUME NEW c \in Conns, HandlePing(c) PROVE TypeOK' /\ Connected'
  <2>1. toAddon' \in [Conns -> Seq(Frame)]
    BY <1>16, SentTyping, ServerSendsTyping DEF HandlePing, LinkTypes
  <2> QED
    BY <1>16, <2>1, ServerReadsTyping DEF HandlePing, ServerReads, TypeOK, Connected, Conns, addonVars, serverVars, reqVars
<1>17. ASSUME NEW c \in Conns, HandleSyncAck(c) PROVE TypeOK' /\ Connected'
  BY <1>17, ServerReadsTyping DEF HandleSyncAck, ServerReads, TypeOK, Connected, addonVars, reqVars
<1>18. ASSUME NEW c \in Conns, HandlePong(c) PROVE TypeOK' /\ Connected'
  BY <1>18, ServerReadsTyping DEF HandlePong, ServerReads, TypeOK, Connected, addonVars, reqVars
<1>19. ASSUME NEW c \in Conns, HandleAnswer(c) PROVE TypeOK' /\ Connected'
  <2>1. req' \in [Requests -> {"idle", "waiting", "resolved", "rejected"}]
        /\ reqOn' \in [Requests -> 0..MaxConns]
    <3>1. CASE UNCHANGED reqVars
      BY <3>1 DEF reqVars, TypeOK
    <3>2. ASSUME NEW r \in Requests, NEW outcome \in {"resolved", "rejected"},
                 Settle({r}, outcome)
          PROVE  /\ req' \in [Requests -> {"idle", "waiting", "resolved", "rejected"}]
                 /\ reqOn' \in [Requests -> 0..MaxConns]
      BY <1>0, <3>2 DEF Settle, TypeOK
    <3>3. Head(toServer[c]).req \in Requests
      BY <1>19, ServerReadsTyping, CallTyping DEF HandleAnswer, CallTypes
    <3> QED
      BY <1>19, <3>1, <3>2, <3>3 DEF HandleAnswer
  <2> QED
    BY <1>19, <2>1, ServerReadsTyping DEF HandleAnswer, ServerReads, TypeOK, Connected, addonVars
<1>20. ASSUME NEW c \in Conns, HandshakeTimeout(c) PROVE TypeOK' /\ Connected'
  BY <1>20 DEF HandshakeTimeout, Fault, TypeOK, Connected, SockStates, addonVars, reqVars
<1>21. ASSUME NEW c \in Conns, HeartbeatPing(c) PROVE TypeOK' /\ Connected'
  <2>1. toAddon' \in [Conns -> Seq(Frame)]
    BY <1>21, SentTyping, ServerSendsTyping DEF HeartbeatPing, LinkTypes
  <2>2. quiet' \in [Conns -> Nat]
    BY <1>21 DEF HeartbeatPing, TypeOK
  <2> QED
    BY <1>21, <2>1, <2>2 DEF HeartbeatPing, TypeOK, Connected, Conns, addonVars, serverVars, reqVars
<1>22. ASSUME NEW c \in Conns, HeartbeatTimeout(c) PROVE TypeOK' /\ Connected'
  BY <1>22 DEF HeartbeatTimeout, Fault, TypeOK, Connected, SockStates, addonVars, reqVars
<1>23. ASSUME NEW c \in Conns, Close(c) PROVE TypeOK' /\ Connected'
  BY <1>23 DEF Close, Settle, TypeOK, Connected, SockStates, addonVars
<1>24. ASSUME NEW r \in Requests, RequestTimeout(r) PROVE TypeOK' /\ Connected'
  BY <1>24 DEF RequestTimeout, Settle, TypeOK, Connected, addonVars, serverVars
<1>25. ASSUME NEW r \in Requests, NEW c \in Conns, Request(r, c) PROVE TypeOK' /\ Connected'
  <2>1. toAddon' \in [Conns -> Seq(Frame)]
    BY <1>25, SentTyping, ServerSendsTyping DEF Request, CallTypes, TypeOK
  <2>2. req' \in [Requests -> {"idle", "waiting", "resolved", "rejected"}]
        /\ reqOn' \in [Requests -> 0..MaxConns]
    <3>0. c \in 0..MaxConns
      BY DEF Conns
    <3>1. CASE IsReady(c)
      BY <1>25, <3>0, <3>1 DEF Request, TypeOK
    <3>2. CASE ~IsReady(c)
      BY <1>25, <3>2 DEF Request, TypeOK
    <3> QED
      BY <3>1, <3>2
  <2> QED
    BY <1>25, <2>1, <2>2 DEF Request, TypeOK, Connected, Conns, addonVars, serverVars, reqVars
<1>26. CASE UNCHANGED vars
  BY <1>26 DEF vars, TypeOK, Connected, addonVars, serverVars, reqVars
<1> QED
  BY <1>1, <1>2, <1>3, <1>4, <1>5, <1>6, <1>7, <1>8, <1>9, <1>10, <1>11, <1>12, <1>13,
     <1>14, <1>15, <1>16, <1>17, <1>18, <1>19, <1>20, <1>21, <1>22, <1>23, <1>24, <1>25, <1>26
     DEF Next, AddonNext, ServerNext, HandleFrame

\* The variables keep their types, and the client's state says whether it has a
\* socket, for any number of requests, connections and faults.
THEOREM TypeCorrect == Spec => []TypeOK
<1>1. TypeOK /\ Connected /\ [Next]_vars => TypeOK' /\ Connected'
  BY NextType
<1> QED
  BY InitType, <1>1, PTL DEF Spec

-----------------------------------------------------------------------------
(* What the two ends know of each other *)

\* The client uses the connection it opened last; the next ones are untouched.
Fresh ==
  /\ conn # 0 => conn = opened
  /\ \A c \in Conns : c > opened =>
       ~ready[c] /\ sock[c] = "unused" /\ toServer[c] = <<>> /\ toAddon[c] = <<>>

\* The client is ready before the server is told, and before the server knows.
Agreement ==
  \A c \in Conns :
    conn = c /\ (ready[c] \/ Plain("syncAck") \in Elems(toServer[c])) => state = "ready"

\* Only a session that is ready, or has been, sends calls.
CallsGuarded ==
  \A c \in Conns, r \in Requests : About("call", r) \in Elems(toAddon[c]) => ready[c]

\* A request is waiting while a ready session holds it, and no longer.
Waiting ==
  \A r \in Requests : IF reqOn[r] = 0 THEN req[r] # "waiting"
                      ELSE req[r] = "waiting" /\ IsReady(reqOn[r])

LinkInv == TypeOK /\ Connected /\ Fresh /\ Agreement /\ CallsGuarded /\ Waiting

\* A call is in one channel, once, and then it has not run; its answers follow it.
Delivery ==
  \A r \in Requests :
    /\ ran[r] <= 1
    /\ req[r] = "idle" =>
         ran[r] = 0 /\ \A c \in Conns : About("call", r) \notin Elems(toAddon[c])
    /\ \A c \in Conns : About("call", r) \in Elems(toAddon[c]) =>
         /\ ran[r] = 0
         /\ Once(toAddon[c], About("call", r))
         /\ \A d \in Conns : About("call", r) \in Elems(toAddon[d]) => d = c

Answered ==
  \A r \in Requests, c \in Conns :
    About("result", r) \in Elems(toServer[c]) => ran[r] > 0

IInv == LinkInv /\ Delivery /\ Answered

LEMMA FrameKinds ==
  /\ \A t \in LinkTypes, u \in CallTypes : \A r : Plain(t) # About(u, r)
  /\ \A t, u : Plain(t) = Plain(u) => t = u
  /\ \A t, u, r, q : About(t, r) = About(u, q) => t = u /\ r = q
BY DEF Plain, About, LinkTypes, CallTypes

\* A channel's frames are among those it had and those in F, and the channels
\* of other connections are unchanged.
ToServerGains(F) ==
  \A c \in Conns : /\ Elems(toServer'[c]) \subseteq Elems(toServer[c]) \cup F
                   /\ c # conn => toServer'[c] = toServer[c]
ToAddonGains(d, F) ==
  \A c \in Conns : /\ Elems(toAddon'[c]) \subseteq Elems(toAddon[c]) \cup F
                   /\ c # d \/ c # conn => toAddon'[c] = toAddon[c]

LEMMA AddonSent ==
  ASSUME TypeOK, conn \in Conns
  PROVE  /\ \A f \in Frame : AddonSends(<<f>>) => ToServerGains({f})
         /\ \A f, g \in Frame : AddonSends(<<f, g>>) => ToServerGains({f, g})
<1>1. ASSUME NEW frames \in Seq(Frame), AddonSends(frames)
      PROVE  ToServerGains(Elems(frames))
  BY <1>1, AddonSendsTyping, ElemsAppend DEF TypeOK, ToServerGains
<1> QED
  BY <1>1, FramesTyping, ElemsOfOne, ElemsOfTwo

LEMMA ServerSent ==
  ASSUME TypeOK, NEW c \in Conns
  PROVE  /\ \A f \in Frame : ServerSends(c, <<f>>) => ToAddonGains(c, {f})
         /\ \A f, g \in Frame : ServerSends(c, <<f, g>>) => ToAddonGains(c, {f, g})
<1>1. ASSUME NEW frames \in Seq(Frame), ServerSends(c, frames)
      PROVE  ToAddonGains(c, Elems(frames))
  BY <1>1, ServerSendsTyping, ElemsAppend DEF TypeOK, ToAddonGains
<1> QED
  BY <1>1, FramesTyping, ElemsOfOne, ElemsOfTwo

LEMMA AddonRead ==
  ASSUME TypeOK, Connected, NEW t, AddonReads(t)
  PROVE  /\ \A c \in Conns : Elems(toAddon'[c]) \subseteq Elems(toAddon[c])
         /\ Head(toAddon[conn]) \in Elems(toAddon[conn])
         /\ \A c \in Conns : toAddon[c] = <<>> => toAddon'[c] = <<>>
<1>1. \A c \in Conns : toAddon'[c] = IF c = conn THEN Tail(toAddon[c]) ELSE toAddon[c]
  BY AddonReadsTyping DEF TypeOK
<1>2. Elems(Tail(toAddon[conn])) \subseteq Elems(toAddon[conn])
      /\ Head(toAddon[conn]) \in Elems(toAddon[conn])
  BY AddonReadsTyping, ElemsTail
<1> QED
  BY <1>1, <1>2, AddonReadsTyping

LEMMA ServerRead ==
  ASSUME TypeOK, NEW c \in Conns, NEW t, ServerReads(c, t)
  PROVE  /\ \A d \in Conns : Elems(toServer'[d]) \subseteq Elems(toServer[d])
         /\ Head(toServer[c]) \in Elems(toServer[c])
         /\ \A d \in Conns : toServer[d] = <<>> => toServer'[d] = <<>>
<1>1. \A d \in Conns : toServer'[d] = IF d = c THEN Tail(toServer[d]) ELSE toServer[d]
  BY DEF ServerReads, TypeOK
<1>2. Elems(Tail(toServer[c])) \subseteq Elems(toServer[c])
      /\ Head(toServer[c]) \in Elems(toServer[c])
  BY ServerReadsTyping, ElemsTail
<1> QED
  BY <1>1, <1>2, ServerReadsTyping

\* What each step that sends adds to a channel.
LEMMA AddonGains ==
  ASSUME TypeOK, Connected
  PROVE  /\ OnConnected => ToServerGains({Plain("hello")})
         /\ ReadSync => ToServerGains({Plain("syncAck"), Plain("ping")})
         /\ ReadPing => ToServerGains({Plain("pong")})
         /\ ReadCall => \E outcome \in {"result", "error"} :
              ToServerGains({About(outcome, Head(toAddon[conn]).req)})
         /\ AddonPing => ToServerGains({Plain("ping")})
<1> USE FrameTyping, AddonSent DEF LinkTypes
<1>1. state \in {"connecting", "handshaking", "ready"} => conn \in Conns
  BY DEF TypeOK, Connected, Conns
<1>2. ASSUME OnConnected PROVE ToServerGains({Plain("hello")})
  BY <1>1, <1>2 DEF OnConnected
<1>3. ASSUME ReadSync PROVE ToServerGains({Plain("syncAck"), Plain("ping")})
  BY <1>1, <1>3 DEF ReadSync, AddonReads
<1>4. ASSUME ReadPing PROVE ToServerGains({Plain("pong")})
  BY <1>1, <1>4 DEF ReadPing, AddonReads
<1>5. ASSUME ReadCall
      PROVE  \E outcome \in {"result", "error"} :
               ToServerGains({About(outcome, Head(toAddon[conn]).req)})
  <2>1. Head(toAddon[conn]).req \in Requests
    BY <1>5, AddonReadsTyping, CallTyping DEF ReadCall, CallTypes
  <2> QED
    BY <1>1, <1>5, <2>1 DEF ReadCall, AddonReads, CallTypes
<1>6. ASSUME AddonPing PROVE ToServerGains({Plain("ping")})
  BY <1>1, <1>6 DEF AddonPing
<1> QED
  BY <1>2, <1>3, <1>4, <1>5, <1>6

LEMMA ServerGains ==
  ASSUME TypeOK, NEW c \in Conns
  PROVE  /\ HandleHello(c) => ToAddonGains(c, {Plain("helloOk"), Plain("sync")})
         /\ HandlePing(c) => ToAddonGains(c, {Plain("pong")})
         /\ HeartbeatPing(c) => ToAddonGains(c, {Plain("ping")})
         /\ \A r \in Requests : Request(r, c) =>
              IF IsReady(c) THEN ToAddonGains(c, {About("call", r)}) ELSE toAddon' = toAddon
<1> USE FrameTyping, ServerSent DEF LinkTypes
<1>1. ASSUME HandleHello(c) PROVE ToAddonGains(c, {Plain("helloOk"), Plain("sync")})
  BY <1>1 DEF HandleHello
<1>2. ASSUME HandlePing(c) PROVE ToAddonGains(c, {Plain("pong")})
  BY <1>2 DEF HandlePing
<1>3. ASSUME HeartbeatPing(c) PROVE ToAddonGains(c, {Plain("ping")})
  BY <1>3 DEF HeartbeatPing
<1>4. ASSUME NEW r \in Requests, Request(r, c)
      PROVE  IF IsReady(c) THEN ToAddonGains(c, {About("call", r)}) ELSE toAddon' = toAddon
  BY <1>4 DEF Request, CallTypes
<1> QED
  BY <1>1, <1>2, <1>3, <1>4

\* The frames between the two ends themselves are not calls.
LEMMA CallsKept ==
  ASSUME TypeOK, NEW c \in Conns, HandleHello(c) \/ HandlePing(c) \/ HeartbeatPing(c)
  PROVE  \A d \in Conns, r \in Requests :
           About("call", r) \in Elems(toAddon'[d]) => About("call", r) \in Elems(toAddon[d])
<1>1. \E F \in {{Plain("helloOk"), Plain("sync")}, {Plain("pong")}, {Plain("ping")}} :
        ToAddonGains(c, F)
  BY ServerGains
<1>2. \A r \in Requests : About("call", r) \notin
        {Plain("helloOk"), Plain("sync"), Plain("pong"), Plain("ping")}
  BY FrameKinds DEF LinkTypes, CallTypes
<1> QED
  BY <1>1, <1>2 DEF ToAddonGains

\* Only ReadSync acknowledges a sync.
LEMMA SyncAcksKept ==
  ASSUME TypeOK, Connected, OnConnected \/ ReadPing \/ ReadCall \/ AddonPing
  PROVE  \A c \in Conns : Plain("syncAck") \in Elems(toServer'[c])
           => Plain("syncAck") \in Elems(toServer[c])
<1>1. \E f : ToServerGains({f}) /\ f # Plain("syncAck")
  <2>1. CASE ReadCall
    <3>1. PICK outcome \in {"result", "error"} :
            ToServerGains({About(outcome, Head(toAddon[conn]).req)})
      BY <2>1, AddonGains
    <3>2. About(outcome, Head(toAddon[conn]).req) # Plain("syncAck")
      BY FrameKinds DEF LinkTypes, CallTypes
    <3> QED
      BY <3>1, <3>2
  <2> QED
    BY <2>1, AddonGains, FrameKinds
<1> QED
  BY <1>1 DEF ToServerGains

LEMMA SyncAckEffect ==
  ASSUME TypeOK, NEW c \in Conns, HandleSyncAck(c)
  PROVE  /\ \A d \in Conns : ready[d] => ready'[d]
         /\ \A d \in Conns : d # c => ready'[d] = ready[d]
         /\ Plain("syncAck") \in Elems(toServer[c])
         /\ sock[c] = "open"
<1>1. Plain("syncAck") \in Elems(toServer[c])
  BY ServerRead, ServerReadsTyping, LinkTyping DEF HandleSyncAck, LinkTypes
<1>2. CASE syncPending[c]
  BY <1>1, <1>2 DEF HandleSyncAck, ServerReads, TypeOK
<1>3. CASE ~syncPending[c]
  BY <1>1, <1>3 DEF HandleSyncAck, ServerReads, TypeOK
<1> QED
  BY <1>2, <1>3

-----------------------------------------------------------------------------
(* Who can change what *)

LEMMA AddonLocal ==
  ASSUME TypeOK, Connected, AddonNext
  PROVE  /\ UNCHANGED <<ready, req, reqOn>>
         /\ \/ conn' = conn /\ opened' = opened /\ sock' = sock
            \/ conn' = 0 /\ opened' = opened /\ sock' = sock
            \/ Connect
         /\ \A c \in Conns : Elems(toAddon'[c]) \subseteq Elems(toAddon[c])
<1>1. CASE Start \/ Reconnect
  BY <1>1 DEF Start, Reconnect, Connect, reqVars
<1>2. CASE Stop
  BY <1>2, ElemsEmpty DEF Stop, TypeOK, serverVars, reqVars
<1>3. CASE ConnectFails \/ HelloTimeout \/ BridgeDisconnected
  BY <1>3, ScheduleReconnectType, ElemsEmpty
     DEF ConnectFails, HelloTimeout, BridgeDisconnected, serverVars, reqVars
<1>4. CASE OnConnected \/ AddonPing
  BY <1>4 DEF OnConnected, AddonPing, addonVars, serverVars, reqVars
<1>5. CASE ReadHelloOk \/ ReadPong \/ ReadSync \/ ReadPing \/ ReadCall
  BY <1>5, AddonRead DEF ReadHelloOk, ReadPong, ReadSync, ReadPing, ReadCall, AddonReads,
     serverVars, reqVars
<1> QED
  BY <1>1, <1>2, <1>3, <1>4, <1>5 DEF AddonNext

LEMMA ServerLocal ==
  ASSUME TypeOK, NEW c \in Conns, ServerNext(c)
  PROVE  /\ UNCHANGED <<state, conn, opened, ran>>
         /\ sock[c] # "unused"
         /\ \A d \in Conns : Elems(toServer'[d]) \subseteq Elems(toServer[d])
         /\ \A d \in Conns : d # c =>
              /\ ready'[d] = ready[d] /\ sock'[d] = sock[d]
              /\ toServer'[d] = toServer[d] /\ toAddon'[d] = toAddon[d]
<1>1. CASE HandleHello(c) \/ HandlePing(c)
  <2>1. \A d \in Conns : d # c => toAddon'[d] = toAddon[d]
    BY <1>1, ServerGains DEF ToAddonGains
  <2> QED
    BY <1>1, <2>1, ServerRead DEF HandleHello, HandlePing, ServerReads, addonVars, TypeOK
<1>2. CASE HandleSyncAck(c)
  BY <1>2, SyncAckEffect, ServerRead DEF HandleSyncAck, ServerReads, addonVars, TypeOK
<1>3. CASE HandlePong(c) \/ HandleAnswer(c)
  BY <1>3, ServerRead DEF HandlePong, HandleAnswer, ServerReads, addonVars, TypeOK
<1>4. CASE HeartbeatPing(c)
  BY <1>4, ServerGains DEF HeartbeatPing, ToAddonGains, addonVars
<1>5. CASE Accept(c) \/ HandshakeTimeout(c) \/ HeartbeatTimeout(c)
  BY <1>5 DEF Accept, HandshakeTimeout, HeartbeatTimeout, addonVars, TypeOK
<1>6. CASE Close(c)
  BY <1>6, ElemsEmpty DEF Close, addonVars, TypeOK
<1> QED
  BY <1>1, <1>2, <1>3, <1>4, <1>5, <1>6 DEF ServerNext, HandleFrame

LEMMA CallerLocal ==
  ASSUME TypeOK, NEW r \in Requests,
         RequestTimeout(r) \/ \E c \in Conns : Request(r, c)
  PROVE  UNCHANGED <<state, conn, opened, ran, ready, sock, toServer>>
BY DEF RequestTimeout, Request, addonVars, serverVars

-----------------------------------------------------------------------------
(* Each part of the invariant is preserved *)

LEMMA FreshStep == LinkInv /\ Next => Fresh'
<1> SUFFICES ASSUME LinkInv, Next PROVE Fresh'
  OBVIOUS
<1> USE DEF LinkInv
<1>1. CASE Start \/ Reconnect
  <2>1. UNCHANGED <<ready, toServer, toAddon>>
    BY <1>1 DEF Start, Reconnect, Connect
  <2>2. \A d \in Conns : d > opened' => d > opened /\ d # opened'
    BY <1>1, ConnectType DEF Start, Reconnect, TypeOK, Conns
  <2>3. \A d \in Conns : d # opened' => sock'[d] = sock[d]
    BY <1>1, ConnectType DEF Start, Reconnect, Connect, TypeOK
  <2> QED
    BY <1>1, <2>1, <2>2, <2>3, ConnectType DEF Start, Reconnect, Fresh
<1>2. CASE Stop \/ ConnectFails \/ HelloTimeout \/ BridgeDisconnected
  <2>1. UNCHANGED <<opened, sock, ready, toServer>> /\ conn' = 0
    BY <1>2, ScheduleReconnectType
       DEF Stop, ConnectFails, HelloTimeout, BridgeDisconnected, serverVars
  <2>2. \A c \in Conns : toAddon'[c] \in {<<>>, toAddon[c]}
    BY <1>2, ScheduleReconnectType
       DEF Stop, ConnectFails, HelloTimeout, BridgeDisconnected, TypeOK
  <2> QED
    BY <2>1, <2>2 DEF Fresh
<1>3. CASE OnConnected \/ ReadHelloOk \/ ReadPong \/ ReadSync \/ ReadPing \/ ReadCall \/ AddonPing
  <2>1. UNCHANGED <<conn, opened, sock, ready>>
    BY <1>3 DEF OnConnected, ReadHelloOk, ReadPong, ReadSync, ReadPing, ReadCall,
       AddonPing, AddonReads, addonVars, serverVars
  <2>2. \A c \in Conns : c # conn => toServer'[c] = toServer[c] /\ toAddon'[c] = toAddon[c]
    BY <1>3, AddonGains, AddonReadsTyping DEF OnConnected, ReadHelloOk, ReadPong, ReadSync,
       ReadPing, ReadCall, AddonPing, ToServerGains
  <2>3. \A c \in Conns : c > opened => c # conn
    BY DEF Fresh, TypeOK, Conns
  <2> QED
    BY <2>1, <2>2, <2>3 DEF Fresh
<1>4. ASSUME NEW c \in Conns, ServerNext(c) PROVE Fresh'
  <2>1. \A d \in Conns : d > opened => d # c
    BY <1>4, ServerLocal DEF Fresh
  <2> QED
    BY <1>4, <2>1, ServerLocal DEF Fresh
<1>5. ASSUME NEW r \in Requests, RequestTimeout(r) PROVE Fresh'
  BY <1>5 DEF RequestTimeout, addonVars, serverVars, Fresh
<1>6. ASSUME NEW r \in Requests, NEW c \in Conns, Request(r, c) PROVE Fresh'
  <2>1. \A d \in Conns : d > opened => d # c
    BY <1>6 DEF Request, Fresh
  <2>2. \A d \in Conns : d # c => toAddon'[d] = toAddon[d]
    BY <1>6, ServerGains DEF ToAddonGains
  <2> QED
    BY <1>6, <2>1, <2>2, CallerLocal DEF Fresh
<1> QED
  BY <1>1, <1>2, <1>3, <1>4, <1>5, <1>6 DEF Next, AddonNext

LEMMA AgreementStep == LinkInv /\ Next => Agreement'
<1> SUFFICES ASSUME LinkInv, Next PROVE Agreement'
  OBVIOUS
<1> USE DEF LinkInv
<1>1. CASE Start \/ Reconnect
  <2>1. conn' \in Conns /\ conn' > opened
    BY <1>1, ConnectType DEF Start, Reconnect, TypeOK
  <2>2. ~ready[conn'] /\ Plain("syncAck") \notin Elems(toServer[conn'])
    BY <2>1, ElemsEmpty DEF Fresh
  <2> QED
    BY <1>1, <2>2 DEF Start, Reconnect, Connect, Agreement
<1>2. CASE Stop \/ ConnectFails \/ HelloTimeout \/ BridgeDisconnected
  <2>1. conn' \notin Conns
    BY <1>2, ScheduleReconnectType
       DEF Stop, ConnectFails, HelloTimeout, BridgeDisconnected, Conns
  <2> QED
    BY <2>1 DEF Agreement
<1>3. CASE OnConnected \/ ReadPing \/ ReadCall \/ AddonPing
  <2>1. UNCHANGED <<conn, ready>> /\ (state # "connecting" => state' = state)
    BY <1>3 DEF OnConnected, ReadPing, ReadCall, AddonPing, AddonReads, addonVars, serverVars
  <2> QED
    BY <1>3, <2>1, SyncAcksKept DEF Agreement
<1>4. CASE ReadHelloOk \/ ReadPong
  BY <1>4 DEF ReadHelloOk, ReadPong, AddonReads, serverVars, Agreement
<1>5. CASE ReadSync
  BY <1>5 DEF ReadSync, Agreement
<1>6. ASSUME NEW c \in Conns, ServerNext(c) PROVE Agreement'
  <2>1. \A d \in Conns : ready'[d] => ready[d] \/ Plain("syncAck") \in Elems(toServer[d])
    BY <1>6, SyncAckEffect DEF ServerNext, HandleFrame, Accept, HandleHello, HandlePing,
       HandlePong, HandleAnswer, HandshakeTimeout, HeartbeatPing, HeartbeatTimeout, Close
  <2> QED
    BY <1>6, <2>1, ServerLocal DEF Agreement
<1>7. ASSUME NEW r \in Requests, RequestTimeout(r) \/ \E c \in Conns : Request(r, c)
      PROVE  Agreement'
  BY <1>7, CallerLocal DEF Agreement
<1> QED
  BY <1>1, <1>2, <1>3, <1>4, <1>5, <1>6, <1>7 DEF Next, AddonNext

LEMMA CallsGuardedStep == LinkInv /\ Next => CallsGuarded'
<1> SUFFICES ASSUME LinkInv, Next PROVE CallsGuarded'
  OBVIOUS
<1> USE DEF LinkInv
<1>1. CASE AddonNext
  BY <1>1, AddonLocal DEF CallsGuarded
<1>2. ASSUME NEW c \in Conns, ServerNext(c) PROVE CallsGuarded'
  <2>1. CASE HandleHello(c) \/ HandlePing(c) \/ HeartbeatPing(c)
    BY <2>1, CallsKept DEF HandleHello, HandlePing, HeartbeatPing, CallsGuarded
  <2>2. CASE HandleSyncAck(c)
    BY <2>2, SyncAckEffect DEF HandleSyncAck, CallsGuarded
  <2>3. CASE HandlePong(c) \/ HandleAnswer(c) \/ Accept(c) \/ HandshakeTimeout(c)
             \/ HeartbeatTimeout(c) \/ Close(c)
    BY <2>3 DEF HandlePong, HandleAnswer, Accept, HandshakeTimeout, HeartbeatTimeout, Close,
       CallsGuarded
  <2> QED
    BY <1>2, <2>1, <2>2, <2>3 DEF ServerNext, HandleFrame
<1>3. ASSUME NEW r \in Requests, RequestTimeout(r) PROVE CallsGuarded'
  BY <1>3 DEF RequestTimeout, serverVars, CallsGuarded
<1>4. ASSUME NEW r \in Requests, NEW c \in Conns, Request(r, c) PROVE CallsGuarded'
  <2>1. CASE IsReady(c)
    BY <1>4, <2>1, ServerGains, FrameKinds
       DEF Request, serverVars, CallsGuarded, ToAddonGains, IsReady
  <2>2. CASE ~IsReady(c)
    BY <1>4, <2>2, ServerGains DEF Request, serverVars, CallsGuarded
  <2> QED
    BY <2>1, <2>2
<1> QED
  BY <1>1, <1>2, <1>3, <1>4 DEF Next

LEMMA WaitingStep == LinkInv /\ Next => Waiting'
<1> SUFFICES ASSUME LinkInv, Next PROVE Waiting'
  OBVIOUS
<1> USE DEF LinkInv
<1>1. ASSUME UNCHANGED <<req, reqOn>>,
             \A c \in Conns : IsReady(c) => ready'[c] /\ sock'[c] # "closed"
      PROVE  Waiting'
  BY <1>1 DEF Waiting, IsReady, TypeOK, Conns
<1>2. CASE AddonNext
  <2>1. \A c \in Conns : IsReady(c) => sock'[c] # "closed"
    BY <1>2, AddonLocal DEF IsReady, Connect, TypeOK
  <2> QED
    BY <1>1, <1>2, <2>1, AddonLocal DEF IsReady
<1>3. ASSUME NEW c \in Conns, ServerNext(c) PROVE Waiting'
  <2>1. CASE HandleHello(c) \/ HandlePing(c) \/ HandlePong(c) \/ HeartbeatPing(c)
    BY <1>1, <2>1 DEF HandleHello, HandlePing, HandlePong, HeartbeatPing, ServerReads, reqVars,
       IsReady
  <2>2. CASE HandleSyncAck(c)
    BY <1>1, <2>2, SyncAckEffect DEF HandleSyncAck, ServerReads, reqVars, IsReady
  <2>3. CASE Accept(c) \/ HandshakeTimeout(c) \/ HeartbeatTimeout(c)
    BY <1>1, <2>3 DEF Accept, HandshakeTimeout, HeartbeatTimeout, reqVars, IsReady, TypeOK
  <2>4. CASE HandleAnswer(c)
    BY <2>4 DEF HandleAnswer, ServerReads, Settle, reqVars, Waiting, IsReady, TypeOK
  <2>5. CASE Close(c)
    BY <2>5 DEF Close, Settle, Waiting, IsReady, TypeOK
  <2> QED
    BY <1>3, <2>1, <2>2, <2>3, <2>4, <2>5 DEF ServerNext, HandleFrame
<1>4. ASSUME NEW r \in Requests, RequestTimeout(r) PROVE Waiting'
  BY <1>4 DEF RequestTimeout, Settle, serverVars, Waiting, IsReady, TypeOK
<1>5. ASSUME NEW r \in Requests, NEW c \in Conns, Request(r, c) PROVE Waiting'
  <2>1. c # 0 /\ UNCHANGED <<ready, sock>>
    BY <1>5 DEF Request, serverVars, Conns
  <2>2. CASE IsReady(c)
    BY <1>5, <2>1, <2>2 DEF Request, Waiting, IsReady, TypeOK
  <2>3. CASE ~IsReady(c)
    BY <1>5, <2>1, <2>3 DEF Request, Waiting, IsReady, TypeOK
  <2> QED
    BY <2>2, <2>3
<1> QED
  BY <1>2, <1>3, <1>4, <1>5 DEF Next

LEMMA InitLink == Init => LinkInv
<1>1. Init => Fresh /\ Agreement /\ CallsGuarded
  BY ElemsEmpty DEF Init, Fresh, Agreement, CallsGuarded
<1>2. Init => Waiting
  BY DEF Init, Waiting
<1> QED
  BY <1>1, <1>2, InitType DEF LinkInv

LEMMA StutterLink == LinkInv /\ UNCHANGED vars => LinkInv'
<1> SUFFICES ASSUME LinkInv, UNCHANGED vars PROVE LinkInv'
  OBVIOUS
<1> USE DEF LinkInv, vars, addonVars, serverVars, reqVars
<1>1. TypeOK' /\ Connected'
  BY NextType
<1>2. Fresh' /\ Agreement' /\ CallsGuarded'
  BY DEF Fresh, Agreement, CallsGuarded
<1>3. Waiting'
  BY DEF Waiting, IsReady
<1> QED
  BY <1>1, <1>2, <1>3

LEMMA NextLink == LinkInv /\ [Next]_vars => LinkInv'
BY NextType, FreshStep, AgreementStep, CallsGuardedStep, WaitingStep, StutterLink DEF LinkInv

\* Whenever the server takes a session for ready, its client is ready too or has
\* left that connection for good, whatever either side has timed out or retried.
THEOREM ReadyAgreed == Spec => []ReadyAgreement
<1>1. LinkInv => ReadyAgreement
  BY DEF LinkInv, Agreement, ReadyAgreement
<1> QED
  BY InitLink, NextLink, <1>1, PTL DEF Spec

\* No caller of request() waits on a session that is closed or not ready: close()
\* settles everything that raced with it.
THEOREM NobodyStranded == Spec => []NoStrandedRequest
<1>1. LinkInv => NoStrandedRequest
  BY DEF LinkInv, Waiting, NoStrandedRequest, TypeOK, Conns
<1> QED
  BY InitLink, NextLink, <1>1, PTL DEF Spec

\* The editor executes calls on connections whose handshake it has completed only.
THEOREM CallsWhenReady == Spec => CallsOnlyWhenReady
<1>1. LinkInv /\ [Next]_vars => (\A r \in Requests : ran'[r] # ran[r] => state = "ready")
  <2> SUFFICES ASSUME LinkInv, [Next]_vars, NEW r \in Requests, ran'[r] # ran[r]
               PROVE  state = "ready"
    OBVIOUS
  <2> USE DEF LinkInv
  <2>1. ReadCall
    <3>1. CASE AddonNext
      BY <3>1 DEF AddonNext, Start, Stop, Reconnect, Connect, ConnectFails, OnConnected,
         ReadHelloOk, ReadPong, ReadSync, ReadPing, AddonPing, HelloTimeout, BridgeDisconnected
    <3>2. CASE UNCHANGED vars
      BY <3>2 DEF vars
    <3> QED
      BY <3>1, <3>2, ServerLocal, CallerLocal DEF Next
  <2>2. conn \in Conns /\ About("call", Head(toAddon[conn]).req) \in Elems(toAddon[conn])
        /\ Head(toAddon[conn]).req \in Requests
    BY <2>1, AddonReadsTyping, AddonRead, CallTyping DEF ReadCall, CallTypes
  <2> QED
    BY <2>2 DEF CallsGuarded, Agreement
<1> QED
  BY InitLink, NextLink, <1>1, PTL DEF Spec, CallsOnlyWhenReady

-----------------------------------------------------------------------------
(* Delivery *)

LEMMA AddonKeepsOnce ==
  ASSUME TypeOK, Connected, AddonNext, NEW f
  PROVE  \A c \in Conns : Once(toAddon[c], f) => Once(toAddon'[c], f)
<1>1. CASE Start \/ Reconnect \/ OnConnected \/ AddonPing
  BY <1>1 DEF Start, Reconnect, Connect, OnConnected, AddonPing
<1>2. CASE Stop
  BY <1>2, OnceSmall DEF Stop, TypeOK
<1>3. CASE ConnectFails \/ HelloTimeout \/ BridgeDisconnected
  BY <1>3, ScheduleReconnectType, OnceSmall DEF ConnectFails, HelloTimeout, BridgeDisconnected
<1>4. ASSUME NEW t, AddonReads(t)
      PROVE  \A c \in Conns : Once(toAddon[c], f) => Once(toAddon'[c], f)
  <2>1. \A c \in Conns : toAddon'[c] = IF c = conn THEN Tail(toAddon[c]) ELSE toAddon[c]
    BY <1>4, AddonReadsTyping DEF TypeOK
  <2> QED
    BY <1>4, <2>1, AddonReadsTyping, OnceTail
<1> QED
  BY <1>1, <1>2, <1>3, <1>4
     DEF AddonNext, ReadHelloOk, ReadPong, ReadSync, ReadPing, ReadCall

LEMMA SendKeepsOnce ==
  ASSUME TypeOK, NEW c \in Conns, NEW frames \in Seq(Frame), ServerSends(c, frames), NEW f,
         NEW d \in Conns,
         \/ Once(toAddon[d], f) /\ f \notin Elems(frames)
         \/ f \notin Elems(toAddon[d]) /\ Once(frames, f)
  PROVE  Once(toAddon'[d], f)
<1>1. f \notin Elems(toAddon[d]) => Once(toAddon[d], f)
  BY DEF Once, Elems
<1>2. toAddon[d] \in Seq(Frame)
  BY DEF TypeOK
<1>3. Once(toAddon[d] \o frames, f)
  BY <1>2, OnceAppend
<1>4. toAddon'[d] \in {toAddon[d], toAddon[d] \o frames}
  BY ServerSendsTyping
<1> QED
  BY <1>1, <1>3, <1>4

LEMMA ServerKeepsCalls ==
  ASSUME TypeOK, NEW c \in Conns, ServerNext(c)
  PROVE  \A d \in Conns, r \in Requests :
           /\ About("call", r) \in Elems(toAddon'[d]) => About("call", r) \in Elems(toAddon[d])
           /\ Once(toAddon[d], About("call", r)) => Once(toAddon'[d], About("call", r))
<1>1. ASSUME NEW frames \in Seq(Frame), ServerSends(c, frames),
             \A r \in Requests : About("call", r) \notin Elems(frames)
      PROVE  \A d \in Conns, r \in Requests :
               Once(toAddon[d], About("call", r)) => Once(toAddon'[d], About("call", r))
  BY <1>1, SendKeepsOnce
<1>2. \A t, u \in LinkTypes, r \in Requests :
        /\ About("call", r) \notin Elems(<<Plain(t)>>)
        /\ About("call", r) \notin Elems(<<Plain(t), Plain(u)>>)
  BY FrameKinds, ElemsOfOne, ElemsOfTwo DEF CallTypes
<1>3. CASE HandleHello(c)
  BY <1>1, <1>2, <1>3, SentTyping, CallsKept DEF HandleHello, LinkTypes
<1>4. CASE HandlePing(c)
  BY <1>1, <1>2, <1>4, SentTyping, CallsKept DEF HandlePing, LinkTypes
<1>5. CASE HeartbeatPing(c)
  BY <1>1, <1>2, <1>5, SentTyping, CallsKept DEF HeartbeatPing, LinkTypes
<1>6. CASE HandleSyncAck(c) \/ HandlePong(c) \/ HandleAnswer(c) \/ Accept(c)
           \/ HandshakeTimeout(c) \/ HeartbeatTimeout(c) \/ Close(c)
  BY <1>6 DEF HandleSyncAck, HandlePong, HandleAnswer, Accept, HandshakeTimeout,
     HeartbeatTimeout, Close
<1> QED
  BY <1>3, <1>4, <1>5, <1>6 DEF ServerNext, HandleFrame

\* What a server step does to the requests: one answered, or some rejected.
LEMMA ServerSettles ==
  ASSUME LinkInv, NEW c \in Conns, ServerNext(c)
  PROVE  \/ req' = req
         \/ \E R \in SUBSET Requests :
              (\A r \in R : req[r] = "waiting") /\ Settle(R, "rejected")
         \/ \E r \in Requests : /\ req[r] = "waiting" /\ Settle({r}, "resolved")
                                /\ About("result", r) \in Elems(toServer[c])
<1>1. CASE HandleAnswer(c)
  <2>1. PICK t \in {"result", "error"} :
          /\ ServerReads(c, t)
          /\ LET r == Head(toServer[c]).req IN
             IF reqOn[r] = c
             THEN Settle({r}, IF t = "result" THEN "resolved" ELSE "rejected")
             ELSE UNCHANGED reqVars
    BY <1>1 DEF HandleAnswer
  <2> DEFINE r == Head(toServer[c]).req
  <2>2. r \in Requests /\ Head(toServer[c]) = About(t, r)
    BY <2>1, ServerReadsTyping, CallTyping DEF LinkInv, CallTypes
  <2>3. About(t, r) \in Elems(toServer[c])
    BY <2>1, <2>2, ServerRead DEF LinkInv
  <2>4. reqOn[r] = c => req[r] = "waiting"
    BY <2>2 DEF LinkInv, Waiting, Conns
  <2>5. CASE reqOn[r] = c /\ t = "result"
    BY <2>1, <2>2, <2>3, <2>4, <2>5
  <2>6. CASE reqOn[r] = c /\ t = "error"
    <3>1. {r} \in SUBSET Requests /\ (\A q \in {r} : req[q] = "waiting") /\ Settle({r}, "rejected")
      BY <2>1, <2>2, <2>4, <2>6
    <3> QED
      BY <3>1
  <2>7. CASE reqOn[r] # c
    BY <2>1, <2>7 DEF reqVars
  <2> HIDE DEF r
  <2> QED
    BY <2>1, <2>5, <2>6, <2>7
<1>2. CASE Close(c)
  <2> DEFINE R == {r \in Requests : reqOn[r] = c}
  <2>1. \A r \in R : req[r] = "waiting"
    BY DEF LinkInv, Waiting, Conns
  <2>2. R \in SUBSET Requests /\ Settle(R, "rejected")
    BY <1>2 DEF Close
  <2> HIDE DEF R
  <2> QED
    BY <2>1, <2>2
<1>3. CASE HandleHello(c) \/ HandlePing(c) \/ HandlePong(c) \/ HandleSyncAck(c) \/ Accept(c)
           \/ HandshakeTimeout(c) \/ HeartbeatPing(c) \/ HeartbeatTimeout(c)
  BY <1>3 DEF HandleHello, HandlePing, HandlePong, HandleSyncAck, Accept,
     HandshakeTimeout, HeartbeatPing, HeartbeatTimeout, reqVars
<1> QED
  BY <1>1, <1>2, <1>3 DEF ServerNext, HandleFrame

LEMMA ReadCallEffect ==
  ASSUME IInv, ReadCall
  PROVE  \E r \in Requests :
           /\ ran[r] = 0 /\ req[r] # "idle"
           /\ ran' = [ran EXCEPT ![r] = 1]
           /\ \A c \in Conns : About("call", r) \notin Elems(toAddon'[c])
           /\ \A q \in Requests, c \in Conns :
                About("result", q) \in Elems(toServer'[c]) =>
                  q = r \/ About("result", q) \in Elems(toServer[c])
<1> USE DEF IInv, LinkInv
<1> DEFINE r == Head(toAddon[conn]).req
<1>1. /\ conn \in Conns /\ r \in Requests
      /\ Head(toAddon[conn]) = About("call", r)
      /\ toAddon[conn] \in Seq(Frame) /\ toAddon[conn] # <<>>
      /\ About("call", r) \in Elems(toAddon[conn])
  BY AddonReadsTyping, AddonRead, CallTyping DEF ReadCall, CallTypes
<1>2. ran[r] = 0 /\ req[r] # "idle" /\ Once(toAddon[conn], About("call", r))
      /\ \A d \in Conns : About("call", r) \in Elems(toAddon[d]) => d = conn
  BY <1>1 DEF Delivery
<1>3. ran' = [ran EXCEPT ![r] = 1]
  BY <1>1, <1>2 DEF ReadCall
<1>4. \A c \in Conns : toAddon'[c] = IF c = conn THEN Tail(toAddon[c]) ELSE toAddon[c]
  BY AddonReadsTyping DEF ReadCall, TypeOK
<1>5. About("call", r) \notin Elems(Tail(toAddon[conn]))
  BY <1>1, <1>2, OnceTail
<1>6. \A c \in Conns : About("call", r) \notin Elems(toAddon'[c])
  BY <1>2, <1>4, <1>5
<1>7. \A q \in Requests, c \in Conns :
        About("result", q) \in Elems(toServer'[c]) =>
          q = r \/ About("result", q) \in Elems(toServer[c])
  <2>1. PICK outcome \in {"result", "error"} : ToServerGains({About(outcome, r)})
    BY AddonGains
  <2> HIDE DEF r
  <2> QED
    BY <2>1, FrameKinds DEF ToServerGains
<1> HIDE DEF r
<1> QED
  BY <1>1, <1>2, <1>3, <1>6, <1>7

LEMMA InitDelivery == Init => Delivery /\ Answered
BY ElemsEmpty DEF Init, Delivery, Answered

LEMMA DeliveryStep == IInv /\ Next => Delivery'
<1> SUFFICES ASSUME IInv, Next PROVE Delivery'
  OBVIOUS
<1> USE DEF IInv, LinkInv
<1>1. ASSUME UNCHANGED ran, \A r \in Requests : req'[r] = "idle" => req[r] = "idle",
             \A c \in Conns, r \in Requests :
               /\ About("call", r) \in Elems(toAddon'[c]) => About("call", r) \in Elems(toAddon[c])
               /\ Once(toAddon[c], About("call", r)) => Once(toAddon'[c], About("call", r))
      PROVE  Delivery'
  BY <1>1 DEF Delivery
<1>2. CASE ReadCall
  <2>1. PICK r \in Requests :
          /\ ran[r] = 0 /\ req[r] # "idle"
          /\ ran' = [ran EXCEPT ![r] = 1]
          /\ \A c \in Conns : About("call", r) \notin Elems(toAddon'[c])
    BY <1>2, ReadCallEffect
  <2>2. req' = req
    BY <1>2, AddonLocal DEF AddonNext
  <2>3. \A q \in Requests : q # r => ran'[q] = ran[q]
    BY <2>1 DEF TypeOK
  <2>4. ran'[r] = 1
    BY <2>1 DEF TypeOK
  <2>5. \A c \in Conns, q \in Requests :
          /\ About("call", q) \in Elems(toAddon'[c]) => About("call", q) \in Elems(toAddon[c])
          /\ Once(toAddon[c], About("call", q)) => Once(toAddon'[c], About("call", q))
    BY <1>2, AddonLocal, AddonKeepsOnce DEF AddonNext
  <2> QED
    BY <2>1, <2>2, <2>3, <2>4, <2>5 DEF Delivery
<1>3. CASE AddonNext /\ ~ReadCall
  <2>1. ran' = ran
    BY <1>3 DEF AddonNext, Start, Stop, Reconnect, Connect, ConnectFails, OnConnected,
       ReadHelloOk, ReadPong, ReadSync, ReadPing, AddonPing, HelloTimeout, BridgeDisconnected
  <2>2. req' = req
    BY <1>3, AddonLocal
  <2>3. \A c \in Conns : Elems(toAddon'[c]) \subseteq Elems(toAddon[c])
    BY <1>3, AddonLocal
  <2> QED
    BY <1>1, <1>3, <2>1, <2>2, <2>3, AddonKeepsOnce
<1>4. ASSUME NEW c \in Conns, ServerNext(c) PROVE Delivery'
  <2>1. \A r \in Requests : req'[r] = "idle" => req[r] = "idle"
    BY <1>4, ServerSettles DEF Settle
  <2> QED
    BY <1>1, <1>4, <2>1, ServerLocal, ServerKeepsCalls
<1>5. ASSUME NEW r \in Requests, RequestTimeout(r) PROVE Delivery'
  BY <1>1, <1>5 DEF RequestTimeout, Settle
<1>6. ASSUME NEW r \in Requests, NEW c \in Conns, Request(r, c), ~IsReady(c) PROVE Delivery'
  BY <1>1, <1>6 DEF Request, TypeOK
<1>7. ASSUME NEW r \in Requests, NEW c \in Conns, Request(r, c), IsReady(c) PROVE Delivery'
  <2>1. /\ req[r] = "idle" /\ req' = [req EXCEPT ![r] = "waiting"] /\ ran' = ran
        /\ ServerSends(c, <<About("call", r)>>)
    BY <1>7 DEF Request
  <2>2. ran[r] = 0 /\ \A d \in Conns : About("call", r) \notin Elems(toAddon[d])
    BY <2>1 DEF Delivery
  <2>3. \A d \in Conns, q \in Requests :
          About("call", q) \in Elems(toAddon'[d]) =>
            About("call", q) \in Elems(toAddon[d]) \/ (q = r /\ d = c)
    BY <1>7, ServerGains, FrameKinds DEF ToAddonGains
  <2>4. \A d \in Conns, q \in Requests :
          Once(toAddon[d], About("call", q)) => Once(toAddon'[d], About("call", q))
    <3> SUFFICES ASSUME NEW d \in Conns, NEW q \in Requests, Once(toAddon[d], About("call", q))
                 PROVE  Once(toAddon'[d], About("call", q))
      OBVIOUS
    <3>1. <<About("call", r)>> \in Seq(Frame)
      BY SentTyping DEF CallTypes
    <3>2. CASE q = r
      BY <2>1, <2>2, <3>1, <3>2, SendKeepsOnce, OnceSmall
    <3>3. CASE q # r
      <4>1. About("call", q) \notin Elems(<<About("call", r)>>)
        BY <3>3, ElemsOfOne, FrameKinds
      <4> QED
        BY <2>1, <3>1, <4>1, SendKeepsOnce
    <3> QED
      BY <3>2, <3>3
  <2>5. \A d \in Conns : Once(toAddon[d], About("call", r))
    BY <2>2 DEF Once, Elems
  <2> QED
    BY <2>1, <2>2, <2>3, <2>4, <2>5 DEF Delivery, TypeOK
<1> QED
  BY <1>2, <1>3, <1>4, <1>5, <1>6, <1>7 DEF Next

LEMMA AnsweredStep == IInv /\ Next => Answered'
<1> SUFFICES ASSUME IInv, Next PROVE Answered'
  OBVIOUS
<1> USE DEF IInv, LinkInv
<1>1. ASSUME UNCHANGED ran,
             \A c \in Conns, r \in Requests :
               About("result", r) \in Elems(toServer'[c]) => About("result", r) \in Elems(toServer[c])
      PROVE  Answered'
  BY <1>1 DEF Answered
<1>2. CASE ReadCall
  <2>1. PICK r \in Requests :
          /\ ran' = [ran EXCEPT ![r] = 1]
          /\ \A q \in Requests, c \in Conns :
               About("result", q) \in Elems(toServer'[c]) =>
                 q = r \/ About("result", q) \in Elems(toServer[c])
    BY <1>2, ReadCallEffect
  <2>2. \A q \in Requests : ran'[q] = IF q = r THEN 1 ELSE ran[q]
    BY <2>1 DEF TypeOK
  <2> QED
    BY <2>1, <2>2 DEF Answered
<1>3. CASE OnConnected \/ ReadSync \/ ReadPing \/ AddonPing
  <2>1. UNCHANGED ran
    BY <1>3 DEF OnConnected, ReadSync, ReadPing, AddonPing
  <2>2. PICK F \in {{Plain("hello")}, {Plain("syncAck"), Plain("ping")}, {Plain("pong")},
                    {Plain("ping")}} : ToServerGains(F)
    BY <1>3, AddonGains
  <2>3. \A r \in Requests : About("result", r) \notin F
    BY <2>2, FrameKinds DEF LinkTypes, CallTypes
  <2> QED
    BY <1>1, <2>1, <2>2, <2>3 DEF ToServerGains
<1>4. CASE Start \/ Stop \/ Reconnect \/ ConnectFails \/ ReadHelloOk \/ ReadPong
           \/ HelloTimeout \/ BridgeDisconnected
  BY <1>1, <1>4 DEF Start, Stop, Reconnect, Connect, ConnectFails, ReadHelloOk, ReadPong,
     HelloTimeout, BridgeDisconnected
<1>5. ASSUME NEW c \in Conns, ServerNext(c) PROVE Answered'
  BY <1>1, <1>5, ServerLocal
<1>6. ASSUME NEW r \in Requests, RequestTimeout(r) \/ \E c \in Conns : Request(r, c)
      PROVE  Answered'
  BY <1>1, <1>6, CallerLocal
<1> QED
  BY <1>2, <1>3, <1>4, <1>5, <1>6 DEF Next, AddonNext

LEMMA InitIInv == Init => IInv
BY InitLink, InitDelivery DEF IInv

LEMMA NextIInv == IInv /\ [Next]_vars => IInv'
<1> SUFFICES ASSUME IInv, [Next]_vars PROVE IInv'
  OBVIOUS
<1>1. LinkInv'
  BY NextLink DEF IInv
<1>2. CASE UNCHANGED vars
  BY <1>1, <1>2 DEF IInv, Delivery, Answered, vars, reqVars
<1> QED
  BY <1>1, <1>2, DeliveryStep, AnsweredStep DEF IInv

\* The editor executes a request at most once: no retry, reconnection or late
\* delivery brings a call to it a second time.
THEOREM ExecutedAtMostOnce == Spec => []AtMostOnce
<1>1. IInv => AtMostOnce
  BY DEF IInv, Delivery, AtMostOnce
<1> QED
  BY InitIInv, NextIInv, <1>1, PTL DEF Spec

LEMMA ContractStep == IInv /\ [Next]_vars => [Contract!Next]_(Contract!vars)
<1> SUFFICES ASSUME IInv, [Next]_vars PROVE [Contract!Next]_(Contract!vars)
  OBVIOUS
<1> DEFINE executed == {r \in Requests : ran[r] > 0}
<1>1. ASSUME UNCHANGED <<req, ran>> PROVE UNCHANGED Contract!vars
  BY <1>1 DEF Contract!vars
<1>2. CASE ReadCall
  <2>1. PICK r \in Requests : /\ ran[r] = 0 /\ req[r] # "idle"
                              /\ ran' = [ran EXCEPT ![r] = 1]
    BY <1>2, ReadCallEffect
  <2>2. req' = req
    BY <1>2, AddonLocal DEF IInv, LinkInv, AddonNext
  <2>3. r \notin executed /\ executed' = executed \cup {r}
    BY <2>1 DEF IInv, LinkInv, TypeOK
  <2>4. Contract!Execute(r)
    BY <2>1, <2>2, <2>3 DEF Contract!Execute
  <2> QED
    BY <2>4 DEF Contract!Next
<1>3. CASE AddonNext /\ ~ReadCall
  <2>1. UNCHANGED <<req, ran>>
    BY <1>3, AddonLocal DEF IInv, LinkInv, AddonNext, Start, Stop, Reconnect, Connect,
       ConnectFails, OnConnected, ReadHelloOk, ReadPong, ReadSync, ReadPing, AddonPing,
       HelloTimeout, BridgeDisconnected
  <2> QED
    BY <1>1, <2>1
<1>4. ASSUME NEW R \in SUBSET Requests, UNCHANGED ran,
             \A r \in R : req[r] \in {"idle", "waiting"},
             req' = [r \in Requests |-> IF r \in R THEN "rejected" ELSE req[r]]
      PROVE  Contract!Next
  <2>1. Contract!Reject(R)
    BY <1>4 DEF Contract!Reject
  <2> QED
    BY <2>1 DEF Contract!Next
<1>5. ASSUME NEW c \in Conns, ServerNext(c) PROVE [Contract!Next]_(Contract!vars)
  <2>1. UNCHANGED ran
    BY <1>5, ServerLocal DEF IInv, LinkInv
  <2>2. CASE req' = req
    BY <1>1, <2>1, <2>2
  <2>3. ASSUME NEW R \in SUBSET Requests, \A r \in R : req[r] = "waiting", Settle(R, "rejected")
        PROVE  Contract!Next
    BY <1>4, <2>1, <2>3 DEF Settle
  <2>4. ASSUME NEW r \in Requests, req[r] = "waiting", Settle({r}, "resolved"),
               About("result", r) \in Elems(toServer[c])
        PROVE  Contract!Next
    <3>1. r \in executed
      BY <2>4 DEF IInv, Answered
    <3>2. req' = [req EXCEPT ![r] = "resolved"]
      BY <2>4 DEF Settle, IInv, LinkInv, TypeOK
    <3>3. Contract!Resolve(r)
      BY <2>1, <2>4, <3>1, <3>2 DEF Contract!Resolve
    <3> QED
      BY <3>3 DEF Contract!Next
  <2> QED
    BY <1>5, <2>2, <2>3, <2>4, ServerSettles DEF IInv
<1>6. ASSUME NEW r \in Requests, RequestTimeout(r) PROVE Contract!Next
  <2>1. UNCHANGED ran /\ Settle({r}, "rejected") /\ req[r] = "waiting"
    BY <1>6 DEF RequestTimeout, IInv, LinkInv, Waiting
  <2> QED
    BY <1>4, <2>1 DEF Settle
<1>7. ASSUME NEW r \in Requests, NEW c \in Conns, Request(r, c) PROVE Contract!Next
  <2>1. UNCHANGED ran /\ req[r] = "idle"
    BY <1>7 DEF Request
  <2>2. CASE IsReady(c)
    <3>1. Contract!Issue(r)
      BY <1>7, <2>1, <2>2 DEF Request, Contract!Issue
    <3> QED
      BY <3>1 DEF Contract!Next
  <2>3. CASE ~IsReady(c)
    <3>1. req' = [q \in Requests |-> IF q \in {r} THEN "rejected" ELSE req[q]]
      BY <1>7, <2>3 DEF Request, IInv, LinkInv, TypeOK
    <3> QED
      BY <1>4, <2>1, <3>1
  <2> QED
    BY <2>2, <2>3
<1>8. CASE UNCHANGED vars
  BY <1>1, <1>8 DEF vars, reqVars
<1> QED
  BY <1>2, <1>3, <1>5, <1>6, <1>7, <1>8 DEF Next

\* The bridge keeps the contract of request(): handshakes, timeouts, closes and
\* reconnections are all either invisible to a caller or a step it was promised.
THEOREM BridgeImplementsContract == Spec => ImplementsContract
<1>1. Init => Contract!Init
  BY DEF Init, Contract!Init
<1> QED
  BY InitIInv, NextIInv, <1>1, ContractStep, PTL DEF Spec, ImplementsContract, Contract!Spec
=============================================================================
