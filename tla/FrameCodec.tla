----------------------------- MODULE FrameCodec -----------------------------
(***************************************************************************)
(* Length-prefixed frames between an addon, a server and a proxy: the      *)
(* codec of the server (transport/protocol.ts), the one of the addon       *)
(* (bridge_protocol.gd), and what the receivers do with a frame that       *)
(* cannot be decoded or encoded.                                           *)
(*                                                                         *)
(* A frame is what the codecs tell apart: the size of its payload and      *)
(* whether it is a JSON object.  A socket delivers the bytes of its frames *)
(* in order and cuts them anywhere; each delivery is one push().  Three    *)
(* hops matter: "call" from the server to the addon and "answer" back, on  *)
(* one socket, and "relay", on which the daemon wraps the answer once more *)
(* for a proxy.                                                            *)
(***************************************************************************)
EXTENDS Naturals, Sequences, SequencesExt

CONSTANTS
  Requests,     \* requests that the daemon relays
  Junk,         \* what a foreign program writes
  HeaderBytes,  \* bytes of the length prefix, 4
  MaxFrame,     \* MAX_FRAME_BYTES
  Sizes,        \* payload sizes around MaxFrame; the smallest is an error's
  Growth,       \* by how much an answer grows when it is wrapped again
  MaxJunk       \* bound: frames of a foreign program

VARIABLES
  peer,      \* who is at the other end of the bridge: "addon" or "foreign"
  written,   \* the frames written on each hop
  arrived,   \* bytes of them that the reader has got
  decoded,   \* frames that the reader has taken out of its buffer
  handled,   \* what the frames it handled are about
  open,      \* the sockets that are not destroyed
  request,   \* pendingRequests of the session, and what became of them
  swallowed  \* answers that ControlServer.send() could not encode

vars == <<peer, written, arrived, decoded, handled, open, request, swallowed>>

Hops == {"call", "answer", "relay"}
Socket(h) == IF h = "relay" THEN "control" ELSE "bridge"
Frame == [of : Requests \cup {Junk}, size : Sizes, object : BOOLEAN]
Message(k, n) == [of |-> k, size |-> n, object |-> TRUE]
ErrorSize == CHOOSE n \in Sizes : \A m \in Sizes : n <= m

\* Bytes up to the end of frame i of a stream.
Bytes(stream, i) ==
  LET sum[n \in 0..Len(stream)] ==
        IF n = 0 THEN 0 ELSE sum[n - 1] + HeaderBytes + stream[n].size
  IN  sum[i]

Init ==
  /\ peer \in {"addon", "foreign"}
  /\ written = [h \in Hops |-> <<>>]
  /\ arrived = [h \in Hops |-> 0]
  /\ decoded = [h \in Hops |-> 0]
  /\ handled = [h \in Hops |-> <<>>]
  /\ open = {"bridge", "control"}
  /\ request = [k \in Requests |-> "idle"]
  /\ swallowed = {}

-----------------------------------------------------------------------------
(* The codecs.  A decoder gets its buffer as the frames after the first i,  *)
(* and how many bytes of the stream have come.                              *)

\* The frame after the first j has come in full.
Complete(stream, j, bytes) == j < Len(stream) /\ bytes >= Bytes(stream, j + 1)

\* Mutant of Throws: the limit is one byte less than the encoder's.
ThrowsAtLimit(stream, j, bytes) ==
  /\ j < Len(stream)
  /\ bytes >= Bytes(stream, j) + HeaderBytes
  /\ \/ stream[j + 1].size >= MaxFrame
     \/ bytes >= Bytes(stream, j + 1) /\ ~stream[j + 1].object

\* The length in its header is above the limit, or its payload is not an object.
Throws(stream, j, bytes) ==
  /\ j < Len(stream)
  /\ bytes >= Bytes(stream, j) + HeaderBytes
  /\ \/ stream[j + 1].size > MaxFrame
     \/ bytes >= Bytes(stream, j + 1) /\ ~stream[j + 1].object

\* Mutant of ServerDecodes: one frame for each push.
ServerDecodesOne(stream, i, bytes) ==
  LET j == IF Complete(stream, i, bytes) THEN i + 1 ELSE i
  IN  [upto |-> j, failed |-> Throws(stream, i, bytes)]

\* FrameDecoder.push(): the loop ends at a frame that has not come in full, or
\* throws.
ServerDecodes(stream, i, bytes) ==
  LET Ends(j) == ~Complete(stream, j, bytes) \/ Throws(stream, j, bytes)
      end == CHOOSE j \in i..Len(stream) : Ends(j) /\ \A m \in i..j - 1 : ~Ends(m)
  IN  [upto |-> end, failed |-> Throws(stream, end, bytes)]

\* decode_messages(): no limit, and a payload that is not an object is skipped.
AddonDecodes(stream, i, bytes) ==
  CHOOSE j \in i..Len(stream) :
    ~Complete(stream, j, bytes) /\ \A m \in i..j - 1 : Complete(stream, m, bytes)

\* The messages among frames i+1..j of a stream.
Messages(stream, i, j) ==
  LET upTo[n \in i..Len(stream)] ==
        IF n = i THEN <<>>
        ELSE IF stream[n].object THEN Append(upTo[n - 1], stream[n].of)
        ELSE upTo[n - 1]
  IN  upTo[j]

\* encodeMessage() throws above the limit; the addon's encode_message() does not.
Encodable(n) == n <= MaxFrame

Write(h, f) ==
  written' = IF Socket(h) \in open THEN [written EXCEPT ![h] = Append(@, f)] ELSE written

-----------------------------------------------------------------------------
(* The session and the addon *)

\* Mutant of Settles: the requests that a closed session held are forgotten.
SettlesAnswered(answers, closed) ==
  request' = [k \in Requests |->
    IF request[k] # "pending" THEN request[k]
    ELSE IF k \in ToSet(answers) THEN "resolved"
    ELSE IF closed THEN "idle" ELSE "pending"]

\* handleResponse() for the answers of a push, or close() when the socket is
\* destroyed.
Settles(answers, closed) ==
  request' = [k \in Requests |->
    IF request[k] # "pending" THEN request[k]
    ELSE IF k \in ToSet(answers) THEN "resolved"
    ELSE IF closed THEN "rejected" ELSE "pending"]

\* request() on a session that is ready, which a foreign program never makes it:
\* a frame that is too long rejects the promise at once.
SendRequest(k) ==
  /\ peer = "addon"
  /\ request[k] = "idle"
  /\ "bridge" \in open
  /\ \E n \in Sizes :
       IF Encodable(n)
       THEN /\ request' = [request EXCEPT ![k] = "pending"]
            /\ Write("call", Message(k, n))
       ELSE /\ request' = [request EXCEPT ![k] = "rejected"]
            /\ UNCHANGED written
  /\ UNCHANGED <<peer, arrived, decoded, handled, open, swallowed>>

\* How many bytes may be next on hop h.
Cuts(h) == 1..Bytes(written[h], Len(written[h])) - arrived[h]

\* A delivery of n more bytes on hop h.
Delivers(h, n) ==
  /\ Socket(h) \in open
  /\ arrived' = [arrived EXCEPT ![h] = @ + n]

\* poll() of the addon: what has come is decoded, each message is handled.
AddonReads ==
  \E n \in Cuts("call") :
    /\ Delivers("call", n)
    /\ LET stream == written["call"]
           i == decoded["call"]
           j == AddonDecodes(stream, i, arrived'["call"])
       IN /\ decoded' = [decoded EXCEPT !["call"] = j]
          /\ handled' = [handled EXCEPT !["call"] = @ \o Messages(stream, i, j)]
    /\ UNCHANGED <<peer, written, open, request, swallowed>>

\* The addon answers a request it has handled, whatever the size of the answer.
AddonAnswers(k) ==
  /\ peer = "addon"
  /\ k \in ToSet(handled["call"])
  /\ \A i \in DOMAIN written["answer"] : written["answer"][i].of # k
  /\ \E n \in Sizes : Write("answer", Message(k, n))
  /\ "bridge" \in open
  /\ UNCHANGED <<peer, arrived, decoded, handled, open, request, swallowed>>

\* The bridge leads to another program, at either end: it frames anything.
ForeignWrites(h) ==
  /\ peer = "foreign"
  /\ Socket(h) \in open
  /\ Len(written[h]) < MaxJunk
  /\ \E n \in Sizes : Write(h, [of |-> Junk, size |-> n, object |-> FALSE])
  /\ UNCHANGED <<peer, arrived, decoded, handled, open, request, swallowed>>

\* What a server's reader on hop h makes of its buffer.
ServerPush(h, n) == ServerDecodes(written[h], decoded[h], arrived[h] + n)

\* handleData() on hop h: a decoder that throws costs the socket, and the frames
\* that the same push had decoded.
ServerReads(h, n) ==
  LET push == ServerPush(h, n) IN
  /\ Delivers(h, n)
  /\ decoded' = [decoded EXCEPT ![h] = push.upto]
  /\ IF push.failed
     THEN open' = open \ {Socket(h)} /\ UNCHANGED handled
     ELSE /\ handled' = [handled EXCEPT ![h] =
               @ \o Messages(written[h], decoded[h], push.upto)]
          /\ UNCHANGED open

SessionReads ==
  \E n \in Cuts("answer") :
    /\ ServerReads("answer", n)
    /\ Settles(handled'["answer"], ServerPush("answer", n).failed)
    /\ UNCHANGED <<peer, written, swallowed>>

-----------------------------------------------------------------------------
(* The daemon and the proxy *)

\* send() catches what encodeMessage() throws: the proxy gets nothing.
Send(k, n) ==
  IF Encodable(n)
  THEN Write("relay", Message(k, n)) /\ UNCHANGED swallowed
  ELSE swallowed' = swallowed \cup {k} /\ UNCHANGED written

\* The size of the answer to k.
AnswerSize(k) ==
  LET i == CHOOSE i \in DOMAIN written["answer"] : written["answer"][i].of = k
  IN  written["answer"][i].size

\* handleAddonRequest() after its await: the result in a response of the daemon,
\* or an error.
Relays(k) ==
  /\ request[k] \in {"resolved", "rejected"}
  /\ request' = [request EXCEPT ![k] = "relayed"]
  /\ IF request[k] = "rejected" THEN Send(k, ErrorSize)
     ELSE \E g \in Growth : Send(k, AnswerSize(k) + g)
  /\ UNCHANGED <<peer, arrived, decoded, handled, open>>

ProxyReads ==
  \E n \in Cuts("relay") :
    /\ ServerReads("relay", n)
    /\ UNCHANGED <<peer, written, request, swallowed>>

Next ==
  \/ \E k \in Requests : SendRequest(k) \/ AddonAnswers(k) \/ Relays(k)
  \/ \E h \in {"call", "answer"} : ForeignWrites(h)
  \/ AddonReads \/ SessionReads \/ ProxyReads

Spec == Init /\ [][Next]_vars

\* Sockets deliver, the addon answers in time, promises are continued.  What
\* happens when an answer is late is the subject of BridgeLink.
Fairness ==
  /\ WF_vars(AddonReads) /\ WF_vars(SessionReads) /\ WF_vars(ProxyReads)
  /\ \A k \in Requests : WF_vars(AddonAnswers(k)) /\ WF_vars(Relays(k))

-----------------------------------------------------------------------------
(* Properties *)

\* Frames of a stream that have come in full.
Whole(h) ==
  CHOOSE i \in 0..Len(written[h]) :
    /\ Bytes(written[h], i) <= arrived[h]
    /\ i = Len(written[h]) \/ Bytes(written[h], i + 1) > arrived[h]

\* Decoders take out only what has come, and a frame once.
TypeOK ==
  /\ peer \in {"addon", "foreign"}
  /\ written \in [Hops -> Seq(Frame)]
  /\ \A h \in Hops : /\ arrived[h] \in 0..Bytes(written[h], Len(written[h]))
                     /\ decoded[h] \in 0..Whole(h)
                     /\ handled[h] \in Seq(Requests)
                     /\ IsInjective(handled[h])
  /\ open \subseteq {"bridge", "control"}
  /\ request \in [Requests -> {"idle", "pending", "resolved", "rejected", "relayed"}]
  /\ swallowed \subseteq Requests

\* However the bytes are cut, an open socket has handled every message that has
\* come in full, in order; a destroyed one has handled a prefix of them.
DecodedAsWritten ==
  \A h \in Hops :
    LET all == Messages(written[h], 0, Whole(h)) IN
    IF Socket(h) \in open THEN handled[h] = all ELSE IsPrefix(handled[h], all)

\* The limits of the encoder and the decoder agree: the control socket is never
\* destroyed, and the bridge to an addon only over an answer above the limit.
LimitsAgree ==
  /\ "control" \in open
  /\ peer = "addon" /\ "bridge" \notin open =>
       \E i \in DOMAIN written["answer"] : ~Encodable(written["answer"][i].size)

\* A relayed request is answered, also when its own answer or another one costs
\* the bridge, unless the answer fits the bridge and not the wrapping around it.
AnswersReachProxies ==
  \A k \in Requests :
    request[k] = "pending" ~>
      \/ k \in ToSet(handled["relay"])
      \/ k \in swallowed /\ Encodable(AnswerSize(k))
=============================================================================
