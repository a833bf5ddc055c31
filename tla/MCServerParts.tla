--------------------------- MODULE MCServerParts ---------------------------
(***************************************************************************)
(* Four parts around the MCP server for TLC: UnifiedServer, FrameCodec,    *)
(* ObservedLogs and ExternalPlay.  They share no state, so a behaviour is  *)
(* one of a single part, and the others rest in their initial states.      *)
(***************************************************************************)
EXTENDS UnifiedServer, ExternalPlay

CONSTANTS
  Requests, Junk, HeaderBytes, MaxFrame, Sizes, Growth, MaxJunk,
  Limit, RingSize, MaxLines, MaxClock

\* The frame that carries an error fits, and no answer outgrows what is modelled
\* before it outgrows the limit.
ASSUME CodecAssumption ==
  /\ Junk \notin Requests
  /\ HeaderBytes \in Nat \ {0} /\ MaxFrame \in Nat
  /\ Sizes \subseteq Nat /\ Growth \subseteq Nat
  /\ \E n \in Sizes : n <= MaxFrame
  /\ \A n \in Sizes, g \in Growth : n + g <= MaxFrame => n + g \in Sizes

ASSUME LogsAssumption ==
  /\ Limit \in Nat /\ RingSize \in Nat /\ MaxLines \in Nat
  /\ MaxClock \in Nat \ {0}

VARIABLES
  part,
  peer, written, arrived, decoded, handled, open, request, swallowed,
  console, file, lines, clock, captures, plays, clear, since, cleared

Codec == INSTANCE FrameCodec
Logs == INSTANCE ObservedLogs

codecVars == <<peer, written, arrived, decoded, handled, open, request, swallowed>>
logsVars == <<console, file, lines, clock, captures, plays, clear, since, cleared>>

PartsInit ==
  /\ part \in {"server", "codec", "logs", "play"}
  /\ Init /\ Codec!Init /\ Logs!Init /\ PlayInit
  /\ part # "server" => \A k \in Calls : kind[k] = "tool"
  /\ part # "codec" => peer = "addon"
  /\ part # "logs" => captures

PartsNext ==
  /\ UNCHANGED part
  /\ \/ part = "server" /\ Next /\ UNCHANGED <<codecVars, logsVars, playVars>>
     \/ part = "codec" /\ Codec!Next /\ UNCHANGED <<vars, logsVars, playVars>>
     \/ part = "logs" /\ Logs!Next /\ UNCHANGED <<vars, codecVars, playVars>>
     \/ part = "play" /\ PlayNext /\ UNCHANGED <<vars, codecVars, logsVars>>

\* The fair actions of a part that rests are disabled.
PartsSpec ==
  /\ PartsInit /\ [][PartsNext]_<<part, vars, codecVars, logsVars, playVars>>
  /\ Fairness /\ Codec!Fairness

\* The variables of each part keep their types.
PartsTypeOK == TypeOK /\ Codec!TypeOK /\ Logs!TypeOK /\ PlayTypeOK

DecodedAsWritten == Codec!DecodedAsWritten
LimitsAgree == Codec!LimitsAgree
AnswersReachProxies == Codec!AnswersReachProxies

ClearedStaysCleared == Logs!ClearedStaysCleared
ErrorsSurface == Logs!ErrorsSurface
=============================================================================
