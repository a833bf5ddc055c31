-------------------------- MODULE SessionRegistry --------------------------
(***************************************************************************)
(* What a server promises about the editor session that tool calls go to,  *)
(* whether it is the daemon (daemon/index.ts) or the server that speaks    *)
(* MCP itself (index.ts): a session that becomes ready takes over at once, *)
(* nothing else moves the calls away from a session that is ready, and     *)
(* when the active one leaves another ready one takes its place, if any.   *)
(* A session that has left never comes back.                               *)
(***************************************************************************)
CONSTANTS Sessions, NoSession

VARIABLES
  ready,   \* the sessions that have completed their handshake and are open
  gone,    \* the sessions that have closed
  active   \* the session that calls go to

registry == <<ready, gone, active>>

Init ==
  /\ ready = {}
  /\ gone = {}
  /\ active = NoSession

Promote(s) ==
  /\ s \notin ready \cup gone
  /\ ready' = ready \cup {s}
  /\ active' = s
  /\ UNCHANGED gone

\* The sessions that may be active once the ready ones are those of rest.
Fallbacks(rest) == IF rest = {} THEN {NoSession} ELSE rest

Leave(s) ==
  /\ s \notin gone
  /\ ready' = ready \ {s}
  /\ gone' = gone \cup {s}
  /\ active' \in (IF active = s THEN Fallbacks(ready') ELSE {active})

Next == \E s \in Sessions : Promote(s) \/ Leave(s)

Spec == Init /\ [][Next]_registry
=============================================================================
