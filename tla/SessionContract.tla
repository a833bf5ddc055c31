--------------------------- MODULE SessionContract ---------------------------
(***************************************************************************)
(* What AddonSession.request() promises its callers, independently of the  *)
(* handshakes, sockets, timers and reconnections underneath it: a request  *)
(* is settled at most once, it is resolved only with the outcome of an     *)
(* execution in the editor, and the editor executes it at most once.       *)
(*                                                                         *)
(* A rejection says nothing about the execution.  The addon may have run   *)
(* the request before its answer was lost, and it may still run it after   *)
(* the caller has been told that it timed out.                             *)
(***************************************************************************)
CONSTANT Requests

VARIABLES req,      \* what the caller of request() has seen of it so far
          executed  \* the requests that the editor has executed

vars == <<req, executed>>

Init ==
  /\ req = [r \in Requests |-> "idle"]
  /\ executed = {}

\* request() is called and returns a pending promise.
Issue(r) ==
  /\ req[r] = "idle"
  /\ req' = [req EXCEPT ![r] = "waiting"]
  /\ UNCHANGED executed

\* The addon's request handler runs; the caller may have given up already.
Execute(r) ==
  /\ req[r] # "idle"
  /\ r \notin executed
  /\ executed' = executed \cup {r}
  /\ UNCHANGED req

Resolve(r) ==
  /\ req[r] = "waiting"
  /\ r \in executed
  /\ req' = [req EXCEPT ![r] = "resolved"]
  /\ UNCHANGED executed

\* One event can reject many requests: the close of the session they wait on.
Reject(R) ==
  /\ \A r \in R : req[r] \in {"idle", "waiting"}
  /\ req' = [r \in Requests |-> IF r \in R THEN "rejected" ELSE req[r]]
  /\ UNCHANGED executed

Next ==
  \/ \E r \in Requests : Issue(r) \/ Execute(r) \/ Resolve(r)
  \/ \E R \in SUBSET Requests : Reject(R)

Spec == Init /\ [][Next]_vars
=============================================================================
