--------------------------- MODULE StatementLifecycle ---------------------------
(***************************************************************************)
(* What a session promises about its statements to a client that polls     *)
(* them, with no goroutine, context or lock in sight: ids are handed out   *)
(* densely from 0, a statement moves along                                 *)
(*                                                                         *)
(*     none -> waiting -> running -> available | error                     *)
(*                |          |                                             *)
(*                +----------+----> cancelled                              *)
(*                                                                         *)
(* and its output appears in the very step in which it reaches its final   *)
(* state, once and for all.  Session implements this module.               *)
(***************************************************************************)
EXTENDS Naturals

CONSTANT StmtId     \* the ids a statement of the session can have

VARIABLES state,    \* state[i]: what GET .../statements/i reports, or "none"
          output    \* output[i]: whose outcome the statement's output carries

lifecycleVars == <<state, output>>

Init ==
  /\ state = [i \in StmtId |-> "none"]
  /\ output = [i \in StmtId |-> "none"]

\* Submission takes the smallest id not yet in use.
Submit(i) ==
  /\ state[i] = "none"
  /\ \A j \in StmtId : j < i => state[j] # "none"
  /\ state' = [state EXCEPT ![i] = "waiting"]
  /\ UNCHANGED output

Start(i) ==
  /\ state[i] = "waiting"
  /\ state' = [state EXCEPT ![i] = "running"]
  /\ UNCHANGED output

\* Only a running statement ends by itself, with the outcome of its query.
Complete(i) ==
  /\ state[i] = "running"
  /\ \E final \in {"available", "error"} :
       /\ state' = [state EXCEPT ![i] = final]
       /\ output' = [output EXCEPT ![i] = IF final = "available" THEN "ok" ELSE "error"]

Cancel(i) ==
  /\ state[i] \in {"waiting", "running"}
  /\ state' = [state EXCEPT ![i] = "cancelled"]
  /\ output' = [output EXCEPT ![i] = "cancelled"]

Next ==
  \E i \in StmtId : Submit(i) \/ Start(i) \/ Complete(i) \/ Cancel(i)

Spec == Init /\ [][Next]_lifecycleVars
=============================================================================
