---------------------------- MODULE SessionContract ----------------------------
(***************************************************************************)
(* What a session is for the manager that holds it: a state, a client that *)
(* is open or not, whether a Close is at work, and a number of unfinished  *)
(* statements.  It is the seam between the two halves of the gateway's     *)
(* model.  Session, with its goroutines and its lock, keeps this contract, *)
(* and so does every session of Registry, which knows no more of a session *)
(* than this: whatever the manager does to a session is something a        *)
(* session can go through.                                                 *)
(***************************************************************************)
EXTENDS Naturals

VARIABLES
  state,      \* its State, "none" before it exists
  open,       \* its client is not closed
  closing,    \* a Close keeps the session's lock and waits for client.Close()
  unfinished, \* how many of its statements wait or run
  published   \* has the POST that created it made it idle?

contractVars == <<state, open, closing, unfinished, published>>

Terminated == {"dead", "shutting_down"}

\* What changes a session waits for its lock.
Exists == state # "none" /\ ~closing

Init ==
  /\ \/ state = "none" /\ ~open
     \/ state = "starting" /\ open
  /\ ~closing
  /\ unfinished = 0
  /\ ~published

Create ==
  /\ state = "none"
  /\ state' = "starting"
  /\ open' = TRUE
  /\ UNCHANGED <<closing, unfinished, published>>

\* Once, and whatever has become of the session: the one step, with Submit, that
\* brings a terminated session back.
Publish ==
  /\ Exists
  /\ ~published
  /\ published' = TRUE
  /\ state' = "idle"
  /\ UNCHANGED <<open, closing, unfinished>>

Submit ==
  /\ Exists
  /\ state' = "busy"
  /\ unfinished' = unfinished + 1
  /\ UNCHANGED <<open, closing, published>>

\* A statement ends or is cancelled; the last one makes a busy session idle.
EndStatement ==
  /\ Exists
  /\ unfinished > 0
  /\ unfinished' = unfinished - 1
  /\ state' = IF state = "busy" /\ unfinished = 1 THEN "idle" ELSE state
  /\ UNCHANGED <<open, closing, published>>

\* The session reads shutting_down while its client is being closed ...
CloseBegins ==
  /\ Exists
  /\ state \notin Terminated
  /\ open
  /\ state' = "shutting_down"
  /\ closing' = TRUE
  /\ UNCHANGED <<open, unfinished, published>>

\* ... and it is the end of that, should it come, which makes it dead.
CloseEnds ==
  /\ closing
  /\ state' = "dead"
  /\ open' = FALSE
  /\ closing' = FALSE
  /\ UNCHANGED <<unfinished, published>>

\* The Close of a session that was brought back panics half-way.
CloseAgain ==
  /\ Exists
  /\ state \notin Terminated
  /\ ~open
  /\ state' = "shutting_down"
  /\ UNCHANGED <<open, closing, unfinished, published>>

Next ==
  \/ Create \/ Publish \/ Submit \/ EndStatement
  \/ CloseBegins \/ CloseEnds \/ CloseAgain

Spec == Init /\ [][Next]_contractVars
=============================================================================
