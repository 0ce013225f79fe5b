---------------------------- MODULE OneShotExecution ----------------------------
(***************************************************************************)
(* What the private live-run store promises of each run: one request is    *)
(* authorized for it, its worker starts at most once, only then and never  *)
(* after a response, and one final response closes it.  A response that    *)
(* says "returned" had a worker, one that says "refused" never had one and *)
(* never will.                                                             *)
(***************************************************************************)
CONSTANTS Run, Request, ForRun, Outcome, Null

VARIABLES
  intent,     \* the request authorized for each run, or Null
  started,    \* runs whose worker was started
  response    \* how each run was answered, or Null

vars == <<intent, started, response>>

Init ==
  /\ intent = [r \in Run |-> Null]
  /\ started = {}
  /\ response = [r \in Run |-> Null]

Authorize(q) ==
  /\ intent[ForRun[q]] = Null
  /\ intent' = [intent EXCEPT ![ForRun[q]] = q]
  /\ UNCHANGED <<started, response>>

Start(r) ==
  /\ intent[r] # Null /\ response[r] = Null /\ r \notin started
  /\ started' = started \cup {r}
  /\ UNCHANGED <<intent, response>>

Respond(r, outcome) ==
  /\ intent[r] # Null /\ response[r] = Null
  /\ outcome = "returned" => r \in started
  /\ outcome = "refused" => r \notin started
  /\ response' = [response EXCEPT ![r] = outcome]
  /\ UNCHANGED <<intent, started>>

Next ==
  \/ \E q \in Request : Authorize(q)
  \/ \E r \in Run : Start(r) \/ \E outcome \in Outcome : Respond(r, outcome)

Spec == Init /\ [][Next]_vars
===============================================================================
