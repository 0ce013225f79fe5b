----------------------------- MODULE OneShotUpdate -----------------------------
(***************************************************************************)
(* What the artifact-promotion server promises about the configured target *)
(* ref: each promotion moves it at most once, from exactly its base to     *)
(* exactly its candidate, and only while no receipt has closed the         *)
(* promotion; a receipt is final, and it says "promoted" only when the ref *)
(* has named the candidate.  Anybody else may move the ref at any time.    *)
(***************************************************************************)
CONSTANTS
  Promotion, Value,
  Base, Candidate,     \* functions from promotions to the values they name
  Outcome, Null

VARIABLES
  ref,        \* what the target ref names
  held,       \* every value it has named
  applied,    \* promotions that moved it
  receipt     \* the receipt that closed each promotion, or Null

vars == <<ref, held, applied, receipt>>

Init ==
  /\ ref \in Value
  /\ held = {ref}
  /\ applied = {}
  /\ receipt = [p \in Promotion |-> Null]

Elsewhere(v) ==
  /\ ref' = v
  /\ held' = held \cup {v}
  /\ UNCHANGED <<applied, receipt>>

Apply(p) ==
  /\ receipt[p] = Null /\ p \notin applied
  /\ ref = Base[p]
  /\ ref' = Candidate[p]
  /\ held' = held \cup {ref'}
  /\ applied' = applied \cup {p}
  /\ UNCHANGED receipt

Close(p, outcome) ==
  /\ receipt[p] = Null
  /\ outcome = "promoted" => Candidate[p] \in held
  /\ receipt' = [receipt EXCEPT ![p] = outcome]
  /\ UNCHANGED <<ref, held, applied>>

Next ==
  \/ \E v \in Value : Elsewhere(v)
  \/ \E p \in Promotion : Apply(p) \/ \E outcome \in Outcome : Close(p, outcome)

Spec == Init /\ [][Next]_vars
===============================================================================
