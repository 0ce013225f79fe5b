------------------------------- MODULE AtomicLog -------------------------------
(* What the ledger store and its transactions promise to a client: one log,   *)
(* to which a batch of events is appended whole, at one moment, decided by     *)
(* the log of that moment; and a reset that starts the log again.              *)
EXTENDS LedgerBatch

CONSTANTS Task, Event, Batch, Seed, Null,
          Admits(_, _)      \* what the kernel accepts after a log

VARIABLES
  log,                      \* the ledger, or Null before there is one
  wanted                    \* the batch a task has asked for, or Null

vars == <<log, wanted>>

Init == log = Null /\ wanted = [t \in Task |-> Null]

Create == log = Null /\ log' = Seed /\ UNCHANGED wanted

Ask(t, b) == wanted[t] = Null /\ wanted' = [wanted EXCEPT ![t] = b] /\ UNCHANGED log

AppendBatch(t) ==
  /\ log # Null /\ wanted[t] # Null
  /\ Admits(log, wanted[t])
  /\ log' = Candidate(log, wanted[t])
  /\ wanted' = [wanted EXCEPT ![t] = Null]

\* Refused by the kernel, beaten by others too often, an error, a page closed.
GiveUp(T) == T # {} /\ wanted' = [t \in Task |-> IF t \in T THEN Null ELSE wanted[t]] /\ UNCHANGED log

Restart == log # Null /\ log' = Seed /\ UNCHANGED wanted

Next ==
  \/ Create \/ Restart
  \/ \E t \in Task : AppendBatch(t) \/ \E b \in Batch : Ask(t, b)
  \/ \E T \in SUBSET Task : GiveUp(T)

Spec == Init /\ [][Next]_vars
===============================================================================
