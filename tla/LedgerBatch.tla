------------------------------ MODULE LedgerBatch ------------------------------
(* What becomes of a ledger when a batch of events is appended to it: the      *)
(* events one after the other, as the store's clients and what it promises to  *)
(* them both understand it.  Constant operators, without state.                *)
EXTENDS Naturals, Sequences

Elements(log) == {log[i] : i \in DOMAIN log}

\* appendLedgerEvent: an exact repetition changes nothing.
Taken(log, e) == IF e \in Elements(log) THEN log ELSE Append(log, e)

\* appendWorldstateLedgerEvents: each event on what those before it have left.
Candidate(log, b) ==
  LET after[n \in 0 .. Len(b)] == IF n = 0 THEN log ELSE Taken(after[n - 1], b[n])
  IN after[Len(b)]
===============================================================================
