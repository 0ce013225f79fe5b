----------------------------- MODULE MCLedgerStore -----------------------------
(* Two sessions, one of them with a recovery beside the user's operation, and *)
(* the kinds of events that meet in the ledger: an authorization with its      *)
(* attempt, and an exchange that two sessions record under one identifier.     *)
EXTENDS LedgerStore, TLC

CONSTANTS s1, s2, t1, u1, t2, genesis, authorized, attempt, exchange, retold, accepted

Owners == [t \in Task |-> IF t = t2 THEN s2 ELSE s1]
Identities == [e \in Event |-> IF e = retold THEN exchange ELSE e]
Batches == {<<authorized, attempt>>, <<exchange>>, <<retold, accepted>>}
Exchanges == {<<exchange>>, <<retold, accepted>>}
SeedLog == <<genesis>>

Follows(log, e) ==
  e \in {exchange, retold} => attempt \in Elements(log)
===============================================================================
