-------------------------- MODULE MCDelegationSession --------------------------
EXTENDS DelegationSession, TLC
CONSTANTS s1, s2, t1, u1, t2
Owners == [t \in Task |-> IF t = t2 THEN s2 ELSE s1]
Loaders == [s \in Session |-> IF s = s1 THEN u1 ELSE t2]
Adopted == <<[type |-> "accepted", sequence |-> 0]>>
Quiet == OfType(ledger, "source") = {}
Alone == seen[s2] = 0
Focus == Quiet \/ (Alone /\ faults = 0)
===============================================================================
