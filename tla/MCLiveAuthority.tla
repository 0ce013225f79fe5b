---------------------------- MODULE MCLiveAuthority ----------------------------
(* Small instances of the live-run store: two runs that share the ledger and  *)
(* the worktree, with a rival request for the first, and one run in depth.    *)
EXTENDS LiveAuthority, TLC

CONSTANTS r1, r2, q1, rival, q2, d0, d1, d2, here, h1, h2

\* q1 and its rival execute r1, q2 executes r2.
Executes   == [q \in Request |-> IF q = q2 THEN r2 ELSE r1]
\* Every run is queued in the last document.  The rival of q1 was authorized
\* from the same document as q1, or from the last one.
Authorized == [q \in Request |-> IF q = q2 THEN d2 ELSE d1]
Diverged   == [q \in Request |-> IF q = q1 THEN d1 ELSE d2]
Shows      == [d \in Ledger |-> IF d = d0 THEN {} ELSE IF d = d1 THEN Run \ {r2} ELSE Run]

\* Each handler is a process of its own, or all are in one.
Apart    == [h \in Handler |-> h]
Together == [h \in Handler |-> here]

Symmetry == Permutations(Handler)

\* Bounds of the larger instances.
NoStatus == \A h \in Handler : job[h] # "status"
===============================================================================
