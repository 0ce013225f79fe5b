-------------------------- MODULE MCPromotionJournal --------------------------
(* Small instances of the promotion journal: two candidates from one base,    *)
(* and one promotion in more depth.                                           *)
EXTENDS PromotionJournal, TLC

CONSTANTS p1, p2, base, one, two

OneBase      == [p \in Promotion |-> base]
TwoCandidates == [p \in Promotion |-> IF p = p1 THEN one ELSE two]

Symmetry == Permutations(Process)
===============================================================================
