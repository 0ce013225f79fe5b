------------------------- MODULE MCArtifactPromotion -------------------------
(* Small instances of artifact promotion from end to end.                    *)
EXTENDS ArtifactPromotion, TLC

CONSTANTS base, one

OneBase      == [p \in Promotion |-> base]
OneCandidate == [p \in Promotion |-> one]

\* The target ref is there; the journal runs have it deleted as well.
RefPresent == "absent" \notin held

Symmetry == Permutations(Session) \cup Permutations(Process)
===============================================================================
