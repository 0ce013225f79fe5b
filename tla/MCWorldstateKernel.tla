-------------------------- MODULE MCWorldstateKernel --------------------------
(* Small instances of the kernel for TLC: the disposition of deltas over a   *)
(* changing graph, and competing integrations and promotions.               *)
EXTENDS WorldstateKernel, TLC

Retire == [op |-> "retire", phase |-> Null, verification |-> Null]
Patch(phase, verification) == [op |-> "patch", phase |-> phase, verification |-> verification]
Add(phase, verification)   == [op |-> "add", phase |-> phase, verification |-> verification]

All(o)     == [m \in Node |-> o]

\* A task that is created, and finished and verified; or retired.
FinishOperations == {All(Add("planned", "unverified")), All(Patch("completed", "verified"))}
TaskOperations == FinishOperations \cup {All(Retire), All(Patch("planned", "unverified"))}

Symmetry ==
  Permutations(Delta) \cup Permutations(Run)
    \cup Permutations(Closure) \cup Permutations(Validation) \cup Permutations(Promotion) \cup Permutations(Brief)

\* Deltas on their own, disposed of in every way: proposed, superseded, rejected
\* and accepted, by whomever.
DeltaFocus == (\A s \in Source : sources[s] = Null) /\ (\A b \in Brief : briefs[b] = Null)

\* What the rest of the run leaves to that: every way to dispose of a delta other
\* than a human accepting it, material that no validation may rest on, ordinary
\* deltas that cite a source, and retirement.
DirectDeltas ==
  \A d \in Delta : deltas[d] # Null =>
    /\ deltas[d].disposition \in {"pending", "accepted"} /\ deltas[d].supersedes = Null
    /\ deltas[d].acceptedBy # "system" /\ deltas[d].operations \in FinishOperations
    /\ deltas[d].purpose = "ordinary" => deltas[d].sourceRefs = {}
FitSources == \A s \in Source : sources[s] # Null => sources[s] = "evidence"

\* Integrations and promotions of what runs return; the mode, the candidate and
\* the validation are free.
PromotionFocus ==
  /\ DirectDeltas /\ FitSources
  /\ \A r \in Run : runs[r] # Null => runs[r].status \in {"queued", "received", "working", "returned"}
  /\ \A c \in Closure : closures[c] # Null => closures[c].evidence = {}

Focus == DeltaFocus \/ PromotionFocus
===============================================================================
