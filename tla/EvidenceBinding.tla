---------------------------- MODULE EvidenceBinding ----------------------------
(* What binds an answer of a verifier to the question it was asked: which      *)
(* answers are exact, what validation they become, and which validation is     *)
(* verified.  Constant operators, without state.                               *)
EXTENDS Naturals, Sequences, FiniteSets

CONSTANTS
  Requirement,              \* those a brief may have
  Kind, Command, Required,  \* what they ask for
  Question,                 \* what may be asked of a verifier
  Response,                 \* what a verifier may answer
  NoEvidence

ASSUME BindingAssumption ==
  /\ Required \subseteq Requirement
  /\ \A q \in Question : q.requirements \subseteq Requirement
  /\ \A x \in Response :
       Len(x.observations) \in Nat /\ DOMAIN x.observations = 1 .. Len(x.observations)

\* A question has a mode, requirements, the paths of expected artifacts, and what
\* of the candidate is sealed, as pairs [path, blob].  A response is [ok, bound,
\* observations]; an observation [of, result, artifact, execution], its artifact
\* such a pair, its execution the command that ran.

\* Mutant: a passing artifact needs no evidence of its own.
FitsArtifact_Bare(q, o) ==
  /\ o.execution = NoEvidence
  /\ o.artifact # NoEvidence => o.artifact.path \in q.expected /\ (q.mode = "live" => o.artifact \in q.sealed)

FitsArtifact(q, o) ==
  /\ o.execution = NoEvidence
  /\ o.result = "passed" => o.artifact # NoEvidence
  /\ o.artifact # NoEvidence => o.artifact.path \in q.expected /\ (q.mode = "live" => o.artifact \in q.sealed)

FitsTest(o) ==
  /\ o.artifact = NoEvidence
  /\ o.result = "passed" => o.execution # NoEvidence
  /\ o.execution \in {NoEvidence, Command[o.of]}

\* assertLiveEvidenceResponseMatchesRequest and its counterpart for replays,
\* which lets a declared requirement go without an observation.
Exact(q, x) ==
  /\ x.bound
  /\ \A k \in DOMAIN x.observations :
       LET o == x.observations[k]
       IN /\ o.of \in q.requirements
          /\ Kind[o.of] = "artifact" => FitsArtifact(q, o)
          /\ Kind[o.of] = "test" => FitsTest(o)
          /\ Kind[o.of] \notin {"artifact", "test"} => o.result # "passed"
  /\ q.mode = "live" =>
       \A r \in q.requirements : \E k \in DOMAIN x.observations : x.observations[k].of = r

\* The observation that a requirement is given: a later one replaces an earlier.
Observed(x, r) ==
  LET mine == {k \in DOMAIN x.observations : x.observations[k].of = r}
  IN IF mine = {} THEN [of |-> r, result |-> "missing", artifact |-> NoEvidence, execution |-> NoEvidence]
     ELSE x.observations[CHOOSE k \in mine : \A j \in mine : j <= k]

\* The requirements the recorded validation says have passed.
Passed(q, x) == {r \in q.requirements : Observed(x, r).result = "passed"}

\* What an answer is to a session.
Class(q, x) ==
  IF ~x.ok THEN "refused"
  ELSE IF ~Exact(q, x) THEN "incoherent"
  ELSE IF Required \cap q.requirements \subseteq Passed(q, x) THEN "passed" ELSE "unproven"

-------------------------------------------------------------------------------
\* What would count as proof of a requirement, said independently of the checks:
\* its declared command was run, or an expected artifact was seen, in a live run
\* as the sealed candidate contains it.
Proof(q, r, o) ==
  \/ Kind[r] = "test" /\ o.execution = Command[r]
  \/ Kind[r] = "artifact" /\ o.artifact # NoEvidence
       /\ o.artifact.path \in q.expected /\ (q.mode = "live" => o.artifact \in q.sealed)

\* Whatever a verifier answers, a validation is verified only by evidence of each
\* required kind: the checks of the response, the observations made of it and the
\* verdict together leave no requirement that merely says it passed.
Grounded ==
  \A q \in Question, x \in Response :
    Class(q, x) = "passed" => \A r \in Required \cap q.requirements : Proof(q, r, Observed(x, r))
===============================================================================
