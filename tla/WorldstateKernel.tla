--------------------------- MODULE WorldstateKernel ---------------------------
(***************************************************************************)
(* The domain kernel (src/domain/kernel.ts): the state a WorldstateLedger  *)
(* reduces to, and one action for every ledger event that applyEvent       *)
(* admits.  An event whose guard fails is refused with a KernelError and   *)
(* leaves the ledger as it was, so a refused event is a disabled action.   *)
(*                                                                         *)
(* Data the guards force to agree with an earlier record is kept once, at  *)
(* that record: a run's base, mode and artifact base are its brief's, a    *)
(* closure's are its run's, a validation's brief is its closure's.         *)
(* Revision identifiers carry their number and a digest of their whole     *)
(* ancestry; on one ledger they are in bijection with the number, which is *)
(* what the model keeps.                                                   *)
(***************************************************************************)
EXTENDS Naturals

CONSTANTS
  Source, Delta, Node, Brief, Run, Closure, Validation, Promotion,  \* identifiers
  Requirement,    \* evidence requirements a brief may declare
  ArtifactBase,   \* artifact base references (git:<commit>)
  Path,           \* repository paths a candidate may change
  Profiled,       \* nodes that carry the registered delegation profile
  ProfileRequirement,   \* the requirements of the registered contract
  ProfilePath,    \* its allowed-change envelope
  ProfileArtifact,      \* its expected artifacts
  Operations,     \* what the deltas under study do to each node
  Null            \* "no such record"

Actor == {"human", "system", "manager", "agent"}

\* The four facets of SourceRecord that a guard reads: owner and agent
\* material, system evidence that is shared and intact, and system material
\* that is private or whose digest does not match its content.
SourceClass == {"statement", "evidence", "unfit"}

Phase        == {"planned", "completed"}   \* running and blocked count as planned
Verification == {"unverified", "verified"}

NodeRecord == [active : BOOLEAN, phase : Phase, verification : Verification]

\* What one delta does to one node; a patch leaves a Null facet alone.
NodeOp ==
  [op : {"none", "retire"}, phase : {Null}, verification : {Null}] \cup
  [op : {"add"}, phase : Phase, verification : Verification] \cup
  [op : {"patch"}, phase : Phase \cup {Null}, verification : Verification \cup {Null}]

Disposition == {"pending", "deferred", "rejected", "remanded", "superseded", "accepted"}

DeltaRecord ==
  [purpose      : {"ordinary", "reconciliation"},
   base         : Nat,
   operations   : [Node -> NodeOp],
   sourceRefs   : SUBSET Source,
   closure      : Closure \cup {Null},
   validation   : Validation \cup {Null},
   supersedes   : Delta \cup {Null},
   disposition  : Disposition,
   supersededBy : Delta \cup {Null},
   revision     : Nat,                    \* acceptedRevisionId; 0 until accepted
   acceptedBy   : Actor \cup {Null}]

BriefRecord ==
  [base         : Nat,
   target       : Node,
   mode         : {"live", "replay"},
   artifactBase : ArtifactBase,
   required     : SUBSET Requirement,
   blocks       : BOOLEAN,                \* policy.blockIntegration
   expected     : SUBSET Path]

RunStatus == {"queued", "received", "working", "blocked", "outcome_unknown",
              "returned", "failed", "cancelled"}
RunRecord == [brief : Brief, status : RunStatus]

ClosureRecord ==
  [run       : Run,
   outcome   : {"returned", "failed", "cancelled"},
   completes : BOOLEAN,                   \* claimedCompletion
   candidate : BOOLEAN,                   \* a staged Git candidate is named
   evidence  : SUBSET Source]

ValidationRecord ==
  [closure : Closure, source : Source, met : SUBSET Requirement]

PromotionStatus == {"proposed", "authorized", "promoted", "stale", "failed",
                    "outcome_unknown"}
PromotionRecord ==
  [closure    : Closure,
   validation : Validation,
   delta      : Delta,
   revision   : Nat,                      \* integratedRevisionId
   changed    : SUBSET Path,
   status     : PromotionStatus]

ASSUME ProfileAssumption ==
  /\ Profiled \subseteq Node
  /\ ProfileRequirement \subseteq Requirement
  /\ ProfileArtifact \subseteq Path
  /\ ProfilePath \subseteq Path

ASSUME OperationsAssumption == Operations \subseteq [Node -> NodeOp]

ASSUME NullAssumption ==
  /\ Null \notin Source \cup Delta \cup Node \cup Brief \cup Run \cup Closure
  /\ Null \notin Validation \cup Promotion \cup Actor \cup Phase \cup Verification
  /\ Null \notin SourceClass /\ Null \notin NodeRecord
  /\ Null \notin DeltaRecord /\ Null \notin BriefRecord
  /\ Null \notin RunRecord /\ Null \notin ClosureRecord
  /\ Null \notin ValidationRecord /\ Null \notin PromotionRecord

VARIABLES
  head,          \* number of the head revision; genesis is 0
  nodes,         \* canonical.nodes
  sources, deltas, briefs, runs, closures, validations, promotions

vars == <<head, nodes, sources, deltas, briefs, runs, closures, validations, promotions>>

-------------------------------------------------------------------------------
(* Lineage: what the code reads through the identifiers a record carries.  *)

BriefOfRun(r)     == briefs[runs[r].brief]
BriefOfClosure(c) == BriefOfRun(closures[c].run)
IsEvidence(s)     == sources[s] = "evidence"

\* hasValidSemanticIntegrity and the system/shared checks around it: some
\* captured source fits, which is all a promotion's receipts are asked for.
ReceiptHeld == \E s \in Source : IsEvidence(s)

-------------------------------------------------------------------------------
(* Sources and the canonical graph.                                        *)

\* source.captured: an identifier is used once, and only the orchestration
\* boundary may record system material.
CaptureSource(s, class, actor) ==
  /\ class # "statement" => actor = "system"
  /\ sources[s] = Null
  /\ sources' = [sources EXCEPT ![s] = class]
  /\ UNCHANGED <<head, nodes, deltas, briefs, runs, closures, validations, promotions>>

\* activeNode and the per-operation guards of applyDeltaOperations: an
\* identifier is added once, even after retirement, and only an active node
\* is patched or retired.
Applicable(ops) ==
  \A n \in Node :
    /\ ops[n].op = "add" => nodes[n] = Null
    /\ ops[n].op \in {"patch", "retire"} => nodes[n] # Null /\ nodes[n].active

Patched(old, new) == IF new = Null THEN old ELSE new

\* The node that operation o leaves behind where rec stood.
NodeAfter(rec, o) ==
  CASE o.op = "none"   -> rec
    [] o.op = "add"    -> [active |-> TRUE, phase |-> o.phase, verification |-> o.verification]
    [] o.op = "patch"  -> [rec EXCEPT !.phase = Patched(@, o.phase),
                                      !.verification = Patched(@, o.verification)]
    [] o.op = "retire" -> [rec EXCEPT !.active = FALSE]

ClaimsCompletion(ops)   == \E n \in Node : ops[n].phase = "completed"
ClaimsVerification(ops) == \E n \in Node : ops[n].verification = "verified"

-------------------------------------------------------------------------------
(* Deltas.                                                                 *)

\* Fault: any revision will do for the closure that is integrated.
BasedOnHead_Unchecked(c) == TRUE
\* A reconciliation and its closure stand on the revision about to be extended.
BasedOnHead(c) == BriefOfClosure(c).base = head

\* validateDeltaReferences and validateReconciliationReference, for a delta
\* based on the current head.
ProposalHolds(purpose, ops, refs, c, v) ==
  /\ \A s \in refs : sources[s] # Null
  /\ Applicable(ops)
  /\ purpose = "ordinary" => c = Null /\ v = Null
  /\ purpose = "reconciliation" =>
       /\ c # Null /\ closures[c] # Null
       /\ BasedOnHead(c)
       /\ closures[c].outcome = "returned"
       /\ v # Null /\ validations[v] # Null
       /\ validations[v].closure = c
       /\ validations[v].source \in refs
       /\ {s \in closures[c].evidence : sources[s] # Null} \subseteq refs

NewDelta(purpose, ops, refs, c, v, prior) ==
  [purpose |-> purpose, base |-> head, operations |-> ops, sourceRefs |-> refs,
   closure |-> c, validation |-> v, supersedes |-> prior,
   disposition |-> "pending", supersededBy |-> Null, revision |-> 0, acceptedBy |-> Null]

\* delta.proposed: naming a superseded delta here does not dispose of it.
ProposeDelta(d, purpose, ops, refs, c, v, prior) ==
  /\ deltas[d] = Null
  /\ prior # Null => deltas[prior] # Null
  /\ ProposalHolds(purpose, ops, refs, c, v)
  /\ deltas' = [deltas EXCEPT ![d] = NewDelta(purpose, ops, refs, c, v, prior)]
  /\ UNCHANGED <<head, nodes, sources, briefs, runs, closures, validations, promotions>>

\* Fault: every delta that was not accepted can still be judged.
Open_Reopened(d) == deltas[d] # Null /\ deltas[d].disposition # "accepted"
\* assertDisposition with the base revision the event names.
Open(d) == deltas[d] # Null /\ deltas[d].disposition \in {"pending", "deferred"}

\* delta.deferred, delta.rejected, delta.remanded.
DisposeDelta(d, disposition) ==
  /\ Open(d)
  /\ disposition \in {"deferred", "rejected", "remanded"}
  /\ deltas' = [deltas EXCEPT ![d].disposition = disposition]
  /\ UNCHANGED <<head, nodes, sources, briefs, runs, closures, validations, promotions>>

\* delta.superseded: closes d and opens its replacement in one event.
SupersedeDelta(d, e, purpose, ops, refs, c, v) ==
  /\ Open(d) \/ (deltas[d] # Null /\ deltas[d].disposition = "remanded")
  /\ deltas[e] = Null
  /\ ProposalHolds(purpose, ops, refs, c, v)
  /\ deltas' = [deltas EXCEPT ![d].disposition = "superseded",
                              ![d].supersededBy = e,
                              ![e] = NewDelta(purpose, ops, refs, c, v, d)]
  /\ UNCHANGED <<head, nodes, sources, briefs, runs, closures, validations, promotions>>

\* Fault: the requirements may be met by any validation of the closure.
EvidenceComplete_Any(v) ==
  \E w \in Validation :
    /\ validations[w] # Null /\ validations[w].closure = validations[v].closure
    /\ BriefOfClosure(validations[v].closure).required \subseteq validations[w].met
\* Required evidence that passed while current, by the delta's own validation.
EvidenceComplete(v) == BriefOfClosure(validations[v].closure).required \subseteq validations[v].met

\* requiredEvidencePosture: the hard reasons reduce to a closure based on the
\* head, since the other comparisons are equalities the guards above forced.
GateAllows(d) ==
  deltas[d].purpose = "reconciliation" =>
    /\ BasedOnHead(deltas[d].closure)
    /\ \/ EvidenceComplete(deltas[d].validation)
       \/ ~BriefOfClosure(deltas[d].closure).blocks

\* Fault: the reservation is looked for on promotions not yet authorized.
HeadFree_Proposed == \A p \in Promotion : promotions[p] # Null => promotions[p].status # "proposed"
\* No authorized promotion holds the semantic head.
HeadFree == \A p \in Promotion : promotions[p] # Null => promotions[p].status # "authorized"

\* What a reconciliation must further bring to be integrated.
ReconciliationHolds(d, actor, attested) ==
  LET c   == deltas[d].closure
      ops == deltas[d].operations
  IN  /\ actor = "human"
      /\ attested = BriefOfClosure(c).artifactBase
      /\ ClaimsCompletion(ops) => closures[c].outcome = "returned" /\ closures[c].completes
      /\ ClaimsVerification(ops) => EvidenceComplete(deltas[d].validation)

\* Fault: a delta is accepted whatever it was based on.
FreshBase_Unchecked(d) == TRUE
FreshBase(d) == deltas[d].base = head

\* Fault: the commit keeps the number of its parent.
NextRevision_Same == head
\* deriveRevisionRecord: the revision a commit on the head creates.
NextRevision == head + 1

\* delta.accepted: the only event that moves the head.
AcceptDelta(d, actor, attested) ==
  /\ actor \in {"human", "system"}
  /\ HeadFree
  /\ Open(d)
  /\ FreshBase(d)
  /\ \/ deltas[d].purpose = "reconciliation"
     \/ ~ClaimsCompletion(deltas[d].operations) /\ ~ClaimsVerification(deltas[d].operations)
  /\ GateAllows(d)
  /\ deltas[d].purpose = "reconciliation" => ReconciliationHolds(d, actor, attested)
  /\ Applicable(deltas[d].operations)
  /\ head' = NextRevision
  /\ nodes' = [n \in Node |-> NodeAfter(nodes[n], deltas[d].operations[n])]
  /\ deltas' = [deltas EXCEPT ![d].disposition = "accepted",
                              ![d].revision = NextRevision,
                              ![d].acceptedBy = actor]
  /\ UNCHANGED <<sources, briefs, runs, closures, validations, promotions>>

-------------------------------------------------------------------------------
(* Briefs and runs.                                                        *)

\* validateBriefProjection: a target that carries the registered profile fixes
\* the whole contract of its brief; otherwise the compiler chooses it.  Which
\* nodes and relations the brief projects is not modelled.
ContractHolds(target, required, blocks, expected) ==
  target \in Profiled => required = ProfileRequirement /\ blocks /\ expected = ProfileArtifact

\* brief.compiled: an immutable brief for an active node of the head revision.
CompileBrief(b, target, mode, base, required, blocks, expected) ==
  /\ briefs[b] = Null
  /\ nodes[target] # Null /\ nodes[target].active
  /\ ContractHolds(target, required, blocks, expected)
  /\ briefs' = [briefs EXCEPT ![b] =
       [base |-> head, target |-> target, mode |-> mode, artifactBase |-> base,
        required |-> required, blocks |-> blocks, expected |-> expected]]
  /\ UNCHANGED <<head, nodes, sources, deltas, runs, closures, validations, promotions>>

\* run.authorized: only while the brief's revision is the head.
AuthorizeRun(r, b, actor) ==
  /\ actor \in {"human", "system"}
  /\ briefs[b] # Null
  /\ briefs[b].base = head
  /\ runs[r] = Null
  /\ runs' = [runs EXCEPT ![r] = [brief |-> b, status |-> "queued"]]
  /\ UNCHANGED <<head, nodes, sources, deltas, briefs, closures, validations, promotions>>

\* TRANSITIONS.
Transitions ==
  [s \in RunStatus |->
     CASE s = "queued"   -> {"received", "outcome_unknown", "failed", "cancelled"}
       [] s = "received" -> {"working", "blocked", "outcome_unknown", "failed", "cancelled"}
       [] s = "working"  -> {"blocked", "outcome_unknown", "returned", "failed", "cancelled"}
       [] s = "blocked"  -> {"working", "outcome_unknown", "returned", "failed", "cancelled"}
       [] OTHER          -> {}]

\* run.lifecycle_recorded.
RecordLifecycle(r, status, actor) ==
  /\ actor = "system"
  /\ runs[r] # Null
  /\ status \in Transitions[runs[r].status]
  /\ runs' = [runs EXCEPT ![r].status = status]
  /\ UNCHANGED <<head, nodes, sources, deltas, briefs, closures, validations, promotions>>

\* closure.staged: one witness per run, for the terminal state it reached.
StageClosure(c, r, completes, candidate, evidence, actor) ==
  /\ actor = "system"
  /\ runs[r] # Null
  /\ runs[r].status \in {"returned", "failed", "cancelled"}
  /\ closures[c] = Null
  /\ \A other \in Closure : closures[other] # Null => closures[other].run # r
  /\ closures' = [closures EXCEPT ![c] =
       [run |-> r, outcome |-> runs[r].status, completes |-> completes,
        candidate |-> candidate, evidence |-> evidence]]
  /\ UNCHANGED <<head, nodes, sources, deltas, briefs, runs, validations, promotions>>

\* evidence.validation_recorded: met collects the required observations that
\* passed while current; any other observation is as good as none.  The actor
\* is the validator itself.
RecordValidation(v, c, s, met, actor) ==
  /\ actor \in {"human", "system"}
  /\ closures[c] # Null
  /\ met \subseteq BriefOfClosure(c).required
  /\ IsEvidence(s)
  /\ validations[v] = Null
  /\ validations' = [validations EXCEPT ![v] = [closure |-> c, source |-> s, met |-> met]]
  /\ UNCHANGED <<head, nodes, sources, deltas, briefs, runs, closures, promotions>>

-------------------------------------------------------------------------------
(* Artifact promotions.                                                    *)

\* Fault: an unknown outcome leaves room for another promotion.
Live_Resolved(p) ==
  promotions[p] # Null /\ promotions[p].status \notin {"failed", "stale", "outcome_unknown"}
\* A promotion that still bars another one of its closure.
Live(p) == promotions[p] # Null /\ promotions[p].status \notin {"failed", "stale"}

\* The lineage artifact.promotion_proposed demands of closure c, validation v
\* and reconciliation d.
PromotionLineage(c, v, d) ==
  /\ closures[c] # Null
  /\ closures[c].outcome = "returned" /\ closures[c].candidate
  /\ runs[closures[c].run].status = "returned"
  /\ BriefOfClosure(c).mode = "live"
  /\ validations[v] # Null /\ validations[v].closure = c
  /\ deltas[d] # Null
  /\ deltas[d].disposition = "accepted" /\ deltas[d].purpose = "reconciliation"
  /\ deltas[d].closure = c /\ deltas[d].validation = v
  /\ deltas[d].revision = head

\* artifact.promotion_proposed.
ProposePromotion(p, c, v, d, changed, actor) ==
  /\ actor = "manager"
  /\ promotions[p] = Null
  /\ \A other \in Promotion : Live(other) => promotions[other].closure # c
  /\ PromotionLineage(c, v, d)
  /\ ReceiptHeld
  /\ changed \cap BriefOfClosure(c).expected # {}
  /\ BriefOfClosure(c).target \in Profiled
  /\ changed \subseteq ProfilePath
  /\ promotions' = [promotions EXCEPT ![p] =
       [closure |-> c, validation |-> v, delta |-> d, revision |-> head,
        changed |-> changed, status |-> "proposed"]]
  /\ UNCHANGED <<head, nodes, sources, deltas, briefs, runs, closures, validations>>

\* The promotion's revision is still the semantic head.
AtHead(p) == promotions[p].revision = head

\* artifact.promotion_authorized: from here the head is reserved.
AuthorizePromotion(p, actor) ==
  /\ actor = "human"
  /\ promotions[p] # Null
  /\ promotions[p].status = "proposed"
  /\ AtHead(p)
  /\ ReceiptHeld
  /\ promotions' = [promotions EXCEPT ![p].status = "authorized"]
  /\ UNCHANGED <<head, nodes, sources, deltas, briefs, runs, closures, validations>>

\* artifact.promotion_outcome_recorded: an unknown outcome may be resolved
\* later, while the head has not moved on.
RecordPromotionOutcome(p, outcome, actor) ==
  /\ actor = "system"
  /\ promotions[p] # Null
  /\ promotions[p].status \in {"authorized", "outcome_unknown"}
  /\ AtHead(p)
  /\ ReceiptHeld
  /\ outcome \in {"promoted", "stale", "failed", "outcome_unknown"}
  /\ promotions' = [promotions EXCEPT ![p].status = outcome]
  /\ UNCHANGED <<head, nodes, sources, deltas, briefs, runs, closures, validations>>

-------------------------------------------------------------------------------
(* The specification.  manager.failure_recorded and projection.selected    *)
(* touch nothing that another event reads and are stutters here.           *)

Init ==
  /\ head = 0
  /\ nodes       = [n \in Node |-> Null]
  /\ sources     = [s \in Source |-> Null]
  /\ deltas      = [d \in Delta |-> Null]
  /\ briefs      = [b \in Brief |-> Null]
  /\ runs        = [r \in Run |-> Null]
  /\ closures    = [c \in Closure |-> Null]
  /\ validations = [v \in Validation |-> Null]
  /\ promotions  = [p \in Promotion |-> Null]

\* Fields a proposed delta chooses.
Purpose == {"ordinary", "reconciliation"}

SourceEvent ==
  \E s \in Source, class \in SourceClass, actor \in Actor : CaptureSource(s, class, actor)

\* What both proposing events ask of the fields first: a new identity, and no
\* reconciliation in an ordinary delta.
Proposable(d, purpose, c, v) ==
  deltas[d] = Null /\ (purpose = "ordinary" => c = Null /\ v = Null)

DeltaEvent ==
  \/ \E d \in Delta, purpose \in Purpose, c \in Closure \cup {Null}, v \in Validation \cup {Null} :
       /\ Proposable(d, purpose, c, v)
       /\ \E ops \in Operations, refs \in SUBSET Source :
            \/ \E prior \in Delta \cup {Null} : ProposeDelta(d, purpose, ops, refs, c, v, prior)
            \/ \E prior \in Delta : SupersedeDelta(prior, d, purpose, ops, refs, c, v)
  \/ \E d \in Delta, disposition \in Disposition : DisposeDelta(d, disposition)
  \/ \E d \in Delta, actor \in Actor, attested \in ArtifactBase : AcceptDelta(d, actor, attested)

BriefEvent ==
  \E b \in Brief, target \in Node, mode \in {"live", "replay"}, base \in ArtifactBase,
     required \in SUBSET Requirement, blocks \in BOOLEAN, expected \in SUBSET Path :
    CompileBrief(b, target, mode, base, required, blocks, expected)

RunEvent ==
  \/ \E r \in Run, b \in Brief, actor \in Actor : AuthorizeRun(r, b, actor)
  \/ \E r \in Run, status \in RunStatus, actor \in Actor : RecordLifecycle(r, status, actor)
  \/ \E c \in Closure, r \in Run, completes \in BOOLEAN, candidate \in BOOLEAN,
        evidence \in SUBSET Source, actor \in Actor :
       StageClosure(c, r, completes, candidate, evidence, actor)

ValidationEvent ==
  \E v \in Validation, c \in Closure, s \in Source, met \in SUBSET Requirement, actor \in Actor :
    RecordValidation(v, c, s, met, actor)

PromotionEvent ==
  \/ \E p \in Promotion, c \in Closure, v \in Validation, d \in Delta,
        changed \in SUBSET Path, actor \in Actor :
       ProposePromotion(p, c, v, d, changed, actor)
  \/ \E p \in Promotion, actor \in Actor : AuthorizePromotion(p, actor)
  \/ \E p \in Promotion, outcome \in PromotionStatus, actor \in Actor :
       RecordPromotionOutcome(p, outcome, actor)

Next ==
  \/ SourceEvent
  \/ DeltaEvent
  \/ BriefEvent
  \/ RunEvent
  \/ ValidationEvent
  \/ PromotionEvent

Spec == Init /\ [][Next]_vars

-------------------------------------------------------------------------------
(* Properties.                                                             *)

TypeOK ==
  /\ head \in Nat
  /\ nodes       \in [Node -> NodeRecord \cup {Null}]
  /\ sources     \in [Source -> SourceClass \cup {Null}]
  /\ deltas      \in [Delta -> DeltaRecord \cup {Null}]
  /\ briefs      \in [Brief -> BriefRecord \cup {Null}]
  /\ runs        \in [Run -> RunRecord \cup {Null}]
  /\ closures    \in [Closure -> ClosureRecord \cup {Null}]
  /\ validations \in [Validation -> ValidationRecord \cup {Null}]
  /\ promotions  \in [Promotion -> PromotionRecord \cup {Null}]

Accepted(d)   == deltas[d] # Null /\ deltas[d].disposition = "accepted"
Integrated(d) == Accepted(d) /\ deltas[d].purpose = "reconciliation"

\* The accepted deltas are one unbroken line: each revision above genesis was
\* made by exactly one delta, and that delta was proposed on the revision just
\* before it.  No interleaving of proposals, deferrals and supersessions forks
\* or skips the canonical history (delta.accepted).
LinearHistory ==
  /\ \A d \in Delta : Accepted(d) =>
       deltas[d].revision \in 1..head /\ deltas[d].base + 1 = deltas[d].revision
  /\ \A d, e \in Delta :
       Accepted(d) /\ Accepted(e) /\ deltas[d].revision = deltas[e].revision => d = e
  /\ \A n \in 1..head : \E d \in Delta : Accepted(d) /\ deltas[d].revision = n

\* However many briefs, runs, closures and reconciliations compete on one
\* revision, the head integrates the work of one closure of that revision, and
\* no closure is ever integrated a second time (delta.accepted with its gate).
IntegratedOnce ==
  \A d, e \in Delta :
    Integrated(d) /\ Integrated(e) /\ d # e =>
      /\ deltas[d].closure # deltas[e].closure
      /\ BriefOfClosure(deltas[d].closure).base # BriefOfClosure(deltas[e].closure).base

\* A delta that could still be accepted finds the graph it was written
\* against: the identifiers it adds are unused and the nodes it changes are
\* active, whatever was accepted, retired or superseded since it was proposed.
OpenDeltaApplies ==
  \A d \in Delta : Open(d) /\ deltas[d].base = head => Applicable(deltas[d].operations)

\* An accepted reconciliation that itself makes the claim, and the evidence
\* for it: a returned closure that claims completion, or every required
\* observation passed while current.
CompletionGrounded(n) ==
  \E d \in Delta :
    /\ Integrated(d) /\ deltas[d].acceptedBy = "human"
    /\ deltas[d].operations[n].phase = "completed"
    /\ closures[deltas[d].closure].outcome = "returned"
    /\ closures[deltas[d].closure].completes

VerificationGrounded(n) ==
  \E d \in Delta :
    /\ Integrated(d) /\ deltas[d].acceptedBy = "human"
    /\ deltas[d].operations[n].verification = "verified"
    /\ BriefOfClosure(deltas[d].closure).required \subseteq validations[deltas[d].validation].met

\* No sequence of events marks work completed or verified in the canonical
\* graph unless a human integrated a reconciliation that claims it for that
\* node and that the evidence backs, although patches merge facet by facet and
\* ordinary deltas may rewrite the same node later.
WorkClaimsGrounded ==
  \A n \in Node : nodes[n] # Null =>
    /\ nodes[n].phase = "completed"       => CompletionGrounded(n)
    /\ nodes[n].verification = "verified" => VerificationGrounded(n)

\* While a promotion is authorized the head is the revision it integrated, so
\* the reservation cannot be outlived by a commit, and two promotions never
\* hold it together even when they belong to different closures
\* (artifact.promotion_authorized against delta.accepted).
ReservationPinsHead ==
  /\ \A p \in Promotion : promotions[p] # Null /\ promotions[p].status = "authorized"
                            => promotions[p].revision = head
  /\ \A p, q \in Promotion :
       /\ promotions[p] # Null /\ promotions[p].status = "authorized"
       /\ promotions[q] # Null /\ promotions[q].status = "authorized"
       => p = q

\* Two promotions of one integrated revision are never live together, so a
\* revision is promoted at most once; a failed or stale attempt may be
\* followed by a new one (artifact.promotion_proposed).
Standing(p) == promotions[p] # Null /\ promotions[p].status \notin {"failed", "stale"}

OnePromotionPerRevision ==
  \A p, q \in Promotion :
    Standing(p) /\ Standing(q) /\ promotions[p].revision = promotions[q].revision => p = q

\* Closure c, validated by v, was integrated by d as revision n, and may be
\* promoted.
Grounded(c, v, d, n) ==
  /\ Integrated(d) /\ deltas[d].acceptedBy = "human"
  /\ deltas[d].closure = c /\ deltas[d].validation = v /\ deltas[d].revision = n
  /\ closures[c].outcome = "returned" /\ closures[c].candidate
  /\ runs[closures[c].run].status = "returned"
  /\ BriefOfClosure(c).mode = "live" /\ BriefOfClosure(c).target \in Profiled
  /\ ProfileRequirement \subseteq validations[v].met

\* Whatever reaches an artifact promotion went the whole way: a live brief
\* with the registered profile, a run that returned, a closure with a staged
\* candidate, every requirement of the registered contract passed by the very
\* validation the promotion names, and a human integration at its revision.
PromotionGrounded ==
  \A p \in Promotion : promotions[p] # Null =>
    Grounded(promotions[p].closure, promotions[p].validation,
             promotions[p].delta, promotions[p].revision)

\* Superseding is one-way and ends: a delta is superseded exactly while it
\* names its replacement, which names it back, and no set of deltas replaces
\* itself in a circle, so every chain leads to a delta that was not superseded
\* (delta.superseded against later dispositions of either delta).
SupersessionChains ==
  /\ \A d \in Delta : deltas[d] # Null =>
       /\ (deltas[d].disposition = "superseded") <=> (deltas[d].supersededBy # Null)
       /\ deltas[d].supersededBy # Null =>
            /\ deltas[deltas[d].supersededBy] # Null
            /\ deltas[deltas[d].supersededBy].supersedes = d
  /\ \A circle \in SUBSET {d \in Delta : deltas[d] # Null} :
       (\A d \in circle : deltas[d].supersededBy \in circle) => circle = {}

\* The fields of a delta and of a promotion that no event rewrites.
SameProposal(old, new) ==
  /\ new # Null
  /\ new.purpose = old.purpose /\ new.base = old.base /\ new.operations = old.operations
  /\ new.closure = old.closure /\ new.validation = old.validation

SameLineage(old, new) ==
  /\ new # Null
  /\ new.closure = old.closure /\ new.validation = old.validation
  /\ new.delta = old.delta /\ new.revision = old.revision

Settled(rec) == rec.status \in {"outcome_unknown", "returned", "failed", "cancelled"}

DeltasEndure ==
  \A d \in Delta : deltas[d] # Null =>
    /\ SameProposal(deltas[d], deltas'[d])
    /\ deltas[d].disposition \in {"accepted", "rejected", "superseded"} => deltas'[d] = deltas[d]
RunsEndure ==
  \A r \in Run : runs[r] # Null =>
    /\ runs'[r] # Null /\ runs'[r].brief = runs[r].brief
    /\ Settled(runs[r]) => runs'[r] = runs[r]
BriefsEndure      == \A b \in Brief : briefs[b] # Null => briefs'[b] = briefs[b]
ClosuresEndure    == \A c \in Closure : closures[c] # Null => closures'[c] = closures[c]
ValidationsEndure == \A v \in Validation : validations[v] # Null => validations'[v] = validations[v]
PromotionsEndure ==
  \A p \in Promotion : promotions[p] # Null =>
    /\ SameLineage(promotions[p], promotions'[p])
    /\ promotions[p].status \in {"promoted", "stale", "failed"} => promotions'[p] = promotions[p]

Endures ==
  /\ DeltasEndure /\ RunsEndure /\ BriefsEndure
  /\ ClosuresEndure /\ ValidationsEndure /\ PromotionsEndure

\* Nothing recorded is revised: later events only ever change a disposition or
\* a status, and never reopen one that was final, so the lineage an integration
\* or a promotion relied on is the lineage a reader finds afterwards.
RecordsEndure == [][Endures]_vars

-------------------------------------------------------------------------------
(* The inductive strengthening the proofs rest on.                         *)

\* A reconciliation still names what it named when it was proposed.
ReconciliationLineage(d) ==
  /\ deltas[d].closure \in Closure /\ closures[deltas[d].closure] # Null
  /\ closures[deltas[d].closure].outcome = "returned"
  /\ BriefOfClosure(deltas[d].closure).base = deltas[d].base
  /\ deltas[d].validation \in Validation /\ validations[deltas[d].validation] # Null
  /\ validations[deltas[d].validation].closure = deltas[d].closure

\* No record names one that is missing, a run stays as its closure reported
\* it, and a profiled target's brief carries the registered contract.
LineageHolds ==
  /\ \A r \in Run : runs[r] # Null => briefs[runs[r].brief] # Null
  /\ \A c \in Closure : closures[c] # Null =>
       /\ runs[closures[c].run] # Null
       /\ runs[closures[c].run].status = closures[c].outcome
  /\ \A v \in Validation : validations[v] # Null => closures[validations[v].closure] # Null
  /\ \A b \in Brief : briefs[b] # Null /\ briefs[b].target \in Profiled =>
       briefs[b].blocks /\ briefs[b].required = ProfileRequirement
  /\ \A d \in Delta : deltas[d] # Null /\ deltas[d].purpose = "reconciliation" => ReconciliationLineage(d)

\* Deltas are based on a past or present head, and an integration passed its
\* gate by the hand of a human.
IntegrationsHold ==
  /\ \A d \in Delta : deltas[d] # Null => deltas[d].base <= head
  /\ \A d \in Delta : Integrated(d) =>
       /\ deltas[d].acceptedBy = "human"
       /\ \/ EvidenceComplete(deltas[d].validation)
          \/ ~BriefOfClosure(deltas[d].closure).blocks

OneStandingPerClosure ==
  \A p, q \in Promotion :
    Standing(p) /\ Standing(q) /\ promotions[p].closure = promotions[q].closure => p = q

HolderAtHead ==
  \A p \in Promotion : promotions[p] # Null /\ promotions[p].status = "authorized"
                         => promotions[p].revision = head

IInv ==
  /\ TypeOK
  /\ LineageHolds
  /\ IntegrationsHold
  /\ LinearHistory
  /\ PromotionGrounded
  /\ OneStandingPerClosure
  /\ HolderAtHead

-------------------------------------------------------------------------------
(* The kernel as a head reservation: a promotion is a claim on the revision *)
(* it integrated, and delta.accepted is the only commit.                    *)

StageNamed(status) ==
  IF status = "proposed" THEN "offered"
  ELSE IF status = "authorized" THEN "holding"
  ELSE IF status = "outcome_unknown" THEN "unresolved"
  ELSE IF status = "promoted" THEN "done" ELSE "void"

StageOf(p) == IF promotions[p] = Null THEN "none" ELSE StageNamed(promotions[p].status)

ClaimOf ==
  [p \in Promotion |->
     [stage |-> StageOf(p), at |-> IF promotions[p] = Null THEN 0 ELSE promotions[p].revision]]

Reservation == INSTANCE HeadReservation WITH Claimant <- Promotion, claim <- ClaimOf

\* The kernel implements the head reservation, although no event checks that
\* nobody else holds the head: that follows from what each event demands of
\* the lineage behind a promotion.
ImplementsReservation == Reservation!Spec
===============================================================================
