------------------------- MODULE WorldstateKernelProofs -------------------------
(***************************************************************************)
(* Theorems about the domain kernel, for every set of identifiers and      *)
(* every set of operations a delta may carry: its types; its safety        *)
(* invariants from one inductive invariant (lineage is never broken, what  *)
(* was integrated passed its gate, history is linear, a promotion stands   *)
(* for one integrated closure); what it keeps true of the canonical graph  *)
(* and of the chains of superseded deltas; and that it implements the head *)
(* reservation.                                                            *)
(***************************************************************************)
EXTENDS WorldstateKernel, TLAPS

-------------------------------------------------------------------------------
(* What an update of one field leaves a record of its type.                *)

\* A judged delta keeps its type: disposition, successor, revision and actor
\* are the fields events write.
LEMMA DeltaUpdate ==
  ASSUME NEW rec \in DeltaRecord
  PROVE  /\ \A x \in Disposition : [rec EXCEPT !.disposition = x] \in DeltaRecord
         /\ \A x \in Disposition, e \in Delta \cup {Null} :
              [rec EXCEPT !.disposition = x, !.supersededBy = e] \in DeltaRecord
         /\ \A x \in Disposition, n \in Nat, a \in Actor :
              [rec EXCEPT !.disposition = x, !.revision = n, !.acceptedBy = a] \in DeltaRecord
<1>1. \A x \in Disposition : [rec EXCEPT !.disposition = x] \in DeltaRecord
  BY DEF DeltaRecord
<1>2. \A x \in Disposition, e \in Delta \cup {Null} :
        [rec EXCEPT !.disposition = x, !.supersededBy = e] \in DeltaRecord
  BY DEF DeltaRecord
<1>3. \A x \in Disposition, n \in Nat, a \in Actor :
        [rec EXCEPT !.disposition = x, !.revision = n, !.acceptedBy = a] \in DeltaRecord
  BY DEF DeltaRecord
<1>4. QED
  BY <1>1, <1>2, <1>3

LEMMA NewDeltaType ==
  ASSUME TypeOK,
         NEW purpose \in Purpose, NEW ops \in Operations, NEW refs \in SUBSET Source,
         NEW c \in Closure \cup {Null}, NEW v \in Validation \cup {Null},
         NEW prior \in Delta \cup {Null}
  PROVE  NewDelta(purpose, ops, refs, c, v, prior) \in DeltaRecord
  BY OperationsAssumption DEF NewDelta, DeltaRecord, Purpose, Disposition, TypeOK

LEMMA NodeAfterType ==
  ASSUME NEW rec \in NodeRecord \cup {Null}, NEW o \in NodeOp,
         o.op \in {"patch", "retire"} => rec # Null
  PROVE  NodeAfter(rec, o) \in NodeRecord \cup {Null}
<1>1. CASE o.op = "none"
  BY <1>1 DEF NodeAfter
<1>2. CASE o.op = "add"
  BY <1>2 DEF NodeAfter, NodeOp, NodeRecord
<1>3. CASE o.op = "patch"
  <2>1. rec \in NodeRecord
    BY <1>3
  <2>2. /\ Patched(rec.phase, o.phase) \in Phase
        /\ Patched(rec.verification, o.verification) \in Verification
    BY <1>3, <2>1 DEF NodeOp, NodeRecord, Patched
  <2>3. QED
    BY <1>3, <2>1, <2>2 DEF NodeAfter, NodeRecord
<1>4. CASE o.op = "retire"
  BY <1>4 DEF NodeAfter, NodeRecord
<1>5. QED
  BY <1>1, <1>2, <1>3, <1>4 DEF NodeOp

-------------------------------------------------------------------------------
(* Type correctness.                                                       *)

LEMMA InitType == Init => TypeOK
  BY DEF Init, TypeOK

LEMMA SourceEventType == TypeOK /\ SourceEvent => TypeOK'
  BY DEF TypeOK, SourceEvent, CaptureSource

LEMMA ProposeType ==
  ASSUME TypeOK,
         NEW d \in Delta, NEW purpose \in Purpose, NEW ops \in Operations,
         NEW refs \in SUBSET Source, NEW c \in Closure \cup {Null},
         NEW v \in Validation \cup {Null}, NEW prior \in Delta \cup {Null},
         ProposeDelta(d, purpose, ops, refs, c, v, prior)
  PROVE  TypeOK'
<1>1. NewDelta(purpose, ops, refs, c, v, prior) \in DeltaRecord
  BY NewDeltaType
<1>2. QED
  BY <1>1 DEF TypeOK, ProposeDelta

LEMMA SupersedeType ==
  ASSUME TypeOK,
         NEW d \in Delta, NEW e \in Delta, NEW purpose \in Purpose, NEW ops \in Operations,
         NEW refs \in SUBSET Source, NEW c \in Closure \cup {Null},
         NEW v \in Validation \cup {Null},
         SupersedeDelta(d, e, purpose, ops, refs, c, v)
  PROVE  TypeOK'
<1>1. NewDelta(purpose, ops, refs, c, v, d) \in DeltaRecord
  BY NewDeltaType
<1>2. deltas[d] \in DeltaRecord /\ d # e
  BY DEF TypeOK, SupersedeDelta, Open
<1>3. [deltas[d] EXCEPT !.disposition = "superseded", !.supersededBy = e] \in DeltaRecord
  BY <1>2, DeltaUpdate DEF Disposition
<1>4. deltas' = [deltas EXCEPT ![d] = [deltas[d] EXCEPT !.disposition = "superseded",
                                                        !.supersededBy = e],
                               ![e] = NewDelta(purpose, ops, refs, c, v, d)]
  BY <1>2 DEF SupersedeDelta, TypeOK
<1>5. deltas' \in [Delta -> DeltaRecord \cup {Null}]
  BY <1>1, <1>3, <1>4 DEF TypeOK
<1>6. QED
  BY <1>5 DEF TypeOK, SupersedeDelta

LEMMA DisposeType ==
  ASSUME TypeOK, NEW d \in Delta, NEW disposition \in Disposition, DisposeDelta(d, disposition)
  PROVE  TypeOK'
<1>1. deltas[d] \in DeltaRecord
  BY DEF TypeOK, DisposeDelta, Open
<1>2. [deltas[d] EXCEPT !.disposition = disposition] \in DeltaRecord
  BY <1>1, DeltaUpdate
<1>3. QED
  BY <1>2 DEF TypeOK, DisposeDelta

LEMMA AcceptType ==
  ASSUME TypeOK, NEW d \in Delta, NEW actor \in Actor, NEW attested \in ArtifactBase,
         AcceptDelta(d, actor, attested)
  PROVE  TypeOK'
<1>1. deltas[d] \in DeltaRecord
  BY DEF TypeOK, AcceptDelta, Open
<1>2. head + 1 \in Nat
  BY DEF TypeOK
<1>3. [deltas[d] EXCEPT !.disposition = "accepted", !.revision = head + 1, !.acceptedBy = actor]
        \in DeltaRecord
  BY <1>1, <1>2, DeltaUpdate DEF Disposition
<1>4. deltas' \in [Delta -> DeltaRecord \cup {Null}]
  BY <1>3 DEF TypeOK, AcceptDelta, NextRevision
<1>5. \A n \in Node : NodeAfter(nodes[n], deltas[d].operations[n]) \in NodeRecord \cup {Null}
  <2>1. SUFFICES ASSUME NEW n \in Node
                 PROVE  NodeAfter(nodes[n], deltas[d].operations[n]) \in NodeRecord \cup {Null}
    OBVIOUS
  <2>2. deltas[d].operations[n] \in NodeOp
    BY <1>1 DEF DeltaRecord
  <2>3. deltas[d].operations[n].op \in {"patch", "retire"} => nodes[n] # Null
    BY DEF AcceptDelta, Applicable
  <2>4. nodes[n] \in NodeRecord \cup {Null}
    BY DEF TypeOK
  <2>5. QED
    BY <2>2, <2>3, <2>4, NodeAfterType
<1>6. nodes' \in [Node -> NodeRecord \cup {Null}]
  BY <1>5 DEF AcceptDelta
<1>7. head' \in Nat
  BY <1>2 DEF AcceptDelta, NextRevision
<1>8. QED
  BY <1>4, <1>6, <1>7 DEF TypeOK, AcceptDelta

LEMMA DeltaEventType == TypeOK /\ DeltaEvent => TypeOK'
  BY ProposeType, SupersedeType, DisposeType, AcceptType DEF DeltaEvent

LEMMA BriefEventType == TypeOK /\ BriefEvent => TypeOK'
<1>1. SUFFICES ASSUME TypeOK, NEW b \in Brief, NEW target \in Node, NEW mode \in {"live", "replay"},
                      NEW base \in ArtifactBase, NEW required \in SUBSET Requirement,
                      NEW blocks \in BOOLEAN, NEW expected \in SUBSET Path,
                      CompileBrief(b, target, mode, base, required, blocks, expected)
               PROVE  TypeOK'
  BY DEF BriefEvent
<1>2. [base |-> head, target |-> target, mode |-> mode, artifactBase |-> base,
       required |-> required, blocks |-> blocks, expected |-> expected] \in BriefRecord
  BY <1>1 DEF BriefRecord, TypeOK
<1>3. QED
  BY <1>1, <1>2 DEF TypeOK, CompileBrief

LEMMA RunEventType == TypeOK /\ RunEvent => TypeOK'
<1>1. ASSUME TypeOK, NEW r \in Run, NEW b \in Brief, NEW actor \in Actor, AuthorizeRun(r, b, actor)
      PROVE  TypeOK'
  BY <1>1 DEF TypeOK, AuthorizeRun, RunRecord, RunStatus
<1>2. ASSUME TypeOK, NEW r \in Run, NEW status \in RunStatus, NEW actor \in Actor,
             RecordLifecycle(r, status, actor)
      PROVE  TypeOK'
  <2>1. [runs[r] EXCEPT !.status = status] \in RunRecord
    BY <1>2 DEF TypeOK, RecordLifecycle, RunRecord
  <2>2. QED
    BY <1>2, <2>1 DEF TypeOK, RecordLifecycle
<1>3. ASSUME TypeOK, NEW c \in Closure, NEW r \in Run, NEW completes \in BOOLEAN,
             NEW candidate \in BOOLEAN, NEW evidence \in SUBSET Source, NEW actor \in Actor,
             StageClosure(c, r, completes, candidate, evidence, actor)
      PROVE  TypeOK'
  <2>1. [run |-> r, outcome |-> runs[r].status, completes |-> completes,
         candidate |-> candidate, evidence |-> evidence] \in ClosureRecord
    BY <1>3 DEF StageClosure, ClosureRecord
  <2>2. QED
    BY <1>3, <2>1 DEF TypeOK, StageClosure
<1>4. QED
  BY <1>1, <1>2, <1>3 DEF RunEvent

LEMMA ValidationEventType == TypeOK /\ ValidationEvent => TypeOK'
  BY DEF TypeOK, ValidationEvent, RecordValidation, ValidationRecord

\* Only the status of a recorded promotion is ever written.
LEMMA PromotionUpdate ==
  ASSUME TypeOK, NEW p \in Promotion, promotions[p] # Null, NEW s \in PromotionStatus
  PROVE  [promotions EXCEPT ![p].status = s] \in [Promotion -> PromotionRecord \cup {Null}]
<1>1. [promotions[p] EXCEPT !.status = s] \in PromotionRecord
  BY DEF TypeOK, PromotionRecord
<1>2. QED
  BY <1>1 DEF TypeOK

LEMMA PromotionEventType == TypeOK /\ PromotionEvent => TypeOK'
<1>1. ASSUME TypeOK, NEW p \in Promotion, NEW c \in Closure, NEW v \in Validation, NEW d \in Delta,
             NEW changed \in SUBSET Path, NEW actor \in Actor,
             ProposePromotion(p, c, v, d, changed, actor)
      PROVE  TypeOK'
  <2>1. [closure |-> c, validation |-> v, delta |-> d, revision |-> head,
         changed |-> changed, status |-> "proposed"] \in PromotionRecord
    BY <1>1 DEF TypeOK, PromotionRecord, PromotionStatus
  <2>2. QED
    BY <1>1, <2>1 DEF TypeOK, ProposePromotion
<1>2. ASSUME TypeOK, NEW p \in Promotion, NEW actor \in Actor, AuthorizePromotion(p, actor)
      PROVE  TypeOK'
  BY <1>2, PromotionUpdate DEF TypeOK, AuthorizePromotion, PromotionStatus
<1>3. ASSUME TypeOK, NEW p \in Promotion, NEW outcome \in PromotionStatus, NEW actor \in Actor,
             RecordPromotionOutcome(p, outcome, actor)
      PROVE  TypeOK'
  BY <1>3, PromotionUpdate DEF TypeOK, RecordPromotionOutcome, PromotionStatus
<1>4. QED
  BY <1>1, <1>2, <1>3 DEF PromotionEvent

LEMMA NextType == TypeOK /\ [Next]_vars => TypeOK'
<1>1. TypeOK /\ UNCHANGED vars => TypeOK'
  BY DEF TypeOK, vars
<1>2. QED
  BY <1>1, SourceEventType, DeltaEventType, BriefEventType, RunEventType,
     ValidationEventType, PromotionEventType DEF Next

\* Every event keeps every projection of the ledger in its type, whatever
\* identifiers and operations the events carry.
THEOREM TypeCorrect == Spec => []TypeOK
  BY InitType, NextType, PTL DEF Spec

-------------------------------------------------------------------------------
(* Records endure: the frame every later argument uses.                    *)

\* Judging a delta keeps its proposal.
LEMMA JudgedOpen ==
  ASSUME NEW rec \in DeltaRecord, NEW x \in Disposition
  PROVE  SameProposal(rec, [rec EXCEPT !.disposition = x])
<1>1. [rec EXCEPT !.disposition = x] \in DeltaRecord
  BY DeltaUpdate
<1>2. [rec EXCEPT !.disposition = x] # Null
  BY <1>1, NullAssumption
<1>3. QED
  BY <1>2 DEF SameProposal, DeltaRecord

LEMMA JudgedSuperseded ==
  ASSUME NEW rec \in DeltaRecord, NEW x \in Disposition, NEW e \in Delta \cup {Null}
  PROVE  SameProposal(rec, [rec EXCEPT !.disposition = x, !.supersededBy = e])
<1>1. [rec EXCEPT !.disposition = x, !.supersededBy = e] \in DeltaRecord
  BY DeltaUpdate
<1>2. [rec EXCEPT !.disposition = x, !.supersededBy = e] # Null
  BY <1>1, NullAssumption
<1>3. QED
  BY <1>2 DEF SameProposal, DeltaRecord

LEMMA JudgedAccepted ==
  ASSUME NEW rec \in DeltaRecord, NEW x \in Disposition, NEW n \in Nat, NEW a \in Actor
  PROVE  SameProposal(rec, [rec EXCEPT !.disposition = x, !.revision = n, !.acceptedBy = a])
<1>1. [rec EXCEPT !.disposition = x, !.revision = n, !.acceptedBy = a] \in DeltaRecord
  BY DeltaUpdate
<1>2. [rec EXCEPT !.disposition = x, !.revision = n, !.acceptedBy = a] # Null
  BY <1>1, NullAssumption
<1>3. QED
  BY <1>2 DEF SameProposal, DeltaRecord

LEMMA DeltaFrame == TypeOK /\ DeltaEvent => DeltasEndure
<1>1. ASSUME TypeOK, NEW d \in Delta, NEW purpose, NEW ops, NEW refs, NEW c, NEW v, NEW prior,
             ProposeDelta(d, purpose, ops, refs, c, v, prior)
      PROVE  DeltasEndure
  BY <1>1 DEF TypeOK, ProposeDelta, DeltasEndure, SameProposal
<1>2. ASSUME TypeOK, NEW d \in Delta, NEW e \in Delta, NEW purpose, NEW ops, NEW refs, NEW c, NEW v,
             SupersedeDelta(d, e, purpose, ops, refs, c, v)
      PROVE  DeltasEndure
  <2>1. deltas[d] \in DeltaRecord /\ deltas[d].disposition \notin {"accepted", "rejected", "superseded"}
    BY <1>2 DEF TypeOK, SupersedeDelta, Open
  <2>2. \A x \in Delta : deltas[x] # Null =>
          deltas'[x] = IF x = d THEN [deltas[d] EXCEPT !.disposition = "superseded",
                                                       !.supersededBy = e]
                                ELSE deltas[x]
    BY <1>2 DEF TypeOK, SupersedeDelta
  <2>3. SameProposal(deltas[d], [deltas[d] EXCEPT !.disposition = "superseded",
                                                  !.supersededBy = e])
    BY <2>1, JudgedSuperseded DEF Disposition
  <2>4. QED
    BY <2>1, <2>2, <2>3 DEF DeltasEndure, SameProposal
<1>3. ASSUME TypeOK, NEW d \in Delta, NEW disposition, DisposeDelta(d, disposition)
      PROVE  DeltasEndure
  <2>1. deltas[d] \in DeltaRecord /\ deltas[d].disposition \notin {"accepted", "rejected", "superseded"}
    BY <1>3 DEF TypeOK, DisposeDelta, Open
  <2>2. SameProposal(deltas[d], [deltas[d] EXCEPT !.disposition = disposition])
    BY <1>3, <2>1, JudgedOpen DEF DisposeDelta, Disposition
  <2>3. QED
    BY <1>3, <2>1, <2>2 DEF TypeOK, DisposeDelta, DeltasEndure, SameProposal
<1>4. ASSUME TypeOK, NEW d \in Delta, NEW actor, NEW attested, AcceptDelta(d, actor, attested)
      PROVE  DeltasEndure
  <2>1. deltas[d] \in DeltaRecord /\ deltas[d].disposition \notin {"accepted", "rejected", "superseded"}
    BY <1>4 DEF TypeOK, AcceptDelta, Open
  <2>2. NextRevision \in Nat /\ actor \in Actor /\ "accepted" \in Disposition
    BY <1>4 DEF AcceptDelta, Disposition, Actor, NextRevision, TypeOK
  <2>3. SameProposal(deltas[d], [deltas[d] EXCEPT !.disposition = "accepted",
                                                  !.revision = NextRevision,
                                                  !.acceptedBy = actor])
    BY <2>1, <2>2, JudgedAccepted
  <2>4. QED
    BY <1>4, <2>1, <2>3 DEF TypeOK, AcceptDelta, DeltasEndure, SameProposal
<1>5. QED
  BY <1>1, <1>2, <1>3, <1>4 DEF DeltaEvent

LEMMA RunFrame == TypeOK /\ RunEvent => RunsEndure /\ ClosuresEndure
<1>1. ASSUME TypeOK, NEW r \in Run, NEW b, NEW actor, AuthorizeRun(r, b, actor)
      PROVE  RunsEndure /\ ClosuresEndure
  BY <1>1 DEF TypeOK, AuthorizeRun, RunsEndure, ClosuresEndure
<1>2. ASSUME TypeOK, NEW r \in Run, NEW status \in RunStatus, NEW actor, RecordLifecycle(r, status, actor)
      PROVE  RunsEndure /\ ClosuresEndure
  <2>1. runs[r] \in RunRecord
    BY <1>2 DEF TypeOK, RecordLifecycle
  <2>2. ~Settled(runs[r])
    BY <1>2, <2>1 DEF RecordLifecycle, Transitions, RunRecord, RunStatus, Settled
  <2>3. [runs[r] EXCEPT !.status = status] # Null
    <3>1. [runs[r] EXCEPT !.status = status] \in RunRecord
      BY <2>1, <1>2 DEF RecordLifecycle, RunRecord, Transitions, RunStatus
    <3>2. QED
      BY <3>1, NullAssumption
  <2>4. [runs[r] EXCEPT !.status = status].brief = runs[r].brief
    BY <2>1 DEF RunRecord
  <2>5. QED
    BY <1>2, <2>2, <2>3, <2>4 DEF TypeOK, RecordLifecycle, RunsEndure, ClosuresEndure
<1>3. ASSUME TypeOK, NEW c \in Closure, NEW r, NEW completes, NEW candidate, NEW evidence, NEW actor,
             StageClosure(c, r, completes, candidate, evidence, actor)
      PROVE  RunsEndure /\ ClosuresEndure
  BY <1>3 DEF TypeOK, StageClosure, RunsEndure, ClosuresEndure
<1>4. QED
  BY <1>1, <1>2, <1>3 DEF RunEvent

LEMMA Concluded ==
  ASSUME NEW rec \in PromotionRecord, NEW s \in PromotionStatus
  PROVE  SameLineage(rec, [rec EXCEPT !.status = s])
<1>1. [rec EXCEPT !.status = s] \in PromotionRecord
  BY DEF PromotionRecord
<1>2. [rec EXCEPT !.status = s] # Null
  BY <1>1, NullAssumption
<1>3. QED
  BY <1>2 DEF SameLineage, PromotionRecord

LEMMA PromotionFrame == TypeOK /\ PromotionEvent => PromotionsEndure
<1>1. ASSUME TypeOK, NEW p \in Promotion, NEW c, NEW v, NEW d, NEW changed, NEW actor,
             ProposePromotion(p, c, v, d, changed, actor)
      PROVE  PromotionsEndure
  BY <1>1 DEF TypeOK, ProposePromotion, PromotionsEndure, SameLineage
<1>2. ASSUME TypeOK, NEW p \in Promotion, NEW actor, AuthorizePromotion(p, actor)
      PROVE  PromotionsEndure
  <2>1. promotions[p] \in PromotionRecord
    BY <1>2 DEF TypeOK, AuthorizePromotion
  <2>2. SameLineage(promotions[p], [promotions[p] EXCEPT !.status = "authorized"])
    BY <2>1, Concluded DEF PromotionStatus
  <2>3. QED
    BY <1>2, <2>2 DEF TypeOK, AuthorizePromotion, PromotionsEndure, SameLineage
<1>3. ASSUME TypeOK, NEW p \in Promotion, NEW outcome, NEW actor,
             RecordPromotionOutcome(p, outcome, actor)
      PROVE  PromotionsEndure
  <2>1. promotions[p] \in PromotionRecord
    BY <1>3 DEF TypeOK, RecordPromotionOutcome
  <2>2. SameLineage(promotions[p], [promotions[p] EXCEPT !.status = outcome])
    BY <1>3, <2>1, Concluded DEF RecordPromotionOutcome, PromotionStatus
  <2>3. QED
    BY <1>3, <2>2 DEF TypeOK, RecordPromotionOutcome, PromotionsEndure, SameLineage
<1>4. QED
  BY <1>1, <1>2, <1>3 DEF PromotionEvent

\* What a kind of event leaves alone altogether.
LEMMA Untouched ==
  /\ SourceEvent => UNCHANGED <<head, nodes, deltas, briefs, runs, closures, validations, promotions>>
  /\ DeltaEvent => UNCHANGED <<sources, briefs, runs, closures, validations, promotions>>
  /\ BriefEvent => UNCHANGED <<head, nodes, sources, deltas, runs, closures, validations, promotions>>
  /\ RunEvent => UNCHANGED <<head, nodes, sources, deltas, briefs, validations, promotions>>
  /\ ValidationEvent => UNCHANGED <<head, nodes, sources, deltas, briefs, runs, closures, promotions>>
  /\ PromotionEvent => UNCHANGED <<head, nodes, sources, deltas, briefs, runs, closures, validations>>
<1>1. SourceEvent => UNCHANGED <<head, nodes, deltas, briefs, runs, closures, validations, promotions>>
  BY DEF SourceEvent, CaptureSource
<1>2. DeltaEvent => UNCHANGED <<sources, briefs, runs, closures, validations, promotions>>
  <2>1. ASSUME NEW d, NEW purpose, NEW ops, NEW refs, NEW c, NEW v, NEW prior,
               ProposeDelta(d, purpose, ops, refs, c, v, prior)
               \/ SupersedeDelta(prior, d, purpose, ops, refs, c, v)
        PROVE  UNCHANGED <<sources, briefs, runs, closures, validations, promotions>>
    BY <2>1 DEF ProposeDelta, SupersedeDelta
  <2>2. ASSUME NEW d, NEW disposition, DisposeDelta(d, disposition)
        PROVE  UNCHANGED <<sources, briefs, runs, closures, validations, promotions>>
    BY <2>2 DEF DisposeDelta
  <2>3. ASSUME NEW d, NEW actor, NEW attested, AcceptDelta(d, actor, attested)
        PROVE  UNCHANGED <<sources, briefs, runs, closures, validations, promotions>>
    BY <2>3 DEF AcceptDelta
  <2>4. QED
    BY <2>1, <2>2, <2>3 DEF DeltaEvent
<1>3. BriefEvent => UNCHANGED <<head, nodes, sources, deltas, runs, closures, validations, promotions>>
  BY DEF BriefEvent, CompileBrief
<1>4. RunEvent => UNCHANGED <<head, nodes, sources, deltas, briefs, validations, promotions>>
  BY DEF RunEvent, AuthorizeRun, RecordLifecycle, StageClosure
<1>5. ValidationEvent => UNCHANGED <<head, nodes, sources, deltas, briefs, runs, closures, promotions>>
  BY DEF ValidationEvent, RecordValidation
<1>6. PromotionEvent => UNCHANGED <<head, nodes, sources, deltas, briefs, runs, closures, validations>>
  BY DEF PromotionEvent, ProposePromotion, AuthorizePromotion, RecordPromotionOutcome
<1>7. QED
  BY <1>1, <1>2, <1>3, <1>4, <1>5, <1>6

LEMMA NextFrame == TypeOK /\ [Next]_vars => Endures
<1>1. BriefEvent /\ TypeOK => BriefsEndure
  BY DEF BriefEvent, CompileBrief, BriefsEndure, TypeOK
<1>2. ValidationEvent /\ TypeOK => ValidationsEndure
  BY DEF ValidationEvent, RecordValidation, ValidationsEndure, TypeOK
<1>3. /\ UNCHANGED deltas => DeltasEndure
      /\ UNCHANGED runs => RunsEndure
      /\ UNCHANGED briefs => BriefsEndure
      /\ UNCHANGED closures => ClosuresEndure
      /\ UNCHANGED validations => ValidationsEndure
      /\ UNCHANGED promotions => PromotionsEndure
  BY DEF DeltasEndure, RunsEndure, BriefsEndure, ClosuresEndure, ValidationsEndure, PromotionsEndure,
         SameProposal, SameLineage
<1>4. QED
  BY <1>1, <1>2, <1>3, Untouched, DeltaFrame, RunFrame, PromotionFrame DEF Next, Endures, vars

\* No event revises what another one recorded: a decided delta, a settled run,
\* a brief, a closure, a validation and a concluded promotion stay as they are.
THEOREM RecordsNeverRevised == Spec => RecordsEndure
<1>1. Spec => [][TypeOK /\ [Next]_vars]_vars
  BY TypeCorrect, PTL DEF Spec
<1>2. TypeOK /\ [Next]_vars => Endures
  BY NextFrame
<1>3. QED
  BY <1>1, <1>2, PTL DEF RecordsEndure

-------------------------------------------------------------------------------
(* Lineage.                                                                *)

\* A delta, a run or a closure that is recorded has the type of a record.
LEMMA Recorded ==
  ASSUME TypeOK
  PROVE  /\ \A d \in Delta : deltas[d] # Null => deltas[d] \in DeltaRecord
         /\ \A r \in Run : runs[r] # Null => runs[r] \in RunRecord
         /\ \A c \in Closure : closures[c] # Null => closures[c] \in ClosureRecord
         /\ \A v \in Validation : validations[v] # Null => validations[v] \in ValidationRecord
         /\ \A p \in Promotion : promotions[p] # Null => promotions[p] \in PromotionRecord
  BY DEF TypeOK

\* The brief behind a recorded closure is fixed for good.
LEMMA BriefStays ==
  ASSUME TypeOK, LineageHolds, Endures, NEW c \in Closure, closures[c] # Null
  PROVE  /\ closures'[c] = closures[c]
         /\ runs'[closures[c].run] = runs[closures[c].run]
         /\ BriefOfClosure(c)' = BriefOfClosure(c)
<1>1. closures'[c] = closures[c]
  BY DEF Endures, ClosuresEndure
<1>2. closures[c].run \in Run /\ closures[c].outcome \in {"returned", "failed", "cancelled"}
  BY Recorded DEF ClosureRecord
<1>3. runs[closures[c].run] # Null /\ runs[closures[c].run].status = closures[c].outcome
  BY DEF LineageHolds
<1>4. runs'[closures[c].run] = runs[closures[c].run]
  BY <1>2, <1>3 DEF Endures, RunsEndure, Settled
<1>5. runs[closures[c].run].brief \in Brief /\ briefs[runs[closures[c].run].brief] # Null
  BY <1>2, <1>3, Recorded DEF LineageHolds, RunRecord
<1>6. briefs'[runs[closures[c].run].brief] = briefs[runs[closures[c].run].brief]
  BY <1>5 DEF Endures, BriefsEndure
<1>7. QED
  BY <1>1, <1>4, <1>6 DEF BriefOfClosure, BriefOfRun

\* What a new record names was there when it was written.
LEMMA NewRun ==
  ASSUME TypeOK, [Next]_vars, NEW r \in Run, runs[r] = Null, runs'[r] # Null
  PROVE  runs'[r].brief \in Brief /\ briefs[runs'[r].brief] # Null
<1>1. RunEvent
  BY Untouched DEF Next, vars
<1>2. \E b \in Brief : briefs[b] # Null /\ runs'[r].brief = b
  <2>1. ASSUME NEW q \in Run, NEW b \in Brief, NEW actor, AuthorizeRun(q, b, actor)
        PROVE  briefs[b] # Null /\ runs'[r].brief = b
    BY <2>1 DEF AuthorizeRun, TypeOK
  <2>2. ASSUME NEW q \in Run, NEW status, NEW actor, RecordLifecycle(q, status, actor)
        PROVE  FALSE
    BY <2>2 DEF RecordLifecycle, TypeOK
  <2>3. ASSUME NEW c, NEW q, NEW completes, NEW candidate, NEW evidence, NEW actor,
               StageClosure(c, q, completes, candidate, evidence, actor)
        PROVE  FALSE
    BY <2>3 DEF StageClosure
  <2>4. QED
    BY <1>1, <2>1, <2>2, <2>3 DEF RunEvent
<1>3. QED
  BY <1>2

LEMMA NewClosure ==
  ASSUME TypeOK, [Next]_vars, NEW c \in Closure, closures[c] = Null, closures'[c] # Null
  PROVE  /\ closures'[c].run \in Run /\ runs' = runs
         /\ runs[closures'[c].run] # Null
         /\ runs[closures'[c].run].status = closures'[c].outcome
<1>1. RunEvent
  BY Untouched DEF Next, vars
<1>2. ASSUME NEW q, NEW b, NEW actor, AuthorizeRun(q, b, actor)
      PROVE  FALSE
  BY <1>2 DEF AuthorizeRun
<1>3. ASSUME NEW q, NEW status, NEW actor, RecordLifecycle(q, status, actor)
      PROVE  FALSE
  BY <1>3 DEF RecordLifecycle
<1>4. ASSUME NEW e \in Closure, NEW q \in Run, NEW completes, NEW candidate, NEW evidence, NEW actor,
             StageClosure(e, q, completes, candidate, evidence, actor)
      PROVE  /\ closures'[c].run \in Run /\ runs' = runs
             /\ runs[closures'[c].run] # Null
             /\ runs[closures'[c].run].status = closures'[c].outcome
  BY <1>4 DEF StageClosure, TypeOK
<1>5. QED
  BY <1>1, <1>2, <1>3, <1>4 DEF RunEvent

LEMMA NewValidation ==
  ASSUME TypeOK, [Next]_vars, NEW v \in Validation, validations[v] = Null, validations'[v] # Null
  PROVE  validations'[v].closure \in Closure /\ closures[validations'[v].closure] # Null
<1>1. ValidationEvent
  BY Untouched DEF Next, vars
<1>2. ASSUME NEW w \in Validation, NEW c \in Closure, NEW s, NEW met, NEW actor,
             RecordValidation(w, c, s, met, actor)
      PROVE  validations'[v].closure \in Closure /\ closures[validations'[v].closure] # Null
  BY <1>2 DEF RecordValidation, TypeOK
<1>3. QED
  BY <1>1, <1>2 DEF ValidationEvent

LEMMA NewBrief ==
  ASSUME TypeOK, [Next]_vars, NEW b \in Brief, briefs[b] = Null, briefs'[b] # Null,
         briefs'[b].target \in Profiled
  PROVE  briefs'[b].blocks /\ briefs'[b].required = ProfileRequirement
<1>1. BriefEvent
  BY Untouched DEF Next, vars
<1>2. ASSUME NEW e \in Brief, NEW target \in Node, NEW mode, NEW base, NEW required,
             NEW blocks \in BOOLEAN, NEW expected,
             CompileBrief(e, target, mode, base, required, blocks, expected)
      PROVE  briefs'[b].blocks /\ briefs'[b].required = ProfileRequirement
  <2>1. briefs'[b] = [base |-> head, target |-> target, mode |-> mode, artifactBase |-> base,
                      required |-> required, blocks |-> blocks, expected |-> expected]
    BY <1>2 DEF CompileBrief, TypeOK
  <2>2. target \in Profiled => required = ProfileRequirement /\ blocks
    BY <1>2 DEF CompileBrief, ContractHolds
  <2>3. QED
    BY <2>1, <2>2
<1>3. QED
  BY <1>1, <1>2 DEF BriefEvent

\* A delta that appears is open, stands on the head and, if it reconciles, on
\* the closure and validation ProposalHolds asked for.
LEMMA NewDeltaHolds ==
  ASSUME TypeOK, [Next]_vars, NEW d \in Delta, deltas[d] = Null, deltas'[d] # Null
  PROVE  /\ UNCHANGED <<head, nodes, sources, briefs, runs, closures, validations, promotions>>
         /\ \E purpose \in Purpose, ops \in Operations, refs \in SUBSET Source,
               c \in Closure \cup {Null}, v \in Validation \cup {Null}, prior \in Delta \cup {Null} :
              /\ ProposalHolds(purpose, ops, refs, c, v)
              /\ deltas'[d] = NewDelta(purpose, ops, refs, c, v, prior)
<1>1. DeltaEvent
  BY Untouched DEF Next, vars
<1>2. ASSUME NEW e \in Delta, NEW purpose, NEW ops, NEW refs, NEW c, NEW v, NEW prior,
             ProposeDelta(e, purpose, ops, refs, c, v, prior)
      PROVE  /\ UNCHANGED <<head, nodes, sources, briefs, runs, closures, validations, promotions>>
             /\ ProposalHolds(purpose, ops, refs, c, v)
             /\ deltas'[d] = NewDelta(purpose, ops, refs, c, v, prior)
  BY <1>2 DEF ProposeDelta, TypeOK
<1>3. ASSUME NEW e \in Delta, NEW prior \in Delta, NEW purpose, NEW ops, NEW refs, NEW c, NEW v,
             SupersedeDelta(prior, e, purpose, ops, refs, c, v)
      PROVE  /\ UNCHANGED <<head, nodes, sources, briefs, runs, closures, validations, promotions>>
             /\ ProposalHolds(purpose, ops, refs, c, v)
             /\ deltas'[d] = NewDelta(purpose, ops, refs, c, v, prior)
  BY <1>3 DEF SupersedeDelta, Open, TypeOK
<1>4. ASSUME NEW e \in Delta, NEW disposition, DisposeDelta(e, disposition)
      PROVE  FALSE
  BY <1>4 DEF DisposeDelta, Open, TypeOK
<1>5. ASSUME NEW e \in Delta, NEW actor, NEW attested, AcceptDelta(e, actor, attested)
      PROVE  FALSE
  BY <1>5 DEF AcceptDelta, Open, TypeOK
<1>6. QED
  BY <1>1, <1>2, <1>3, <1>4, <1>5 DEF DeltaEvent

LEMMA LineageStep ==
  ASSUME TypeOK, LineageHolds, [Next]_vars
  PROVE  LineageHolds'
<1> USE NextFrame
<1>1. Endures
  OBVIOUS
<1>2. ASSUME NEW r \in Run, runs'[r] # Null
      PROVE  briefs'[runs'[r].brief] # Null
  <2>1. CASE runs[r] # Null
    <3>1. runs'[r].brief = runs[r].brief /\ briefs[runs[r].brief] # Null /\ runs[r].brief \in Brief
      BY <1>1, <2>1, Recorded DEF Endures, RunsEndure, LineageHolds, RunRecord
    <3>2. QED
      BY <1>1, <3>1 DEF Endures, BriefsEndure
  <2>2. CASE runs[r] = Null
    BY <1>1, <1>2, <2>2, NewRun DEF Endures, BriefsEndure
  <2>3. QED
    BY <2>1, <2>2
<1>3. ASSUME NEW c \in Closure, closures'[c] # Null
      PROVE  runs'[closures'[c].run] # Null /\ runs'[closures'[c].run].status = closures'[c].outcome
  <2>1. CASE closures[c] # Null
    BY <1>1, <2>1, BriefStays DEF LineageHolds
  <2>2. CASE closures[c] = Null
    BY <1>3, <2>2, NewClosure
  <2>3. QED
    BY <2>1, <2>2
<1>4. ASSUME NEW v \in Validation, validations'[v] # Null
      PROVE  closures'[validations'[v].closure] # Null
  <2>1. CASE validations[v] # Null
    BY <1>1, <2>1, Recorded
       DEF Endures, ValidationsEndure, ClosuresEndure, LineageHolds, ValidationRecord
  <2>2. CASE validations[v] = Null
    BY <1>1, <1>4, <2>2, NewValidation DEF Endures, ClosuresEndure
  <2>3. QED
    BY <2>1, <2>2
<1>5. ASSUME NEW b \in Brief, briefs'[b] # Null, briefs'[b].target \in Profiled
      PROVE  briefs'[b].blocks /\ briefs'[b].required = ProfileRequirement
  <2>1. CASE briefs[b] # Null
    BY <1>1, <1>5, <2>1 DEF Endures, BriefsEndure, LineageHolds
  <2>2. CASE briefs[b] = Null
    BY <1>5, <2>2, NewBrief
  <2>3. QED
    BY <2>1, <2>2
<1>6. ASSUME NEW d \in Delta, deltas'[d] # Null, deltas'[d].purpose = "reconciliation"
      PROVE  ReconciliationLineage(d)'
  <2>1. CASE deltas[d] # Null
    <3>1. SameProposal(deltas[d], deltas'[d])
      BY <1>1, <2>1 DEF Endures, DeltasEndure
    <3>2. ReconciliationLineage(d)
      BY <1>6, <2>1, <3>1 DEF LineageHolds, SameProposal
    <3>3. PICK c \in Closure : c = deltas[d].closure /\ closures[c] # Null
      BY <3>2 DEF ReconciliationLineage
    <3>4. closures'[c] = closures[c] /\ BriefOfClosure(c)' = BriefOfClosure(c)
      BY <1>1, <3>3, BriefStays
    <3>5. validations'[deltas[d].validation] = validations[deltas[d].validation]
      BY <1>1, <3>2 DEF ReconciliationLineage, Endures, ValidationsEndure
    <3>6. QED
      BY <3>1, <3>2, <3>3, <3>4, <3>5
         DEF ReconciliationLineage, SameProposal, BriefOfClosure, BriefOfRun
  <2>2. CASE deltas[d] = Null
    <3>1. PICK purpose \in Purpose, ops \in Operations, refs \in SUBSET Source,
               c \in Closure \cup {Null}, v \in Validation \cup {Null}, prior \in Delta \cup {Null} :
            /\ ProposalHolds(purpose, ops, refs, c, v)
            /\ deltas'[d] = NewDelta(purpose, ops, refs, c, v, prior)
      BY <1>6, <2>2, NewDeltaHolds
    <3>2. UNCHANGED <<briefs, runs, closures, validations>>
      BY <1>6, <2>2, NewDeltaHolds
    <3>3. /\ purpose = "reconciliation"
          /\ deltas'[d].closure = c /\ deltas'[d].validation = v /\ deltas'[d].base = head
      BY <1>6, <3>1 DEF NewDelta
    <3>4. /\ c \in Closure /\ closures[c] # Null /\ closures[c].outcome = "returned"
          /\ BriefOfClosure(c).base = head
          /\ v \in Validation /\ validations[v] # Null /\ validations[v].closure = c
      BY <3>1, <3>3 DEF ProposalHolds, BasedOnHead
    <3>5. QED
      BY <3>2, <3>3, <3>4 DEF ReconciliationLineage, BriefOfClosure, BriefOfRun
  <2>3. QED
    BY <2>1, <2>2
<1>7. QED
  BY <1>2, <1>3, <1>4, <1>5, <1>6 DEF LineageHolds

-------------------------------------------------------------------------------
(* Integrations.                                                           *)

\* The head moves only with the delta that delta.accepted names.
LEMMA HeadMoves ==
  ASSUME TypeOK, [Next]_vars, head' # head
  PROVE  \E d \in Delta, actor \in Actor, attested \in ArtifactBase : AcceptDelta(d, actor, attested)
<1>1. DeltaEvent
  BY Untouched DEF Next, vars
<1>2. ASSUME NEW d, NEW purpose, NEW ops, NEW refs, NEW c, NEW v, NEW prior,
             ProposeDelta(d, purpose, ops, refs, c, v, prior)
             \/ SupersedeDelta(prior, d, purpose, ops, refs, c, v)
      PROVE  FALSE
  BY <1>2 DEF ProposeDelta, SupersedeDelta
<1>3. ASSUME NEW d, NEW disposition, DisposeDelta(d, disposition)
      PROVE  FALSE
  BY <1>3 DEF DisposeDelta
<1>4. QED
  BY <1>1, <1>2, <1>3 DEF DeltaEvent

\* A delta becomes accepted only by delta.accepted.
LEMMA NewlyAccepted ==
  ASSUME TypeOK, [Next]_vars, NEW d \in Delta, ~Accepted(d), Accepted(d)'
  PROVE  \E actor \in Actor, attested \in ArtifactBase : AcceptDelta(d, actor, attested)
<1>1. DeltaEvent
  BY Untouched DEF Next, vars, Accepted
<1>2. ASSUME NEW e \in Delta, NEW purpose, NEW ops, NEW refs, NEW c, NEW v, NEW prior,
             ProposeDelta(e, purpose, ops, refs, c, v, prior)
      PROVE  FALSE
  BY <1>2 DEF ProposeDelta, TypeOK, Accepted, NewDelta
<1>3. ASSUME NEW e \in Delta, NEW prior \in Delta, NEW purpose, NEW ops, NEW refs, NEW c, NEW v,
             SupersedeDelta(prior, e, purpose, ops, refs, c, v)
      PROVE  FALSE
  <2>1. deltas[prior] \in DeltaRecord /\ prior # e
    BY <1>3 DEF SupersedeDelta, Open, TypeOK
  <2>2. deltas' = [deltas EXCEPT ![prior] = [deltas[prior] EXCEPT !.disposition = "superseded",
                                                                  !.supersededBy = e],
                                 ![e] = NewDelta(purpose, ops, refs, c, v, prior)]
    BY <1>3, <2>1 DEF SupersedeDelta, TypeOK
  <2>3. [deltas[prior] EXCEPT !.disposition = "superseded", !.supersededBy = e].disposition # "accepted"
    BY <2>1 DEF DeltaRecord
  <2>4. NewDelta(purpose, ops, refs, c, v, prior).disposition # "accepted"
    BY DEF NewDelta
  <2>5. QED
    BY <2>2, <2>3, <2>4 DEF Accepted, TypeOK
<1>4. ASSUME NEW e \in Delta, NEW disposition, DisposeDelta(e, disposition)
      PROVE  FALSE
  <2>1. deltas[e] \in DeltaRecord
    BY <1>4 DEF DisposeDelta, Open, TypeOK
  <2>2. [deltas[e] EXCEPT !.disposition = disposition].disposition # "accepted"
    BY <1>4, <2>1 DEF DisposeDelta, DeltaRecord
  <2>3. QED
    BY <1>4, <2>2 DEF DisposeDelta, Accepted, TypeOK
<1>5. ASSUME NEW e \in Delta, NEW actor, NEW attested, AcceptDelta(e, actor, attested)
      PROVE  e = d
  BY <1>5 DEF AcceptDelta, Accepted, TypeOK
<1>6. QED
  BY <1>1, <1>2, <1>3, <1>4, <1>5 DEF DeltaEvent

\* What delta.accepted leaves: the delta with its proposal, on the next revision.
LEMMA AcceptEffect ==
  ASSUME TypeOK, NEW d \in Delta, NEW actor \in Actor, NEW attested \in ArtifactBase,
         AcceptDelta(d, actor, attested)
  PROVE  /\ deltas[d] \in DeltaRecord /\ ~Accepted(d)
         /\ deltas[d].base = head /\ head' = head + 1
         /\ Accepted(d)' /\ deltas'[d].revision = head + 1 /\ deltas'[d].acceptedBy = actor
         /\ SameProposal(deltas[d], deltas'[d])
         /\ \A e \in Delta : e # d => deltas'[e] = deltas[e]
<1>1. deltas[d] \in DeltaRecord /\ ~Accepted(d)
  BY DEF AcceptDelta, Open, TypeOK, Accepted
<1>2. head + 1 \in Nat /\ "accepted" \in Disposition
  BY DEF TypeOK, Disposition
<1>3. deltas'[d] = [deltas[d] EXCEPT !.disposition = "accepted", !.revision = head + 1,
                                     !.acceptedBy = actor]
  <2>1. deltas' = [deltas EXCEPT ![d] = [deltas[d] EXCEPT !.disposition = "accepted",
                                                          !.revision = head + 1,
                                                          !.acceptedBy = actor]]
    BY <1>1 DEF AcceptDelta, NextRevision, TypeOK
  <2>2. QED
    BY <2>1 DEF TypeOK
<1>4. SameProposal(deltas[d], deltas'[d])
  <2>1. SameProposal(deltas[d], [deltas[d] EXCEPT !.disposition = "accepted", !.revision = head + 1,
                                                  !.acceptedBy = actor])
    BY <1>1, <1>2, JudgedAccepted
  <2>2. QED
    BY <1>3, <2>1
<1>5. /\ deltas'[d].disposition = "accepted" /\ deltas'[d].revision = head + 1
      /\ deltas'[d].acceptedBy = actor
  BY <1>1, <1>3 DEF DeltaRecord
<1>6. \A e \in Delta : e # d => deltas'[e] = deltas[e]
  BY DEF AcceptDelta, TypeOK
<1>7. QED
  BY <1>1, <1>4, <1>5, <1>6 DEF AcceptDelta, FreshBase, NextRevision, Accepted, SameProposal

LEMMA HeadGrows ==
  ASSUME TypeOK, [Next]_vars
  PROVE  head' = head \/ head' = head + 1
  BY HeadMoves, AcceptEffect

LEMMA AcceptedStays ==
  ASSUME TypeOK, Endures, NEW d \in Delta, Accepted(d)
  PROVE  deltas'[d] = deltas[d]
  BY DEF Endures, DeltasEndure, Accepted

LEMMA LinearStep ==
  ASSUME TypeOK, LinearHistory, [Next]_vars
  PROVE  LinearHistory'
<1>1. Endures
  BY NextFrame
<1>2. CASE \E d \in Delta, actor \in Actor, attested \in ArtifactBase : AcceptDelta(d, actor, attested)
  <2>1. PICK d \in Delta, actor \in Actor, attested \in ArtifactBase : AcceptDelta(d, actor, attested)
    BY <1>2
  <2>2. /\ deltas[d].base = head /\ head' = head + 1 /\ head \in Nat
        /\ deltas'[d].revision = head + 1 /\ deltas'[d].base = head /\ Accepted(d)'
        /\ \A e \in Delta : e # d => deltas'[e] = deltas[e]
    BY <2>1, AcceptEffect DEF SameProposal, TypeOK
  <2>3. \A e \in Delta : e # d => (Accepted(e)' <=> Accepted(e))
    BY <2>2 DEF Accepted
  <2>4. \A e \in Delta : Accepted(e) => e # d /\ deltas[e].revision \in 1..head
    BY <2>1, AcceptEffect DEF LinearHistory
  <2>5. \A e \in Delta : Accepted(e)' =>
          deltas'[e].revision \in 1..head' /\ deltas'[e].base + 1 = deltas'[e].revision
    BY <2>2, <2>3 DEF LinearHistory
  <2>6. \A e, f \in Delta :
          Accepted(e)' /\ Accepted(f)' /\ deltas'[e].revision = deltas'[f].revision => e = f
    BY <2>2, <2>3, <2>4 DEF LinearHistory
  <2>7. \A n \in 1..head' : \E e \in Delta : Accepted(e)' /\ deltas'[e].revision = n
    <3>1. SUFFICES ASSUME NEW n \in 1..head'
                   PROVE  \E e \in Delta : Accepted(e)' /\ deltas'[e].revision = n
      OBVIOUS
    <3>2. CASE n = head + 1
      BY <2>2, <3>2
    <3>3. CASE n \in 1..head
      <4>1. PICK e \in Delta : Accepted(e) /\ deltas[e].revision = n
        BY <3>3 DEF LinearHistory
      <4>2. e # d
        BY <2>4, <4>1
      <4>3. QED
        BY <2>2, <2>3, <4>1, <4>2
    <3>4. QED
      BY <2>2, <3>2, <3>3
  <2>8. QED
    BY <2>5, <2>6, <2>7 DEF LinearHistory
<1>3. CASE ~\E d \in Delta, actor \in Actor, attested \in ArtifactBase : AcceptDelta(d, actor, attested)
  <2>1. head' = head
    BY <1>3, HeadMoves
  <2>2. \A d \in Delta : Accepted(d)' <=> Accepted(d)
    BY <1>1, <1>3, NewlyAccepted, AcceptedStays DEF Accepted
  <2>3. \A d \in Delta : Accepted(d) => deltas'[d] = deltas[d]
    BY <1>1, AcceptedStays
  <2>4. QED
    BY <2>1, <2>2, <2>3 DEF LinearHistory
<1>4. QED
  BY <1>2, <1>3

\* The evidence behind a recorded validation is as complete as it ever was.
LEMMA EvidenceStays ==
  ASSUME TypeOK, LineageHolds, Endures, NEW v \in Validation, validations[v] # Null
  PROVE  /\ validations'[v] = validations[v]
         /\ EvidenceComplete(v)' <=> EvidenceComplete(v)
<1>1. validations'[v] = validations[v]
  BY DEF Endures, ValidationsEndure
<1>2. PICK c \in Closure : c = validations[v].closure /\ closures[c] # Null
  BY Recorded DEF LineageHolds, ValidationRecord
<1>3. BriefOfClosure(c)' = BriefOfClosure(c)
  BY <1>2, BriefStays
<1>4. QED
  BY <1>1, <1>2, <1>3 DEF EvidenceComplete, BriefOfClosure, BriefOfRun

\* The posture of a reconciliation, once it is judged, does not change.
LEMMA PostureStays ==
  ASSUME TypeOK, LineageHolds, Endures, NEW d \in Delta,
         deltas[d] # Null, deltas[d].purpose = "reconciliation"
  PROVE  /\ ReconciliationLineage(d)
         /\ EvidenceComplete(deltas[d].validation)' <=> EvidenceComplete(deltas[d].validation)
         /\ BriefOfClosure(deltas[d].closure)' = BriefOfClosure(deltas[d].closure)
         /\ closures'[deltas'[d].closure] = closures[deltas[d].closure]
         /\ validations'[deltas'[d].validation] = validations[deltas[d].validation]
<1>1. ReconciliationLineage(d)
  BY DEF LineageHolds
<1>2. PICK c \in Closure : c = deltas[d].closure /\ closures[c] # Null
  BY <1>1 DEF ReconciliationLineage
<1>3. PICK v \in Validation : v = deltas[d].validation /\ validations[v] # Null
  BY <1>1 DEF ReconciliationLineage
<1>4. deltas'[d].closure = c /\ deltas'[d].validation = v
  BY <1>2, <1>3 DEF Endures, DeltasEndure, SameProposal
<1>5. BriefOfClosure(c)' = BriefOfClosure(c) /\ closures'[c] = closures[c]
  BY <1>2, BriefStays
<1>6. (EvidenceComplete(v)' <=> EvidenceComplete(v)) /\ validations'[v] = validations[v]
  BY <1>3, EvidenceStays
<1>7. QED
  BY <1>1, <1>2, <1>3, <1>4, <1>5, <1>6 DEF EvidenceComplete, BriefOfClosure, BriefOfRun

LEMMA IntegrationsStep ==
  ASSUME TypeOK, LineageHolds, IntegrationsHold, [Next]_vars
  PROVE  IntegrationsHold'
<1>1. Endures
  BY NextFrame
<1>2. ASSUME NEW d \in Delta, deltas'[d] # Null
      PROVE  deltas'[d].base <= head'
  <2>1. CASE deltas[d] # Null
    <3>1. deltas'[d].base = deltas[d].base
      BY <1>1, <2>1 DEF Endures, DeltasEndure, SameProposal
    <3>2. deltas[d].base <= head /\ deltas[d].base \in Nat /\ head \in Nat
      BY <2>1, Recorded DEF IntegrationsHold, DeltaRecord, TypeOK
    <3>3. QED
      BY <3>1, <3>2, HeadGrows
  <2>2. CASE deltas[d] = Null
    <3>1. head' = head
      BY <1>2, <2>2, NewDeltaHolds
    <3>2. PICK purpose \in Purpose, ops \in Operations, refs \in SUBSET Source,
               c \in Closure \cup {Null}, v \in Validation \cup {Null}, prior \in Delta \cup {Null} :
            deltas'[d] = NewDelta(purpose, ops, refs, c, v, prior)
      BY <1>2, <2>2, NewDeltaHolds
    <3>3. deltas'[d].base = head
      BY <3>2 DEF NewDelta
    <3>4. QED
      BY <3>1, <3>3 DEF TypeOK
  <2>3. QED
    BY <2>1, <2>2
<1>3. ASSUME NEW d \in Delta, Integrated(d)'
      PROVE  /\ deltas'[d].acceptedBy = "human"
             /\ \/ EvidenceComplete(deltas[d].validation)'
                \/ ~BriefOfClosure(deltas[d].closure)'.blocks
  <2>1. deltas[d] # Null /\ deltas[d].purpose = "reconciliation"
    <3>1. CASE Accepted(d)
      BY <1>1, <1>3, <3>1, AcceptedStays DEF Integrated, Accepted
    <3>2. CASE ~Accepted(d)
      BY <1>3, <3>2, NewlyAccepted, AcceptEffect, NullAssumption DEF Integrated, SameProposal
    <3>3. QED
      BY <3>1, <3>2
  <2>2. /\ EvidenceComplete(deltas[d].validation)' <=> EvidenceComplete(deltas[d].validation)
        /\ BriefOfClosure(deltas[d].closure)' = BriefOfClosure(deltas[d].closure)
    BY <1>1, <2>1, PostureStays
  <2>3. CASE Accepted(d)
    BY <1>1, <2>1, <2>2, <2>3, AcceptedStays DEF Integrated, IntegrationsHold
  <2>4. CASE ~Accepted(d)
    <3>1. PICK actor \in Actor, attested \in ArtifactBase : AcceptDelta(d, actor, attested)
      BY <1>3, <2>4, NewlyAccepted DEF Integrated
    <3>2. actor = "human"
      BY <2>1, <3>1 DEF AcceptDelta, ReconciliationHolds
    <3>3. deltas'[d].acceptedBy = actor
      BY <3>1, AcceptEffect
    <3>4. EvidenceComplete(deltas[d].validation) \/ ~BriefOfClosure(deltas[d].closure).blocks
      BY <2>1, <3>1 DEF AcceptDelta, GateAllows
    <3>5. QED
      BY <2>2, <3>2, <3>3, <3>4
  <2>5. QED
    BY <2>3, <2>4
<1>4. QED
  BY <1>2, <1>3 DEF IntegrationsHold

-------------------------------------------------------------------------------
(* Promotions.                                                             *)

\* What one event does to the promotions: it proposes one, or it moves the
\* status of one whose revision is the head.
Proposed(p) ==
  \E c \in Closure, v \in Validation, d \in Delta, changed \in SUBSET Path, actor \in Actor :
    ProposePromotion(p, c, v, d, changed, actor)

Moved(p, status) ==
  /\ promotions[p] # Null
  /\ promotions[p].status \notin {"failed", "stale"}
  /\ promotions[p].revision = head
  /\ promotions' = [promotions EXCEPT ![p].status = status]

LEMMA PromotionSteps ==
  ASSUME TypeOK, [Next]_vars, promotions' # promotions
  PROVE  /\ UNCHANGED <<head, nodes, sources, deltas, briefs, runs, closures, validations>>
         /\ \E p \in Promotion : Proposed(p) \/ \E s \in PromotionStatus : Moved(p, s)
<1>1. PromotionEvent
  BY Untouched DEF Next, vars
<1>2. ASSUME NEW p \in Promotion, NEW actor \in Actor, AuthorizePromotion(p, actor)
      PROVE  Moved(p, "authorized")
  BY <1>2 DEF AuthorizePromotion, Moved, AtHead
<1>3. ASSUME NEW p \in Promotion, NEW outcome \in PromotionStatus, NEW actor \in Actor,
             RecordPromotionOutcome(p, outcome, actor)
      PROVE  Moved(p, outcome)
  BY <1>3 DEF RecordPromotionOutcome, Moved, AtHead
<1>4. "authorized" \in PromotionStatus
  BY DEF PromotionStatus
<1>5. \E p \in Promotion : Proposed(p) \/ \E s \in PromotionStatus : Moved(p, s)
  BY <1>1, <1>2, <1>3, <1>4 DEF PromotionEvent, Proposed
<1>6. QED
  BY <1>1, <1>5, Untouched

\* A proposed promotion: where it stands and what it asked of the others.
LEMMA ProposedEffect ==
  ASSUME TypeOK, NEW p \in Promotion, Proposed(p)
  PROVE  /\ promotions[p] = Null /\ promotions'[p] # Null
         /\ promotions'[p].status = "proposed" /\ promotions'[p].revision = head
         /\ promotions'[p].closure \in Closure /\ promotions'[p].validation \in Validation
         /\ promotions'[p].delta \in Delta
         /\ \A q \in Promotion : Standing(q) => promotions[q].closure # promotions'[p].closure
         /\ PromotionLineage(promotions'[p].closure, promotions'[p].validation, promotions'[p].delta)
         /\ BriefOfClosure(promotions'[p].closure).target \in Profiled
         /\ \A q \in Promotion : q # p => promotions'[q] = promotions[q]
<1>1. PICK c \in Closure, v \in Validation, d \in Delta, changed \in SUBSET Path, actor \in Actor :
        ProposePromotion(p, c, v, d, changed, actor)
  BY DEF Proposed
<1>2. promotions'[p] = [closure |-> c, validation |-> v, delta |-> d, revision |-> head,
                        changed |-> changed, status |-> "proposed"]
  BY <1>1 DEF ProposePromotion, TypeOK
<1>3. promotions'[p] # Null
  <2>1. promotions'[p] \in PromotionRecord
    BY <1>2 DEF PromotionRecord, PromotionStatus, TypeOK
  <2>2. QED
    BY <2>1, NullAssumption
<1>4. /\ promotions[p] = Null
      /\ \A q \in Promotion : Standing(q) => promotions[q].closure # c
      /\ PromotionLineage(c, v, d) /\ BriefOfClosure(c).target \in Profiled
      /\ \A q \in Promotion : q # p => promotions'[q] = promotions[q]
  BY <1>1 DEF ProposePromotion, Standing, Live, TypeOK
<1>5. QED
  BY <1>2, <1>3, <1>4

\* A moved promotion was standing, and it and the others keep their lineage.
LEMMA MovedEffect ==
  ASSUME TypeOK, NEW p \in Promotion, NEW s \in PromotionStatus, Moved(p, s)
  PROVE  /\ Standing(p) /\ promotions[p].revision = head
         /\ SameLineage(promotions[p], promotions'[p]) /\ promotions'[p].status = s
         /\ \A q \in Promotion : q # p => promotions'[q] = promotions[q]
<1>1. promotions[p] \in PromotionRecord
  BY DEF Moved, TypeOK
<1>2. promotions'[p] = [promotions[p] EXCEPT !.status = s]
  BY DEF Moved, TypeOK
<1>3. SameLineage(promotions[p], [promotions[p] EXCEPT !.status = s])
  BY <1>1, Concluded
<1>4. SameLineage(promotions[p], promotions'[p])
  BY <1>2, <1>3
<1>5. promotions'[p].status = s
  BY <1>1, <1>2 DEF PromotionRecord
<1>6. QED
  BY <1>4, <1>5 DEF Moved, Standing, TypeOK

\* A grounded lineage stays grounded.
LEMMA GroundedStays ==
  ASSUME TypeOK, LineageHolds, Endures,
         NEW c \in Closure, NEW v \in Validation, NEW d \in Delta, NEW n,
         Grounded(c, v, d, n)
  PROVE  Grounded(c, v, d, n)'
<1>1. deltas'[d] = deltas[d] /\ deltas[d] # Null /\ deltas[d].purpose = "reconciliation"
  BY AcceptedStays DEF Grounded, Integrated, Accepted
<1>2. ReconciliationLineage(d) /\ deltas[d].closure = c /\ deltas[d].validation = v
  BY <1>1 DEF LineageHolds, Grounded
<1>3. closures[c] # Null /\ validations[v] # Null
  BY <1>2 DEF ReconciliationLineage
<1>4. /\ closures'[c] = closures[c] /\ runs'[closures[c].run] = runs[closures[c].run]
      /\ BriefOfClosure(c)' = BriefOfClosure(c)
  BY <1>3, BriefStays
<1>5. validations'[v] = validations[v]
  BY <1>3 DEF Endures, ValidationsEndure
<1>6. QED
  BY <1>1, <1>4, <1>5 DEF Grounded, Integrated, Accepted

\* What artifact.promotion_proposed asks is the whole lineage: the gate of the
\* integration stands in for the evidence it does not look at again.
LEMMA LineageGrounds ==
  ASSUME TypeOK, LineageHolds, IntegrationsHold,
         NEW c \in Closure, NEW v \in Validation, NEW d \in Delta,
         PromotionLineage(c, v, d), BriefOfClosure(c).target \in Profiled
  PROVE  Grounded(c, v, d, head)
<1>1. Integrated(d) /\ deltas[d].closure = c /\ deltas[d].validation = v /\ closures[c] # Null
  BY DEF PromotionLineage, Integrated, Accepted
<1>2. /\ deltas[d].acceptedBy = "human"
      /\ EvidenceComplete(v) \/ ~BriefOfClosure(c).blocks
  BY <1>1 DEF IntegrationsHold
<1>3. BriefOfClosure(c).blocks /\ BriefOfClosure(c).required = ProfileRequirement
  <2>1. closures[c].run \in Run /\ runs[closures[c].run] # Null
    BY <1>1, Recorded DEF LineageHolds, ClosureRecord
  <2>2. runs[closures[c].run].brief \in Brief /\ briefs[runs[closures[c].run].brief] # Null
    BY <2>1, Recorded DEF LineageHolds, RunRecord
  <2>3. QED
    BY <2>2 DEF LineageHolds, BriefOfClosure, BriefOfRun
<1>4. ProfileRequirement \subseteq validations[v].met
  BY <1>2, <1>3 DEF EvidenceComplete, PromotionLineage
<1>5. QED
  BY <1>1, <1>2, <1>4 DEF PromotionLineage, Grounded

LEMMA PromotionStep ==
  ASSUME TypeOK, LineageHolds, IntegrationsHold, PromotionGrounded, [Next]_vars
  PROVE  PromotionGrounded'
<1>1. Endures
  BY NextFrame
<1>2. ASSUME NEW p \in Promotion, promotions'[p] # Null
      PROVE  Grounded(promotions[p].closure, promotions[p].validation,
                      promotions[p].delta, promotions[p].revision)'
  <2>1. CASE promotions[p] # Null
    <3>1. promotions[p] \in PromotionRecord /\ SameLineage(promotions[p], promotions'[p])
      BY <1>1, <2>1, Recorded DEF Endures, PromotionsEndure
    <3>2. PICK c \in Closure, v \in Validation, d \in Delta, n \in Nat :
            /\ c = promotions[p].closure /\ v = promotions[p].validation
            /\ d = promotions[p].delta /\ n = promotions[p].revision
      BY <3>1 DEF PromotionRecord
    <3>3. Grounded(c, v, d, n)
      BY <2>1, <3>2 DEF PromotionGrounded
    <3>4. Grounded(c, v, d, n)'
      BY <1>1, <3>3, GroundedStays
    <3>5. QED
      BY <3>1, <3>2, <3>4 DEF SameLineage
  <2>2. CASE promotions[p] = Null
    <3>1. promotions' # promotions
      BY <1>2, <2>2
    <3>2. Proposed(p)
      BY <1>2, <2>2, <3>1, PromotionSteps, ProposedEffect, MovedEffect DEF Moved
    <3>3. PICK c \in Closure, v \in Validation, d \in Delta, n \in Nat :
            /\ c = promotions'[p].closure /\ v = promotions'[p].validation
            /\ d = promotions'[p].delta /\ n = promotions'[p].revision /\ n = head
      BY <3>2, ProposedEffect DEF TypeOK
    <3>4. Grounded(c, v, d, n)
      BY <3>2, <3>3, ProposedEffect, LineageGrounds
    <3>5. Grounded(c, v, d, n)'
      BY <1>1, <3>4, GroundedStays
    <3>6. QED
      BY <3>3, <3>5
  <2>3. QED
    BY <2>1, <2>2
<1>3. QED
  BY <1>2 DEF PromotionGrounded

LEMMA StandingStep ==
  ASSUME TypeOK, OneStandingPerClosure, [Next]_vars
  PROVE  OneStandingPerClosure'
<1>1. CASE promotions' = promotions
  BY <1>1 DEF OneStandingPerClosure, Standing
<1>2. CASE \E p \in Promotion : Proposed(p)
  <2>1. PICK p \in Promotion : Proposed(p)
    BY <1>2
  <2>2. \A q \in Promotion : q # p /\ Standing(q)' =>
          Standing(q) /\ promotions'[q].closure = promotions[q].closure
                     /\ promotions[q].closure # promotions'[p].closure
    BY <2>1, ProposedEffect DEF Standing
  <2>3. QED
    BY <2>2 DEF OneStandingPerClosure
<1>3. CASE \E p \in Promotion, s \in PromotionStatus : Moved(p, s)
  <2>1. PICK p \in Promotion, s \in PromotionStatus : Moved(p, s)
    BY <1>3
  <2>2. \A q \in Promotion : Standing(q)' =>
          Standing(q) /\ promotions'[q].closure = promotions[q].closure
    BY <2>1, MovedEffect DEF Standing, SameLineage
  <2>3. QED
    BY <2>2 DEF OneStandingPerClosure
<1>4. QED
  BY <1>1, <1>2, <1>3, PromotionSteps

LEMMA HolderStep ==
  ASSUME TypeOK, HolderAtHead, [Next]_vars
  PROVE  HolderAtHead'
<1>1. CASE promotions' = promotions /\ head' = head
  BY <1>1 DEF HolderAtHead
<1>2. CASE promotions' = promotions /\ head' # head
  <2>1. HeadFree
    BY <1>2, HeadMoves DEF AcceptDelta
  <2>2. QED
    BY <1>2, <2>1 DEF HolderAtHead, HeadFree
<1>3. CASE promotions' # promotions
  <2>1. head' = head
    BY <1>3, PromotionSteps
  <2>2. CASE \E p \in Promotion : Proposed(p)
    <3>1. PICK p \in Promotion : Proposed(p)
      BY <2>2
    <3>2. QED
      BY <2>1, <3>1, ProposedEffect DEF HolderAtHead
  <2>3. CASE \E p \in Promotion, s \in PromotionStatus : Moved(p, s)
    <3>1. PICK p \in Promotion, s \in PromotionStatus : Moved(p, s)
      BY <2>3
    <3>2. QED
      BY <2>1, <3>1, MovedEffect DEF HolderAtHead, SameLineage
  <2>4. QED
    BY <1>3, <2>2, <2>3, PromotionSteps
<1>4. QED
  BY <1>1, <1>2, <1>3

-------------------------------------------------------------------------------
(* The inductive invariant and what follows from it.                       *)

LEMMA InitInv == Init => IInv
<1>1. ASSUME Init
      PROVE  LineageHolds /\ IntegrationsHold /\ PromotionGrounded
             /\ OneStandingPerClosure /\ HolderAtHead
  BY <1>1 DEF Init, LineageHolds, IntegrationsHold, Integrated, Accepted,
              PromotionGrounded, OneStandingPerClosure, HolderAtHead, Standing
<1>2. ASSUME Init
      PROVE  LinearHistory
  BY <1>2 DEF Init, LinearHistory, Accepted
<1>3. QED
  BY <1>1, <1>2, InitType DEF IInv

LEMMA NextInv == IInv /\ [Next]_vars => IInv'
  BY NextType, LineageStep, IntegrationsStep, LinearStep, PromotionStep, StandingStep, HolderStep
     DEF IInv

\* The strengthening holds in every reachable ledger.
THEOREM Invariant == Spec => []IInv
  BY InitInv, NextInv, PTL DEF Spec
\* Standing promotions of one revision are one promotion: the revision names
\* the delta, the delta the closure, and a closure stands once.
LEMMA OneStanding ==
  ASSUME IInv, NEW p \in Promotion, NEW q \in Promotion,
         Standing(p), Standing(q), promotions[p].revision = promotions[q].revision
  PROVE  p = q
<1>1. promotions[p] \in PromotionRecord /\ promotions[q] \in PromotionRecord
  BY Recorded DEF IInv, Standing
<1>2. PICK d \in Delta, e \in Delta : d = promotions[p].delta /\ e = promotions[q].delta
  BY <1>1 DEF PromotionRecord
<1>3. /\ Accepted(d) /\ deltas[d].revision = promotions[p].revision
      /\ deltas[d].closure = promotions[p].closure
      /\ Accepted(e) /\ deltas[e].revision = promotions[q].revision
      /\ deltas[e].closure = promotions[q].closure
  BY <1>2 DEF IInv, PromotionGrounded, Grounded, Integrated, Standing
<1>4. d = e
  BY <1>3 DEF IInv, LinearHistory
<1>5. QED
  BY <1>3, <1>4 DEF IInv, OneStandingPerClosure

\* A revision above genesis has one author, and no event forks the history.
THEOREM HistoryIsLinear == Spec => []LinearHistory
  BY Invariant, PTL DEF IInv

\* Nothing is promoted that was not executed live, validated against the whole
\* registered contract and integrated by a human.
THEOREM PromotionsAreGrounded == Spec => []PromotionGrounded
  BY Invariant, PTL DEF IInv

\* A revision is never under two promotions that may both still take effect.
THEOREM RevisionPromotedOnce == Spec => []OnePromotionPerRevision
<1>1. IInv => OnePromotionPerRevision
  BY OneStanding DEF OnePromotionPerRevision
<1>2. QED
  BY <1>1, Invariant, PTL

\* The authorized promotion is alone, and the head stays where it was authorized.
THEOREM ReservationHolds == Spec => []ReservationPinsHead
<1>1. IInv => ReservationPinsHead
  <2>1. SUFFICES ASSUME IInv
                 PROVE  ReservationPinsHead
    OBVIOUS
  <2>2. \A p \in Promotion : promotions[p] # Null /\ promotions[p].status = "authorized"
                              => promotions[p].revision = head /\ Standing(p)
    BY <2>1 DEF IInv, HolderAtHead, Standing
  <2>3. QED
    BY <2>1, <2>2, OneStanding DEF ReservationPinsHead
<1>2. QED
  BY <1>1, Invariant, PTL

\* One closure is integrated per revision, and once.
THEOREM ClosureIntegratedOnce == Spec => []IntegratedOnce
<1>1. ASSUME IInv, NEW d \in Delta, NEW e \in Delta, Integrated(d), Integrated(e), d # e
      PROVE  /\ deltas[d].closure # deltas[e].closure
             /\ BriefOfClosure(deltas[d].closure).base # BriefOfClosure(deltas[e].closure).base
  <2>1. deltas[d] \in DeltaRecord /\ deltas[e] \in DeltaRecord
    BY <1>1, Recorded DEF IInv, Integrated, Accepted
  <2>2. deltas[d].base + 1 # deltas[e].base + 1
    BY <1>1 DEF IInv, LinearHistory, Integrated
  <2>3. deltas[d].base # deltas[e].base
    BY <2>2
  <2>4. /\ BriefOfClosure(deltas[d].closure).base = deltas[d].base
        /\ BriefOfClosure(deltas[e].closure).base = deltas[e].base
    BY <1>1 DEF IInv, LineageHolds, ReconciliationLineage, Integrated, Accepted
  <2>5. QED
    BY <2>3, <2>4
<1>2. IInv => IntegratedOnce
  BY <1>1 DEF IntegratedOnce
<1>3. QED
  BY <1>2, Invariant, PTL

-------------------------------------------------------------------------------
(* A delta on the head applies.                                            *)

\* The graph changes only when the head does.
LEMMA GraphMoves ==
  ASSUME TypeOK, [Next]_vars, nodes' # nodes
  PROVE  head' = head + 1
<1>1. DeltaEvent
  BY Untouched DEF Next, vars
<1>2. ASSUME NEW d, NEW purpose, NEW ops, NEW refs, NEW c, NEW v, NEW prior
      PROVE  /\ ~ProposeDelta(d, purpose, ops, refs, c, v, prior)
             /\ ~SupersedeDelta(prior, d, purpose, ops, refs, c, v)
  BY DEF ProposeDelta, SupersedeDelta
<1>3. ASSUME NEW d, NEW disposition, DisposeDelta(d, disposition)
      PROVE  FALSE
  BY <1>3 DEF DisposeDelta
<1>4. PICK d \in Delta, actor \in Actor, attested \in ArtifactBase : AcceptDelta(d, actor, attested)
  BY <1>1, <1>2, <1>3, Zenon DEF DeltaEvent
<1>5. QED
  BY <1>4 DEF AcceptDelta, NextRevision

\* Every delta on the head applies, open or not: it did when it was proposed.
HeadDeltaApplies ==
  \A d \in Delta : deltas[d] # Null /\ deltas[d].base = head => Applicable(deltas[d].operations)

\* A delta on the head that was decided is not taken up again by the head
\* itself: an accepted one has moved it on.
LEMMA AppliesStep ==
  ASSUME IInv, HeadDeltaApplies, [Next]_vars
  PROVE  HeadDeltaApplies'
<1>1. TypeOK /\ Endures
  BY NextFrame DEF IInv
<1>2. ASSUME NEW d \in Delta, deltas'[d] # Null, deltas'[d].base = head'
      PROVE  Applicable(deltas[d].operations)'
  <2>1. CASE deltas[d] # Null
    <3>1. deltas'[d].base = deltas[d].base /\ deltas'[d].operations = deltas[d].operations
      BY <1>1, <2>1 DEF Endures, DeltasEndure, SameProposal
    <3>2. deltas[d].base <= head /\ deltas[d].base \in Nat /\ head \in Nat
      BY <1>1, <2>1, Recorded DEF IInv, IntegrationsHold, DeltaRecord, TypeOK
    <3>3. head' = head
      BY <1>1, <1>2, <3>1, <3>2, HeadGrows
    <3>4. nodes' = nodes
      BY <1>1, <3>2, <3>3, GraphMoves
    <3>5. Applicable(deltas[d].operations)
      BY <1>2, <2>1, <3>1, <3>3 DEF HeadDeltaApplies
    <3>6. QED
      BY <3>1, <3>4, <3>5 DEF Applicable
  <2>2. CASE deltas[d] = Null
    <3>1. PICK purpose \in Purpose, ops \in Operations, refs \in SUBSET Source,
               c \in Closure \cup {Null}, v \in Validation \cup {Null}, prior \in Delta \cup {Null} :
            /\ ProposalHolds(purpose, ops, refs, c, v)
            /\ deltas'[d] = NewDelta(purpose, ops, refs, c, v, prior)
      BY <1>1, <1>2, <2>2, NewDeltaHolds
    <3>2. nodes' = nodes
      BY <1>1, <1>2, <2>2, NewDeltaHolds
    <3>3. deltas'[d].operations = ops /\ Applicable(ops)
      BY <3>1 DEF NewDelta, ProposalHolds
    <3>4. QED
      BY <3>2, <3>3 DEF Applicable
  <2>3. QED
    BY <2>1, <2>2
<1>3. QED
  BY <1>2 DEF HeadDeltaApplies

\* Whatever was accepted, retired or superseded since it was proposed, a delta
\* that can still be accepted finds the graph it was written against.
THEOREM OpenDeltasApply == Spec => []OpenDeltaApplies
<1>1. Init => HeadDeltaApplies
  BY DEF Init, HeadDeltaApplies
<1>2. IInv /\ HeadDeltaApplies /\ [Next]_vars => HeadDeltaApplies'
  BY AppliesStep
<1>3. HeadDeltaApplies => OpenDeltaApplies
  BY DEF HeadDeltaApplies, OpenDeltaApplies, Open
<1>4. QED
  BY <1>1, <1>2, <1>3, Invariant, PTL DEF Spec

-------------------------------------------------------------------------------
(* Completed and verified work is backed by an integration.                *)

LEMMA GroundingStays ==
  ASSUME IInv, Endures, NEW n \in Node
  PROVE  /\ CompletionGrounded(n) => CompletionGrounded(n)'
         /\ VerificationGrounded(n) => VerificationGrounded(n)'
<1>1. ASSUME NEW d \in Delta, Integrated(d)
      PROVE  /\ deltas'[d] = deltas[d] /\ Integrated(d)'
             /\ closures'[deltas[d].closure] = closures[deltas[d].closure]
             /\ validations'[deltas[d].validation] = validations[deltas[d].validation]
             /\ BriefOfClosure(deltas[d].closure)' = BriefOfClosure(deltas[d].closure)
  <2>1. deltas'[d] = deltas[d] /\ deltas[d] # Null
    BY <1>1, AcceptedStays DEF IInv, Integrated, Accepted
  <2>2. /\ closures'[deltas'[d].closure] = closures[deltas[d].closure]
        /\ validations'[deltas'[d].validation] = validations[deltas[d].validation]
        /\ BriefOfClosure(deltas[d].closure)' = BriefOfClosure(deltas[d].closure)
    BY <1>1, <2>1, PostureStays DEF IInv, Integrated
  <2>3. QED
    BY <1>1, <2>1, <2>2 DEF Integrated, Accepted
<1>2. CompletionGrounded(n) => CompletionGrounded(n)'
  BY <1>1 DEF CompletionGrounded
<1>3. VerificationGrounded(n) => VerificationGrounded(n)'
  BY <1>1 DEF VerificationGrounded
<1>4. QED
  BY <1>2, <1>3

\* The node an accepted delta leaves claims only what stood or what it claims.
LEMMA NodeClaims ==
  ASSUME NEW rec \in NodeRecord \cup {Null}, NEW o \in NodeOp,
         o.op \in {"patch", "retire"} => rec # Null,
         NodeAfter(rec, o) # Null
  PROVE  /\ NodeAfter(rec, o).phase = "completed" =>
              o.phase = "completed" \/ (rec # Null /\ rec.phase = "completed")
         /\ NodeAfter(rec, o).verification = "verified" =>
              o.verification = "verified" \/ (rec # Null /\ rec.verification = "verified")
<1>1. CASE o.op = "none"
  BY <1>1 DEF NodeAfter
<1>2. CASE o.op = "add"
  BY <1>2 DEF NodeAfter
<1>3. CASE o.op = "patch"
  <2>1. rec \in NodeRecord /\ rec # Null
    BY <1>3
  <2>2. NodeAfter(rec, o) = [rec EXCEPT !.phase = Patched(rec.phase, o.phase),
                                        !.verification = Patched(rec.verification, o.verification)]
    BY <1>3, <2>1 DEF NodeAfter, NodeRecord
  <2>3. /\ NodeAfter(rec, o).phase = Patched(rec.phase, o.phase)
        /\ NodeAfter(rec, o).verification = Patched(rec.verification, o.verification)
    BY <2>1, <2>2 DEF NodeRecord
  <2>4. QED
    BY <2>1, <2>3 DEF Patched
<1>4. CASE o.op = "retire"
  <2>1. rec \in NodeRecord /\ rec # Null
    BY <1>4
  <2>2. NodeAfter(rec, o) = [rec EXCEPT !.active = FALSE]
    BY <1>4 DEF NodeAfter
  <2>3. QED
    BY <2>1, <2>2 DEF NodeRecord
<1>5. QED
  BY <1>1, <1>2, <1>3, <1>4 DEF NodeOp

LEMMA ClaimsStep ==
  ASSUME IInv, WorkClaimsGrounded, [Next]_vars
  PROVE  WorkClaimsGrounded'
<1>1. TypeOK /\ LineageHolds /\ Endures
  BY NextFrame DEF IInv
<1>2. CASE nodes' = nodes
  BY <1>1, <1>2, GroundingStays DEF WorkClaimsGrounded
<1>3. CASE nodes' # nodes
  <2>1. head' # head
    BY <1>1, <1>3, GraphMoves DEF TypeOK
  <2>2. PICK d \in Delta, actor \in Actor, attested \in ArtifactBase : AcceptDelta(d, actor, attested)
    BY <1>1, <2>1, HeadMoves
  <2>3. /\ deltas[d] \in DeltaRecord /\ Accepted(d)' /\ deltas'[d].acceptedBy = actor
        /\ SameProposal(deltas[d], deltas'[d])
    BY <1>1, <2>2, AcceptEffect
  <2>4. /\ nodes' = [n \in Node |-> NodeAfter(nodes[n], deltas[d].operations[n])]
        /\ Applicable(deltas[d].operations)
        /\ UNCHANGED <<briefs, runs, closures, validations>>
    BY <2>2 DEF AcceptDelta
  <2>5. ASSUME deltas[d].purpose = "reconciliation"
        PROVE  /\ Integrated(d)' /\ actor = "human"
               /\ ClaimsCompletion(deltas[d].operations) =>
                    closures[deltas[d].closure].outcome = "returned"
                    /\ closures[deltas[d].closure].completes
               /\ ClaimsVerification(deltas[d].operations) => EvidenceComplete(deltas[d].validation)
               /\ validations[deltas[d].validation].closure = deltas[d].closure
    BY <1>1, <2>2, <2>3, <2>5, NullAssumption
       DEF AcceptDelta, ReconciliationHolds, Integrated, SameProposal, LineageHolds,
           ReconciliationLineage
  <2>6. deltas[d].purpose # "reconciliation" =>
          ~ClaimsCompletion(deltas[d].operations) /\ ~ClaimsVerification(deltas[d].operations)
    BY <2>2 DEF AcceptDelta
  <2>7. ASSUME NEW n \in Node, nodes'[n] # Null, nodes'[n].phase = "completed"
        PROVE  CompletionGrounded(n)'
    <3>1. deltas[d].operations[n] \in NodeOp /\ nodes[n] \in NodeRecord \cup {Null}
      BY <1>1, <2>3 DEF DeltaRecord, TypeOK
    <3>2. deltas[d].operations[n].phase = "completed" \/ (nodes[n] # Null /\ nodes[n].phase = "completed")
      BY <2>4, <2>7, <3>1, NodeClaims DEF Applicable
    <3>3. CASE nodes[n] # Null /\ nodes[n].phase = "completed"
      BY <1>1, <3>3, GroundingStays DEF WorkClaimsGrounded
    <3>4. CASE deltas[d].operations[n].phase = "completed"
      <4>1. ClaimsCompletion(deltas[d].operations)
        BY <3>4 DEF ClaimsCompletion
      <4>2. QED
        BY <2>3, <2>4, <2>5, <2>6, <3>4, <4>1 DEF CompletionGrounded, SameProposal
    <3>5. QED
      BY <3>2, <3>3, <3>4
  <2>8. ASSUME NEW n \in Node, nodes'[n] # Null, nodes'[n].verification = "verified"
        PROVE  VerificationGrounded(n)'
    <3>1. deltas[d].operations[n] \in NodeOp /\ nodes[n] \in NodeRecord \cup {Null}
      BY <1>1, <2>3 DEF DeltaRecord, TypeOK
    <3>2. \/ deltas[d].operations[n].verification = "verified"
          \/ nodes[n] # Null /\ nodes[n].verification = "verified"
      BY <2>4, <2>8, <3>1, NodeClaims DEF Applicable
    <3>3. CASE nodes[n] # Null /\ nodes[n].verification = "verified"
      BY <1>1, <3>3, GroundingStays DEF WorkClaimsGrounded
    <3>4. CASE deltas[d].operations[n].verification = "verified"
      <4>1. ClaimsVerification(deltas[d].operations)
        BY <3>4 DEF ClaimsVerification
      <4>2. BriefOfClosure(deltas[d].closure).required \subseteq validations[deltas[d].validation].met
        BY <2>5, <2>6, <4>1 DEF EvidenceComplete
      <4>3. BriefOfClosure(deltas[d].closure)'.required \subseteq validations'[deltas'[d].validation].met
        BY <2>3, <2>4, <4>2 DEF SameProposal, BriefOfClosure, BriefOfRun
      <4>4. QED
        BY <2>3, <2>5, <2>6, <3>4, <4>1, <4>3 DEF VerificationGrounded, SameProposal
    <3>5. QED
      BY <3>2, <3>3, <3>4
  <2>9. QED
    BY <2>7, <2>8 DEF WorkClaimsGrounded
<1>4. QED
  BY <1>2, <1>3

\* Completed or verified work in the canonical graph is the claim of a
\* reconciliation that a human integrated and the evidence backs.
THEOREM WorkIsGrounded == Spec => []WorkClaimsGrounded
<1>1. Init => WorkClaimsGrounded
  BY DEF Init, WorkClaimsGrounded
<1>2. IInv /\ WorkClaimsGrounded /\ [Next]_vars => WorkClaimsGrounded'
  BY ClaimsStep
<1>3. QED
  BY <1>1, <1>2, Invariant, PTL DEF Spec
-------------------------------------------------------------------------------
(* Superseded deltas.                                                      *)

\* What one event does to the deltas, field by field of the chain.
ChainKept(d) ==
  /\ deltas'[d].disposition = "superseded" <=> deltas[d].disposition = "superseded"
  /\ deltas'[d].supersededBy = deltas[d].supersededBy
  /\ deltas'[d].supersedes = deltas[d].supersedes

Linked ==
  \A d \in Delta : deltas[d] # Null =>
    /\ (deltas[d].disposition = "superseded") <=> (deltas[d].supersededBy # Null)
    /\ deltas[d].supersededBy # Null =>
         /\ deltas[deltas[d].supersededBy] # Null
         /\ deltas[deltas[d].supersededBy].supersedes = d

Acyclic ==
  \A circle \in SUBSET {d \in Delta : deltas[d] # Null} :
    (\A d \in circle : deltas[d].supersededBy \in circle) => circle = {}

\* One event adds at most one delta, which supersedes at most one that was
\* not superseded, and keeps the chain of every other.
ChainGrows(e, prior) ==
  /\ deltas[e] = Null /\ deltas'[e] # Null
  /\ deltas'[e].supersededBy = Null /\ deltas'[e].disposition # "superseded"
  /\ \A d \in Delta : deltas[d] # Null /\ d # prior => deltas'[d] # Null /\ ChainKept(d)
  /\ \A d \in Delta : deltas[d] = Null /\ d # e => deltas'[d] = Null

Replaced(prior, e) ==
  /\ deltas[prior] # Null /\ deltas[prior].disposition # "superseded"
  /\ deltas'[prior] # Null /\ deltas'[prior].disposition = "superseded"
  /\ deltas'[prior].supersededBy = e /\ deltas'[prior].supersedes = deltas[prior].supersedes
  /\ deltas'[e].supersedes = prior

ChainsKept ==
  /\ \A d \in Delta : deltas[d] # Null => deltas'[d] # Null /\ ChainKept(d)
  /\ \A d \in Delta : deltas[d] = Null => deltas'[d] = Null

LEMMA ChainSteps ==
  ASSUME TypeOK, [Next]_vars
  PROVE  \/ ChainsKept
         \/ \E e \in Delta : ChainGrows(e, Null)
         \/ \E e \in Delta, prior \in Delta : ChainGrows(e, prior) /\ Replaced(prior, e)
<1>1. ASSUME NEW e \in Delta, NEW purpose \in Purpose, NEW ops \in Operations,
             NEW refs \in SUBSET Source, NEW c \in Closure \cup {Null},
             NEW v \in Validation \cup {Null}, NEW prior \in Delta \cup {Null},
             ProposeDelta(e, purpose, ops, refs, c, v, prior)
      PROVE  ChainGrows(e, Null)
  <2>1. NewDelta(purpose, ops, refs, c, v, prior) # Null
    BY NewDeltaType, NullAssumption
  <2>2. /\ deltas'[e] = NewDelta(purpose, ops, refs, c, v, prior) /\ deltas[e] = Null
        /\ \A d \in Delta : d # e => deltas'[d] = deltas[d]
    BY <1>1 DEF ProposeDelta, TypeOK
  <2>3. QED
    BY <2>1, <2>2 DEF ChainGrows, ChainKept, NewDelta
<1>2. ASSUME NEW e \in Delta, NEW prior \in Delta, NEW purpose \in Purpose, NEW ops \in Operations,
             NEW refs \in SUBSET Source, NEW c \in Closure \cup {Null},
             NEW v \in Validation \cup {Null},
             SupersedeDelta(prior, e, purpose, ops, refs, c, v)
      PROVE  ChainGrows(e, prior) /\ Replaced(prior, e)
  <2>1. deltas[prior] \in DeltaRecord /\ prior # e /\ deltas[prior].disposition # "superseded"
        /\ deltas[prior] # Null /\ deltas[e] = Null
    BY <1>2, NullAssumption DEF SupersedeDelta, Open, TypeOK
  <2>2. deltas' = [deltas EXCEPT ![prior] = [deltas[prior] EXCEPT !.disposition = "superseded",
                                                                  !.supersededBy = e],
                                 ![e] = NewDelta(purpose, ops, refs, c, v, prior)]
    BY <1>2, <2>1 DEF SupersedeDelta, TypeOK
  <2>3. /\ deltas'[prior] = [deltas[prior] EXCEPT !.disposition = "superseded", !.supersededBy = e]
        /\ deltas'[e] = NewDelta(purpose, ops, refs, c, v, prior)
        /\ \A d \in Delta : d # e /\ d # prior => deltas'[d] = deltas[d]
    BY <2>1, <2>2 DEF TypeOK
  <2>4. NewDelta(purpose, ops, refs, c, v, prior) # Null
    BY NewDeltaType, NullAssumption
  <2>5. /\ deltas'[prior] # Null /\ deltas'[prior].disposition = "superseded"
        /\ deltas'[prior].supersededBy = e /\ deltas'[prior].supersedes = deltas[prior].supersedes
    <3>1. SameProposal(deltas[prior], [deltas[prior] EXCEPT !.disposition = "superseded",
                                                            !.supersededBy = e])
      BY <2>1, JudgedSuperseded DEF Disposition
    <3>2. deltas'[prior] # Null
      BY <2>3, <3>1 DEF SameProposal
    <3>3. QED
      BY <2>1, <2>3, <3>2 DEF DeltaRecord
  <2>6. QED
    BY <2>1, <2>3, <2>4, <2>5 DEF ChainGrows, Replaced, ChainKept, NewDelta
<1>3. ASSUME NEW e \in Delta, NEW disposition, DisposeDelta(e, disposition)
      PROVE  ChainsKept
  <2>1. deltas[e] \in DeltaRecord /\ deltas[e].disposition # "superseded" /\ deltas[e] # Null
    BY <1>3 DEF DisposeDelta, Open, TypeOK
  <2>2. /\ deltas'[e] = [deltas[e] EXCEPT !.disposition = disposition]
        /\ disposition # "superseded" /\ disposition \in Disposition
        /\ \A d \in Delta : d # e => deltas'[d] = deltas[d]
    BY <1>3 DEF DisposeDelta, TypeOK, Disposition
  <2>3. deltas'[e] # Null
    BY <2>1, <2>2, JudgedOpen DEF SameProposal
  <2>4. ChainKept(e)
    BY <2>1, <2>2 DEF ChainKept, DeltaRecord
  <2>5. QED
    BY <2>1, <2>2, <2>3, <2>4 DEF ChainsKept, ChainKept
<1>4. ASSUME NEW e \in Delta, NEW actor \in Actor, NEW attested \in ArtifactBase,
             AcceptDelta(e, actor, attested)
      PROVE  ChainsKept
  <2>1. deltas[e] \in DeltaRecord /\ deltas[e].disposition # "superseded" /\ deltas[e] # Null
    BY <1>4 DEF AcceptDelta, Open, TypeOK
  <2>2. deltas' = [deltas EXCEPT ![e] = [deltas[e] EXCEPT !.disposition = "accepted",
                                                          !.revision = NextRevision,
                                                          !.acceptedBy = actor]]
    BY <1>4, <2>1 DEF AcceptDelta, TypeOK
  <2>3. /\ deltas'[e] = [deltas[e] EXCEPT !.disposition = "accepted", !.revision = NextRevision,
                                          !.acceptedBy = actor]
        /\ \A d \in Delta : d # e => deltas'[d] = deltas[d]
    BY <2>2 DEF TypeOK
  <2>4. deltas'[e] # Null
    BY <1>4, AcceptEffect DEF SameProposal
  <2>5. ChainKept(e)
    BY <2>1, <2>3 DEF ChainKept, DeltaRecord
  <2>6. QED
    BY <2>1, <2>3, <2>4, <2>5 DEF ChainsKept, ChainKept
<1>5. CASE deltas' = deltas
  BY <1>5 DEF ChainsKept, ChainKept
<1>6. CASE deltas' # deltas
  <2>1. DeltaEvent
    BY <1>6, Untouched DEF Next, vars
  <2>2. QED
    BY <1>1, <1>2, <1>3, <1>4, <2>1 DEF DeltaEvent
<1>7. QED
  BY <1>5, <1>6

LEMMA LinkedStep ==
  ASSUME TypeOK, Linked, [Next]_vars
  PROVE  Linked'
<1>1. CASE ChainsKept
  <2>1. \A d \in Delta : deltas[d] # Null => deltas[d].supersededBy \in Delta \cup {Null}
    BY Recorded DEF DeltaRecord
  <2>2. QED
    BY <1>1, <2>1 DEF ChainsKept, ChainKept, Linked
<1>2. CASE \E e \in Delta : ChainGrows(e, Null)
  <2>1. PICK e \in Delta : ChainGrows(e, Null)
    BY <1>2
  <2>2. \A d \in Delta : deltas[d] # Null => deltas[d].supersededBy \in Delta \cup {Null}
    BY Recorded DEF DeltaRecord
  <2>3. QED
    BY <2>1, <2>2, NullAssumption DEF ChainGrows, ChainKept, Linked
<1>3. CASE \E e \in Delta, prior \in Delta : ChainGrows(e, prior) /\ Replaced(prior, e)
  <2>1. PICK e \in Delta, prior \in Delta : ChainGrows(e, prior) /\ Replaced(prior, e)
    BY <1>3
  <2>2. \A d \in Delta : deltas[d] # Null => deltas[d].supersededBy \in Delta \cup {Null}
    BY Recorded DEF DeltaRecord
  <2>3. ASSUME NEW d \in Delta, deltas'[d] # Null
        PROVE  /\ (deltas'[d].disposition = "superseded") <=> (deltas'[d].supersededBy # Null)
               /\ deltas'[d].supersededBy # Null =>
                    /\ deltas'[deltas'[d].supersededBy] # Null
                    /\ deltas'[deltas'[d].supersededBy].supersedes = d
    <3>1. CASE d = e
      BY <2>1, <3>1 DEF ChainGrows
    <3>2. CASE d = prior
      BY <2>1, <3>2, NullAssumption DEF ChainGrows, Replaced
    <3>3. CASE d # e /\ d # prior
      <4>1. deltas[d] # Null /\ ChainKept(d)
        BY <2>1, <2>3, <3>3 DEF ChainGrows
      <4>2. CASE deltas[d].supersededBy = prior
        BY <2>1, <4>1, <4>2, NullAssumption DEF Linked, ChainKept, Replaced
      <4>3. CASE deltas[d].supersededBy # prior
        BY <2>1, <2>2, <4>1, <4>3 DEF Linked, ChainKept, ChainGrows
      <4>4. QED
        BY <4>2, <4>3
    <3>4. QED
      BY <3>1, <3>2, <3>3
  <2>4. QED
    BY <2>3 DEF Linked
<1>4. QED
  BY <1>1, <1>2, <1>3, ChainSteps

\* A circle after the event cannot hold the delta it added, whose successor is
\* none, nor the one it replaced; so it was a circle before.
LEMMA AcyclicStep ==
  ASSUME TypeOK, Acyclic, [Next]_vars
  PROVE  Acyclic'
<1>1. SUFFICES ASSUME NEW circle \in SUBSET {d \in Delta : deltas'[d] # Null},
                      \A d \in circle : deltas'[d].supersededBy \in circle
               PROVE  circle = {}
  BY DEF Acyclic
<1>2. Null \notin circle
  BY NullAssumption
<1>3. CASE ChainsKept
  BY <1>1, <1>3 DEF ChainsKept, ChainKept, Acyclic
<1>4. CASE \E e \in Delta : ChainGrows(e, Null)
  <2>1. PICK e \in Delta : ChainGrows(e, Null)
    BY <1>4
  <2>2. e \notin circle
    BY <1>1, <1>2, <2>1 DEF ChainGrows
  <2>3. QED
    BY <1>1, <2>1, <2>2, NullAssumption DEF ChainGrows, ChainKept, Acyclic
<1>5. CASE \E e \in Delta, prior \in Delta : ChainGrows(e, prior) /\ Replaced(prior, e)
  <2>1. PICK e \in Delta, prior \in Delta : ChainGrows(e, prior) /\ Replaced(prior, e)
    BY <1>5
  <2>2. e \notin circle
    BY <1>1, <1>2, <2>1 DEF ChainGrows
  <2>3. prior \notin circle
    BY <1>1, <2>1, <2>2 DEF Replaced
  <2>4. QED
    BY <1>1, <2>1, <2>2, <2>3 DEF ChainGrows, ChainKept, Acyclic
<1>6. QED
  BY <1>3, <1>4, <1>5, ChainSteps

\* Superseding is one-way, is told by both deltas and never comes round.
THEOREM SupersessionEnds == Spec => []SupersessionChains
<1>1. Init => Linked /\ Acyclic
  BY DEF Init, Linked, Acyclic
<1>2. TypeOK /\ Linked /\ Acyclic /\ [Next]_vars => Linked' /\ Acyclic'
  BY LinkedStep, AcyclicStep
<1>3. Linked /\ Acyclic => SupersessionChains
  BY DEF Linked, Acyclic, SupersessionChains
<1>4. QED
  BY <1>1, <1>2, <1>3, TypeCorrect, PTL DEF Spec

-------------------------------------------------------------------------------
(* The kernel implements the head reservation: every event is a commit, a  *)
(* step of one claim, or nothing the reservation sees.                     *)

\* A promotion's claim depends on its status and revision alone.
LEMMA ClaimRead ==
  ASSUME NEW p \in Promotion
  PROVE  /\ ClaimOf[p].stage = StageOf(p)
         /\ promotions[p] # Null => ClaimOf[p].at = promotions[p].revision
         /\ promotions[p] = Null <=> StageOf(p) = "none"
  BY DEF ClaimOf, StageOf, StageNamed

\* If one claim takes a stage and no other is touched, so says the mapping.
LEMMA ClaimMoves ==
  ASSUME TypeOK, NEW p \in Promotion, promotions[p] # Null, promotions'[p] # Null,
         promotions'[p].revision = promotions[p].revision,
         \A q \in Promotion : q # p => promotions'[q] = promotions[q]
  PROVE  ClaimOf' = [ClaimOf EXCEPT ![p].stage = StageNamed(promotions'[p].status)]
<1>1. ASSUME NEW q \in Promotion
      PROVE  ClaimOf'[q] = [ClaimOf EXCEPT ![p].stage = StageNamed(promotions'[p].status)][q]
  <2>1. CASE q = p
    BY <2>1 DEF ClaimOf, StageOf
  <2>2. CASE q # p
    BY <2>2 DEF ClaimOf, StageOf
  <2>3. QED
    BY <2>1, <2>2
<1>2. QED
  BY <1>1 DEF ClaimOf

LEMMA ClaimKept == UNCHANGED promotions => UNCHANGED ClaimOf
  BY DEF ClaimOf, StageOf, StageNamed

\* delta.accepted is the commit: HeadFree says that nobody holds.
LEMMA CommitStep ==
  ASSUME TypeOK, [Next]_vars, promotions' = promotions, head' # head
  PROVE  Reservation!Advance
<1>1. HeadFree /\ head' = head + 1
  BY HeadMoves, AcceptEffect DEF AcceptDelta
<1>2. \A p \in Promotion : ~Reservation!Holds(p)
  BY <1>1, ClaimRead DEF Reservation!Holds, HeadFree, StageOf, StageNamed
<1>3. QED
  BY <1>1, <1>2, ClaimKept DEF Reservation!Advance

\* A proposal is an offer: whoever stands on the same revision stands for the
\* same closure, which the proposal found free.
LEMMA OfferStep ==
  ASSUME IInv, [Next]_vars, NEW p \in Promotion, Proposed(p), head' = head
  PROVE  Reservation!Offer(p)
<1>1. /\ promotions[p] = Null /\ promotions'[p] # Null
      /\ promotions'[p].status = "proposed" /\ promotions'[p].revision = head
      /\ \A q \in Promotion : q # p => promotions'[q] = promotions[q]
      /\ \A q \in Promotion : Standing(q) => promotions[q].closure # promotions'[p].closure
      /\ promotions'[p].delta \in Delta
      /\ PromotionLineage(promotions'[p].closure, promotions'[p].validation, promotions'[p].delta)
  BY ProposedEffect DEF IInv
<1>2. ASSUME NEW q \in Promotion, Standing(q)
      PROVE  promotions[q].revision # head
  <2>1. PICK d \in Delta : d = promotions'[p].delta
    BY <1>1
  <2>2. /\ Accepted(d) /\ deltas[d].revision = head /\ deltas[d].closure = promotions'[p].closure
    BY <1>1, <2>1 DEF PromotionLineage, Accepted
  <2>3. PICK e \in Delta : e = promotions[q].delta
    BY <1>2, Recorded DEF IInv, Standing, PromotionRecord
  <2>4. /\ Accepted(e) /\ deltas[e].revision = promotions[q].revision
        /\ deltas[e].closure = promotions[q].closure
    BY <1>2, <2>3 DEF IInv, PromotionGrounded, Grounded, Integrated, Standing
  <2>5. deltas[d].closure # deltas[e].closure
    BY <1>1, <1>2, <2>2, <2>4
  <2>6. QED
    BY <2>2, <2>4, <2>5 DEF IInv, LinearHistory
<1>3. ASSUME NEW q \in Promotion, ClaimOf[q].stage # "none", ClaimOf[q].at = head
      PROVE  ClaimOf[q].stage = "void"
  <2>1. promotions[q] # Null /\ promotions[q].revision = head
    BY <1>3, ClaimRead
  <2>2. promotions[q].status \in {"failed", "stale"}
    BY <1>2, <2>1 DEF Standing
  <2>3. QED
    BY <2>1, <2>2, ClaimRead DEF StageOf, StageNamed
<1>4. ClaimOf[p].stage = "none"
  BY <1>1, ClaimRead
<1>5. ClaimOf' = [ClaimOf EXCEPT ![p] = [stage |-> "offered", at |-> head]]
  <2>1. ASSUME NEW q \in Promotion
        PROVE  ClaimOf'[q] = [ClaimOf EXCEPT ![p] = [stage |-> "offered", at |-> head]][q]
    <3>1. CASE q = p
      BY <1>1, <3>1 DEF ClaimOf, StageOf, StageNamed
    <3>2. CASE q # p
      BY <1>1, <3>2 DEF ClaimOf, StageOf
    <3>3. QED
      BY <3>1, <3>2
  <2>2. QED
    BY <2>1 DEF ClaimOf
<1>6. QED
  BY <1>3, <1>4, <1>5 DEF Reservation!Offer

\* Authorizing holds: another holder would be a second standing promotion.
LEMMA HoldStep ==
  ASSUME IInv, NEW p \in Promotion, NEW actor, AuthorizePromotion(p, actor)
  PROVE  Reservation!Hold(p)
<1>1. /\ promotions[p] # Null /\ promotions[p].status = "proposed" /\ promotions[p].revision = head
      /\ Moved(p, "authorized") /\ head' = head
  BY DEF AuthorizePromotion, Moved, AtHead
<1>2. /\ Standing(p) /\ SameLineage(promotions[p], promotions'[p])
      /\ promotions'[p].status = "authorized"
      /\ \A q \in Promotion : q # p => promotions'[q] = promotions[q]
  BY <1>1, MovedEffect DEF IInv, PromotionStatus
<1>3. ClaimOf' = [ClaimOf EXCEPT ![p].stage = "holding"]
  BY <1>1, <1>2, ClaimMoves DEF IInv, SameLineage, StageNamed
<1>4. ASSUME NEW q \in Promotion
      PROVE  ~Reservation!Holds(q)
  <2>1. SUFFICES ASSUME promotions[q] # Null, promotions[q].status = "authorized"
                 PROVE  FALSE
    BY ClaimRead DEF Reservation!Holds, StageOf, StageNamed
  <2>2. Standing(q) /\ promotions[q].revision = head
    BY <2>1 DEF IInv, HolderAtHead, Standing
  <2>3. QED
    BY <1>1, <1>2, <2>1, <2>2, OneStanding
<1>5. ClaimOf[p].stage = "offered" /\ ClaimOf[p].at = head
  BY <1>1, ClaimRead DEF StageOf, StageNamed
<1>6. QED
  BY <1>1, <1>3, <1>4, <1>5 DEF Reservation!Hold

LEMMA ConcludeStep ==
  ASSUME IInv, NEW p \in Promotion, NEW outcome \in PromotionStatus, NEW actor,
         RecordPromotionOutcome(p, outcome, actor)
  PROVE  \E stage \in Reservation!Stage : Reservation!Conclude(p, stage)
<1>1. /\ promotions[p] # Null /\ promotions[p].status \in {"authorized", "outcome_unknown"}
      /\ promotions[p].revision = head /\ Moved(p, outcome) /\ head' = head
      /\ outcome \in {"promoted", "stale", "failed", "outcome_unknown"}
  BY DEF RecordPromotionOutcome, Moved, AtHead
<1>2. /\ SameLineage(promotions[p], promotions'[p]) /\ promotions'[p].status = outcome
      /\ \A q \in Promotion : q # p => promotions'[q] = promotions[q]
  BY <1>1, MovedEffect DEF IInv
<1>3. ClaimOf' = [ClaimOf EXCEPT ![p].stage = StageNamed(outcome)]
  BY <1>1, <1>2, ClaimMoves DEF IInv, SameLineage
<1>4. StageNamed(outcome) \in {"done", "void", "unresolved"}
  BY <1>1 DEF StageNamed
<1>5. ClaimOf[p].stage \in {"holding", "unresolved"} /\ ClaimOf[p].at = head
  BY <1>1, ClaimRead DEF StageOf, StageNamed
<1>6. Reservation!Conclude(p, StageNamed(outcome))
  BY <1>1, <1>3, <1>4, <1>5 DEF Reservation!Conclude
<1>7. QED
  BY <1>4, <1>6 DEF Reservation!Stage

LEMMA ReservationStep == IInv /\ [Next]_vars => [Reservation!Next]_(Reservation!vars)
<1>1. SUFFICES ASSUME IInv, [Next]_vars
               PROVE  [Reservation!Next]_(Reservation!vars)
  OBVIOUS
<1>2. CASE promotions' = promotions /\ head' = head
  BY <1>2, ClaimKept DEF Reservation!vars
<1>3. CASE promotions' = promotions /\ head' # head
  BY <1>1, <1>3, CommitStep DEF IInv, Reservation!Next
<1>4. CASE promotions' # promotions
  <2>1. PromotionEvent /\ head' = head
    BY <1>1, <1>4, Untouched DEF Next, vars
  <2>2. ASSUME NEW p \in Promotion, Proposed(p)
        PROVE  Reservation!Next
    BY <1>1, <2>1, <2>2, OfferStep DEF Reservation!Next
  <2>3. ASSUME NEW p \in Promotion, NEW actor, AuthorizePromotion(p, actor)
        PROVE  Reservation!Next
    BY <1>1, <2>3, HoldStep DEF Reservation!Next
  <2>4. ASSUME NEW p \in Promotion, NEW outcome \in PromotionStatus, NEW actor,
               RecordPromotionOutcome(p, outcome, actor)
        PROVE  Reservation!Next
    BY <1>1, <2>4, ConcludeStep DEF Reservation!Next
  <2>5. QED
    BY <2>1, <2>2, <2>3, <2>4 DEF PromotionEvent, Proposed
<1>5. QED
  BY <1>2, <1>3, <1>4

LEMMA ReservationInit == Init => Reservation!Init
<1>1. ASSUME Init
      PROVE  \A p \in Promotion : ClaimOf[p] = [stage |-> "none", at |-> 0]
  BY <1>1 DEF Init, ClaimOf, StageOf
<1>2. QED
  BY <1>1 DEF Init, Reservation!Init, ClaimOf

\* The kernel implements the head reservation for any number of promotions,
\* although no event checks that nobody else holds the head.
THEOREM KernelReserves == Spec => ImplementsReservation
  BY Invariant, ReservationInit, ReservationStep, PTL DEF Spec, ImplementsReservation, Reservation!Spec
===============================================================================
