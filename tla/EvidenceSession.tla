---------------------------- MODULE EvidenceSession ----------------------------
(* From a returned result to its integration: the question to an independent   *)
(* verifier, the record of its answer, the validation it becomes, the proposal *)
(* to reconcile and the human integration; beside the placements of            *)
(* PlacementSession, which move the head and end what was active.              *)
EXTENDS PlacementSession, CandidateEvidence

CONSTANTS
  ClosureMode,              \* "live" or "replay": that of the returned result
  Claimed                   \* whether the result claims to complete its task

ASSUME EvidenceAssumption == ClosureMode \in {"live", "replay"} /\ Claimed \in BOOLEAN

vars == <<ledger, seen, pc, faults, held, page>>

\* What an answer of the verifier is.
Verdict == {Class(q, x) : q \in {q \in Question : q.mode = ClosureMode}, x \in Response}

-------------------------------------------------------------------------------
(* What a ledger says *)

Has(log, type) == OfType(log, type) # {}
The(log, type) == log[CHOOSE i \in OfType(log, type) : TRUE]

\* activityFromLedger: the result is the active one until a source is captured.
Active(log) == Last(Captures(log)) < Last(OfType(log, "closure"))

\* What concerns the validation of the result while it is active.
Validating(log) ==
  {i \in OfType(log, "evidence") \cup OfType(log, "verdict") : Active(SubSeq(log, 1, i))}

Refused(e) == e.type = "verdict" /\ e.answer = "refused"

ErrorOf(log) ==
  LET i == Last(Validating(log))
  IN IF i < Last(Placing(log)) THEN PlacementError(log)
     ELSE IF i = 0 THEN "none"
     ELSE IF log[i].type = "evidence" THEN "unobserved"
     ELSE IF Refused(log[i]) THEN "refused" ELSE "none"

Fresh(log) == HeadOf(log) = The(log, "closure").base

\* A validation that is recorded, current, and passed where it is required.
Verified(log) ==
  Has(log, "validation") /\ The(log, "validation").fresh /\ The(log, "validation").answer = "passed"

\* Each question has a number of its own and is based on the head of its moment.
Numbered(log) ==
  /\ \E n \in 0 .. Len(log) : RequestsOf(log) = 1 .. n
  /\ \A i, j \in OfType(log, "attempt") : log[i].request = log[j].request => i = j
  /\ \A i \in OfType(log, "attempt") : log[i].base = HeadOf(SubSeq(log, 1, i - 1))

\* An answer or a failure is about a question that was asked, and its source.
Asked(log) ==
  \A i \in OfType(log, "answer") \cup OfType(log, "failure") :
    \E a \in OfType(log, "attempt") :
      a < i /\ log[a].request = log[i].request /\ log[a].source = log[i].source

\* What is adopted was asked for, placed, and based on the head it is adopted on.
OnHead(log) ==
  \A j \in OfType(log, "accepted") :
    \E a \in OfType(log, "attempt"), x \in OfType(log, "answer") :
      /\ a < x /\ x < j
      /\ log[a].request = log[j].request /\ log[x].request = log[j].request
      /\ log[x].outcome = "placed"
      /\ \A k \in a + 1 .. j - 1 : log[k].type \notin {"accepted", "integrated"}

\* The ledger a run starts from is one of this session, on whose result no work
\* has begun; and one of the user's operations runs in a tab at a time.
ASSUME WorkAssumption ==
  /\ FirstLedger \in Seq(Elements(FirstLedger))
  /\ Numbered(FirstLedger) /\ Asked(FirstLedger) /\ OnHead(FirstLedger)
  /\ \A e \in Elements(FirstLedger) :
       e.type \in {"source", "attempt", "answer", "failure", "accepted", "closure"}
  /\ \A t, u \in Foreground : Owner[t] = Owner[u] => t = u

-------------------------------------------------------------------------------
(* Ends of a task's steps *)

\* installTransaction with the activity of the ledger of length n.
Derived(t, state, log) == View(t, state, ErrorOf(log), RetryOf(log), "saved")

Installed(t, log) ==
  /\ seen' = [seen EXCEPT ![Owner[t]] = Len(log)] /\ UNCHANGED <<ledger, faults>>
  /\ Derived(t, "idle", log) /\ Rest(t)

Patched(t, code) ==
  /\ View(t, "idle", code, retry[Owner[t]], "saved") /\ Rest(t)
  /\ UNCHANGED <<ledger, seen, faults>>

-------------------------------------------------------------------------------
(* validateActiveEvidence *)

\* Its early return, and what keeps it from a second request or answer.
Validatable(log) ==
  /\ Active(log) /\ ~Has(log, "validation") /\ Fresh(log)

Unobserved(log) == Has(log, "evidence") /\ ~Has(log, "verdict")

\* A request whose answer was not observed is put again, exactly; otherwise a
\* new one is saved before the verifier is asked.
Validate(t) ==
  LET s == Owner[t]
      log == Visible(s)
      e == [type |-> "evidence", request |-> Cardinality(OfType(log, "evidence")) + 1]
  IN /\ Ready(t) /\ Validatable(log)
     /\ IF Unobserved(log)
        THEN /\ View(t, "validating_evidence", "none", Null, "saved")
             /\ Hold(t, "verifying", The(log, "evidence"))
             /\ UNCHANGED <<ledger, seen, faults>>
        ELSE IF Has(log, "evidence") THEN Patched(t, "refused")
        ELSE \/ Saved(t, e) /\ View(t, "validating_evidence", "none", RetryOf(log), "saved") /\ Hold(t, "verifying", e)
             \/ Conflict(t, "retry", Null) \/ Unsaved(t, "retry", Null)

\* The verifier answers, or its answer is not observed.
Verify(t, answer) ==
  /\ pc[t] = "verifying"
  /\ Hold(t, "recording", [type |-> "verdict", request |-> held[t].request, answer |-> answer])
  /\ View(t, "persisting_validation", error[Owner[t]], retry[Owner[t]], persistence[Owner[t]])
  /\ UNCHANGED <<ledger, seen, faults>>

VerifyLost(t) == pc[t] = "verifying" /\ Patched(t, "unobserved")

\* The validation that is compiled from an answer on a ledger.
Compiled(e, log) ==
  [type |-> "validation", request |-> e.request, answer |-> e.answer, fresh |-> Fresh(log), at |-> Len(log)]

\* The exact answer first, under an identity made of the request: the answer that
\* another tab has observed and recorded, at its own time, is in its way.
Record(t) ==
  LET e == held[t]
      log == Append(ledger, e)
  IN /\ pc[t] = "recording"
     /\ IF Has(ledger, "verdict")
        THEN View(t, "idle", "retry", Null, "unavailable") /\ Rest(t) /\ UNCHANGED <<ledger, seen, faults>>
        ELSE \/ /\ Write(t, e) /\ UNCHANGED faults
                /\ IF e.answer = "refused"
                   THEN Derived(t, "idle", log) /\ Rest(t)
                   ELSE Derived(t, "persisting_validation", log) /\ Hold(t, "normalizing", Compiled(e, log))
             \/ Unsaved(t, "retry", Null)

-------------------------------------------------------------------------------
(* append(Live|Replay)EvidenceValidationWithConflictRecovery *)

Bare(e) == [type |-> e.type, request |-> e.request, answer |-> e.answer, fresh |-> e.fresh]
SameMeaning(e, f) == e.request = f.request /\ e.answer = f.answer

\* Mutant: the event that was compiled first is written to the latest ledger.
Recompiled_Once(e) == [e EXCEPT !.at = Len(ledger)]

Recompiled(e) == Compiled(e, ledger)

\* The event is compiled on a ledger and written to that one; on a conflict a
\* validation that has come first is taken, or the event compiled again.
Normalize(t) ==
  LET e == held[t]
      log == Append(ledger, Bare(e))
  IN /\ pc[t] = "normalizing"
     /\ IF e.answer = "incoherent" THEN Patched(t, "refused")
        ELSE \/ /\ e.at = Len(ledger)
                /\ Write(t, Bare(e)) /\ UNCHANGED faults
                /\ Derived(t, "idle", log) /\ Rest(t)
             \/ /\ e.at # Len(ledger) /\ Has(ledger, "validation")
                /\ IF SameMeaning(The(ledger, "validation"), e) THEN Installed(t, ledger) ELSE Patched(t, "refused")
             \/ /\ e.at # Len(ledger) /\ ~Has(ledger, "validation")
                /\ Hold(t, "normalizing", Recompiled(e))
                /\ UNCHANGED <<ledger, seen, faults, page>>
             \/ Unsaved(t, "retry", Null)

\* recoverDurable(Replay|Live)EvidenceValidation, when the page has loaded.
Recover(t) ==
  LET log == Visible(Owner[t])
      e == The(log, "verdict")
  IN /\ pc[t] = "surveying"
     /\ IF /\ Has(log, "verdict") /\ ~Refused(e) /\ ~Has(log, "validation")
           /\ \E i \in OfType(log, "evidence") : log[i].request = e.request
        THEN /\ View(t, "persisting_validation", error[Owner[t]], retry[Owner[t]], "saved")
             /\ Hold(t, "normalizing", Compiled(e, log))
        ELSE Rest(t) /\ UNCHANGED page
     /\ UNCHANGED <<ledger, seen, faults>>

-------------------------------------------------------------------------------
(* proposeActiveReconciliation and integrateActiveReconciliation *)

\* The guards of the session, and what a proposal is compiled from.
Proposable(log) == Active(log) /\ Has(log, "validation") /\ ~Has(log, "proposed")
Reconcilable(log) == Claimed /\ Verified(log) /\ Fresh(log)

Propose(t) ==
  LET log == Visible(Owner[t])
  IN /\ Ready(t) /\ Proposable(log)
     /\ IF ~Reconcilable(log) THEN Patched(t, "refused")
        ELSE /\ View(t, "proposing_reconciliation", "none", Null, "saved")
             /\ Hold(t, "proposing", [base |-> HeadOf(log), at |-> Len(log)])
             /\ UNCHANGED <<ledger, seen, faults>>

\* ReconciliationRecoveryError: the durable ledger is installed with the reason.
Blocked(t, kept) ==
  /\ Reinstall(t) /\ View(t, "idle", "refused", Null, kept) /\ Rest(t) /\ UNCHANGED faults

Again(t) ==
  /\ Hold(t, pc[t], [held[t] EXCEPT !.at = Len(ledger)])
  /\ UNCHANGED <<ledger, seen, faults, page>>

\* A proposal another tab has made is taken, if it is still what this one would
\* be; nothing is proposed on another head.
SaveProposal(t) ==
  LET x == held[t]
      e == [type |-> "proposed", base |-> x.base]
      valid == HeadOf(ledger) = x.base \/ Has(ledger, "integrated")
  IN /\ pc[t] = "proposing"
     /\ \/ /\ x.at = Len(ledger)
           /\ Write(t, e) /\ UNCHANGED faults
           /\ Derived(t, "idle", Append(ledger, e)) /\ Rest(t)
        \/ /\ x.at # Len(ledger)
           /\ IF Has(ledger, "proposed")
              THEN IF valid THEN Installed(t, ledger) ELSE Blocked(t, "conflict")
              ELSE IF HeadOf(ledger) # x.base THEN Blocked(t, "saved") ELSE Again(t)
        \/ Unsaved(t, "retry", Null)

Integrable(log) == Active(log) /\ Has(log, "proposed") /\ ~Has(log, "integrated")

\* A stale proposal, and one whose gate is closed, is never rebased.
Gate(log, base) == HeadOf(log) = base /\ Verified(log)

Integrate(t) ==
  LET log == Visible(Owner[t])
      base == The(log, "proposed").base
  IN /\ Ready(t) /\ Integrable(log)
     /\ IF ~Gate(log, base) THEN Patched(t, "refused")
        ELSE /\ View(t, "integrating_result", "none", Null, "saved")
             /\ Hold(t, "integrating", [base |-> base, at |-> Len(log)])
             /\ UNCHANGED <<ledger, seen, faults>>

SaveIntegration(t) ==
  LET x == held[t]
      e == [type |-> "integrated", base |-> x.base]
  IN /\ pc[t] = "integrating"
     /\ \/ /\ x.at = Len(ledger)
           /\ Write(t, e) /\ UNCHANGED faults
           /\ Derived(t, "idle", Append(ledger, e)) /\ Rest(t)
        \/ /\ x.at # Len(ledger)
           /\ IF Has(ledger, "integrated") THEN Installed(t, ledger)
              ELSE IF ~Gate(ledger, x.base) THEN Blocked(t, "saved") ELSE Again(t)
        \/ Unsaved(t, "retry", Null)

-------------------------------------------------------------------------------
(* Pages *)

Open(t) ==
  LET s == Owner[t]
  IN /\ t = Loader[s] /\ seen[s] = 0
     /\ seen' = [seen EXCEPT ![s] = Len(ledger)] /\ UNCHANGED <<ledger, faults, held>>
     /\ Derived(t, "idle", ledger)
     /\ pc' = [u \in Task |-> IF u = t THEN "surveying" ELSE IF u \in Mine(s) THEN "idle" ELSE pc[u]]

Closed(s) ==
  /\ seen' = [seen EXCEPT ![s] = 0] /\ UNCHANGED ledger
  /\ View(Loader[s], "idle", "none", Null, "saved")
  /\ pc' = [t \in Task |-> IF t \in Mine(s) THEN "closed" ELSE pc[t]]
  /\ held' = [t \in Task |-> IF t \in Mine(s) THEN Null ELSE held[t]]

\* The page goes in the middle of anything, or is reloaded when all is quiet.
Lost(s) == seen[s] # 0 /\ Fault /\ Closed(s)
Reload(s) == seen[s] # 0 /\ (\A t \in Mine(s) : pc[t] = "idle") /\ Closed(s) /\ UNCHANGED faults

-------------------------------------------------------------------------------
(* What a page offers of the work: buildWorkSurface, buildReconciliationSurface *)

\* projectEvidenceValidation.
ShownVerified(log) == Verified(log) /\ Fresh(log) /\ ~Has(log, "integrated")

\* Mutant: a request that was answered already does not keep from another.
CanValidate_Any(s) ==
  LET log == Visible(s)
  IN Idle(s) /\ persistence[s] = "saved" /\ Active(log) /\ ~Has(log, "validation") /\ Fresh(log)

CanValidate(s) ==
  LET log == Visible(s)
  IN /\ Idle(s) /\ persistence[s] = "saved"
     /\ Active(log) /\ ~Has(log, "validation") /\ Fresh(log)
     /\ Has(log, "evidence") => error[s] = "unobserved"

CanPropose(s) ==
  LET log == Visible(s)
  IN Idle(s) /\ persistence[s] = "saved" /\ Active(log) /\ ~Has(log, "proposed") /\ ShownVerified(log)

CanIntegrate(s) ==
  LET log == Visible(s)
  IN /\ Idle(s) /\ persistence[s] = "saved" /\ Active(log)
     /\ Has(log, "proposed") /\ ~Has(log, "integrated")
     /\ Gate(log, The(log, "proposed").base)

-------------------------------------------------------------------------------
Init ==
  /\ ledger = FirstLedger
  /\ seen = [s \in Session |-> 0]
  /\ operation = [s \in Session |-> "idle"] /\ error = [s \in Session |-> "none"]
  /\ retry = [s \in Session |-> Null] /\ persistence = [s \in Session |-> "saved"]
  /\ pc = [t \in Task |-> "closed"] /\ held = [t \in Task |-> Null] /\ faults = 0

User(t) == PlacementUser(t) \/ Validate(t) \/ Propose(t) \/ Integrate(t)

Continue(t) ==
  \/ PlacementContinue(t)
  \/ \E answer \in Verdict : Verify(t, answer)
  \/ VerifyLost(t) \/ Record(t) \/ Normalize(t) \/ Recover(t)
  \/ SaveProposal(t) \/ SaveIntegration(t)

Next ==
  \/ \E t \in Task : User(t) \/ Continue(t) \/ Open(t)
  \/ \E s \in Session : Lost(s) \/ Reload(s)

Spec == Init /\ [][Next]_vars

-------------------------------------------------------------------------------
(* Properties *)

\* What is adopted was asked for, placed, and based on the head it is adopted on:
\* nothing else was adopted or integrated since the question, however many tabs
\* ask, answer and commit.  So no answer is adopted twice, and a source is only
\* adopted again if it was asked about again after that (acceptActivePlacement).
PlacedOnHead == OnHead(ledger)

\* A result gets one request, one recorded answer and one validation, in that
\* order and with that answer, from whichever tab; and its freshness is that of
\* the ledger it was written to, however many conflicts came before.
ValidationsAreExact ==
  /\ \A type \in {"evidence", "verdict", "validation"} : Cardinality(OfType(ledger, type)) <= 1
  /\ \A i \in OfType(ledger, "validation") :
       /\ \E j \in OfType(ledger, "verdict") : j < i /\ SameMeaning(ledger[j], ledger[i])
       /\ ledger[i].fresh <=> Fresh(SubSeq(ledger, 1, i - 1))
  /\ \A i \in OfType(ledger, "verdict") :
       \E j \in OfType(ledger, "evidence") : j < i /\ ledger[j].request = ledger[i].request

\* While a question is out, whatever a manager may answer it with, the statements
\* of the placement boundary agree on it: what one of them lets through no other
\* stops or turns around on its way into the ledger (requestPlacement).  The
\* statement is about the constants; the state only says where it is relied on.
ProposalsHold == \A t \in Task : pc[t] = "asking" => BoundariesAgree

\* What is about to be recorded of a verifier's answer was earned by the commit or
\* the bundle that was asked about (validateActiveEvidence).
VerifiedIsEarned == \A t \in Task : pc[t] = "recording" => VerdictsAreEarned

ShownRequest(log) == log[ShownAnswer(log)].request

\* After the answer that is shown, that of another question was recorded.
AnsweredLate(log) ==
  \E i \in OfType(log, "answer") \cup OfType(log, "failure") :
    i > ShownAnswer(log) /\ log[i].request # ShownRequest(log)

\* What an idle page offers, the session does: a commit of the placement that is
\* shown and not stale, a validation that is not answered, a proposal that
\* compiles and an integration whose gate is open.  Only after a late answer to
\* an older question may the session commit another placement than is shown, or
\* none; and a proposal that is offered for a result that claims no completion is
\* refused.  (Not a retry: see the README.)
OfferedWorkIsAdmitted ==
  \A s \in Session :
    LET log == Visible(s)
    IN /\ CanAccept(s) /\ ~AnsweredLate(log) =>
            LET q == ActiveDelta(log)
            IN q = ShownRequest(log) /\ ~Adopted(log, q) /\ ~Stale(log, q)
       /\ CanValidate(s) => Validatable(log) /\ (Has(log, "evidence") => Unobserved(log))
       /\ CanPropose(s) => Proposable(log) /\ (Claimed => Reconcilable(log))
       /\ CanIntegrate(s) => Integrable(log) /\ Gate(log, The(log, "proposed").base)
===============================================================================
