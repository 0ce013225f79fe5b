--------------------------- MODULE DelegationSession ---------------------------
(* From an adopted placement to the result of a run: the agent brief, the     *)
(* authority to execute it, dispatch, recovery of lost answers, and the       *)
(* lifecycle a response is normalized to; in several tabs over one ledger and  *)
(* the private server that LiveAuthority models in detail.                     *)
EXTENDS SessionLedger

CONSTANTS MaxBriefs, MaxRuns, MaxSources,
          Mode,             \* "live", "replay": what the host is configured for
          Response          \* what a worker answers

\* The ledger a run of the model starts from has no delegation in it.
ASSUME DelegationAssumption ==
  /\ FirstLedger \in Seq(Elements(FirstLedger))
  /\ \A e \in Elements(FirstLedger) : e.type \in {"source", "accepted"}
  /\ Response \cap {Null, "none", "intended", "running", "lost", "reconciled"} = {}
  /\ Response \cap {"eligible", "previewable"} = {}
  /\ MaxRuns \in Nat /\ Null \notin Nat

VARIABLES
  subject,                  \* the run a task works on
  carried,                  \* what it has been told and not yet saved
  todo,                     \* runs a recovery has still to look at
  server                    \* what the server has of a run

vars == <<shared, subject, carried, todo, server>>
local == <<subject, carried, todo>>

Run == 1 .. MaxRuns

\* An event is a record of its type with what matters of its payload: a source
\* or an acceptance has its sequence, a brief its base and mode, a run its brief,
\* and the evidence of a run its response, status or rejection.

-------------------------------------------------------------------------------
(* What a ledger says *)

HeadOf(log) == Cardinality(OfType(log, "accepted"))

Before(log, type, i) == {j \in OfType(log, type) : j < i}

\* An acceptance is of a source before it, and a brief is of the head it found.
Dated(log) ==
  /\ \A i \in OfType(log, "accepted") : log[i].sequence \in 0 .. Cardinality(Before(log, "source", i))
  /\ \A i \in OfType(log, "brief") : log[i].base = Cardinality(Before(log, "accepted", i))

ASSUME FirstLedgerAssumption == Dated(FirstLedger)

BriefsOf(log) == {log[i] : i \in OfType(log, "brief")}
RunsOf(log) == {log[i] : i \in OfType(log, "run")}

TheBrief(log, b) == CHOOSE e \in BriefsOf(log) : e.brief = b
TheRun(log, r) == CHOOSE e \in RunsOf(log) : e.run = r
ModeOf(log, r) == TheBrief(log, TheRun(log, r).brief).mode

About(log, type, r) == {log[i] : i \in {j \in OfType(log, type) : log[j].run = r}}

\* The lifecycle of a run: what its response was normalized to, unless its
\* outcome was declared unknown.
Status(log, r) ==
  IF About(log, "unknown", r) # {} THEN "outcome_unknown"
  ELSE IF About(log, "lifecycle", r) # {}
       THEN (CHOOSE e \in About(log, "lifecycle", r) : TRUE).status
       ELSE "queued"

Pending(log, r) == Status(log, r) \in {"queued", "blocked"}

\* activityFromLedger: a captured source ends the activity of the one before;
\* runs are followed only while their brief is.
ActiveBrief(log) ==
  LET i == Last(OfType(log, "brief"))
  IN IF i > Last(OfType(log, "source")) THEN log[i].brief ELSE Null

ActiveRun(log) ==
  LET i == Last({j \in OfType(log, "run") : log[j].brief = ActiveBrief(log)})
  IN IF i # 0 THEN log[i].run ELSE Null

\* The placement of the last source was adopted.
Placed(log) ==
  \E i \in OfType(log, "accepted") : log[i].sequence = Cardinality(OfType(log, "source"))

\* What appendLedgerEvent accepts after a log: a fresh identity, a brief or run
\* based on the head, and a lifecycle that may still move.
Accepts(log, e) ==
  CASE e.type \in {"source", "accepted"} -> TRUE
    [] e.type = "brief" -> e.base = HeadOf(log)
    [] e.type = "run" -> /\ \E b \in BriefsOf(log) : b.brief = e.brief /\ b.base = HeadOf(log)
                         /\ \A f \in RunsOf(log) : f.run # e.run
    [] e.type \in {"exchange", "transport"} -> About(log, e.type, e.run) = {}
    [] e.type = "rejection" -> \A f \in About(log, e.type, e.run) : f.code # e.code
    [] e.type = "lifecycle" -> Status(log, e.run) = "queued"
    [] e.type = "unknown" -> Pending(log, e.run)

\* Written again on the latest ledger, an event is repeated exactly, accepted or
\* refused.
Savable(e) == (e.type = "lifecycle" /\ e \in Elements(ledger)) \/ Accepts(ledger, e)

-------------------------------------------------------------------------------
(* The server, between its answers *)

Free == \A r \in Run : server[r] \notin {"running", "lost"}

\* getLiveRunStatus: only the process that executes a run sees it in progress.
Told(r) ==
  IF server[r] \in Response THEN {"completed"}
  ELSE IF server[r] = "running" THEN {"in_progress", "outcome_unknown"}
  ELSE IF server[r] \in {"lost", "reconciled"} THEN {"outcome_unknown"} ELSE {"not_started"}

Respond(r, x) ==
  /\ server[r] = "running"
  /\ server' = [server EXCEPT ![r] = x]
  /\ UNCHANGED <<shared, local>>

\* The executing process dies; the evidence it leaves blocks later dispatches.
Die(r) ==
  /\ server[r] = "running" /\ Fault
  /\ server' = [server EXCEPT ![r] = "lost"]
  /\ UNCHANGED <<ledger, seen, operation, error, pc, local>>

\* The operator removes the guards that a dead process has left.
Reconcile(r) ==
  /\ server[r] = "lost"
  /\ server' = [server EXCEPT ![r] = "reconciled"]
  /\ UNCHANGED <<shared, local>>

-------------------------------------------------------------------------------
(* Ends of a task's steps *)

\* The subject and what is carried are forgotten at the end of an operation.
Rest(t, place, state, code) ==
  /\ Go(t, place) /\ Show(t, state, code)
  /\ subject' = [subject EXCEPT ![t] = Null] /\ carried' = [carried EXCEPT ![t] = Null]

End(t, code) == Rest(t, "idle", "idle", code) /\ UNCHANGED todo

\* A recovery goes on with the next run, whatever became of this one.
Done(t, code) == Rest(t, IF todo[t] = {} THEN "idle" ELSE "recovering", "idle", code) /\ UNCHANGED todo

Proceed(t, place, r, x) ==
  /\ Go(t, place) /\ Show(t, "persisting_run_result", "other")
  /\ subject' = [subject EXCEPT ![t] = r] /\ carried' = [carried EXCEPT ![t] = x]
  /\ UNCHANGED todo

\* append: the installed ledger must still be the stored one.
Conflict(t) == ~Current(Owner[t]) /\ Reinstall(t) /\ End(t, "other")

-------------------------------------------------------------------------------
(* The placement operations, as far as they matter here: PlacementSession *)

Capture(t) ==
  LET s == Owner[t]
      n == Cardinality(OfType(Visible(s), "source"))
      e == [type |-> "source", sequence |-> n + 1]
  IN /\ Ready(t) /\ n < MaxSources
     /\ IF Current(s)
        THEN Write(t, e) /\ End(t, "other")
        ELSE Conflict(t)
     /\ UNCHANGED <<faults, server>>

\* The delta of the last source is accepted, on the head it was placed at.
Accept(t) ==
  LET s == Owner[t]
      n == Cardinality(OfType(Visible(s), "source"))
      e == [type |-> "accepted", sequence |-> n]
  IN /\ Ready(t) /\ n > 0 /\ e \notin Elements(Visible(s))
     /\ IF Current(s)
        THEN Write(t, e) /\ End(t, "other")
        ELSE Conflict(t)
     /\ UNCHANGED <<faults, server>>

-------------------------------------------------------------------------------
(* prepareActiveAgentBrief *)

Unbriefed(log) == \A b \in BriefsOf(log) : b.base # HeadOf(log)

\* The session stays idle while it asks for the capability.
Prepare(t) ==
  LET log == Visible(Owner[t])
  IN /\ Ready(t) /\ Unbriefed(log)
     /\ Cardinality(BriefsOf(ledger)) < MaxBriefs
     /\ Go(t, "capability")
     /\ carried' = [carried EXCEPT ![t] = HeadOf(log)]
     /\ UNCHANGED <<ledger, seen, operation, error, faults, subject, todo, server>>

Unavailable(t) ==
  /\ pc[t] = "capability" /\ Fault
  /\ End(t, "other")
  /\ UNCHANGED <<ledger, seen, server>>

\* The brief is compiled from the state before the question and appended to the
\* ledger that is installed now.
Compile(t, m) ==
  LET n == Cardinality(BriefsOf(ledger))
      e == [type |-> "brief", brief |-> n + 1, base |-> carried[t], mode |-> m]
  IN /\ pc[t] = "capability" /\ n < MaxBriefs
     /\ IF ~Current(Owner[t]) THEN Conflict(t)
        ELSE IF Accepts(ledger, e) THEN Write(t, e) /\ End(t, "other")
        ELSE UNCHANGED <<ledger, seen>> /\ End(t, "other")
     /\ UNCHANGED <<faults, server>>

-------------------------------------------------------------------------------
(* authorizeAndDispatchActiveBrief *)

\* The authorization of a run, with the exact request that its brief projects to.
Authorized(r, b) == [type |-> "run", run |-> r, brief |-> b]

Authorizable(log) ==
  /\ ActiveBrief(log) # Null
  /\ TheBrief(log, ActiveBrief(log)).base = HeadOf(log)
  /\ \A e \in RunsOf(log) : e.brief # ActiveBrief(log)

Used == {e.run : e \in RunsOf(ledger)} \cup {r \in Run : server[r] # "none"}
          \cup {subject[t] : t \in Task}

\* The authorization of a run and its exact request are one batch.
Grant(t, e) ==
  IF ~Current(Owner[t]) THEN Conflict(t)
  ELSE IF ~Accepts(ledger, e) THEN UNCHANGED <<ledger, seen>> /\ End(t, "other")
  ELSE /\ Write(t, e)
       /\ Go(t, "dispatching") /\ Show(t, "dispatching_run", "other")
       /\ subject' = [subject EXCEPT ![t] = e.run] /\ carried' = [carried EXCEPT ![t] = Null]
       /\ UNCHANGED todo

AuthorizeReplay(t, r) ==
  LET log == Visible(Owner[t])
  IN /\ Ready(t) /\ Authorizable(log) /\ r \notin Used
     /\ TheBrief(log, ActiveBrief(log)).mode = "replay"
     /\ Grant(t, Authorized(r, ActiveBrief(log)))
     /\ UNCHANGED <<faults, server>>

\* The server is shown the run in a preview of the ledger.
AuthorizeLive(t, r) ==
  LET log == Visible(Owner[t])
  IN /\ Ready(t) /\ Authorizable(log) /\ r \notin Used
     /\ TheBrief(log, ActiveBrief(log)).mode = "live"
     /\ Go(t, "authorizing") /\ Show(t, "authorizing_run", "other")
     /\ subject' = [subject EXCEPT ![t] = r]
     /\ carried' = [carried EXCEPT ![t] = ActiveBrief(log)]
     /\ UNCHANGED <<ledger, seen, faults, todo, server>>

\* authorizeAndPublishLiveRun keeps the intent before it answers.
Mint(t) ==
  /\ pc[t] = "authorizing" /\ server[subject[t]] = "none" /\ Free
  /\ server' = [server EXCEPT ![subject[t]] = "intended"]
  /\ Go(t, "committing")
  /\ UNCHANGED <<ledger, seen, operation, error, faults, local>>

\* The server is busy or refuses, or its answer is lost.
Unminted(t) ==
  /\ \/ pc[t] = "authorizing" /\ ~Free /\ UNCHANGED faults
     \/ pc[t] \in {"authorizing", "committing"} /\ Fault
  /\ End(t, "other")
  /\ UNCHANGED <<ledger, seen, server>>

\* Mutant: the request is sent while its authorization is being appended.
Commit_Eager(t) ==
  /\ pc[t] = "committing"
  /\ Grant(t, Authorized(subject[t], carried[t]))
  /\ server' = [server EXCEPT ![subject[t]] = "running"]
  /\ UNCHANGED faults

\* Both events are appended to the ledger that is installed by then.
Commit(t) ==
  /\ pc[t] = "committing"
  /\ Grant(t, Authorized(subject[t], carried[t]))
  /\ UNCHANGED <<faults, server>>

-------------------------------------------------------------------------------
(* retryActiveLiveDispatch *)

Redispatchable(log) ==
  /\ ActiveRun(log) # Null /\ ModeOf(log, ActiveRun(log)) = "live"
  /\ Status(log, ActiveRun(log)) = "queued"

Retry(t) ==
  LET log == Visible(Owner[t])
  IN /\ Ready(t) /\ Redispatchable(log)
     /\ Go(t, "retrying") /\ subject' = [subject EXCEPT ![t] = ActiveRun(log)]
     /\ UNCHANGED <<ledger, seen, operation, error, faults, carried, todo, server>>

\* Mutant: a run that never started is an error like any other.
ErrorFor_Any(status) == "other"

\* The errors the tab shows for a status; only one of them offers a retry.
ErrorFor(status) == IF status = "not_started" THEN "delegation_not_started" ELSE "other"

Retried(t, status) ==
  LET r == subject[t]
  IN /\ pc[t] = "retrying" /\ status \in Told(r)
     /\ \/ status = "completed" /\ Proceed(t, "storing", r, server[r])
        \/ /\ status = "not_started"
           /\ Go(t, "dispatching") /\ Show(t, "dispatching_run", "other") /\ UNCHANGED local
        \/ status \notin {"completed", "not_started"} /\ End(t, ErrorFor(status))
     /\ UNCHANGED <<ledger, seen, faults, server>>

-------------------------------------------------------------------------------
(* dispatchAndPersistAuthorizedRun *)

\* The request reaches the server: a response it has is repeated, a run that may
\* start does, and anything else is busy or consumed.
DispatchLive(t) ==
  LET r == subject[t]
  IN /\ pc[t] = "dispatching" /\ ModeOf(ledger, r) = "live"
     /\ \/ /\ server[r] \in Response
           /\ Proceed(t, "storing", r, server[r]) /\ UNCHANGED server
        \/ /\ server[r] = "intended" /\ Free
           /\ server' = [server EXCEPT ![r] = "running"]
           /\ Go(t, "awaiting") /\ UNCHANGED <<operation, error, local>>
        \/ /\ server[r] \notin Response /\ ~(server[r] = "intended" /\ Free)
           /\ Go(t, "doubting") /\ UNCHANGED <<operation, error, local, server>>
     /\ UNCHANGED <<ledger, seen, faults>>

\* The fixture adapter answers in the request itself: it returns, or fails when
\* the brief is not the one it was recorded for.
DispatchReplay(t, x) ==
  /\ pc[t] = "dispatching" /\ ModeOf(ledger, subject[t]) = "replay"
  /\ Proceed(t, "storing", subject[t], x)
  /\ UNCHANGED <<ledger, seen, faults, server>>

Receive(t) ==
  /\ pc[t] = "awaiting" /\ server[subject[t]] \in Response
  /\ Proceed(t, "storing", subject[t], server[subject[t]])
  /\ UNCHANGED <<ledger, seen, faults, server>>

\* The request or its answer is lost, the executing process with it or not.
Lose(t) ==
  /\ \/ pc[t] \in {"dispatching", "awaiting"} /\ Fault
     \/ pc[t] = "awaiting" /\ server[subject[t]] \in {"lost", "reconciled"} /\ UNCHANGED faults
  /\ Proceed(t, "observing", subject[t], Null)
  /\ UNCHANGED <<ledger, seen, server>>

\* The route answers an error of the private store as a failure of the worker,
\* which is no record of the server.
StoreError(t) ==
  /\ pc[t] \in {"dispatching", "awaiting"} /\ ModeOf(ledger, subject[t]) = "live" /\ Fault
  /\ Proceed(t, "storing", subject[t], "worker_failed")
  /\ UNCHANGED <<ledger, seen, server>>

\* Mutant: a busy or spent authority is taken for the failure of the worker.
Doubt_Terminal(t, status) ==
  /\ pc[t] = "doubting" /\ status \in Told(subject[t])
  /\ Proceed(t, "storing", subject[t], "failed")
  /\ UNCHANGED <<ledger, seen, faults, server>>

\* run_claim_busy and authorization_consumed are no evidence of the worker: the
\* private status is asked, and only a response it has is taken.
Doubt(t, status) ==
  LET r == subject[t]
  IN /\ pc[t] = "doubting" /\ status \in Told(r)
     /\ IF status = "completed"
        THEN Proceed(t, "storing", r, server[r])
        ELSE End(t, ErrorFor(status))
     /\ UNCHANGED <<ledger, seen, faults, server>>

\* A status cannot be had: nothing is concluded.
NoStatus(t) ==
  /\ pc[t] \in {"retrying", "doubting", "losing"} /\ Fault
  /\ End(t, "other")
  /\ UNCHANGED <<ledger, seen, server>>

-------------------------------------------------------------------------------
(* The exact response first, its normalization after *)

Exchange(t) == [type |-> "exchange", run |-> subject[t], response |-> carried[t]]

Store(t) ==
  /\ pc[t] = "storing"
  /\ IF Savable(Exchange(t))
     THEN /\ Write(t, Exchange(t))
          /\ Go(t, "normalizing") /\ UNCHANGED <<operation, error, local>>
     ELSE UNCHANGED <<ledger, seen>> /\ End(t, "other")
  /\ UNCHANGED <<faults, server>>

\* A response that is not of its run, request and brief, or whose lifecycle does
\* not lead where it says, is no outcome.
Coherent(x) == x # "incoherent"

Outcome(x) == IF x = "worker_failed" THEN "failed" ELSE x

Lifecycle(t) == [type |-> "lifecycle", run |-> subject[t], status |-> Outcome(carried[t])]

\* An incoherent response, or events that the ledger of this moment refuses, is
\* a normalization failure; so is an error of the store.
Normalize(t) ==
  LET r == subject[t]
  IN /\ pc[t] = "normalizing"
     /\ IF ~Coherent(carried[t])
        THEN Proceed(t, "rejecting", r, "coherence_rejected") /\ UNCHANGED <<ledger, seen>>
        ELSE IF Savable(Lifecycle(t))
        THEN Write(t, Lifecycle(t)) /\ Done(t, "other")
        ELSE Proceed(t, "rejecting", r, "state_conflict") /\ UNCHANGED <<ledger, seen>>
     /\ UNCHANGED <<faults, server>>

NormalizeFails(t) ==
  /\ pc[t] = "normalizing" /\ Coherent(carried[t]) /\ Fault
  /\ Proceed(t, "rejecting", subject[t], "state_conflict")
  /\ UNCHANGED <<ledger, seen, server>>

Rejection(t) == [type |-> "rejection", run |-> subject[t], code |-> carried[t]]

\* persistDelegationNormalizationFailure.
Reject(t) ==
  LET r == subject[t]
      e == Rejection(t)
  IN /\ pc[t] = "rejecting"
     /\ IF Savable(e)
        THEN /\ Write(t, e)
             /\ IF Pending(ledger, r) THEN Proceed(t, "concluding", r, Null) ELSE Done(t, "other")
        ELSE UNCHANGED <<ledger, seen>> /\ Done(t, "other")
     /\ UNCHANGED <<faults, server>>

\* The run is declared outcome_unknown; a terminal status that came first stays.
DeclareUnknown(t) ==
  LET e == [type |-> "unknown", run |-> subject[t]]
  IN /\ IF Savable(e) THEN Write(t, e) ELSE Reinstall(t)
     /\ Done(t, "other")
     /\ UNCHANGED <<faults, server>>

Conclude(t) == pc[t] = "concluding" /\ DeclareUnknown(t)

\* persistRecoveredNormalizationOutcome.
Complete(t) == pc[t] = "completing" /\ DeclareUnknown(t)

-------------------------------------------------------------------------------
(* persistDelegationGatewayFailure *)

Transport(t) == [type |-> "transport", run |-> subject[t]]

Observe(t) ==
  LET r == subject[t]
      e == Transport(t)
  IN /\ pc[t] = "observing"
     /\ IF ~Savable(e) THEN UNCHANGED <<ledger, seen>> /\ End(t, "other")
        ELSE /\ Write(t, e)
             /\ IF ~Pending(ledger, r) THEN End(t, "other")
                ELSE Proceed(t, IF ModeOf(ledger, r) = "live" THEN "losing" ELSE "concluding", r, Null)
     /\ UNCHANGED <<faults, server>>

\* After a lost answer the private status decides, and an unknown outcome there
\* becomes the outcome of the run here.
Losing(t, status) ==
  LET r == subject[t]
  IN /\ pc[t] = "losing" /\ status \in Told(r)
     /\ \/ status = "completed" /\ Proceed(t, "salvaging", r, server[r])
        \/ status = "outcome_unknown" /\ Proceed(t, "concluding", r, Null)
        \/ status \notin {"completed", "outcome_unknown"} /\ End(t, ErrorFor(status))
     /\ UNCHANGED <<ledger, seen, faults, server>>

-------------------------------------------------------------------------------
(* initialize and its recoveries *)

Unanswered(log) ==
  LET r == ActiveRun(log)
  IN r # Null /\ ModeOf(log, r) = "live" /\ About(log, "exchange", r) = {}

Open(t) ==
  LET s == Owner[t]
  IN /\ t = Loader[s] /\ seen[s] = 0
     /\ seen' = [seen EXCEPT ![s] = Len(ledger)]
     /\ Show(t, "idle", "other")
     /\ pc' = [u \in Task |->
                IF u = t THEN IF Unanswered(ledger) THEN "loading" ELSE "surveying"
                ELSE IF u \in Mine(s) THEN "idle" ELSE pc[u]]
     /\ subject' = [subject EXCEPT ![t] = IF Unanswered(ledger) THEN ActiveRun(ledger) ELSE Null]
     /\ UNCHANGED <<ledger, faults, carried, todo, server>>

\* recoverDurableLiveRunResponse: a response the server has is taken over.
Load(t, status) ==
  LET r == subject[t]
  IN /\ pc[t] = "loading" /\ status \in Told(r)
     /\ IF status = "completed"
        THEN Proceed(t, "restoring", r, server[r])
        ELSE Rest(t, "surveying", "idle", ErrorFor(status)) /\ UNCHANGED todo
     /\ UNCHANGED <<ledger, seen, faults, server>>

LoadFails(t) ==
  /\ pc[t] = "loading" /\ Fault
  /\ Rest(t, "surveying", operation[Owner[t]], error[Owner[t]]) /\ UNCHANGED todo
  /\ UNCHANGED <<ledger, seen, server>>

Restore(t) ==
  /\ pc[t] \in {"restoring", "salvaging"}
  /\ IF Savable(Exchange(t))
     THEN Write(t, Exchange(t)) /\ Rest(t, "surveying", "persisting_run_result", "other") /\ UNCHANGED todo
     ELSE /\ UNCHANGED <<ledger, seen>>
          /\ IF pc[t] = "restoring" THEN Rest(t, "surveying", "idle", "other") /\ UNCHANGED todo
             ELSE End(t, "other")
  /\ UNCHANGED <<faults, server>>

\* Mutant: only a run that is blocked is looked at again.
Survey_Blocked(t) ==
  LET log == Visible(Owner[t])
      pending == {e.run : e \in {f \in RunsOf(log) : Status(log, f.run) = "blocked"}}
  IN /\ pc[t] = "surveying"
     /\ todo' = [todo EXCEPT ![t] = pending]
     /\ Go(t, IF pending = {} THEN "idle" ELSE "recovering")
     /\ UNCHANGED <<ledger, seen, operation, error, faults, subject, carried, server>>

\* recoverDurableCodexNormalization looks at every run that has not ended.
Survey(t) ==
  LET log == Visible(Owner[t])
      pending == {e.run : e \in {f \in RunsOf(log) : Pending(log, f.run)}}
  IN /\ pc[t] = "surveying"
     /\ todo' = [todo EXCEPT ![t] = pending]
     /\ Go(t, IF pending = {} THEN "idle" ELSE "recovering")
     /\ UNCHANGED <<ledger, seen, operation, error, faults, subject, carried, server>>

\* A rejection that was recorded is concluded; otherwise the exchange of a queued
\* run is normalized again, from the request of its attempt and at its own time.
Recover(t, r) ==
  LET log == Visible(Owner[t])
      answer == About(log, "exchange", r)
  IN /\ pc[t] = "recovering" /\ r \in todo[t]
     /\ todo' = [todo EXCEPT ![t] = @ \ {r}]
     /\ IF /\ Pending(log, r) /\ answer # {}
           /\ About(log, "rejection", r) # {} \/ Status(log, r) = "queued"
        THEN /\ Go(t, IF About(log, "rejection", r) # {} THEN "completing" ELSE "normalizing")
             /\ Show(t, "persisting_run_result", error[Owner[t]])
             /\ subject' = [subject EXCEPT ![t] = r]
             /\ carried' = [carried EXCEPT ![t] =
                              IF About(log, "rejection", r) # {} THEN Null
                              ELSE (CHOOSE e \in answer : TRUE).response]
        ELSE /\ Go(t, IF todo[t] = {r} THEN "idle" ELSE "recovering")
             /\ UNCHANGED <<operation, error, subject, carried>>
     /\ UNCHANGED <<ledger, seen, faults, server>>

\* A write fails for good; the operation ends, a recovery goes on.
SaveFails(t) ==
  /\ pc[t] \in {"storing", "rejecting", "concluding", "completing", "observing", "restoring", "salvaging"} /\ Fault
  /\ IF pc[t] = "restoring"
     THEN Rest(t, "surveying", "idle", "other") /\ UNCHANGED todo
     ELSE Done(t, "other")
  /\ UNCHANGED <<ledger, seen, server>>

Closed(s) ==
  /\ seen' = [seen EXCEPT ![s] = 0]
  /\ pc' = [t \in Task |-> IF t \in Mine(s) THEN "closed" ELSE pc[t]]
  /\ operation' = [operation EXCEPT ![s] = "idle"] /\ error' = [error EXCEPT ![s] = "other"]
  /\ subject' = [t \in Task |-> IF t \in Mine(s) THEN Null ELSE subject[t]]
  /\ carried' = [t \in Task |-> IF t \in Mine(s) THEN Null ELSE carried[t]]
  /\ todo' = [t \in Task |-> IF t \in Mine(s) THEN {} ELSE todo[t]]
  /\ UNCHANGED <<ledger, server>>

\* The page goes in the middle of anything, or is reloaded when all is quiet.
Lost(s) == seen[s] # 0 /\ Fault /\ Closed(s)
Reload(s) ==
  /\ seen[s] # 0 /\ \A t \in Mine(s) : pc[t] = "idle"
  /\ Closed(s) /\ UNCHANGED faults

-------------------------------------------------------------------------------
(* What a page offers: buildWorkSurface, on the ledger the tab has installed   *)

Stale(log) ==
  ActiveBrief(log) # Null /\ TheBrief(log, ActiveBrief(log)).base # HeadOf(log)

Quarantined(log) ==
  ActiveRun(log) # Null
    /\ \E e \in About(log, "exchange", ActiveRun(log)) : ~Coherent(e.response)

WorkState(s) ==
  LET log == Visible(s)
      r == ActiveRun(log)
  IN IF r # Null /\ Status(log, r) = "outcome_unknown" THEN "outcome_unknown"
     ELSE IF Quarantined(log) THEN "quarantined"
     ELSE IF Stale(log) THEN "stale"
     ELSE IF operation[s] # "idle" THEN operation[s]
     ELSE IF r # Null THEN Status(log, r)
     ELSE IF ActiveBrief(log) # Null THEN "previewable"
     ELSE IF Placed(log) THEN "eligible" ELSE "ineligible"

CanPrepare(s) == WorkState(s) = "eligible" /\ operation[s] = "idle"
\* Mutant: the page forgets that a brief may be stale.
CanAuthorize_Stale(s) ==
  /\ ActiveBrief(Visible(s)) # Null /\ ActiveRun(Visible(s)) = Null
  /\ operation[s] = "idle"
CanAuthorize(s) == WorkState(s) = "previewable" /\ operation[s] = "idle"
CanRetryDispatch(s) ==
  /\ seen[s] # 0 /\ operation[s] = "idle" /\ error[s] = "delegation_not_started"
  /\ ~Stale(Visible(s)) /\ Redispatchable(Visible(s))

-------------------------------------------------------------------------------
Init ==
  /\ ledger = FirstLedger
  /\ seen = [s \in Session |-> 0]
  /\ operation = [s \in Session |-> "idle"] /\ error = [s \in Session |-> "other"]
  /\ pc = [t \in Task |-> "closed"] /\ faults = 0
  /\ subject = [t \in Task |-> Null] /\ carried = [t \in Task |-> Null]
  /\ todo = [t \in Task |-> {}]
  /\ server = [r \in Run |-> "none"]

User(t) ==
  \/ Capture(t) \/ Accept(t) \/ Prepare(t) \/ Retry(t)
  \/ \E r \in Run : AuthorizeReplay(t, r) \/ AuthorizeLive(t, r)

Continue(t) ==
  \/ \E m \in Mode : Compile(t, m)
  \/ Mint(t) \/ Commit(t) \/ DispatchLive(t) \/ Receive(t)
  \/ \E x \in {"returned", "worker_failed"} : DispatchReplay(t, x)
  \/ \E status \in {"completed", "in_progress", "outcome_unknown", "not_started"} :
       Retried(t, status) \/ Doubt(t, status) \/ Losing(t, status) \/ Load(t, status)
  \/ Store(t) \/ Normalize(t) \/ Reject(t) \/ Conclude(t) \/ Complete(t) \/ Observe(t) \/ Restore(t)
  \/ Survey(t) \/ \E r \in Run : Recover(t, r)

Fail(t) ==
  \/ Unavailable(t) \/ Unminted(t) \/ Lose(t) \/ StoreError(t) \/ NoStatus(t)
  \/ NormalizeFails(t) \/ LoadFails(t) \/ SaveFails(t)

Next ==
  \/ \E t \in Task : User(t) \/ Open(t) \/ Continue(t) \/ Fail(t)
  \/ \E s \in Session : Lost(s) \/ Reload(s)
  \/ \E r \in Run : Die(r) \/ Reconcile(r) \/ \E x \in Response : Respond(r, x)

Spec == Init /\ [][Next]_vars

\* Pages and servers go on with what they have begun, a worker ends; the human
\* opens a page again and dispatches what the page offers to retry.
Fairness ==
  /\ \A t \in Task : WF_vars(Continue(t)) /\ SF_vars(CanRetryDispatch(Owner[t]) /\ Retry(t))
  /\ \A s \in Session : WF_vars(Open(Loader[s])) /\ SF_vars(Reload(s))
  /\ \A r \in Run : WF_vars(Reconcile(r)) /\ WF_vars(\E x \in Response : Respond(r, x))
FairSpec == Spec /\ Fairness

-------------------------------------------------------------------------------
(* Properties *)

\* A live response in the ledger is the one the server keeps, and no answer of
\* the dispatch wrapper ("They are not terminal worker evidence by themselves");
\* only the failure the route itself makes of a store error is beyond this.
RecordedIsPrivate ==
  \A i \in OfType(ledger, "exchange") :
    LET e == ledger[i]
    IN ModeOf(ledger, e.run) = "live" /\ e.response # "worker_failed" => server[e.run] = e.response

\* No worker starts before the authorization of its run, with the exact request,
\* is durable, whatever conflicts, recoveries and retries came between.
DispatchedIsDurable ==
  \A r \in Run : server[r] \notin {"none", "intended"} => \E e \in RunsOf(ledger) : e.run = r

\* What an idle page offers, the session admits: no brief for a revision that has
\* one, no authority for a stale brief or one already used, and no retry of a
\* request that the server has not kept the intent of.
OfferedIsAdmitted ==
  \A s \in Session :
    LET log == Visible(s)
    IN seen[s] # 0 =>
         /\ CanPrepare(s) => Unbriefed(log)
         /\ CanAuthorize(s) => Authorizable(log)
         /\ CanRetryDispatch(s) => server[ActiveRun(log)] # "none"

\* A live run that stays the active one gets its response recorded, or its worker
\* is known to have died.
Concludes ==
  \A r \in Run :
    (ActiveRun(ledger) = r /\ ModeOf(ledger, r) = "live")
      ~> (ActiveRun(ledger) # r \/ About(ledger, "exchange", r) # {} \/ server[r] = "reconciled")

\* A recorded response does not stay without a lifecycle.
Normalizes ==
  \A r \in Run : (About(ledger, "exchange", r) # {}) ~> (Status(ledger, r) # "queued")

-------------------------------------------------------------------------------
(* What the proofs rest on                                                     *)

ServerState == Response \cup {"none", "intended", "running", "lost", "reconciled"}

\* The ledger is a sequence that no tab is ahead of, and a task is about a run or
\* none.
TypeOK ==
  /\ ledger \in Seq(Elements(ledger))
  /\ seen \in [Session -> Nat] /\ \A s \in Session : seen[s] <= Len(ledger)
  /\ pc = [u \in Task |-> pc[u]] /\ carried = [u \in Task |-> carried[u]]
  /\ subject \in [Task -> Run \cup {Null}]
  /\ server \in [Run -> ServerState]

Granted(log) == {e.run : e \in RunsOf(log)}

\* A brief, and a run, is one event of the ledger.
Identified ==
  /\ IsFiniteSet(BriefsOf(ledger))
  /\ \A b \in BriefsOf(ledger) : b.brief \in 1 .. Cardinality(BriefsOf(ledger))
  /\ \A b, c \in BriefsOf(ledger) : b.brief = c.brief => b = c
  /\ \A e \in RunsOf(ledger) : e.run \in Run /\ \E b \in BriefsOf(ledger) : b.brief = e.brief
  /\ \A e, f \in RunsOf(ledger) : e.run = f.run => e = f

\* Where a task acts on the authority of its run, and where it has a response.
Engaged == {"retrying", "dispatching", "awaiting", "doubting", "storing", "observing",
            "losing", "salvaging", "loading", "restoring"}
Keeping == {"storing", "salvaging", "restoring"}

Authority ==
  /\ \A t \in Task : pc[t] \in {"authorizing", "committing"} => subject[t] \in Run
  /\ \A t \in Task : pc[t] \in Engaged => subject[t] \in Granted(ledger)

\* What is held for the response of a live run is the response that is final.
Final(r, x) == ModeOf(ledger, r) = "live" /\ x # "worker_failed" => x \in Response /\ server[r] = x

Exact ==
  /\ \A t \in Task : pc[t] \in Keeping => Final(subject[t], carried[t])
  /\ \A i \in OfType(ledger, "exchange") :
       ledger[i].run \in Granted(ledger) /\ Final(ledger[i].run, ledger[i].response)

\* The server has kept the intent of what asks for a grant, and of what is granted.
Minted ==
  /\ \A t \in Task : pc[t] = "committing" => server[subject[t]] # "none"
  /\ \A r \in Granted(ledger) : ModeOf(ledger, r) = "live" => server[r] # "none"

\* What is held or recorded of a run is an answer, and no state of a page.
Answers == Response \cup {"returned", "worker_failed"}
Holding == Keeping \cup {"normalizing"}

Reported ==
  /\ \A t \in Task : pc[t] \in Holding => carried[t] \in Answers
  /\ \A e \in Elements(ledger) :
       /\ e.type = "exchange" => e.response \in Answers
       /\ e.type = "lifecycle" => e.status \notin {"eligible", "previewable"}

DelegationInv ==
  /\ TypeOK /\ Identified /\ Dated(ledger)
  /\ Authority /\ Exact /\ Minted /\ Reported /\ DispatchedIsDurable
===============================================================================
