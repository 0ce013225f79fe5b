----------------------------- MODULE LiveAuthority -----------------------------
(***************************************************************************)
(* The private store of live runs (src/adapters/codex/live-authority-      *)
(* server.ts) and the host side of an execution (live.ts, consumption.ts,  *)
(* workspace-lease.ts): handlers of server processes that authorize a run, *)
(* dispatch it to the worker or report its status, over create-only and    *)
(* replaced files.  Handlers are cut at the awaits where another handler,  *)
(* a crash or an I/O error can come between.                               *)
(*                                                                         *)
(* A request stands for its signed content; a document for its digest.     *)
(* Configuration, schema, signature and worktree checks can only refuse.   *)
(* The guard file inside odeu-run-claims is left out: what it adds to the  *)
(* create-only claim is one more way to be refused.                        *)
(***************************************************************************)
EXTENDS Naturals

CONSTANTS
  Run, Request, Ledger,
  ForRun,       \* ForRun[q]: the run that request q executes
  Document,     \* Document[q]: the ledger document it was authorized from
  Queued,       \* Queued[d]: the runs that document d shows queued and live
  FirstLedger,  \* the ledger file the host was prepared with
  Process, Handler,
  Home,         \* Home[h]: the process that handler h runs in
  Cautious,     \* an operator removes guards only when nobody is inside them
  MaxFaults,    \* bound: crashes and I/O errors
  Null

Outcome == {"returned", "failed", "refused"}
\* What a worker reports of itself.
Report == {"returned", "blocked", "failed", "cancelled"}

\* Phases: between the publication guard and the run guard, inside both, and
\* of the status reader, which takes none.
Running == {"active", "leased", "vouched", "claimed", "working"}
Inner   == {"checking", "snapshotting", "publishing", "verifying", "recording",
            "marked", "responding", "settling", "leaving"} \cup Running
Outer   == {"joining", "parting"}
Phase   == Inner \cup Outer \cup {"idle", "arrived", "entering", "probing", "doubting", "judging", "answered"}
Job     == {"authorize", "dispatch", "status"}
Answer  == {"authorized", "authorization_conflict", "authorization_missing", "outcome_unknown",
            "dispatch_in_progress", "completed", "in_progress", "not_started", "error"}

ASSUME LiveAssumption ==
  /\ ForRun \in [Request -> Run] /\ Document \in [Request -> Ledger]
  /\ Queued \in [Ledger -> SUBSET Run] /\ FirstLedger \in Ledger
  /\ \A q \in Request : ForRun[q] \in Queued[Document[q]]
  /\ Home \in [Handler -> Process]
  /\ Null \notin Request \cup Ledger \cup Outcome \cup Answer
  /\ Cautious \in BOOLEAN /\ MaxFaults \in Nat

VARIABLES
  intent, snapshot, dispatch, \* the private records of each run, or Null
  response, responseTo,       \* its response and the request it answers
  claim,                      \* runs with an execution claim
  runGuard, publicationGuard, \* guard files
  ledgerFile,                 \* the authoritative ledger
  lease,                      \* the workspace lease file exists
  active,                     \* activeDispatches of each process
  phase, job, serves,         \* what each handler does
  prepared,                   \* the response it is about to write
  evidence,                   \* what a status reader has seen,
  answer,                     \* and what it answers
  worktree,                   \* runs whose worker has processes in the worktree
  faults,
  \* History, for the properties only.
  launches,                   \* workers started for each run
  late                        \* the run had started when the handler was asked

records == <<intent, snapshot, dispatch, response, responseTo, claim>>
guards  == <<runGuard, publicationGuard>>
host    == <<lease, worktree, launches>>
handler == <<phase, job, serves, prepared, evidence, answer, late>>
vars == <<intent, snapshot, dispatch, response, responseTo, claim, runGuard, publicationGuard,
          ledgerFile, lease, active, phase, job, serves, prepared, evidence, answer, worktree,
          faults, launches, late>>

Of(h) == ForRun[serves[h]]
At(h, place) == phase[h] = place
Goto(h, place) ==
  phase' = [phase EXCEPT ![h] = place] /\ UNCHANGED <<job, serves, prepared, evidence, answer, late>>
\* The handler has its answer, and goes on to leave.
Reply(h, place, text) ==
  /\ phase' = [phase EXCEPT ![h] = place]
  /\ answer' = [answer EXCEPT ![h] = text]
  /\ UNCHANGED <<job, serves, prepared, evidence, late>>
\* The worker's run ended this way; the response has still to be written.
Conclude(h, outcome) ==
  /\ phase' = [phase EXCEPT ![h] = "responding"]
  /\ prepared' = [prepared EXCEPT ![h] = outcome]
  /\ UNCHANGED <<job, serves, evidence, answer, late>>

Matches(h) == intent[Of(h)] = serves[h]
Completed(h) == Matches(h) /\ response[Of(h)] # Null /\ responseTo[Of(h)] = serves[h]

-------------------------------------------------------------------------------
(* Requests, and the guards around authorization and dispatch.             *)

Ask(h, j, q) ==
  /\ At(h, "idle")
  /\ phase' = [phase EXCEPT ![h] = "arrived"]
  /\ job' = [job EXCEPT ![h] = j]
  /\ serves' = [serves EXCEPT ![h] = q]
  /\ prepared' = [prepared EXCEPT ![h] = Null]
  /\ evidence' = [evidence EXCEPT ![h] = FALSE]
  /\ answer' = [answer EXCEPT ![h] = Null]
  /\ late' = [late EXCEPT ![h] = launches[ForRun[q]] > 0]
  /\ UNCHANGED <<records, guards, ledgerFile, host, active, faults>>

\* prepareLiveRuntime and configuredLedgerFile may refuse.
Reject(h) ==
  /\ At(h, "arrived")
  /\ Reply(h, "answered", "error")
  /\ UNCHANGED <<records, guards, ledgerFile, host, active, faults>>

\* A dispatch that was answered before needs no guard.
Arrive(h) ==
  /\ At(h, "arrived") /\ job[h] # "status"
  /\ IF job[h] = "dispatch" /\ Completed(h)
     THEN Reply(h, "answered", "completed")
     ELSE Goto(h, "entering")
  /\ UNCHANGED <<records, guards, ledgerFile, host, active, faults>>

Dispatching(h) == Of(h) \in active[Home[h]]

PublicationFree(h) == ~publicationGuard

\* withPublicationGuard
EnterPublication(h) ==
  /\ At(h, "entering")
  /\ \/ PublicationFree(h) /\ publicationGuard' = TRUE /\ Goto(h, "joining")
     \/ /\ ~PublicationFree(h)
        /\ Reply(h, "answered", IF job[h] = "dispatch" /\ Dispatching(h)
                                THEN "dispatch_in_progress" ELSE "outcome_unknown")
        /\ UNCHANGED publicationGuard
  /\ UNCHANGED <<records, runGuard, ledgerFile, host, active, faults>>

\* withRunGuard
EnterRun(h) ==
  /\ At(h, "joining")
  /\ \/ Of(h) \notin runGuard /\ runGuard' = runGuard \cup {Of(h)} /\ Goto(h, "checking")
     \/ /\ Of(h) \in runGuard
        /\ Reply(h, "parting", IF Dispatching(h) THEN "dispatch_in_progress" ELSE "outcome_unknown")
        /\ UNCHANGED runGuard
  /\ UNCHANGED <<records, publicationGuard, ledgerFile, host, active, faults>>

\* Each finally block removes its file, whoever made it; when it is gone the
\* error replaces the answer.
LeaveRun(h) ==
  /\ At(h, "leaving")
  /\ runGuard' = runGuard \ {Of(h)}
  /\ Reply(h, "parting", IF Of(h) \in runGuard THEN answer[h] ELSE "error")
  /\ UNCHANGED <<records, publicationGuard, ledgerFile, host, active, faults>>

LeavePublication(h) ==
  /\ At(h, "parting")
  /\ publicationGuard' = FALSE
  /\ Reply(h, "answered", IF publicationGuard THEN answer[h] ELSE "error")
  /\ UNCHANGED <<records, runGuard, ledgerFile, host, active, faults>>

Finish(h) ==
  /\ At(h, "answered")
  /\ phase' = [phase EXCEPT ![h] = "idle"]
  /\ job' = [job EXCEPT ![h] = Null] /\ serves' = [serves EXCEPT ![h] = Null]
  /\ prepared' = [prepared EXCEPT ![h] = Null] /\ answer' = [answer EXCEPT ![h] = Null]
  /\ evidence' = [evidence EXCEPT ![h] = FALSE] /\ late' = [late EXCEPT ![h] = FALSE]
  /\ UNCHANGED <<records, guards, ledgerFile, host, active, faults>>

-------------------------------------------------------------------------------
(* authorizeAndPublishLiveRun, under the guards.                           *)

CheckIntent(h) ==
  /\ At(h, "checking") /\ job[h] = "authorize"
  /\ IF intent[Of(h)] # Null
     THEN Reply(h, "leaving", IF ~Matches(h) THEN "authorization_conflict"
                              ELSE IF snapshot[Of(h)] # Document[serves[h]] THEN "outcome_unknown"
                              ELSE "authorized")
     ELSE IF Of(h) \in claim
     THEN Reply(h, "leaving", "outcome_unknown")
     ELSE Goto(h, "snapshotting")
  /\ UNCHANGED <<records, guards, ledgerFile, host, active, faults>>

\* Fault: whatever snapshot is there is adopted.
Adoptable_Any(h) == TRUE
Adoptable(h) == snapshot[Of(h)] \in {Null, Document[serves[h]]}

\* ensureImmutableLedgerSnapshot: create-only, and an equal one is adopted.
EnsureSnapshot(h) ==
  /\ At(h, "snapshotting")
  /\ IF Adoptable(h)
     THEN /\ snapshot' = [snapshot EXCEPT ![Of(h)] = IF @ = Null THEN Document[serves[h]] ELSE @]
          /\ Goto(h, "publishing")
     ELSE Reply(h, "leaving", "authorization_conflict") /\ UNCHANGED snapshot
  /\ UNCHANGED <<intent, dispatch, response, responseTo, claim, guards, ledgerFile, host, active, faults>>

\* publishExactLedgerUnderGuard: the replaced file is read back, and is not
\* replaced if somebody changed it since it was first read.
Publish(h) ==
  /\ At(h, "publishing")
  /\ \/ /\ ledgerFile' = Document[serves[h]]
        /\ Goto(h, IF ledgerFile' = ledgerFile THEN "recording" ELSE "verifying")
     \/ /\ \E g \in Handler \ {h} : phase[g] \in Inner
        /\ ledgerFile # Document[serves[h]]
        /\ Reply(h, "leaving", "outcome_unknown")
        /\ UNCHANGED ledgerFile
  /\ UNCHANGED <<records, guards, host, active, faults>>

Verify(h) ==
  /\ At(h, "verifying")
  /\ IF ledgerFile = Document[serves[h]]
     THEN Goto(h, "recording") ELSE Reply(h, "leaving", "outcome_unknown")
  /\ UNCHANGED <<records, guards, ledgerFile, host, active, faults>>

RecordIntent(h) ==
  /\ At(h, "recording") /\ job[h] = "authorize"
  /\ intent' = [intent EXCEPT ![Of(h)] = serves[h]]
  /\ Reply(h, "leaving", "authorized")
  /\ UNCHANGED <<snapshot, dispatch, response, responseTo, claim, guards, ledgerFile, host, active, faults>>

-------------------------------------------------------------------------------
(* dispatchAuthorizedLiveRequest, under the guards.                        *)

\* Fault: any intent of the run lets a request through.
Issued_Run(h) == intent[Of(h)] # Null
\* exactIntentMatches
Issued(h) == Matches(h)

\* Fault: a run without a response is dispatched again.
Undispatched_Unanswered(r) == TRUE
Undispatched(r) == dispatch[r] = Null /\ r \notin claim

CheckDispatch(h) ==
  /\ At(h, "checking") /\ job[h] = "dispatch"
  /\ \/ ~Issued(h) /\ Reply(h, "leaving", "authorization_missing")
     \/ Issued(h) /\ Completed(h) /\ Reply(h, "leaving", "completed")
     \/ /\ Issued(h) /\ ~Completed(h)
        /\ IF Undispatched(Of(h)) /\ snapshot[Of(h)] = Document[serves[h]]
           THEN Goto(h, "publishing") ELSE Reply(h, "leaving", "outcome_unknown")
  /\ UNCHANGED <<records, guards, ledgerFile, host, active, faults>>

\* The marker is durable before the execution starts.
Mark(h) ==
  /\ At(h, "recording") /\ job[h] = "dispatch"
  /\ dispatch' = [dispatch EXCEPT ![Of(h)] = serves[h]]
  /\ Goto(h, "marked")
  /\ UNCHANGED <<intent, snapshot, response, responseTo, claim, guards, ledgerFile, host, active, faults>>

Activate(h) ==
  /\ At(h, "marked")
  /\ active' = [active EXCEPT ![Home[h]] = @ \cup {Of(h)}]
  /\ Goto(h, "active")
  /\ UNCHANGED <<records, guards, ledgerFile, host, faults>>

WriteResponse(h) ==
  /\ At(h, "responding")
  /\ response' = [response EXCEPT ![Of(h)] = prepared[h]]
  /\ responseTo' = [responseTo EXCEPT ![Of(h)] = serves[h]]
  /\ Reply(h, "settling", "completed")
  /\ UNCHANGED <<intent, snapshot, dispatch, claim, guards, ledgerFile, host, active, faults>>

Deactivate(h) ==
  /\ At(h, "settling")
  /\ active' = [active EXCEPT ![Home[h]] = @ \ {Of(h)}]
  /\ Goto(h, "leaving")
  /\ UNCHANGED <<records, guards, ledgerFile, host, faults>>

-------------------------------------------------------------------------------
(* The execution: runLiveCodex.  Every error in it becomes a response.     *)

AcquireLease(h) ==
  /\ At(h, "active")
  /\ ~lease
  /\ lease' = TRUE
  /\ Goto(h, "leased")
  /\ UNCHANGED <<records, guards, ledgerFile, worktree, launches, active, faults>>

\* Fault: the claim is neither looked for nor created exclusively.
Unclaimed_Any(r) == TRUE
Unclaimed(r) == r \notin claim

\* assertCurrentRunIsQueued, on the authoritative ledger as it is now.
StillQueued(h) == Of(h) \in Queued[ledgerFile]

Vouch(h) ==
  /\ At(h, "leased")
  /\ Unclaimed(Of(h))
  /\ StillQueued(h)
  /\ Goto(h, "vouched")
  /\ UNCHANGED <<records, guards, ledgerFile, host, active, faults>>

\* claimQueuedRunAuthorization
Claim(h) ==
  /\ At(h, "vouched")
  /\ Unclaimed(Of(h))
  /\ claim' = claim \cup {Of(h)}
  /\ Goto(h, "claimed")
  /\ UNCHANGED <<intent, snapshot, dispatch, response, responseTo, guards, ledgerFile, host, active, faults>>

Start(h) ==
  /\ At(h, "claimed")
  /\ worktree' = worktree \cup {Of(h)}
  /\ launches' = [launches EXCEPT ![Of(h)] = @ + 1]
  /\ Goto(h, "working")
  /\ UNCHANGED <<records, guards, ledgerFile, lease, active, faults>>

\* A preflight check refuses: configuration, a busy or unclean workspace, an
\* authorization that expired or is consumed.
Refuse(h) ==
  /\ phase[h] \in {"active", "leased", "vouched"}
  /\ lease' = (lease /\ At(h, "active"))
  /\ Conclude(h, "refused")
  /\ UNCHANGED <<records, guards, ledgerFile, worktree, launches, active, faults>>

\* A blocked worker is an error, and only a returned one leaves a candidate.
Ended(report) == IF report = "returned" THEN "returned" ELSE "failed"

\* The worker has reported and its result is checked and sealed.
End(h, report) ==
  /\ At(h, "working")
  /\ lease' = FALSE
  /\ worktree' = worktree \ {Of(h)}
  /\ Conclude(h, Ended(report))
  /\ UNCHANGED <<records, guards, ledgerFile, launches, active, faults>>

\* Any other error of the execution; the worker's turn has ended, and with it
\* its processes.
Break(h) ==
  /\ phase[h] \in Running
  /\ lease' = (lease /\ At(h, "active"))
  /\ worktree' = worktree \ (IF At(h, "working") THEN {Of(h)} ELSE {})
  /\ Conclude(h, "failed")
  /\ UNCHANGED <<records, guards, ledgerFile, launches, active, faults>>

\* Fault: the lease is released although descendants may be at work.
Retained_Released == FALSE
Retained == TRUE

\* LiveCodexDeadlineExceededError: only the direct child is cancelled.
Timeout(h) ==
  /\ At(h, "working")
  /\ lease' = Retained
  /\ Conclude(h, "failed")
  /\ UNCHANGED <<records, guards, ledgerFile, worktree, launches, active, faults>>

-------------------------------------------------------------------------------
(* getLiveRunStatus.  Its first two reads are taken together.              *)

ReadRecords(h) ==
  /\ At(h, "arrived") /\ job[h] = "status"
  /\ IF Completed(h)
     THEN Reply(h, "answered", "completed")
     ELSE /\ phase' = [phase EXCEPT ![h] = IF Matches(h) THEN "probing" ELSE "doubting"]
          /\ evidence' = [evidence EXCEPT ![h] = response[Of(h)] # Null]
          /\ UNCHANGED <<job, serves, prepared, answer, late>>
  /\ UNCHANGED <<records, guards, ledgerFile, host, active, faults>>

\* Fault: only the dispatches of this process are evidence.
Executing_Here(h) == Dispatching(h)
Executing(h) ==
  Dispatching(h) \/ dispatch[Of(h)] # Null \/ Of(h) \in claim \cup runGuard

\* A request without its intent is answered from the evidence alone.
Probe(h) ==
  LET found == evidence[h] \/ Executing(h)
  IN  \/ /\ At(h, "probing")
         /\ phase' = [phase EXCEPT ![h] = "judging"]
         /\ evidence' = [evidence EXCEPT ![h] = found]
         /\ UNCHANGED <<records, guards, ledgerFile, host, active, faults, job, serves, prepared, answer, late>>
      \/ /\ At(h, "doubting")
         /\ Reply(h, "answered", IF found THEN "outcome_unknown" ELSE "not_started")
         /\ UNCHANGED <<records, guards, ledgerFile, host, active, faults>>

Judge(h) ==
  /\ At(h, "judging")
  /\ Reply(h, "answered", IF Dispatching(h) THEN "in_progress"
                          ELSE IF evidence[h] THEN "outcome_unknown" ELSE "not_started")
  /\ UNCHANGED <<records, guards, ledgerFile, host, active, faults>>

-------------------------------------------------------------------------------
(* Faults and the operator.                                                *)

Fault == faults < MaxFaults /\ faults' = faults + 1

\* An I/O error under the guards leaves through the finally blocks.  A record
\* being written may be there although its directory could not be synchronized.
Stumble(h) ==
  /\ Fault
  /\ LET r == Of(h)  q == serves[h]
     IN  \/ phase[h] \in {"joining", "checking", "verifying"} /\ UNCHANGED <<records, ledgerFile>>
         \/ /\ At(h, "snapshotting") /\ snapshot[r] = Null
            /\ snapshot' \in {snapshot, [snapshot EXCEPT ![r] = Document[q]]}
            /\ UNCHANGED <<intent, dispatch, response, responseTo, claim, ledgerFile>>
         \/ /\ At(h, "publishing")
            /\ ledgerFile' \in {ledgerFile, Document[q]}
            /\ UNCHANGED records
         \/ /\ At(h, "recording") /\ job[h] = "authorize"
            /\ intent' \in {intent, [intent EXCEPT ![r] = q]}
            /\ UNCHANGED <<snapshot, dispatch, response, responseTo, claim, ledgerFile>>
         \/ /\ At(h, "recording") /\ job[h] = "dispatch"
            /\ dispatch' \in {dispatch, [dispatch EXCEPT ![r] = q]}
            /\ UNCHANGED <<intent, snapshot, response, responseTo, claim, ledgerFile>>
  /\ Reply(h, IF At(h, "joining") THEN "parting" ELSE "leaving", "error")
  /\ UNCHANGED <<guards, host, active>>

\* The response could not be written, or is not known to be durable.
ResponseFails(h) ==
  /\ Fault
  /\ At(h, "responding")
  /\ \/ /\ response' = [response EXCEPT ![Of(h)] = prepared[h]]
        /\ responseTo' = [responseTo EXCEPT ![Of(h)] = serves[h]]
     \/ UNCHANGED <<response, responseTo>>
  /\ Reply(h, "settling", "error")
  /\ UNCHANGED <<intent, snapshot, dispatch, claim, guards, ledgerFile, host, active>>

\* The lease or the claim file was created, and then could not be written.
PreflightFails(h) ==
  /\ Fault
  /\ \/ At(h, "active") /\ ~lease /\ lease' = TRUE /\ UNCHANGED claim
     \/ At(h, "vouched") /\ lease' = FALSE /\ claim' = claim \cup {Of(h)}
  /\ Conclude(h, "failed")
  /\ UNCHANGED <<intent, snapshot, dispatch, response, responseTo, guards, ledgerFile, worktree, launches, active>>

\* A process dies with its handlers; its files stay, and so may its workers.
Crash(p) ==
  LET gone(f, v) == [h \in Handler |-> IF Home[h] = p THEN v ELSE f[h]]
  IN  /\ Fault
      /\ \E h \in Handler : Home[h] = p /\ ~At(h, "idle")
      /\ phase' = gone(phase, "idle") /\ job' = gone(job, Null) /\ serves' = gone(serves, Null)
      /\ prepared' = gone(prepared, Null) /\ answer' = gone(answer, Null)
      /\ evidence' = gone(evidence, FALSE) /\ late' = gone(late, FALSE)
      /\ active' = [active EXCEPT ![p] = {}]
      /\ UNCHANGED <<records, guards, ledgerFile, host>>

Quiesce(r) ==
  /\ r \in worktree /\ \A h \in Handler : At(h, "working") => Of(h) # r
  /\ worktree' = worktree \ {r}
  /\ UNCHANGED <<records, guards, ledgerFile, lease, launches, handler, active, faults>>

Reconcilable == Cautious => \A h \in Handler : phase[h] \notin Inner \cup Outer

ClearPublication ==
  /\ publicationGuard /\ Reconcilable
  /\ publicationGuard' = FALSE
  /\ UNCHANGED <<records, runGuard, ledgerFile, host, handler, active, faults>>

ClearRun(r) ==
  /\ r \in runGuard /\ Reconcilable
  /\ runGuard' = runGuard \ {r}
  /\ UNCHANGED <<records, publicationGuard, ledgerFile, host, handler, active, faults>>

\* The operator inspects the worktree before removing a retained lease.
ClearLease ==
  /\ lease /\ worktree = {} /\ \A h \in Handler : phase[h] \notin Running \ {"active"}
  /\ lease' = FALSE
  /\ UNCHANGED <<records, guards, ledgerFile, worktree, launches, handler, active, faults>>

-------------------------------------------------------------------------------
(* The specification.                                                      *)

Init ==
  /\ intent = [r \in Run |-> Null] /\ snapshot = [r \in Run |-> Null]
  /\ dispatch = [r \in Run |-> Null]
  /\ response = [r \in Run |-> Null] /\ responseTo = [r \in Run |-> Null]
  /\ claim = {} /\ runGuard = {} /\ publicationGuard = FALSE
  /\ ledgerFile = FirstLedger
  /\ lease = FALSE /\ worktree = {} /\ launches = [r \in Run |-> 0]
  /\ active = [p \in Process |-> {}]
  /\ phase = [h \in Handler |-> "idle"] /\ job = [h \in Handler |-> Null]
  /\ serves = [h \in Handler |-> Null] /\ prepared = [h \in Handler |-> Null]
  /\ evidence = [h \in Handler |-> FALSE] /\ answer = [h \in Handler |-> Null]
  /\ late = [h \in Handler |-> FALSE]
  /\ faults = 0

Enter(h)  == Reject(h) \/ Arrive(h) \/ EnterPublication(h) \/ EnterRun(h)
Record(h) == CheckIntent(h) \/ EnsureSnapshot(h) \/ Publish(h) \/ Verify(h) \/ RecordIntent(h)
Dispatch(h) == CheckDispatch(h) \/ Mark(h) \/ Activate(h) \/ WriteResponse(h) \/ Deactivate(h)
Execute(h) ==
  \/ AcquireLease(h) \/ Vouch(h) \/ Claim(h) \/ Start(h) \/ Refuse(h) \/ Timeout(h)
  \/ Break(h) \/ \E report \in Report : End(h, report)
Inform(h) == ReadRecords(h) \/ Probe(h) \/ Judge(h)
Leave(h)  == LeaveRun(h) \/ LeavePublication(h) \/ Finish(h)

\* What a handler does of itself.
Work(h) == Enter(h) \/ Record(h) \/ Dispatch(h) \/ Execute(h) \/ Inform(h) \/ Leave(h)
Fail(h) == Stumble(h) \/ ResponseFails(h) \/ PreflightFails(h)
Operator == ClearPublication \/ ClearLease \/ \E r \in Run : ClearRun(r)

Next ==
  \/ \E h \in Handler, j \in Job, q \in Request : Ask(h, j, q)
  \/ \E h \in Handler : Work(h) \/ Fail(h)
  \/ \E p \in Process : Crash(p)
  \/ \E r \in Run : Quiesce(r)
  \/ Operator

Spec == Init /\ [][Next]_vars

\* Node keeps running a handler it has started, a worker's processes end, and
\* the operator reconciles in a quiet moment what a crash leaves.  The session
\* issues the exact authorized request again, amid whatever else is asked, while
\* nothing shows that it was dispatched, and the host does not always reject it.
Retry(r) ==
  /\ intent[r] # Null /\ dispatch[r] = Null
  /\ \E h \in Handler : Ask(h, "dispatch", intent[r])

Fairness ==
  /\ \A h \in Handler : WF_vars(Work(h))
  /\ \A h \in Handler, q \in Request : SF_vars(job[h] = "dispatch" /\ serves[h] = q /\ Arrive(h))
  /\ \A r \in Run : SF_vars(Retry(r)) /\ WF_vars(Quiesce(r)) /\ SF_vars(ClearRun(r))
  /\ SF_vars(ClearPublication) /\ SF_vars(ClearLease)

FairSpec == Spec /\ Fairness

-------------------------------------------------------------------------------
(* Properties.                                                             *)

TypeOK ==
  /\ intent \in [Run -> Request \cup {Null}] /\ snapshot \in [Run -> Ledger \cup {Null}]
  /\ dispatch \in [Run -> Request \cup {Null}]
  /\ response \in [Run -> Outcome \cup {Null}] /\ responseTo \in [Run -> Request \cup {Null}]
  /\ claim \subseteq Run /\ runGuard \subseteq Run /\ publicationGuard \in BOOLEAN
  /\ ledgerFile \in Ledger
  /\ lease \in BOOLEAN /\ worktree \subseteq Run /\ launches \in [Run -> Nat]
  /\ active \in [Process -> SUBSET Run]
  /\ phase \in [Handler -> Phase] /\ job \in [Handler -> Job \cup {Null}]
  /\ serves \in [Handler -> Request \cup {Null}] /\ prepared \in [Handler -> Outcome \cup {Null}]
  /\ evidence \in [Handler -> BOOLEAN] /\ answer \in [Handler -> Answer \cup {Null}]
  /\ late \in [Handler -> BOOLEAN]
  /\ faults \in Nat

\* A run's worker is started at most once, over retries, crashes, several
\* server processes, and guards deleted under a live dispatch: the create-only
\* execution claim decides (claimQueuedRunAuthorization).
OneWorker == \A r \in Run : launches[r] <= 1

\* Two runs never have processes in the worktree together, although a timeout
\* or a crash may leave some behind (finalizeLiveCodexWorkspaceLease).
WorktreeExclusive == \A r, s \in worktree : r = s

\* While a run is claimed and executed the authoritative ledger is the document
\* it was authorized from: no other run is published meanwhile.
LedgerStands ==
  \A h \in Handler : phase[h] \in {"claimed", "working"} => ledgerFile = Document[serves[h]]

\* The response of a returned run can be traced through all of its records, as
\* verifyPrivateCompletedLiveCandidate demands of a candidate.
ReturnedIsTraceable ==
  \A r \in Run : response[r] = "returned" =>
    /\ intent[r] # Null /\ dispatch[r] = intent[r] /\ responseTo[r] = intent[r]
    /\ snapshot[r] = Document[intent[r]]
    /\ r \in claim

Execution == INSTANCE OneShotExecution WITH started <- {r \in Run : launches[r] > 0}

\* Every run is authorized once, started at most once and never after a response
\* to it, and its response is final; "refused" is a promise that it never ran.
ImplementsOneShot == Execution!Spec

\* A status reader that was asked after the worker started never answers
\* not_started, whichever process it runs in and whatever crashed since: the
\* session dispatches again on that answer (retryActiveLiveDispatch).
NotStartedIsTrue ==
  \A h \in Handler : job[h] = "status" /\ answer[h] = "not_started" => ~late[h]

\* An authorized run is dispatched in the end, whatever crash or error comes
\* before its marker, if the operator and the session do their part.
Dispatched == \A r \in Run : intent[r] # Null ~> dispatch[r] # Null
===============================================================================
