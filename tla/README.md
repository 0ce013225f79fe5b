# A verification project for odeu-worldstate

TLA+ models of the parts of odeu-worldstate that decide things, TLC
configurations that check them on small instances, and TLAPS proofs of the
properties that matter most for every instance. Paths below are relative to
the repository (its application code is under `src/src`).

## 1. The system

odeu-worldstate keeps a *worldstate*: an append-only ledger of events, reduced
by a deterministic kernel to a graph of nodes with a linear history of
revisions. A manager places captured text as a provisional delta; a human
accepts it; the accepted work becomes a brief for an agent run; the run returns
a closure; evidence for the closure is validated independently; a
reconciliation delta integrates it, once a human accepts; and the artifact the
run produced may then be promoted by one compare-and-swap on a Git ref.

| Component | State | Operations | Hard behaviour | What makes it correct |
|---|---|---|---|---|
| Domain kernel (`domain/kernel.ts`, `events.ts`, `schema.ts`) | head revision, nodes, sources, deltas, briefs, runs, closures, validations, promotions | 15 kinds of events, each applied whole or rejected | long legal sequences: stale bases, competing proposals, late validations, reservations | linear history; only applicable operations; integration once and on evidence; records never revised; an authorized promotion pins the head |
| Ledger store (`adapters/storage`, `application/worldstate-ledger-transaction.ts`) | one document per project | load, seed, put (version compare and immutable prefix), replace, append of a batch with retries | concurrent tabs, a recovery beside the user, pages closed in mid-write, resets | nothing saved is lost; a batch is appended whole, once, on the ledger of one moment |
| Worldstate session (`application/worldstate-session.ts`) | installed ledger and version, operation state, activity, host attestations | initialize, capture and place, prepare, authorize and dispatch, retry, validate, propose and integrate, promote, reset; a recovery of each on load | awaits between a check and its use; several tabs; pages closed in mid-operation; retries after conflicts | nothing durable is inferred; recovery finishes what was begun and repeats nothing |
| Live run authority (`adapters/codex/live-authority-server.ts`, `live.ts`, `consumption.ts`, `workspace-lease.ts`) | published ledger, snapshot, intent, dispatch, response and claim files, two guards, workspace lease, in-memory markers | authorize and publish, dispatch, execute, status | crashes between files, two processes, stale guards, a deadline that leaves descendants behind, reads beside a finishing dispatch | a signed run is executed at most once, alone in the worktree and under its own ledger; a response is final and traceable; a status never denies a start |
| Run evidence (`integration/codex-run-evidence.ts` and its neighbours) | none | exchange, lifecycle and closure events of a response | answers of the wrapper beside those of the worker | what is recorded is what the worker answered |
| Evidence validation (`adapters/live-evidence`, `adapters/replay-evidence`, `integration/*-evidence-validation.ts`) | none that lasts | compile a question, verify a candidate or a fixture, bind observations to requirements | any worktree, any server, any answer | verified means proved |
| Artifact promotion, host side (`adapters/artifact-promotion/server.ts`) | authority, attempt and status files, repository lock directory, target ref | seal, promote, get status | crashes between any two files, two processes, other writers of the ref, unobservable refs | one update at most, from the exact base; receipts final and true |
| Artifact promotion, browser and routes (`worldstate-session.ts`, `app/api/artifacts/promote`, `integration/artifact-promotion.ts`) | authorization and outcome events, attestations | propose, authorize and promote, recover, reset | lost answers, delayed commands, other sessions, resets | no update without a reservation; recorded outcome = journal; nothing open is forgotten |
| Placement manager (`adapters/manager`, `integration/placement-*`) | none | project a request, accept an interpretation, materialize and convert a proposal | four statements of one boundary | what a manager answers in bounds becomes what it says, and nothing else becomes anything |
| Brief projection, reconciliation compiler (`integration`) | none | pure translations | what they refuse | they accept what the page offers and what is current |
| Workbench (`components/worldstate`) | latches of its buttons | offer operations | rules of its own, on a ledger of its own | what it offers, the session does |
| Operator authorization (`adapters/operator-authorization`) | none | refuse or admit a request | | |
| Onboarding (`components/onboarding`) | guide progress of one page | step, skip, close | | |

Interaction: a session calls the store and the HTTP routes asynchronously;
routes receive the whole ledger document and reduce it with the same kernel;
the host keeps private journals the browser never writes; the Git repository
and the file system are shared with processes outside the system. Tabs share
only the store.

## 2. Modules

| Module | Models | Checked by | Proved in |
|---|---|---|---|
| `WorldstateKernel` | `applyEvent` and its helpers, one action per event | `kernel` | `WorldstateKernelProofs` |
| `HeadReservation` | abstract: what the kernel promises the promotion boundary about the head | | (refined) |
| `LedgerBatch` | what becomes of a ledger when a batch is appended, shared by the store and its abstraction | `ledger_store` | `LedgerStoreProofs` |
| `LedgerStore` | the store, the transactions and every write path of a session | `ledger_store` | `LedgerStoreProofs` |
| `AtomicLog` | abstract: what the store promises to those who append | | (refined) |
| `SessionLedger` | what the session modules share: one growing ledger, the copy each tab has, its tasks | through those that extend it | `SessionLedgerProofs` (lemmas) |
| `DelegationSession` | briefs, authorization, dispatch, retry, exchange, normalization, recovery on load, and what the page offers of it | `delegation`, `delegation_liveness` | `DelegationSessionProofs` |
| `PlacementProposal` | the placement boundary as operators | `session_work` | `EvidenceSessionProofs` |
| `PlacementSession` | capture, question, answer, retry, semantic commit, and the placement the page shows | `session_work` | `EvidenceSessionProofs` |
| `EvidenceBinding` | what binds an answer of a verifier to its question, and the verdict | `session_work` | `EvidenceSessionProofs` |
| `CandidateEvidence` | sealing, the compilers of questions, the two verifiers | `session_work` | `EvidenceSessionProofs` |
| `EvidenceSession` | validation, proposal and integration over the placements of `PlacementSession` | `session_work` | `EvidenceSessionProofs` |
| `LiveAuthority` | `authorizeAndPublishLiveRun`, `dispatchAuthorizedLiveRequest`, `getLiveRunStatus` and, under a dispatch, `preflightLiveRun` and `runLiveCodex` | `live_dispatch`, `live_rivals`, `live_liveness` | `LiveAuthorityProofs` |
| `OneShotExecution` | abstract: what the live-run store promises of a run | | (refined) |
| `PromotionJournal` | `promoteArtifactCandidate`, cut where something can come between | `journal_competition`, `journal_restarts` | `PromotionJournalProofs` |
| `OneShotUpdate` | abstract: what the promotion server promises about the ref | | (refined) |
| `ArtifactPromotion` | sessions and ledger over the host: extends `PromotionJournal`, instantiates `HeadReservation` | `promotion_recovery`, `promotion_release` | `ArtifactPromotionProofs` |

The `MC` modules give TLC small instances; `PROJECT.json` maps every definition
to the lines it stands for. An operator named `X_Y` beside an `X` is `X` with a
plausible fault; nothing uses it but the mutants of `PROJECT.json`.

How the parts fit: `LedgerStore` shows that a write of a session is one step
that the ledger of that moment decides, and the session modules and
`ArtifactPromotion` use it so. `DelegationSession` sees of the live-run
store what `OneShotExecution` promises of it, plus the statuses. `ArtifactPromotion` uses
`HeadReservation`, which the kernel implements, and contains the journal itself.

### WorldstateKernel

`head` counts revisions (`state.canonical.head`); `nodes` is the graph;
`sources`, `deltas`, `briefs`, `runs`, `closures`, `validations` and
`promotions` are the records of `state.operational`, as functions from
identifiers to records or `Null`. An action is enabled exactly when `applyEvent`
accepts the event; `invariant` failures are its guards. The arguments of an
action are what the event carries. Abstracted: relations and the text of nodes
(a node is active or not, with its work status), source content (a source is a
statement, evidence, or material no validation may rest on), and identifiers of
events and commands. A revision is a number because the kernel's revision
identifiers digest their lineage. The kernel has no fairness: nothing has to
happen.

### LedgerStore

A document is its sequence of events; its version stands for them. A task is
an operation of a tab or a recovery beside it, and goes through reading,
reducing its batch on what is installed (`Begin`), the compare and swap
(`Commit`, `Conflict`), and, for `appendWithConflictRecovery`, the next reading
(`Rebase`, `Refuse`, `GiveUp`). `Candidate` appends the events of a batch one
after the other; an exact repetition, of the ledger or within the batch, adds
nothing. A tab may be closed at any of these, a
transaction may fail, and any tab may reset. `beaten` and `acknowledged` are
history variables. A write that reports failure although it was committed is
not modelled (IndexedDB reports a transaction's own outcome).

### DelegationSession

The ledger is a sequence of events, each a record with what matters of its
payload; a batch is one event. Each tab acts on the prefix it has installed
(`Visible`). A live run goes through `AuthorizeLive`, `Mint` (the server keeps
the intent), `Commit` (the authorization with its exact request), `DispatchLive`
and one of `Receive`, `Doubt` (the wrapper answered busy or consumed) and
`Lose`, then `Store`, `Normalize`, `Reject`, `Conclude`. `Open`, `Load`,
`Survey` and `Recover` are `initialize` and its recoveries. `server` is the
private store between its answers: `none`, `intended`, `running`, a response,
`lost` when its process died, `reconciled` when the operator cleared what was
left. `Can…` are the gates of `view-model.ts`; `Capture` and `Accept` stand for
the placements that end or enable a delegation.

### PlacementSession, EvidenceSession and their operators

`PlacementSession` follows a source from its capture to its adoption. The page
is part of the model because what it shows of a placement decides what may be
retried or accepted: `LedgerSurface` is `buildPlacementSurface`,
`PlacementSurface` the overlay of `withSessionPlacementTruth`. `EvidenceSession`
extends it by one returned result: the question is saved, the verifier answers
or is not heard, the exact answer is recorded, a validation is compiled and
written again after conflicts, and the proposal and the integration go through
the retry loops of the reconciliation. Answers come from the operators: those
of a manager from `GatewayOutcome` over all interpretations, those of a verifier
from `Class` over all responses. `PlacementProposal` and `CandidateEvidence` are
translations of pure code, with the four statements of the placement boundary and
the way from a worktree to a verdict as separate operators, compared with each
other in `BoundariesAgree` and `VerdictsAreEarned`, which `ProposalsHold` and
`VerifiedIsEarned` state where the session relies on them. These two are
statements about the constants: their state guards add nothing to what is compared. `Sound` is what the pinned harness would report
passed; refusal codes and the order of gates are abstracted (any `ok: false`
ends a validation), and Git's names are what they name.

### PromotionJournal

A process works through the phases of `promoteArtifactCandidate`: acquire the
repository lock, record the authority intent, read a prior attempt and its
receipt, examine the candidate, claim the create-only attempt, observe the ref,
launch `update-ref`, observe again, persist the receipt, release. Between any
two phases other processes run, other writers move the ref (`MoveRef`), the
process dies (`Crash`; the lock stays, a started update ends one way or the
other), or an I/O error ends the request (`Stumble`, `PersistFails`: the file
being installed may be there all the same). `ClearLock` is the operator;
`Cautious` says whether the lock is cleared only when nobody is inside. The
documents ask for that care ("require reconciliation rather than deletion and
retry"); `journal_restarts` and the theorems without `Cautious` show what holds
without it. `held`, `applied` and `launches` are history variables.

### LiveAuthority

A handler serves one request (`job`): it enters through the publication guard
and the run guard, and leaves through their `finally` blocks (`LeaveRun`,
`LeavePublication`), also after an error. An authorization goes through
`CheckIntent`, `EnsureSnapshot`, `Publish`, `Verify`, `RecordIntent`; a dispatch
through `CheckDispatch`, `Publish`, `Verify`, `Mark` (the durable marker),
`Activate`, the execution, `WriteResponse`, `Deactivate`. The execution takes the
workspace lease, reads the ledger (`Vouch`), creates the claim, starts the worker
and ends in a report, an error or the deadline. A status takes no guard and is
cut between its reads. `intent`, `snapshot`, `dispatch`, `response` and `claim`
are the private files, `active` the `activeDispatches` of each process. `Crash`
ends a process and leaves its files, `Stumble`, `ResponseFails` and
`PreflightFails` are I/O errors after which a file may be there all the same.
`ClearPublication`, `ClearRun` and `ClearLease` are the operator; `Cautious` is
as in the journal, and the lease is always removed with care, as its comment
asks ("until an operator verifies process quiescence").
Assumed of the worker: when its turn ends, or ends in an error, it leaves nothing
running; only a deadline and a crash do (the comment at
`finalizeLiveCodexWorkspaceLease`). `launches` and `late` are history variables.

### ArtifactPromotion

The ledger is the abstract `HeadReservation` (which the kernel is proved to
implement) plus the recorded receipt; the host is `PromotionJournal`, whose
variables and actions it extends. A session
holds the ledger it last installed and may act on it when it is out of date; an
append goes through `appendWithConflictRecovery`, so it takes effect on the
durable ledger or not at all. `Authorize` and `Resume` begin
`promoteActiveArtifact`, then `Preflight`, `Send`, `Reply` or `Unanswered`, and
`Confirm`, which reads the journal and records the outcome. `Reload` and
`Restore` are `initialize` and its recovery, which runs while the session is
open to its user. `Reset` is `resetSandbox`.
Two simplifications: a recovery in the background does not end the operation
state of a command in progress, and a promotion is offered once (its identifier
digests a candidate made for one run).

## 3. What is checked

| Run | Instance | Shows |
|---|---|---|
| `kernel` | 3 deltas on a node, or 2 briefs, runs, closures, validations and promotions with 3 deltas | `LinearHistory`, `OpenDeltaApplies`, `SupersessionChains`, `IntegratedOnce`, `WorkClaimsGrounded`, `ReservationPinsHead`, `OnePromotionPerRevision`, `PromotionGrounded`, `RecordsEndure`, and that the kernel implements the head reservation (`ImplementsReservation`) |
| `ledger_store` | 2 tabs, one with a recovery, 3 batches (one identifier shared by two events), 2 attempts, 1 reset, 1 fault | `AcknowledgedKept`, `ConflictsAreOthers`, `ImplementsAtomicLog` |
| `delegation` | 2 tabs, one with a recovery, 2 briefs, 2 runs, both modes, 1 fault | `RecordedIsPrivate`, `DispatchedIsDurable`, `OfferedIsAdmitted` |
| `delegation_liveness` | 1 live run, 2 tabs, 1 fault, fairness | `Concludes`, `Normalizes` |
| `session_work` | 2 tabs, one with a recovery, 2 sources, 3 requests, 1 result, 1 fault; and every interpretation, graph, worktree, result, server and response of small sets | `PlacedOnHead`, `ValidationsAreExact`, `OfferedWorkIsAdmitted`, `ProposalsHold`, `VerifiedIsEarned` |
| `live_dispatch` | 2 runs with one ledger file and one worktree, 2 processes, any operator, no status | `WorktreeExclusive`, `OneWorker` |
| `live_rivals` | 1 run, 2 requests authorized from one document, 2 processes, 1 fault, careful operator | `ReturnedIsTraceable`, `NotStartedIsTrue`, `ImplementsOneShot` |
| `live_liveness` | 1 run, 2 requests, 1 handler, 3 faults, fairness | `Dispatched` |
| `journal_competition` | 2 promotions of one base, 2 processes, 2 faults, careful operator | `LockExcludes`, `ImplementsOneShot` |
| `journal_restarts` | 1 promotion, 2 processes, 3 faults, any operator, fairness | `OneLaunch`, `PromotedWasHeld`, `AnswersAgree`, `Concludes` |
| `promotion_recovery` | 2 sessions, 2 processes, 1 promotion, 1 fault, careful operator | `UpdatesUnderReservation`, `RecordsAreJournalled`, `RecoveryKept` |
| `promotion_release` | 1 session, 1 process, 2 faults, fairness | `HeadReleased` |

Why the bounds are enough. A conflict in the kernel needs two competitors for
one head and one that moves it: three deltas, two of everything that competes.
`kernel` looks at the part of the state space named by `Focus` (a constraint in
the MC module): deltas on their own, disposed of in every way, or integrations
and promotions with deltas that are only accepted. Its patches complete and verify a node
together; that patches merge facet by facet is left to the theorem
`WorkIsGrounded`, which has every operation.
In the store, a task meets a writer that comes before, one that comes between
two of its attempts, and a reset; two attempts are the smallest number at which
the loop is both repeated and given up. A third batch shares an identifier with
the second, which is what a recovery and a user, or two tabs, produce.
In `delegation` two tabs and a recovery are what can work on one run at once;
two runs let a recovery look at one that is not the active one, and two briefs
let one be stale. The constraint `Focus` there takes captured sources only while
one tab is open and nothing has failed. In `session_work` three questions are a
first, its retry and one from another tab; `Focus` keeps a fault to the first
steps of the work and does not put a third question beside all the work on the
result. The sets of
interpretations, worktrees, results, servers and responses are listed in
`MCWorkSession`: everything in order, and everything in order but one or two
things. While the result is the active one no placement can be adopted by the
same tab, so that its validation becomes stale is the doing of the other.
In the journal two processes meet at each file, a third would meet the same
files; each fault can be a crash or an error at any point, and two faults allow
a crash of the process that recovers from a crash. In the live-run store two handlers are enough for
every pair of steps; `live_dispatch` leaves out the status reader
(`NoStatus`), which changes nothing the others read, and has no fault but the
operator's. `promotion_recovery` keeps the ref present (`RefPresent`); the journal runs also delete
it. The head there moves once (`MaxHead`), enough to be before, at and past
the revision of the promotion. Every invariant, action
property and refinement of these runs is also proved for every instance
(section 4), some of them for a careful operator only, so the bounds matter most for liveness.
`CHECK_DEADLOCK FALSE` is set for the kernel, the delegation runs and `session_work`,
where the bounded identifiers run out; the other systems never stop.

Fairness, where it is used. In `PromotionJournal`: a running request keeps
running (`WF` on the work of a process, which Node's event loop gives), the
operator clears a lock a crash left (`WF` on `ClearLock`, documented as the
operator's task), and a command with a durable authority and no receipt is
issued again (`WF` on the request). In `LiveAuthority`: a
handler that runs keeps running, a worker's processes end, and the guards
refuse instead of queueing, so the rest is strong fairness: the operator clears
a guard or a lease found again and again with nobody inside, the session repeats
the exact authorized dispatch as long as nothing shows it was made (`Retry`,
`retryActiveLiveDispatch`), and the host does not reject every one of these.
`Dispatched` says no more than that: nothing in the store, a half-written
authorization or a guard left by a crash, blocks a run for ever. In
`DelegationSession`: a page goes on with what it has begun, a closed one is opened, a worker ends, the
operator reconciles what a dead server process left, and the human reloads and
dispatches again when the page offers it (`SF`, because other
steps of the page come between). In `ArtifactPromotion`: a page runs what it
has begun (`WF` on `Continue`), processes and the operator as above, and the
human asks again and again for a promotion that is still authorized (`SF` on
`Resume`: the promote button is there whenever the session is idle, and
reloading in between does not keep it from ever being pressed). Faults and
refusals by the route are bounded by `MaxFaults`, so a liveness property says:
after the last fault. A route that refuses for ever keeps the head reserved for
ever; see the hazards in `PROJECT.json`.

## 4. What is proved

From the assumptions on the constants named in the modules (`ProfileAssumption`,
`OperationsAssumption`, `NullAssumption`, `PromotionAssumption`,
`LiveAssumption`, `SessionAssumption`, `StoreAssumption`, `DelegationAssumption`,
`FirstLedgerAssumption`, `EvidenceAssumption`, `WorkAssumption`, `BindingAssumption`,
`CandidateAssumption`, `ProposalAssumption`), and, where stated, `Cautious`:

* Kernel: `TypeCorrect`, then `Invariant == Spec => []IInv`. The properties are
  not inductive by themselves. `IInv` adds that a reconciliation delta names a
  closure, brief and validation that exist and agree (`LineageHolds`), that an
  accepted one met the gate (`IntegrationsHold`), that one standing promotion
  per closure exists (`OneStandingPerClosure`), and that the holder of the head
  was authorized at the head (`HolderAtHead`). `HistoryIsLinear`,
  `ClosureIntegratedOnce`, `PromotionsAreGrounded`, `RevisionPromotedOnce` and
  `ReservationHolds` follow. `RecordsNeverRevised` is proved action by action.
  `WorldstateKernelProofs` has its own invariants for the graph:
  `OpenDeltasApply`, `WorkIsGrounded`, `SupersessionEnds`.
* Kernel to `HeadReservation`: `KernelReserves`, each event a step of the
  reservation or a stutter under the map `ClaimOf`.
* Journal: `Invariant == Spec => []JournalInv`. `JournalInv` says that at most
  one process is between its claim and the launch and that it made the first
  claim (`OneClaimant`), and that a promoted receipt in preparation is already
  true (`TruthfulReceipts`). `LaunchedOnce`, `PromotedReceiptsAreTrue` and
  `EveryAnswerAgrees` need nothing of the lock.
* Journal with a careful operator: `LockHolds`, and with `SerialInv` (nobody
  updates a promotion that has a receipt) `ServesOneShot`: the journal, the
  lock and Git's compare-and-swap implement `OneShotUpdate`.
* Promotion from end to end with a careful operator: `SystemInvariant ==
  SystemSpec => []SystemInv`, for any number of sessions, promotions, processes
  and faults. What is added to the journal's invariant is `Entrusted`: a session about to send, a process that
  serves a promotion and an attempt in the journal all have, until there is a
  receipt, the reservation of the head behind them (`Reserved`). A step of the
  system is split into what it does to the ledger (`LedgerStep`), to the host
  (`HostStep`, a step of the journal) and to the trust (`Entrusting`), and the
  journal's own lemmas are used as they are. The lock is needed so that nobody
  updates the ref for a promotion that has a receipt already, whose reservation
  may be over. `UpdatesAreReserved`, `OutcomesAreJournalled` and
  `OutcomesAreKept` follow.
* Live-run store: `Invariant == Spec => []HostInv`. `HostInv` says that a run is
  started only under the claim, by the handler that made it (`OneClaimant`),
  that the worktree has one tenant, who entered it empty, and that what a
  deadline leaves there keeps the lease (`OneTenant`), and that a start is
  evidence for whoever asks later (`Informed`). `StartedOnce`, `WorktreeHeld`
  and `StartsNeverDenied` follow and need nothing of the guards.
* Live-run store with a careful operator: `StoreInvariant`. The publication
  guard admits one handler (`Serial`), so what it checked on entering still holds
  when it acts (`Fresh`, `Underway`, `Posted`) and the records of a run form a
  chain (`Chained`). `LedgerKept`, `ReturnsAreTraced` and the refinement
  `ExecutesOnce` of `OneShotExecution` follow. `LedgerKept` is about a property
  no run checks: with two runs it needs a careful operator, and `live_dispatch`
  has any.
* Delegation, for any number of tabs, tasks, runs, briefs and faults:
  `DelegationInvariant == Spec => []DelegationInv`. `DelegationInv` says that a
  brief and a run is one event of the ledger (`Identified`), which is what makes
  the mode of a run a fact that no later write changes; that a task which acts
  for a run has it from the ledger (`Authority`: by its own write, or because the
  ledger of its tab follows it, and a tab's ledger is a prefix of the stored
  one); and that what a task holds as the response of a live run is final on the
  server (`Exact`). A step is split into what it does to the ledger
  (`LedgerStep`), to the copies (`SeenStep`), to the server (`ServerStep`) and to
  the tasks (`TaskStep`); each action is shown to be of the four kinds, and the
  four keep the invariant. `DispatchesAreDurable` and `RecordsAreExact` follow.

* What the page offers of a delegation, `OffersAreAdmitted`: the page decides by
  sequences of sources, the session by heads. `Dated` relates them: an
  acceptance is of a source before it, and a brief's base is the number of
  acceptances before it. So, if the page shows the last source adopted and no
  brief after that (`PlacedIsUnbriefed`), every brief in its ledger is of an
  earlier head. `Minted` (a granted live run has an intent on the server) and
  `Reported` (what is recorded of a run is no state of the page) are for the
  retry and for the mode of an unfinished run.
* Ledger store, for any sessions, tasks, batches, attempts, resets and faults:
  `StoreInvariant == Spec => []StoreInv`. A task that is about to put has a batch
  that reduces on its base, and if that base is no longer the document it was
  overtaken once more than it has noticed. `CandidateKeeps` is the lemma that an
  append keeps what was there, by the least stage at which it would not; so the immutable
  prefix of `put` is never what refuses a write, and `SavedIsKept` and
  `ConflictsAreOfOthers` follow. `StoreIsAtomicLog`: under the map `Wanted` (a
  batch is wanted until its task returns) a commit is the append, a reset the restart,
  the seed the beginning, and reading, conflicts and closed tabs are stutters or
  the end of a wish.
* Placement and evidence sessions, for any tabs, sources, questions, results and
  faults: `WorkInvariant == Spec => []WorkInv`. A step either leaves the ledger
  alone or appends one event that the ledger of that moment may take (`Proper`),
  and the events of a ledger built this way have what the properties ask:
  questions are numbered (`Numbered`), answers belong to them (`Asked`),
  adoptions are of the head that was asked about (`OnHead`), a result has one of
  each record (`Worked`). What a task holds came from the ledger and stays true
  as it grows (`HoldsOf`); a validation that waits for its append is exact for a
  prefix without one (`normalizing`). `AdoptionsAreOnHead`, `ValidationIsExact`
  and `OffersAreAdmitted` follow.
* Placement boundary and verdicts, for every graph, interpretation, worktree,
  host and response: `BoundariesAlwaysAgree`, `VerdictsAreAlwaysEarned`. The
  first is the chain from an interpretation in bounds to the kernel's guards,
  link by link; the second goes back from a verdict through the bindings to the
  seal. `ProposalsAlwaysHold` and `VerifiedIsAlwaysEarned` are their use in the
  session. The assumptions say that markers for "nothing" are no
  values, and that a first ledger is one the session could have written.

Only model-checked: liveness (`Concludes` of the journal and of delegation,
`Normalizes`, `HeadReleased`, `Dispatched`), which is outside the prover's reach
here together with `ENABLED`. Without a careful operator, `LockExcludes`,
`RecordsAreJournalled`, `RecoveryKept`, `UpdatesUnderReservation`,
`ReturnedIsTraceable` and the refinements of `OneShotUpdate` and
`OneShotExecution` are neither checked nor proved: they need one.

## 5. Not modelled, and why

Rendering, fixtures, scripts and tests keep no state of the system, and
onboarding keeps a place in a guide that nothing else reads. Operator
authorization is a stateless refusal. Schema parsing, signatures and digests
are assumed to do what they are for: they appear as equality, or as the
possibility that a request is refused. The text of briefs, projections and
reconciliation deltas is not modelled, only when they are compiled. In the
live-run store `withUnclaimedRunMutation`, which only tests call, and the guard
around the creation of a claim are left out. In `CandidateEvidence` a change of the worktree
during sealing other than of HEAD, and the sandbox and its limits, are left out;
what the sandbox reports is an observation. In the sessions, two tabs never
record their verdicts at the same clock time, so that their events differ; the
delegation profile of a placement is abstracted.

Four things are *not* properties, because they do not hold and the code does
not claim them: that a revision has one brief and a brief one run (both fail
when two tabs act during the awaits of `prepareActiveAgentBrief`); that a run
recorded `outcome_unknown` is not executing (`persistDelegationGatewayFailure`
concludes from a status, so that the run has a conclusion); that a source is
adopted once (with three sources and two tabs, a retry that met a conflict keeps
the source it was for: once another source was captured, nothing compares it
with the adopted ones, and the second press asks about an adopted source again;
`PlacedOnHead` says what does hold, also for 3 sources and 4 requests, that an
adoption rests on a question asked since the last one); and that a retry the
page offers is done (the session's `retry` may be empty after a conflict).

## 6. Where the code and what it says differ

Met while modelling; none of them is a run, and the properties that touch them
say what holds instead.

* `getLiveRunStatus` reads the response first and the evidence of an execution
  afterwards: when the dispatch finishes in between, the status is
  `outcome_unknown` although the response is in place. The session tells its
  user that "the live run has execution evidence without a recoverable exact
  response". `Told` in `DelegationSession` has this answer.
* A `stale` receipt written after the update says that "the signed candidate was
  not applied or rebased" (`adapters/artifact-promotion/server.ts`). The code
  concludes so from the ref alone; its own update may have succeeded before
  another writer moved the ref. `OneShotUpdate` therefore promises less.
* A placement answer that comes after a later attempt's is recorded last: the
  page shows the later attempt's placement, while the session's activity follows
  the last answer and would commit another placement, or none. This is the
  exception `AnsweredLate` of `OfferedWorkIsAdmitted`.
* A result returned without a completion claim: the page offers the proposal
  (`view-model.ts`), the compiler refuses it
  (`validated-closure-to-reconciliation.ts`). This is the guard `Claimed` there.
* Any `ok: false` of a verifier is recorded and closes the validation of that
  closure for good, transient unavailability and an illegible sandbox report
  included.
* The body of the live-evidence route may have 512 KiB, as a receipt may; a
  candidate may be sealed with up to 64 MiB in 10,000 entries. Some candidates
  that can be sealed can never be verified.
* The gateway accepts an interpretation whose project is null, the session
  requires the project; and an interpretation that needs no clarification but
  asks a question passes its own schema and fails that of the receipt. Both end
  as failures to be retried (`BoundariesAgree` excludes them by name).
* Any error of the append of normalized events is recorded as a state conflict
  and ends a run as `outcome_unknown`, its exact response being durable
  (`NormalizeFails`).
* The fixture manager takes the final `.`, `!` and `?` off a source to make a
  title of it (`fixture.ts`). Of a source like `???`, which the request accepts,
  nothing is left; the interpretation does not parse, and the fixture branch of
  `runPlacement` catches nothing. The session records `placement_gateway_failed`
  and offers a retry, which fails in the same way (`FixtureOutcome`).
* A verdict another tab has recorded is found as a conflict of event identities
  and shown as an unavailable store (`Record`).
* A plain source resets the activity, so an unanswered validation attempt before
  it is never retried; `recoverDurableLiveRunResponse` takes back the response
  of the active run only.
* After a reset in another tab an append with conflict recovery may write its
  events to the new ledger, if the kernel takes them there.

## 7. Plan

Done: the kernel, the store, the sessions, the live-run store, the journal and
their compositions, with the proofs of section 4. What would add most next:

1. `DelegationSession` over `LiveAuthority` itself instead of its abstraction,
   with a refinement of `server` by the private files.
2. The text that is compiled: briefs, projections and reconciliation deltas as
   operators over small graphs, as `PlacementProposal` does for placements.
