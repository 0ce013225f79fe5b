------------------------------ MODULE LedgerStore ------------------------------
(* The ledger document of a project, the compare-and-swap that writes it, and *)
(* the sessions that append to it, retry after conflicts, reset it and load   *)
(* it again: adapters/storage and the write path of worldstate-session.       *)
EXTENDS LedgerBatch, FiniteSets

CONSTANTS
  Session,                  \* open tabs
  Task, Owner,              \* what a session runs: the user's operation, a recovery
  Foreground,               \* tasks that assertIdle keeps apart
  Event, Identity,          \* an event and its eventId
  Batch,                    \* the batches that are appended
  Persistent,               \* those appended by appendWithConflictRecovery
  Accepts(_, _),            \* reduceWorldstateLedger takes an event after a log
  Seed,                     \* the events of the seed document
  MaxAttempts,              \* MAX_LEDGER_CONFLICT_RECOVERY_ATTEMPTS
  MaxResets, MaxFaults,
  Null

ASSUME StoreAssumption ==
  /\ Owner \in [Task -> Session] /\ Foreground \subseteq Task
  /\ Batch \subseteq Seq(Event) /\ Null \notin Batch /\ Persistent \subseteq Batch
  /\ Seed \in Seq(Event) /\ Null \notin Seq(Event)
  /\ MaxAttempts \in Nat \ {0} /\ MaxResets \in Nat /\ MaxFaults \in Nat

VARIABLES
  stored,                   \* the events of the document in the store, or Null
  loaded,                   \* the document a session has installed, or Null
  phase,                    \* where a task is
  batch,                    \* the events it appends
  base,                     \* the document it appends them to (its expectedVersion)
  tries,                    \* conflicts it has met
  resets, faults,
  \* History.
  beaten,                   \* how often others have written since the task began
  acknowledged              \* events reported as saved since the last reset

vars == <<stored, loaded, phase, batch, base, tries, resets, faults, beaten, acknowledged>>
ledger  == <<stored, resets, acknowledged>>
request == <<batch, base, tries, beaten>>

Log == Seq(Event)
Phase == {"closed", "loading", "seeding", "idle", "putting", "rebasing", "surfacing", "replacing"}

TypeOK ==
  /\ stored \in Log \cup {Null} /\ loaded \in [Session -> Log \cup {Null}]
  /\ phase \in [Task -> Phase] /\ batch \in [Task -> Batch \cup {Null}]
  /\ base \in [Task -> Log \cup {Null}] /\ tries \in [Task -> 0 .. MaxAttempts]
  /\ resets \in 0 .. MaxResets /\ faults \in 0 .. MaxFaults
  /\ beaten \in [Task -> Nat] /\ acknowledged \subseteq Event

-------------------------------------------------------------------------------
(* Documents *)

\* A log reduces when each event is accepted after those before it; an
\* identifier is used once, so another event that has it does not reduce.
Reduces(log) ==
  /\ \A i \in DOMAIN log : Accepts(SubSeq(log, 1, i - 1), log[i])
  /\ \A i, j \in DOMAIN log : Identity[log[i]] = Identity[log[j]] => i = j

\* The version of a document stands for its events.
SameVersion(log, other) == log = other

Keeps(log, other) == Len(log) <= Len(other) /\ SubSeq(other, 1, Len(log)) = log

\* Mutant: put writes whatever the version is.
Puttable_Blind(t) == TRUE

\* put: the version that was read, and an immutable prefix.
Puttable(t) == SameVersion(stored, base[t]) /\ Keeps(stored, Candidate(base[t], batch[t]))

Idle(s) == \A t \in Foreground : Owner[t] = s => phase[t] \in {"idle", "closed"}

Mine(s) == {t \in Task : Owner[t] = s}

\* requireLoaded and assertIdle; a recovery runs beside the user's operation.
Ready(t) == loaded[Owner[t]] # Null /\ phase[t] = "idle" /\ (t \in Foreground => Idle(Owner[t]))

-------------------------------------------------------------------------------
(* initialize *)

Step(t, p) == phase' = [phase EXCEPT ![t] = p]
Install(s, log) == loaded' = [loaded EXCEPT ![s] = log]

\* The calls of the tasks T end in the phase p, and their locals with them;
\* they leave log in the store, of which the other calls know nothing.
Return(T, p, log) ==
  /\ phase' = [t \in Task |-> IF t \in T THEN p ELSE phase[t]]
  /\ batch' = [t \in Task |-> IF t \in T THEN Null ELSE batch[t]]
  /\ base' = [t \in Task |-> IF t \in T THEN Null ELSE base[t]]
  /\ tries' = [t \in Task |-> IF t \in T THEN 0 ELSE tries[t]]
  /\ stored' = log
  /\ beaten' = [t \in Task |->
                 IF t \in T THEN 0
                 ELSE IF batch[t] # Null /\ log # stored THEN beaten[t] + 1 ELSE beaten[t]]

Open(t) ==
  /\ t \in Foreground /\ \A u \in Mine(Owner[t]) : phase[u] = "closed"
  /\ Step(t, "loading")
  /\ UNCHANGED <<ledger, loaded, request, faults>>

\* The document is installed and the session is idle, its recoveries follow.
Load(t) ==
  /\ phase[t] = "loading" /\ stored # Null
  /\ Install(Owner[t], stored) /\ Return(Mine(Owner[t]), "idle", stored)
  /\ UNCHANGED <<resets, acknowledged, faults>>

LoadNothing(t) ==
  /\ phase[t] = "loading" /\ stored = Null
  /\ Step(t, "seeding")
  /\ UNCHANGED <<ledger, loaded, request, faults>>

\* The seed is put only where there is no document; otherwise the document
\* that another session has put is loaded.
PutSeed(t) ==
  /\ phase[t] = "seeding" /\ stored = Null
  /\ Install(Owner[t], Seed) /\ Return(Mine(Owner[t]), "idle", Seed)
  /\ UNCHANGED <<resets, acknowledged, faults>>

SeedConflict(t) ==
  /\ phase[t] = "seeding" /\ stored # Null
  /\ Step(t, "loading")
  /\ UNCHANGED <<ledger, loaded, request, faults>>

\* The page goes, with all it was doing.
Close(s) ==
  /\ \E t \in Mine(s) : phase[t] # "closed"
  /\ faults < MaxFaults /\ faults' = faults + 1
  /\ Install(s, Null) /\ Return(Mine(s), "closed", stored)
  /\ UNCHANGED <<resets, acknowledged>>

-------------------------------------------------------------------------------
(* append and appendWithConflictRecovery *)

\* The batch is reduced on the installed document; the kernel may refuse it.
Begin(t, b) ==
  /\ Ready(t)
  /\ Reduces(Candidate(loaded[Owner[t]], b))
  /\ batch' = [batch EXCEPT ![t] = b] /\ base' = [base EXCEPT ![t] = loaded[Owner[t]]]
  /\ Step(t, "putting")
  /\ UNCHANGED <<ledger, loaded, tries, faults, beaten>>

Commit(t) ==
  LET log == Candidate(base[t], batch[t]) IN
  /\ phase[t] = "putting" /\ Puttable(t)
  /\ acknowledged' = acknowledged \cup Elements(batch[t])
  /\ Install(Owner[t], log) /\ Return({t}, "idle", log)
  /\ UNCHANGED <<resets, faults>>

Conflict(t) ==
  /\ phase[t] = "putting" /\ ~Puttable(t)
  /\ tries' = [tries EXCEPT ![t] = @ + 1]
  /\ Step(t, IF batch[t] \in Persistent THEN "rebasing" ELSE "surfacing")
  /\ UNCHANGED <<ledger, loaded, batch, base, faults, beaten>>

\* Mutant: the retry keeps the document it has.
Rebase_Stale(t) ==
  /\ phase[t] = "rebasing" /\ tries[t] < MaxAttempts
  /\ Step(t, "putting")
  /\ UNCHANGED <<ledger, loaded, request, faults>>

\* Mutant: the events are not reduced again.
Rebase_Unchecked(t) ==
  /\ phase[t] = "rebasing" /\ tries[t] < MaxAttempts
  /\ base' = [base EXCEPT ![t] = stored]
  /\ Step(t, "putting")
  /\ UNCHANGED <<ledger, loaded, batch, tries, faults, beaten>>

\* The latest document is read, and the same events are reduced on it.
Rebase(t) ==
  /\ phase[t] = "rebasing" /\ tries[t] < MaxAttempts
  /\ Reduces(Candidate(stored, batch[t]))
  /\ base' = [base EXCEPT ![t] = stored]
  /\ Step(t, "putting")
  /\ UNCHANGED <<ledger, loaded, batch, tries, faults, beaten>>

\* The kernel refuses the events on the latest document.
Refuse(t) ==
  /\ phase[t] = "rebasing" /\ tries[t] < MaxAttempts
  /\ ~Reduces(Candidate(stored, batch[t]))
  /\ Return({t}, "idle", stored)
  /\ UNCHANGED <<loaded, resets, acknowledged, faults>>

GiveUp(t) ==
  /\ phase[t] = "rebasing" /\ tries[t] = MaxAttempts
  /\ Step(t, "surfacing")
  /\ UNCHANGED <<ledger, loaded, request, faults>>

\* surfaceWriteFailure and surfaceResetFailure after a conflict install the
\* durable document.
Surface(t) ==
  /\ phase[t] = "surfacing"
  /\ Install(Owner[t], stored) /\ Return({t}, "idle", stored)
  /\ UNCHANGED <<resets, acknowledged, faults>>

\* The transaction, or the read before a retry, fails; what is installed stays.
PutFails(t) ==
  /\ phase[t] \in {"putting", "rebasing"}
  /\ faults < MaxFaults /\ faults' = faults + 1
  /\ Return({t}, "idle", stored)
  /\ UNCHANGED <<loaded, resets, acknowledged>>

-------------------------------------------------------------------------------
(* resetSandbox: replace compares the version only *)

BeginReset(t) ==
  /\ t \in Foreground /\ Ready(t) /\ resets < MaxResets
  /\ base' = [base EXCEPT ![t] = loaded[Owner[t]]]
  /\ Step(t, "replacing")
  /\ UNCHANGED <<ledger, loaded, batch, tries, faults, beaten>>

Replace(t) ==
  /\ phase[t] = "replacing" /\ SameVersion(stored, base[t])
  /\ resets < MaxResets /\ resets' = resets + 1
  /\ acknowledged' = {}
  /\ Install(Owner[t], Seed) /\ Return({t}, "idle", Seed)
  /\ UNCHANGED faults

ReplaceConflict(t) ==
  /\ phase[t] = "replacing" /\ ~SameVersion(stored, base[t])
  /\ Step(t, "surfacing")
  /\ UNCHANGED <<ledger, loaded, request, faults>>

\* After any failed reset the durable document is read and installed.
ReplaceFails(t) ==
  /\ phase[t] = "replacing"
  /\ faults < MaxFaults /\ faults' = faults + 1
  /\ Step(t, "surfacing")
  /\ UNCHANGED <<ledger, loaded, request>>

-------------------------------------------------------------------------------
Init ==
  /\ stored = Null /\ loaded = [s \in Session |-> Null]
  /\ phase = [t \in Task |-> "closed"] /\ batch = [t \in Task |-> Null]
  /\ base = [t \in Task |-> Null] /\ tries = [t \in Task |-> 0]
  /\ resets = 0 /\ faults = 0
  /\ beaten = [t \in Task |-> 0] /\ acknowledged = {}

Next ==
  \/ \E t \in Task :
       \/ Open(t) \/ Load(t) \/ LoadNothing(t) \/ PutSeed(t) \/ SeedConflict(t)
       \/ \E b \in Batch : Begin(t, b)
       \/ Commit(t) \/ Conflict(t) \/ Rebase(t) \/ Refuse(t) \/ GiveUp(t)
       \/ Surface(t) \/ PutFails(t)
       \/ BeginReset(t) \/ Replace(t) \/ ReplaceConflict(t) \/ ReplaceFails(t)
  \/ \E s \in Session : Close(s)

Spec == Init /\ [][Next]_vars

-------------------------------------------------------------------------------
(* Properties *)

\* What was reported as saved is in the ledger until the ledger is reset, also
\* when the events of another session came in between (append,
\* appendWithConflictRecovery and the immutable prefix of put).
AcknowledgedKept == stored # Null => acknowledged \subseteq Elements(stored)

\* A conflict is always the doing of another writer, so an operation gives up
\* only when others have written almost as often as it has tried: the retry
\* loop reads the latest document each time.
ConflictsAreOthers ==
  \A t \in Task : batch[t] # Null => tries[t] <= 1 + beaten[t]

\* Sessions, retries, lost pages and resets together behave as one log to which
\* each batch is appended once, whole, and decided by the log at that moment
\* ("Kernel failures cannot persist a partial batch").
Takes(log, b) == Reduces(Candidate(log, b))
Wanted == [t \in Task |-> IF phase[t] \in {"putting", "rebasing"} THEN batch[t] ELSE Null]
Promise == INSTANCE AtomicLog WITH log <- stored, wanted <- Wanted, Admits <- Takes
ImplementsAtomicLog == Promise!Spec
===============================================================================
