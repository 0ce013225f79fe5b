----------------------------- MODULE SessionLedger -----------------------------
(* What the parts of a durable session share: the ledger of the project, the  *)
(* copy each open tab has installed, the tasks that run in a tab, and the two  *)
(* ways they write.  The ledger only grows here, so a copy is a prefix of it;  *)
(* resets are in LedgerStore and ArtifactPromotion, and LedgerStore shows that *)
(* a write is one step that the ledger of that moment decides.                 *)
EXTENDS Naturals, Sequences, FiniteSets

CONSTANTS
  Session,                  \* open tabs
  Task, Owner,              \* what runs in a tab
  Foreground,               \* the user's operations, one at a time in a tab
  Loader,                   \* the task of a tab that initializes it
  FirstLedger,              \* the events of the ledger the run starts from
  MaxFaults,
  Null

ASSUME SessionAssumption ==
  /\ Owner \in [Task -> Session] /\ Foreground \subseteq Task
  /\ Loader \in [Session -> Task] /\ \A s \in Session : Owner[Loader[s]] = s
  /\ FirstLedger # <<>> /\ MaxFaults \in Nat

VARIABLES
  ledger,                   \* the events of the stored document
  seen,                     \* how many of them a tab has installed; 0: not loaded
  operation,                \* operationState of a tab
  error,                    \* its error code, where a view asks for it
  pc,                       \* where a task is
  faults

shared == <<ledger, seen, operation, error, pc, faults>>

-------------------------------------------------------------------------------
Elements(log) == {log[i] : i \in DOMAIN log}

OfType(log, type) == {i \in DOMAIN log : log[i].type = type}

Last(S) == IF S = {} THEN 0 ELSE CHOOSE i \in S : \A j \in S : j <= i

Visible(s) == SubSeq(ledger, 1, seen[s])
Current(s) == seen[s] = Len(ledger)
Mine(s) == {t \in Task : Owner[t] = s}

\* requireLoaded and assertIdle, and the latch of the workbench that keeps the
\* user's operations apart.
Ready(t) ==
  /\ t \in Foreground /\ pc[t] = "idle"
  /\ seen[Owner[t]] # 0 /\ operation[Owner[t]] = "idle"

Go(t, place) == pc' = [pc EXCEPT ![t] = place]
Show(t, state, code) ==
  /\ operation' = [operation EXCEPT ![Owner[t]] = state]
  /\ error' = [error EXCEPT ![Owner[t]] = code]

\* A batch that the ledger already has is an exact repetition.
Extended(e) == IF e \in Elements(ledger) THEN ledger ELSE Append(ledger, e)

\* A write that succeeds installs the ledger it has made.
Write(t, e) ==
  /\ ledger' = Extended(e)
  /\ seen' = [seen EXCEPT ![Owner[t]] = Len(Extended(e))]

\* surfaceWriteFailure after a conflict: the durable ledger is installed.
Reinstall(t) == seen' = [seen EXCEPT ![Owner[t]] = Len(ledger)] /\ UNCHANGED ledger

Fault == faults < MaxFaults /\ faults' = faults + 1
===============================================================================
