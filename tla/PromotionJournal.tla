--------------------------- MODULE PromotionJournal ---------------------------
(***************************************************************************)
(* The host side of an artifact promotion (src/adapters/artifact-promotion *)
(* /server.ts): server processes that share a private journal of create-   *)
(* only files, one repository lock directory and one Git target ref that   *)
(* other writers also move.  promoteArtifactCandidate is cut at its awaits *)
(* wherever another writer, a crash or an I/O error can come between.      *)
(*                                                                         *)
(* The content of the authority and attempt files is a function of the     *)
(* promotion, so the files are sets; a receipt is kept as its outcome.     *)
(* Signatures, schemas, directories and configuration checks only ever     *)
(* make a request fail, which Stumble covers.                              *)
(***************************************************************************)
EXTENDS Naturals

CONSTANTS
  Promotion,    \* promotion identifiers, one per candidate, base, ref and repository
  Process,      \* server processes (or requests in flight in one of them)
  Commit,       \* commits the target ref may name
  Base,         \* Base[p], Candidate[p]: the commits that promotion p swaps
  Candidate,
  Cautious,     \* an operator clears the lock only when nobody is inside it
  MaxFaults,    \* bound: crashes and I/O errors
  Null

Outcome == {"promoted", "stale", "failed", "outcome_unknown"}

\* "absent": no such ref.  "unseen": the ref could not be observed.
Value == Commit \cup {"absent"}

ASSUME PromotionAssumption ==
  /\ Base \in [Promotion -> Commit] /\ Candidate \in [Promotion -> Commit]
  /\ \A p \in Promotion : Base[p] # Candidate[p]
  /\ {"absent", "unseen", Null} \cap Commit = {}
  /\ Null \notin Outcome \cup Promotion \cup {"absent", "unseen", "refused", "unestablished"}
  /\ Cautious \in BOOLEAN /\ MaxFaults \in Nat

\* Phases of a request; in the inner ones its process holds the lock.
Inner == {"locked", "reading", "examining", "claiming", "refusing", "recovering",
          "claimed", "ready", "updating", "updated", "writing", "releasing"}
Phase == Inner \cup {"idle", "waiting", "answered"}

\* What a request comes back with: a receipt, 202 outcome_unknown, or an error.
Answer == Outcome \cup {"unestablished", "refused"}

VARIABLES
  ref,          \* what the target ref names
  lock,         \* the repository lock directory exists
  authority,    \* promotions with a durable authority intent
  attempt,      \* promotions with a durable attempt
  status,       \* the durable receipt of each promotion
  phase,        \* what each process is doing,
  serves,       \* for which promotion,
  found,        \* whether it found an attempt made before,
  answer,       \* and the receipt it prepares or the answer it gives
  faults,
  \* History, for the properties only.
  held,         \* every value the ref has named
  applied,      \* promotions whose update moved the ref
  launches      \* ref updates started for each promotion

journal == <<authority, attempt, status>>
target  == <<ref, held, applied>>
process == <<phase, serves, found, answer>>
vars == <<ref, lock, authority, attempt, status, phase, serves, found, answer, faults,
          held, applied, launches>>

Inside(x) == phase[x] \in Inner

At(x, place) == phase[x] = place
Goto(x, place) == phase' = [phase EXCEPT ![x] = place] /\ UNCHANGED <<serves, found, answer>>
\* The receipt to write, or the answer to give once the lock is released.
Resolve(x, place, outcome) ==
  /\ phase' = [phase EXCEPT ![x] = place]
  /\ answer' = [answer EXCEPT ![x] = outcome]
  /\ UNCHANGED <<serves, found>>
\* A process takes up promotion p, or nothing.
TakeUp(x, p, place) ==
  /\ phase' = [phase EXCEPT ![x] = place]
  /\ serves' = [serves EXCEPT ![x] = p]
  /\ found' = [found EXCEPT ![x] = FALSE]
  /\ answer' = [answer EXCEPT ![x] = Null]

-------------------------------------------------------------------------------
(* Entering.                                                               *)

Request(x, p) ==
  /\ At(x, "idle")
  /\ TakeUp(x, p, "waiting")
  /\ UNCHANGED <<journal, target, lock, faults, launches>>

\* Fault: mkdir is recursive, and succeeds on a directory that is there.
LockFree_Recursive == TRUE
LockFree == ~lock

\* acquireRepositoryPromotionLock: mkdir until it succeeds, or give up.
Acquire(x) ==
  /\ At(x, "waiting")
  /\ LockFree
  /\ lock' = TRUE
  /\ Goto(x, "locked")
  /\ UNCHANGED <<journal, target, faults, launches>>

GiveUp(x) ==
  /\ At(x, "waiting")
  /\ lock
  /\ Resolve(x, "answered", "refused")
  /\ UNCHANGED <<journal, target, lock, faults, launches>>

-------------------------------------------------------------------------------
(* The journal before the update.                                          *)

\* The authority intent is read or created; both ways it is durable here.
RecordAuthority(x) ==
  /\ At(x, "locked")
  /\ authority' = authority \cup {serves[x]}
  /\ Goto(x, "reading")
  /\ UNCHANGED <<attempt, status, target, lock, faults, launches>>

\* Fault: an attempt without a receipt is taken for one in progress.
Recorded_Attempt(p) == p \in attempt
Recorded(p) == p \in attempt /\ status[p] # Null

\* A prior attempt with a receipt is answered with that receipt.
ReadAttempt(x) ==
  /\ At(x, "reading")
  /\ IF Recorded(serves[x])
     THEN Resolve(x, "releasing", status[serves[x]])
     ELSE /\ phase' = [phase EXCEPT ![x] = "examining"]
          /\ found' = [found EXCEPT ![x] = serves[x] \in attempt]
          /\ UNCHANGED <<serves, answer>>
  /\ UNCHANGED <<journal, target, lock, faults, launches>>

\* verifyCandidateGitObjects and targetRefIsCheckedOut: fit says both passed.
Examine(x, fit) ==
  /\ At(x, "examining")
  /\ \/ fit /\ ~found[x] /\ Goto(x, "claiming")
     \/ fit /\ found[x] /\ Goto(x, "recovering")
     \/ ~fit /\ ~found[x] /\ Goto(x, "refusing")
     \/ ~fit /\ found[x] /\ Resolve(x, "writing", "outcome_unknown")
  /\ UNCHANGED <<journal, target, lock, faults, launches>>

\* Fault: whoever finds the attempt in place goes on as if it had made it.
MayUpdate_Adopted(x) == TRUE
\* persistOrAdoptPromotionAttempt: only the creator may go on to the update.
MayUpdate(x) == serves[x] \notin attempt

Claim(x) ==
  /\ At(x, "claiming")
  /\ Goto(x, IF MayUpdate(x) THEN "claimed" ELSE "recovering")
  /\ attempt' = attempt \cup {serves[x]}
  /\ UNCHANGED <<authority, status, target, lock, faults, launches>>

\* An unfit candidate still spends the attempt.
ClaimRefusal(x) ==
  /\ At(x, "refusing")
  /\ Resolve(x, "writing", IF serves[x] \in attempt THEN "outcome_unknown" ELSE "failed")
  /\ attempt' = attempt \cup {serves[x]}
  /\ UNCHANGED <<authority, status, target, lock, faults, launches>>

-------------------------------------------------------------------------------
(* The target ref.                                                         *)

\* Fault: finding the base again is taken for a success nobody saw.
Adopted_Optimistic(p, seen) ==
  IF seen \in {Candidate[p], Base[p]} THEN "promoted"
  ELSE IF seen \in {"unseen", "absent"} THEN "outcome_unknown" ELSE "stale"
\* What an adopter concludes from the ref it sees.
Adopted(p, seen) ==
  IF seen = Candidate[p] THEN "promoted"
  ELSE IF seen \in {"unseen", "absent", Base[p]} THEN "outcome_unknown" ELSE "stale"

\* An adopter never updates the ref.
Recover(x, seen) ==
  /\ At(x, "recovering")
  /\ seen \in {ref, "unseen"}
  /\ Resolve(x, "writing", Adopted(serves[x], seen))
  /\ UNCHANGED <<journal, target, lock, faults, launches>>

ObserveBefore(x, seen) ==
  /\ At(x, "claimed")
  /\ seen \in {ref, "unseen"}
  /\ \/ seen = "unseen" /\ Resolve(x, "writing", "outcome_unknown")
     \/ seen = Candidate[serves[x]] /\ Resolve(x, "writing", "promoted")
     \/ seen \notin {"unseen", Candidate[serves[x]], Base[serves[x]]} /\ Resolve(x, "writing", "stale")
     \/ seen = Base[serves[x]] /\ Goto(x, "ready")
  /\ UNCHANGED <<journal, target, lock, faults, launches>>

\* The second targetRefIsCheckedOut, then update-ref is started.
Launch(x) ==
  /\ At(x, "ready")
  /\ Goto(x, "updating")
  /\ launches' = [launches EXCEPT ![serves[x]] = @ + 1]
  /\ UNCHANGED <<journal, target, lock, faults>>

CheckedOut(x) ==
  /\ At(x, "ready")
  /\ Resolve(x, "writing", "failed")
  /\ UNCHANGED <<journal, target, lock, faults, launches>>

\* Fault: the update names no expected old value.
Swappable_Blind(p) == TRUE
\* update-ref --no-deref <ref> <candidate> <base>: Git compares and swaps.
Swappable(p) == ref = Base[p]

Swap(p) ==
  /\ Swappable(p)
  /\ ref' = Candidate[p]
  /\ held' = held \cup {ref'}
  /\ applied' = applied \cup {p}

\* Git may also reject an update it could have made.
Update(x) ==
  /\ At(x, "updating")
  /\ Swap(serves[x]) \/ UNCHANGED target
  /\ Goto(x, "updated")
  /\ UNCHANGED <<journal, lock, faults, launches>>

\* Whether Git rejected the update only chooses the wording of "failed".
ObserveAfter(x, seen) ==
  /\ At(x, "updated")
  /\ seen \in {ref, "unseen"}
  /\ Resolve(x, "writing",
       IF seen = "unseen" THEN "outcome_unknown"
       ELSE IF seen = Candidate[serves[x]] THEN "promoted"
       ELSE IF seen = Base[serves[x]] THEN "failed" ELSE "stale")
  /\ UNCHANGED <<journal, target, lock, faults, launches>>

-------------------------------------------------------------------------------
(* The receipt, and leaving.                                               *)

\* Fault: a receipt replaces the one that is there.
Settle_Overwrite(p, outcome) == outcome
\* persistPromotionStatus: create-only, and an existing receipt is adopted.
Settle(p, outcome) == IF status[p] = Null THEN outcome ELSE status[p]

Persist(x) ==
  LET receipt == Settle(serves[x], answer[x])
  IN  /\ At(x, "writing")
      /\ status' = [status EXCEPT ![serves[x]] = receipt]
      /\ Resolve(x, "releasing", receipt)
      /\ UNCHANGED <<authority, attempt, target, lock, faults, launches>>

\* The finally block removes the lock directory, whoever made it; when it is
\* gone the error replaces the answer.
Release(x) ==
  /\ At(x, "releasing")
  /\ lock' = FALSE
  /\ Resolve(x, "answered", IF lock THEN answer[x] ELSE "refused")
  /\ UNCHANGED <<journal, target, faults, launches>>

Finish(x) ==
  /\ At(x, "answered")
  /\ TakeUp(x, Null, "idle")
  /\ UNCHANGED <<journal, target, lock, faults, launches>>

-------------------------------------------------------------------------------
(* Faults, the operator and other writers.                                 *)

Fault == faults < MaxFaults /\ faults' = faults + 1

\* An error before the receipt leaves through the finally block.  A file being
\* installed may be there although its directory could not be synchronized.
Stumble(x) ==
  /\ Fault
  /\ \/ At(x, "locked") /\ authority' \in {authority, authority \cup {serves[x]}}
        /\ UNCHANGED attempt
     \/ phase[x] \in {"claiming", "refusing"}
        /\ attempt' \in {attempt, attempt \cup {serves[x]}} /\ UNCHANGED authority
     \/ phase[x] \in {"reading", "examining", "ready"} /\ UNCHANGED <<authority, attempt>>
  /\ Resolve(x, "releasing", "refused")
  /\ UNCHANGED <<status, target, lock, launches>>

\* ArtifactPromotionOutcomeUnknownError: the receipt is not known to be
\* durable, although it may be in place.
PersistFails(x) ==
  /\ Fault
  /\ At(x, "writing")
  /\ \/ status' = [status EXCEPT ![serves[x]] = Settle(serves[x], answer[x])]
     \/ UNCHANGED status
  /\ Resolve(x, "releasing", "unestablished")
  /\ UNCHANGED <<authority, attempt, target, lock, launches>>

\* A process dies; the lock stays.  An update it had started ends before
\* anybody clears the lock, one way or the other.
Crash(x) ==
  /\ Fault
  /\ ~At(x, "idle")
  /\ (At(x, "updating") /\ Swap(serves[x])) \/ UNCHANGED target
  /\ TakeUp(x, Null, "idle")
  /\ UNCHANGED <<journal, lock, launches>>

ClearLock ==
  /\ lock
  /\ Cautious => \A x \in Process : ~Inside(x)
  /\ lock' = FALSE
  /\ UNCHANGED <<journal, target, process, faults, launches>>

\* Other writers of the repository.
MoveRef(v) ==
  /\ ref' = v
  /\ held' = held \cup {v}
  /\ UNCHANGED <<journal, lock, process, faults, applied, launches>>

-------------------------------------------------------------------------------
(* The specification.                                                      *)

Init ==
  /\ ref \in Value /\ held = {ref} /\ applied = {}
  /\ lock = FALSE
  /\ authority = {} /\ attempt = {}
  /\ status = [p \in Promotion |-> Null]
  /\ phase = [x \in Process |-> "idle"] /\ serves = [x \in Process |-> Null]
  /\ found = [x \in Process |-> FALSE] /\ answer = [x \in Process |-> Null]
  /\ launches = [p \in Promotion |-> 0]
  /\ faults = 0

Enter(x)  == Acquire(x) \/ GiveUp(x) \/ RecordAuthority(x) \/ ReadAttempt(x)
Decide(x) == (\E fit \in BOOLEAN : Examine(x, fit)) \/ Claim(x) \/ ClaimRefusal(x)
Observe(x) ==
  \E seen \in Value \cup {"unseen"} :
    Recover(x, seen) \/ ObserveBefore(x, seen) \/ ObserveAfter(x, seen)
Change(x) == Launch(x) \/ CheckedOut(x) \/ Update(x)
Leave(x)  == Persist(x) \/ Release(x) \/ Finish(x)

\* What a running process does of itself.
Work(x) == Enter(x) \/ Decide(x) \/ Observe(x) \/ Change(x) \/ Leave(x)
Fail(x) == Stumble(x) \/ PersistFails(x) \/ Crash(x)

Next ==
  \/ \E x \in Process, p \in Promotion : Request(x, p)
  \/ \E x \in Process : Work(x) \/ Fail(x)
  \/ ClearLock
  \/ \E v \in Value : MoveRef(v)

Spec == Init /\ [][Next]_vars

\* Node keeps running a request it has accepted; the operator reconciles a
\* lock left by a crash and issues an unanswered command again.
Fairness ==
  /\ \A x \in Process : WF_vars(Work(x))
  /\ \A p \in Promotion : WF_vars(p \in authority /\ status[p] = Null /\ \E x \in Process : Request(x, p))
  /\ WF_vars(ClearLock)

FairSpec == Spec /\ Fairness

-------------------------------------------------------------------------------
(* Properties.                                                             *)

TypeOK ==
  /\ ref \in Value /\ held \subseteq Value /\ applied \subseteq Promotion
  /\ lock \in BOOLEAN
  /\ authority \subseteq Promotion /\ attempt \subseteq Promotion
  /\ status \in [Promotion -> Outcome \cup {Null}]
  /\ phase \in [Process -> Phase] /\ serves \in [Process -> Promotion \cup {Null}]
  /\ found \in [Process -> BOOLEAN] /\ answer \in [Process -> Answer \cup {Null}]
  /\ faults \in Nat
  /\ launches \in [Promotion -> Nat]

\* However often a promotion is requested, retried after a crash or taken over
\* by another process, and even if the lock is deleted under a live process,
\* git update-ref is started for it once: the create-only attempt is the claim
\* (promoteArtifactCandidate, persistOrAdoptPromotionAttempt).
OneLaunch == \A p \in Promotion : launches[p] <= 1

\* A receipt that says promoted was written because the target ref did name
\* the candidate, whoever moved it there and wherever it has gone since.
PromotedWasHeld == \A p \in Promotion : status[p] = "promoted" => Candidate[p] \in held

\* Whoever is told the outcome of a promotion is told the one its receipt keeps,
\* even when two processes settle it at once because the lock was deleted under
\* one of them (persistPromotionStatus returns the receipt it finds).
AnswersAgree ==
  \A x \in Process :
    phase[x] \in {"releasing", "answered"} /\ answer[x] \in Outcome => status[serves[x]] = answer[x]

\* Nobody can be inside the lock with another process, and a stale lock is
\* what remains of a crash (acquireRepositoryPromotionLock).
LockExcludes ==
  /\ \A x, y \in Process : Inside(x) /\ Inside(y) => x = y
  /\ \A x \in Process : Inside(x) => lock

OneShot == INSTANCE OneShotUpdate WITH receipt <- status

\* Once its receipt is durable a promotion never moves the ref, a receipt is
\* never rewritten, and it moved the ref at most once and from its exact base,
\* over crashes, adoptions and competing writers.
ImplementsOneShot == OneShot!Spec

\* A promotion whose authority reached the journal ends with a receipt, if its
\* command is issued again after each fault and a lock left behind is cleared:
\* no crash point leaves a journal that the next request cannot finish.
Concludes == \A p \in Promotion : p \in authority ~> status[p] # Null

-------------------------------------------------------------------------------
(* The inductive strengthening the proofs rest on.                         *)

\* x made the attempt of p and has not started its update yet.
MayLaunch(x, p) == serves[x] = p /\ phase[x] \in {"claimed", "ready"}

Served == \A x \in Process : ~At(x, "idle") => serves[x] \in Promotion

\* An attempt precedes every update, and one process at most is about to make
\* the update of a promotion, the first.
OneClaimant ==
  /\ \A x \in Process, p \in Promotion : MayLaunch(x, p) => p \in attempt /\ launches[p] = 0
  /\ \A x, y \in Process, p \in Promotion : MayLaunch(x, p) /\ MayLaunch(y, p) => x = y
  /\ \A p \in Promotion : launches[p] <= 1 /\ (launches[p] # 0 => p \in attempt)

\* A promoted receipt in preparation is already true.
TruthfulReceipts ==
  /\ \A x \in Process : At(x, "writing") =>
       /\ answer[x] \in Outcome
       /\ answer[x] = "promoted" => Candidate[serves[x]] \in held
  /\ ref \in held
  /\ PromotedWasHeld

JournalInv == TypeOK /\ Served /\ OneClaimant /\ TruthfulReceipts

\* With a cautious operator the lock makes the update and the receipt of a
\* promotion the business of one process at a time.
Exclusive ==
  /\ \A x \in Process : phase[x] \in {"writing", "recovering", "updating", "updated"}
                           => serves[x] \in attempt
  /\ \A x \in Process : At(x, "examining") /\ found[x] => serves[x] \in attempt
  /\ \A p \in Promotion : status[p] # Null => p \in attempt
  /\ \A x \in Process : phase[x] \in {"claimed", "ready", "updating"}
                           => status[serves[x]] = Null /\ serves[x] \notin applied
  /\ applied \subseteq attempt

SerialInv == LockExcludes /\ Exclusive
===============================================================================
