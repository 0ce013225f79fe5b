--------------------------- MODULE ArtifactPromotion ---------------------------
(***************************************************************************)
(* Artifact promotion from end to end: browser sessions                    *)
(* (src/application/worldstate-session.ts) that share a durable ledger and *)
(* call the promotion routes, the ledger as the kernel's head reservation  *)
(* (HeadReservation, which the kernel is shown to implement), and the host *)
(* journal and target ref, which are those of PromotionJournal.      *)
(*                                                                         *)
(* A session works on the ledger it last installed; appending goes through *)
(* appendWithConflictRecovery, which ends by applying its events to the    *)
(* latest durable ledger or by an error, so an append is one step on the   *)
(* durable ledger.                                                         *)
(***************************************************************************)
EXTENDS PromotionJournal

CONSTANTS
  Session,
  MaxHead       \* bound: revisions

\* MaxFaults also bounds lost answers, refusals and reloads in mid-operation.
ASSUME SessionAssumption == Null \notin Session /\ MaxHead \in Nat

VARIABLES
  \* The durable ledger.
  head, claim,
  record,       \* the receipt each promotion's recorded outcome retains
  client,       \* the session that waits for what a process answers
  \* The sessions.
  place,        \* where promoteActiveArtifact stands
  view,         \* the ledger the session has installed
  subject,      \* the promotion at hand
  receipt,      \* the receipt its command returned
  todo,         \* promotions initialize has still to recover, in the background
  attested,     \* hostAttestedArtifactPromotionReceiptDigests
  offered       \* promotions ever proposed: an identifier digests a candidate
                \* and is not met again after a reset

ledger  == <<head, claim, record>>
host    == <<ref, lock, authority, attempt, status, phase, serves, found, answer,
             held, applied, launches>>
session == <<place, view, subject, receipt, todo, attested>>
system  == <<ledger, host, faults, client, session, offered>>

Ledger == INSTANCE HeadReservation WITH Claimant <- Promotion

Content == [head |-> head, claim |-> claim, record |-> record]

\* install: the durable ledger becomes the view and attestations are dropped.
Install(s) ==
  /\ view' = [view EXCEPT ![s] = Content']
  /\ attested' = [attested EXCEPT ![s] = {}]

Stands(s, where) == place[s] = where
Go(s, where) == place' = [place EXCEPT ![s] = where]
-------------------------------------------------------------------------------
(* The ledger, as sessions write it.                                       *)

\* installTransaction: the session sees what it has written.
Written(s) == view' = [view EXCEPT ![s] = Content']

\* proposeActiveArtifactPromotion.
Propose(s, p) ==
  /\ Stands(s, "ready")
  /\ p \notin offered
  /\ view[s].head = head
  /\ Ledger!Offer(p)
  /\ UNCHANGED record
  /\ Written(s)
  /\ offered' = offered \cup {p}
  /\ UNCHANGED <<host, faults, client, place, subject, todo, receipt, attested>>

\* Any accepted delta.
Integrate(s) ==
  /\ Stands(s, "ready")
  /\ head < MaxHead
  /\ view[s].head = head
  /\ Ledger!Advance
  /\ UNCHANGED record
  /\ Written(s)
  /\ UNCHANGED <<host, faults, client, place, subject, todo, receipt, attested, offered>>

\* Any other append: it reserves nothing, and brings the view up to date.
Append(s) ==
  /\ Stands(s, "ready")
  /\ view[s] # Content
  /\ UNCHANGED ledger
  /\ Written(s)
  /\ UNCHANGED <<host, faults, client, place, subject, todo, receipt, attested, offered>>

\* promoteActiveArtifact, when it begins with the human authorization.
Authorize(s, p) ==
  /\ Stands(s, "ready")
  /\ view[s].claim[p].stage = "offered"
  /\ Ledger!Hold(p)
  /\ UNCHANGED record
  /\ Written(s)
  /\ Go(s, "preflight")
  /\ subject' = [subject EXCEPT ![s] = p]
  /\ UNCHANGED <<host, faults, client, todo, receipt, attested, offered>>

\* promoteActiveArtifact, for a promotion that is authorized already.
Resume(s, p) ==
  /\ Stands(s, "ready")
  /\ view[s].claim[p].stage = "holding"
  /\ Go(s, "preflight")
  /\ subject' = [subject EXCEPT ![s] = p]
  /\ UNCHANGED <<ledger, host, faults, client, view, todo, receipt, attested, offered>>

-------------------------------------------------------------------------------
(* The command.                                                            *)

Holding(p) == claim[p].stage = "holding" /\ claim[p].at = head

\* The durable ledger is read again right before the Git boundary.
Preflight(s) ==
  LET p == subject[s]
      over == claim[p].stage \in {"done", "void", "unresolved"}
  IN  /\ Stands(s, "preflight")
      /\ UNCHANGED ledger
      /\ \/ Holding(p) /\ Go(s, "sending") /\ UNCHANGED <<view, attested>>
         \/ over /\ Go(s, "confirming") /\ Install(s)
         \/ ~Holding(p) /\ ~over /\ Go(s, "ready") /\ Install(s)
      /\ UNCHANGED <<host, faults, client, subject, todo, receipt, offered>>

\* The route resolves the authority from the ledger that was sent, verifies the
\* candidate again and calls promoteArtifactCandidate.
Send(s, x) ==
  /\ Stands(s, "sending")
  /\ Request(x, subject[s])
  /\ client' = [client EXCEPT ![x] = s]
  /\ Go(s, "waiting")
  /\ UNCHANGED <<ledger, view, subject, todo, receipt, attested, offered>>

\* The route refuses (configuration, provenance or revalidation).
Declined(s) ==
  /\ Stands(s, "sending")
  /\ Fault
  /\ Go(s, "ready")
  /\ UNCHANGED <<ledger, host, client, view, subject, todo, receipt, attested, offered>>

\* A receipt is never recorded from the command's answer: it is compared with
\* the one the journal shows.
Reply(s, x) ==
  /\ Stands(s, "waiting")
  /\ client[x] = s
  /\ Finish(x)
  /\ client' = [client EXCEPT ![x] = Null]
  /\ Go(s, IF answer[x] = "refused" THEN "ready" ELSE "confirming")
  /\ receipt' = [receipt EXCEPT ![s] = IF answer[x] \in Outcome THEN answer[x] ELSE Null]
  /\ UNCHANGED <<ledger, faults, view, subject, todo, attested, offered>>

Forget(s) == client' = [x \in Process |-> IF client[x] = s THEN Null ELSE client[x]]

\* The request or its answer is lost, or the process that owed one is gone.
Unanswered(s) ==
  /\ \/ place[s] \in {"sending", "waiting"} /\ Fault
     \/ Stands(s, "waiting") /\ (\A x \in Process : client[x] = s => At(x, "idle"))
                         /\ UNCHANGED faults
  /\ Forget(s)
  /\ Go(s, "confirming")
  /\ UNCHANGED <<ledger, host, view, subject, todo, receipt, attested, offered>>

\* A process whose client has gone.
Drop(x) ==
  /\ client[x] = Null
  /\ Finish(x)
  /\ UNCHANGED <<ledger, client, session, offered>>

-------------------------------------------------------------------------------
(* The status.                                                             *)

\* Fault: a journal without a receipt is taken for an unknown outcome.
Shown_Guessed(p) == IF status[p] = Null THEN "outcome_unknown" ELSE status[p]
\* getArtifactPromotionStatus reads the journal without the lock or Git.
Shown(p) == status[p]

StageOf(outcome) ==
  IF outcome = "promoted" THEN "done"
  ELSE IF outcome = "outcome_unknown" THEN "unresolved" ELSE "void"

\* persistArtifactPromotionReceipt: the event identifiers are those of the
\* promotion, so an outcome another session recorded makes the append fail.
Store(s, p) ==
  IF record[p] = Null /\ Holding(p)
  THEN /\ Ledger!Conclude(p, StageOf(Shown(p)))
       /\ record' = [record EXCEPT ![p] = Shown(p)]
       /\ Written(s)
  ELSE UNCHANGED <<ledger, view>>

\* recoverArtifactPromotionStatus.  A receipt does not change, so it is read
\* where the outcome is appended.
RecoverStatus(s, p, expected) ==
  LET seen  == Shown(p) # Null /\ expected \in {Null, Shown(p)}
      known == view[s].record[p]
  IN  /\ IF seen /\ known = Null /\ view[s].claim[p].stage = "holding"
         THEN Store(s, p)
         ELSE UNCHANGED <<ledger, view>>
      /\ attested' = [attested EXCEPT ![s] =
           IF seen /\ view'[s].record[p] = Shown(p) THEN @ \cup {p} ELSE @]

\* The status route does not answer.
Unobserved == Fault /\ UNCHANGED <<ledger, view, attested>>

\* The end of a command.
Confirm(s) ==
  /\ Stands(s, "confirming")
  /\ \/ RecoverStatus(s, subject[s], receipt[s]) /\ UNCHANGED faults
     \/ Unobserved
  /\ Go(s, "ready")
  /\ receipt' = [receipt EXCEPT ![s] = Null]
  /\ UNCHANGED <<host, client, subject, todo, offered>>

\* recoverDurableArtifactPromotions, one promotion.  The session is open to
\* its user meanwhile.
Restore(s, p) ==
  /\ p \in todo[s]
  /\ \/ RecoverStatus(s, p, Null) /\ UNCHANGED faults
     \/ Unobserved
  /\ todo' = [todo EXCEPT ![s] = @ \ {p}]
  /\ UNCHANGED <<host, client, place, subject, receipt, offered>>

\* initialize: load, then recover every promotion past its proposal.  A
\* session reloads at leisure, or a tab is closed in mid-command.
Reload(s) ==
  /\ IF Stands(s, "ready") THEN UNCHANGED faults ELSE Fault
  /\ Forget(s)
  /\ Go(s, "ready")
  /\ UNCHANGED ledger
  /\ Install(s)
  /\ todo' = [todo EXCEPT ![s] = {p \in Promotion : claim[p].stage \notin {"none", "offered"}}]
  /\ receipt' = [receipt EXCEPT ![s] = Null]
  /\ UNCHANGED <<host, subject, offered>>

\* Fault: an unknown outcome no longer matters once its receipt was confirmed.
Clear_Unknown(s, p) ==
  /\ view[s].claim[p].stage # "holding"
  /\ view[s].claim[p].stage \in {"done", "void", "unresolved"} => p \in attested[s]
\* What resetSandbox asks of every promotion it is about to forget.
Clear(s, p) ==
  /\ view[s].claim[p].stage \notin {"holding", "unresolved"}
  /\ view[s].claim[p].stage \in {"done", "void"} => p \in attested[s]

\* Fault: the reset replaces whatever the store holds now.
Current_Any(s) == TRUE
\* replace: compare and swap on the version of the ledger the session holds.
Current(s) == view[s] = Content

Reset(s) ==
  /\ Stands(s, "ready")
  /\ \A p \in Promotion : Clear(s, p)
  /\ IF Current(s)
     THEN /\ head' = 0
          /\ claim' = [p \in Promotion |-> [stage |-> "none", at |-> 0]]
          /\ record' = [p \in Promotion |-> Null]
     ELSE UNCHANGED ledger
  /\ Install(s)
  /\ UNCHANGED <<host, faults, client, place, subject, todo, receipt, offered>>

-------------------------------------------------------------------------------
(* The specification.                                                      *)

SystemInit ==
  /\ Ledger!Init
  /\ record = [p \in Promotion |-> Null]
  /\ Init
  /\ client = [x \in Process |-> Null]
  /\ place = [s \in Session |-> "ready"]
  /\ view = [s \in Session |-> Content]
  /\ subject = [s \in Session |-> Null]
  /\ todo = [s \in Session |-> {}]
  /\ receipt = [s \in Session |-> Null]
  /\ attested = [s \in Session |-> {}]
  /\ offered = {}

\* A step of the host on its own.
Serve(x) ==
  /\ \/ Enter(x) \/ Decide(x) \/ Observe(x) \/ Change(x)
     \/ Persist(x) \/ Release(x)
  /\ UNCHANGED <<ledger, client, session, offered>>

HostEvent ==
  /\ \/ \E x \in Process : Fail(x)
     \/ \E v \in Value : MoveRef(v)
  /\ UNCHANGED <<ledger, client, session, offered>>

Reconcile == ClearLock /\ UNCHANGED <<ledger, client, session, offered>>

\* What a session does until the command or the recovery has ended.
Continue(s) ==
  \/ Preflight(s) \/ Unanswered(s) \/ Confirm(s)
  \/ \E x \in Process : Send(s, x) \/ Reply(s, x)
  \/ \E p \in Promotion : Restore(s, p)

SystemNext ==
  \/ \E s \in Session :
       \/ \E p \in Promotion : Propose(s, p) \/ Authorize(s, p) \/ Resume(s, p)
       \/ Integrate(s) \/ Append(s) \/ Declined(s) \/ Reload(s) \/ Reset(s) \/ Continue(s)
  \/ \E x \in Process : Drop(x) \/ Serve(x)
  \/ HostEvent \/ Reconcile

SystemSpec == SystemInit /\ [][SystemNext]_system

\* Pages and server processes keep running what they have begun, the operator
\* reconciles a lock left by a crash, and the human asks again for a promotion
\* that is still authorized.
SystemFairness ==
  /\ \A s \in Session : WF_system(Continue(s))
  /\ \A s \in Session, p \in Promotion : SF_system(Resume(s, p))
  /\ \A x \in Process : WF_system(Serve(x) \/ Drop(x))
  /\ WF_system(Reconcile)

SystemFairSpec == SystemSpec /\ SystemFairness

-------------------------------------------------------------------------------
(* Properties.                                                             *)

View == [head : Nat, claim : [Promotion -> [stage : Ledger!Stage, at : Nat]],
         record : [Promotion -> Outcome \cup {Null}]]

SystemTypeOK ==
  /\ Content \in View
  /\ TypeOK
  /\ client \in [Process -> Session \cup {Null}]
  /\ place \in [Session -> {"ready", "preflight", "sending", "waiting", "confirming"}]
  /\ view \in [Session -> View]
  /\ subject \in [Session -> Promotion \cup {Null}]
  /\ todo \in [Session -> SUBSET Promotion]
  /\ receipt \in [Session -> Outcome \cup {Null}]
  /\ attested \in [Session -> SUBSET Promotion]
  /\ offered \subseteq Promotion

\* The target ref moves for a promotion only while the ledger still reserves
\* the head for it: no command that was delayed, retried or abandoned by its
\* session takes effect after the outcome was recorded, the head moved on or
\* the ledger was reset (promoteActiveArtifact, resetSandbox, the journal).
UpdatesUnderReservation ==
  [][\A p \in applied' \ applied : claim[p].stage = "holding" /\ claim[p].at = head]_system

\* What the ledger records as a promotion's outcome is the receipt in the host
\* journal, whichever session recorded it and whatever its command returned
\* (recoverArtifactPromotionStatus).
RecordsAreJournalled == \A p \in Promotion : record[p] # Null => record[p] = status[p]

\* The ledger forgets no promotion whose outcome may still have to be found
\* out: an attempt without a receipt, or with an unknown outcome, is still
\* reserved or unresolved there, over resets by any session (resetSandbox).
RecoveryKept ==
  \A p \in Promotion :
    p \in attempt /\ status[p] \in {Null, "outcome_unknown"}
      => claim[p].stage \in {"holding", "unresolved"}

\* An authorized promotion does not hold the head for ever: after finitely
\* many faults some session records an outcome, whichever session authorized
\* it and wherever that session or the server stopped.
HeadReleased == \A p \in Promotion : claim[p].stage = "holding" ~> claim[p].stage # "holding"

-------------------------------------------------------------------------------
(* The inductive strengthening the proofs rest on.                         *)

\* Until p has a receipt, the ledger holds the head for it.
Reserved(p) == status[p] # Null \/ Holding(p)

\* Whoever may still act for a promotion without a receipt acts under its
\* reservation: a session about to send, a process that serves it, an attempt.
Entrusted ==
  /\ \A s \in Session : Stands(s, "sending") => Reserved(subject[s])
  /\ \A x \in Process : ~At(x, "idle") => Reserved(serves[x])
  /\ \A p \in attempt : Reserved(p)

\* An unknown outcome is one for the ledger too.
Unforgotten ==
  \A p \in Promotion : status[p] = "outcome_unknown" => claim[p].stage \in {"holding", "unresolved"}

Concerned == \A s \in Session : ~Stands(s, "ready") => subject[s] \in Promotion

HostInv == JournalInv /\ SerialInv

SystemInv == SystemTypeOK /\ Concerned /\ HostInv /\ Entrusted /\ Unforgotten /\ RecordsAreJournalled
===============================================================================
