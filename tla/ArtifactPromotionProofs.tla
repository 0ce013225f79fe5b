----------------------- MODULE ArtifactPromotionProofs -----------------------
(***************************************************************************)
(* What holds of artifact promotion from end to end for any number of      *)
(* sessions, promotions, processes and faults, if the operator clears only *)
(* a lock that nobody holds.  The journal's own invariants are those of    *)
(* PromotionJournalProofs; what is added is the trust of Entrusted: as     *)
(* long as a promotion has no receipt, whoever may still act for it does   *)
(* so while the ledger reserves the head.                                  *)
(***************************************************************************)
EXTENDS ArtifactPromotion, PromotionJournalProofs

\* The step of the ledger alone: what sessions append, and what a reset forgets.
Stored(p) ==
  /\ status[p] # Null /\ record[p] = Null /\ Holding(p)
  /\ Ledger!Conclude(p, StageOf(status[p]))
  /\ record' = [record EXCEPT ![p] = status[p]]
Cleared ==
  /\ \A p \in Promotion : claim[p].stage \notin {"holding", "unresolved"}
  /\ head' = 0
  /\ claim' = [p \in Promotion |-> [stage |-> "none", at |-> 0]]
  /\ record' = [p \in Promotion |-> Null]
Reserves == Ledger!Advance \/ \E p \in Promotion : Ledger!Offer(p) \/ Ledger!Hold(p)
LedgerStep ==
  \/ UNCHANGED ledger
  \/ /\ UNCHANGED host
     /\ Cleared \/ (Reserves /\ UNCHANGED record) \/ \E p \in Promotion : Stored(p)

\* What the host does in a step of the system is a step of the journal, but for
\* the faults of sessions, which are counted with its own.
HostStep == [Next]_vars \/ (UNCHANGED host /\ faults' \in Nat)

\* A session sends what it has just seen reserved, and a process serves what a
\* session sends.
Entrusting ==
  /\ \A s \in Session : Stands(s, "sending")' =>
       /\ subject'[s] = subject[s]
       /\ Stands(s, "sending") \/ Holding(subject[s])
  /\ \A x \in Process : ~At(x, "idle")' =>
       \/ ~At(x, "idle") /\ serves'[x] = serves[x]
       \/ \E s \in Session : Stands(s, "sending") /\ serves'[x] = subject[s]

\* What a process, or anybody else but a session, does on the host.
Hosted ==
  \/ \E x \in Process : Work(x) \/ Fail(x)
  \/ ClearLock
  \/ \E v \in Value : MoveRef(v)
\* It writes receipts and attempts for what it serves, once, and moves the ref
\* for what it updates; and it takes up nothing.
Working(x, p) == ~At(x, "idle") /\ serves[x] = p
Moves ==
  /\ \A p \in Promotion : status'[p] = status[p] \/ (status[p] = Null /\ \E x \in Process : Working(x, p))
  /\ \A p \in attempt' : p \in attempt \/ \E x \in Process : Working(x, p)
  /\ \A p \in applied' \ applied : \E x \in Process : At(x, "updating") /\ serves[x] = p
  /\ \A x \in Process : ~At(x, "idle")' => Working(x, serves'[x])

-------------------------------------------------------------------------------
(* The host.                                                               *)

LEMMA HostMoves == ASSUME TypeOK, Served, Hosted PROVE Moves
<1> USE DEF TypeOK, Served, Moves, Working, At, Goto, Resolve, TakeUp, journal, target, process
<1>1. ASSUME NEW x \in Process, Acquire(x) PROVE Moves
  BY <1>1 DEF Acquire
<1>2. ASSUME NEW x \in Process, GiveUp(x) PROVE Moves
  BY <1>2 DEF GiveUp
<1>3. ASSUME NEW x \in Process, RecordAuthority(x) PROVE Moves
  BY <1>3 DEF RecordAuthority
<1>4. ASSUME NEW x \in Process, ReadAttempt(x) PROVE Moves
  BY <1>4 DEF ReadAttempt
<1>5. ASSUME NEW x \in Process, NEW fit \in BOOLEAN, Examine(x, fit) PROVE Moves
  BY <1>5 DEF Examine
<1>6. ASSUME NEW x \in Process, Claim(x) PROVE Moves
  BY <1>6 DEF Claim
<1>7. ASSUME NEW x \in Process, ClaimRefusal(x) PROVE Moves
  BY <1>7 DEF ClaimRefusal
<1>8. ASSUME NEW x \in Process, NEW seen \in Value \cup {"unseen"}, Recover(x, seen) PROVE Moves
  BY <1>8 DEF Recover
<1>9. ASSUME NEW x \in Process, NEW seen \in Value \cup {"unseen"}, ObserveBefore(x, seen) PROVE Moves
  BY <1>9 DEF ObserveBefore
<1>10. ASSUME NEW x \in Process, NEW seen \in Value \cup {"unseen"}, ObserveAfter(x, seen) PROVE Moves
  BY <1>10 DEF ObserveAfter
<1>11. ASSUME NEW x \in Process, Launch(x) PROVE Moves
  BY <1>11 DEF Launch
<1>12. ASSUME NEW x \in Process, CheckedOut(x) PROVE Moves
  BY <1>12 DEF CheckedOut
<1>13. ASSUME NEW x \in Process, Update(x) PROVE Moves
  BY <1>13 DEF Update, Swap
<1>14. ASSUME NEW x \in Process, Persist(x) PROVE Moves
  BY <1>14 DEF Persist, Settle
<1>15. ASSUME NEW x \in Process, Release(x) PROVE Moves
  BY <1>15 DEF Release
<1>16. ASSUME NEW x \in Process, Finish(x) PROVE Moves
  BY <1>16 DEF Finish
<1>17. ASSUME NEW x \in Process, Stumble(x) PROVE Moves
  BY <1>17 DEF Stumble
<1>18. ASSUME NEW x \in Process, PersistFails(x) PROVE Moves
  BY <1>18 DEF PersistFails, Settle
<1>19. ASSUME NEW x \in Process, Crash(x) PROVE Moves
  BY <1>19 DEF Crash, Swap
<1>20. CASE ClearLock
  BY <1>20 DEF ClearLock
<1>21. ASSUME NEW v \in Value, MoveRef(v) PROVE Moves
  BY <1>21 DEF MoveRef
<1> QED
  BY <1>1, <1>2, <1>3, <1>4, <1>5, <1>6, <1>7, <1>8, <1>9, <1>10, <1>11, <1>12, <1>13, <1>14, <1>15, <1>16, <1>17, <1>18, <1>19, <1>20, <1>21 DEF Hosted, Work, Fail, Enter, Decide, Observe, Change, Leave

-------------------------------------------------------------------------------
(* The steps of the system, seen by the ledger, the host and the sessions. *)

LEMMA RecoverStep ==
  ASSUME NEW s \in Session, NEW p \in Promotion, NEW expected,
         RecoverStatus(s, p, expected), UNCHANGED host
  PROVE  LedgerStep
<1>1. CASE UNCHANGED ledger
  BY <1>1 DEF LedgerStep
<1>2. CASE Shown(p) # Null /\ Store(s, p)
  BY <1>2 DEF Store, Shown, LedgerStep, Stored
<1> QED
  BY <1>1, <1>2 DEF RecoverStatus, ledger

LEMMA Steps ==
  ASSUME SystemTypeOK, Concerned, Served, [SystemNext]_system
  PROVE  LedgerStep /\ HostStep /\ Entrusting
<1> USE DEF SystemTypeOK, TypeOK, Stands, At, Go, Install, Written, Fault, LedgerStep, HostStep, Entrusting, host, ledger
<1>1. ASSUME NEW s \in Session, NEW p \in Promotion, Propose(s, p) PROVE LedgerStep /\ HostStep /\ Entrusting
  BY <1>1 DEF Propose, Reserves
<1>2. ASSUME NEW s \in Session, NEW p \in Promotion, Authorize(s, p) PROVE LedgerStep /\ HostStep /\ Entrusting
  BY <1>2 DEF Authorize, Reserves
<1>3. ASSUME NEW s \in Session, NEW p \in Promotion, Resume(s, p) PROVE LedgerStep /\ HostStep /\ Entrusting
  BY <1>3 DEF Resume
<1>4. ASSUME NEW s \in Session, Integrate(s) PROVE LedgerStep /\ HostStep /\ Entrusting
  BY <1>4 DEF Integrate, Reserves
<1>5. ASSUME NEW s \in Session, Append(s) PROVE LedgerStep /\ HostStep /\ Entrusting
  BY <1>5 DEF Append
<1>6. ASSUME NEW s \in Session, Declined(s) PROVE LedgerStep /\ HostStep /\ Entrusting
  BY <1>6 DEF Declined
<1>7. ASSUME NEW s \in Session, Reload(s) PROVE LedgerStep /\ HostStep /\ Entrusting
  BY <1>7 DEF Reload
<1>8. ASSUME NEW s \in Session, Reset(s) PROVE LedgerStep /\ HostStep /\ Entrusting
  <2>1. CASE Current(s)
    BY <1>8, <2>1 DEF Reset, Current, Content, Clear, Cleared
  <2>2. CASE ~Current(s)
    BY <1>8, <2>2 DEF Reset
  <2> QED
    BY <2>1, <2>2
<1>9. ASSUME NEW s \in Session, Preflight(s) PROVE LedgerStep /\ HostStep /\ Entrusting
  BY <1>9 DEF Preflight
<1>10. ASSUME NEW s \in Session, Unanswered(s) PROVE LedgerStep /\ HostStep /\ Entrusting
  BY <1>10 DEF Unanswered
<1>11. ASSUME NEW s \in Session, Confirm(s) PROVE LedgerStep /\ HostStep /\ Entrusting
  <2>1. LedgerStep
    <3>1. UNCHANGED host /\ (UNCHANGED ledger \/ RecoverStatus(s, subject[s], receipt[s]))
      BY <1>11 DEF Confirm, Unobserved
    <3>2. CASE RecoverStatus(s, subject[s], receipt[s])
      <4>1. subject[s] \in Promotion
        BY <1>11 DEF Confirm, Concerned
      <4> QED
        BY <3>1, <3>2, <4>1, RecoverStep
    <3> QED
      BY <3>1, <3>2
  <2>2. HostStep /\ Entrusting
    BY <1>11 DEF Confirm, Unobserved
  <2> QED
    BY <2>1, <2>2
<1>12. ASSUME NEW s \in Session, NEW x \in Process, Send(s, x) PROVE LedgerStep /\ HostStep /\ Entrusting
  <2>1. subject[s] \in Promotion /\ Request(x, subject[s])
    BY <1>12 DEF Send, Concerned
  <2>2. [Next]_vars
    BY <2>1 DEF Next
  <2>3. Entrusting
    BY <1>12, <2>1 DEF Send, Request, TakeUp
  <2> QED
    BY <1>12, <2>2, <2>3 DEF Send
<1>13. ASSUME NEW s \in Session, NEW x \in Process, Reply(s, x) PROVE LedgerStep /\ HostStep /\ Entrusting
  <2>1. Hosted
    BY <1>13 DEF Reply, Hosted, Work, Leave
  <2>2. [Next]_vars
    BY <2>1 DEF Next, Hosted
  <2>3. Entrusting
    BY <1>13, <2>1, HostMoves DEF Reply, Moves, Working
  <2> QED
    BY <1>13, <2>2, <2>3 DEF Reply
<1>14. ASSUME NEW s \in Session, NEW p \in Promotion, Restore(s, p) PROVE LedgerStep /\ HostStep /\ Entrusting
  <2>1. LedgerStep
    <3>1. UNCHANGED host /\ (UNCHANGED ledger \/ RecoverStatus(s, p, Null))
      BY <1>14 DEF Restore, Unobserved
    <3>2. CASE RecoverStatus(s, p, Null)
      BY <3>1, <3>2, RecoverStep
    <3> QED
      BY <3>1, <3>2
  <2>2. HostStep /\ Entrusting
    BY <1>14 DEF Restore, Unobserved
  <2> QED
    BY <2>1, <2>2
<1>15. ASSUME Hosted, UNCHANGED <<ledger, client, session, offered>> PROVE LedgerStep /\ HostStep /\ Entrusting
  <2>1. Entrusting
    BY <1>15, HostMoves DEF session, Moves, Working
  <2>2. [Next]_vars
    BY <1>15 DEF Next, Hosted
  <2> QED
    BY <1>15, <2>1, <2>2
<1>16. ASSUME NEW x \in Process, Drop(x) PROVE Hosted /\ UNCHANGED <<ledger, client, session, offered>>
  BY <1>16 DEF Drop, Hosted, Work, Leave
<1>17. ASSUME NEW x \in Process, Serve(x) PROVE Hosted /\ UNCHANGED <<ledger, client, session, offered>>
  BY <1>17 DEF Serve, Hosted, Work, Leave
<1>18. ASSUME HostEvent \/ Reconcile PROVE Hosted /\ UNCHANGED <<ledger, client, session, offered>>
  BY <1>18 DEF HostEvent, Reconcile, Hosted
<1>19. CASE UNCHANGED system
  BY <1>19 DEF system, session
<1> QED
  BY <1>1, <1>2, <1>3, <1>4, <1>5, <1>6, <1>7, <1>8, <1>9, <1>10, <1>11, <1>12, <1>13, <1>14, <1>15, <1>16, <1>17, <1>18, <1>19
     DEF SystemNext, Continue

-------------------------------------------------------------------------------
(* Reservations and receipts over one step.                                *)

\* A receipt stays what it is, and is written for a promotion in service.
LEMMA ReceiptsStay ==
  ASSUME TypeOK, Served, HostStep, NEW p \in Promotion
  PROVE  status'[p] = status[p] \/ (status[p] = Null /\ \E x \in Process : Working(x, p))
<1>1. ASSUME NEW x \in Process, NEW q \in Promotion, Request(x, q) PROVE UNCHANGED status
  BY <1>1 DEF Request, journal
<1>2. CASE Hosted
  BY <1>2, HostMoves DEF Moves
<1>3. CASE UNCHANGED vars \/ UNCHANGED host
  BY <1>3 DEF vars, host
<1> QED
  BY <1>1, <1>2, <1>3 DEF HostStep, Next, Hosted

LEMMA AttemptsServed ==
  ASSUME TypeOK, Served, HostStep, NEW p \in attempt'
  PROVE  p \in attempt \/ \E x \in Process : Working(x, p)
<1>1. ASSUME NEW x \in Process, NEW q \in Promotion, Request(x, q) PROVE UNCHANGED attempt
  BY <1>1 DEF Request, journal
<1>2. CASE Hosted
  BY <1>2, HostMoves DEF Moves
<1>3. CASE UNCHANGED vars \/ UNCHANGED host
  BY <1>3 DEF vars, host
<1> QED
  BY <1>1, <1>2, <1>3 DEF HostStep, Next, Hosted

\* What the ledger holds for a promotion it holds until the receipt is there.
LEMMA ReservationStays ==
  ASSUME SystemTypeOK, Served, LedgerStep, HostStep, NEW p \in Promotion, Reserved(p)
  PROVE  Reserved(p)'
<1> USE DEF SystemTypeOK, TypeOK, Content, View, Holding
<1>1. CASE status[p] # Null
  <2>1. status'[p] = status[p]
    BY <1>1, ReceiptsStay
  <2> QED
    BY <1>1, <2>1 DEF Reserved
<1>2. CASE status[p] = Null
  <2>1. Holding(p)
    BY <1>2 DEF Reserved
  <2>2. CASE UNCHANGED ledger
    BY <2>1, <2>2 DEF Reserved, ledger
  <2>3. CASE Cleared
    BY <2>1, <2>3 DEF Cleared
  <2>4. CASE Reserves
    <3>1. CASE Ledger!Advance
      BY <2>1, <3>1 DEF Ledger!Advance, Ledger!Holds
    <3>2. ASSUME NEW q \in Promotion, Ledger!Offer(q) PROVE Reserved(p)'
      BY <2>1, <3>2 DEF Ledger!Offer, Reserved
    <3>3. ASSUME NEW q \in Promotion, Ledger!Hold(q) PROVE Reserved(p)'
      BY <2>1, <3>3 DEF Ledger!Hold, Ledger!Holds, Reserved
    <3> QED
      BY <2>4, <3>1, <3>2, <3>3 DEF Reserves
  <2>5. ASSUME NEW q \in Promotion, Stored(q) PROVE Reserved(p)'
    <3>1. q # p
      BY <1>2, <2>5 DEF Stored
    <3> QED
      BY <2>1, <2>5, <3>1 DEF Stored, Ledger!Conclude, Reserved
  <2> QED
    BY <2>2, <2>3, <2>4, <2>5 DEF LedgerStep
<1> QED
  BY <1>1, <1>2

LEMMA NextEntrusted ==
  ASSUME SystemTypeOK, Concerned, Concerned', Served, Entrusted, LedgerStep, HostStep, Entrusting
  PROVE  Entrusted'
<1>1. ASSUME NEW s \in Session, Stands(s, "sending")' PROVE Reserved(subject[s])'
  <2>1. subject'[s] = subject[s] /\ (Stands(s, "sending") \/ Holding(subject[s]))
    BY <1>1 DEF Entrusting
  <2>2. PICK p \in Promotion : p = subject'[s]
    BY <1>1 DEF Concerned, Stands
  <2>3. Reserved(p)
    BY <2>1, <2>2 DEF Entrusted, Reserved
  <2>4. Reserved(p)'
    BY <2>3, ReservationStays
  <2> QED
    BY <2>2, <2>4
<1>2. ASSUME NEW x \in Process, ~At(x, "idle")' PROVE Reserved(serves[x])'
  <2>1. \/ ~At(x, "idle") /\ serves'[x] = serves[x]
        \/ \E s \in Session : Stands(s, "sending") /\ serves'[x] = subject[s]
    BY <1>2 DEF Entrusting
  <2>2. serves'[x] \in Promotion
    BY <2>1 DEF Served, Concerned, Stands
  <2>3. PICK p \in Promotion : p = serves'[x]
    BY <2>2
  <2>4. Reserved(p)
    BY <2>1, <2>3 DEF Entrusted
  <2>5. Reserved(p)'
    BY <2>4, ReservationStays
  <2> QED
    BY <2>3, <2>5
<1>3. ASSUME NEW p \in attempt' PROVE Reserved(p)'
  <2>1. p \in attempt \/ \E x \in Process : Working(x, p)
    BY <1>3, AttemptsServed DEF SystemTypeOK
  <2>2. p \in Promotion /\ Reserved(p)
    BY <2>1 DEF Entrusted, Working, Served, SystemTypeOK, TypeOK
  <2> QED
    BY <2>2, ReservationStays
<1> QED
  BY <1>1, <1>2, <1>3 DEF Entrusted

\* Whatever the ledger records is the receipt, and stays so.
LEMMA NextRecords ==
  ASSUME SystemTypeOK, Served, RecordsAreJournalled, LedgerStep, HostStep
  PROVE  RecordsAreJournalled'
<1> SUFFICES ASSUME NEW p \in Promotion, record'[p] # Null PROVE record'[p] = status'[p]
  BY DEF RecordsAreJournalled
<1> USE DEF SystemTypeOK, TypeOK, Content, View
<1>1. record'[p] = record[p] \/ record'[p] = status[p]
  <2>1. ASSUME NEW q \in Promotion, Stored(q) PROVE record'[p] = record[p] \/ record'[p] = status[p]
    BY <2>1 DEF Stored
  <2>2. CASE Cleared
    BY <2>2 DEF Cleared
  <2> QED
    BY <2>1, <2>2 DEF LedgerStep, ledger
<1>2. record'[p] = status[p]
  BY <1>1 DEF RecordsAreJournalled
<1>3. status[p] # Null
  BY <1>2
<1> QED
  BY <1>2, <1>3, ReceiptsStay

\* An unknown outcome is written under the reservation, which then becomes the
\* unresolved outcome of the ledger.
LEMMA NextUnforgotten ==
  ASSUME SystemTypeOK, Served, Entrusted, Unforgotten, LedgerStep, HostStep
  PROVE  Unforgotten'
<1> SUFFICES ASSUME NEW p \in Promotion, status'[p] = "outcome_unknown"
             PROVE  claim'[p].stage \in {"holding", "unresolved"}
  BY DEF Unforgotten
<1> USE DEF SystemTypeOK, TypeOK, Content, View, Ledger!Stage
<1>1. claim[p].stage \in {"holding", "unresolved"}
  <2>1. status[p] = "outcome_unknown" \/ (status[p] = Null /\ \E x \in Process : Working(x, p))
    BY ReceiptsStay
  <2>2. CASE status[p] = Null /\ \E x \in Process : Working(x, p)
    BY <2>2 DEF Working, Entrusted, Reserved, Holding
  <2> QED
    BY <2>1, <2>2 DEF Unforgotten
<1>2. CASE UNCHANGED ledger
  BY <1>1, <1>2 DEF ledger
<1>3. CASE Cleared
  BY <1>1, <1>3 DEF Cleared
<1>4. CASE Reserves
  <2>1. CASE Ledger!Advance
    BY <1>1, <2>1 DEF Ledger!Advance
  <2>2. ASSUME NEW q \in Promotion, Ledger!Offer(q) PROVE claim'[p].stage \in {"holding", "unresolved"}
    BY <1>1, <2>2 DEF Ledger!Offer
  <2>3. ASSUME NEW q \in Promotion, Ledger!Hold(q) PROVE claim'[p].stage \in {"holding", "unresolved"}
    BY <1>1, <2>3 DEF Ledger!Hold
  <2> QED
    BY <1>4, <2>1, <2>2, <2>3 DEF Reserves
<1>5. ASSUME NEW q \in Promotion, UNCHANGED host, Stored(q)
      PROVE  claim'[p].stage \in {"holding", "unresolved"}
  <2>1. CASE q = p
    <3>1. status[q] = "outcome_unknown"
      BY <1>5, <2>1 DEF host
    <3> QED
      BY <1>5, <2>1, <3>1 DEF Stored, Ledger!Conclude, StageOf
  <2> QED
    BY <1>1, <1>5, <2>1 DEF Stored, Ledger!Conclude
<1> QED
  BY <1>2, <1>3, <1>4, <1>5 DEF LedgerStep

-------------------------------------------------------------------------------
(* The host's own invariants.                                              *)

LEMMA NextHost ==
  ASSUME Cautious, HostInv, HostStep PROVE HostInv'
<1>1. CASE [Next]_vars
  <2>1. TypeOK' /\ Served'
    BY <1>1, NextServed DEF HostInv, JournalInv
  <2>2. OneClaimant'
    BY <1>1, NextClaimant DEF HostInv, JournalInv
  <2>3. TruthfulReceipts'
    BY <1>1, NextTruth DEF HostInv, JournalInv
  <2>4. LockExcludes'
    BY <1>1, NextLock DEF HostInv, JournalInv, SerialInv
  <2>5. Exclusive'
    BY <1>1, NextSerial DEF HostInv, JournalInv, SerialInv
  <2> QED
    BY <2>1, <2>2, <2>3, <2>4, <2>5 DEF HostInv, JournalInv, SerialInv
<1>2. CASE UNCHANGED host /\ faults' \in Nat
  <2> USE <1>2 DEF HostInv, JournalInv, SerialInv, host
  <2>1. TypeOK' /\ Served'
    BY DEF TypeOK, Served, At
  <2>2. OneClaimant'
    BY DEF OneClaimant, MayLaunch
  <2>3. TruthfulReceipts'
    BY DEF TruthfulReceipts, PromotedWasHeld, At
  <2>4. LockExcludes'
    BY DEF LockExcludes, Inside
  <2>5. Exclusive'
    BY DEF Exclusive, At
  <2> QED
    BY <2>1, <2>2, <2>3, <2>4, <2>5
<1> QED
  BY <1>1, <1>2 DEF HostStep

-------------------------------------------------------------------------------
(* Types of the ledger and the sessions.                                   *)

LEMMA NextContent == ASSUME SystemTypeOK, LedgerStep PROVE (Content \in View)'
<1> USE DEF SystemTypeOK, TypeOK, Content, View, Ledger!Stage
<1>1. CASE UNCHANGED ledger
  BY <1>1 DEF ledger
<1>2. CASE Cleared
  BY <1>2 DEF Cleared
<1>3. CASE Reserves /\ UNCHANGED record
  <2>1. CASE Ledger!Advance
    BY <1>3, <2>1 DEF Ledger!Advance
  <2>2. ASSUME NEW q \in Promotion, Ledger!Offer(q) PROVE (Content \in View)'
    BY <1>3, <2>2 DEF Ledger!Offer
  <2>3. ASSUME NEW q \in Promotion, Ledger!Hold(q) PROVE (Content \in View)'
    BY <1>3, <2>3 DEF Ledger!Hold
  <2> QED
    BY <1>3, <2>1, <2>2, <2>3 DEF Reserves
<1>4. ASSUME NEW q \in Promotion, Stored(q) PROVE (Content \in View)'
  <2>1. PICK stage \in {"done", "void", "unresolved"} :
          claim' = [claim EXCEPT ![q].stage = stage] /\ head' = head
    <3> DEFINE to == StageOf(status[q])
    <3>1. Ledger!Conclude(q, to)
      BY <1>4 DEF Stored
    <3> HIDE DEF to
    <3> QED
      BY <3>1 DEF Ledger!Conclude
  <2>2. claim' \in [Promotion -> [stage : Ledger!Stage, at : Nat]] /\ head' \in Nat
    <3>1. claim[q] \in [stage : Ledger!Stage, at : Nat]
      OBVIOUS
    <3>2. [claim[q] EXCEPT !.stage = stage] \in [stage : Ledger!Stage, at : Nat]
      BY <3>1
    <3>3. claim' = [claim EXCEPT ![q] = [claim[q] EXCEPT !.stage = stage]]
      BY <2>1
    <3> QED
      BY <2>1, <3>2, <3>3
  <2>3. record' \in [Promotion -> Outcome \cup {Null}]
    BY <1>4 DEF Stored
  <2> QED
    BY <2>2, <2>3
<1> QED
  BY <1>1, <1>2, <1>3, <1>4 DEF LedgerStep

SessionTypes ==
  /\ client \in [Process -> Session \cup {Null}]
  /\ place \in [Session -> {"ready", "preflight", "sending", "waiting", "confirming"}]
  /\ view \in [Session -> View]
  /\ subject \in [Session -> Promotion \cup {Null}]
  /\ todo \in [Session -> SUBSET Promotion]
  /\ receipt \in [Session -> Outcome \cup {Null}]
  /\ attested \in [Session -> SUBSET Promotion]
  /\ offered \subseteq Promotion

LEMMA RecoverTypes ==
  ASSUME SessionTypes, Content' \in View, NEW s \in Session, NEW p \in Promotion, NEW expected,
         RecoverStatus(s, p, expected)
  PROVE  view' \in [Session -> View] /\ attested' \in [Session -> SUBSET Promotion]
<1>1. UNCHANGED view \/ Written(s)
  BY DEF RecoverStatus, Store
<1>2. view' \in [Session -> View]
  BY <1>1 DEF Written, SessionTypes
<1>3. PICK add \in SUBSET Promotion : attested' = [attested EXCEPT ![s] = @ \cup add]
  <2>1. attested' = [attested EXCEPT ![s] = @ \cup {p}] \/ attested' = [attested EXCEPT ![s] = @]
    BY DEF RecoverStatus
  <2>2. attested[s] \cup {} = attested[s]
    OBVIOUS
  <2> QED
    BY <2>1, <2>2
<1> QED
  BY <1>2, <1>3 DEF SessionTypes

LEMMA NextSessions ==
  ASSUME SystemTypeOK, Concerned, Content' \in View, [SystemNext]_system
  PROVE  SessionTypes' /\ Concerned'
<1>0. SessionTypes /\ Content \in View
  BY DEF SystemTypeOK, SessionTypes
<1> USE <1>0 DEF SessionTypes, Concerned, Stands, Go, Install, Written, session
<1>1. ASSUME NEW s \in Session, NEW p \in Promotion, Propose(s, p) PROVE SessionTypes' /\ Concerned'
  BY <1>1 DEF Propose
<1>2. ASSUME NEW s \in Session, NEW p \in Promotion, Authorize(s, p) PROVE SessionTypes' /\ Concerned'
  BY <1>2 DEF Authorize
<1>3. ASSUME NEW s \in Session, NEW p \in Promotion, Resume(s, p) PROVE SessionTypes' /\ Concerned'
  BY <1>3 DEF Resume
<1>4. ASSUME NEW s \in Session, Integrate(s) PROVE SessionTypes' /\ Concerned'
  BY <1>4 DEF Integrate
<1>5. ASSUME NEW s \in Session, Append(s) PROVE SessionTypes' /\ Concerned'
  BY <1>5 DEF Append
<1>6. ASSUME NEW s \in Session, Declined(s) PROVE SessionTypes' /\ Concerned'
  BY <1>6 DEF Declined
<1>7. ASSUME NEW s \in Session, Reload(s) PROVE SessionTypes' /\ Concerned'
  BY <1>7 DEF Reload, Forget
<1>8. ASSUME NEW s \in Session, Reset(s) PROVE SessionTypes' /\ Concerned'
  BY <1>8 DEF Reset
<1>9. ASSUME NEW s \in Session, Preflight(s) PROVE SessionTypes' /\ Concerned'
  BY <1>9 DEF Preflight
<1>10. ASSUME NEW s \in Session, Unanswered(s) PROVE SessionTypes' /\ Concerned'
  BY <1>10 DEF Unanswered, Forget
<1>11. ASSUME NEW s \in Session, Confirm(s) PROVE SessionTypes' /\ Concerned'
  <2>1. subject[s] \in Promotion
    BY <1>11 DEF Confirm
  <2>2. view' \in [Session -> View] /\ attested' \in [Session -> SUBSET Promotion]
    BY <1>11, <2>1, RecoverTypes DEF Confirm, Unobserved
  <2> QED
    BY <1>11, <2>2 DEF Confirm
<1>12. ASSUME NEW s \in Session, NEW x \in Process, Send(s, x) PROVE SessionTypes' /\ Concerned'
  BY <1>12 DEF Send
<1>13. ASSUME NEW s \in Session, NEW x \in Process, Reply(s, x) PROVE SessionTypes' /\ Concerned'
  BY <1>13 DEF Reply
<1>14. ASSUME NEW s \in Session, NEW p \in Promotion, Restore(s, p) PROVE SessionTypes' /\ Concerned'
  <2>1. view' \in [Session -> View] /\ attested' \in [Session -> SUBSET Promotion]
    BY <1>14, RecoverTypes DEF Restore, Unobserved
  <2> QED
    BY <1>14, <2>1 DEF Restore
<1>15. CASE UNCHANGED <<ledger, client, session, offered>>
  BY <1>15
<1>16. CASE UNCHANGED system
  BY <1>16 DEF system
<1> QED
  BY <1>1, <1>2, <1>3, <1>4, <1>5, <1>6, <1>7, <1>8, <1>9, <1>10, <1>11, <1>12, <1>13, <1>14, <1>15, <1>16
     DEF SystemNext, Continue, Drop, Serve, HostEvent, Reconcile

-------------------------------------------------------------------------------
(* The inductive invariant.                                                *)

LEMMA InitSystem == SystemInit => SystemInv
<1> SUFFICES ASSUME SystemInit PROVE SystemInv
  OBVIOUS
<1> USE DEF SystemInit
<1>1. JournalInv
  BY InitJournal
<1>2. SerialInv
  BY PromotionAssumption DEF Init, SerialInv, LockExcludes, Exclusive, Inside, Inner, At
<1>3. Content \in View
  BY DEF Ledger!Init, Ledger!Stage, Content, View
<1>4. SystemTypeOK
  BY <1>1, <1>3 DEF SystemTypeOK, JournalInv
<1>5. Concerned /\ Entrusted
  BY DEF Concerned, Entrusted, Stands, Init, At
<1>6. Unforgotten /\ RecordsAreJournalled
  BY PromotionAssumption DEF Unforgotten, RecordsAreJournalled, Init, Outcome
<1> QED
  BY <1>1, <1>2, <1>4, <1>5, <1>6 DEF SystemInv, HostInv

LEMMA NextSystem ==
  ASSUME Cautious, SystemInv, [SystemNext]_system PROVE SystemInv'
<1>1. SystemTypeOK /\ Concerned /\ HostInv /\ Entrusted /\ Unforgotten /\ RecordsAreJournalled /\ Served
  BY DEF SystemInv, HostInv, JournalInv
<1>2. LedgerStep /\ HostStep /\ Entrusting
  BY <1>1, Steps
<1>3. HostInv'
  BY <1>1, <1>2, NextHost
<1>4. (Content \in View)'
  BY <1>1, <1>2, NextContent
<1>5. SessionTypes' /\ Concerned'
  BY <1>1, <1>4, NextSessions
<1>6. SystemTypeOK'
  BY <1>3, <1>4, <1>5 DEF SystemTypeOK, SessionTypes, HostInv, JournalInv
<1>7. Entrusted'
  BY <1>1, <1>2, <1>5, NextEntrusted
<1>8. Unforgotten'
  BY <1>1, <1>2, NextUnforgotten
<1>9. RecordsAreJournalled'
  BY <1>1, <1>2, NextRecords
<1> QED
  BY <1>3, <1>5, <1>6, <1>7, <1>8, <1>9 DEF SystemInv

\* The invariant of sessions, ledger, journal and ref, for any number of
\* sessions, promotions and server processes.
THEOREM SystemInvariant == ASSUME Cautious PROVE SystemSpec => []SystemInv
<1>1. SystemInit => SystemInv
  BY InitSystem
<1>2. SystemInv /\ [SystemNext]_system => SystemInv'
  BY NextSystem
<1> QED
  BY <1>1, <1>2, PTL DEF SystemSpec

\* An outcome the ledger records is the receipt in the host journal, whichever
\* session recorded it (recoverArtifactPromotionStatus).
THEOREM OutcomesAreJournalled == ASSUME Cautious PROVE SystemSpec => []RecordsAreJournalled
<1>1. SystemInv => RecordsAreJournalled
  BY DEF SystemInv
<1> QED
  BY <1>1, SystemInvariant, PTL

\* No reset by any session forgets a promotion whose outcome may still have to
\* be found out (resetSandbox).
THEOREM OutcomesAreKept == ASSUME Cautious PROVE SystemSpec => []RecoveryKept
<1>1. SystemInv => RecoveryKept
  <2> SUFFICES ASSUME SystemInv, NEW p \in Promotion, p \in attempt, status[p] \in {Null, "outcome_unknown"}
               PROVE  claim[p].stage \in {"holding", "unresolved"}
    BY DEF RecoveryKept
  <2>1. CASE status[p] = Null
    BY <2>1 DEF SystemInv, Entrusted, Reserved, Holding
  <2>2. CASE status[p] = "outcome_unknown"
    BY <2>2 DEF SystemInv, Unforgotten
  <2> QED
    BY <2>1, <2>2
<1> QED
  BY <1>1, SystemInvariant, PTL

\* The ref moves for a promotion only by a process that serves it, without a
\* receipt yet.
LEMMA AppliesServed ==
  ASSUME SystemInv, HostStep, NEW p \in applied' \ applied
  PROVE  p \in Promotion /\ \E x \in Process : At(x, "updating") /\ serves[x] = p
<1>0. TypeOK /\ Served
  BY DEF SystemInv, HostInv, JournalInv
<1>1. ASSUME NEW x \in Process, NEW q \in Promotion, Request(x, q) PROVE UNCHANGED applied
  BY <1>1 DEF Request, target
<1>2. CASE Hosted
  BY <1>0, <1>2, HostMoves DEF Moves, Served, At
<1>3. CASE UNCHANGED vars \/ UNCHANGED host
  BY <1>3 DEF vars, host
<1> QED
  BY <1>1, <1>2, <1>3 DEF HostStep, Next, Hosted

\* The target ref moves for a promotion only while the ledger reserves the
\* head for it (promoteActiveArtifact, resetSandbox, the journal).
THEOREM UpdatesAreReserved == ASSUME Cautious PROVE SystemSpec => UpdatesUnderReservation
<1>1. ASSUME SystemInv, [SystemNext]_system, NEW p \in applied' \ applied
      PROVE  claim[p].stage = "holding" /\ claim[p].at = head
  <2>1. HostStep
    BY <1>1, Steps DEF SystemInv, HostInv, JournalInv
  <2>2. PICK x \in Process : At(x, "updating") /\ serves[x] = p
    BY <1>1, <2>1, AppliesServed
  <2>3. status[p] = Null
    BY <1>1, <2>2 DEF SystemInv, HostInv, SerialInv, Exclusive, At
  <2>4. Reserved(p)
    BY <1>1, <2>2 DEF SystemInv, Entrusted, At
  <2> QED
    BY <2>3, <2>4 DEF Reserved, Holding
<1>2. SystemInv /\ [SystemNext]_system
        => [\A p \in applied' \ applied : claim[p].stage = "holding" /\ claim[p].at = head]_system
  BY <1>1
<1> QED
  BY <1>2, SystemInvariant, PTL DEF SystemSpec, UpdatesUnderReservation
===============================================================================
