------------------------ MODULE PromotionJournalProofs ------------------------
(***************************************************************************)
(* What holds of the promotion journal for any number of promotions,       *)
(* processes, commits and faults.  JournalInv is inductive by itself,      *)
(* whatever the operator does to the lock; SerialInv also needs an         *)
(* operator who clears only a lock nobody holds.                           *)
(***************************************************************************)
EXTENDS PromotionJournal, TLAPS

-------------------------------------------------------------------------------
(* The journal by itself.                                                  *)

LEMMA NextServed == ASSUME TypeOK, Served, TruthfulReceipts, [Next]_vars PROVE TypeOK' /\ Served'
<1> USE DEF TypeOK, Served, Phase, Inner, Answer, Outcome, At, Goto, Resolve, TakeUp, journal, target, process
<1>1. ASSUME NEW x \in Process, NEW p \in Promotion, Request(x, p) PROVE TypeOK' /\ Served'
  BY <1>1 DEF Request
<1>2. ASSUME NEW x \in Process, Acquire(x) PROVE TypeOK' /\ Served'
  BY <1>2 DEF Acquire, LockFree
<1>3. ASSUME NEW x \in Process, GiveUp(x) PROVE TypeOK' /\ Served'
  BY <1>3 DEF GiveUp
<1>4. ASSUME NEW x \in Process, RecordAuthority(x) PROVE TypeOK' /\ Served'
  BY <1>4 DEF RecordAuthority
<1>5. ASSUME NEW x \in Process, ReadAttempt(x) PROVE TypeOK' /\ Served'
  <2>1. serves[x] \in Promotion
    BY <1>5 DEF ReadAttempt
  <2>2. status[serves[x]] \in Outcome \cup {Null}
    BY <2>1
  <2>3. CASE Recorded(serves[x])
    BY <1>5, <2>1, <2>2, <2>3 DEF ReadAttempt
  <2>4. CASE ~Recorded(serves[x])
    <3>1. found' \in [Process -> BOOLEAN]
      <4>1. found' = [found EXCEPT ![x] = serves[x] \in attempt]
        BY <1>5, <2>4 DEF ReadAttempt
      <4>2. (serves[x] \in attempt) \in BOOLEAN
        OBVIOUS
      <4> QED
        BY <4>1, <4>2
    <3> QED
      BY <1>5, <2>1, <2>4, <3>1 DEF ReadAttempt
  <2> QED
    BY <2>3, <2>4
<1>6. ASSUME NEW x \in Process, NEW fit \in BOOLEAN, Examine(x, fit) PROVE TypeOK' /\ Served'
  BY <1>6 DEF Examine
<1>7. ASSUME NEW x \in Process, Claim(x) PROVE TypeOK' /\ Served'
  BY <1>7 DEF Claim, MayUpdate
<1>8. ASSUME NEW x \in Process, ClaimRefusal(x) PROVE TypeOK' /\ Served'
  BY <1>8 DEF ClaimRefusal
<1>9. ASSUME NEW x \in Process, NEW seen \in Value \cup {"unseen"}, Recover(x, seen) PROVE TypeOK' /\ Served'
  BY <1>9 DEF Recover, Adopted
<1>10. ASSUME NEW x \in Process, NEW seen \in Value \cup {"unseen"}, ObserveBefore(x, seen) PROVE TypeOK' /\ Served'
  BY <1>10 DEF ObserveBefore
<1>11. ASSUME NEW x \in Process, NEW seen \in Value \cup {"unseen"}, ObserveAfter(x, seen) PROVE TypeOK' /\ Served'
  BY <1>11 DEF ObserveAfter
<1>12. ASSUME NEW x \in Process, Launch(x) PROVE TypeOK' /\ Served'
  BY <1>12 DEF Launch
<1>13. ASSUME NEW x \in Process, CheckedOut(x) PROVE TypeOK' /\ Served'
  BY <1>13 DEF CheckedOut
<1>14. ASSUME NEW x \in Process, Update(x) PROVE TypeOK' /\ Served'
  BY <1>14, PromotionAssumption DEF Value, Update, Swap, Swappable
<1>15. ASSUME NEW x \in Process, Persist(x) PROVE TypeOK' /\ Served'
  <2>1. serves[x] \in Promotion /\ answer[x] \in Outcome
    BY <1>15 DEF Persist, TruthfulReceipts
  <2>2. Settle(serves[x], answer[x]) \in Outcome
    BY <2>1 DEF Settle
  <2> QED
    BY <1>15, <2>1, <2>2 DEF Persist
<1>16. ASSUME NEW x \in Process, Release(x) PROVE TypeOK' /\ Served'
  BY <1>16 DEF Release
<1>17. ASSUME NEW x \in Process, Finish(x) PROVE TypeOK' /\ Served'
  BY <1>17 DEF Finish
<1>18. ASSUME NEW x \in Process, Stumble(x) PROVE TypeOK' /\ Served'
  BY <1>18 DEF Stumble, Fault
<1>19. ASSUME NEW x \in Process, PersistFails(x) PROVE TypeOK' /\ Served'
  <2>1. serves[x] \in Promotion /\ answer[x] \in Outcome
    BY <1>19 DEF PersistFails, TruthfulReceipts
  <2>2. Settle(serves[x], answer[x]) \in Outcome
    BY <2>1 DEF Settle
  <2> QED
    BY <1>19, <2>1, <2>2 DEF PersistFails, Fault
<1>20. ASSUME NEW x \in Process, Crash(x) PROVE TypeOK' /\ Served'
  BY <1>20, PromotionAssumption DEF Value, Crash, Fault, Swap, Swappable
<1>21. ASSUME ClearLock PROVE TypeOK' /\ Served'
  BY <1>21 DEF ClearLock
<1>22. ASSUME NEW v \in Value, MoveRef(v) PROVE TypeOK' /\ Served'
  BY <1>22 DEF MoveRef
<1>23. CASE UNCHANGED vars
  BY <1>23 DEF vars
<1> QED
  BY <1>1, <1>2, <1>3, <1>4, <1>5, <1>6, <1>7, <1>8, <1>9, <1>10, <1>11, <1>12, <1>13, <1>14, <1>15, <1>16, <1>17, <1>18, <1>19, <1>20, <1>21, <1>22, <1>23 DEF Next, Work, Fail, Enter, Decide, Observe, Change, Leave

LEMMA NextClaimant == ASSUME TypeOK, Served, OneClaimant, [Next]_vars PROVE OneClaimant'
<1> USE DEF TypeOK, Served, OneClaimant, MayLaunch, At, Goto, Resolve, TakeUp, journal, target, process
<1>1. ASSUME NEW x \in Process, NEW p \in Promotion, Request(x, p) PROVE OneClaimant'
  BY <1>1 DEF Request
<1>2. ASSUME NEW x \in Process, Acquire(x) PROVE OneClaimant'
  BY <1>2 DEF Acquire, LockFree
<1>3. ASSUME NEW x \in Process, GiveUp(x) PROVE OneClaimant'
  BY <1>3 DEF GiveUp
<1>4. ASSUME NEW x \in Process, RecordAuthority(x) PROVE OneClaimant'
  BY <1>4 DEF RecordAuthority
<1>5. ASSUME NEW x \in Process, ReadAttempt(x) PROVE OneClaimant'
  BY <1>5 DEF ReadAttempt, Recorded
<1>6. ASSUME NEW x \in Process, NEW fit \in BOOLEAN, Examine(x, fit) PROVE OneClaimant'
  BY <1>6 DEF Examine
<1>7. ASSUME NEW x \in Process, Claim(x) PROVE OneClaimant'
  BY <1>7 DEF Claim, MayUpdate
<1>8. ASSUME NEW x \in Process, ClaimRefusal(x) PROVE OneClaimant'
  BY <1>8 DEF ClaimRefusal
<1>9. ASSUME NEW x \in Process, NEW seen \in Value \cup {"unseen"}, Recover(x, seen) PROVE OneClaimant'
  BY <1>9 DEF Recover, Adopted
<1>10. ASSUME NEW x \in Process, NEW seen \in Value \cup {"unseen"}, ObserveBefore(x, seen) PROVE OneClaimant'
  BY <1>10 DEF ObserveBefore
<1>11. ASSUME NEW x \in Process, NEW seen \in Value \cup {"unseen"}, ObserveAfter(x, seen) PROVE OneClaimant'
  BY <1>11 DEF ObserveAfter
<1>12. ASSUME NEW x \in Process, Launch(x) PROVE OneClaimant'
  BY <1>12 DEF Launch
<1>13. ASSUME NEW x \in Process, CheckedOut(x) PROVE OneClaimant'
  BY <1>13 DEF CheckedOut
<1>14. ASSUME NEW x \in Process, Update(x) PROVE OneClaimant'
  BY <1>14 DEF Update, Swap, Swappable
<1>15. ASSUME NEW x \in Process, Persist(x) PROVE OneClaimant'
  BY <1>15 DEF Persist, Settle
<1>16. ASSUME NEW x \in Process, Release(x) PROVE OneClaimant'
  BY <1>16 DEF Release
<1>17. ASSUME NEW x \in Process, Finish(x) PROVE OneClaimant'
  BY <1>17 DEF Finish
<1>18. ASSUME NEW x \in Process, Stumble(x) PROVE OneClaimant'
  BY <1>18 DEF Stumble, Fault
<1>19. ASSUME NEW x \in Process, PersistFails(x) PROVE OneClaimant'
  BY <1>19 DEF PersistFails, Settle, Fault
<1>20. ASSUME NEW x \in Process, Crash(x) PROVE OneClaimant'
  BY <1>20 DEF Crash, Fault, Swap, Swappable
<1>21. ASSUME ClearLock PROVE OneClaimant'
  BY <1>21 DEF ClearLock
<1>22. ASSUME NEW v \in Value, MoveRef(v) PROVE OneClaimant'
  BY <1>22 DEF MoveRef
<1>23. CASE UNCHANGED vars
  BY <1>23 DEF vars
<1> QED
  BY <1>1, <1>2, <1>3, <1>4, <1>5, <1>6, <1>7, <1>8, <1>9, <1>10, <1>11, <1>12, <1>13, <1>14, <1>15, <1>16, <1>17, <1>18, <1>19, <1>20, <1>21, <1>22, <1>23 DEF Next, Work, Fail, Enter, Decide, Observe, Change, Leave

LEMMA NextTruth == ASSUME TypeOK, Served, TruthfulReceipts, [Next]_vars PROVE TruthfulReceipts'
<1> USE PromotionAssumption
    DEF TypeOK, Served, TruthfulReceipts, PromotedWasHeld, Outcome, Value, At, Goto, Resolve, TakeUp, journal, target, process
<1>1. ASSUME NEW x \in Process, NEW p \in Promotion, Request(x, p) PROVE TruthfulReceipts'
  BY <1>1 DEF Request
<1>2. ASSUME NEW x \in Process, Acquire(x) PROVE TruthfulReceipts'
  BY <1>2 DEF Acquire, LockFree
<1>3. ASSUME NEW x \in Process, GiveUp(x) PROVE TruthfulReceipts'
  BY <1>3 DEF GiveUp
<1>4. ASSUME NEW x \in Process, RecordAuthority(x) PROVE TruthfulReceipts'
  BY <1>4 DEF RecordAuthority
<1>5. ASSUME NEW x \in Process, ReadAttempt(x) PROVE TruthfulReceipts'
  BY <1>5 DEF ReadAttempt, Recorded
<1>6. ASSUME NEW x \in Process, NEW fit \in BOOLEAN, Examine(x, fit) PROVE TruthfulReceipts'
  BY <1>6 DEF Examine
<1>7. ASSUME NEW x \in Process, Claim(x) PROVE TruthfulReceipts'
  BY <1>7 DEF Claim, MayUpdate
<1>8. ASSUME NEW x \in Process, ClaimRefusal(x) PROVE TruthfulReceipts'
  BY <1>8 DEF ClaimRefusal
<1>9. ASSUME NEW x \in Process, NEW seen \in Value \cup {"unseen"}, Recover(x, seen) PROVE TruthfulReceipts'
  BY <1>9 DEF Recover, Adopted
<1>10. ASSUME NEW x \in Process, NEW seen \in Value \cup {"unseen"}, ObserveBefore(x, seen) PROVE TruthfulReceipts'
  BY <1>10 DEF ObserveBefore
<1>11. ASSUME NEW x \in Process, NEW seen \in Value \cup {"unseen"}, ObserveAfter(x, seen) PROVE TruthfulReceipts'
  BY <1>11 DEF ObserveAfter
<1>12. ASSUME NEW x \in Process, Launch(x) PROVE TruthfulReceipts'
  BY <1>12 DEF Launch
<1>13. ASSUME NEW x \in Process, CheckedOut(x) PROVE TruthfulReceipts'
  BY <1>13 DEF CheckedOut
<1>14. ASSUME NEW x \in Process, Update(x) PROVE TruthfulReceipts'
  BY <1>14 DEF Update, Swap, Swappable
<1>15. ASSUME NEW x \in Process, Persist(x) PROVE TruthfulReceipts'
  BY <1>15 DEF Persist, Settle
<1>16. ASSUME NEW x \in Process, Release(x) PROVE TruthfulReceipts'
  BY <1>16 DEF Release
<1>17. ASSUME NEW x \in Process, Finish(x) PROVE TruthfulReceipts'
  BY <1>17 DEF Finish
<1>18. ASSUME NEW x \in Process, Stumble(x) PROVE TruthfulReceipts'
  BY <1>18 DEF Stumble, Fault
<1>19. ASSUME NEW x \in Process, PersistFails(x) PROVE TruthfulReceipts'
  BY <1>19 DEF PersistFails, Settle, Fault
<1>20. ASSUME NEW x \in Process, Crash(x) PROVE TruthfulReceipts'
  BY <1>20 DEF Crash, Fault, Swap, Swappable
<1>21. ASSUME ClearLock PROVE TruthfulReceipts'
  BY <1>21 DEF ClearLock
<1>22. ASSUME NEW v \in Value, MoveRef(v) PROVE TruthfulReceipts'
  BY <1>22 DEF MoveRef
<1>23. CASE UNCHANGED vars
  BY <1>23 DEF vars
<1> QED
  BY <1>1, <1>2, <1>3, <1>4, <1>5, <1>6, <1>7, <1>8, <1>9, <1>10, <1>11, <1>12, <1>13, <1>14, <1>15, <1>16, <1>17, <1>18, <1>19, <1>20, <1>21, <1>22, <1>23 DEF Next, Work, Fail, Enter, Decide, Observe, Change, Leave

LEMMA InitJournal == Init => JournalInv
<1> SUFFICES ASSUME Init PROVE JournalInv
  OBVIOUS
<1>1. TypeOK /\ Served
  BY DEF Init, TypeOK, Served, Phase, At
<1>2. OneClaimant
  BY DEF Init, OneClaimant, MayLaunch
<1>3. TruthfulReceipts
  BY PromotionAssumption DEF Init, TruthfulReceipts, PromotedWasHeld, At, Outcome
<1> QED
  BY <1>1, <1>2, <1>3 DEF JournalInv

\* JournalInv holds in every reachable state, whoever deletes the lock when.
THEOREM Invariant == Spec => []JournalInv
<1>1. Init => JournalInv
  BY InitJournal
<1>2. JournalInv /\ [Next]_vars => JournalInv'
  BY NextServed, NextClaimant, NextTruth DEF JournalInv
<1> QED
  BY <1>1, <1>2, PTL DEF Spec

\* Every state of the journal, the ref and the processes is well typed.
THEOREM TypeCorrect == Spec => []TypeOK
<1>1. JournalInv => TypeOK
  BY DEF JournalInv
<1> QED
  BY <1>1, Invariant, PTL

\* git update-ref is started at most once per promotion, over any number of
\* requests, processes, crashes and lock deletions.
THEOREM LaunchedOnce == Spec => []OneLaunch
<1>1. JournalInv => OneLaunch
  BY DEF JournalInv, OneClaimant, OneLaunch
<1> QED
  BY <1>1, Invariant, PTL

\* A receipt says promoted only of a candidate the ref has named.
THEOREM PromotedReceiptsAreTrue == Spec => []PromotedWasHeld
<1>1. JournalInv => PromotedWasHeld
  BY DEF JournalInv, TruthfulReceipts
<1> QED
  BY <1>1, Invariant, PTL

LEMMA NextAnswers == ASSUME TypeOK, Served, TruthfulReceipts, AnswersAgree, [Next]_vars PROVE AnswersAgree'
<1> USE PromotionAssumption
    DEF TypeOK, Served, AnswersAgree, TruthfulReceipts, Outcome, At, Goto, Resolve, TakeUp, journal, target, process
<1>1. ASSUME NEW x \in Process, NEW p \in Promotion, Request(x, p) PROVE AnswersAgree'
  BY <1>1 DEF Request
<1>2. ASSUME NEW x \in Process, Acquire(x) PROVE AnswersAgree'
  BY <1>2 DEF Acquire, LockFree
<1>3. ASSUME NEW x \in Process, GiveUp(x) PROVE AnswersAgree'
  BY <1>3 DEF GiveUp
<1>4. ASSUME NEW x \in Process, RecordAuthority(x) PROVE AnswersAgree'
  BY <1>4 DEF RecordAuthority
<1>5. ASSUME NEW x \in Process, ReadAttempt(x) PROVE AnswersAgree'
  BY <1>5 DEF ReadAttempt, Recorded
<1>6. ASSUME NEW x \in Process, NEW fit \in BOOLEAN, Examine(x, fit) PROVE AnswersAgree'
  BY <1>6 DEF Examine
<1>7. ASSUME NEW x \in Process, Claim(x) PROVE AnswersAgree'
  BY <1>7 DEF Claim, MayUpdate
<1>8. ASSUME NEW x \in Process, ClaimRefusal(x) PROVE AnswersAgree'
  BY <1>8 DEF ClaimRefusal
<1>9. ASSUME NEW x \in Process, NEW seen \in Value \cup {"unseen"}, Recover(x, seen) PROVE AnswersAgree'
  BY <1>9 DEF Recover, Adopted
<1>10. ASSUME NEW x \in Process, NEW seen \in Value \cup {"unseen"}, ObserveBefore(x, seen) PROVE AnswersAgree'
  BY <1>10 DEF ObserveBefore
<1>11. ASSUME NEW x \in Process, NEW seen \in Value \cup {"unseen"}, ObserveAfter(x, seen) PROVE AnswersAgree'
  BY <1>11 DEF ObserveAfter
<1>12. ASSUME NEW x \in Process, Launch(x) PROVE AnswersAgree'
  BY <1>12 DEF Launch
<1>13. ASSUME NEW x \in Process, CheckedOut(x) PROVE AnswersAgree'
  BY <1>13 DEF CheckedOut
<1>14. ASSUME NEW x \in Process, Update(x) PROVE AnswersAgree'
  BY <1>14 DEF Update, Swap, Swappable
<1>15. ASSUME NEW x \in Process, Persist(x) PROVE AnswersAgree'
  BY <1>15 DEF Persist, Settle
<1>16. ASSUME NEW x \in Process, Release(x) PROVE AnswersAgree'
  BY <1>16 DEF Release
<1>17. ASSUME NEW x \in Process, Finish(x) PROVE AnswersAgree'
  BY <1>17 DEF Finish
<1>18. ASSUME NEW x \in Process, Stumble(x) PROVE AnswersAgree'
  BY <1>18 DEF Stumble, Fault
<1>19. ASSUME NEW x \in Process, PersistFails(x) PROVE AnswersAgree'
  BY <1>19 DEF PersistFails, Settle, Fault
<1>20. ASSUME NEW x \in Process, Crash(x) PROVE AnswersAgree'
  BY <1>20 DEF Crash, Fault, Swap, Swappable
<1>21. ASSUME ClearLock PROVE AnswersAgree'
  BY <1>21 DEF ClearLock
<1>22. ASSUME NEW v \in Value, MoveRef(v) PROVE AnswersAgree'
  BY <1>22 DEF MoveRef
<1>23. CASE UNCHANGED vars
  BY <1>23 DEF vars
<1> QED
  BY <1>1, <1>2, <1>3, <1>4, <1>5, <1>6, <1>7, <1>8, <1>9, <1>10, <1>11, <1>12, <1>13, <1>14, <1>15, <1>16, <1>17, <1>18, <1>19, <1>20, <1>21, <1>22, <1>23 DEF Next, Work, Fail, Enter, Decide, Observe, Change, Leave

\* Nobody is told another outcome than the one the receipt keeps.
THEOREM EveryAnswerAgrees == Spec => []AnswersAgree
<1>1. Init => AnswersAgree
  BY DEF Init, AnswersAgree
<1>2. JournalInv /\ AnswersAgree /\ [Next]_vars => AnswersAgree'
  BY NextAnswers DEF JournalInv
<1> QED
  BY <1>1, <1>2, Invariant, PTL DEF Spec

-------------------------------------------------------------------------------
(* The lock, when only an abandoned one is cleared.                        *)

LEMMA NextLock == ASSUME Cautious, TypeOK, LockExcludes, [Next]_vars PROVE LockExcludes'
<1> USE DEF TypeOK, LockExcludes, Inside, Inner, At, Goto, Resolve, TakeUp, journal, target, process
<1>1. ASSUME NEW x \in Process, NEW p \in Promotion, Request(x, p) PROVE LockExcludes'
  BY <1>1 DEF Request
<1>2. ASSUME NEW x \in Process, Acquire(x) PROVE LockExcludes'
  BY <1>2 DEF Acquire, LockFree
<1>3. ASSUME NEW x \in Process, GiveUp(x) PROVE LockExcludes'
  BY <1>3 DEF GiveUp
<1>4. ASSUME NEW x \in Process, RecordAuthority(x) PROVE LockExcludes'
  BY <1>4 DEF RecordAuthority
<1>5. ASSUME NEW x \in Process, ReadAttempt(x) PROVE LockExcludes'
  BY <1>5 DEF ReadAttempt, Recorded
<1>6. ASSUME NEW x \in Process, NEW fit \in BOOLEAN, Examine(x, fit) PROVE LockExcludes'
  BY <1>6 DEF Examine
<1>7. ASSUME NEW x \in Process, Claim(x) PROVE LockExcludes'
  BY <1>7 DEF Claim, MayUpdate
<1>8. ASSUME NEW x \in Process, ClaimRefusal(x) PROVE LockExcludes'
  BY <1>8 DEF ClaimRefusal
<1>9. ASSUME NEW x \in Process, NEW seen \in Value \cup {"unseen"}, Recover(x, seen) PROVE LockExcludes'
  BY <1>9 DEF Recover, Adopted
<1>10. ASSUME NEW x \in Process, NEW seen \in Value \cup {"unseen"}, ObserveBefore(x, seen) PROVE LockExcludes'
  BY <1>10 DEF ObserveBefore
<1>11. ASSUME NEW x \in Process, NEW seen \in Value \cup {"unseen"}, ObserveAfter(x, seen) PROVE LockExcludes'
  BY <1>11 DEF ObserveAfter
<1>12. ASSUME NEW x \in Process, Launch(x) PROVE LockExcludes'
  BY <1>12 DEF Launch
<1>13. ASSUME NEW x \in Process, CheckedOut(x) PROVE LockExcludes'
  BY <1>13 DEF CheckedOut
<1>14. ASSUME NEW x \in Process, Update(x) PROVE LockExcludes'
  BY <1>14 DEF Update, Swap, Swappable
<1>15. ASSUME NEW x \in Process, Persist(x) PROVE LockExcludes'
  BY <1>15 DEF Persist, Settle
<1>16. ASSUME NEW x \in Process, Release(x) PROVE LockExcludes'
  BY <1>16 DEF Release
<1>17. ASSUME NEW x \in Process, Finish(x) PROVE LockExcludes'
  BY <1>17 DEF Finish
<1>18. ASSUME NEW x \in Process, Stumble(x) PROVE LockExcludes'
  BY <1>18 DEF Stumble, Fault
<1>19. ASSUME NEW x \in Process, PersistFails(x) PROVE LockExcludes'
  BY <1>19 DEF PersistFails, Settle, Fault
<1>20. ASSUME NEW x \in Process, Crash(x) PROVE LockExcludes'
  BY <1>20 DEF Crash, Fault, Swap, Swappable
<1>21. ASSUME ClearLock PROVE LockExcludes'
  BY <1>21 DEF ClearLock
<1>22. ASSUME NEW v \in Value, MoveRef(v) PROVE LockExcludes'
  BY <1>22 DEF MoveRef
<1>23. CASE UNCHANGED vars
  BY <1>23 DEF vars
<1> QED
  BY <1>1, <1>2, <1>3, <1>4, <1>5, <1>6, <1>7, <1>8, <1>9, <1>10, <1>11, <1>12, <1>13, <1>14, <1>15, <1>16, <1>17, <1>18, <1>19, <1>20, <1>21, <1>22, <1>23 DEF Next, Work, Fail, Enter, Decide, Observe, Change, Leave

LEMMA NextSerial ==
  ASSUME JournalInv, LockExcludes, SerialInv, [Next]_vars PROVE Exclusive'
<1> USE DEF JournalInv, TypeOK, Served, OneClaimant, MayLaunch, LockExcludes, SerialInv, Exclusive,
            Inside, Inner, At, Goto, Resolve, TakeUp, journal, target, process
<1>1. ASSUME NEW x \in Process, NEW p \in Promotion, Request(x, p) PROVE Exclusive'
  BY <1>1 DEF Request
<1>2. ASSUME NEW x \in Process, Acquire(x) PROVE Exclusive'
  BY <1>2 DEF Acquire, LockFree
<1>3. ASSUME NEW x \in Process, GiveUp(x) PROVE Exclusive'
  BY <1>3 DEF GiveUp
<1>4. ASSUME NEW x \in Process, RecordAuthority(x) PROVE Exclusive'
  BY <1>4 DEF RecordAuthority
<1>5. ASSUME NEW x \in Process, ReadAttempt(x) PROVE Exclusive'
  <2>1. CASE Recorded(serves[x])
    BY <1>5, <2>1 DEF ReadAttempt
  <2>2. CASE ~Recorded(serves[x])
    <3>1. /\ phase' = [phase EXCEPT ![x] = "examining"]
          /\ found' = [found EXCEPT ![x] = serves[x] \in attempt]
          /\ UNCHANGED <<serves, attempt, status, applied>>
      BY <1>5, <2>2 DEF ReadAttempt
    <3>2. \A y \in Process : y # x => phase'[y] = phase[y] /\ found'[y] = found[y]
      BY <3>1
    <3>3. phase'[x] = "examining" /\ (found'[x] => serves[x] \in attempt)
      <4>1. phase'[x] = "examining"
        BY <3>1
      <4>2. found'[x] => serves[x] \in attempt
        BY <3>1, ZenonT(60)
      <4> QED
        BY <4>1, <4>2
    <3>4. \A y \in Process : phase'[y] \in {"writing", "recovering", "updating", "updated"}
                              => serves'[y] \in attempt'
      BY <3>1, <3>2, <3>3
    <3>5. \A y \in Process : phase'[y] = "examining" /\ found'[y] => serves'[y] \in attempt'
      BY <3>1, <3>2, <3>3
    <3>6. \A y \in Process : phase'[y] \in {"claimed", "ready", "updating"}
                              => status'[serves'[y]] = Null /\ serves'[y] \notin applied'
      BY <3>1, <3>2, <3>3
    <3> QED
      BY <3>1, <3>4, <3>5, <3>6
  <2> QED
    BY <2>1, <2>2
<1>6. ASSUME NEW x \in Process, NEW fit \in BOOLEAN, Examine(x, fit) PROVE Exclusive'
  BY <1>6 DEF Examine
<1>7. ASSUME NEW x \in Process, Claim(x) PROVE Exclusive'
  BY <1>7 DEF Claim, MayUpdate
<1>8. ASSUME NEW x \in Process, ClaimRefusal(x) PROVE Exclusive'
  BY <1>8 DEF ClaimRefusal
<1>9. ASSUME NEW x \in Process, NEW seen \in Value \cup {"unseen"}, Recover(x, seen) PROVE Exclusive'
  BY <1>9 DEF Recover, Adopted
<1>10. ASSUME NEW x \in Process, NEW seen \in Value \cup {"unseen"}, ObserveBefore(x, seen) PROVE Exclusive'
  BY <1>10 DEF ObserveBefore
<1>11. ASSUME NEW x \in Process, NEW seen \in Value \cup {"unseen"}, ObserveAfter(x, seen) PROVE Exclusive'
  BY <1>11 DEF ObserveAfter
<1>12. ASSUME NEW x \in Process, Launch(x) PROVE Exclusive'
  BY <1>12 DEF Launch
<1>13. ASSUME NEW x \in Process, CheckedOut(x) PROVE Exclusive'
  BY <1>13 DEF CheckedOut
<1>14. ASSUME NEW x \in Process, Update(x) PROVE Exclusive'
  BY <1>14 DEF Update, Swap, Swappable
<1>15. ASSUME NEW x \in Process, Persist(x) PROVE Exclusive'
  BY <1>15 DEF Persist, Settle
<1>16. ASSUME NEW x \in Process, Release(x) PROVE Exclusive'
  BY <1>16 DEF Release
<1>17. ASSUME NEW x \in Process, Finish(x) PROVE Exclusive'
  BY <1>17 DEF Finish
<1>18. ASSUME NEW x \in Process, Stumble(x) PROVE Exclusive'
  BY <1>18 DEF Stumble, Fault
<1>19. ASSUME NEW x \in Process, PersistFails(x) PROVE Exclusive'
  BY <1>19 DEF PersistFails, Settle, Fault
<1>20. ASSUME NEW x \in Process, Crash(x) PROVE Exclusive'
  BY <1>20 DEF Crash, Fault, Swap, Swappable
<1>21. ASSUME ClearLock PROVE Exclusive'
  BY <1>21 DEF ClearLock
<1>22. ASSUME NEW v \in Value, MoveRef(v) PROVE Exclusive'
  BY <1>22 DEF MoveRef
<1>23. CASE UNCHANGED vars
  BY <1>23 DEF vars
<1> QED
  BY <1>1, <1>2, <1>3, <1>4, <1>5, <1>6, <1>7, <1>8, <1>9, <1>10, <1>11, <1>12, <1>13, <1>14, <1>15, <1>16, <1>17, <1>18, <1>19, <1>20, <1>21, <1>22, <1>23 DEF Next, Work, Fail, Enter, Decide, Observe, Change, Leave

\* With an operator who clears only an abandoned lock, two processes are never
\* inside it together and nobody is inside without it.
THEOREM LockHolds == ASSUME Cautious PROVE Spec => []LockExcludes
<1>1. Init => LockExcludes
  BY DEF Init, LockExcludes, Inside, Inner
<1>2. TypeOK /\ LockExcludes /\ [Next]_vars => LockExcludes'
  BY NextLock
<1> QED
  BY <1>1, <1>2, TypeCorrect, PTL DEF Spec

LEMMA Serial == ASSUME Cautious PROVE Spec => []Exclusive
<1>1. Init => Exclusive
  BY PromotionAssumption DEF Init, Exclusive, At
<1>2. JournalInv /\ LockExcludes /\ Exclusive /\ [Next]_vars => Exclusive'
  BY NextSerial DEF SerialInv
<1> QED
  BY <1>1, <1>2, Invariant, LockHolds, PTL DEF Spec

-------------------------------------------------------------------------------
(* The refinement of OneShotUpdate.                                        *)

LEMMA NextOneShot ==
  ASSUME JournalInv, SerialInv, [Next]_vars PROVE [OneShot!Next]_(OneShot!vars)
<1> USE DEF JournalInv, TypeOK, Served, TruthfulReceipts, SerialInv, LockExcludes, Exclusive, Inside, Inner,
            At, Goto, Resolve, TakeUp, journal, target, process, OneShot!vars
<1>1. ASSUME NEW x \in Process, NEW p \in Promotion, Request(x, p) PROVE [OneShot!Next]_(OneShot!vars)
  BY <1>1 DEF Request
<1>2. ASSUME NEW x \in Process, Acquire(x) PROVE [OneShot!Next]_(OneShot!vars)
  BY <1>2 DEF Acquire, LockFree
<1>3. ASSUME NEW x \in Process, GiveUp(x) PROVE [OneShot!Next]_(OneShot!vars)
  BY <1>3 DEF GiveUp
<1>4. ASSUME NEW x \in Process, RecordAuthority(x) PROVE [OneShot!Next]_(OneShot!vars)
  BY <1>4 DEF RecordAuthority
<1>5. ASSUME NEW x \in Process, ReadAttempt(x) PROVE [OneShot!Next]_(OneShot!vars)
  BY <1>5 DEF ReadAttempt, Recorded
<1>6. ASSUME NEW x \in Process, NEW fit \in BOOLEAN, Examine(x, fit) PROVE [OneShot!Next]_(OneShot!vars)
  BY <1>6 DEF Examine
<1>7. ASSUME NEW x \in Process, Claim(x) PROVE [OneShot!Next]_(OneShot!vars)
  BY <1>7 DEF Claim, MayUpdate
<1>8. ASSUME NEW x \in Process, ClaimRefusal(x) PROVE [OneShot!Next]_(OneShot!vars)
  BY <1>8 DEF ClaimRefusal
<1>9. ASSUME NEW x \in Process, NEW seen \in Value \cup {"unseen"}, Recover(x, seen) PROVE [OneShot!Next]_(OneShot!vars)
  BY <1>9 DEF Recover, Adopted
<1>10. ASSUME NEW x \in Process, NEW seen \in Value \cup {"unseen"}, ObserveBefore(x, seen) PROVE [OneShot!Next]_(OneShot!vars)
  BY <1>10 DEF ObserveBefore
<1>11. ASSUME NEW x \in Process, NEW seen \in Value \cup {"unseen"}, ObserveAfter(x, seen) PROVE [OneShot!Next]_(OneShot!vars)
  BY <1>11 DEF ObserveAfter
<1>12. ASSUME NEW x \in Process, Launch(x) PROVE [OneShot!Next]_(OneShot!vars)
  BY <1>12 DEF Launch
<1>13. ASSUME NEW x \in Process, CheckedOut(x) PROVE [OneShot!Next]_(OneShot!vars)
  BY <1>13 DEF CheckedOut
<1>14. ASSUME NEW x \in Process, Update(x) PROVE [OneShot!Next]_(OneShot!vars)
  <2>1. CASE UNCHANGED target
    BY <1>14, <2>1 DEF Update
  <2>2. CASE At(x, "updating") /\ Swap(serves[x])
    <3>1. serves[x] \in Promotion
      BY <2>2
    <3>2. status[serves[x]] = Null /\ serves[x] \notin applied
      BY <2>2
    <3>3. OneShot!Apply(serves[x])
      BY <1>14, <2>2, <3>2 DEF Update, Swap, Swappable, OneShot!Apply
    <3> QED
      BY <3>1, <3>3 DEF OneShot!Next
  <2> QED
    BY <1>14, <2>1, <2>2 DEF Update
<1>15. ASSUME NEW x \in Process, Persist(x) PROVE [OneShot!Next]_(OneShot!vars)
  <2>1. serves[x] \in Promotion /\ answer[x] \in Outcome
    BY <1>15 DEF Persist
  <2>2. CASE status[serves[x]] = Null
    <3>1. OneShot!Close(serves[x], answer[x])
      BY <1>15, <2>1, <2>2 DEF Persist, Settle, OneShot!Close
    <3> QED
      BY <2>1, <3>1 DEF OneShot!Next
  <2>3. CASE status[serves[x]] # Null
    BY <1>15, <2>3 DEF Persist, Settle
  <2> QED
    BY <2>2, <2>3
<1>16. ASSUME NEW x \in Process, Release(x) PROVE [OneShot!Next]_(OneShot!vars)
  BY <1>16 DEF Release
<1>17. ASSUME NEW x \in Process, Finish(x) PROVE [OneShot!Next]_(OneShot!vars)
  BY <1>17 DEF Finish
<1>18. ASSUME NEW x \in Process, Stumble(x) PROVE [OneShot!Next]_(OneShot!vars)
  BY <1>18 DEF Stumble, Fault
<1>19. ASSUME NEW x \in Process, PersistFails(x) PROVE [OneShot!Next]_(OneShot!vars)
  <2>1. serves[x] \in Promotion /\ answer[x] \in Outcome
    BY <1>19 DEF PersistFails
  <2>2. CASE status = status'
    BY <1>19, <2>2 DEF PersistFails, Fault
  <2>3. CASE status # status' /\ status[serves[x]] = Null
    <3>1. OneShot!Close(serves[x], answer[x])
      BY <1>19, <2>1, <2>3 DEF PersistFails, Fault, Settle, OneShot!Close
    <3> QED
      BY <2>1, <3>1 DEF OneShot!Next
  <2>4. CASE status[serves[x]] # Null
    BY <1>19, <2>4 DEF PersistFails, Fault, Settle
  <2> QED
    BY <2>2, <2>3, <2>4
<1>20. ASSUME NEW x \in Process, Crash(x) PROVE [OneShot!Next]_(OneShot!vars)
  <2>1. CASE UNCHANGED target
    BY <1>20, <2>1 DEF Crash, Fault
  <2>2. CASE At(x, "updating") /\ Swap(serves[x])
    <3>1. serves[x] \in Promotion
      BY <2>2
    <3>2. status[serves[x]] = Null /\ serves[x] \notin applied
      BY <2>2
    <3>3. OneShot!Apply(serves[x])
      BY <1>20, <2>2, <3>2 DEF Crash, Fault, Swap, Swappable, OneShot!Apply
    <3> QED
      BY <3>1, <3>3 DEF OneShot!Next
  <2> QED
    BY <1>20, <2>1, <2>2 DEF Crash
<1>21. ASSUME ClearLock PROVE [OneShot!Next]_(OneShot!vars)
  BY <1>21 DEF ClearLock
<1>22. ASSUME NEW v \in Value, MoveRef(v) PROVE [OneShot!Next]_(OneShot!vars)
  <2>1. OneShot!Elsewhere(v)
    BY <1>22 DEF MoveRef, OneShot!Elsewhere
  <2> QED
    BY <2>1 DEF OneShot!Next
<1>23. CASE UNCHANGED vars
  BY <1>23 DEF vars
<1> QED
  BY <1>1, <1>2, <1>3, <1>4, <1>5, <1>6, <1>7, <1>8, <1>9, <1>10, <1>11, <1>12, <1>13, <1>14, <1>15, <1>16, <1>17, <1>18, <1>19, <1>20, <1>21, <1>22, <1>23 DEF Next, Work, Fail, Enter, Decide, Observe, Change, Leave

\* Whatever happens to processes and to the ref, every promotion is a one-shot
\* swap closed by one final and truthful receipt.
THEOREM ServesOneShot == ASSUME Cautious PROVE Spec => ImplementsOneShot
<1>1. Init => OneShot!Init
  BY DEF Init, OneShot!Init
<1>2. JournalInv /\ SerialInv /\ [Next]_vars => [OneShot!Next]_(OneShot!vars)
  BY NextOneShot
<1>3. LockExcludes /\ Exclusive => SerialInv
  BY DEF SerialInv
<1> QED
  BY <1>1, <1>2, <1>3, Invariant, LockHolds, Serial, PTL DEF Spec, ImplementsOneShot, OneShot!Spec
===============================================================================
