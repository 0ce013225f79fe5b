-------------------------- MODULE LiveAuthorityProofs --------------------------
(***************************************************************************)
(* What holds of the live-run store for any number of runs, requests,      *)
(* processes, handlers and faults.  HostInv is inductive by itself,        *)
(* whatever the operator does to the guards; StoreInv also needs an        *)
(* operator who removes a guard only when nobody is inside.                *)
(***************************************************************************)
EXTENDS LiveAuthority, TLAPS

-------------------------------------------------------------------------------
(* The inductive invariant that needs nothing of the operator.             *)

\* TypeOK, in two parts.
RecordsTyped ==
  /\ intent \in [Run -> Request \cup {Null}] /\ snapshot \in [Run -> Ledger \cup {Null}]
  /\ dispatch \in [Run -> Request \cup {Null}]
  /\ response \in [Run -> Outcome \cup {Null}] /\ responseTo \in [Run -> Request \cup {Null}]
  /\ claim \subseteq Run /\ runGuard \subseteq Run /\ publicationGuard \in BOOLEAN
  /\ ledgerFile \in Ledger
  /\ lease \in BOOLEAN /\ worktree \subseteq Run /\ launches \in [Run -> Nat]
  /\ active \in [Process -> SUBSET Run] /\ faults \in Nat
HandlersTyped ==
  /\ phase \in [Handler -> Phase] /\ job \in [Handler -> Job \cup {Null}]
  /\ serves \in [Handler -> Request \cup {Null}] /\ prepared \in [Handler -> Outcome \cup {Null}]
  /\ evidence \in [Handler -> BOOLEAN] /\ answer \in [Handler -> Answer \cup {Null}]
  /\ late \in [Handler -> BOOLEAN]

\* A handler at work has a request, and only a response in hand is written.
Serving ==
  \A h \in Handler :
    /\ phase[h] # "idle" => serves[h] \in Request /\ job[h] \in Job
    /\ At(h, "responding") => prepared[h] \in Outcome

\* A run is started under its claim, by the one handler that made it.
OneClaimant ==
  /\ \A r \in Run : launches[r] = 0 \/ (launches[r] = 1 /\ r \in claim)
  /\ \A h \in Handler : At(h, "claimed") => Of(h) \in claim /\ launches[Of(h)] = 0
  /\ \A h, g \in Handler : At(h, "claimed") /\ At(g, "claimed") /\ Of(h) = Of(g) => h = g

\* The worktree has one tenant, who finds it empty, and no guest without lease.
Tenant(h) == phase[h] \in {"leased", "vouched", "claimed", "working"}
OneTenant ==
  /\ worktree # {} => lease
  /\ \A h \in Handler : Tenant(h) => lease
  /\ \A h, g \in Handler : Tenant(h) /\ Tenant(g) => h = g
  /\ \A h \in Handler : Tenant(h) /\ ~At(h, "working") => worktree = {}
  /\ \A h \in Handler : At(h, "working") => worktree \subseteq {Of(h)}
  /\ WorktreeExclusive

\* Who asked after a start finds the evidence of it.
Informed ==
  /\ \A h \in Handler : phase[h] # "idle" /\ late[h] => launches[Of(h)] > 0
  /\ \A h \in Handler : job[h] = "status" /\ late[h] =>
       answer[h] # "not_started" /\ (At(h, "judging") => evidence[h])

HostInv == TypeOK /\ Serving /\ OneClaimant /\ OneTenant /\ Informed

LEMMA NextRecords ==
  ASSUME Serving, TypeOK, [Next]_vars PROVE RecordsTyped'
<1>0. ForRun \in [Request -> Run] /\ Document \in [Request -> Ledger]
  BY LiveAssumption
<1> USE <1>0
    DEF At, Goto, Reply, Conclude, Of, records, guards, host, handler, TypeOK, RecordsTyped,
        Serving, Outcome
<1>1. ASSUME NEW h \in Handler, NEW j \in Job, NEW q \in Request, Ask(h, j, q) PROVE RecordsTyped'
  BY <1>1 DEF Ask
<1>2. ASSUME NEW h \in Handler, Enter(h) PROVE RecordsTyped'
  <2>1. CASE Reject(h)
    BY <2>1 DEF Reject
  <2>2. CASE Arrive(h)
    BY <2>2 DEF Arrive
  <2>3. CASE EnterPublication(h)
    BY <2>3 DEF EnterPublication
  <2>4. CASE EnterRun(h)
    <3>1. Of(h) \in Run
      BY <2>4 DEF EnterRun
    <3> QED
      BY <2>4, <3>1 DEF EnterRun
  <2> QED
    BY <1>2, <2>1, <2>2, <2>3, <2>4 DEF Enter
<1>3. ASSUME NEW h \in Handler, CheckIntent(h) PROVE RecordsTyped'
  BY <1>3 DEF CheckIntent, Matches
<1>4. ASSUME NEW h \in Handler, EnsureSnapshot(h) PROVE RecordsTyped'
  <2>1. serves[h] \in Request /\ Of(h) \in Run /\ Document[serves[h]] \in Ledger
    BY <1>4 DEF EnsureSnapshot
  <2>2. snapshot' \in [Run -> Ledger \cup {Null}]
    BY <1>4, <2>1 DEF EnsureSnapshot
  <2> QED
    BY <1>4, <2>2 DEF EnsureSnapshot
<1>5. ASSUME NEW h \in Handler, Publish(h) PROVE RecordsTyped'
  BY <1>5 DEF Publish
<1>6. ASSUME NEW h \in Handler, Verify(h) PROVE RecordsTyped'
  BY <1>6 DEF Verify
<1>7. ASSUME NEW h \in Handler, RecordIntent(h) PROVE RecordsTyped'
  BY <1>7 DEF RecordIntent
<1>8. ASSUME NEW h \in Handler, CheckDispatch(h) PROVE RecordsTyped'
  BY <1>8 DEF CheckDispatch
<1>9. ASSUME NEW h \in Handler, Mark(h) PROVE RecordsTyped'
  BY <1>9 DEF Mark
<1>10. ASSUME NEW h \in Handler, Activate(h) PROVE RecordsTyped'
  <2>1. Of(h) \in Run
    BY <1>10 DEF Activate
  <2>2. active' = [active EXCEPT ![Home[h]] = active[Home[h]] \cup {Of(h)}]
    BY <1>10 DEF Activate
  <2>3. active' \in [Process -> SUBSET Run]
    BY <2>1, <2>2
  <2> QED
    BY <1>10, <2>3 DEF Activate
<1>11. ASSUME NEW h \in Handler, WriteResponse(h) PROVE RecordsTyped'
  BY <1>11 DEF WriteResponse
<1>12. ASSUME NEW h \in Handler, Deactivate(h) PROVE RecordsTyped'
  BY <1>12 DEF Deactivate
<1>13. ASSUME NEW h \in Handler, AcquireLease(h) PROVE RecordsTyped'
  BY <1>13 DEF AcquireLease
<1>14. ASSUME NEW h \in Handler, Vouch(h) PROVE RecordsTyped'
  BY <1>14 DEF Vouch
<1>15. ASSUME NEW h \in Handler, Claim(h) PROVE RecordsTyped'
  BY <1>15 DEF Claim, Unclaimed
<1>16. ASSUME NEW h \in Handler, Start(h) PROVE RecordsTyped'
  BY <1>16 DEF Start
<1>17. ASSUME NEW h \in Handler, Refuse(h) PROVE RecordsTyped'
  BY <1>17 DEF Refuse
<1>18. ASSUME NEW h \in Handler, Timeout(h) PROVE RecordsTyped'
  BY <1>18 DEF Timeout, Retained
<1>19. ASSUME NEW h \in Handler, Break(h) PROVE RecordsTyped'
  BY <1>19 DEF Break
<1>20. ASSUME NEW h \in Handler, NEW report \in Report, End(h, report) PROVE RecordsTyped'
  BY <1>20 DEF End, Ended
<1>21. ASSUME NEW h \in Handler, Inform(h) PROVE RecordsTyped'
  BY <1>21 DEF Inform, ReadRecords, Probe, Judge
<1>22. ASSUME NEW h \in Handler, Leave(h) PROVE RecordsTyped'
  BY <1>22 DEF Leave, LeaveRun, LeavePublication, Finish
<1>23. ASSUME NEW h \in Handler, Stumble(h) PROVE RecordsTyped'
  <2>1. serves[h] \in Request /\ Of(h) \in Run /\ Document[serves[h]] \in Ledger
    BY <1>23 DEF Stumble
  <2>2. /\ intent' \in [Run -> Request \cup {Null}] /\ dispatch' \in [Run -> Request \cup {Null}]
        /\ snapshot' \in [Run -> Ledger \cup {Null}] /\ ledgerFile' \in Ledger
        /\ UNCHANGED <<response, responseTo, claim>>
    BY <1>23, <2>1 DEF Stumble
  <2> QED
    BY <1>23, <2>2 DEF Stumble, Fault
<1>24. ASSUME NEW h \in Handler, ResponseFails(h) PROVE RecordsTyped'
  <2>1. serves[h] \in Request /\ prepared[h] \in Outcome
    BY <1>24 DEF ResponseFails
  <2>2. response' \in [Run -> Outcome \cup {Null}] /\ responseTo' \in [Run -> Request \cup {Null}]
    BY <1>24, <2>1 DEF ResponseFails
  <2> QED
    BY <1>24, <2>2 DEF ResponseFails, Fault
<1>25. ASSUME NEW h \in Handler, PreflightFails(h) PROVE RecordsTyped'
  <2>1. serves[h] \in Request
    BY <1>25 DEF PreflightFails
  <2>2. lease' \in BOOLEAN /\ claim' \subseteq Run
    BY <1>25, <2>1 DEF PreflightFails
  <2> QED
    BY <1>25, <2>2 DEF PreflightFails, Fault
<1>26. ASSUME NEW p \in Process, Crash(p) PROVE RecordsTyped'
  BY <1>26 DEF Crash, Fault
<1>27. ASSUME NEW r \in Run, Quiesce(r) PROVE RecordsTyped'
  BY <1>27 DEF Quiesce
<1>28. ASSUME Operator PROVE RecordsTyped'
  BY <1>28 DEF Operator, ClearPublication, ClearRun, ClearLease
<1>29. CASE UNCHANGED vars
  BY <1>29 DEF vars
<1> QED
  BY <1>1, <1>2, <1>3, <1>4, <1>5, <1>6, <1>7, <1>8, <1>9, <1>10, <1>11, <1>12, <1>13,
     <1>14, <1>15, <1>16, <1>17, <1>18, <1>19, <1>20, <1>21, <1>22, <1>23, <1>24, <1>25,
     <1>26, <1>27, <1>28, <1>29 DEF Next, Work, Fail, Record, Dispatch, Execute

LEMMA NextHandlers ==
  ASSUME TypeOK, [Next]_vars PROVE HandlersTyped'
<1> USE DEF At, Goto, Reply, Conclude, Of, records, guards, host, handler, TypeOK,
            HandlersTyped, Phase, Inner, Outer, Running, Job, Answer, Outcome
<1>1. ASSUME NEW h \in Handler, NEW j \in Job, NEW q \in Request, Ask(h, j, q) PROVE HandlersTyped'
  BY <1>1 DEF Ask
<1>2. ASSUME NEW h \in Handler, Reject(h) PROVE HandlersTyped'
  BY <1>2 DEF Reject
<1>3. ASSUME NEW h \in Handler, Arrive(h) PROVE HandlersTyped'
  <2>1. CASE job[h] = "dispatch" /\ Completed(h)
    BY <1>3, <2>1 DEF Arrive
  <2>2. CASE ~(job[h] = "dispatch" /\ Completed(h))
    BY <1>3, <2>2 DEF Arrive
  <2> QED
    BY <2>1, <2>2
<1>4. ASSUME NEW h \in Handler, EnterPublication(h) PROVE HandlersTyped'
  BY <1>4 DEF EnterPublication, PublicationFree
<1>5. ASSUME NEW h \in Handler, EnterRun(h) PROVE HandlersTyped'
  BY <1>5 DEF EnterRun
<1>6. ASSUME NEW h \in Handler, CheckIntent(h) PROVE HandlersTyped'
  BY <1>6 DEF CheckIntent, Matches
<1>7. ASSUME NEW h \in Handler, EnsureSnapshot(h) PROVE HandlersTyped'
  <2>1. CASE Adoptable(h)
    BY <1>7, <2>1 DEF EnsureSnapshot
  <2>2. CASE ~Adoptable(h)
    BY <1>7, <2>2 DEF EnsureSnapshot
  <2> QED
    BY <2>1, <2>2
<1>8. ASSUME NEW h \in Handler, Publish(h) PROVE HandlersTyped'
  BY <1>8 DEF Publish
<1>9. ASSUME NEW h \in Handler, Verify(h) PROVE HandlersTyped'
  BY <1>9 DEF Verify
<1>10. ASSUME NEW h \in Handler, RecordIntent(h) PROVE HandlersTyped'
  BY <1>10 DEF RecordIntent
<1>11. ASSUME NEW h \in Handler, CheckDispatch(h) PROVE HandlersTyped'
  BY <1>11 DEF CheckDispatch
<1>12. ASSUME NEW h \in Handler, Mark(h) PROVE HandlersTyped'
  BY <1>12 DEF Mark
<1>13. ASSUME NEW h \in Handler, Activate(h) PROVE HandlersTyped'
  BY <1>13 DEF Activate
<1>14. ASSUME NEW h \in Handler, WriteResponse(h) PROVE HandlersTyped'
  BY <1>14 DEF WriteResponse
<1>15. ASSUME NEW h \in Handler, Deactivate(h) PROVE HandlersTyped'
  BY <1>15 DEF Deactivate
<1>16. ASSUME NEW h \in Handler, AcquireLease(h) PROVE HandlersTyped'
  BY <1>16 DEF AcquireLease
<1>17. ASSUME NEW h \in Handler, Vouch(h) PROVE HandlersTyped'
  BY <1>17 DEF Vouch
<1>18. ASSUME NEW h \in Handler, Claim(h) PROVE HandlersTyped'
  BY <1>18 DEF Claim, Unclaimed
<1>19. ASSUME NEW h \in Handler, Start(h) PROVE HandlersTyped'
  BY <1>19 DEF Start
<1>20. ASSUME NEW h \in Handler, Refuse(h) PROVE HandlersTyped'
  BY <1>20 DEF Refuse
<1>21. ASSUME NEW h \in Handler, Timeout(h) PROVE HandlersTyped'
  BY <1>21 DEF Timeout, Retained
<1>22. ASSUME NEW h \in Handler, Break(h) PROVE HandlersTyped'
  BY <1>22 DEF Break
<1>23. ASSUME NEW h \in Handler, NEW report \in Report, End(h, report) PROVE HandlersTyped'
  BY <1>23 DEF End, Ended
<1>24. ASSUME NEW h \in Handler, ReadRecords(h) PROVE HandlersTyped'
  <2>1. CASE Completed(h)
    BY <1>24, <2>1 DEF ReadRecords
  <2>2. CASE ~Completed(h)
    <3>1. evidence' = [evidence EXCEPT ![h] = response[Of(h)] # Null]
      BY <1>24, <2>2 DEF ReadRecords
    <3>2. evidence' \in [Handler -> BOOLEAN]
      BY <3>1, Zenon
    <3> QED
      BY <1>24, <2>2, <3>2 DEF ReadRecords
  <2> QED
    BY <2>1, <2>2
<1>25. ASSUME NEW h \in Handler, Probe(h) PROVE HandlersTyped'
  <2>1. CASE At(h, "probing")
    <3>1. evidence' = [evidence EXCEPT ![h] = evidence[h] \/ Executing(h)]
      BY <1>25, <2>1 DEF Probe
    <3>2. evidence' \in [Handler -> BOOLEAN]
      BY <3>1, Zenon
    <3> QED
      BY <1>25, <2>1, <3>2 DEF Probe
  <2>2. CASE At(h, "doubting")
    <3>1. answer' = [answer EXCEPT ![h] = IF evidence[h] \/ Executing(h) THEN "outcome_unknown" ELSE "not_started"]
      BY <1>25, <2>2 DEF Probe
    <3>2. answer' \in [Handler -> Answer \cup {Null}]
      BY <3>1
    <3> QED
      BY <1>25, <2>2, <3>2 DEF Probe
  <2> QED
    BY <1>25, <2>1, <2>2 DEF Probe
<1>26. ASSUME NEW h \in Handler, Judge(h) PROVE HandlersTyped'
  BY <1>26 DEF Judge
<1>27. ASSUME NEW h \in Handler, Leave(h) PROVE HandlersTyped'
  BY <1>27 DEF Leave, LeaveRun, LeavePublication, Finish
<1>28. ASSUME NEW h \in Handler, Stumble(h) PROVE HandlersTyped'
  BY <1>28 DEF Stumble, Fault
<1>29. ASSUME NEW h \in Handler, ResponseFails(h) PROVE HandlersTyped'
  BY <1>29 DEF ResponseFails, Fault
<1>30. ASSUME NEW h \in Handler, PreflightFails(h) PROVE HandlersTyped'
  BY <1>30 DEF PreflightFails, Fault
<1>31. ASSUME NEW p \in Process, Crash(p) PROVE HandlersTyped'
  BY <1>31 DEF Crash, Fault
<1>32. ASSUME NEW r \in Run, Quiesce(r) PROVE HandlersTyped'
  BY <1>32 DEF Quiesce
<1>33. ASSUME Operator PROVE HandlersTyped'
  BY <1>33 DEF Operator, ClearPublication, ClearRun, ClearLease
<1>34. CASE UNCHANGED vars
  BY <1>34 DEF vars
<1> QED
  BY <1>1, <1>2, <1>3, <1>4, <1>5, <1>6, <1>7, <1>8, <1>9, <1>10, <1>11, <1>12, <1>13,
     <1>14, <1>15, <1>16, <1>17, <1>18, <1>19, <1>20, <1>21, <1>22, <1>23, <1>24, <1>25,
     <1>26, <1>27, <1>28, <1>29, <1>30, <1>31, <1>32, <1>33, <1>34 DEF Next, Work, Fail,
     Enter, Record, Dispatch, Execute, Inform

LEMMA NextServing ==
  ASSUME TypeOK, Serving, [Next]_vars PROVE Serving'
<1> USE DEF At, Goto, Reply, Conclude, Of, records, guards, host, handler, TypeOK, Serving,
            Running
<1>1. ASSUME NEW h \in Handler, NEW j \in Job, NEW q \in Request, Ask(h, j, q) PROVE Serving'
  BY <1>1 DEF Ask
<1>2. ASSUME NEW h \in Handler, Enter(h) PROVE Serving'
  BY <1>2 DEF Enter, Reject, Arrive, EnterPublication, PublicationFree, EnterRun
<1>3. ASSUME NEW h \in Handler, Record(h) PROVE Serving'
  BY <1>3 DEF Record, CheckIntent, Matches, EnsureSnapshot, Adoptable, Publish, Verify, RecordIntent
<1>4. ASSUME NEW h \in Handler, Dispatch(h) PROVE Serving'
  BY <1>4 DEF Dispatch, CheckDispatch, Mark, Activate, WriteResponse, Deactivate
<1>5. ASSUME NEW h \in Handler, Execute(h) PROVE Serving'
  BY <1>5 DEF Execute, AcquireLease, Vouch, Claim, Unclaimed, Start, Refuse, Outcome, Timeout, Retained, Break, End, Ended
<1>6. ASSUME NEW h \in Handler, Inform(h) PROVE Serving'
  BY <1>6 DEF Inform, ReadRecords, Probe, Judge
<1>7. ASSUME NEW h \in Handler, Leave(h) PROVE Serving'
  BY <1>7 DEF Leave, LeaveRun, LeavePublication, Finish
<1>8. ASSUME NEW h \in Handler, Fail(h) PROVE Serving'
  BY <1>8 DEF Fail, Stumble, Fault, ResponseFails, PreflightFails, Outcome
<1>9. ASSUME NEW p \in Process, Crash(p) PROVE Serving'
  BY <1>9 DEF Crash, Fault
<1>10. ASSUME NEW r \in Run, Quiesce(r) PROVE Serving'
  BY <1>10 DEF Quiesce
<1>11. ASSUME Operator PROVE Serving'
  BY <1>11 DEF Operator, ClearPublication, ClearRun, ClearLease
<1>12. CASE UNCHANGED vars
  BY <1>12 DEF vars
<1> QED
  BY <1>1, <1>2, <1>3, <1>4, <1>5, <1>6, <1>7, <1>8, <1>9, <1>10, <1>11, <1>12 DEF Next,
     Work

\* A step that claims and starts nothing leaves every run its claimant.
LEMMA ClaimantKept ==
  ASSUME OneClaimant, UNCHANGED <<serves, claim, launches>>,
         \A h \in Handler : At(h, "claimed")' => At(h, "claimed")
  PROVE  OneClaimant'
BY DEF OneClaimant, At, Of

LEMMA NextClaimant ==
  ASSUME TypeOK, Serving, OneClaimant, [Next]_vars PROVE OneClaimant'
<1> USE LiveAssumption
    DEF TypeOK, At, Goto, Reply, Conclude, Of, records, guards, host, handler, Serving,
        OneClaimant, Running
<1>1. ASSUME NEW h \in Handler, NEW j \in Job, NEW q \in Request, Ask(h, j, q) PROVE OneClaimant'
  BY <1>1 DEF Ask
<1>2. ASSUME NEW h \in Handler, Enter(h) PROVE OneClaimant'
  BY <1>2 DEF Enter, Reject, Arrive, EnterPublication, PublicationFree, EnterRun
<1>3. ASSUME NEW h \in Handler, Record(h) PROVE OneClaimant'
  <2>1. CASE CheckIntent(h)
    <3>1. /\ \A g \in Handler : g # h => phase'[g] = phase[g]
          /\ phase'[h] \in {"leaving", "snapshotting"}
      <4>1. phase' = [phase EXCEPT ![h] = "leaving"] \/ phase' = [phase EXCEPT ![h] = "snapshotting"]
        BY <2>1 DEF CheckIntent
      <4> QED
        BY <4>1
    <3>2. UNCHANGED <<serves, claim, launches>>
      BY <2>1 DEF CheckIntent
    <3>3. \A g \in Handler : At(g, "claimed")' => At(g, "claimed")
      BY <3>1
    <3> QED
      BY <3>2, <3>3, ClaimantKept
  <2>2. CASE EnsureSnapshot(h)
    BY <2>2 DEF EnsureSnapshot
  <2>3. CASE Publish(h)
    BY <2>3 DEF Publish
  <2>4. CASE Verify(h)
    <3>1. /\ \A g \in Handler : g # h => phase'[g] = phase[g]
          /\ phase'[h] \in {"leaving", "recording"}
      <4>1. phase' = [phase EXCEPT ![h] = "leaving"] \/ phase' = [phase EXCEPT ![h] = "recording"]
        BY <2>4 DEF Verify
      <4> QED
        BY <4>1
    <3>2. UNCHANGED <<serves, claim, launches>>
      BY <2>4 DEF Verify
    <3>3. \A g \in Handler : At(g, "claimed")' => At(g, "claimed")
      BY <3>1
    <3> QED
      BY <3>2, <3>3, ClaimantKept
  <2>5. CASE RecordIntent(h)
    BY <2>5 DEF RecordIntent
  <2> QED
    BY <1>3, <2>1, <2>2, <2>3, <2>4, <2>5 DEF Record
<1>4. ASSUME NEW h \in Handler, Dispatch(h) PROVE OneClaimant'
  <2>1. CASE CheckDispatch(h)
    BY <2>1 DEF CheckDispatch
  <2>2. CASE Mark(h)
    BY <2>2 DEF Mark
  <2>3. CASE Activate(h)
    BY <2>3 DEF Activate
  <2>4. CASE WriteResponse(h)
    BY <2>4 DEF WriteResponse
  <2>5. CASE Deactivate(h)
    BY <2>5 DEF Deactivate
  <2> QED
    BY <1>4, <2>1, <2>2, <2>3, <2>4, <2>5 DEF Dispatch
<1>5. ASSUME NEW h \in Handler, AcquireLease(h) PROVE OneClaimant'
  BY <1>5 DEF AcquireLease
<1>6. ASSUME NEW h \in Handler, Vouch(h) PROVE OneClaimant'
  BY <1>6 DEF Vouch
<1>7. ASSUME NEW h \in Handler, Claim(h) PROVE OneClaimant'
  BY <1>7 DEF Claim, Unclaimed
<1>8. ASSUME NEW h \in Handler, Start(h) PROVE OneClaimant'
  BY <1>8 DEF Start
<1>9. ASSUME NEW h \in Handler, Refuse(h) PROVE OneClaimant'
  BY <1>9 DEF Refuse
<1>10. ASSUME NEW h \in Handler, Timeout(h) PROVE OneClaimant'
  BY <1>10 DEF Timeout, Retained
<1>11. ASSUME NEW h \in Handler, Break(h) PROVE OneClaimant'
  BY <1>11 DEF Break
<1>12. ASSUME NEW h \in Handler, NEW report \in Report, End(h, report) PROVE OneClaimant'
  BY <1>12 DEF End, Ended
<1>13. ASSUME NEW h \in Handler, Inform(h) PROVE OneClaimant'
  BY <1>13 DEF Inform, ReadRecords, Probe, Judge
<1>14. ASSUME NEW h \in Handler, LeaveRun(h) PROVE OneClaimant'
  BY <1>14 DEF LeaveRun
<1>15. ASSUME NEW h \in Handler, LeavePublication(h) PROVE OneClaimant'
  BY <1>15 DEF LeavePublication
<1>16. ASSUME NEW h \in Handler, Finish(h) PROVE OneClaimant'
  BY <1>16 DEF Finish
<1>17. ASSUME NEW h \in Handler, Stumble(h) PROVE OneClaimant'
  BY <1>17 DEF Stumble, Fault
<1>18. ASSUME NEW h \in Handler, ResponseFails(h) PROVE OneClaimant'
  BY <1>18 DEF ResponseFails, Fault
<1>19. ASSUME NEW h \in Handler, PreflightFails(h) PROVE OneClaimant'
  BY <1>19 DEF PreflightFails, Fault
<1>20. ASSUME NEW p \in Process, Crash(p) PROVE OneClaimant'
  BY <1>20 DEF Crash, Fault
<1>21. ASSUME NEW r \in Run, Quiesce(r) PROVE OneClaimant'
  BY <1>21 DEF Quiesce
<1>22. ASSUME Operator PROVE OneClaimant'
  BY <1>22 DEF Operator, ClearPublication, ClearRun, ClearLease
<1>23. CASE UNCHANGED vars
  BY <1>23 DEF vars
<1> QED
  BY <1>1, <1>2, <1>3, <1>4, <1>5, <1>6, <1>7, <1>8, <1>9, <1>10, <1>11, <1>12, <1>13,
     <1>14, <1>15, <1>16, <1>17, <1>18, <1>19, <1>20, <1>21, <1>22, <1>23 DEF Next, Work,
     Fail, Execute, Leave

LEMMA NextTenant ==
  ASSUME phase \in [Handler -> Phase], lease \in BOOLEAN, OneTenant, [Next]_vars PROVE OneTenant'
<1> USE DEF At, Goto, Reply, Conclude, Of, records, guards, host, handler, OneTenant, Tenant,
            WorktreeExclusive, Running
<1>1. ASSUME NEW h \in Handler, NEW j \in Job, NEW q \in Request, Ask(h, j, q) PROVE OneTenant'
  BY <1>1 DEF Ask
<1>2. ASSUME NEW h \in Handler, Enter(h) PROVE OneTenant'
  BY <1>2 DEF Enter, Reject, Arrive, EnterPublication, PublicationFree, EnterRun
<1>3. ASSUME NEW h \in Handler, Record(h) PROVE OneTenant'
  BY <1>3 DEF Record, CheckIntent, Matches, EnsureSnapshot, Adoptable, Publish, Verify, RecordIntent
<1>4. ASSUME NEW h \in Handler, Dispatch(h) PROVE OneTenant'
  BY <1>4 DEF Dispatch, CheckDispatch, Mark, Activate, WriteResponse, Deactivate
<1>5. ASSUME NEW h \in Handler, AcquireLease(h) PROVE OneTenant'
  BY <1>5 DEF AcquireLease
<1>6. ASSUME NEW h \in Handler, Vouch(h) PROVE OneTenant'
  BY <1>6 DEF Vouch
<1>7. ASSUME NEW h \in Handler, Claim(h) PROVE OneTenant'
  BY <1>7 DEF Claim, Unclaimed
<1>8. ASSUME NEW h \in Handler, Start(h) PROVE OneTenant'
  BY <1>8 DEF Start
<1>9. ASSUME NEW h \in Handler, Refuse(h) PROVE OneTenant'
  BY <1>9 DEF Refuse
<1>10. ASSUME NEW h \in Handler, Timeout(h) PROVE OneTenant'
  BY <1>10 DEF Timeout, Retained
<1>11. ASSUME NEW h \in Handler, Break(h) PROVE OneTenant'
  BY <1>11 DEF Break
<1>12. ASSUME NEW h \in Handler, NEW report \in Report, End(h, report) PROVE OneTenant'
  BY <1>12 DEF End, Ended
<1>13. ASSUME NEW h \in Handler, Inform(h) PROVE OneTenant'
  BY <1>13 DEF Inform, ReadRecords, Probe, Judge
<1>14. ASSUME NEW h \in Handler, LeaveRun(h) PROVE OneTenant'
  BY <1>14 DEF LeaveRun
<1>15. ASSUME NEW h \in Handler, LeavePublication(h) PROVE OneTenant'
  BY <1>15 DEF LeavePublication
<1>16. ASSUME NEW h \in Handler, Finish(h) PROVE OneTenant'
  BY <1>16 DEF Finish
<1>17. ASSUME NEW h \in Handler, Stumble(h) PROVE OneTenant'
  BY <1>17 DEF Stumble, Fault
<1>18. ASSUME NEW h \in Handler, ResponseFails(h) PROVE OneTenant'
  BY <1>18 DEF ResponseFails, Fault
<1>19. ASSUME NEW h \in Handler, PreflightFails(h) PROVE OneTenant'
  BY <1>19 DEF PreflightFails, Fault
<1>20. ASSUME NEW p \in Process, Crash(p) PROVE OneTenant'
  BY <1>20 DEF Crash, Fault
<1>21. ASSUME NEW r \in Run, Quiesce(r) PROVE OneTenant'
  BY <1>21 DEF Quiesce
<1>22. ASSUME ClearPublication PROVE OneTenant'
  BY <1>22 DEF ClearPublication
<1>23. ASSUME NEW r \in Run, ClearRun(r) PROVE OneTenant'
  BY <1>23 DEF ClearRun
<1>24. ASSUME ClearLease PROVE OneTenant'
  BY <1>24 DEF ClearLease
<1>25. CASE UNCHANGED vars
  BY <1>25 DEF vars
<1> QED
  BY <1>1, <1>2, <1>3, <1>4, <1>5, <1>6, <1>7, <1>8, <1>9, <1>10, <1>11, <1>12, <1>13,
     <1>14, <1>15, <1>16, <1>17, <1>18, <1>19, <1>20, <1>21, <1>22, <1>23, <1>24, <1>25 DEF
     Next, Work, Fail, Execute, Leave, Operator

LEMMA NextInformed ==
  ASSUME TypeOK, Serving, OneClaimant, Informed, [Next]_vars PROVE Informed'
<1> USE LiveAssumption
    DEF TypeOK, At, Goto, Reply, Conclude, Of, records, guards, host, handler, Serving,
        OneClaimant, Informed, Running
<1>1. ASSUME NEW h \in Handler, NEW j \in Job, NEW q \in Request, Ask(h, j, q) PROVE Informed'
  <2>1. ForRun[q] \in Run /\ launches' = launches
    BY <1>1 DEF Ask
  <2>2. late' = [late EXCEPT ![h] = launches[ForRun[q]] > 0]
    BY <1>1 DEF Ask
  <2>3. late'[h] => launches[ForRun[q]] > 0
    BY <2>2, ZenonT(40)
  <2>4. \A g \in Handler : g # h => late'[g] = late[g]
    BY <2>2, Zenon
  <2>5. phase'[h] = "arrived" /\ serves'[h] = q /\ answer'[h] = Null
    BY <1>1 DEF Ask
  <2>6. \A g \in Handler : g # h =>
          /\ phase'[g] = phase[g] /\ serves'[g] = serves[g] /\ job'[g] = job[g]
          /\ answer'[g] = answer[g] /\ evidence'[g] = evidence[g]
    BY <1>1 DEF Ask
  <2>7. ASSUME NEW g \in Handler, phase'[g] # "idle", late'[g] PROVE launches'[ForRun[serves'[g]]] > 0
    <3>1. CASE g = h
      BY <2>1, <2>3, <2>5, <2>7, <3>1
    <3>2. CASE g # h
      BY <2>1, <2>4, <2>6, <2>7, <3>2
    <3> QED
      BY <3>1, <3>2
  <2>8. ASSUME NEW g \in Handler, job'[g] = "status", late'[g]
        PROVE answer'[g] # "not_started" /\ (phase'[g] = "judging" => evidence'[g])
    <3>1. CASE g = h
      BY <2>5, <3>1, LiveAssumption DEF Answer
    <3>2. CASE g # h
      BY <2>4, <2>6, <2>8, <3>2
    <3> QED
      BY <3>1, <3>2
  <2> QED
    BY <2>7, <2>8
<1>2. ASSUME NEW h \in Handler, Enter(h) PROVE Informed'
  BY <1>2 DEF Enter, Reject, Arrive, EnterPublication, PublicationFree, EnterRun
<1>3. ASSUME NEW h \in Handler, Record(h) PROVE Informed'
  BY <1>3 DEF Record, CheckIntent, Matches, EnsureSnapshot, Adoptable, Publish, Verify, RecordIntent
<1>4. ASSUME NEW h \in Handler, Dispatch(h) PROVE Informed'
  BY <1>4 DEF Dispatch, CheckDispatch, Mark, Activate, WriteResponse, Deactivate
<1>5. ASSUME NEW h \in Handler, AcquireLease(h) PROVE Informed'
  BY <1>5 DEF AcquireLease
<1>6. ASSUME NEW h \in Handler, Vouch(h) PROVE Informed'
  BY <1>6 DEF Vouch
<1>7. ASSUME NEW h \in Handler, Claim(h) PROVE Informed'
  BY <1>7 DEF Claim, Unclaimed
<1>8. ASSUME NEW h \in Handler, Start(h) PROVE Informed'
  BY <1>8 DEF Start
<1>9. ASSUME NEW h \in Handler, Refuse(h) PROVE Informed'
  BY <1>9 DEF Refuse
<1>10. ASSUME NEW h \in Handler, Timeout(h) PROVE Informed'
  BY <1>10 DEF Timeout, Retained
<1>11. ASSUME NEW h \in Handler, Break(h) PROVE Informed'
  BY <1>11 DEF Break
<1>12. ASSUME NEW h \in Handler, NEW report \in Report, End(h, report) PROVE Informed'
  BY <1>12 DEF End, Ended
<1>13. ASSUME NEW h \in Handler, ReadRecords(h) PROVE Informed'
  <2>1. /\ \A g \in Handler : g # h => phase'[g] = phase[g] /\ evidence'[g] = evidence[g]
                                         /\ answer'[g] = answer[g]
        /\ UNCHANGED <<serves, job, late, launches>>
    BY <1>13 DEF ReadRecords
  <2>2. phase'[h] # "judging" /\ (answer'[h] = "not_started" => answer[h] = "not_started")
    <3>1. phase'[h] \in {"answered", "probing", "doubting"}
      BY <1>13 DEF ReadRecords
    <3>2. answer'[h] \in {answer[h], "completed"}
      BY <1>13 DEF ReadRecords
    <3> QED
      BY <3>1, <3>2
  <2>3. phase[h] = "arrived"
    BY <1>13 DEF ReadRecords
  <2> QED
    BY <2>1, <2>2, <2>3
<1>14. ASSUME NEW h \in Handler, Probe(h) PROVE Informed'
  BY <1>14 DEF Probe, Executing
<1>15. ASSUME NEW h \in Handler, Judge(h) PROVE Informed'
  BY <1>15 DEF Judge, Dispatching
<1>16. ASSUME NEW h \in Handler, LeaveRun(h) PROVE Informed'
  BY <1>16 DEF LeaveRun
<1>17. ASSUME NEW h \in Handler, LeavePublication(h) PROVE Informed'
  BY <1>17 DEF LeavePublication
<1>18. ASSUME NEW h \in Handler, Finish(h) PROVE Informed'
  BY <1>18 DEF Finish
<1>19. ASSUME NEW h \in Handler, Stumble(h) PROVE Informed'
  BY <1>19 DEF Stumble, Fault
<1>20. ASSUME NEW h \in Handler, ResponseFails(h) PROVE Informed'
  BY <1>20 DEF ResponseFails, Fault
<1>21. ASSUME NEW h \in Handler, PreflightFails(h) PROVE Informed'
  BY <1>21 DEF PreflightFails, Fault
<1>22. ASSUME NEW p \in Process, Crash(p) PROVE Informed'
  BY <1>22 DEF Crash, Fault
<1>23. ASSUME NEW r \in Run, Quiesce(r) PROVE Informed'
  BY <1>23 DEF Quiesce
<1>24. ASSUME Operator PROVE Informed'
  BY <1>24 DEF Operator, ClearPublication, ClearRun, ClearLease
<1>25. CASE UNCHANGED vars
  BY <1>25 DEF vars
<1> QED
  BY <1>1, <1>2, <1>3, <1>4, <1>5, <1>6, <1>7, <1>8, <1>9, <1>10, <1>11, <1>12, <1>13,
     <1>14, <1>15, <1>16, <1>17, <1>18, <1>19, <1>20, <1>21, <1>22, <1>23, <1>24, <1>25 DEF
     Next, Work, Fail, Execute, Inform, Leave

LEMMA InitHost == Init => HostInv
<1> SUFFICES ASSUME Init PROVE HostInv
  OBVIOUS
<1>1. TypeOK /\ Serving
  BY LiveAssumption DEF Init, TypeOK, Serving, Phase, At
<1>2. OneClaimant
  BY DEF Init, OneClaimant, At
<1>3. OneTenant
  BY DEF Init, OneTenant, Tenant, WorktreeExclusive, At
<1>4. Informed
  BY DEF Init, Informed, At
<1> QED
  BY <1>1, <1>2, <1>3, <1>4 DEF HostInv

\* HostInv holds in every reachable state, whoever deletes a guard when.
THEOREM Invariant == Spec => []HostInv
<1>1. Init => HostInv
  BY InitHost
<1>2. HostInv /\ [Next]_vars => HostInv'
  <2> SUFFICES ASSUME HostInv, [Next]_vars PROVE HostInv'
    OBVIOUS
  <2>1. TypeOK /\ Serving /\ OneClaimant /\ OneTenant /\ Informed
    BY DEF HostInv
  <2>2. RecordsTyped' /\ HandlersTyped'
    BY <2>1, NextRecords, NextHandlers
  <2>3. TypeOK'
    BY <2>2 DEF TypeOK, RecordsTyped, HandlersTyped
  <2>4. phase \in [Handler -> Phase] /\ lease \in BOOLEAN
    BY <2>1 DEF TypeOK
  <2>5. Serving' /\ OneClaimant' /\ Informed'
    BY <2>1, NextServing, NextClaimant, NextInformed
  <2>6. OneTenant'
    BY <2>1, <2>4, NextTenant
  <2> QED
    BY <2>3, <2>5, <2>6 DEF HostInv
<1> QED
  BY <1>1, <1>2, PTL DEF Spec

\* Every state of the records, the guards, the host and the handlers is well typed.
THEOREM TypeCorrect == Spec => []TypeOK
<1>1. HostInv => TypeOK
  BY DEF HostInv
<1> QED
  BY <1>1, Invariant, PTL

\* The worker of a run is started at most once, over any number of requests,
\* server processes, crashes and deletions of guards.
THEOREM StartedOnce == Spec => []OneWorker
<1>1. HostInv => OneWorker
  <2> SUFFICES ASSUME HostInv, NEW r \in Run PROVE launches[r] <= 1
    BY DEF OneWorker
  <2>1. launches[r] = 0 \/ launches[r] = 1
    BY DEF HostInv, OneClaimant
  <2> QED
    BY <2>1
<1> QED
  BY <1>1, Invariant, PTL

\* Two runs never have processes in the worktree together: the lease outlives
\* a deadline and a crash.
THEOREM WorktreeHeld == Spec => []WorktreeExclusive
<1>1. HostInv => WorktreeExclusive
  BY DEF HostInv, OneTenant
<1> QED
  BY <1>1, Invariant, PTL

\* A status asked after the start of a run never says that it was not started,
\* whichever process answers.
THEOREM StartsNeverDenied == Spec => []NotStartedIsTrue
<1>1. HostInv => NotStartedIsTrue
  BY DEF HostInv, Informed, NotStartedIsTrue
<1> QED
  BY <1>1, Invariant, PTL

-------------------------------------------------------------------------------
(* With a careful operator the publication guard serializes everything.    *)

Inside(h) == phase[h] \in Inner \cup Outer
Serial ==
  /\ \A h \in Handler : Inside(h) => publicationGuard
  /\ \A h, g \in Handler : Inside(h) /\ Inside(g) => h = g

\* The records of a run are written in order and agree.
Chained ==
  \A r \in Run :
    /\ intent[r] # Null => snapshot[r] = Document[intent[r]]
    /\ dispatch[r] # Null => intent[r] = dispatch[r]
    /\ r \in claim => dispatch[r] # Null
    /\ response[r] # Null => dispatch[r] # Null /\ responseTo[r] = intent[r]
    /\ response[r] = "returned" => r \in claim

\* What a handler found on entering still holds.
Fresh ==
  \A h \in Handler :
    /\ At(h, "snapshotting") => job[h] = "authorize" /\ intent[Of(h)] = Null
    /\ phase[h] \in {"publishing", "verifying", "recording"} /\ job[h] = "authorize" =>
         intent[Of(h)] = Null /\ snapshot[Of(h)] = Document[serves[h]]
    /\ phase[h] \in {"publishing", "verifying", "recording"} /\ job[h] = "dispatch" =>
         intent[Of(h)] = serves[h] /\ dispatch[Of(h)] = Null

\* A marked run has no response, and is neither claimed nor started too early.
Underway ==
  \A h \in Handler :
    /\ phase[h] \in Running \cup {"marked", "responding"} =>
         dispatch[Of(h)] = serves[h] /\ response[Of(h)] = Null
    /\ phase[h] \in {"marked", "active", "leased", "vouched"} => Of(h) \notin claim
    /\ At(h, "working") => launches[Of(h)] > 0
    /\ At(h, "responding") /\ prepared[h] = "returned" => launches[Of(h)] > 0
    /\ At(h, "responding") /\ prepared[h] = "refused" => launches[Of(h)] = 0

\* The ledger is the handler's document from its publication on.
Posted ==
  \A h \in Handler :
    phase[h] \in Running \cup {"recording", "marked"} => ledgerFile = Document[serves[h]]

StoreInv == Serial /\ Chained /\ Fresh /\ Underway /\ Posted

LEMMA NextSerial ==
  ASSUME Cautious, phase \in [Handler -> Phase], publicationGuard \in BOOLEAN, Serial, [Next]_vars PROVE Serial'
<1> USE DEF At, Goto, Reply, Conclude, Of, records, guards, host, handler, Serial, Inside,
            Inner, Outer, Running
<1>1. ASSUME NEW h \in Handler, NEW j \in Job, NEW q \in Request, Ask(h, j, q) PROVE Serial'
  BY <1>1 DEF Ask
<1>2. ASSUME NEW h \in Handler, Reject(h) PROVE Serial'
  BY <1>2 DEF Reject
<1>3. ASSUME NEW h \in Handler, Arrive(h) PROVE Serial'
  BY <1>3 DEF Arrive
<1>4. ASSUME NEW h \in Handler, EnterPublication(h) PROVE Serial'
  BY <1>4 DEF EnterPublication, PublicationFree
<1>5. ASSUME NEW h \in Handler, EnterRun(h) PROVE Serial'
  BY <1>5 DEF EnterRun
<1>6. ASSUME NEW h \in Handler, Record(h) PROVE Serial'
  BY <1>6 DEF Record, CheckIntent, Matches, EnsureSnapshot, Adoptable, Publish, Verify, RecordIntent
<1>7. ASSUME NEW h \in Handler, Dispatch(h) PROVE Serial'
  BY <1>7 DEF Dispatch, CheckDispatch, Mark, Activate, WriteResponse, Deactivate
<1>8. ASSUME NEW h \in Handler, Execute(h) PROVE Serial'
  BY <1>8 DEF Execute, AcquireLease, Vouch, Claim, Unclaimed, Start, Refuse, Timeout, Retained, Break, End, Ended
<1>9. ASSUME NEW h \in Handler, Inform(h) PROVE Serial'
  BY <1>9 DEF Inform, ReadRecords, Probe, Judge
<1>10. ASSUME NEW h \in Handler, LeaveRun(h) PROVE Serial'
  BY <1>10 DEF LeaveRun
<1>11. ASSUME NEW h \in Handler, LeavePublication(h) PROVE Serial'
  BY <1>11 DEF LeavePublication
<1>12. ASSUME NEW h \in Handler, Finish(h) PROVE Serial'
  BY <1>12 DEF Finish
<1>13. ASSUME NEW h \in Handler, Stumble(h) PROVE Serial'
  BY <1>13 DEF Stumble, Fault
<1>14. ASSUME NEW h \in Handler, ResponseFails(h) PROVE Serial'
  BY <1>14 DEF ResponseFails, Fault
<1>15. ASSUME NEW h \in Handler, PreflightFails(h) PROVE Serial'
  BY <1>15 DEF PreflightFails, Fault
<1>16. ASSUME NEW p \in Process, Crash(p) PROVE Serial'
  BY <1>16 DEF Crash, Fault
<1>17. ASSUME NEW r \in Run, Quiesce(r) PROVE Serial'
  BY <1>17 DEF Quiesce
<1>18. ASSUME ClearPublication PROVE Serial'
  BY <1>18 DEF ClearPublication, Reconcilable
<1>19. ASSUME NEW r \in Run, ClearRun(r) PROVE Serial'
  BY <1>19 DEF ClearRun
<1>20. ASSUME ClearLease PROVE Serial'
  BY <1>20 DEF ClearLease
<1>21. CASE UNCHANGED vars
  BY <1>21 DEF vars
<1> QED
  BY <1>1, <1>2, <1>3, <1>4, <1>5, <1>6, <1>7, <1>8, <1>9, <1>10, <1>11, <1>12, <1>13,
     <1>14, <1>15, <1>16, <1>17, <1>18, <1>19, <1>20, <1>21 DEF Next, Work, Fail, Enter,
     Leave, Operator

LEMMA NextChained ==
  ASSUME TypeOK, Serving, OneClaimant, Serial, Chained, Fresh, Underway, [Next]_vars PROVE Chained'
<1> USE LiveAssumption
    DEF TypeOK, At, Goto, Reply, Conclude, Of, records, guards, host, handler, Serving,
        Chained, Fresh, Underway, Running
<1>1. ASSUME NEW h \in Handler, NEW j \in Job, NEW q \in Request, Ask(h, j, q) PROVE Chained'
  BY <1>1 DEF Ask
<1>2. ASSUME NEW h \in Handler, Enter(h) PROVE Chained'
  BY <1>2 DEF Enter, Reject, Arrive, EnterPublication, PublicationFree, EnterRun
<1>3. ASSUME NEW h \in Handler, CheckIntent(h) PROVE Chained'
  BY <1>3 DEF CheckIntent, Matches
<1>4. ASSUME NEW h \in Handler, EnsureSnapshot(h) PROVE Chained'
  BY <1>4 DEF EnsureSnapshot, Adoptable
<1>5. ASSUME NEW h \in Handler, Publish(h) PROVE Chained'
  BY <1>5 DEF Publish
<1>6. ASSUME NEW h \in Handler, Verify(h) PROVE Chained'
  BY <1>6 DEF Verify
<1>7. ASSUME NEW h \in Handler, RecordIntent(h) PROVE Chained'
  BY <1>7 DEF RecordIntent
<1>8. ASSUME NEW h \in Handler, CheckDispatch(h) PROVE Chained'
  BY <1>8 DEF CheckDispatch
<1>9. ASSUME NEW h \in Handler, Mark(h) PROVE Chained'
  BY <1>9 DEF Mark
<1>10. ASSUME NEW h \in Handler, Activate(h) PROVE Chained'
  BY <1>10 DEF Activate
<1>11. ASSUME NEW h \in Handler, WriteResponse(h) PROVE Chained'
  BY <1>11 DEF WriteResponse, Outcome, OneClaimant
<1>12. ASSUME NEW h \in Handler, Deactivate(h) PROVE Chained'
  BY <1>12 DEF Deactivate
<1>13. ASSUME NEW h \in Handler, AcquireLease(h) PROVE Chained'
  BY <1>13 DEF AcquireLease
<1>14. ASSUME NEW h \in Handler, Vouch(h) PROVE Chained'
  BY <1>14 DEF Vouch
<1>15. ASSUME NEW h \in Handler, Claim(h) PROVE Chained'
  BY <1>15 DEF Claim, Unclaimed, Outcome
<1>16. ASSUME NEW h \in Handler, Start(h) PROVE Chained'
  BY <1>16 DEF Start
<1>17. ASSUME NEW h \in Handler, Refuse(h) PROVE Chained'
  BY <1>17 DEF Refuse
<1>18. ASSUME NEW h \in Handler, Timeout(h) PROVE Chained'
  BY <1>18 DEF Timeout, Retained
<1>19. ASSUME NEW h \in Handler, Break(h) PROVE Chained'
  BY <1>19 DEF Break
<1>20. ASSUME NEW h \in Handler, NEW report \in Report, End(h, report) PROVE Chained'
  BY <1>20 DEF End, Ended
<1>21. ASSUME NEW h \in Handler, Inform(h) PROVE Chained'
  BY <1>21 DEF Inform, ReadRecords, Probe, Judge
<1>22. ASSUME NEW h \in Handler, Leave(h) PROVE Chained'
  BY <1>22 DEF Leave, LeaveRun, LeavePublication, Finish
<1>23. ASSUME NEW h \in Handler, Stumble(h) PROVE Chained'
  BY <1>23 DEF Stumble, Fault
<1>24. ASSUME NEW h \in Handler, ResponseFails(h) PROVE Chained'
  BY <1>24 DEF ResponseFails, Fault, Outcome, OneClaimant
<1>25. ASSUME NEW h \in Handler, PreflightFails(h) PROVE Chained'
  BY <1>25 DEF PreflightFails, Fault
<1>26. ASSUME NEW p \in Process, Crash(p) PROVE Chained'
  BY <1>26 DEF Crash, Fault
<1>27. ASSUME NEW r \in Run, Quiesce(r) PROVE Chained'
  BY <1>27 DEF Quiesce
<1>28. ASSUME Operator PROVE Chained'
  BY <1>28 DEF Operator, ClearPublication, ClearRun, ClearLease
<1>29. CASE UNCHANGED vars
  BY <1>29 DEF vars
<1> QED
  BY <1>1, <1>2, <1>3, <1>4, <1>5, <1>6, <1>7, <1>8, <1>9, <1>10, <1>11, <1>12, <1>13,
     <1>14, <1>15, <1>16, <1>17, <1>18, <1>19, <1>20, <1>21, <1>22, <1>23, <1>24, <1>25,
     <1>26, <1>27, <1>28, <1>29 DEF Next, Work, Fail, Record, Dispatch, Execute

LEMMA NextFresh ==
  ASSUME TypeOK, Serving, Serial, Chained, Fresh, [Next]_vars PROVE Fresh'
<1> USE LiveAssumption
    DEF TypeOK, At, Goto, Reply, Conclude, Of, records, guards, host, handler, Serving,
        Serial, Inside, Inner, Outer, Running, Chained, Fresh
<1>1. ASSUME NEW h \in Handler, NEW j \in Job, NEW q \in Request, Ask(h, j, q) PROVE Fresh'
  BY <1>1 DEF Ask
<1>2. ASSUME NEW h \in Handler, Enter(h) PROVE Fresh'
  BY <1>2 DEF Enter, Reject, Arrive, EnterPublication, PublicationFree, EnterRun
<1>3. ASSUME NEW h \in Handler, CheckIntent(h) PROVE Fresh'
  BY <1>3 DEF CheckIntent, Matches
<1>4. ASSUME NEW h \in Handler, EnsureSnapshot(h) PROVE Fresh'
  <2>1. Of(h) \in Run /\ Document[serves[h]] \in Ledger /\ intent[Of(h)] = Null /\ UNCHANGED <<intent, dispatch, job, serves>>
    BY <1>4 DEF EnsureSnapshot
  <2>2. CASE Adoptable(h)
    <3>1. snapshot' = [snapshot EXCEPT ![Of(h)] = Document[serves[h]]]
      BY <1>4, <2>1, <2>2 DEF EnsureSnapshot, Adoptable
    <3>2. phase' = [phase EXCEPT ![h] = "publishing"]
      BY <1>4, <2>2 DEF EnsureSnapshot
    <3>3. \A g \in Handler : g # h => phase'[g] \notin {"snapshotting", "publishing", "verifying", "recording"}
      BY <1>4, <3>2 DEF EnsureSnapshot
    <3>4. phase'[h] = "publishing" /\ snapshot'[Of(h)] = Document[serves[h]]
      BY <2>1, <3>1, <3>2
    <3>5. ForRun[serves'[h]] = Of(h) /\ intent'[Of(h)] = Null /\ job'[h] = "authorize"
      BY <1>4, <2>1 DEF EnsureSnapshot
    <3> QED
      BY <2>1, <3>3, <3>4, <3>5
  <2>3. CASE ~Adoptable(h)
    BY <1>4, <2>1, <2>3 DEF EnsureSnapshot
  <2> QED
    BY <2>2, <2>3
<1>5. ASSUME NEW h \in Handler, Publish(h) PROVE Fresh'
  BY <1>5 DEF Publish
<1>6. ASSUME NEW h \in Handler, Verify(h) PROVE Fresh'
  BY <1>6 DEF Verify
<1>7. ASSUME NEW h \in Handler, RecordIntent(h) PROVE Fresh'
  BY <1>7 DEF RecordIntent
<1>8. ASSUME NEW h \in Handler, CheckDispatch(h) PROVE Fresh'
  <2>1. /\ phase' = [phase EXCEPT ![h] = phase'[h]] /\ phase'[h] \in {"publishing", "leaving"}
        /\ UNCHANGED <<intent, snapshot, dispatch, job, serves>>
    BY <1>8 DEF CheckDispatch
  <2>2. phase'[h] = "publishing" => job[h] = "dispatch" /\ Matches(h) /\ dispatch[Of(h)] = Null
    BY <1>8 DEF CheckDispatch, Issued, Undispatched
  <2> QED
    BY <2>1, <2>2 DEF Matches
<1>9. ASSUME NEW h \in Handler, Mark(h) PROVE Fresh'
  BY <1>9 DEF Mark
<1>10. ASSUME NEW h \in Handler, Activate(h) PROVE Fresh'
  BY <1>10 DEF Activate
<1>11. ASSUME NEW h \in Handler, WriteResponse(h) PROVE Fresh'
  BY <1>11 DEF WriteResponse
<1>12. ASSUME NEW h \in Handler, Deactivate(h) PROVE Fresh'
  BY <1>12 DEF Deactivate
<1>13. ASSUME NEW h \in Handler, Execute(h) PROVE Fresh'
  BY <1>13 DEF Execute, AcquireLease, Vouch, Claim, Unclaimed, Start, Refuse, Timeout, Retained, Break, End, Ended
<1>14. ASSUME NEW h \in Handler, Inform(h) PROVE Fresh'
  BY <1>14 DEF Inform, ReadRecords, Probe, Judge
<1>15. ASSUME NEW h \in Handler, Leave(h) PROVE Fresh'
  BY <1>15 DEF Leave, LeaveRun, LeavePublication, Finish
<1>16. ASSUME NEW h \in Handler, Stumble(h) PROVE Fresh'
  BY <1>16 DEF Stumble, Fault
<1>17. ASSUME NEW h \in Handler, ResponseFails(h) PROVE Fresh'
  BY <1>17 DEF ResponseFails, Fault
<1>18. ASSUME NEW h \in Handler, PreflightFails(h) PROVE Fresh'
  BY <1>18 DEF PreflightFails, Fault
<1>19. ASSUME NEW p \in Process, Crash(p) PROVE Fresh'
  BY <1>19 DEF Crash, Fault
<1>20. ASSUME NEW r \in Run, Quiesce(r) PROVE Fresh'
  BY <1>20 DEF Quiesce
<1>21. ASSUME Operator PROVE Fresh'
  BY <1>21 DEF Operator, ClearPublication, ClearRun, ClearLease
<1>22. CASE UNCHANGED vars
  BY <1>22 DEF vars
<1> QED
  BY <1>1, <1>2, <1>3, <1>4, <1>5, <1>6, <1>7, <1>8, <1>9, <1>10, <1>11, <1>12, <1>13,
     <1>14, <1>15, <1>16, <1>17, <1>18, <1>19, <1>20, <1>21, <1>22 DEF Next, Work, Fail,
     Record, Dispatch

LEMMA NextUnderway ==
  ASSUME TypeOK, Serving, OneClaimant, Serial, Chained, Fresh, Underway, [Next]_vars PROVE Underway'
<1> USE LiveAssumption
    DEF TypeOK, At, Goto, Reply, Conclude, Of, records, guards, host, handler, Serving,
        OneClaimant, Serial, Inside, Inner, Outer, Running, Chained, Fresh, Underway
<1>1. ASSUME NEW h \in Handler, NEW j \in Job, NEW q \in Request, Ask(h, j, q) PROVE Underway'
  BY <1>1 DEF Ask
<1>2. ASSUME NEW h \in Handler, Enter(h) PROVE Underway'
  BY <1>2 DEF Enter, Reject, Arrive, EnterPublication, PublicationFree, EnterRun
<1>3. ASSUME NEW h \in Handler, CheckIntent(h) PROVE Underway'
  BY <1>3 DEF CheckIntent, Matches
<1>4. ASSUME NEW h \in Handler, EnsureSnapshot(h) PROVE Underway'
  BY <1>4 DEF EnsureSnapshot, Adoptable
<1>5. ASSUME NEW h \in Handler, Publish(h) PROVE Underway'
  BY <1>5 DEF Publish
<1>6. ASSUME NEW h \in Handler, Verify(h) PROVE Underway'
  BY <1>6 DEF Verify
<1>7. ASSUME NEW h \in Handler, RecordIntent(h) PROVE Underway'
  BY <1>7 DEF RecordIntent
<1>8. ASSUME NEW h \in Handler, CheckDispatch(h) PROVE Underway'
  BY <1>8 DEF CheckDispatch
<1>9. ASSUME NEW h \in Handler, Mark(h) PROVE Underway'
  BY <1>9 DEF Mark
<1>10. ASSUME NEW h \in Handler, Activate(h) PROVE Underway'
  BY <1>10 DEF Activate
<1>11. ASSUME NEW h \in Handler, WriteResponse(h) PROVE Underway'
  BY <1>11 DEF WriteResponse
<1>12. ASSUME NEW h \in Handler, Deactivate(h) PROVE Underway'
  BY <1>12 DEF Deactivate
<1>13. ASSUME NEW h \in Handler, AcquireLease(h) PROVE Underway'
  BY <1>13 DEF AcquireLease
<1>14. ASSUME NEW h \in Handler, Vouch(h) PROVE Underway'
  BY <1>14 DEF Vouch
<1>15. ASSUME NEW h \in Handler, Claim(h) PROVE Underway'
  BY <1>15 DEF Claim, Unclaimed
<1>16. ASSUME NEW h \in Handler, Start(h) PROVE Underway'
  BY <1>16 DEF Start
<1>17. ASSUME NEW h \in Handler, Refuse(h) PROVE Underway'
  BY <1>17 DEF Refuse
<1>18. ASSUME NEW h \in Handler, Timeout(h) PROVE Underway'
  BY <1>18 DEF Timeout, Retained
<1>19. ASSUME NEW h \in Handler, Break(h) PROVE Underway'
  BY <1>19 DEF Break
<1>20. ASSUME NEW h \in Handler, NEW report \in Report, End(h, report) PROVE Underway'
  BY <1>20 DEF End, Ended
<1>21. ASSUME NEW h \in Handler, Inform(h) PROVE Underway'
  BY <1>21 DEF Inform, ReadRecords, Probe, Judge
<1>22. ASSUME NEW h \in Handler, Leave(h) PROVE Underway'
  BY <1>22 DEF Leave, LeaveRun, LeavePublication, Finish
<1>23. ASSUME NEW h \in Handler, Stumble(h) PROVE Underway'
  BY <1>23 DEF Stumble, Fault
<1>24. ASSUME NEW h \in Handler, ResponseFails(h) PROVE Underway'
  BY <1>24 DEF ResponseFails, Fault
<1>25. ASSUME NEW h \in Handler, PreflightFails(h) PROVE Underway'
  BY <1>25 DEF PreflightFails, Fault
<1>26. ASSUME NEW p \in Process, Crash(p) PROVE Underway'
  BY <1>26 DEF Crash, Fault
<1>27. ASSUME NEW r \in Run, Quiesce(r) PROVE Underway'
  BY <1>27 DEF Quiesce
<1>28. ASSUME Operator PROVE Underway'
  BY <1>28 DEF Operator, ClearPublication, ClearRun, ClearLease
<1>29. CASE UNCHANGED vars
  BY <1>29 DEF vars
<1> QED
  BY <1>1, <1>2, <1>3, <1>4, <1>5, <1>6, <1>7, <1>8, <1>9, <1>10, <1>11, <1>12, <1>13,
     <1>14, <1>15, <1>16, <1>17, <1>18, <1>19, <1>20, <1>21, <1>22, <1>23, <1>24, <1>25,
     <1>26, <1>27, <1>28, <1>29 DEF Next, Work, Fail, Record, Dispatch, Execute

LEMMA NextPosted ==
  ASSUME TypeOK, Serving, Serial, Posted, [Next]_vars PROVE Posted'
<1> USE LiveAssumption
    DEF TypeOK, At, Goto, Reply, Conclude, Of, records, guards, host, handler, Serving,
        Serial, Inside, Inner, Outer, Running, Posted
<1>1. ASSUME NEW h \in Handler, NEW j \in Job, NEW q \in Request, Ask(h, j, q) PROVE Posted'
  BY <1>1 DEF Ask
<1>2. ASSUME NEW h \in Handler, Enter(h) PROVE Posted'
  BY <1>2 DEF Enter, Reject, Arrive, EnterPublication, PublicationFree, EnterRun
<1>3. ASSUME NEW h \in Handler, CheckIntent(h) PROVE Posted'
  BY <1>3 DEF CheckIntent, Matches
<1>4. ASSUME NEW h \in Handler, EnsureSnapshot(h) PROVE Posted'
  BY <1>4 DEF EnsureSnapshot, Adoptable
<1>5. ASSUME NEW h \in Handler, Publish(h) PROVE Posted'
  BY <1>5 DEF Publish
<1>6. ASSUME NEW h \in Handler, Verify(h) PROVE Posted'
  BY <1>6 DEF Verify
<1>7. ASSUME NEW h \in Handler, RecordIntent(h) PROVE Posted'
  BY <1>7 DEF RecordIntent
<1>8. ASSUME NEW h \in Handler, Dispatch(h) PROVE Posted'
  BY <1>8 DEF Dispatch, CheckDispatch, Mark, Activate, WriteResponse, Deactivate
<1>9. ASSUME NEW h \in Handler, Execute(h) PROVE Posted'
  BY <1>9 DEF Execute, AcquireLease, Vouch, Claim, Unclaimed, Start, Refuse, Timeout, Retained, Break, End, Ended
<1>10. ASSUME NEW h \in Handler, Inform(h) PROVE Posted'
  BY <1>10 DEF Inform, ReadRecords, Probe, Judge
<1>11. ASSUME NEW h \in Handler, Leave(h) PROVE Posted'
  BY <1>11 DEF Leave, LeaveRun, LeavePublication, Finish
<1>12. ASSUME NEW h \in Handler, Fail(h) PROVE Posted'
  BY <1>12 DEF Fail, Stumble, Fault, ResponseFails, PreflightFails
<1>13. ASSUME NEW p \in Process, Crash(p) PROVE Posted'
  BY <1>13 DEF Crash, Fault
<1>14. ASSUME NEW r \in Run, Quiesce(r) PROVE Posted'
  BY <1>14 DEF Quiesce
<1>15. ASSUME Operator PROVE Posted'
  BY <1>15 DEF Operator, ClearPublication, ClearRun, ClearLease
<1>16. CASE UNCHANGED vars
  BY <1>16 DEF vars
<1> QED
  BY <1>1, <1>2, <1>3, <1>4, <1>5, <1>6, <1>7, <1>8, <1>9, <1>10, <1>11, <1>12, <1>13,
     <1>14, <1>15, <1>16 DEF Next, Work, Record

LEMMA InitStore == Init => StoreInv
<1> SUFFICES ASSUME Init PROVE StoreInv
  OBVIOUS
<1>1. Serial
  BY DEF Init, Serial, Inside, Inner, Outer, Running
<1>2. Chained
  BY LiveAssumption DEF Init, Chained, Outcome
<1>3. Fresh /\ Underway /\ Posted
  BY DEF Init, Fresh, Underway, Posted, Running, At
<1> QED
  BY <1>1, <1>2, <1>3 DEF StoreInv

\* With an operator who removes no guard under a live handler, what a handler
\* has checked stays true until it acts on it.
THEOREM StoreInvariant == ASSUME Cautious PROVE Spec => []StoreInv
<1>1. Init => StoreInv
  BY InitStore
<1>2. HostInv /\ StoreInv /\ [Next]_vars => StoreInv'
  <2> SUFFICES ASSUME HostInv, StoreInv, [Next]_vars PROVE StoreInv'
    OBVIOUS
  <2>1. TypeOK /\ Serving /\ OneClaimant /\ Serial /\ Chained /\ Fresh /\ Underway /\ Posted
    BY DEF HostInv, StoreInv
  <2>2. phase \in [Handler -> Phase] /\ publicationGuard \in BOOLEAN
    BY <2>1 DEF TypeOK
  <2>3. Serial'
    BY <2>1, <2>2, NextSerial
  <2>4. Chained' /\ Fresh' /\ Underway' /\ Posted'
    BY <2>1, NextChained, NextFresh, NextUnderway, NextPosted
  <2> QED
    BY <2>3, <2>4 DEF StoreInv
<1> QED
  BY <1>1, <1>2, Invariant, PTL DEF Spec

\* No other run is published between the publication of a run and its end.
THEOREM LedgerKept == ASSUME Cautious PROVE Spec => []LedgerStands
<1>1. StoreInv => LedgerStands
  BY DEF StoreInv, Posted, LedgerStands, Running
<1> QED
  BY <1>1, StoreInvariant, PTL

\* A returned response can be traced through every private record of its run.
THEOREM ReturnsAreTraced == ASSUME Cautious PROVE Spec => []ReturnedIsTraceable
<1>1. HostInv /\ StoreInv => ReturnedIsTraceable
  <2> SUFFICES ASSUME HostInv, StoreInv, NEW r \in Run, response[r] = "returned"
               PROVE /\ intent[r] # Null /\ dispatch[r] = intent[r] /\ responseTo[r] = intent[r]
                     /\ snapshot[r] = Document[intent[r]]
                     /\ r \in claim
    BY DEF ReturnedIsTraceable
  <2>1. response[r] # Null
    BY LiveAssumption DEF Outcome
  <2> QED
    BY <2>1 DEF StoreInv, Chained
<1> QED
  BY <1>1, Invariant, StoreInvariant, PTL

-------------------------------------------------------------------------------
(* The refinement of OneShotExecution.                                     *)

LEMMA NextExecution ==
  ASSUME TypeOK, Serving, OneClaimant, Chained, Fresh, Underway, [Next]_vars PROVE [Execution!Next]_(Execution!vars)
<1> USE LiveAssumption
    DEF TypeOK, At, Goto, Reply, Conclude, Of, records, guards, host, handler, Serving,
        OneClaimant, Chained, Fresh, Underway, Running, Execution!vars
<1>1. ASSUME NEW h \in Handler, NEW j \in Job, NEW q \in Request, Ask(h, j, q)
      PROVE [Execution!Next]_(Execution!vars)
  BY <1>1 DEF Ask
<1>2. ASSUME NEW h \in Handler, Enter(h) PROVE [Execution!Next]_(Execution!vars)
  BY <1>2 DEF Enter, Reject, Arrive, EnterPublication, PublicationFree, EnterRun
<1>3. ASSUME NEW h \in Handler, CheckIntent(h) PROVE [Execution!Next]_(Execution!vars)
  BY <1>3 DEF CheckIntent, Matches
<1>4. ASSUME NEW h \in Handler, EnsureSnapshot(h) PROVE [Execution!Next]_(Execution!vars)
  BY <1>4 DEF EnsureSnapshot, Adoptable
<1>5. ASSUME NEW h \in Handler, Publish(h) PROVE [Execution!Next]_(Execution!vars)
  BY <1>5 DEF Publish
<1>6. ASSUME NEW h \in Handler, Verify(h) PROVE [Execution!Next]_(Execution!vars)
  BY <1>6 DEF Verify
<1>7. ASSUME NEW h \in Handler, RecordIntent(h) PROVE [Execution!Next]_(Execution!vars)
  <2>1. serves[h] \in Request /\ intent[ForRun[serves[h]]] = Null
    BY <1>7 DEF RecordIntent
  <2>2. Execution!Authorize(serves[h])
    BY <1>7, <2>1 DEF RecordIntent, Execution!Authorize
  <2> QED
    BY <2>1, <2>2 DEF Execution!Next
<1>8. ASSUME NEW h \in Handler, CheckDispatch(h) PROVE [Execution!Next]_(Execution!vars)
  BY <1>8 DEF CheckDispatch
<1>9. ASSUME NEW h \in Handler, Mark(h) PROVE [Execution!Next]_(Execution!vars)
  BY <1>9 DEF Mark
<1>10. ASSUME NEW h \in Handler, Activate(h) PROVE [Execution!Next]_(Execution!vars)
  BY <1>10 DEF Activate
<1>11. ASSUME NEW h \in Handler, WriteResponse(h) PROVE [Execution!Next]_(Execution!vars)
  <2>1. /\ Of(h) \in Run /\ prepared[h] \in Outcome /\ intent[Of(h)] # Null /\ response[Of(h)] = Null
        /\ prepared[h] = "returned" => launches[Of(h)] > 0
        /\ prepared[h] = "refused" => launches[Of(h)] = 0
    BY <1>11 DEF WriteResponse
  <2>2. ASSUME response' = [response EXCEPT ![Of(h)] = prepared[h]] PROVE Execution!Respond(Of(h), prepared[h])
    BY <1>11, <2>1, <2>2 DEF WriteResponse, Execution!Respond
  <2> QED
    BY <1>11, <2>1, <2>2 DEF WriteResponse, Execution!Next
<1>12. ASSUME NEW h \in Handler, Deactivate(h) PROVE [Execution!Next]_(Execution!vars)
  BY <1>12 DEF Deactivate
<1>13. ASSUME NEW h \in Handler, AcquireLease(h) PROVE [Execution!Next]_(Execution!vars)
  BY <1>13 DEF AcquireLease
<1>14. ASSUME NEW h \in Handler, Vouch(h) PROVE [Execution!Next]_(Execution!vars)
  BY <1>14 DEF Vouch
<1>15. ASSUME NEW h \in Handler, Claim(h) PROVE [Execution!Next]_(Execution!vars)
  BY <1>15 DEF Claim, Unclaimed
<1>16. ASSUME NEW h \in Handler, Start(h) PROVE [Execution!Next]_(Execution!vars)
  <2>1. PICK r \in Run : r = Of(h)
    BY <1>16 DEF Start
  <2>2. intent[r] # Null /\ response[r] = Null /\ launches[r] = 0
    BY <1>16, <2>1 DEF Start
  <2>3. {s \in Run : launches'[s] > 0} = {s \in Run : launches[s] > 0} \cup {r}
    BY <1>16, <2>1, <2>2 DEF Start
  <2>4. Execution!Start(r)
    BY <1>16, <2>1, <2>2, <2>3 DEF Start, Execution!Start
  <2> QED
    BY <2>4 DEF Execution!Next
<1>17. ASSUME NEW h \in Handler, Refuse(h) PROVE [Execution!Next]_(Execution!vars)
  BY <1>17 DEF Refuse
<1>18. ASSUME NEW h \in Handler, Timeout(h) PROVE [Execution!Next]_(Execution!vars)
  BY <1>18 DEF Timeout, Retained
<1>19. ASSUME NEW h \in Handler, Break(h) PROVE [Execution!Next]_(Execution!vars)
  BY <1>19 DEF Break
<1>20. ASSUME NEW h \in Handler, NEW report \in Report, End(h, report)
      PROVE [Execution!Next]_(Execution!vars)
  BY <1>20 DEF End, Ended
<1>21. ASSUME NEW h \in Handler, Inform(h) PROVE [Execution!Next]_(Execution!vars)
  BY <1>21 DEF Inform, ReadRecords, Probe, Judge
<1>22. ASSUME NEW h \in Handler, Leave(h) PROVE [Execution!Next]_(Execution!vars)
  BY <1>22 DEF Leave, LeaveRun, LeavePublication, Finish
<1>23. ASSUME NEW h \in Handler, Stumble(h) PROVE [Execution!Next]_(Execution!vars)
  <2>1. CASE intent' = intent
    BY <1>23, <2>1 DEF Stumble
  <2>2. CASE intent' # intent
    <3>1. /\ At(h, "recording") /\ job[h] = "authorize" /\ serves[h] \in Request
          /\ intent' = [intent EXCEPT ![Of(h)] = serves[h]] /\ UNCHANGED <<response, launches>>
      BY <1>23, <2>2 DEF Stumble
    <3>2. Execution!Authorize(serves[h])
      BY <3>1 DEF Execution!Authorize
    <3> QED
      BY <3>1, <3>2 DEF Execution!Next
  <2> QED
    BY <2>1, <2>2
<1>24. ASSUME NEW h \in Handler, ResponseFails(h) PROVE [Execution!Next]_(Execution!vars)
  <2>1. /\ Of(h) \in Run /\ prepared[h] \in Outcome /\ intent[Of(h)] # Null /\ response[Of(h)] = Null
        /\ prepared[h] = "returned" => launches[Of(h)] > 0
        /\ prepared[h] = "refused" => launches[Of(h)] = 0
    BY <1>24 DEF ResponseFails
  <2>2. ASSUME response' = [response EXCEPT ![Of(h)] = prepared[h]] PROVE Execution!Respond(Of(h), prepared[h])
    BY <1>24, <2>1, <2>2 DEF ResponseFails, Execution!Respond
  <2> QED
    BY <1>24, <2>1, <2>2 DEF ResponseFails, Execution!Next
<1>25. ASSUME NEW h \in Handler, PreflightFails(h) PROVE [Execution!Next]_(Execution!vars)
  BY <1>25 DEF PreflightFails, Fault
<1>26. ASSUME NEW p \in Process, Crash(p) PROVE [Execution!Next]_(Execution!vars)
  BY <1>26 DEF Crash, Fault
<1>27. ASSUME NEW r \in Run, Quiesce(r) PROVE [Execution!Next]_(Execution!vars)
  BY <1>27 DEF Quiesce
<1>28. ASSUME Operator PROVE [Execution!Next]_(Execution!vars)
  BY <1>28 DEF Operator, ClearPublication, ClearRun, ClearLease
<1>29. CASE UNCHANGED vars
  BY <1>29 DEF vars
<1> QED
  BY <1>1, <1>2, <1>3, <1>4, <1>5, <1>6, <1>7, <1>8, <1>9, <1>10, <1>11, <1>12, <1>13,
     <1>14, <1>15, <1>16, <1>17, <1>18, <1>19, <1>20, <1>21, <1>22, <1>23, <1>24, <1>25,
     <1>26, <1>27, <1>28, <1>29 DEF Next, Work, Fail, Record, Dispatch, Execute

\* Whatever happens to handlers, processes and files, a run is authorized once,
\* started at most once and closed by one final response that tells whether it was.
THEOREM ExecutesOnce == ASSUME Cautious PROVE Spec => ImplementsOneShot
<1>1. Init => Execution!Init
  BY DEF Init, Execution!Init
<1>2. HostInv /\ StoreInv /\ [Next]_vars => [Execution!Next]_(Execution!vars)
  BY NextExecution DEF HostInv, StoreInv
<1> QED
  BY <1>1, <1>2, Invariant, StoreInvariant, PTL DEF Spec, ImplementsOneShot, Execution!Spec
===============================================================================
