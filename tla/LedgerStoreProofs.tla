--------------------------- MODULE LedgerStoreProofs ---------------------------
(* Whatever the number of tabs, tasks, batches, conflicts, resets and faults:  *)
(* what was reported as saved is in the ledger until it is reset, a conflict is *)
(* the doing of another writer, and the store with its clients implements one   *)
(* log that takes whole batches.                                                *)
EXTENDS LedgerStore, TLAPS, SequenceTheorems, WellFoundedInduction

-------------------------------------------------------------------------------
(* A log and a batch                                                           *)

LEMMA TakenLog ==
  ASSUME NEW S, NEW log \in Seq(S), NEW e \in S
  PROVE  /\ Taken(log, e) \in Seq(S)
         /\ Len(log) \in Nat /\ Len(Taken(log, e)) \in Nat /\ Len(log) <= Len(Taken(log, e))
         /\ \A i \in 1 .. Len(log) : Taken(log, e)[i] = log[i]
         /\ Elements(Taken(log, e)) = Elements(log) \cup {e}
<1>1. Len(log) \in Nat /\ DOMAIN log = 1 .. Len(log)
  BY LenProperties
<1>2. CASE e \in Elements(log)
  <2>1. Taken(log, e) = log /\ Elements(log) \cup {e} = Elements(log)
    BY <1>2 DEF Taken
  <2>2. QED  BY <1>1, <2>1
<1>3. CASE e \notin Elements(log)
  <2>1. PICK new : new = Append(log, e)
    OBVIOUS
  <2>2. /\ new \in Seq(S) /\ Len(new) = Len(log) + 1
        /\ \A i \in 1 .. Len(log) : new[i] = log[i]
        /\ new[Len(log) + 1] = e
    BY <2>1, AppendProperties
  <2>3. DOMAIN new = 1 .. Len(log) + 1
    BY <2>2, LenProperties
  <2>4. Elements(new) = Elements(log) \cup {e}
    BY <1>1, <2>2, <2>3 DEF Elements
  <2>5. Taken(log, e) = new
    BY <1>3, <2>1 DEF Taken
  <2>6. QED  BY <1>1, <2>2, <2>4, <2>5
<1>4. QED  BY <1>2, <1>3

\* Of some numbers, one is the least.
LEMMA LeastNumber ==
  ASSUME NEW S, S \subseteq Nat, S # {}
  PROVE  \E m \in S : \A k \in S : m <= k
<1>1. PICK m \in S : \A k \in S : ~ (<<k, m>> \in OpToRel(<, Nat))
  BY NatLessThanWellFounded, WFMin
<1>2. \A k \in S : ~ (k < m)
  BY <1>1 DEF OpToRel
<1>3. QED  BY <1>2

\* What is left of a log after each event of a batch.
Stages(f, log, b, m) == f = [n \in 0 .. m |-> IF n = 0 THEN log ELSE Taken(f[n - 1], b[n])]

LEMMA StagesExist ==
  ASSUME NEW log, NEW b, NEW m \in Nat
  PROVE  \E f : Stages(f, log, b, m)
<1> DEFINE Missing == {n \in Nat : ~ \E f : Stages(f, log, b, n)}
<1>1. SUFFICES ASSUME Missing # {} PROVE FALSE
  OBVIOUS
<1>2. Missing \subseteq Nat
  OBVIOUS
<1>3. PICK k \in Missing : \A n \in Missing : k <= n
  <2> HIDE DEF Missing
  <2>1. QED  BY <1>1, <1>2, LeastNumber
<1>4. k \in Nat /\ ~ \E f : Stages(f, log, b, k)
  OBVIOUS
<1>5. CASE k = 0
  <2>1. PICK f : f = [n \in 0 .. 0 |-> log]
    OBVIOUS
  <2>2. f = [n \in 0 .. 0 |-> IF n = 0 THEN log ELSE Taken(f[n - 1], b[n])]
    BY <2>1
  <2>3. QED  BY <1>4, <1>5, <2>2 DEF Stages
<1>6. CASE k # 0
  <2>1. k - 1 \in Nat /\ ~ (k <= k - 1)
    BY <1>4, <1>6
  <2>2. k - 1 \notin Missing
    <3> HIDE DEF Missing
    <3>1. QED  BY <1>3, <2>1
  <2>3. PICK g : Stages(g, log, b, k - 1)
    BY <2>1, <2>2
  <2>4. /\ DOMAIN g = 0 .. k - 1
        /\ \A n \in 0 .. k - 1 : g[n] = IF n = 0 THEN log ELSE Taken(g[n - 1], b[n])
    BY <2>3 DEF Stages
  <2>5. PICK f : f = [n \in 0 .. k |-> IF n = k THEN Taken(g[k - 1], b[k]) ELSE g[n]]
    OBVIOUS
  <2>6. f[k] = Taken(g[k - 1], b[k]) /\ \A n \in 0 .. k - 1 : f[n] = g[n]
    BY <1>4, <2>5
  <2>7. \A n \in 0 .. k : f[n] = IF n = 0 THEN log ELSE Taken(f[n - 1], b[n])
    <3>1. ASSUME NEW n \in 0 .. k - 1
          PROVE  f[n] = IF n = 0 THEN log ELSE Taken(f[n - 1], b[n])
      <4>1. CASE n = 0
        BY <2>4, <2>6, <4>1
      <4>2. CASE n # 0
        <5>1. n - 1 \in 0 .. k - 1
          BY <1>4, <4>2
        <5>2. f[n] = g[n] /\ f[n - 1] = g[n - 1] /\ g[n] = Taken(g[n - 1], b[n])
          BY <2>4, <2>6, <4>2, <5>1
        <5>3. QED  BY <4>2, <5>2
      <4>3. QED  BY <4>1, <4>2
    <3>2. f[k] = IF k = 0 THEN log ELSE Taken(f[k - 1], b[k])
      <4>1. k - 1 \in 0 .. k - 1
        BY <2>1
      <4>2. QED  BY <1>6, <2>6, <4>1
    <3>3. \A n \in 0 .. k : n = k \/ n \in 0 .. k - 1
      BY <1>4
    <3>4. QED  BY <3>1, <3>2, <3>3
  <2>8. f = [n \in 0 .. k |-> IF n = 0 THEN log ELSE Taken(f[n - 1], b[n])]
    <3>1. f = [n \in 0 .. k |-> f[n]]
      BY <2>5
    <3>2. [n \in 0 .. k |-> f[n]] = [n \in 0 .. k |-> IF n = 0 THEN log ELSE Taken(f[n - 1], b[n])]
      BY <2>7
    <3>3. QED  BY <3>1, <3>2
  <2>9. QED  BY <1>4, <2>8 DEF Stages
<1>7. QED  BY <1>5, <1>6

LEMMA CandidateIsLast ==
  ASSUME NEW log, NEW b, Len(b) \in Nat
  PROVE  \E f : Stages(f, log, b, Len(b)) /\ Candidate(log, b) = f[Len(b)]
<1> DEFINE f == CHOOSE f : f = [n \in 0 .. Len(b) |-> IF n = 0 THEN log ELSE Taken(f[n - 1], b[n])]
<1>1. \E g : g = [n \in 0 .. Len(b) |-> IF n = 0 THEN log ELSE Taken(g[n - 1], b[n])]
  <2>1. PICK g : Stages(g, log, b, Len(b))
    BY StagesExist
  <2>2. g = [n \in 0 .. Len(b) |-> IF n = 0 THEN log ELSE Taken(g[n - 1], b[n])]
    BY <2>1 DEF Stages
  <2>3. QED  BY <2>2
<1>2. f = [n \in 0 .. Len(b) |-> IF n = 0 THEN log ELSE Taken(f[n - 1], b[n])]
  BY <1>1
<1>3. Candidate(log, b) = f[Len(b)]
  BY DEF Candidate
<1> HIDE DEF f
<1>4. QED  BY <1>2, <1>3 DEF Stages

\* A batch after a log: the log, then what was not in it; and nothing is left out.
LEMMA CandidateLog ==
  ASSUME NEW S, NEW log \in Seq(S), NEW b \in Seq(S)
  PROVE  /\ Candidate(log, b) \in Seq(S)
         /\ Len(log) <= Len(Candidate(log, b))
         /\ \A i \in 1 .. Len(log) : Candidate(log, b)[i] = log[i]
         /\ Elements(Candidate(log, b)) = Elements(log) \cup Elements(b)
<1>1. /\ Len(log) \in Nat /\ Len(b) \in Nat
      /\ DOMAIN b = 1 .. Len(b) /\ \A n \in 1 .. Len(b) : b[n] \in S
  BY LenProperties, ElementOfSeq
<1>2. PICK f : Stages(f, log, b, Len(b)) /\ Candidate(log, b) = f[Len(b)]
  BY <1>1, CandidateIsLast
<1>3. \A n \in 0 .. Len(b) : f[n] = IF n = 0 THEN log ELSE Taken(f[n - 1], b[n])
  BY <1>2 DEF Stages
<1> DEFINE Good(n) == /\ f[n] \in Seq(S) /\ Len(f[n]) \in Nat /\ Len(log) <= Len(f[n])
                      /\ \A i \in 1 .. Len(log) : f[n][i] = log[i]
                      /\ Elements(f[n]) = Elements(log) \cup {b[i] : i \in 1 .. n}
<1> DEFINE Wrong == {n \in 0 .. Len(b) : ~Good(n)}
<1>4. Good(0)
  <2>1. f[0] = log
    BY <1>1, <1>3
  <2>2. {b[i] : i \in 1 .. 0} = {}
    OBVIOUS
  <2>3. QED  BY <1>1, <2>1, <2>2
<1>5. ASSUME NEW n \in 1 .. Len(b), Good(n - 1)
      PROVE  Good(n)
  <2>1. PICK before, after : before = f[n - 1] /\ after = f[n]
    OBVIOUS
  <2>2. after = Taken(before, b[n]) /\ b[n] \in S
    BY <1>1, <1>3, <2>1
  <2>3. /\ before \in Seq(S) /\ Len(before) \in Nat /\ Len(log) <= Len(before)
        /\ \A i \in 1 .. Len(log) : before[i] = log[i]
        /\ Elements(before) = Elements(log) \cup {b[i] : i \in 1 .. n - 1}
    BY <1>5, <2>1
  <2>4. /\ after \in Seq(S) /\ Len(after) \in Nat /\ Len(before) <= Len(after)
        /\ \A i \in 1 .. Len(before) : after[i] = before[i]
        /\ Elements(after) = Elements(before) \cup {b[n]}
    <3>1. PICK e \in S : e = b[n]
      BY <2>2
    <3>2. PICK l \in Seq(S) : l = before
      BY <2>3
    <3>3. Taken(l, e) \in Seq(S) /\ Len(Taken(l, e)) \in Nat /\ Len(l) <= Len(Taken(l, e))
      BY TakenLog
    <3>4. \A i \in 1 .. Len(l) : Taken(l, e)[i] = l[i]
      BY TakenLog
    <3>5. Elements(Taken(l, e)) = Elements(l) \cup {e}
      BY TakenLog
    <3>6. after = Taken(l, e)
      BY <2>2, <3>1, <3>2
    <3>7. QED  BY <3>1, <3>2, <3>3, <3>4, <3>5, <3>6
  <2>5. Len(log) <= Len(after) /\ \A i \in 1 .. Len(log) : after[i] = log[i]
    BY <1>1, <2>3, <2>4
  <2>6. {b[i] : i \in 1 .. n} = {b[i] : i \in 1 .. n - 1} \cup {b[n]}
    <3>1. 1 .. n = (1 .. n - 1) \cup {n}
      BY <1>1
    <3>2. QED  BY <3>1
  <2>7. Elements(after) = Elements(log) \cup {b[i] : i \in 1 .. n}
    BY <2>3, <2>4, <2>6
  <2>8. QED  BY <2>1, <2>4, <2>5, <2>7
<1>6. Wrong = {}
  <2>1. SUFFICES ASSUME Wrong # {} PROVE FALSE
    OBVIOUS
  <2>2. Wrong \subseteq Nat
    BY <1>1
  <2>3. PICK n \in Wrong : \A k \in Wrong : n <= k
    <3> HIDE DEF Wrong
    <3>1. QED  BY <2>1, <2>2, LeastNumber
  <2>4. n \in 0 .. Len(b) /\ ~Good(n)
    OBVIOUS
  <2> HIDE DEF Good
  <2>5. n \in 1 .. Len(b) /\ n - 1 \in 0 .. Len(b) /\ ~ (n <= n - 1)
    BY <1>1, <1>4, <2>4
  <2>6. Good(n - 1)
    BY <2>3, <2>5
  <2>7. QED  BY <1>5, <2>4, <2>5, <2>6
<1>7. Good(Len(b))
  <2> HIDE DEF Good
  <2>1. QED  BY <1>1, <1>6
<1>8. {b[i] : i \in 1 .. Len(b)} = Elements(b)
  BY <1>1 DEF Elements
<1>9. QED  BY <1>2, <1>7, <1>8

\* So put never finds a prefix missing where the version is the one it has.
LEMMA CandidateKeeps ==
  ASSUME NEW S, NEW log \in Seq(S), NEW b \in Seq(S)
  PROVE  Keeps(log, Candidate(log, b))
<1>1. PICK new : new = Candidate(log, b)
  OBVIOUS
<1>2. /\ new \in Seq(S) /\ Len(log) <= Len(new) /\ \A i \in 1 .. Len(log) : new[i] = log[i]
  BY <1>1, CandidateLog
<1>3. Len(log) \in Nat /\ Len(new) \in Nat
  BY <1>2, LenProperties
<1>4. PICK p : p = SubSeq(new, 1, Len(log))
  OBVIOUS
<1>5. p \in Seq(S) /\ Len(p) = Len(log) /\ \A i \in 1 .. Len(log) : p[i] = new[i]
  <2>1. \A i \in 1 .. Len(log) : i \in 1 .. Len(new)
    BY <1>2, <1>3
  <2>2. \A i \in 1 .. Len(log) : new[i] \in S
    BY <1>2, <2>1, ElementOfSeq
  <2>3. QED  BY <1>2, <1>3, <1>4, <2>2, SubSeqProperties
<1>6. p = log
  BY <1>2, <1>5, SeqEqual
<1>7. QED  BY <1>1, <1>2, <1>4, <1>6 DEF Keeps

-------------------------------------------------------------------------------
(* The inductive invariant                                                     *)

Quiet == {"closed", "loading", "seeding", "idle"}

TaskInv(t) ==
  /\ phase[t] \in Quiet => batch[t] = Null /\ base[t] = Null /\ tries[t] = 0 /\ beaten[t] = 0
  /\ phase[t] \in {"putting", "rebasing"} => batch[t] # Null
  /\ phase[t] \in {"putting", "rebasing", "replacing"} => base[t] # Null
  /\ base[t] # Null => stored # Null
  /\ phase[t] = "putting" => tries[t] < MaxAttempts /\ Reduces(Candidate(base[t], batch[t]))
  /\ batch[t] # Null => tries[t] <= 1 + beaten[t]
  /\ phase[t] = "putting" /\ base[t] # stored => tries[t] <= beaten[t]

StoreInv ==
  /\ TypeOK
  /\ \A s \in Session : loaded[s] # Null => stored # Null
  /\ stored = Null => acknowledged = {}
  /\ AcknowledgedKept
  /\ \A t \in Task : TaskInv(t)

LEMMA OwnersAreSessions ==
  ASSUME NEW t \in Task
  PROVE  Owner[t] \in Session
BY StoreAssumption

LEMMA InitiallyHolds == Init => StoreInv
<1> SUFFICES ASSUME Init PROVE StoreInv
  OBVIOUS
<1>1. TypeOK
  BY StoreAssumption DEF Init, TypeOK, Phase
<1>2. \A t \in Task : TaskInv(t)
  BY DEF Init, TaskInv, Quiet
<1>3. QED  BY <1>1, <1>2 DEF Init, StoreInv, AcknowledgedKept

\* A step of one task that leaves the store and what it has acknowledged.
LEMMA TaskStepKeeps ==
  ASSUME StoreInv, NEW t \in Task, NEW p \in Phase, NEW b \in Batch \cup {Null},
         NEW d \in Log \cup {Null}, NEW n \in 0 .. MaxAttempts,
         UNCHANGED <<stored, loaded, resets, beaten, acknowledged>>, faults' \in 0 .. MaxFaults,
         phase' = [phase EXCEPT ![t] = p], batch' = [batch EXCEPT ![t] = b],
         base' = [base EXCEPT ![t] = d], tries' = [tries EXCEPT ![t] = n],
         TaskInv(t)'
  PROVE  StoreInv'
<1>1. TypeOK'
  BY DEF StoreInv, TypeOK
<1>2. \A u \in Task : TaskInv(u)'
  <2>1. ASSUME NEW u \in Task, u # t PROVE TaskInv(u)'
    <3>1. /\ phase'[u] = phase[u] /\ batch'[u] = batch[u] /\ base'[u] = base[u]
          /\ tries'[u] = tries[u] /\ beaten'[u] = beaten[u] /\ stored' = stored
      BY <2>1 DEF StoreInv, TypeOK
    <3>2. TaskInv(u)
      BY DEF StoreInv
    <3>3. QED  BY <3>1, <3>2 DEF TaskInv
  <2>2. QED  BY <2>1
<1>3. QED  BY <1>1, <1>2 DEF StoreInv, AcknowledgedKept

\* The calls of some tasks end, with a log in the store.
LEMMA ReturnKeeps ==
  ASSUME StoreInv, NEW T, NEW p, p \in {"closed", "idle"}, NEW log, log \in Log \cup {Null},
         Return(T, p, log), log = Null => stored = Null,
         loaded' \in [Session -> Log \cup {Null}], \A s \in Session : loaded'[s] # Null => log # Null,
         resets' \in 0 .. MaxResets, faults' \in 0 .. MaxFaults, acknowledged' \subseteq Event,
         log = Null => acknowledged' = {}, log # Null => acknowledged' \subseteq Elements(log)
  PROVE  StoreInv'
<1>1. TypeOK
  BY DEF StoreInv
<1>2. /\ phase' = [t \in Task |-> IF t \in T THEN p ELSE phase[t]]
      /\ batch' = [t \in Task |-> IF t \in T THEN Null ELSE batch[t]]
      /\ base' = [t \in Task |-> IF t \in T THEN Null ELSE base[t]]
      /\ tries' = [t \in Task |-> IF t \in T THEN 0 ELSE tries[t]]
      /\ stored' = log
      /\ beaten' = [t \in Task |-> IF t \in T THEN 0
                                   ELSE IF batch[t] # Null /\ log # stored THEN beaten[t] + 1 ELSE beaten[t]]
  BY DEF Return
<1>3. TypeOK'
  <2>1. phase' \in [Task -> Phase] /\ batch' \in [Task -> Batch \cup {Null}]
    BY <1>1, <1>2 DEF TypeOK, Phase
  <2>2. base' \in [Task -> Log \cup {Null}]
    BY <1>1, <1>2 DEF TypeOK
  <2>3. tries' \in [Task -> 0 .. MaxAttempts]
    BY <1>1, <1>2, StoreAssumption DEF TypeOK
  <2>4. beaten' \in [Task -> Nat]
    BY <1>1, <1>2 DEF TypeOK
  <2>5. QED  BY <1>2, <2>1, <2>2, <2>3, <2>4 DEF TypeOK
<1>4. ASSUME NEW t \in Task PROVE TaskInv(t)'
  <2>1. CASE t \in T
    <3>1. /\ phase'[t] = p /\ batch'[t] = Null /\ base'[t] = Null /\ tries'[t] = 0 /\ beaten'[t] = 0
      BY <1>2, <2>1
    <3>2. QED  BY <3>1 DEF TaskInv
  <2>2. CASE t \notin T
    <3>1. /\ phase'[t] = phase[t] /\ batch'[t] = batch[t] /\ base'[t] = base[t] /\ tries'[t] = tries[t]
          /\ beaten'[t] = IF batch[t] # Null /\ log # stored THEN beaten[t] + 1 ELSE beaten[t]
          /\ stored' = log
      BY <1>2, <2>2
    <3>2. TaskInv(t) /\ beaten[t] \in Nat /\ tries[t] \in Nat
      BY <1>1, StoreAssumption DEF StoreInv, TypeOK
    <3>3. CASE log = stored
      <4>1. beaten'[t] = beaten[t] /\ stored' = stored
        BY <3>1, <3>3
      <4>2. QED  BY <3>1, <3>2, <4>1 DEF TaskInv
    <3>4. CASE log # stored
      <4>1. log # Null \/ stored # Null
        BY <3>4
      <4>2. log # Null
        BY <4>1
      <4>3. CASE batch[t] = Null
        <5>1. beaten'[t] = beaten[t] /\ phase[t] \notin {"putting", "rebasing"}
          BY <3>1, <3>2, <4>3 DEF TaskInv
        <5>2. QED  BY <3>1, <3>2, <4>2, <4>3, <5>1 DEF TaskInv
      <4>4. CASE batch[t] # Null
        <5>1. beaten'[t] = beaten[t] + 1 /\ phase[t] \notin Quiet /\ tries[t] <= 1 + beaten[t]
          BY <3>1, <3>2, <3>4, <4>4 DEF TaskInv
        <5>2. tries'[t] <= beaten'[t] /\ tries'[t] <= 1 + beaten'[t]
          BY <3>1, <3>2, <5>1
        <5>3. QED  BY <3>1, <3>2, <4>2, <5>1, <5>2 DEF TaskInv
      <4>5. QED  BY <4>3, <4>4
    <3>5. QED  BY <3>3, <3>4
  <2>3. QED  BY <2>1, <2>2
<1>5. QED  BY <1>2, <1>3, <1>4 DEF StoreInv, AcknowledgedKept

\* They end and leave the store as it is.
LEMMA EndKeeps ==
  ASSUME StoreInv, NEW T, NEW p, p \in {"closed", "idle"}, Return(T, p, stored),
         \/ UNCHANGED loaded
         \/ \E s \in Session : \E d \in {stored, Null} : loaded' = [loaded EXCEPT ![s] = d],
         UNCHANGED <<resets, acknowledged>>, faults' \in 0 .. MaxFaults
  PROVE  StoreInv'
<1>1. TypeOK /\ \A s \in Session : loaded[s] # Null => stored # Null
  BY DEF StoreInv
<1>2. loaded' \in [Session -> Log \cup {Null}] /\ \A s \in Session : loaded'[s] # Null => stored # Null
  <2>1. CASE UNCHANGED loaded
    BY <1>1, <2>1 DEF TypeOK
  <2>2. CASE \E s \in Session : \E d \in {stored, Null} : loaded' = [loaded EXCEPT ![s] = d]
    BY <1>1, <2>2 DEF TypeOK
  <2>3. QED  BY <2>1, <2>2
<1>3. /\ stored \in Log \cup {Null} /\ resets' \in 0 .. MaxResets /\ acknowledged' \subseteq Event
      /\ stored = Null => acknowledged' = {}
      /\ stored # Null => acknowledged' \subseteq Elements(stored)
  BY DEF StoreInv, TypeOK, AcknowledgedKept
<1>4. QED  BY <1>2, <1>3, ReturnKeeps

\* A step that only moves a task on.
LEMMA PhaseStepKeeps ==
  ASSUME StoreInv, NEW t \in Task, NEW p, p \in Phase, Step(t, p),
         UNCHANGED <<ledger, loaded, request>>, faults' \in 0 .. MaxFaults,
         /\ p \in Quiet => phase[t] \in Quiet
         /\ p = "rebasing" => phase[t] = "putting"
         /\ p \notin {"putting", "replacing"}
  PROVE  StoreInv'
<1>1. /\ phase' = [phase EXCEPT ![t] = p]
      /\ UNCHANGED <<stored, loaded, resets, beaten, acknowledged, batch, base, tries>>
  BY DEF Step, ledger, request
<1>2. TypeOK /\ TaskInv(t)
  BY DEF StoreInv
<1>3. TypeOK'
  BY <1>1, <1>2 DEF TypeOK
<1>4. phase'[t] = p /\ \A u \in Task : u # t => phase'[u] = phase[u]
  BY <1>1, <1>2 DEF TypeOK
<1>5. ASSUME NEW u \in Task PROVE TaskInv(u)'
  <2>1. CASE u = t
    <3>1. /\ batch'[u] = batch[u] /\ base'[u] = base[u] /\ tries'[u] = tries[u] /\ beaten'[u] = beaten[u]
          /\ stored' = stored /\ phase'[u] = p
      BY <1>1, <1>4, <2>1
    <3>2. QED  BY <1>2, <2>1, <3>1 DEF TaskInv
  <2>2. CASE u # t
    <3>1. TaskInv(u) /\ phase'[u] = phase[u]
      BY <1>4, <2>2 DEF StoreInv
    <3>2. QED  BY <1>1, <3>1 DEF TaskInv
  <2>3. QED  BY <2>1, <2>2
<1>6. QED  BY <1>1, <1>3, <1>5 DEF StoreInv, AcknowledgedKept

\* Opening a page, and what a load or a reset goes through.
LEMMA MovesKeep ==
  ASSUME StoreInv, NEW t \in Task,
         \/ Open(t) \/ LoadNothing(t) \/ SeedConflict(t) \/ GiveUp(t)
         \/ ReplaceConflict(t) \/ ReplaceFails(t)
  PROVE  StoreInv'
<1>1. TypeOK
  BY DEF StoreInv
<1>2. faults \in 0 .. MaxFaults /\ MaxFaults \in Nat
  BY <1>1, StoreAssumption DEF TypeOK
<1>3. CASE Open(t)
  <2>1. phase[t] = "closed"
    BY <1>3 DEF Open, Mine
  <2>2. QED  BY <1>2, <1>3, <2>1, PhaseStepKeeps DEF Open, Phase, Quiet
<1>4. CASE LoadNothing(t)
  BY <1>2, <1>4, PhaseStepKeeps DEF LoadNothing, Phase, Quiet
<1>5. CASE SeedConflict(t)
  BY <1>2, <1>5, PhaseStepKeeps DEF SeedConflict, Phase, Quiet
<1>6. CASE GiveUp(t)
  BY <1>2, <1>6, PhaseStepKeeps DEF GiveUp, Phase, Quiet
<1>7. CASE ReplaceConflict(t)
  BY <1>2, <1>7, PhaseStepKeeps DEF ReplaceConflict, Phase, Quiet
<1>8. CASE ReplaceFails(t)
  <2>1. faults' \in 0 .. MaxFaults
    BY <1>2, <1>8 DEF ReplaceFails
  <2>2. QED  BY <1>8, <2>1, PhaseStepKeeps DEF ReplaceFails, Phase, Quiet
<1>9. QED  BY <1>3, <1>4, <1>5, <1>6, <1>7, <1>8

\* The ends that leave the store as it is.
LEMMA EndsKeep ==
  ASSUME StoreInv, NEW t \in Task, Load(t) \/ Refuse(t) \/ Surface(t) \/ PutFails(t)
  PROVE  StoreInv'
<1>1. faults \in 0 .. MaxFaults /\ MaxFaults \in Nat /\ Owner[t] \in Session
  BY StoreAssumption DEF StoreInv, TypeOK
<1>2. CASE Load(t)
  BY <1>1, <1>2, EndKeeps DEF Load, Install
<1>3. CASE Refuse(t)
  BY <1>1, <1>3, EndKeeps DEF Refuse
<1>4. CASE Surface(t)
  BY <1>1, <1>4, EndKeeps DEF Surface, Install
<1>5. CASE PutFails(t)
  <2>1. faults' \in 0 .. MaxFaults
    BY <1>1, <1>5 DEF PutFails
  <2>2. QED  BY <1>5, <2>1, EndKeeps DEF PutFails
<1>6. QED  BY <1>2, <1>3, <1>4, <1>5

LEMMA CloseKeeps ==
  ASSUME StoreInv, NEW s \in Session, Close(s)
  PROVE  StoreInv'
<1>1. faults' \in 0 .. MaxFaults
  BY StoreAssumption DEF StoreInv, TypeOK, Close
<1>2. QED  BY <1>1, EndKeeps DEF Close, Install

LEMMA PutSeedKeeps ==
  ASSUME StoreInv, NEW t \in Task, PutSeed(t) \/ Replace(t)
  PROVE  StoreInv'
<1>1. TypeOK /\ Seed \in Log /\ Null \notin Log /\ Owner[t] \in Session
  BY StoreAssumption DEF StoreInv, Log
<1>2. /\ Return(Mine(Owner[t]), "idle", Seed) \/ Return({t}, "idle", Seed)
      /\ loaded' = [loaded EXCEPT ![Owner[t]] = Seed] /\ UNCHANGED faults
  BY DEF PutSeed, Replace, Install
<1>3. loaded' \in [Session -> Log \cup {Null}]
  BY <1>1, <1>2 DEF TypeOK
<1>4. resets' \in 0 .. MaxResets /\ acknowledged' = {}
  BY <1>1, StoreAssumption DEF PutSeed, Replace, TypeOK, StoreInv
<1>5. faults' \in 0 .. MaxFaults
  BY <1>1, <1>2 DEF TypeOK
<1>6. QED  BY <1>1, <1>2, <1>3, <1>4, <1>5, ReturnKeeps

LEMMA BeginKeeps ==
  ASSUME StoreInv, NEW t \in Task, NEW b \in Batch, Begin(t, b)
  PROVE  StoreInv'
<1>1. TypeOK /\ TaskInv(t) /\ Owner[t] \in Session
  BY StoreAssumption DEF StoreInv
<1>2. PICK d : d = loaded[Owner[t]]
  OBVIOUS
<1>3. /\ phase[t] = "idle" /\ d # Null /\ d \in Log \cup {Null} /\ Reduces(Candidate(d, b)) /\ stored # Null
  BY <1>1, <1>2 DEF Begin, Ready, StoreInv, TypeOK
<1>4. /\ batch' = [batch EXCEPT ![t] = b] /\ base' = [base EXCEPT ![t] = d]
      /\ phase' = [phase EXCEPT ![t] = "putting"] /\ UNCHANGED <<ledger, loaded, tries, faults, beaten>>
  BY <1>2 DEF Begin, Step
<1>5. /\ tries' = [tries EXCEPT ![t] = 0] /\ tries[t] = 0 /\ beaten[t] = 0
      /\ UNCHANGED <<stored, loaded, resets, beaten, acknowledged>>
  BY <1>1, <1>3, <1>4 DEF TaskInv, Quiet, TypeOK, ledger
<1>6. /\ phase'[t] = "putting" /\ batch'[t] = b /\ base'[t] = d /\ tries'[t] = 0
      /\ beaten'[t] = 0 /\ stored' = stored
  BY <1>1, <1>4, <1>5 DEF TypeOK
<1>7. b # Null /\ 0 < MaxAttempts /\ 0 \in 0 .. MaxAttempts
  BY StoreAssumption
<1>8. TaskInv(t)'
  BY <1>3, <1>6, <1>7 DEF TaskInv, Quiet
<1>9. faults' \in 0 .. MaxFaults /\ "putting" \in Phase
  BY <1>1, <1>4 DEF TypeOK, Phase
<1>10. QED  BY <1>3, <1>4, <1>5, <1>7, <1>8, <1>9, TaskStepKeeps

\* While the version is the one that was read, the immutable prefix is there too:
\* a conflict is a version that another has changed.
LEMMA ConflictMeans ==
  ASSUME StoreInv, NEW t \in Task, phase[t] = "putting", ~Puttable(t)
  PROVE  base[t] # stored
<1>1. batch[t] \in Batch /\ base[t] \in Log
  BY DEF StoreInv, TypeOK, TaskInv
<1>2. batch[t] \in Seq(Event) /\ base[t] \in Seq(Event)
  BY <1>1, StoreAssumption DEF Log
<1>3. Keeps(base[t], Candidate(base[t], batch[t]))
  BY <1>2, CandidateKeeps
<1>4. QED  BY <1>3 DEF Puttable, SameVersion

LEMMA ConflictKeeps ==
  ASSUME StoreInv, NEW t \in Task, Conflict(t)
  PROVE  StoreInv'
<1>1. TypeOK /\ TaskInv(t) /\ phase[t] = "putting" /\ base[t] # stored
  BY ConflictMeans DEF StoreInv, Conflict
<1>2. PICK p, n : p = (IF batch[t] \in Persistent THEN "rebasing" ELSE "surfacing") /\ n = tries[t] + 1
  OBVIOUS
<1>3. /\ tries[t] \in Nat /\ beaten[t] \in Nat /\ MaxAttempts \in Nat
      /\ tries[t] < MaxAttempts /\ tries[t] <= beaten[t] /\ batch[t] # Null /\ base[t] # Null /\ stored # Null
  BY <1>1, StoreAssumption DEF TaskInv, TypeOK
<1>4. n \in 0 .. MaxAttempts /\ n <= 1 + beaten[t] /\ p \in Phase /\ p \in {"rebasing", "surfacing"}
  BY <1>2, <1>3 DEF Phase
<1>5. /\ phase' = [phase EXCEPT ![t] = p] /\ tries' = [tries EXCEPT ![t] = n]
      /\ UNCHANGED <<stored, resets, acknowledged, loaded, batch, base, faults, beaten>>
  BY <1>2 DEF Conflict, Step, ledger
<1>6. batch' = [batch EXCEPT ![t] = batch[t]] /\ base' = [base EXCEPT ![t] = base[t]]
  BY <1>1, <1>5 DEF TypeOK
<1>7. phase'[t] = p /\ tries'[t] = n
  BY <1>1, <1>5 DEF TypeOK
<1>8. TaskInv(t)'
  BY <1>3, <1>4, <1>5, <1>7 DEF TaskInv, Quiet
<1>9. faults' \in 0 .. MaxFaults /\ batch[t] \in Batch \cup {Null} /\ base[t] \in Log \cup {Null}
  BY <1>1, <1>5 DEF TypeOK
<1>10. QED  BY <1>4, <1>5, <1>6, <1>8, <1>9, TaskStepKeeps

LEMMA RebaseKeeps ==
  ASSUME StoreInv, NEW t \in Task, Rebase(t)
  PROVE  StoreInv'
<1>1. TypeOK /\ TaskInv(t) /\ phase[t] = "rebasing"
  BY DEF StoreInv, Rebase
<1>2. /\ base' = [base EXCEPT ![t] = stored] /\ phase' = [phase EXCEPT ![t] = "putting"]
      /\ tries[t] < MaxAttempts /\ Reduces(Candidate(stored, batch[t]))
      /\ UNCHANGED <<stored, resets, acknowledged, loaded, batch, tries, faults, beaten>>
  BY DEF Rebase, Step, ledger
<1>3. batch[t] # Null /\ stored # Null /\ tries[t] <= 1 + beaten[t]
  BY <1>1 DEF TaskInv
<1>4. batch' = [batch EXCEPT ![t] = batch[t]] /\ tries' = [tries EXCEPT ![t] = tries[t]]
  BY <1>1, <1>2 DEF TypeOK
<1>5. phase'[t] = "putting" /\ base'[t] = stored
  BY <1>1, <1>2 DEF TypeOK
<1>6. TaskInv(t)'
  BY <1>2, <1>3, <1>5 DEF TaskInv, Quiet
<1>7. /\ faults' \in 0 .. MaxFaults /\ batch[t] \in Batch \cup {Null} /\ stored \in Log \cup {Null}
      /\ tries[t] \in 0 .. MaxAttempts /\ "putting" \in Phase
  BY <1>1, <1>2 DEF TypeOK, Phase
<1>8. QED  BY <1>2, <1>4, <1>6, <1>7, TaskStepKeeps

LEMMA BeginResetKeeps ==
  ASSUME StoreInv, NEW t \in Task, BeginReset(t)
  PROVE  StoreInv'
<1>1. TypeOK /\ TaskInv(t) /\ phase[t] = "idle" /\ Owner[t] \in Session
  BY StoreAssumption DEF StoreInv, BeginReset, Ready
<1>2. PICK d : d = loaded[Owner[t]]
  OBVIOUS
<1>3. d # Null /\ d \in Log \cup {Null} /\ stored # Null
  BY <1>1, <1>2 DEF BeginReset, Ready, StoreInv, TypeOK
<1>4. /\ base' = [base EXCEPT ![t] = d] /\ phase' = [phase EXCEPT ![t] = "replacing"]
      /\ UNCHANGED <<stored, resets, acknowledged, loaded, batch, tries, faults, beaten>>
  BY <1>2 DEF BeginReset, Step, ledger
<1>5. batch' = [batch EXCEPT ![t] = batch[t]] /\ tries' = [tries EXCEPT ![t] = tries[t]]
  BY <1>1, <1>4 DEF TypeOK
<1>6. phase'[t] = "replacing" /\ base'[t] = d /\ batch[t] = Null
  BY <1>1, <1>4 DEF TypeOK, TaskInv, Quiet
<1>7. TaskInv(t)'
  BY <1>3, <1>4, <1>6 DEF TaskInv, Quiet
<1>8. /\ faults' \in 0 .. MaxFaults /\ batch[t] \in Batch \cup {Null}
      /\ tries[t] \in 0 .. MaxAttempts /\ "replacing" \in Phase
  BY <1>1, <1>4 DEF TypeOK, Phase
<1>9. QED  BY <1>3, <1>4, <1>5, <1>7, <1>8, TaskStepKeeps

LEMMA CommitKeeps ==
  ASSUME StoreInv, NEW t \in Task, Commit(t)
  PROVE  StoreInv'
<1>1. TypeOK /\ TaskInv(t) /\ phase[t] = "putting" /\ Owner[t] \in Session
  BY StoreAssumption DEF StoreInv, Commit
<1>2. PICK b, d, log : b = batch[t] /\ d = base[t] /\ log = Candidate(d, b)
  OBVIOUS
<1>3. b \in Batch /\ d \in Log /\ stored = d /\ stored # Null
  BY <1>1, <1>2 DEF Commit, Puttable, SameVersion, TypeOK, TaskInv
<1>4. b \in Seq(Event) /\ d \in Seq(Event)
  BY <1>3, StoreAssumption DEF Log
<1>5. log \in Seq(Event) /\ Elements(log) = Elements(d) \cup Elements(b)
  BY <1>2, <1>4, CandidateLog
<1>6. log \in Log /\ log # Null
  BY <1>5, StoreAssumption DEF Log
<1>7. /\ acknowledged' = acknowledged \cup Elements(b)
      /\ loaded' = [loaded EXCEPT ![Owner[t]] = log] /\ Return({t}, "idle", log)
      /\ UNCHANGED <<resets, faults>>
  BY <1>2 DEF Commit, Install
<1>8. Elements(b) \subseteq Event
  <2>1. DOMAIN b = 1 .. Len(b) /\ \A i \in 1 .. Len(b) : b[i] \in Event
    BY <1>4, LenProperties, ElementOfSeq
  <2>2. QED  BY <2>1 DEF Elements
<1>9. acknowledged' \subseteq Event /\ acknowledged' \subseteq Elements(log)
  BY <1>1, <1>3, <1>5, <1>7, <1>8 DEF StoreInv, AcknowledgedKept, TypeOK
<1>10. loaded' \in [Session -> Log \cup {Null}]
  BY <1>1, <1>6, <1>7 DEF TypeOK
<1>11. resets' \in 0 .. MaxResets /\ faults' \in 0 .. MaxFaults
  BY <1>1, <1>7 DEF TypeOK
<1>12. QED  BY <1>6, <1>7, <1>9, <1>10, <1>11, ReturnKeeps

LEMMA StepsKeepInvariant == StoreInv /\ [Next]_vars => StoreInv'
<1> SUFFICES ASSUME StoreInv, [Next]_vars PROVE StoreInv'
  OBVIOUS
<1>1. CASE UNCHANGED vars
  BY <1>1 DEF vars, StoreInv, TypeOK, AcknowledgedKept, TaskInv
<1>2. CASE \E s \in Session : Close(s)
  BY <1>2, CloseKeeps
<1>3. ASSUME NEW t \in Task,
             \/ Open(t) \/ Load(t) \/ LoadNothing(t) \/ PutSeed(t) \/ SeedConflict(t)
             \/ \E b \in Batch : Begin(t, b)
             \/ Commit(t) \/ Conflict(t) \/ Rebase(t) \/ Refuse(t) \/ GiveUp(t)
             \/ Surface(t) \/ PutFails(t)
             \/ BeginReset(t) \/ Replace(t) \/ ReplaceConflict(t) \/ ReplaceFails(t)
      PROVE  StoreInv'
  BY <1>3, MovesKeep, EndsKeep, PutSeedKeeps, BeginKeeps, CommitKeeps, ConflictKeeps, RebaseKeeps, BeginResetKeeps
<1>4. QED  BY <1>1, <1>2, <1>3 DEF Next

\* In every state the documents and tasks are well formed, nothing is held or
\* installed of a document that never was, what is about to be put reduces, and
\* who has met a conflict was beaten by another.
THEOREM StoreInvariant == Spec => []StoreInv
<1>1. QED  BY InitiallyHolds, StepsKeepInvariant, PTL DEF Spec

\* Type correctness of the store and the tasks that write to it.
THEOREM TypeCorrect == Spec => []TypeOK
<1>1. StoreInv => TypeOK
  BY DEF StoreInv
<1>2. QED  BY <1>1, StoreInvariant, PTL

\* What was reported as saved is in the ledger until the ledger is reset (append,
\* appendWithConflictRecovery and put).
THEOREM SavedIsKept == Spec => []AcknowledgedKept
<1>1. StoreInv => AcknowledgedKept
  BY DEF StoreInv
<1>2. QED  BY <1>1, StoreInvariant, PTL

\* A conflict is the doing of another writer, so an operation gives up only when
\* others have written almost as often as it has tried (appendWithConflictRecovery).
THEOREM ConflictsAreOfOthers == Spec => []ConflictsAreOthers
<1>1. StoreInv => ConflictsAreOthers
  BY DEF StoreInv, TaskInv, ConflictsAreOthers
<1>2. QED  BY <1>1, StoreInvariant, PTL

-------------------------------------------------------------------------------
(* The store and its clients implement one log                                 *)

PromiseVars == <<stored, Wanted>>

LEMMA WantedOf ==
  ASSUME StoreInv, NEW t \in Task
  PROVE  /\ Wanted[t] = IF phase[t] \in {"putting", "rebasing"} THEN batch[t] ELSE Null
         /\ Wanted \in [Task -> Batch \cup {Null}]
BY DEF StoreInv, TypeOK, Wanted

LEMMA InitiallyPromised == Init => Promise!Init
<1> SUFFICES ASSUME Init PROVE Promise!Init
  OBVIOUS
<1>1. Wanted = [t \in Task |-> Null]
  BY DEF Init, Wanted
<1>2. QED  BY <1>1 DEF Init, Promise!Init

\* What a task wants depends on where it is and on its batch.
LEMMA SameWanted ==
  ASSUME StoreInv, NEW t \in Task, NEW p,
         phase' = [phase EXCEPT ![t] = p], UNCHANGED batch,
         phase[t] \in {"putting", "rebasing"} <=> p \in {"putting", "rebasing"}
  PROVE  Wanted' = Wanted
<1>1. ASSUME NEW u \in Task
      PROVE  (IF phase'[u] \in {"putting", "rebasing"} THEN batch'[u] ELSE Null)
             = (IF phase[u] \in {"putting", "rebasing"} THEN batch[u] ELSE Null)
  BY DEF StoreInv, TypeOK
<1>2. QED  BY <1>1 DEF Wanted

\* A call that leaves putting and rebasing wants nothing any more.
LEMMA WantedNoMore ==
  ASSUME StoreInv, NEW t \in Task, NEW p, p \notin {"putting", "rebasing"},
         phase' = [phase EXCEPT ![t] = p], UNCHANGED <<stored, batch>>
  PROVE  Promise!Next
<1>1. ASSUME NEW u \in Task
      PROVE  (IF phase'[u] \in {"putting", "rebasing"} THEN batch'[u] ELSE Null)
             = (IF u \in {t} THEN Null ELSE Wanted[u])
  BY DEF StoreInv, TypeOK, Wanted
<1>2. Wanted' = [u \in Task |-> IF u \in {t} THEN Null ELSE Wanted[u]]
  BY <1>1 DEF Wanted
<1>3. Promise!GiveUp({t})
  BY <1>2 DEF Promise!GiveUp
<1>4. QED  BY <1>3 DEF Promise!Next

LEMMA WantedAfterReturn ==
  ASSUME StoreInv, NEW T, NEW p, p \in {"closed", "idle"}, NEW log, Return(T, p, log)
  PROVE  /\ stored' = log
         /\ Wanted' = [t \in Task |-> IF t \in T THEN Null ELSE Wanted[t]]
<1>1. /\ phase' = [t \in Task |-> IF t \in T THEN p ELSE phase[t]]
      /\ batch' = [t \in Task |-> IF t \in T THEN Null ELSE batch[t]]
      /\ stored' = log
  BY DEF Return
<1>2. ASSUME NEW t \in Task
      PROVE  (IF phase'[t] \in {"putting", "rebasing"} THEN batch'[t] ELSE Null)
             = (IF t \in T THEN Null ELSE Wanted[t])
  BY <1>1 DEF Wanted
<1>3. QED  BY <1>1, <1>2 DEF Wanted

\* Calls end without a write.
LEMMA EndPromised ==
  ASSUME StoreInv, NEW T, T \subseteq Task, T # {}, NEW p, p \in {"closed", "idle"},
         Return(T, p, stored)
  PROVE  Promise!Next
<1>1. stored' = stored /\ Wanted' = [t \in Task |-> IF t \in T THEN Null ELSE Wanted[t]]
  BY WantedAfterReturn
<1>2. Promise!GiveUp(T)
  BY <1>1 DEF Promise!GiveUp
<1>3. QED  BY <1>2 DEF Promise!Next

LEMMA EndsPromised ==
  ASSUME StoreInv, NEW t \in Task, Load(t) \/ Refuse(t) \/ Surface(t) \/ PutFails(t)
  PROVE  Promise!Next
<1>1. Return(Mine(Owner[t]), "idle", stored) \/ Return({t}, "idle", stored)
  BY DEF Load, Refuse, Surface, PutFails
<1>2. Mine(Owner[t]) \subseteq Task /\ Mine(Owner[t]) # {}
  BY DEF Mine
<1>3. QED  BY <1>1, <1>2, EndPromised

LEMMA ClosePromised ==
  ASSUME StoreInv, NEW s \in Session, Close(s)
  PROVE  Promise!Next
<1>1. Return(Mine(s), "closed", stored) /\ Mine(s) \subseteq Task /\ Mine(s) # {}
  BY DEF Close, Mine
<1>2. QED  BY <1>1, EndPromised

LEMMA MovesPromised ==
  ASSUME StoreInv, NEW t \in Task,
         \/ Open(t) \/ LoadNothing(t) \/ SeedConflict(t) \/ GiveUp(t)
         \/ BeginReset(t) \/ ReplaceConflict(t) \/ ReplaceFails(t)
  PROVE  [Promise!Next]_PromiseVars
<1>1. CASE GiveUp(t)
  BY <1>1, WantedNoMore DEF GiveUp, Step, ledger, request
<1>2. CASE Open(t) \/ LoadNothing(t) \/ SeedConflict(t) \/ BeginReset(t) \/ ReplaceConflict(t) \/ ReplaceFails(t)
  <2>1. phase[t] \notin {"putting", "rebasing"}
    BY <1>2 DEF Open, Mine, LoadNothing, SeedConflict, BeginReset, Ready, ReplaceConflict, ReplaceFails
  <2>2. /\ \E p \in {"loading", "seeding", "replacing", "surfacing"} : phase' = [phase EXCEPT ![t] = p]
        /\ UNCHANGED <<stored, batch>>
    BY <1>2 DEF Open, LoadNothing, SeedConflict, BeginReset, ReplaceConflict, ReplaceFails, Step, ledger, request
  <2>3. Wanted' = Wanted
    BY <2>1, <2>2, SameWanted
  <2>4. QED  BY <2>2, <2>3 DEF PromiseVars
<1>3. QED  BY <1>1, <1>2

LEMMA ConflictPromised ==
  ASSUME StoreInv, NEW t \in Task, Conflict(t) \/ Rebase(t)
  PROVE  [Promise!Next]_PromiseVars
<1>1. UNCHANGED <<stored, batch>>
  BY DEF Conflict, Rebase, ledger
<1>2. CASE Rebase(t)
  <2>1. Wanted' = Wanted
    BY <1>1, <1>2, SameWanted DEF Rebase, Step
  <2>2. QED  BY <1>1, <2>1 DEF PromiseVars
<1>3. CASE Conflict(t) /\ batch[t] \in Persistent
  <2>1. phase[t] = "putting" /\ phase' = [phase EXCEPT ![t] = "rebasing"]
    BY <1>3 DEF Conflict, Step
  <2>2. Wanted' = Wanted
    BY <1>1, <2>1, SameWanted
  <2>3. QED  BY <1>1, <2>2 DEF PromiseVars
<1>4. CASE Conflict(t) /\ batch[t] \notin Persistent
  <2>1. phase' = [phase EXCEPT ![t] = "surfacing"]
    BY <1>4 DEF Conflict, Step
  <2>2. QED  BY <1>1, <2>1, WantedNoMore
<1>5. QED  BY <1>2, <1>3, <1>4

LEMMA BeginPromised ==
  ASSUME StoreInv, NEW t \in Task, NEW b \in Batch, Begin(t, b)
  PROVE  Promise!Next
<1>1. /\ phase[t] = "idle" /\ phase' = [phase EXCEPT ![t] = "putting"]
      /\ batch' = [batch EXCEPT ![t] = b] /\ stored' = stored
  BY DEF Begin, Ready, Step, ledger
<1>2. Wanted[t] = Null /\ Wanted \in [Task -> Batch \cup {Null}]
  BY <1>1, WantedOf
<1>3. ASSUME NEW u \in Task
      PROVE  (IF phase'[u] \in {"putting", "rebasing"} THEN batch'[u] ELSE Null)
             = [Wanted EXCEPT ![t] = b][u]
  BY <1>1, <1>2, WantedOf DEF StoreInv, TypeOK
<1>4. Wanted' = [u \in Task |-> [Wanted EXCEPT ![t] = b][u]]
  BY <1>3 DEF Wanted
<1>5. Wanted' = [Wanted EXCEPT ![t] = b]
  BY <1>2, <1>4
<1>6. Promise!Ask(t, b)
  BY <1>1, <1>2, <1>5 DEF Promise!Ask
<1>7. QED  BY <1>6 DEF Promise!Next

\* The batch is taken whole, on the log of that moment, and the log takes it.
LEMMA CommitPromised ==
  ASSUME StoreInv, NEW t \in Task, Commit(t)
  PROVE  Promise!Next
<1>1. TaskInv(t) /\ phase[t] = "putting" /\ stored = base[t] /\ Return({t}, "idle", Candidate(base[t], batch[t]))
  BY DEF StoreInv, Commit, Puttable, SameVersion
<1>2. Wanted[t] = batch[t] /\ Wanted[t] # Null /\ stored # Null /\ Wanted \in [Task -> Batch \cup {Null}]
  BY <1>1, WantedOf DEF TaskInv
<1>3. Takes(stored, Wanted[t])
  BY <1>1, <1>2 DEF TaskInv, Takes
<1>4. stored' = Candidate(stored, Wanted[t])
  BY <1>1, <1>2, WantedAfterReturn
<1>5. Wanted' = [u \in Task |-> IF u \in {t} THEN Null ELSE Wanted[u]]
  BY <1>1, WantedAfterReturn
<1>6. Wanted' = [Wanted EXCEPT ![t] = Null]
  BY <1>2, <1>5
<1>7. Candidate(stored, Wanted[t]) = Promise!Candidate(stored, Wanted[t])
  BY DEF Candidate, Promise!Candidate, Taken, Promise!Taken, Elements, Promise!Elements
<1>8. Promise!AppendBatch(t)
  BY <1>2, <1>3, <1>4, <1>6, <1>7 DEF Promise!AppendBatch
<1>9. QED  BY <1>8 DEF Promise!Next

\* The first document, and a document replaced: what others wanted they want still.
LEMMA SeedPromised ==
  ASSUME StoreInv, NEW t \in Task, PutSeed(t) \/ Replace(t)
  PROVE  Promise!Next
<1>1. CASE PutSeed(t)
  <2>1. stored = Null /\ Return(Mine(Owner[t]), "idle", Seed)
    BY <1>1 DEF PutSeed
  <2>2. \A u \in Task : Wanted[u] = Null
    BY <2>1, WantedOf DEF StoreInv, TaskInv
  <2>3. stored' = Seed /\ Wanted' = [u \in Task |-> IF u \in Mine(Owner[t]) THEN Null ELSE Wanted[u]]
    BY <2>1, WantedAfterReturn
  <2>4. Wanted' = Wanted
    BY <2>2, <2>3, WantedOf
  <2>5. Promise!Create
    BY <2>1, <2>3, <2>4 DEF Promise!Create
  <2>6. QED  BY <2>5 DEF Promise!Next
<1>2. CASE Replace(t)
  <2>1. phase[t] = "replacing" /\ stored = base[t] /\ Return({t}, "idle", Seed)
    BY <1>2 DEF Replace, SameVersion
  <2>2. Wanted[t] = Null /\ stored # Null
    BY <2>1, WantedOf DEF StoreInv, TaskInv
  <2>3. stored' = Seed /\ Wanted' = [u \in Task |-> IF u \in {t} THEN Null ELSE Wanted[u]]
    BY <2>1, WantedAfterReturn
  <2>4. Wanted' = Wanted
    BY <2>2, <2>3, WantedOf
  <2>5. Promise!Restart
    BY <2>2, <2>3, <2>4 DEF Promise!Restart
  <2>6. QED  BY <2>5 DEF Promise!Next
<1>3. QED  BY <1>1, <1>2

LEMMA StepsArePromised == StoreInv /\ [Next]_vars => [Promise!Next]_PromiseVars
<1> SUFFICES ASSUME StoreInv, [Next]_vars PROVE [Promise!Next]_PromiseVars
  OBVIOUS
<1>1. CASE UNCHANGED vars
  BY <1>1 DEF vars, Wanted, PromiseVars
<1>2. CASE \E s \in Session : Close(s)
  BY <1>2, ClosePromised
<1>3. ASSUME NEW t \in Task,
             \/ Open(t) \/ Load(t) \/ LoadNothing(t) \/ PutSeed(t) \/ SeedConflict(t)
             \/ \E b \in Batch : Begin(t, b)
             \/ Commit(t) \/ Conflict(t) \/ Rebase(t) \/ Refuse(t) \/ GiveUp(t)
             \/ Surface(t) \/ PutFails(t)
             \/ BeginReset(t) \/ Replace(t) \/ ReplaceConflict(t) \/ ReplaceFails(t)
      PROVE  [Promise!Next]_PromiseVars
  BY <1>3, EndsPromised, MovesPromised, ConflictPromised, BeginPromised, CommitPromised, SeedPromised
<1>4. QED  BY <1>1, <1>2, <1>3 DEF Next

\* Sessions, retries, lost pages and resets together behave as one log to which
\* each batch is appended once, whole, and decided by the log at that moment
\* (appendWorldstateLedgerEvents on put: "Kernel failures cannot persist a
\* partial batch").
THEOREM StoreIsAtomicLog == Spec => ImplementsAtomicLog
<1>1. Init => Promise!Init
  BY InitiallyPromised
<1>2. StoreInv /\ [Next]_vars => [Promise!Next]_(Promise!vars)
  BY StepsArePromised DEF PromiseVars, Promise!vars
<1>3. QED  BY <1>1, <1>2, StoreInvariant, PTL DEF Spec, ImplementsAtomicLog, Promise!Spec
===============================================================================
