------------------------ MODULE DelegationSessionProofs ------------------------
(* Whatever the number of tabs, tasks, runs, briefs and faults: no worker      *)
(* starts before its authorization is durable, and a live response in the      *)
(* ledger is the one the server keeps.  Every step is reduced to what it does  *)
(* to the ledger, to the server and to the tasks.                              *)
EXTENDS DelegationSession, SessionLedgerProofs

USE DEF SessionAssumption

\* An event that the log of this moment may take.
Proper(e) ==
  \/ e.type \notin {"accepted", "brief", "run", "exchange", "lifecycle"}
  \/ e.type = "accepted" /\ e.sequence \in 0 .. Cardinality(OfType(ledger, "source"))
  \/ e.type = "brief" /\ e.brief = Cardinality(BriefsOf(ledger)) + 1 /\ e.base = HeadOf(ledger)
  \/ /\ e.type = "run" /\ e.run \in Run
     /\ \E b \in BriefsOf(ledger) : b.brief = e.brief /\ (b.mode = "live" => server[e.run] # "none")
     /\ \A f \in RunsOf(ledger) : f.run # e.run
  \/ /\ e.type = "exchange" /\ e.run \in Granted(ledger)
     /\ Final(e.run, e.response) /\ e.response \in Answers
  \/ e.type = "lifecycle" /\ e.status \notin {"eligible", "previewable"}

LedgerStep == ledger' = ledger \/ \E e : ledger' = Extended(e) /\ Proper(e)

SeenStep ==
  /\ seen' \in [Session -> Nat]
  /\ \A s \in Session : seen'[s] <= Len(ledger) \/ seen'[s] = Len(ledger')

ServerStep ==
  /\ server' \in [Run -> ServerState]
  /\ \A r \in Run :
       \/ server'[r] = server[r]
       \/ /\ server[r] \notin Response /\ server'[r] # "none"
          /\ \/ server'[r] = "intended"
             \/ server[r] \notin {"none", "intended"}
             \/ r \in Granted(ledger)

Asking == {"authorizing", "committing"}

TaskStep ==
  /\ pc' = [u \in Task |-> pc'[u]] /\ carried' = [u \in Task |-> carried'[u]]
  /\ subject' \in [Task -> Run \cup {Null}]
  /\ \A t \in Task :
       /\ pc'[t] \in Asking => subject'[t] \in Run
       /\ pc'[t] \in Engaged =>
            \/ pc[t] \in Engaged /\ subject'[t] = subject[t]
            \/ \E e \in Elements(ledger') : e.type = "run" /\ e.run = subject'[t]
       /\ pc'[t] \in Keeping =>
            \/ pc[t] \in Keeping /\ subject'[t] = subject[t] /\ carried'[t] = carried[t]
            \/ subject'[t] \in Granted(ledger) /\ Final(subject'[t], carried'[t])
       /\ pc'[t] = "committing" =>
            \/ pc[t] = "committing" /\ subject'[t] = subject[t]
            \/ server'[subject'[t]] # "none"
       /\ pc'[t] \in Holding =>
            \/ pc[t] \in Holding /\ carried'[t] = carried[t]
            \/ carried'[t] \in Answers

-------------------------------------------------------------------------------
(* Ledgers                                                                     *)

LEMMA EventSets ==
  ASSUME NEW log
  PROVE  /\ BriefsOf(log) = {x \in Elements(log) : x.type = "brief"}
         /\ RunsOf(log) = {x \in Elements(log) : x.type = "run"}
BY EventsOfType DEF BriefsOf, RunsOf

\* The mode of a granted run is that of the one brief of its one authorization.
LEMMA ModeIsBriefs ==
  ASSUME NEW log,
         \A b, c \in BriefsOf(log) : b.brief = c.brief => b = c,
         \A e, f \in RunsOf(log) : e.run = f.run => e = f,
         NEW e \in RunsOf(log), NEW b \in BriefsOf(log), b.brief = e.brief
  PROVE  ModeOf(log, e.run) = b.mode
<1>1. TheRun(log, e.run) = e
  BY DEF TheRun
<1>2. TheBrief(log, e.brief) = b
  BY DEF TheBrief
<1>3. QED  BY <1>1, <1>2 DEF ModeOf

\* Briefs are numbered by what the ledger has, a run is authorized once.
LEMMA LedgerKept ==
  ASSUME ledger \in Seq(Elements(ledger)), Identified, LedgerStep
  PROVE  /\ ledger' \in Seq(Elements(ledger'))
         /\ Len(ledger) \in Nat /\ Len(ledger') \in Nat /\ Len(ledger') >= Len(ledger)
         /\ Elements(ledger) \subseteq Elements(ledger')
         /\ Identified'
<1>1. CASE ledger' = ledger
  <2>1. Identified'
    BY <1>1 DEF Identified, Run
  <2>2. Len(ledger) \in Nat
    BY LenProperties
  <2>3. QED  BY <1>1, <2>1, <2>2
<1>2. ASSUME NEW e, ledger' = Extended(e), Proper(e)
      PROVE  /\ ledger' \in Seq(Elements(ledger'))
             /\ Len(ledger) \in Nat /\ Len(ledger') \in Nat /\ Len(ledger') >= Len(ledger)
             /\ Elements(ledger') = Elements(ledger) \cup {e}
             /\ Identified'
  <2>1. /\ ledger' \in Seq(Elements(ledger'))
        /\ Len(ledger) \in Nat /\ Len(ledger') \in Nat /\ Len(ledger') >= Len(ledger)
        /\ Elements(ledger') = Elements(ledger) \cup {e}
    BY <1>2, ExtendedLog
  <2> DEFINE B == BriefsOf(ledger)
             C == BriefsOf(ledger')
             R == RunsOf(ledger)
             Q == RunsOf(ledger')
  <2>2. /\ C = IF e.type = "brief" THEN B \cup {e} ELSE B
        /\ Q = IF e.type = "run" THEN R \cup {e} ELSE R
    <3>1. /\ B = {x \in Elements(ledger) : x.type = "brief"}
          /\ R = {x \in Elements(ledger) : x.type = "run"}
      BY EventSets
    <3>2. /\ C = {x \in Elements(ledger') : x.type = "brief"}
          /\ Q = {x \in Elements(ledger') : x.type = "run"}
      BY EventSets
    <3> HIDE DEF B, C, R, Q
    <3>3. C = IF e.type = "brief" THEN B \cup {e} ELSE B
      BY <2>1, <3>1, <3>2
    <3>4. Q = IF e.type = "run" THEN R \cup {e} ELSE R
      BY <2>1, <3>1, <3>2
    <3>5. QED  BY <3>3, <3>4
  <2>3. /\ IsFiniteSet(B)
        /\ \A b \in B : b.brief \in 1 .. Cardinality(B)
        /\ \A b, c \in B : b.brief = c.brief => b = c
        /\ \A d \in R : d.run \in Run /\ \E b \in B : b.brief = d.brief
        /\ \A d, f \in R : d.run = f.run => d = f
    BY DEF Identified
  <2>4. Proper(e)
    BY <1>2
  <2>5. /\ e.type = "brief" => e.brief = Cardinality(B) + 1
        /\ e.type = "run" => /\ e.run \in Run
                             /\ \E b \in B : b.brief = e.brief
                             /\ \A f \in R : f.run # e.run
    BY <2>4 DEF Proper
  <2>6. Cardinality(B) \in Nat
    BY <2>3, FS_CardinalityType
  <2> HIDE DEF B, C, R, Q
  <2>7. /\ IsFiniteSet(C)
        /\ e.type = "brief" => Cardinality(C) = Cardinality(B) + 1
    <3>1. CASE e.type = "brief"
      <4>1. e \notin B
        BY <2>3, <2>5, <2>6, <3>1
      <4>2. QED  BY <2>2, <2>3, <3>1, <4>1, FS_AddElement
    <3>2. QED  BY <2>2, <2>3, <3>1
  <2>8. /\ \A b \in C : b.brief \in 1 .. Cardinality(C)
        /\ \A b, c \in C : b.brief = c.brief => b = c
    <3>1. CASE e.type = "brief"
      BY <2>2, <2>3, <2>5, <2>6, <2>7, <3>1
    <3>2. CASE e.type # "brief"
      BY <2>2, <2>3, <3>2
    <3>3. QED  BY <3>1, <3>2
  <2>9. /\ \A d \in Q : d.run \in Run /\ \E b \in C : b.brief = d.brief
        /\ \A d, f \in Q : d.run = f.run => d = f
    <3>1. B \subseteq C
      BY <2>2
    <3>2. CASE e.type = "run"
      BY <2>2, <2>3, <2>5, <3>1, <3>2
    <3>3. CASE e.type # "run"
      BY <2>2, <2>3, <3>1, <3>3
    <3>4. QED  BY <3>2, <3>3
  <2>10. Identified'
    BY <2>7, <2>8, <2>9 DEF Identified, C, Q, Run
  <2>11. QED  BY <2>1, <2>10
<1>3. QED  BY <1>1, <1>2 DEF LedgerStep

\* An authority is not withdrawn, and its mode does not change.
LEMMA GrantsKept ==
  ASSUME Identified, Identified', Elements(ledger) \subseteq Elements(ledger')
  PROVE  /\ \A r \in Granted(ledger) : r \in Granted(ledger')
         /\ \A r \in Granted(ledger) : ModeOf(ledger', r) = ModeOf(ledger, r)
<1>1. BriefsOf(ledger) \subseteq BriefsOf(ledger') /\ RunsOf(ledger) \subseteq RunsOf(ledger')
  BY EventSets
<1>2. \A r \in Granted(ledger) : r \in Granted(ledger')
  BY <1>1 DEF Granted
<1>3. ASSUME NEW r \in Granted(ledger)
      PROVE  ModeOf(ledger', r) = ModeOf(ledger, r)
  <2>1. PICK e \in RunsOf(ledger) : e.run = r
    BY <1>3 DEF Granted
  <2>2. PICK b \in BriefsOf(ledger) : b.brief = e.brief
    BY DEF Identified
  <2>3. ModeOf(ledger, e.run) = b.mode
    BY <2>2, ModeIsBriefs DEF Identified
  <2>4. /\ \A c, d \in BriefsOf(ledger') : c.brief = d.brief => c = d
        /\ \A c, d \in RunsOf(ledger') : c.run = d.run => c = d
    BY DEF Identified
  <2>5. ModeOf(ledger', e.run) = b.mode
    BY <1>1, <2>2, <2>4, ModeIsBriefs
  <2>6. QED  BY <2>1, <2>3, <2>5
<1>4. QED  BY <1>2, <1>3

-------------------------------------------------------------------------------
(* A step of the three kinds keeps the invariant                               *)

Facts == LedgerStep /\ SeenStep /\ ServerStep /\ TaskStep

\* A final response stays the response of its run.
LEMMA FinalKept ==
  ASSUME DelegationInv, LedgerStep, ServerStep,
         NEW r \in Granted(ledger), NEW x, Final(r, x)
  PROVE  /\ r \in Granted(ledger') /\ r \in Run
         /\ ModeOf(ledger', r) = "live" /\ x # "worker_failed" =>
              x \in Response /\ server'[r] = x
<1>1. /\ Identified' /\ Elements(ledger) \subseteq Elements(ledger')
      /\ Identified
  BY LedgerKept DEF DelegationInv, TypeOK
<1>2. r \in Granted(ledger') /\ ModeOf(ledger', r) = ModeOf(ledger, r)
  BY <1>1, GrantsKept
<1>3. r \in Run
  BY <1>1 DEF Identified, Granted
<1>4. server[r] \in Response => server'[r] = server[r]
  BY <1>3 DEF ServerStep
<1>5. QED  BY <1>2, <1>3, <1>4 DEF Final

LEMMA AuthorityKept ==
  ASSUME DelegationInv, Facts
  PROVE  Authority'
<1>1. /\ Identified' /\ Elements(ledger) \subseteq Elements(ledger')
      /\ Identified /\ Authority
  BY LedgerKept DEF DelegationInv, TypeOK, Facts
<1>2. \A r \in Granted(ledger) : r \in Granted(ledger')
  BY <1>1, GrantsKept
<1>3. ASSUME NEW t \in Task, pc'[t] \in Engaged
      PROVE  subject'[t] \in Granted(ledger')
  <2>1. CASE pc[t] \in Engaged /\ subject'[t] = subject[t]
    BY <1>1, <1>2, <2>1 DEF Authority
  <2>2. CASE \E e \in Elements(ledger') : e.type = "run" /\ e.run = subject'[t]
    BY <2>2, EventSets DEF Granted
  <2>3. QED  BY <1>3, <2>1, <2>2 DEF Facts, TaskStep
<1>4. \A t \in Task : pc'[t] \in {"authorizing", "committing"} => subject'[t] \in Run
  BY DEF Facts, TaskStep, Asking
<1>5. QED  BY <1>3, <1>4 DEF Authority, Engaged, Run

LEMMA ExactKept ==
  ASSUME DelegationInv, Facts
  PROVE  Exact'
<1>1. ASSUME NEW t \in Task, pc'[t] \in Keeping
      PROVE  Final(subject[t], carried[t])'
  <2>1. CASE /\ pc[t] \in Keeping
             /\ subject'[t] = subject[t] /\ carried'[t] = carried[t]
    <3>1. Final(subject[t], carried[t])
      BY <2>1 DEF DelegationInv, Exact
    <3>2. pc[t] \in Engaged
      BY <2>1 DEF Keeping, Engaged
    <3>3. subject[t] \in Granted(ledger)
      BY <3>2 DEF DelegationInv, Authority
    <3>4. PICK r, x : r = subject[t] /\ x = carried[t]
      OBVIOUS
    <3>5. r \in Granted(ledger) /\ Final(r, x)
      BY <3>1, <3>3, <3>4
    <3>6. ModeOf(ledger', r) = "live" /\ x # "worker_failed" => x \in Response /\ server'[r] = x
      BY <3>5, FinalKept DEF Facts
    <3>7. QED  BY <2>1, <3>4, <3>6 DEF Final
  <2>2. CASE subject'[t] \in Granted(ledger) /\ Final(subject'[t], carried'[t])
    <3>1. PICK r, x : r = subject'[t] /\ x = carried'[t]
      OBVIOUS
    <3>2. r \in Granted(ledger) /\ Final(r, x)
      BY <2>2, <3>1
    <3>3. ModeOf(ledger', r) = "live" /\ x # "worker_failed" => x \in Response /\ server'[r] = x
      BY <3>2, FinalKept DEF Facts
    <3>4. QED  BY <3>1, <3>3 DEF Final
  <2>3. QED  BY <1>1, <2>1, <2>2 DEF Facts, TaskStep
<1>2. ASSUME NEW x \in Elements(ledger'), x.type = "exchange"
      PROVE  /\ x.run \in Granted(ledger')
             /\ ModeOf(ledger', x.run) = "live" /\ x.response # "worker_failed" =>
                  x.response \in Response /\ server'[x.run] = x.response
  <2>1. x.run \in Granted(ledger) /\ Final(x.run, x.response)
    <3>1. CASE x \in Elements(ledger)
      <4>1. x \in {ledger[i] : i \in OfType(ledger, "exchange")}
        BY <1>2, <3>1, EventsOfType
      <4>2. QED  BY <4>1 DEF DelegationInv, Exact
    <3>2. CASE x \notin Elements(ledger)
      <4>1. PICK e : ledger' = Extended(e) /\ Proper(e)
        BY <3>2 DEF Facts, LedgerStep
      <4>2. Elements(ledger') = Elements(ledger) \cup {e}
        BY <4>1, ExtendedLog DEF DelegationInv, TypeOK
      <4>3. x = e
        BY <3>2, <4>2
      <4>4. QED  BY <1>2, <4>1, <4>3 DEF Proper
    <3>3. QED  BY <3>1, <3>2
  <2>2. PICK r, y : r = x.run /\ y = x.response
    OBVIOUS
  <2>3. r \in Granted(ledger) /\ Final(r, y)
    BY <2>1, <2>2
  <2>4. QED  BY <2>2, <2>3, FinalKept DEF Facts
<1>3. \A i \in OfType(ledger', "exchange") :
        ledger'[i] \in Elements(ledger') /\ ledger'[i].type = "exchange"
  BY DEF OfType, Elements
<1>4. QED  BY <1>1, <1>2, <1>3 DEF Exact, Keeping, Final

LEMMA DurabilityKept ==
  ASSUME DelegationInv, Facts
  PROVE  DispatchedIsDurable'
<1>1. \A r \in Granted(ledger) : r \in Granted(ledger')
  BY LedgerKept, GrantsKept DEF DelegationInv, TypeOK, Facts
<1>2. ASSUME NEW r \in Run, server'[r] \notin {"none", "intended"}
      PROVE  r \in Granted(ledger)
  <2>1. server[r] \notin {"none", "intended"} => r \in Granted(ledger)
    BY DEF DelegationInv, DispatchedIsDurable, Granted
  <2>2. QED  BY <1>2, <2>1 DEF Facts, ServerStep
<1>3. QED  BY <1>1, <1>2 DEF DispatchedIsDurable, Granted, Run

\* The last event is dated by all those before it, the others as they were.
LEMMA DatesKept ==
  ASSUME DelegationInv, LedgerStep
  PROVE  Dated(ledger')
<1>1. ledger \in Seq(Elements(ledger)) /\ Dated(ledger)
  BY DEF DelegationInv, TypeOK
<1>2. CASE ledger' = ledger
  BY <1>1, <1>2
<1>3. ASSUME NEW e, Proper(e), ledger' = Append(ledger, e)
      PROVE  Dated(ledger')
  <2>1. PICK log, new : log = ledger /\ new = Append(log, e)
    OBVIOUS
  <2>2. log \in Seq(Elements(log)) /\ Dated(log)
    BY <1>1, <2>1
  <2>3. /\ Len(log) \in Nat /\ DOMAIN log = 1 .. Len(log)
        /\ \A i \in 1 .. Len(log) : new[i] = log[i]
        /\ new[Len(log) + 1] = e
    BY <2>1, <2>2, AppendedLog, LogDomain
  <2>4. ASSUME NEW type
        PROVE  /\ e.type = type => OfType(new, type) = OfType(log, type) \cup {Len(log) + 1}
               /\ e.type # type => OfType(new, type) = OfType(log, type)
    <3>1. e.type = type => OfType(Append(log, e), type) = OfType(log, type) \cup {Len(log) + 1}
      BY <2>2, AppendedTypes
    <3>2. e.type # type => OfType(Append(log, e), type) = OfType(log, type)
      BY <2>2, AppendedTypes
    <3>3. QED  BY <2>1, <3>1, <3>2
  <2>5. \A type : OfType(log, type) \subseteq 1 .. Len(log)
    BY <2>3 DEF OfType
  <2>6. ASSUME NEW type
        PROVE  /\ \A i \in 1 .. Len(log) : Before(new, type, i) = Before(log, type, i)
               /\ Before(new, type, Len(log) + 1) = OfType(log, type)
    BY <2>3, <2>4, <2>5 DEF Before
  <2>7. ASSUME NEW i \in OfType(new, "accepted")
        PROVE  new[i].sequence \in 0 .. Cardinality(Before(new, "source", i))
    <3>1. CASE i \in OfType(log, "accepted")
      <4>1. i \in 1 .. Len(log) /\ new[i] = log[i]
        BY <2>3, <2>5, <3>1
      <4>2. QED  BY <2>2, <2>6, <3>1, <4>1 DEF Dated
    <3>2. CASE i = Len(log) + 1 /\ e.type = "accepted"
      <4>1. e.sequence \in 0 .. Cardinality(OfType(ledger, "source"))
        BY <1>3, <3>2 DEF Proper
      <4>2. QED  BY <2>1, <2>3, <2>6, <3>2, <4>1
    <3>3. QED  BY <2>4, <2>7, <3>1, <3>2
  <2>8. ASSUME NEW i \in OfType(new, "brief")
        PROVE  new[i].base = Cardinality(Before(new, "accepted", i))
    <3>1. CASE i \in OfType(log, "brief")
      <4>1. i \in 1 .. Len(log) /\ new[i] = log[i]
        BY <2>3, <2>5, <3>1
      <4>2. QED  BY <2>2, <2>6, <3>1, <4>1 DEF Dated
    <3>2. CASE i = Len(log) + 1 /\ e.type = "brief"
      <4>1. e.base = HeadOf(ledger)
        BY <1>3, <3>2 DEF Proper
      <4>2. QED  BY <2>1, <2>3, <2>6, <3>2, <4>1 DEF HeadOf
    <3>3. QED  BY <2>4, <2>8, <3>1, <3>2
  <2>9. Dated(new)
    BY <2>7, <2>8 DEF Dated
  <2>10. QED  BY <1>3, <2>1, <2>9
<1>4. QED  BY <1>2, <1>3 DEF LedgerStep, Extended

\* An intent that the server has kept is not forgotten.
LEMMA MintedKept ==
  ASSUME DelegationInv, Facts
  PROVE  Minted'
<1>1. /\ Identified /\ Identified' /\ Elements(ledger) \subseteq Elements(ledger')
      /\ ledger \in Seq(Elements(ledger)) /\ Minted /\ Authority
  BY LedgerKept DEF DelegationInv, TypeOK, Facts
<1>2. \A r \in Run : server[r] # "none" => server'[r] # "none"
  BY DEF Facts, ServerStep
<1>3. ASSUME NEW t \in Task, pc'[t] = "committing"
      PROVE  server'[subject'[t]] # "none"
  <2>1. CASE pc[t] = "committing" /\ subject'[t] = subject[t]
    <3>1. subject[t] \in Run /\ server[subject[t]] # "none"
      BY <1>1, <2>1 DEF Minted, Authority
    <3>2. QED  BY <1>2, <2>1, <3>1
  <2>2. QED  BY <1>3, <2>1 DEF Facts, TaskStep
<1>4. ASSUME NEW r \in Granted(ledger'), ModeOf(ledger', r) = "live"
      PROVE  server'[r] # "none"
  <2>1. CASE r \in Granted(ledger)
    <3>1. ModeOf(ledger, r) = "live" /\ r \in Run
      BY <1>1, <1>4, <2>1, GrantsKept DEF Identified, Granted
    <3>2. QED  BY <1>1, <1>2, <2>1, <3>1 DEF Minted
  <2>2. CASE r \notin Granted(ledger)
    <3>1. PICK d \in RunsOf(ledger') : d.run = r
      BY <1>4 DEF Granted
    <3>2. d \in Elements(ledger') /\ d.type = "run" /\ d \notin Elements(ledger)
      BY <2>2, <3>1, EventSets DEF Granted
    <3>3. PICK e : ledger' = Extended(e) /\ Proper(e)
      BY <3>2 DEF Facts, LedgerStep
    <3>4. d = e
      <4>1. Elements(ledger') = Elements(ledger) \cup {e}
        BY <1>1, <3>3, ExtendedLog
      <4>2. QED  BY <3>2, <4>1
    <3>5. /\ d.run \in Run
          /\ \E b \in BriefsOf(ledger) : b.brief = d.brief /\ (b.mode = "live" => server[d.run] # "none")
      BY <3>2, <3>3, <3>4 DEF Proper
    <3>6. PICK b \in BriefsOf(ledger) : b.brief = d.brief /\ (b.mode = "live" => server[d.run] # "none")
      BY <3>5
    <3>7. b \in BriefsOf(ledger')
      BY <1>1, EventSets
    <3>8. /\ \A c, f \in BriefsOf(ledger') : c.brief = f.brief => c = f
          /\ \A c, f \in RunsOf(ledger') : c.run = f.run => c = f
      BY <1>1 DEF Identified
    <3>9. ModeOf(ledger', d.run) = b.mode
      BY <3>1, <3>6, <3>7, <3>8, ModeIsBriefs
    <3>10. QED  BY <1>2, <1>4, <3>1, <3>5, <3>6, <3>9
  <2>3. QED  BY <2>1, <2>2
<1>5. QED  BY <1>3, <1>4 DEF Minted

LEMMA ReportsKept ==
  ASSUME DelegationInv, Facts
  PROVE  Reported'
<1>1. ledger \in Seq(Elements(ledger)) /\ Reported
  BY DEF DelegationInv, TypeOK
<1>2. ASSUME NEW t \in Task, pc'[t] \in Holding
      PROVE  carried'[t] \in Answers
  BY <1>1, <1>2 DEF Facts, TaskStep, Reported
<1>3. ASSUME NEW x \in Elements(ledger')
      PROVE  /\ x.type = "exchange" => x.response \in Answers
             /\ x.type = "lifecycle" => x.status \notin {"eligible", "previewable"}
  <2>1. CASE x \in Elements(ledger)
    BY <1>1, <2>1 DEF Reported
  <2>2. CASE x \notin Elements(ledger)
    <3>1. PICK e : ledger' = Extended(e) /\ Proper(e)
      BY <2>2 DEF Facts, LedgerStep
    <3>2. x = e
      <4>1. Elements(ledger') = Elements(ledger) \cup {e}
        BY <1>1, <3>1, ExtendedLog
      <4>2. QED  BY <2>2, <4>1
    <3>3. QED  BY <3>1, <3>2 DEF Proper
  <2>3. QED  BY <2>1, <2>2
<1>4. QED  BY <1>2, <1>3 DEF Reported, Holding, Keeping, Answers

LEMMA InvariantKept ==
  ASSUME DelegationInv, Facts
  PROVE  DelegationInv'
<1>1. /\ ledger' \in Seq(Elements(ledger')) /\ Identified'
      /\ Len(ledger) \in Nat /\ Len(ledger') \in Nat /\ Len(ledger') >= Len(ledger)
  BY LedgerKept DEF DelegationInv, TypeOK, Facts
<1>2. TypeOK'
  <2>1. seen' \in [Session -> Nat] /\ \A s \in Session : seen'[s] <= Len(ledger')
    BY <1>1 DEF Facts, SeenStep
  <2>2. QED  BY <1>1, <2>1 DEF TypeOK, Facts, ServerStep, TaskStep, ServerState, Run
<1>3. Dated(ledger)'
  BY DatesKept DEF Facts
<1>4. QED
  BY <1>1, <1>2, <1>3, AuthorityKept, ExactKept, DurabilityKept, MintedKept, ReportsKept DEF DelegationInv

-------------------------------------------------------------------------------
(* What a task does in one step                                                *)

Moves(t) ==
  \E place, x : \E r \in Run \cup {Null} :
    /\ pc' = [pc EXCEPT ![t] = place]
    /\ subject' = [subject EXCEPT ![t] = r] /\ carried' = [carried EXCEPT ![t] = x]
    /\ place \in Asking => r \in Run
    /\ place \in Engaged =>
         r \in Granted(ledger) \/ \E e \in Elements(ledger') : e.type = "run" /\ e.run = r
    /\ place \in Keeping => r \in Granted(ledger) /\ Final(r, x)
    /\ place = "committing" => server'[r] # "none"
    /\ place \in Holding => x \in Answers

LEMMA MovesAreTaskSteps ==
  ASSUME DelegationInv, LedgerStep, NEW t \in Task, Moves(t)
  PROVE  TaskStep
<1>0. PICK place, x :
         \E r \in Run \cup {Null} :
           /\ pc' = [pc EXCEPT ![t] = place]
           /\ subject' = [subject EXCEPT ![t] = r] /\ carried' = [carried EXCEPT ![t] = x]
           /\ place \in Asking => r \in Run
           /\ place \in Engaged =>
                r \in Granted(ledger) \/ \E e \in Elements(ledger') : e.type = "run" /\ e.run = r
           /\ place \in Keeping => r \in Granted(ledger) /\ Final(r, x)
           /\ place = "committing" => server'[r] # "none"
           /\ place \in Holding => x \in Answers
  BY DEF Moves
<1>1. PICK r \in Run \cup {Null} :
         /\ pc' = [pc EXCEPT ![t] = place]
         /\ subject' = [subject EXCEPT ![t] = r] /\ carried' = [carried EXCEPT ![t] = x]
         /\ place \in Asking => r \in Run
         /\ place \in Engaged =>
              r \in Granted(ledger) \/ \E e \in Elements(ledger') : e.type = "run" /\ e.run = r
         /\ place \in Keeping => r \in Granted(ledger) /\ Final(r, x)
         /\ place = "committing" => server'[r] # "none"
         /\ place \in Holding => x \in Answers
  BY <1>0
<1>2. /\ pc = [u \in Task |-> pc[u]] /\ carried = [u \in Task |-> carried[u]]
      /\ subject \in [Task -> Run \cup {Null}]
      /\ \A u \in Task : pc[u] \in Asking => subject[u] \in Run
  BY DEF DelegationInv, TypeOK, Authority, Asking
<1>3. /\ pc' = [u \in Task |-> pc'[u]] /\ carried' = [u \in Task |-> carried'[u]]
      /\ subject' \in [Task -> Run \cup {Null}]
  BY <1>1, <1>2
<1>4. /\ pc'[t] = place /\ subject'[t] = r /\ carried'[t] = x
      /\ \A u \in Task \ {t} : pc'[u] = pc[u] /\ subject'[u] = subject[u] /\ carried'[u] = carried[u]
  BY <1>1, <1>2
<1>5. r \in Granted(ledger) => \E e \in Elements(ledger') : e.type = "run" /\ e.run = r
  <2>1. Elements(ledger) \subseteq Elements(ledger')
    BY LedgerKept DEF DelegationInv, TypeOK
  <2>2. QED  BY <2>1, EventSets DEF Granted
<1>6. ASSUME NEW u \in Task
      PROVE  /\ pc'[u] \in Asking => subject'[u] \in Run
             /\ pc'[u] \in Engaged =>
                  \/ pc[u] \in Engaged /\ subject'[u] = subject[u]
                  \/ \E e \in Elements(ledger') : e.type = "run" /\ e.run = subject'[u]
             /\ pc'[u] \in Keeping =>
                  \/ pc[u] \in Keeping /\ subject'[u] = subject[u] /\ carried'[u] = carried[u]
                  \/ subject'[u] \in Granted(ledger) /\ Final(subject'[u], carried'[u])
             /\ pc'[u] = "committing" =>
                  \/ pc[u] = "committing" /\ subject'[u] = subject[u]
                  \/ server'[subject'[u]] # "none"
             /\ pc'[u] \in Holding =>
                  \/ pc[u] \in Holding /\ carried'[u] = carried[u]
                  \/ carried'[u] \in Answers
  <2>1. CASE u = t
    BY <1>1, <1>4, <1>5, <2>1
  <2>2. CASE u # t
    BY <1>2, <1>4, <2>2
  <2>3. QED  BY <2>1, <2>2
<1>7. QED  BY <1>3, <1>6 DEF TaskStep

\* An operation or a step of a recovery that ends holds nothing.
LEMMA EndsMove ==
  ASSUME DelegationInv, NEW t \in Task, NEW code, End(t, code) \/ Done(t, code)
  PROVE  Moves(t)
<1>1. PICK place \in {"idle", "recovering"} :
         /\ pc' = [pc EXCEPT ![t] = place]
         /\ subject' = [subject EXCEPT ![t] = Null] /\ carried' = [carried EXCEPT ![t] = Null]
  <2>1. CASE todo[t] = {}
    BY <2>1 DEF End, Done, Rest, Go
  <2>2. CASE todo[t] # {}
    BY <2>2 DEF End, Done, Rest, Go
  <2>3. QED  BY <2>1, <2>2
<1>2. place \notin Asking /\ place \notin Engaged /\ place \notin Keeping /\ place \notin Holding
  <2>1. CASE place = "idle"
    BY <2>1 DEF Asking, Engaged, Keeping, Holding
  <2>2. CASE place = "recovering"
    BY <2>2 DEF Asking, Engaged, Keeping, Holding
  <2>3. QED  BY <2>1, <2>2
<1>3. Null \in Run \cup {Null}
  OBVIOUS
<1>4. place # "committing"
  BY <1>2 DEF Asking
<1>5. QED  BY <1>1, <1>2, <1>3, <1>4 DEF Moves

\* A task that goes on with its run holds at most what is final of it.
LEMMA ProceedsMove ==
  ASSUME DelegationInv, NEW t \in Task, NEW place, NEW r, NEW x,
         Proceed(t, place, r, x), place \notin Asking,
         r \in Run \cup {Null}, place \in Engaged => r \in Granted(ledger),
         place \in Keeping => Final(r, x), place \in Holding => x \in Answers
  PROVE  Moves(t)
<1>1. place \in Keeping => place \in Engaged
  BY DEF Keeping, Engaged
<1>2. place # "committing"
  BY DEF Asking
<1>3. QED  BY <1>1, <1>2 DEF Proceed, Go, Moves

\* A task goes on with what it holds.
LEMMA GoesMove ==
  ASSUME DelegationInv, NEW t \in Task, NEW place, Go(t, place),
         UNCHANGED <<subject, carried>>,
         place \notin Keeping,
         place \in Asking => pc[t] \in Asking,
         place \in Engaged => pc[t] \in Engaged,
         place = "committing" => server'[subject[t]] # "none",
         place \in Holding => pc[t] \in Holding
  PROVE  Moves(t)
<1>1. PICK r, x : r = subject[t] /\ x = carried[t]
  OBVIOUS
<1>2. /\ subject \in [Task -> Run \cup {Null}] /\ carried = [u \in Task |-> carried[u]]
      /\ pc[t] \in Asking => r \in Run
      /\ pc[t] \in Engaged => r \in Granted(ledger)
      /\ pc[t] \in Holding => x \in Answers
  BY <1>1 DEF DelegationInv, TypeOK, Authority, Asking, Reported
<1>3. subject' = [subject EXCEPT ![t] = r]
  BY <1>1, <1>2
<1>4. carried' = [carried EXCEPT ![t] = x]
  BY <1>1, <1>2
<1>5. QED  BY <1>1, <1>2, <1>3, <1>4 DEF Moves, Go

LEMMA NothingWritten ==
  ASSUME DelegationInv, UNCHANGED <<ledger, seen>>
  PROVE  LedgerStep /\ SeenStep
BY DEF DelegationInv, TypeOK, LedgerStep, SeenStep

LEMMA ServerUntouched ==
  ASSUME DelegationInv, UNCHANGED server
  PROVE  ServerStep
BY DEF DelegationInv, TypeOK, ServerStep

LEMMA WriteSteps ==
  ASSUME DelegationInv, NEW t \in Task, NEW e, Proper(e), Write(t, e)
  PROVE  LedgerStep /\ SeenStep /\ e \in Elements(ledger')
<1>1. /\ ledger' = Extended(e) /\ seen' = [seen EXCEPT ![Owner[t]] = Len(ledger')]
  BY DEF Write
<1>2. LedgerStep
  BY <1>1 DEF LedgerStep
<1>3. Len(ledger') \in Nat /\ e \in Elements(ledger')
  BY <1>1, ExtendedLog DEF DelegationInv, TypeOK
<1>4. SeenStep
  BY <1>1, <1>3, OwnersAreSessions DEF SeenStep, DelegationInv, TypeOK
<1>5. QED  BY <1>2, <1>3, <1>4

LEMMA ReinstallSteps ==
  ASSUME DelegationInv, NEW t \in Task, Reinstall(t)
  PROVE  LedgerStep /\ SeenStep
<1>1. ledger' = ledger /\ seen' = [seen EXCEPT ![Owner[t]] = Len(ledger)]
  BY DEF Reinstall
<1>2. Len(ledger) \in Nat
  BY LenProperties DEF DelegationInv, TypeOK
<1>3. QED
  BY <1>1, <1>2, OwnersAreSessions DEF SeenStep, LedgerStep, DelegationInv, TypeOK

LEMMA ConflictSteps ==
  ASSUME DelegationInv, NEW t \in Task, Conflict(t)
  PROVE  LedgerStep /\ SeenStep /\ Moves(t)
BY ReinstallSteps, EndsMove DEF Conflict

LEMMA FactsOfTask ==
  ASSUME DelegationInv, NEW t \in Task, LedgerStep, SeenStep, Moves(t), UNCHANGED server
  PROVE  Facts
BY MovesAreTaskSteps, ServerUntouched DEF Facts

-------------------------------------------------------------------------------
(* What a tab reads of the ledger                                              *)

\* The run a tab follows is one of the ledger it has installed.
LEMMA ActiveIsGranted ==
  ASSUME NEW log, NEW n \in Nat, DOMAIN log = 1 .. n, ActiveRun(log) # Null
  PROVE  ActiveRun(log) \in Granted(log)
<1> DEFINE S == {j \in OfType(log, "run") : log[j].brief = ActiveBrief(log)}
<1>1. S \subseteq 1 .. n /\ S \subseteq OfType(log, "run")
  BY DEF OfType
<1>2. ActiveRun(log) = IF Last(S) # 0 THEN log[Last(S)].run ELSE Null
  BY DEF ActiveRun
<1>3. Last(S) # 0
  BY <1>2
<1>4. S # {}
  BY <1>3 DEF Last
<1> HIDE DEF S
<1>5. Last(S) \in S
  BY <1>1, <1>4, LastIsMember
<1>6. log[Last(S)] \in RunsOf(log)
  BY <1>1, <1>5 DEF RunsOf
<1>7. QED  BY <1>2, <1>3, <1>6 DEF Granted

\* The brief a tab follows is one of the ledger it has installed.
LEMMA ActiveIsBrief ==
  ASSUME NEW log, \E n \in Nat : DOMAIN log = 1 .. n, ActiveBrief(log) # Null
  PROVE  \E b \in BriefsOf(log) : b.brief = ActiveBrief(log)
<1> DEFINE S == OfType(log, "brief")
<1> DEFINE T == OfType(log, "source")
<1>1. PICK n \in Nat : DOMAIN log = 1 .. n
  OBVIOUS
<1>2. S \subseteq 1 .. n /\ T \subseteq 1 .. n /\ S = OfType(log, "brief")
  BY <1>1 DEF OfType
<1>3. ActiveBrief(log) = log[Last(S)].brief /\ Last(S) > Last(T)
  BY DEF ActiveBrief
<1> HIDE DEF S, T
<1>4. Last(S) \in 0 .. n /\ Last(T) \in 0 .. n /\ (Last(S) # 0 => Last(S) \in S)
  BY <1>2, LastBounds
<1>5. Last(S) \in S
  BY <1>3, <1>4
<1>6. log[Last(S)] \in BriefsOf(log)
  BY <1>2, <1>5 DEF BriefsOf
<1>7. QED  BY <1>3, <1>6

LEMMA TypesAreFinite ==
  ASSUME NEW log, log \in Seq(Elements(log)), NEW type
  PROVE  IsFiniteSet(OfType(log, type)) /\ Cardinality(OfType(log, type)) \in Nat
<1>1. Len(log) \in Nat /\ DOMAIN log = 1 .. Len(log)
  BY LogDomain
<1>2. OfType(log, type) \subseteq 1 .. Len(log)
  BY <1>1 DEF OfType
<1>3. IsFiniteSet(1 .. Len(log))
  BY <1>1, FS_Interval
<1>4. IsFiniteSet(OfType(log, type))
  BY <1>2, <1>3, FS_Subset
<1>5. QED  BY <1>4, FS_CardinalityType

LEMMA VisibleLog ==
  ASSUME TypeOK, NEW s \in Session
  PROVE  /\ Elements(Visible(s)) \subseteq Elements(ledger)
         /\ \E n \in Nat : DOMAIN Visible(s) = 1 .. n
         /\ \E n \in Nat : DOMAIN ledger = 1 .. n
         /\ Len(ledger) \in Nat
<1>1. /\ Len(ledger) \in Nat /\ DOMAIN ledger = 1 .. Len(ledger)
      /\ seen[s] \in Nat /\ seen[s] <= Len(ledger)
  BY LenProperties DEF TypeOK
<1>2. PICK n : n = seen[s]
  OBVIOUS
<1>3. \A i \in 1 .. n : ledger[i] \in Elements(ledger)
  BY <1>1, <1>2 DEF Elements
<1>4. n \in Int /\ n >= 0 /\ n \in Nat
  BY <1>1, <1>2
<1>5. /\ SubSeq(ledger, 1, n) \in Seq(Elements(ledger))
      /\ Len(SubSeq(ledger, 1, n)) = n
      /\ \A i \in 1 .. n : SubSeq(ledger, 1, n)[i] = ledger[i]
  BY <1>3, <1>4, SubSeqProperties
<1>6. DOMAIN SubSeq(ledger, 1, n) = 1 .. n
  BY <1>5, LenProperties
<1>7. QED  BY <1>1, <1>2, <1>3, <1>4, <1>5, <1>6 DEF Visible, Elements

LEMMA VisibleRunIsGranted ==
  ASSUME DelegationInv, NEW s \in Session, ActiveRun(Visible(s)) # Null
  PROVE  ActiveRun(Visible(s)) \in Granted(ledger)
<1>1. PICK n \in Nat : DOMAIN Visible(s) = 1 .. n
  BY VisibleLog DEF DelegationInv
<1>2. PICK log : log = Visible(s)
  OBVIOUS
<1>3. ActiveRun(log) \in Granted(log)
  BY <1>1, <1>2, ActiveIsGranted
<1>4. Elements(log) \subseteq Elements(ledger)
  BY <1>2, VisibleLog DEF DelegationInv
<1>5. Granted(log) \subseteq Granted(ledger)
  BY <1>4, EventSets DEF Granted
<1>6. QED  BY <1>2, <1>3, <1>5

LEMMA ActiveRunIsGranted ==
  ASSUME DelegationInv, ActiveRun(ledger) # Null
  PROVE  ActiveRun(ledger) \in Granted(ledger)
<1>1. Len(ledger) \in Nat /\ DOMAIN ledger = 1 .. Len(ledger)
  BY LenProperties DEF DelegationInv, TypeOK
<1>2. PICK log : log = ledger
  OBVIOUS
<1>3. PICK n \in Nat : DOMAIN log = 1 .. n
  BY <1>1, <1>2
<1>4. QED  BY <1>2, <1>3, ActiveIsGranted

\* Every granted run is one of the model's, and not Null.
LEMMA GrantedAreRuns ==
  ASSUME DelegationInv
  PROVE  Granted(ledger) \subseteq Run /\ Null \notin Granted(ledger)
<1>1. Granted(ledger) \subseteq Run
  BY DEF DelegationInv, Identified, Granted
<1>2. Null \notin Run
  BY DelegationAssumption DEF Run
<1>3. QED  BY <1>1, <1>2

-------------------------------------------------------------------------------
(* The steps of the placement, of briefs and of authority                      *)

LEMMA PlacementSteps ==
  ASSUME DelegationInv, NEW t \in Task, Capture(t) \/ Accept(t)
  PROVE  Facts
<1>1. UNCHANGED server
  BY DEF Capture, Accept
<1>2. CASE Conflict(t)
  BY <1>1, <1>2, ConflictSteps, FactsOfTask
<1>3. ASSUME NEW e, Proper(e), End(t, "other"), Write(t, e)
      PROVE  Facts
  <2>1. LedgerStep /\ SeenStep
    BY <1>3, WriteSteps
  <2>2. QED  BY <1>1, <1>3, <2>1, EndsMove, FactsOfTask
<1>4. CASE Capture(t) /\ ~Conflict(t)
  <2>1. End(t, "other") /\ \E n : Write(t, [type |-> "source", sequence |-> n])
    BY <1>4 DEF Capture
  <2>2. PICK n : Write(t, [type |-> "source", sequence |-> n])
    BY <2>1
  <2>3. Proper([type |-> "source", sequence |-> n])
    BY DEF Proper
  <2>4. QED  BY <1>3, <2>1, <2>2, <2>3
<1>5. CASE Accept(t) /\ ~Conflict(t)
  <2>1. PICK n : n = Cardinality(OfType(Visible(Owner[t]), "source"))
    OBVIOUS
  <2>2. /\ End(t, "other") /\ Write(t, [type |-> "accepted", sequence |-> n])
        /\ Current(Owner[t])
    BY <1>5, <2>1 DEF Accept
  <2>3. Visible(Owner[t]) = ledger
    <3>1. PICK k : k = seen[Owner[t]]
      OBVIOUS
    <3>2. ledger \in Seq(Elements(ledger)) /\ k = Len(ledger) /\ k \in 0 .. Len(ledger)
      BY <2>2, <3>1, LogDomain DEF Current, DelegationInv, TypeOK
    <3>3. SubSeq(ledger, 1, k) = ledger
      BY <3>2, PrefixLog
    <3>4. QED  BY <3>1, <3>3 DEF Visible
  <2>4. n = Cardinality(OfType(ledger, "source"))
    BY <2>1, <2>3
  <2>5. n \in Nat
    BY <2>4, TypesAreFinite DEF DelegationInv, TypeOK
  <2>6. Proper([type |-> "accepted", sequence |-> n])
    BY <2>4, <2>5 DEF Proper
  <2>7. QED  BY <1>3, <2>2, <2>6
<1>6. QED  BY <1>2, <1>4, <1>5

LEMMA MovesTo ==
  ASSUME NEW t \in Task, NEW place, NEW r \in Run \cup {Null}, NEW x,
         pc' = [pc EXCEPT ![t] = place],
         subject' = [subject EXCEPT ![t] = r], carried' = [carried EXCEPT ![t] = x],
         place \in Asking => r \in Run, place \notin Keeping, place # "committing",
         place \in Holding => x \in Answers,
         place \in Engaged =>
           r \in Granted(ledger) \/ \E e \in Elements(ledger') : e.type = "run" /\ e.run = r
  PROVE  Moves(t)
BY DEF Moves

LEMMA PrepareSteps ==
  ASSUME DelegationInv, NEW t \in Task, Prepare(t)
  PROVE  Facts
<1>1. PICK x : /\ pc' = [pc EXCEPT ![t] = "capability"] /\ carried' = [carried EXCEPT ![t] = x]
               /\ UNCHANGED <<ledger, seen, subject, server>>
  BY DEF Prepare, Go
<1>2. PICK r : r = subject[t]
  OBVIOUS
<1>3. r \in Run \cup {Null} /\ subject' = [subject EXCEPT ![t] = r]
  BY <1>1, <1>2 DEF DelegationInv, TypeOK
<1>4. Moves(t)
  <2>1. "capability" \notin Asking \cup Engaged \cup Keeping \cup Holding
    BY DEF Asking, Engaged, Keeping, Holding
  <2>2. QED  BY <1>1, <1>3, <2>1, MovesTo
<1>5. QED  BY <1>1, <1>4, NothingWritten, FactsOfTask

LEMMA CompileSteps ==
  ASSUME DelegationInv, NEW t \in Task, NEW m, Compile(t, m)
  PROVE  Facts
<1>1. PICK b : b = carried[t]
  OBVIOUS
<1>2. PICK k : k = Cardinality(BriefsOf(ledger)) + 1
  OBVIOUS
<1> DEFINE e == [type |-> "brief", brief |-> k, base |-> b, mode |-> m]
<1>3. /\ UNCHANGED server
      /\ \/ Conflict(t)
         \/ End(t, "other") /\ Write(t, e) /\ Accepts(ledger, e)
         \/ End(t, "other") /\ UNCHANGED <<ledger, seen>>
  BY <1>1, <1>2 DEF Compile
<1>4. Accepts(ledger, e) => Proper(e)
  <2>1. e.type = "brief" /\ e.brief = k
    OBVIOUS
  <2> HIDE DEF e
  <2>2. Accepts(ledger, e) => e.base = HeadOf(ledger)
    BY <2>1 DEF Accepts
  <2>3. QED  BY <1>2, <2>1, <2>2 DEF Proper
<1> HIDE DEF e
<1>5. CASE Conflict(t)
  BY <1>3, <1>5, ConflictSteps, FactsOfTask
<1>6. CASE End(t, "other") /\ Write(t, e) /\ Accepts(ledger, e)
  BY <1>3, <1>4, <1>6, WriteSteps, EndsMove, FactsOfTask
<1>7. CASE End(t, "other") /\ UNCHANGED <<ledger, seen>>
  BY <1>3, <1>7, NothingWritten, EndsMove, FactsOfTask
<1>8. QED  BY <1>3, <1>5, <1>6, <1>7

\* A run the ledger accepts is granted by the write that begins its dispatch.
LEMMA GrantSteps ==
  ASSUME DelegationInv, NEW t \in Task, NEW r \in Run, NEW b, Grant(t, Authorized(r, b)),
         \A c \in BriefsOf(ledger) : c.brief = b /\ c.mode = "live" => server[r] # "none"
  PROVE  LedgerStep /\ SeenStep /\ Moves(t)
<1> DEFINE e == Authorized(r, b)
<1>1. e.type = "run" /\ e.run = r /\ e.brief = b
  BY DEF Authorized
<1> HIDE DEF e
<1>2. CASE Conflict(t)
  BY <1>2, ConflictSteps
<1>3. CASE UNCHANGED <<ledger, seen>> /\ End(t, "other")
  BY <1>3, NothingWritten, EndsMove
<1>4. CASE /\ Accepts(ledger, e) /\ Write(t, e)
           /\ pc' = [pc EXCEPT ![t] = "dispatching"]
           /\ subject' = [subject EXCEPT ![t] = r] /\ carried' = [carried EXCEPT ![t] = Null]
  <2>1. /\ \E c \in BriefsOf(ledger) : c.brief = e.brief
        /\ \A f \in RunsOf(ledger) : f.run # e.run
    BY <1>1, <1>4 DEF Accepts
  <2>2. Proper(e)
    <3>1. \E c \in BriefsOf(ledger) : c.brief = e.brief /\ (c.mode = "live" => server[e.run] # "none")
      BY <1>1, <2>1
    <3>2. QED  BY <1>1, <2>1, <3>1 DEF Proper
  <2>3. LedgerStep /\ SeenStep /\ e \in Elements(ledger')
    BY <1>4, <2>2, WriteSteps
  <2>4. Moves(t)
    <3>1. "dispatching" \notin Asking \cup Keeping \cup Holding
      BY DEF Asking, Keeping, Holding
    <3>2. QED  BY <1>1, <1>4, <2>3, <3>1, MovesTo
  <2>5. QED  BY <2>3, <2>4
<1>5. QED  BY <1>1, <1>2, <1>3, <1>4 DEF Grant, Go, e

LEMMA AuthorizeReplaySteps ==
  ASSUME DelegationInv, NEW t \in Task, NEW r \in Run, AuthorizeReplay(t, r)
  PROVE  Facts
<1>1. PICK b : b = ActiveBrief(Visible(Owner[t]))
  OBVIOUS
<1>2. Grant(t, Authorized(r, b)) /\ UNCHANGED server
  BY <1>1 DEF AuthorizeReplay
<1>3. \A c \in BriefsOf(ledger) : c.brief = b => c.mode # "live"
  <2>1. PICK log : log = Visible(Owner[t])
    OBVIOUS
  <2>2. b = ActiveBrief(log) /\ b # Null /\ TheBrief(log, b).mode = "replay"
    BY <1>1, <2>1 DEF AuthorizeReplay, Authorizable
  <2>3. PICK d \in BriefsOf(log) : d.brief = b
    BY <2>1, <2>2, VisibleLog, ActiveIsBrief, OwnersAreSessions DEF DelegationInv
  <2>4. TheBrief(log, b) \in BriefsOf(log) /\ TheBrief(log, b).brief = b
    BY <2>3 DEF TheBrief
  <2>5. BriefsOf(log) \subseteq BriefsOf(ledger)
    BY <2>1, VisibleLog, EventSets, OwnersAreSessions DEF DelegationInv
  <2>6. QED  BY <2>2, <2>4, <2>5 DEF DelegationInv, Identified
<1>4. QED  BY <1>2, <1>3, GrantSteps, FactsOfTask

LEMMA AuthorizeLiveSteps ==
  ASSUME DelegationInv, NEW t \in Task, NEW r \in Run, AuthorizeLive(t, r)
  PROVE  Facts
<1>1. PICK b : b = ActiveBrief(Visible(Owner[t]))
  OBVIOUS
<1>2. /\ pc' = [pc EXCEPT ![t] = "authorizing"]
      /\ subject' = [subject EXCEPT ![t] = r] /\ carried' = [carried EXCEPT ![t] = b]
      /\ UNCHANGED <<ledger, seen, server>>
  BY <1>1 DEF AuthorizeLive, Go
<1>3. Moves(t)
  <2>1. "authorizing" \notin Engaged \cup Keeping \cup Holding
    BY DEF Engaged, Keeping, Holding
  <2>2. QED  BY <1>2, <2>1, MovesTo
<1>4. QED  BY <1>2, <1>3, NothingWritten, FactsOfTask

\* A run that is in hand is one of the ledger.
LEMMA InHand ==
  ASSUME DelegationInv, NEW t \in Task, pc[t] \in Engaged
  PROVE  subject[t] \in Granted(ledger) /\ subject[t] \in Run
BY GrantedAreRuns DEF DelegationInv, Authority

LEMMA MintSteps ==
  ASSUME DelegationInv, NEW t \in Task, Mint(t)
  PROVE  Facts
<1>1. /\ pc[t] = "authorizing" /\ Go(t, "committing") /\ UNCHANGED <<subject, carried>>
      /\ UNCHANGED <<ledger, seen>>
      /\ server[subject[t]] = "none" /\ server' = [server EXCEPT ![subject[t]] = "intended"]
  BY DEF Mint, local
<1>2. PICK r : r = subject[t]
  OBVIOUS
<1>3. r \in Run
  BY <1>1, <1>2 DEF DelegationInv, Authority
<1>4. server[r] = "none" /\ server' = [server EXCEPT ![r] = "intended"]
  BY <1>1, <1>2
<1>5. server \in [Run -> ServerState] /\ "none" \notin Response /\ "intended" \in ServerState
  BY DelegationAssumption DEF DelegationInv, TypeOK, ServerState
<1>6. ServerStep
  BY <1>4, <1>5 DEF ServerStep
<1>7. server'[subject[t]] # "none"
  BY <1>2, <1>3, <1>4, <1>5
<1>8. Moves(t)
  <2>1. "committing" \notin Keeping \cup Engaged \cup Holding /\ pc[t] \in Asking
    BY <1>1 DEF Keeping, Asking, Engaged, Holding
  <2>2. QED  BY <1>1, <1>7, <2>1, GoesMove
<1>9. QED  BY <1>1, <1>6, <1>8, NothingWritten, MovesAreTaskSteps DEF Facts

LEMMA UnmintedSteps ==
  ASSUME DelegationInv, NEW t \in Task, Unminted(t) \/ Unavailable(t)
  PROVE  Facts
<1>1. End(t, "other") /\ UNCHANGED <<ledger, seen, server>>
  BY DEF Unminted, Unavailable
<1>2. QED  BY <1>1, NothingWritten, EndsMove, FactsOfTask

LEMMA CommitSteps ==
  ASSUME DelegationInv, NEW t \in Task, Commit(t)
  PROVE  Facts
<1>1. PICK r, b : r = subject[t] /\ b = carried[t]
  OBVIOUS
<1>2. Grant(t, Authorized(r, b)) /\ UNCHANGED server /\ pc[t] = "committing"
  BY <1>1 DEF Commit
<1>3. r \in Run /\ server[r] # "none"
  BY <1>1, <1>2 DEF DelegationInv, Authority, Minted
<1>4. QED  BY <1>2, <1>3, GrantSteps, FactsOfTask

-------------------------------------------------------------------------------
(* The steps of dispatch                                                       *)

\* A completed run is one whose response the server has.
LEMMA ToldCompleted ==
  ASSUME NEW r, "completed" \in Told(r)
  PROVE  server[r] \in Response
BY DEF Told

\* A task goes on with the run it is about, holding no response of it.
LEMMA Continues ==
  ASSUME DelegationInv, NEW t \in Task, NEW place, NEW x,
         Proceed(t, place, subject[t], x), place \notin Asking, place \notin Holding,
         place \in Engaged => pc[t] \in Engaged
  PROVE  Moves(t)
<1>1. PICK r : r = subject[t]
  OBVIOUS
<1>2. r \in Run \cup {Null} /\ (place \in Engaged => r \in Granted(ledger))
  BY <1>1, InHand DEF DelegationInv, TypeOK
<1>3. /\ pc' = [pc EXCEPT ![t] = place]
      /\ subject' = [subject EXCEPT ![t] = r] /\ carried' = [carried EXCEPT ![t] = x]
  BY <1>1 DEF Proceed, Go
<1>4. place \notin Keeping /\ place # "committing"
  BY DEF Asking, Holding
<1>5. QED  BY <1>2, <1>3, <1>4, MovesTo

\* A task takes what the server has, or what is no response of it.
LEMMA Keeps ==
  ASSUME DelegationInv, NEW t \in Task, NEW place, NEW x,
         Proceed(t, place, subject[t], x), place \in Keeping, pc[t] \in Engaged,
         x \in Answers,
         \/ x \in Response /\ server[subject[t]] = x
         \/ x = "worker_failed"
         \/ ModeOf(ledger, subject[t]) # "live"
  PROVE  Moves(t)
<1>1. PICK r : r = subject[t]
  OBVIOUS
<1>2. r \in Run \cup {Null} /\ r \in Granted(ledger)
  BY <1>1, InHand
<1>3. Final(r, x)
  BY <1>1 DEF Final
<1>4. Proceed(t, place, r, x)
  BY <1>1 DEF Proceed
<1>5. place \notin Asking
  BY DEF Asking, Keeping
<1>6. QED  BY <1>2, <1>3, <1>4, <1>5, ProceedsMove

LEMMA TakesResponse ==
  ASSUME DelegationInv, NEW t \in Task, NEW place,
         Proceed(t, place, subject[t], server[subject[t]]), place \in Keeping,
         pc[t] \in Engaged, server[subject[t]] \in Response
  PROVE  Moves(t)
<1>1. PICK x : x = server[subject[t]]
  OBVIOUS
<1>2. Proceed(t, place, subject[t], x)
  BY <1>1 DEF Proceed
<1>3. x \in Answers
  BY <1>1 DEF Answers
<1>4. QED  BY <1>1, <1>2, <1>3, Keeps

LEMMA RetrySteps ==
  ASSUME DelegationInv, NEW t \in Task, Retry(t)
  PROVE  Facts
<1>1. PICK r, x : r = ActiveRun(Visible(Owner[t])) /\ x = carried[t]
  OBVIOUS
<1>2. /\ r # Null /\ pc' = [pc EXCEPT ![t] = "retrying"]
      /\ subject' = [subject EXCEPT ![t] = r] /\ UNCHANGED <<ledger, seen, carried, server>>
  BY <1>1 DEF Retry, Redispatchable, Go
<1>3. r \in Granted(ledger)
  BY <1>1, <1>2, VisibleRunIsGranted, OwnersAreSessions
<1>4. carried' = [carried EXCEPT ![t] = x]
  BY <1>1, <1>2 DEF DelegationInv, TypeOK
<1>5. "retrying" \notin Asking \cup Keeping \cup Holding /\ "retrying" # "committing"
  BY DEF Asking, Keeping, Holding
<1>6. Moves(t)
  BY <1>2, <1>3, <1>4, <1>5, MovesTo, GrantedAreRuns
<1>7. QED  BY <1>2, <1>6, NothingWritten, FactsOfTask

LEMMA RetriedSteps ==
  ASSUME DelegationInv, NEW t \in Task, NEW status, Retried(t, status)
  PROVE  Facts
<1>1. pc[t] = "retrying" /\ status \in Told(subject[t]) /\ UNCHANGED <<ledger, seen, server>>
  BY DEF Retried
<1>2. /\ pc[t] \in Engaged /\ "storing" \in Keeping
      /\ "dispatching" \notin Asking \cup Keeping \cup Holding
  BY <1>1 DEF Engaged, Keeping, Asking, Holding
<1>3. CASE status = "completed" /\ Proceed(t, "storing", subject[t], server[subject[t]])
  BY <1>1, <1>2, <1>3, ToldCompleted, TakesResponse, NothingWritten, FactsOfTask
<1>4. CASE Go(t, "dispatching") /\ UNCHANGED <<subject, carried>>
  BY <1>1, <1>2, <1>4, GoesMove, NothingWritten, FactsOfTask
<1>5. CASE End(t, ErrorFor(status))
  BY <1>1, <1>5, EndsMove, NothingWritten, FactsOfTask
<1>6. QED  BY <1>3, <1>4, <1>5 DEF Retried, local

LEMMA DispatchLiveSteps ==
  ASSUME DelegationInv, NEW t \in Task, DispatchLive(t)
  PROVE  Facts
<1>1. pc[t] = "dispatching" /\ UNCHANGED <<ledger, seen>>
  BY DEF DispatchLive
<1>2. /\ pc[t] \in Engaged /\ "storing" \in Keeping
      /\ "awaiting" \notin Asking \cup Keeping \cup Holding
      /\ "doubting" \notin Asking \cup Keeping \cup Holding
  BY <1>1 DEF Engaged, Keeping, Asking, Holding
<1>3. CASE /\ server[subject[t]] \in Response /\ UNCHANGED server
           /\ Proceed(t, "storing", subject[t], server[subject[t]])
  BY <1>1, <1>2, <1>3, TakesResponse, NothingWritten, FactsOfTask
<1>4. CASE /\ server[subject[t]] = "intended"
           /\ server' = [server EXCEPT ![subject[t]] = "running"]
           /\ Go(t, "awaiting") /\ UNCHANGED <<subject, carried>>
  <2>1. Moves(t)
    BY <1>2, <1>4, GoesMove
  <2>2. PICK r : r = subject[t]
    OBVIOUS
  <2>3. r \in Granted(ledger)
    BY <1>2, <2>2, InHand
  <2>4. server[r] = "intended" /\ server' = [server EXCEPT ![r] = "running"]
    BY <1>4, <2>2
  <2>5. server \in [Run -> ServerState] /\ "intended" \notin Response /\ "running" \in ServerState
    BY DelegationAssumption DEF DelegationInv, TypeOK, ServerState
  <2>6. ServerStep
    BY <2>3, <2>4, <2>5 DEF ServerStep
  <2>7. QED  BY <1>1, <2>1, <2>6, NothingWritten, MovesAreTaskSteps DEF Facts
<1>5. CASE Go(t, "doubting") /\ UNCHANGED <<subject, carried, server>>
  BY <1>1, <1>2, <1>5, GoesMove, NothingWritten, FactsOfTask
<1>6. QED  BY <1>3, <1>4, <1>5 DEF DispatchLive, local

LEMMA AnswerSteps ==
  ASSUME DelegationInv, NEW t \in Task,
         \/ \E x \in {"returned", "worker_failed"} : DispatchReplay(t, x)
         \/ Receive(t) \/ StoreError(t)
  PROVE  Facts
<1>1. UNCHANGED <<ledger, seen, server>> /\ pc[t] \in {"dispatching", "awaiting"}
  BY DEF DispatchReplay, Receive, StoreError
<1>2. pc[t] \in Engaged /\ "storing" \in Keeping
  BY <1>1 DEF Engaged, Keeping
<1>3. ASSUME NEW x \in {"returned", "worker_failed"}, DispatchReplay(t, x)  PROVE  Moves(t)
  <2>1. /\ Proceed(t, "storing", subject[t], x) /\ ModeOf(ledger, subject[t]) # "live"
    BY <1>3 DEF DispatchReplay
  <2>2. x \in Answers
    BY <1>3 DEF Answers
  <2>3. QED  BY <1>2, <2>1, <2>2, Keeps
<1>4. CASE Receive(t)
  <2>1. Moves(t)
    BY <1>2, <1>4, TakesResponse DEF Receive
  <2>2. QED  BY <1>1, <2>1, NothingWritten, FactsOfTask
<1>5. CASE StoreError(t)
  <2>1. Moves(t)
    BY <1>2, <1>5, Keeps DEF StoreError, Answers
  <2>2. QED  BY <1>1, <2>1, NothingWritten, FactsOfTask
<1>6. QED  BY <1>1, <1>3, <1>4, <1>5, NothingWritten, FactsOfTask

LEMMA LoseSteps ==
  ASSUME DelegationInv, NEW t \in Task, Lose(t) \/ NoStatus(t)
  PROVE  Facts
<1>1. UNCHANGED <<ledger, seen, server>>
  BY DEF Lose, NoStatus
<1>2. CASE Lose(t)
  <2>1. pc[t] \in Engaged /\ "observing" \notin Asking \cup Holding
    BY <1>2 DEF Lose, Engaged, Keeping, Asking, Holding
  <2>2. Moves(t)
    BY <1>2, <2>1, Continues DEF Lose
  <2>3. QED  BY <1>1, <2>2, NothingWritten, FactsOfTask
<1>3. CASE NoStatus(t)
  <2>1. Moves(t)
    BY <1>3, EndsMove DEF NoStatus
  <2>2. QED  BY <1>1, <2>1, NothingWritten, FactsOfTask
<1>4. QED  BY <1>2, <1>3

LEMMA DoubtSteps ==
  ASSUME DelegationInv, NEW t \in Task, NEW status, Doubt(t, status)
  PROVE  Facts
<1>1. pc[t] = "doubting" /\ status \in Told(subject[t]) /\ UNCHANGED <<ledger, seen, server>>
  BY DEF Doubt
<1>2. pc[t] \in Engaged /\ "storing" \in Keeping
  BY <1>1 DEF Engaged, Keeping
<1>3. CASE status = "completed" /\ Proceed(t, "storing", subject[t], server[subject[t]])
  BY <1>1, <1>2, <1>3, ToldCompleted, TakesResponse, NothingWritten, FactsOfTask
<1>4. CASE End(t, ErrorFor(status))
  BY <1>1, <1>4, EndsMove, NothingWritten, FactsOfTask
<1>5. QED  BY <1>3, <1>4 DEF Doubt

-------------------------------------------------------------------------------
(* The steps that write a response and what follows from it                    *)

\* A task that rests until its next step holds nothing.
LEMMA RestsMove ==
  ASSUME DelegationInv, NEW t \in Task, NEW place, NEW state, NEW code,
         Rest(t, place, state, code), place \in {"surveying", "idle"}
  PROVE  Moves(t)
<1>1. /\ pc' = [pc EXCEPT ![t] = place]
      /\ subject' = [subject EXCEPT ![t] = Null] /\ carried' = [carried EXCEPT ![t] = Null]
  BY DEF Rest, Go
<1>2. place \notin Asking /\ place \notin Engaged /\ place \notin Keeping /\ place \notin Holding
  <2>1. CASE place = "surveying"
    BY <2>1 DEF Asking, Engaged, Keeping, Holding
  <2>2. CASE place = "idle"
    BY <2>2 DEF Asking, Engaged, Keeping, Holding
  <2>3. QED  BY <2>1, <2>2
<1>3. place # "committing"
  BY <1>2 DEF Asking
<1>4. QED  BY <1>1, <1>2, <1>3, MovesTo

\* What a task has kept of its run may be recorded.
LEMMA ExchangeSteps ==
  ASSUME DelegationInv, NEW t \in Task, pc[t] \in Keeping, Write(t, Exchange(t))
  PROVE  LedgerStep /\ SeenStep
<1>1. PICK r, x : r = subject[t] /\ x = carried[t]
  OBVIOUS
<1>2. Final(r, x)
  BY <1>1 DEF DelegationInv, Exact
<1>3. pc[t] \in Engaged
  BY DEF Keeping, Engaged
<1>4. r \in Granted(ledger)
  BY <1>1, <1>3, InHand
<1> DEFINE e == [type |-> "exchange", run |-> r, response |-> x]
<1>5. x \in Answers
  BY <1>1 DEF DelegationInv, Reported, Holding
<1>6. Proper(e) /\ Write(t, e)
  <2>1. Proper(e)
    BY <1>2, <1>4, <1>5 DEF Proper
  <2>2. Write(t, e)
    BY <1>1 DEF Exchange
  <2>3. QED  BY <2>1, <2>2
<1> HIDE DEF e
<1>7. QED  BY <1>6, WriteSteps

\* Other evidence of a run is always proper.
LEMMA EvidenceSteps ==
  ASSUME DelegationInv, NEW t \in Task,
         \/ Write(t, Lifecycle(t)) /\ pc[t] = "normalizing"
         \/ Write(t, Rejection(t)) \/ Write(t, Transport(t))
         \/ Write(t, [type |-> "unknown", run |-> subject[t]])
  PROVE  LedgerStep /\ SeenStep
<1>1. PICK r, x, y : r = subject[t] /\ x = carried[t] /\ y = Outcome(carried[t])
  OBVIOUS
<1>2. ASSUME NEW e, e.type \in {"rejection", "transport", "unknown"}, Write(t, e)
      PROVE  LedgerStep /\ SeenStep
  <2>1. Proper(e)
    BY <1>2 DEF Proper
  <2>2. QED  BY <1>2, <2>1, WriteSteps
<1>3. CASE Write(t, Lifecycle(t)) /\ pc[t] = "normalizing"
  <2> DEFINE e == [type |-> "lifecycle", run |-> r, status |-> y]
  <2>1. Write(t, e)
    BY <1>1, <1>3 DEF Lifecycle
  <2>2. x \in Answers
    BY <1>1, <1>3 DEF DelegationInv, Reported, Holding
  <2>3. y \notin {"eligible", "previewable"}
    BY <1>1, <2>2, DelegationAssumption DEF Answers, Outcome
  <2>4. Proper(e)
    BY <2>3 DEF Proper
  <2> HIDE DEF e
  <2>5. QED  BY <2>1, <2>4, WriteSteps
<1>4. CASE Write(t, Rejection(t))
  <2>1. Write(t, [type |-> "rejection", run |-> r, code |-> x])
    BY <1>1, <1>4 DEF Rejection
  <2>2. QED  BY <1>2, <2>1
<1>5. CASE Write(t, Transport(t))
  <2>1. Write(t, [type |-> "transport", run |-> r])
    BY <1>1, <1>5 DEF Transport
  <2>2. QED  BY <1>2, <2>1
<1>6. CASE Write(t, [type |-> "unknown", run |-> subject[t]])
  <2>1. Write(t, [type |-> "unknown", run |-> r])
    BY <1>1, <1>6
  <2>2. QED  BY <1>2, <2>1
<1>7. QED  BY <1>3, <1>4, <1>5, <1>6

LEMMA StoreSteps ==
  ASSUME DelegationInv, NEW t \in Task, Store(t)
  PROVE  Facts
<1>1. pc[t] = "storing" /\ UNCHANGED server
  BY DEF Store
<1>2. /\ pc[t] \in Keeping /\ pc[t] \in Holding
      /\ "normalizing" \notin Asking \cup Engaged \cup Keeping
  BY <1>1 DEF Keeping, Asking, Engaged, Holding
<1>3. CASE Write(t, Exchange(t)) /\ Go(t, "normalizing") /\ UNCHANGED <<subject, carried>>
  BY <1>1, <1>2, <1>3, ExchangeSteps, GoesMove, FactsOfTask
<1>4. CASE UNCHANGED <<ledger, seen>> /\ End(t, "other")
  BY <1>1, <1>4, NothingWritten, EndsMove, FactsOfTask
<1>5. QED  BY <1>3, <1>4 DEF Store, local

LEMMA NormalizeSteps ==
  ASSUME DelegationInv, NEW t \in Task, Normalize(t) \/ NormalizeFails(t)
  PROVE  Facts
<1>1. /\ UNCHANGED server
      /\ \/ /\ UNCHANGED <<ledger, seen>>
            /\ \E code : Proceed(t, "rejecting", subject[t], code)
         \/ Write(t, Lifecycle(t)) /\ Done(t, "other")
      /\ pc[t] = "normalizing"
  BY DEF Normalize, NormalizeFails
<1>2. "rejecting" \notin Asking \cup Engaged \cup Holding
  BY DEF Asking, Engaged, Keeping, Holding
<1>3. ASSUME NEW code, Proceed(t, "rejecting", subject[t], code)  PROVE  Moves(t)
  BY <1>2, <1>3, Continues
<1>4. CASE /\ UNCHANGED <<ledger, seen>>
           /\ \E code : Proceed(t, "rejecting", subject[t], code)
  BY <1>1, <1>3, <1>4, NothingWritten, FactsOfTask
<1>5. CASE Write(t, Lifecycle(t)) /\ Done(t, "other")
  BY <1>1, <1>5, EvidenceSteps, EndsMove, FactsOfTask
<1>6. QED  BY <1>1, <1>4, <1>5

LEMMA RejectSteps ==
  ASSUME DelegationInv, NEW t \in Task, Reject(t)
  PROVE  Facts
<1>1. UNCHANGED server
  BY DEF Reject
<1>2. "concluding" \notin Asking \cup Engaged \cup Holding
  BY DEF Asking, Engaged, Keeping, Holding
<1>3. CASE Write(t, Rejection(t)) /\ Proceed(t, "concluding", subject[t], Null)
  BY <1>1, <1>2, <1>3, EvidenceSteps, Continues, FactsOfTask
<1>4. CASE Write(t, Rejection(t)) /\ Done(t, "other")
  BY <1>1, <1>4, EvidenceSteps, EndsMove, FactsOfTask
<1>5. CASE UNCHANGED <<ledger, seen>> /\ Done(t, "other")
  BY <1>1, <1>5, NothingWritten, EndsMove, FactsOfTask
<1>6. QED  BY <1>3, <1>4, <1>5 DEF Reject

LEMMA ConcludeSteps ==
  ASSUME DelegationInv, NEW t \in Task, Conclude(t) \/ Complete(t)
  PROVE  Facts
<1>1. /\ UNCHANGED server /\ Done(t, "other")
      /\ Write(t, [type |-> "unknown", run |-> subject[t]]) \/ Reinstall(t)
  BY DEF Conclude, Complete, DeclareUnknown
<1>2. LedgerStep /\ SeenStep
  BY <1>1, EvidenceSteps, ReinstallSteps
<1>3. QED  BY <1>1, <1>2, EndsMove, FactsOfTask

LEMMA ObserveSteps ==
  ASSUME DelegationInv, NEW t \in Task, Observe(t)
  PROVE  Facts
<1>1. pc[t] = "observing" /\ UNCHANGED server
  BY DEF Observe
<1>2. /\ pc[t] \in Engaged /\ "losing" \notin Asking \cup Holding
      /\ "concluding" \notin Asking \cup Engaged \cup Holding
  BY <1>1 DEF Asking, Engaged, Keeping, Holding
<1>3. CASE UNCHANGED <<ledger, seen>> /\ End(t, "other")
  BY <1>1, <1>3, NothingWritten, EndsMove, FactsOfTask
<1>4. CASE Write(t, Transport(t)) /\ End(t, "other")
  BY <1>1, <1>4, EvidenceSteps, EndsMove, FactsOfTask
<1>5. CASE Write(t, Transport(t)) /\ Proceed(t, "losing", subject[t], Null)
  BY <1>1, <1>2, <1>5, EvidenceSteps, Continues, FactsOfTask
<1>6. CASE Write(t, Transport(t)) /\ Proceed(t, "concluding", subject[t], Null)
  BY <1>1, <1>2, <1>6, EvidenceSteps, Continues, FactsOfTask
<1>7. QED  BY <1>3, <1>4, <1>5, <1>6 DEF Observe

LEMMA LosingSteps ==
  ASSUME DelegationInv, NEW t \in Task, NEW status, Losing(t, status)
  PROVE  Facts
<1>1. pc[t] = "losing" /\ status \in Told(subject[t]) /\ UNCHANGED <<ledger, seen, server>>
  BY DEF Losing
<1>2. /\ pc[t] \in Engaged /\ "salvaging" \in Keeping
      /\ "concluding" \notin Asking \cup Engaged \cup Holding
  BY <1>1 DEF Engaged, Keeping, Asking, Holding
<1>3. CASE status = "completed" /\ Proceed(t, "salvaging", subject[t], server[subject[t]])
  BY <1>1, <1>2, <1>3, ToldCompleted, TakesResponse, NothingWritten, FactsOfTask
<1>4. CASE Proceed(t, "concluding", subject[t], Null)
  BY <1>1, <1>2, <1>4, Continues, NothingWritten, FactsOfTask
<1>5. CASE End(t, ErrorFor(status))
  BY <1>1, <1>5, EndsMove, NothingWritten, FactsOfTask
<1>6. QED  BY <1>3, <1>4, <1>5 DEF Losing

LEMMA SaveFailsSteps ==
  ASSUME DelegationInv, NEW t \in Task, SaveFails(t) \/ LoadFails(t)
  PROVE  Facts
<1>1. UNCHANGED <<ledger, seen, server>>
  BY DEF SaveFails, LoadFails
<1>2. PICK state, code : state = operation[Owner[t]] /\ code = error[Owner[t]]
  OBVIOUS
<1>3. \/ Rest(t, "surveying", "idle", "other") \/ Done(t, "other")
      \/ Rest(t, "surveying", state, code)
  BY <1>2 DEF SaveFails, LoadFails
<1>4. Moves(t)
  BY <1>3, RestsMove, EndsMove
<1>5. QED  BY <1>1, <1>4, NothingWritten, FactsOfTask

-------------------------------------------------------------------------------
(* The steps of recovery, of pages and of the server                           *)

LEMMA LoadSteps ==
  ASSUME DelegationInv, NEW t \in Task, NEW status, Load(t, status)
  PROVE  Facts
<1>1. pc[t] = "loading" /\ status \in Told(subject[t]) /\ UNCHANGED <<ledger, seen, server>>
  BY DEF Load
<1>2. pc[t] \in Engaged /\ "restoring" \in Keeping
  BY <1>1 DEF Engaged, Keeping
<1>3. CASE status = "completed" /\ Proceed(t, "restoring", subject[t], server[subject[t]])
  BY <1>1, <1>2, <1>3, ToldCompleted, TakesResponse, NothingWritten, FactsOfTask
<1>4. CASE Rest(t, "surveying", "idle", ErrorFor(status))
  BY <1>1, <1>4, RestsMove, NothingWritten, FactsOfTask
<1>5. QED  BY <1>3, <1>4 DEF Load

LEMMA RestoreSteps ==
  ASSUME DelegationInv, NEW t \in Task, Restore(t)
  PROVE  Facts
<1>1. pc[t] \in Keeping /\ UNCHANGED server
  BY DEF Restore, Keeping
<1>2. CASE Write(t, Exchange(t)) /\ Rest(t, "surveying", "persisting_run_result", "other")
  BY <1>1, <1>2, ExchangeSteps, RestsMove, FactsOfTask
<1>3. CASE UNCHANGED <<ledger, seen>> /\ Rest(t, "surveying", "idle", "other")
  BY <1>1, <1>3, NothingWritten, RestsMove, FactsOfTask
<1>4. CASE UNCHANGED <<ledger, seen>> /\ End(t, "other")
  BY <1>1, <1>4, NothingWritten, EndsMove, FactsOfTask
<1>5. QED  BY <1>2, <1>3, <1>4 DEF Restore

LEMMA SurveySteps ==
  ASSUME DelegationInv, NEW t \in Task, Survey(t)
  PROVE  Facts
<1>1. UNCHANGED <<ledger, seen, server>> /\ UNCHANGED <<subject, carried>>
  BY DEF Survey
<1>2. \E place \in {"idle", "recovering"} : Go(t, place)
  BY DEF Survey
<1>3. PICK place \in {"idle", "recovering"} : Go(t, place)
  BY <1>2
<1>4. /\ place \notin Asking /\ place \notin Engaged /\ place \notin Keeping
      /\ place \notin Holding /\ place # "committing"
  <2>1. CASE place = "idle"
    BY <2>1 DEF Asking, Engaged, Keeping, Holding
  <2>2. CASE place = "recovering"
    BY <2>2 DEF Asking, Engaged, Keeping, Holding
  <2>3. QED  BY <2>1, <2>2
<1>5. QED  BY <1>1, <1>3, <1>4, GoesMove, NothingWritten, FactsOfTask

LEMMA RecoverSteps ==
  ASSUME DelegationInv, NEW t \in Task, NEW r \in Run, Recover(t, r)
  PROVE  Facts
<1>1. UNCHANGED <<ledger, seen, server>>
  BY DEF Recover
<1>2. /\ "idle" \notin Asking \cup Engaged \cup Keeping \cup Holding
      /\ "recovering" \notin Asking \cup Engaged \cup Keeping \cup Holding
  BY DEF Asking, Engaged, Keeping, Holding
<1>3. /\ "completing" \notin Asking \cup Engaged \cup Keeping \cup Holding
      /\ "normalizing" \notin Asking \cup Engaged \cup Keeping
  BY DEF Asking, Engaged, Keeping, Holding
<1>4. CASE /\ Go(t, "idle") \/ Go(t, "recovering")
           /\ UNCHANGED <<subject, carried>>
  BY <1>1, <1>2, <1>4, GoesMove, NothingWritten, FactsOfTask
<1>5. CASE /\ Go(t, "completing") /\ subject' = [subject EXCEPT ![t] = r]
           /\ \E x : carried' = [carried EXCEPT ![t] = x]
  <2>1. PICK x : carried' = [carried EXCEPT ![t] = x]
    BY <1>5
  <2>2. Moves(t)
    BY <1>3, <1>5, <2>1, MovesTo DEF Go
  <2>3. QED  BY <1>1, <2>2, NothingWritten, FactsOfTask
<1>6. CASE /\ Go(t, "normalizing") /\ subject' = [subject EXCEPT ![t] = r]
           /\ \E e \in About(Visible(Owner[t]), "exchange", r) :
                carried' = [carried EXCEPT ![t] = e.response]
  <2>1. PICK e \in About(Visible(Owner[t]), "exchange", r) :
               carried' = [carried EXCEPT ![t] = e.response]
    BY <1>6
  <2>2. e \in Elements(Visible(Owner[t])) /\ e.type = "exchange"
    BY DEF About, OfType, Elements
  <2>3. e \in Elements(ledger)
    BY <2>2, VisibleLog, OwnersAreSessions DEF DelegationInv
  <2>4. PICK x : x = e.response
    OBVIOUS
  <2>5. x \in Answers
    BY <2>2, <2>3, <2>4 DEF DelegationInv, Reported
  <2>6. Moves(t)
    BY <1>3, <1>6, <2>1, <2>4, <2>5, MovesTo DEF Go
  <2>7. QED  BY <1>1, <2>6, NothingWritten, FactsOfTask
<1>7. QED  BY <1>4, <1>5, <1>6 DEF Recover

\* A tab that opens looks up the run its ledger follows.
LEMMA OpenSteps ==
  ASSUME DelegationInv, NEW t \in Task, Open(t)
  PROVE  Facts
<1> DEFINE r == ActiveRun(ledger)
<1>1. /\ UNCHANGED <<ledger, carried, server>>
      /\ seen' = [seen EXCEPT ![Owner[t]] = Len(ledger)]
      /\ pc' = [u \in Task |->
                 IF u = t THEN IF Unanswered(ledger) THEN "loading" ELSE "surveying"
                 ELSE IF u \in Mine(Owner[t]) THEN "idle" ELSE pc[u]]
      /\ subject' = [subject EXCEPT ![t] = IF Unanswered(ledger) THEN r ELSE Null]
  BY DEF Open
<1>2. LedgerStep /\ ServerStep
  BY <1>1, ServerUntouched DEF LedgerStep
<1>3. Len(ledger) \in Nat
  BY LenProperties DEF DelegationInv, TypeOK
<1>4. SeenStep
  BY <1>1, <1>3, OwnersAreSessions DEF SeenStep, DelegationInv, TypeOK
<1>5. Unanswered(ledger) => r \in Granted(ledger)
  BY ActiveRunIsGranted DEF Unanswered
<1>6. Unanswered(ledger) => r \in Run
  BY <1>5, GrantedAreRuns
<1>7. /\ subject \in [Task -> Run \cup {Null}] /\ carried = [u \in Task |-> carried[u]]
      /\ \A u \in Task : pc[u] \in Asking => subject[u] \in Run
  BY DEF DelegationInv, TypeOK, Authority, Asking
<1> HIDE DEF r
<1>8. /\ pc' = [u \in Task |-> pc'[u]] /\ carried' = [u \in Task |-> carried'[u]]
      /\ subject' \in [Task -> Run \cup {Null}]
  BY <1>1, <1>6, <1>7
<1>9. /\ "loading" \notin Asking \cup Keeping \cup Holding
      /\ "surveying" \notin Asking \cup Engaged \cup Keeping \cup Holding
      /\ "idle" \notin Asking \cup Engaged \cup Keeping \cup Holding
  BY DEF Asking, Engaged, Keeping, Holding
<1>10. ASSUME NEW u \in Task
       PROVE  /\ pc'[u] \in Asking => subject'[u] \in Run
              /\ pc'[u] \in Engaged =>
                   \/ pc[u] \in Engaged /\ subject'[u] = subject[u]
                   \/ \E e \in Elements(ledger') : e.type = "run" /\ e.run = subject'[u]
              /\ pc'[u] \in Keeping =>
                   pc[u] \in Keeping /\ subject'[u] = subject[u] /\ carried'[u] = carried[u]
              /\ pc'[u] = "committing" => pc[u] = "committing" /\ subject'[u] = subject[u]
              /\ pc'[u] \in Holding => pc[u] \in Holding /\ carried'[u] = carried[u]
  <2>1. CASE u = t
    <3>1. subject'[u] = IF Unanswered(ledger) THEN r ELSE Null
      BY <1>1, <1>7, <2>1
    <3>2. pc'[u] = IF Unanswered(ledger) THEN "loading" ELSE "surveying"
      BY <1>1, <2>1
    <3>3. Unanswered(ledger) => \E e \in Elements(ledger') : e.type = "run" /\ e.run = r
      BY <1>1, <1>5, EventSets DEF Granted
    <3>4. QED  BY <1>9, <3>1, <3>2, <3>3
  <2>2. CASE u # t
    <3>1. subject'[u] = subject[u] /\ carried'[u] = carried[u]
      BY <1>1, <1>7, <2>2
    <3>2. pc'[u] = "idle" \/ pc'[u] = pc[u]
      BY <1>1, <2>2
    <3>3. QED  BY <1>7, <1>9, <3>1, <3>2
  <2>3. QED  BY <2>1, <2>2
<1>11. TaskStep
  BY <1>8, <1>10 DEF TaskStep
<1>12. QED  BY <1>2, <1>4, <1>11 DEF Facts

\* A page that goes takes what its tasks held with it.
LEMMA ClosedSteps ==
  ASSUME DelegationInv, NEW s \in Session, Lost(s) \/ Reload(s)
  PROVE  Facts
<1>1. /\ UNCHANGED <<ledger, server>> /\ seen' = [seen EXCEPT ![s] = 0]
      /\ pc' = [t \in Task |-> IF t \in Mine(s) THEN "closed" ELSE pc[t]]
      /\ subject' = [t \in Task |-> IF t \in Mine(s) THEN Null ELSE subject[t]]
      /\ carried' = [t \in Task |-> IF t \in Mine(s) THEN Null ELSE carried[t]]
  BY DEF Lost, Reload, Closed
<1>2. LedgerStep /\ ServerStep
  BY <1>1, ServerUntouched DEF LedgerStep
<1>3. Len(ledger) \in Nat
  BY LenProperties DEF DelegationInv, TypeOK
<1>4. SeenStep
  BY <1>1, <1>3 DEF SeenStep, DelegationInv, TypeOK
<1>5. /\ subject \in [Task -> Run \cup {Null}]
      /\ \A u \in Task : pc[u] \in Asking => subject[u] \in Run
  BY DEF DelegationInv, TypeOK, Authority, Asking
<1>6. "closed" \notin Asking \cup Engaged \cup Keeping \cup Holding
  BY DEF Asking, Engaged, Keeping, Holding
<1>7. TaskStep
  BY <1>1, <1>5, <1>6 DEF TaskStep
<1>8. QED  BY <1>2, <1>4, <1>7 DEF Facts

LEMMA AtRest ==
  ASSUME DelegationInv, UNCHANGED <<ledger, pc, subject, carried>>
  PROVE  TaskStep
<1>1. /\ pc' = pc /\ subject' = subject /\ carried' = carried
      /\ pc = [u \in Task |-> pc[u]] /\ carried = [u \in Task |-> carried[u]]
      /\ subject \in [Task -> Run \cup {Null}]
      /\ \A u \in Task : pc[u] \in Asking => subject[u] \in Run
  BY DEF DelegationInv, TypeOK, Authority, Asking
<1>2. QED  BY <1>1 DEF TaskStep

\* A step of the server does not touch what a page holds.
LEMMA ServerSteps ==
  ASSUME DelegationInv, NEW r \in Run,
         Die(r) \/ Reconcile(r) \/ \E x \in Response : Respond(r, x)
  PROVE  Facts
<1>1. UNCHANGED <<ledger, seen, pc, subject, carried>>
  BY DEF Die, Reconcile, Respond, shared, local
<1>2. PICK y \in Response \cup {"lost", "reconciled"} :
        /\ server' = [server EXCEPT ![r] = y]
        /\ server[r] \in {"running", "lost"}
  BY DEF Die, Reconcile, Respond
<1>3. /\ server \in [Run -> ServerState] /\ "running" \notin Response /\ "lost" \notin Response
      /\ y \in ServerState /\ y # "none"
  BY DelegationAssumption DEF DelegationInv, TypeOK, ServerState
<1>4. ServerStep
  BY <1>2, <1>3 DEF ServerStep
<1>5. TaskStep
  BY <1>1, AtRest
<1>6. QED  BY <1>1, <1>4, <1>5, NothingWritten DEF Facts

LEMMA NothingSteps ==
  ASSUME DelegationInv, UNCHANGED vars
  PROVE  Facts
<1>1. UNCHANGED <<ledger, seen, pc, subject, carried, server>>
  BY DEF vars, shared
<1>2. TaskStep
  BY <1>1, AtRest
<1>3. QED  BY <1>1, <1>2, NothingWritten, ServerUntouched DEF Facts

-------------------------------------------------------------------------------
(* The theorems                                                                *)

LEMMA InitiallyHolds == Init => DelegationInv
<1> SUFFICES ASSUME Init  PROVE DelegationInv
  OBVIOUS
<1>1. /\ ledger \in Seq(Elements(ledger))
      /\ \A e \in Elements(ledger) : e.type \in {"source", "accepted"}
  BY DelegationAssumption DEF Init
<1>2. BriefsOf(ledger) = {} /\ RunsOf(ledger) = {}
  BY <1>1, EventSets
<1>3. OfType(ledger, "exchange") = {}
  BY <1>1 DEF OfType, Elements
<1>4. Len(ledger) \in Nat
  BY <1>1, LenProperties
<1>5. TypeOK
  BY <1>1, <1>4 DEF Init, TypeOK, ServerState
<1>6. Identified
  BY <1>2, FS_EmptySet DEF Identified
<1>7. "closed" \notin Asking \cup Engaged \cup Keeping \cup Holding
  BY DEF Asking, Engaged, Keeping, Holding
<1>8. /\ Authority /\ Exact /\ Minted /\ Reported /\ Dated(ledger)
  <2>1. Authority /\ Exact
    BY <1>3, <1>7 DEF Init, Authority, Exact, Asking
  <2>2. Minted
    BY <1>2 DEF Init, Minted, Granted
  <2>3. Reported
    BY <1>1, <1>7 DEF Init, Reported
  <2>4. Dated(ledger)
    BY FirstLedgerAssumption DEF Init
  <2>5. QED  BY <2>1, <2>2, <2>3, <2>4
<1>9. DispatchedIsDurable
  BY DEF Init, DispatchedIsDurable
<1>10. QED  BY <1>5, <1>6, <1>8, <1>9 DEF DelegationInv

LEMMA StepsKeepInvariant == DelegationInv /\ [Next]_vars => DelegationInv'
<1> SUFFICES ASSUME DelegationInv, [Next]_vars  PROVE DelegationInv'
  OBVIOUS
<1>1. ASSUME NEW t \in Task, User(t)  PROVE Facts
  BY <1>1, PlacementSteps, PrepareSteps, RetrySteps, AuthorizeReplaySteps, AuthorizeLiveSteps
  DEF User
<1>2. ASSUME NEW t \in Task, Open(t)  PROVE Facts
  BY <1>2, OpenSteps
<1>3. ASSUME NEW t \in Task, Continue(t)  PROVE Facts
  <2>1. CASE \E m \in Mode : Compile(t, m)
    BY <2>1, CompileSteps
  <2>2. CASE Mint(t) \/ Commit(t) \/ DispatchLive(t) \/ Receive(t)
    BY <2>2, MintSteps, CommitSteps, DispatchLiveSteps, AnswerSteps
  <2>3. CASE \E x \in {"returned", "worker_failed"} : DispatchReplay(t, x)
    BY <2>3, AnswerSteps
  <2>4. CASE \E status \in {"completed", "in_progress", "outcome_unknown", "not_started"} :
               Retried(t, status) \/ Doubt(t, status) \/ Losing(t, status) \/ Load(t, status)
    BY <2>4, RetriedSteps, DoubtSteps, LosingSteps, LoadSteps
  <2>5. CASE Store(t) \/ Normalize(t) \/ Reject(t) \/ Conclude(t) \/ Complete(t) \/ Observe(t) \/ Restore(t)
    BY <2>5, StoreSteps, NormalizeSteps, RejectSteps, ConcludeSteps, ObserveSteps, RestoreSteps
  <2>6. CASE Survey(t) \/ \E r \in Run : Recover(t, r)
    BY <2>6, SurveySteps, RecoverSteps
  <2>7. QED  BY <1>3, <2>1, <2>2, <2>3, <2>4, <2>5, <2>6 DEF Continue
<1>4. ASSUME NEW t \in Task, Fail(t)  PROVE Facts
  BY <1>4, UnmintedSteps, LoseSteps, AnswerSteps, NormalizeSteps, SaveFailsSteps DEF Fail
<1>5. CASE \E s \in Session : Lost(s) \/ Reload(s)
  BY <1>5, ClosedSteps, InvariantKept
<1>6. CASE \E r \in Run : Die(r) \/ Reconcile(r) \/ \E x \in Response : Respond(r, x)
  BY <1>6, ServerSteps, InvariantKept
<1>7. CASE UNCHANGED vars
  BY <1>7, NothingSteps, InvariantKept
<1>8. CASE \E t \in Task : User(t) \/ Open(t) \/ Continue(t) \/ Fail(t)
  BY <1>1, <1>2, <1>3, <1>4, <1>8, InvariantKept
<1>9. QED  BY <1>5, <1>6, <1>7, <1>8 DEF Next

\* What the proofs rest on: the ledger numbers its briefs and authorizes a run
\* once, and a task that acts for a run has it from the ledger.
THEOREM DelegationInvariant == Spec => []DelegationInv
<1>1. QED  BY InitiallyHolds, StepsKeepInvariant, PTL DEF Spec

\* Whatever conflicts, recoveries and retries come between, and for any number of
\* tabs, no worker starts before the authorization of its run is in the ledger.
THEOREM DispatchesAreDurable == Spec => []DispatchedIsDurable
<1>1. DelegationInv => DispatchedIsDurable
  BY DEF DelegationInv
<1>2. QED  BY <1>1, DelegationInvariant, PTL

\* A live response in the ledger is the one the server keeps for that run, also
\* when it was taken over by a retry, after a lost answer or by another tab.
THEOREM RecordsAreExact == Spec => []RecordedIsPrivate
<1>1. DelegationInv => RecordedIsPrivate
  BY DEF DelegationInv, Exact, Final, RecordedIsPrivate
<1>2. QED  BY <1>1, DelegationInvariant, PTL

-------------------------------------------------------------------------------
(* What a page offers                                                          *)

LEMMA PrefixDated ==
  ASSUME NEW log, log \in Seq(Elements(log)), Dated(log), NEW n \in 0 .. Len(log)
  PROVE  Dated(SubSeq(log, 1, n))
<1> DEFINE new == SubSeq(log, 1, n)
<1>1. Len(log) \in Nat /\ \A i \in 1 .. n : new[i] = log[i]
  BY LogDomain, PrefixLog
<1>2. ASSUME NEW type
      PROVE  OfType(new, type) = {i \in OfType(log, type) : i <= n} /\ OfType(log, type) \subseteq 1 .. Len(log)
  <2>1. OfType(new, type) = {i \in OfType(log, type) : i <= n}
    BY PrefixTypes
  <2>2. OfType(log, type) \subseteq 1 .. Len(log)
    BY LogDomain DEF OfType
  <2>3. QED  BY <2>1, <2>2
<1> HIDE DEF new
<1>3. ASSUME NEW type, NEW i \in 1 .. n
      PROVE  Before(new, type, i) = Before(log, type, i)
  BY <1>1, <1>2 DEF Before
<1>4. ASSUME NEW i \in OfType(new, "accepted")
      PROVE  new[i].sequence \in 0 .. Cardinality(Before(new, "source", i))
  <2>1. i \in OfType(log, "accepted") /\ i \in 1 .. n
    BY <1>1, <1>2, <1>4
  <2>2. QED  BY <1>1, <1>3, <2>1 DEF Dated
<1>5. ASSUME NEW i \in OfType(new, "brief")
      PROVE  new[i].base = Cardinality(Before(new, "accepted", i))
  <2>1. i \in OfType(log, "brief") /\ i \in 1 .. n
    BY <1>1, <1>2, <1>5
  <2>2. QED  BY <1>1, <1>3, <2>1 DEF Dated
<1>6. QED  BY <1>4, <1>5 DEF Dated, new

\* The lifecycle of a run is no state of a page without one.
LEMMA StatusIsNoOffer ==
  ASSUME NEW log, NEW r,
         \A e \in Elements(log) : e.type = "lifecycle" => e.status \notin {"eligible", "previewable"}
  PROVE  Status(log, r) \notin {"eligible", "previewable"}
<1>1. CASE About(log, "lifecycle", r) # {}
  <2>1. PICK e : e = CHOOSE x \in About(log, "lifecycle", r) : TRUE
    OBVIOUS
  <2>2. e \in About(log, "lifecycle", r)
    BY <1>1, <2>1
  <2>3. e \in Elements(log) /\ e.type = "lifecycle"
    BY <2>2 DEF About, OfType, Elements
  <2>4. Status(log, r) \in {"outcome_unknown", e.status}
    BY <1>1, <2>1 DEF Status
  <2>5. QED  BY <2>3, <2>4
<1>2. CASE About(log, "lifecycle", r) = {}
  BY <1>2 DEF Status
<1>3. QED  BY <1>1, <1>2

\* Where the last source was adopted and no brief followed it, the head has come
\* after every brief.
LEMMA PlacedIsUnbriefed ==
  ASSUME NEW log, log \in Seq(Elements(log)), Dated(log),
         \A b \in BriefsOf(log) : b.brief # Null,
         ActiveBrief(log) = Null, Placed(log)
  PROVE  Unbriefed(log)
<1> DEFINE A == OfType(log, "accepted")
<1> DEFINE S == OfType(log, "brief")
<1> DEFINE T == OfType(log, "source")
<1> SUFFICES ASSUME NEW b \in BriefsOf(log), b.base = HeadOf(log) PROVE FALSE
  BY DEF Unbriefed
<1>1. Len(log) \in Nat /\ DOMAIN log = 1 .. Len(log)
  BY LogDomain
<1>2. A \subseteq 1 .. Len(log) /\ S \subseteq 1 .. Len(log) /\ T \subseteq 1 .. Len(log)
  BY <1>1 DEF OfType
<1>3. IsFiniteSet(A) /\ IsFiniteSet(T)
  BY TypesAreFinite
<1>4. PICK j \in S : b = log[j]
  BY DEF BriefsOf
<1>5. PICK i \in A : log[i].sequence = Cardinality(T)
  BY DEF Placed
<1>6. log[i].sequence \in 0 .. Cardinality(Before(log, "source", i))
  BY DEF Dated
<1>7. b.base = Cardinality(Before(log, "accepted", j))
  BY <1>4 DEF Dated
<1>8. \A k \in S : log[k].brief # Null
  BY DEF BriefsOf
<1>9. Last(S) > Last(T) => log[Last(S)].brief = Null
  BY DEF ActiveBrief
<1>10. /\ Before(log, "source", i) = {k \in T : k < i}
       /\ Before(log, "accepted", j) = {k \in A : k < j}
       /\ HeadOf(log) = Cardinality(A)
  BY DEF Before, HeadOf
<1> HIDE DEF A, S, T
<1>11. Last(S) \in S /\ j <= Last(S)
  BY <1>1, <1>2, <1>4, LastIsGreatest
<1>12. Last(T) \in 0 .. Len(log) /\ (Last(T) # 0 => Last(T) \in T)
  BY <1>1, <1>2, LastBounds
<1>13. j <= Last(T) /\ Last(T) \in T
  <2>1. ~(Last(S) > Last(T))
    BY <1>8, <1>9, <1>11
  <2>2. j \in 1 .. Len(log) /\ Last(S) \in 1 .. Len(log)
    BY <1>2, <1>4, <1>11
  <2>3. PICK l, m : l = Last(S) /\ m = Last(T)
    OBVIOUS
  <2>4. j \in Int /\ l \in Int /\ m \in Int /\ j >= 1 /\ j <= l /\ ~(l > m)
    BY <1>1, <1>11, <1>12, <2>1, <2>2, <2>3
  <2>5. j <= m /\ m # 0
    BY <2>4
  <2>6. QED  BY <1>12, <2>3, <2>5
<1>14. Last(T) < i
  <2>1. SUFFICES ASSUME ~(Last(T) < i) PROVE FALSE
    OBVIOUS
  <2> DEFINE P == {k \in T : k < i}
  <2>2. P \subseteq T /\ Last(T) \notin P
    BY <2>1
  <2>3. /\ IsFiniteSet(P) /\ Cardinality(P) <= Cardinality(T)
        /\ Cardinality(P) = Cardinality(T) => P = T
    <3> HIDE DEF P
    <3>1. QED  BY <1>3, <2>2, FS_Subset
  <2>4. Cardinality(P) \in Nat /\ Cardinality(T) \in Nat
    BY <1>3, <2>3, FS_CardinalityType
  <2>5. Cardinality(T) \in 0 .. Cardinality(P)
    BY <1>5, <1>6, <1>10
  <2> HIDE DEF P
  <2>6. P = T
    BY <2>3, <2>4, <2>5
  <2>7. QED  BY <1>13, <2>2, <2>6
<1>15. i \notin {k \in A : k < j}
  <2>1. i \in 1 .. Len(log) /\ j \in 1 .. Len(log)
    BY <1>2, <1>4, <1>5
  <2>2. PICK m : m = Last(T)
    OBVIOUS
  <2>3. m \in Int /\ i \in Int /\ j \in Int /\ j <= m /\ m < i
    BY <1>1, <1>12, <1>13, <1>14, <2>1, <2>2
  <2>4. ~(i < j)
    BY <2>3
  <2>5. QED  BY <2>4
<1>16. Cardinality({k \in A : k < j}) = Cardinality(A) => {k \in A : k < j} = A
  BY <1>3, FS_Subset
<1>17. QED  BY <1>5, <1>7, <1>10, <1>15, <1>16

\* A brief that is on the head and has no run of its own may be authorized.
LEMMA FreeIsAuthorizable ==
  ASSUME NEW log, log \in Seq(Elements(log)), \A e \in RunsOf(log) : e.run # Null,
         ActiveBrief(log) # Null, ActiveRun(log) = Null, ~Stale(log)
  PROVE  Authorizable(log)
<1> DEFINE S == {j \in OfType(log, "run") : log[j].brief = ActiveBrief(log)}
<1>1. Len(log) \in Nat /\ S \subseteq 1 .. Len(log) /\ S \subseteq OfType(log, "run")
  BY LogDomain DEF OfType
<1>2. Last(S) # 0 => log[Last(S)].run = Null
  BY DEF ActiveRun
<1>3. \A i \in S : log[i].run # Null
  BY DEF RunsOf
<1>4. S = {}
  <2> HIDE DEF S
  <2>1. SUFFICES ASSUME S # {} PROVE FALSE
    OBVIOUS
  <2>2. Last(S) \in S
    BY <1>1, <2>1, LastIsMember
  <2>3. Last(S) \in 1 .. Len(log)
    BY <1>1, <2>2
  <2>4. Last(S) # 0
    BY <1>1, <2>3
  <2>5. QED  BY <1>2, <1>3, <2>2, <2>4
<1>5. \A e \in RunsOf(log) : e.brief # ActiveBrief(log)
  BY <1>4 DEF RunsOf
<1>6. TheBrief(log, ActiveBrief(log)).base = HeadOf(log)
  BY DEF Stale
<1>7. QED  BY <1>5, <1>6 DEF Authorizable

\* The run a tab follows is authorized for a brief the tab has.
LEMMA ActiveRunHasBrief ==
  ASSUME NEW log, log \in Seq(Elements(log)), ActiveRun(log) # Null,
         \A e \in RunsOf(log) : e.brief # Null
  PROVE  \E e \in RunsOf(log) : \E b \in BriefsOf(log) : e.run = ActiveRun(log) /\ b.brief = e.brief
<1> DEFINE S == {j \in OfType(log, "run") : log[j].brief = ActiveBrief(log)}
<1>1. Len(log) \in Nat /\ DOMAIN log = 1 .. Len(log) /\ S \subseteq 1 .. Len(log)
  BY LogDomain DEF OfType
<1>2. Last(S) # 0 /\ ActiveRun(log) = log[Last(S)].run
  BY DEF ActiveRun
<1>3. \A i \in S : log[i] \in RunsOf(log) /\ log[i].brief = ActiveBrief(log)
  BY DEF RunsOf
<1>4. Last(S) \in S
  <2> HIDE DEF S
  <2>1. QED  BY <1>1, <1>2, LastBounds
<1>5. ActiveBrief(log) # Null
  BY <1>3, <1>4
<1>6. \E n \in Nat : DOMAIN log = 1 .. n
  BY <1>1
<1>7. PICK b \in BriefsOf(log) : b.brief = ActiveBrief(log)
  BY <1>5, <1>6, ActiveIsBrief
<1> HIDE DEF S
<1>8. log[Last(S)] \in RunsOf(log) /\ log[Last(S)].brief = b.brief
  BY <1>3, <1>4, <1>7
<1>9. QED  BY <1>2, <1>8

LEMMA OffersHold == DelegationInv => OfferedIsAdmitted
<1> SUFFICES ASSUME DelegationInv, NEW s \in Session, seen[s] # 0
             PROVE  /\ CanPrepare(s) => Unbriefed(Visible(s))
                    /\ CanAuthorize(s) => Authorizable(Visible(s))
                    /\ CanRetryDispatch(s) => server[ActiveRun(Visible(s))] # "none"
  BY DEF OfferedIsAdmitted
<1>1. PICK log, n : log = Visible(s) /\ n = seen[s]
  OBVIOUS
<1>2. ledger \in Seq(Elements(ledger)) /\ n \in 0 .. Len(ledger) /\ log = SubSeq(ledger, 1, n)
  BY <1>1, LogDomain DEF DelegationInv, TypeOK, Visible
<1>3. log \in Seq(Elements(log)) /\ Elements(log) \subseteq Elements(ledger) /\ Dated(log)
  <2>1. Dated(ledger)
    BY DEF DelegationInv
  <2>2. SubSeq(ledger, 1, n) \in Seq(Elements(SubSeq(ledger, 1, n)))
    BY <1>2, PrefixLog
  <2>3. Elements(SubSeq(ledger, 1, n)) \subseteq Elements(ledger)
    BY <1>2, PrefixLog
  <2>4. Dated(SubSeq(ledger, 1, n))
    BY <1>2, <2>1, PrefixDated
  <2>5. QED  BY <1>2, <2>2, <2>3, <2>4
<1>4. BriefsOf(log) \subseteq BriefsOf(ledger) /\ RunsOf(log) \subseteq RunsOf(ledger)
  BY <1>3, EventSets
<1>5. \A e \in RunsOf(log) : e.run # Null
  BY <1>4, DelegationAssumption DEF DelegationInv, Identified, Run
<1>6. \A b \in BriefsOf(ledger) : b.brief # Null
  <2>1. Cardinality(BriefsOf(ledger)) \in Nat
    BY FS_CardinalityType DEF DelegationInv, Identified
  <2>2. \A b \in BriefsOf(ledger) : b.brief \in Nat
    BY <2>1 DEF DelegationInv, Identified
  <2>3. QED  BY <2>2, DelegationAssumption
<1>7. \A e \in RunsOf(log) : e.brief # Null
  BY <1>4, <1>6 DEF DelegationInv, Identified
<1>8. \A r : Status(log, r) \notin {"eligible", "previewable"}
  <2>1. \A e \in Elements(log) : e.type = "lifecycle" => e.status \notin {"eligible", "previewable"}
    BY <1>3 DEF DelegationInv, Reported
  <2>2. QED  BY <2>1, StatusIsNoOffer
<1>9. ASSUME CanPrepare(s) PROVE Unbriefed(Visible(s))
  <2>1. operation[s] = "idle" /\ WorkState(s) = "eligible"
    BY <1>9 DEF CanPrepare
  <2>2. ActiveRun(log) = Null /\ ActiveBrief(log) = Null /\ Placed(log)
    BY <1>1, <1>8, <2>1 DEF WorkState
  <2>3. Unbriefed(log)
    BY <1>3, <1>4, <1>6, <2>2, PlacedIsUnbriefed
  <2>4. QED  BY <1>1, <2>3
<1>10. ASSUME CanAuthorize(s) PROVE Authorizable(Visible(s))
  <2>1. operation[s] = "idle" /\ WorkState(s) = "previewable"
    BY <1>10 DEF CanAuthorize
  <2>2. ActiveRun(log) = Null /\ ActiveBrief(log) # Null /\ ~Stale(log)
    BY <1>1, <1>8, <2>1 DEF WorkState
  <2>3. Authorizable(log)
    BY <1>3, <1>5, <2>2, FreeIsAuthorizable
  <2>4. QED  BY <1>1, <2>3
<1>11. ASSUME CanRetryDispatch(s) PROVE server[ActiveRun(Visible(s))] # "none"
  <2>1. ActiveRun(log) # Null /\ ModeOf(log, ActiveRun(log)) = "live"
    BY <1>1, <1>11 DEF CanRetryDispatch, Redispatchable
  <2>2. PICK e \in RunsOf(log) : \E b \in BriefsOf(log) : e.run = ActiveRun(log) /\ b.brief = e.brief
    BY <1>3, <1>7, <2>1, ActiveRunHasBrief
  <2>3. PICK b \in BriefsOf(log) : e.run = ActiveRun(log) /\ b.brief = e.brief
    BY <2>2
  <2>4. /\ \A c, d \in BriefsOf(ledger) : c.brief = d.brief => c = d
        /\ \A c, d \in RunsOf(ledger) : c.run = d.run => c = d
    BY DEF DelegationInv, Identified
  <2>5. ModeOf(log, e.run) = b.mode
    <3>1. /\ \A c, d \in BriefsOf(log) : c.brief = d.brief => c = d
          /\ \A c, d \in RunsOf(log) : c.run = d.run => c = d
      BY <1>4, <2>4
    <3>2. QED  BY <2>3, <3>1, ModeIsBriefs
  <2>6. ModeOf(ledger, e.run) = b.mode
    BY <1>4, <2>3, <2>4, ModeIsBriefs
  <2>7. e.run \in Granted(ledger)
    BY <1>4 DEF Granted
  <2>8. PICK r : r = e.run
    OBVIOUS
  <2>9. server[r] # "none"
    BY <2>1, <2>3, <2>5, <2>6, <2>7, <2>8 DEF DelegationInv, Minted
  <2>10. QED  BY <1>1, <2>3, <2>8, <2>9
<1>12. QED  BY <1>9, <1>10, <1>11

\* What an idle page offers, the session admits, for any number of tabs that see
\* different parts of the ledger: no second brief of a revision, no authority for
\* a stale or used brief, no retry of what the server has not kept.
THEOREM OffersAreAdmitted == Spec => []OfferedIsAdmitted
<1>1. QED  BY OffersHold, DelegationInvariant, PTL
===============================================================================
