-------------------------- MODULE EvidenceSessionProofs --------------------------
(* Whatever the number of tabs, tasks, sources, questions and faults: what is   *)
(* adopted was based on the head it is adopted on, a result has one request, one *)
(* answer and one validation that is exact, and what an idle page offers is      *)
(* admitted.  Every step is reduced to what it appends to the ledger, what its   *)
(* task holds and what its page sees.                                            *)
EXTENDS EvidenceSession, SessionLedgerProofs

\* An event that the ledger of this moment may take.
Proper(log, e) ==
  \/ e.type \in {"source", "proposed", "integrated"}
  \/ /\ e.type = "attempt" /\ e.request = Cardinality(RequestsOf(log)) + 1
     /\ e.base = HeadOf(log)
  \/ /\ e.type \in {"answer", "failure"}
     /\ \E a \in OfType(log, "attempt") :
          log[a].request = e.request /\ log[a].source = e.source
  \/ /\ e.type = "accepted" /\ e.request # Null
     /\ ActiveDelta(log) = e.request /\ ~Stale(log, e.request)
  \/ e.type = "evidence" /\ ~Has(log, "evidence")
  \/ /\ e.type = "verdict" /\ ~Has(log, "verdict")
     /\ \E j \in OfType(log, "evidence") : log[j].request = e.request
  \/ /\ e.type = "validation" /\ ~Has(log, "validation")
     /\ \E j \in OfType(log, "verdict") : SameMeaning(log[j], e)
     /\ e.fresh <=> Fresh(log)

LedgerStep == ledger' = ledger \/ \E e : ledger' = Append(ledger, e) /\ Proper(ledger, e)

\* A result has one request, one answer and one validation, in this order.
Single(log, type) == \A i, j \in OfType(log, type) : i = j

Worked(log) ==
  /\ Single(log, "evidence") /\ Single(log, "verdict") /\ Single(log, "validation")
  /\ \A i \in OfType(log, "verdict") :
       \E j \in OfType(log, "evidence") : j < i /\ log[j].request = log[i].request
  /\ \A i \in OfType(log, "validation") :
       /\ \E j \in OfType(log, "verdict") : j < i /\ SameMeaning(log[j], log[i])
       /\ log[i].fresh <=> Fresh(SubSeq(log, 1, i - 1))

LedgerInv(log) ==
  /\ log \in Seq(Elements(log))
  /\ Numbered(log) /\ Asked(log) /\ OnHead(log) /\ Worked(log)

\* What a task at a place holds comes from the ledger.
HoldsOf(log, place, x) ==
  /\ place = "asking" =>
       \E a \in OfType(log, "attempt") : log[a].request = x.request /\ log[a].source = x.source
  /\ place = "verifying" => \E j \in OfType(log, "evidence") : log[j].request = x.request
  /\ place = "recording" =>
       /\ x.type = "verdict"
       /\ \E j \in OfType(log, "evidence") : log[j].request = x.request
  /\ place = "normalizing" =>
       /\ x.type = "validation" /\ x.at \in 0 .. Len(log)
       /\ \E j \in OfType(log, "verdict") : SameMeaning(log[j], x)
       /\ ~Has(SubSeq(log, 1, x.at), "validation")
       /\ x.fresh <=> Fresh(SubSeq(log, 1, x.at))

\* What its page sees: no answer while it waits for one, one while it records
\* what the answer means.
Sees(copy, place) ==
  /\ place = "verifying" => ~Has(copy, "verdict")
  /\ place = "normalizing" => Has(copy, "verdict")

Background == {"closed", "idle", "surveying", "normalizing"}

Shape ==
  /\ seen \in [Session -> Nat] /\ \A s \in Session : seen[s] <= Len(ledger)
  /\ error = [s \in Session |-> error[s]]
  /\ pc = [t \in Task |-> pc[t]] /\ held = [t \in Task |-> held[t]]

WorkInv ==
  /\ LedgerInv(ledger) /\ Shape
  /\ \A t \in Task :
       /\ HoldsOf(ledger, pc[t], held[t])
       /\ Sees(Visible(Owner[t]), pc[t])
       /\ t \notin Foreground => pc[t] \in Background
  /\ \A s \in Session : error[s] = "unobserved" => ~Has(Visible(s), "verdict")

-------------------------------------------------------------------------------
(* A ledger with an event more                                                 *)

LEMMA GrownLog ==
  ASSUME NEW log, log \in Seq(Elements(log)), NEW e
  PROVE  /\ \A n \in 0 .. Len(log) : SubSeq(Append(log, e), 1, n) = SubSeq(log, 1, n)
         /\ \A type : OfType(log, type) \subseteq OfType(Append(log, e), type)
         /\ \A type : \A i \in OfType(log, type) : i \in 1 .. Len(log) /\ Append(log, e)[i] = log[i]
<1> DEFINE new == Append(log, e)
<1>1. /\ Len(log) \in Nat /\ DOMAIN log = 1 .. Len(log) /\ DOMAIN new = 1 .. Len(log) + 1
      /\ \A i \in 1 .. Len(log) : new[i] = log[i]
      /\ new \in Seq(Elements(new)) /\ Len(new) = Len(log) + 1
  BY AppendedLog, LenProperties
<1> HIDE DEF new
<1>2. ASSUME NEW n \in 0 .. Len(log)
      PROVE  SubSeq(new, 1, n) = SubSeq(log, 1, n)
  BY <1>1, SamePrefix
<1>3. \A type : OfType(log, type) \subseteq OfType(new, type)
  BY <1>1 DEF OfType
<1>4. \A type : \A i \in OfType(log, type) : i \in 1 .. Len(log) /\ new[i] = log[i]
  BY <1>1 DEF OfType
<1>5. QED  BY <1>2, <1>3, <1>4 DEF new

\* The places that move the head, of a log and of its first events.
LEMMA HeadsOfPrefix ==
  ASSUME NEW log, log \in Seq(Elements(log)), NEW n \in 0 .. Len(log),
         HeadOf(SubSeq(log, 1, n)) = HeadOf(log)
  PROVE  \A k \in n + 1 .. Len(log) : log[k].type \notin {"accepted", "integrated"}
<1> DEFINE heads == OfType(log, "accepted") \cup OfType(log, "integrated")
<1> DEFINE before == OfType(SubSeq(log, 1, n), "accepted") \cup OfType(SubSeq(log, 1, n), "integrated")
<1>1. before = {i \in heads : i <= n}
  BY PrefixTypes
<1>2. heads \subseteq 1 .. Len(log) /\ Len(log) \in Nat
  BY LogDomain DEF OfType
<1>3. IsFiniteSet(heads)
  <2>1. IsFiniteSet(1 .. Len(log))
    BY <1>2, FS_Interval
  <2>2. QED  BY <1>2, <2>1, FS_Subset
<1>4. before \subseteq heads /\ Cardinality(before) = Cardinality(heads)
  BY <1>1 DEF HeadOf
<1>5. before = heads
  BY <1>3, <1>4, FS_Subset
<1>6. \A k \in 1 .. Len(log) : log[k].type \in {"accepted", "integrated"} => k \in heads
  BY LogDomain DEF OfType
<1> HIDE DEF heads, before
<1>7. QED  BY <1>1, <1>2, <1>5, <1>6

LEMMA PlacingLog ==
  ASSUME NEW log, log \in Seq(Elements(log))
  PROVE  /\ Placing(log) = {i \in 1 .. Len(log) : log[i].type \in {"source", "attempt", "answer", "failure"}}
         /\ Last(Placing(log)) \in 0 .. Len(log)
         /\ \A i \in Placing(log) : i <= Last(Placing(log))
         /\ Last(Placing(log)) # 0 => Last(Placing(log)) \in Placing(log)
<1>1. Len(log) \in Nat /\ DOMAIN log = 1 .. Len(log)
  BY LogDomain
<1>2. Placing(log) = {i \in 1 .. Len(log) : log[i].type \in {"source", "attempt", "answer", "failure"}}
  BY <1>1 DEF Placing, OfType
<1>3. QED  BY <1>1, <1>2, LastBounds

\* The question of a request is the one attempt that has its number.
LEMMA TheAttempt ==
  ASSUME NEW log, Numbered(log), NEW a \in OfType(log, "attempt")
  PROVE  BaseOf(log, log[a].request) = log[a].base
BY DEF Numbered, BaseOf

\* A delta that is active and not stale was asked for on the present head.
LEMMA AcceptedOnHead ==
  ASSUME NEW log, log \in Seq(Elements(log)), Numbered(log), Asked(log),
         NEW q, q # Null, ActiveDelta(log) = q, ~Stale(log, q)
  PROVE  \E a \in OfType(log, "attempt"), x \in OfType(log, "answer") :
           /\ a < x /\ log[a].request = q /\ log[x].request = q /\ log[x].outcome = "placed"
           /\ \A k \in a + 1 .. Len(log) : log[k].type \notin {"accepted", "integrated"}
<1> DEFINE x == Last(Placing(log))
<1>1. x # 0 /\ log[x].type = "answer" /\ log[x].outcome = "placed" /\ log[x].request = q
  BY DEF ActiveDelta
<1>2. Len(log) \in Nat /\ DOMAIN log = 1 .. Len(log)
  BY LogDomain
<1>3. x \in OfType(log, "answer")
  BY <1>1, <1>2, PlacingLog DEF OfType
<1> HIDE DEF x
<1>4. PICK a \in OfType(log, "attempt") : a < x /\ log[a].request = q
  BY <1>1, <1>3 DEF Asked
<1>5. HeadOf(log) = log[a].base
  BY <1>4, TheAttempt DEF Stale
<1>6. log[a].base = HeadOf(SubSeq(log, 1, a - 1))
  BY DEF Numbered
<1>7. a \in 1 .. Len(log) /\ a - 1 \in 0 .. Len(log)
  BY <1>2 DEF OfType
<1>8. \A k \in (a - 1) + 1 .. Len(log) : log[k].type \notin {"accepted", "integrated"}
  BY <1>5, <1>6, <1>7, HeadsOfPrefix
<1>9. \A k \in a + 1 .. Len(log) : k \in (a - 1) + 1 .. Len(log)
  BY <1>2, <1>7
<1>10. QED  BY <1>1, <1>3, <1>4, <1>8, <1>9

LEMMA NumberedKept ==
  ASSUME NEW log, LedgerInv(log), NEW e, Proper(log, e)
  PROVE  Numbered(Append(log, e))
<1> DEFINE new == Append(log, e)
<1>1. log \in Seq(Elements(log)) /\ Numbered(log)
  BY DEF LedgerInv
<1>2. /\ Len(log) \in Nat /\ DOMAIN log = 1 .. Len(log)
      /\ \A i \in 1 .. Len(log) : new[i] = log[i]
      /\ new[Len(log) + 1] = e /\ Len(new) = Len(log) + 1
  BY <1>1, AppendedLog, LogDomain
<1>3. /\ e.type = "attempt" => OfType(new, "attempt") = OfType(log, "attempt") \cup {Len(log) + 1}
      /\ e.type # "attempt" => OfType(new, "attempt") = OfType(log, "attempt")
      /\ \A i \in OfType(log, "attempt") : i \in 1 .. Len(log)
  <2>1. \A i \in OfType(log, "attempt") : i \in 1 .. Len(log)
    BY <1>1, GrownLog
  <2>2. QED  BY <1>1, <2>1, AppendedTypes
<1>4. \A i \in OfType(new, "attempt") : new[i].base = HeadOf(SubSeq(new, 1, i - 1))
  <2>1. ASSUME NEW i \in OfType(log, "attempt")
        PROVE  new[i].base = HeadOf(SubSeq(new, 1, i - 1))
    <3>1. i - 1 \in 0 .. Len(log) /\ new[i] = log[i]
      BY <1>2, <1>3
    <3>2. SubSeq(new, 1, i - 1) = SubSeq(log, 1, i - 1)
      BY <1>1, <3>1, GrownLog
    <3>3. log[i].base = HeadOf(SubSeq(log, 1, i - 1))
      BY <1>1 DEF Numbered
    <3>4. QED  BY <3>1, <3>2, <3>3
  <2>2. ASSUME e.type = "attempt"
        PROVE  e.base = HeadOf(SubSeq(new, 1, (Len(log) + 1) - 1))
    <3>1. e.base = HeadOf(log)
      BY <2>2 DEF Proper
    <3>2. (Len(log) + 1) - 1 = Len(log) /\ Len(log) \in 0 .. Len(log)
      BY <1>2
    <3>3. SubSeq(new, 1, Len(log)) = SubSeq(log, 1, Len(log))
      BY <1>1, <3>2, GrownLog
    <3>4. SubSeq(log, 1, Len(log)) = log
      BY <1>1, SubSeqFull
    <3>5. QED  BY <3>1, <3>2, <3>3, <3>4
  <2> HIDE DEF new
  <2>3. QED  BY <1>2, <1>3, <2>1, <2>2
<1>5. CASE e.type # "attempt"
  <2> HIDE DEF new
  <2>1. OfType(new, "attempt") = OfType(log, "attempt")
        /\ \A i \in OfType(new, "attempt") : new[i] = log[i]
    BY <1>2, <1>3, <1>5
  <2>2. RequestsOf(new) = RequestsOf(log)
    BY <2>1 DEF RequestsOf
  <2>3. \A i, j \in OfType(new, "attempt") : new[i].request = new[j].request => i = j
    BY <1>1, <2>1 DEF Numbered
  <2>4. \E n \in 0 .. Len(new) : RequestsOf(new) = 1 .. n
    <3>1. PICK n \in 0 .. Len(log) : RequestsOf(log) = 1 .. n
      BY <1>1 DEF Numbered
    <3>2. n \in 0 .. Len(new)
      BY <1>2
    <3>3. QED  BY <2>2, <3>1, <3>2
  <2>5. Numbered(new)
    BY <1>4, <2>3, <2>4 DEF Numbered
  <2>6. QED  BY <2>5 DEF new
<1>6. CASE e.type = "attempt"
  <2>1. PICK n \in 0 .. Len(log) : RequestsOf(log) = 1 .. n
    BY <1>1 DEF Numbered
  <2>2. n \in Nat /\ n + 1 \in 0 .. Len(new)
    BY <1>2
  <2>3. Cardinality(RequestsOf(log)) = n
    <3>1. Cardinality(1 .. n) = n
      BY <2>2, FS_Interval
    <3>2. QED  BY <2>1, <3>1
  <2>4. e.request = n + 1
    BY <1>6, <2>3 DEF Proper
  <2> HIDE DEF new
  <2>5. RequestsOf(new) = RequestsOf(log) \cup {n + 1}
    BY <1>2, <1>3, <1>6, <2>4 DEF RequestsOf
  <2>6. RequestsOf(new) = 1 .. n + 1
    BY <2>1, <2>2, <2>5
  <2>7. \E m \in 0 .. Len(new) : RequestsOf(new) = 1 .. m
    BY <2>2, <2>6
  <2>8. \A i \in OfType(log, "attempt") : log[i].request # n + 1
    <3>1. \A i \in OfType(log, "attempt") : log[i].request \in 1 .. n
      BY <2>1 DEF RequestsOf
    <3>2. QED  BY <2>2, <3>1
  <2>9. \A i, j \in OfType(new, "attempt") : new[i].request = new[j].request => i = j
    BY <1>1, <1>2, <1>3, <1>6, <2>4, <2>8 DEF Numbered
  <2>10. Numbered(new)
    BY <1>4, <2>7, <2>9 DEF Numbered
  <2>11. QED  BY <2>10 DEF new
<1>7. QED  BY <1>5, <1>6

LEMMA AskedKept ==
  ASSUME NEW log, LedgerInv(log), NEW e, Proper(log, e)
  PROVE  Asked(Append(log, e))
<1> DEFINE new == Append(log, e)
<1>1. log \in Seq(Elements(log)) /\ Asked(log)
  BY DEF LedgerInv
<1>2. /\ Len(log) \in Nat /\ new[Len(log) + 1] = e
      /\ \A type : OfType(log, type) \subseteq OfType(new, type)
      /\ \A type : \A i \in OfType(log, type) : i \in 1 .. Len(log) /\ new[i] = log[i]
      /\ \A type : OfType(new, type) \subseteq OfType(log, type) \cup {Len(log) + 1}
      /\ \A type : Len(log) + 1 \in OfType(new, type) => e.type = type
  BY <1>1, AppendedLog, AppendedTypes, GrownLog DEF OfType
<1> HIDE DEF new
<1>3. ASSUME NEW i \in OfType(new, "answer") \cup OfType(new, "failure")
      PROVE  \E a \in OfType(new, "attempt") :
               a < i /\ new[a].request = new[i].request /\ new[a].source = new[i].source
  <2>1. CASE i \in OfType(log, "answer") \cup OfType(log, "failure")
    BY <1>1, <1>2, <2>1 DEF Asked
  <2>2. CASE i = Len(log) + 1
    <3>1. e.type \in {"answer", "failure"} /\ new[i] = e
      BY <1>2, <1>3, <2>2
    <3>2. PICK a \in OfType(log, "attempt") : log[a].request = e.request /\ log[a].source = e.source
      BY <3>1 DEF Proper
    <3>3. a < i /\ a \in OfType(new, "attempt") /\ new[a] = log[a]
      BY <1>2, <2>2, <3>2
    <3>4. QED  BY <3>1, <3>2, <3>3
  <2>3. QED  BY <1>2, <1>3, <2>1, <2>2
<1>4. QED  BY <1>3 DEF Asked, new

\* What an event more leaves of a log, in one place.
LEMMA Grown ==
  ASSUME NEW log, log \in Seq(Elements(log)), NEW e
  PROVE  /\ Len(log) \in Nat /\ Append(log, e)[Len(log) + 1] = e
         /\ \A i \in 1 .. Len(log) : Append(log, e)[i] = log[i]
         /\ \A type : OfType(log, type) \subseteq OfType(Append(log, e), type)
         /\ \A type : \A i \in OfType(log, type) : i \in 1 .. Len(log) /\ Append(log, e)[i] = log[i]
         /\ \A type : OfType(Append(log, e), type) \subseteq OfType(log, type) \cup {Len(log) + 1}
         /\ \A type : Len(log) + 1 \in OfType(Append(log, e), type) => e.type = type
BY AppendedLog, AppendedTypes, GrownLog DEF OfType

LEMMA OnHeadKept ==
  ASSUME NEW log, LedgerInv(log), NEW e, Proper(log, e)
  PROVE  OnHead(Append(log, e))
<1> DEFINE new == Append(log, e)
<1>1. log \in Seq(Elements(log)) /\ OnHead(log) /\ Numbered(log) /\ Asked(log)
  BY DEF LedgerInv
<1>2. /\ Len(log) \in Nat /\ new[Len(log) + 1] = e
      /\ \A i \in 1 .. Len(log) : new[i] = log[i]
      /\ \A type : OfType(log, type) \subseteq OfType(new, type)
      /\ \A type : \A i \in OfType(log, type) : i \in 1 .. Len(log) /\ new[i] = log[i]
      /\ \A type : OfType(new, type) \subseteq OfType(log, type) \cup {Len(log) + 1}
      /\ \A type : Len(log) + 1 \in OfType(new, type) => e.type = type
  BY <1>1, Grown
<1> HIDE DEF new
<1>3. ASSUME NEW j \in OfType(log, "accepted")
      PROVE  \E a \in OfType(new, "attempt"), x \in OfType(new, "answer") :
               /\ a < x /\ x < j
               /\ new[a].request = new[j].request /\ new[x].request = new[j].request
               /\ new[x].outcome = "placed"
               /\ \A k \in a + 1 .. j - 1 : new[k].type \notin {"accepted", "integrated"}
  <2>1. PICK a \in OfType(log, "attempt"), x \in OfType(log, "answer") :
          /\ a < x /\ x < j
          /\ log[a].request = log[j].request /\ log[x].request = log[j].request
          /\ log[x].outcome = "placed"
          /\ \A k \in a + 1 .. j - 1 : log[k].type \notin {"accepted", "integrated"}
    BY <1>1 DEF OnHead
  <2>2. a \in 1 .. Len(log) /\ x \in 1 .. Len(log) /\ j \in 1 .. Len(log)
        /\ new[a] = log[a] /\ new[x] = log[x] /\ new[j] = log[j]
        /\ a \in OfType(new, "attempt") /\ x \in OfType(new, "answer")
    BY <1>2
  <2>3. \A k \in a + 1 .. j - 1 : new[k] = log[k]
    <3>1. \A k \in a + 1 .. j - 1 : k \in 1 .. Len(log)
      BY <1>2, <2>2
    <3>2. QED  BY <1>2, <3>1
  <2>4. \A k \in a + 1 .. j - 1 : new[k].type \notin {"accepted", "integrated"}
    BY <2>1, <2>3
  <2>5. QED  BY <2>1, <2>2, <2>4
<1>4. ASSUME e.type = "accepted"
      PROVE  \E a \in OfType(new, "attempt"), x \in OfType(new, "answer") :
               /\ a < x /\ x < Len(log) + 1
               /\ new[a].request = e.request /\ new[x].request = e.request
               /\ new[x].outcome = "placed"
               /\ \A k \in a + 1 .. (Len(log) + 1) - 1 : new[k].type \notin {"accepted", "integrated"}
  <2>1. e.request # Null /\ ActiveDelta(log) = e.request /\ ~Stale(log, e.request)
    BY <1>4 DEF Proper
  <2>2. PICK a \in OfType(log, "attempt"), x \in OfType(log, "answer") :
          /\ a < x /\ log[a].request = e.request /\ log[x].request = e.request /\ log[x].outcome = "placed"
          /\ \A k \in a + 1 .. Len(log) : log[k].type \notin {"accepted", "integrated"}
    BY <1>1, <2>1, AcceptedOnHead
  <2>3. a \in 1 .. Len(log) /\ x \in 1 .. Len(log)
        /\ new[a] = log[a] /\ new[x] = log[x]
        /\ a \in OfType(new, "attempt") /\ x \in OfType(new, "answer")
    BY <1>2
  <2>4. \A k \in a + 1 .. (Len(log) + 1) - 1 : k \in a + 1 .. Len(log) /\ k \in 1 .. Len(log)
    BY <1>2, <2>3
  <2>5. \A k \in a + 1 .. (Len(log) + 1) - 1 : new[k].type \notin {"accepted", "integrated"}
    BY <1>2, <2>2, <2>4
  <2>6. x < Len(log) + 1
    BY <1>2, <2>3
  <2>7. QED  BY <2>2, <2>3, <2>5, <2>6
<1>5. ASSUME NEW j \in OfType(new, "accepted")
      PROVE  \E a \in OfType(new, "attempt"), x \in OfType(new, "answer") :
               /\ a < x /\ x < j
               /\ new[a].request = new[j].request /\ new[x].request = new[j].request
               /\ new[x].outcome = "placed"
               /\ \A k \in a + 1 .. j - 1 : new[k].type \notin {"accepted", "integrated"}
  <2>1. CASE j \in OfType(log, "accepted")
    BY <1>3, <2>1
  <2>2. CASE j = Len(log) + 1
    BY <1>2, <1>4, <2>2
  <2>3. QED  BY <1>2, <2>1, <2>2
<1>6. QED  BY <1>5 DEF OnHead, new

LEMMA WorkedKept ==
  ASSUME NEW log, LedgerInv(log), NEW e, Proper(log, e)
  PROVE  Worked(Append(log, e))
<1> DEFINE new == Append(log, e)
<1>1. log \in Seq(Elements(log)) /\ Worked(log)
  BY DEF LedgerInv
<1>2. /\ Len(log) \in Nat /\ new[Len(log) + 1] = e
      /\ \A type : OfType(log, type) \subseteq OfType(new, type)
      /\ \A type : \A i \in OfType(log, type) : i \in 1 .. Len(log) /\ new[i] = log[i]
      /\ \A type : OfType(new, type) \subseteq OfType(log, type) \cup {Len(log) + 1}
      /\ \A type : Len(log) + 1 \in OfType(new, type) => e.type = type
  BY <1>1, Grown
<1>3. \A n \in 0 .. Len(log) : SubSeq(new, 1, n) = SubSeq(log, 1, n)
  BY <1>1, GrownLog
<1>4. SubSeq(new, 1, (Len(log) + 1) - 1) = log
  <2>1. (Len(log) + 1) - 1 = Len(log) /\ Len(log) \in 0 .. Len(log)
    BY <1>2
  <2>2. SubSeq(log, 1, Len(log)) = log
    BY <1>1, SubSeqFull
  <2>3. QED  BY <1>3, <2>1, <2>2
<1> HIDE DEF new
<1>5. ASSUME NEW type \in {"evidence", "verdict", "validation"}
      PROVE  Single(new, type)
  <2>1. Single(log, type)
    BY <1>1 DEF Worked
  <2>2. e.type = type => OfType(log, type) = {}
    BY DEF Proper, Has
  <2>3. QED  BY <1>2, <2>1, <2>2 DEF Single
<1>6. ASSUME NEW i \in OfType(new, "verdict")
      PROVE  \E j \in OfType(new, "evidence") : j < i /\ new[j].request = new[i].request
  <2>1. CASE i \in OfType(log, "verdict")
    BY <1>1, <1>2, <2>1 DEF Worked
  <2>2. CASE i = Len(log) + 1
    <3>1. e.type = "verdict" /\ new[i] = e
      BY <1>2, <1>6, <2>2
    <3>2. PICK j \in OfType(log, "evidence") : log[j].request = e.request
      BY <3>1 DEF Proper
    <3>3. QED  BY <1>2, <2>2, <3>1, <3>2
  <2>3. QED  BY <1>2, <1>6, <2>1, <2>2
<1>7. ASSUME NEW i \in OfType(new, "validation")
      PROVE  /\ \E j \in OfType(new, "verdict") : j < i /\ SameMeaning(new[j], new[i])
             /\ new[i].fresh <=> Fresh(SubSeq(new, 1, i - 1))
  <2>1. CASE i \in OfType(log, "validation")
    <3>1. i \in 1 .. Len(log) /\ new[i] = log[i] /\ i - 1 \in 0 .. Len(log)
      BY <1>2, <2>1
    <3>2. SubSeq(new, 1, i - 1) = SubSeq(log, 1, i - 1)
      BY <1>3, <3>1
    <3>3. PICK j \in OfType(log, "verdict") : j < i /\ SameMeaning(log[j], log[i])
      BY <1>1, <2>1 DEF Worked
    <3>4. j \in OfType(new, "verdict") /\ new[j] = log[j]
      BY <1>2
    <3>5. new[i].fresh <=> Fresh(SubSeq(new, 1, i - 1))
      BY <1>1, <2>1, <3>1, <3>2 DEF Worked
    <3>6. QED  BY <3>1, <3>3, <3>4, <3>5
  <2>2. CASE i = Len(log) + 1
    <3>1. e.type = "validation" /\ new[i] = e
      BY <1>2, <1>7, <2>2
    <3>2. PICK j \in OfType(log, "verdict") : SameMeaning(log[j], e)
      BY <3>1 DEF Proper
    <3>3. j < i /\ j \in OfType(new, "verdict") /\ new[j] = log[j]
      BY <1>2, <2>2
    <3>4. e.fresh <=> Fresh(log)
      BY <3>1 DEF Proper
    <3>5. new[i].fresh <=> Fresh(SubSeq(new, 1, i - 1))
      BY <1>4, <2>2, <3>1, <3>4
    <3>6. QED  BY <3>1, <3>2, <3>3, <3>5
  <2>3. QED  BY <1>2, <1>7, <2>1, <2>2
<1>8. Worked(new)
  BY <1>5, <1>6, <1>7 DEF Worked
<1>9. QED  BY <1>8 DEF new

LEMMA LedgerKept ==
  ASSUME LedgerInv(ledger), LedgerStep
  PROVE  /\ LedgerInv(ledger')
         /\ Len(ledger) \in Nat /\ Len(ledger') \in Nat /\ Len(ledger') >= Len(ledger)
         /\ \A n \in 0 .. Len(ledger) : SubSeq(ledger', 1, n) = SubSeq(ledger, 1, n)
         /\ \A type : OfType(ledger, type) \subseteq OfType(ledger', type)
         /\ \A type : \A i \in OfType(ledger, type) : ledger'[i] = ledger[i]
<1>1. CASE ledger' = ledger
  <2>1. Len(ledger) \in Nat
    BY LogDomain DEF LedgerInv
  <2>2. QED  BY <1>1, <2>1
<1>2. CASE \E e : ledger' = Append(ledger, e) /\ Proper(ledger, e)
  <2>1. PICK e : ledger' = Append(ledger, e) /\ Proper(ledger, e)
    BY <1>2
  <2>2. ledger \in Seq(Elements(ledger))
    BY DEF LedgerInv
  <2>3. LedgerInv(Append(ledger, e))
    BY <2>1, <2>2, AppendedLog, NumberedKept, AskedKept, OnHeadKept, WorkedKept DEF LedgerInv
  <2>4. /\ Len(ledger) \in Nat /\ Len(Append(ledger, e)) = Len(ledger) + 1
        /\ \A n \in 0 .. Len(ledger) : SubSeq(Append(ledger, e), 1, n) = SubSeq(ledger, 1, n)
        /\ \A type : OfType(ledger, type) \subseteq OfType(Append(ledger, e), type)
        /\ \A type : \A i \in OfType(ledger, type) : Append(ledger, e)[i] = ledger[i]
    BY <2>2, AppendedLog, GrownLog
  <2> DEFINE new == Append(ledger, e)
  <2> HIDE DEF new
  <2>5. ledger' = new
    BY <2>1 DEF new
  <2>6. Len(new) \in Nat /\ Len(new) >= Len(ledger)
    BY <2>4 DEF new
  <2>7. /\ \A n \in 0 .. Len(ledger) : SubSeq(new, 1, n) = SubSeq(ledger, 1, n)
        /\ \A type : OfType(ledger, type) \subseteq OfType(new, type)
        /\ \A type : \A i \in OfType(ledger, type) : new[i] = ledger[i]
    BY <2>4 DEF new
  <2>8. LedgerInv(new)
    BY <2>3 DEF new
  <2>9. QED  BY <2>4, <2>5, <2>6, <2>7, <2>8
<1>3. QED  BY <1>1, <1>2 DEF LedgerStep

-------------------------------------------------------------------------------
(* What a task does in one step                                                *)

\* What comes from the ledger still does when the ledger has grown.
LEMMA HoldsKept ==
  ASSUME LedgerInv(ledger), LedgerStep, NEW place, NEW x, HoldsOf(ledger, place, x)
  PROVE  HoldsOf(ledger', place, x)
<1>1. /\ Len(ledger) \in Nat /\ Len(ledger') \in Nat /\ Len(ledger') >= Len(ledger)
      /\ \A n \in 0 .. Len(ledger) : SubSeq(ledger', 1, n) = SubSeq(ledger, 1, n)
      /\ \A type : OfType(ledger, type) \subseteq OfType(ledger', type)
      /\ \A type : \A i \in OfType(ledger, type) : ledger'[i] = ledger[i]
  BY LedgerKept
<1>2. place = "asking" =>
        \E a \in OfType(ledger', "attempt") : ledger'[a].request = x.request /\ ledger'[a].source = x.source
  BY <1>1 DEF HoldsOf
<1>3. place \in {"verifying", "recording"} =>
        \E j \in OfType(ledger', "evidence") : ledger'[j].request = x.request
  BY <1>1 DEF HoldsOf
<1>4. ASSUME place = "normalizing"
      PROVE  /\ x.type = "validation" /\ x.at \in 0 .. Len(ledger')
             /\ \E j \in OfType(ledger', "verdict") : SameMeaning(ledger'[j], x)
             /\ ~Has(SubSeq(ledger', 1, x.at), "validation")
             /\ x.fresh <=> Fresh(SubSeq(ledger', 1, x.at))
  <2>1. /\ x.type = "validation" /\ x.at \in 0 .. Len(ledger)
        /\ ~Has(SubSeq(ledger, 1, x.at), "validation")
        /\ x.fresh <=> Fresh(SubSeq(ledger, 1, x.at))
    BY <1>4 DEF HoldsOf
  <2>2. PICK j \in OfType(ledger, "verdict") : SameMeaning(ledger[j], x)
    BY <1>4 DEF HoldsOf
  <2>3. SubSeq(ledger', 1, x.at) = SubSeq(ledger, 1, x.at)
    BY <1>1, <2>1
  <2>4. x.at \in 0 .. Len(ledger')
    BY <1>1, <2>1
  <2>5. \E k \in OfType(ledger', "verdict") : SameMeaning(ledger'[k], x)
    BY <1>1, <2>2
  <2>6. QED  BY <2>1, <2>3, <2>4, <2>5
<1>5. place = "recording" => x.type = "verdict"
  BY DEF HoldsOf
<1>6. QED  BY <1>2, <1>3, <1>4, <1>5 DEF HoldsOf

\* What a copy has, a longer one has.
LEMMA LongerCopy ==
  ASSUME NEW log, log \in Seq(Elements(log)), NEW n \in 0 .. Len(log), NEW m \in n .. Len(log),
         NEW type, Has(SubSeq(log, 1, n), type)
  PROVE  Has(SubSeq(log, 1, m), type)
<1>1. Len(log) \in Nat /\ m \in 0 .. Len(log)
  BY LogDomain
<1>2. /\ OfType(SubSeq(log, 1, n), type) = {i \in OfType(log, type) : i <= n}
      /\ OfType(SubSeq(log, 1, m), type) = {i \in OfType(log, type) : i <= m}
  BY <1>1, PrefixTypes
<1>3. \A i \in OfType(log, type) : i \in 1 .. Len(log)
  BY LogDomain DEF OfType
<1>4. QED  BY <1>1, <1>2, <1>3 DEF Has

\* Nobody else of the tab waits for an answer.
Alone(t) == \A u \in Task : Owner[u] = Owner[t] /\ u # t => pc[u] # "verifying"

LEMMA UserIsAlone ==
  ASSUME WorkInv, NEW t \in Task, t \in Foreground \/ pc[t] = "normalizing"
  PROVE  Alone(t)
<1>1. ASSUME NEW u \in Task, Owner[u] = Owner[t], u # t, pc[u] = "verifying"
      PROVE  FALSE
  <2>1. u \in Foreground
    BY <1>1 DEF WorkInv, Background
  <2>2. t \notin Foreground
    BY <1>1, <2>1, WorkAssumption
  <2>3. Has(Visible(Owner[t]), "verdict") /\ ~Has(Visible(Owner[u]), "verdict")
    BY <1>1, <2>2 DEF WorkInv, Sees
  <2>4. QED  BY <1>1, <2>3
<1>2. QED  BY <1>1 DEF Alone

\* The copies of the tabs after a step that gives one tab another.
LEMMA CopiesKept ==
  ASSUME WorkInv, LedgerStep, NEW o \in Session, NEW n,
         n = seen[o] \/ n = Len(ledger'),
         seen' = [seen EXCEPT ![o] = n]
  PROVE  /\ seen' \in [Session -> Nat] /\ \A s \in Session : seen'[s] <= Len(ledger')
         /\ \A s \in Session : s # o \/ n = seen[o] => Visible(s)' = Visible(s)
         /\ Visible(o)' = SubSeq(ledger', 1, n)
         /\ \A s \in Session : \A type : Has(Visible(s), type) => Has(Visible(s)', type)
<1>1. /\ Len(ledger) \in Nat /\ Len(ledger') \in Nat /\ Len(ledger') >= Len(ledger)
      /\ \A m \in 0 .. Len(ledger) : SubSeq(ledger', 1, m) = SubSeq(ledger, 1, m)
      /\ LedgerInv(ledger')
  BY LedgerKept DEF WorkInv
<1>2. seen \in [Session -> Nat] /\ \A s \in Session : seen[s] <= Len(ledger)
  BY DEF WorkInv, Shape
<1>3. /\ seen' \in [Session -> Nat] /\ seen'[o] = n
      /\ \A s \in Session : s # o => seen'[s] = seen[s]
  BY <1>1, <1>2
<1>4. \A s \in Session : seen'[s] <= Len(ledger') /\ seen[s] <= seen'[s]
  BY <1>1, <1>2, <1>3
<1>5. \A s \in Session : seen'[s] = seen[s] => Visible(s)' = Visible(s)
  BY <1>1, <1>2 DEF Visible
<1>6. ASSUME NEW s \in Session, NEW type, Has(Visible(s), type)
      PROVE  Has(Visible(s)', type)
  <2>1. PICK k, m : k = seen[s] /\ m = seen'[s]
    OBVIOUS
  <2>2. k \in 0 .. Len(ledger) /\ k \in 0 .. Len(ledger') /\ m \in k .. Len(ledger')
    BY <1>1, <1>2, <1>3, <1>4, <2>1
  <2>3. Has(SubSeq(ledger', 1, k), type)
    BY <1>1, <1>6, <2>1, <2>2 DEF Visible
  <2>4. ledger' \in Seq(Elements(ledger'))
    BY <1>1 DEF LedgerInv
  <2>5. Has(SubSeq(ledger', 1, m), type)
    BY <2>2, <2>3, <2>4, LongerCopy
  <2>6. QED  BY <2>1, <2>5 DEF Visible
<1>7. Visible(o)' = SubSeq(ledger', 1, n)
  BY <1>3 DEF Visible
<1>8. QED  BY <1>3, <1>4, <1>5, <1>6, <1>7

LEMMA TaskStepKeeps ==
  ASSUME WorkInv, NEW t \in Task, NEW n, NEW c, NEW p, NEW x, LedgerStep,
         n = seen[Owner[t]] \/ (n = Len(ledger') /\ Alone(t)),
         seen' = [seen EXCEPT ![Owner[t]] = n], error' = [error EXCEPT ![Owner[t]] = c],
         pc' = [pc EXCEPT ![t] = p], held' = [held EXCEPT ![t] = x],
         HoldsOf(ledger', p, x), Sees(SubSeq(ledger', 1, n), p),
         c = "unobserved" => ~Has(SubSeq(ledger', 1, n), "verdict"),
         t \notin Foreground => p \in Background
  PROVE  WorkInv'
<1>1. Owner[t] \in Session /\ \A u \in Task : Owner[u] \in Session
  BY OwnersAreSessions
<1>2. LedgerInv(ledger')
  BY LedgerKept DEF WorkInv
<1>3. /\ seen' \in [Session -> Nat] /\ \A s \in Session : seen'[s] <= Len(ledger')
      /\ \A s \in Session : s # Owner[t] \/ n = seen[Owner[t]] => Visible(s)' = Visible(s)
      /\ Visible(Owner[t])' = SubSeq(ledger', 1, n)
      /\ \A s \in Session : \A type : Has(Visible(s), type) => Has(Visible(s)', type)
  BY <1>1, CopiesKept
<1>4. /\ error' = [s \in Session |-> error'[s]] /\ error'[Owner[t]] = c
      /\ \A s \in Session \ {Owner[t]} : error'[s] = error[s]
  BY <1>1 DEF WorkInv, Shape
<1>5. /\ pc' = [u \in Task |-> pc'[u]] /\ held' = [u \in Task |-> held'[u]]
      /\ pc'[t] = p /\ held'[t] = x
      /\ \A u \in Task \ {t} : pc'[u] = pc[u] /\ held'[u] = held[u]
  BY DEF WorkInv, Shape
<1>6. Shape'
  BY <1>3, <1>4, <1>5 DEF Shape
<1>7. ASSUME NEW u \in Task
      PROVE  /\ HoldsOf(ledger', pc'[u], held'[u])
             /\ Sees(Visible(Owner[u])', pc'[u])
             /\ u \notin Foreground => pc'[u] \in Background
  <2>1. CASE u = t
    BY <1>3, <1>5, <2>1
  <2>2. CASE u # t
    <3>1. HoldsOf(ledger, pc[u], held[u]) /\ Sees(Visible(Owner[u]), pc[u])
          /\ (u \notin Foreground => pc[u] \in Background)
      BY DEF WorkInv
    <3>2. pc'[u] = pc[u] /\ held'[u] = held[u]
      BY <1>5, <2>2
    <3>3. HoldsOf(ledger', pc[u], held[u])
      BY <3>1, HoldsKept DEF WorkInv
    <3>4. pc[u] = "verifying" => Visible(Owner[u])' = Visible(Owner[u])
      BY <1>1, <1>3, <2>2 DEF Alone
    <3>5. Sees(Visible(Owner[u])', pc[u])
      BY <1>1, <1>3, <3>1, <3>4 DEF Sees
    <3>6. QED  BY <3>1, <3>2, <3>3, <3>5
  <2>3. QED  BY <2>1, <2>2
<1>8. ASSUME NEW s \in Session, error'[s] = "unobserved"
      PROVE  ~Has(Visible(s)', "verdict")
  <2>1. CASE s = Owner[t]
    BY <1>3, <1>4, <1>8, <2>1
  <2>2. CASE s # Owner[t]
    <3>1. error[s] = "unobserved" /\ Visible(s)' = Visible(s)
      BY <1>3, <1>4, <1>8, <2>2
    <3>2. QED  BY <3>1 DEF WorkInv
  <2>3. QED  BY <2>1, <2>2
<1>9. QED  BY <1>2, <1>6, <1>7, <1>8 DEF WorkInv

\* The whole ledger is installed.
LEMMA InstallKeeps ==
  ASSUME WorkInv, NEW t \in Task, t \in Foreground \/ pc[t] = "normalizing",
         NEW c, NEW p, NEW x, LedgerStep,
         seen' = [seen EXCEPT ![Owner[t]] = Len(ledger')],
         error' = [error EXCEPT ![Owner[t]] = c],
         pc' = [pc EXCEPT ![t] = p], held' = [held EXCEPT ![t] = x],
         HoldsOf(ledger', p, x), Sees(ledger', p),
         c = "unobserved" => ~Has(ledger', "verdict"),
         t \notin Foreground => p \in Background
  PROVE  WorkInv'
<1>1. LedgerInv(ledger')
  BY LedgerKept DEF WorkInv
<1>2. SubSeq(ledger', 1, Len(ledger')) = ledger'
  BY <1>1, SubSeqFull DEF LedgerInv
<1>3. Alone(t)
  BY UserIsAlone
<1>4. PICK n : n = Len(ledger')
  OBVIOUS
<1>5. SubSeq(ledger', 1, n) = ledger' /\ seen' = [seen EXCEPT ![Owner[t]] = n]
  BY <1>2, <1>4
<1>6. Sees(SubSeq(ledger', 1, n), p) /\ (c = "unobserved" => ~Has(SubSeq(ledger', 1, n), "verdict"))
  BY <1>5
<1>7. QED  BY <1>3, <1>4, <1>5, <1>6, TaskStepKeeps

\* Nothing is installed.
LEMMA StayKeeps ==
  ASSUME WorkInv, NEW t \in Task, NEW c, NEW p, NEW x, UNCHANGED <<ledger, seen>>,
         error' = [error EXCEPT ![Owner[t]] = c],
         pc' = [pc EXCEPT ![t] = p], held' = [held EXCEPT ![t] = x],
         HoldsOf(ledger, p, x), Sees(Visible(Owner[t]), p),
         c = "unobserved" => ~Has(Visible(Owner[t]), "verdict"),
         t \notin Foreground => p \in Background
  PROVE  WorkInv'
<1>1. Owner[t] \in Session
  BY OwnersAreSessions
<1>2. PICK n : n = seen[Owner[t]]
  OBVIOUS
<1>3. seen' = [seen EXCEPT ![Owner[t]] = n]
  BY <1>1, <1>2 DEF WorkInv, Shape
<1>4. SubSeq(ledger', 1, n) = Visible(Owner[t])
  BY <1>2 DEF Visible
<1>5. LedgerStep
  BY DEF LedgerStep
<1>6. Sees(SubSeq(ledger', 1, n), p) /\ (c = "unobserved" => ~Has(SubSeq(ledger', 1, n), "verdict"))
  BY <1>4
<1>7. HoldsOf(ledger', p, x)
  OBVIOUS
<1>8. QED  BY <1>2, <1>3, <1>5, <1>6, <1>7, TaskStepKeeps

\* Nor is anything else shown.
LEMMA QuietKeeps ==
  ASSUME WorkInv, NEW t \in Task, NEW p, NEW x, UNCHANGED <<ledger, seen, error>>,
         pc' = [pc EXCEPT ![t] = p], held' = [held EXCEPT ![t] = x],
         HoldsOf(ledger, p, x), Sees(Visible(Owner[t]), p),
         t \notin Foreground => p \in Background
  PROVE  WorkInv'
<1>1. Owner[t] \in Session
  BY OwnersAreSessions
<1>2. PICK c : c = error[Owner[t]]
  OBVIOUS
<1>3. error' = [error EXCEPT ![Owner[t]] = c]
  BY <1>1, <1>2 DEF WorkInv, Shape
<1>4. c = "unobserved" => ~Has(Visible(Owner[t]), "verdict")
  BY <1>1, <1>2 DEF WorkInv
<1>5. QED  BY <1>3, <1>4, StayKeeps

LEMMA IdleHolds ==
  ASSUME NEW log, NEW x, NEW place, place \in {"idle", "closed", "surveying", "proposing", "integrating"}
  PROVE  HoldsOf(log, place, x) /\ Sees(log, place)
BY DEF HoldsOf, Sees

LEMMA WriteAppends ==
  ASSUME WorkInv, NEW t \in Task, NEW e, Proper(ledger, e), Write(t, e)
  PROVE  /\ LedgerStep /\ seen' = [seen EXCEPT ![Owner[t]] = Len(ledger')]
         /\ \E i \in OfType(ledger', e.type) : ledger'[i] = e
<1>1. /\ ledger' = Extended(e) /\ seen' = [seen EXCEPT ![Owner[t]] = Len(ledger')]
  BY DEF Write
<1>2. LedgerStep
  BY <1>1 DEF LedgerStep, Extended
<1>3. Elements(Extended(e)) = Elements(ledger) \cup {e}
  BY ExtendedLog DEF WorkInv, LedgerInv
<1>4. e \in Elements(ledger')
  BY <1>1, <1>3
<1>5. QED  BY <1>1, <1>2, <1>4 DEF Elements, OfType

\* What the ends of a step do.
LEMMA RestHolds ==
  ASSUME NEW t \in Task, Rest(t)
  PROVE  pc' = [pc EXCEPT ![t] = "idle"] /\ held' = [held EXCEPT ![t] = Null]
BY DEF Rest, Hold, Go

LEMMA ConflictKeeps ==
  ASSUME WorkInv, NEW t \in Task, t \in Foreground, NEW code, NEW again,
         code # "unobserved", Conflict(t, code, again)
  PROVE  WorkInv'
<1>1. /\ ledger' = ledger /\ seen' = [seen EXCEPT ![Owner[t]] = Len(ledger')]
      /\ error' = [error EXCEPT ![Owner[t]] = code] /\ Rest(t)
  BY DEF Conflict, Reinstall, View, Show
<1>2. QED  BY <1>1, RestHolds, IdleHolds, InstallKeeps DEF LedgerStep, Background

LEMMA UnsavedKeeps ==
  ASSUME WorkInv, NEW t \in Task, NEW code, NEW again,
         code # "unobserved", Unsaved(t, code, again)
  PROVE  WorkInv'
<1>1. /\ UNCHANGED <<ledger, seen>> /\ error' = [error EXCEPT ![Owner[t]] = code] /\ Rest(t)
  BY DEF Unsaved, View, Show
<1>2. QED  BY <1>1, RestHolds, IdleHolds, StayKeeps DEF Background

LEMMA PatchedKeeps ==
  ASSUME WorkInv, NEW t \in Task, NEW code,
         code = "unobserved" => ~Has(Visible(Owner[t]), "verdict"), Patched(t, code)
  PROVE  WorkInv'
<1>1. /\ UNCHANGED <<ledger, seen>> /\ error' = [error EXCEPT ![Owner[t]] = code] /\ Rest(t)
  BY DEF Patched, View, Show
<1>2. QED  BY <1>1, RestHolds, IdleHolds, StayKeeps DEF Background

LEMMA SavedKeeps ==
  ASSUME WorkInv, NEW t \in Task, t \in Foreground, NEW e, Proper(ledger, e),
         Write(t, e), NEW c, c # "unobserved", error' = [error EXCEPT ![Owner[t]] = c],
         NEW p, NEW x, Hold(t, p, x), HoldsOf(ledger', p, x), Sees(ledger', p)
  PROVE  WorkInv'
<1>1. pc' = [pc EXCEPT ![t] = p] /\ held' = [held EXCEPT ![t] = x]
  BY DEF Hold, Go
<1>2. QED  BY <1>1, WriteAppends, InstallKeeps

\* A task that saves and ends.
LEMMA SavedAndEnded ==
  ASSUME WorkInv, NEW t \in Task, t \in Foreground, NEW e, Proper(ledger, e),
         Write(t, e), NEW c, c # "unobserved", error' = [error EXCEPT ![Owner[t]] = c], Rest(t)
  PROVE  WorkInv'
BY SavedKeeps, IdleHolds DEF Rest

\* The page that shows a result without an answer has no answer.
LEMMA UnobservedMeans ==
  ASSUME NEW log, log \in Seq(Elements(log)), Single(log, "evidence"),
         \A i \in OfType(log, "verdict") : \E j \in OfType(log, "evidence") : j < i,
         ErrorOf(log) = "unobserved"
  PROVE  ~Has(log, "verdict")
<1> DEFINE i == Last(Validating(log))
<1>1. Len(log) \in Nat /\ DOMAIN log = 1 .. Len(log)
  BY LogDomain
<1>2. Validating(log) \subseteq 1 .. Len(log)
  BY <1>1 DEF Validating, OfType
<1>3. PlacementError(log) # "unobserved"
  BY DEF PlacementError
<1>4. i # 0 /\ log[i].type = "evidence" /\ ~(i < Last(Placing(log)))
  BY <1>3 DEF ErrorOf
<1>5. i \in Validating(log) /\ \A j \in Validating(log) : j <= i
  BY <1>1, <1>2, <1>4, LastBounds
<1> HIDE DEF i
<1>6. SUFFICES ASSUME NEW v \in OfType(log, "verdict")  PROVE FALSE
  BY DEF Has
<1>7. i \in OfType(log, "evidence") /\ v \in 1 .. Len(log) /\ i \in 1 .. Len(log)
  BY <1>1, <1>2, <1>4, <1>5 DEF OfType
<1>8. i < v
  BY <1>6, <1>7 DEF Single
<1>9. Active(SubSeq(log, 1, i))
  BY <1>5 DEF Validating
<1>10. \A k \in Captures(log) : k <= i
  <2>1. \A k \in Captures(log) : k \in Placing(log)
    BY <1>1, PlacingLog DEF Captures
  <2>2. \A k \in Placing(log) : k <= Last(Placing(log))
    BY PlacingLog
  <2>3. Last(Placing(log)) \in 0 .. Len(log)
    BY PlacingLog
  <2>4. Placing(log) \subseteq 1 .. Len(log)
    BY PlacingLog
  <2>5. QED  BY <1>1, <1>4, <1>7, <2>1, <2>2, <2>3, <2>4
<1>11. Active(SubSeq(log, 1, v))
  <2> DEFINE p == SubSeq(log, 1, i)
  <2> DEFINE q == SubSeq(log, 1, v)
  <2>1. i \in 0 .. Len(log) /\ v \in 0 .. Len(log)
    BY <1>7
  <2>2. /\ DOMAIN p = 1 .. i /\ \A k \in 1 .. i : p[k] = log[k]
        /\ DOMAIN q = 1 .. v /\ \A k \in 1 .. v : q[k] = log[k]
    BY <2>1, PrefixLog
  <2>3. /\ OfType(p, "closure") = {k \in OfType(log, "closure") : k <= i}
        /\ OfType(q, "closure") = {k \in OfType(log, "closure") : k <= v}
    BY <2>1, PrefixTypes
  <2> HIDE DEF p, q
  <2>4. Captures(p) = {k \in Captures(log) : k <= i}
    BY <1>1, <1>7, <2>2 DEF Captures
  <2>5. Captures(q) = {k \in Captures(log) : k <= v}
    BY <1>1, <1>7, <2>2 DEF Captures
  <2>6. Captures(p) = Captures(q)
    BY <1>1, <1>7, <1>8, <1>10, <2>4, <2>5 DEF Captures
  <2>7. Last(Captures(p)) < Last(OfType(p, "closure"))
    BY <1>9 DEF Active, p
  <2>8. OfType(p, "closure") \subseteq 1 .. Len(log) /\ OfType(q, "closure") \subseteq 1 .. Len(log)
        /\ Captures(p) \subseteq 1 .. Len(log)
    BY <1>1, <2>3, <2>4 DEF OfType, Captures
  <2>9. Last(OfType(p, "closure")) \in 0 .. Len(log) /\ Last(OfType(q, "closure")) \in 0 .. Len(log)
        /\ Last(Captures(p)) \in 0 .. Len(log)
    BY <1>1, <2>8, LastBounds
  <2>10. Last(OfType(p, "closure")) \in OfType(p, "closure")
    BY <1>1, <2>7, <2>8, <2>9, LastBounds
  <2>11. Last(OfType(p, "closure")) \in OfType(q, "closure")
    BY <1>7, <1>8, <1>1, <2>3, <2>8, <2>10
  <2>12. Last(OfType(p, "closure")) <= Last(OfType(q, "closure"))
    BY <1>1, <2>8, <2>11, LastBounds
  <2>13. Last(Captures(q)) < Last(OfType(q, "closure"))
    BY <2>6, <2>7, <2>9, <2>12
  <2>14. QED  BY <2>13 DEF Active, q
<1>12. v \in Validating(log)
  BY <1>11 DEF Validating
<1>13. QED  BY <1>5, <1>7, <1>8, <1>12

-------------------------------------------------------------------------------
(* Placements                                                                  *)

LEMMA CurrentCopy ==
  ASSUME WorkInv, NEW s \in Session, Current(s)
  PROVE  Visible(s) = ledger
BY SubSeqFull DEF WorkInv, LedgerInv, Current, Visible

LEMMA AttemptIsProper ==
  ASSUME WorkInv, NEW s \in Session, Current(s), NEW source, NEW new
  PROVE  Proper(ledger, Attempt(s, source, new))
BY CurrentCopy DEF Attempt, Proper

LEMMA AskingHolds ==
  ASSUME NEW log, NEW e, \E i \in OfType(log, "attempt") : log[i] = e
  PROVE  HoldsOf(log, "asking", e) /\ Sees(log, "asking")
BY DEF HoldsOf, Sees

LEMMA CaptureKeeps ==
  ASSUME WorkInv, NEW t \in Task, Capture(t)
  PROVE  WorkInv'
<1> DEFINE s == Owner[t]
<1> DEFINE n == Cardinality(SourcesOf(Visible(s))) + 1
<1> DEFINE e == Attempt(s, n, TRUE)
<1>1. t \in Foreground /\ s \in Session
  BY OwnersAreSessions DEF Capture, Ready
<1>2. CASE Saved(t, e) /\ View(t, "placing", "none", n, "saved") /\ Hold(t, "asking", e)
  <2>1. Proper(ledger, e) /\ e.type = "attempt"
    BY <1>1, <1>2, AttemptIsProper DEF Saved, Attempt
  <2> HIDE DEF e
  <2>2. Write(t, e) /\ error' = [error EXCEPT ![Owner[t]] = "none"]
    BY <1>2 DEF Saved, View, Show
  <2>3. \E i \in OfType(ledger', "attempt") : ledger'[i] = e
    BY <2>1, <2>2, WriteAppends
  <2>4. QED  BY <1>1, <1>2, <2>1, <2>2, <2>3, AskingHolds, SavedKeeps
<1>3. CASE Conflict(t, "retry", Null) \/ Unsaved(t, "retry", Null)
  BY <1>1, <1>3, ConflictKeeps, UnsavedKeeps
<1>4. QED  BY <1>2, <1>3 DEF Capture

LEMMA CaptureUnplacedKeeps ==
  ASSUME WorkInv, NEW t \in Task, CaptureUnplaced(t)
  PROVE  WorkInv'
<1> DEFINE n == Cardinality(SourcesOf(Visible(Owner[t]))) + 1
<1> DEFINE e == [type |-> "source", source |-> n]
<1>1. t \in Foreground
  BY DEF CaptureUnplaced, Ready
<1>2. CASE Saved(t, e) /\ View(t, "idle", "retry", n, "saved") /\ Rest(t)
  <2>1. Proper(ledger, e)
    BY DEF Proper
  <2> HIDE DEF e
  <2>2. Write(t, e) /\ error' = [error EXCEPT ![Owner[t]] = "retry"]
    BY <1>2 DEF Saved, View, Show
  <2>3. QED  BY <1>1, <1>2, <2>1, <2>2, SavedAndEnded
<1>3. CASE Conflict(t, "retry", Null) \/ Unsaved(t, "retry", Null)
  BY <1>1, <1>3, ConflictKeeps, UnsavedKeeps
<1>4. QED  BY <1>2, <1>3 DEF CaptureUnplaced

LEMMA RetryKeeps ==
  ASSUME WorkInv, NEW t \in Task, Retry(t)
  PROVE  WorkInv'
<1> DEFINE s == Owner[t]
<1> DEFINE e == Attempt(s, retry[s], FALSE)
<1>1. t \in Foreground /\ s \in Session
  BY OwnersAreSessions DEF Retry, Ready
<1>2. CASE Saved(t, e) /\ View(t, "placing", "none", e.source, "saved") /\ Hold(t, "asking", e)
  <2>1. Proper(ledger, e) /\ e.type = "attempt"
    BY <1>1, <1>2, AttemptIsProper DEF Saved, Attempt
  <2> HIDE DEF e
  <2>2. Write(t, e) /\ error' = [error EXCEPT ![Owner[t]] = "none"]
    BY <1>2 DEF Saved, View, Show
  <2>3. \E i \in OfType(ledger', "attempt") : ledger'[i] = e
    BY <2>1, <2>2, WriteAppends
  <2>4. QED  BY <1>1, <1>2, <2>1, <2>2, <2>3, AskingHolds, SavedKeeps
<1>3. CASE Conflict(t, "retry", retry[s]) \/ Unsaved(t, "retry", retry[s])
  BY <1>1, <1>3, ConflictKeeps, UnsavedKeeps
<1>4. QED  BY <1>2, <1>3 DEF Retry

LEMMA RetryInvalidKeeps ==
  ASSUME WorkInv, NEW t \in Task, RetryInvalid(t)
  PROVE  WorkInv'
<1>1. UNCHANGED <<ledger, seen>> /\ error' = [error EXCEPT ![Owner[t]] = "refused"] /\ Rest(t)
  BY DEF RetryInvalid, View, Show
<1>2. QED  BY <1>1, RestHolds, IdleHolds, StayKeeps DEF Background

\* What is received is about the question the task has asked.
LEMMA ReceiveKeeps ==
  ASSUME WorkInv, NEW t \in Task, NEW outcome, Receive(t, outcome)
  PROVE  WorkInv'
<1> DEFINE e == [type |-> "answer", request |-> held[t].request, source |-> held[t].source, outcome |-> outcome]
<1> DEFINE code == IF Fails(e) THEN IF Retriable(e) THEN "retry" ELSE "refused" ELSE "none"
<1>1. t \in Foreground /\ HoldsOf(ledger, "asking", held[t])
  BY DEF Receive, WorkInv, Background
<1>2. Proper(ledger, e)
  BY <1>1 DEF Proper, HoldsOf
<1>3. code # "unobserved"
  OBVIOUS
<1>4. \/ Saved(t, e) /\ View(t, "idle", code, IF code = "retry" THEN e.source ELSE Null, "saved") /\ Rest(t)
      \/ Conflict(t, "retry", e.source) \/ Unsaved(t, "retry", e.source)
  BY DEF Receive
<1> HIDE DEF e, code
<1>5. CASE Saved(t, e) /\ View(t, "idle", code, IF code = "retry" THEN e.source ELSE Null, "saved") /\ Rest(t)
  <2>1. Write(t, e) /\ error' = [error EXCEPT ![Owner[t]] = code]
    BY <1>5 DEF Saved, View, Show
  <2>2. QED  BY <1>1, <1>2, <1>3, <1>5, <2>1, SavedAndEnded
<1>6. CASE Conflict(t, "retry", e.source) \/ Unsaved(t, "retry", e.source)
  BY <1>1, <1>6, ConflictKeeps, UnsavedKeeps
<1>7. QED  BY <1>4, <1>5, <1>6

LEMMA ReceiveNothingKeeps ==
  ASSUME WorkInv, NEW t \in Task, ReceiveNothing(t)
  PROVE  WorkInv'
<1> DEFINE e == [type |-> "failure", request |-> held[t].request, source |-> held[t].source]
<1>1. t \in Foreground /\ HoldsOf(ledger, "asking", held[t])
  BY DEF ReceiveNothing, WorkInv, Background
<1>2. Proper(ledger, e)
  BY <1>1 DEF Proper, HoldsOf
<1>3. \/ Saved(t, e) /\ View(t, "idle", "retry", e.source, "saved") /\ Rest(t)
      \/ Conflict(t, "retry", e.source) \/ Unsaved(t, "retry", e.source)
  BY DEF ReceiveNothing
<1> HIDE DEF e
<1>4. CASE Saved(t, e) /\ View(t, "idle", "retry", e.source, "saved") /\ Rest(t)
  <2>1. Write(t, e) /\ error' = [error EXCEPT ![Owner[t]] = "retry"]
    BY <1>4 DEF Saved, View, Show
  <2>2. QED  BY <1>1, <1>2, <1>4, <2>1, SavedAndEnded
<1>5. CASE Conflict(t, "retry", e.source) \/ Unsaved(t, "retry", e.source)
  BY <1>1, <1>5, ConflictKeeps, UnsavedKeeps
<1>6. QED  BY <1>3, <1>4, <1>5

LEMMA AcceptKeeps ==
  ASSUME WorkInv, NEW t \in Task, Accept(t)
  PROVE  WorkInv'
<1> DEFINE log == Visible(Owner[t])
<1> DEFINE q == ActiveDelta(log)
<1> DEFINE e == [type |-> "accepted", request |-> q]
<1>1. t \in Foreground /\ Owner[t] \in Session /\ q # Null
  BY OwnersAreSessions DEF Accept, Ready
<1>2. CASE View(t, "idle", "stale_delta", Null, "saved") /\ Rest(t) /\ UNCHANGED <<ledger, seen, faults>>
  <2>1. error' = [error EXCEPT ![Owner[t]] = "stale_delta"]
    BY <1>2 DEF View, Show
  <2>2. QED  BY <1>2, <2>1, RestHolds, IdleHolds, StayKeeps DEF Background
<1>3. CASE ~Stale(log, q) /\ Saved(t, e) /\ View(t, "idle", "none", Null, "saved") /\ Rest(t)
  <2>1. log = ledger
    BY <1>1, <1>3, CurrentCopy DEF Saved
  <2>2. Proper(ledger, e)
    BY <1>1, <1>3, <2>1 DEF Proper
  <2> HIDE DEF e
  <2>3. Write(t, e) /\ error' = [error EXCEPT ![Owner[t]] = "none"]
    BY <1>3 DEF Saved, View, Show
  <2>4. QED  BY <1>1, <1>3, <2>2, <2>3, SavedAndEnded
<1>4. CASE Conflict(t, "commit", Null) \/ Unsaved(t, "commit", Null)
  BY <1>1, <1>4, ConflictKeeps, UnsavedKeeps
<1>5. QED  BY <1>2, <1>3, <1>4 DEF Accept

-------------------------------------------------------------------------------
(* Work on the result                                                          *)

LEMMA CopyOfLedger ==
  ASSUME WorkInv, NEW s \in Session
  PROVE  /\ Visible(s) \in Seq(Elements(Visible(s)))
         /\ seen[s] \in 0 .. Len(ledger) /\ Len(Visible(s)) = seen[s]
         /\ \A type : \A i \in OfType(Visible(s), type) :
              i \in OfType(ledger, type) /\ Visible(s)[i] = ledger[i]
<1>1. ledger \in Seq(Elements(ledger)) /\ Len(ledger) \in Nat /\ DOMAIN ledger = 1 .. Len(ledger)
  BY LogDomain DEF WorkInv, LedgerInv
<1>2. PICK n : n = seen[s]
  OBVIOUS
<1>3. n \in 0 .. Len(ledger)
  BY <1>1, <1>2 DEF WorkInv, Shape
<1> DEFINE log == SubSeq(ledger, 1, n)
<1>4. /\ log \in Seq(Elements(log)) /\ Len(log) = n /\ DOMAIN log = 1 .. n
      /\ \A i \in 1 .. n : log[i] = ledger[i]
  BY <1>1, <1>3, PrefixLog
<1> HIDE DEF log
<1>5. \A type : \A i \in OfType(log, type) : i \in OfType(ledger, type) /\ log[i] = ledger[i]
  BY <1>1, <1>3, <1>4 DEF OfType
<1>6. Visible(s) = log
  BY <1>2 DEF Visible, log
<1>7. QED  BY <1>2, <1>3, <1>4, <1>5, <1>6

LEMMA NothingBefore ==
  ASSUME NEW log, Worked(log)
  PROVE  /\ ~Has(log, "evidence") => ~Has(log, "verdict")
         /\ ~Has(log, "verdict") => ~Has(log, "validation")
BY DEF Worked, Has

LEMMA UnobservedInLog ==
  ASSUME NEW log, LedgerInv(log), ErrorOf(log) = "unobserved"
  PROVE  ~Has(log, "verdict")
BY UnobservedMeans DEF LedgerInv, Worked

LEMMA DerivedWriteKeeps ==
  ASSUME WorkInv, NEW t \in Task, t \in Foreground \/ pc[t] = "normalizing",
         NEW e, Proper(ledger, e), Write(t, e), NEW state, Derived(t, state, Append(ledger, e)),
         NEW p, NEW x, Hold(t, p, x), HoldsOf(ledger', p, x), Sees(ledger', p),
         t \notin Foreground => p \in Background
  PROVE  WorkInv'
<1>1. PICK c : c = ErrorOf(Append(ledger, e))
  OBVIOUS
<1>2. error' = [error EXCEPT ![Owner[t]] = c]
  BY <1>1 DEF Derived, View, Show
<1>3. LedgerStep /\ seen' = [seen EXCEPT ![Owner[t]] = Len(ledger')]
  BY WriteAppends
<1>4. ledger' = ledger \/ ledger' = Append(ledger, e)
  BY DEF Write, Extended
<1>5. ledger \in Seq(Elements(ledger)) /\ LedgerInv(ledger)
  BY DEF WorkInv, LedgerInv
<1>6. LedgerInv(Append(ledger, e))
  BY <1>5, AppendedLog, NumberedKept, AskedKept, OnHeadKept, WorkedKept DEF LedgerInv
<1>7. c = "unobserved" => ~Has(Append(ledger, e), "verdict")
  BY <1>1, <1>6, UnobservedInLog
<1>8. OfType(ledger, "verdict") \subseteq OfType(Append(ledger, e), "verdict")
  BY <1>5, GrownLog
<1>9. c = "unobserved" => ~Has(ledger', "verdict")
  BY <1>4, <1>7, <1>8 DEF Has
<1>10. pc' = [pc EXCEPT ![t] = p] /\ held' = [held EXCEPT ![t] = x]
  BY DEF Hold, Go
<1>11. QED  BY <1>2, <1>3, <1>9, <1>10, InstallKeeps

LEMMA DerivedAndEnded ==
  ASSUME WorkInv, NEW t \in Task, t \in Foreground \/ pc[t] = "normalizing",
         NEW e, Proper(ledger, e), Write(t, e), Derived(t, "idle", Append(ledger, e)), Rest(t)
  PROVE  WorkInv'
BY DerivedWriteKeeps, IdleHolds DEF Rest, Background

LEMMA InstalledKeeps ==
  ASSUME WorkInv, NEW t \in Task, t \in Foreground \/ pc[t] = "normalizing", Installed(t, ledger)
  PROVE  WorkInv'
<1>1. PICK c : c = ErrorOf(ledger)
  OBVIOUS
<1>2. error' = [error EXCEPT ![Owner[t]] = c]
  BY <1>1 DEF Installed, Derived, View, Show
<1>3. /\ ledger' = ledger /\ LedgerStep /\ seen' = [seen EXCEPT ![Owner[t]] = Len(ledger')] /\ Rest(t)
  BY DEF Installed, LedgerStep
<1>4. c = "unobserved" => ~Has(ledger', "verdict")
  BY <1>1, <1>3, UnobservedInLog DEF WorkInv
<1>5. QED  BY <1>2, <1>3, <1>4, RestHolds, IdleHolds, InstallKeeps DEF Background

LEMMA ValidateKeeps ==
  ASSUME WorkInv, NEW t \in Task, Validate(t)
  PROVE  WorkInv'
<1> DEFINE log == Visible(Owner[t])
<1> DEFINE e == [type |-> "evidence", request |-> Cardinality(OfType(log, "evidence")) + 1]
<1>1. t \in Foreground /\ Owner[t] \in Session
  BY OwnersAreSessions DEF Validate, Ready
<1>2. CASE /\ Unobserved(log)
           /\ View(t, "validating_evidence", "none", Null, "saved")
           /\ Hold(t, "verifying", The(log, "evidence"))
           /\ UNCHANGED <<ledger, seen, faults>>
  <2>1. error' = [error EXCEPT ![Owner[t]] = "none"]
    BY <1>2 DEF View, Show
  <2>2. pc' = [pc EXCEPT ![t] = "verifying"] /\ held' = [held EXCEPT ![t] = The(log, "evidence")]
    BY <1>2 DEF Hold, Go
  <2>3. HoldsOf(ledger, "verifying", The(log, "evidence"))
    <3>1. \E i \in OfType(log, "evidence") : The(log, "evidence") = log[i]
      BY <1>2 DEF Unobserved, Has, The
    <3>2. \E i \in OfType(ledger, "evidence") : The(log, "evidence") = ledger[i]
      BY <1>1, <3>1, CopyOfLedger
    <3>3. QED  BY <3>2 DEF HoldsOf
  <2>4. Sees(log, "verifying")
    BY <1>2 DEF Unobserved, Sees
  <2>5. QED  BY <1>1, <1>2, <2>1, <2>2, <2>3, <2>4, StayKeeps
<1>3. CASE Patched(t, "refused")
  BY <1>3, PatchedKeeps
<1>4. CASE /\ ~Has(log, "evidence")
           /\ Saved(t, e) /\ View(t, "validating_evidence", "none", RetryOf(log), "saved")
           /\ Hold(t, "verifying", e)
  <2>1. log = ledger
    BY <1>1, <1>4, CurrentCopy DEF Saved
  <2>2. Proper(ledger, e) /\ e.type = "evidence"
    BY <1>4, <2>1 DEF Proper
  <2> HIDE DEF e
  <2>3. Write(t, e) /\ error' = [error EXCEPT ![Owner[t]] = "none"]
    BY <1>4 DEF Saved, View, Show
  <2>4. \E i \in OfType(ledger', "evidence") : ledger'[i] = e
    BY <2>2, <2>3, WriteAppends
  <2>5. HoldsOf(ledger', "verifying", e)
    BY <2>4 DEF HoldsOf
  <2>6. ~Has(ledger', "verdict")
    <3>1. OfType(ledger, "verdict") = {}
      BY <1>4, <2>1, NothingBefore DEF WorkInv, LedgerInv, Has
    <3>2. OfType(Append(ledger, e), "verdict") = OfType(ledger, "verdict")
      BY <2>2, AppendedTypes DEF WorkInv, LedgerInv
    <3>3. QED  BY <2>3, <3>1, <3>2 DEF Write, Extended, Has
  <2>7. Sees(ledger', "verifying")
    BY <2>6 DEF Sees
  <2>8. QED  BY <1>1, <1>4, <2>2, <2>3, <2>5, <2>7, SavedKeeps
<1>5. CASE Conflict(t, "retry", Null) \/ Unsaved(t, "retry", Null)
  BY <1>1, <1>5, ConflictKeeps, UnsavedKeeps
<1>6. QED  BY <1>2, <1>3, <1>4, <1>5 DEF Validate

LEMMA VerifyKeeps ==
  ASSUME WorkInv, NEW t \in Task, NEW answer, Verify(t, answer)
  PROVE  WorkInv'
<1> DEFINE x == [type |-> "verdict", request |-> held[t].request, answer |-> answer]
<1>1. t \in Foreground /\ Owner[t] \in Session /\ HoldsOf(ledger, "verifying", held[t])
  BY OwnersAreSessions DEF Verify, WorkInv, Background
<1>2. HoldsOf(ledger, "recording", x) /\ Sees(Visible(Owner[t]), "recording")
  BY <1>1 DEF HoldsOf, Sees
<1>3. PICK c : c = error[Owner[t]]
  OBVIOUS
<1>4. error' = [error EXCEPT ![Owner[t]] = c] /\ UNCHANGED <<ledger, seen>> /\ Hold(t, "recording", x)
  BY <1>3 DEF Verify, View, Show
<1>5. c = "unobserved" => ~Has(Visible(Owner[t]), "verdict")
  BY <1>1, <1>3 DEF WorkInv
<1> HIDE DEF x
<1>6. pc' = [pc EXCEPT ![t] = "recording"] /\ held' = [held EXCEPT ![t] = x]
  BY <1>4 DEF Hold, Go
<1>7. QED  BY <1>1, <1>2, <1>4, <1>5, <1>6, StayKeeps

LEMMA VerifyLostKeeps ==
  ASSUME WorkInv, NEW t \in Task, VerifyLost(t)
  PROVE  WorkInv'
<1>1. ~Has(Visible(Owner[t]), "verdict")
  BY DEF VerifyLost, WorkInv, Sees
<1>2. QED  BY <1>1, PatchedKeeps DEF VerifyLost

\* A validation that is compiled on the whole of a ledger without one.
LEMMA CompiledHolds ==
  ASSUME NEW log, log \in Seq(Elements(log)), NEW e, ~Has(log, "validation"),
         \E j \in OfType(log, "verdict") : SameMeaning(log[j], e)
  PROVE  HoldsOf(log, "normalizing", Compiled(e, log)) /\ Sees(log, "normalizing")
<1> DEFINE x == Compiled(e, log)
<1>1. /\ x.type = "validation" /\ x.at = Len(log) /\ x.fresh = Fresh(log)
      /\ x.request = e.request /\ x.answer = e.answer
  BY DEF Compiled
<1>2. Len(log) \in Nat
  BY LogDomain
<1>3. SubSeq(log, 1, Len(log)) = log
  BY SubSeqFull
<1> HIDE DEF x
<1>4. x.at \in 0 .. Len(log) /\ SubSeq(log, 1, x.at) = log
  BY <1>1, <1>2, <1>3
<1>5. \E j \in OfType(log, "verdict") : SameMeaning(log[j], x)
  BY <1>1 DEF SameMeaning
<1>6. x.fresh <=> Fresh(SubSeq(log, 1, x.at))
  BY <1>1, <1>4
<1>7. ~Has(SubSeq(log, 1, x.at), "validation")
  BY <1>4
<1>8. HoldsOf(log, "normalizing", x)
  BY <1>1, <1>4, <1>5, <1>6, <1>7 DEF HoldsOf
<1>9. QED  BY <1>8 DEF Sees, Has, x

LEMMA RecordKeeps ==
  ASSUME WorkInv, NEW t \in Task, Record(t)
  PROVE  WorkInv'
<1>1. PICK e, log : e = held[t] /\ log = Append(ledger, e)
  OBVIOUS
<1>2. t \in Foreground /\ HoldsOf(ledger, "recording", e)
  BY <1>1 DEF Record, WorkInv, Background
<1>3. CASE View(t, "idle", "retry", Null, "unavailable") /\ Rest(t) /\ UNCHANGED <<ledger, seen, faults>>
  <2>1. error' = [error EXCEPT ![Owner[t]] = "retry"]
    BY <1>3 DEF View, Show
  <2>2. QED  BY <1>3, <2>1, RestHolds, IdleHolds, StayKeeps DEF Background
<1>4. CASE Unsaved(t, "retry", Null)
  BY <1>4, UnsavedKeeps
<1>5. CASE /\ ~Has(ledger, "verdict") /\ Write(t, e)
           /\ \/ Derived(t, "idle", log) /\ Rest(t)
              \/ Derived(t, "persisting_validation", log) /\ Hold(t, "normalizing", Compiled(e, log))
  <2>1. Proper(ledger, e) /\ e.type = "verdict"
    BY <1>2, <1>5 DEF Proper, HoldsOf
  <2>2. CASE Derived(t, "idle", log) /\ Rest(t)
    BY <1>1, <1>2, <1>5, <2>1, <2>2, DerivedAndEnded
  <2>3. CASE Derived(t, "persisting_validation", log) /\ Hold(t, "normalizing", Compiled(e, log))
    <3>1. ledger \in Seq(Elements(ledger)) /\ Worked(ledger)
      BY DEF WorkInv, LedgerInv
    <3>2. e \notin Elements(ledger)
      BY <1>5, <2>1 DEF Elements, Has, OfType
    <3>3. ledger' = log
      BY <1>1, <1>5, <3>2 DEF Write, Extended
    <3>4. log \in Seq(Elements(log))
      BY <1>1, <3>1, AppendedLog
    <3>5. \E j \in OfType(log, "verdict") : log[j] = e
      BY <1>5, <2>1, <3>3, WriteAppends
    <3>6. ~Has(log, "validation")
      <4>1. OfType(log, "validation") = OfType(ledger, "validation")
        BY <1>1, <2>1, <3>1, AppendedTypes
      <4>2. QED  BY <1>5, <3>1, <4>1, NothingBefore DEF Has
    <3>7. HoldsOf(log, "normalizing", Compiled(e, log)) /\ Sees(log, "normalizing")
      BY <3>4, <3>5, <3>6, CompiledHolds DEF SameMeaning
    <3>8. PICK x : x = Compiled(e, log)
      OBVIOUS
    <3>9. HoldsOf(ledger', "normalizing", x) /\ Sees(ledger', "normalizing") /\ Hold(t, "normalizing", x)
      BY <2>3, <3>3, <3>7, <3>8
    <3>10. Derived(t, "persisting_validation", Append(ledger, e))
      BY <1>1, <2>3
    <3>11. QED  BY <1>2, <1>5, <2>1, <3>9, <3>10, DerivedWriteKeeps
  <2>4. QED  BY <1>5, <2>2, <2>3
<1>6. QED  BY <1>1, <1>3, <1>4, <1>5 DEF Record

LEMMA NormalizeKeeps ==
  ASSUME WorkInv, NEW t \in Task, Normalize(t)
  PROVE  WorkInv'
<1>1. PICK e, log : e = held[t] /\ log = Append(ledger, Bare(e))
  OBVIOUS
<1>2. /\ pc[t] = "normalizing" /\ HoldsOf(ledger, "normalizing", e)
      /\ Sees(Visible(Owner[t]), "normalizing")
  BY <1>1 DEF Normalize, WorkInv
<1>3. /\ ledger \in Seq(Elements(ledger)) /\ Len(ledger) \in Nat
      /\ SubSeq(ledger, 1, Len(ledger)) = ledger
  BY LogDomain, SubSeqFull DEF WorkInv, LedgerInv
<1>4. CASE Patched(t, "refused") \/ Unsaved(t, "retry", Null)
  BY <1>4, PatchedKeeps, UnsavedKeeps
<1>5. CASE e.at = Len(ledger) /\ Write(t, Bare(e)) /\ Derived(t, "idle", log) /\ Rest(t)
  <2>1. PICK j \in OfType(ledger, "verdict") : SameMeaning(ledger[j], e)
    BY <1>2 DEF HoldsOf
  <2>2. /\ ~Has(SubSeq(ledger, 1, e.at), "validation") /\ e.type = "validation"
        /\ e.fresh <=> Fresh(SubSeq(ledger, 1, e.at))
    BY <1>2 DEF HoldsOf
  <2>3. SubSeq(ledger, 1, e.at) = ledger
    BY <1>3, <1>5
  <2>4. ~Has(ledger, "validation") /\ (e.fresh <=> Fresh(ledger))
    BY <2>2, <2>3
  <2> DEFINE b == Bare(e)
  <2>5. b.type = "validation" /\ b.fresh = e.fresh /\ b.request = e.request /\ b.answer = e.answer
    BY <2>2 DEF Bare
  <2>6. Proper(ledger, b)
    <3> HIDE DEF b
    <3>1. SameMeaning(ledger[j], b)
      BY <2>1, <2>5 DEF SameMeaning
    <3>2. b.fresh <=> Fresh(ledger)
      BY <2>4, <2>5
    <3>3. QED  BY <2>4, <2>5, <3>1, <3>2 DEF Proper
  <2>7. Write(t, b) /\ Derived(t, "idle", Append(ledger, b)) /\ Rest(t)
    BY <1>1, <1>5
  <2> HIDE DEF b
  <2>8. QED  BY <1>2, <2>6, <2>7, DerivedAndEnded
<1>6. CASE Installed(t, ledger)
  BY <1>2, <1>6, InstalledKeeps
<1>7. CASE ~Has(ledger, "validation") /\ Hold(t, "normalizing", Recompiled(e)) /\ UNCHANGED <<ledger, seen, faults, page>>
  <2>1. \E j \in OfType(ledger, "verdict") : SameMeaning(ledger[j], e)
    BY <1>2 DEF HoldsOf
  <2>2. HoldsOf(ledger, "normalizing", Compiled(e, ledger))
    BY <1>3, <1>7, <2>1, CompiledHolds
  <2>3. PICK x : x = Compiled(e, ledger)
    OBVIOUS
  <2>4. pc' = [pc EXCEPT ![t] = "normalizing"] /\ held' = [held EXCEPT ![t] = x]
    BY <1>7, <2>3 DEF Recompiled, Hold, Go
  <2>5. UNCHANGED <<ledger, seen, error>>
    BY <1>7 DEF page
  <2>6. HoldsOf(ledger, "normalizing", x)
    BY <2>2, <2>3
  <2>7. QED  BY <1>2, <2>4, <2>5, <2>6, QuietKeeps DEF Background
<1>8. \/ Patched(t, "refused") \/ Unsaved(t, "retry", Null) \/ Installed(t, ledger)
      \/ e.at = Len(ledger) /\ Write(t, Bare(e)) /\ Derived(t, "idle", log) /\ Rest(t)
      \/ ~Has(ledger, "validation") /\ Hold(t, "normalizing", Recompiled(e)) /\ UNCHANGED <<ledger, seen, faults, page>>
  BY <1>1 DEF Normalize
<1>9. QED  BY <1>4, <1>5, <1>6, <1>7, <1>8

LEMMA RecoverKeeps ==
  ASSUME WorkInv, NEW t \in Task, Recover(t)
  PROVE  WorkInv'
<1>1. PICK log, e : log = Visible(Owner[t]) /\ e = The(log, "verdict")
  OBVIOUS
<1>2. Owner[t] \in Session /\ UNCHANGED <<ledger, seen>>
  BY OwnersAreSessions DEF Recover
<1>3. /\ log \in Seq(Elements(log)) /\ seen[Owner[t]] \in 0 .. Len(ledger) /\ Len(log) = seen[Owner[t]]
      /\ \A type : \A i \in OfType(log, type) : i \in OfType(ledger, type) /\ log[i] = ledger[i]
  BY <1>1, <1>2, CopyOfLedger
<1>4. PICK c : c = error[Owner[t]]
  OBVIOUS
<1>5. c = "unobserved" => ~Has(Visible(Owner[t]), "verdict")
  BY <1>2, <1>4 DEF WorkInv
<1>6. CASE /\ Has(log, "verdict") /\ ~Has(log, "validation")
           /\ View(t, "persisting_validation", error[Owner[t]], retry[Owner[t]], "saved")
           /\ Hold(t, "normalizing", Compiled(e, log))
  <2>1. \E j \in OfType(log, "verdict") : SameMeaning(log[j], e)
    BY <1>1, <1>6 DEF Has, The, SameMeaning
  <2>2. HoldsOf(log, "normalizing", Compiled(e, log))
    BY <1>3, <1>6, <2>1, CompiledHolds
  <2>3. PICK x : x = Compiled(e, log)
    OBVIOUS
  <2>4. /\ x.type = "validation" /\ x.at = Len(log) /\ x.fresh = Fresh(log)
        /\ x.request = e.request /\ x.answer = e.answer
    BY <2>3 DEF Compiled
  <2>5. SubSeq(ledger, 1, x.at) = log /\ x.at \in 0 .. Len(ledger)
    BY <1>1, <1>3, <2>4 DEF Visible
  <2>6. \E j \in OfType(ledger, "verdict") : SameMeaning(ledger[j], x)
    BY <1>3, <2>1, <2>4 DEF SameMeaning
  <2>7. (x.fresh <=> Fresh(SubSeq(ledger, 1, x.at))) /\ ~Has(SubSeq(ledger, 1, x.at), "validation")
    BY <1>6, <2>4, <2>5
  <2>8. HoldsOf(ledger, "normalizing", x)
    BY <2>4, <2>5, <2>6, <2>7 DEF HoldsOf
  <2>9. Sees(Visible(Owner[t]), "normalizing")
    BY <1>1, <1>6 DEF Sees
  <2>10. /\ pc' = [pc EXCEPT ![t] = "normalizing"] /\ held' = [held EXCEPT ![t] = x]
         /\ error' = [error EXCEPT ![Owner[t]] = c]
    BY <1>4, <1>6, <2>3 DEF Hold, Go, View, Show
  <2>11. QED  BY <1>2, <1>5, <2>8, <2>9, <2>10, StayKeeps DEF Background
<1>7. CASE Rest(t) /\ UNCHANGED page
  <2>1. UNCHANGED <<ledger, seen, error>>
    BY <1>2, <1>7 DEF page
  <2>2. QED  BY <1>7, <2>1, RestHolds, IdleHolds, QuietKeeps DEF Background
<1>8. QED  BY <1>1, <1>6, <1>7 DEF Recover

-------------------------------------------------------------------------------
(* Reconciliation                                                              *)

\* A task that is about to propose or to integrate takes another look.
LEMMA AgainKeeps ==
  ASSUME WorkInv, NEW t \in Task, pc[t] \in {"proposing", "integrating"}, Again(t)
  PROVE  WorkInv'
<1>1. PICK p, x : p = pc[t] /\ x = [held[t] EXCEPT !.at = Len(ledger)]
  OBVIOUS
<1>2. pc' = [pc EXCEPT ![t] = p] /\ held' = [held EXCEPT ![t] = x] /\ UNCHANGED <<ledger, seen, error>>
  BY <1>1 DEF Again, Hold, Go, page
<1>3. t \in Foreground
  BY DEF WorkInv, Background
<1>4. QED  BY <1>1, <1>2, <1>3, IdleHolds, QuietKeeps

LEMMA BlockedKeeps ==
  ASSUME WorkInv, NEW t \in Task, t \in Foreground, NEW kept, Blocked(t, kept)
  PROVE  WorkInv'
<1>1. /\ ledger' = ledger /\ seen' = [seen EXCEPT ![Owner[t]] = Len(ledger')]
      /\ error' = [error EXCEPT ![Owner[t]] = "refused"] /\ Rest(t)
  BY DEF Blocked, Reinstall, View, Show
<1>2. QED  BY <1>1, RestHolds, IdleHolds, InstallKeeps DEF LedgerStep, Background

LEMMA BeginsKeep ==
  ASSUME WorkInv, NEW t \in Task, t \in Foreground, NEW p \in {"proposing", "integrating"}, NEW x,
         UNCHANGED <<ledger, seen>>, NEW state, View(t, state, "none", Null, "saved"), Hold(t, p, x)
  PROVE  WorkInv'
<1>1. /\ pc' = [pc EXCEPT ![t] = p] /\ held' = [held EXCEPT ![t] = x]
      /\ error' = [error EXCEPT ![Owner[t]] = "none"]
  BY DEF View, Show, Hold, Go
<1>2. QED  BY <1>1, IdleHolds, StayKeeps

LEMMA ProposeKeeps ==
  ASSUME WorkInv, NEW t \in Task, Propose(t) \/ Integrate(t)
  PROVE  WorkInv'
<1>1. t \in Foreground
  BY DEF Propose, Integrate, Ready
<1>2. CASE Propose(t)
  BY <1>1, <1>2, PatchedKeeps, BeginsKeep DEF Propose
<1>3. CASE Integrate(t)
  BY <1>1, <1>3, PatchedKeeps, BeginsKeep DEF Integrate
<1>4. QED  BY <1>2, <1>3

LEMMA SaveProposalKeeps ==
  ASSUME WorkInv, NEW t \in Task, SaveProposal(t)
  PROVE  WorkInv'
<1>1. PICK e : e = [type |-> "proposed", base |-> held[t].base]
  OBVIOUS
<1>2. t \in Foreground /\ pc[t] = "proposing" /\ Proper(ledger, e)
  BY <1>1 DEF SaveProposal, WorkInv, Background, Proper
<1>3. \/ Write(t, e) /\ Derived(t, "idle", Append(ledger, e)) /\ Rest(t)
      \/ Installed(t, ledger) \/ Blocked(t, "conflict") \/ Blocked(t, "saved")
      \/ Again(t) \/ Unsaved(t, "retry", Null)
  BY <1>1 DEF SaveProposal
<1>4. CASE Write(t, e) /\ Derived(t, "idle", Append(ledger, e)) /\ Rest(t)
  BY <1>2, <1>4, DerivedAndEnded
<1>5. QED  BY <1>2, <1>3, <1>4, InstalledKeeps, BlockedKeeps, AgainKeeps, UnsavedKeeps

LEMMA SaveIntegrationKeeps ==
  ASSUME WorkInv, NEW t \in Task, SaveIntegration(t)
  PROVE  WorkInv'
<1>1. PICK e : e = [type |-> "integrated", base |-> held[t].base]
  OBVIOUS
<1>2. t \in Foreground /\ pc[t] = "integrating" /\ Proper(ledger, e)
  BY <1>1 DEF SaveIntegration, WorkInv, Background, Proper
<1>3. \/ Write(t, e) /\ Derived(t, "idle", Append(ledger, e)) /\ Rest(t)
      \/ Installed(t, ledger) \/ Blocked(t, "saved")
      \/ Again(t) \/ Unsaved(t, "retry", Null)
  BY <1>1 DEF SaveIntegration
<1>4. CASE Write(t, e) /\ Derived(t, "idle", Append(ledger, e)) /\ Rest(t)
  BY <1>2, <1>4, DerivedAndEnded
<1>5. QED  BY <1>2, <1>3, <1>4, InstalledKeeps, BlockedKeeps, AgainKeeps, UnsavedKeeps

-------------------------------------------------------------------------------
(* Pages                                                                       *)

LEMMA OpenKeeps ==
  ASSUME WorkInv, NEW t \in Task, Open(t)
  PROVE  WorkInv'
<1>1. PICK s, c : s = Owner[t] /\ c = ErrorOf(ledger)
  OBVIOUS
<1>2. /\ s \in Session /\ ledger' = ledger /\ held' = held
      /\ seen' = [seen EXCEPT ![s] = Len(ledger)] /\ error' = [error EXCEPT ![s] = c]
      /\ pc' = [u \in Task |-> IF u = t THEN "surveying" ELSE IF u \in Mine(s) THEN "idle" ELSE pc[u]]
  BY <1>1, OwnersAreSessions DEF Open, Derived, View, Show
<1>3. LedgerStep /\ LedgerInv(ledger) /\ Len(ledger) \in Nat
  BY <1>2, LogDomain DEF LedgerStep, WorkInv, LedgerInv
<1>4. SubSeq(ledger, 1, Len(ledger)) = ledger
  BY <1>3, SubSeqFull DEF LedgerInv
<1>5. /\ seen' \in [Session -> Nat] /\ seen'[s] = Len(ledger)
      /\ \A r \in Session : r # s => seen'[r] = seen[r]
      /\ \A r \in Session : seen'[r] <= Len(ledger')
  BY <1>2, <1>3 DEF WorkInv, Shape
<1>6. /\ error' = [r \in Session |-> error'[r]] /\ error'[s] = c
      /\ \A r \in Session \ {s} : error'[r] = error[r]
  BY <1>2 DEF WorkInv, Shape
<1>7. Visible(s)' = ledger /\ \A r \in Session : r # s => Visible(r)' = Visible(r)
  BY <1>2, <1>4, <1>5 DEF Visible
<1>8. Shape'
  BY <1>2, <1>5, <1>6 DEF Shape, WorkInv
<1>9. ASSUME NEW u \in Task
      PROVE  /\ HoldsOf(ledger', pc'[u], held'[u]) /\ Sees(Visible(Owner[u])', pc'[u])
             /\ u \notin Foreground => pc'[u] \in Background
  <2>1. CASE pc'[u] \in {"surveying", "idle"}
    BY <2>1, IdleHolds DEF Background
  <2>2. CASE u # t /\ Owner[u] # s
    <3>1. pc'[u] = pc[u] /\ held'[u] = held[u] /\ Visible(Owner[u])' = Visible(Owner[u])
      BY <1>2, <1>7, <2>2, OwnersAreSessions DEF Mine
    <3>2. QED  BY <1>2, <3>1 DEF WorkInv
  <2>3. QED  BY <1>2, <2>1, <2>2 DEF Mine
<1>10. ASSUME NEW r \in Session, error'[r] = "unobserved"
       PROVE  ~Has(Visible(r)', "verdict")
  <2>1. CASE r = s
    BY <1>1, <1>3, <1>6, <1>7, <1>10, <2>1, UnobservedInLog
  <2>2. CASE r # s
    BY <1>6, <1>7, <1>10, <2>2 DEF WorkInv
  <2>3. QED  BY <2>1, <2>2
<1>11. QED  BY <1>2, <1>3, <1>8, <1>9, <1>10 DEF WorkInv

LEMMA ClosedKeeps ==
  ASSUME WorkInv, NEW s \in Session, Closed(s)
  PROVE  WorkInv'
<1>1. /\ ledger' = ledger /\ seen' = [seen EXCEPT ![s] = 0] /\ error' = [error EXCEPT ![s] = "none"]
      /\ pc' = [u \in Task |-> IF u \in Mine(s) THEN "closed" ELSE pc[u]]
      /\ held' = [u \in Task |-> IF u \in Mine(s) THEN Null ELSE held[u]]
  BY SessionAssumption DEF Closed, View, Show
<1>2. LedgerInv(ledger) /\ Len(ledger) \in Nat
  BY LogDomain DEF WorkInv, LedgerInv
<1>3. /\ seen' \in [Session -> Nat]
      /\ \A r \in Session : r # s => seen'[r] = seen[r]
      /\ \A r \in Session : seen'[r] <= Len(ledger')
  BY <1>1, <1>2 DEF WorkInv, Shape
<1>4. /\ error' = [r \in Session |-> error'[r]] /\ error'[s] = "none"
      /\ \A r \in Session \ {s} : error'[r] = error[r]
  BY <1>1 DEF WorkInv, Shape
<1>5. \A r \in Session : r # s => Visible(r)' = Visible(r)
  BY <1>1, <1>3 DEF Visible
<1>6. Shape'
  BY <1>1, <1>3, <1>4 DEF Shape
<1>7. ASSUME NEW u \in Task
      PROVE  /\ HoldsOf(ledger', pc'[u], held'[u]) /\ Sees(Visible(Owner[u])', pc'[u])
             /\ u \notin Foreground => pc'[u] \in Background
  <2>1. CASE Owner[u] = s
    <3>1. pc'[u] = "closed"
      BY <1>1, <2>1 DEF Mine
    <3>2. QED  BY <3>1, IdleHolds DEF Background
  <2>2. CASE Owner[u] # s
    <3>1. pc'[u] = pc[u] /\ held'[u] = held[u] /\ Visible(Owner[u])' = Visible(Owner[u])
      BY <1>1, <1>5, <2>2, OwnersAreSessions DEF Mine
    <3>2. QED  BY <1>1, <3>1 DEF WorkInv
  <2>3. QED  BY <2>1, <2>2
<1>8. ASSUME NEW r \in Session, error'[r] = "unobserved"
      PROVE  ~Has(Visible(r)', "verdict")
  <2>1. r # s
    BY <1>4, <1>8
  <2>2. QED  BY <1>4, <1>5, <1>8, <2>1 DEF WorkInv
<1>9. QED  BY <1>1, <1>2, <1>6, <1>7, <1>8 DEF WorkInv

-------------------------------------------------------------------------------
(* The invariant                                                               *)

LEMMA InitiallyHolds == Init => WorkInv
<1> SUFFICES ASSUME Init PROVE WorkInv
  OBVIOUS
<1>1. /\ ledger = FirstLedger /\ seen = [s \in Session |-> 0] /\ error = [s \in Session |-> "none"]
      /\ pc = [t \in Task |-> "closed"] /\ held = [t \in Task |-> Null]
  BY DEF Init
<1>2. FirstLedger \in Seq(Elements(FirstLedger)) /\ Len(FirstLedger) \in Nat
  BY WorkAssumption, LogDomain
<1>3. /\ OfType(FirstLedger, "evidence") = {} /\ OfType(FirstLedger, "verdict") = {}
      /\ OfType(FirstLedger, "validation") = {}
  <2>1. \A i \in DOMAIN FirstLedger :
          FirstLedger[i].type \in {"source", "attempt", "answer", "failure", "accepted", "closure"}
    BY WorkAssumption DEF Elements
  <2>2. QED  BY <2>1 DEF OfType
<1>4. Worked(FirstLedger)
  BY <1>3 DEF Worked, Single
<1>5. LedgerInv(ledger)
  BY <1>1, <1>2, <1>4, WorkAssumption DEF LedgerInv
<1>6. Shape
  BY <1>1, <1>2 DEF Shape
<1>7. \A t \in Task : /\ HoldsOf(ledger, pc[t], held[t]) /\ Sees(Visible(Owner[t]), pc[t])
                      /\ t \notin Foreground => pc[t] \in Background
  BY <1>1, IdleHolds DEF Background
<1>8. \A s \in Session : error[s] # "unobserved"
  BY <1>1
<1>9. QED  BY <1>5, <1>6, <1>7, <1>8 DEF WorkInv

LEMMA StepsKeepInvariant == WorkInv /\ [Next]_vars => WorkInv'
<1> SUFFICES ASSUME WorkInv, [Next]_vars PROVE WorkInv'
  OBVIOUS
<1>1. CASE UNCHANGED vars
  <2>1. UNCHANGED <<ledger, seen, error, pc, held>>
    BY <1>1 DEF vars, page
  <2>2. \A s \in Session : Visible(s)' = Visible(s)
    BY <2>1 DEF Visible
  <2>3. Shape'
    BY <2>1 DEF Shape, WorkInv
  <2>4. \A t \in Task : Visible(Owner[t])' = Visible(Owner[t])
    BY <2>2, OwnersAreSessions
  <2>5. QED  BY <2>1, <2>2, <2>3, <2>4 DEF WorkInv
<1>2. CASE \E t \in Task : User(t)
  <2>1. PICK t \in Task : User(t)
    BY <1>2
  <2>2. CASE PlacementUser(t)
    BY <2>2, CaptureKeeps, CaptureUnplacedKeeps, RetryKeeps, RetryInvalidKeeps, AcceptKeeps DEF PlacementUser
  <2>3. CASE Validate(t) \/ Propose(t) \/ Integrate(t)
    BY <2>3, ValidateKeeps, ProposeKeeps
  <2>4. QED  BY <2>1, <2>2, <2>3 DEF User
<1>3. CASE \E t \in Task : Continue(t)
  <2>1. PICK t \in Task : Continue(t)
    BY <1>3
  <2>2. CASE PlacementContinue(t)
    <3>1. CASE ReceiveNothing(t)
      BY <3>1, ReceiveNothingKeeps
    <3>2. CASE \E o \in Answer : Receive(t, o)
      BY <3>2, ReceiveKeeps
    <3>3. QED  BY <2>2, <3>1, <3>2 DEF PlacementContinue
  <2>3. CASE \E answer \in Verdict : Verify(t, answer)
    BY <2>3, VerifyKeeps
  <2>4. CASE VerifyLost(t) \/ Record(t) \/ Normalize(t) \/ Recover(t)
    BY <2>4, VerifyLostKeeps, RecordKeeps, NormalizeKeeps, RecoverKeeps
  <2>5. CASE SaveProposal(t) \/ SaveIntegration(t)
    BY <2>5, SaveProposalKeeps, SaveIntegrationKeeps
  <2>6. QED  BY <2>1, <2>2, <2>3, <2>4, <2>5 DEF Continue
<1>4. CASE \E t \in Task : Open(t)
  BY <1>4, OpenKeeps
<1>5. CASE \E s \in Session : Lost(s) \/ Reload(s)
  BY <1>5, ClosedKeeps DEF Lost, Reload
<1>6. QED  BY <1>1, <1>2, <1>3, <1>4, <1>5 DEF Next

\* In every state the ledger is well numbered, what is adopted was placed on the
\* head it moves, a result has one request, answer and validation, and what every
\* task holds and every page says comes from it.
THEOREM WorkInvariant == Spec => []WorkInv
<1>1. QED  BY InitiallyHolds, StepsKeepInvariant, PTL DEF Spec

\* What is adopted was asked for, placed, and based on the head it is adopted on,
\* however many tabs ask, answer and commit (acceptActivePlacement).
THEOREM AdoptionsAreOnHead == Spec => []PlacedOnHead
<1>1. WorkInv => PlacedOnHead
  BY DEF WorkInv, LedgerInv, PlacedOnHead
<1>2. QED  BY <1>1, WorkInvariant, PTL

LEMMA SingleIsOne ==
  ASSUME NEW log, NEW type, Single(log, type)
  PROVE  Cardinality(OfType(log, type)) <= 1
<1>1. CASE OfType(log, type) = {}
  BY <1>1, FS_EmptySet
<1>2. CASE OfType(log, type) # {}
  <2>1. PICK i : i \in OfType(log, type)
    BY <1>2
  <2>2. OfType(log, type) = {i}
    BY <2>1 DEF Single
  <2>3. Cardinality({i}) = 1
    BY FS_Singleton
  <2>4. Cardinality(OfType(log, type)) = 1
    BY <2>2, <2>3
  <2>5. QED  BY <2>4
<1>3. QED  BY <1>1, <1>2

\* A result gets one request, one recorded answer and one validation, in that
\* order, with that answer and the freshness of the ledger it was written to
\* (validateActiveEvidence and the conflict recovery of the validation).
THEOREM ValidationIsExact == Spec => []ValidationsAreExact
<1>1. WorkInv => ValidationsAreExact
  <2> SUFFICES ASSUME WorkInv PROVE ValidationsAreExact
    OBVIOUS
  <2>1. Worked(ledger)
    BY DEF WorkInv, LedgerInv
  <2>2. \A type \in {"evidence", "verdict", "validation"} : Cardinality(OfType(ledger, type)) <= 1
    BY <2>1, SingleIsOne DEF Worked
  <2>3. QED  BY <2>1, <2>2 DEF Worked, ValidationsAreExact
<1>2. QED  BY <1>1, WorkInvariant, PTL

-------------------------------------------------------------------------------
(* What a page offers                                                          *)

LEMMA AcceptIsReviewable ==
  ASSUME NEW s, CanAccept(s)
  PROVE  LET log == Visible(s)
             x == ShownAnswer(log)
         IN /\ ShownFailure(log) = 0 /\ x # 0 /\ log[x].outcome = "placed"
            /\ ~Adopted(log, log[x].request) /\ ~Stale(log, log[x].request)
<1>1. operation[s] = "idle" /\ PlacementSurface(s).state = "reviewable"
  BY DEF CanAccept, Idle
<1>2. LedgerSurface(s).state = "reviewable"
  BY <1>1 DEF PlacementSurface, Surface
<1>3. /\ ShownFailure(Visible(s)) = 0 /\ ShownAnswer(Visible(s)) # 0
      /\ AnsweredSurface(Visible(s), ShownAnswer(Visible(s))).state = "reviewable"
  BY <1>1, <1>2 DEF LedgerSurface, Surface
<1>4. QED  BY <1>3 DEF AnsweredSurface, Surface

LEMMA LastOfThree ==
  ASSUME NEW a \in Nat, NEW b \in Nat, NEW c \in Nat
  PROVE  Last({a, b, c}) \in {a, b, c}
<1>1. \E m \in {a, b, c} : \A j \in {a, b, c} : j <= m
  OBVIOUS
<1>2. QED  BY <1>1 DEF Last

\* Where the shown answer is: after the shown attempt and after every source.
LEMMA ShownPlaces ==
  ASSUME NEW log, log \in Seq(Elements(log)), ShownAnswer(log) # 0
  PROVE  LET a == ShownAttempt(log)
             x == ShownAnswer(log)
         IN /\ x \in OfType(log, "answer") /\ a \in 0 .. Len(log)
            /\ \A i \in OfType(log, "source") \cup OfType(log, "attempt") : i < x
            /\ a # 0 => a \in OfType(log, "attempt") /\ log[x].request = log[a].request
            /\ \A i \in OfType(log, "answer") : log[i].request = log[x].request => i <= x
<1>1. Len(log) \in Nat /\ \A type : OfType(log, type) \subseteq 1 .. Len(log)
  BY LogDomain DEF OfType
<1>2. \A type : /\ Last(OfType(log, type)) \in 0 .. Len(log)
                /\ \A j \in OfType(log, type) : j <= Last(OfType(log, type))
                /\ Last(OfType(log, type)) # 0 => Last(OfType(log, type)) \in OfType(log, type)
  BY <1>1, LastBounds
<1>3. PICK sources, attempts, answers :
        /\ sources = OfType(log, "source") /\ attempts = OfType(log, "attempt")
        /\ answers = OfType(log, "answer")
  OBVIOUS
<1>4. PICK a, x : a = ShownAttempt(log) /\ x = ShownAnswer(log)
  OBVIOUS
<1>5. CASE a # 0
  <2> DEFINE mine == {i \in answers : i > a /\ log[i].request = log[a].request}
  <2>1. a = Last(attempts) /\ a > Last(sources)
    BY <1>3, <1>4, <1>5 DEF ShownAttempt
  <2>2. a \in attempts /\ a \in 1 .. Len(log)
    BY <1>1, <1>2, <1>3, <1>5, <2>1
  <2>3. x = Last(mine)
    BY <1>3, <1>4, <1>5 DEF ShownAnswer
  <2>4. mine \subseteq 1 .. Len(log)
    BY <1>1, <1>3
  <2>5. x \in mine /\ \A i \in mine : i <= x
    <3> HIDE DEF mine
    <3>1. QED  BY <1>1, <1>4, <2>3, <2>4, LastBounds
  <2>6. x \in answers /\ x > a /\ log[x].request = log[a].request /\ x \in 1 .. Len(log)
    BY <2>4, <2>5
  <2>7. \A i \in sources \cup attempts : i \in 1 .. Len(log) /\ i < x
    <3>1. \A i \in sources : i \in 1 .. Len(log) /\ i <= Last(sources)
      BY <1>1, <1>2, <1>3
    <3>2. \A i \in attempts : i \in 1 .. Len(log) /\ i <= Last(attempts)
      BY <1>1, <1>2, <1>3
    <3>3. Last(sources) \in 0 .. Len(log)
      BY <1>2, <1>3
    <3>4. ASSUME NEW i \in sources PROVE i < x
      BY <1>1, <2>1, <2>2, <2>6, <3>1, <3>3
    <3>5. ASSUME NEW i \in attempts PROVE i < x
      BY <1>1, <2>1, <2>2, <2>6, <3>2
    <3>6. QED  BY <3>1, <3>2, <3>4, <3>5
  <2>8. \A i \in answers : log[i].request = log[x].request => i <= x
    <3>1. ASSUME NEW i \in answers, log[i].request = log[x].request, ~(i <= x)
          PROVE  FALSE
      <4>1. i > a
        BY <1>1, <1>3, <2>2, <2>6, <3>1
      <4>2. i \in mine
        BY <2>6, <3>1, <4>1
      <4>3. QED  BY <2>5, <3>1, <4>2
    <3>2. QED  BY <3>1
  <2>9. QED  BY <1>3, <1>4, <2>2, <2>6, <2>7, <2>8
<1>6. CASE a = 0
  <2>1. x = Last(answers) /\ x > Last(sources) /\ x # 0
    BY <1>3, <1>4, <1>6 DEF ShownAnswer
  <2>2. x \in answers /\ x \in 1 .. Len(log) /\ \A i \in answers : i <= x
    BY <1>1, <1>2, <1>3, <2>1
  <2>3. Last(attempts) \in 0 .. Len(log) /\ Last(sources) \in 0 .. Len(log)
    BY <1>2, <1>3
  <2>4. ~(Last(attempts) > Last(sources))
    <3>1. CASE Last(attempts) = 0
      BY <2>3, <3>1
    <3>2. CASE Last(attempts) # 0
      BY <1>3, <1>4, <1>6, <3>2 DEF ShownAttempt
    <3>3. QED  BY <3>1, <3>2
  <2>5. \A i \in sources : i \in 1 .. Len(log) /\ i <= Last(sources)
    BY <1>1, <1>2, <1>3
  <2>6. \A i \in attempts : i \in 1 .. Len(log) /\ i <= Last(attempts)
    BY <1>1, <1>2, <1>3
  <2>7. \A i \in sources \cup attempts : i < x
    BY <1>1, <2>1, <2>2, <2>3, <2>4, <2>5, <2>6
  <2>8. a \in 0 .. Len(log)
    BY <1>1, <1>6
  <2>9. QED  BY <1>3, <1>4, <1>6, <2>2, <2>7, <2>8
<1>7. QED  BY <1>5, <1>6

\* With no failure of it and no late answer to another question, the answer that
\* is shown is what was recorded last of any placement.
LEMMA ShownIsLast ==
  ASSUME NEW log, log \in Seq(Elements(log)), Asked(log),
         \A i, j \in OfType(log, "attempt") : log[i].request = log[j].request => i = j,
         ShownAnswer(log) # 0, ShownFailure(log) = 0, ~AnsweredLate(log)
  PROVE  Last(Placing(log)) = ShownAnswer(log)
<1>1. PICK a, x, i : a = ShownAttempt(log) /\ x = ShownAnswer(log) /\ i = Last(Placing(log))
  OBVIOUS
<1>2. /\ x \in OfType(log, "answer") /\ a \in 0 .. Len(log)
      /\ \A k \in OfType(log, "source") \cup OfType(log, "attempt") : k < x
      /\ a # 0 => a \in OfType(log, "attempt") /\ log[x].request = log[a].request
      /\ \A k \in OfType(log, "answer") : log[k].request = log[x].request => k <= x
  BY <1>1, ShownPlaces
<1>3. /\ Len(log) \in Nat /\ DOMAIN log = 1 .. Len(log) /\ x \in 1 .. Len(log)
      /\ log[x].type = "answer" /\ \A type : OfType(log, type) \subseteq 1 .. Len(log)
  BY <1>2, LogDomain DEF OfType
<1>4. /\ Placing(log) = {k \in 1 .. Len(log) : log[k].type \in {"source", "attempt", "answer", "failure"}}
      /\ \A k \in Placing(log) : k <= i
      /\ i # 0 => i \in Placing(log)
      /\ i \in 0 .. Len(log)
  BY <1>1, PlacingLog
<1>5. x \in Placing(log) /\ x <= i
  BY <1>3, <1>4
<1>6. i \in 1 .. Len(log) /\ log[i].type \in {"source", "attempt", "answer", "failure"}
  BY <1>3, <1>4, <1>5
<1>7. CASE i = x
  BY <1>1, <1>7
<1>8. CASE i # x
  <2>1. i > x
    BY <1>3, <1>5, <1>6, <1>8
  <2>2. log[i].type \notin {"source", "attempt"}
    <3>1. CASE log[i].type \in {"source", "attempt"}
      <4>1. i \in OfType(log, "source") \cup OfType(log, "attempt")
        BY <1>3, <1>6, <3>1 DEF OfType
      <4>2. i < x
        BY <1>2, <4>1
      <4>3. QED  BY <1>3, <1>6, <2>1, <4>2
    <3>2. QED  BY <3>1
  <2>3. i \in OfType(log, "answer") \cup OfType(log, "failure")
    BY <1>3, <1>6, <2>2 DEF OfType
  <2>4. log[i].request = log[x].request
    BY <1>1, <2>1, <2>3 DEF AnsweredLate, ShownRequest
  <2>5. log[i].type = "failure"
    <3>1. CASE i \in OfType(log, "answer")
      <4>1. i <= x
        BY <1>2, <2>4, <3>1
      <4>2. QED  BY <1>3, <1>6, <2>1, <4>1
    <3>2. QED  BY <2>3, <3>1 DEF OfType
  <2>6. PICK b \in OfType(log, "attempt") : log[b].request = log[i].request /\ log[b].source = log[i].source
    BY <2>3 DEF Asked
  <2>7. PICK c \in OfType(log, "attempt") : log[c].request = log[x].request /\ log[c].source = log[x].source
    BY <1>2 DEF Asked
  <2>8. b = c
    BY <2>4, <2>6, <2>7
  <2>9. log[i].source = ShownSource(log)
    <3>1. CASE a # 0
      <4>1. a = b
        BY <1>2, <2>4, <2>6, <3>1
      <4>2. ShownSource(log) = log[a].source
        BY <1>1, <3>1 DEF ShownSource
      <4>3. QED  BY <2>6, <4>1, <4>2
    <3>2. CASE a = 0
      <4>1. ShownSource(log) = log[x].source
        BY <1>1, <3>2 DEF ShownSource
      <4>2. QED  BY <2>6, <2>7, <2>8, <4>1
    <3>3. QED  BY <3>1, <3>2
  <2>10. PICK c0, from : c0 = Last(Captures(log)) /\ from = Last({c0, a, x})
    OBVIOUS
  <2>11. Captures(log) \subseteq 1 .. Len(log)
         /\ \A k \in Captures(log) : log[k].type \in {"source", "attempt"}
    BY <1>3 DEF Captures
  <2>12. c0 \in 0 .. Len(log) /\ (c0 # 0 => c0 \in Captures(log))
    BY <1>3, <2>10, <2>11, LastBounds
  <2>13. c0 < x
    <3>1. CASE c0 = 0
      BY <1>3, <3>1
    <3>2. CASE c0 # 0
      <4>1. c0 \in OfType(log, "source") \cup OfType(log, "attempt")
        BY <1>3, <2>11, <2>12, <3>2 DEF OfType
      <4>2. QED  BY <1>2, <4>1
    <3>3. QED  BY <3>1, <3>2
  <2>14. a < x
    <3>1. CASE a = 0
      BY <1>3, <3>1
    <3>2. CASE a # 0
      BY <1>2, <3>2
    <3>3. QED  BY <3>1, <3>2
  <2>15. from \in {c0, a, x}
    <3>1. c0 \in Nat /\ a \in Nat /\ x \in Nat
      BY <1>2, <1>3, <2>12
    <3>2. QED  BY <2>10, <3>1, LastOfThree
  <2>16. i > from
    BY <1>2, <1>3, <1>6, <2>1, <2>12, <2>13, <2>14, <2>15
  <2> DEFINE failures == {k \in DOMAIN log : /\ k >= from /\ Fails(log[k])
                                             /\ k = from => k = x
                                             /\ log[k].source = ShownSource(log)}
  <2>17. ShownFailure(log) = Last(failures)
    BY <1>1, <2>10 DEF ShownFailure
  <2>18. from \in Nat
    BY <1>2, <1>3, <2>12, <2>15
  <2>19. i \in failures
    BY <1>3, <1>6, <2>5, <2>9, <2>16, <2>18 DEF Fails
  <2>20. failures \subseteq 1 .. Len(log)
    BY <1>3
  <2> HIDE DEF failures
  <2>21. i <= Last(failures)
    BY <1>3, <2>19, <2>20, LastBounds
  <2>22. Last(failures) = 0
    BY <2>17
  <2>23. QED  BY <1>3, <1>6, <2>21, <2>22
<1>9. QED  BY <1>7, <1>8

LEMMA CopyIsAsked ==
  ASSUME WorkInv, NEW s \in Session
  PROVE  /\ Asked(Visible(s))
         /\ \A i, j \in OfType(Visible(s), "attempt") :
              Visible(s)[i].request = Visible(s)[j].request => i = j
<1>1. PICK log, n : log = Visible(s) /\ n = seen[s]
  OBVIOUS
<1>2. /\ log = SubSeq(ledger, 1, n) /\ n \in 0 .. Len(ledger)
      /\ \A type : \A i \in OfType(log, type) : i \in OfType(ledger, type) /\ log[i] = ledger[i]
  BY <1>1, CopyOfLedger DEF Visible
<1>3. ledger \in Seq(Elements(ledger)) /\ Asked(ledger) /\ Numbered(ledger) /\ Len(ledger) \in Nat
  BY LogDomain DEF WorkInv, LedgerInv
<1>4. \A type : OfType(log, type) = {i \in OfType(ledger, type) : i <= n}
  BY <1>2, <1>3, PrefixTypes
<1>5. \A i, j \in OfType(log, "attempt") : log[i].request = log[j].request => i = j
  BY <1>2, <1>3 DEF Numbered
<1>6. ASSUME NEW i \in OfType(log, "answer") \cup OfType(log, "failure")
      PROVE  \E a \in OfType(log, "attempt") :
               a < i /\ log[a].request = log[i].request /\ log[a].source = log[i].source
  <2>1. i \in OfType(ledger, "answer") \cup OfType(ledger, "failure") /\ log[i] = ledger[i] /\ i <= n
    BY <1>2, <1>4
  <2>2. PICK a \in OfType(ledger, "attempt") :
          a < i /\ ledger[a].request = ledger[i].request /\ ledger[a].source = ledger[i].source
    BY <1>3, <2>1 DEF Asked
  <2>3. a \in 1 .. Len(ledger) /\ i \in 1 .. Len(ledger)
    BY <1>3, <2>1, LogDomain DEF OfType
  <2>4. a \in OfType(log, "attempt")
    BY <1>2, <1>4, <2>1, <2>2, <2>3
  <2>5. QED  BY <1>2, <2>1, <2>2, <2>4
<1>7. QED  BY <1>1, <1>5, <1>6 DEF Asked

\* What an idle page offers, the session does: after a late answer to an older
\* question alone may it commit another placement than the one that is shown
\* (worldstate-workbench and buildPlacementSurface, buildWorkSurface beside the
\* guards of the session's operations).
THEOREM OffersAreAdmitted == Spec => []OfferedWorkIsAdmitted
<1>1. WorkInv => OfferedWorkIsAdmitted
  <2> SUFFICES ASSUME WorkInv PROVE OfferedWorkIsAdmitted
    OBVIOUS
  <2>1. ASSUME NEW s \in Session, CanAccept(s), ~AnsweredLate(Visible(s))
        PROVE  LET log == Visible(s)
                   q == ActiveDelta(log)
               IN q = ShownRequest(log) /\ ~Adopted(log, q) /\ ~Stale(log, q)
    <3>1. PICK log : log = Visible(s)
      OBVIOUS
    <3>2. PICK x : x = ShownAnswer(log)
      OBVIOUS
    <3>3. /\ ShownFailure(log) = 0 /\ x # 0 /\ log[x].outcome = "placed"
          /\ ~Adopted(log, log[x].request) /\ ~Stale(log, log[x].request)
      BY <2>1, <3>1, <3>2, AcceptIsReviewable
    <3>4. log \in Seq(Elements(log))
      BY <3>1, CopyOfLedger
    <3>5. Asked(log) /\ \A i, j \in OfType(log, "attempt") : log[i].request = log[j].request => i = j
      BY <3>1, CopyIsAsked
    <3>6. Last(Placing(log)) = x
      BY <2>1, <3>1, <3>2, <3>3, <3>4, <3>5, ShownIsLast
    <3>7. log[x].type = "answer"
      BY <3>2, <3>3, <3>4, ShownPlaces DEF OfType
    <3>8. ActiveDelta(log) = log[x].request
      BY <3>3, <3>6, <3>7 DEF ActiveDelta
    <3>9. QED  BY <3>1, <3>2, <3>3, <3>8 DEF ShownRequest
  <2>2. ASSUME NEW s \in Session, CanValidate(s)
        PROVE  Validatable(Visible(s)) /\ (Has(Visible(s), "evidence") => Unobserved(Visible(s)))
    BY <2>2 DEF CanValidate, Validatable, Unobserved, WorkInv
  <2>3. ASSUME NEW s \in Session, CanPropose(s)
        PROVE  Proposable(Visible(s)) /\ (Claimed => Reconcilable(Visible(s)))
    BY <2>3 DEF CanPropose, Proposable, Reconcilable, ShownVerified, Verified
  <2>4. ASSUME NEW s \in Session, CanIntegrate(s)
        PROVE  Integrable(Visible(s)) /\ Gate(Visible(s), The(Visible(s), "proposed").base)
    BY <2>4 DEF CanIntegrate, Integrable
  <2>5. QED  BY <2>1, <2>2, <2>3, <2>4 DEF OfferedWorkIsAdmitted
<1>2. QED  BY <1>1, WorkInvariant, PTL

-------------------------------------------------------------------------------
(* The boundary of a placement                                                 *)

\* The delta of an interpretation is, relation by relation, what its receipt shows.
LEMMA DeltasConvert ==
  ASSUME NEW i, ~i.clarify
  PROVE  Converts(Materialized(i))
<1> DEFINE p == Materialized(i)
<1>1. /\ p.delta = [node |-> Candidate, relations |-> Operations(i.relations)]
      /\ p.receipt.relations = i.relations
  BY DEF Materialized
<1>2. p.delta.node = Candidate /\ p.delta.relations = Operations(i.relations)
  BY <1>1
<1>3. [k \in DOMAIN p.receipt.relations |-> Oriented(p.receipt.relations[k])] = Operations(i.relations)
  BY <1>1 DEF Operations
<1> HIDE DEF p
<1>4. SameRelations(p.delta.relations, [k \in DOMAIN p.receipt.relations |-> Oriented(p.receipt.relations[k])])
  BY <1>2, <1>3 DEF SameRelations
<1>5. QED  BY <1>2, <1>4 DEF Converts, p

\* What is in bounds, clear and for the requested project is taken as it is.
LEMMA BoundedMatches ==
  ASSUME NEW nodes, nodes \subseteq Place, NEW i, i.clarify \in BOOLEAN,
         Conforms(i), Bounded(nodes, i), i.project = Project, i.question = i.clarify,
         \A k \in DOMAIN i.relations : i.relations[k].target # NoNode,
         [node |-> Candidate, relations |-> Operations(i.relations)] # NoNode
  PROVE  Presentable(Materialized(i).receipt) /\ Matches(nodes, Materialized(i))
<1>1. PICK p, r, d : p = Materialized(i) /\ r = p.receipt /\ d = p.delta
  OBVIOUS
<1>2. /\ r.project = i.project /\ r.location = i.location /\ r.mentioned = i.mentioned
      /\ r.relations = i.relations /\ r.clarify = i.clarify /\ r.question = i.question
      /\ i.clarify => d = NoNode
      /\ ~i.clarify => d = [node |-> Candidate, relations |-> Operations(i.relations)]
  BY <1>1 DEF Materialized
<1>3. Presentable(r)
  <2>1. CASE i.clarify = TRUE
    BY <1>2, <2>1 DEF Presentable
  <2>2. CASE i.clarify = FALSE
    BY <1>2, <2>2 DEF Presentable, Conforms
  <2>3. QED  BY <2>1, <2>2
<1>4. ({r.location} \cup r.mentioned) \subseteq nodes \cup {NoNode}
  BY <1>2 DEF Bounded
<1>5. \A k \in DOMAIN i.relations : i.relations[k].target \in nodes
  BY DEF Bounded
<1>6. Candidate \notin nodes
  BY ProposalAssumption
<1>7. r.clarify <=> d = NoNode
  <2>1. CASE i.clarify = TRUE
    BY <1>2, <2>1
  <2>2. CASE i.clarify = FALSE
    BY <1>2, <2>2
  <2>3. QED  BY <2>1, <2>2
<1>8. d # NoNode =>
        \A k \in DOMAIN d.relations : {d.relations[k].from, d.relations[k].to} \subseteq nodes \cup {Candidate}
  <2> SUFFICES ASSUME d # NoNode, NEW k \in DOMAIN d.relations
               PROVE  {d.relations[k].from, d.relations[k].to} \subseteq nodes \cup {Candidate}
    OBVIOUS
  <2>1. d.relations = Operations(i.relations)
    BY <1>2
  <2>2. k \in DOMAIN i.relations /\ d.relations[k] = Oriented(i.relations[k])
    BY <2>1 DEF Operations
  <2>3. /\ Oriented(i.relations[k]).from \in {Candidate, i.relations[k].target}
        /\ Oriented(i.relations[k]).to \in {Candidate, i.relations[k].target}
    BY DEF Oriented
  <2>4. QED  BY <1>5, <2>2, <2>3
<1>9. Matches(nodes, p)
  BY <1>1, <1>2, <1>4, <1>5, <1>6, <1>7, <1>8 DEF Matches
<1>10. QED  BY <1>1, <1>3, <1>9

\* The statements of the placement boundary agree, whatever the graph and the
\* interpretations (compilePlacementRequest, assertInterpretationIsBounded,
\* assertPlacementResponseMatchesRequest, placementResponseToKernelDelta).
THEOREM BoundariesAlwaysAgree == BoundariesAgree
<1> SUFFICES ASSUME NEW g \in Graph, NEW selected \in Place, Compiles(g, selected)
             PROVE  /\ \A titled \in BOOLEAN :
                         FixtureOutcome(Sent(g), selected, titled)
                           = IF titled THEN "placed" ELSE "unanswered"
                    /\ \A i \in Interpretation :
                         /\ (/\ Conforms(i) /\ Bounded(Sent(g), i)
                             /\ i.project = Project /\ i.question = i.clarify)
                              => Outcome(Sent(g), i) = IF i.clarify THEN "unclear" ELSE "placed"
                         /\ Outcome(Sent(g), i) = "placed" =>
                              \A k \in DOMAIN i.relations :
                                {Operations(i.relations)[k].from, Operations(i.relations)[k].to} \ {Candidate}
                                  \subseteq {n \in Place : g[n] = "shared"}
  BY DEF BoundariesAgree
<1>1. PICK nodes : nodes = Sent(g)
  OBVIOUS
<1>2. nodes \subseteq Place /\ {Project, selected} \subseteq nodes /\ nodes = {n \in Place : g[n] = "shared"}
  BY <1>1 DEF Sent, Compiles
<1>3. FixtureOutcome(nodes, selected, TRUE) = "placed"
  <2>1. PICK i : i = Fixture(selected, TRUE)
    OBVIOUS
  <2>2. /\ i.project = Project /\ i.location = selected /\ i.mentioned = {selected, Project}
        /\ i.title = TRUE /\ i.clarify = FALSE /\ i.question = FALSE
        /\ i.relations = <<[kind |-> "belongs_to", target |-> selected, outgoing |-> TRUE]>>
    BY <2>1 DEF Fixture
  <2>3. \A k \in DOMAIN i.relations : i.relations[k].target = selected
    BY <2>2
  <2>4. selected # NoNode
    BY ProposalAssumption
  <2>5. Conforms(i) /\ Bounded(nodes, i)
    BY <1>2, <2>2, <2>3, <2>4 DEF Conforms, Bounded
  <2>6. [node |-> Candidate, relations |-> Operations(i.relations)] # NoNode
    BY <2>1, ProposalAssumption
  <2>7. Presentable(Materialized(i).receipt) /\ Matches(nodes, Materialized(i))
    <3>1. i.clarify \in BOOLEAN /\ i.project = Project /\ i.question = i.clarify
      BY <2>2
    <3>2. \A k \in DOMAIN i.relations : i.relations[k].target # NoNode
      BY <2>3, <2>4
    <3>3. QED  BY <1>2, <2>5, <2>6, <3>1, <3>2, BoundedMatches
  <2>8. Answerable(nodes, i) /\ Outcome(nodes, i) = "placed"
    BY <2>2, <2>5, <2>7, DeltasConvert DEF Outcome, Answerable
  <2>9. QED  BY <2>1, <2>8 DEF FixtureOutcome
<1>4. ASSUME NEW i \in Interpretation, Conforms(i), Bounded(nodes, i),
             i.project = Project, i.question = i.clarify
      PROVE  Outcome(nodes, i) = IF i.clarify THEN "unclear" ELSE "placed"
  <2>1. /\ i.clarify \in BOOLEAN /\ \A k \in DOMAIN i.relations : i.relations[k].target # NoNode
        /\ [node |-> Candidate, relations |-> Operations(i.relations)] # NoNode
    BY ProposalAssumption
  <2>2. Presentable(Materialized(i).receipt) /\ Matches(nodes, Materialized(i))
    BY <1>2, <1>4, <2>1, BoundedMatches
  <2>3. QED  BY <1>4, <2>2, DeltasConvert DEF Outcome, Answerable
<1>5. ASSUME NEW i \in Interpretation, Outcome(nodes, i) = "placed", NEW k \in DOMAIN i.relations
      PROVE  {Operations(i.relations)[k].from, Operations(i.relations)[k].to} \ {Candidate} \subseteq nodes
  <2>1. Bounded(nodes, i)
    BY <1>5 DEF Outcome, Answerable
  <2>2. i.relations[k].target \in nodes
    BY <2>1, ProposalAssumption DEF Bounded
  <2>3. Operations(i.relations)[k] = Oriented(i.relations[k])
    BY DEF Operations
  <2>4. /\ Oriented(i.relations[k]).from \in {Candidate, i.relations[k].target}
        /\ Oriented(i.relations[k]).to \in {Candidate, i.relations[k].target}
    BY DEF Oriented
  <2>5. QED  BY <2>2, <2>3, <2>4
<1>6. FixtureOutcome(nodes, selected, FALSE) = "unanswered"
  <2>1. ~Fixture(selected, FALSE).title
    BY DEF Fixture
  <2>2. ~Answerable(nodes, Fixture(selected, FALSE))
    BY <2>1 DEF Answerable, Conforms
  <2>3. QED  BY <2>2 DEF FixtureOutcome
<1>7. \A titled \in BOOLEAN :
        FixtureOutcome(nodes, selected, titled) = IF titled THEN "placed" ELSE "unanswered"
  BY <1>3, <1>6
<1>8. QED  BY <1>1, <1>2, <1>4, <1>5, <1>7

\* While a question is out, the statements of its boundary agree on whatever it
\* may be answered with (requestPlacement).
THEOREM ProposalsAlwaysHold == Spec => []ProposalsHold
<1>1. ProposalsHold
  BY BoundariesAlwaysAgree DEF ProposalsHold
<1>2. QED  BY <1>1, PTL

-------------------------------------------------------------------------------
(* The evidence of a candidate                                                 *)

\* Of the observations of a requirement, one is taken, and it is of it.
LEMMA ObservedIsOne ==
  ASSUME NEW x, NEW n \in Nat, DOMAIN x.observations = 1 .. n,
         NEW r, Observed(x, r).result = "passed"
  PROVE  \E k \in 1 .. n : x.observations[k].of = r /\ Observed(x, r) = x.observations[k]
<1> DEFINE mine == {k \in DOMAIN x.observations : x.observations[k].of = r}
<1>1. mine # {}
  BY DEF Observed
<1>2. Observed(x, r) = x.observations[CHOOSE k \in mine : \A j \in mine : j <= k]
  BY <1>1 DEF Observed
<1>3. mine \subseteq 1 .. n /\ \A k \in mine : x.observations[k].of = r
  OBVIOUS
<1> HIDE DEF mine
<1>4. Last(mine) = CHOOSE k \in mine : \A j \in mine : j <= k
  BY <1>1 DEF Last
<1>5. Last(mine) \in mine
  BY <1>1, <1>3, LastIsMember
<1>6. QED  BY <1>2, <1>3, <1>4, <1>5

LEMMA VerifiedIsGrounded == Grounded
<1> SUFFICES ASSUME NEW q \in Question, NEW x \in Response, Class(q, x) = "passed",
                    NEW r \in Required \cap q.requirements
             PROVE  Proof(q, r, Observed(x, r))
  BY DEF Grounded
<1>1. Exact(q, x) /\ r \in Passed(q, x)
  BY DEF Class
<1>2. PICK o : o = Observed(x, r)
  OBVIOUS
<1>3. o.result = "passed"
  BY <1>1, <1>2 DEF Passed
<1>4. PICK n \in Nat : DOMAIN x.observations = 1 .. n
  BY BindingAssumption
<1>5. PICK k \in 1 .. n : x.observations[k].of = r /\ o = x.observations[k]
  BY <1>2, <1>3, <1>4, ObservedIsOne
<1>6. /\ Kind[r] = "artifact" => FitsArtifact(q, o)
      /\ Kind[r] = "test" => FitsTest(o)
      /\ Kind[r] \in {"artifact", "test"}
  BY <1>1, <1>3, <1>4, <1>5 DEF Exact
<1>7. CASE Kind[r] = "artifact"
  BY <1>2, <1>3, <1>6, <1>7 DEF FitsArtifact, Proof
<1>8. CASE Kind[r] = "test"
  BY <1>2, <1>3, <1>5, <1>6, <1>8 DEF FitsTest, Proof
<1>9. QED  BY <1>6, <1>7, <1>8

\* A registered contract has one test and one artifact, and they are found.
LEMMA ContractOf ==
  ASSUME NEW q, Contract(q)
  PROVE  \E t, a \in Required :
           /\ q.requirements = {t, a} /\ q.expected = {Artifact} /\ t # a
           /\ Kind[t] = "test" /\ Command[t] = Focused /\ Kind[a] = "artifact"
           /\ (CHOOSE y \in q.requirements : Kind[y] = "test") = t
           /\ (CHOOSE y \in q.requirements : Kind[y] = "artifact") = a
<1>1. PICK t, a \in Required :
        /\ q.requirements = {t, a} /\ Kind[t] = "test" /\ Command[t] = Focused /\ Kind[a] = "artifact"
  BY DEF Contract
<1>2. \A y \in q.requirements : (Kind[y] = "test" => y = t) /\ (Kind[y] = "artifact" => y = a)
  BY <1>1
<1>3. q.expected = {Artifact}
  BY DEF Contract
<1>4. QED  BY <1>1, <1>2, <1>3

\* Two observations that fit a contract are an exact answer, and the contract has
\* passed only if the test has.
LEMMA PairIsExact ==
  ASSUME NEW q, NEW x, NEW t \in Required, NEW a \in Required, NEW o, NEW p,
         q.requirements = {t, a}, t # a, Kind[t] = "test", Kind[a] = "artifact",
         x.ok, x.bound, DOMAIN x.observations = 1 .. 2,
         x.observations[1] = o, x.observations[2] = p,
         o.of = a, p.of = t, FitsArtifact(q, o), FitsTest(p)
  PROVE  Class(q, x) # "incoherent" /\ (Class(q, x) = "passed" => p.result = "passed")
<1>1. DOMAIN x.observations = 1 .. 2 /\ x.observations[1] = o /\ x.observations[2] = p
  OBVIOUS
<1>2. Exact(q, x)
  <2>1. \A k \in 1 .. 2 :
          /\ x.observations[k].of \in q.requirements
          /\ Kind[x.observations[k].of] = "artifact" => FitsArtifact(q, x.observations[k])
          /\ Kind[x.observations[k].of] = "test" => FitsTest(x.observations[k])
          /\ Kind[x.observations[k].of] \in {"artifact", "test"}
    <3>1. \A k \in 1 .. 2 : k = 1 \/ k = 2
      OBVIOUS
    <3>2. QED  BY <1>1, <3>1
  <2>2. 1 \in 1 .. 2 /\ 2 \in 1 .. 2
    OBVIOUS
  <2>3. \A r \in q.requirements : \E k \in 1 .. 2 : x.observations[k].of = r
    BY <1>1, <2>2
  <2>4. QED  BY <1>1, <2>1, <2>3 DEF Exact
<1>3. ASSUME Class(q, x) = "passed" PROVE p.result = "passed"
  <2>1. t \in Passed(q, x)
    BY <1>3 DEF Class
  <2>2. Observed(x, t).result = "passed"
    BY <2>1 DEF Passed
  <2>3. PICK k \in 1 .. 2 : x.observations[k].of = t /\ Observed(x, t) = x.observations[k]
    <3>1. PICK n \in Nat : n = 2
      OBVIOUS
    <3>2. DOMAIN x.observations = 1 .. n
      BY <1>1, <3>1
    <3>3. \E k \in 1 .. n : x.observations[k].of = t /\ Observed(x, t) = x.observations[k]
      BY <2>2, <3>2, ObservedIsOne
    <3>4. QED  BY <3>1, <3>3
  <2>4. k # 1
    BY <1>1, <2>3
  <2>5. k = 2
    BY <2>4
  <2>6. QED  BY <1>1, <2>2, <2>3, <2>5
<1>4. QED  BY <1>2, <1>3 DEF Class

LEMMA LiveVerdictsAreEarned == LiveIsEarned
<1> SUFFICES ASSUME NEW c \in Result, NEW h \in Host, CompilesLive(c),
                    NEW q, q = LiveQuestion(c), NEW x, x = Answered(q, h), x # NoEvidence
             PROVE  /\ Class(q, x) # "incoherent"
                    /\ Class(q, x) = "passed" => Deserved(c.receipt.commit)
  BY DEF LiveIsEarned
<1>1. CASE x = Declined
  <2>1. x.ok = FALSE
    BY <1>1 DEF Declined
  <2>2. QED  BY <2>1 DEF Class
<1>2. CASE x # Declined
  <2>1. x = VerifyLive(q, h) /\ Verifiable(q, h)
    BY <1>2 DEF Answered, VerifyLive
  <2>2. PICK r : r = q.receipt
    OBVIOUS
  <2>3. /\ r = c.receipt /\ q.sealed = Entries(r) /\ q.mode = "live" /\ r # NoEvidence
    BY <2>2 DEF LiveQuestion, CompilesLive
  <2>4. /\ Contract(q) /\ SealedAs(r, h) /\ Within(r) /\ Observable(r)
    BY <2>1, <2>2 DEF Verifiable
  <2>5. PICK t, a \in Required :
          /\ q.requirements = {t, a} /\ q.expected = {Artifact} /\ t # a
          /\ Kind[t] = "test" /\ Command[t] = Focused /\ Kind[a] = "artifact"
          /\ (CHOOSE y \in q.requirements : Kind[y] = "test") = t
          /\ (CHOOSE y \in q.requirements : Kind[y] = "artifact") = a
    BY <2>4, ContractOf
  <2>6. PICK file, result :
          /\ file = [path |-> Artifact, blob |-> r.commit.tree[Artifact]]
          /\ result = IF Reports(Inputs(r), h) THEN "passed" ELSE "failed"
    OBVIOUS
  <2>7. PICK o, p :
          /\ o = [of |-> a, result |-> "passed", execution |-> NoEvidence, artifact |-> file]
          /\ p = [of |-> t, result |-> result, artifact |-> NoEvidence, execution |-> Focused]
    OBVIOUS
  <2>8. x = [ok |-> TRUE, bound |-> TRUE, observations |-> <<o, p>>]
    BY <2>1, <2>2, <2>5, <2>6, <2>7 DEF VerifyLive
  <2>9. file \in q.sealed /\ file # NoEvidence /\ file.path \in q.expected
    <3>1. file = [path |-> Artifact, blob |-> r.manifest[Artifact]] /\ Artifact \in DOMAIN r.manifest
          /\ r.manifest[Artifact] # Absent
      BY <2>4, <2>6 DEF Observable
    <3>2. file \in Entries(r)
      BY <3>1 DEF Entries
    <3>3. NoEvidence \notin Entries(r)
      BY <2>3, CandidateAssumption
    <3>4. QED  BY <2>3, <2>5, <3>1, <3>2, <3>3
  <2>10. FitsArtifact(q, o)
    BY <2>7, <2>9 DEF FitsArtifact
  <2>11. FitsTest(p)
    BY <2>5, <2>7, CandidateAssumption DEF FitsTest
  <2>12. Class(q, x) # "incoherent" /\ (Class(q, x) = "passed" => p.result = "passed")
    <3>1. /\ x.ok /\ x.bound /\ DOMAIN x.observations = 1 .. 2
          /\ x.observations[1] = o /\ x.observations[2] = p /\ o.of = a /\ p.of = t
      BY <2>7, <2>8
    <3>2. q.requirements = {t, a} /\ t # a /\ Kind[t] = "test" /\ Kind[a] = "artifact"
      BY <2>5
    <3>3. QED  BY <2>10, <2>11, <3>1, <3>2, PairIsExact
  <2>13. ASSUME p.result = "passed" PROVE Deserved(r.commit)
    <3>1. Reports(Inputs(r), h)
      BY <2>6, <2>7, <2>13
    <3>2. /\ r.commit.parents = {r.base} /\ r.commit.tree = r.tree
          /\ r.manifest = Changes(r.base.tree, r.tree)
      BY <2>4 DEF SealedAs
    <3>3. Cardinality({r.base}) = 1
      BY FS_Singleton
    <3>4. Cardinality(r.commit.parents) = 1
      BY <3>2, <3>3
    <3>5. DOMAIN Changes(r.base.tree, r.commit.tree) \subseteq Registered
      BY <2>4, <3>2 DEF Within
    <3>6. \A base \in r.commit.parents : DOMAIN Changes(base.tree, r.commit.tree) \subseteq Registered
      BY <3>2, <3>5
    <3>7. [path \in Registered |-> r.commit.tree[path]] \in Sound
      BY <3>1 DEF Reports, Inputs
    <3>8. QED  BY <3>4, <3>6, <3>7 DEF Deserved
  <2>14. QED  BY <2>3, <2>12, <2>13
<1>3. QED  BY <1>1, <1>2

LEMMA ReplayVerdictsAreEarned == ReplayIsEarned
<1> SUFFICES ASSUME NEW c \in Result, NEW b \in Bundle, CompilesReplay(c),
                    NEW q, q = ReplayQuestion(c), NEW x, x = VerifyReplay(q, b)
             PROVE  /\ Class(q, x) # "incoherent"
                    /\ Class(q, x) = "passed" => Complete(b) /\ b.vectors
  BY DEF ReplayIsEarned
<1>1. CASE x = Declined
  <2>1. x.ok = FALSE
    BY <1>1 DEF Declined
  <2>2. QED  BY <2>1 DEF Class
<1>2. CASE x # Declined
  <2>1. Contract(q) /\ q.mode = "replay"
    BY <1>2 DEF VerifyReplay, Applies, ReplayQuestion
  <2>2. PICK t, a \in Required :
          /\ q.requirements = {t, a} /\ q.expected = {Artifact} /\ t # a
          /\ Kind[t] = "test" /\ Command[t] = Focused /\ Kind[a] = "artifact"
          /\ (CHOOSE y \in q.requirements : Kind[y] = "test") = t
          /\ (CHOOSE y \in q.requirements : Kind[y] = "artifact") = a
    BY <2>1, ContractOf
  <2>3. PICK file, seen0, result :
          /\ file = IF Complete(b) THEN [path |-> Artifact, blob |-> "exact"] ELSE NoEvidence
          /\ seen0 = IF Complete(b) THEN "passed" ELSE IF Legible(b) THEN "failed" ELSE "missing"
          /\ result = IF Complete(b) /\ b.vectors THEN "passed" ELSE IF Complete(b) THEN "failed" ELSE "missing"
    OBVIOUS
  <2>4. PICK o, p :
          /\ o = [of |-> a, execution |-> NoEvidence, result |-> seen0, artifact |-> file]
          /\ p = [of |-> t, artifact |-> NoEvidence, result |-> result,
                  execution |-> IF Complete(b) THEN Focused ELSE NoEvidence]
    OBVIOUS
  <2>5. x = [ok |-> TRUE, bound |-> TRUE, observations |-> <<o, p>>]
    BY <1>2, <2>2, <2>3, <2>4 DEF VerifyReplay
  <2>6. FitsArtifact(q, o)
    <3>1. CASE Complete(b)
      <4>1. file = [path |-> Artifact, blob |-> "exact"] /\ file # NoEvidence
        BY <2>3, <3>1, CandidateAssumption
      <4>2. o.execution = NoEvidence /\ o.artifact = file /\ file.path = Artifact
        BY <2>4, <4>1
      <4>3. QED  BY <2>1, <2>2, <4>1, <4>2 DEF FitsArtifact
    <3>2. CASE ~Complete(b)
      BY <2>3, <2>4, <3>2 DEF FitsArtifact
    <3>3. QED  BY <3>1, <3>2
  <2>7. FitsTest(p)
    <3>1. CASE Complete(b)
      BY <2>2, <2>4, <3>1, CandidateAssumption DEF FitsTest
    <3>2. CASE ~Complete(b)
      BY <2>3, <2>4, <3>2 DEF FitsTest
    <3>3. QED  BY <3>1, <3>2
  <2>8. Class(q, x) # "incoherent" /\ (Class(q, x) = "passed" => p.result = "passed")
    <3>1. /\ x.ok /\ x.bound /\ DOMAIN x.observations = 1 .. 2
          /\ x.observations[1] = o /\ x.observations[2] = p /\ o.of = a /\ p.of = t
      BY <2>4, <2>5
    <3>2. q.requirements = {t, a} /\ t # a /\ Kind[t] = "test" /\ Kind[a] = "artifact"
      BY <2>2
    <3>3. QED  BY <2>6, <2>7, <3>1, <3>2, PairIsExact
  <2>9. p.result = "passed" => Complete(b) /\ b.vectors
    BY <2>3, <2>4
  <2>10. QED  BY <2>8, <2>9
<1>3. QED  BY <1>1, <1>2

LEMMA SealsAreAlwaysFound == SealsAreFound
<1> SUFFICES ASSUME NEW w \in Workspace, NEW h \in Host, Seals(w), h.ref = SealedCommit(w),
                    {w.base, SealedCommit(w)} \subseteq h.objects
             PROVE  SealedAs(Receipt(w), h) /\ (w.key \in h.keys => Authentic(Receipt(w), h))
  BY DEF SealsAreFound
<1>1. PICK r, commit : r = Receipt(w) /\ commit = SealedCommit(w)
  OBVIOUS
<1>2. /\ r.base = w.base /\ r.commit = commit /\ r.tree = w.files /\ r.key = w.key /\ r.intact
      /\ r.manifest = Changes(w.base.tree, w.files)
  BY <1>1 DEF Receipt
<1>3. commit.tree = w.files /\ commit.parents = {w.base}
  BY <1>1 DEF SealedCommit
<1>4. QED  BY <1>1, <1>2, <1>3 DEF SealedAs, Authentic

\* From the sealed workspace to the recorded validation, verified means proved,
\* whatever a verifier answers and whatever it meets (verifyLiveEvidence,
\* verifyReplayEvidence, the compilers of their requests and of the validation).
THEOREM VerdictsAreAlwaysEarned == VerdictsAreEarned
BY VerifiedIsGrounded, LiveVerdictsAreEarned, ReplayVerdictsAreEarned, SealsAreAlwaysFound
   DEF VerdictsAreEarned

\* What is about to be recorded of a verifier's answer was earned
\* (validateActiveEvidence).
THEOREM VerifiedIsAlwaysEarned == Spec => []VerifiedIsEarned
<1>1. VerifiedIsEarned
  BY VerdictsAreAlwaysEarned DEF VerifiedIsEarned
<1>2. QED  BY <1>1, PTL
===============================================================================
