--------------------------- MODULE SessionLedgerProofs ---------------------------
(* Facts about ledgers that the proofs of both parts of a session need: what a *)
(* log has after an event more, what a copy of it has, and where its last      *)
(* event of a kind is.                                                         *)
EXTENDS SessionLedger, TLAPS, FiniteSetTheorems, SequenceTheorems, WellFoundedInduction

\* The events of a type, by what they are instead of where they are.
LEMMA EventsOfType ==
  ASSUME NEW log, NEW type
  PROVE  {log[i] : i \in OfType(log, type)} = {x \in Elements(log) : x.type = type}
BY DEF OfType, Elements

LEMMA OwnersAreSessions ==
  ASSUME NEW t \in Task
  PROVE  Owner[t] \in Session
BY SessionAssumption

-------------------------------------------------------------------------------
(* Logs that grow                                                              *)

LEMMA LogDomain ==
  ASSUME NEW log, log \in Seq(Elements(log))
  PROVE  Len(log) \in Nat /\ DOMAIN log = 1 .. Len(log)
BY LenProperties

\* A log with an event more has its events, where they were, and that one.
LEMMA AppendedLog ==
  ASSUME NEW log, log \in Seq(Elements(log)), NEW e
  PROVE  /\ Append(log, e) \in Seq(Elements(Append(log, e)))
         /\ Elements(Append(log, e)) = Elements(log) \cup {e}
         /\ Len(log) \in Nat /\ Len(Append(log, e)) = Len(log) + 1
         /\ DOMAIN Append(log, e) = 1 .. Len(log) + 1
         /\ \A i \in 1 .. Len(log) : Append(log, e)[i] = log[i]
         /\ Append(log, e)[Len(log) + 1] = e
<1> DEFINE S == Elements(log) \cup {e}
<1>1. log \in Seq(S)
  BY SeqMonotonic
<1>2. e \in S
  OBVIOUS
<1>3. /\ Append(log, e) \in Seq(S)
      /\ Len(Append(log, e)) = Len(log) + 1
      /\ \A i \in 1 .. Len(log) : Append(log, e)[i] = log[i]
      /\ Append(log, e)[Len(log) + 1] = e
  BY <1>1, <1>2, AppendProperties
<1>4. Len(log) \in Nat /\ DOMAIN log = 1 .. Len(log)
  BY <1>1, LenProperties
<1>5. DOMAIN Append(log, e) = 1 .. Len(log) + 1
  BY <1>3, LenProperties
<1> DEFINE new == Append(log, e)
<1>6. Elements(new) = S
  <2> HIDE DEF new
  <2> QED  BY <1>3, <1>4, <1>5 DEF Elements, new
<1>7. QED  BY <1>3, <1>4, <1>5, <1>6

LEMMA ExtendedLog ==
  ASSUME ledger \in Seq(Elements(ledger)), NEW e
  PROVE  /\ Extended(e) \in Seq(Elements(Extended(e)))
         /\ Elements(Extended(e)) = Elements(ledger) \cup {e}
         /\ Len(ledger) \in Nat /\ Len(Extended(e)) \in Nat
         /\ Len(Extended(e)) >= Len(ledger)
<1>1. CASE e \in Elements(ledger)
  <2>1. Extended(e) = ledger /\ Elements(ledger) = Elements(ledger) \cup {e}
    BY <1>1 DEF Extended
  <2>2. Len(ledger) \in Nat
    BY LenProperties
  <2>3. QED  BY <2>1, <2>2
<1>2. CASE e \notin Elements(ledger)
  <2>1. Extended(e) = Append(ledger, e)
    BY <1>2 DEF Extended
  <2>2. QED  BY <2>1, AppendedLog
<1>3. QED  BY <1>1, <1>2

\* The first events of a log, and all of them.
LEMMA PrefixLog ==
  ASSUME NEW log, log \in Seq(Elements(log)), NEW n \in 0 .. Len(log)
  PROVE  /\ SubSeq(log, 1, n) \in Seq(Elements(SubSeq(log, 1, n)))
         /\ Len(SubSeq(log, 1, n)) = n /\ DOMAIN SubSeq(log, 1, n) = 1 .. n
         /\ \A i \in 1 .. n : SubSeq(log, 1, n)[i] = log[i]
         /\ Elements(SubSeq(log, 1, n)) \subseteq Elements(log)
         /\ n = Len(log) => SubSeq(log, 1, n) = log
<1>1. Len(log) \in Nat /\ DOMAIN log = 1 .. Len(log) /\ n \in Nat /\ n <= Len(log)
  BY LenProperties
<1> DEFINE S == {log[i] : i \in 1 .. n}
<1> DEFINE new == SubSeq(log, 1, n)
<1>2. /\ new \in Seq(S) /\ Len(new) = n
      /\ \A i \in 1 .. n : new[i] = log[i]
  BY <1>1, SubSeqProperties
<1>3. DOMAIN new = 1 .. n
  BY <1>2, LenProperties
<1>4. n = Len(log) => new = log
  BY SubSeqFull
<1> HIDE DEF new
<1>5. Elements(new) = S
  BY <1>2, <1>3 DEF Elements
<1>6. S \subseteq Elements(log)
  BY <1>1 DEF Elements
<1>7. QED  BY <1>2, <1>3, <1>4, <1>5, <1>6 DEF new

\* What two logs have the same of, they have the same first events of.
LEMMA SamePrefix ==
  ASSUME NEW log, log \in Seq(Elements(log)), NEW other, other \in Seq(Elements(other)),
         NEW n \in Nat, n <= Len(log), n <= Len(other), \A i \in 1 .. n : other[i] = log[i]
  PROVE  SubSeq(other, 1, n) = SubSeq(log, 1, n)
<1>1. Len(log) \in Nat /\ Len(other) \in Nat
  BY LenProperties
<1> DEFINE p == SubSeq(log, 1, n)
<1> DEFINE q == SubSeq(other, 1, n)
<1>2. n \in 0 .. Len(log) /\ n \in 0 .. Len(other)
  BY <1>1
<1>3. /\ p \in Seq(Elements(p)) /\ Len(p) = n /\ \A i \in 1 .. n : p[i] = log[i]
      /\ q \in Seq(Elements(q)) /\ Len(q) = n /\ \A i \in 1 .. n : q[i] = other[i]
      /\ DOMAIN p = 1 .. n /\ DOMAIN q = 1 .. n
  BY <1>2, PrefixLog
<1> HIDE DEF p, q
<1>4. Elements(p) = Elements(q)
  BY <1>3 DEF Elements
<1>5. p = q
  BY <1>3, <1>4, SeqEqual
<1>6. QED  BY <1>5 DEF p, q

LEMMA AppendedTypes ==
  ASSUME NEW log, log \in Seq(Elements(log)), NEW e, NEW type
  PROVE  /\ e.type = type => OfType(Append(log, e), type) = OfType(log, type) \cup {Len(log) + 1}
         /\ e.type # type => OfType(Append(log, e), type) = OfType(log, type)
<1> DEFINE new == Append(log, e)
<1>1. /\ Len(log) \in Nat /\ DOMAIN log = 1 .. Len(log) /\ DOMAIN new = 1 .. Len(log) + 1
      /\ \A i \in 1 .. Len(log) : new[i] = log[i]
      /\ new[Len(log) + 1] = e
  BY AppendedLog, LenProperties
<1> HIDE DEF new
<1>2. QED  BY <1>1 DEF OfType, new

LEMMA PrefixTypes ==
  ASSUME NEW log, log \in Seq(Elements(log)), NEW n \in 0 .. Len(log), NEW type
  PROVE  OfType(SubSeq(log, 1, n), type) = {i \in OfType(log, type) : i <= n}
<1> DEFINE new == SubSeq(log, 1, n)
<1>1. /\ Len(log) \in Nat /\ DOMAIN log = 1 .. Len(log) /\ DOMAIN new = 1 .. n
      /\ \A i \in 1 .. n : new[i] = log[i]
  BY PrefixLog, LenProperties
<1> HIDE DEF new
<1>2. QED  BY <1>1 DEF OfType, new

-------------------------------------------------------------------------------
(* The last of some places                                                     *)

LEMMA LastIsGreatest ==
  ASSUME NEW n \in Nat, NEW S, S \subseteq 1 .. n, S # {}
  PROVE  Last(S) \in S /\ \A j \in S : j <= Last(S)
<1> DEFINE Below == {n - i : i \in S}
<1>1. Below \subseteq Nat /\ Below # {}
  <2>1. \A i \in S : i \in 1 .. n
    OBVIOUS
  <2>2. \A i \in S : n - i \in Nat
    BY <2>1
  <2>3. QED  BY <2>2
<1>2. \E m \in Below : \A k \in Below : ~ (<<k, m>> \in OpToRel(<, Nat))
  BY <1>1, NatLessThanWellFounded, WFMin
<1>3. PICK m \in Below : \A k \in Below : ~ (<<k, m>> \in OpToRel(<, Nat))
  BY <1>2
<1>4. \A k \in Below : ~ (k < m)
  BY <1>1, <1>3 DEF OpToRel
<1>5. PICK i \in S : m = n - i
  OBVIOUS
<1>6. \A j \in S : j <= i
  <2>1. ASSUME NEW j \in S  PROVE  j <= i
    <3>1. n - j \in Below
      OBVIOUS
    <3>2. QED  BY <1>4, <1>5, <3>1
  <2>2. QED  BY <2>1
<1>7. QED  BY <1>5, <1>6 DEF Last

LEMMA LastIsMember ==
  ASSUME NEW n \in Nat, NEW S, S \subseteq 1 .. n, S # {}
  PROVE  Last(S) \in S
BY LastIsGreatest

\* Whatever the set, its last place is no earlier than any of its places.
LEMMA LastBounds ==
  ASSUME NEW n \in Nat, NEW S, S \subseteq 1 .. n
  PROVE  /\ Last(S) \in 0 .. n /\ \A j \in S : j <= Last(S)
         /\ Last(S) # 0 => Last(S) \in S
<1>1. CASE S = {}
  BY <1>1 DEF Last
<1>2. CASE S # {}
  <2>1. Last(S) \in S /\ \A j \in S : j <= Last(S)
    BY <1>2, LastIsGreatest
  <2>2. Last(S) \in 1 .. n
    BY <2>1
  <2>3. QED  BY <2>1, <2>2
<1>3. QED  BY <1>1, <1>2
===============================================================================
