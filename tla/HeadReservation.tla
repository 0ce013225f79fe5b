---------------------------- MODULE HeadReservation ----------------------------
(***************************************************************************)
(* What the kernel promises the artifact-promotion boundary about the      *)
(* semantic head: a head that moves one revision at a time, and claims on  *)
(* it.  A claim is offered on the head of the moment, at most one claim    *)
(* holds the head at a time, a held head does not move, and a claim that   *)
(* is over stays over.  An unresolved claim no longer holds the head, and  *)
(* can still be concluded only if nobody has moved it since.               *)
(***************************************************************************)
EXTENDS Naturals

CONSTANT Claimant

VARIABLES
  head,    \* revision number
  claim    \* claim[p] = [stage, at]: how far p's claim is, and on what revision

vars == <<head, claim>>

Stage == {"none", "offered", "holding", "unresolved", "done", "void"}

Holds(p) == claim[p].stage = "holding"

Init ==
  /\ head = 0
  /\ claim = [p \in Claimant |-> [stage |-> "none", at |-> 0]]

\* The head moves only while nobody holds it.
Advance ==
  /\ \A p \in Claimant : ~Holds(p)
  /\ head' = head + 1
  /\ UNCHANGED claim

\* One claim at a time is alive on a revision; a void one leaves room.
Offer(p) ==
  /\ claim[p].stage = "none"
  /\ \A q \in Claimant : claim[q].stage # "none" /\ claim[q].at = head => claim[q].stage = "void"
  /\ claim' = [claim EXCEPT ![p] = [stage |-> "offered", at |-> head]]
  /\ UNCHANGED head

Hold(p) ==
  /\ claim[p].stage = "offered" /\ claim[p].at = head
  /\ \A q \in Claimant : ~Holds(q)
  /\ claim' = [claim EXCEPT ![p].stage = "holding"]
  /\ UNCHANGED head

\* The holder, or a claim left unresolved on a head that has not moved, is
\* done, void, or (still) unresolved.
Conclude(p, stage) ==
  /\ claim[p].stage \in {"holding", "unresolved"} /\ claim[p].at = head
  /\ stage \in {"done", "void", "unresolved"}
  /\ claim' = [claim EXCEPT ![p].stage = stage]
  /\ UNCHANGED head

Next ==
  \/ Advance
  \/ \E p \in Claimant : Offer(p) \/ Hold(p) \/ \E stage \in Stage : Conclude(p, stage)

Spec == Init /\ [][Next]_vars
===============================================================================
