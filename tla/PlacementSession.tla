---------------------------- MODULE PlacementSession ----------------------------
(* A captured source on its way to an adopted placement, in several tabs over  *)
(* one ledger: capture, the question to the placement manager, its answer or   *)
(* failure, retry and semantic commit; with what the page shows of it.         *)
EXTENDS SessionLedger, PlacementProposal

CONSTANTS MaxSources, MaxRequests

ASSUME PlacementAssumption == MaxSources \in Nat /\ MaxRequests \in Nat

VARIABLES
  retry,                    \* the source a tab may place again, or Null
  persistence,              \* "saved", "conflict" or "unavailable", while it is idle
  held                      \* what a task waits with, or Null

page == <<operation, error, retry, persistence>>

\* What a manager's answer comes to, the gateway's errors included: "refused" is
\* one that is not to be retried.  (A fixture manager's comes to one of these, or
\* to ReceiveNothing.)
Answer == {GatewayOutcome(x, Sent(g), i) : x \in Trouble, g \in Graph, i \in Interpretation}

\* An event is one batch: a new attempt is captured together with its source,
\* an answer has its delta or its failure with it.  A failure to be answered has
\* the request it is about as its identity.

-------------------------------------------------------------------------------
(* What a ledger says *)

HeadOf(log) == Cardinality(OfType(log, "accepted") \cup OfType(log, "integrated"))

Captures(log) == {i \in DOMAIN log : log[i].type = "source" \/ (log[i].type = "attempt" /\ log[i].new)}
SourcesOf(log) == {log[i].source : i \in Captures(log)}
RequestsOf(log) == {log[i].request : i \in OfType(log, "attempt")}

\* Whether the delta of a request was accepted, and the head it was placed on.
Adopted(log, q) == \E i \in OfType(log, "accepted") : log[i].request = q
BaseOf(log, q) == log[CHOOSE i \in OfType(log, "attempt") : log[i].request = q].base

\* Mutant: an adoption is not compared with the head.
Stale_Never(log, q) == FALSE

Stale(log, q) == BaseOf(log, q) # HeadOf(log)

Fails(e) == e.type = "failure" \/ (e.type = "answer" /\ e.outcome \in {"failed", "refused"})
Retriable(e) == e.type = "failure" \/ e.outcome = "failed"

\* activityFromLedger, of what concerns a placement: the last event that does.
Placing(log) == UNION {OfType(log, type) : type \in {"source", "attempt", "answer", "failure"}}

ActiveDelta(log) ==
  LET i == Last(Placing(log))
  IN IF i # 0 /\ log[i].type = "answer" /\ log[i].outcome = "placed" THEN log[i].request ELSE Null

RetryOf(log) ==
  LET i == Last(Placing(log))
  IN IF i = 0 THEN Null
     ELSE IF log[i].type \in {"source", "attempt"} \/ (Fails(log[i]) /\ Retriable(log[i]))
     THEN log[i].source ELSE Null

PlacementError(log) ==
  LET i == Last(Placing(log))
  IN IF i = 0 \/ ~Fails(log[i]) THEN "none" ELSE IF Retriable(log[i]) THEN "retry" ELSE "refused"

-------------------------------------------------------------------------------
(* Ends of a task's steps *)

\* What a tab shows: the state of its operation, its error, the retry it has and
\* how its ledger is kept.
View(t, state, code, again, kept) ==
  /\ Show(t, state, code)
  /\ retry' = [retry EXCEPT ![Owner[t]] = again]
  /\ persistence' = [persistence EXCEPT ![Owner[t]] = kept]

Hold(t, place, x) == Go(t, place) /\ held' = [held EXCEPT ![t] = x]
Rest(t) == Hold(t, "idle", Null)

\* surfaceWriteFailure: a conflict installs the durable ledger, any other error
\* leaves what is installed; a task that was to be saved is over.
Conflict(t, code, again) ==
  /\ ~Current(Owner[t]) /\ Reinstall(t)
  /\ View(t, "idle", code, again, "conflict") /\ Rest(t) /\ UNCHANGED faults

Unsaved(t, code, again) ==
  /\ Fault /\ UNCHANGED <<ledger, seen>>
  /\ View(t, "idle", code, again, "unavailable") /\ Rest(t)

\* append, when the installed ledger is still the stored one.
Saved(t, e) == Current(Owner[t]) /\ Write(t, e) /\ UNCHANGED faults

-------------------------------------------------------------------------------
(* captureAndPlace and retryPlacement *)

Attempt(s, source, new) ==
  [type |-> "attempt", source |-> source, new |-> new, base |-> HeadOf(Visible(s)),
   request |-> Cardinality(RequestsOf(Visible(s))) + 1]

\* The source and the exact request are saved before the manager is asked.
Capture(t) ==
  LET s == Owner[t]
      n == Cardinality(SourcesOf(Visible(s))) + 1
      e == Attempt(s, n, TRUE)
  IN /\ Ready(t) /\ n <= MaxSources /\ e.request <= MaxRequests
     /\ \/ Saved(t, e) /\ View(t, "placing", "none", n, "saved") /\ Hold(t, "asking", e)
        \/ Conflict(t, "retry", Null) \/ Unsaved(t, "retry", Null)

\* persistUnplacedSource: no request could be compiled for it.
CaptureUnplaced(t) ==
  LET s == Owner[t]
      n == Cardinality(SourcesOf(Visible(s))) + 1
  IN /\ Ready(t) /\ n <= MaxSources
     /\ \/ Saved(t, [type |-> "source", source |-> n])
             /\ View(t, "idle", "retry", n, "saved") /\ Rest(t)
        \/ Conflict(t, "retry", Null) \/ Unsaved(t, "retry", Null)

-------------------------------------------------------------------------------
(* What the page shows of a placement: buildPlacementSurface on the installed  *)
(* ledger, and withSessionPlacementTruth over it                               *)

\* The attempt that counts is the last, unless a source came after it.
ShownAttempt(log) ==
  LET a == Last(OfType(log, "attempt"))
  IN IF a > Last(OfType(log, "source")) THEN a ELSE 0

\* Its answer; without an attempt, an answer that came after the source.
ShownAnswer(log) ==
  LET a == ShownAttempt(log)
      last == Last(OfType(log, "answer"))
  IN IF a # 0 THEN Last({i \in OfType(log, "answer") : i > a /\ log[i].request = log[a].request})
     ELSE IF last > Last(OfType(log, "source")) THEN last ELSE 0

ShownSource(log) ==
  IF ShownAttempt(log) # 0 THEN log[ShownAttempt(log)].source
  ELSE IF ShownAnswer(log) # 0 THEN log[ShownAnswer(log)].source
  ELSE IF Captures(log) # {} THEN log[Last(Captures(log))].source ELSE Null

\* A failure of that source, after all of these; an answer has its own after it.
ShownFailure(log) ==
  LET from == Last({Last(Captures(log)), ShownAttempt(log), ShownAnswer(log)})
  IN Last({i \in DOMAIN log : /\ i >= from /\ Fails(log[i])
                              /\ i = from => i = ShownAnswer(log)
                              /\ log[i].source = ShownSource(log)})

Surface(state, retryable) == [state |-> state, retryable |-> retryable]

AnsweredSurface(log, x) ==
  IF log[x].outcome # "placed" THEN Surface("needs_clarification", FALSE)
  ELSE IF Adopted(log, log[x].request) THEN Surface("adopted", FALSE)
  ELSE IF Stale(log, log[x].request) THEN Surface("stale", FALSE)
  ELSE Surface("reviewable", FALSE)

LedgerSurface(s) ==
  LET log == Visible(s)
      f == ShownFailure(log)
      x == ShownAnswer(log)
  IN IF operation[s] = "placing" THEN Surface("loading", FALSE)
     ELSE IF f # 0 THEN Surface("failed", Retriable(log[f]))
     ELSE IF x = 0 THEN IF ShownAttempt(log) # 0 THEN Surface("failed", TRUE) ELSE Surface("idle", FALSE)
     ELSE AnsweredSurface(log, x)

Idle(s) == seen[s] # 0 /\ operation[s] = "idle" /\ \A t \in Mine(s) \cap Foreground : pc[t] = "idle"

PlacementSurface(s) ==
  LET p == LedgerSurface(s)
  IN IF error[s] = "none"
     THEN IF retry[s] # Null /\ p.state \in {"idle", "failed"} THEN Surface("failed", TRUE) ELSE p
     ELSE IF p.state = "adopted" THEN p
     ELSE IF error[s] = "stale_delta" THEN Surface("stale", FALSE)
     ELSE IF error[s] = "commit" THEN p
     ELSE Surface("failed", retry[s] # Null /\ error[s] # "refused")

\* A commit that was not saved is offered again on the reloaded ledger.
CanAccept(s) ==
  /\ Idle(s) /\ PlacementSurface(s).state = "reviewable"
  /\ IF error[s] = "commit" THEN TRUE ELSE persistence[s] = "saved"

CanRetry(s) == Idle(s) /\ PlacementSurface(s).retryable

-------------------------------------------------------------------------------
\* retryPlacement, where the page offers it; it saves a new exact request first.
Retry(t) ==
  LET s == Owner[t]
      e == Attempt(s, retry[s], FALSE)
  IN /\ Ready(t) /\ CanRetry(s) /\ retry[s] \in SourcesOf(Visible(s)) /\ e.request <= MaxRequests
     /\ \/ Saved(t, e) /\ View(t, "placing", "none", e.source, "saved") /\ Hold(t, "asking", e)
        \/ Conflict(t, "retry", retry[s]) \/ Unsaved(t, "retry", retry[s])

\* No request can be compiled for the source any more.
RetryInvalid(t) ==
  /\ Ready(t) /\ CanRetry(Owner[t]) /\ retry[Owner[t]] \in SourcesOf(Visible(Owner[t]))
  /\ View(t, "idle", "refused", Null, "saved") /\ Rest(t)
  /\ UNCHANGED <<ledger, seen, faults>>

\* requestPlacement: the answer and what follows from it are one batch on the
\* ledger that is installed by then; if that is not the stored one, it is lost.
Receive(t, outcome) ==
  LET e == [type |-> "answer", request |-> held[t].request, source |-> held[t].source, outcome |-> outcome]
      code == IF Fails(e) THEN IF Retriable(e) THEN "retry" ELSE "refused" ELSE "none"
  IN /\ pc[t] = "asking"
     /\ \/ Saved(t, e) /\ View(t, "idle", code, IF code = "retry" THEN e.source ELSE Null, "saved") /\ Rest(t)
        \/ Conflict(t, "retry", e.source) \/ Unsaved(t, "retry", e.source)

\* persistNetworkFailure: the gateway gave no answer, or threw.
ReceiveNothing(t) ==
  LET e == [type |-> "failure", request |-> held[t].request, source |-> held[t].source]
  IN /\ pc[t] = "asking"
     /\ \/ Saved(t, e) /\ View(t, "idle", "retry", e.source, "saved") /\ Rest(t)
        \/ Conflict(t, "retry", e.source) \/ Unsaved(t, "retry", e.source)

-------------------------------------------------------------------------------
\* acceptActivePlacement: a stale delta is shown as such, nothing is written.
Accept(t) ==
  LET s == Owner[t]
      log == Visible(s)
      q == ActiveDelta(log)
  IN /\ Ready(t) /\ q # Null /\ ~Adopted(log, q)
     /\ IF Stale(log, q)
        THEN View(t, "idle", "stale_delta", Null, "saved") /\ Rest(t) /\ UNCHANGED <<ledger, seen, faults>>
        ELSE \/ /\ Saved(t, [type |-> "accepted", request |-> q])
                /\ View(t, "idle", "none", Null, "saved") /\ Rest(t)
             \/ Conflict(t, "commit", Null) \/ Unsaved(t, "commit", Null)

PlacementUser(t) == Capture(t) \/ CaptureUnplaced(t) \/ Retry(t) \/ RetryInvalid(t) \/ Accept(t)
PlacementContinue(t) == ReceiveNothing(t) \/ \E o \in Answer : Receive(t, o)
===============================================================================
