--------------------------- MODULE PlacementProposal ---------------------------
(* How a source becomes a placement: what of the graph is sent to a manager,  *)
(* what the gateway accepts of an interpretation and makes of it, what the    *)
(* session requires of the answer, and what crosses into the kernel as a      *)
(* delta.  Constant operators, without state.                                 *)
EXTENDS Naturals, Sequences, FiniteSets

CONSTANTS
  Place,                    \* nodes of the canonical graph
  Project,                  \* the project node of every request
  Graph,                    \* standings of the nodes, [Place -> Standing]
  Interpretation,           \* what a manager may answer
  Candidate,                \* the identity made from request, source and base
  NoNode

Standing == {"shared", "private", "retired", "elsewhere"}

ASSUME PlacementGraph == Project \in Place /\ Graph \subseteq [Place -> Standing]

\* An interpretation is [project, location, relations, mentioned, title, clarify,
\* question], its title only whether there is one; a relation of it is [kind, target, outgoing], one of a delta
\* [kind, from, to].

-------------------------------------------------------------------------------
\* compilePlacementRequest: shared, living nodes of the project.
Sent(g) == {n \in Place : g[n] = "shared"}

\* What PlacementRequestSchema adds: no request without the project and the
\* selected node, nor with a private one.
Compiles(g, selected) ==
  {Project, selected} \subseteq Sent(g) /\ \A n \in Sent(g) : g[n] # "private"

\* interpretFixturePlacement, of a request with a selected node: titleFromSource
\* takes the final . ! and ? off the source, and may leave nothing.
Fixture(selected, titled) ==
  [project |-> Project, location |-> selected, mentioned |-> {selected, Project},
   relations |-> <<[kind |-> "belongs_to", target |-> selected, outgoing |-> TRUE]>>,
   title |-> titled, clarify |-> FALSE, question |-> FALSE]

\* ManagerPlacementInterpretationSchema.
Conforms(i) == i.title /\ IF i.clarify THEN i.question ELSE i.location # NoNode

\* assertInterpretationIsBounded: every node it names was sent.
Bounded(nodes, i) ==
  /\ ({i.project, i.location} \cup i.mentioned \cup {i.relations[k].target : k \in DOMAIN i.relations})
       \subseteq nodes \cup {NoNode}
  /\ i.project \in {NoNode, Project}

Oriented(relation) ==
  [kind |-> relation.kind,
   from |-> IF relation.outgoing THEN Candidate ELSE relation.target,
   to   |-> IF relation.outgoing THEN relation.target ELSE Candidate]

\* Mutant: every relation leaves the proposed node.
Operations_Outgoing(relations) ==
  [k \in DOMAIN relations |->
    [kind |-> relations[k].kind, from |-> Candidate, to |-> relations[k].target]]

Operations(relations) == [k \in DOMAIN relations |-> Oriented(relations[k])]

\* materializePlacementProposal, and the schema of the receipt it has to meet.
Materialized(i) ==
  [receipt |-> [project |-> i.project, location |-> i.location, mentioned |-> i.mentioned,
                relations |-> i.relations, clarify |-> i.clarify, question |-> i.question],
   delta |-> IF i.clarify THEN NoNode
             ELSE [node |-> Candidate, relations |-> Operations(i.relations)]]

\* Neither the proposed node nor a missing one is in the graph; a relation has a
\* target, and a delta is something.
ASSUME ProposalAssumption ==
  /\ Candidate \notin Place /\ NoNode \notin Place
  /\ \A i \in Interpretation :
       /\ i.clarify \in BOOLEAN /\ i.question \in BOOLEAN
       /\ \A k \in DOMAIN i.relations : i.relations[k].target # NoNode
  /\ \A i \in Interpretation \cup {Fixture(n, TRUE) : n \in Place} :
       [node |-> Candidate, relations |-> Operations(i.relations)] # NoNode

Presentable(r) == IF r.clarify THEN r.question ELSE r.location # NoNode /\ ~r.question

\* What may keep the gateway from an interpretation: runPlacement and placeSource.
Refusal == {"mode", "credentials", "configuration", "request"}
Trouble == {"none", "deadline", "provider", "no_output"} \cup Refusal

-------------------------------------------------------------------------------
\* assertPlacementResponseMatchesRequest.
Matches(nodes, p) ==
  LET r == p.receipt
  IN /\ r.project = Project
     /\ ({r.location} \cup r.mentioned) \subseteq nodes \cup {NoNode}
     /\ \A k \in DOMAIN r.relations : r.relations[k].target \in nodes
     /\ Candidate \notin nodes
     /\ r.clarify <=> p.delta = NoNode
     /\ p.delta # NoNode =>
          \A k \in DOMAIN p.delta.relations :
            {p.delta.relations[k].from, p.delta.relations[k].to} \subseteq nodes \cup {Candidate}

Times(x, s) == Cardinality({k \in DOMAIN s : s[k] = x})

\* sameRelationMultiset.
SameRelations(s, u) == Len(s) = Len(u) /\ \A k \in DOMAIN s : Times(s[k], s) = Times(s[k], u)

\* placementResponseToKernelDelta: the delta is what the receipt shows.
Converts(p) ==
  /\ p.delta.node = Candidate
  /\ SameRelations(p.delta.relations, [k \in DOMAIN p.receipt.relations |-> Oriented(p.receipt.relations[k])])

\* The gateway answers an interpretation that is well formed, in bounds and
\* presentable with its receipt and delta.
Answerable(nodes, i) ==
  Conforms(i) /\ Bounded(nodes, i) /\ Presentable(Materialized(i).receipt)

\* What becomes of an interpretation in a session: one that is not answered so,
\* and an answer that does not match or does not convert, is a failure to be
\* retried.
Outcome(nodes, i) ==
  IF ~Answerable(nodes, i) \/ ~Matches(nodes, Materialized(i)) THEN "failed"
  ELSE IF i.clarify THEN "unclear"
  ELSE IF Converts(Materialized(i)) THEN "placed" ELSE "failed"

GatewayOutcome(trouble, nodes, i) ==
  IF trouble \in Refusal THEN "refused"
  ELSE IF trouble # "none" THEN "failed" ELSE Outcome(nodes, i)

\* The fixture branch of runPlacement catches nothing: what a live manager is
\* answered "failed" for ends this request without an answer.
FixtureOutcome(nodes, selected, titled) ==
  LET i == Fixture(selected, titled)
  IN IF Answerable(nodes, i) THEN Outcome(nodes, i) ELSE "unanswered"

-------------------------------------------------------------------------------
\* The independent statements of one boundary (request, proposal, evidence and
\* placement-to-kernel) agree: the fixture manager places each source that leaves a
\* title, and answers no other; what a manager answers in bounds for the requested
\* project, and clearly, the session and the kernel take as it is; and what they
\* take names no node that is hidden, retired or of another project.
BoundariesAgree ==
  \A g \in Graph, selected \in Place :
    Compiles(g, selected) =>
      /\ \A titled \in BOOLEAN :
           FixtureOutcome(Sent(g), selected, titled) = IF titled THEN "placed" ELSE "unanswered"
      /\ \A i \in Interpretation :
           /\ (/\ Conforms(i) /\ Bounded(Sent(g), i)
               /\ i.project = Project /\ i.question = i.clarify)
                => Outcome(Sent(g), i) = IF i.clarify THEN "unclear" ELSE "placed"
           /\ Outcome(Sent(g), i) = "placed" =>
                \A k \in DOMAIN i.relations :
                  {Operations(i.relations)[k].from, Operations(i.relations)[k].to} \ {Candidate}
                    \subseteq {n \in Place : g[n] = "shared"}
===============================================================================
