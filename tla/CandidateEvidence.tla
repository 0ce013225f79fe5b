--------------------------- MODULE CandidateEvidence ---------------------------
(* The evidence of a candidate outside the ledger: how the sealer makes one of *)
(* a workspace, how a question is compiled from a returned result, and what    *)
(* the two verifiers answer.  Constant operators, without state.               *)
EXTENDS EvidenceBinding

CONSTANTS
  Artifact, Support,        \* the two files of the registered delegation profile
  Focused,                  \* the command its test requirement declares
  Sound,                    \* contents of the two files that meet its contract
  Absent,                   \* the content of a file that is not there
  Workspace,                \* worktrees after a live run
  Result,                   \* returned results in the ledger
  Host,                     \* what the live verifier meets on its server
  Bundle                    \* what the replay verifier finds of its fixture

\* A tree maps paths to contents; a commit is [tree, parents].  As Git's names
\* are those of what they name, nothing else is kept of either.
Registered == {Artifact, Support}

-------------------------------------------------------------------------------
(* sealLiveWorkspaceCandidate *)

\* treeDiffEvidence: the changed paths, with what they are changed to.
Changes(from, to) == [p \in {p \in DOMAIN from : from[p] # to[p]} |-> to[p]]

SealedCommit(w) == [tree |-> w.files, parents |-> {w.base}]

\* createOrAdoptCandidateRef.
Adopts(w) == w.retained \in {NoEvidence, SealedCommit(w)}

\* HEAD is read before the index of the candidate is made and after.
Seals(w) ==
  /\ w.configured /\ ~w.ignored /\ w.fits
  /\ w.head = w.base /\ w.headAfter = w.base
  /\ w.files # w.base.tree
  /\ Adopts(w)

Receipt(w) ==
  [run |-> w.run, base |-> w.base, commit |-> SealedCommit(w), tree |-> w.files,
   manifest |-> Changes(w.base.tree, w.files), key |-> w.key, intact |-> TRUE]

-------------------------------------------------------------------------------
(* compileLiveEvidenceRequest, compileReplayEvidenceRequest *)

\* unexpectedDelegationProfileChangePaths.
Within(r) == DOMAIN r.manifest \subseteq Registered

\* The live entries of a manifest.
Entries(r) == {[path |-> p, blob |-> r.manifest[p]] : p \in {p \in DOMAIN r.manifest : r.manifest[p] # Absent}}

\* No evidence is neither a file, nor an entry of a manifest, nor a command.
ASSUME CandidateAssumption ==
  /\ Focused # NoEvidence /\ [path |-> Artifact, blob |-> "exact"] # NoEvidence
  /\ \A c \in Result : c.receipt # NoEvidence => NoEvidence \notin Entries(c.receipt)

\* The run, its brief, closure and exchange agree, and the closure names the
\* exchange; and the candidate is that of the run and has what was expected.
CompilesLive(c) ==
  /\ c.mode = "live" /\ c.profiled /\ c.agrees /\ c.grounded
  /\ c.receipt # NoEvidence
  /\ c.receipt.run = c.run /\ c.receipt.base = c.base
  /\ Within(c.receipt)
  /\ \A p \in c.expected : \E e \in Entries(c.receipt) : e.path = p

LiveQuestion(c) ==
  [mode |-> "live", run |-> c.run, base |-> c.base, requirements |-> c.requirements,
   expected |-> c.expected, receipt |-> c.receipt, sealed |-> Entries(c.receipt)]

CompilesReplay(c) ==
  c.mode = "replay" /\ c.profiled /\ c.agrees /\ c.grounded /\ c.identity # NoEvidence

ReplayQuestion(c) ==
  [mode |-> "replay", identity |-> c.identity, requirements |-> c.requirements,
   expected |-> c.expected, sealed |-> {}]

-------------------------------------------------------------------------------
(* verifyLiveEvidence *)

Declined == [ok |-> FALSE, bound |-> TRUE, observations |-> <<>>]

\* registeredRequirements: the authored contract and nothing else.
Contract(q) ==
  /\ q.expected = {Artifact}
  /\ \E t, a \in Required :
       /\ q.requirements = {t, a}
       /\ Kind[t] = "test" /\ Command[t] = Focused
       /\ Kind[a] = "artifact" /\ Command[a] = NoEvidence

\* assertReceiptBindings and verifyArtifactCandidateReceipt.
Bound(q) == q.run = q.receipt.run /\ q.base = q.receipt.base
Authentic(r, h) == r.intact /\ r.key \in h.keys

\* The registered repository and toolchain, and their configuration.
Trusted(h) == h.repository = "safe" /\ h.toolchain # "overlapping"

\* Mutant: the recomputed manifest is not compared with the signed one.
SealedAs_Listed(r, h) ==
  /\ {r.base, r.commit} \subseteq h.objects /\ h.ref = r.commit
  /\ r.commit.parents = {r.base} /\ r.commit.tree = r.tree

\* verifySealedCandidate: the ref, the commit and its parent are those of the
\* receipt, and so is what the commit changes.
SealedAs(r, h) ==
  /\ {r.base, r.commit} \subseteq h.objects /\ h.ref = r.commit
  /\ r.commit.parents = {r.base} /\ r.commit.tree = r.tree
  /\ r.manifest = Changes(r.base.tree, r.tree)

\* observeDeclaredArtifact.
Observable(r) ==
  Artifact \in DOMAIN r.manifest /\ r.manifest[Artifact] # Absent
    /\ r.commit.tree[Artifact] = r.manifest[Artifact]

\* withRegisteredCandidateInputs: of a tree within bounds, these two blobs.
Inputs(r) == [p \in Registered |-> r.commit.tree[p]]
Materializes(r, h) == h.roomy /\ \A p \in Registered : Inputs(r)[p] # Absent

\* runRegisteredLiveEvidenceCommand: an exit code of zero is no report.
Reports(inputs, h) == h.ended = "exited" /\ h.exit = 0 /\ h.faithful /\ inputs \in Sound

Verifiable(q, h) ==
  /\ q.mode = "live" /\ Contract(q) /\ Bound(q)
  /\ Authentic(q.receipt, h) /\ Within(q.receipt) /\ Trusted(h)
  /\ SealedAs(q.receipt, h) /\ Observable(q.receipt)
  /\ Materializes(q.receipt, h) /\ h.started /\ h.legible

VerifyLive(q, h) ==
  LET r == q.receipt
      Of(kind) == CHOOSE x \in q.requirements : Kind[x] = kind
  IN IF ~Verifiable(q, h) THEN Declined
     ELSE [ok |-> TRUE, bound |-> TRUE,
           observations |->
             <<[of |-> Of("artifact"), result |-> "passed", execution |-> NoEvidence,
                artifact |-> [path |-> Artifact, blob |-> r.commit.tree[Artifact]]],
               [of |-> Of("test"), result |-> IF Reports(Inputs(r), h) THEN "passed" ELSE "failed",
                artifact |-> NoEvidence, execution |-> Focused]>>]

\* The route and the gateway of the page: an answer that is not an answer of the
\* verifier, or does not arrive whole, is not observed.
Answered(q, h) ==
  IF ~h.authorized \/ h.reply # "whole" THEN NoEvidence
  ELSE IF ~h.configured THEN Declined ELSE VerifyLive(q, h)

-------------------------------------------------------------------------------
(* verifyReplayEvidence *)

\* registeredProfile: of the replay, of its brief and of their contract.
Applies(q) == q.identity = "registered" /\ Contract(q)

\* observeRegisteredArtifact, of both files: each byte, or none counts.
Complete(b) == \A p \in Registered : b.files[p] = "exact"
Legible(b) == \A p \in Registered : b.files[p] # "unreadable"

VerifyReplay(q, b) ==
  LET Of(kind) == CHOOSE x \in q.requirements : Kind[x] = kind
      passed == Complete(b) /\ b.vectors
  IN IF ~Applies(q) \/ ~b.pinned \/ (Complete(b) /\ ~b.imports) THEN Declined
     ELSE [ok |-> TRUE, bound |-> TRUE,
           observations |->
             <<[of |-> Of("artifact"), execution |-> NoEvidence,
                result |-> IF Complete(b) THEN "passed" ELSE IF Legible(b) THEN "failed" ELSE "missing",
                artifact |-> IF Complete(b) THEN [path |-> Artifact, blob |-> "exact"] ELSE NoEvidence],
               [of |-> Of("test"), artifact |-> NoEvidence,
                result |-> IF passed THEN "passed" ELSE IF Complete(b) THEN "failed" ELSE "missing",
                execution |-> IF Complete(b) THEN Focused ELSE NoEvidence]>>]

-------------------------------------------------------------------------------
(* Properties *)

\* A commit that deserves it changes its one parent in the registered files only,
\* and has sound contents in them.
Deserved(commit) ==
  /\ \A base \in commit.parents : DOMAIN Changes(base.tree, commit.tree) \subseteq Registered
  /\ Cardinality(commit.parents) = 1
  /\ [p \in Registered |-> commit.tree[p]] \in Sound

\* A completed live verification is always one the session can use; and it ends
\* in a verified validation only if the commit itself deserves it.
LiveIsEarned ==
  \A c \in Result, h \in Host :
    CompilesLive(c) =>
      LET q == LiveQuestion(c)
          x == Answered(q, h)
      IN x # NoEvidence =>
           /\ Class(q, x) # "incoherent"
           /\ Class(q, x) = "passed" => Deserved(c.receipt.commit)

ReplayIsEarned ==
  \A c \in Result, b \in Bundle :
    CompilesReplay(c) =>
      LET q == ReplayQuestion(c)
          x == VerifyReplay(q, b)
      IN /\ Class(q, x) # "incoherent"
         /\ Class(q, x) = "passed" => Complete(b) /\ b.vectors

\* What was sealed is found sealed: a server with the objects and the ref of a
\* candidate finds nothing wrong with it.
SealsAreFound ==
  \A w \in Workspace, h \in Host :
    Seals(w) /\ h.ref = SealedCommit(w) /\ {w.base, SealedCommit(w)} \subseteq h.objects =>
      SealedAs(Receipt(w), h) /\ (w.key \in h.keys => Authentic(Receipt(w), h))

\* From the sealed workspace to the recorded validation, in either mode: verified
\* means proved, whatever the verifier answers, whatever it meets on its host and
\* whatever result it is asked about (verifyLiveEvidence, verifyReplayEvidence,
\* the compilers of their requests and of the validation that is recorded).
VerdictsAreEarned == Grounded /\ LiveIsEarned /\ ReplayIsEarned /\ SealsAreFound
===============================================================================
