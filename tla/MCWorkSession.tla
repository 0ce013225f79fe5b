----------------------------- MODULE MCWorkSession -----------------------------
EXTENDS EvidenceSession, TLC
CONSTANTS s1, s2, t1, u1, t2

Owners == [t \in Task |-> IF t = t2 THEN s2 ELSE s1]
Loaders == [s \in Session |-> IF s = s1 THEN u1 ELSE t2]

\* One source was placed and adopted, its brief executed, the result returned.
Returned ==
  <<[type |-> "attempt", request |-> 1, source |-> 1, new |-> TRUE, base |-> 0],
    [type |-> "answer", request |-> 1, source |-> 1, outcome |-> "placed"],
    [type |-> "accepted", request |-> 1],
    [type |-> "closure", base |-> 1]>>

\* A project, a task and a third node in any standing; interpretations with up to
\* two relations.
Places == {"project", "task", "third"}
Graphs == {[n \in Places |-> IF n = "third" THEN x ELSE "shared"] : x \in {"shared", "private", "retired", "elsewhere"}}
Relations == [kind : {"depends_on", "part_of"}, target : Places, outgoing : BOOLEAN]
Interpretations ==
  [project : {"project", NoNode}, location : {"task", "third", NoNode},
   relations : UNION {[1 .. n -> Relations] : n \in 0 .. 2},
   mentioned : {{}, {"task", "third"}}, title : BOOLEAN, clarify : BOOLEAN, question : BOOLEAN]

\* One artifact, one test and one check that nothing can pass; any two
\* observations, or one of each.
Kinds == [r \in {"file", "suite", "review"} |->
            CASE r = "file" -> "artifact" [] r = "suite" -> "test" [] OTHER -> "manual"]
Commands == [r \in {"file", "suite", "review"} |-> IF r = "suite" THEN "run" ELSE NoEvidence]
InCandidate == {[path |-> "doc", blob |-> "good"], [path |-> "else", blob |-> "good"]}
Blobs == InCandidate \cup {[path |-> "doc", blob |-> "old"]}
Questions ==
  [mode : {"live", "replay"}, requirements : {{"file", "suite"}, {"file", "suite", "review"}},
   expected : {{"doc"}}, sealed : {InCandidate}]
Sighting(r) ==
  [of : {r}, result : {"passed", "failed"}, artifact : Blobs \cup {NoEvidence},
   execution : {"run", "other", NoEvidence}]
Observations == UNION {Sighting(r) : r \in {"file", "suite", "review"}}
OneOfEach == {<<a, b, c>> : a \in Sighting("file"), b \in Sighting("suite"), c \in Sighting("review")}
Responses ==
  [ok : {TRUE}, bound : BOOLEAN, observations : UNION {[1 .. n -> Observations] : n \in 0 .. 2}]
    \cup [ok : {TRUE}, bound : {TRUE}, observations : OneOfEach]
    \cup [ok : {FALSE}, bound : {TRUE}, observations : {<<>>}]

\* The two registered files and another, each old, good or absent; commits of
\* every such tree on one base, and a merge.
Trees == [{"doc", "test", "else"} -> {"old", "good", Absent}]
Base == [tree |-> [path \in {"doc", "test", "else"} |-> "old"], parents |-> {}]
Good == [Base.tree EXCEPT !["doc"] = "good", !["test"] = "good"]
Hidden == [Good EXCEPT !["else"] = "good"]
CommitOf(tree) == [tree |-> tree, parents |-> {Base}]
Merge == [tree |-> Good, parents |-> {Base, CommitOf(Hidden)}]
Commits == {Base, Merge} \cup {CommitOf(tree) : tree \in Trees}
SoundFiles == {[path \in {"doc", "test"} |-> "good"]}

\* Any files in a worktree where all is well, or good ones where anything is not.
Workspaces ==
  [configured : {TRUE}, ignored : {FALSE}, fits : {TRUE}, head : {Base}, headAfter : {Base}, base : {Base},
   files : Trees, retained : {NoEvidence}, run : {"run"}, key : {"k1"}]
  \cup
  [configured : BOOLEAN, ignored : BOOLEAN, fits : BOOLEAN, head : {Base, Merge}, headAfter : {Base, Merge},
   base : {Base}, files : {Good}, retained : {NoEvidence, CommitOf(Good), CommitOf(Hidden)},
   run : {"run"}, key : {"k1", "k2"}]

\* The receipt of any tree, the same without its third file, or a good one with
\* one thing wrong.
ReceiptOf(tree) == Receipt(CHOOSE w \in Workspaces : w.files = tree /\ w.key = "k1")
Registrable(r) ==
  [r EXCEPT !.manifest = [path \in (DOMAIN r.manifest) \ {"else"} |-> r.manifest[path]]]
Receipts ==
  LET good == ReceiptOf(Good)
  IN {ReceiptOf(tree) : tree \in Trees} \cup {Registrable(ReceiptOf(tree)) : tree \in Trees}
       \cup {[good EXCEPT !.intact = FALSE], [good EXCEPT !.key = "k2"], [good EXCEPT !.run = "another"],
             [good EXCEPT !.commit = Merge], [good EXCEPT !.tree = Hidden], [good EXCEPT !.base = Merge]}

ResultOf(receipt) ==
  [mode |-> "live", profiled |-> TRUE, agrees |-> TRUE, grounded |-> TRUE, run |-> "run", base |-> Base,
   requirements |-> {"file", "suite"}, expected |-> {"doc"}, receipt |-> receipt, identity |-> NoEvidence]
Results ==
  {ResultOf(receipt) : receipt \in Receipts \cup {NoEvidence}}
    \cup [mode : {"live", "replay"}, profiled : BOOLEAN, agrees : BOOLEAN, grounded : BOOLEAN,
          run : {"run", "another"}, base : {Base}, requirements : {{"file", "suite"}, {"file", "suite", "review"}},
          expected : {{}, {"doc"}, {"doc", "test"}}, receipt : {ReceiptOf(Good)},
          identity : {"registered", "unknown", NoEvidence}]

\* A server where all is well, any commit at the ref; or anything is not.
Healthy ==
  [keys |-> {"k1"}, repository |-> "safe", toolchain |-> "separate", objects |-> Commits,
   ref |-> CommitOf(Good), roomy |-> TRUE, started |-> TRUE, ended |-> "exited", exit |-> 0,
   faithful |-> TRUE, legible |-> TRUE, configured |-> TRUE, authorized |-> TRUE, reply |-> "whole"]
Hosts ==
  {[Healthy EXCEPT !.ref = commit] : commit \in Commits}
    \cup {[Healthy EXCEPT !.keys = {"k2"}], [Healthy EXCEPT !.repository = "unsafe"],
          [Healthy EXCEPT !.toolchain = "overlapping"], [Healthy EXCEPT !.objects = {Base}],
          [Healthy EXCEPT !.objects = Commits \ {Base}], [Healthy EXCEPT !.roomy = FALSE],
          [Healthy EXCEPT !.configured = FALSE], [Healthy EXCEPT !.authorized = FALSE],
          [Healthy EXCEPT !.reply = "torn"]}
    \cup {[Healthy EXCEPT !.started = started, !.ended = ended, !.exit = exit, !.faithful = faithful, !.legible = legible] :
            started \in BOOLEAN, ended \in {"exited", "killed"}, exit \in {0, 1}, faithful \in BOOLEAN, legible \in BOOLEAN}
Bundles ==
  [files : [{"doc", "test"} -> {"exact", "different", "unreadable"}],
   pinned : BOOLEAN, imports : BOOLEAN, vectors : BOOLEAN]

\* Bounds: a fault comes while little was written; and a third question is not
\* put beside all of the work on the result.
Focus ==
  /\ faults > 0 => Len(ledger) <= 7
  /\ Has(ledger, "evidence") /\ Cardinality(RequestsOf(ledger)) > 2 => Len(ledger) <= 10
===============================================================================
