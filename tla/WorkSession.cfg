SPECIFICATION Spec
CONSTANTS
  Null = Null
  s1 = s1
  s2 = s2
  t1 = t1
  u1 = u1
  t2 = t2
  Session = {s1, s2}
  Task = {t1, u1, t2}
  Foreground = {t1, t2}
  Owner <- Owners
  Loader <- Loaders
  FirstLedger <- Returned
  MaxFaults = 1
  MaxSources = 2
  MaxRequests = 3
  ClosureMode = "live"
  Claimed = TRUE
  Place <- Places
  Graph <- Graphs
  Project = "project"
  NoNode = NoNode
  Candidate = "candidate"
  Interpretation <- Interpretations
  Requirement = {"file", "suite", "review"}
  Kind <- Kinds
  Command <- Commands
  Required = {"file", "suite"}
  Question <- Questions
  Artifact = "doc"
  Support = "test"
  Focused = "run"
  Absent = "absent"
  Sound <- SoundFiles
  Workspace <- Workspaces
  Result <- Results
  Host <- Hosts
  Bundle <- Bundles
  NoEvidence = NoEvidence
  Response <- Responses
CONSTRAINT Focus
INVARIANTS
  PlacedOnHead
  ValidationsAreExact
  OfferedWorkIsAdmitted
  ProposalsHold
  VerifiedIsEarned
CHECK_DEADLOCK FALSE
