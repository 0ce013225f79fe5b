SPECIFICATION FairSpec
CONSTANTS
  Null = Null
  p1 = p1
  p2 = p2
  base = base
  one = one
  two = two
  Promotion = {p1}
  Process = {x1, x2}
  Commit = {base, one}
  Base <- OneBase
  Candidate <- TwoCandidates
  Cautious = FALSE
  MaxFaults = 3
INVARIANTS
  OneLaunch
  PromotedWasHeld
  AnswersAgree
PROPERTIES
  Concludes
