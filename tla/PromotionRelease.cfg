SPECIFICATION SystemFairSpec
CONSTANTS
  Null = Null
  base = base
  one = one
  Session = {s1}
  Promotion = {p1}
  Process = {x1}
  Commit = {base, one}
  Base <- OneBase
  Candidate <- OneCandidate
  Cautious = TRUE
  MaxFaults = 2
  MaxHead = 1
PROPERTIES
  HeadReleased
