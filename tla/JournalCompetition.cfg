SPECIFICATION Spec
CONSTANTS
  Null = Null
  p1 = p1
  p2 = p2
  base = base
  one = one
  two = two
  Promotion = {p1, p2}
  Process = {x1, x2}
  Commit = {base, one, two}
  Base <- OneBase
  Candidate <- TwoCandidates
  Cautious = TRUE
  MaxFaults = 2
SYMMETRY Symmetry
INVARIANTS
  LockExcludes
PROPERTIES
  ImplementsOneShot
