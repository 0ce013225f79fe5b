SPECIFICATION SystemSpec
CONSTANTS
  Null = Null
  base = base
  one = one
  Session = {s1, s2}
  Promotion = {p1}
  Process = {x1, x2}
  Commit = {base, one}
  Base <- OneBase
  Candidate <- OneCandidate
  Cautious = TRUE
  MaxFaults = 1
  MaxHead = 1
SYMMETRY Symmetry
CONSTRAINT RefPresent
INVARIANTS
  RecordsAreJournalled
  RecoveryKept
PROPERTIES
  UpdatesUnderReservation
