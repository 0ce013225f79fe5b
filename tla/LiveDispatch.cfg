SPECIFICATION Spec
CONSTANTS
  Null = Null
  r1 = r1
  r2 = r2
  q1 = q1
  rival = rival
  q2 = q2
  d0 = d0
  d1 = d1
  d2 = d2
  here = here
  h1 = h1
  h2 = h2
  Run = {r1, r2}
  Request = {q1, q2}
  Ledger = {d0, d1, d2}
  ForRun <- Executes
  Document <- Authorized
  Queued <- Shows
  FirstLedger = d0
  Process = {h1, h2}
  Handler = {h1, h2}
  Home <- Apart
  Cautious = FALSE
  MaxFaults = 0
SYMMETRY Symmetry
CONSTRAINT NoStatus
INVARIANTS
  WorktreeExclusive
  OneWorker
