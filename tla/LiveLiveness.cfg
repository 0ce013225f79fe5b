SPECIFICATION FairSpec
CONSTANTS
  Null = Null
  r1 = r1
  r2 = r2
  q1 = q1
  rival = rival
  q2 = q2
  d0 = d0
  d1 = d1
  d2 = d2
  here = here
  h1 = h1
  h2 = h2
  Run = {r1}
  Request = {q1, rival}
  Ledger = {d0, d1, d2}
  ForRun <- Executes
  Document <- Diverged
  Queued <- Shows
  FirstLedger = d0
  Process = {here}
  Handler = {h1}
  Home <- Together
  Cautious = TRUE
  MaxFaults = 3
PROPERTIES
  Dispatched
