SPECIFICATION FairSpec
CONSTANTS
  Null = Null
  s1 = s1
  s2 = s2
  t1 = t1
  u1 = u1
  t2 = t2
  Session = {s1, s2}
  Task = {t1, u1, t2}
  Foreground = {t1}
  Owner <- Owners
  Loader <- Loaders
  FirstLedger <- Adopted
  MaxFaults = 1
  MaxBriefs = 1
  MaxRuns = 1
  MaxSources = 0
  Mode = {"live"}
  Response = {"returned", "incoherent"}
PROPERTIES
  Concludes
  Normalizes
CHECK_DEADLOCK FALSE
