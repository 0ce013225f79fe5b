SPECIFICATION Spec
CONSTANTS
  Null = Null
  s1 = s1
  s2 = s2
  t1 = t1
  u1 = u1
  t2 = t2
  Session = {s1, s2}
  Task = {t1, u1, t2}
  Foreground = {t1, t2}
  Owner <- Owners
  Loader <- Loaders
  FirstLedger <- Adopted
  MaxFaults = 1
  MaxBriefs = 2
  MaxRuns = 2
  MaxSources = 1
  Mode = {"live", "replay"}
  Response = {"returned", "blocked", "incoherent"}
CONSTRAINT Focus
INVARIANTS
  RecordedIsPrivate
  DispatchedIsDurable
  OfferedIsAdmitted
CHECK_DEADLOCK FALSE
