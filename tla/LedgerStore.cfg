SPECIFICATION Spec
CONSTANTS
  Null = Null
  s1 = s1
  s2 = s2
  t1 = t1
  u1 = u1
  t2 = t2
  genesis = genesis
  authorized = authorized
  attempt = attempt
  exchange = exchange
  retold = retold
  accepted = accepted
  Session = {s1, s2}
  Task = {t1, u1, t2}
  Foreground = {t1, t2}
  Owner <- Owners
  Event = {genesis, authorized, attempt, exchange, retold, accepted}
  Identity <- Identities
  Batch <- Batches
  Persistent <- Exchanges
  Accepts <- Follows
  Seed <- SeedLog
  MaxAttempts = 2
  MaxResets = 1
  MaxFaults = 1
INVARIANTS
  AcknowledgedKept
  ConflictsAreOthers
PROPERTIES
  ImplementsAtomicLog
