SPECIFICATION Spec
CONSTANTS
  Null = Null
  Source = {s1}
  Delta = {d1, d2, d3}
  Node = {n1}
  Brief = {b1, b2}
  Run = {r1, r2}
  Closure = {c1, c2}
  Validation = {v1, v2}
  Promotion = {p1, p2}
  Requirement = {q1}
  ArtifactBase = {a1}
  Path = {f1, f2}
  Profiled = {n1}
  ProfileRequirement = {q1}
  ProfilePath = {f1}
  ProfileArtifact = {f1}
  Operations <- TaskOperations
SYMMETRY Symmetry
CONSTRAINT Focus
INVARIANTS
  LinearHistory
  OpenDeltaApplies
  SupersessionChains
  IntegratedOnce
  WorkClaimsGrounded
  ReservationPinsHead
  OnePromotionPerRevision
  PromotionGrounded
PROPERTIES
  RecordsEndure
  ImplementsReservation
CHECK_DEADLOCK FALSE
