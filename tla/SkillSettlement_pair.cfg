SPECIFICATION Spec
CONSTANTS
  j1 = j1
  j2 = j2
  a1 = a1
  a2 = a2
  b1 = b1
  b2 = b2
  blocked = blocked
  stuck = stuck
  same = same
  NoSignature = NoSignature
  Signatures = {blocked, stuck}
  Jobs = {j1, j2}
  Runs = {a1, a2, b1, b2}
  Batch <- PairBatch
  Failure <- PairFailure
  Recovers <- PairRecovers
  Name <- PairName
  Succeeded = {a2, b2}
  Informed = {b1}
  Progress = {a2, b2}
  Worthy = {b2}
  AutoPromote = TRUE
  MaxCrashes = 2
  MaxFaults = 1
  MaxReviews = 2
INVARIANTS
  TypeOK
  EvidenceIsEarned
  CandidatesAreSound
  SettlingIsComplete
PROPERTIES
  VerdictsStand
CHECK_DEADLOCK FALSE
