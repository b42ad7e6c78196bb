\* The number LatestSeq keeps across a rolled back transaction.
SPECIFICATION HealthySpec
CONSTANTS
  A = A   B = B
  k1 = k1   k2 = k2   k3 = k3   kFork = kFork   kGap = kGap   kNew = kNew   kBad = kBad
  social = social   git = git
  Nil = Nil
  ZeroRef = ZeroRef
  Key = {ZeroRef, k1, k2, k3, kFork, kGap, kNew, kBad}
  Feed = {A}
  Module = {social}
  Msg <- Forks
  AddChanCap = 1
  SendCap = 1
INVARIANT LatestSeqIsDurable
