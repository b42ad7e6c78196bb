\* Forked, unlinked and forged messages of one feed; two feeds that share the
\* database, with messages handed to the wrong one; messages with the zero key.
SPECIFICATION UniverseSpec
CONSTANTS
  A = A   B = B
  k1 = k1   k2 = k2   k3 = k3   kFork = kFork   kGap = kGap   kNew = kNew   kBad = kBad
  social = social   git = git
  Nil = Nil
  ZeroRef = ZeroRef
  Key = {ZeroRef, k1, k2, k3, kFork, kGap, kNew, kBad}
  Feed = {A, B}
  Module = {social, git}
  Msg <- All
  AddChanCap = 1
  SendCap = 1
INVARIANTS TypeOK FeedLogChained NeverBehindLog AnnouncedOnceInOrder GlobalLogResolves IndexesMatchLog
PROPERTIES AppendOnly ImplementsLogs
