\* One feed, one peer, a chain of two that grows while it is fetched.
SPECIFICATION BoundedSpec
CONSTANTS
  A = A   k1 = k1   k2 = k2   k3 = k3   social = social
  Nil = Nil
  ZeroRef = ZeroRef
  Key = {ZeroRef, k1, k2, k3}
  Feed = {A}
  Module = {social}
  Msg <- Chain2
  AddChanCap = 1
  SendCap = 1
  Peer = {p1}
  WireCap = 1
  MaxCrashes = 1
INVARIANTS RTypeOK StreamsCover
PROPERTIES EventuallyReplicated
