\* Two calls of PublishMessage; or a peer that sends a chain of two, and a
\* stream that is served meanwhile.
SPECIFICATION SourceSpec
CONSTANTS
  A = A   x = x   y = y   p1 = p1   p2 = p2   p3 = p3   w1 = w1
  social = social
  Nil = Nil
  Feed = {A}
  Self = A
  Module = {social}
  Bus = Bus
  Content = {x, y}
  MaxSequence = 2
  ZeroRef = ZeroRef
  Key <- MCKey
  Msg <- MCMsg
  Call = {p1, p2}
  Stream = {w1}
  Start = {1, 2}
  Remote <- MCChain
  AddChanCap = 1
  SendCap = 1
INVARIANTS ReturnedIsStored FollowCovers
PROPERTIES IsFeedStore IsMessageTopic
SYMMETRY Calls
CHECK_DEADLOCK FALSE
