\* A single call; the signal for its message may find nobody waiting.
SPECIFICATION PFairSpec
CONSTANTS
  A = A   x = x   y = y   p1 = p1   p2 = p2   p3 = p3   w1 = w1
  social = social
  Nil = Nil
  Feed = {A}
  Self = A
  Module = {social}
  Bus = Bus
  Content = {x}
  MaxSequence = 1
  ZeroRef = ZeroRef
  Key <- MCKey
  Msg <- MCMsg
  Call = {p1}
  Stream = {}
  Start = {}
  Remote = {}
  AddChanCap = 1
  SendCap = 1
PROPERTY PublishStores
CHECK_DEADLOCK FALSE
