\* Feeds of seven and six messages, in every interleaving; rebuilds of each
\* index and of all; a pub added by hand.
SPECIFICATION Spec
CONSTANTS
  A = A   B = B   C = C
  a1 = a1   a2 = a2   a3 = a3   a4 = a4   a5 = a5   a6 = a6   a7 = a7
  b1 = b1   b2 = b2   b3 = b3   b4 = b4   b5 = b5   b6 = b6
  main = main   nick = nick   word = word   pack = pack   index = index   x = x   y = y
  Nil = Nil
  ZeroRef = ZeroRef
  Feed = {A, B, C}
  Key = {a1, a2, a3, a4, a5, a6, a7, b1, b2, b3, b4, b5, b6, ZeroRef}
  Msg <- MCMsg
  Content <- MCContent
  Channel = {main}
  Word = {word}
  Name = {nick}
  Blob = {pack, index}
  Addr = {x, y}
  ByHand <- MCByHand
  TimeScale = 1000000
  HalfSpace = 536870912
  TooLate = 536870912
  TooEarly = 536870912
  PageSize = 2
INVARIANTS IndexPagesCover
