\* One of three universes: feeds of seven and six messages, in every
\* interleaving, with rebuilds of each index and of all and a pub added by hand;
\* four feeds whose posts in one thread are dated before, in and after the times
\* that an int holds, with two keys for a moment; and two messages of one key.
SPECIFICATION UniverseSpec
CONSTANTS
  A = A   B = B   C = C   D = D
  a1 = a1   a2 = a2   a3 = a3   a4 = a4   a5 = a5   a6 = a6   a7 = a7
  b1 = b1   b2 = b2   b3 = b3   b4 = b4   b5 = b5   b6 = b6
  p1 = p1   p2 = p2   p3 = p3   q1 = q1   q2 = q2   r1 = r1   s1 = s1
  t1 = t1   ZeroRef = ZeroRef
  main = main   nick = nick   word = word   pack = pack   index = index   x = x   y = y
  Nil = Nil
  Feed = {A, B, C, D}
  Key = {a1, a2, a3, a4, a5, a6, a7, b1, b2, b3, b4, b5, b6, p1, p2, p3, q1, q2, r1, s1, t1, ZeroRef}
  Msg <- BothMsg
  Content <- BothContent
  Channel = {main}
  Word = {word}
  Name = {nick}
  Blob = {pack, index}
  Addr = {x, y}
  ByHand <- MCByHand
  TimeScale = 2
  HalfSpace = 32
  TooLate = 32
  TooEarly = 32
  PageSize = 2
INVARIANTS TypeOK LatestWordCounts PostsAreListed RepoIsComplete PubsAreListed PagesCover FollowsAreNearest
PROPERTIES RebuildChangesNothing
