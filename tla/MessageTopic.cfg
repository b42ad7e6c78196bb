\* Two recipients, strict or not, and three messages.
SPECIFICATION FairSpec
CONSTANTS
  Topic = {feed}
  feed = feed
  c1 = c1   c2 = c2   c3 = c3
  Chan = {c1, c3}
  Content = {m1, m2, m3}
  m1 = m1   m2 = m2   m3 = m3
  Cap <- MCCap
  SendCap = 2
  Nil = Nil
INVARIANTS TypeOK RegisteredIsOpen GaplessDelivery
PROPERTY NeverHeldUp
CHECK_DEADLOCK FALSE
