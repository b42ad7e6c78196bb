\* Two pubs, one of which also connects itself, so that it may have two
\* connections; one blob.
SPECIFICATION FairSpec
CONSTANTS
  pubA = pubA   pubB = pubB   in = in   out = out
  Nil = Nil
  Peer = {pubA, pubB}
  Caller = {pubA}
  PubList <- MCPubList
  InConn = {in}
  OutConn = {out}
  MaxConns = 2
  Blob = {r}
  Other = {junk}
INVARIANTS TypeOK ConnsMatch AskedEveryone WantedUntilStored
PROPERTIES PubsHaveTheirTurn AnswersAreHeard
