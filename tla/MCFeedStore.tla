---------------------------- MODULE MCFeedStore -----------------------------
(***************************************************************************)
(* Small universes of messages for FeedStore.  A universe is a set of      *)
(* messages that peers may hand over in any order and any number of times. *)
(***************************************************************************)
EXTENDS FeedStore

CONSTANTS A, B,                     \* feeds
          k1, k2, k3, kFork, kGap, kNew, kBad,  \* message references
          social, git               \* indexing modules

Message(k, f, seq, prev, good) ==
  [id |-> k, author |-> f, sequence |-> seq, previous |-> prev,
   timestamp |-> seq, signed |-> good]

a1 == Message(k1, A, 1, Nil, TRUE)
a2 == Message(k2, A, 2, k1, TRUE)
b1 == Message(k3, B, 1, Nil, TRUE)

\* A second message 2 that does not link to a1, as of a forked feed.
fork == Message(kFork, A, 2, k3, TRUE)
\* A second message 1, as of a feed that was started anew.
rival == Message(kNew, A, 1, Nil, TRUE)
\* A message 2 without a link.
unlinked == Message(kGap, A, 2, Nil, TRUE)
\* A message whose signature does not verify.
forged == Message(kBad, A, 1, Nil, FALSE)

\* Messages whose hash is not sha256: two of one feed, the second linked to
\* the first by the zero Ref, and one of another feed.
za1 == Message(ZeroRef, A, 1, Nil, TRUE)
za2 == Message(ZeroRef, A, 2, ZeroRef, TRUE)
zb1 == Message(ZeroRef, B, 1, Nil, TRUE)

\* The universes of the runs.
Forks     == {a1, a2, fork, rival, unlinked, forged}
Pair      == {a1, b1}
Keyless   == {za1, za2, zb1}
All       == Forks \cup Pair \cup Keyless
=============================================================================
