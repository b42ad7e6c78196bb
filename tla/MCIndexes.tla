----------------------------- MODULE MCIndexes ------------------------------
(***************************************************************************)
(* A universe for Indexes and Queries: two feeds that follow each other    *)
(* and write posts in the same thread one moment apart, a third one that   *)
(* is followed and announced, a repository and what belongs to it.         *)
(***************************************************************************)
EXTENDS Queries

CONSTANTS A, B, C,                  \* feeds
          a1, a2, a3, a4, a5, a6, a7, \* message references, by author
          b1, b2, b3, b4, b5, b6,
          main, nick, word,         \* a channel, a name, a word
          pack, index, x, y         \* blobs, addresses

Contact(c, following, blocking) ==
  [type |-> "contact", contact |-> c, following |-> following, blocking |-> blocking]

Post == [type |-> "post", root |-> b3, channel |-> main, text |-> {word}]

ChainA == <<a1, a2, a3, a4, a5, a6, a7>>
ChainB == <<b1, b2, b3, b4, b5, b6>>

ContentOf ==
     a1 :> Contact(B, TRUE, Nil)
  @@ a2 :> Post
  @@ a3 :> [type |-> "git-update", repo |-> b3, packs |-> {pack}, indexes |-> {index}]
  @@ a4 :> Contact(B, Nil, TRUE)
  @@ a5 :> [type |-> "private"]
  @@ a6 :> [type |-> "about", about |-> A, name |-> nick, image |-> Nil]
  @@ a7 :> [type |-> "issue", project |-> b3]
  @@ b1 :> Contact(A, TRUE, Nil)
  @@ b2 :> Post
  @@ b3 :> [type |-> "git-repo"]
  @@ b4 :> [type |-> "pub", key |-> C, host |-> x]
  @@ b5 :> Contact(C, TRUE, FALSE)
  @@ b6 :> [type |-> "vote", link |-> a2]

(* The messages of f with the keys in chain, from time first on. *)
MessagesOf(f, chain, first) ==
  {[id |-> chain[i], author |-> f, sequence |-> i,
    previous |-> IF i = 1 THEN Nil ELSE chain[i - 1],
    timestamp |-> first + i - 1, signed |-> TRUE] : i \in DOMAIN chain}

MCByHand == {<<C, y>>}

MCMsg == MessagesOf(A, ChainA, 2) \cup MessagesOf(B, ChainB, 1)

MCContent == [m \in MCMsg |-> ContentOf[m.id]]
=============================================================================
