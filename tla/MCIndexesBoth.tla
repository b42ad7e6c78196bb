--------------------------- MODULE MCIndexesBoth ----------------------------
EXTENDS MCIndexes

(***************************************************************************)
(* Three universes in one run, each in behaviours of its own: the one of   *)
(* MCIndexes; one for the lists, where four feeds write posts that compete *)
(* for the last keys of a list, for its first ones, and one that is dated  *)
(* too late for an int; and one where the key of two messages is ZeroRef.  *)
(***************************************************************************)
CONSTANTS D,                          \* a feed
          p1, p2, p3, q1, q2, r1, s1, \* message references, by author
          t1

ListPost == [type |-> "post", root |-> p1, channel |-> main, text |-> {}]

Vote == [type |-> "vote", link |-> p1]

ListContentOf ==
  p1 :> ListPost @@ p2 :> ListPost @@ p3 :> Vote
    @@ q1 :> ListPost @@ q2 :> Vote @@ r1 :> ListPost @@ s1 :> ListPost

(* The times of A and B are -1, 0, 1, those of C -1 and those of D 20. *)
ListMsg == MessagesOf(A, <<p1, p2, p3>>, -1) \cup MessagesOf(B, <<q1, q2>>, -1)
             \cup MessagesOf(C, <<r1>>, -1) \cup MessagesOf(D, <<s1>>, 20)

(* Two messages of A have one key, and nothing else in common. *)
ZeroMsg == MessagesOf(A, <<ZeroRef, ZeroRef, t1>>, 0) \cup MessagesOf(B, <<b1, b2>>, 1)

ZeroContent(m) ==
  IF m.id # ZeroRef THEN [type |-> "post", root |-> ZeroRef, channel |-> main, text |-> {word}]
  ELSE IF m.sequence = 1 THEN Contact(B, TRUE, Nil) ELSE [type |-> "git-repo"]

BothMsg == MCMsg \cup ListMsg \cup ZeroMsg

BothContent ==
  [m \in BothMsg |-> IF m \in MCMsg THEN MCContent[m]
                     ELSE IF m \in ListMsg THEN ListContentOf[m.id] ELSE ZeroContent(m)]

VARIABLE universe

UniverseInit == Init /\ universe \in {MCMsg, ListMsg, ZeroMsg}

(* Only the messages of the universe are stored. *)
UniverseNext ==
  /\ UNCHANGED universe
  /\ Next
  /\ \A i \in DOMAIN order' : order'[i] \in universe

UniverseSpec == UniverseInit /\ [][UniverseNext]_<<vars, universe>>
=============================================================================
