--------------------------- MODULE MCMessageTopic ---------------------------
(* A topic with a few recipients, each with a channel of its own. *)
EXTENDS MessageTopic

CONSTANTS c1, c2, c3,   \* channels
          m1, m2, m3,   \* messages
          feed          \* a topic

\* What Register makes, and a larger channel that a caller brings along.
Capacities == (c1 :> 1) @@ (c2 :> 1) @@ (c3 :> 2)
MCCap == [c \in Chan |-> Capacities[c]]
=============================================================================
