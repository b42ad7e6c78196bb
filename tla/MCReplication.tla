---------------------------- MODULE MCReplication -----------------------------
(* A small instance of Replication: an honest chain of one feed. *)
EXTENDS Replication

CONSTANTS A, k1, k2, k3, social

Message(k, seq, prev) ==
  [id |-> k, author |-> A, sequence |-> seq, previous |-> prev, timestamp |-> seq, signed |-> TRUE]

Chain2 == {Message(k1, 1, Nil), Message(k2, 2, k1)}
Chain3 == Chain2 \cup {Message(k3, 3, k2)}

(* A bound: the topic takes what it is sent before anything else happens.   *)
(* Nothing but Send waits for it, and no property here is about it.        *)
TopicFirst == (\E f \in Feed : sendChan[f] # <<>>) => \E f \in Feed : TopicReceive(f)

BoundedSpec == RInit /\ [][RNext /\ TopicFirst]_rvars /\ RFairness
=============================================================================
