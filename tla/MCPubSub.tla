------------------------------ MODULE MCPubSub ------------------------------
(***************************************************************************)
(* The messages of one feed for PubSub.  A key is a hash of everything     *)
(* that came before: here it is the sequence of the contents of the feed   *)
(* up to the message, so two messages with the same content and the same   *)
(* history are the same message.                                           *)
(***************************************************************************)
EXTENDS PubSub, SequencesExt

CONSTANTS A,               \* the feed
          social,          \* the indexing module
          x, y,            \* contents
          p1, p2, p3, w1,  \* calls and streams
          Content,         \* the contents that are published
          MaxSequence      \* the length of the longest feed

Histories == UNION {[1 .. n -> Content] : n \in 1 .. MaxSequence}

MessageOf(h) ==
  [id |-> h, author |-> A, sequence |-> Len(h),
   previous |-> IF Len(h) = 1 THEN Nil ELSE Front(h),
   timestamp |-> Len(h), signed |-> TRUE]

MCKey == Histories \cup {ZeroRef}

MCMsg == {MessageOf(h) : h \in Histories}

\* Calls differ in nothing but their names.
Calls == Permutations(Call)

\* One feed, as peers have it.
MCChain == {m \in MCMsg : \A i \in DOMAIN m.id : m.id[i] = x}

\* What another device that uses the same feed has added to it.
MCOthers == {m \in MCChain : m.sequence > 1}
=============================================================================
