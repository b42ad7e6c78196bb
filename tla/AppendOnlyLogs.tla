--------------------------- MODULE AppendOnlyLogs ---------------------------
(***************************************************************************)
(* What the datastore promises to its readers and its indexes: the         *)
(* messages of all feeds form one sequence that only ever grows at its     *)
(* end, and in which each feed is a chain of signed messages.              *)
(***************************************************************************)
EXTENDS Messages, SequencesExt

VARIABLE order  \* every stored message, in the order in which it was stored

(* The messages of feed f among the first n of a sequence. *)
FeedUpTo(seq, f, n) == {m \in {seq[i] : i \in 1 .. n} : m.author = f}

(* seq[i] may be stored once the messages before it are: it is signed, is   *)
(* the newest of its feed, and is linked to the message it follows.         *)
Admissible(seq, i) ==
  LET m     == seq[i]
      prior == FeedUpTo(seq, m.author, i - 1)
  IN  /\ m.signed
      /\ \A p \in prior : p.sequence < m.sequence
      /\ Linked(prior, m)

Init == order = <<>>

(* A transaction appends a run of messages of one feed, all or nothing. *)
Extend(f) ==
  /\ order' \in Seq(Msg)
  /\ IsStrictPrefix(order, order')
  /\ \A i \in Len(order) + 1 .. Len(order') :
       order'[i].author = f /\ Admissible(order', i)

Next == \E f \in Feed : Extend(f)

Spec == Init /\ [][Next]_order
=============================================================================
