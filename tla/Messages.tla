------------------------------ MODULE Messages ------------------------------
(***************************************************************************)
(* The signed messages of a feed (message.go) and the two look-ups that    *)
(* the datastore does in the "log" bucket of a feed (feeds.go).            *)
(*                                                                         *)
(* A message is a record of the fields the store branches on.  Its key is  *)
(* the field id: the SHA-256 of the encoded message if that is what its    *)
(* field hash names, and the zero Ref if hash names anything else, which   *)
(* Verify does not look at.  So two messages with one key are one message, *)
(* unless their key is ZeroRef.  signed says whether the signature         *)
(* verifies under the key of the author.  previous is a key (any text that *)
(* is no reference is read as ZeroRef), or Nil for a JSON null.  timestamp *)
(* is whatever number the author wrote, negative ones included.            *)
(*                                                                         *)
(* The "log" bucket of a feed maps m.Sequence to m, so it is modelled as   *)
(* the set of its messages, at most one for each sequence number.          *)
(***************************************************************************)
EXTENDS Integers

CONSTANTS Feed,   \* the feed references (public keys)
          Key,    \* the message references (hashes, and the zero Ref)
          ZeroRef, \* the key of every message whose hash is not "sha256"
          Msg,    \* the messages that peers and publishers may hand over
          Nil     \* Go's nil: no message, no key, no feed

ASSUME MessageAssumption ==
  /\ ZeroRef \in Key
  /\ Nil \notin Feed \cup Key \cup Msg
  /\ Msg \subseteq [id : Key, author : Feed, sequence : Nat,
                    previous : Key \cup {Nil}, timestamp : Int, signed : BOOLEAN]
  /\ \A m, n \in Msg : m.id = n.id => m = n \/ m.id = ZeroRef

-----------------------------------------------------------------------------
(* Feed.GetSeq: the message stored under a sequence number, or Nil. *)
GetSeq(bucket, n) ==
  IF \E m \in bucket : m.sequence = n
  THEN CHOOSE m \in bucket : m.sequence = n
  ELSE Nil

(* Feed.Latest: the last entry of the bucket in key order, or Nil. *)
Latest(bucket) ==
  IF bucket = {}
  THEN Nil
  ELSE CHOOSE m \in bucket : \A o \in bucket : o.sequence <= m.sequence

(* The sequence number GetFeed starts from. *)
LatestSequence(bucket) == IF bucket = {} THEN 0 ELSE Latest(bucket).sequence

(* A Put under m.sequence: it replaces what is stored under that number. *)
PutSeq(bucket, m) == {o \in bucket : o.sequence # m.sequence} \cup {m}

(* Mutants of Verify: the link, and a missing predecessor, go unnoticed. *)
Verify_AnyLink(bucket, m) == m.signed /\ bucket \subseteq Msg

Verify_AnyGap(bucket, m) ==
  LET latest == GetSeq(bucket, m.sequence - 1)
  IN  m.signed /\ (latest # Nil /\ m.sequence # 1 => m.previous = latest.id)

(***************************************************************************)
(* SignedMessage.Verify against the bucket of the feed.  The two checks of *)
(* m.Sequence against latest.Sequence (a repeated message, a gap) compare  *)
(* with the message stored under m.Sequence - 1 and so never fail.         *)
(***************************************************************************)
Verify(bucket, m) ==
  LET latest == GetSeq(bucket, m.sequence - 1)
  IN  /\ m.signed
      /\ \/ m.sequence = 1
         \/ latest = Nil /\ m.previous = Nil
         \/ /\ latest # Nil
            /\ m.previous = latest.id
            /\ m.timestamp > latest.timestamp

-----------------------------------------------------------------------------
(* No two entries of a bucket share their sequence number. *)
OnePerSequence(bucket) ==
  \A m, n \in bucket : m.sequence = n.sequence => m = n

(***************************************************************************)
(* What Verify is for: an entry is the first of its feed, or is linked by  *)
(* hash to its predecessor, which is in the bucket and is older, or has a  *)
(* null link, which Verify only lets through where nothing precedes it.    *)
(***************************************************************************)
Linked(bucket, m) ==
  \/ m.sequence = 1
  \/ \E p \in bucket : /\ p.sequence + 1 = m.sequence
                       /\ m.previous = p.id
                       /\ p.timestamp < m.timestamp
  \/ /\ m.previous = Nil
     /\ \A p \in bucket : p.sequence + 1 # m.sequence
=============================================================================
