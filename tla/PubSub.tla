------------------------------- MODULE PubSub -------------------------------
(***************************************************************************)
(* One open feed with everything that waits on it: FeedStore composed with *)
(* the topic of the feed (MessageTopic), calls of Feed.PublishMessage, and *)
(* streams of Feed.Follow that serve createHistoryStream to peers.         *)
(*                                                                         *)
(* f.Topic has the data store's own topic as a strict recipient: Bus is    *)
(* ds.Topic.Send.  Nothing in the repository registers with ds.Topic, so   *)
(* its goroutine takes each message and hands it to nobody.                *)
(*                                                                         *)
(* Disk errors and restarts are left to FeedStore: here what is of         *)
(* interest are the locks and channels that the parts share.               *)
(***************************************************************************)
EXTENDS FeedStore

CONSTANTS Self,     \* the feed that is published to and followed
          Call,     \* the calls of PublishMessage
          Stream,   \* the calls of Follow with live set
          Bus,      \* ds.Topic.Send
          Start,    \* the sequence numbers that peers ask to start from
          Remote    \* the messages that peers hand to the feed

ASSUME PubSubAssumption ==
  /\ Self \in Feed
  /\ Remote \subseteq Msg
  /\ Start \subseteq Nat
  /\ Nil \notin Call \cup Stream \cup {Bus}
  /\ Call \cap Stream = {} /\ Bus \notin Call \cup Stream

VARIABLES
  sendOpen, process, todo, at, recps, buf, closed, since, got,  \* of MessageTopic
  call,     \* call[p]: where PublishMessage is
  signed,   \* signed[p]: the message it has made, or Nil
  stream,   \* stream[w]: where Follow is
  start,    \* start[w]: the seq it was called with (history)
  next,     \* next[w]: its seq
  handed,   \* handed[w]: what its handler has been given, Nil for a nil message
  skipped   \* skipped[w]: the numbers it found nothing stored under (history)

(* Each call and each stream registers a channel of its own, named for it. *)
Chan == Call \cup Stream \cup {Bus}
Cap == [c \in Chan |-> IF c = Bus THEN SendCap ELSE 1]

MT == INSTANCE MessageTopic
        WITH Topic <- Feed, Content <- Msg, send <- sendChan

topicOnly == <<sendOpen, process, todo, at, recps, buf, closed, since, got>>
callVars == <<call, signed>>
streamVars == <<stream, start, next, handed, skipped>>
pvars == <<vars, topicOnly, callVars, streamVars>>
storeOnly == <<db, tx, writer, addChan, drain, waiting, latestSeq, proc, newMsgs, base>>

(* Mutant of SeqLockFree: Follow gives SeqLock back before it registers. *)
SeqLockFree_Early == Stream \subseteq DOMAIN stream

(* Follow keeps SeqLock while it waits for the lock of the topic. *)
SeqLockFree == \A w \in Stream : stream[w] # "register"

-----------------------------------------------------------------------------
PInit ==
  /\ Init
  /\ MT!Init
  /\ call = [p \in Call |-> "latest"]
  /\ signed = [p \in Call |-> Nil]
  /\ stream = [w \in Stream |-> "off"]
  /\ start = [w \in Stream |-> 0]
  /\ next = [w \in Stream |-> 0]
  /\ handed = [w \in Stream |-> <<>>]
  /\ skipped = [w \in Stream |-> {}]

(* GetFeed registers ds.Topic.Send before anyone else sees the feed. *)
Open ==
  /\ GetFeed(Self)
  /\ MT!Register(Self, Bus, TRUE)
  /\ UNCHANGED <<callVars, streamVars>>

(* A peer's reply to the stream that the onConnect hook asked for. *)
PeerAdds(m) ==
  /\ AddMessage(Self, m)
  /\ UNCHANGED <<topicOnly, callVars, streamVars>>

(* The goroutines of the feed; where they take SeqLock it must be free. *)
Drainer ==
  /\ Drain(Self)
  /\ drain[Self].pc = "put" => SeqLockFree
  /\ UNCHANGED <<topicOnly, callVars, streamVars>>

Processor ==
  /\ ProcessMessageQueue(Self)
  /\ proc[Self] = "update" => SeqLockFree
  /\ UNCHANGED <<topicOnly, callVars, streamVars>>

(* The goroutine of the topic, and that of ds.Topic, which only receives. *)
TopicSteps ==
  /\ MT!Process(Self)
  /\ UNCHANGED <<storeOnly, callVars, streamVars>>

BusReceives ==
  /\ MT!Receive(Bus)
  /\ UNCHANGED <<storeOnly, callVars, streamVars>>

-----------------------------------------------------------------------------
(* Feed.PublishMessage. *)

(* What follows l, the latest stored message, in the feed: sequence, link   *)
(* and a timestamp that has been advanced past that of l.  Its hash is      *)
(* "sha256", so its key is its own.                                         *)
Follows(m, l) ==
  /\ m.author = Self
  /\ m.signed
  /\ m.id # ZeroRef
  /\ IF l = Nil
     THEN m.sequence = 1 /\ m.previous = Nil
     ELSE /\ m.sequence = l.sequence + 1
          /\ m.previous = l.id
          /\ m.timestamp > l.timestamp

(* The message is made from what is stored now. *)
ReadLatest(p) ==
  /\ IsOpen(Self)
  /\ call[p] = "latest"
  /\ \E m \in Msg : /\ Follows(m, Latest(db.log[Self]))
                    /\ signed' = [signed EXCEPT ![p] = m]
  /\ call' = [call EXCEPT ![p] = "register"]
  /\ UNCHANGED <<vars, topicOnly, streamVars>>

RegisterCall(p) ==
  /\ call[p] = "register"
  /\ MT!Register(Self, p, TRUE)
  /\ call' = [call EXCEPT ![p] = "add"]
  /\ UNCHANGED <<storeOnly, signed, streamVars>>

AddOwn(p) ==
  /\ call[p] = "add"
  /\ AddMessage(Self, signed[p])
  /\ call' = [call EXCEPT ![p] = "await"]
  /\ UNCHANGED <<topicOnly, signed, streamVars>>

(* Mutant of Await: the key of the message is not compared. *)
Await_Any(p) ==
  /\ call[p] = "await"
  /\ MT!Receive(p)
  /\ call' = [call EXCEPT ![p] = "unregister"]
  /\ UNCHANGED <<storeOnly, signed, streamVars>>

(* for newm := range c *)
Await(p) ==
  /\ call[p] = "await"
  /\ MT!Receive(p)
  /\ call' = IF Head(buf[p]).id = signed[p].id
             THEN [call EXCEPT ![p] = "unregister"]
             ELSE call
  /\ UNCHANGED <<storeOnly, signed, streamVars>>

UnregisterCall(p) ==
  /\ call[p] = "unregister"
  /\ MT!Unregister(Self, p)
  /\ call' = [call EXCEPT ![p] = "returned"]
  /\ UNCHANGED <<storeOnly, signed, streamVars>>

Publish(p) == ReadLatest(p) \/ RegisterCall(p) \/ AddOwn(p) \/ Await(p) \/ UnregisterCall(p)

-----------------------------------------------------------------------------
(* Feed.Follow with live set. *)

GotoStream(w, pc) == stream' = [stream EXCEPT ![w] = pc]

(* createHistoryStream asks for the messages from seq on. *)
StartFollow(w, seq) ==
  /\ IsOpen(Self)
  /\ stream[w] = "off"
  /\ start' = [start EXCEPT ![w] = seq]
  /\ next' = [next EXCEPT ![w] = seq]
  /\ GotoStream(w, "check")
  /\ UNCHANGED <<vars, topicOnly, callVars, handed, skipped>>

(* f.LatestSeq >= seq, under SeqLock, which the processor holds in its loop. *)
CheckLatest(w) ==
  /\ stream[w] = "check"
  /\ proc[Self] # "loop"
  /\ SeqLockFree
  /\ GotoStream(w, IF latestSeq[Self] >= next[w] THEN "get" ELSE "register")
  /\ UNCHANGED <<vars, topicOnly, callVars, start, next, handed, skipped>>

(* GetSeq in a transaction of its own: it sees what has been committed. *)
GetNext(w) ==
  LET m == GetSeq(db.log[Self], next[w])
  IN  /\ stream[w] = "get"
      /\ handed' = IF m # Nil THEN [handed EXCEPT ![w] = Append(@, m)] ELSE handed
      /\ skipped' = IF m = Nil THEN [skipped EXCEPT ![w] = @ \cup {next[w]}] ELSE skipped
      /\ next' = [next EXCEPT ![w] = @ + 1]
      /\ GotoStream(w, "check")
      /\ UNCHANGED <<vars, topicOnly, callVars, start>>

(* Register, and only then give SeqLock back. *)
RegisterStream(w) ==
  /\ stream[w] = "register"
  /\ MT!Register(Self, w, FALSE)
  /\ GotoStream(w, "live")
  /\ UNCHANGED <<storeOnly, callVars, start, next, handed, skipped>>

(* m := <-c *)
LiveMessage(w) ==
  /\ stream[w] = "live"
  /\ MT!Receive(w)
  /\ handed' = [handed EXCEPT ![w] = Append(@, Head(buf[w]))]
  /\ UNCHANGED <<storeOnly, callVars, stream, start, next, skipped>>

(* After an eviction the closed channel yields nil, over and over; the      *)
(* handler sends a JSON null for it.  The first is recorded.                *)
LiveNil(w) ==
  /\ stream[w] = "live"
  /\ w \in closed
  /\ buf[w] = <<>>
  /\ handed' = IF \E i \in DOMAIN handed[w] : handed[w][i] = Nil
               THEN handed
               ELSE [handed EXCEPT ![w] = Append(@, Nil)]
  /\ UNCHANGED <<vars, topicOnly, callVars, stream, start, next, skipped>>

(* The connection is done: Unregister. *)
Done(w) ==
  /\ stream[w] = "live"
  /\ MT!Unregister(Self, w)
  /\ GotoStream(w, "returned")
  /\ UNCHANGED <<storeOnly, callVars, start, next, handed, skipped>>

(* The handler fails: Follow returns, and leaves its channel registered. *)
HandlerFails(w) ==
  /\ \/ /\ stream[w] = "get"
        /\ GetSeq(db.log[Self], next[w]) # Nil
        /\ UNCHANGED <<vars, topicOnly>>
     \/ /\ stream[w] = "live"
        /\ MT!Receive(w)
        /\ UNCHANGED storeOnly
     \/ /\ stream[w] = "live"
        /\ w \in closed
        /\ buf[w] = <<>>
        /\ UNCHANGED <<vars, topicOnly>>
  /\ GotoStream(w, "returned")
  /\ UNCHANGED <<callVars, start, next, handed, skipped>>

Follow(w) == \/ CheckLatest(w) \/ GetNext(w) \/ RegisterStream(w)
             \/ LiveMessage(w) \/ LiveNil(w) \/ Done(w) \/ HandlerFails(w)

-----------------------------------------------------------------------------
FeedSteps == Open \/ Drainer \/ Processor \/ TopicSteps \/ BusReceives
PeerSteps == \E m \in Remote : PeerAdds(m)
CallSteps == \E p \in Call : Publish(p)
StreamSteps == \E w \in Stream : (\E seq \in Start : StartFollow(w, seq)) \/ Follow(w)

PNext == FeedSteps \/ PeerSteps \/ CallSteps \/ StreamSteps

PSpec == PInit /\ [][PNext]_pvars

(***************************************************************************)
(* Fairness: every goroutine that can go on goes on, and whoever waits for *)
(* a mutex or a channel that others use too is served in the end: Go's     *)
(* mutexes have a starvation mode and channels are first come first        *)
(* served.  Nothing is asked of peers.                                     *)
(***************************************************************************)
PFairness ==
  /\ WF_pvars(Open)
  /\ SF_pvars(Drainer)
  /\ SF_pvars(Processor)
  /\ WF_pvars(TopicSteps)
  /\ WF_pvars(BusReceives)
  /\ \A p \in Call : SF_pvars(Publish(p))

PFairSpec == PSpec /\ PFairness

-----------------------------------------------------------------------------
(***************************************************************************)
(* A call of PublishMessage that has returned, or is about to, has its     *)
(* message in the database: of two calls that were given the same sequence *)
(* number only the one that was stored returns (feeds.go:500-503,          *)
(* 520-524).                                                               *)
(***************************************************************************)
ReturnedIsStored ==
  \A p \in Call : call[p] \in {"unregister", "returned"} => signed[p] \in db.log[Self]

(* The new messages that the topic has yet to hand to c. *)
Pending(c) ==
  LET dealing == process[Self] = "lock" \/ c \in todo[Self] \cup {at[Self]}
  IN  Items(sendChan[Self])
      \cup (IF proc[Self] = "send" THEN Items(newMsgs[Self]) ELSE {})
      \cup (IF dealing THEN {heard[Self][Len(heard[Self])]} ELSE {})

(***************************************************************************)
(* Between catching up from the database and listening to the topic a      *)
(* stream loses nothing: every stored message from the one it started with *)
(* on has been handed over, or waits in its channel or before it, except   *)
(* those it skipped because LatestSeq counted them before they were        *)
(* committed (follower.go:5-22).                                           *)
(***************************************************************************)
FollowCovers ==
  \A w \in Stream : stream[w] = "live" /\ w \in DOMAIN recps[Self] =>
    \A m \in db.log[Self] : m.sequence >= start[w] =>
      \/ m \in Items(handed[w]) \cup Items(buf[w]) \cup Pending(w)
      \/ m.sequence \in skipped[w]

(***************************************************************************)
(* What FeedStore abstracts from the topic is what the topic does: this    *)
(* composition is a FeedStore, so the theorems about it hold here.         *)
(***************************************************************************)
IsFeedStore == Spec

(***************************************************************************)
(* And the feed is an owner that MessageTopic allows for: it sends each    *)
(* message once and never to a full channel.                               *)
(***************************************************************************)
IsMessageTopic == MT!Spec

(***************************************************************************)
(* "publish a new post to a feed" (cmd/sbotcli/main.go:45): a message that *)
(* PublishMessage has handed to its feed gets stored.                      *)
(***************************************************************************)
PublishStores ==
  \A p \in Call : (call[p] = "await") ~> (signed[p] \in db.log[Self])

(***************************************************************************)
(* "Message ... posted to feed" (cmd/sbot/main.go:120) is what the caller  *)
(* of PublishMessage says once it has returned: a call that has read its   *)
(* message back from the topic returns.                                    *)
(***************************************************************************)
PublishReturns ==
  \A p \in Call : (call[p] = "unregister") ~> (call[p] = "returned")
=============================================================================
