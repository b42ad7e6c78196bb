---------------------------- MODULE PubSubProofs -----------------------------
(***************************************************************************)
(* Proofs about PubSub, for any feed, calls, streams, messages and         *)
(* capacities.  The composition is first shown to implement FeedStore and  *)
(* MessageTopic; the theorems about these then hold of it, and the         *)
(* properties of the composition are proved from them.                     *)
(***************************************************************************)
EXTENDS PubSub, FeedStoreProofs

(* The theorems about MessageTopic, for the topic of the feed.             *)
TP == INSTANCE MessageTopicProofs
        WITH Topic <- Feed, Content <- Msg, send <- sendChan

CallPC == {"latest", "register", "add", "await", "unregister", "returned"}

(* A call past its first step has made a message.                          *)
CallInv ==
  /\ call \in [Call -> CallPC]
  /\ signed \in [Call -> Msg \cup {Nil}]
  /\ \A p \in Call : call[p] # "latest" => signed[p] \in Msg /\ signed[p].id # ZeroRef

-----------------------------------------------------------------------------
(* In feed order nothing comes twice.                                      *)
LEMMA LaterDiffers ==
  ASSUME NEW s \in Seq(Msg), NEW t \in Seq(Msg), t # <<>>, Ordered(s \o t)
  PROVE  Head(t) \notin Items(s)
<1> DEFINE u == s \o t
<1>1. /\ Len(s) \in Nat /\ DOMAIN s = 1 .. Len(s)
      /\ \A i \in 1 .. Len(s) : i \in DOMAIN u /\ u[i] = s[i]
      /\ Len(s) + 1 \in DOMAIN u /\ u[Len(s) + 1] = Head(t)
  <2>1. 1 \in 1 .. Len(t) /\ Head(t) = t[1]
    OBVIOUS
  <2>2. \A i \in 1 .. Len(t) : Len(s) + i \in DOMAIN u /\ u[Len(s) + i] = t[i]
    OBVIOUS
  <2> HIDE DEF u
  <2>3. Len(s) + 1 \in DOMAIN u /\ u[Len(s) + 1] = Head(t)
    BY <2>1, <2>2
  <2> USE DEF u
  <2>4. Len(s) \in Nat /\ DOMAIN s = 1 .. Len(s)
    OBVIOUS
  <2>5. \A i \in 1 .. Len(s) : i \in DOMAIN u /\ u[i] = s[i]
    OBVIOUS
  <2> QED BY <2>3, <2>4, <2>5
<1>2. Ordered(u)
  OBVIOUS
<1> HIDE DEF u
<1>3. ASSUME NEW i \in DOMAIN s PROVE s[i] # Head(t)
  <2>1. i < Len(s) + 1
    BY <1>1
  <2>2. s[i].sequence < Head(t).sequence
    BY <1>1, <1>2, <2>1 DEF Ordered
  <2>3. s[i] \in Msg
    OBVIOUS
  <2> QED BY <2>2, <2>3, MsgFields
<1> QED BY <1>3 DEF Items

-----------------------------------------------------------------------------
(* PubSub implements FeedStore. *)

LEMMA CallInit == PInit => CallInv
BY DEF PInit, CallInv, CallPC

LEMMA CallStep == CallInv /\ [PNext]_pvars => CallInv'
<1> SUFFICES ASSUME CallInv, [PNext]_pvars PROVE CallInv'
  OBVIOUS
<1> USE DEF CallInv, CallPC
<1>1. ASSUME UNCHANGED callVars PROVE CallInv'
  BY <1>1 DEF callVars
<1>2. ASSUME NEW p \in Call, Publish(p) PROVE CallInv'
  <2>1. CASE ReadLatest(p)
    <3>1. PICK m \in Msg : Follows(m, Latest(db.log[Self])) /\ signed' = [signed EXCEPT ![p] = m]
      BY <2>1 DEF ReadLatest
    <3>2. m.id # ZeroRef
      BY <3>1 DEF Follows
    <3>3. call' = [call EXCEPT ![p] = "register"]
      BY <2>1 DEF ReadLatest
    <3> QED BY <3>1, <3>2, <3>3
  <2>2. CASE RegisterCall(p) \/ AddOwn(p) \/ Await(p) \/ UnregisterCall(p)
    BY <2>2 DEF RegisterCall, AddOwn, Await, UnregisterCall
  <2> QED BY <1>2, <2>1, <2>2 DEF Publish
<1>3. ASSUME FeedSteps \/ PeerSteps \/ StreamSteps PROVE UNCHANGED callVars
  BY <1>3 DEF FeedSteps, Open, Drainer, Processor, TopicSteps, BusReceives, PeerSteps, PeerAdds,
     StreamSteps, StartFollow, Follow, CheckLatest, GetNext, RegisterStream, LiveMessage, LiveNil,
     Done, HandlerFails
<1> QED BY <1>1, <1>2, <1>3 DEF PNext, CallSteps, pvars

(* The steps of the topic are, for FeedStore, a receive or nothing.        *)
LEMMA TopicIsReceive ==
  ASSUME TopicSteps
  PROVE  TopicReceive(Self) \/ UNCHANGED vars
<1>1. CASE MT!Take(Self)
  BY <1>1 DEF TopicSteps, MT!Take, TopicReceive, storeOnly
<1>2. CASE ~MT!Take(Self)
  BY <1>2 DEF TopicSteps, MT!Process, MT!Lock, MT!Deliver, MT!Evict, MT!Unlock,
     MT!Stop, MT!NextRecp, storeOnly, vars, feedVars
<1> QED BY <1>1, <1>2

(* What the clients of the topic do is nothing to FeedStore.               *)
LEMMA ClientsStutter ==
  ASSUME NEW c, UNCHANGED storeOnly,
         \/ MT!Receive(c) \/ MT!Unregister(Self, c)
         \/ \E b \in BOOLEAN : MT!Register(Self, c, b)
  PROVE  UNCHANGED vars
BY DEF MT!Receive, MT!Unregister, MT!Register, MT!topicVars, storeOnly, vars, feedVars

LEMMA StepIsStore ==
  ASSUME CallInv, [PNext]_pvars
  PROVE  [Next]_vars
<1> USE PubSubAssumption
<1>1. CASE UNCHANGED pvars
  BY <1>1 DEF pvars
<1>2. CASE FeedSteps
  <2>1. CASE Open
    BY <2>1 DEF Open, Next, Healthy, Internal
  <2>2. CASE Drainer \/ Processor
    BY <2>2 DEF Drainer, Processor, Next, Healthy, Internal
  <2>3. CASE TopicSteps
    BY <2>3, TopicIsReceive DEF Next, Healthy, Internal
  <2>4. CASE BusReceives
    BY <2>4, ClientsStutter DEF BusReceives
  <2> QED BY <1>2, <2>1, <2>2, <2>3, <2>4 DEF FeedSteps
<1>3. CASE PeerSteps
  BY <1>3 DEF PeerSteps, PeerAdds, Next, Healthy
<1>4. ASSUME NEW p \in Call, Publish(p) PROVE [Next]_vars
  <2>1. CASE AddOwn(p)
    <3>1. signed[p] \in Msg
      BY <2>1 DEF AddOwn, CallInv
    <3> QED BY <2>1, <3>1 DEF AddOwn, Next, Healthy
  <2>2. CASE ReadLatest(p)
    BY <2>2 DEF ReadLatest
  <2>3. CASE RegisterCall(p) \/ Await(p) \/ UnregisterCall(p)
    BY <2>3, ClientsStutter DEF RegisterCall, Await, UnregisterCall
  <2> QED BY <1>4, <2>1, <2>2, <2>3 DEF Publish
<1>5. ASSUME NEW w \in Stream, Follow(w) \/ \E seq \in Start : StartFollow(w, seq)
      PROVE  UNCHANGED vars
  <2>1. CASE RegisterStream(w) \/ LiveMessage(w) \/ Done(w) \/ HandlerFails(w)
    BY <2>1, ClientsStutter DEF RegisterStream, LiveMessage, Done, HandlerFails
  <2>2. CASE CheckLatest(w) \/ GetNext(w) \/ LiveNil(w) \/ \E seq \in Start : StartFollow(w, seq)
    BY <2>2 DEF CheckLatest, GetNext, LiveNil, StartFollow
  <2> QED BY <1>5, <2>1, <2>2 DEF Follow
<1> QED BY <1>1, <1>2, <1>3, <1>4, <1>5 DEF PNext, CallSteps, StreamSteps

(* The composition is a FeedStore: its locks and waiters only restrict     *)
(* when the goroutines of the feed go on (feeds.go:172-210, 291-343).      *)
THEOREM ComposesStore == PSpec => IsFeedStore
<1>1. PInit => Init
  BY DEF PInit
<1>2. CallInv /\ [PNext]_pvars => [Next]_vars
  BY StepIsStore
<1> QED BY <1>1, <1>2, CallInit, CallStep, PTL DEF PSpec, Spec, IsFeedStore

-----------------------------------------------------------------------------
(* PubSub implements MessageTopic. *)

(* MT and TP are the same specification, one of them with its theorems. *)
LEMMA SameInit == MT!Init => TP!Init
BY DEF MT!Init, TP!Init

LEMMA SameNext ==
  ASSUME [MT!Next]_(MT!tvars)
  PROVE  [TP!Next]_(TP!tvars)
<1> USE DEF MT!tvars, TP!tvars, MT!topicVars, TP!topicVars, MT!chanVars, TP!chanVars
<1>1. CASE UNCHANGED MT!tvars
  BY <1>1
<1>2. ASSUME NEW t \in Feed, MT!Process(t) PROVE TP!Process(t)
  BY <1>2 DEF MT!Process, TP!Process, MT!Take, TP!Take, MT!Lock, TP!Lock, MT!Deliver,
     TP!Deliver, MT!Evict, TP!Evict, MT!Unlock, TP!Unlock, MT!Stop, TP!Stop,
     MT!NextRecp, TP!NextRecp, MT!Current, TP!Current, MT!Without, TP!Without
<1>3. ASSUME MT!Client PROVE TP!Client
  BY <1>3 DEF MT!Client, TP!Client, MT!Receive, TP!Receive, MT!Publish, TP!Publish,
     MT!Close, TP!Close, MT!Unused, TP!Unused, MT!Register, TP!Register, MT!Unregister,
     TP!Unregister, MT!Elements, TP!Elements, MT!Locked, TP!Locked, MT!HandedOut,
     TP!HandedOut, MT!Without, TP!Without
<1> QED BY <1>1, <1>2, <1>3 DEF MT!Next, TP!Next

LEMMA TopicConstants == TP!TopicAssumption
BY PubSubAssumption, CapacityAssumption DEF TP!TopicAssumption, Cap, Chan

(* Who has yet to register has a channel that nobody has seen.             *)
ChanInv ==
  /\ sendOpen = [f \in Feed |-> TRUE]
  /\ stream \in [Stream -> {"off", "check", "get", "register", "live", "returned"}]
  /\ \A p \in Call : call[p] \in {"latest", "register"} => MT!Unused(p)
  /\ \A w \in Stream : stream[w] \notin {"live", "returned"} => MT!Unused(w)
  /\ ~IsOpen(Self) => MT!Unused(Bus)

LEMMA TopicInit == PInit => TP!RegInv /\ ChanInv
<1> SUFFICES ASSUME PInit PROVE TP!RegInv /\ ChanInv
  OBVIOUS
<1>1. TP!RegInv
  BY SameInit, TopicConstants, TP!InitRegInv DEF PInit
<1>2. ChanInv
  BY DEF PInit, MT!Init, ChanInv, MT!Unused
<1> QED BY <1>1, <1>2

(* The head of newMsgs comes after everything that has been sent.          *)
LEMMA SentOnce ==
  ASSUME TypeOK, AnnInv, Send(Self)
  PROVE  Head(newMsgs[Self]) \notin MT!Elements(heard[Self]) \cup MT!Elements(sendChan[Self])
<1> DEFINE h == heard[Self]
           s == sendChan[Self]
           n == newMsgs[Self]
<1>1. h \in Seq(Msg) /\ s \in Seq(Msg) /\ h \o s \in Seq(Msg) /\ n \in Seq(Msg) /\ n # <<>>
  BY PubSubAssumption, FeedTypes DEF Send
<1>2. Ordered((h \o s) \o n)
  BY PubSubAssumption DEF AnnInv, AnnouncedInv, Announced, Send
<1>3. Head(n) \notin Items(h \o s)
  BY <1>1, <1>2, LaterDiffers
<1>4. Items(h) \cup Items(s) \subseteq Items(h \o s)
  BY <1>1, ItemsOfConcat
<1>5. MT!Elements(h) = Items(h) /\ MT!Elements(s) = Items(s)
  BY DEF MT!Elements, Items
<1> QED BY <1>3, <1>4, <1>5

LEMMA StepIsTopic ==
  ASSUME CallInv, ChanInv, TypeOK, AnnInv, [PNext]_pvars
  PROVE  [MT!Next]_(MT!tvars)
<1> USE PubSubAssumption DEF MT!tvars, MT!topicVars, MT!chanVars, topicOnly, storeOnly
<1>1. ASSUME UNCHANGED <<sendChan, heard, topicOnly>> PROVE [MT!Next]_(MT!tvars)
  BY <1>1
<1>2. ASSUME NEW c \in Chan, MT!Receive(c) \/ MT!Unregister(Self, c)
      PROVE  [MT!Next]_(MT!tvars)
  BY <1>2 DEF MT!Next, MT!Client
<1>3. ASSUME NEW c \in Chan, NEW b \in BOOLEAN, MT!Unused(c), MT!Register(Self, c, b)
      PROVE  [MT!Next]_(MT!tvars)
  BY <1>3 DEF MT!Next, MT!Client
<1>4. CASE FeedSteps
  <2>1. CASE Open
    BY <1>3, <2>1 DEF Open, GetFeed, Chan, ChanInv
  <2>2. CASE Drainer
    BY <1>1, <2>2 DEF Drainer, Drain, DrainRecv, DrainPut, DrainSignal
  <2>3. CASE Processor
    <3>1. CASE Send(Self)
      <4>1. Head(newMsgs[Self]) \in Msg
        BY <3>1 DEF Send, TypeOK
      <4>2. MT!Publish(Self, Head(newMsgs[Self]))
        BY <2>3, <3>1, SentOnce DEF Processor, Send, MT!Publish, ChanInv
      <4> QED BY <4>1, <4>2 DEF MT!Next, MT!Client
    <3>2. CASE ~Send(Self)
      BY <1>1, <2>3, <3>2 DEF Processor, ProcessMessageQueue, Wait, BeginUpdate, LockFeed,
         EndOfRun, SkipMessage, RejectMessage, StoreMessage, Commit, Abort, Rollback, Sent
    <3> QED BY <3>1, <3>2
  <2>4. CASE TopicSteps
    BY <2>4 DEF TopicSteps, MT!Next
  <2>5. CASE BusReceives
    BY <1>2, <2>5 DEF BusReceives, Chan
  <2> QED BY <1>4, <2>1, <2>2, <2>3, <2>4, <2>5 DEF FeedSteps
<1>5. CASE PeerSteps
  BY <1>1, <1>5 DEF PeerSteps, PeerAdds, AddMessage
<1>6. ASSUME NEW p \in Call, Publish(p) PROVE [MT!Next]_(MT!tvars)
  <2>1. CASE ReadLatest(p) \/ AddOwn(p)
    BY <1>1, <2>1 DEF ReadLatest, AddOwn, AddMessage, vars, feedVars
  <2>2. CASE RegisterCall(p)
    BY <1>3, <2>2 DEF RegisterCall, ChanInv, Chan
  <2>3. CASE Await(p) \/ UnregisterCall(p)
    BY <1>2, <2>3 DEF Await, UnregisterCall, Chan
  <2> QED BY <1>6, <2>1, <2>2, <2>3 DEF Publish
<1>7. ASSUME NEW w \in Stream, Follow(w) \/ \E seq \in Start : StartFollow(w, seq)
      PROVE  [MT!Next]_(MT!tvars)
  <2>1. CASE RegisterStream(w)
    BY <1>3, <2>1 DEF RegisterStream, ChanInv, Chan
  <2>2. CASE LiveMessage(w) \/ Done(w) \/ HandlerFails(w)
    BY <1>1, <1>2, <2>2 DEF LiveMessage, Done, HandlerFails, Chan, vars, feedVars
  <2>3. CASE CheckLatest(w) \/ GetNext(w) \/ LiveNil(w) \/ \E seq \in Start : StartFollow(w, seq)
    BY <1>1, <2>3 DEF CheckLatest, GetNext, LiveNil, StartFollow, vars, feedVars
  <2> QED BY <1>7, <2>1, <2>2, <2>3 DEF Follow
<1>8. CASE UNCHANGED pvars
  BY <1>1, <1>8 DEF pvars, vars, feedVars
<1> QED BY <1>4, <1>5, <1>6, <1>7, <1>8 DEF PNext, CallSteps, StreamSteps

(* An unused channel stays unused until someone registers it.              *)
LEMMA UnusedStays ==
  ASSUME TP!RegInv, sendOpen[Self], NEW d \in Chan, MT!Unused(d),
         \/ MT!Process(Self)
         \/ \E c \in Chan : MT!Receive(c) \/ MT!Unregister(Self, c)
         \/ \E c \in Chan \ {d} : \E b \in BOOLEAN : MT!Register(Self, c, b)
  PROVE  MT!Unused(d)'
<1> USE PubSubAssumption DEF MT!Unused
<1>1. /\ at[Self] # Nil => at[Self] \in DOMAIN recps[Self]
      /\ DOMAIN recps = Feed
  BY DEF TP!RegInv, TP!LoopInv
<1>2. CASE UNCHANGED <<recps, closed>>
  BY <1>2
<1>3. CASE MT!Evict(Self)
  <2>1. d # at[Self]
    BY <1>1, <1>3 DEF MT!Evict
  <2>2. \A f \in Feed : DOMAIN recps'[f] \subseteq DOMAIN recps[f]
    BY <1>1, <1>3 DEF MT!Evict, MT!Without
  <2> QED BY <1>3, <2>1, <2>2 DEF MT!Evict
<1>4. ASSUME NEW c \in Chan, MT!Unregister(Self, c) PROVE MT!Unused(d)'
  <2>1. \A f \in Feed : DOMAIN recps'[f] \subseteq DOMAIN recps[f]
    BY <1>1, <1>4 DEF MT!Unregister, MT!Without
  <2> QED BY <1>4, <2>1 DEF MT!Unregister
<1>5. ASSUME NEW c \in Chan \ {d}, NEW b \in BOOLEAN, MT!Register(Self, c, b)
      PROVE  MT!Unused(d)'
  <2>1. \A f \in Feed : DOMAIN recps'[f] \subseteq DOMAIN recps[f] \cup {c}
    BY <1>1, <1>5 DEF MT!Register
  <2> QED BY <1>5, <2>1 DEF MT!Register
<1>6. ASSUME MT!Process(Self), ~MT!Evict(Self) PROVE UNCHANGED <<recps, closed>>
  BY <1>6 DEF MT!Process, MT!Take, MT!Lock, MT!Deliver, MT!Unlock, MT!Stop,
     MT!NextRecp, MT!chanVars
<1>7. ASSUME NEW c \in Chan, MT!Receive(c) PROVE UNCHANGED <<recps, closed>>
  BY <1>7 DEF MT!Receive, MT!topicVars
<1> QED BY <1>2, <1>3, <1>4, <1>5, <1>6, <1>7

LEMMA ChanStep ==
  ASSUME TP!RegInv, ChanInv, CallInv, TypeOK, [PNext]_pvars
  PROVE  ChanInv'
<1> USE PubSubAssumption DEF ChanInv, Chan
<1>0. sendOpen[Self]
  OBVIOUS
<1>1. ASSUME UNCHANGED <<recps, closed>> PROVE \A d : MT!Unused(d) => MT!Unused(d)'
  BY <1>1 DEF MT!Unused
<1>2. CASE FeedSteps
  <2>1. UNCHANGED <<call, stream, sendOpen>>
    BY <1>2 DEF FeedSteps, Open, Drainer, Processor, TopicSteps, BusReceives, callVars, streamVars,
       topicOnly, MT!Process, MT!Register, MT!Receive, MT!topicVars, MT!Take,
       MT!Lock, MT!Deliver, MT!Evict, MT!Unlock, MT!Stop, MT!NextRecp
  <2>2. CASE Open
    <3>1. IsOpen(Self)'
      BY <2>2 DEF Open, GetFeed, IsOpen, TypeOK
    <3>2. \A d \in Call \cup Stream : MT!Unused(d) => MT!Unused(d)'
      BY <1>0, <2>2, UnusedStays DEF Open
    <3> QED BY <2>1, <3>1, <3>2
  <2>3. CASE Drainer \/ Processor
    <3>1. UNCHANGED <<recps, closed>>
      BY <2>3 DEF Drainer, Processor, topicOnly
    <3>2. IsOpen(Self) <=> IsOpen(Self)'
      BY <2>3 DEF Drainer, Processor, IsOpen, TypeOK, Drain, DrainRecv, DrainPut, DrainSignal,
         ProcessMessageQueue, Wait, BeginUpdate, LockFeed, EndOfRun, SkipMessage, RejectMessage,
         StoreMessage, Takes, Commit, Abort, Rollback, Send, Sent, Goto
    <3> QED BY <1>1, <2>1, <3>1, <3>2
  <2>4. CASE TopicSteps \/ BusReceives
    <3>1. \A d \in Chan : MT!Unused(d) => MT!Unused(d)'
      BY <1>0, <2>4, UnusedStays DEF TopicSteps, BusReceives
    <3>2. IsOpen(Self) <=> IsOpen(Self)'
      BY <2>4 DEF TopicSteps, BusReceives, storeOnly, IsOpen
    <3> QED BY <2>1, <3>1, <3>2
  <2> QED BY <1>2, <2>2, <2>3, <2>4 DEF FeedSteps
<1>3. CASE PeerSteps
  <2>1. UNCHANGED <<call, stream, sendOpen, recps, closed, proc>>
    BY <1>3 DEF PeerSteps, PeerAdds, AddMessage, callVars, streamVars, topicOnly
  <2> QED BY <1>1, <2>1 DEF IsOpen
<1>4. ASSUME NEW p \in Call, Publish(p) PROVE ChanInv'
  <2>1. UNCHANGED <<stream, sendOpen, proc>>
    BY <1>4 DEF Publish, ReadLatest, RegisterCall, AddOwn, Await, UnregisterCall, streamVars,
       topicOnly, storeOnly, vars, feedVars, AddMessage, MT!Register, MT!Receive,
       MT!Unregister, MT!topicVars
  <2>2. CASE ReadLatest(p) \/ AddOwn(p)
    <3>1. UNCHANGED <<recps, closed>>
      BY <2>2 DEF ReadLatest, AddOwn, topicOnly
    <3>2. \A q \in Call : call'[q] \in {"latest", "register"} => call[q] \in {"latest", "register"}
      BY <2>2 DEF ReadLatest, AddOwn, CallInv
    <3> QED BY <1>1, <2>1, <3>1, <3>2 DEF IsOpen
  <2>3. CASE RegisterCall(p)
    <3>1. \A d \in Chan \ {p} : MT!Unused(d) => MT!Unused(d)'
      BY <1>0, <2>3, UnusedStays DEF RegisterCall
    <3>2. \A q \in Call : call'[q] \in {"latest", "register"} =>
                      call[q] \in {"latest", "register"} /\ q # p
      BY <2>3 DEF RegisterCall, CallInv
    <3> QED BY <2>1, <3>1, <3>2 DEF IsOpen
  <2>4. CASE Await(p) \/ UnregisterCall(p)
    <3>1. \A d \in Chan : MT!Unused(d) => MT!Unused(d)'
      BY <1>0, <2>4, UnusedStays DEF Await, UnregisterCall
    <3>2. \A q \in Call : call'[q] \in {"latest", "register"} => call[q] \in {"latest", "register"}
      BY <2>4 DEF Await, UnregisterCall, CallInv
    <3> QED BY <2>1, <3>1, <3>2 DEF IsOpen
  <2> QED BY <1>4, <2>2, <2>3, <2>4 DEF Publish
<1>5. ASSUME NEW w \in Stream, Follow(w) \/ \E seq \in Start : StartFollow(w, seq) PROVE ChanInv'
  <2> DEFINE Before == {"off", "check", "get", "register"}
  <2>1. UNCHANGED <<call, sendOpen, proc>>
    BY <1>5 DEF Follow, StartFollow, CheckLatest, GetNext, RegisterStream, LiveMessage, LiveNil,
       Done, HandlerFails, callVars, topicOnly, storeOnly, vars, feedVars, MT!Register,
       MT!Receive, MT!Unregister, MT!topicVars
  <2>2. stream' \in [Stream -> Before \cup {"live", "returned"}]
    BY <1>5 DEF Follow, StartFollow, CheckLatest, GetNext, RegisterStream, LiveMessage, LiveNil,
       Done, HandlerFails, GotoStream
  <2>3. \A v \in Stream : stream'[v] \in Before => stream[v] \in Before
    BY <1>5 DEF Follow, StartFollow, CheckLatest, GetNext, RegisterStream, LiveMessage, LiveNil,
       Done, HandlerFails, GotoStream
  <2>4. CASE RegisterStream(w)
    <3>1. \A d \in Chan \ {w} : MT!Unused(d) => MT!Unused(d)'
      BY <1>0, <2>4, UnusedStays DEF RegisterStream
    <3>2. stream'[w] = "live"
      BY <2>4 DEF RegisterStream, GotoStream
    <3> QED BY <2>1, <2>2, <2>3, <3>1, <3>2 DEF IsOpen
  <2>5. CASE UNCHANGED topicOnly
    BY <1>1, <2>1, <2>2, <2>3, <2>5 DEF topicOnly, IsOpen
  <2>6. CASE ~RegisterStream(w) /\ ~UNCHANGED topicOnly
    <3>1. MT!Receive(w) \/ MT!Unregister(Self, w)
      BY <1>5, <2>6 DEF Follow, StartFollow, CheckLatest, GetNext, LiveMessage, LiveNil, Done,
         HandlerFails
    <3>2. \A d \in Chan : MT!Unused(d) => MT!Unused(d)'
      BY <1>0, <3>1, UnusedStays
    <3> QED BY <2>1, <2>2, <2>3, <3>2 DEF IsOpen
  <2> QED BY <2>4, <2>5, <2>6
<1>6. CASE UNCHANGED pvars
  BY <1>1, <1>6 DEF pvars, vars, feedVars, topicOnly, callVars, streamVars, IsOpen
<1> QED BY <1>2, <1>3, <1>4, <1>5, <1>6 DEF PNext, CallSteps, StreamSteps

(* What is known of every state of the composition by now.                 *)
PartsInv == IInv /\ AnnInv /\ CallInv /\ TP!RegInv /\ ChanInv

LEMMA PartsHold == PSpec => []PartsInv
<1>1. PSpec => [](IInv /\ AnnInv)
  BY ComposesStore, Inductive, Announces, PTL DEF IsFeedStore
<1>2. PInit => CallInv /\ TP!RegInv /\ ChanInv
  BY CallInit, TopicInit
<1>3. IInv /\ AnnInv /\ CallInv /\ TP!RegInv /\ ChanInv /\ [PNext]_pvars => TP!RegInv' /\ ChanInv'
  <2> SUFFICES ASSUME IInv, AnnInv, CallInv, TP!RegInv, ChanInv, [PNext]_pvars
               PROVE  TP!RegInv' /\ ChanInv'
    OBVIOUS
  <2>1. TypeOK
    BY DEF IInv
  <2>2. [TP!Next]_(TP!tvars)
    BY <2>1, StepIsTopic, SameNext
  <2> QED BY <2>1, <2>2, ChanStep, TopicConstants, TP!NextRegInv
<1> QED BY <1>1, <1>2, <1>3, CallStep, PTL DEF PSpec, PartsInv

(* The composition is a MessageTopic: the feed sends each message once and *)
(* never to a full channel, and no channel is registered a second time     *)
(* (feeds.go:339-341, 514; follower.go:21).                                *)
THEOREM ComposesTopic == PSpec => IsMessageTopic
<1>1. PInit => MT!Init
  BY DEF PInit
<1>2. PartsInv /\ [PNext]_pvars => [MT!Next]_(MT!tvars)
  BY StepIsTopic DEF PartsInv, IInv
<1> QED BY <1>1, <1>2, PartsHold, PTL DEF PSpec, IsMessageTopic, MT!Spec

-----------------------------------------------------------------------------
(* What calls of PublishMessage return. *)

(* What has come through the topic has been committed.                     *)
ReturnInv ==
  /\ \A c \in Chan : Items(buf[c]) \subseteq db.log[Self]
  /\ ReturnedIsStored

LEMMA LogGrows ==
  ASSUME PartsInv, [PNext]_pvars
  PROVE  db.log[Self] \subseteq db'.log[Self]
BY StepIsStore, CommitAppends, PubSubAssumption DEF PartsInv, AppendStep

LEMMA BufMoves ==
  ASSUME [PNext]_pvars
  PROVE  \/ UNCHANGED buf
         \/ TopicSteps /\ MT!Deliver(Self)
         \/ \E c \in Chan : MT!Receive(c)
<1> USE DEF Chan
<1>1. CASE TopicSteps
  BY <1>1 DEF TopicSteps, MT!Process, MT!Take, MT!Lock, MT!Evict, MT!Unlock,
     MT!Stop, MT!NextRecp, MT!chanVars
<1>2. CASE Open \/ Drainer \/ Processor \/ BusReceives \/ PeerSteps
  BY <1>2 DEF Open, Drainer, Processor, BusReceives, PeerSteps, PeerAdds, topicOnly, MT!Register
<1>3. ASSUME NEW p \in Call, Publish(p)
      PROVE  UNCHANGED buf \/ MT!Receive(p)
  BY <1>3 DEF Publish, ReadLatest, RegisterCall, AddOwn, Await, UnregisterCall, topicOnly,
     MT!Register, MT!Unregister
<1>4. ASSUME NEW w \in Stream, Follow(w) \/ \E seq \in Start : StartFollow(w, seq)
      PROVE  UNCHANGED buf \/ MT!Receive(w)
  BY <1>4 DEF Follow, StartFollow, CheckLatest, GetNext, RegisterStream, LiveMessage, LiveNil,
     Done, HandlerFails, topicOnly, MT!Register, MT!Unregister
<1>5. CASE UNCHANGED pvars
  BY <1>5 DEF pvars, topicOnly
<1> QED BY <1>1, <1>2, <1>3, <1>4, <1>5 DEF PNext, FeedSteps, CallSteps, StreamSteps

LEMMA TopicTyped ==
  ASSUME TP!RegInv
  PROVE  /\ buf \in [Chan -> Seq(Msg)]
         /\ sendChan[Self] \in Seq(Msg) /\ heard[Self] \in Seq(Msg)
         /\ at \in [Feed -> Chan \cup {Nil}] /\ todo \in [Feed -> SUBSET Chan]
         /\ process \in [Feed -> {"range", "lock", "send", "done"}]
         /\ DOMAIN recps = Feed
         /\ TP!LoopInv(Self)
BY PubSubAssumption DEF TP!RegInv, TP!TypeOK

(* The message that the topic is handing out has been committed.           *)
LEMMA CurrentStored ==
  ASSUME PartsInv, process[Self] \in {"lock", "send"}
  PROVE  MT!Current(Self) \in Msg \cap db.log[Self]
<1> DEFINE h == heard[Self]
<1>1. h \in Seq(Msg) /\ h # <<>>
  BY TopicTyped DEF PartsInv, TP!LoopInv
<1>2. MT!Current(Self) \in Items(h) /\ MT!Current(Self) \in Msg
  BY <1>1 DEF MT!Current, Items
<1>3. TypeOK /\ AnnouncedInv(Self)
  BY PubSubAssumption DEF PartsInv, IInv, AnnInv
<1>4. IsOpen(Self)
  BY <1>1, <1>3 DEF AnnouncedInv
<1>5. Items(h) \subseteq Items(Announced(Self))
  <2>1. /\ sendChan[Self] \in Seq(Msg) /\ h \o sendChan[Self] \in Seq(Msg)
        /\ newMsgs[Self] \in Seq(Msg) /\ <<>> \in Seq(Msg)
    BY <1>3, FeedTypes, PubSubAssumption
  <2>2. Items(h) \subseteq Items(h \o sendChan[Self])
    BY <1>1, <2>1, ItemsOfConcat
  <2>3. Items(h \o sendChan[Self]) \subseteq Items(Announced(Self))
    BY <2>1, ItemsOfConcat DEF Announced
  <2> QED BY <2>2, <2>3
<1> QED BY <1>2, <1>3, <1>4, <1>5 DEF AnnouncedInv

LEMMA ReturnStep ==
  ASSUME PartsInv, ReturnInv, [PNext]_pvars
  PROVE  ReturnInv'
<1>0. TP!RegInv /\ CallInv /\ ChanInv
  BY DEF PartsInv
<1>1. ASSUME NEW c \in Chan PROVE Items(buf'[c]) \subseteq db'.log[Self]
  <2>1. CASE UNCHANGED buf
    BY <2>1, LogGrows DEF ReturnInv
  <2>2. CASE MT!Deliver(Self)
    <3>1. process[Self] = "send"
      BY <1>0, <2>2, TopicTyped DEF MT!Deliver, TP!LoopInv
    <3>2. MT!Current(Self) \in Msg \cap db.log[Self]
      BY <3>1, CurrentStored
    <3>3. buf'[c] = buf[c] \/ buf'[c] = Append(buf[c], MT!Current(Self))
      BY <1>0, <2>2, TopicTyped DEF MT!Deliver
    <3>4. Items(buf'[c]) \subseteq Items(buf[c]) \cup {MT!Current(Self)}
      <4>1. buf[c] \in Seq(Msg)
        BY <1>0, TopicTyped
      <4>2. Items(Append(buf[c], MT!Current(Self))) = Items(buf[c]) \cup {MT!Current(Self)}
        BY <3>2, <4>1, ItemsOfAppend
      <4> QED BY <3>3, <4>2
    <3> QED BY <3>2, <3>4, LogGrows DEF ReturnInv
  <2>3. ASSUME NEW d \in Chan, MT!Receive(d) PROVE Items(buf'[c]) \subseteq Items(buf[c])
    <3>1. buf'[c] = buf[c] \/ (buf[c] # <<>> /\ buf'[c] = Tail(buf[c]))
      BY <1>0, <2>3, TopicTyped DEF MT!Receive
    <3> QED BY <1>0, <3>1, TopicTyped, ItemsOfTail
  <2> QED BY <2>1, <2>2, <2>3, BufMoves, LogGrows DEF ReturnInv
<1>2. ASSUME NEW p \in Call, call'[p] \in {"unregister", "returned"}
      PROVE  signed'[p] \in db'.log[Self]
  <2>1. CASE UNCHANGED callVars
    BY <1>2, <2>1, LogGrows DEF ReturnInv, ReturnedIsStored, callVars
  <2>2. ASSUME NEW q \in Call, Publish(q) PROVE signed'[p] \in db'.log[Self]
    <3>1. CASE call[p] \in {"unregister", "returned"}
      <4>1. signed'[p] = signed[p]
        BY <1>0, <2>2, <3>1 DEF Publish, ReadLatest, RegisterCall, AddOwn, Await, UnregisterCall,
           CallInv
      <4> QED BY <3>1, <4>1, LogGrows DEF ReturnInv, ReturnedIsStored
    <3>2. CASE call[p] \notin {"unregister", "returned"}
      <4>1. Await(p)
        BY <1>0, <1>2, <2>2, <3>2 DEF Publish, ReadLatest, RegisterCall, AddOwn, Await,
           UnregisterCall, CallInv
      <4>2. /\ buf[p] # <<>> /\ Head(buf[p]).id = signed[p].id
            /\ signed'[p] = signed[p] /\ signed[p] \in Msg /\ signed[p].id # ZeroRef
        BY <1>0, <1>2, <4>1 DEF Await, MT!Receive, CallInv
      <4>3. p \in Chan /\ buf[p] \in Seq(Msg)
        BY <1>0, TopicTyped DEF Chan
      <4>4. Head(buf[p]) \in Msg /\ Head(buf[p]) \in Items(buf[p])
        BY <4>2, <4>3, ItemsOfTail
      <4>5. Head(buf[p]) = signed[p]
        BY <4>2, <4>4, MessageAssumption
      <4> QED BY <4>2, <4>3, <4>4, <4>5, LogGrows DEF ReturnInv
    <3> QED BY <3>1, <3>2
  <2>3. ASSUME FeedSteps \/ PeerSteps \/ StreamSteps PROVE UNCHANGED callVars
    BY <2>3 DEF FeedSteps, Open, Drainer, Processor, TopicSteps, BusReceives, PeerSteps, PeerAdds,
       StreamSteps, StartFollow, Follow, CheckLatest, GetNext, RegisterStream, LiveMessage,
       LiveNil, Done, HandlerFails
  <2> QED BY <2>1, <2>2, <2>3 DEF PNext, CallSteps, pvars
<1> QED BY <1>1, <1>2 DEF ReturnInv, ReturnedIsStored

(* A call of PublishMessage returns only when its own message is in the    *)
(* database, however many calls race for the number (feeds.go:500-524).    *)
THEOREM ReturnsStored == PSpec => []ReturnedIsStored
<1>1. PInit => ReturnInv
  BY DEF PInit, MT!Init, ReturnInv, ReturnedIsStored, Items
<1>2. PartsInv /\ ReturnInv /\ [PNext]_pvars => ReturnInv'
  BY ReturnStep
<1>3. ReturnInv => ReturnedIsStored
  BY DEF ReturnInv
<1> QED BY <1>1, <1>2, <1>3, PartsHold, PTL DEF PSpec

-----------------------------------------------------------------------------
(* What streams are handed. *)

(* Every number a stream has passed was handed over or found missing.      *)
Passed(w) ==
  \A n \in Nat : start[w] <= n /\ n < next[w] =>
    \/ n \in skipped[w]
    \/ \E m \in Items(handed[w]) : m \in db.log[Self] /\ m.sequence = n

(* A stream that keeps SeqLock has passed all that LatestSeq counts.       *)
AtTheEnd(w) == stream[w] = "register" => proc[Self] # "loop" /\ latestSeq[Self] < next[w]

StreamTypes ==
  /\ start \in [Stream -> Nat]
  /\ next \in [Stream -> Nat]
  /\ handed \in [Stream -> Seq(Msg \cup {Nil})]
  /\ skipped \in [Stream -> SUBSET Nat]

StreamInv ==
  /\ StreamTypes
  /\ \A w \in Stream : /\ stream[w] # "off" => IsOpen(Self)
                       /\ Passed(w)
                       /\ AtTheEnd(w)

Held(w) == Items(handed[w]) \cup Items(buf[w]) \cup Pending(w)

LEMMA StreamInit == PInit => StreamInv /\ FollowCovers
<1> SUFFICES ASSUME PInit PROVE StreamInv /\ FollowCovers
  OBVIOUS
<1>1. StreamTypes
  BY DEF PInit, StreamTypes
<1>2. ASSUME NEW w \in Stream
      PROVE  stream[w] = "off" /\ next[w] = 0 /\ start[w] = 0
  BY DEF PInit
<1>3. ASSUME NEW w \in Stream PROVE Passed(w)
  BY <1>2 DEF Passed
<1> QED BY <1>1, <1>2, <1>3 DEF StreamInv, AtTheEnd, FollowCovers

LEMMA StreamTypesStep ==
  ASSUME PartsInv, StreamTypes, [PNext]_pvars
  PROVE  StreamTypes'
<1> USE DEF StreamTypes
<1>1. ASSUME UNCHANGED streamVars PROVE StreamTypes'
  BY <1>1 DEF streamVars
<1>2. ASSUME FeedSteps \/ PeerSteps \/ CallSteps PROVE UNCHANGED streamVars
  BY <1>2 DEF FeedSteps, Open, Drainer, Processor, TopicSteps, BusReceives, PeerSteps, PeerAdds,
     CallSteps, Publish, ReadLatest, RegisterCall, AddOwn, Await, UnregisterCall
<1>3. ASSUME NEW w \in Stream, Follow(w) \/ \E seq \in Start : StartFollow(w, seq)
      PROVE  StreamTypes'
  <2>1. ASSUME NEW seq \in Start, StartFollow(w, seq) PROVE StreamTypes'
    BY <2>1, PubSubAssumption DEF StartFollow
  <2>2. CASE GetNext(w)
    <3>1. GetSeq(db.log[Self], next[w]) \in Msg \cup {Nil}
      BY GetSeqType, PubSubAssumption DEF PartsInv, IInv, TypeOK, Database
    <3>2. handed' \in [Stream -> Seq(Msg \cup {Nil})]
      BY <2>2, <3>1, SendOn DEF GetNext
    <3>3. skipped' \in [Stream -> SUBSET Nat] /\ next' \in [Stream -> Nat]
      BY <2>2 DEF GetNext
    <3> QED BY <2>2, <3>2, <3>3 DEF GetNext
  <2>3. CASE LiveMessage(w)
    <3>1. Head(buf[w]) \in Msg \cup {Nil}
      <4>1. buf[w] \in Seq(Msg) /\ buf[w] # <<>>
        BY <2>3, TopicTyped DEF PartsInv, LiveMessage, MT!Receive, Chan
      <4> QED BY <4>1, ReceiveFrom
    <3>2. handed' \in [Stream -> Seq(Msg \cup {Nil})]
      BY <2>3, <3>1, SendOn DEF LiveMessage
    <3> QED BY <2>3, <3>2 DEF LiveMessage
  <2>4. CASE LiveNil(w)
    <3>1. handed' \in [Stream -> Seq(Msg \cup {Nil})]
      BY <2>4, SendOn DEF LiveNil
    <3> QED BY <2>4, <3>1 DEF LiveNil
  <2>5. CASE CheckLatest(w) \/ RegisterStream(w) \/ Done(w) \/ HandlerFails(w)
    BY <2>5 DEF CheckLatest, RegisterStream, Done, HandlerFails
  <2> QED BY <1>3, <2>1, <2>2, <2>3, <2>4, <2>5 DEF Follow
<1> QED BY <1>1, <1>2, <1>3 DEF PNext, StreamSteps, pvars

LEMMA HandedAppend ==
  ASSUME StreamTypes, NEW w \in Stream, NEW e \in Msg \cup {Nil}
  PROVE  Items(Append(handed[w], e)) = Items(handed[w]) \cup {e}
<1>1. handed[w] \in Seq(Msg \cup {Nil})
  BY DEF StreamTypes
<1> QED BY <1>1, ItemsOfAppend

(* A stream is only ever handed more.                                      *)
LEMMA HandedGrows ==
  ASSUME StreamTypes, PartsInv, [PNext]_pvars, NEW w \in Stream
  PROVE  Items(handed[w]) \subseteq Items(handed'[w])
<1>1. ASSUME NEW e \in Msg \cup {Nil}, handed'[w] = Append(handed[w], e)
      PROVE  Items(handed[w]) \subseteq Items(handed'[w])
  BY <1>1, HandedAppend
<1>2. ASSUME FeedSteps \/ PeerSteps \/ CallSteps PROVE UNCHANGED streamVars
  BY <1>2 DEF FeedSteps, Open, Drainer, Processor, TopicSteps, BusReceives, PeerSteps, PeerAdds,
     CallSteps, Publish, ReadLatest, RegisterCall, AddOwn, Await, UnregisterCall
<1>3. ASSUME NEW v \in Stream, Follow(v) \/ \E seq \in Start : StartFollow(v, seq)
      PROVE  handed'[w] = handed[w] \/ \E e \in Msg \cup {Nil} : handed'[w] = Append(handed[w], e)
  <2>1. CASE GetNext(v)
    <3>1. GetSeq(db.log[Self], next[v]) \in Msg \cup {Nil}
      BY GetSeqType, PubSubAssumption DEF PartsInv, IInv, TypeOK, Database
    <3> QED BY <2>1, <3>1 DEF GetNext, StreamTypes
  <2>2. CASE LiveMessage(v)
    <3>1. buf[v] \in Seq(Msg) /\ buf[v] # <<>>
      BY <2>2, TopicTyped DEF PartsInv, LiveMessage, MT!Receive, Chan
    <3>2. Head(buf[v]) \in Msg \cup {Nil}
      BY <3>1, ReceiveFrom
    <3> QED BY <2>2, <3>2 DEF LiveMessage, StreamTypes
  <2>3. CASE LiveNil(v)
    BY <2>3 DEF LiveNil, StreamTypes
  <2>4. CASE CheckLatest(v) \/ RegisterStream(v) \/ Done(v) \/ HandlerFails(v)
             \/ \E seq \in Start : StartFollow(v, seq)
    BY <2>4 DEF CheckLatest, RegisterStream, Done, HandlerFails, StartFollow
  <2> QED BY <1>3, <2>1, <2>2, <2>3, <2>4 DEF Follow
<1>4. CASE StreamSteps
  <2>1. handed'[w] = handed[w] \/ \E e \in Msg \cup {Nil} : handed'[w] = Append(handed[w], e)
    BY <1>3, <1>4 DEF StreamSteps
  <2> QED BY <1>1, <2>1
<1> QED BY <1>2, <1>4 DEF PNext, pvars, streamVars

LEMMA PassedStep ==
  ASSUME PartsInv, StreamInv, [PNext]_pvars, NEW w \in Stream
  PROVE  Passed(w)'
<1>0. StreamTypes /\ Passed(w)
  BY DEF StreamInv
<1>1. Items(handed[w]) \subseteq Items(handed'[w]) /\ db.log[Self] \subseteq db'.log[Self]
  BY <1>0, HandedGrows, LogGrows
<1>2. CASE start'[w] = start[w] /\ next'[w] = next[w] /\ skipped[w] \subseteq skipped'[w]
  BY <1>0, <1>1, <1>2 DEF Passed
<1>3. CASE GetNext(w)
  <2> DEFINE m == GetSeq(db.log[Self], next[w])
  <2>1. start'[w] = start[w] /\ next'[w] = next[w] + 1 /\ skipped[w] \subseteq skipped'[w]
    BY <1>0, <1>3 DEF GetNext, StreamTypes
  <2>2. \/ next[w] \in skipped'[w]
        \/ \E o \in Items(handed'[w]) : o \in db'.log[Self] /\ o.sequence = next[w]
    <3>1. CASE m = Nil
      BY <1>0, <1>3, <3>1 DEF GetNext, StreamTypes
    <3>2. CASE m # Nil
      <4>1. m \in db.log[Self] /\ m.sequence = next[w]
        BY <3>2 DEF GetSeq
      <4>2. m \in Msg
        BY <4>1, PubSubAssumption DEF PartsInv, IInv, TypeOK, Database
      <4>3. handed'[w] = Append(handed[w], m) /\ handed[w] \in Seq(Msg \cup {Nil})
        BY <1>0, <1>3, <3>2 DEF GetNext, StreamTypes
      <4>4. m \in Items(handed'[w])
        BY <4>2, <4>3, ItemsOfAppend
      <4> QED BY <1>1, <4>1, <4>4
    <3> QED BY <3>1, <3>2
  <2>3. ASSUME NEW n \in Nat, n < next[w] + 1 PROVE n < next[w] \/ n = next[w]
    BY <1>0, <2>3 DEF StreamTypes
  <2> QED BY <1>0, <1>1, <2>1, <2>2, <2>3 DEF Passed
<1>4. ASSUME NEW seq \in Start, StartFollow(w, seq) PROVE Passed(w)'
  <2>1. start'[w] = next'[w] /\ next'[w] \in Nat
    BY <1>0, <1>4, PubSubAssumption DEF StartFollow, StreamTypes
  <2> QED BY <2>1 DEF Passed
<1>5. ASSUME FeedSteps \/ PeerSteps \/ CallSteps \/ UNCHANGED pvars PROVE UNCHANGED streamVars
  BY <1>5 DEF FeedSteps, Open, Drainer, Processor, TopicSteps, BusReceives, PeerSteps, PeerAdds,
     CallSteps, Publish, ReadLatest, RegisterCall, AddOwn, Await, UnregisterCall, pvars
<1>6. ASSUME NEW v \in Stream, Follow(v) \/ \E seq \in Start : StartFollow(v, seq)
      PROVE  \/ start'[w] = start[w] /\ next'[w] = next[w] /\ skipped[w] \subseteq skipped'[w]
             \/ GetNext(w) \/ \E seq \in Start : StartFollow(w, seq)
  BY <1>0, <1>6 DEF Follow, StartFollow, CheckLatest, GetNext, RegisterStream, LiveMessage,
     LiveNil, Done, HandlerFails, StreamTypes
<1> QED BY <1>2, <1>3, <1>4, <1>5, <1>6 DEF PNext, StreamSteps, streamVars

LEMMA EndStep ==
  ASSUME PartsInv, StreamInv, [PNext]_pvars, NEW w \in Stream
  PROVE  AtTheEnd(w)' /\ (stream'[w] # "off" => IsOpen(Self)')
<1>0. /\ TypeOK /\ StreamTypes /\ AtTheEnd(w)
      /\ stream \in [Stream -> {"off", "check", "get", "register", "live", "returned"}]
      /\ stream[w] # "off" => IsOpen(Self)
  BY DEF PartsInv, IInv, StreamInv, ChanInv
<1> USE PubSubAssumption DEF AtTheEnd, IsOpen
<1>1. CASE UNCHANGED <<proc, latestSeq, stream, next>>
  BY <1>0, <1>1
<1>2. CASE Open
  BY <1>0, <1>2 DEF Open, GetFeed, streamVars, TypeOK
<1>3. CASE Processor
  <2>1. UNCHANGED <<stream, next>>
    BY <1>3 DEF Processor, streamVars
  <2>2. IsOpen(Self)'
    BY <1>0, <1>3 DEF Processor, ProcessMessageQueue, Wait, BeginUpdate, LockFeed, EndOfRun,
       SkipMessage, RejectMessage, StoreMessage, Takes, Commit, Abort, Rollback, Send, Sent, Goto,
       TypeOK
  <2>3. CASE stream[w] = "register"
    <3>1. ~SeqLockFree /\ proc[Self] \notin {"loop", "update"}
      BY <1>0, <1>3, <2>3 DEF SeqLockFree, Processor
    <3>2. proc'[Self] # "loop" /\ latestSeq' = latestSeq
      BY <1>0, <1>3, <3>1 DEF Processor, ProcessMessageQueue, Wait, BeginUpdate, LockFeed,
         EndOfRun, SkipMessage, RejectMessage, StoreMessage, Takes, Commit, Abort, Rollback, Send,
         Sent, Goto, TypeOK
    <3> QED BY <1>0, <2>1, <2>2, <2>3, <3>2
  <2> QED BY <2>1, <2>2, <2>3
<1>4. CASE Drainer
  BY <1>0, <1>4 DEF Drainer, Drain, DrainRecv, DrainPut, DrainSignal, streamVars, TypeOK
<1>5. CASE TopicSteps \/ BusReceives \/ PeerSteps \/ CallSteps \/ UNCHANGED pvars
  <2>1. UNCHANGED <<proc, latestSeq, streamVars>>
    BY <1>5 DEF TopicSteps, BusReceives, PeerSteps, PeerAdds, AddMessage, CallSteps, Publish,
       ReadLatest, RegisterCall, AddOwn, Await, UnregisterCall, storeOnly, pvars, vars, feedVars
  <2> QED BY <1>1, <2>1 DEF streamVars
<1>6. ASSUME NEW v \in Stream, Follow(v) \/ \E seq \in Start : StartFollow(v, seq)
      PROVE  AtTheEnd(w)' /\ (stream'[w] # "off" => IsOpen(Self)')
  <2>1. UNCHANGED <<proc, latestSeq>>
    BY <1>6 DEF Follow, StartFollow, CheckLatest, GetNext, RegisterStream, LiveMessage, LiveNil,
       Done, HandlerFails, storeOnly, vars, feedVars
  <2>2. CASE v # w
    <3>1. stream'[w] = stream[w] /\ next'[w] = next[w]
      BY <1>0, <1>6, <2>2 DEF Follow, StartFollow, CheckLatest, GetNext, RegisterStream,
         LiveMessage, LiveNil, Done, HandlerFails, GotoStream, StreamTypes
    <3> QED BY <1>0, <2>1, <3>1
  <2>3. CASE v = w
    <3>1. IsOpen(Self)
      BY <1>0, <1>6, <2>3 DEF Follow, StartFollow, CheckLatest, GetNext, RegisterStream,
         LiveMessage, LiveNil, Done, HandlerFails
    <3>2. CASE CheckLatest(w)
      <4>1. next'[w] = next[w] /\ latestSeq[Self] \in Nat /\ next[w] \in Nat
        BY <1>0, <3>2 DEF CheckLatest, StreamTypes, TypeOK
      <4>2. stream'[w] = IF latestSeq[Self] >= next[w] THEN "get" ELSE "register"
        BY <1>0, <3>2 DEF CheckLatest, GotoStream
      <4>3. proc[Self] # "loop"
        BY <3>2 DEF CheckLatest
      <4> QED BY <2>1, <3>1, <4>1, <4>2, <4>3
    <3>3. CASE ~CheckLatest(w)
      <4>1. stream'[w] # "register"
        BY <1>0, <1>6, <2>3, <3>3 DEF Follow, StartFollow, GetNext, RegisterStream, LiveMessage,
           LiveNil, Done, HandlerFails, GotoStream
      <4> QED BY <2>1, <3>1, <4>1
    <3> QED BY <3>2, <3>3
  <2> QED BY <2>2, <2>3
<1> QED BY <1>2, <1>3, <1>4, <1>5, <1>6 DEF PNext, FeedSteps, StreamSteps

-----------------------------------------------------------------------------
(* Between the database and the topic nothing is lost.  In what follows w  *)
(* is a live stream that is registered, and stays so.                      *)

Dealing(w) == process[Self] = "lock" \/ w \in todo[Self] \cup {at[Self]}

(* Commit puts the new messages among those that wait, Send moves them.    *)
LEMMA ProcessorHolds ==
  ASSUME PartsInv, Processor, NEW w \in Stream
  PROVE  Held(w) \cup (db'.log[Self] \ db.log[Self]) \subseteq Held(w)'
<1>0. TypeOK /\ NewMsgsInv(Self) /\ newMsgs[Self] \in Seq(Msg) /\ sendChan[Self] \in Seq(Msg)
  BY PubSubAssumption DEF PartsInv, IInv, TypeOK, AnnInv
<1>1. UNCHANGED <<process, todo, at, buf, handed>>
  BY DEF Processor, topicOnly, streamVars
<1>2. CASE Commit(Self)
  <2>1. /\ proc[Self] = "commit" /\ proc'[Self] = "send" /\ db' = tx
        /\ UNCHANGED <<newMsgs, sendChan, heard>>
    BY <1>0, <1>2, PubSubAssumption DEF Commit, Goto, TypeOK
  <2>2. Items(newMsgs[Self]) = tx.log[Self] \ db.log[Self]
    BY <1>0, <2>1 DEF NewMsgsInv, MayCommit
  <2> QED BY <1>1, <2>1, <2>2 DEF Held, Pending
<1>3. CASE Send(Self)
  <2>1. /\ proc[Self] = "send" /\ newMsgs[Self] # <<>>
        /\ newMsgs'[Self] = Tail(newMsgs[Self])
        /\ sendChan'[Self] = Append(sendChan[Self], Head(newMsgs[Self]))
        /\ UNCHANGED <<db, proc, heard>>
    BY <1>0, <1>3, PubSubAssumption DEF Send, TypeOK
  <2>2. Items(newMsgs[Self]) = Items(newMsgs'[Self]) \cup {Head(newMsgs[Self])}
    BY <1>0, <2>1, ItemsOfTail
  <2>3. Head(newMsgs[Self]) \in Msg
    BY <1>0, <2>1, ReceiveFrom
  <2>4. Items(sendChan'[Self]) = Items(sendChan[Self]) \cup {Head(newMsgs[Self])}
    BY <1>0, <2>1, <2>3, ItemsOfAppend
  <2> QED BY <1>1, <2>1, <2>2, <2>4 DEF Held, Pending
<1>4. CASE Sent(Self)
  <2>1. newMsgs[Self] = <<>> /\ UNCHANGED <<db, sendChan, heard>>
    BY <1>4 DEF Sent
  <2>2. Items(newMsgs[Self]) = {}
    BY <2>1, EmptyOrdered
  <2> QED BY <1>1, <2>1, <2>2 DEF Held, Pending
<1>5. CASE ~Commit(Self) /\ ~Send(Self) /\ ~Sent(Self)
  <2>1. proc[Self] # "send" /\ UNCHANGED <<db, sendChan, heard>>
    BY <1>5 DEF Processor, ProcessMessageQueue, Wait, BeginUpdate, LockFeed, EndOfRun, SkipMessage,
       RejectMessage, StoreMessage, Takes, Abort, Rollback
  <2> QED BY <1>1, <2>1 DEF Held, Pending
<1> QED BY <1>2, <1>3, <1>4, <1>5

(* The topic hands each message it has taken to whoever is registered.     *)
LEMMA TopicPassesOn ==
  ASSUME PartsInv, TopicSteps, NEW w \in Stream, w \in DOMAIN recps[Self], w \in DOMAIN recps'[Self]
  PROVE  Held(w) \subseteq Held(w)'
<1>0. /\ buf \in [Chan -> Seq(Msg)] /\ w \in Chan /\ w # Nil
      /\ sendChan \in [Feed -> Seq(Msg)] /\ heard \in [Feed -> Seq(Msg)]
      /\ at \in [Feed -> Chan \cup {Nil}] /\ todo \in [Feed -> SUBSET Chan]
      /\ process \in [Feed -> {"range", "lock", "send", "done"}]
      /\ DOMAIN recps = Feed /\ TP!LoopInv(Self) /\ Self \in Feed /\ sendOpen[Self]
  BY TopicTyped, PubSubAssumption DEF PartsInv, ChanInv, Chan, IInv, TypeOK
<1>1. UNCHANGED <<proc, newMsgs, handed>>
  BY DEF TopicSteps, storeOnly, streamVars
<1>2. CASE MT!Take(Self)
  <2> DEFINE m == Head(sendChan[Self])
  <2>1. /\ sendChan[Self] # <<>> /\ sendChan'[Self] = Tail(sendChan[Self])
        /\ heard'[Self] = Append(heard[Self], m) /\ process'[Self] = "lock"
        /\ process[Self] = "range" /\ buf' = buf
    BY <1>0, <1>2 DEF MT!Take, MT!chanVars
  <2>2. ~Dealing(w)
    BY <1>0, <2>1 DEF TP!LoopInv, Dealing
  <2>3. Items(sendChan[Self]) = Items(sendChan'[Self]) \cup {m}
    BY <1>0, <2>1, ItemsOfTail
  <2>4. heard'[Self][Len(heard'[Self])] = m
    <3>1. heard[Self] \in Seq(Msg) /\ m \in Msg
      BY <1>0, <2>1, ReceiveFrom
    <3> QED BY <2>1, <3>1
  <2> QED BY <1>1, <2>1, <2>2, <2>3, <2>4 DEF Held, Pending, Dealing
<1>3. CASE MT!Lock(Self)
  <2>1. w \in todo'[Self] /\ UNCHANGED <<sendChan, heard, buf>>
    BY <1>0, <1>3 DEF MT!Lock, MT!chanVars
  <2> QED BY <1>1, <2>1 DEF Held, Pending
<1>4. ASSUME NEW c \in Chan, MT!NextRecp(Self, c) PROVE Held(w) \subseteq Held(w)'
  <2>1. UNCHANGED <<sendChan, heard, buf, process>>
    BY <1>4 DEF MT!NextRecp, MT!chanVars
  <2>2. Dealing(w) => Dealing(w)'
    BY <1>0, <1>4 DEF MT!NextRecp, Dealing
  <2> QED BY <1>1, <2>1, <2>2 DEF Held, Pending, Dealing
<1>5. CASE MT!Deliver(Self)
  <2> DEFINE m == heard[Self][Len(heard[Self])]
  <2>1. UNCHANGED <<sendChan, heard, process, todo>> /\ at'[Self] = Nil
    BY <1>0, <1>5 DEF MT!Deliver
  <2>2. CASE at[Self] = w
    <3>1. process[Self] = "send" /\ w \notin todo[Self] /\ heard[Self] # <<>>
      BY <1>0, <2>2 DEF TP!LoopInv
    <3>2. m \in Msg
      BY <1>0, <3>1
    <3>3. buf'[w] = Append(buf[w], m) /\ buf[w] \in Seq(Msg)
      BY <1>0, <1>5, <2>2 DEF MT!Deliver, MT!Current
    <3>4. Items(buf'[w]) = Items(buf[w]) \cup {m}
      BY <3>2, <3>3, ItemsOfAppend
    <3> QED BY <1>1, <2>1, <3>4 DEF Held, Pending
  <2>3. CASE at[Self] # w
    <3>1. buf'[w] = buf[w]
      BY <1>0, <1>5, <2>3 DEF MT!Deliver
    <3>2. Dealing(w) => Dealing(w)'
      BY <2>1, <2>3 DEF Dealing
    <3> QED BY <1>1, <2>1, <3>1, <3>2 DEF Held, Pending, Dealing
  <2> QED BY <2>2, <2>3
<1>6. CASE MT!Evict(Self)
  <2>1. at[Self] # w
    BY <1>0, <1>6 DEF MT!Evict, MT!Without
  <2>2. Dealing(w) => Dealing(w)'
    BY <1>0, <1>6, <2>1 DEF MT!Evict, Dealing
  <2>3. UNCHANGED <<sendChan, heard, buf>>
    BY <1>6 DEF MT!Evict
  <2> QED BY <1>1, <2>2, <2>3 DEF Held, Pending, Dealing
<1>7. CASE MT!Unlock(Self)
  <2>1. UNCHANGED <<sendChan, heard, buf>> /\ ~Dealing(w)
    BY <1>0, <1>7 DEF MT!Unlock, MT!chanVars, Dealing
  <2> QED BY <1>1, <2>1 DEF Held, Pending, Dealing
<1>8. ~MT!Stop(Self)
  BY <1>0 DEF MT!Stop
<1> QED BY <1>2, <1>3, <1>4, <1>5, <1>6, <1>7, <1>8 DEF TopicSteps, MT!Process

(* The stream itself takes from its channel what it hands over; nobody     *)
(* else receives from that.                                                *)
LEMMA StreamHolds ==
  ASSUME PartsInv, StreamTypes, NEW w \in Stream, stream[w] = "live", stream'[w] = "live",
         Open \/ Drainer \/ BusReceives \/ PeerSteps \/ CallSteps \/ StreamSteps \/ UNCHANGED pvars
  PROVE  /\ Held(w) \subseteq Held(w)'
         /\ db' = db
<1>0. /\ buf \in [Chan -> Seq(Msg)] /\ w \in Chan
      /\ handed[w] \in Seq(Msg \cup {Nil})
      /\ TypeOK /\ stream \in [Stream -> {"off", "check", "get", "register", "live", "returned"}]
  BY TopicTyped DEF PartsInv, IInv, StreamTypes, ChanInv, Chan
<1> USE PubSubAssumption DEF Chan
<1>1. UNCHANGED <<db, sendChan, heard, newMsgs, process, todo, at>>
  BY DEF Open, GetFeed, Drainer, Drain, DrainRecv, DrainPut, DrainSignal, BusReceives, PeerSteps,
     PeerAdds, AddMessage, CallSteps, Publish, ReadLatest, RegisterCall, AddOwn, Await,
     UnregisterCall, StreamSteps, Follow, StartFollow, CheckLatest, GetNext, RegisterStream,
     LiveMessage, LiveNil, Done, HandlerFails, MT!Register, MT!Receive, MT!Unregister,
     MT!topicVars, pvars, vars, feedVars, topicOnly, storeOnly
<1>2. proc[Self] = "send" => proc'[Self] = "send"
  BY <1>0 DEF Open, GetFeed, IsOpen, Drainer, Drain, DrainRecv, DrainPut, DrainSignal, BusReceives,
     PeerSteps, PeerAdds, AddMessage, CallSteps, Publish, ReadLatest, RegisterCall, AddOwn, Await,
     UnregisterCall, StreamSteps, Follow, StartFollow, CheckLatest, GetNext, RegisterStream,
     LiveMessage, LiveNil, Done, HandlerFails, pvars, vars, feedVars, storeOnly, TypeOK
<1>3. Pending(w) \subseteq Pending(w)'
  BY <1>1, <1>2 DEF Pending
<1>4. CASE LiveMessage(w)
  <2>1. buf[w] # <<>> /\ buf'[w] = Tail(buf[w]) /\ handed'[w] = Append(handed[w], Head(buf[w]))
    BY <1>0, <1>4 DEF LiveMessage, MT!Receive, StreamTypes
  <2>2. Items(buf[w]) = Items(buf'[w]) \cup {Head(buf[w])}
    BY <1>0, <2>1, ItemsOfTail
  <2>3. Head(buf[w]) \in Msg \cup {Nil}
    BY <1>0, <2>1, ReceiveFrom
  <2>4. Items(handed'[w]) = Items(handed[w]) \cup {Head(buf[w])}
    BY <2>1, <2>3, HandedAppend
  <2> QED BY <1>1, <1>3, <2>2, <2>4 DEF Held
<1>5. CASE LiveNil(w)
  <2>1. /\ buf' = buf
        /\ handed'[w] = handed[w] \/ handed'[w] = Append(handed[w], Nil)
    BY <1>5 DEF LiveNil, StreamTypes, topicOnly
  <2>2. Items(Append(handed[w], Nil)) = Items(handed[w]) \cup {Nil}
    BY HandedAppend
  <2> QED BY <1>1, <1>3, <2>1, <2>2 DEF Held
<1>6. CASE ~LiveMessage(w) /\ ~LiveNil(w)
  <2> DEFINE Same == buf'[w] = buf[w] /\ handed'[w] = handed[w]
  <2>1. ASSUME NEW c \in Chan, c # w, MT!Receive(c) PROVE buf'[w] = buf[w]
    BY <1>0, <2>1 DEF MT!Receive
  <2>2. ASSUME Open \/ Drainer \/ PeerSteps \/ UNCHANGED pvars PROVE Same
    BY <2>2 DEF Open, Drainer, PeerSteps, PeerAdds, MT!Register, topicOnly, streamVars, pvars
  <2>3. ASSUME BusReceives PROVE Same
    BY <2>1, <2>3 DEF BusReceives, streamVars
  <2>4. ASSUME NEW p \in Call, Publish(p) PROVE Same
    <3>1. p \in Chan /\ p # w /\ handed' = handed
      BY <2>4 DEF Publish, ReadLatest, RegisterCall, AddOwn, Await, UnregisterCall, streamVars
    <3>2. CASE Await(p)
      BY <2>1, <3>1, <3>2 DEF Await
    <3>3. CASE ~Await(p)
      BY <2>4, <3>1, <3>3 DEF Publish, ReadLatest, RegisterCall, AddOwn, UnregisterCall,
         MT!Register, MT!Unregister, topicOnly
    <3> QED BY <3>2, <3>3
  <2>5. ASSUME NEW v \in Stream, NEW n \in Start, StartFollow(v, n) PROVE Same
    BY <2>5 DEF StartFollow, topicOnly
  <2>6. ASSUME NEW v \in Stream, Follow(v) PROVE Same
    <3>1. CASE CheckLatest(v) \/ RegisterStream(v) \/ Done(v)
      BY <3>1 DEF CheckLatest, RegisterStream, Done, MT!Register, MT!Unregister, topicOnly
    <3>2. CASE GetNext(v)
      <4>1. v # w
        BY <3>2 DEF GetNext
      <4> QED BY <3>2, <4>1 DEF GetNext, StreamTypes, topicOnly
    <3>3. CASE LiveMessage(v)
      <4>1. v # w /\ v \in Chan
        BY <1>6, <3>3
      <4> QED BY <2>1, <3>3, <4>1 DEF LiveMessage, StreamTypes
    <3>4. CASE LiveNil(v)
      <4>1. v # w
        BY <1>6, <3>4
      <4> QED BY <3>4, <4>1 DEF LiveNil, StreamTypes, topicOnly
    <3>5. CASE HandlerFails(v)
      <4>1. v # w /\ v \in Chan /\ handed' = handed
        BY <1>0, <3>5 DEF HandlerFails, GotoStream
      <4> QED BY <2>1, <3>5, <4>1 DEF HandlerFails, topicOnly
    <3> QED BY <2>6, <3>1, <3>2, <3>3, <3>4, <3>5 DEF Follow
  <2>7. Same
    <3> HIDE DEF Same
    <3>1. CASE Open \/ Drainer \/ PeerSteps \/ BusReceives \/ UNCHANGED pvars
      BY <2>2, <2>3, <3>1
    <3>2. CASE CallSteps
      BY <2>4, <3>2 DEF CallSteps
    <3>3. CASE StreamSteps
      BY <2>5, <2>6, <3>3 DEF StreamSteps
    <3> QED BY <3>1, <3>2, <3>3
  <2> QED BY <1>1, <1>3, <2>7 DEF Held
<1> QED BY <1>1, <1>4, <1>5, <1>6

(* A channel is registered by the stream it belongs to, when it goes live. *)
LEMMA StaysRegistered ==
  ASSUME PartsInv, [PNext]_pvars, NEW w \in Stream, stream[w] = "live", w \in DOMAIN recps'[Self]
  PROVE  w \in DOMAIN recps[Self]
<1>0. DOMAIN recps = Feed /\ Self \in Feed /\ sendOpen[Self] /\ w \in Chan
  BY TopicTyped, PubSubAssumption DEF PartsInv, ChanInv, Chan
<1>1. ASSUME NEW c \in Chan \ {w}, NEW b \in BOOLEAN, MT!Register(Self, c, b)
      PROVE  w \in DOMAIN recps[Self]
  BY <1>0, <1>1 DEF MT!Register
<1>2. ASSUME NEW c \in Chan, MT!Unregister(Self, c) PROVE w \in DOMAIN recps[Self]
  BY <1>0, <1>2 DEF MT!Unregister, MT!Without
<1>3. CASE UNCHANGED recps
  BY <1>3
<1>4. CASE TopicSteps
  BY <1>0, <1>4 DEF TopicSteps, MT!Process, MT!Take, MT!Lock, MT!Deliver, MT!Evict,
     MT!Unlock, MT!Stop, MT!NextRecp, MT!Without
<1>5. CASE Open \/ Drainer \/ Processor \/ BusReceives \/ PeerSteps
  BY <1>1, <1>3, <1>5, PubSubAssumption DEF Open, Drainer, Processor, BusReceives, PeerSteps,
     PeerAdds, topicOnly, Chan, MT!Receive, MT!topicVars
<1>6. ASSUME NEW p \in Call, Publish(p) PROVE w \in DOMAIN recps[Self]
  BY <1>1, <1>2, <1>3, <1>6, PubSubAssumption DEF Publish, ReadLatest, RegisterCall, AddOwn, Await,
     UnregisterCall, topicOnly, Chan, MT!Receive, MT!topicVars
<1>7. ASSUME NEW v \in Stream, Follow(v) \/ \E seq \in Start : StartFollow(v, seq)
      PROVE  w \in DOMAIN recps[Self]
  <2>1. CASE RegisterStream(v)
    <3>1. v # w
      BY <2>1 DEF RegisterStream
    <3> QED BY <1>1, <2>1, <3>1 DEF RegisterStream, Chan
  <2>2. CASE ~RegisterStream(v)
    BY <1>2, <1>3, <1>7, <2>2 DEF Follow, StartFollow, CheckLatest, GetNext, LiveMessage, LiveNil,
       Done, HandlerFails, topicOnly, Chan, MT!Receive, MT!topicVars
  <2> QED BY <2>1, <2>2
<1>8. CASE UNCHANGED pvars
  BY <1>3, <1>8 DEF pvars, topicOnly
<1> QED BY <1>4, <1>5, <1>6, <1>7, <1>8 DEF PNext, FeedSteps, CallSteps, StreamSteps

(* When it goes live a stream has passed all that is stored.               *)
LEMMA AllPassed ==
  ASSUME PartsInv, StreamInv, NEW w \in Stream, stream[w] = "register",
         NEW m \in db.log[Self], m.sequence >= start[w]
  PROVE  m \in Items(handed[w]) \/ m.sequence \in skipped[w]
<1>0. /\ TypeOK /\ BucketInv /\ TxInv /\ NeverBehindLog
      /\ StreamTypes /\ Passed(w) /\ AtTheEnd(w) /\ IsOpen(Self)
  BY DEF PartsInv, IInv, StreamInv
<1>1. m \in Msg /\ m \in tx.log[Self] /\ OnePerSequence(db.log[Self])
  BY <1>0, PubSubAssumption DEF TypeOK, Database, TxInv, BucketInv, Chained
<1>2. m.sequence <= latestSeq[Self] /\ latestSeq[Self] < next[w]
  BY <1>0, <1>1, PubSubAssumption DEF NeverBehindLog, AtTheEnd
<1>3. m.sequence \in Nat /\ start[w] <= m.sequence /\ m.sequence < next[w]
  BY <1>0, <1>1, <1>2, MsgFields, PubSubAssumption DEF TypeOK, StreamTypes
<1>4. \/ m.sequence \in skipped[w]
      \/ \E o \in Items(handed[w]) : o \in db.log[Self] /\ o.sequence = m.sequence
  BY <1>0, <1>3 DEF Passed
<1> QED BY <1>1, <1>4 DEF OnePerSequence

LEMMA CoverStep ==
  ASSUME PartsInv, StreamInv, FollowCovers, [PNext]_pvars
  PROVE  FollowCovers'
<1> SUFFICES ASSUME NEW w \in Stream, stream'[w] = "live", w \in DOMAIN recps'[Self],
                    NEW m \in db'.log[Self], m.sequence >= start'[w]
             PROVE  \/ m \in Items(handed'[w]) \cup Items(buf'[w]) \cup Pending(w)'
                    \/ m.sequence \in skipped'[w]
  BY DEF FollowCovers
<1>0. StreamTypes /\ stream \in [Stream -> {"off", "check", "get", "register", "live", "returned"}]
  BY DEF StreamInv, PartsInv, ChanInv
<1>1. start'[w] = start[w] /\ skipped[w] \subseteq skipped'[w]
  <2>1. CASE FeedSteps \/ PeerSteps \/ UNCHANGED pvars
    BY <2>1 DEF FeedSteps, Open, Drainer, Processor, TopicSteps, BusReceives, PeerSteps, PeerAdds,
       streamVars, pvars
  <2>2. CASE CallSteps
    BY <2>2 DEF CallSteps, Publish, ReadLatest, RegisterCall, AddOwn, Await, UnregisterCall,
       streamVars
  <2>3. ASSUME NEW v \in Stream, NEW n \in Start, StartFollow(v, n)
        PROVE  start'[w] = start[w] /\ skipped[w] \subseteq skipped'[w]
    <3>1. stream' = [stream EXCEPT ![v] = "check"] /\ start' = [start EXCEPT ![v] = n]
          /\ skipped' = skipped
      BY <2>3 DEF StartFollow, GotoStream
    <3>2. v # w
      BY <1>0, <3>1
    <3> QED BY <1>0, <3>1, <3>2 DEF StreamTypes
  <2>4. ASSUME NEW v \in Stream, GetNext(v)
        PROVE  start'[w] = start[w] /\ skipped[w] \subseteq skipped'[w]
    <3>1. start' = start
      BY <2>4 DEF GetNext
    <3>2. skipped' = [skipped EXCEPT ![v] = @ \cup {next[v]}] \/ skipped' = skipped
      BY <2>4 DEF GetNext
    <3> QED BY <1>0, <3>1, <3>2 DEF StreamTypes
  <2>5. ASSUME NEW v \in Stream, Follow(v), ~GetNext(v)
        PROVE  start'[w] = start[w] /\ skipped[w] \subseteq skipped'[w]
    BY <2>5 DEF Follow, CheckLatest, RegisterStream, LiveMessage, LiveNil, Done, HandlerFails,
       GotoStream
  <2> QED BY <2>1, <2>2, <2>3, <2>4, <2>5 DEF PNext, StreamSteps
<1>2. CASE stream[w] = "live"
  <2>1. w \in DOMAIN recps[Self]
    BY <1>2, StaysRegistered
  <2>2. Held(w) \cup (db'.log[Self] \ db.log[Self]) \subseteq Held(w)'
    <3>1. CASE Processor
      BY <3>1, ProcessorHolds
    <3>2. CASE TopicSteps
      <4>1. db' = db
        BY <3>2 DEF TopicSteps, storeOnly
      <4> QED BY <2>1, <3>2, <4>1, TopicPassesOn
    <3>3. CASE ~Processor /\ ~TopicSteps
      <4>1. \/ Open \/ Drainer \/ BusReceives \/ PeerSteps
            \/ CallSteps \/ StreamSteps \/ UNCHANGED pvars
        BY <3>3 DEF PNext, FeedSteps
      <4> QED BY <1>0, <1>2, <4>1, StreamHolds
    <3> QED BY <3>1, <3>2, <3>3
  <2>3. CASE m \in db.log[Self]
    <3>1. m \in Held(w) \/ m.sequence \in skipped[w]
      BY <1>1, <1>2, <2>1, <2>3 DEF FollowCovers, Held
    <3> QED BY <1>1, <2>2, <3>1 DEF Held
  <2>4. CASE m \notin db.log[Self]
    BY <2>2, <2>4 DEF Held
  <2> QED BY <2>3, <2>4
<1>3. CASE stream[w] # "live"
  <2>1. RegisterStream(w)
    BY <1>0, <1>3 DEF PNext, FeedSteps, Open, Drainer, Processor, TopicSteps, BusReceives,
       PeerSteps, PeerAdds, CallSteps, Publish, ReadLatest, RegisterCall, AddOwn, Await,
       UnregisterCall, StreamSteps, Follow, StartFollow, CheckLatest, GetNext, RegisterStream,
       LiveMessage, LiveNil, Done, HandlerFails, GotoStream, streamVars, pvars
  <2>2. stream[w] = "register" /\ handed' = handed /\ db' = db
    BY <2>1 DEF RegisterStream, storeOnly
  <2> QED BY <1>1, <2>2, AllPassed
<1> QED BY <1>2, <1>3

(* A stream that has gone from the database to the topic has been handed,  *)
(* or is about to be, every stored message from its start on, but for the  *)
(* numbers it found nothing under (follower.go:5-29).                      *)
THEOREM StreamsLoseNothing == PSpec => []FollowCovers
<1>1. PartsInv /\ StreamInv /\ [PNext]_pvars => StreamInv'
  <2> SUFFICES ASSUME PartsInv, StreamInv, [PNext]_pvars PROVE StreamInv'
    OBVIOUS
  <2>1. StreamTypes'
    BY StreamTypesStep DEF StreamInv
  <2> QED BY <2>1, PassedStep, EndStep DEF StreamInv
<1>2. PartsInv /\ StreamInv /\ FollowCovers /\ [PNext]_pvars => FollowCovers'
  BY CoverStep
<1> QED BY <1>1, <1>2, StreamInit, PartsHold, PTL DEF PSpec
=============================================================================
