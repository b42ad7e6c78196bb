-------------------------- MODULE ReplicationProofs --------------------------
(***************************************************************************)
(* Proofs about Replication, for any peers, feeds, chains and capacities.  *)
(* Every step of it is one of FeedStore or leaves the store alone, so that *)
(* IInv holds.  HonestInv adds what follows from the chains being honest:  *)
(* the queues of a feed hold its own messages, its log has no gap up to    *)
(* LatestSeq, a pointer leads to the message it was made for, and no       *)
(* message is rejected.                                                    *)
(***************************************************************************)
EXTENDS Replication, FeedStoreProofs

(* The queues of f hold messages of f.                                     *)
QueueInv(f) ==
  /\ \A m \in Items(addChan[f]) \cup waiting[f] : m.author = f
  /\ drain[f].pc = "put" => drain[f].msg.author = f
  /\ drain[f].pc # "put" => drain[f].msg = Nil

(* Something is stored under each number up to n.                          *)
UpTo(S, n) == \A k \in 1 .. n : \E m \in S : m.sequence = k

LogInv(f) ==
  /\ UpTo(tx.log[f], latestSeq[f])
  /\ \A m \in db.log[f] : UpTo(db.log[f], m.sequence)

(* A pointer was made for a message.                                       *)
PointerInv(d) ==
  \A k \in Key : d.pointer[k] # Nil =>
    \E m \in Msg : /\ m.id = k
                   /\ d.pointer[k].author = m.author
                   /\ d.pointer[k].sequence = m.sequence

NoneRejected == \A f \in Feed : proc[f] # "abort"

HonestInv ==
  /\ \A f \in Feed : QueueInv(f) /\ LogInv(f)
  /\ PointerInv(db) /\ PointerInv(tx)
  /\ NoneRejected

(* What the replication has the store do: no call of it fails, and what is *)
(* handed to a feed is of this feed.                                       *)
StoreSteps == Internal \/ Crash \/ \E m \in Msg : AddMessage(m.author, m)

-----------------------------------------------------------------------------
(* An author's messages, and the numbers of a log. *)

LEMMA OneChain ==
  ASSUME NEW m \in Msg, NEW n \in Msg, m.author = n.author, m.sequence = n.sequence
  PROVE  m = n
BY ReplicationAssumption

LEMMA HonestMessage ==
  ASSUME NEW m \in Msg
  PROVE  m.signed /\ m.sequence # 0 /\ Linked({o \in Msg : o.author = m.author}, m)
BY ReplicationAssumption

(* A log that is full up to n holds every message of its feed up to n.     *)
LEMMA FullLogHolds ==
  ASSUME NEW f \in Feed, NEW S \in SUBSET Msg, \A o \in S : o.author = f,
         NEW n \in Nat, UpTo(S, n), NEW m \in Msg, m.author = f, m.sequence <= n
  PROVE  m \in S
<1>1. m.sequence \in 1 .. n
  <2>1. m.sequence \in Nat
    BY MsgFields
  <2>2. m.sequence # 0
    BY HonestMessage
  <2> QED BY <2>1, <2>2
<1>2. PICK o \in S : o.sequence = m.sequence
  BY <1>1 DEF UpTo
<1> QED BY <1>2, OneChain

(* The next message passes Verify once everything before it is stored.     *)
LEMMA NextVerifies ==
  ASSUME NEW f \in Feed, NEW S \in SUBSET Msg, \A o \in S : o.author = f,
         NEW n \in Nat, UpTo(S, n), NEW m \in Msg, m.author = f, m.sequence = n + 1
  PROVE  Verify(S, m)
<1>1. m.signed /\ Linked({o \in Msg : o.author = f}, m)
  BY HonestMessage
<1>2. CASE m.sequence = 1
  BY <1>1, <1>2 DEF Verify
<1>3. CASE m.sequence # 1
  <2>1. n \in 1 .. n /\ m.sequence - 1 = n
    BY <1>3
  <2>2. PICK o \in S : o.sequence = n
    BY <2>1 DEF UpTo
  <2>3. GetSeq(S, m.sequence - 1) = o
    <3>1. \A u \in S : u.sequence = n => u = o
      BY <2>2, OneChain
    <3> QED BY <2>1, <2>2, <3>1 DEF GetSeq
  <2>4. m.previous = o.id /\ o.timestamp < m.timestamp
    <3>1. o \in {u \in Msg : u.author = f} /\ o.sequence + 1 = m.sequence
      BY <2>2
    <3>2. PICK u \in {u \in Msg : u.author = f} : /\ u.sequence + 1 = m.sequence
                                                  /\ m.previous = u.id
                                                  /\ u.timestamp < m.timestamp
      BY <1>1, <1>3, <3>1 DEF Linked
    <3>3. u = o
      BY <2>2, <3>2, OneChain, MsgFields
    <3> QED BY <3>2, <3>3
  <2> QED BY <1>1, <2>2, <2>3, <2>4, MsgFields DEF Verify
<1> QED BY <1>2, <1>3

(* What IInv says of the two views of a log.                               *)
LEMMA LogTypes ==
  ASSUME IInv, NEW f \in Feed
  PROVE  /\ db \in Database /\ tx \in Database
         /\ db.log[f] \in SUBSET Msg /\ tx.log[f] \in SUBSET Msg
         /\ \A o \in db.log[f] \cup tx.log[f] : o.author = f
         /\ db.log[f] \subseteq tx.log[f]
         /\ latestSeq[f] \in Nat /\ waiting[f] \in SUBSET Msg
         /\ addChan[f] \in Seq(Msg)
         /\ drain[f] \in [pc : {"recv", "put", "signal"}, msg : Msg \cup {Nil}]
         /\ drain[f].pc = "put" => drain[f].msg \in Msg
<1>1. TypeOK /\ BucketInv /\ TxInv
  BY DEF IInv
<1>2. db \in Database /\ tx \in Database
  BY <1>1 DEF TypeOK
<1>3. db.log[f] \in SUBSET Msg /\ tx.log[f] \in SUBSET Msg
  BY <1>2 DEF Database
<1>4. \A o \in db.log[f] \cup tx.log[f] : o.author = f
  BY <1>1 DEF BucketInv, Chained
<1>5. db.log[f] \subseteq tx.log[f]
  BY <1>1 DEF TxInv
<1>6. /\ latestSeq[f] \in Nat /\ waiting[f] \in SUBSET Msg /\ addChan[f] \in Seq(Msg)
      /\ drain[f] \in [pc : {"recv", "put", "signal"}, msg : Msg \cup {Nil}]
      /\ drain[f].pc = "put" => drain[f].msg \in Msg
  BY <1>1 DEF TypeOK
<1> QED BY <1>2, <1>3, <1>4, <1>5, <1>6

(* A message that the look-up finds is stored.                             *)
LEMMA SkippedIsStored ==
  ASSUME IInv, HonestInv, NEW f \in Feed, NEW m \in Msg, m.author = f, Skippable(f, m)
  PROVE  m \in db.log[f]
<1>1. Get(db, m.id) # Nil /\ m.id \in Key
  BY MsgFields DEF Skippable
<1> DEFINE p == db.pointer[m.id]
<1>2. p # Nil /\ GetSeq(db.log[p.author], p.sequence) # Nil
  BY <1>1 DEF Get
<1>3. p.author = f /\ p.sequence = m.sequence
  BY <1>1, <1>2, MessageAssumption, ReplicationAssumption DEF HonestInv, PointerInv
<1>4. PICK o \in db.log[f] : o.sequence = m.sequence
  BY <1>2, <1>3 DEF GetSeq
<1> QED BY <1>4, LogTypes, OneChain

(* The next message of an honest chain is never rejected.                  *)
LEMMA NothingRejected ==
  ASSUME IInv, HonestInv, NEW f \in Feed, NEW m \in Msg, RejectMessage(f, m)
  PROVE  FALSE
<1>1. m.author = f /\ m.sequence = latestSeq[f] + 1 /\ ~Verify(tx.log[f], m)
  BY DEF RejectMessage, Takes, Skippable
<1>2. UpTo(tx.log[f], latestSeq[f])
  BY DEF HonestInv, LogInv
<1> QED BY <1>1, <1>2, LogTypes, NextVerifies

LEMMA StepIsStore ==
  ASSUME [StoreSteps]_vars
  PROVE  [Next]_vars
BY MsgFields DEF StoreSteps, Next, Healthy, Fault

-----------------------------------------------------------------------------
(* The queues. *)

(* The actions that leave the queues as they are.                          *)
LEMMA SameQueues ==
  ASSUME NEW f \in Feed,
         \/ GetFeed(f) \/ Wait(f) \/ BeginUpdate(f) \/ LockFeed(f) \/ EndOfRun(f)
         \/ Commit(f) \/ Abort(f) \/ Send(f) \/ Sent(f) \/ TopicReceive(f)
  PROVE  UNCHANGED <<addChan, drain, waiting>>
BY DEF GetFeed, Wait, BeginUpdate, LockFeed, EndOfRun, Commit, Abort, Rollback, Send, Sent,
       TopicReceive

LEMMA QueueStep ==
  ASSUME IInv, HonestInv, [StoreSteps]_vars
  PROVE  \A g \in Feed : QueueInv(g)'
<1>0. TypeOK /\ \A g \in Feed : QueueInv(g)
  BY DEF IInv, HonestInv
<1> SUFFICES ASSUME NEW g \in Feed PROVE QueueInv(g)'
  OBVIOUS
<1>1. ASSUME UNCHANGED <<addChan[g], drain[g], waiting[g]>> PROVE QueueInv(g)'
  BY <1>0, <1>1 DEF QueueInv
<1>2. ASSUME NEW m \in Msg, AddMessage(m.author, m) PROVE QueueInv(g)'
  <2>1. CASE m.author = g
    <3>1. addChan'[g] = Append(addChan[g], m) /\ UNCHANGED <<drain, waiting>>
      BY <1>0, <1>2, <2>1 DEF AddMessage, TypeOK
    <3>2. Items(addChan'[g]) = Items(addChan[g]) \cup {m}
      BY <3>1, LogTypes, ItemsOfAppend
    <3> QED BY <1>0, <2>1, <3>1, <3>2 DEF QueueInv
  <2>2. CASE m.author # g
    BY <1>0, <1>1, <1>2, <2>2 DEF AddMessage, TypeOK
  <2> QED BY <2>1, <2>2
<1>3. ASSUME NEW f \in Feed, DrainRecv(f) PROVE QueueInv(g)'
  <2>1. CASE f = g
    <3>1. /\ addChan'[g] = Tail(addChan[g]) /\ drain'[g] = [pc |-> "put", msg |-> Head(addChan[g])]
          /\ waiting' = waiting /\ addChan[g] # <<>>
      BY <1>0, <1>3, <2>1 DEF DrainRecv, TypeOK
    <3>2. Items(addChan[g]) = Items(addChan'[g]) \cup {Head(addChan[g])}
      BY <3>1, LogTypes, ItemsOfTail
    <3> QED BY <1>0, <3>1, <3>2 DEF QueueInv
  <2>2. CASE f # g
    BY <1>0, <1>1, <1>3, <2>2 DEF DrainRecv, TypeOK
  <2> QED BY <2>1, <2>2
<1>4. ASSUME NEW f \in Feed, DrainPut(f) PROVE QueueInv(g)'
  <2>1. CASE f = g
    <3>1. /\ addChan' = addChan /\ drain'[g] = [pc |-> "signal", msg |-> Nil]
          /\ drain[g].pc = "put"
          /\ waiting'[g] \subseteq waiting[g] \cup {drain[g].msg}
      BY <1>0, <1>4, <2>1 DEF DrainPut, PutSeq, TypeOK
    <3> QED BY <1>0, <3>1 DEF QueueInv
  <2>2. CASE f # g
    BY <1>0, <1>1, <1>4, <2>2 DEF DrainPut, TypeOK
  <2> QED BY <2>1, <2>2
<1>5. ASSUME NEW f \in Feed, DrainSignal(f) PROVE QueueInv(g)'
  BY <1>0, <1>5 DEF DrainSignal, QueueInv, TypeOK
<1>6. ASSUME NEW f \in Feed, NEW m \in Msg,
             SkipMessage(f, m) \/ RejectMessage(f, m) \/ StoreMessage(f, m)
      PROVE  QueueInv(g)'
  <2>1. addChan' = addChan /\ drain' = drain /\ waiting'[g] \subseteq waiting[g]
    <3>1. /\ addChan' = addChan /\ drain' = drain
          /\ waiting' = [waiting EXCEPT ![f] = @ \ {m}]
      BY <1>6 DEF SkipMessage, RejectMessage, StoreMessage, Takes
    <3>2. waiting \in [Feed -> SUBSET Msg]
      BY <1>0 DEF TypeOK
    <3> QED BY <3>1, <3>2
  <2> QED BY <1>0, <2>1 DEF QueueInv
<1>7. ASSUME Crash PROVE QueueInv(g)'
  BY <1>7, EmptyOrdered DEF Crash, QueueInv
<1>8. CASE UNCHANGED vars
  BY <1>1, <1>8 DEF vars, feedVars
<1> QED
  BY <1>1, <1>2, <1>3, <1>4, <1>5, <1>6, <1>7, <1>8, SameQueues
  DEF StoreSteps, Internal, Drain, ProcessMessageQueue

(* A message of f that waits somewhere in the store, or is stored.         *)
Queued(f) ==
  Items(addChan[f]) \cup {drain[f].msg} \cup waiting[f] \cup tx.log[f] \cup db.log[f]

(* Only a crash takes a message from the store before it is stored.        *)
LEMMA QueuedStays ==
  ASSUME IInv, HonestInv, [StoreSteps]_vars, ~Crash,
         NEW g \in Feed, NEW m \in Msg, m.author = g, m \in Queued(g)
  PROVE  m \in Queued(g)'
<1>0. TypeOK /\ QueueInv(g) /\ LogInv(g)
  BY DEF IInv, HonestInv
<1> USE DEF Queued
<1>1. ASSUME UNCHANGED <<addChan[g], drain[g], waiting[g], db.log[g], tx.log[g]>>
      PROVE  m \in Queued(g)'
  BY <1>1
<1>2. ASSUME NEW n \in Msg, AddMessage(n.author, n) PROVE m \in Queued(g)'
  <2>1. CASE n.author = g
    <3>1. addChan'[g] = Append(addChan[g], n) /\ UNCHANGED <<drain, waiting, db, tx>>
      BY <1>0, <1>2, <2>1 DEF AddMessage, TypeOK
    <3>2. Items(addChan'[g]) = Items(addChan[g]) \cup {n}
      BY <3>1, LogTypes, ItemsOfAppend
    <3> QED BY <3>1, <3>2
  <2>2. CASE n.author # g
    BY <1>0, <1>1, <1>2, <2>2 DEF AddMessage, TypeOK
  <2> QED BY <2>1, <2>2
<1>3. ASSUME NEW f \in Feed, DrainRecv(f) PROVE m \in Queued(g)'
  <2>1. CASE f = g
    <3>1. /\ addChan'[g] = Tail(addChan[g]) /\ drain'[g] = [pc |-> "put", msg |-> Head(addChan[g])]
          /\ UNCHANGED <<waiting, db, tx>> /\ addChan[g] # <<>> /\ drain[g].pc = "recv"
      BY <1>0, <1>3, <2>1 DEF DrainRecv, TypeOK
    <3>2. Items(addChan[g]) = Items(addChan'[g]) \cup {Head(addChan[g])}
      BY <3>1, LogTypes, ItemsOfTail
    <3>3. m # drain[g].msg
      BY <1>0, <3>1, MsgFields DEF QueueInv
    <3> QED BY <3>1, <3>2, <3>3
  <2>2. CASE f # g
    BY <1>0, <1>1, <1>3, <2>2 DEF DrainRecv, TypeOK
  <2> QED BY <2>1, <2>2
<1>4. ASSUME NEW f \in Feed, DrainPut(f) PROVE m \in Queued(g)'
  <2>1. CASE f = g
    <3> DEFINE d == drain[g].msg
    <3>1. /\ UNCHANGED <<addChan, db, tx>> /\ drain[g].pc = "put" /\ d \in Msg /\ d.author = g
      BY <1>0, <1>4, <2>1 DEF DrainPut, QueueInv, TypeOK
    <3>2. CASE d.sequence > latestSeq[g]
      <4>1. waiting'[g] = PutSeq(waiting[g], d)
        BY <1>0, <1>4, <2>1, <3>2 DEF DrainPut, TypeOK
      <4>2. waiting[g] \subseteq waiting'[g] /\ d \in waiting'[g]
        <5>1. \A o \in waiting[g] : o.sequence = d.sequence => o = d
          BY <1>0, <3>1, LogTypes, OneChain DEF QueueInv
        <5> QED BY <4>1, <5>1 DEF PutSeq
      <4> QED BY <3>1, <4>2
    <3>3. CASE ~(d.sequence > latestSeq[g])
      <4>1. waiting' = waiting
        BY <1>4, <2>1, <3>3 DEF DrainPut
      <4>2. latestSeq[g] \in Nat /\ tx.log[g] \in SUBSET Msg /\ \A o \in tx.log[g] : o.author = g
        BY LogTypes
      <4>3. d.sequence <= latestSeq[g]
        BY <3>1, <3>3, <4>2, MsgFields
      <4>4. d \in tx.log[g]
        BY <1>0, <3>1, <4>2, <4>3, FullLogHolds DEF LogInv
      <4> QED BY <3>1, <4>1, <4>4
    <3> QED BY <3>2, <3>3
  <2>2. CASE f # g
    BY <1>0, <1>1, <1>4, <2>2 DEF DrainPut, TypeOK
  <2> QED BY <2>1, <2>2
<1>5. ASSUME NEW f \in Feed, DrainSignal(f) PROVE m \in Queued(g)'
  <2>1. UNCHANGED <<addChan, waiting, db, tx>> /\ (f # g => drain'[g] = drain[g])
    BY <1>0, <1>5 DEF DrainSignal, TypeOK
  <2>2. f = g => m # drain[g].msg
    BY <1>0, <1>5, MsgFields DEF DrainSignal, QueueInv
  <2> QED BY <2>1, <2>2
<1>6. ASSUME NEW f \in Feed, NEW n \in Msg, SkipMessage(f, n) PROVE m \in Queued(g)'
  <2>1. /\ UNCHANGED <<addChan, drain, db, tx>> /\ n \in waiting[f] /\ Skippable(f, n)
        /\ waiting' = [waiting EXCEPT ![f] = @ \ {n}]
    BY <1>6 DEF SkipMessage, Takes
  <2>2. CASE f = g /\ n = m
    BY <2>1, <2>2, SkippedIsStored
  <2>3. CASE ~(f = g /\ n = m)
    BY <1>0, <2>1, <2>3 DEF TypeOK
  <2> QED BY <2>2, <2>3
<1>7. ASSUME NEW f \in Feed, NEW n \in Msg, StoreMessage(f, n) PROVE m \in Queued(g)'
  <2>1. /\ UNCHANGED <<addChan, drain, db>>
        /\ waiting' = [waiting EXCEPT ![f] = @ \ {n}]
    BY <1>7 DEF StoreMessage, Takes
  <2>2. tx'.log = [tx.log EXCEPT ![f] = tx.log[f] \cup {n}] /\ tx.log \in [Feed -> SUBSET Msg]
    BY <1>0, <1>7, StoreFacts DEF TypeOK, Database
  <2>3. waiting[g] \subseteq waiting'[g] \cup tx'.log[g] /\ tx.log[g] \subseteq tx'.log[g]
    BY <1>0, <2>1, <2>2 DEF TypeOK
  <2> QED BY <2>1, <2>3
<1>8. ASSUME NEW f \in Feed, NEW n \in Msg, RejectMessage(f, n) PROVE FALSE
  BY <1>8, NothingRejected
<1>9. ASSUME NEW f \in Feed, Commit(f) PROVE m \in Queued(g)'
  <2>1. UNCHANGED <<addChan, drain, waiting, tx>> /\ db' = tx
    BY <1>9 DEF Commit
  <2> QED BY <2>1, LogTypes
<1>10. ASSUME NEW f \in Feed, Abort(f) PROVE FALSE
  BY <1>10 DEF Abort, HonestInv, NoneRejected
<1>11. ASSUME NEW f \in Feed,
              \/ GetFeed(f) \/ Wait(f) \/ BeginUpdate(f) \/ LockFeed(f) \/ EndOfRun(f)
              \/ Send(f) \/ Sent(f) \/ TopicReceive(f)
       PROVE  m \in Queued(g)'
  BY <1>1, <1>11, SameQueues, SameDatabase
<1>12. CASE UNCHANGED vars
  BY <1>1, <1>12 DEF vars, feedVars
<1> QED
  BY <1>2, <1>3, <1>4, <1>5, <1>6, <1>7, <1>8, <1>9, <1>10, <1>11, <1>12
  DEF StoreSteps, Internal, Drain, ProcessMessageQueue

-----------------------------------------------------------------------------
(* Nothing is rejected, the logs have no gaps, pointers lead to messages. *)

LEMMA RejectedStep ==
  ASSUME IInv, HonestInv, [StoreSteps]_vars
  PROVE  NoneRejected'
<1>0. NoneRejected /\ TypeOK
  BY DEF HonestInv, IInv
<1> USE <1>0 DEF NoneRejected, TypeOK, Goto
<1>1. ASSUME NEW f \in Feed,
             \/ GetFeed(f) \/ Drain(f) \/ Wait(f) \/ BeginUpdate(f) \/ LockFeed(f)
             \/ EndOfRun(f) \/ Commit(f) \/ Send(f) \/ Sent(f) \/ TopicReceive(f)
      PROVE  NoneRejected'
  BY <1>1 DEF GetFeed, Drain, DrainRecv, DrainPut, DrainSignal, Wait, BeginUpdate, LockFeed,
              EndOfRun, Commit, Send, Sent, TopicReceive
<1>2. ASSUME NEW f \in Feed, NEW m \in Msg,
             AddMessage(f, m) \/ SkipMessage(f, m) \/ StoreMessage(f, m)
      PROVE  NoneRejected'
  BY <1>2 DEF AddMessage, SkipMessage, StoreMessage
<1>3. ASSUME NEW f \in Feed, Abort(f) PROVE FALSE
  BY <1>3 DEF Abort
<1>4. ASSUME Crash PROVE NoneRejected'
  BY <1>4 DEF Crash
<1>5. CASE UNCHANGED vars
  BY <1>5 DEF vars, feedVars
<1> QED
  BY <1>1, <1>2, <1>3, <1>4, <1>5, NothingRejected, MsgFields
  DEF StoreSteps, Internal, ProcessMessageQueue

LEMMA LogStep ==
  ASSUME IInv, HonestInv, [StoreSteps]_vars
  PROVE  \A g \in Feed : LogInv(g)'
<1>0. TypeOK /\ WriterInv /\ TxInv /\ NeverBehindLog /\ \A g \in Feed : LogInv(g)
  BY DEF IInv, HonestInv
<1> SUFFICES ASSUME NEW g \in Feed PROVE LogInv(g)'
  OBVIOUS
<1> USE DEF LogInv
<1>1. ASSUME UNCHANGED <<db.log[g], tx.log[g], latestSeq[g]>> PROVE LogInv(g)'
  BY <1>0, <1>1
<1>2. ASSUME NEW f \in Feed, GetFeed(f) PROVE LogInv(g)'
  <2>1. CASE f = g
    <3>1. latestSeq'[g] = LatestSequence(db.log[g]) /\ UNCHANGED <<db, tx>>
      BY <1>0, <1>2, <2>1 DEF GetFeed, TypeOK
    <3>2. tx.log[g] = db.log[g]
      BY <1>0, <1>2, <2>1 DEF GetFeed, IsOpen, WriterInv, InUpdate, TxInv
    <3>3. UpTo(db.log[g], LatestSequence(db.log[g]))
      <4>1. CASE db.log[g] = {}
        BY <4>1 DEF LatestSequence, UpTo
      <4>2. CASE db.log[g] # {}
        <5>1. Latest(db.log[g]) \in db.log[g]
          BY <4>2, LatestIsGreatest DEF IInv, BucketInv, Chained
        <5> QED BY <1>0, <4>2, <5>1 DEF LatestSequence
      <4> QED BY <4>1, <4>2
    <3> QED BY <1>0, <3>1, <3>2, <3>3
  <2>2. CASE f # g
    BY <1>0, <1>1, <1>2, <2>2 DEF GetFeed, TypeOK
  <2> QED BY <2>1, <2>2
<1>3. ASSUME NEW f \in Feed, NEW m \in Msg, StoreMessage(f, m) PROVE LogInv(g)'
  <2>1. /\ db' = db /\ latestSeq' = [latestSeq EXCEPT ![f] = m.sequence]
        /\ m.sequence = latestSeq[f] + 1
        /\ tx'.log = [tx.log EXCEPT ![f] = tx.log[f] \cup {m}]
        /\ tx.log \in [Feed -> SUBSET Msg] /\ latestSeq \in [Feed -> Nat]
    BY <1>0, <1>3, StoreFacts DEF StoreMessage, TypeOK, Database
  <2>2. CASE f = g
    <3>1. tx'.log[g] = tx.log[g] \cup {m} /\ latestSeq'[g] = latestSeq[g] + 1
      BY <2>1, <2>2
    <3>2. \A k \in 1 .. latestSeq[g] + 1 : k \in 1 .. latestSeq[g] \/ k = m.sequence
      BY <2>1, <2>2
    <3>3. UpTo(tx'.log[g], latestSeq'[g])
      BY <1>0, <3>1, <3>2 DEF UpTo
    <3> QED BY <1>0, <2>1, <3>3
  <2>3. CASE f # g
    BY <1>0, <1>1, <2>1, <2>3
  <2> QED BY <2>2, <2>3
<1>4. ASSUME NEW f \in Feed, Commit(f) PROVE LogInv(g)'
  <2>1. db' = tx /\ UNCHANGED <<tx, latestSeq>> /\ writer = f /\ IsOpen(f)
    BY <1>0, <1>4 DEF Commit, WriterInv, InUpdate, IsOpen
  <2>2. CASE f = g
    <3>1. \A m \in tx.log[g] : UpTo(tx.log[g], m.sequence)
      <4> SUFFICES ASSUME NEW m \in tx.log[g] PROVE UpTo(tx.log[g], m.sequence)
        OBVIOUS
      <4>1. m.sequence <= latestSeq[g] /\ m.sequence \in Nat /\ latestSeq[g] \in Nat
        BY <1>0, <2>1, <2>2, LogTypes, MsgFields DEF NeverBehindLog
      <4>2. \A k \in 1 .. m.sequence : k \in 1 .. latestSeq[g]
        BY <4>1
      <4> QED BY <1>0, <4>2 DEF UpTo
    <3> QED BY <1>0, <2>1, <3>1
  <2>3. CASE f # g
    <3>1. tx.log[g] = db.log[g]
      BY <1>0, <2>1, <2>3 DEF TxInv
    <3> QED BY <1>1, <2>1, <3>1
  <2> QED BY <2>2, <2>3
<1>5. ASSUME NEW f \in Feed, Abort(f) PROVE FALSE
  BY <1>5 DEF Abort, HonestInv, NoneRejected
<1>6. ASSUME Crash PROVE LogInv(g)'
  <2>1. UNCHANGED db /\ latestSeq'[g] = 0
    BY <1>6 DEF Crash
  <2> QED BY <1>0, <2>1 DEF UpTo
<1>7. ASSUME NEW f \in Feed,
             \/ Drain(f) \/ Wait(f) \/ BeginUpdate(f) \/ LockFeed(f) \/ EndOfRun(f)
             \/ Send(f) \/ Sent(f) \/ TopicReceive(f)
             \/ \E m \in Msg : AddMessage(f, m) \/ SkipMessage(f, m)
      PROVE  LogInv(g)'
  <2>1. UNCHANGED <<db, tx>>
    BY <1>7, SameDatabase
  <2>2. latestSeq' = latestSeq
    BY <1>7 DEF Drain, DrainRecv, DrainPut, DrainSignal, Wait, BeginUpdate, LockFeed,
                EndOfRun, Send, Sent, TopicReceive, AddMessage, SkipMessage
  <2> QED BY <1>1, <2>1, <2>2
<1>8. CASE UNCHANGED vars
  BY <1>1, <1>8 DEF vars, feedVars
<1> QED
  BY <1>2, <1>3, <1>4, <1>5, <1>6, <1>7, <1>8, NothingRejected, MsgFields
  DEF StoreSteps, Internal, ProcessMessageQueue

LEMMA PointerStep ==
  ASSUME IInv, HonestInv, [StoreSteps]_vars
  PROVE  PointerInv(db)' /\ PointerInv(tx)'
<1>0. PointerInv(db) /\ PointerInv(tx) /\ TypeOK
  BY DEF HonestInv, IInv
<1>1. ASSUME UNCHANGED <<db, tx>> PROVE PointerInv(db)' /\ PointerInv(tx)'
  BY <1>0, <1>1 DEF PointerInv
<1>2. ASSUME NEW f \in Feed, NEW m \in Msg, StoreMessage(f, m)
      PROVE  PointerInv(db)' /\ PointerInv(tx)'
  <2> DEFINE new == [sequence |-> m.sequence, logKey |-> Len(tx.global) + 1, author |-> m.author]
  <2>1. db' = db /\ tx'.pointer = [tx.pointer EXCEPT ![m.id] = new]
    BY <1>2 DEF StoreMessage, AddToDB
  <2>2. tx.pointer \in [Key -> Pointer \cup {Nil}]
    BY <1>0 DEF TypeOK, Database
  <2>3. \A k \in Key : k # m.id => tx'.pointer[k] = tx.pointer[k]
    BY <2>1, <2>2
  <2>4. m.id \in Key => /\ tx'.pointer[m.id].author = m.author
                        /\ tx'.pointer[m.id].sequence = m.sequence
    BY <2>1, <2>2
  <2> QED BY <1>0, <2>1, <2>3, <2>4 DEF PointerInv
<1>3. ASSUME NEW f \in Feed, Commit(f) PROVE PointerInv(db)' /\ PointerInv(tx)'
  BY <1>0, <1>3 DEF Commit, PointerInv
<1>4. ASSUME NEW f \in Feed, Abort(f) PROVE FALSE
  BY <1>4 DEF Abort, HonestInv, NoneRejected
<1>5. ASSUME Crash PROVE PointerInv(db)' /\ PointerInv(tx)'
  BY <1>0, <1>5 DEF Crash, PointerInv
<1>6. CASE UNCHANGED vars
  BY <1>1, <1>6 DEF vars
<1> QED
  BY <1>1, <1>2, <1>3, <1>4, <1>5, <1>6, SameDatabase, MsgFields
  DEF StoreSteps, Internal, ProcessMessageQueue

LEMMA HonestInit == Init => HonestInv
<1> SUFFICES ASSUME Init PROVE HonestInv
  OBVIOUS
<1>1. \A f \in Feed : QueueInv(f) /\ LogInv(f)
  <2> SUFFICES ASSUME NEW f \in Feed PROVE QueueInv(f) /\ LogInv(f)
    OBVIOUS
  <2>1. QueueInv(f)
    BY EmptyOrdered DEF Init, QueueInv
  <2>2. db.log[f] = {} /\ tx.log[f] = {} /\ latestSeq[f] = 0
    BY DEF Init, EmptyDB
  <2>3. UpTo({}, 0)
    BY DEF UpTo
  <2> QED BY <2>1, <2>2, <2>3 DEF LogInv
<1>2. PointerInv(db) /\ PointerInv(tx) /\ NoneRejected
  BY DEF Init, EmptyDB, PointerInv, NoneRejected
<1> QED BY <1>1, <1>2 DEF HonestInv

LEMMA HonestStep ==
  ASSUME IInv, HonestInv, [StoreSteps]_vars
  PROVE  HonestInv'
BY QueueStep, LogStep, PointerStep, RejectedStep DEF HonestInv

-----------------------------------------------------------------------------
(* The steps of the replication. *)

LEMMA ReplyAdds ==
  ASSUME RTypeOK, NEW p \in Peer, Reply(p)
  PROVE  /\ Head(wire[p]) \in Msg \cup {Nil}
         /\ wire[p] \in Seq(Msg \cup {Nil}) /\ wire[p] # <<>>
         /\ Head(wire[p]) = Nil => UNCHANGED vars
         /\ Head(wire[p]) # Nil => AddMessage(Head(wire[p]).author, Head(wire[p]))
<1>1. wire[p] \in Seq(Msg \cup {Nil}) /\ wire[p] # <<>>
  BY DEF RTypeOK, Reply
<1> QED BY <1>1, ReceiveFrom DEF Reply

LEMMA ReplicationIsStore ==
  ASSUME RTypeOK, [RNext]_rvars
  PROVE  [StoreSteps]_vars
<1>1. CASE UNCHANGED rvars
  BY <1>1 DEF rvars
<1>2. ASSUME NEW p \in Peer, Reply(p) PROVE [StoreSteps]_vars
  BY <1>2, ReplyAdds DEF StoreSteps
<1>3. ASSUME NEW f \in Feed, Follows(f) PROVE UNCHANGED vars
  BY <1>3 DEF Follows
<1>4. ASSUME NEW p \in Peer, Connect(p) \/ Disconnect(p) PROVE UNCHANGED vars
  BY <1>4 DEF Connect, Disconnect
<1>5. ASSUME NEW p \in Peer, NEW f \in Feed, Streaming(p, f) PROVE UNCHANGED vars
  BY <1>5 DEF Streaming, PeerStores, PeerAnnounces, Ask, PassOver, Serve, ServeNull, GoLive
<1>6. CASE Restart
  BY <1>6 DEF Restart, StoreSteps
<1> QED BY <1>1, <1>2, <1>3, <1>4, <1>5, <1>6 DEF RNext, StoreSteps

StreamType == [pc : {"off", "call", "catchup", "live", "evicted"},
               next : Nat, stop : Nat, passed : SUBSET Nat]

(* What RTypeOK says of the stream of one feed.                            *)
LEMMA StreamTyped ==
  ASSUME RTypeOK, NEW p \in Peer, NEW f \in Feed
  PROVE  /\ stream[p][f] \in StreamType /\ remote[p][f] \in Nat
         /\ wire[p] \in Seq(Msg \cup {Nil}) /\ Len(wire[p]) <= WireCap
         /\ (stream[p][f].pc # "off" => p \in up)
BY DEF RTypeOK, StreamType, NoStream

(* Steps that set the stream of one feed of one peer.                      *)
LEMMA SetStream ==
  ASSUME RTypeOK, NEW p \in up, NEW f \in Feed, NEW s \in StreamType,
         stream' = [stream EXCEPT ![p][f] = s], up' = up
  PROVE  /\ stream' \in [Peer -> [Feed -> StreamType]]
         /\ \A q \in Peer \ up : stream'[q] = [g \in Feed |-> NoStream]
         /\ stream'[p][f] = s
         /\ \A q \in Peer, g \in Feed : q # p \/ g # f => stream'[q][g] = stream[q][g]
BY DEF RTypeOK, StreamType

(* One step of a stream.                                                   *)
LEMMA OneStream ==
  ASSUME RTypeOK, IInv, NEW p \in Peer, NEW f \in Feed, Streaming(p, f)
  PROVE  \/ stream' = stream /\ up' = up
         \/ \E s \in StreamType : stream' = [stream EXCEPT ![p][f] = s] /\ p \in up /\ up' = up
<1>1. /\ stream \in [Peer -> [Feed -> StreamType]]
      /\ stream[p][f] \in StreamType /\ remote[p][f] \in Nat /\ announced[p][f] \in Nat
      /\ stream[p][f].pc # "off" => p \in up
  BY StreamTyped DEF RTypeOK, StreamType
<1> DEFINE s == stream[p][f]
<1>0. s.next \in Nat /\ s.stop \in Nat /\ s.passed \in SUBSET Nat
  BY <1>1 DEF StreamType
<1> USE DEF StreamType
<1>2. CASE PeerStores(p, f) \/ ServeNull(p, f)
  BY <1>2 DEF PeerStores, ServeNull
<1>3. CASE PeerAnnounces(p, f)
  <2>1. CASE stream' = stream
    BY <1>3, <2>1 DEF PeerAnnounces
  <2>2. CASE stream' # stream
    <3> DEFINE n == announced[p][f] + 1
               t == [s EXCEPT !.pc = "evicted", !.stop = n]
    <3>1. t \in StreamType
      <4>1. n \in Nat
        BY <1>1
      <4> HIDE DEF n
      <4> QED BY <1>1, <4>1
    <3>2. /\ stream' = [stream EXCEPT ![p][f].pc = "evicted", ![p][f].stop = announced[p][f] + 1]
          /\ s.pc = "live" /\ up' = up
      BY <1>3, <2>2 DEF PeerAnnounces
    <3>3. stream' = [stream EXCEPT ![p][f] = t]
      BY <1>1, <3>2
    <3> QED BY <1>1, <3>1, <3>2, <3>3
  <2> QED BY <2>1, <2>2
<1>4. CASE Ask(p, f)
  <2> DEFINE t == [NoStream EXCEPT !.pc = "catchup", !.next = FirstAsked(f)]
  <2>1. FirstAsked(f) \in Nat
    <3>1. CASE db.log[f] = {}
      BY <3>1 DEF FirstAsked
    <3>2. CASE db.log[f] # {}
      <4>1. Latest(db.log[f]) \in Msg
        BY <3>2, LogTypes, LatestIsGreatest DEF IInv, BucketInv, Chained
      <4> QED BY <3>2, <4>1, MsgFields DEF FirstAsked
    <3> QED BY <3>1, <3>2
  <2>2. t \in StreamType
    BY <2>1 DEF NoStream
  <2>3. stream' = [stream EXCEPT ![p][f] = t] /\ s.pc = "call" /\ up' = up
    BY <1>4 DEF Ask
  <2> QED BY <1>1, <2>2, <2>3
<1>5. CASE PassOver(p, f)
  <2> DEFINE t == [s EXCEPT !.next = s.next + 1, !.passed = @ \cup {s.next}]
  <2>1. t \in StreamType
    <3>1. s.next + 1 \in Nat /\ s.passed \cup {s.next} \in SUBSET Nat
      BY <1>0
    <3> QED BY <1>1, <3>1
  <2>2. stream' = [stream EXCEPT ![p][f] = t] /\ s.pc = "catchup" /\ up' = up
    BY <1>1, <1>5 DEF PassOver
  <2> QED BY <1>1, <2>1, <2>2
<1>6. CASE Serve(p, f)
  <2> DEFINE t == [s EXCEPT !.next = @ + 1]
  <2>1. t \in StreamType
    BY <1>0, <1>1
  <2>2. stream' = [stream EXCEPT ![p][f] = t] /\ up' = up
    BY <1>1, <1>6 DEF Serve
  <2>3. s.pc # "off"
    <3>1. PICK m \in Msg : m.sequence <= Served(p, f)
      BY <1>6 DEF Serve
    <3>2. m.sequence # 0 /\ m.sequence \in Nat
      BY HonestMessage, MsgFields
    <3>3. s.pc = "off" => Served(p, f) = 0
      BY DEF Served
    <3> QED BY <3>1, <3>2, <3>3
  <2> QED BY <1>1, <2>1, <2>2, <2>3
<1>7. CASE GoLive(p, f)
  <2> DEFINE n == announced[p][f] + 1
             t == [s EXCEPT !.pc = "live", !.next = n, !.passed = {o \in @ : o < n}]
  <2>1. t \in StreamType
    <3>1. n \in Nat /\ {o \in s.passed : o < n} \in SUBSET Nat
      BY <1>0, <1>1
    <3> QED BY <1>1, <3>1
  <2>2. s.pc = "catchup" /\ up' = up
    BY <1>7 DEF GoLive
  <2>3. stream' = [stream EXCEPT ![p][f].pc = "live", ![p][f].next = n,
                                  ![p][f].passed = {o \in @ : o < n}]
    BY <1>7 DEF GoLive
  <2>4. stream' = [stream EXCEPT ![p][f] = t]
    BY <1>1, <2>3
  <2> QED BY <1>1, <2>1, <2>2, <2>4
<1> QED BY <1>2, <1>3, <1>4, <1>5, <1>6, <1>7 DEF Streaming

(* The wire of a peer.                                                     *)
LEMMA WireStep ==
  ASSUME RTypeOK, [RNext]_rvars
  PROVE  /\ wire' \in [Peer -> Seq(Msg \cup {Nil})]
         /\ \A p \in Peer : Len(wire'[p]) <= WireCap
<1> DEFINE Good(w) == w \in Seq(Msg \cup {Nil}) /\ Len(w) <= WireCap
           Wires == wire' \in [Peer -> Seq(Msg \cup {Nil})] /\ \A q \in Peer : Good(wire'[q])
<1>1. wire \in [Peer -> Seq(Msg \cup {Nil})] /\ \A p \in Peer : Good(wire[p])
  BY DEF RTypeOK
<1>2. Good(<<>>)
  BY ReplicationAssumption
<1>3. ASSUME NEW p \in Peer, NEW w, Good(w), wire' = [wire EXCEPT ![p] = w]
      PROVE  Wires
  BY <1>1, <1>3
<1>4. ASSUME NEW p \in Peer, Reply(p) PROVE Wires
  <2>1. wire' = [wire EXCEPT ![p] = Tail(wire[p])] /\ wire[p] # <<>>
    BY <1>4 DEF Reply
  <2>2. Good(Tail(wire[p]))
    BY <1>1, <2>1, ReceiveFrom, ReplicationAssumption
  <2> QED BY <1>3, <2>1, <2>2
<1>5. ASSUME NEW p \in Peer, Disconnect(p) PROVE Wires
  <2>1. PICK left \in {<<>>, wire[p]} : wire' = [wire EXCEPT ![p] = left]
    BY <1>5 DEF Disconnect
  <2> QED BY <1>1, <1>2, <1>3, <2>1
<1>6. ASSUME NEW p \in Peer, NEW f \in Feed, Serve(p, f) \/ ServeNull(p, f)
      PROVE  Wires
  <2>1. PICK e \in Msg \cup {Nil} : wire' = [wire EXCEPT ![p] = Append(wire[p], e)]
    BY <1>6 DEF Serve, ServeNull
  <2>2. Len(wire[p]) < WireCap
    BY <1>6 DEF Serve, ServeNull
  <2>3. Good(Append(wire[p], e))
    BY <1>1, <2>2, SendOn, ReplicationAssumption
  <2> QED BY <1>3, <2>1, <2>3
<1>7. ASSUME Restart PROVE Wires
  BY <1>2, <1>7 DEF Restart
<1>8. ASSUME wire' = wire PROVE Wires
  BY <1>1, <1>8
<1>9. ASSUME NEW p \in Peer, NEW f \in Feed,
             \/ PeerStores(p, f) \/ PeerAnnounces(p, f) \/ Ask(p, f) \/ PassOver(p, f)
             \/ GoLive(p, f)
      PROVE  wire' = wire
  BY <1>9 DEF PeerStores, PeerAnnounces, Ask, PassOver, GoLive
<1>10. ASSUME \/ Internal /\ UNCHANGED netVars
              \/ \E f \in Feed : Follows(f)
              \/ \E p \in Peer : Connect(p)
              \/ UNCHANGED rvars
       PROVE  wire' = wire
  BY <1>10 DEF netVars, rvars, Follows, Connect
<1>11. Wires
  <2> HIDE DEF Wires
  <2>1. ASSUME NEW p \in Peer, NEW f \in Feed, Streaming(p, f) PROVE Wires
    BY <1>6, <1>8, <1>9, <2>1 DEF Streaming
  <2> QED BY <1>4, <1>5, <1>7, <1>8, <1>10, <2>1 DEF RNext
<1> QED BY <1>11

LEMMA RTypeStep ==
  ASSUME RTypeOK, IInv, TypeOK', [RNext]_rvars
  PROVE  RTypeOK'
<1> DEFINE Streams == /\ stream' \in [Peer -> [Feed -> StreamType]]
                      /\ up' \subseteq Peer
                      /\ \A q \in Peer \ up' : stream'[q] = [g \in Feed |-> NoStream]
           Others == /\ followed' \subseteq Feed
                     /\ remote' \in [Peer -> [Feed -> Nat]]
                     /\ announced' \in [Peer -> [Feed -> Nat]]
                     /\ \A q \in Peer, g \in Feed : announced'[q][g] <= remote'[q][g]
                     /\ crashes' \in 0 .. MaxCrashes
<1>1. /\ stream \in [Peer -> [Feed -> StreamType]] /\ up \subseteq Peer
      /\ \A q \in Peer \ up : stream[q] = [g \in Feed |-> NoStream]
      /\ followed \subseteq Feed
      /\ remote \in [Peer -> [Feed -> Nat]]
      /\ announced \in [Peer -> [Feed -> Nat]]
      /\ \A q \in Peer, g \in Feed : announced[q][g] <= remote[q][g]
      /\ crashes \in 0 .. MaxCrashes
  BY DEF RTypeOK, StreamType
<1>2. NoStream \in StreamType
  BY DEF NoStream, StreamType
<1>3. Streams
  <2>1. ASSUME NEW p \in Peer, Connect(p) PROVE Streams
    <3>1. [NoStream EXCEPT !.pc = "call"] \in StreamType
      BY DEF NoStream, StreamType
    <3> QED BY <1>1, <1>2, <2>1, <3>1 DEF Connect
  <2>2. ASSUME NEW p \in Peer, Disconnect(p) PROVE Streams
    BY <1>1, <1>2, <2>2 DEF Disconnect
  <2>3. CASE Restart
    BY <1>1, <1>2, <2>3 DEF Restart
  <2>4. ASSUME NEW p \in Peer, NEW f \in Feed, Streaming(p, f) PROVE Streams
    <3>1. CASE stream' = stream /\ up' = up
      BY <1>1, <3>1
    <3>2. ASSUME NEW s \in StreamType, stream' = [stream EXCEPT ![p][f] = s], p \in up, up' = up
          PROVE  Streams
      BY <1>1, <3>2, SetStream
    <3> QED BY <2>4, <3>1, <3>2, OneStream
  <2>5. ASSUME stream' = stream, up' = up PROVE Streams
    BY <1>1, <2>5
  <2> QED BY <2>1, <2>2, <2>3, <2>4, <2>5 DEF RNext, rvars, netVars, Follows, Reply
<1>4. Others
  <2>1. ASSUME NEW p \in Peer, NEW f \in Feed, Streaming(p, f) PROVE Others
    <3>1. CASE PeerStores(p, f)
      <4>1. PICK m \in Msg : /\ m.sequence > remote[p][f]
                             /\ remote' = [remote EXCEPT ![p][f] = m.sequence]
        BY <3>1 DEF PeerStores
      <4>2. /\ m.sequence \in Nat /\ announced' = announced
            /\ followed' = followed /\ crashes' = crashes
        BY <3>1, MsgFields DEF PeerStores
      <4> QED BY <1>1, <4>1, <4>2
    <3>2. CASE PeerAnnounces(p, f)
      <4>1. /\ announced[p][f] + 1 <= remote[p][f]
            /\ announced' = [announced EXCEPT ![p][f] = announced[p][f] + 1]
            /\ UNCHANGED <<remote, followed, crashes>>
        BY <3>2 DEF PeerAnnounces
      <4> QED BY <1>1, <4>1
    <3>3. CASE Ask(p, f) \/ PassOver(p, f) \/ Serve(p, f) \/ ServeNull(p, f) \/ GoLive(p, f)
      BY <1>1, <3>3 DEF Ask, PassOver, Serve, ServeNull, GoLive
    <3> QED BY <2>1, <3>1, <3>2, <3>3 DEF Streaming
  <2>2. CASE Restart
    BY <1>1, <2>2, ReplicationAssumption DEF Restart
  <2>3. CASE ~Restart /\ ~\E p \in Peer, f \in Feed : Streaming(p, f)
    BY <1>1, <2>3 DEF RNext, rvars, netVars, Follows, Connect, Reply, Disconnect
  <2> QED BY <2>1, <2>2, <2>3
<1> QED BY <1>3, <1>4, WireStep DEF RTypeOK, StreamType

-----------------------------------------------------------------------------
(* What streams cover. *)

(* The message m of f lies behind the stream of f from p.                  *)
Covered(p, f, m) ==
  m.sequence < stream[p][f].next => m \in Arriving(p, f) \/ m.sequence \in stream[p][f].passed

(* What is arriving stays, unless the process dies or its connection ends. *)
LEMMA ArrivingStays ==
  ASSUME IInv, HonestInv, [StoreSteps]_vars, ~Crash,
         NEW p \in Peer, NEW f \in Feed, NEW m \in Msg, m.author = f,
         Items(wire[p]) \subseteq Items(wire'[p]), m \in Arriving(p, f)
  PROVE  m \in Arriving(p, f)'
<1>1. CASE m \in Items(wire[p])
  BY <1>1 DEF Arriving
<1>2. CASE m \in Queued(f)
  BY <1>2, QueuedStays DEF Arriving, Queued
<1> QED BY <1>1, <1>2 DEF Arriving, Queued

(* A crash closes every feed, which no other step does.                    *)
LEMMA NotACrash ==
  ASSUME TypeOK, Internal \/ (\E m \in Msg : AddMessage(m.author, m)) \/ UNCHANGED vars
  PROVE  ~Crash
<1> SUFFICES ASSUME Crash PROVE FALSE
  OBVIOUS
<1>1. PICK g \in Feed : proc[g] # "off" /\ proc'[g] = "off"
  BY DEF Crash, IsOpen
<1> USE DEF TypeOK, Goto
<1>2. ASSUME NEW f \in Feed,
             \/ GetFeed(f) \/ Drain(f) \/ Wait(f) \/ BeginUpdate(f) \/ LockFeed(f)
             \/ EndOfRun(f) \/ Commit(f) \/ Abort(f) \/ Send(f) \/ Sent(f) \/ TopicReceive(f)
      PROVE  FALSE
  BY <1>1, <1>2 DEF GetFeed, Drain, DrainRecv, DrainPut, DrainSignal, Wait, BeginUpdate,
     LockFeed, EndOfRun, Commit, Abort, Rollback, Send, Sent, TopicReceive
<1>3. ASSUME NEW f \in Feed, NEW m \in Msg,
             \/ AddMessage(f, m) \/ SkipMessage(f, m) \/ RejectMessage(f, m) \/ StoreMessage(f, m)
      PROVE  FALSE
  BY <1>1, <1>3 DEF AddMessage, SkipMessage, RejectMessage, StoreMessage
<1>4. CASE UNCHANGED vars
  BY <1>1, <1>4 DEF vars, feedVars
<1> QED BY <1>2, <1>3, <1>4, MsgFields DEF Internal, ProcessMessageQueue

(* A step that leaves the numbers of a stream alone and drops nothing.     *)
LEMMA StaysCovered ==
  ASSUME IInv, HonestInv, [StoreSteps]_vars, ~Crash,
         NEW p \in Peer, NEW f \in Feed, NEW m \in Msg, m.author = f, Covered(p, f, m),
         Items(wire[p]) \subseteq Items(wire'[p]),
         stream'[p][f].next = stream[p][f].next, stream'[p][f].passed = stream[p][f].passed
  PROVE  Covered(p, f, m)'
BY ArrivingStays DEF Covered

(* A stream starts after the messages that are stored.                     *)
LEMMA AskCovers ==
  ASSUME IInv, HonestInv, RTypeOK, NEW p \in Peer, NEW f \in Feed, Ask(p, f),
         NEW m \in Msg, m.author = f
  PROVE  Covered(p, f, m)'
<1>1. stream'[p][f].next = FirstAsked(f) /\ UNCHANGED <<vars, wire>>
  BY DEF Ask, RTypeOK, NoStream
<1>2. ASSUME m.sequence < FirstAsked(f) PROVE m \in db.log[f]
  <2>1. db.log[f] # {}
    BY <1>2, MsgFields DEF FirstAsked
  <2> DEFINE last == Latest(db.log[f])
  <2>2. last \in db.log[f] /\ last \in Msg
    BY <2>1, LogTypes, LatestIsGreatest DEF IInv, BucketInv, Chained
  <2>3. last.sequence \in Nat /\ m.sequence <= last.sequence
    BY <1>2, <2>1, <2>2, MsgFields DEF FirstAsked
  <2>4. UpTo(db.log[f], last.sequence)
    BY <2>2 DEF HonestInv, LogInv
  <2> HIDE DEF last
  <2> QED BY <2>3, <2>4, LogTypes, FullLogHolds
<1>3. db' = db
  BY <1>1 DEF vars
<1> QED BY <1>1, <1>2, <1>3 DEF Covered, Arriving

(* The handler sends the one message that has the next number.             *)
LEMMA ServeCovers ==
  ASSUME IInv, HonestInv, RTypeOK, NEW p \in Peer, NEW f \in Feed, Serve(p, f),
         NEW m \in Msg, m.author = f, Covered(p, f, m)
  PROVE  Covered(p, f, m)'
<1> DEFINE n == stream[p][f].next
<1>1. PICK o \in Msg : o.author = f /\ o.sequence = n /\ wire' = [wire EXCEPT ![p] = Append(@, o)]
  BY DEF Serve
<1>2. stream'[p][f].next = n + 1 /\ stream'[p][f].passed = stream[p][f].passed /\ UNCHANGED vars
  BY StreamTyped DEF Serve, RTypeOK, StreamType
<1>3. Items(wire'[p]) = Items(wire[p]) \cup {o}
  <2>1. wire'[p] = Append(wire[p], o)
    BY <1>1 DEF RTypeOK
  <2>2. wire[p] \in Seq(Msg \cup {Nil})
    BY StreamTyped
  <2> QED BY <2>1, <2>2, ItemsOfAppend
<1>4. CASE m.sequence = n
  <2>1. m = o
    BY <1>1, <1>4, OneChain
  <2> QED BY <1>3, <2>1 DEF Covered, Arriving
<1>5. CASE m.sequence # n
  <2>1. m.sequence < n + 1 => m.sequence < n
    BY <1>5, StreamTyped, MsgFields DEF StreamType
  <2>2. Arriving(p, f) \subseteq Arriving(p, f)'
    BY <1>2, <1>3 DEF Arriving, vars, feedVars
  <2> QED BY <1>2, <2>1, <2>2 DEF Covered
<1> QED BY <1>4, <1>5

LEMMA PassOverCovers ==
  ASSUME IInv, RTypeOK, NEW p \in Peer, NEW f \in Feed, PassOver(p, f),
         NEW m \in Msg, m.author = f, Covered(p, f, m)
  PROVE  Covered(p, f, m)'
<1> DEFINE n == stream[p][f].next
<1>1. /\ stream'[p][f].next = n + 1 /\ stream'[p][f].passed = stream[p][f].passed \cup {n}
      /\ UNCHANGED <<vars, wire>>
  BY StreamTyped DEF PassOver, RTypeOK, StreamType
<1>2. m.sequence < n + 1 => m.sequence < n \/ m.sequence = n
  BY StreamTyped, MsgFields DEF StreamType
<1>3. Arriving(p, f)' = Arriving(p, f)
  BY <1>1 DEF Arriving, vars, feedVars
<1> QED BY <1>1, <1>2, <1>3 DEF Covered

(* Going live never moves a stream forward.                                *)
LEMMA GoLiveCovers ==
  ASSUME IInv, RTypeOK, NEW p \in Peer, NEW f \in Feed, GoLive(p, f),
         NEW m \in Msg, m.author = f, Covered(p, f, m)
  PROVE  Covered(p, f, m)'
<1> DEFINE r == remote[p][f]
           n == announced[p][f] + 1
<1>1. /\ stream'[p][f].next = n
      /\ stream'[p][f].passed = {o \in stream[p][f].passed : o < n}
      /\ stream[p][f].next > r /\ UNCHANGED <<vars, wire>>
  BY StreamTyped DEF GoLive, RTypeOK, StreamType
<1>2. /\ r \in Nat /\ stream[p][f].next \in Nat /\ m.sequence \in Nat
      /\ announced[p][f] \in Nat /\ announced[p][f] <= r
  BY StreamTyped, MsgFields DEF StreamType, RTypeOK
<1>3. m.sequence < n => m.sequence < stream[p][f].next
  BY <1>1, <1>2
<1>4. Arriving(p, f)' = Arriving(p, f)
  BY <1>1 DEF Arriving, vars, feedVars
<1> QED BY <1>1, <1>3, <1>4 DEF Covered

(* A reply hands the message over to the feed of its author.               *)
LEMMA ReplyCovers ==
  ASSUME IInv, HonestInv, RTypeOK, NEW p \in Peer, Reply(p),
         NEW q \in Peer, NEW f \in Feed, NEW m \in Msg, m.author = f, Covered(q, f, m)
  PROVE  Covered(q, f, m)'
<1> DEFINE h == Head(wire[p])
<1>1. /\ stream' = stream /\ wire' = [wire EXCEPT ![p] = Tail(@)]
      /\ wire \in [Peer -> Seq(Msg \cup {Nil})] /\ wire[p] # <<>>
  BY DEF Reply, RTypeOK
<1>2. [StoreSteps]_vars /\ ~Crash
  BY ReplyAdds, NotACrash DEF StoreSteps, IInv
<1>3. CASE q # p
  <2>1. wire'[q] = wire[q]
    BY <1>1, <1>3
  <2> QED BY <1>1, <1>2, <2>1, StaysCovered
<1>4. CASE q = p
  <2>1. Items(wire[p]) = Items(wire'[p]) \cup {h}
    BY <1>1, ItemsOfTail
  <2>2. m \in Queued(f) => m \in Queued(f)'
    BY <1>2, QueuedStays
  <2>3. m = h => m \in Queued(f)'
    <3> SUFFICES ASSUME m = h PROVE m \in Queued(f)'
      OBVIOUS
    <3>1. AddMessage(f, m)
      BY ReplyAdds, MsgFields
    <3>2. addChan[f] \in Seq(Msg) /\ addChan'[f] = Append(addChan[f], m)
      BY <3>1 DEF AddMessage, IInv, TypeOK
    <3>3. m \in Items(addChan'[f])
      BY <3>2, ItemsOfAppend
    <3> QED BY <3>3 DEF Queued
  <2>4. m \in Arriving(p, f) => m \in Arriving(p, f)'
    BY <2>1, <2>2, <2>3 DEF Arriving, Queued
  <2> QED BY <1>1, <1>4, <2>4 DEF Covered
<1> QED BY <1>3, <1>4

LEMMA CoverStep ==
  ASSUME IInv, HonestInv, RTypeOK, StreamsCover, [RNext]_rvars
  PROVE  StreamsCover'
<1> SUFFICES ASSUME NEW q \in Peer, NEW g \in Feed, NEW m \in Msg, m.author = g
             PROVE  Covered(q, g, m)'
  BY DEF StreamsCover, Covered
<1>0. /\ Covered(q, g, m) /\ TypeOK
      /\ stream \in [Peer -> [Feed -> StreamType]] /\ wire \in [Peer -> Seq(Msg \cup {Nil})]
  BY DEF StreamsCover, Covered, IInv, RTypeOK, StreamType
<1>1. [StoreSteps]_vars
  BY ReplicationIsStore
<1>2. ASSUME stream'[q][g].next = stream[q][g].next, stream'[q][g].passed = stream[q][g].passed,
             Items(wire[q]) \subseteq Items(wire'[q]), ~Crash
      PROVE  Covered(q, g, m)'
  BY <1>0, <1>1, <1>2, StaysCovered
<1>3. ASSUME stream'[q][g].next = 0 PROVE Covered(q, g, m)'
  BY <1>3, MsgFields DEF Covered
<1>4. ASSUME UNCHANGED <<stream, wire>>, UNCHANGED vars \/ Internal PROVE Covered(q, g, m)'
  BY <1>0, <1>2, <1>4, NotACrash
<1>5. ASSUME NEW f \in Feed, Follows(f) PROVE Covered(q, g, m)'
  BY <1>4, <1>5 DEF Follows
<1>6. ASSUME NEW p \in Peer, Connect(p) \/ Disconnect(p) PROVE Covered(q, g, m)'
  <2>1. UNCHANGED vars /\ ~Crash
    BY <1>0, <1>6, NotACrash DEF Connect, Disconnect
  <2>2. CASE q = p
    BY <1>0, <1>3, <1>6, <2>2 DEF Connect, Disconnect, NoStream
  <2>3. CASE q # p
    <3>1. stream'[q] = stream[q] /\ wire'[q] = wire[q]
      BY <1>0, <1>6, <2>3 DEF Connect, Disconnect
    <3> QED BY <1>2, <2>1, <3>1
  <2> QED BY <2>2, <2>3
<1>7. ASSUME NEW p \in Peer, Reply(p) PROVE Covered(q, g, m)'
  BY <1>0, <1>7, ReplyCovers
<1>8. ASSUME NEW p \in Peer, NEW f \in Feed, Streaming(p, f) PROVE Covered(q, g, m)'
  <2>0. UNCHANGED vars /\ ~Crash
    BY <1>0, <1>8, NotACrash
    DEF Streaming, PeerStores, PeerAnnounces, Ask, PassOver, Serve, ServeNull, GoLive
  <2>1. Items(wire[q]) \subseteq Items(wire'[q])
    <3>1. ASSUME NEW e \in Msg \cup {Nil}, wire' = [wire EXCEPT ![p] = Append(@, e)]
          PROVE  Items(wire[q]) \subseteq Items(wire'[q])
      <4>1. wire'[q] = IF q = p THEN Append(wire[q], e) ELSE wire[q]
        BY <1>0, <3>1
      <4>2. wire[q] \in Seq(Msg \cup {Nil})
        BY <1>0
      <4>3. Items(Append(wire[q], e)) = Items(wire[q]) \cup {e}
        BY <4>2, ItemsOfAppend
      <4> QED BY <4>1, <4>3
    <3>2. CASE Serve(p, f) \/ ServeNull(p, f)
      BY <3>1, <3>2 DEF Serve, ServeNull
    <3>3. CASE ~Serve(p, f) /\ ~ServeNull(p, f)
      BY <1>8, <3>3 DEF Streaming, PeerStores, PeerAnnounces, Ask, PassOver, GoLive
    <3> QED BY <3>2, <3>3
  <2>2. CASE PeerStores(p, f) \/ ServeNull(p, f)
    BY <1>2, <2>0, <2>1, <2>2 DEF PeerStores, ServeNull
  <2>3. CASE PeerAnnounces(p, f)
    <3>1. stream'[q][g].next = stream[q][g].next /\ stream'[q][g].passed = stream[q][g].passed
      <4>1. CASE stream' = stream
        BY <4>1
      <4>2. CASE stream' # stream
        <5> DEFINE s == stream[p][f]
                   t == [s EXCEPT !.pc = "evicted", !.stop = announced[p][f] + 1]
        <5>1. s \in StreamType
          BY <1>0
        <5>2. t.next = s.next /\ t.passed = s.passed
          BY <5>1 DEF StreamType
        <5>3. stream' = [stream EXCEPT ![p][f] = t]
          <6>1. stream' = [stream EXCEPT ![p][f].pc = "evicted", ![p][f].stop = announced[p][f] + 1]
            BY <2>3, <4>2 DEF PeerAnnounces
          <6> QED BY <1>0, <6>1
        <5> HIDE DEF t
        <5> QED BY <1>0, <5>2, <5>3
      <4> QED BY <4>1, <4>2
    <3> QED BY <1>2, <2>0, <2>1, <3>1
  <2>4. CASE Ask(p, f) \/ Serve(p, f) \/ PassOver(p, f) \/ GoLive(p, f)
    <3>1. CASE q = p /\ g = f
      BY <1>0, <2>4, <3>1, AskCovers, ServeCovers, PassOverCovers, GoLiveCovers
    <3>2. CASE ~(q = p /\ g = f)
      <4>1. stream'[q][g] = stream[q][g]
        BY <1>0, <2>4, <3>2 DEF Ask, Serve, PassOver, GoLive
      <4> QED BY <1>2, <2>0, <2>1, <4>1
    <3> QED BY <3>1, <3>2
  <2> QED BY <1>8, <2>2, <2>3, <2>4 DEF Streaming
<1>9. CASE Restart
  BY <1>3, <1>9 DEF Restart, NoStream
<1> QED
  BY <1>4, <1>5, <1>6, <1>7, <1>8, <1>9 DEF RNext, rvars, netVars

-----------------------------------------------------------------------------
ReplicationInv == IInv /\ HonestInv /\ RTypeOK /\ StreamsCover

LEMMA ReplicationInit == RInit => ReplicationInv
<1> SUFFICES ASSUME RInit PROVE ReplicationInv
  OBVIOUS
<1>1. IInv /\ HonestInv
  BY IInvInit, HonestInit DEF RInit
<1>2. RTypeOK
  <2>1. <<>> \in Seq(Msg \cup {Nil}) /\ Len(<<>>) <= WireCap
    BY ReplicationAssumption
  <2>2. NoStream \in StreamType
    BY DEF NoStream, StreamType
  <2> QED BY <1>1, <2>1, <2>2, ReplicationAssumption DEF RInit, RTypeOK, StreamType, IInv
<1>3. StreamsCover
  BY MsgFields DEF RInit, StreamsCover, NoStream
<1> QED BY <1>1, <1>2, <1>3 DEF ReplicationInv

LEMMA ReplicationStep ==
  ASSUME ReplicationInv, [RNext]_rvars
  PROVE  ReplicationInv'
<1>1. [StoreSteps]_vars /\ [Next]_vars
  BY ReplicationIsStore, StepIsStore DEF ReplicationInv
<1>2. IInv' /\ HonestInv'
  BY <1>1, IInvStep, HonestStep DEF ReplicationInv
<1> QED BY <1>2, RTypeStep, CoverStep DEF ReplicationInv, IInv

LEMMA Replicates == RSpec => []ReplicationInv
BY ReplicationInit, ReplicationStep, PTL DEF RSpec

(* The types, and a peer that is not connected has no stream               *)
(* (gossip.go:160-199).                                                    *)
THEOREM ReplicationTypes == RSpec => []RTypeOK
BY Replicates, PTL DEF ReplicationInv

(* For any number of peers that send the same feeds, a stream never skips  *)
(* what is missing here (gossip.go:168-199, feeds.go:193-195, 313-320).    *)
THEOREM NothingMissed == RSpec => []StreamsCover
BY Replicates, PTL DEF ReplicationInv

(* The replication is a behaviour of the store.                            *)
THEOREM ReplicationUsesStore == RSpec => Spec
<1>1. RInit => Init
  BY DEF RInit
<1>2. ReplicationInv /\ [RNext]_rvars => [Next]_vars
  BY ReplicationIsStore, StepIsStore DEF ReplicationInv
<1> QED BY <1>1, <1>2, Replicates, PTL DEF RSpec, Spec
=============================================================================
