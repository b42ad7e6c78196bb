-------------------------- MODULE FeedStoreProofs ---------------------------
(***************************************************************************)
(* Proofs about FeedStore, for any feeds, messages, modules and channel    *)
(* capacities.  IInv is the inductive invariant: TypeOK, what the write    *)
(* lock protects, the chain in each bucket (of the committed state and of  *)
(* the open transaction), and that LatestSeq is never behind a bucket.     *)
(* AnnInv adds what Update's newMsgs, the channels and the drainer hold,   *)
(* Sound how pointers, the global log and the indexes of one view of the   *)
(* database agree with the order in which messages were stored, from which *)
(* the datastore is shown to implement AppendOnlyLogs.                     *)
(***************************************************************************)
EXTENDS FeedStore, SequenceTheorems, TLAPS

InUpdate == {"update", "loop", "commit", "abort"}

(* bolt's write lock is held by the processor that is inside db.Update. *)
WriterInv == \A f \in Feed : proc[f] \in InUpdate <=> writer = f

(* A bucket has a last entry, so that Latest is defined. *)
HasLatest(S) == S = {} \/ \E m \in S : \A o \in S : o.sequence <= m.sequence

(* The chain that the bucket of feed f holds. *)
Chained(f, S) ==
  /\ OnePerSequence(S)
  /\ HasLatest(S)
  /\ \A m \in S : /\ m.author = f
                  /\ m.signed
                  /\ m.sequence # 0
                  /\ Linked(S, m)

BucketInv == \A f \in Feed : Chained(f, db.log[f]) /\ Chained(f, tx.log[f])

(* Without a transaction tx is the committed state, with one it extends it *)
(* in the feed of the writer.                                              *)
TxInv ==
  /\ writer = Nil => tx = db
  /\ \A f \in Feed : /\ db.log[f] \subseteq tx.log[f]
                     /\ writer # f => tx.log[f] = db.log[f]
  /\ Len(db.global) <= Len(tx.global)
  /\ \A i \in DOMAIN db.global : tx.global[i] = db.global[i]

(* A feed that is not open has no goroutines and nothing in its queues. *)
ClosedInv ==
  \A f \in Feed : ~IsOpen(f) => /\ waiting[f] = {}
                                /\ addChan[f] = <<>>
                                /\ drain[f].pc = "recv"

IInv == TypeOK /\ WriterInv /\ ClosedInv /\ BucketInv /\ TxInv /\ NeverBehindLog

-----------------------------------------------------------------------------
(* Facts about buckets. *)

LEMMA MsgFields ==
  ASSUME NEW m \in Msg
  PROVE  /\ m.id \in Key /\ m.author \in Feed /\ m.sequence \in Nat
         /\ m.previous \in Key \cup {Nil} /\ m.timestamp \in Int
         /\ m.signed \in BOOLEAN /\ m # Nil
BY MessageAssumption

(* Latest returns the entry with the greatest number. *)
LEMMA LatestIsGreatest ==
  ASSUME NEW S, HasLatest(S), S # {}
  PROVE  /\ Latest(S) \in S
         /\ \A o \in S : o.sequence <= Latest(S).sequence
BY DEF Latest, HasLatest

(* GetFeed starts from a number that no stored message exceeds. *)
LEMMA LatestSequenceBounds ==
  ASSUME NEW S \in SUBSET Msg, HasLatest(S)
  PROVE  /\ LatestSequence(S) \in Nat
         /\ \A o \in S : o.sequence <= LatestSequence(S)
BY LatestIsGreatest, MsgFields DEF LatestSequence

(* A message that Verify lets through after all others extends the chain. *)
LEMMA VerifiedExtends ==
  ASSUME NEW f \in Feed, NEW S \in SUBSET Msg, Chained(f, S),
         NEW m \in Msg, m.author = f, Verify(S, m),
         m.sequence # 0, \A o \in S : o.sequence < m.sequence
  PROVE  /\ Chained(f, PutSeq(S, m))
         /\ PutSeq(S, m) = S \cup {m}
<1> DEFINE T == S \cup {m}
<1>1. PutSeq(S, m) = T
  BY MsgFields DEF PutSeq
<1>2. OnePerSequence(T)
  BY MsgFields DEF OnePerSequence, Chained
<1>3. HasLatest(T)
  <2>1. m \in T /\ \A o \in T : o.sequence <= m.sequence
    BY MsgFields
  <2> QED BY <2>1 DEF HasLatest
<1>4. ASSUME NEW o \in S PROVE Linked(T, o)
  <2>1. Linked(S, o)
    BY DEF Chained
  <2>2. m.sequence + 1 # o.sequence
    BY MsgFields
  <2> QED BY <2>1, <2>2 DEF Linked
<1>5. Linked(T, m)
  <2>1. CASE m.sequence = 1
    BY <2>1 DEF Linked
  <2>2. CASE \E p \in S : p.sequence = m.sequence - 1
    <3> DEFINE l == GetSeq(S, m.sequence - 1)
    <3>1. l \in S /\ l.sequence = m.sequence - 1
      BY <2>2 DEF GetSeq
    <3>2. l # Nil
      BY <3>1, MsgFields
    <3>3. m.sequence # 1 => m.previous = l.id /\ m.timestamp > l.timestamp
      BY <3>2 DEF Verify
    <3>4. l.sequence + 1 = m.sequence
      BY <3>1, MsgFields
    <3> QED BY <3>1, <3>3, <3>4, MsgFields DEF Linked
  <2>3. CASE m.sequence # 1 /\ ~ \E p \in S : p.sequence = m.sequence - 1
    <3>1. GetSeq(S, m.sequence - 1) = Nil
      BY <2>3 DEF GetSeq
    <3>2. m.previous = Nil
      BY <2>3, <3>1 DEF Verify
    <3>3. \A p \in T : p.sequence + 1 # m.sequence
      BY <2>3, MsgFields
    <3> QED BY <3>2, <3>3 DEF Linked
  <2> QED BY <2>1, <2>2, <2>3
<1>6. m.signed
  BY DEF Verify
<1>7. Chained(f, T)
  BY <1>2, <1>3, <1>4, <1>5, <1>6 DEF Chained
<1> QED BY <1>1, <1>7

-----------------------------------------------------------------------------
(* Types: what the store's look-ups and addMessage return. *)

LEMMA GetSeqType ==
  ASSUME NEW S \in SUBSET Msg, NEW n
  PROVE  GetSeq(S, n) \in Msg \cup {Nil}
BY DEF GetSeq

LEMMA GetType ==
  ASSUME NEW d \in Database, NEW k \in Key
  PROVE  Get(d, k) \in Msg \cup {Nil}
<1>1. CASE d.pointer[k] = Nil
  BY <1>1 DEF Get
<1>2. CASE d.pointer[k] # Nil
  <2>1. d.pointer[k] \in Pointer
    BY <1>2 DEF Database
  <2>2. d.log[d.pointer[k].author] \in SUBSET Msg
    BY <2>1 DEF Database, Pointer
  <2> QED BY <2>2, <1>2, GetSeqType DEF Get
<1> QED BY <1>1, <1>2

LEMMA ReplayedType ==
  ASSUME NEW d \in Database
  PROVE  Replayed(d) \in Seq(Msg \cup {Nil})
<1> DEFINE s == d.global
<1>1. s \in Seq(Key)
  BY DEF Database
<1> HIDE DEF s
<1>2. Len(s) \in Nat /\ \A i \in 1 .. Len(s) : s[i] \in Key
  BY <1>1
<1>3. \A k \in Key : Get(d, k) \in Msg \cup {Nil}
  BY GetType
<1>4. \A i \in 1 .. Len(s) : Get(d, s[i]) \in Msg \cup {Nil}
  BY <1>2, <1>3
<1>5. Replayed(d) = [i \in 1 .. Len(s) |-> Get(d, s[i])]
  BY DEF Replayed, s
<1> QED BY <1>2, <1>4, <1>5

LEMMA AddToDBType ==
  ASSUME NEW d \in Database, NEW f \in Feed, NEW m \in Msg
  PROVE  /\ AddToDB(d, f, m) \in Database
         /\ AddToDB(d, f, m).log = [d.log EXCEPT ![f] = PutSeq(@, m)]
         /\ AddToDB(d, f, m).global = Append(d.global, m.id)
         /\ AddToDB(d, f, m).order = Append(d.order, m)
<1> DEFINE p == [sequence |-> m.sequence, logKey |-> Len(d.global) + 1, author |-> m.author]
<1>1. PutSeq(d.log[f], m) \in SUBSET Msg
  BY DEF PutSeq, Database
<1>2. p \in Pointer
  BY MsgFields DEF Pointer, Database
<1>3. [d.pointer EXCEPT ![m.id] = p] \in [Key -> Pointer \cup {Nil}]
  BY <1>2, MsgFields DEF Database
<1>4. Append(d.global, m.id) \in Seq(Key) /\ Append(d.order, m) \in Seq(Msg)
  BY MsgFields DEF Database
<1>5. [mod \in Module |-> Append(d.index[mod], m)] \in [Module -> Seq(Msg \cup {Nil})]
  BY DEF Database
<1>6. [d.log EXCEPT ![f] = PutSeq(@, m)] \in [Feed -> SUBSET Msg]
  BY <1>1 DEF Database
<1> QED BY <1>3, <1>4, <1>5, <1>6 DEF AddToDB, Database

LEMMA EmptyDBType == EmptyDB \in Database
BY DEF EmptyDB, Database

(* A rebuild of all indexes, or of one, some errors of its hook dropped. *)
AnyRebuild ==
  \/ RebuildAll
  \/ \E mod \in Module : \E failed \in SUBSET DOMAIN db.global : Rebuild(mod, failed)

LEMMA HealthyRebuild ==
  ASSUME NEW mod \in Module, Rebuild(mod, {})
  PROVE  AnyRebuild
BY DEF AnyRebuild

(* What a rebuild may fill an index with. *)
Refilled(d) == {s \in Seq(Msg \cup {Nil}) :
                  /\ Len(s) = Len(d.global)
                  /\ \A i \in 1 .. Len(d.global) : s[i] \in {Nil, Get(d, d.global[i])}}

(* A rebuild, outside any transaction, changes nothing but indexes. *)
LEMMA RebuildFacts ==
  ASSUME db \in Database, AnyRebuild
  PROVE  /\ writer = Nil /\ tx' = db' /\ db' \in Database
         /\ UNCHANGED <<writer, feedVars>>
         /\ db'.log = db.log /\ db'.global = db.global /\ db'.order = db.order
         /\ db'.pointer = db.pointer
         /\ \A mod \in Module : db'.index[mod] = db.index[mod] \/ db'.index[mod] \in Refilled(db)
<1> DEFINE n == Len(db.global)
           Fill(failed) == [i \in DOMAIN db.global |-> IF i \in failed THEN Nil ELSE Replayed(db)[i]]
<1>1. n \in Nat /\ DOMAIN db.global = 1 .. n /\ \A i \in 1 .. n : db.global[i] \in Key
  BY DEF Database
<1>2. \A i \in 1 .. n : Replayed(db)[i] = Get(db, db.global[i])
  BY <1>1 DEF Replayed
<1>3. \A i \in 1 .. n : Get(db, db.global[i]) \in Msg \cup {Nil}
  BY <1>1, GetType
<1>4. Replayed(db) \in Refilled(db)
  <2>1. Len(Replayed(db)) = n
    BY <1>1 DEF Replayed
  <2>2. Replayed(db) \in Seq(Msg \cup {Nil})
    BY ReplayedType
  <2> QED BY <1>2, <2>1, <2>2 DEF Refilled
<1>5. ASSUME NEW failed PROVE Fill(failed) \in Refilled(db)
  <2>1. \A i \in 1 .. n : Fill(failed)[i] \in {Nil, Get(db, db.global[i])}
    BY <1>1, <1>2
  <2>2. Fill(failed) \in Seq(Msg \cup {Nil}) /\ Len(Fill(failed)) = n
    BY <1>1, <1>2, <1>3
  <2> HIDE DEF Fill
  <2> QED BY <2>1, <2>2 DEF Refilled
<1>6. PICK mods \in SUBSET Module, index \in Refilled(db) : Reindex(mods, index)
  BY <1>4, <1>5 DEF AnyRebuild, RebuildAll, Rebuild
<1>7. /\ writer = Nil /\ tx' = db' /\ UNCHANGED <<writer, feedVars>>
      /\ db' = [db EXCEPT !.index = [mod \in Module |->
                  IF mod \in mods THEN index ELSE db.index[mod]]]
  BY <1>6 DEF Reindex
<1>8. [mod \in Module |-> IF mod \in mods THEN index ELSE db.index[mod]]
        \in [Module -> Seq(Msg \cup {Nil})]
  BY DEF Database, Refilled
<1>9. /\ db' \in Database
      /\ db'.log = db.log /\ db'.global = db.global /\ db'.order = db.order
      /\ db'.pointer = db.pointer
      /\ \A mod \in Module : db'.index[mod] = IF mod \in mods THEN index ELSE db.index[mod]
  BY <1>7, <1>8 DEF Database
<1> QED BY <1>6, <1>7, <1>9

-----------------------------------------------------------------------------
(* Channels are sequences: sending and receiving. *)

LEMMA SendOn ==
  ASSUME NEW S, NEW s \in Seq(S), NEW e \in S
  PROVE  Append(s, e) \in Seq(S) /\ Len(Append(s, e)) = Len(s) + 1
OBVIOUS

LEMMA ReceiveFrom ==
  ASSUME NEW S, NEW s \in Seq(S), s # <<>>
  PROVE  /\ Head(s) \in S
         /\ Tail(s) \in Seq(S)
         /\ Len(Tail(s)) = Len(s) - 1
         /\ Len(s) \in Nat
OBVIOUS

(* What is in a sequence. *)

LEMMA ItemsOfConcat ==
  ASSUME NEW S, NEW s \in Seq(S), NEW t \in Seq(S)
  PROVE  Items(s) \cup Items(t) \subseteq Items(s \o t)
<1> DEFINE u == s \o t
<1>1. /\ Len(s) \in Nat /\ DOMAIN s = 1 .. Len(s) /\ DOMAIN t = 1 .. Len(t)
      /\ \A i \in 1 .. Len(s) : i \in DOMAIN u /\ u[i] = s[i]
      /\ \A i \in 1 .. Len(t) : Len(s) + i \in DOMAIN u /\ u[Len(s) + i] = t[i]
  OBVIOUS
<1> HIDE DEF u
<1>2. Items(s) \subseteq Items(u) /\ Items(t) \subseteq Items(u)
  BY <1>1 DEF Items
<1> QED BY <1>2 DEF u

LEMMA ItemsOfAppend ==
  ASSUME NEW S, NEW s \in Seq(S), NEW e \in S
  PROVE  Items(Append(s, e)) = Items(s) \cup {e}
<1> DEFINE u == Append(s, e)
<1>1. /\ Len(s) \in Nat /\ DOMAIN s = 1 .. Len(s) /\ DOMAIN u = 1 .. Len(s) + 1
      /\ \A i \in 1 .. Len(s) : u[i] = s[i]
      /\ u[Len(s) + 1] = e
  OBVIOUS
<1> HIDE DEF u
<1>2. \A i \in DOMAIN u : i \in DOMAIN s \/ i = Len(s) + 1
  BY <1>1
<1>3. DOMAIN s \subseteq DOMAIN u /\ Len(s) + 1 \in DOMAIN u
  BY <1>1
<1>4. Items(u) = Items(s) \cup {e}
  BY <1>1, <1>2, <1>3 DEF Items
<1> QED BY <1>4 DEF u

LEMMA ItemsOfTail ==
  ASSUME NEW S, NEW s \in Seq(S), s # <<>>
  PROVE  Items(s) = Items(Tail(s)) \cup {Head(s)}
<1> DEFINE u == Tail(s)
<1>1. /\ Len(s) \in Nat /\ DOMAIN s = 1 .. Len(s) /\ DOMAIN u = 1 .. Len(s) - 1
      /\ \A i \in 1 .. Len(s) - 1 : u[i] = s[i + 1]
      /\ Head(s) = s[1] /\ Len(s) # 0
  OBVIOUS
<1> HIDE DEF u
<1>2. 1 \in DOMAIN s /\ \A i \in DOMAIN u : i + 1 \in DOMAIN s
  BY <1>1
<1>3. \A i \in DOMAIN s : i = 1 \/ (i - 1 \in DOMAIN u /\ s[i] = u[i - 1])
  <2> SUFFICES ASSUME NEW i \in DOMAIN s, i # 1 PROVE i - 1 \in DOMAIN u /\ s[i] = u[i - 1]
    OBVIOUS
  <2>1. i - 1 \in 1 .. Len(s) - 1 /\ (i - 1) + 1 = i
    BY <1>1
  <2> QED BY <1>1, <2>1
<1>4. Items(s) \subseteq Items(u) \cup {Head(s)}
  BY <1>1, <1>3 DEF Items
<1>5. Items(u) \cup {Head(s)} \subseteq Items(s)
  BY <1>1, <1>2 DEF Items
<1> QED BY <1>4, <1>5 DEF u

-----------------------------------------------------------------------------
(* Every action keeps the types. *)

LEMMA TypeInit == Init => TypeOK
BY EmptyDBType, CapacityAssumption, MessageAssumption DEF Init, TypeOK, ProcPC

LEMMA TypeStep ==
  ASSUME TypeOK, BucketInv, [Next]_vars
  PROVE  TypeOK'
<1> USE DEF TypeOK, ProcPC, Goto
<1>1. ASSUME NEW f \in Feed, GetFeed(f) PROVE TypeOK'
  <2>1. LatestSequence(db.log[f]) \in Nat
    BY LatestSequenceBounds DEF BucketInv, Chained, Database
  <2> QED BY <1>1, <2>1 DEF GetFeed
<1>2. ASSUME NEW f \in Feed, NEW m \in Msg, AddMessage(f, m) PROVE TypeOK'
  <2>1. /\ Append(addChan[f], m) \in Seq(Msg)
        /\ Len(Append(addChan[f], m)) <= AddChanCap
    BY <1>2, SendOn, CapacityAssumption DEF AddMessage
  <2>2. /\ addChan' \in [Feed -> Seq(Msg)]
        /\ \A g \in Feed : Len(addChan'[g]) <= AddChanCap
    BY <1>2, <2>1 DEF AddMessage
  <2> QED BY <1>2, <2>2 DEF AddMessage
<1>3. ASSUME NEW f \in Feed, DrainRecv(f) PROVE TypeOK'
  <2>1. /\ Head(addChan[f]) \in Msg
        /\ Tail(addChan[f]) \in Seq(Msg)
        /\ Len(Tail(addChan[f])) <= AddChanCap
    BY <1>3, ReceiveFrom, CapacityAssumption DEF DrainRecv
  <2>2. /\ addChan' \in [Feed -> Seq(Msg)]
        /\ \A g \in Feed : Len(addChan'[g]) <= AddChanCap
    BY <1>3, <2>1 DEF DrainRecv
  <2> QED BY <1>3, <2>1, <2>2 DEF DrainRecv
<1>4. ASSUME NEW f \in Feed, DrainPut(f) PROVE TypeOK'
  <2>1. PutSeq(waiting[f], drain[f].msg) \in SUBSET Msg
    BY <1>4 DEF DrainPut, PutSeq
  <2> QED BY <1>4, <2>1 DEF DrainPut
<1>5. ASSUME NEW f \in Feed, DrainSignal(f) PROVE TypeOK'
  BY <1>5 DEF DrainSignal
<1>0. <<>> \in Seq(Msg)
  OBVIOUS
<1>6. ASSUME NEW f \in Feed, BeginUpdate(f) PROVE TypeOK'
  <2>1. newMsgs' \in [Feed -> Seq(Msg)]
    BY <1>6, <1>0 DEF BeginUpdate
  <2> QED BY <1>6, <2>1 DEF BeginUpdate
<1>7. ASSUME NEW f \in Feed, Wait(f) \/ LockFeed(f) \/ EndOfRun(f) \/ Sent(f)
      PROVE  TypeOK'
  BY <1>7 DEF Wait, LockFeed, EndOfRun, Sent
<1>8. ASSUME NEW f \in Feed, Commit(f) PROVE TypeOK'
  BY <1>8 DEF Commit
<1>9. ASSUME NEW f \in Feed, NEW m \in Msg,
             SkipMessage(f, m) \/ RejectMessage(f, m) \/ StoreFails(f, m)
      PROVE  TypeOK'
  <2>0. waiting' = [waiting EXCEPT ![f] = @ \ {m}]
    BY <1>9 DEF SkipMessage, RejectMessage, StoreFails, Takes
  <2>1. waiting' \in [Feed -> SUBSET Msg]
    BY <2>0
  <2>2. proc' \in [Feed -> ProcPC]
    BY <1>9 DEF SkipMessage, RejectMessage, StoreFails
  <2>3. UNCHANGED <<db, tx, writer, addChan, drain, latestSeq, newMsgs, sendChan, heard, base>>
    BY <1>9 DEF SkipMessage, RejectMessage, StoreFails
  <2> QED BY <2>1, <2>2, <2>3
<1>10. ASSUME NEW f \in Feed, NEW m \in Msg, StoreMessage(f, m) PROVE TypeOK'
  <2>1. AddToDB(tx, f, m) \in Database
    BY AddToDBType
  <2>2. Append(newMsgs[f], m) \in Seq(Msg)
    BY SendOn
  <2>3. m.sequence \in Nat
    BY MsgFields
  <2> QED BY <1>10, <2>1, <2>2, <2>3 DEF StoreMessage, Takes
<1>11. ASSUME NEW f \in Feed, Abort(f) \/ CommitFails(f) PROVE TypeOK'
  <2>1. newMsgs' \in [Feed -> Seq(Msg)]
    BY <1>11, <1>0 DEF Abort, CommitFails, Rollback
  <2> QED BY <1>11, <2>1 DEF Abort, CommitFails, Rollback
<1>12. ASSUME NEW f \in Feed, Send(f) PROVE TypeOK'
  <2>1. /\ Head(newMsgs[f]) \in Msg
        /\ Tail(newMsgs[f]) \in Seq(Msg)
    BY <1>12, ReceiveFrom DEF Send
  <2>2. /\ Append(sendChan[f], Head(newMsgs[f])) \in Seq(Msg)
        /\ Len(Append(sendChan[f], Head(newMsgs[f]))) <= SendCap
    BY <1>12, <2>1, SendOn, CapacityAssumption DEF Send
  <2>3. /\ sendChan' \in [Feed -> Seq(Msg)]
        /\ \A g \in Feed : Len(sendChan'[g]) <= SendCap
    BY <1>12, <2>2 DEF Send
  <2> QED BY <1>12, <2>1, <2>3 DEF Send
<1>13. ASSUME NEW f \in Feed, TopicReceive(f) PROVE TypeOK'
  <2>1. /\ Head(sendChan[f]) \in Msg
        /\ Tail(sendChan[f]) \in Seq(Msg)
        /\ Len(Tail(sendChan[f])) <= SendCap
    BY <1>13, ReceiveFrom, CapacityAssumption DEF TopicReceive
  <2>2. Append(heard[f], Head(sendChan[f])) \in Seq(Msg)
    BY <2>1, SendOn
  <2>3. /\ sendChan' \in [Feed -> Seq(Msg)]
        /\ \A g \in Feed : Len(sendChan'[g]) <= SendCap
    BY <1>13, <2>1 DEF TopicReceive
  <2> QED BY <1>13, <2>2, <2>3 DEF TopicReceive
<1>14. ASSUME AnyRebuild PROVE TypeOK'
  BY <1>14, RebuildFacts DEF feedVars
<1>15. ASSUME Crash PROVE TypeOK'
  BY <1>15, CapacityAssumption DEF Crash
<1>16. CASE UNCHANGED vars
  BY <1>16 DEF vars, feedVars
<1> QED
  BY <1>1, <1>2, <1>3, <1>4, <1>5, <1>6, <1>7, <1>8, <1>9, <1>10, <1>11, <1>12, <1>13,
     <1>14, <1>15, <1>16, HealthyRebuild
  DEF Next, Healthy, Internal, AnyRebuild, Fault, Drain, ProcessMessageQueue

-----------------------------------------------------------------------------
(* The control part: who holds the write lock, and what is not open. *)

LEMMA WriterStep ==
  ASSUME TypeOK, WriterInv, [Next]_vars
  PROVE  WriterInv'
<1> USE DEF TypeOK, WriterInv, InUpdate, Goto
<1>1. ASSUME NEW f \in Feed, GetFeed(f) PROVE WriterInv'
  BY <1>1 DEF GetFeed, IsOpen
<1>2. ASSUME NEW f \in Feed, NEW m \in Msg, AddMessage(f, m) PROVE WriterInv'
  BY <1>2 DEF AddMessage
<1>3. ASSUME NEW f \in Feed, Drain(f) PROVE WriterInv'
  BY <1>3 DEF Drain, DrainRecv, DrainPut, DrainSignal
<1>4. ASSUME NEW f \in Feed, BeginUpdate(f) PROVE WriterInv'
  BY <1>4, MessageAssumption DEF BeginUpdate
<1>5. ASSUME NEW f \in Feed, Wait(f) \/ LockFeed(f) \/ EndOfRun(f) \/ Send(f) \/ Sent(f)
      PROVE  WriterInv'
  BY <1>5 DEF Wait, LockFeed, EndOfRun, Send, Sent
<1>6. ASSUME NEW f \in Feed, Commit(f) \/ Abort(f) \/ CommitFails(f) PROVE WriterInv'
  BY <1>6, MessageAssumption DEF Commit, Abort, CommitFails, Rollback
<1>7. ASSUME NEW f \in Feed, NEW m \in Msg,
             \/ SkipMessage(f, m) \/ RejectMessage(f, m)
             \/ StoreMessage(f, m) \/ StoreFails(f, m)
      PROVE  WriterInv'
  BY <1>7 DEF SkipMessage, RejectMessage, StoreMessage, StoreFails, Takes
<1>8. ASSUME NEW f \in Feed, TopicReceive(f) PROVE WriterInv'
  BY <1>8 DEF TopicReceive
<1>9. ASSUME AnyRebuild PROVE WriterInv'
  BY <1>9, RebuildFacts DEF feedVars
<1>10. ASSUME Crash PROVE WriterInv'
  BY <1>10, MessageAssumption DEF Crash
<1>11. CASE UNCHANGED vars
  BY <1>11 DEF vars, feedVars
<1> QED
  BY <1>1, <1>2, <1>3, <1>4, <1>5, <1>6, <1>7, <1>8, <1>9, <1>10, <1>11, HealthyRebuild
  DEF Next, Healthy, Internal, AnyRebuild, Fault, ProcessMessageQueue

LEMMA ClosedStep ==
  ASSUME TypeOK, ClosedInv, [Next]_vars
  PROVE  ClosedInv'
<1> USE DEF TypeOK, ClosedInv, IsOpen, Goto
<1>1. ASSUME NEW f \in Feed, GetFeed(f) PROVE ClosedInv'
  BY <1>1 DEF GetFeed
<1>2. ASSUME NEW f \in Feed, NEW m \in Msg, AddMessage(f, m) PROVE ClosedInv'
  BY <1>2 DEF AddMessage
<1>3. ASSUME NEW f \in Feed, Drain(f) PROVE ClosedInv'
  BY <1>3 DEF Drain, DrainRecv, DrainPut, DrainSignal
<1>4. ASSUME NEW f \in Feed,
             \/ Wait(f) \/ BeginUpdate(f) \/ LockFeed(f) \/ EndOfRun(f)
             \/ Commit(f) \/ Abort(f) \/ CommitFails(f) \/ Send(f) \/ Sent(f)
      PROVE  ClosedInv'
  BY <1>4 DEF Wait, BeginUpdate, LockFeed, EndOfRun, Commit, Abort, CommitFails,
              Rollback, Send, Sent
<1>5. ASSUME NEW f \in Feed, NEW m \in Msg,
             \/ SkipMessage(f, m) \/ RejectMessage(f, m)
             \/ StoreMessage(f, m) \/ StoreFails(f, m)
      PROVE  ClosedInv'
  BY <1>5 DEF SkipMessage, RejectMessage, StoreMessage, StoreFails, Takes
<1>6. ASSUME NEW f \in Feed, TopicReceive(f) PROVE ClosedInv'
  BY <1>6 DEF TopicReceive
<1>7. ASSUME AnyRebuild PROVE ClosedInv'
  BY <1>7, RebuildFacts DEF feedVars
<1>8. ASSUME Crash PROVE ClosedInv'
  BY <1>8 DEF Crash
<1>9. CASE UNCHANGED vars
  BY <1>9 DEF vars, feedVars
<1> QED
  BY <1>1, <1>2, <1>3, <1>4, <1>5, <1>6, <1>7, <1>8, <1>9, HealthyRebuild
  DEF Next, Healthy, Internal, AnyRebuild, Fault, ProcessMessageQueue

-----------------------------------------------------------------------------
(* The data part: the two views of the database, and LatestSeq. *)

(* The actions that leave both views of the database as they are. *)
LEMMA SameDatabase ==
  ASSUME NEW f \in Feed,
         \/ GetFeed(f) \/ Drain(f) \/ Wait(f) \/ BeginUpdate(f) \/ LockFeed(f)
         \/ EndOfRun(f) \/ Send(f) \/ Sent(f) \/ TopicReceive(f)
         \/ \E m \in Msg : \/ AddMessage(f, m) \/ SkipMessage(f, m)
                           \/ RejectMessage(f, m) \/ StoreFails(f, m)
  PROVE  UNCHANGED <<db, tx>>
BY DEF GetFeed, Drain, DrainRecv, DrainPut, DrainSignal, Wait, BeginUpdate, LockFeed,
       EndOfRun, Send, Sent, TopicReceive, AddMessage, SkipMessage, RejectMessage, StoreFails

(* What StoreMessage does to the transaction. *)
LEMMA StoreFacts ==
  ASSUME IInv, NEW f \in Feed, NEW m \in Msg, StoreMessage(f, m)
  PROVE  /\ writer = f /\ m.author = f
         /\ m.sequence = latestSeq[f] + 1
         /\ \A o \in tx.log[f] : o.sequence < m.sequence
         /\ tx'.log = [tx.log EXCEPT ![f] = tx.log[f] \cup {m}]
         /\ tx'.global = Append(tx.global, m.id)
         /\ Chained(f, tx.log[f] \cup {m})
<1>1. proc[f] = "loop" /\ m.author = f /\ m.sequence = latestSeq[f] + 1 /\ Verify(tx.log[f], m)
  BY DEF StoreMessage, Takes, Skippable
<1>2. writer = f /\ IsOpen(f)
  BY <1>1 DEF IInv, WriterInv, InUpdate, IsOpen
<1>3. latestSeq[f] \in Nat /\ tx \in Database /\ tx.log[f] \in SUBSET Msg
  BY DEF IInv, TypeOK, Database
<1>4. \A o \in tx.log[f] : o.sequence < m.sequence
  BY <1>1, <1>2, <1>3, MsgFields DEF IInv, NeverBehindLog
<1>5. /\ Chained(f, PutSeq(tx.log[f], m))
      /\ PutSeq(tx.log[f], m) = tx.log[f] \cup {m}
  BY <1>1, <1>3, <1>4, VerifiedExtends DEF IInv, BucketInv
<1>6. tx' = AddToDB(tx, f, m)
  BY DEF StoreMessage
<1>7. /\ tx'.log = [tx.log EXCEPT ![f] = PutSeq(@, m)]
      /\ tx'.global = Append(tx.global, m.id)
  BY <1>3, <1>6, AddToDBType
<1> QED BY <1>1, <1>2, <1>4, <1>5, <1>7

LEMMA BucketStep ==
  ASSUME IInv, [Next]_vars
  PROVE  BucketInv'
<1> USE DEF BucketInv
<1>0. BucketInv /\ TypeOK
  BY DEF IInv
<1>1. ASSUME UNCHANGED <<db, tx>> PROVE BucketInv'
  BY <1>0, <1>1
<1>2. ASSUME NEW f \in Feed, NEW m \in Msg, StoreMessage(f, m) PROVE BucketInv'
  <2>1. db' = db /\ tx.log \in [Feed -> SUBSET Msg]
    BY <1>0, <1>2 DEF StoreMessage, TypeOK, Database
  <2>2. \A g \in Feed : Chained(g, tx'.log[g])
    BY <1>0, <1>2, <2>1, StoreFacts
  <2> QED BY <1>0, <2>1, <2>2
<1>3. ASSUME NEW f \in Feed, Commit(f) \/ Abort(f) \/ CommitFails(f) PROVE BucketInv'
  BY <1>0, <1>3 DEF Commit, Abort, CommitFails, Rollback
<1>4. ASSUME AnyRebuild PROVE BucketInv'
  BY <1>0, <1>4, RebuildFacts DEF TypeOK
<1>5. ASSUME Crash PROVE BucketInv'
  BY <1>0, <1>5 DEF Crash
<1> QED
  BY <1>1, <1>2, <1>3, <1>4, <1>5, SameDatabase, HealthyRebuild
  DEF Next, Healthy, Internal, AnyRebuild, Fault, ProcessMessageQueue, vars

LEMMA TxStep ==
  ASSUME IInv, [Next]_vars
  PROVE  TxInv'
<1> USE DEF TxInv
<1>0. TxInv /\ TypeOK /\ WriterInv
  BY DEF IInv
<1>1. ASSUME UNCHANGED <<db, tx, writer>> PROVE TxInv'
  BY <1>0, <1>1
<1>2. ASSUME NEW f \in Feed, NEW m \in Msg, StoreMessage(f, m) PROVE TxInv'
  <2>1. db' = db /\ writer' = writer /\ writer = f /\ writer # Nil
    BY <1>2, StoreFacts, MessageAssumption DEF StoreMessage
  <2>2. \A g \in Feed : /\ db.log[g] \subseteq tx'.log[g]
                        /\ g # f => tx'.log[g] = db.log[g]
    <3>1. tx'.log = [tx.log EXCEPT ![f] = tx.log[f] \cup {m}]
      BY <1>2, StoreFacts
    <3>2. tx.log \in [Feed -> SUBSET Msg]
      BY <1>0 DEF TypeOK, Database
    <3> QED BY <1>0, <2>1, <3>1, <3>2
  <2>3. db.global \in Seq(Key) /\ tx.global \in Seq(Key) /\ m.id \in Key
    BY <1>0, MsgFields DEF TypeOK, Database
  <2>4. tx'.global = Append(tx.global, m.id)
    BY <1>2, StoreFacts
  <2>5. /\ Len(db.global) <= Len(tx'.global)
        /\ \A i \in DOMAIN db.global : tx'.global[i] = db.global[i]
    BY <1>0, <2>3, <2>4
  <2> QED BY <2>1, <2>2, <2>5
<1>3. ASSUME NEW f \in Feed, BeginUpdate(f) PROVE TxInv'
  BY <1>0, <1>3, MessageAssumption DEF BeginUpdate, TypeOK
<1>4. ASSUME UNCHANGED db, tx' = db, writer' = Nil PROVE TxInv'
  BY <1>0, <1>4 DEF TypeOK, Database
<1>5. ASSUME NEW f \in Feed, Commit(f) PROVE TxInv'
  BY <1>0, <1>5 DEF Commit, TypeOK, Database
<1>6. ASSUME NEW f \in Feed, Abort(f) \/ CommitFails(f) PROVE TxInv'
  BY <1>4, <1>6 DEF Abort, CommitFails, Rollback
<1>7. ASSUME AnyRebuild PROVE TxInv'
  <2>1. tx' = db' /\ db' \in Database
    BY <1>0, <1>7, RebuildFacts DEF TypeOK
  <2> QED BY <2>1 DEF Database
<1>8. ASSUME Crash PROVE TxInv'
  BY <1>4, <1>8 DEF Crash
<1>9. ASSUME NEW f \in Feed,
             \/ GetFeed(f) \/ Drain(f) \/ Wait(f) \/ LockFeed(f)
             \/ EndOfRun(f) \/ Send(f) \/ Sent(f) \/ TopicReceive(f)
             \/ \E m \in Msg : \/ AddMessage(f, m) \/ SkipMessage(f, m)
                               \/ RejectMessage(f, m) \/ StoreFails(f, m)
      PROVE  TxInv'
  <2>1. UNCHANGED <<db, tx>>
    BY <1>9, SameDatabase
  <2>2. UNCHANGED writer
    BY <1>9 DEF GetFeed, Drain, DrainRecv, DrainPut, DrainSignal, Wait, LockFeed, EndOfRun,
       Send, Sent, TopicReceive, AddMessage, SkipMessage, RejectMessage, StoreFails
  <2> QED BY <1>1, <2>1, <2>2
<1> QED
  BY <1>1, <1>2, <1>3, <1>5, <1>6, <1>7, <1>8, <1>9, HealthyRebuild
  DEF Next, Healthy, Internal, AnyRebuild, Fault, ProcessMessageQueue, vars

LEMMA BehindStep ==
  ASSUME IInv, [Next]_vars
  PROVE  NeverBehindLog'
<1> USE DEF NeverBehindLog, IsOpen, Goto
<1>0. NeverBehindLog /\ TypeOK /\ WriterInv /\ ClosedInv /\ BucketInv /\ TxInv
  BY DEF IInv
<1>1. ASSUME NEW f \in Feed, GetFeed(f) PROVE NeverBehindLog'
  <2>1. writer # f
    BY <1>0, <1>1 DEF GetFeed, WriterInv, InUpdate
  <2>2. tx.log[f] = db.log[f] /\ db.log[f] \in SUBSET Msg /\ HasLatest(db.log[f])
    BY <1>0, <2>1 DEF TxInv, BucketInv, Chained, TypeOK, Database
  <2>3. latestSeq'[f] = LatestSequence(db.log[f])
    BY <1>0, <1>1 DEF GetFeed, TypeOK
  <2>4. \A o \in tx.log[f] : o.sequence <= latestSeq'[f]
    BY <2>2, <2>3, LatestSequenceBounds
  <2>5. waiting[f] = {} /\ OnePerSequence({})
    BY <1>0, <1>1 DEF GetFeed, ClosedInv, OnePerSequence
  <2>6. UNCHANGED <<tx, waiting>>
    BY <1>1 DEF GetFeed
  <2>7. \A g \in Feed : g # f => proc'[g] = proc[g] /\ latestSeq'[g] = latestSeq[g]
    BY <1>0, <1>1 DEF GetFeed, TypeOK
  <2> QED BY <1>0, <2>4, <2>5, <2>6, <2>7
<1>2. ASSUME NEW f \in Feed, DrainPut(f) PROVE NeverBehindLog'
  <2> DEFINE m == drain[f].msg
  <2>1. m \in Msg /\ waiting[f] \in SUBSET Msg /\ latestSeq[f] \in Nat
    BY <1>0, <1>2 DEF DrainPut, TypeOK
  <2>2. OnePerSequence(waiting[f]) => OnePerSequence(PutSeq(waiting[f], m))
    BY DEF OnePerSequence, PutSeq
  <2>3. UNCHANGED <<tx, proc, latestSeq>>
    BY <1>2 DEF DrainPut
  <2>4. \/ waiting' = [waiting EXCEPT ![f] = PutSeq(@, m)] /\ m.sequence > latestSeq[f]
        \/ waiting' = waiting
    BY <1>2 DEF DrainPut
  <2>5. CASE waiting' = [waiting EXCEPT ![f] = PutSeq(@, m)] /\ m.sequence > latestSeq[f]
    <3>1. \A g \in Feed : waiting'[g] = IF g = f THEN PutSeq(waiting[f], m) ELSE waiting[g]
      BY <1>0, <2>5 DEF TypeOK
    <3>2. (\A o \in waiting[f] : o.sequence > latestSeq[f])
          => \A o \in PutSeq(waiting[f], m) : o.sequence > latestSeq[f]
      BY <2>5 DEF PutSeq
    <3> QED BY <1>0, <2>2, <2>3, <3>1, <3>2
  <2> QED BY <1>0, <2>3, <2>4, <2>5
<1>3. ASSUME NEW f \in Feed, NEW m \in Msg,
             SkipMessage(f, m) \/ RejectMessage(f, m) \/ StoreFails(f, m)
      PROVE  NeverBehindLog'
  <2>1. proc[f] = "loop" /\ waiting' = [waiting EXCEPT ![f] = @ \ {m}] /\ UNCHANGED <<tx, latestSeq>>
    BY <1>3 DEF SkipMessage, RejectMessage, StoreFails, Takes
  <2>2. \A g \in Feed : waiting'[g] \subseteq waiting[g] /\ (proc[g] = "off" <=> proc'[g] = "off")
    BY <1>0, <1>3, <2>1 DEF TypeOK, SkipMessage, RejectMessage, StoreFails
  <2> QED BY <1>0, <2>1, <2>2 DEF OnePerSequence
<1>4. ASSUME NEW f \in Feed, NEW m \in Msg, StoreMessage(f, m) PROVE NeverBehindLog'
  <2>1. /\ m.sequence = latestSeq[f] + 1
        /\ \A o \in tx.log[f] : o.sequence < m.sequence
        /\ tx'.log = [tx.log EXCEPT ![f] = tx.log[f] \cup {m}]
    BY <1>4, StoreFacts
  <2>2. /\ waiting' = [waiting EXCEPT ![f] = @ \ {m}]
        /\ latestSeq' = [latestSeq EXCEPT ![f] = m.sequence]
        /\ proc' = proc /\ m \in waiting[f] /\ proc[f] = "loop"
    BY <1>4 DEF StoreMessage, Takes
  <2>3. tx.log[f] \in SUBSET Msg /\ waiting[f] \in SUBSET Msg /\ latestSeq[f] \in Nat
    BY <1>0 DEF TypeOK, Database
  <2>4. \A o \in tx.log[f] \cup {m} : o.sequence <= m.sequence
    BY <2>1, <2>3, MsgFields
  <2>5. \A o \in waiting[f] \ {m} : o.sequence > m.sequence
    <3>1. \A o \in waiting[f] : o.sequence > latestSeq[f]
      BY <1>0, <2>2
    <3>2. \A o \in waiting[f] \ {m} : o.sequence # m.sequence
      BY <1>0, <2>2 DEF OnePerSequence
    <3> QED BY <2>1, <2>3, <3>1, <3>2, MsgFields
  <2>6. OnePerSequence(waiting[f] \ {m})
    BY <1>0, <2>2 DEF OnePerSequence
  <2>7. /\ tx'.log[f] = tx.log[f] \cup {m}
        /\ waiting'[f] = waiting[f] \ {m}
        /\ latestSeq'[f] = m.sequence
        /\ \A g \in Feed : g # f => /\ tx'.log[g] = tx.log[g]
                                    /\ waiting'[g] = waiting[g]
                                    /\ latestSeq'[g] = latestSeq[g]
    BY <1>0, <2>1, <2>2 DEF TypeOK, Database
  <2> QED BY <1>0, <2>2, <2>4, <2>5, <2>6, <2>7
<1>5. ASSUME NEW f \in Feed, Commit(f) \/ Abort(f) \/ CommitFails(f) PROVE NeverBehindLog'
  <2>1. \A g \in Feed : tx'.log[g] \subseteq tx.log[g]
    BY <1>0, <1>5 DEF Commit, Abort, CommitFails, Rollback, TxInv
  <2>2. proc[f] # "off" /\ UNCHANGED <<waiting, latestSeq>>
    BY <1>5 DEF Commit, Abort, CommitFails, Rollback
  <2>3. \A g \in Feed : proc'[g] # "off" => proc[g] # "off"
    BY <1>0, <1>5, <2>2 DEF Commit, Abort, CommitFails, Rollback, TypeOK
  <2> QED BY <1>0, <2>1, <2>2, <2>3
<1>6. ASSUME AnyRebuild PROVE NeverBehindLog'
  <2>1. tx = db /\ tx'.log = db.log /\ UNCHANGED feedVars
    BY <1>0, <1>6, RebuildFacts DEF TypeOK, TxInv
  <2> QED BY <1>0, <2>1 DEF feedVars
<1>7. ASSUME Crash PROVE NeverBehindLog'
  BY <1>7 DEF Crash
<1>8. ASSUME NEW f \in Feed,
             \/ DrainRecv(f) \/ DrainSignal(f) \/ Wait(f) \/ BeginUpdate(f) \/ LockFeed(f)
             \/ EndOfRun(f) \/ Send(f) \/ Sent(f) \/ TopicReceive(f)
             \/ \E m \in Msg : AddMessage(f, m)
      PROVE  NeverBehindLog'
  <2>1. UNCHANGED <<tx, waiting, latestSeq>>
    BY <1>8 DEF DrainRecv, DrainSignal, Wait, BeginUpdate, LockFeed, EndOfRun, Send, Sent,
                TopicReceive, AddMessage
  <2>2. \A g \in Feed : proc'[g] # "off" => proc[g] # "off"
    BY <1>0, <1>8 DEF DrainRecv, DrainSignal, Wait, BeginUpdate, LockFeed, EndOfRun, Send,
                      Sent, TopicReceive, AddMessage, TypeOK
  <2> QED BY <1>0, <2>1, <2>2
<1>9. CASE UNCHANGED vars
  BY <1>0, <1>9 DEF vars, feedVars
<1> QED
  BY <1>1, <1>2, <1>3, <1>4, <1>5, <1>6, <1>7, <1>8, <1>9, HealthyRebuild
  DEF Next, Healthy, Internal, AnyRebuild, Fault, Drain, ProcessMessageQueue

(* A step appends to the committed logs or leaves them as they are. *)
AppendStep ==
  /\ \A f \in Feed : db.log[f] \subseteq db'.log[f]
  /\ Len(db.global) <= Len(db'.global)
  /\ \A i \in DOMAIN db.global : db'.global[i] = db.global[i]

LEMMA CommitAppends ==
  ASSUME IInv, [Next]_vars
  PROVE  AppendStep
<1>0. TypeOK /\ TxInv
  BY DEF IInv
<1>1. ASSUME UNCHANGED db PROVE AppendStep
  BY <1>0, <1>1 DEF AppendStep, TypeOK, Database
<1>2. ASSUME NEW f \in Feed, Commit(f) PROVE AppendStep
  BY <1>0, <1>2 DEF Commit, TxInv, AppendStep
<1>3. ASSUME AnyRebuild PROVE AppendStep
  <2>1. db'.log = db.log /\ db'.global = db.global
    BY <1>0, <1>3, RebuildFacts DEF TypeOK
  <2>2. Len(db.global) <= Len(db.global)
    BY <1>0 DEF TypeOK, Database
  <2> QED BY <2>1, <2>2 DEF AppendStep
<1>4. ASSUME NEW f \in Feed, NEW m \in Msg, StoreMessage(f, m) PROVE AppendStep
  BY <1>1, <1>4 DEF StoreMessage
<1>5. ASSUME NEW f \in Feed, Abort(f) \/ CommitFails(f) PROVE AppendStep
  BY <1>1, <1>5 DEF Abort, CommitFails, Rollback
<1>6. ASSUME Crash PROVE AppendStep
  BY <1>1, <1>6 DEF Crash
<1> QED
  BY <1>1, <1>2, <1>3, <1>4, <1>5, <1>6, SameDatabase, HealthyRebuild
  DEF Next, Healthy, Internal, AnyRebuild, Fault, ProcessMessageQueue, vars

-----------------------------------------------------------------------------
(* The theorems. *)

LEMMA IInvInit == Init => IInv
<1> SUFFICES ASSUME Init PROVE IInv
  OBVIOUS
<1>1. TypeOK
  BY TypeInit
<1>2. WriterInv /\ ClosedInv /\ NeverBehindLog
  BY MessageAssumption DEF Init, WriterInv, InUpdate, ClosedInv, IsOpen, NeverBehindLog
<1>3. BucketInv
  BY DEF Init, EmptyDB, BucketInv, Chained, OnePerSequence, HasLatest
<1>4. TxInv
  BY DEF Init, EmptyDB, TxInv
<1> QED BY <1>1, <1>2, <1>3, <1>4 DEF IInv

LEMMA IInvStep == IInv /\ [Next]_vars => IInv'
<1> SUFFICES ASSUME IInv, [Next]_vars PROVE IInv'
  OBVIOUS
<1>1. TypeOK'
  BY TypeStep DEF IInv
<1>2. WriterInv' /\ ClosedInv'
  BY WriterStep, ClosedStep DEF IInv
<1>3. BucketInv' /\ TxInv' /\ NeverBehindLog'
  BY BucketStep, TxStep, BehindStep
<1> QED BY <1>1, <1>2, <1>3 DEF IInv

(* IInv holds in every state: the invariant the other theorems rest on. *)
THEOREM Inductive == Spec => []IInv
BY IInvInit, IInvStep, PTL DEF Spec

(* The types, and the capacities of the channels (feeds.go:185,            *)
(* messagetopic.go:12).                                                    *)
THEOREM TypeCorrect == Spec => []TypeOK
<1>1. IInv => TypeOK
  BY DEF IInv
<1> QED BY <1>1, Inductive, PTL

(* Whatever peers send and whatever fails, a stored feed is a chain of     *)
(* signed messages of its author (message.go:41-80, feeds.go:304-333).     *)
THEOREM FeedsAreChains == Spec => []FeedLogChained
<1>1. IInv => FeedLogChained
  BY DEF IInv, BucketInv, Chained, FeedLogChained
<1> QED BY <1>1, Inductive, PTL

(* LatestSeq is never behind the log, nor ahead of a waiting message       *)
(* (feeds.go:193-195, 202-205, 305-306, 330).                              *)
THEOREM NeverBehind == Spec => []NeverBehindLog
<1>1. IInv => NeverBehindLog
  BY DEF IInv
<1> QED BY <1>1, Inductive, PTL

(* No step, a crash included, replaces, removes or reorders what has been  *)
(* committed (feeds.go:345-376).                                           *)
THEOREM StoresAppend == Spec => AppendOnly
<1>1. IInv /\ [Next]_vars => [AppendStep]_vars
  BY CommitAppends
<1> QED BY <1>1, Inductive, PTL DEF Spec, AppendOnly, AppendStep

-----------------------------------------------------------------------------
(***************************************************************************)
(* Proof that FeedStore announces each committed message once and in       *)
(* order.  The invariant AnnInv ties three things together for a feed:     *)
(* what its topic has been sent, what is committed since the feed was      *)
(* opened, and, inside a transaction, the new messages.                    *)
(***************************************************************************)

Ordered(s) == \A i, j \in DOMAIN s : i < j => s[i].sequence < s[j].sequence

(* While a transaction may still commit, newMsgs is what it adds.          *)
MayCommit == {"update", "loop", "commit"}

NewMsgsInv(f) ==
  proc[f] \in MayCommit =>
    /\ Ordered(newMsgs[f])
    /\ Items(newMsgs[f]) = tx.log[f] \ db.log[f]
    /\ \A m \in Items(newMsgs[f]) : /\ m.sequence > base[f]
                                    /\ \A o \in db.log[f] : o.sequence < m.sequence

AnnouncedInv(f) ==
  /\ Ordered(Announced(f))
  /\ IsOpen(f) => /\ Items(Announced(f)) = {m \in db.log[f] : m.sequence > base[f]}
                  /\ base[f] <= latestSeq[f]
  /\ ~IsOpen(f) => heard[f] = <<>> /\ sendChan[f] = <<>>

AnnInv == \A f \in Feed : NewMsgsInv(f) /\ AnnouncedInv(f)

-----------------------------------------------------------------------------
(* Sequences of messages. *)

LEMMA ItemsOfMsgs ==
  ASSUME NEW s \in Seq(Msg)
  PROVE  Items(s) \in SUBSET Msg
BY DEF Items

LEMMA EmptyOrdered == Ordered(<<>>) /\ Items(<<>>) = {}
BY DEF Ordered, Items

LEMMA ConcatOrdered ==
  ASSUME NEW s \in Seq(Msg), NEW t \in Seq(Msg), Ordered(s), Ordered(t),
         \A m \in Items(s), n \in Items(t) : m.sequence < n.sequence
  PROVE  Ordered(s \o t) /\ Items(s \o t) = Items(s) \cup Items(t)
<1> DEFINE u == s \o t
<1>1. /\ Len(s) \in Nat /\ Len(t) \in Nat /\ DOMAIN s = 1 .. Len(s) /\ DOMAIN t = 1 .. Len(t)
      /\ DOMAIN u = 1 .. Len(s) + Len(t)
      /\ \A i \in 1 .. Len(s) : u[i] = s[i]
      /\ \A i \in 1 .. Len(t) : u[Len(s) + i] = t[i]
  OBVIOUS
<1>2. ASSUME NEW i \in DOMAIN u, ~(i \in 1 .. Len(s))
      PROVE  i - Len(s) \in 1 .. Len(t) /\ u[i] = t[i - Len(s)]
  <2>1. i - Len(s) \in 1 .. Len(t) /\ i = Len(s) + (i - Len(s))
    BY <1>1, <1>2
  <2> QED BY <1>1, <2>1
<1> HIDE DEF u
<1>3. Ordered(u)
  <2> SUFFICES ASSUME NEW i \in DOMAIN u, NEW j \in DOMAIN u, i < j
               PROVE  u[i].sequence < u[j].sequence
    BY DEF Ordered
  <2>1. CASE j \in 1 .. Len(s)
    <3>1. i \in 1 .. Len(s)
      BY <1>1, <2>1
    <3> QED BY <1>1, <2>1, <3>1 DEF Ordered
  <2>2. CASE i \in 1 .. Len(s) /\ ~(j \in 1 .. Len(s))
    <3>1. u[i] \in Items(s)
      BY <1>1, <2>2 DEF Items
    <3>2. u[j] \in Items(t)
      BY <1>1, <1>2, <2>2 DEF Items
    <3> QED BY <3>1, <3>2
  <2>3. CASE ~(i \in 1 .. Len(s)) /\ ~(j \in 1 .. Len(s))
    <3>1. u[i] = t[i - Len(s)] /\ u[j] = t[j - Len(s)]
      BY <1>2, <2>3
    <3>2. /\ i - Len(s) \in DOMAIN t /\ j - Len(s) \in DOMAIN t
          /\ i - Len(s) < j - Len(s)
      BY <1>1, <1>2, <2>3
    <3> QED BY <3>1, <3>2 DEF Ordered
  <2> QED BY <2>1, <2>2, <2>3
<1>4. Items(u) \subseteq Items(s) \cup Items(t)
  <2> SUFFICES ASSUME NEW i \in DOMAIN u PROVE u[i] \in Items(s) \cup Items(t)
    BY DEF Items
  <2>1. CASE i \in 1 .. Len(s)
    BY <1>1, <2>1 DEF Items
  <2>2. CASE ~(i \in 1 .. Len(s))
    BY <1>1, <1>2, <2>2 DEF Items
  <2> QED BY <2>1, <2>2
<1>5. Items(s) \cup Items(t) \subseteq Items(u)
  <2>1. \A i \in 1 .. Len(s) : i \in DOMAIN u
    BY <1>1
  <2>2. \A i \in 1 .. Len(t) : Len(s) + i \in DOMAIN u
    BY <1>1
  <2> QED BY <1>1, <2>1, <2>2 DEF Items
<1> QED BY <1>3, <1>4, <1>5 DEF u

LEMMA AppendOrdered ==
  ASSUME NEW s \in Seq(Msg), NEW m \in Msg, Ordered(s), \A o \in Items(s) : o.sequence < m.sequence
  PROVE  Ordered(Append(s, m)) /\ Items(Append(s, m)) = Items(s) \cup {m}
<1> DEFINE u == Append(s, m)
<1>1. /\ Len(s) \in Nat /\ DOMAIN s = 1 .. Len(s) /\ DOMAIN u = 1 .. Len(s) + 1
      /\ \A i \in 1 .. Len(s) : u[i] = s[i] /\ u[i] \in Items(s)
      /\ u[Len(s) + 1] = m
  BY DEF Items
<1> HIDE DEF u
<1>2. \A i \in DOMAIN u : i \in 1 .. Len(s) \/ i = Len(s) + 1
  BY <1>1
<1>3. Ordered(u)
  <2> SUFFICES ASSUME NEW i \in DOMAIN u, NEW j \in DOMAIN u, i < j
               PROVE  u[i].sequence < u[j].sequence
    BY DEF Ordered
  <2>1. i \in 1 .. Len(s)
    BY <1>1, <1>2
  <2>2. CASE j \in 1 .. Len(s)
    BY <1>1, <2>1, <2>2 DEF Ordered
  <2>3. CASE j = Len(s) + 1
    BY <1>1, <2>1, <2>3
  <2> QED BY <1>2, <2>2, <2>3
<1>4. Items(u) = Items(s) \cup {m}
  <2>1. Items(u) \subseteq Items(s) \cup {m}
    BY <1>1, <1>2 DEF Items
  <2>2. Items(s) \subseteq Items(u)
    BY <1>1 DEF Items
  <2>3. m \in Items(u)
    <3>1. Len(s) + 1 \in DOMAIN u
      BY <1>1
    <3> QED BY <1>1, <3>1 DEF Items
  <2> QED BY <2>1, <2>2, <2>3
<1> QED BY <1>3, <1>4 DEF u

(* What moves from the head of one sequence to the end of the one before   *)
(* it leaves their concatenation as it is.                                 *)
LEMMA MoveHead ==
  ASSUME NEW s \in Seq(Msg), NEW t \in Seq(Msg), t # <<>>
  PROVE  Append(s, Head(t)) \o Tail(t) = s \o t
OBVIOUS

LEMMA ConcatAppend ==
  ASSUME NEW s \in Seq(Msg), NEW t \in Seq(Msg), NEW m \in Msg
  PROVE  s \o Append(t, m) = Append(s \o t, m)
OBVIOUS

LEMMA ConcatEmpty ==
  ASSUME NEW s \in Seq(Msg)
  PROVE  s \o <<>> = s /\ <<>> \o s = s /\ <<>> \in Seq(Msg)
OBVIOUS

-----------------------------------------------------------------------------
(* One feed at a time. *)

LEMMA FeedTypes ==
  ASSUME TypeOK, NEW g \in Feed
  PROVE  /\ heard[g] \in Seq(Msg) /\ sendChan[g] \in Seq(Msg) /\ newMsgs[g] \in Seq(Msg)
         /\ heard[g] \o sendChan[g] \in Seq(Msg) /\ Announced(g) \in Seq(Msg)
         /\ db.log[g] \in SUBSET Msg /\ tx.log[g] \in SUBSET Msg
         /\ base[g] \in Nat /\ latestSeq[g] \in Nat
<1>1. /\ heard[g] \in Seq(Msg) /\ sendChan[g] \in Seq(Msg) /\ newMsgs[g] \in Seq(Msg)
      /\ base[g] \in Nat /\ latestSeq[g] \in Nat
  BY DEF TypeOK
<1>2. db.log[g] \in SUBSET Msg /\ tx.log[g] \in SUBSET Msg
  BY DEF TypeOK, Database
<1>3. heard[g] \o sendChan[g] \in Seq(Msg)
  BY <1>1
<1>4. Announced(g) \in Seq(Msg)
  BY <1>1, <1>3 DEF Announced
<1> QED BY <1>1, <1>2, <1>3, <1>4

(* A step that does not touch what AnnInv says of g. *)
LEMMA Frame ==
  ASSUME NEW g \in Feed, AnnouncedInv(g), NewMsgsInv(g),
         heard'[g] = heard[g], sendChan'[g] = sendChan[g], newMsgs'[g] = newMsgs[g],
         base'[g] = base[g], latestSeq'[g] = latestSeq[g],
         db'.log[g] = db.log[g], tx'.log[g] = tx.log[g],
         proc'[g] = "off" <=> proc[g] = "off", proc'[g] = "send" <=> proc[g] = "send",
         proc'[g] \in MayCommit => proc[g] \in MayCommit
  PROVE  AnnouncedInv(g)' /\ NewMsgsInv(g)'
<1>1. Announced(g)' = Announced(g)
  BY DEF Announced
<1>2. AnnouncedInv(g)'
  BY <1>1 DEF AnnouncedInv, IsOpen
<1>3. NewMsgsInv(g)'
  BY DEF NewMsgsInv
<1> QED BY <1>2, <1>3

(* The steps that change nothing here but where a processor is. *)
LEMMA QuietStep ==
  ASSUME TypeOK, AnnInv, NEW f \in Feed,
         \/ DrainRecv(f) \/ DrainPut(f) \/ DrainSignal(f) \/ Wait(f) \/ LockFeed(f) \/ EndOfRun(f)
         \/ \E m \in Msg : \/ AddMessage(f, m) \/ SkipMessage(f, m)
                           \/ RejectMessage(f, m) \/ StoreFails(f, m)
  PROVE  AnnInv'
<1>1. UNCHANGED <<db, tx, latestSeq, newMsgs, sendChan, heard, base>>
  BY DEF DrainRecv, DrainPut, DrainSignal, Wait, LockFeed, EndOfRun, AddMessage, SkipMessage,
         RejectMessage, StoreFails
<1>2. ASSUME NEW g \in Feed
      PROVE  /\ proc'[g] = "off" <=> proc[g] = "off"
             /\ proc'[g] = "send" <=> proc[g] = "send"
             /\ proc'[g] \in MayCommit => proc[g] \in MayCommit
  <2>1. CASE DrainRecv(f) \/ DrainPut(f) \/ \E m \in Msg : AddMessage(f, m) \/ SkipMessage(f, m)
    <3>1. proc' = proc
      BY <2>1 DEF DrainRecv, DrainPut, AddMessage, SkipMessage
    <3> QED BY <3>1
  <2>2. CASE DrainSignal(f) \/ Wait(f) \/ LockFeed(f) \/ EndOfRun(f)
    BY <2>2 DEF DrainSignal, Wait, LockFeed, EndOfRun, Goto, MayCommit, TypeOK
  <2>3. CASE \E m \in Msg : RejectMessage(f, m) \/ StoreFails(f, m)
    BY <2>3 DEF RejectMessage, StoreFails, Takes, Goto, MayCommit, TypeOK
  <2> QED BY <2>1, <2>2, <2>3
<1>3. ASSUME NEW g \in Feed PROVE AnnouncedInv(g)' /\ NewMsgsInv(g)'
  BY <1>1, <1>2, Frame DEF AnnInv
<1> QED BY <1>3 DEF AnnInv

LEMMA GetFeedStep ==
  ASSUME TypeOK, BucketInv, AnnInv, NEW f \in Feed, GetFeed(f)
  PROVE  AnnInv'
<1>1. /\ proc[f] = "off" /\ proc' = [proc EXCEPT ![f] = "start"]
      /\ latestSeq' = [latestSeq EXCEPT ![f] = LatestSequence(db.log[f])]
      /\ base' = [base EXCEPT ![f] = LatestSequence(db.log[f])]
      /\ UNCHANGED <<db, tx, newMsgs, sendChan, heard>>
  BY DEF GetFeed, IsOpen
<1>2. ASSUME NEW g \in Feed, g # f PROVE AnnouncedInv(g)' /\ NewMsgsInv(g)'
  <2>1. proc'[g] = proc[g] /\ latestSeq'[g] = latestSeq[g] /\ base'[g] = base[g]
    BY <1>1, <1>2 DEF TypeOK
  <2> QED BY <1>1, <2>1, Frame DEF AnnInv
<1>3. AnnouncedInv(f)' /\ NewMsgsInv(f)'
  <2>1. heard[f] = <<>> /\ sendChan[f] = <<>>
    BY <1>1 DEF AnnInv, AnnouncedInv, IsOpen
  <2>2. proc'[f] = "start" /\ base'[f] = LatestSequence(db.log[f]) /\ latestSeq'[f] = base'[f]
    BY <1>1 DEF TypeOK
  <2>3. Announced(f)' = <<>>
    BY <1>1, <2>1, <2>2 DEF Announced
  <2>4. \A m \in db.log[f] : m.sequence <= base'[f] /\ base'[f] \in Nat
    BY <2>2, FeedTypes, LatestSequenceBounds DEF BucketInv, Chained
  <2>5. {m \in db'.log[f] : m.sequence > base'[f]} = {}
    BY <1>1, <2>4, FeedTypes, MsgFields
  <2>6. base'[f] \in Nat
    BY <2>2, FeedTypes, LatestSequenceBounds DEF BucketInv, Chained
  <2>7. AnnouncedInv(f)'
    BY <2>2, <2>3, <2>5, <2>6, EmptyOrdered DEF AnnouncedInv, IsOpen
  <2> QED BY <2>2, <2>7 DEF NewMsgsInv, MayCommit
<1> QED BY <1>2, <1>3 DEF AnnInv

LEMMA BeginStep ==
  ASSUME TypeOK, TxInv, AnnInv, NEW f \in Feed, BeginUpdate(f)
  PROVE  AnnInv'
<1>1. /\ proc[f] = "ready" /\ proc' = [proc EXCEPT ![f] = "update"]
      /\ newMsgs' = [newMsgs EXCEPT ![f] = <<>>] /\ tx = db
      /\ UNCHANGED <<db, tx, latestSeq, base, sendChan, heard>>
  BY DEF BeginUpdate, Goto, TxInv
<1>2. ASSUME NEW g \in Feed, g # f PROVE AnnouncedInv(g)' /\ NewMsgsInv(g)'
  <2>1. proc'[g] = proc[g] /\ newMsgs'[g] = newMsgs[g]
    BY <1>1, <1>2 DEF TypeOK
  <2> QED BY <1>1, <2>1, Frame DEF AnnInv
<1>3. newMsgs'[f] = <<>> /\ proc'[f] = "update"
  BY <1>1 DEF TypeOK
<1>4. Announced(f)' = Announced(f)
  BY <1>1, <1>3 DEF Announced
<1>5. AnnouncedInv(f)'
  BY <1>1, <1>3, <1>4 DEF AnnInv, AnnouncedInv, IsOpen
<1>6. NewMsgsInv(f)'
  BY <1>1, <1>3, EmptyOrdered DEF NewMsgsInv
<1> QED BY <1>2, <1>5, <1>6 DEF AnnInv

LEMMA StoreStep ==
  ASSUME IInv, AnnInv, NEW f \in Feed, NEW m \in Msg, StoreMessage(f, m)
  PROVE  AnnInv'
<1>0. TypeOK /\ TxInv
  BY DEF IInv
<1>1. /\ proc[f] = "loop" /\ latestSeq' = [latestSeq EXCEPT ![f] = m.sequence]
      /\ newMsgs' = [newMsgs EXCEPT ![f] = Append(@, m)]
      /\ UNCHANGED <<db, proc, sendChan, heard, base>>
  BY DEF StoreMessage, Takes
<1>2. /\ m.sequence = latestSeq[f] + 1
      /\ \A o \in tx.log[f] : o.sequence < m.sequence
      /\ tx'.log = [tx.log EXCEPT ![f] = tx.log[f] \cup {m}]
  BY StoreFacts
<1>3. ASSUME NEW g \in Feed, g # f PROVE AnnouncedInv(g)' /\ NewMsgsInv(g)'
  <2>1. newMsgs'[g] = newMsgs[g] /\ latestSeq'[g] = latestSeq[g] /\ tx'.log[g] = tx.log[g]
    BY <1>0, <1>1, <1>2, <1>3 DEF TypeOK, Database
  <2> QED BY <1>1, <2>1, Frame DEF AnnInv
<1>4. /\ newMsgs'[f] = Append(newMsgs[f], m) /\ latestSeq'[f] = m.sequence
      /\ tx'.log[f] = tx.log[f] \cup {m}
  BY <1>0, <1>1, <1>2 DEF TypeOK, Database
<1>5. /\ Ordered(newMsgs[f]) /\ Items(newMsgs[f]) = tx.log[f] \ db.log[f]
      /\ \A n \in Items(newMsgs[f]) : n.sequence > base[f] /\ \A o \in db.log[f] : o.sequence < n.sequence
      /\ base[f] <= latestSeq[f]
  BY <1>1 DEF AnnInv, NewMsgsInv, AnnouncedInv, MayCommit, IsOpen
<1>6. /\ newMsgs[f] \in Seq(Msg) /\ db.log[f] \in SUBSET Msg /\ tx.log[f] \in SUBSET Msg
      /\ base[f] \in Nat /\ latestSeq[f] \in Nat /\ m.sequence \in Nat
      /\ db.log[f] \subseteq tx.log[f] /\ m \notin tx.log[f]
  BY <1>0, <1>2, FeedTypes, MsgFields DEF TxInv
<1>7. /\ Ordered(Append(newMsgs[f], m))
      /\ Items(Append(newMsgs[f], m)) = Items(newMsgs[f]) \cup {m}
  BY <1>2, <1>5, <1>6, AppendOrdered
<1>8. NewMsgsInv(f)'
  <2>1. Items(newMsgs'[f]) = tx'.log[f] \ db'.log[f]
    BY <1>1, <1>4, <1>5, <1>6, <1>7
  <2>2. m.sequence > base[f] /\ \A o \in db.log[f] : o.sequence < m.sequence
    BY <1>2, <1>5, <1>6
  <2> QED BY <1>1, <1>4, <1>5, <1>7, <2>1, <2>2 DEF NewMsgsInv
<1>9. AnnouncedInv(f)'
  <2>1. Announced(f)' = Announced(f)
    BY <1>1 DEF Announced
  <2>2. base[f] <= m.sequence
    BY <1>2, <1>5, <1>6
  <2> QED BY <1>1, <1>4, <2>1, <2>2 DEF AnnInv, AnnouncedInv, IsOpen
<1> QED BY <1>3, <1>8, <1>9 DEF AnnInv

LEMMA CommitStep ==
  ASSUME IInv, AnnInv, NEW f \in Feed, Commit(f)
  PROVE  AnnInv'
<1>0. TypeOK /\ TxInv /\ WriterInv
  BY DEF IInv
<1>1. /\ proc[f] = "commit" /\ proc' = [proc EXCEPT ![f] = "send"] /\ db' = tx /\ writer = f
      /\ UNCHANGED <<tx, latestSeq, newMsgs, sendChan, heard, base>>
  BY <1>0 DEF Commit, Goto, WriterInv, InUpdate
<1>2. ASSUME NEW g \in Feed, g # f PROVE AnnouncedInv(g)' /\ NewMsgsInv(g)'
  <2>1. proc'[g] = proc[g] /\ db'.log[g] = db.log[g]
    BY <1>0, <1>1, <1>2 DEF TypeOK, TxInv
  <2> QED BY <1>1, <2>1, Frame DEF AnnInv
<1>3. proc'[f] = "send"
  BY <1>0, <1>1 DEF TypeOK
<1> DEFINE q == heard[f] \o sendChan[f]
<1>4. /\ q \in Seq(Msg) /\ newMsgs[f] \in Seq(Msg) /\ base[f] \in Nat
      /\ db.log[f] \in SUBSET Msg /\ tx.log[f] \in SUBSET Msg /\ db.log[f] \subseteq tx.log[f]
  BY <1>0, FeedTypes DEF TxInv
<1>5. Announced(f) = q /\ Announced(f)' = q \o newMsgs[f]
  BY <1>1, <1>3, <1>4, ConcatEmpty DEF Announced
<1> HIDE DEF q
<1>6. /\ Ordered(q) /\ Items(q) = {m \in db.log[f] : m.sequence > base[f]}
      /\ base[f] <= latestSeq[f]
  BY <1>1, <1>5 DEF AnnInv, AnnouncedInv, IsOpen
<1>7. /\ Ordered(newMsgs[f]) /\ Items(newMsgs[f]) = tx.log[f] \ db.log[f]
      /\ \A n \in Items(newMsgs[f]) : n.sequence > base[f] /\ \A o \in db.log[f] : o.sequence < n.sequence
  BY <1>1 DEF AnnInv, NewMsgsInv, MayCommit
<1>8. /\ Ordered(q \o newMsgs[f])
      /\ Items(q \o newMsgs[f]) = Items(q) \cup Items(newMsgs[f])
  BY <1>4, <1>6, <1>7, ConcatOrdered
<1>9. Items(q \o newMsgs[f]) = {m \in tx.log[f] : m.sequence > base[f]}
  BY <1>4, <1>6, <1>7, <1>8
<1>10. AnnouncedInv(f)'
  BY <1>1, <1>3, <1>5, <1>6, <1>8, <1>9 DEF AnnouncedInv, IsOpen
<1>11. NewMsgsInv(f)'
  BY <1>3 DEF NewMsgsInv, MayCommit
<1> QED BY <1>2, <1>10, <1>11 DEF AnnInv

LEMMA RollbackStep ==
  ASSUME IInv, AnnInv, NEW f \in Feed, Abort(f) \/ CommitFails(f)
  PROVE  AnnInv'
<1>0. TypeOK /\ TxInv /\ WriterInv
  BY DEF IInv
<1>1. /\ proc[f] \in {"commit", "abort"} /\ proc' = [proc EXCEPT ![f] = "start"] /\ tx' = db /\ writer = f
      /\ newMsgs' = [newMsgs EXCEPT ![f] = <<>>]
      /\ UNCHANGED <<db, latestSeq, sendChan, heard, base>>
  BY <1>0 DEF Abort, CommitFails, Rollback, Goto, WriterInv, InUpdate
<1>2. ASSUME NEW g \in Feed, g # f PROVE AnnouncedInv(g)' /\ NewMsgsInv(g)'
  <2>1. proc'[g] = proc[g] /\ newMsgs'[g] = newMsgs[g] /\ tx'.log[g] = tx.log[g]
    BY <1>0, <1>1, <1>2 DEF TypeOK, TxInv
  <2> QED BY <1>1, <2>1, Frame DEF AnnInv
<1>3. proc'[f] = "start"
  BY <1>0, <1>1 DEF TypeOK
<1>4. Announced(f)' = Announced(f)
  BY <1>1, <1>3 DEF Announced
<1>5. AnnouncedInv(f)'
  BY <1>1, <1>3, <1>4 DEF AnnInv, AnnouncedInv, IsOpen
<1>6. NewMsgsInv(f)'
  BY <1>3 DEF NewMsgsInv, MayCommit
<1> QED BY <1>2, <1>5, <1>6 DEF AnnInv

(* The announcements themselves only move on. *)
LEMMA SendStep ==
  ASSUME TypeOK, AnnInv, NEW f \in Feed, Send(f) \/ Sent(f) \/ TopicReceive(f)
  PROVE  AnnInv'
<1>1. UNCHANGED <<db, tx, latestSeq, base>>
  BY DEF Send, Sent, TopicReceive
<1>2. ASSUME NEW g \in Feed, g # f PROVE AnnouncedInv(g)' /\ NewMsgsInv(g)'
  <2>1. proc'[g] = proc[g] /\ newMsgs'[g] = newMsgs[g] /\ sendChan'[g] = sendChan[g] /\ heard'[g] = heard[g]
    BY <1>2 DEF Send, Sent, TopicReceive, Goto, TypeOK
  <2> QED BY <1>1, <2>1, Frame DEF AnnInv
<1>3. /\ heard[f] \in Seq(Msg) /\ sendChan[f] \in Seq(Msg) /\ newMsgs[f] \in Seq(Msg)
      /\ heard[f] \o sendChan[f] \in Seq(Msg)
  BY FeedTypes
<1>4. ASSUME Send(f) PROVE Announced(f)' = Announced(f) /\ proc' = proc
  <2>1. /\ proc[f] = "send" /\ newMsgs[f] # <<>> /\ proc' = proc /\ heard' = heard
        /\ sendChan'[f] = Append(sendChan[f], Head(newMsgs[f])) /\ newMsgs'[f] = Tail(newMsgs[f])
    BY <1>4 DEF Send, TypeOK
  <2>2. Head(newMsgs[f]) \in Msg
    BY <1>3, <2>1
  <2>3. heard[f] \o Append(sendChan[f], Head(newMsgs[f])) = Append(heard[f] \o sendChan[f], Head(newMsgs[f]))
    BY <1>3, <2>2, ConcatAppend
  <2>4. Append(heard[f] \o sendChan[f], Head(newMsgs[f])) \o Tail(newMsgs[f])
          = (heard[f] \o sendChan[f]) \o newMsgs[f]
    BY <1>3, <2>1, MoveHead
  <2> QED BY <2>1, <2>3, <2>4 DEF Announced
<1>5. ASSUME Sent(f)
      PROVE  /\ Announced(f)' = Announced(f)
             /\ proc'[f] = "start" /\ proc[f] = "send"
  <2>1. /\ proc[f] = "send" /\ newMsgs[f] = <<>> /\ proc'[f] = "start"
        /\ UNCHANGED <<heard, sendChan, newMsgs>>
    BY <1>5 DEF Sent, Goto, TypeOK
  <2> QED BY <2>1 DEF Announced
<1>6. ASSUME TopicReceive(f) PROVE Announced(f)' = Announced(f) /\ proc' = proc /\ newMsgs' = newMsgs
  <2>1. /\ sendChan[f] # <<>> /\ proc' = proc /\ newMsgs' = newMsgs
        /\ heard'[f] = Append(heard[f], Head(sendChan[f])) /\ sendChan'[f] = Tail(sendChan[f])
    BY <1>6 DEF TopicReceive, TypeOK
  <2>2. Append(heard[f], Head(sendChan[f])) \o Tail(sendChan[f]) = heard[f] \o sendChan[f]
    BY <1>3, <2>1, MoveHead
  <2> QED BY <2>1, <2>2 DEF Announced
<1>7. IsOpen(f)' <=> IsOpen(f)
  BY <1>4, <1>5, <1>6 DEF IsOpen
<1>8. IsOpen(f)
  <2>1. CASE Send(f) \/ Sent(f)
    BY <2>1 DEF Send, Sent, IsOpen
  <2>2. CASE TopicReceive(f)
    BY <2>2 DEF TopicReceive, AnnInv, AnnouncedInv
  <2> QED BY <2>1, <2>2
<1>9. AnnouncedInv(f)'
  BY <1>1, <1>4, <1>5, <1>6, <1>7, <1>8 DEF AnnInv, AnnouncedInv
<1>10. NewMsgsInv(f)'
  <2>1. CASE Send(f) \/ Sent(f)
    BY <2>1, <1>4, <1>5 DEF Send, NewMsgsInv, MayCommit
  <2>2. CASE TopicReceive(f)
    BY <1>1, <1>6, <2>2 DEF AnnInv, NewMsgsInv
  <2> QED BY <2>1, <2>2
<1> QED BY <1>2, <1>9, <1>10 DEF AnnInv

LEMMA RebuildStep ==
  ASSUME TypeOK, WriterInv, TxInv, AnnInv, AnyRebuild
  PROVE  AnnInv'
<1>1. UNCHANGED <<latestSeq, newMsgs, sendChan, heard, base, proc>> /\ tx = db
  BY RebuildFacts DEF feedVars, TxInv, TypeOK
<1>2. db'.log = db.log /\ tx'.log = tx.log
  BY <1>1, RebuildFacts DEF TypeOK
<1>3. ASSUME NEW g \in Feed PROVE AnnouncedInv(g)' /\ NewMsgsInv(g)'
  BY <1>1, <1>2, Frame DEF AnnInv
<1> QED BY <1>3 DEF AnnInv

LEMMA FreshInv ==
  ASSUME proc = [f \in Feed |-> "off"], newMsgs = [f \in Feed |-> <<>>],
         sendChan = [f \in Feed |-> <<>>], heard = [f \in Feed |-> <<>>]
  PROVE  AnnInv
<1> SUFFICES ASSUME NEW f \in Feed PROVE NewMsgsInv(f) /\ AnnouncedInv(f)
  BY DEF AnnInv
<1>1. Announced(f) = <<>>
  BY DEF Announced
<1> QED BY <1>1, EmptyOrdered DEF NewMsgsInv, AnnouncedInv, MayCommit, IsOpen

LEMMA CrashStep ==
  ASSUME Crash
  PROVE  AnnInv'
<1>1. ASSUME NEW f \in Feed PROVE NewMsgsInv(f)' /\ AnnouncedInv(f)'
  <2>1. proc'[f] = "off" /\ newMsgs'[f] = <<>> /\ sendChan'[f] = <<>> /\ heard'[f] = <<>>
    BY DEF Crash
  <2>2. Announced(f)' = <<>>
    BY <2>1 DEF Announced
  <2> QED BY <2>1, <2>2, EmptyOrdered DEF NewMsgsInv, AnnouncedInv, MayCommit, IsOpen
<1> QED BY <1>1 DEF AnnInv

LEMMA AnnStep ==
  ASSUME IInv, AnnInv, [Next]_vars
  PROVE  AnnInv'
<1>0. TypeOK /\ WriterInv /\ BucketInv /\ TxInv
  BY DEF IInv
<1>1. CASE UNCHANGED vars
  BY <1>1 DEF vars, feedVars, AnnInv, AnnouncedInv, NewMsgsInv, Announced, IsOpen
<1>2. CASE Next
  BY <1>0, <1>2, QuietStep, GetFeedStep, BeginStep, StoreStep, CommitStep, RollbackStep, SendStep,
     RebuildStep, CrashStep, HealthyRebuild
  DEF Next, Healthy, Internal, AnyRebuild, Fault, Drain, ProcessMessageQueue
<1> QED BY <1>1, <1>2

LEMMA Announces == Spec => []AnnInv
<1>1. Init => AnnInv
  BY FreshInv DEF Init
<1>2. IInv /\ AnnInv /\ [Next]_vars => AnnInv'
  BY AnnStep
<1> QED BY <1>1, <1>2, Inductive, PTL DEF Spec

-----------------------------------------------------------------------------
(* The topic of an open feed gets every message committed since the feed   *)
(* was opened exactly once and in feed order, and none whose transaction   *)
(* has not committed, whatever fails (feeds.go:296, 332, 336-341).         *)
THEOREM AnnouncedOnce == Spec => []AnnouncedOnceInOrder
<1>1. AnnInv => AnnouncedOnceInOrder
  BY DEF AnnInv, AnnouncedInv, AnnouncedOnceInOrder, Ordered, Items
<1> QED BY <1>1, Announces, PTL

-----------------------------------------------------------------------------
(***************************************************************************)
(* What the buckets of one view of the database have to do with the order  *)
(* in which its messages were stored.  The global log holds their keys.    *)
(* The pointer under a key leads to the last message that has it: the      *)
(* last one of a run, if the key is ZeroRef, and the only one, if not.     *)
(***************************************************************************)
Keyed(d) ==
  /\ Len(d.global) = Len(d.order)
  /\ \A i \in 1 .. Len(d.order) : d.global[i] = d.order[i].id

Listed(d) == \A f \in Feed : d.log[f] = {m \in Items(d.order) : m.author = f}

(* The pointer p of a key leads to the n-th message, the last with the key. *)
PointsTo(d, p, n) ==
  LET m == d.order[n]
  IN  /\ p = [sequence |-> m.sequence, logKey |-> n, author |-> m.author]
      /\ p = d.pointer[m.id]
      /\ \A j \in n + 1 .. Len(d.order) : d.order[j].id # m.id

Resolved(d) ==
  \A i \in 1 .. Len(d.order) :
    \E n \in i .. Len(d.order) : /\ d.order[n].id = d.order[i].id
                                 /\ PointsTo(d, d.pointer[d.order[i].id], n)

Indexed(d) ==
  \A mod \in Module :
    /\ Len(d.index[mod]) = Len(d.order)
    /\ \A i \in 1 .. Len(d.order) :
         d.index[mod][i] \in {d.order[i], Nil, Get(d, d.order[i].id)}

Admitted(d) == \A i \in 1 .. Len(d.order) : Logs!Admissible(d.order, i)

Sound(d) ==
  Keyed(d) /\ Listed(d) /\ Resolved(d) /\ KeysRepeatInOneRun(d.order) /\ Indexed(d) /\ Admitted(d)

(* What the open transaction has added to the committed state: messages of *)
(* the writer, which no rebuild has seen.                                  *)
Added ==
  /\ Len(db.order) <= Len(tx.order)
  /\ \A i \in 1 .. Len(db.order) : tx.order[i] = db.order[i]
  /\ \A i \in Len(db.order) + 1 .. Len(tx.order) :
       /\ tx.order[i].author = writer
       /\ \A mod \in Module : tx.index[mod][i] = tx.order[i]

SoundInv == Sound(db) /\ Sound(tx) /\ Added

-----------------------------------------------------------------------------
(* Look-ups. *)

LEMMA GetSeqFinds ==
  ASSUME NEW S, OnePerSequence(S), NEW m \in S
  PROVE  GetSeq(S, m.sequence) = m
BY DEF GetSeq, OnePerSequence

LEMMA OrderTyped ==
  ASSUME NEW d \in Database
  PROVE  /\ d.order \in Seq(Msg) /\ Len(d.order) \in Nat /\ DOMAIN d.order = 1 .. Len(d.order)
         /\ \A i \in 1 .. Len(d.order) : d.order[i] \in Msg /\ d.order[i].id \in Key
         /\ d.global \in Seq(Key) /\ DOMAIN d.global = 1 .. Len(d.global)
         /\ d.log \in [Feed -> SUBSET Msg] /\ d.pointer \in [Key -> Pointer \cup {Nil}]
         /\ d.index \in [Module -> Seq(Msg \cup {Nil})]
BY MsgFields DEF Database

(* Get follows the pointer of a stored key to the last message that has it. *)
LEMMA GetResolves ==
  ASSUME NEW d \in Database, Listed(d), \A g \in Feed : Chained(g, d.log[g]),
         NEW n \in 1 .. Len(d.order), PointsTo(d, d.pointer[d.order[n].id], n)
  PROVE  Get(d, d.order[n].id) = d.order[n]
<1> DEFINE m == d.order[n]
<1>1. m \in Msg /\ m.author \in Feed /\ m.sequence \in Nat
  BY OrderTyped, MsgFields
<1>2. /\ d.pointer[m.id] = [sequence |-> m.sequence, logKey |-> n, author |-> m.author]
      /\ d.pointer[m.id] \in Pointer /\ n \in Nat
  BY <1>1, OrderTyped DEF PointsTo, Pointer
<1>3. Get(d, m.id) = GetSeq(d.log[m.author], m.sequence)
  BY <1>2, PointerAssumption DEF Get
<1>4. m \in d.log[m.author]
  BY <1>1, OrderTyped DEF Listed, Items
<1>5. OnePerSequence(d.log[m.author])
  BY <1>1 DEF Chained
<1> QED BY <1>3, <1>4, <1>5, GetSeqFinds

(* What Get returns for the key of a stored message.                       *)
LEMMA StoredKey ==
  ASSUME NEW d \in Database, Sound(d), \A g \in Feed : Chained(g, d.log[g]),
         NEW i \in 1 .. Len(d.order)
  PROVE  \E n \in i .. Len(d.order) :
           /\ n \in 1 .. Len(d.order)
           /\ d.order[n].id = d.order[i].id
           /\ PointsTo(d, d.pointer[d.order[i].id], n)
           /\ Get(d, d.order[i].id) = d.order[n]
           /\ Get(d, d.order[i].id) \in Msg
           /\ n # i => d.order[i].id = ZeroRef
<1>1. PICK n \in i .. Len(d.order) : /\ d.order[n].id = d.order[i].id
                                     /\ PointsTo(d, d.pointer[d.order[i].id], n)
  BY DEF Sound, Resolved
<1>2. n \in 1 .. Len(d.order) /\ d.order[n] \in Msg
  BY OrderTyped
<1>3. Get(d, d.order[n].id) = d.order[n]
  BY <1>1, <1>2, GetResolves DEF Sound
<1>4. n # i => d.order[i].id = ZeroRef
  BY <1>1, <1>2, OrderTyped DEF Sound, KeysRepeatInOneRun
<1> QED BY <1>1, <1>2, <1>3, <1>4

-----------------------------------------------------------------------------
(* Storing one message. *)

(* What is admitted stays so, and a message that extends its chain is. *)
LEMMA AppendAdmits ==
  ASSUME NEW s \in Seq(Msg), NEW f \in Feed, NEW m \in Msg, m.author = f,
         NEW S \in SUBSET Msg, Chained(f, S \cup {m}),
         \A o \in S : o.sequence < m.sequence,
         S = {o \in Items(s) : o.author = f},
         \A i \in 1 .. Len(s) : Logs!Admissible(s, i)
  PROVE  \A i \in 1 .. Len(s) + 1 : Logs!Admissible(Append(s, m), i)
<1> DEFINE n == Len(s)
           t == Append(s, m)
<1>1. n \in Nat /\ (\A i \in 1 .. n : t[i] = s[i] /\ s[i] \in Msg) /\ t[n + 1] = m
  OBVIOUS
<1> HIDE DEF t
<1>2. ASSUME NEW i \in 1 .. n + 1, NEW g PROVE Logs!FeedUpTo(t, g, i - 1) = Logs!FeedUpTo(s, g, i - 1)
  <2>1. \A j \in 1 .. i - 1 : j \in 1 .. n
    BY <1>1
  <2>2. \A j \in 1 .. i - 1 : t[j] = s[j]
    BY <1>1, <2>1
  <2> HIDE DEF n
  <2>3. {t[j] : j \in 1 .. i - 1} = {s[j] : j \in 1 .. i - 1}
    BY <2>2
  <2> QED BY <2>3 DEF Logs!FeedUpTo
<1>3. ASSUME NEW i \in 1 .. n PROVE Logs!Admissible(t, i)
  <2>1. Logs!Admissible(s, i) /\ t[i] = s[i]
    BY <1>1
  <2>2. Logs!FeedUpTo(t, s[i].author, i - 1) = Logs!FeedUpTo(s, s[i].author, i - 1)
    BY <1>1, <1>2
  <2> QED BY <2>1, <2>2 DEF Logs!Admissible
<1>4. Logs!Admissible(t, n + 1)
  <2>1. Logs!FeedUpTo(t, f, n) = S
    <3>1. Logs!FeedUpTo(s, f, n) = S
      <4>1. DOMAIN s = 1 .. n
        OBVIOUS
      <4>2. Items(s) = {s[j] : j \in 1 .. n}
        BY <4>1 DEF Items
      <4> HIDE DEF n
      <4> QED BY <4>2 DEF Logs!FeedUpTo
    <3>2. n + 1 \in 1 .. n + 1 /\ (n + 1) - 1 = n
      BY <1>1
    <3>3. Logs!FeedUpTo(t, f, (n + 1) - 1) = Logs!FeedUpTo(s, f, (n + 1) - 1)
      BY <1>2, <3>2
    <3> QED BY <3>1, <3>2, <3>3
  <2>2. Linked(S \cup {m}, m) /\ m.signed
    BY DEF Chained
  <2>3. Linked(S, m)
    BY <2>2, MsgFields DEF Linked
  <2>4. Logs!Linked(S, m)
    BY <2>3 DEF Linked, Logs!Linked
  <2>5. (n + 1) - 1 = n /\ t[n + 1] = m
    BY <1>1
  <2> HIDE DEF n
  <2> QED BY <2>1, <2>2, <2>4, <2>5 DEF Logs!Admissible
<1> QED BY <1>1, <1>3, <1>4 DEF t

(* addMessage keeps a database sound, if nothing that was rebuilt and      *)
(* nothing of another feed has come since the key was stored first.        *)
LEMMA StoreSound ==
  ASSUME NEW d \in Database, Sound(d), NEW f \in Feed, NEW m \in Msg, m.author = f,
         \A g \in Feed : Chained(g, d.log[g]),
         \A o \in d.log[f] : o.sequence < m.sequence,
         Chained(f, d.log[f] \cup {m}),
         PutSeq(d.log[f], m) = d.log[f] \cup {m},
         \A i \in 1 .. Len(d.order) : d.order[i].id = m.id =>
           /\ \A j \in i .. Len(d.order) : d.order[j].author = f
           /\ \A mod \in Module : d.index[mod][i] = d.order[i]
  PROVE  Sound(AddToDB(d, f, m))
<1> DEFINE e == AddToDB(d, f, m)
           n == Len(d.order)
           p == [sequence |-> m.sequence, logKey |-> n + 1, author |-> f]
<1>0. Keyed(d) /\ Listed(d) /\ Resolved(d) /\ KeysRepeatInOneRun(d.order) /\ Indexed(d) /\ Admitted(d)
  BY DEF Sound
<1>1. /\ e \in Database
      /\ e.log = [d.log EXCEPT ![f] = d.log[f] \cup {m}]
      /\ e.global = Append(d.global, m.id)
      /\ e.order = Append(d.order, m)
      /\ e.pointer = [d.pointer EXCEPT ![m.id] = p]
      /\ \A mod \in Module : e.index[mod] = Append(d.index[mod], m)
  <2>1. e \in Database
    BY AddToDBType
  <2>2. Len(d.global) = n
    BY <1>0 DEF Keyed
  <2> QED BY <2>1, <2>2 DEF AddToDB
<1>2. /\ n \in Nat /\ m.id \in Key /\ d.order \in Seq(Msg) /\ d.pointer \in [Key -> Pointer \cup {Nil}]
      /\ d.log \in [Feed -> SUBSET Msg] /\ d.global \in Seq(Key) /\ Len(d.global) = n
      /\ DOMAIN d.order = 1 .. n
      /\ \A i \in 1 .. n : d.order[i] \in Msg /\ d.order[i].id \in Key
      /\ \A mod \in Module : d.index[mod] \in Seq(Msg \cup {Nil}) /\ Len(d.index[mod]) = n
  BY <1>0, OrderTyped, MsgFields DEF Keyed, Indexed
<1> HIDE DEF e, n
<1>3. /\ Len(e.order) = n + 1 /\ DOMAIN e.order = 1 .. n + 1
      /\ \A i \in 1 .. n : e.order[i] = d.order[i]
      /\ e.order[n + 1] = m
  BY <1>1, <1>2 DEF n
<1>4. /\ Len(e.global) = n + 1
      /\ \A i \in 1 .. n : e.global[i] = d.global[i]
      /\ e.global[n + 1] = m.id
  BY <1>1, <1>2
<1>5. /\ e.pointer[m.id] = p
      /\ \A k \in Key \ {m.id} : e.pointer[k] = d.pointer[k]
  BY <1>1, <1>2
<1>6. Keyed(e)
  <2>1. \A i \in 1 .. n : d.global[i] = d.order[i].id
    BY <1>0 DEF Keyed, n
  <2> QED BY <1>2, <1>3, <1>4, <2>1 DEF Keyed
<1>7. Listed(e)
  <2>1. Items(e.order) = Items(d.order) \cup {m}
    BY <1>2, <1>3 DEF Items
  <2>2. ASSUME NEW g \in Feed PROVE e.log[g] = {o \in Items(e.order) : o.author = g}
    <3>1. d.log[g] = {o \in Items(d.order) : o.author = g}
      BY <1>0 DEF Listed
    <3>2. e.log[g] = IF g = f THEN d.log[g] \cup {m} ELSE d.log[g]
      BY <1>1, <1>2
    <3> QED BY <2>1, <3>1, <3>2
  <2> QED BY <2>2 DEF Listed
<1>8. ASSUME NEW i \in 1 .. n, d.order[i].id # m.id
      PROVE  /\ \E q \in i .. n + 1 : /\ e.order[q].id = e.order[i].id
                                      /\ PointsTo(e, e.pointer[e.order[i].id], q)
             /\ Get(e, e.order[i].id) = Get(d, d.order[i].id)
  <2> DEFINE k == d.order[i].id
  <2>1. PICK q \in i .. n : d.order[q].id = k /\ PointsTo(d, d.pointer[k], q)
    BY <1>0 DEF Resolved, n
  <2>2. q \in 1 .. n /\ q \in i .. n + 1 /\ i \in 1 .. n + 1 /\ k \in Key
    BY <1>2
  <2>3. e.order[i] = d.order[i] /\ e.order[q] = d.order[q] /\ e.pointer[k] = d.pointer[k]
    BY <1>3, <1>5, <1>8, <2>2
  <2>4. PointsTo(e, e.pointer[k], q)
    <3>1. \A j \in q + 1 .. n + 1 : e.order[j].id # k
      <4>1. \A j \in q + 1 .. n : d.order[j].id # k
        BY <2>1 DEF PointsTo, n
      <4>2. ASSUME NEW j \in q + 1 .. n + 1 PROVE (j \in q + 1 .. n /\ j \in 1 .. n) \/ j = n + 1
        <5>1. n \in Nat
          BY <1>2
        <5>2. q \in 1 .. n
          BY <2>2
        <5> HIDE DEF k, p
        <5> QED BY <5>1, <5>2
      <4>3. ASSUME NEW j \in q + 1 .. n, j \in 1 .. n PROVE e.order[j].id # k
        BY <1>3, <4>1, <4>3
      <4>4. e.order[n + 1].id # k
        BY <1>3, <1>8
      <4> HIDE DEF k
      <4> QED BY <4>2, <4>3, <4>4
    <3>2. /\ d.pointer[k] = [sequence |-> d.order[q].sequence, logKey |-> q, author |-> d.order[q].author]
          /\ e.order[q].id = k
      BY <2>1, <2>3 DEF PointsTo
    <3>3. e.pointer[k] = [sequence |-> e.order[q].sequence, logKey |-> q, author |-> e.order[q].author]
      BY <2>3, <3>2
    <3> HIDE DEF k
    <3> QED BY <1>3, <3>1, <3>2, <3>3 DEF PointsTo
  <2>5. Get(d, k) = d.order[q]
    BY <1>0, <2>1, <2>2, GetResolves DEF n
  <2>6. \A g \in Feed : Chained(g, e.log[g])
    BY <1>1, <1>2
  <2>7. Get(e, k) = e.order[q]
    <3>1. q \in 1 .. Len(e.order) /\ PointsTo(e, e.pointer[e.order[q].id], q)
      <4>1. q \in 1 .. n + 1
        BY <1>2, <2>2
      <4>2. e.order[q].id = k
        BY <2>1, <2>3
      <4> HIDE DEF k
      <4> QED BY <1>3, <2>4, <4>1, <4>2
    <3>2. Get(e, e.order[q].id) = e.order[q]
      BY <1>1, <1>7, <2>6, <3>1, GetResolves
    <3>3. e.order[q].id = k
      BY <2>1, <2>3
    <3> HIDE DEF k
    <3> QED BY <3>2, <3>3
  <2> QED BY <2>1, <2>2, <2>3, <2>4, <2>5, <2>7
<1>9. PointsTo(e, e.pointer[m.id], n + 1)
  BY <1>2, <1>3, <1>5 DEF PointsTo
<1>10. Resolved(e)
  <2> SUFFICES ASSUME NEW i \in 1 .. n + 1
               PROVE  \E q \in i .. n + 1 : /\ e.order[q].id = e.order[i].id
                                            /\ PointsTo(e, e.pointer[e.order[i].id], q)
    BY <1>3 DEF Resolved
  <2>1. CASE e.order[i].id = m.id
    BY <1>2, <1>3, <1>9, <2>1
  <2>2. CASE e.order[i].id # m.id
    BY <1>2, <1>3, <1>8, <2>2
  <2> QED BY <2>1, <2>2
<1>11. KeysRepeatInOneRun(e.order)
  <2> SUFFICES ASSUME NEW i \in 1 .. n + 1, NEW j \in 1 .. n + 1, i < j, e.order[i].id = e.order[j].id
               PROVE  /\ e.order[i].id = ZeroRef
                      /\ \A q \in i .. j : e.order[q].author = e.order[i].author
    BY <1>3 DEF KeysRepeatInOneRun
  <2>1. CASE j \in 1 .. n
    <3>1. i \in 1 .. n /\ \A q \in i .. j : q \in 1 .. n
      <4>1. i \in Nat /\ j \in Nat /\ n \in Nat /\ 1 <= i /\ i < j /\ j <= n
        BY <1>2, <2>1
      <4> QED BY <4>1
    <3>2. e.order[i] = d.order[i] /\ \A q \in i .. j : e.order[q] = d.order[q]
      BY <1>3, <3>1
    <3>3. d.order[i].id = d.order[j].id
      BY <1>3, <2>1, <3>1
    <3>4. /\ d.order[i].id = ZeroRef
          /\ \A q \in i .. j : d.order[q].author = d.order[i].author
      BY <1>0, <1>2, <2>1, <3>1, <3>3 DEF KeysRepeatInOneRun
    <3> QED BY <3>2, <3>4
  <2>2. CASE j = n + 1
    <3>1. i \in 1 .. n /\ e.order[i] = d.order[i] /\ e.order[j] = m /\ d.order[i].id = m.id
      BY <1>2, <1>3, <2>2
    <3>2. \A q \in i .. n : d.order[q].author = f
      BY <3>1 DEF n
    <3>3. \A q \in i .. j : e.order[q].author = f
      BY <1>2, <1>3, <2>2, <3>1, <3>2
    <3>4. d.order[i] \in d.log[f]
      BY <1>0, <1>2, <3>1, <3>2 DEF Listed, Items
    <3>5. d.order[i] # m
      BY <3>4, MsgFields
    <3>6. d.order[i].id = ZeroRef
      BY <1>2, <3>1, <3>5, MessageAssumption
    <3> QED BY <1>2, <3>1, <3>3, <3>6
  <2> QED BY <1>2, <2>1, <2>2
<1>12. Indexed(e)
  <2> SUFFICES ASSUME NEW mod \in Module
               PROVE  /\ Len(e.index[mod]) = n + 1
                      /\ \A i \in 1 .. n + 1 :
                           e.index[mod][i] \in {e.order[i], Nil, Get(e, e.order[i].id)}
    BY <1>3 DEF Indexed
  <2> DEFINE s == d.index[mod]
  <2>1. s \in Seq(Msg \cup {Nil}) /\ Len(s) = n /\ e.index[mod] = Append(s, m)
    BY <1>1, <1>2
  <2>2. /\ Len(e.index[mod]) = n + 1 /\ e.index[mod][n + 1] = m
        /\ \A i \in 1 .. n : e.index[mod][i] = s[i]
    BY <1>2, <2>1
  <2>3. ASSUME NEW i \in 1 .. n PROVE e.index[mod][i] \in {e.order[i], Nil, Get(e, e.order[i].id)}
    <3>1. s[i] \in {d.order[i], Nil, Get(d, d.order[i].id)}
      BY <1>0 DEF Indexed, n
    <3>2. e.index[mod][i] = s[i] /\ e.order[i] = d.order[i]
      BY <1>3, <2>2
    <3>3. CASE d.order[i].id = m.id
      <4>1. i \in 1 .. Len(d.order)
        BY DEF n
      <4>2. s[i] = d.order[i]
        BY <3>3, <4>1
      <4> HIDE DEF s
      <4> QED BY <3>2, <4>2
    <3>4. CASE d.order[i].id # m.id
      <4>1. Get(e, d.order[i].id) = Get(d, d.order[i].id)
        BY <1>8, <3>2, <3>4
      <4> HIDE DEF s
      <4> QED BY <3>1, <3>2, <4>1
    <3> QED BY <3>3, <3>4
  <2>4. e.index[mod][n + 1] = e.order[n + 1]
    BY <1>3, <2>2
  <2>5. n \in Nat
    BY <1>2
  <2>6. \A i \in 1 .. n + 1 : i \in 1 .. n \/ i = n + 1
    BY <2>5
  <2>7. \A i \in 1 .. n + 1 : e.index[mod][i] \in {e.order[i], Nil, Get(e, e.order[i].id)}
    <3> SUFFICES ASSUME NEW i \in 1 .. n + 1
                 PROVE  e.index[mod][i] \in {e.order[i], Nil, Get(e, e.order[i].id)}
      OBVIOUS
    <3>1. CASE i \in 1 .. n
      BY <2>3, <3>1
    <3>2. CASE i = n + 1
      BY <2>4, <3>2
    <3> HIDE DEF s
    <3> QED BY <2>6, <3>1, <3>2
  <2>8. Len(e.index[mod]) = n + 1
    BY <2>2
  <2> HIDE DEF s
  <2> QED BY <2>7, <2>8
<1>13. Admitted(e)
  <2>1. d.log[f] \in SUBSET Msg /\ d.log[f] = {o \in Items(d.order) : o.author = f}
    BY <1>0, <1>2 DEF Listed
  <2>2. \A i \in 1 .. n : Logs!Admissible(d.order, i)
    BY <1>0 DEF Admitted, n
  <2>3. \A i \in 1 .. n + 1 : Logs!Admissible(Append(d.order, m), i)
    <3> DEFINE s == d.order
               S == d.log[f]
    <3>1. s \in Seq(Msg) /\ S \in SUBSET Msg /\ S = {o \in Items(s) : o.author = f}
      BY <1>2, <2>1
    <3>2. Chained(f, S \cup {m}) /\ \A o \in S : o.sequence < m.sequence
      OBVIOUS
    <3>3. Len(s) = n
      BY DEF n
    <3>4. \A i \in 1 .. Len(s) : Logs!Admissible(s, i)
      BY <2>2, <3>3
    <3> HIDE DEF s, S
    <3>5. \A i \in 1 .. Len(s) + 1 : Logs!Admissible(Append(s, m), i)
      BY <3>1, <3>2, <3>4, AppendAdmits
    <3> QED BY <3>3, <3>5 DEF s
  <2> QED BY <1>1, <1>3, <2>3 DEF Admitted
<1>14. Sound(e)
  BY <1>6, <1>7, <1>10, <1>11, <1>12, <1>13 DEF Sound
<1> QED BY <1>14 DEF e

-----------------------------------------------------------------------------
(* The empty database and a rebuilt one. *)

LEMMA EmptySound == Sound(EmptyDB)
<1>1. /\ EmptyDB.global = <<>> /\ EmptyDB.order = <<>>
      /\ EmptyDB.log = [f \in Feed |-> {}] /\ EmptyDB.index = [mod \in Module |-> <<>>]
  BY DEF EmptyDB
<1>2. Len(EmptyDB.order) = 0 /\ Len(EmptyDB.global) = 0 /\ 1 .. 0 = {} /\ DOMAIN EmptyDB.order = {}
  BY <1>1
<1>3. Keyed(EmptyDB) /\ Resolved(EmptyDB) /\ KeysRepeatInOneRun(EmptyDB.order) /\ Admitted(EmptyDB)
  BY <1>2 DEF Keyed, Resolved, KeysRepeatInOneRun, Admitted
<1>4. Listed(EmptyDB)
  BY <1>1, <1>2 DEF Listed, Items
<1>5. Indexed(EmptyDB)
  <2>1. \A mod \in Module : EmptyDB.index[mod] = <<>>
    BY <1>1
  <2> QED BY <1>2, <2>1 DEF Indexed
<1> QED BY <1>3, <1>4, <1>5 DEF Sound

LEMMA RebuiltSound ==
  ASSUME NEW d \in Database, Sound(d), NEW e \in Database,
         e.log = d.log, e.global = d.global, e.order = d.order, e.pointer = d.pointer,
         \A mod \in Module : e.index[mod] = d.index[mod] \/ e.index[mod] \in Refilled(d)
  PROVE  Sound(e)
<1>1. Keyed(e) /\ Listed(e) /\ KeysRepeatInOneRun(e.order) /\ Admitted(e)
  BY DEF Sound, Keyed, Listed, Admitted
<1>2. Resolved(e)
  BY DEF Sound, Resolved, PointsTo
<1>3. \A k : Get(e, k) = Get(d, k)
  BY DEF Get
<1>4. Indexed(e)
  <2>1. Keyed(d) /\ Indexed(d)
    BY DEF Sound
  <2> SUFFICES ASSUME NEW mod \in Module
               PROVE  /\ Len(e.index[mod]) = Len(d.order)
                      /\ \A i \in 1 .. Len(d.order) :
                           e.index[mod][i] \in {d.order[i], Nil, Get(d, d.order[i].id)}
    BY <1>3 DEF Indexed
  <2>2. CASE e.index[mod] = d.index[mod]
    BY <2>1, <2>2 DEF Indexed
  <2>3. CASE e.index[mod] \in Refilled(d)
    BY <2>1, <2>3 DEF Refilled, Keyed
  <2> QED BY <2>2, <2>3
<1> QED BY <1>1, <1>2, <1>4 DEF Sound

-----------------------------------------------------------------------------
(* Every step keeps both views sound. *)

(* The message that is stored has a key that is not committed yet.         *)
LEMMA StoredIsNew ==
  ASSUME IInv, SoundInv, NEW f \in Feed, NEW m \in Msg, StoreMessage(f, m),
         NEW i \in 1 .. Len(tx.order), tx.order[i].id = m.id
  PROVE  i \in Len(db.order) + 1 .. Len(tx.order)
<1>1. db \in Database /\ tx \in Database /\ BucketInv
  BY DEF IInv, TypeOK
<1>2. Len(db.order) \in Nat /\ Len(tx.order) \in Nat
  BY <1>1, OrderTyped
<1>3. Get(db, m.id) = Nil
  BY DEF StoreMessage, Skippable
<1>4. ASSUME i \in 1 .. Len(db.order) PROVE FALSE
  <2>1. db.order[i].id = m.id
    BY <1>4 DEF SoundInv, Added
  <2>2. Get(db, m.id) \in Msg
    BY <1>1, <1>4, <2>1, StoredKey DEF SoundInv, BucketInv
  <2> QED BY <1>3, <2>2, MessageAssumption
<1> QED BY <1>2, <1>4

LEMMA SoundStep ==
  ASSUME IInv, SoundInv, [Next]_vars
  PROVE  SoundInv'
<1>0. TypeOK /\ BucketInv /\ TxInv /\ WriterInv /\ db \in Database /\ tx \in Database
  BY DEF IInv, TypeOK
<1>1. ASSUME UNCHANGED <<db, tx, writer>> PROVE SoundInv'
  BY <1>1 DEF SoundInv, Added
<1>2. ASSUME NEW f \in Feed, NEW m \in Msg, StoreMessage(f, m) PROVE SoundInv'
  <2>1. db' = db /\ tx' = AddToDB(tx, f, m) /\ writer' = writer /\ tx' \in Database
    BY <1>0, <1>2, AddToDBType DEF StoreMessage
  <2>2. /\ m.author = f /\ writer = f
        /\ \A o \in tx.log[f] : o.sequence < m.sequence
        /\ Chained(f, tx.log[f] \cup {m})
    BY <1>2, StoreFacts
  <2>3. PutSeq(tx.log[f], m) = tx.log[f] \cup {m}
    <3>1. tx.log[f] \in SUBSET Msg
      BY <1>0 DEF Database
    <3> QED BY <2>2, <3>1, MsgFields DEF PutSeq
  <2>4. \A g \in Feed : Chained(g, tx.log[g])
    BY <1>0 DEF BucketInv
  <2>5. ASSUME NEW i \in 1 .. Len(tx.order), tx.order[i].id = m.id
        PROVE  /\ \A j \in i .. Len(tx.order) : tx.order[j].author = f
               /\ \A mod \in Module : tx.index[mod][i] = tx.order[i]
    <3>1. i \in Len(db.order) + 1 .. Len(tx.order) /\ Len(db.order) \in Nat /\ Len(tx.order) \in Nat
      BY <1>0, <1>2, <2>5, StoredIsNew, OrderTyped
    <3>2. \A j \in i .. Len(tx.order) : j \in Len(db.order) + 1 .. Len(tx.order)
      BY <3>1
    <3>3. Added
      BY DEF SoundInv
    <3> QED BY <2>2, <3>1, <3>2, <3>3 DEF Added
  <2>6. Sound(AddToDB(tx, f, m))
    BY <1>0, <2>2, <2>3, <2>4, <2>5, StoreSound DEF SoundInv
  <2>7. Added'
    <3> DEFINE n == Len(tx.order)
    <3>1. /\ n \in Nat /\ tx.order \in Seq(Msg) /\ Len(db.order) \in Nat
          /\ \A mod \in Module : tx.index[mod] \in Seq(Msg \cup {Nil}) /\ Len(tx.index[mod]) = n
      BY <1>0, OrderTyped DEF SoundInv, Sound, Indexed
    <3>2. tx'.order = Append(tx.order, m) /\ \A mod \in Module : tx'.index[mod] = Append(tx.index[mod], m)
      BY <2>1 DEF AddToDB
    <3>3. /\ Len(tx'.order) = n + 1 /\ tx'.order[n + 1] = m
          /\ \A i \in 1 .. n : tx'.order[i] = tx.order[i]
      BY <3>1, <3>2
    <3>4. ASSUME NEW mod \in Module
          PROVE  /\ tx'.index[mod][n + 1] = m
                 /\ \A i \in 1 .. n : tx'.index[mod][i] = tx.index[mod][i]
      <4> DEFINE s == tx.index[mod]
      <4>1. s \in Seq(Msg \cup {Nil}) /\ Len(s) = n /\ n \in Nat /\ tx'.index[mod] = Append(s, m)
        BY <3>1, <3>2
      <4> HIDE DEF s, n
      <4>2. /\ Append(s, m)[n + 1] = m
            /\ \A i \in 1 .. n : Append(s, m)[i] = s[i]
        BY <4>1
      <4> QED BY <4>1, <4>2 DEF s
    <3> HIDE DEF n
    <3>5. /\ Len(db.order) <= n
          /\ \A i \in 1 .. Len(db.order) : tx.order[i] = db.order[i]
          /\ \A i \in Len(db.order) + 1 .. n :
               /\ tx.order[i].author = writer
               /\ \A mod \in Module : tx.index[mod][i] = tx.order[i]
      BY DEF SoundInv, Added, n
    <3>6. ASSUME NEW i \in Len(db.order) + 1 .. n + 1
          PROVE  /\ tx'.order[i].author = writer
                 /\ \A mod \in Module : tx'.index[mod][i] = tx'.order[i]
      <4>1. CASE i = n + 1
        BY <2>2, <3>3, <3>4, <4>1
      <4>2. CASE i # n + 1
        <5>1. i \in Len(db.order) + 1 .. n /\ i \in 1 .. n
          BY <3>1, <4>2
        <5> QED BY <3>3, <3>4, <3>5, <5>1
      <4> QED BY <4>1, <4>2
    <3>7. \A i \in 1 .. Len(db.order) : i \in 1 .. n
      BY <3>1, <3>5
    <3>8. db'.order = db.order /\ writer' = writer
      BY <2>1
    <3>9. Len(db.order) <= n + 1 /\ \A i \in 1 .. Len(db.order) : tx'.order[i] = db.order[i]
      BY <3>1, <3>3, <3>5, <3>7
    <3> QED BY <3>3, <3>6, <3>8, <3>9 DEF Added
  <2> QED BY <2>1, <2>6, <2>7 DEF SoundInv
<1>3. ASSUME tx' = db', db' \in Database, Sound(db') PROVE SoundInv'
  <2>1. Len(db'.order) \in Nat
    BY <1>3, OrderTyped
  <2>2. Added'
    <3>1. Len(db'.order) <= Len(db'.order) /\ Len(db'.order) + 1 .. Len(db'.order) = {}
      BY <2>1
    <3> QED BY <1>3, <3>1 DEF Added
  <2> QED BY <1>3, <2>2 DEF SoundInv
<1>4. ASSUME NEW f \in Feed, Commit(f) \/ Abort(f) \/ CommitFails(f) PROVE SoundInv'
  BY <1>0, <1>3, <1>4 DEF SoundInv, Commit, Abort, CommitFails, Rollback
<1>5. ASSUME AnyRebuild PROVE SoundInv'
  <2>1. Sound(db')
    BY <1>0, <1>5, RebuildFacts, RebuiltSound DEF SoundInv
  <2> QED BY <1>0, <1>3, <1>5, <2>1, RebuildFacts
<1>6. ASSUME Crash PROVE SoundInv'
  BY <1>0, <1>3, <1>6 DEF SoundInv, Crash
<1>7. ASSUME NEW f \in Feed, BeginUpdate(f) PROVE SoundInv'
  BY <1>0, <1>3, <1>7 DEF BeginUpdate, TxInv, SoundInv
<1>8. ASSUME NEW f \in Feed,
             \/ GetFeed(f) \/ Drain(f) \/ Wait(f) \/ LockFeed(f)
             \/ EndOfRun(f) \/ Send(f) \/ Sent(f) \/ TopicReceive(f)
             \/ \E m \in Msg : \/ AddMessage(f, m) \/ SkipMessage(f, m)
                               \/ RejectMessage(f, m) \/ StoreFails(f, m)
      PROVE  SoundInv'
  <2>1. UNCHANGED <<db, tx>>
    BY <1>8, SameDatabase
  <2>2. UNCHANGED writer
    BY <1>8 DEF GetFeed, Drain, DrainRecv, DrainPut, DrainSignal, Wait, LockFeed, EndOfRun,
       Send, Sent, TopicReceive, AddMessage, SkipMessage, RejectMessage, StoreFails
  <2> QED BY <1>1, <2>1, <2>2
<1> QED
  BY <1>1, <1>2, <1>4, <1>5, <1>6, <1>7, <1>8, HealthyRebuild
  DEF Next, Healthy, Internal, AnyRebuild, Fault, ProcessMessageQueue, vars

-----------------------------------------------------------------------------
(* A commit extends the order by messages of the writer's feed. *)

LEMMA CommitExtends ==
  ASSUME IInv, SoundInv, NEW f \in Feed, Commit(f)
  PROVE  db'.order = db.order \/ Logs!Extend(f)
<1> DEFINE s == db.order
           t == tx.order
<1>0. /\ db \in Database /\ tx \in Database /\ WriterInv /\ Sound(tx) /\ Added
      /\ db' = tx
  BY DEF IInv, TypeOK, SoundInv, Commit
<1>1. writer = f
  BY <1>0 DEF Commit, WriterInv, InUpdate
<1>2. s \in Seq(Msg) /\ t \in Seq(Msg) /\ Len(s) \in Nat /\ Len(t) \in Nat /\ Len(s) <= Len(t)
  BY <1>0, OrderTyped DEF Added
<1>3. \A i \in 1 .. Len(s) : t[i] = s[i]
  BY <1>0 DEF Added
<1>4. \A i \in Len(s) + 1 .. Len(t) : t[i].author = f
  BY <1>0, <1>1 DEF Added
<1>5. \A i \in Len(s) + 1 .. Len(t) : Logs!Admissible(t, i)
  BY <1>0, <1>2 DEF Sound, Admitted
<1> HIDE DEF s, t
<1>6. CASE Len(s) = Len(t)
  <2>1. s = t
    BY <1>2, <1>3, <1>6
  <2> QED BY <1>0, <2>1 DEF s, t
<1>7. CASE Len(s) # Len(t)
  <2>1. SubSeq(s, 1, Len(s)) = SubSeq(t, 1, Len(s))
    BY <1>2, <1>3
  <2>2. Logs!IsStrictPrefix(s, t)
    BY <1>2, <1>7, <2>1 DEF Logs!IsStrictPrefix, Logs!IsPrefix
  <2> QED BY <1>0, <1>2, <1>4, <1>5, <2>2 DEF Logs!Extend, s, t
<1> QED BY <1>6, <1>7

LEMMA LogsStep ==
  ASSUME IInv, SoundInv, [Next]_vars
  PROVE  Logs!Next \/ db'.order = db.order
<1>0. TypeOK /\ db \in Database
  BY DEF IInv, TypeOK
<1>1. ASSUME NEW f \in Feed, Commit(f) PROVE Logs!Next \/ db'.order = db.order
  BY <1>1, CommitExtends DEF Logs!Next
<1>2. ASSUME AnyRebuild PROVE db'.order = db.order
  BY <1>0, <1>2, RebuildFacts
<1>3. ASSUME NEW f \in Feed, NEW m \in Msg, StoreMessage(f, m) PROVE UNCHANGED db
  BY <1>3 DEF StoreMessage
<1>4. ASSUME NEW f \in Feed, Abort(f) \/ CommitFails(f) PROVE UNCHANGED db
  BY <1>4 DEF Abort, CommitFails, Rollback
<1>5. ASSUME Crash PROVE UNCHANGED db
  BY <1>5 DEF Crash
<1> QED
  BY <1>1, <1>2, <1>3, <1>4, <1>5, SameDatabase, HealthyRebuild
  DEF Next, Healthy, Internal, AnyRebuild, Fault, ProcessMessageQueue, vars

-----------------------------------------------------------------------------
(* The theorems. *)

LEMMA SoundInit == Init => SoundInv
<1> SUFFICES ASSUME Init PROVE SoundInv
  OBVIOUS
<1>1. db = EmptyDB /\ tx = EmptyDB /\ Len(EmptyDB.order) = 0
  BY DEF Init, EmptyDB
<1> QED BY <1>1, EmptySound DEF SoundInv, Added

(* Both views of the database are sound in every state. *)
THEOREM DatabaseSound == Spec => []SoundInv
<1>1. IInv /\ SoundInv /\ [Next]_vars => SoundInv'
  BY SoundStep
<1> QED BY <1>1, SoundInit, Inductive, PTL DEF Spec

(* Through any failure, messages that share the zero key are stored in one *)
(* run of one feed, each entry of the global log leads to the last message *)
(* stored under its key, its own unless the key is zero, and a feed's log  *)
(* is what was stored of it (feeds.go:314, 345-386, 417, 477).             *)
THEOREM EntriesResolve == Spec => []GlobalLogResolves
<1>1. IInv /\ SoundInv => GlobalLogResolves
  <2> SUFFICES ASSUME IInv, SoundInv PROVE GlobalLogResolves
    OBVIOUS
  <2>1. /\ db \in Database /\ Sound(db) /\ Keyed(db) /\ Listed(db)
        /\ \A g \in Feed : Chained(g, db.log[g])
    BY DEF IInv, TypeOK, SoundInv, Sound, BucketInv
  <2>2. DOMAIN db.order = 1 .. Len(db.order)
    BY <2>1, OrderTyped
  <2>3. ASSUME NEW i \in 1 .. Len(db.order)
        PROVE  LET k == db.order[i].id
                   p == db.pointer[k]
               IN  /\ db.global[i] = k
                   /\ p # Nil
                   /\ p.logKey \in i .. Len(db.order)
                   /\ db.order[p.logKey] = Get(db, k)
                   /\ Get(db, k).id = k
                   /\ \A j \in p.logKey + 1 .. Len(db.order) : db.order[j].id # k
    <3> DEFINE k == db.order[i].id
               p == db.pointer[k]
    <3>1. PICK n \in i .. Len(db.order) : /\ n \in 1 .. Len(db.order) /\ db.order[n].id = k
                                          /\ PointsTo(db, p, n) /\ Get(db, k) = db.order[n]
      BY <2>1, StoredKey
    <3>2. p.logKey = n /\ \A j \in n + 1 .. Len(db.order) : db.order[j].id # k
      BY <3>1 DEF PointsTo
    <3>3. p # Nil
      <4>1. db.order[n] \in Msg /\ n \in Nat
        BY <2>1, <3>1, OrderTyped
      <4>2. p \in Pointer
        BY <3>1, <4>1, MsgFields DEF PointsTo, Pointer
      <4> QED BY <4>2, PointerAssumption
    <3>4. db.global[i] = k
      BY <2>1 DEF Keyed
    <3> QED BY <3>1, <3>2, <3>3, <3>4
  <2> QED BY <2>1, <2>2, <2>3 DEF GlobalLogResolves, Sound, Keyed, Listed
<1> QED BY <1>1, Inductive, DatabaseSound, PTL

(* An index is what its hook makes of the stored messages, each once and   *)
(* in their order, whatever is rolled back; a rebuild hands the last       *)
(* message of a run with the zero key to the hook for each of them, and    *)
(* one of a single module leaves out those on which the hook failed        *)
(* (feeds.go:387-392, 398-457).                                            *)
THEOREM IndexesFollow == Spec => []IndexesMatchLog
<1>1. IInv /\ SoundInv => IndexesMatchLog
  <2> SUFFICES ASSUME IInv, SoundInv, NEW mod \in Module
               PROVE  /\ Len(db.index[mod]) = Len(db.order)
                      /\ \A i \in DOMAIN db.order :
                           \/ db.index[mod][i] = db.order[i]
                           \/ db.index[mod][i] = Nil
                           \/ /\ db.order[i].id = ZeroRef
                              /\ db.index[mod][i] = Get(db, ZeroRef)
    BY DEF IndexesMatchLog
  <2>1. /\ db \in Database /\ Sound(db) /\ Indexed(db)
        /\ \A g \in Feed : Chained(g, db.log[g])
    BY DEF IInv, TypeOK, SoundInv, Sound, BucketInv
  <2>2. DOMAIN db.order = 1 .. Len(db.order)
    BY <2>1, OrderTyped
  <2>3. \A i \in 1 .. Len(db.order) :
          Get(db, db.order[i].id) = db.order[i] \/ db.order[i].id = ZeroRef
    BY <2>1, StoredKey
  <2> QED BY <2>1, <2>2, <2>3 DEF Indexed
<1> QED BY <1>1, Inductive, DatabaseSound, PTL

(* The datastore implements the append-only logs: a step appends a run of  *)
(* admissible messages of one feed to what is stored, or nothing.          *)
THEOREM Implements == Spec => ImplementsLogs
<1>1. Init => Logs!Init
  BY DEF Init, EmptyDB, Logs!Init
<1>2. IInv /\ SoundInv /\ [Next]_vars => [Logs!Next]_(db.order)
  BY LogsStep
<1> QED BY <1>1, <1>2, Inductive, DatabaseSound, PTL DEF Spec, ImplementsLogs, Logs!Spec
=============================================================================
