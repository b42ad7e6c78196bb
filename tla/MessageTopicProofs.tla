------------------------- MODULE MessageTopicProofs --------------------------
(***************************************************************************)
(* Theorems about MessageTopic, for any topics, channels and capacities.   *)
(* RegInv, which no step of MessageTopic breaks, makes RegisteredIsOpen    *)
(* inductive: a channel is registered with one topic at most, and between  *)
(* two messages the loop has come to an end.  DeliveryInv, which rests on  *)
(* it, makes GaplessDelivery inductive.                                    *)
(***************************************************************************)
EXTENDS MessageTopic, SequenceTheorems, TLAPS

LoopInv(t) ==
  /\ process[t] # "send" => todo[t] = {} /\ at[t] = Nil
  /\ process[t] \in {"lock", "send"} => heard[t] # <<>>
  /\ at[t] \notin todo[t]
  /\ todo[t] \subseteq DOMAIN recps[t]
  /\ at[t] # Nil => at[t] \in DOMAIN recps[t]

RegInv ==
  /\ TypeOK
  /\ DOMAIN recps = Topic
  /\ \A t \in Topic : LoopInv(t) /\ DOMAIN recps[t] \cap closed = {}
  /\ \A t, u \in Topic : t # u => DOMAIN recps[t] \cap DOMAIN recps[u] = {}

-----------------------------------------------------------------------------
LEMMA AppendTyped ==
  ASSUME NEW S, NEW s \in Seq(S), NEW e \in S
  PROVE  Append(s, e) \in Seq(S) /\ Len(Append(s, e)) = Len(s) + 1 /\ Append(s, e) # <<>>
BY AppendProperties

LEMMA TailTyped ==
  ASSUME NEW S, NEW s \in Seq(S), s # <<>>
  PROVE  Tail(s) \in Seq(S) /\ Len(Tail(s)) = Len(s) - 1 /\ Head(s) \in S
OBVIOUS

LEMMA WithoutDomain ==
  ASSUME NEW recp, NEW c
  PROVE  DOMAIN Without(recp, c) = DOMAIN recp \ {c}
BY DEF Without

LEMMA InitRegInv == Init => RegInv
<1> SUFFICES ASSUME Init PROVE RegInv
  OBVIOUS
<1> USE TopicAssumption
<1>1. <<>> \in Seq(Content) /\ Len(<<>>) = 0 /\ DOMAIN <<>> = {}
  OBVIOUS
<1>2. \A t \in Topic : recps[t] = <<>> /\ at[t] = Nil /\ todo[t] = {} /\ process[t] = "range"
  BY DEF Init
<1>3. DOMAIN recps = Topic /\ closed = {}
  BY DEF Init
<1>4. TypeOK
  <2>1. send \in [Topic -> Seq(Content)] /\ heard \in [Topic -> Seq(Content)]
    BY <1>1 DEF Init
  <2>2. sendOpen \in [Topic -> BOOLEAN] /\ process \in [Topic -> {"range", "lock", "send", "done"}]
    BY DEF Init
  <2>3. todo \in [Topic -> SUBSET Chan] /\ at \in [Topic -> Chan \cup {Nil}]
    BY DEF Init
  <2>4. \A t \in Topic : DOMAIN recps[t] \subseteq Chan /\ Len(send[t]) <= SendCap
    BY <1>1, <1>2 DEF Init
  <2>5. buf \in [Chan -> Seq(Content)] /\ got \in [Chan -> Seq(Content)] /\ since \in [Chan -> Nat]
    BY <1>1 DEF Init
  <2>6. \A c \in Chan : Len(buf[c]) <= Cap[c]
    BY <1>1 DEF Init
  <2> QED BY <1>3, <2>1, <2>2, <2>3, <2>4, <2>5, <2>6 DEF TypeOK
<1>5. \A t \in Topic : LoopInv(t)
  BY <1>1, <1>2 DEF LoopInv
<1> QED BY <1>1, <1>2, <1>3, <1>4, <1>5 DEF RegInv

-----------------------------------------------------------------------------
(* The steps of the clients. *)

LEMMA PublishRegInv ==
  ASSUME RegInv, NEW t \in Topic, NEW m \in Content, Publish(t, m)
  PROVE  RegInv'
<1> USE TopicAssumption
<1>1. send' \in [Topic -> Seq(Content)] /\ \A u \in Topic : Len(send'[u]) <= SendCap
  <2>1. Append(send[t], m) \in Seq(Content) /\ Len(Append(send[t], m)) = Len(send[t]) + 1
    BY AppendTyped DEF RegInv, TypeOK
  <2>2. Len(send[t]) \in Nat /\ Len(send[t]) < SendCap
    BY DEF RegInv, TypeOK, Publish
  <2> QED BY <2>1, <2>2 DEF RegInv, TypeOK, Publish
<1>2. TypeOK'
  BY <1>1 DEF RegInv, TypeOK, Publish, chanVars
<1> QED BY <1>2 DEF RegInv, LoopInv, Publish, chanVars

LEMMA CloseRegInv ==
  ASSUME RegInv, NEW t \in Topic, Close(t)
  PROVE  RegInv'
<1>1. TypeOK'
  BY DEF RegInv, TypeOK, Close, chanVars
<1> QED BY <1>1 DEF RegInv, LoopInv, Close, chanVars

LEMMA RegisterRegInv ==
  ASSUME RegInv, NEW t \in Topic, NEW c \in Chan, NEW strict \in BOOLEAN,
         Unused(c), Register(t, c, strict)
  PROVE  RegInv'
<1> USE TopicAssumption
<1>1. /\ DOMAIN recps' = Topic
      /\ DOMAIN recps'[t] = DOMAIN recps[t] \cup {c}
      /\ \A u \in Topic \ {t} : recps'[u] = recps[u]
  BY DEF RegInv, Register
<1>2. since' \in [Chan -> Nat]
  <2>1. HandedOut(t) \in Nat
    <3>1. Len(heard[t]) \in Nat /\ (process[t] \in {"lock", "send"} => Len(heard[t]) > 0)
      BY DEF RegInv, TypeOK, LoopInv
    <3> QED BY <3>1 DEF HandedOut
  <2> QED BY <2>1 DEF RegInv, TypeOK, Register
<1>3. TypeOK'
  BY <1>1, <1>2 DEF RegInv, TypeOK, Register
<1>4. \A u \in Topic : LoopInv(u)'
  BY <1>1 DEF RegInv, LoopInv, Register
<1>5. \A u \in Topic : DOMAIN recps'[u] \cap closed' = {}
  BY <1>1 DEF RegInv, Register, Unused
<1>6. \A u, v \in Topic : u # v => DOMAIN recps'[u] \cap DOMAIN recps'[v] = {}
  BY <1>1 DEF RegInv, Unused
<1> QED BY <1>1, <1>3, <1>4, <1>5, <1>6 DEF RegInv

LEMMA UnregisterRegInv ==
  ASSUME RegInv, NEW t \in Topic, NEW c \in Chan, Unregister(t, c)
  PROVE  RegInv'
<1> USE TopicAssumption
<1>1. /\ DOMAIN recps' = Topic
      /\ DOMAIN recps'[t] = DOMAIN recps[t] \ {c}
      /\ \A u \in Topic \ {t} : recps'[u] = recps[u]
  BY WithoutDomain DEF RegInv, Unregister
<1>2. closed' \subseteq Chan /\ closed' \subseteq closed \cup {c} /\ (c \notin DOMAIN recps[t] => closed' = closed)
  BY DEF RegInv, TypeOK, Unregister
<1>3. TypeOK'
  BY <1>1, <1>2 DEF RegInv, TypeOK, Unregister
<1>4. \A u \in Topic : LoopInv(u)'
  BY <1>1 DEF RegInv, LoopInv, Unregister, Locked
<1>5. \A u, v \in Topic : u # v => DOMAIN recps'[u] \cap DOMAIN recps'[v] = {}
  BY <1>1 DEF RegInv
<1>6. \A u \in Topic : DOMAIN recps'[u] \cap closed' = {}
  BY <1>1, <1>2 DEF RegInv
<1> QED BY <1>1, <1>3, <1>4, <1>5, <1>6 DEF RegInv

LEMMA ReceiveRegInv ==
  ASSUME RegInv, NEW c \in Chan, Receive(c)
  PROVE  RegInv'
<1> USE TopicAssumption
<1>1. buf[c] \in Seq(Content) /\ buf[c] # <<>> /\ got[c] \in Seq(Content)
  BY DEF RegInv, TypeOK, Receive
<1>2. Tail(buf[c]) \in Seq(Content) /\ Len(Tail(buf[c])) = Len(buf[c]) - 1 /\ Head(buf[c]) \in Content
  BY <1>1, TailTyped
<1>3. Append(got[c], Head(buf[c])) \in Seq(Content)
  BY <1>1, <1>2, AppendTyped
<1>4. buf' \in [Chan -> Seq(Content)] /\ got' \in [Chan -> Seq(Content)]
  BY <1>2, <1>3 DEF RegInv, TypeOK, Receive
<1>5. \A d \in Chan : Len(buf'[d]) <= Cap[d]
  <2>1. Len(buf[c]) \in Nat /\ Len(buf[c]) <= Cap[c] /\ Cap[c] \in Nat
    BY <1>1 DEF RegInv, TypeOK
  <2> QED BY <1>2, <2>1 DEF RegInv, TypeOK, Receive
<1>6. TypeOK'
  BY <1>4, <1>5 DEF RegInv, TypeOK, Receive, topicVars
<1> QED BY <1>6 DEF RegInv, LoopInv, Receive, topicVars

-----------------------------------------------------------------------------
(* The steps of the goroutine. *)

LEMMA TakeRegInv ==
  ASSUME RegInv, NEW t \in Topic, Take(t)
  PROVE  RegInv'
<1> USE TopicAssumption
<1>1. send[t] \in Seq(Content) /\ send[t] # <<>> /\ heard[t] \in Seq(Content)
  BY DEF RegInv, TypeOK, Take
<1>2. /\ Tail(send[t]) \in Seq(Content) /\ Len(Tail(send[t])) = Len(send[t]) - 1
      /\ Head(send[t]) \in Content
  BY <1>1, TailTyped
<1>3. Append(heard[t], Head(send[t])) \in Seq(Content) /\ Append(heard[t], Head(send[t])) # <<>>
  BY <1>1, <1>2, AppendTyped
<1>4. /\ send' \in [Topic -> Seq(Content)] /\ heard' \in [Topic -> Seq(Content)]
      /\ process' \in [Topic -> {"range", "lock", "send", "done"}]
  BY <1>2, <1>3 DEF RegInv, TypeOK, Take
<1>5. \A u \in Topic : Len(send'[u]) <= SendCap
  <2>1. Len(send[t]) \in Nat /\ Len(send[t]) <= SendCap
    BY <1>1 DEF RegInv, TypeOK
  <2> QED BY <1>2, <2>1 DEF RegInv, TypeOK, Take
<1>6. TypeOK'
  BY <1>4, <1>5 DEF RegInv, TypeOK, Take, chanVars
<1>7. \A u \in Topic : LoopInv(u)'
  BY <1>3 DEF RegInv, TypeOK, LoopInv, Take
<1> QED BY <1>6, <1>7 DEF RegInv, Take, chanVars

LEMMA LockRegInv ==
  ASSUME RegInv, NEW t \in Topic, Lock(t)
  PROVE  RegInv'
<1> USE TopicAssumption
<1>1. /\ process' \in [Topic -> {"range", "lock", "send", "done"}]
      /\ todo' \in [Topic -> SUBSET Chan]
  BY DEF RegInv, TypeOK, Lock
<1>2. TypeOK'
  BY <1>1 DEF RegInv, TypeOK, Lock, chanVars
<1>3. \A u \in Topic : LoopInv(u)'
  <2>1. at[t] = Nil /\ Nil \notin DOMAIN recps[t]
    BY DEF RegInv, TypeOK, LoopInv, Lock
  <2> QED BY <2>1 DEF RegInv, TypeOK, LoopInv, Lock
<1> QED BY <1>2, <1>3 DEF RegInv, Lock, chanVars

LEMMA NextRecpRegInv ==
  ASSUME RegInv, NEW t \in Topic, NEW c \in Chan, NextRecp(t, c)
  PROVE  RegInv'
<1> USE TopicAssumption
<1>1. todo' \in [Topic -> SUBSET Chan] /\ at' \in [Topic -> Chan \cup {Nil}]
  BY DEF RegInv, TypeOK, NextRecp
<1>2. TypeOK'
  BY <1>1 DEF RegInv, TypeOK, NextRecp, chanVars
<1>3. \A u \in Topic : LoopInv(u)'
  BY DEF RegInv, TypeOK, LoopInv, NextRecp
<1> QED BY <1>2, <1>3 DEF RegInv, NextRecp, chanVars

(* A loop that sends is in the range over the recipients. *)
LEMMA AtRecipient ==
  ASSUME RegInv, NEW t \in Topic, at[t] # Nil
  PROVE  /\ at[t] \in Chan /\ at[t] \in DOMAIN recps[t] /\ at[t] \notin todo[t]
         /\ process[t] = "send" /\ heard[t] \in Seq(Content) /\ heard[t] # <<>>
         /\ Current(t) \in Content
<1>1. heard[t] \in Seq(Content) /\ heard[t] # <<>> /\ process[t] = "send"
  BY DEF RegInv, TypeOK, LoopInv
<1>2. Len(heard[t]) \in 1 .. Len(heard[t])
  BY <1>1
<1>3. Current(t) \in Content
  BY <1>1, <1>2 DEF Current
<1> QED BY <1>1, <1>3, TopicAssumption DEF RegInv, TypeOK, LoopInv

LEMMA DeliverRegInv ==
  ASSUME RegInv, NEW t \in Topic, Deliver(t)
  PROVE  RegInv'
<1> USE TopicAssumption
<1> DEFINE c == at[t]
<1>1. /\ c \in Chan /\ Current(t) \in Content /\ buf[c] \in Seq(Content)
      /\ Len(buf[c]) < Cap[c] /\ Len(buf[c]) \in Nat /\ Cap[c] \in Nat
  <2>1. c # Nil /\ Len(buf[c]) < Cap[c]
    BY DEF Deliver
  <2>2. c \in Chan /\ Current(t) \in Content
    BY <2>1, AtRecipient
  <2>3. buf[c] \in Seq(Content) /\ Cap[c] \in Nat
    BY <2>2 DEF RegInv, TypeOK
  <2> QED BY <2>1, <2>2, <2>3
<1>2. Append(buf[c], Current(t)) \in Seq(Content) /\ Len(Append(buf[c], Current(t))) = Len(buf[c]) + 1
  BY <1>1, AppendTyped
<1>3. /\ buf' = [buf EXCEPT ![c] = Append(buf[c], Current(t))]
      /\ at' = [at EXCEPT ![t] = Nil]
      /\ UNCHANGED <<send, sendOpen, process, todo, recps, heard, closed, since, got>>
  BY DEF Deliver
<1> HIDE DEF c
<1>4. /\ buf' \in [Chan -> Seq(Content)] /\ \A d \in Chan : Len(buf'[d]) <= Cap[d]
      /\ at' \in [Topic -> Chan \cup {Nil}]
  BY <1>1, <1>2, <1>3 DEF RegInv, TypeOK
<1>5. TypeOK'
  BY <1>3, <1>4 DEF RegInv, TypeOK
<1>6. \A u \in Topic : LoopInv(u)'
  BY <1>3 DEF RegInv, TypeOK, LoopInv
<1> QED BY <1>3, <1>5, <1>6 DEF RegInv

LEMMA EvictRegInv ==
  ASSUME RegInv, NEW t \in Topic, Evict(t)
  PROVE  RegInv'
<1> USE TopicAssumption
<1> DEFINE c == at[t]
<1>1. c \in Chan /\ c \in DOMAIN recps[t] /\ c \notin todo[t]
  BY AtRecipient DEF Evict
<1>2. /\ recps' = [recps EXCEPT ![t] = Without(recps[t], c)]
      /\ closed' = closed \cup {c}
      /\ at' = [at EXCEPT ![t] = Nil]
      /\ UNCHANGED <<send, sendOpen, process, todo, heard, buf, since, got>>
  BY DEF Evict
<1> HIDE DEF c
<1>3. /\ DOMAIN recps' = Topic
      /\ DOMAIN recps'[t] = DOMAIN recps[t] \ {c}
      /\ \A u \in Topic \ {t} : recps'[u] = recps[u]
  BY <1>2, WithoutDomain DEF RegInv
<1>4. at' \in [Topic -> Chan \cup {Nil}] /\ closed' \subseteq Chan
  BY <1>1, <1>2 DEF RegInv, TypeOK
<1>5. TypeOK'
  BY <1>2, <1>3, <1>4 DEF RegInv, TypeOK
<1>6. \A u \in Topic : LoopInv(u)'
  BY <1>1, <1>2, <1>3 DEF RegInv, TypeOK, LoopInv
<1>7. \A u, v \in Topic : u # v => DOMAIN recps'[u] \cap DOMAIN recps'[v] = {}
  BY <1>3 DEF RegInv
<1>8. \A u \in Topic : DOMAIN recps'[u] \cap closed' = {}
  BY <1>1, <1>2, <1>3 DEF RegInv
<1> QED BY <1>3, <1>5, <1>6, <1>7, <1>8 DEF RegInv

LEMMA UnlockRegInv ==
  ASSUME RegInv, NEW t \in Topic, Unlock(t)
  PROVE  RegInv'
<1>1. TypeOK'
  BY DEF RegInv, TypeOK, Unlock, chanVars
<1>2. \A u \in Topic : LoopInv(u)'
  BY DEF RegInv, TypeOK, LoopInv, Unlock
<1> QED BY <1>1, <1>2 DEF RegInv, Unlock, chanVars

LEMMA StopRegInv ==
  ASSUME RegInv, NEW t \in Topic, Stop(t)
  PROVE  RegInv'
<1>1. /\ DOMAIN recps' = Topic
      /\ DOMAIN recps'[t] = {}
      /\ \A u \in Topic \ {t} : recps'[u] = recps[u]
  BY DEF RegInv, Stop
<1>2. closed' \subseteq Chan
  BY DEF RegInv, TypeOK, Stop
<1>3. TypeOK'
  BY <1>1, <1>2 DEF RegInv, TypeOK, Stop
<1>4. \A u \in Topic : LoopInv(u)'
  BY <1>1 DEF RegInv, TypeOK, LoopInv, Stop
<1>5. \A u, v \in Topic : u # v => DOMAIN recps'[u] \cap DOMAIN recps'[v] = {}
  BY <1>1 DEF RegInv
<1>6. \A u \in Topic : DOMAIN recps'[u] \cap closed' = {}
  <2>1. \A u \in Topic \ {t} : DOMAIN recps[u] \cap DOMAIN recps[t] = {}
    BY DEF RegInv
  <2> QED BY <1>1, <2>1 DEF RegInv, Stop
<1> QED BY <1>1, <1>3, <1>4, <1>5, <1>6 DEF RegInv

LEMMA NextRegInv == RegInv /\ [Next]_tvars => RegInv'
<1> SUFFICES ASSUME RegInv, [Next]_tvars PROVE RegInv'
  OBVIOUS
<1>1. CASE UNCHANGED tvars
  BY <1>1 DEF RegInv, TypeOK, LoopInv, tvars, topicVars, chanVars
<1>2. ASSUME NEW c \in Chan, Receive(c) PROVE RegInv'
  BY <1>2, ReceiveRegInv
<1>3. ASSUME NEW t \in Topic, NEW m \in Content, Publish(t, m) PROVE RegInv'
  BY <1>3, PublishRegInv
<1>4. ASSUME NEW t \in Topic, Close(t) PROVE RegInv'
  BY <1>4, CloseRegInv
<1>5. ASSUME NEW t \in Topic, NEW c \in Chan, NEW strict \in BOOLEAN, Unused(c), Register(t, c, strict)
      PROVE  RegInv'
  BY <1>5, RegisterRegInv
<1>6. ASSUME NEW t \in Topic, NEW c \in Chan, Unregister(t, c) PROVE RegInv'
  BY <1>6, UnregisterRegInv
<1>7. ASSUME NEW t \in Topic, Process(t) PROVE RegInv'
  BY <1>7, TakeRegInv, LockRegInv, DeliverRegInv, EvictRegInv, UnlockRegInv, StopRegInv,
     NextRecpRegInv DEF Process
<1> QED BY <1>1, <1>2, <1>3, <1>4, <1>5, <1>6, <1>7 DEF Next, Client

(* The topics keep RegInv. *)
THEOREM TopicsKeepRegInv == Spec => []RegInv
BY InitRegInv, NextRegInv, PTL DEF Spec

(* Type correctness; no channel exceeds its capacity. *)
THEOREM TopicTypes == Spec => []TypeOK
<1>1. RegInv => TypeOK
  BY DEF RegInv
<1> QED BY <1>1, TopicsKeepRegInv, PTL

(* No message is sent on a closed channel and none is closed twice        *)
(* (messagetopic.go:26-36, 43-46, 63-66).                                 *)
THEOREM NoPanic == Spec => []RegisteredIsOpen
<1>1. RegInv => RegisteredIsOpen
  BY DEF RegInv, LoopInv, RegisteredIsOpen
<1> QED BY <1>1, TopicsKeepRegInv, PTL

-----------------------------------------------------------------------------
(***************************************************************************)
(* Proof that the delivery of a topic has no gaps.  DeliveryInv says of    *)
(* each channel which run of the messages of a topic its recipient has     *)
(* been handed: up to the one that is due, if it is registered; up to      *)
(* some message, if it is closed; none, if it was never registered.        *)
(***************************************************************************)

(* x is what h holds after its first s elements and up to number n.        *)
IsRun(x, h, s, n) ==
  /\ n \in 0 .. Len(h)
  /\ s \in 0 .. n
  /\ Len(x) = n - s
  /\ \A i \in 1 .. n - s : x[i] = h[s + i]

Handed(c) == got[c] \o buf[c]

(* How many messages of t have been handed to its recipient c.             *)
Due(t, c) ==
  IF process[t] = "lock" \/ c \in todo[t] \cup {at[t]}
  THEN Len(heard[t]) - 1
  ELSE Len(heard[t])

RegisteredRun ==
  \A t \in Topic : \A c \in DOMAIN recps[t] : IsRun(Handed(c), heard[t], since[c], Due(t, c))

ClosedRun ==
  \A c \in closed : \E t \in Topic, n \in Nat : IsRun(Handed(c), heard[t], since[c], n)

UnusedEmpty ==
  \A c \in Chan : Unused(c) => got[c] = <<>> /\ buf[c] = <<>>

DeliveryInv == RegInv /\ RegisteredRun /\ ClosedRun /\ UnusedEmpty

-----------------------------------------------------------------------------
(* Runs of a sequence. *)

LEMMA RunEmpty ==
  ASSUME NEW h, NEW n \in 0 .. Len(h), Len(h) \in Nat
  PROVE  IsRun(<<>> \o <<>>, h, n, n)
<1>1. <<>> \o <<>> = <<>> /\ Len(<<>>) = 0
  OBVIOUS
<1> QED BY <1>1 DEF IsRun

LEMMA RunOfLonger ==
  ASSUME NEW S, NEW h \in Seq(S), NEW e \in S, NEW x, NEW s, NEW n, IsRun(x, h, s, n)
  PROVE  IsRun(x, Append(h, e), s, n)
<1>1. /\ Len(Append(h, e)) = Len(h) + 1 /\ Len(h) \in Nat
      /\ \A i \in 1 .. Len(h) : Append(h, e)[i] = h[i]
  BY AppendProperties
<1>2. \A i \in 1 .. n - s : s + i \in 1 .. Len(h)
  BY <1>1 DEF IsRun
<1> QED BY <1>1, <1>2 DEF IsRun

LEMMA RunExtended ==
  ASSUME NEW S, NEW h \in Seq(S), h # <<>>, NEW x \in Seq(S), NEW s,
         IsRun(x, h, s, Len(h) - 1)
  PROVE  IsRun(Append(x, h[Len(h)]), h, s, Len(h))
<1>1. Len(h) \in Nat \ {0} /\ h[Len(h)] \in S
  BY EmptySeq, ElementOfSeq
<1> DEFINE y == Append(x, h[Len(h)])
<1>2. /\ Len(y) = Len(x) + 1
      /\ \A i \in 1 .. Len(x) : y[i] = x[i]
      /\ y[Len(x) + 1] = h[Len(h)]
  BY <1>1, AppendProperties
<1> HIDE DEF y
<1>3. /\ s \in 0 .. Len(h) - 1 /\ Len(x) = Len(h) - 1 - s
      /\ \A i \in 1 .. Len(h) - 1 - s : x[i] = h[s + i]
  BY DEF IsRun
<1>4. ASSUME NEW i \in 1 .. Len(h) - s PROVE y[i] = h[s + i]
  <2>1. CASE i = Len(h) - s
    <3>1. i = Len(x) + 1 /\ s + i = Len(h)
      BY <1>1, <1>3, <2>1
    <3> QED BY <1>2, <3>1
  <2>2. CASE i # Len(h) - s
    <3>1. s \in Int /\ Len(h) \in Int /\ i \in Int /\ 1 <= i /\ i <= Len(h) - s
      BY <1>1, <1>3
    <3>2. i <= Len(h) - 1 - s
      BY <2>2, <3>1
    <3>3. i \in 1 .. Len(x) /\ i \in 1 .. Len(h) - 1 - s
      BY <1>3, <3>1, <3>2
    <3> QED BY <1>2, <1>3, <3>3
  <2> QED BY <2>1, <2>2
<1>5. Len(y) = Len(h) - s /\ s \in 0 .. Len(h) /\ Len(h) \in 0 .. Len(h)
  BY <1>1, <1>2, <1>3
<1>6. IsRun(y, h, s, Len(h))
  BY <1>4, <1>5 DEF IsRun
<1> QED BY <1>6 DEF y

LEMMA RunIsSubSeq ==
  ASSUME NEW S, NEW h \in Seq(S), NEW x \in Seq(S), NEW s, NEW n, IsRun(x, h, s, n)
  PROVE  /\ x = SubSeq(h, s + 1, n)
         /\ IsPrefix(x, SubSeq(h, s + 1, Len(h)))
<1>1. /\ Len(h) \in Nat /\ n \in Nat /\ s \in Nat /\ s <= n /\ n <= Len(h)
      /\ Len(x) = n - s /\ \A i \in 1 .. n - s : x[i] = h[s + i]
  BY DEF IsRun
<1>2. ASSUME NEW k \in Nat, s <= k, k <= Len(h)
      PROVE  /\ SubSeq(h, s + 1, k) \in Seq(S) /\ Len(SubSeq(h, s + 1, k)) = k - s
             /\ \A i \in 1 .. k - s : SubSeq(h, s + 1, k)[i] = h[s + i]
  <2>1. \A i \in s + 1 .. k : h[i] \in S
    <3>1. \A i \in s + 1 .. k : i \in 1 .. Len(h)
      BY <1>1, <1>2
    <3> QED BY <3>1, ElementOfSeq
  <2>2. /\ SubSeq(h, s + 1, k) \in Seq(S)
        /\ Len(SubSeq(h, s + 1, k)) = IF s + 1 <= k THEN k - (s + 1) + 1 ELSE 0
        /\ \A i \in 1 .. k - (s + 1) + 1 : SubSeq(h, s + 1, k)[i] = h[s + 1 + i - 1]
    <3>1. s + 1 \in Int /\ k \in Int
      BY <1>1
    <3> QED BY <2>1, <3>1, SubSeqProperties
  <2> QED BY <1>1, <1>2, <2>2
<1>3. x = SubSeq(h, s + 1, n)
  BY <1>1, <1>2, SeqEqual
<1>4. IsPrefix(x, SubSeq(h, s + 1, Len(h)))
  <2> DEFINE y == SubSeq(h, s + 1, Len(h))
  <2>1. /\ y \in Seq(S) /\ Len(y) = Len(h) - s
        /\ \A i \in 1 .. Len(h) - s : y[i] = h[s + i]
    BY <1>1, <1>2
  <2> HIDE DEF y
  <2>2. \A i \in 1 .. Len(x) : x[i] = y[i]
    BY <1>1, <2>1
  <2>3. Len(x) <= Len(y) /\ Len(x) \in Nat /\ Len(y) \in Nat
    BY <1>1, <2>1
  <2>4. SubSeq(x, 1, Len(x)) = x
    BY SubSeqFull
  <2>5. /\ SubSeq(y, 1, Len(x)) \in Seq(S) /\ Len(SubSeq(y, 1, Len(x))) = Len(x)
        /\ \A i \in 1 .. Len(x) : SubSeq(y, 1, Len(x))[i] = y[i]
    <3>1. \A i \in 1 .. Len(x) : y[i] \in S
      BY <2>1, <2>3, ElementOfSeq
    <3>2. 1 \in Int /\ Len(x) \in Int
      BY <2>3
    <3>3. /\ SubSeq(y, 1, Len(x)) \in Seq(S)
          /\ Len(SubSeq(y, 1, Len(x))) = IF 1 <= Len(x) THEN Len(x) - 1 + 1 ELSE 0
          /\ \A i \in 1 .. Len(x) - 1 + 1 : SubSeq(y, 1, Len(x))[i] = y[1 + i - 1]
      BY <3>1, <3>2, SubSeqProperties
    <3> QED BY <2>3, <3>3
  <2>6. x = SubSeq(y, 1, Len(x))
    BY <2>2, <2>5, SeqEqual
  <2>7. IsPrefix(x, y)
    BY <2>3, <2>4, <2>6 DEF IsPrefix
  <2> QED BY <2>7 DEF y
<1> QED BY <1>3, <1>4

LEMMA HandedOnReceive ==
  ASSUME NEW S, NEW g \in Seq(S), NEW b \in Seq(S), b # <<>>
  PROVE  Append(g, Head(b)) \o Tail(b) = g \o b
<1>1. /\ Head(b) \in S /\ Tail(b) \in Seq(S) /\ <<Head(b)>> \in Seq(S)
      /\ b = <<Head(b)>> \o Tail(b)
  OBVIOUS
<1>2. Append(g, Head(b)) = g \o <<Head(b)>>
  BY <1>1, AppendIsConcat
<1>3. (g \o <<Head(b)>>) \o Tail(b) = g \o (<<Head(b)>> \o Tail(b))
  BY <1>1, ConcatAssociative
<1> QED BY <1>1, <1>2, <1>3

LEMMA HandedOnDeliver ==
  ASSUME NEW S, NEW g \in Seq(S), NEW b \in Seq(S), NEW e \in S
  PROVE  g \o Append(b, e) = Append(g \o b, e)
<1>1. Append(b, e) = b \o <<e>> /\ <<e>> \in Seq(S) /\ g \o b \in Seq(S)
  BY AppendIsConcat, ConcatProperties
<1>2. Append(g \o b, e) = (g \o b) \o <<e>>
  BY <1>1, AppendIsConcat
<1>3. (g \o b) \o <<e>> = g \o (b \o <<e>>)
  BY <1>1, ConcatAssociative
<1> QED BY <1>1, <1>2, <1>3
-----------------------------------------------------------------------------
LEMMA InitDelivery == Init => DeliveryInv
<1> SUFFICES ASSUME Init PROVE DeliveryInv
  OBVIOUS
<1>1. DOMAIN <<>> = {}
  OBVIOUS
<1>2. (\A t \in Topic : recps[t] = <<>>) /\ closed = {} /\ \A c \in Chan : got[c] = <<>> /\ buf[c] = <<>>
  BY DEF Init
<1> QED BY <1>1, <1>2, InitRegInv DEF DeliveryInv, RegisteredRun, ClosedRun, UnusedEmpty

(* What is registered, heard and handed out has its type.                  *)
LEMMA TypesUsed ==
  ASSUME RegInv
  PROVE  /\ \A t \in Topic : heard[t] \in Seq(Content) /\ Len(heard[t]) \in Nat
         /\ \A c \in Chan : got[c] \in Seq(Content) /\ buf[c] \in Seq(Content) /\ Handed(c) \in Seq(Content)
         /\ \A t \in Topic : DOMAIN recps[t] \subseteq Chan
         /\ closed \subseteq Chan /\ Nil \notin Chan
BY TopicAssumption DEF RegInv, TypeOK, Handed

(***************************************************************************)
(* A step keeps DeliveryInv if it hands nothing out, leaves what is due to *)
(* those who stay registered, and closes the channels of those who do not. *)
(***************************************************************************)
LEMMA DeliveryKept ==
  ASSUME DeliveryInv, RegInv', UNCHANGED <<heard, got, buf, since>>,
         \A t \in Topic : \A c \in DOMAIN recps'[t] : c \in DOMAIN recps[t] /\ Due(t, c)' = Due(t, c),
         \A c \in closed' : c \in closed \/ \E t \in Topic : c \in DOMAIN recps[t],
         closed \subseteq closed',
         \A t \in Topic : \A c \in DOMAIN recps[t] : c \in DOMAIN recps'[t] \/ c \in closed'
  PROVE  DeliveryInv'
<1>1. \A c : Handed(c)' = Handed(c)
  BY DEF Handed
<1>2. RegisteredRun'
  BY <1>1 DEF DeliveryInv, RegisteredRun
<1>3. ClosedRun'
  <2> SUFFICES ASSUME NEW c \in closed'
               PROVE  \E t \in Topic, n \in Nat : IsRun(Handed(c), heard[t], since[c], n)
    BY <1>1 DEF ClosedRun
  <2>1. CASE c \in closed
    BY <2>1 DEF DeliveryInv, ClosedRun
  <2>2. ASSUME NEW t \in Topic, c \in DOMAIN recps[t]
        PROVE  \E u \in Topic, n \in Nat : IsRun(Handed(c), heard[u], since[c], n)
    <3>1. IsRun(Handed(c), heard[t], since[c], Due(t, c))
      BY <2>2 DEF DeliveryInv, RegisteredRun
    <3>2. Due(t, c) \in Nat
      BY <3>1, TypesUsed DEF IsRun, DeliveryInv
    <3> QED BY <3>1, <3>2
  <2> QED BY <2>1, <2>2
<1>4. UnusedEmpty'
  <2>1. ASSUME NEW c \in Chan, Unused(c)' PROVE Unused(c)
    BY <2>1 DEF Unused
  <2> QED BY <2>1 DEF DeliveryInv, UnusedEmpty
<1> QED BY <1>2, <1>3, <1>4 DEF DeliveryInv

LEMMA PublishDelivery ==
  ASSUME DeliveryInv, RegInv', NEW t \in Topic, NEW m \in Content, Publish(t, m) \/ Close(t)
  PROVE  DeliveryInv'
<1>1. UNCHANGED <<process, todo, at, recps, heard, buf, closed, since, got>>
  BY DEF Publish, Close, chanVars
<1> QED BY <1>1, DeliveryKept DEF Due

LEMMA UnregisterDelivery ==
  ASSUME DeliveryInv, RegInv', NEW t \in Topic, NEW c \in Chan, Unregister(t, c)
  PROVE  DeliveryInv'
<1>1. /\ UNCHANGED <<process, todo, at, heard, buf, since, got>>
      /\ closed' = IF c \in DOMAIN recps[t] THEN closed \cup {c} ELSE closed
  BY DEF Unregister
<1>2. /\ DOMAIN recps'[t] = DOMAIN recps[t] \ {c}
      /\ \A u \in Topic \ {t} : recps'[u] = recps[u]
  BY WithoutDomain DEF DeliveryInv, RegInv, Unregister
<1>3. \A u \in Topic : \A d \in DOMAIN recps'[u] : d \in DOMAIN recps[u] /\ Due(u, d)' = Due(u, d)
  BY <1>1, <1>2 DEF Due
<1>4. \A u \in Topic : \A d \in DOMAIN recps[u] : d \in DOMAIN recps'[u] \/ d \in closed'
  BY <1>1, <1>2
<1>5. closed \subseteq closed' /\ \A d \in closed' : d \in closed \/ \E u \in Topic : d \in DOMAIN recps[u]
  BY <1>1
<1> QED BY <1>1, <1>3, <1>4, <1>5, DeliveryKept

LEMMA LoopDelivery ==
  ASSUME DeliveryInv, RegInv', NEW t \in Topic,
         Lock(t) \/ Unlock(t) \/ \E c \in Chan : NextRecp(t, c)
  PROVE  DeliveryInv'
<1>1. UNCHANGED <<recps, heard, buf, closed, since, got>>
  BY DEF Lock, Unlock, NextRecp, chanVars
<1>2. ASSUME NEW u \in Topic, NEW d \in DOMAIN recps[u] PROVE Due(u, d)' = Due(u, d)
  <2>1. d # Nil /\ DOMAIN process = Topic /\ DOMAIN todo = Topic /\ DOMAIN at = Topic
    <3>1. d # Nil
      BY TypesUsed DEF DeliveryInv
    <3> QED BY <3>1 DEF DeliveryInv, RegInv, TypeOK
  <2>2. CASE Lock(t)
    <3>1. todo[t] = {} /\ at[t] = Nil
      BY <2>2 DEF DeliveryInv, RegInv, LoopInv, Lock
    <3> QED BY <2>1, <2>2, <3>1 DEF Due, Lock
  <2>3. CASE Unlock(t)
    BY <2>1, <2>3 DEF Due, Unlock
  <2>4. ASSUME NEW c \in Chan, NextRecp(t, c) PROVE Due(u, d)' = Due(u, d)
    BY <2>1, <2>4 DEF Due, NextRecp
  <2> QED BY <2>2, <2>3, <2>4
<1> QED BY <1>1, <1>2, DeliveryKept

LEMMA EvictDelivery ==
  ASSUME DeliveryInv, RegInv', NEW t \in Topic, Evict(t)
  PROVE  DeliveryInv'
<1> DEFINE c == at[t]
<1>1. c # Nil
  BY DEF Evict
<1>2. /\ c \in Chan /\ c \in DOMAIN recps[t] /\ c \notin todo[t]
  BY <1>1, AtRecipient DEF DeliveryInv
<1>3. /\ recps' = [recps EXCEPT ![t] = Without(recps[t], c)]
      /\ closed' = closed \cup {c}
      /\ at' = [at EXCEPT ![t] = Nil]
      /\ UNCHANGED <<process, todo, heard, buf, since, got>>
  BY DEF Evict
<1>4. at[t] = c /\ DOMAIN at = Topic /\ DOMAIN recps = Topic
  BY DEF DeliveryInv, RegInv, TypeOK
<1> HIDE DEF c
<1>5. /\ DOMAIN recps'[t] = DOMAIN recps[t] \ {c}
      /\ \A u \in Topic \ {t} : recps'[u] = recps[u]
  BY <1>3, <1>4, WithoutDomain
<1>6. ASSUME NEW u \in Topic, NEW d \in DOMAIN recps'[u]
      PROVE  d \in DOMAIN recps[u] /\ Due(u, d)' = Due(u, d)
  <2>1. d \in DOMAIN recps[u] /\ (u = t => d # c) /\ d # Nil
    BY <1>5, TypesUsed DEF DeliveryInv
  <2> QED BY <1>3, <1>4, <2>1 DEF Due
<1>7. \A u \in Topic : \A d \in DOMAIN recps[u] : d \in DOMAIN recps'[u] \/ d \in closed'
  BY <1>3, <1>5
<1>8. closed \subseteq closed' /\ \A d \in closed' : d \in closed \/ \E u \in Topic : d \in DOMAIN recps[u]
  BY <1>2, <1>3
<1> QED BY <1>3, <1>6, <1>7, <1>8, DeliveryKept

LEMMA StopDelivery ==
  ASSUME DeliveryInv, RegInv', NEW t \in Topic, Stop(t)
  PROVE  DeliveryInv'
<1>1. /\ closed' = closed \cup DOMAIN recps[t]
      /\ process' = [process EXCEPT ![t] = "done"]
      /\ process[t] = "range"
      /\ UNCHANGED <<todo, at, heard, buf, since, got>>
  BY DEF Stop
<1>2. /\ DOMAIN recps'[t] = {}
      /\ \A u \in Topic \ {t} : recps'[u] = recps[u]
  BY DEF DeliveryInv, RegInv, Stop
<1>3. ASSUME NEW u \in Topic, NEW d \in DOMAIN recps'[u]
      PROVE  d \in DOMAIN recps[u] /\ Due(u, d)' = Due(u, d)
  <2>1. u # t /\ d \in DOMAIN recps[u]
    BY <1>2
  <2> QED BY <1>1, <2>1 DEF Due
<1>4. \A u \in Topic : \A d \in DOMAIN recps[u] : d \in DOMAIN recps'[u] \/ d \in closed'
  BY <1>1, <1>2
<1>5. closed \subseteq closed' /\ \A d \in closed' : d \in closed \/ \E u \in Topic : d \in DOMAIN recps[u]
  BY <1>1
<1> QED BY <1>1, <1>3, <1>4, <1>5, DeliveryKept

-----------------------------------------------------------------------------
(* The steps that hand something out, or start a run. *)

LEMMA RegisterDelivery ==
  ASSUME DeliveryInv, RegInv', NEW t \in Topic, NEW c \in Chan, NEW strict \in BOOLEAN,
         Unused(c), Register(t, c, strict)
  PROVE  DeliveryInv'
<1>1. /\ process[t] # "send"
      /\ since' = [since EXCEPT ![c] = HandedOut(t)]
      /\ UNCHANGED <<process, todo, at, heard, buf, closed, got>>
  BY DEF Register, Locked
<1>2. /\ DOMAIN recps'[t] = DOMAIN recps[t] \cup {c}
      /\ \A u \in Topic \ {t} : recps'[u] = recps[u]
  BY DEF DeliveryInv, RegInv, Register
<1>3. since'[c] = HandedOut(t) /\ \A d \in Chan \ {c} : since'[d] = since[d]
  BY <1>1 DEF DeliveryInv, RegInv, TypeOK
<1>4. \A d : Handed(d)' = Handed(d)
  BY <1>1 DEF Handed
<1>5. \A u \in Topic, d \in Chan : Due(u, d)' = Due(u, d)
  BY <1>1 DEF Due
<1>6. IsRun(Handed(c), heard[t], HandedOut(t), Due(t, c))
  <2>1. Due(t, c) = HandedOut(t)
    <3>1. todo[t] = {} /\ at[t] = Nil /\ c # Nil
      BY <1>1, TypesUsed DEF DeliveryInv, RegInv, LoopInv
    <3> QED BY <1>1, <3>1 DEF Due, HandedOut
  <2>2. HandedOut(t) \in 0 .. Len(heard[t])
    <3>1. Len(heard[t]) \in Nat /\ (process[t] \in {"lock", "send"} => Len(heard[t]) > 0)
      BY DEF DeliveryInv, RegInv, TypeOK, LoopInv
    <3> QED BY <3>1 DEF HandedOut
  <2>3. Handed(c) = <<>> \o <<>>
    BY DEF DeliveryInv, UnusedEmpty, Handed
  <2> QED BY <2>1, <2>2, <2>3, RunEmpty, TypesUsed DEF DeliveryInv
<1>7. RegisteredRun'
  <2> SUFFICES ASSUME NEW u \in Topic, NEW d \in DOMAIN recps'[u]
               PROVE  IsRun(Handed(d), heard[u], since'[d], Due(u, d))
    <3>1. \A u \in Topic : DOMAIN recps'[u] \subseteq Chan
      BY <1>2, TypesUsed DEF DeliveryInv
    <3> QED BY <1>1, <1>4, <1>5, <3>1 DEF RegisteredRun
  <2>1. CASE d = c
    <3>1. u = t
      BY <1>2, <2>1 DEF Unused
    <3> QED BY <1>3, <1>6, <2>1, <3>1
  <2>2. CASE d # c
    <3>1. d \in DOMAIN recps[u] /\ d \in Chan
      BY <1>2, <2>2, TypesUsed DEF DeliveryInv
    <3> QED BY <1>3, <2>2, <3>1 DEF DeliveryInv, RegisteredRun
  <2> QED BY <2>1, <2>2
<1>8. ClosedRun'
  <2>1. \A d \in closed : d \in Chan \ {c}
    BY TypesUsed DEF DeliveryInv, Unused
  <2> QED BY <1>1, <1>3, <1>4, <2>1 DEF DeliveryInv, ClosedRun
<1>9. UnusedEmpty'
  <2>1. ASSUME NEW d \in Chan, Unused(d)' PROVE Unused(d)
    BY <1>1, <1>2, <2>1 DEF Unused
  <2> QED BY <1>1, <2>1 DEF DeliveryInv, UnusedEmpty
<1> QED BY <1>7, <1>8, <1>9 DEF DeliveryInv

LEMMA ReceiveDelivery ==
  ASSUME DeliveryInv, RegInv', NEW c \in Chan, Receive(c)
  PROVE  DeliveryInv'
<1>1. /\ buf[c] # <<>>
      /\ got' = [got EXCEPT ![c] = Append(got[c], Head(buf[c]))]
      /\ buf' = [buf EXCEPT ![c] = Tail(buf[c])]
      /\ UNCHANGED <<process, todo, at, recps, heard, closed, since>>
  BY DEF Receive, topicVars
<1>2. \A d \in Chan : Handed(d)' = Handed(d)
  <2> SUFFICES ASSUME NEW d \in Chan PROVE got'[d] \o buf'[d] = got[d] \o buf[d]
    BY DEF Handed
  <2>1. DOMAIN got = Chan /\ DOMAIN buf = Chan
    BY DEF DeliveryInv, RegInv, TypeOK
  <2>2. CASE d = c
    <3>1. got'[c] = Append(got[c], Head(buf[c])) /\ buf'[c] = Tail(buf[c])
      BY <1>1, <2>1
    <3>2. got[c] \in Seq(Content) /\ buf[c] \in Seq(Content)
      BY TypesUsed DEF DeliveryInv
    <3>3. Append(got[c], Head(buf[c])) \o Tail(buf[c]) = got[c] \o buf[c]
      BY <1>1, <3>2, HandedOnReceive
    <3> QED BY <2>2, <3>1, <3>3
  <2>3. CASE d # c
    BY <1>1, <2>1, <2>3
  <2> QED BY <2>2, <2>3
<1>3. \A t, d : Due(t, d)' = Due(t, d)
  BY <1>1 DEF Due
<1>4. RegisteredRun'
  BY <1>1, <1>2, <1>3, TypesUsed DEF DeliveryInv, RegisteredRun
<1>5. ClosedRun'
  BY <1>1, <1>2, TypesUsed DEF DeliveryInv, ClosedRun
<1>6. UnusedEmpty'
  <2>1. ASSUME NEW d \in Chan, Unused(d)' PROVE Unused(d) /\ d # c
    BY <1>1, <2>1 DEF Unused, DeliveryInv, UnusedEmpty
  <2>2. \A d \in Chan \ {c} : got'[d] = got[d] /\ buf'[d] = buf[d]
    BY <1>1 DEF DeliveryInv, RegInv, TypeOK
  <2> QED BY <2>1, <2>2 DEF DeliveryInv, UnusedEmpty
<1> QED BY <1>4, <1>5, <1>6 DEF DeliveryInv

LEMMA TakeDelivery ==
  ASSUME DeliveryInv, RegInv', NEW t \in Topic, Take(t)
  PROVE  DeliveryInv'
<1> DEFINE m == Head(send[t])
<1>1. /\ process[t] = "range" /\ process' = [process EXCEPT ![t] = "lock"]
      /\ heard' = [heard EXCEPT ![t] = Append(heard[t], m)]
      /\ UNCHANGED <<todo, at, recps, buf, closed, since, got>>
  BY DEF Take, chanVars
<1>2. m \in Content
  BY TailTyped DEF DeliveryInv, RegInv, TypeOK, Take
<1> HIDE DEF m
<1>3. heard'[t] = Append(heard[t], m) /\ \A u \in Topic \ {t} : heard'[u] = heard[u]
  BY <1>1 DEF DeliveryInv, RegInv, TypeOK
<1>4. Len(heard'[t]) = Len(heard[t]) + 1 /\ Len(heard[t]) \in Nat
  BY <1>2, <1>3, TypesUsed, AppendProperties DEF DeliveryInv
<1>5. \A d : Handed(d)' = Handed(d)
  BY <1>1 DEF Handed
<1>6. \A u \in Topic, d \in Chan : Due(u, d)' = Due(u, d)
  <2> SUFFICES ASSUME NEW u \in Topic, NEW d \in Chan PROVE Due(u, d)' = Due(u, d)
    OBVIOUS
  <2>1. CASE u = t
    <3>1. todo[t] = {} /\ at[t] = Nil /\ d # Nil
      BY <1>1, TypesUsed DEF DeliveryInv, RegInv, LoopInv
    <3>2. Due(t, d) = Len(heard[t])
      BY <1>1, <3>1 DEF Due
    <3>3. process'[t] = "lock"
      BY <1>1 DEF DeliveryInv, RegInv, TypeOK
    <3>4. Due(t, d)' = Len(heard'[t]) - 1
      BY <3>3 DEF Due
    <3> QED BY <1>4, <2>1, <3>2, <3>4
  <2>2. CASE u # t
    BY <1>1, <1>3, <2>2 DEF Due
  <2> QED BY <2>1, <2>2
<1>7. ASSUME NEW u \in Topic, NEW x, NEW s, NEW n, IsRun(x, heard[u], s, n)
      PROVE  IsRun(x, heard'[u], s, n)
  <2>1. CASE u = t
    <3>1. heard[t] \in Seq(Content)
      BY TypesUsed DEF DeliveryInv
    <3>2. IsRun(x, Append(heard[t], m), s, n)
      BY <1>2, <1>7, <2>1, <3>1, RunOfLonger
    <3> QED BY <1>3, <2>1, <3>2
  <2>2. CASE u # t
    BY <1>3, <1>7, <2>2
  <2> QED BY <2>1, <2>2
<1>8. RegisteredRun'
  BY <1>1, <1>5, <1>6, <1>7, TypesUsed DEF DeliveryInv, RegisteredRun
<1>9. ClosedRun'
  BY <1>1, <1>5, <1>7 DEF DeliveryInv, ClosedRun
<1>10. UnusedEmpty'
  BY <1>1 DEF DeliveryInv, UnusedEmpty, Unused
<1> QED BY <1>8, <1>9, <1>10 DEF DeliveryInv

LEMMA DeliverDelivery ==
  ASSUME DeliveryInv, RegInv', NEW t \in Topic, Deliver(t)
  PROVE  DeliveryInv'
<1>0. at[t] # Nil
  BY DEF Deliver
<1>1. PICK c \in Chan : c = at[t] /\ c # Nil
  BY <1>0, AtRecipient DEF DeliveryInv
<1>2. /\ c \in DOMAIN recps[t] /\ c \notin todo[t]
      /\ process[t] = "send" /\ heard[t] \in Seq(Content) /\ heard[t] # <<>> /\ Current(t) \in Content
  BY <1>0, <1>1, AtRecipient DEF DeliveryInv
<1>3. /\ buf' = [buf EXCEPT ![c] = Append(buf[c], Current(t))]
      /\ at' = [at EXCEPT ![t] = Nil]
      /\ UNCHANGED <<process, todo, recps, heard, closed, since, got>>
  BY <1>1 DEF Deliver
<1>4. at[t] = c /\ DOMAIN at = Topic /\ DOMAIN buf = Chan
  BY <1>1 DEF DeliveryInv, RegInv, TypeOK
<1>5. \A d \in Chan \ {c} : Handed(d)' = Handed(d)
  BY <1>3, <1>4 DEF Handed
<1>6. Handed(c)' = Append(Handed(c), Current(t))
  <2>1. got'[c] \o buf'[c] = got[c] \o Append(buf[c], Current(t))
    BY <1>2, <1>3, <1>4
  <2>2. got[c] \in Seq(Content) /\ buf[c] \in Seq(Content)
    BY <1>2, TypesUsed DEF DeliveryInv
  <2>3. got[c] \o Append(buf[c], Current(t)) = Append(got[c] \o buf[c], Current(t))
    <3>1. \A g, b \in Seq(Content), e \in Content : g \o Append(b, e) = Append(g \o b, e)
      BY HandedOnDeliver
    <3>2. PICK g \in Seq(Content), b \in Seq(Content) : g = got[c] /\ b = buf[c]
      BY <2>2
    <3> QED BY <1>2, <3>1, <3>2
  <2> QED BY <2>1, <2>3 DEF Handed
<1>7. /\ \A u \in Topic : c \in DOMAIN recps[u] => u = t
      /\ c \notin closed
  BY <1>2 DEF DeliveryInv, RegInv
<1>8. ASSUME NEW u \in Topic, NEW d \in DOMAIN recps[u], d # c
      PROVE  Due(u, d)' = Due(u, d)
  <2>1. d # Nil
    BY TypesUsed DEF DeliveryInv
  <2> QED BY <1>3, <1>4, <1>8, <2>1 DEF Due
<1>9. Due(t, c) = Len(heard[t]) - 1 /\ Due(t, c)' = Len(heard[t])
  <2>1. Due(t, c) = Len(heard[t]) - 1
    BY <1>1 DEF Due
  <2>2. process'[t] # "lock" /\ c \notin todo'[t] \cup {at'[t]}
    BY <1>1, <1>2, <1>3, <1>4
  <2> QED BY <1>3, <2>1, <2>2 DEF Due
<1>10. RegisteredRun'
  <2> SUFFICES ASSUME NEW u \in Topic, NEW d \in DOMAIN recps[u]
               PROVE  IsRun(Handed(d)', heard[u], since[d], Due(u, d)')
    BY <1>3 DEF RegisteredRun
  <2>1. IsRun(Handed(d), heard[u], since[d], Due(u, d))
    BY DEF DeliveryInv, RegisteredRun
  <2>2. CASE d = c
    <3>1. IsRun(Handed(c), heard[t], since[c], Len(heard[t]) - 1)
      BY <1>7, <1>9, <2>1, <2>2
    <3>2. IsRun(Append(Handed(c), heard[t][Len(heard[t])]), heard[t], since[c], Len(heard[t]))
      BY <1>2, <3>1, TypesUsed, RunExtended DEF DeliveryInv
    <3> QED BY <1>6, <1>7, <1>9, <2>2, <3>2 DEF Current
  <2>3. CASE d # c
    <3>1. d \in Chan
      BY TypesUsed DEF DeliveryInv
    <3> QED BY <1>5, <1>8, <2>1, <2>3, <3>1
  <2> QED BY <2>2, <2>3
<1>11. ClosedRun'
  <2>1. \A d \in closed : d \in Chan \ {c}
    BY <1>7, TypesUsed DEF DeliveryInv
  <2> QED BY <1>3, <1>5, <2>1 DEF DeliveryInv, ClosedRun
<1>12. UnusedEmpty'
  <2>1. ASSUME NEW d \in Chan, Unused(d)' PROVE Unused(d) /\ d # c
    BY <1>2, <1>3, <2>1 DEF Unused
  <2> QED BY <1>3, <1>4, <2>1 DEF DeliveryInv, UnusedEmpty
<1> QED BY <1>10, <1>11, <1>12 DEF DeliveryInv

-----------------------------------------------------------------------------
LEMMA NextDelivery == DeliveryInv /\ [Next]_tvars => DeliveryInv'
<1> SUFFICES ASSUME DeliveryInv, [Next]_tvars PROVE DeliveryInv'
  OBVIOUS
<1> RegInv'
  BY NextRegInv DEF DeliveryInv
<1>1. CASE UNCHANGED tvars
  <2>1. UNCHANGED <<process, todo, at, recps, heard, buf, closed, since, got>>
    BY <1>1 DEF tvars, topicVars, chanVars
  <2> QED BY <2>1, DeliveryKept DEF Due
<1>2. ASSUME NEW c \in Chan, Receive(c) PROVE DeliveryInv'
  BY <1>2, ReceiveDelivery
<1>3. ASSUME NEW t \in Topic, NEW m \in Content, Publish(t, m) PROVE DeliveryInv'
  BY <1>3, PublishDelivery
<1>4. ASSUME NEW t \in Topic, Close(t) PROVE DeliveryInv'
  <2>1. UNCHANGED <<process, todo, at, recps, heard, buf, closed, since, got>>
    BY <1>4 DEF Close, chanVars
  <2> QED BY <2>1, DeliveryKept DEF Due
<1>5. ASSUME NEW t \in Topic, NEW c \in Chan, NEW strict \in BOOLEAN, Unused(c), Register(t, c, strict)
      PROVE  DeliveryInv'
  BY <1>5, RegisterDelivery
<1>6. ASSUME NEW t \in Topic, NEW c \in Chan, Unregister(t, c) PROVE DeliveryInv'
  BY <1>6, UnregisterDelivery
<1>7. ASSUME NEW t \in Topic, Process(t) PROVE DeliveryInv'
  BY <1>7, TakeDelivery, LoopDelivery, DeliverDelivery, EvictDelivery, StopDelivery DEF Process
<1> QED BY <1>1, <1>2, <1>3, <1>4, <1>5, <1>6, <1>7 DEF Next, Client

(***************************************************************************)
(* A registered recipient, strict or not, has been handed every message    *)
(* since its Register, in order, and one that is evicted or unregistered a *)
(* run of them that starts there (messagetopic.go:22-41).                  *)
(***************************************************************************)
THEOREM NoGaps == Spec => []GaplessDelivery
<1>1. DeliveryInv => GaplessDelivery
  <2> SUFFICES ASSUME DeliveryInv, NEW c \in Chan
               PROVE  /\ \A t \in Topic : c \in DOMAIN recps[t] =>
                           got[c] \o buf[c] = SubSeq(heard[t], since[c] + 1, Due(t, c))
                      /\ c \in closed => \E t \in Topic :
                           IsPrefix(got[c] \o buf[c], SubSeq(heard[t], since[c] + 1, Len(heard[t])))
    BY DEF GaplessDelivery, Due
  <2>1. Handed(c) \in Seq(Content) /\ \A t \in Topic : heard[t] \in Seq(Content)
    BY TypesUsed DEF DeliveryInv
  <2>2. ASSUME NEW t \in Topic, c \in DOMAIN recps[t]
        PROVE  Handed(c) = SubSeq(heard[t], since[c] + 1, Due(t, c))
    <3>1. IsRun(Handed(c), heard[t], since[c], Due(t, c))
      BY <2>2 DEF DeliveryInv, RegisteredRun
    <3> QED BY <2>1, <3>1, RunIsSubSeq
  <2>3. ASSUME c \in closed
        PROVE  \E t \in Topic : IsPrefix(Handed(c), SubSeq(heard[t], since[c] + 1, Len(heard[t])))
    <3>1. PICK t \in Topic, n \in Nat : IsRun(Handed(c), heard[t], since[c], n)
      BY <2>3 DEF DeliveryInv, ClosedRun
    <3> QED BY <2>1, <3>1, RunIsSubSeq
  <2> QED BY <2>2, <2>3 DEF Handed
<1>2. Spec => []DeliveryInv
  BY InitDelivery, NextDelivery, PTL DEF Spec
<1> QED BY <1>1, <1>2, PTL
=============================================================================
