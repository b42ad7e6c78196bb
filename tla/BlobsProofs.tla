---------------------------- MODULE BlobsProofs -----------------------------
(***************************************************************************)
(* Proofs about Connections and Blobs, for any peers, pubs, slots and      *)
(* blobs.  IInv is the inductive invariant: the types, the properties of   *)
(* the map of connections with what they rest on, and the two properties   *)
(* of wants.                                                               *)
(***************************************************************************)
EXTENDS Blobs, SequenceTheorems, TLAPS

(* A connection has a peer, and a hook only when it has been entered. *)
SlotInv ==
  \A c \in Conn : /\ conn[c].pc # "free" => conn[c].peer \in Peer
                  /\ conn[c].pc \in {"dial", "new"} => conn[c].hook = "off"

(* An unrivalled connection is entered, and the only such one to its peer. *)
UnrivalledInv ==
  \A c \in unrivalled : conn[c].pc = "handle" /\ Rivals(c, conn[c].peer) = {}

ConnsInv == ConnTypeOK /\ SlotInv /\ UnrivalledInv /\ ConnsMatch

BlobTypes ==
  /\ has \subseteq Blob
  /\ want \subseteq Blob
  /\ fetch \in [Blob -> [pc : {"off", "recv", "get", "unlist", "over"}, conn : Conn \cup {Nil}]]
  /\ \A r \in Blob : fetch[r].pc = "get" <=> fetch[r].conn # Nil
  /\ ask \in [Blob \X Conn \X Asker -> {"off", "call", "send"}]
  /\ asked \in [Conn -> SUBSET Blob]

IInv == ConnsInv /\ BlobTypes /\ AskedEveryone /\ WantedUntilStored

-----------------------------------------------------------------------------
(* The connections. *)

LEMMA NilApart == Nil \notin Peer /\ Nil \notin Conn
BY ConnectionsAssumption

LEMMA ConnsInit == ConnInit => ConnsInv
<1> SUFFICES ASSUME ConnInit PROVE ConnsInv
  OBVIOUS
<1>1. ConnTypeOK
  BY ConnectionsAssumption DEF ConnInit, ConnTypeOK, Free
<1>2. SlotInv /\ UnrivalledInv /\ ConnsMatch
  BY DEF ConnInit, SlotInv, UnrivalledInv, ConnsMatch, Free
<1> QED BY <1>1, <1>2 DEF ConnsInv

(* The dial loop takes a pub off its list. *)
LEMMA LoopKeeps ==
  ASSUME ConnsInv, Tick \/ Pass
  PROVE  ConnsInv'
<1>1. ConnTypeOK'
  <2>1. CASE Tick
    <3> DEFINE list == IF pubList = <<>> THEN PubList ELSE pubList
    <3>1. list \in Seq(Peer) /\ list # <<>>
      BY <2>1, ConnectionsAssumption DEF Tick, ConnsInv, ConnTypeOK
    <3>2. Head(list) \in Peer /\ Tail(list) \in Seq(Peer)
      BY <3>1, HeadTailProperties
    <3>3. turn' = Head(list) /\ pubList' = Tail(list) /\ UNCHANGED <<conns, conn, unrivalled>>
      BY <2>1 DEF Tick
    <3> HIDE DEF list
    <3> QED BY <3>2, <3>3 DEF ConnsInv, ConnTypeOK
  <2>2. CASE Pass
    BY <2>2 DEF Pass, ConnsInv, ConnTypeOK
  <2> QED BY <2>1, <2>2
<1>2. UNCHANGED <<conns, conn, unrivalled>>
  BY DEF Tick, Pass
<1> QED BY <1>1, <1>2 DEF ConnsInv, SlotInv, UnrivalledInv, ConnsMatch, Rivals

Slot == [pc : {"free", "dial", "new", "handle"}, peer : Peer \cup {Nil},
         up : BOOLEAN, hook : {"off", "pending", "done"}]

(* A slot that is not entered gets another content that is not. *)
LEMMA IdleSlotKeeps ==
  ASSUME ConnsInv, NEW c \in Conn, conn[c].pc # "handle",
         NEW s \in Slot, s.pc # "handle", s.pc # "free" => s.peer \in Peer, s.hook = "off",
         conn' = [conn EXCEPT ![c] = s],
         UNCHANGED <<conns, pubList, unrivalled>>, turn' \in {turn, Nil}
  PROVE  ConnsInv'
<1> USE DEF ConnsInv
<1>1. ConnTypeOK'
  BY DEF ConnTypeOK, Slot
<1>2. c \notin unrivalled
  BY DEF UnrivalledInv
<1>3. SlotInv'
  BY DEF ConnTypeOK, SlotInv
<1>4. UnrivalledInv' /\ ConnsMatch'
  BY <1>2 DEF ConnTypeOK, UnrivalledInv, ConnsMatch, Rivals
<1> QED BY <1>1, <1>3, <1>4

LEMMA AcceptKeeps ==
  ASSUME ConnsInv, NEW c \in Conn, NEW p \in Peer, Accept(c, p)
  PROVE  ConnsInv'
<1>1. Connected(p) \in Slot
  BY DEF Connected, Slot
<1> QED BY <1>1, IdleSlotKeeps DEF Accept, Connected

LEMMA DialKeeps ==
  ASSUME ConnsInv, NEW c \in Conn, Dial(c)
  PROVE  ConnsInv'
<1>1. turn \in Peer /\ conn[c].pc = "free" /\ turn' = Nil
  BY DEF Dial, ConnsInv, ConnTypeOK
<1>2. PICK s : s = [pc |-> "dial", peer |-> turn, up |-> FALSE, hook |-> "off"]
  OBVIOUS
<1>3. s \in Slot /\ s.pc = "dial" /\ s.peer = turn /\ s.hook = "off"
  BY <1>1, <1>2 DEF Slot
<1>4. conn' = [conn EXCEPT ![c] = s] /\ UNCHANGED <<conns, pubList, unrivalled>>
  BY <1>2 DEF Dial
<1> QED BY <1>1, <1>3, <1>4, IdleSlotKeeps

LEMMA DiallingKeeps ==
  ASSUME ConnsInv, NEW c \in Conn, Dialling(c)
  PROVE  ConnsInv'
<1>1. CASE DialSucceeds(c)
  <2>1. conn[c].peer \in Peer
    BY <1>1 DEF DialSucceeds, ConnsInv, SlotInv
  <2>2. Connected(conn[c].peer) \in Slot
    BY <2>1 DEF Connected, Slot
  <2> QED BY <1>1, <2>1, <2>2, IdleSlotKeeps DEF DialSucceeds, Connected
<1>2. CASE DialFails(c)
  <2>1. Free \in Slot
    BY DEF Free, Slot
  <2> QED BY <1>2, <2>1, IdleSlotKeeps DEF DialFails, Free
<1> QED BY <1>1, <1>2 DEF Dialling

(* The end of a connection is noticed by its HandleConn later. *)
LEMMA DownKeeps ==
  ASSUME ConnsInv, NEW c \in Conn, Disconnect(c) \/ TimerFires(c)
  PROVE  ConnsInv'
<1>1. conn' = [conn EXCEPT ![c].up = FALSE] /\ UNCHANGED <<conns, pubList, turn, unrivalled>>
  BY DEF Disconnect, TimerFires
<1>2. ConnTypeOK'
  BY <1>1 DEF ConnsInv, ConnTypeOK
<1>3. \A d \in Conn : /\ conn'[d].pc = conn[d].pc
                      /\ conn'[d].peer = conn[d].peer
                      /\ conn'[d].hook = conn[d].hook
  BY <1>1 DEF ConnsInv, ConnTypeOK
<1>4. SlotInv' /\ UnrivalledInv' /\ ConnsMatch'
  BY <1>1, <1>3 DEF ConnsInv, ConnTypeOK, SlotInv, UnrivalledInv, ConnsMatch, Rivals
<1> QED BY <1>2, <1>4 DEF ConnsInv

(* The entry of a peer is overwritten: the connections that had it before  *)
(* have a rival from now on, and the new one is alone only without any.    *)
LEMMA InsertKeeps ==
  ASSUME ConnsInv, NEW c \in Conn, Insert(c)
  PROVE  ConnsInv'
<1> DEFINE p == conn[c].peer
<1>1. p \in Peer /\ conn[c].pc = "new" /\ c \notin unrivalled
  BY DEF Insert, ConnsInv, SlotInv, UnrivalledInv
<1>2. /\ conns' = [conns EXCEPT ![p] = c]
      /\ UNCHANGED <<pubList, turn>>
      /\ unrivalled' = IF Rivals(c, p) = {} THEN unrivalled \cup {c} ELSE unrivalled \ Rivals(c, p)
  BY DEF Insert
<1>3. ConnTypeOK'
  <2>1. conn' \in [Conn -> [pc : {"free", "dial", "new", "handle"}, peer : Peer \cup {Nil},
                            up : BOOLEAN, hook : {"off", "pending", "done"}]]
    <3>1. conn' = [conn EXCEPT ![c].pc = "handle",
                               ![c].hook = IF @ = "off" THEN "pending" ELSE @]
      BY DEF Insert
    <3> DEFINE t == [conn[c] EXCEPT !.pc = "handle",
                                    !.hook = IF @ = "off" THEN "pending" ELSE @]
    <3>2. t \in [pc : {"free", "dial", "new", "handle"}, peer : Peer \cup {Nil},
                 up : BOOLEAN, hook : {"off", "pending", "done"}]
      BY DEF ConnsInv, ConnTypeOK
    <3>3. conn' = [conn EXCEPT ![c] = t]
      BY <3>1 DEF ConnsInv, ConnTypeOK
    <3> HIDE DEF t
    <3> QED BY <3>2, <3>3 DEF ConnsInv, ConnTypeOK
  <2>2. conns' \in [Peer -> Conn \cup {Nil}]
    BY <1>1, <1>2 DEF ConnsInv, ConnTypeOK
  <2>3. pubList' \in Seq(Peer) /\ turn' \in Peer \cup {Nil} /\ unrivalled' \subseteq Conn
    BY <1>2 DEF ConnsInv, ConnTypeOK
  <2> QED BY <2>1, <2>2, <2>3 DEF ConnTypeOK
<1>4. /\ conn'[c].pc = "handle" /\ conn'[c].peer = p
      /\ \A d \in Conn \ {c} : conn'[d] = conn[d]
  BY DEF Insert, ConnsInv, ConnTypeOK
<1>5. SlotInv'
  BY <1>1, <1>4 DEF ConnsInv, SlotInv
<1>6. \A d \in unrivalled' : d # c => d \in unrivalled /\ conn[d].peer # p
  BY <1>2 DEF ConnsInv, ConnTypeOK, UnrivalledInv, Rivals
<1>7. UnrivalledInv'
  BY <1>1, <1>2, <1>3, <1>4, <1>6 DEF ConnsInv, ConnTypeOK, UnrivalledInv, Rivals
<1>8. \A o \in Peer : conns'[o] # Nil => conn'[conns'[o]].pc = "handle"
                                         /\ conn'[conns'[o]].peer = o
  <2> TAKE o \in Peer
  <2>1. CASE o = p
    BY <1>2, <1>4, <2>1 DEF ConnsInv, ConnTypeOK
  <2>2. CASE o # p
    <3>1. conns'[o] = conns[o]
      BY <1>2, <2>2 DEF ConnsInv, ConnTypeOK
    <3>2. conns[o] # Nil => conns[o] \in Conn \ {c}
      BY <1>1 DEF ConnsInv, ConnTypeOK, ConnsMatch
    <3> QED BY <1>4, <3>1, <3>2 DEF ConnsInv, ConnsMatch
  <2> QED BY <2>1, <2>2
<1>9. \A d \in unrivalled' : conns'[conn'[d].peer] = d
  <2> TAKE d \in unrivalled'
  <2>1. CASE d = c
    BY <1>1, <1>2, <1>4, <2>1 DEF ConnsInv, ConnTypeOK
  <2>2. CASE d # c
    BY <1>2, <1>4, <1>6, <2>2 DEF ConnsInv, ConnTypeOK, ConnsMatch
  <2> QED BY <2>1, <2>2
<1>10. ConnsMatch'
  BY <1>8, <1>9 DEF ConnsMatch
<1> QED BY <1>3, <1>5, <1>7, <1>10 DEF ConnsInv

(* The entry of the peer goes; whoever else is connected to it has a rival *)
(* and is not in unrivalled.                                               *)
LEMMA DeleteKeeps ==
  ASSUME ConnsInv, NEW c \in Conn, Delete(c)
  PROVE  ConnsInv'
<1> DEFINE p == conn[c].peer
<1>1. p \in Peer /\ conn[c].pc = "handle"
  BY DEF Delete, ConnsInv, SlotInv
<1>2. /\ conns' = [conns EXCEPT ![p] = Nil]
      /\ unrivalled' = unrivalled \ {c}
      /\ UNCHANGED <<pubList, turn>>
  BY DEF Delete
<1>3. ConnTypeOK'
  BY <1>1 DEF Delete, Free, ConnsInv, ConnTypeOK
<1>4. /\ conn'[c].pc = "free"
      /\ \A d \in Conn \ {c} : conn'[d] = conn[d]
  BY DEF Delete, Free, ConnsInv, ConnTypeOK
<1>5. SlotInv'
  BY <1>4 DEF ConnsInv, SlotInv
<1>6. UnrivalledInv'
  BY <1>2, <1>4 DEF ConnsInv, ConnTypeOK, UnrivalledInv, Rivals
<1>7. \A d \in unrivalled' : conn[d].peer # p
  BY <1>1, <1>2 DEF ConnsInv, ConnTypeOK, UnrivalledInv, Rivals
<1>8. \A o \in Peer : conns'[o] # Nil => conn'[conns'[o]].pc = "handle"
                                         /\ conn'[conns'[o]].peer = o
  <2> TAKE o \in Peer
  <2> HAVE conns'[o] # Nil
  <2>1. o # p /\ conns'[o] = conns[o]
    BY <1>1, <1>2 DEF ConnsInv, ConnTypeOK
  <2>2. conns[o] \in Conn \ {c}
    BY <2>1 DEF ConnsInv, ConnTypeOK, ConnsMatch
  <2> QED BY <1>4, <2>1, <2>2 DEF ConnsInv, ConnsMatch
<1>9. \A d \in unrivalled' : conns'[conn'[d].peer] = d
  BY <1>1, <1>2, <1>4, <1>7 DEF ConnsInv, ConnTypeOK, ConnsMatch
<1>10. ConnsMatch'
  BY <1>8, <1>9 DEF ConnsMatch
<1> QED BY <1>3, <1>5, <1>6, <1>10 DEF ConnsInv

LEMMA HookKeeps ==
  ASSUME ConnsInv, NEW c \in Conn, Hook(c)
  PROVE  ConnsInv'
<1>1. /\ conn[c].hook = "pending"
      /\ conn' = [conn EXCEPT ![c].hook = "done"]
      /\ UNCHANGED <<conns, pubList, turn, unrivalled>>
  BY DEF Hook
<1>2. ConnTypeOK'
  BY <1>1 DEF ConnsInv, ConnTypeOK
<1>3. \A d \in Conn : /\ conn'[d].pc = conn[d].pc
                      /\ conn'[d].peer = conn[d].peer
                      /\ d # c => conn'[d].hook = conn[d].hook
  BY <1>1 DEF ConnsInv, ConnTypeOK
<1>4. SlotInv' /\ UnrivalledInv' /\ ConnsMatch'
  BY <1>1, <1>3 DEF ConnsInv, ConnTypeOK, SlotInv, UnrivalledInv, ConnsMatch, Rivals
<1> QED BY <1>2, <1>4 DEF ConnsInv

-----------------------------------------------------------------------------
(* Blobs. *)

LEMMA BlobsInit == Init => IInv
<1> SUFFICES ASSUME Init PROVE IInv
  OBVIOUS
<1>1. ConnsInv
  BY ConnsInit DEF Init
<1>2. BlobTypes
  BY DEF Init, BlobTypes
<1>3. AskedEveryone /\ WantedUntilStored
  BY DEF Init, AskedEveryone, WantedUntilStored
<1> QED BY <1>1, <1>2, <1>3 DEF IInv

LEMMA ConnsStep ==
  ASSUME ConnsInv, [Next]_vars
  PROVE  ConnsInv'
<1>1. CASE \E c \in InConn, p \in Caller : Accept(c, p) /\ Reuse(c)
  BY <1>1, AcceptKeeps, ConnectionsAssumption DEF Conn
<1>2. CASE DialLoopSteps
  BY <1>2, LoopKeeps, DialKeeps DEF DialLoopSteps, Conn
<1>3. CASE \E c \in Conn : Manager(c)
  BY <1>3, DiallingKeeps, DownKeeps, InsertKeeps, DeleteKeeps DEF Manager, HandleConn
<1>4. CASE \E c \in Conn : Hook(c)
  BY <1>4, HookKeeps
<1>5. CASE UNCHANGED connVars
  BY <1>5 DEF connVars, ConnsInv, ConnTypeOK, SlotInv, UnrivalledInv, ConnsMatch, Rivals
<1>6. CASE \E q \in DOMAIN ask : AnswerNo(q) \/ AnswerYes(q) \/ Receive(q)
  BY <1>5, <1>6 DEF AnswerNo, AnswerYes, Receive
<1>7. CASE \E r \in Blob : Want(r) \/ Fetcher(r) \/ Upload(r)
  BY <1>5, <1>7 DEF Want, Fetcher, DropData, AddData, Unlist, Upload
<1> QED BY <1>1, <1>2, <1>3, <1>4, <1>5, <1>6, <1>7 DEF Next, vars

LEMMA ReuseTypes ==
  ASSUME BlobTypes, NEW c \in Conn, Reuse(c)
  PROVE  BlobTypes'
<1>1. ask' \in [Blob \X Conn \X Asker -> {"off", "call", "send"}]
  BY DEF Reuse, BlobTypes
<1>2. asked' \in [Conn -> SUBSET Blob]
  BY DEF Reuse, BlobTypes
<1> QED BY <1>1, <1>2 DEF Reuse, BlobTypes

LEMMA AskTypes ==
  ASSUME BlobTypes, NEW rs \in SUBSET Blob, NEW cs, NEW by, AskFor(rs, cs, by)
  PROVE  /\ ask' \in [Blob \X Conn \X Asker -> {"off", "call", "send"}]
         /\ asked' \in [Conn -> SUBSET Blob]
BY DEF AskFor, BlobTypes

LEMMA TypesStep ==
  ASSUME BlobTypes, WantedUntilStored, [Next]_vars
  PROVE  BlobTypes'
<1>1. CASE \E c \in Conn : Reuse(c)
  BY <1>1, ReuseTypes
<1>2. CASE UNCHANGED blobVars
  BY <1>2 DEF blobVars, BlobTypes
<1>3. ASSUME NEW c \in Conn, Hook(c) PROVE BlobTypes'
  <2>1. AskFor(want, {c}, "hook") /\ want \in SUBSET Blob /\ UNCHANGED <<has, want, fetch>>
    BY <1>3 DEF Hook, BlobTypes
  <2> QED BY <2>1, AskTypes DEF BlobTypes
<1>4. ASSUME NEW q \in DOMAIN ask, AnswerNo(q) \/ AnswerYes(q) PROVE BlobTypes'
  BY <1>4 DEF AnswerNo, AnswerYes, BlobTypes
<1>5. ASSUME NEW q \in DOMAIN ask, Receive(q) PROVE BlobTypes'
  <2>1. q[1] \in Blob /\ q[2] \in Conn
    BY DEF BlobTypes
  <2> QED BY <1>5, <2>1, NilApart DEF Receive, BlobTypes
<1>6. ASSUME NEW r \in Blob, Want(r) PROVE BlobTypes'
  <2>1. /\ AskFor({r}, {conns[p] : p \in Listed}, "want") /\ {r} \in SUBSET Blob
        /\ want' = want \cup {r} /\ has' = has
        /\ fetch' = [fetch EXCEPT ![r].pc = "recv"]
    BY <1>6 DEF Want
  <2>2. fetch[r].conn = Nil
    BY <1>6 DEF Want, WantedUntilStored, BlobTypes
  <2>3. /\ fetch' \in [Blob -> [pc : {"off", "recv", "get", "unlist", "over"}, conn : Conn \cup {Nil}]]
        /\ \A s \in Blob : fetch'[s].conn = fetch[s].conn
        /\ \A s \in Blob \ {r} : fetch'[s].pc = fetch[s].pc
        /\ fetch'[r].pc = "recv"
    BY <2>1 DEF BlobTypes
  <2>4. \A s \in Blob : fetch'[s].pc = "get" <=> fetch'[s].conn # Nil
    BY <2>2, <2>3 DEF BlobTypes
  <2>5. has' \subseteq Blob /\ want' \subseteq Blob
    BY <2>1 DEF BlobTypes
  <2>6. /\ ask' \in [Blob \X Conn \X Asker -> {"off", "call", "send"}]
        /\ asked' \in [Conn -> SUBSET Blob]
    BY <2>1, AskTypes
  <2> QED BY <2>3, <2>4, <2>5, <2>6 DEF BlobTypes
<1>7. ASSUME NEW r \in Blob, Fetcher(r) \/ Upload(r) PROVE BlobTypes'
  <2>1. CASE DropData(r)
    BY <2>1 DEF DropData, Then, BlobTypes
  <2>2. ASSUME NEW data, AddData(r, data) PROVE BlobTypes'
    BY <2>2 DEF AddData, Then, BlobTypes
  <2>3. CASE Unlist(r)
    BY <2>3 DEF Unlist, Then, BlobTypes
  <2>4. CASE Upload(r)
    BY <2>4 DEF Upload, BlobTypes
  <2> QED BY <1>7, <2>1, <2>2, <2>3, <2>4 DEF Fetcher
<1> QED BY <1>1, <1>2, <1>3, <1>4, <1>5, <1>6, <1>7
        DEF Next, DialLoopSteps, Conn, vars, blobVars, BlobTypes

(* What is stored is never removed, and a fetcher ends only with its blob. *)
LEMMA WantedStep ==
  ASSUME BlobTypes, WantedUntilStored, [Next]_vars
  PROVE  WantedUntilStored'
<1> USE DEF WantedUntilStored
<1>1. CASE UNCHANGED <<has, want, fetch>>
  BY <1>1
<1>2. ASSUME NEW q \in DOMAIN ask, Receive(q) PROVE WantedUntilStored'
  BY <1>2 DEF Receive, BlobTypes
<1>3. ASSUME NEW r \in Blob, Want(r) PROVE WantedUntilStored'
  BY <1>3 DEF Want, BlobTypes
<1>4. ASSUME NEW r \in Blob, DropData(r) PROVE WantedUntilStored'
  BY <1>4 DEF DropData, Then, BlobTypes
<1>5. ASSUME NEW r \in Blob, NEW data, AddData(r, data) PROVE WantedUntilStored'
  BY <1>5 DEF AddData, Then, BlobTypes
<1>6. ASSUME NEW r \in Blob, Unlist(r) PROVE WantedUntilStored'
  BY <1>6 DEF Unlist, Then, BlobTypes
<1>7. ASSUME NEW r \in Blob, Upload(r) PROVE WantedUntilStored'
  BY <1>7 DEF Upload
<1> QED BY <1>1, <1>2, <1>3, <1>4, <1>5, <1>6, <1>7
        DEF Next, DialLoopSteps, Reuse, Hook, AnswerNo, AnswerYes, Fetcher, blobVars, vars

(* A step changes one slot: if Conns does not list that afterwards, or its *)
(* hook has still to run, the others are asked as before.                  *)
LEMMA AskedElsewhere ==
  ASSUME AskedEveryone, NEW c \in Conn,
         want' \subseteq want,
         \A p \in Peer : conns'[p] \notin {Nil, c} =>
            /\ conns'[p] = conns[p]
            /\ conn'[conns[p]].hook = conn[conns[p]].hook
            /\ asked'[conns[p]] = asked[conns[p]],
         (\E p \in Peer : conns'[p] = c) => conn'[c].hook # "done"
  PROVE  AskedEveryone'
BY DEF AskedEveryone, Listed

LEMMA AskedStep ==
  ASSUME ConnsInv, BlobTypes, AskedEveryone, [Next]_vars
  PROVE  AskedEveryone'
<1>0. \A p \in Peer : conns[p] # Nil => conns[p] \in Conn /\ conn[conns[p]].pc = "handle"
                                        /\ conn[conns[p]].peer = p
  BY DEF ConnsInv, ConnTypeOK, ConnsMatch
<1>1. ASSUME NEW c \in Conn, (\E p \in Peer : Accept(c, p)) \/ Dial(c), Reuse(c)
      PROVE  AskedEveryone'
  <2>1. conn[c].pc = "free" /\ conns' = conns /\ want' = want
    BY <1>1 DEF Accept, Dial, Reuse
  <2>2. \A d \in Conn \ {c} : conn'[d] = conn[d] /\ asked'[d] = asked[d]
    BY <1>1 DEF Accept, Dial, Reuse, ConnsInv, ConnTypeOK, BlobTypes
  <2>3. \A p \in Peer : conns[p] # c
    BY <1>0, <2>1, NilApart
  <2> QED BY <1>0, <2>1, <2>2, <2>3, AskedElsewhere
<1>2. CASE UNCHANGED <<conns, conn, want, asked>>
  BY <1>2 DEF AskedEveryone, Listed
<1>3. ASSUME NEW c \in Conn, Manager(c), UNCHANGED blobVars PROVE AskedEveryone'
  <2>1. want' = want /\ asked' = asked
    BY <1>3 DEF blobVars
  <2>2. CASE Insert(c)
    <3>1. /\ conns' = [conns EXCEPT ![conn[c].peer] = c]
          /\ conn[c].pc = "new" /\ conn[c].hook = "off"
      BY <2>2 DEF Insert, ConnsInv, SlotInv
    <3>2. conn'[c].hook = "pending" /\ \A d \in Conn \ {c} : conn'[d] = conn[d]
      BY <2>2, <3>1 DEF Insert, ConnsInv, ConnTypeOK
    <3>3. \A p \in Peer : conns'[p] # c => conns'[p] = conns[p]
      BY <3>1 DEF ConnsInv, ConnTypeOK
    <3> QED BY <1>0, <2>1, <3>2, <3>3, AskedElsewhere
  <2>3. CASE Delete(c)
    <3>1. /\ conns' = [conns EXCEPT ![conn[c].peer] = Nil]
          /\ \A d \in Conn \ {c} : conn'[d] = conn[d]
      BY <2>3 DEF Delete, ConnsInv, ConnTypeOK
    <3>2. \A p \in Peer : conns'[p] # Nil => conns'[p] = conns[p] /\ conns[p] # c
      BY <1>0, <3>1 DEF ConnsInv, ConnTypeOK
    <3> QED BY <1>0, <2>1, <3>1, <3>2, NilApart, AskedElsewhere
  <2>4. CASE Dialling(c)
    <3>1. conn[c].pc = "dial" /\ conns' = conns
      BY <2>4 DEF Dialling, DialSucceeds, DialFails
    <3>2. \A d \in Conn \ {c} : conn'[d] = conn[d]
      BY <2>4 DEF Dialling, DialSucceeds, DialFails, ConnsInv, ConnTypeOK
    <3>3. \A p \in Peer : conns[p] # c
      BY <1>0, <3>1, NilApart
    <3> QED BY <1>0, <2>1, <3>1, <3>2, <3>3, AskedElsewhere
  <2>5. CASE Disconnect(c) \/ TimerFires(c)
    <3>1. conns' = conns /\ conn' = [conn EXCEPT ![c].up = FALSE]
      BY <2>5 DEF Disconnect, TimerFires
    <3>2. \A d \in Conn : conn'[d].hook = conn[d].hook
      BY <3>1 DEF ConnsInv, ConnTypeOK
    <3> QED BY <1>0, <2>1, <3>1, <3>2 DEF AskedEveryone, Listed
  <2> QED BY <1>3, <2>2, <2>3, <2>4, <2>5 DEF Manager, HandleConn
<1>4. ASSUME NEW c \in Conn, Hook(c) PROVE AskedEveryone'
  <2>1. want' = want /\ conns' = conns /\ \A d \in Conn \ {c} : conn'[d] = conn[d]
    BY <1>4 DEF Hook, ConnsInv, ConnTypeOK
  <2>2. asked'[c] = asked[c] \cup want /\ \A d \in Conn \ {c} : asked'[d] = asked[d]
    BY <1>4 DEF Hook, AskFor
  <2> QED BY <1>0, <2>1, <2>2 DEF AskedEveryone, Listed
<1>5. ASSUME NEW r \in Blob, Want(r) PROVE AskedEveryone'
  <2> DEFINE cs == {conns[p] : p \in Listed}
  <2>1. want' = want \cup {r} /\ UNCHANGED <<conns, conn>>
    BY <1>5 DEF Want, connVars
  <2>2. \A d \in Conn : asked'[d] = IF d \in cs THEN asked[d] \cup {r} ELSE asked[d]
    BY <1>5 DEF Want, AskFor
  <2>3. \A p \in Listed : conns[p] \in cs /\ conns[p] \in Conn
    BY <1>0 DEF Listed
  <2> HIDE DEF cs
  <2>4. Listed' = Listed
    BY <2>1 DEF Listed
  <2>5. \A p \in Listed : asked'[conns[p]] = asked[conns[p]] \cup {r}
    BY <2>2, <2>3
  <2> QED BY <2>1, <2>4, <2>5 DEF AskedEveryone
<1>6. ASSUME NEW r \in Blob, Fetcher(r) \/ Upload(r) PROVE AskedEveryone'
  BY <1>6 DEF Fetcher, DropData, AddData, Unlist, Upload, connVars, AskedEveryone, Listed
<1> QED BY <1>1, <1>2, <1>3, <1>4, <1>5, <1>6, ConnectionsAssumption
        DEF Next, DialLoopSteps, Tick, Pass, AnswerNo, AnswerYes, Receive,
            connVars, blobVars, vars, Conn

-----------------------------------------------------------------------------
(* The theorems. *)

LEMMA IInvStep == IInv /\ [Next]_vars => IInv'
BY ConnsStep, TypesStep, WantedStep, AskedStep DEF IInv

(* IInv holds in every state: the invariant the other theorems rest on. *)
THEOREM BlobsInductive == Spec => []IInv
BY BlobsInit, IInvStep, PTL DEF Spec

(* The types (blobs.go:53-66, muxrpcManager.go:12-15). *)
THEOREM BlobsTypeCorrect == Spec => []TypeOK
<1>1. IInv => TypeOK
  BY DEF IInv, ConnsInv, BlobTypes, TypeOK
<1> QED BY <1>1, BlobsInductive, PTL

(* However many connections a peer has, and whichever ends first, no entry *)
(* is left of one that is over, and one without a rival has its entry      *)
(* (muxrpcManager.go:31-46).                                               *)
THEOREM EntriesAreConnections == Spec => []ConnsMatch
<1>1. IInv => ConnsMatch
  BY DEF IInv, ConnsInv
<1> QED BY <1>1, BlobsInductive, PTL

(* No connection that Conns lists is left out between Want and the         *)
(* onConnect hook, whatever rivals it has had (blobs.go:129-178, 299-341). *)
THEOREM NobodyLeftOut == Spec => []AskedEveryone
<1>1. IInv => AskedEveryone
  BY DEF IInv
<1> QED BY <1>1, BlobsInductive, PTL

(* A want ends only with its blob (blobs.go:142-160). *)
THEOREM WantsLast == Spec => []WantedUntilStored
<1>1. IInv => WantedUntilStored
  BY DEF IInv
<1> QED BY <1>1, BlobsInductive, PTL
=============================================================================
