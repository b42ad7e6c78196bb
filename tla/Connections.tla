----------------------------- MODULE Connections -----------------------------
(***************************************************************************)
(* The connections to peers: muxrpcManager's HandleConn with its map       *)
(* Conns, the goroutine of gossip's Replicate that accepts connections,    *)
(* and the one that dials the pubs in turn.                                *)
(*                                                                         *)
(* A slot of Conn is one connection and the goroutine that runs HandleConn *)
(* for it.  Nothing keeps a peer from having two connections, and Conns    *)
(* has one entry for each peer: it is overwritten by the second one and    *)
(* removed at the end of either.                                           *)
(*                                                                         *)
(* This is a component: a module that adds the onConnect hook, Blobs, says *)
(* what Hook does and when a slot may be used again.                       *)
(***************************************************************************)
EXTENDS Naturals, FiniteSets, Sequences

CONSTANTS Peer,      \* the feed references of peers
          Caller,    \* the peers that connect themselves
          PubList,   \* the pubs in the order in which GetPubs lists them
          InConn,    \* bound: slots for accepted connections
          OutConn,   \* bound: slots for dialled connections
          MaxConns,  \* connections at which the dial loop pauses (3 in the code)
          Nil        \* Go's nil

Conn == InConn \cup OutConn

ASSUME ConnectionsAssumption ==
  /\ Caller \subseteq Peer
  /\ PubList \in Seq(Peer)
  /\ InConn \cap OutConn = {}
  /\ Nil \notin Peer \cup Conn
  /\ MaxConns \in Nat

VARIABLES
  conns,    \* conns[p]: ExtraData.Conns, a slot or Nil
  conn,     \* conn[c]: where the goroutine of slot c is, its peer, whether the
            \* connection is up, and whether its onConnect hook has run
  pubList,  \* the pubs that the dial loop has yet to come to
  turn,     \* the pub that it has taken from the list, or Nil
  unrivalled  \* the slots whose peer never had another connection in conns
              \* while they were entered themselves (history variable)

connVars == <<conns, conn, pubList, turn, unrivalled>>

Free == [pc |-> "free", peer |-> Nil, up |-> FALSE, hook |-> "off"]

ConnInit ==
  /\ conns = [p \in Peer |-> Nil]
  /\ conn = [c \in Conn |-> Free]
  /\ pubList = PubList
  /\ turn = Nil
  /\ unrivalled = {}

-----------------------------------------------------------------------------
(* Mutant of Connected: the hooks are started before the entry is made. *)
Connected_HooksFirst(p) == [pc |-> "new", peer |-> p, up |-> TRUE, hook |-> "pending"]

(* A connection as HandleConn gets it. *)
Connected(p) == [pc |-> "new", peer |-> p, up |-> TRUE, hook |-> "off"]

(* Replicate, first goroutine: l.Accept, go HandleConn. *)
Accept(c, p) ==
  /\ c \in InConn
  /\ conn[c].pc = "free"
  /\ conn' = [conn EXCEPT ![c] = Connected(p)]
  /\ UNCHANGED <<conns, pubList, turn, unrivalled>>

(* The other connections to p that HandleConn has entered and not removed. *)
Rivals(c, p) == {d \in Conn \ {c} : conn[d].pc = "handle" /\ conn[d].peer = p}

(* HandleConn: enter the connection, start the hooks, then handle it. *)
Insert(c) ==
  LET p == conn[c].peer
  IN  /\ conn[c].pc = "new"
      /\ conns' = [conns EXCEPT ![p] = c]
      /\ conn' = [conn EXCEPT ![c].pc = "handle",
                              ![c].hook = IF @ = "off" THEN "pending" ELSE @]
      /\ unrivalled' = IF Rivals(c, p) = {} THEN unrivalled \cup {c}
                       ELSE unrivalled \ Rivals(c, p)
      /\ UNCHANGED <<pubList, turn>>

(* Mutant of Delete: the entry stays when the connection has ended. *)
Delete_Stays(c) ==
  /\ conn[c].pc = "handle"
  /\ ~conn[c].up
  /\ conn' = [conn EXCEPT ![c] = [Free EXCEPT !.hook = conn[c].hook]]
  /\ unrivalled' = unrivalled \ {c}
  /\ UNCHANGED <<conns, pubList, turn>>

(* HandleConn: Handle has returned, the entry of the peer is removed.  Its *)
(* hook may still have to run.                                             *)
Delete(c) ==
  /\ conn[c].pc = "handle"
  /\ ~conn[c].up
  /\ conns' = [conns EXCEPT ![conn[c].peer] = Nil]
  /\ conn' = [conn EXCEPT ![c] = [Free EXCEPT !.hook = conn[c].hook]]
  /\ unrivalled' = unrivalled \ {c}
  /\ UNCHANGED <<pubList, turn>>

(* The peer or the network ends the connection. *)
Disconnect(c) ==
  /\ conn[c].up
  /\ conn' = [conn EXCEPT ![c].up = FALSE]
  /\ UNCHANGED <<conns, pubList, turn, unrivalled>>

-----------------------------------------------------------------------------
(* The dial loop of Replicate. *)

Listed == {p \in Peer : conns[p] # Nil}

(* Mutant of Tick: the list is read again at each tick. *)
Tick_FromTheTop ==
  /\ turn = Nil
  /\ Cardinality(Listed) < MaxConns
  /\ PubList # <<>>
  /\ turn' = Head(PubList)
  /\ pubList' = Tail(PubList)
  /\ UNCHANGED <<conns, conn, unrivalled>>

(* A tick: unless there are enough connections, the next pub's turn. *)
Tick ==
  LET list == IF pubList = <<>> THEN PubList ELSE pubList
  IN  /\ turn = Nil
      /\ Cardinality(Listed) < MaxConns
      /\ list # <<>>
      /\ turn' = Head(list)
      /\ pubList' = Tail(list)
      /\ UNCHANGED <<conns, conn, unrivalled>>

(* Its pub is connected already. *)
Pass ==
  /\ turn # Nil
  /\ conns[turn] # Nil
  /\ turn' = Nil
  /\ UNCHANGED <<conns, conn, pubList, unrivalled>>

(* It is not: dial it in a goroutine of its own. *)
Dial(c) ==
  /\ turn # Nil
  /\ conns[turn] = Nil
  /\ c \in OutConn
  /\ conn[c].pc = "free"
  /\ conn' = [conn EXCEPT ![c] = [pc |-> "dial", peer |-> turn, up |-> FALSE, hook |-> "off"]]
  /\ turn' = Nil
  /\ UNCHANGED <<conns, pubList, unrivalled>>

(* By now the pub may have connected itself, or may be dialled twice. *)
DialSucceeds(c) ==
  /\ conn[c].pc = "dial"
  /\ conn' = [conn EXCEPT ![c] = Connected(conn[c].peer)]
  /\ UNCHANGED <<conns, pubList, turn, unrivalled>>

DialFails(c) ==
  /\ conn[c].pc = "dial"
  /\ conn' = [conn EXCEPT ![c] = Free]
  /\ UNCHANGED <<conns, pubList, turn, unrivalled>>

(* A dialled connection is closed after five minutes.  Once Delete is done *)
(* the timer is stopped; closing a connection twice makes no difference.   *)
TimerFires(c) ==
  /\ c \in OutConn
  /\ conn[c].up
  /\ conn' = [conn EXCEPT ![c].up = FALSE]
  /\ UNCHANGED <<conns, pubList, turn, unrivalled>>

HandleConn(c) == Insert(c) \/ Delete(c)

Dialling(c) == DialSucceeds(c) \/ DialFails(c)

-----------------------------------------------------------------------------
ConnTypeOK ==
  /\ conns \in [Peer -> Conn \cup {Nil}]
  /\ conn \in [Conn -> [pc : {"free", "dial", "new", "handle"}, peer : Peer \cup {Nil},
                        up : BOOLEAN, hook : {"off", "pending", "done"}]]
  /\ pubList \in Seq(Peer)
  /\ turn \in Peer \cup {Nil}
  /\ unrivalled \subseteq Conn

(***************************************************************************)
(* An entry of Conns is a connection to that peer whose HandleConn has not *)
(* returned, and a connection that never had a rival has its entry.  One   *)
(* that has or had a rival may have none, even when it is the only one     *)
(* left: the second connection takes the entry over, and the end of either *)
(* removes it.  But no entry of a connection that is over is ever left     *)
(* (muxrpcManager.go:31-46).                                               *)
(***************************************************************************)
ConnsMatch ==
  /\ \A p \in Peer : conns[p] # Nil =>
       conn[conns[p]].pc = "handle" /\ conn[conns[p]].peer = p
  /\ \A c \in unrivalled : conns[conn[c].peer] = c

(***************************************************************************)
(* Liveness: unless enough peers are connected, the dial loop comes to     *)
(* every pub again and again, however often others fail, and although a    *)
(* connected pub is passed over (gossip.go:230-252).                       *)
(***************************************************************************)
PubsHaveTheirTurn ==
  \A i \in DOMAIN PubList :
    []<>(turn = PubList[i] \/ Cardinality(Listed) >= MaxConns)
=============================================================================
