----------------------------- MODULE Replication -----------------------------
(***************************************************************************)
(* Gossip on top of the datastore: for each connection the hook            *)
(* onConnects["replicate"] asks the peer for a stream of every feed that   *)
(* is followed by then, from the message after the latest stored one, and  *)
(* each reply goes to AddMessage.  The peer runs the same program: its     *)
(* createHistoryStream is a Follow of its own feed, which catches up,      *)
(* goes live, and is evicted from the topic when it is slow.               *)
(*                                                                         *)
(* Connections end, with what is on the wire, and are made again; the      *)
(* process may restart.  Peers hold prefixes of one chain for each feed    *)
(* of messages with a hash of their own, as PublishMessage makes them      *)
(* (ReplicationAssumption): what forks, forgeries and messages with the    *)
(* zero key do to a feed is in FeedStore.                                  *)
(***************************************************************************)
EXTENDS FeedStore

CONSTANTS Peer,       \* the peers that are dialled again and again
          WireCap,    \* packets between a peer's Send and its reply handler
          MaxCrashes  \* bound on restarts

ASSUME ReplicationAssumption ==
  /\ WireCap \in Nat \ {0}
  /\ MaxCrashes \in Nat
  /\ \A m, n \in Msg : m.author = n.author /\ m.sequence = n.sequence => m = n
  /\ \A m \in Msg : m.id # ZeroRef
  /\ \A m \in Msg : m.signed /\ m.sequence # 0 /\ Linked({o \in Msg : o.author = m.author}, m)

VARIABLES
  followed,  \* the feeds that GetFollows(ds, ds.PrimaryRef, 2) gives
  remote,    \* remote[p][f]: LatestSeq of f at p
  announced, \* announced[p][f]: how many of them the topic of f has sent at p
  up,        \* the peers that are connected
  stream,    \* stream[p][f]: the request for f on the connection to p
  wire,      \* wire[p]: what p has sent and reply has not handled
  crashes    \* how often the process has restarted

netVars == <<followed, remote, announced, up, stream, wire, crashes>>
rvars == <<vars, netVars>>

(* A request is "call" until it is made, then as far as the peer's Follow   *)
(* is: "catchup", "live", or "evicted" with messages left up to stop.       *)
(* passed: the numbers that were skipped while catching up (history).       *)
NoStream == [pc |-> "off", next |-> 0, stop |-> 0, passed |-> {}]

RInit ==
  /\ Init
  /\ followed = {}
  /\ remote   = [p \in Peer |-> [f \in Feed |-> 0]]
  /\ announced = [p \in Peer |-> [f \in Feed |-> 0]]
  /\ up       = {}
  /\ stream   = [p \in Peer |-> [f \in Feed |-> NoStream]]
  /\ wire     = [p \in Peer |-> <<>>]
  /\ crashes  = 0

-----------------------------------------------------------------------------
(* This side. *)

Follows(f) ==
  /\ f \notin followed
  /\ followed' = followed \cup {f}
  /\ UNCHANGED <<vars, remote, announced, up, stream, wire, crashes>>

(* Mutant of Connect: only feeds of which nothing is stored are asked for. *)
Connect_NewFeeds(p) ==
  /\ p \notin up
  /\ up' = up \cup {p}
  /\ stream' = [stream EXCEPT ![p] = [f \in Feed |->
                  IF f \in followed /\ db.log[f] = {} THEN [NoStream EXCEPT !.pc = "call"] ELSE NoStream]]
  /\ UNCHANGED <<vars, followed, remote, announced, wire, crashes>>

(* A new connection; its hook starts a goroutine for each followed feed. *)
Connect(p) ==
  /\ p \notin up
  /\ up' = up \cup {p}
  /\ stream' = [stream EXCEPT ![p] = [f \in Feed |->
                  IF f \in followed THEN [NoStream EXCEPT !.pc = "call"] ELSE NoStream]]
  /\ UNCHANGED <<vars, followed, remote, announced, wire, crashes>>

(* Mutant of FirstAsked: the message after the latest one is left out. *)
FirstAsked_OneOff(f) == IF db.log[f] = {} THEN 0 ELSE Latest(db.log[f]).sequence + 2

(* Latest() reads the committed log. *)
FirstAsked(f) == IF db.log[f] = {} THEN 0 ELSE Latest(db.log[f]).sequence + 1

(* GetFeed has returned: conn.Source("createHistoryStream"). *)
Ask(p, f) ==
  /\ stream[p][f].pc = "call"
  /\ IsOpen(f)
  /\ stream' = [stream EXCEPT ![p][f] = [NoStream EXCEPT !.pc = "catchup", !.next = FirstAsked(f)]]
  /\ UNCHANGED <<vars, followed, remote, announced, up, wire, crashes>>

(* Mutant of Reply: a reply that finds addChan full is dropped. *)
Reply_Drops(p) ==
  /\ wire[p] # <<>>
  /\ wire' = [wire EXCEPT ![p] = Tail(@)]
  /\ LET m == Head(wire[p])
     IN  IF m # Nil /\ Len(addChan[m.author]) < AddChanCap
         THEN AddMessage(m.author, m) ELSE UNCHANGED vars
  /\ UNCHANGED <<followed, remote, announced, up, stream, crashes>>

(* reply: AddMessage lets a null pass, and blocks on a full addChan. *)
Reply(p) ==
  /\ wire[p] # <<>>
  /\ wire' = [wire EXCEPT ![p] = Tail(@)]
  /\ LET m == Head(wire[p])
     IN  IF m = Nil THEN UNCHANGED vars ELSE AddMessage(m.author, m)
  /\ UNCHANGED <<followed, remote, announced, up, stream, crashes>>

(* The connection ends.  A reply that has been read may still be handled. *)
Disconnect(p) ==
  /\ p \in up
  /\ up' = up \ {p}
  /\ stream' = [stream EXCEPT ![p] = [f \in Feed |-> NoStream]]
  /\ \E left \in {<<>>, wire[p]} : wire' = [wire EXCEPT ![p] = left]
  /\ UNCHANGED <<vars, followed, remote, announced, crashes>>

Restart ==
  /\ crashes < MaxCrashes
  /\ crashes' = crashes + 1
  /\ Crash
  /\ up' = {}
  /\ stream' = [p \in Peer |-> [f \in Feed |-> NoStream]]
  /\ wire' = [p \in Peer |-> <<>>]
  /\ UNCHANGED <<followed, remote, announced>>

-----------------------------------------------------------------------------
(* The peer. *)

(* Its LatestSeq moves on by a run of messages, inside a transaction ... *)
PeerStores(p, f) ==
  /\ announced[p][f] = remote[p][f]
  /\ \E m \in Msg :
       /\ m.author = f
       /\ m.sequence > remote[p][f]
       /\ \A n \in remote[p][f] + 1 .. m.sequence :
            \E o \in Msg : o.author = f /\ o.sequence = n
       /\ remote' = [remote EXCEPT ![p][f] = m.sequence]
  /\ UNCHANGED <<vars, followed, announced, up, stream, wire, crashes>>

(* ... and its topic hands them out, one by one.  A live stream has one     *)
(* message in its handler and one in its channel: it is evicted if both    *)
(* are taken, and if the handler has not come to take the first one.       *)
PeerAnnounces(p, f) ==
  LET s == stream[p][f]
      n == announced[p][f] + 1
  IN  /\ n <= remote[p][f]
      /\ announced' = [announced EXCEPT ![p][f] = n]
      /\ \/ /\ s.pc = "live" => s.next + 1 >= n
            /\ stream' = stream
         \/ /\ s.pc = "live"
            /\ s.next < n
            /\ stream' = [stream EXCEPT ![p][f].pc = "evicted", ![p][f].stop = n]
      /\ UNCHANGED <<vars, followed, remote, up, wire, crashes>>

(* Follow finds nothing under a number up to LatestSeq: there is no message *)
(* 0, and those that are not announced may not be committed yet.            *)
PassOver(p, f) ==
  LET s == stream[p][f]
  IN  /\ s.pc = "catchup"
      /\ s.next <= remote[p][f]
      /\ s.next = 0 \/ s.next > announced[p][f]
      /\ stream' = [stream EXCEPT ![p][f].next = s.next + 1, ![p][f].passed = @ \cup {s.next}]
      /\ UNCHANGED <<vars, followed, remote, announced, up, wire, crashes>>

(* The number up to which a stream can be served. *)
Served(p, f) ==
  CASE stream[p][f].pc = "catchup" -> remote[p][f]
    [] stream[p][f].pc = "live"    -> announced[p][f]
    [] stream[p][f].pc = "evicted" -> stream[p][f].stop - 1
    [] OTHER                       -> 0

(* The handler of Follow sends a message. *)
Serve(p, f) ==
  /\ \E m \in Msg :
       /\ m.author = f
       /\ m.sequence = stream[p][f].next
       /\ m.sequence <= Served(p, f)
       /\ wire' = [wire EXCEPT ![p] = Append(@, m)]
  /\ Len(wire[p]) < WireCap
  /\ stream' = [stream EXCEPT ![p][f].next = @ + 1]
  /\ UNCHANGED <<vars, followed, remote, announced, up, crashes>>

(* The channel of an evicted stream is closed and yields nil. *)
ServeNull(p, f) ==
  /\ stream[p][f].pc = "evicted"
  /\ stream[p][f].next = stream[p][f].stop
  /\ Len(wire[p]) < WireCap
  /\ wire' = [wire EXCEPT ![p] = Append(@, Nil)]
  /\ UNCHANGED <<vars, followed, remote, announced, up, stream, crashes>>

(* Topic.Register, whatever was asked for: the next announcement counts. *)
GoLive(p, f) ==
  LET next == announced[p][f] + 1
  IN  /\ stream[p][f].pc = "catchup"
      /\ stream[p][f].next > remote[p][f]
      /\ stream' = [stream EXCEPT ![p][f].pc = "live", ![p][f].next = next,
                                  ![p][f].passed = {n \in @ : n < next}]
      /\ UNCHANGED <<vars, followed, remote, announced, up, wire, crashes>>

-----------------------------------------------------------------------------
Streaming(p, f) ==
  \/ PeerStores(p, f) \/ PeerAnnounces(p, f)
  \/ Ask(p, f) \/ PassOver(p, f) \/ Serve(p, f) \/ ServeNull(p, f) \/ GoLive(p, f)

RNext ==
  \/ Internal /\ UNCHANGED netVars
  \/ \E f \in Feed : Follows(f)
  \/ \E p \in Peer : Connect(p) \/ Reply(p) \/ Disconnect(p) \/ \E f \in Feed : Streaming(p, f)
  \/ Restart

RSpec == RInit /\ [][RNext]_rvars

(***************************************************************************)
(* Fairness.  Every goroutine that can take a step takes one in the end.   *)
(* Go's mutexes hand over to a waiter that has starved for 1 ms, so a      *)
(* goroutine that waits for bolt's write lock, or for the locks of its     *)
(* feed, gets them although others keep taking them, and one that is       *)
(* blocked on a channel is served in turn (strong fairness).  Connections  *)
(* are made again (the dial loop, see Connections) and last, again and     *)
(* again, until a request, a message or a reply is through; a dialled one  *)
(* ends after five minutes.  Nobody need follow or store anything.         *)
(***************************************************************************)
RFairness ==
  /\ \A f \in Feed :
       /\ WF_rvars(GetFeed(f) /\ UNCHANGED netVars)
       /\ SF_rvars(Drain(f) /\ UNCHANGED netVars)
       /\ SF_rvars(ProcessMessageQueue(f) /\ UNCHANGED netVars)
       /\ WF_rvars(TopicReceive(f) /\ UNCHANGED netVars)
  /\ \A p \in Peer :
       /\ WF_rvars(Connect(p))
       /\ SF_rvars(Reply(p))
       /\ WF_rvars(Disconnect(p))
       /\ \A f \in Feed : /\ WF_rvars(PeerAnnounces(p, f))
                          /\ SF_rvars(Ask(p, f))
                          /\ SF_rvars(PassOver(p, f))
                          /\ SF_rvars(Serve(p, f))

RFairSpec == RSpec /\ RFairness

-----------------------------------------------------------------------------
(* Types; a peer that is not connected has no stream. *)
RTypeOK ==
  /\ TypeOK
  /\ followed \subseteq Feed
  /\ remote \in [Peer -> [Feed -> Nat]]
  /\ announced \in [Peer -> [Feed -> Nat]]
  /\ \A p \in Peer, f \in Feed : announced[p][f] <= remote[p][f]
  /\ up \subseteq Peer
  /\ stream \in [Peer -> [Feed -> [pc : {"off", "call", "catchup", "live", "evicted"},
                                   next : Nat, stop : Nat, passed : SUBSET Nat]]]
  /\ \A p \in Peer \ up : stream[p] = [f \in Feed |-> NoStream]
  /\ wire \in [Peer -> Seq(Msg \cup {Nil})]
  /\ \A p \in Peer : Len(wire[p]) <= WireCap
  /\ crashes \in 0 .. MaxCrashes

(* What of f is on its way from p to the log, or there. *)
Arriving(p, f) ==
  Items(wire[p]) \cup Items(addChan[f]) \cup {drain[f].msg} \cup waiting[f]
    \cup tx.log[f] \cup db.log[f]

(***************************************************************************)
(* A stream asks for no less than is missing: every message before the one *)
(* it will send next is stored, or on its way, or was passed over by the   *)
(* peer before it was committed there.  So a full addChan, duplicates from *)
(* other peers, numbers that LatestSeq counts before they are committed    *)
(* and a peer that is behind lose nothing (gossip.go:168-199,              *)
(* follower.go:6-22, feeds.go:193-195).                                    *)
(***************************************************************************)
StreamsCover ==
  \A p \in Peer, f \in Feed :
    \A m \in Msg :
      m.author = f /\ m.sequence < stream[p][f].next =>
        m \in Arriving(p, f) \/ m.sequence \in stream[p][f].passed

(* Every message of a followed feed that a peer has is stored. *)
Replicated ==
  \A p \in Peer, m \in Msg :
    m.author \in followed /\ m.sequence <= remote[p][m.author] => m \in db.log[m.author]

(***************************************************************************)
(* Liveness: the node keeps catching up with its peers, although a         *)
(* Broadcast may find nobody in Wait (feeds.go:198), a stream may pass a   *)
(* message over (follower.go:8) or be evicted and send nulls               *)
(* (follower.go:25), a feed may be followed after the hook has run         *)
(* (gossip.go:167), and connections and the process end at any time.  As   *)
(* nothing stored goes away, each message is stored in the end.            *)
(***************************************************************************)
EventuallyReplicated == []<>Replicated
=============================================================================
