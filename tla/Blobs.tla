-------------------------------- MODULE Blobs --------------------------------
(***************************************************************************)
(* The blob store of blobs/blobs.go, on top of the connections: a blob     *)
(* that is wanted is asked of every peer that is connected now (Want) or   *)
(* connects later (the onConnect hook), and one goroutine for each wanted  *)
(* blob, its fetcher, gets it from the peers that say they have it.        *)
(*                                                                         *)
(* Each question is a goroutine of its own, a responder.  A connection may *)
(* be asked the same twice, by Want and by the hook, since it is entered   *)
(* in Conns before its hook takes the lock.                                *)
(*                                                                         *)
(* What a peer answers, and what Source reports at the end of a stream, is *)
(* muxrpc's and the peer's: it is left open.  So is whether it answers at  *)
(* all: neither Call nor Source has a time-out.  They return when their    *)
(* connection ends, but an accepted connection has no timer and need not.  *)
(***************************************************************************)
EXTENDS Connections

CONSTANTS Blob,    \* the blobs that may be wanted
          Other    \* what else a peer may send under the name of a blob

ASSUME BlobsAssumption == Blob \cap Other = {} /\ Nil \notin Blob \cup Other

VARIABLES
  has,    \* the blobs of Blob that are stored
  want,   \* the domain of BlobStore.want
  fetch,  \* fetch[r]: where the fetcher of r is, the connection it asks, or Nil
  ask,    \* ask[<<r, c, by>>]: where the responder for r, slot c is; one that
          \* has returned, or never will, is off
  asked   \* asked[c]: the blobs that slot c was asked for (history variable)

vars == <<connVars, has, want, fetch, ask, asked>>

Asker == {"want", "hook"}

Init ==
  /\ ConnInit
  /\ has = {}
  /\ want = {}
  /\ fetch = [r \in Blob |-> [pc |-> "off", conn |-> Nil]]
  /\ ask = [q \in Blob \X Conn \X Asker |-> "off"]
  /\ asked = [c \in Conn |-> {}]

-----------------------------------------------------------------------------
(* New responders ask blobs.has of the connections in cs for the blobs rs. *)
AskFor(rs, cs, by) ==
  /\ ask' = [q \in DOMAIN ask |->
               IF q[1] \in rs /\ q[2] \in cs /\ q[3] = by THEN "call" ELSE ask[q]]
  /\ asked' = [c \in Conn |-> IF c \in cs THEN asked[c] \cup rs ELSE asked[c]]

(* Want, under wantLock and then the lock of Conns. *)
Want(r) ==
  /\ r \notin has
  /\ r \notin want
  /\ want' = want \cup {r}
  /\ fetch' = [fetch EXCEPT ![r].pc = "recv"]
  /\ AskFor({r}, {conns[p] : p \in Listed}, "want")
  /\ UNCHANGED <<connVars, has>>

(* onConnect["blob"], under wantLock; the connection may be over by then. *)
Hook(c) ==
  /\ conn[c].hook = "pending"
  /\ conn' = [conn EXCEPT ![c].hook = "done"]
  /\ AskFor(want, {c}, "hook")
  /\ UNCHANGED <<conns, pubList, turn, unrivalled, has, want, fetch>>

(* The call of a responder returns an error or no, or never returns. *)
AnswerNo(q) ==
  /\ ask[q] = "call"
  /\ ask' = [ask EXCEPT ![q] = "off"]
  /\ UNCHANGED <<connVars, has, want, fetch, asked>>

(* It returns yes. *)
AnswerYes(q) ==
  /\ ask[q] = "call"
  /\ ask' = [ask EXCEPT ![q] = "send"]
  /\ UNCHANGED <<connVars, has, want, fetch, asked>>

-----------------------------------------------------------------------------
(* Mutant of Receive: the fetcher goes on to the next without a Source. *)
Receive_Skips(q) ==
  /\ ask[q] = "send"
  /\ fetch[q[1]].pc = "recv"
  /\ fetch' = [fetch EXCEPT ![q[1]].conn = q[2]]
  /\ ask' = [ask EXCEPT ![q] = "off"]
  /\ UNCHANGED <<connVars, has, want, asked>>

(* w.resp, which has no buffer: a responder meets the fetcher. *)
Receive(q) ==
  /\ ask[q] = "send"
  /\ fetch[q[1]].pc = "recv"
  /\ fetch' = [fetch EXCEPT ![q[1]] = [pc |-> "get", conn |-> q[2]]]
  /\ ask' = [ask EXCEPT ![q] = "off"]
  /\ UNCHANGED <<connVars, has, want, asked>>

Then(r, pc) == fetch' = [fetch EXCEPT ![r] = [pc |-> pc, conn |-> Nil]]

(* Mutant of DropData: the fetcher ends with the first peer that fails. *)
DropData_Ends(r) ==
  /\ fetch[r].pc = "get"
  /\ Then(r, "over")
  /\ UNCHANGED <<connVars, has, want, ask, asked>>

(* Source reports no error: what it has received is not looked at. *)
DropData(r) ==
  /\ fetch[r].pc = "get"
  /\ Then(r, "recv")
  /\ UNCHANGED <<connVars, has, want, ask, asked>>

(* Mutant of AddData: whatever is received ends the fetcher. *)
AddData_Any(r, data) ==
  /\ fetch[r].pc = "get"
  /\ has' = has \cup ({data} \cap Blob)
  /\ Then(r, "unlist")
  /\ UNCHANGED <<connVars, want, ask, asked>>

(* Source reports one: the data are stored under their own hash, and the   *)
(* fetcher ends if that is r.                                              *)
AddData(r, data) ==
  /\ fetch[r].pc = "get"
  /\ has' = has \cup ({data} \cap Blob)
  /\ Then(r, IF data = r THEN "unlist" ELSE "recv")
  /\ UNCHANGED <<connVars, want, ask, asked>>

(* The fetcher takes r off the map.  Nobody receives from w.resp any more. *)
Unlist(r) ==
  /\ fetch[r].pc = "unlist"
  /\ want' = want \ {r}
  /\ Then(r, "over")
  /\ UNCHANGED <<connVars, has, ask, asked>>

(* BlobStore.Add of an upload. *)
Upload(r) ==
  /\ r \notin has
  /\ has' = has \cup {r}
  /\ UNCHANGED <<connVars, want, fetch, ask, asked>>

-----------------------------------------------------------------------------
(* The fetcher is in Source on a connection that has not ended; nothing    *)
(* need ever end it if the peer has made it.                               *)
Asking(r) == fetch[r].pc = "get" /\ conn[fetch[r].conn].up

Held(r) == Asking(r) /\ fetch[r].conn \in InConn

(* Bound: a slot is used again only when no goroutine refers to its last   *)
(* connection, responders apart that may wait for good, since their        *)
(* fetcher is held or over.                                                *)
Unused(c) ==
  /\ conn[c].hook # "pending"
  /\ \A r \in Blob : fetch[r].conn # c
  /\ \A q \in DOMAIN ask :
       q[2] = c /\ ask[q] # "off" => fetch[q[1]].pc \in {"unlist", "over"} \/ Held(q[1])

(* Responders of the slot's last connection are forgotten with it. *)
Reuse(c) ==
  /\ Unused(c)
  /\ ask' = [q \in DOMAIN ask |-> IF q[2] = c THEN "off" ELSE ask[q]]
  /\ asked' = [asked EXCEPT ![c] = {}]
  /\ UNCHANGED <<has, want, fetch>>

Fetcher(r) == DropData(r) \/ Unlist(r) \/ \E data \in Blob \cup Other : AddData(r, data)

Manager(c) == HandleConn(c) \/ Disconnect(c) \/ Dialling(c) \/ TimerFires(c)

blobVars == <<has, want, fetch, ask, asked>>

DialLoopSteps ==
  \/ (Tick \/ Pass) /\ UNCHANGED blobVars
  \/ \E c \in OutConn : Dial(c) /\ Reuse(c)

Next ==
  \/ \E c \in InConn, p \in Caller : Accept(c, p) /\ Reuse(c)
  \/ DialLoopSteps
  \/ \E c \in Conn : \/ Manager(c) /\ UNCHANGED blobVars
                     \/ Hook(c)
  \/ \E q \in DOMAIN ask : AnswerNo(q) \/ AnswerYes(q) \/ Receive(q)
  \/ \E r \in Blob : Want(r) \/ Fetcher(r) \/ Upload(r)

Spec == Init /\ [][Next]_vars

(***************************************************************************)
(* Fairness.  The dial loop ticks; a dial ends, with success or not; the   *)
(* timer of a dialled connection goes off; goroutines that can go on do,   *)
(* and a responder that waits to send on w.resp is served in its turn,     *)
(* since Go's channels queue their senders.  Nothing says that a peer      *)
(* answers, so Source need not return before its connection has ended, and *)
(* Call may as well be taken never to return.  Nobody need connect, want,  *)
(* upload or end a connection that a peer has made.                        *)
(***************************************************************************)
Fairness ==
  /\ WF_vars(DialLoopSteps)
  /\ \A c \in Conn :
       /\ WF_vars(HandleConn(c) /\ UNCHANGED blobVars)
       /\ WF_vars(Dialling(c) /\ UNCHANGED blobVars)
       /\ WF_vars(TimerFires(c) /\ UNCHANGED blobVars)
       /\ WF_vars(Hook(c))
  /\ \A q \in Blob \X Conn \X Asker : WF_vars(AnswerNo(q) \/ AnswerYes(q)) /\ SF_vars(Receive(q))
  /\ \A r \in Blob : WF_vars(Fetcher(r) /\ ~Asking(r))

FairSpec == Spec /\ Fairness

-----------------------------------------------------------------------------
(* Types; a fetcher refers to a connection exactly while it asks it. *)
TypeOK ==
  /\ ConnTypeOK
  /\ has \subseteq Blob
  /\ want \subseteq Blob
  /\ fetch \in [Blob -> [pc : {"off", "recv", "get", "unlist", "over"}, conn : Conn \cup {Nil}]]
  /\ \A r \in Blob : fetch[r].pc = "get" <=> fetch[r].conn # Nil
  /\ ask \in [Blob \X Conn \X Asker -> {"off", "call", "send"}]
  /\ asked \in [Conn -> SUBSET Blob]

(***************************************************************************)
(* Every blob on the map of wants has been asked of every connection that  *)
(* Conns lists and whose hook has run, whichever came first, the want or   *)
(* the connection, and whatever rivals it had before (blobs.go:129-178,    *)
(* 299-341, muxrpcManager.go:31-41).  A connection that has lost its entry *)
(* to a rival is asked for what was wanted before and nothing after that.  *)
(***************************************************************************)
AskedEveryone ==
  \A r \in want, p \in Listed :
    conn[conns[p]].hook = "done" => r \in asked[conns[p]]

(***************************************************************************)
(* A blob that was wanted stays wanted, and its fetcher there, until the   *)
(* blob is stored, whatever peers send in its place (blobs.go:142-160).    *)
(***************************************************************************)
WantedUntilStored ==
  \A r \in Blob : fetch[r].pc # "off" /\ r \notin has =>
    r \in want /\ fetch[r].pc \in {"recv", "get"}

(***************************************************************************)
(* Liveness: a peer that says it has a wanted blob is asked for it in the  *)
(* end, unless the blob is stored by then, or one peer that has connected  *)
(* itself holds the fetcher for good in a Source that it does not end      *)
(* (blobs.go:146, gossip.go:214-222).  Nothing else holds up an answer:    *)
(* neither connections that fail, nor dialled peers that never end their   *)
(* stream, nor ones that send something else, nothing, or too little       *)
(* (blobs.go:144-155, 172-174, gossip.go:269-276).                         *)
(***************************************************************************)
AnswersAreHeard ==
  \A q \in Blob \X Conn \X Asker :
    \/ <>[]Held(q[1])
    \/ ask[q] = "send" ~> (ask[q] # "send" \/ q[1] \in has)
=============================================================================
