------------------------------ MODULE BlobFiles ------------------------------
(***************************************************************************)
(* The files of the blob store and those who read them: BlobStore.Add,     *)
(* WaitFor as the page of a blob calls it, the handlers blobs.has and      *)
(* blobs.get, and the wants of peers (blobs.createWants).  How a wanted    *)
(* blob is fetched is in Blobs.                                            *)
(*                                                                         *)
(* Add writes its data to a temporary file and renames that; two Adds of   *)
(* one blob share the temporary file.  A file is "empty" (truncated, not   *)
(* yet written), "whole", or there is "none".  The condition that WaitFor  *)
(* waits on is signalled without its lock.  No error is looked at.         *)
(***************************************************************************)
EXTENDS Integers, Sequences

CONSTANTS Blob,    \* the blobs
          Adder,   \* goroutines that call Add: uploads and fetchers
          Page,    \* goroutines that serve the page of a blob
          Conn,    \* connections to peers; a new one after a restart is another
          WantCap  \* capacity of the channel of peerWants (10 in the code)

ASSUME BlobFilesAssumption == WantCap \in Nat \ {0} /\ Blob # {}

VARIABLES
  tmp,     \* tmp[r]: the temporary file
  file,    \* file[r]: the file of r
  add,     \* add[a]: where the Add of a is, its blob, and what its file is by
           \* now: the temporary one, the blob's, or "gone" (renamed over)
  page,    \* page[w]: where the page is and its blob
  up,      \* up[c]: the connection has not ended
  hook,    \* hook[c]: peerWants[conn] has been made and the wants asked for
  teller,  \* teller[c]: the handler of createWants: "off", "on", or "deaf"
  wants,   \* wants[c]: the wants that c has sent and that are not handled
  answers, \* answers[c]: the channel in peerWants[conn]
  told,    \* the <<c, r>> such that c was told that r is here (history)
  spoilt   \* blobs hit by a failing write, by the end of the process in the
           \* middle of two Adds, or by an Add that could not open an empty
           \* temporary file that an earlier one had left (history)

fileVars == <<tmp, file, add, spoilt>>
peerVars == <<up, hook, teller, wants, answers, told>>
vars == <<fileVars, page, peerVars>>

Idle(r) == [pc |-> "idle", blob |-> r, at |-> "gone"]

Init ==
  /\ tmp = [r \in Blob |-> "none"]
  /\ file = [r \in Blob |-> "none"]
  /\ add \in [Adder -> {Idle(CHOOSE r \in Blob : TRUE)}]
  /\ page = [w \in Page |-> [pc |-> "off", blob |-> CHOOSE r \in Blob : TRUE]]
  /\ up = [c \in Conn |-> TRUE]
  /\ hook = [c \in Conn |-> FALSE]
  /\ teller = [c \in Conn |-> "off"]
  /\ wants = [c \in Conn |-> <<>>]
  /\ answers = [c \in Conn |-> <<>>]
  /\ told = {}
  /\ spoilt = {}

(* os.Stat: a file that is there, whatever is in it. *)
Has(r) == file[r] # "none"

-----------------------------------------------------------------------------
(* BlobStore.Add. *)

Adding(r) == {a \in Adder : add[a].pc # "idle" /\ add[a].blob = r}

(* WriteFile opens the temporary file, or makes it, and truncates it. *)
Open(a, r) ==
  /\ add[a].pc = "idle"
  /\ tmp' = [tmp EXCEPT ![r] = "empty"]
  /\ add' = [add EXCEPT ![a] = [pc |-> "write", blob |-> r, at |-> "tmp"]]
  /\ UNCHANGED <<file, spoilt, page, peerVars>>

(* The directory or the file cannot be made, or not be opened: the error is *)
(* not looked at, and whatever the temporary file is gets renamed.          *)
OpenFails(a, r) ==
  /\ add[a].pc = "idle"
  /\ add' = [add EXCEPT ![a] = [pc |-> "rename", blob |-> r, at |-> "gone"]]
  /\ spoilt' = IF tmp[r] = "empty" THEN spoilt \cup {r} ELSE spoilt
  /\ UNCHANGED <<tmp, file, page, peerVars>>

Goto(a, pc) == add' = [add EXCEPT ![a] = [pc |-> pc, blob |-> @.blob, at |-> @.at]]

(* ... and writes to what it has opened, wherever that is by now. *)
Write(a) ==
  LET r == add[a].blob
  IN  /\ add[a].pc = "write"
      /\ Goto(a, "rename")
      /\ tmp'  = IF add[a].at = "tmp"  THEN [tmp EXCEPT ![r] = "whole"] ELSE tmp
      /\ file' = IF add[a].at = "file" THEN [file EXCEPT ![r] = "whole"] ELSE file
      /\ UNCHANGED <<spoilt, page, peerVars>>

(* The disk is full: the error is not looked at. *)
WriteFails(a) ==
  /\ add[a].pc = "write"
  /\ Goto(a, "rename")
  /\ spoilt' = spoilt \cup {add[a].blob}
  /\ UNCHANGED <<tmp, file, page, peerVars>>

(* Mutant of Rename: a file that is there is removed first. *)
Rename_Replaces(a) ==
  LET r == add[a].blob
  IN  /\ add[a].pc = "rename"
      /\ IF Has(r)
         THEN Goto(a, "rename") /\ file' = [file EXCEPT ![r] = "none"] /\ UNCHANGED tmp
         ELSE Goto(a, "signal") /\ file' = [file EXCEPT ![r] = tmp[r]] /\ tmp' = [tmp EXCEPT ![r] = "none"]
      /\ UNCHANGED <<spoilt, page, peerVars>>

(* os.Rename; there is nothing to rename if another Add has done it. *)
MoveFile(a) ==
  LET r == add[a].blob
      moved == [tmp |-> "file", file |-> "gone", gone |-> "gone"]
  IN  IF tmp[r] = "none"
      THEN Goto(a, "signal") /\ UNCHANGED <<tmp, file>>
      ELSE /\ file' = [file EXCEPT ![r] = tmp[r]]
           /\ tmp' = [tmp EXCEPT ![r] = "none"]
           /\ add' = [b \in Adder |->
                IF b \in Adding(r)
                THEN [pc |-> IF b = a THEN "signal" ELSE add[b].pc, blob |-> r, at |-> moved[add[b].at]]
                ELSE add[b]]

(* Mutant of Rename: it does not wait for the data to be written. *)
Rename_Early(a) ==
  /\ add[a].pc \in {"write", "rename"}
  /\ MoveFile(a)
  /\ UNCHANGED <<spoilt, page, peerVars>>

Rename(a) ==
  /\ add[a].pc = "rename"
  /\ MoveFile(a)
  /\ UNCHANGED <<spoilt, page, peerVars>>

(* Mutant of Broadcast: it is left out. *)
Broadcast_Silent(a) ==
  /\ add[a].pc = "signal"
  /\ add' = [add EXCEPT ![a] = Idle(@.blob)]
  /\ UNCHANGED <<tmp, file, spoilt, page, peerVars>>

(* bs.wait.Broadcast wakes those who are in Wait by now. *)
Broadcast(a) ==
  /\ add[a].pc = "signal"
  /\ add' = [add EXCEPT ![a] = Idle(@.blob)]
  /\ page' = [w \in Page |-> IF page[w].pc = "waiting" THEN [pc |-> "lock", blob |-> page[w].blob] ELSE page[w]]
  /\ UNCHANGED <<tmp, file, spoilt, peerVars>>

Add(a) == Write(a) \/ Rename(a) \/ Broadcast(a)

-----------------------------------------------------------------------------
(* The page of a blob: WaitFor, then Get. *)

PageGoto(w, pc) == page' = [page EXCEPT ![w] = [pc |-> pc, blob |-> @.blob]]

(* Both the page and WaitFor look before they take the lock. *)
Visit(w, r) ==
  /\ page[w].pc = "off"
  /\ page' = [page EXCEPT ![w] = [pc |-> IF Has(r) THEN "get" ELSE "lock", blob |-> r]]
  /\ UNCHANGED <<fileVars, peerVars>>

(* With the lock, which one that is about to wait still holds: look again. *)
Look(w) ==
  /\ page[w].pc = "lock"
  /\ \A v \in Page : page[v].pc # "enlist"
  /\ PageGoto(w, IF Has(page[w].blob) THEN "get" ELSE "enlist")
  /\ UNCHANGED <<fileVars, peerVars>>

(* Wait: from here on a Broadcast is noticed, and the lock is given back. *)
Enlist(w) ==
  /\ page[w].pc = "enlist"
  /\ PageGoto(w, "waiting")
  /\ UNCHANGED <<fileVars, peerVars>>

(* Get, and what it returns is copied to the client. *)
Show(w) ==
  /\ page[w].pc = "get"
  /\ PageGoto(w, "off")
  /\ UNCHANGED <<fileVars, peerVars>>

-----------------------------------------------------------------------------
(* Peers. *)

(* blobs.has; blobs.get sends the file, or says that it does not exist. *)
PeerHas(c, r) ==
  /\ up[c]
  /\ Has(r)
  /\ told' = told \cup {<<c, r>>}
  /\ UNCHANGED <<fileVars, page, up, hook, teller, wants, answers>>

(* onConnect["blob"]: a channel for the connection, and the peer's wants    *)
(* are asked for.                                                          *)
Hook(c) ==
  /\ up[c]
  /\ ~hook[c]
  /\ hook' = [hook EXCEPT ![c] = TRUE]
  /\ UNCHANGED <<fileVars, page, up, teller, wants, answers, told>>

(* The peer sends a want, its hop count below zero, or an offer.  Bound: it *)
(* sends the next when this one has been handled.                          *)
PeerWants(c, r, hops) ==
  /\ up[c]
  /\ hook[c]
  /\ wants[c] = <<>>
  /\ wants' = [wants EXCEPT ![c] = <<[blob |-> r, hops |-> hops]>>]
  /\ UNCHANGED <<fileVars, page, up, hook, teller, answers, told>>

(* Mutant of HandleWant: a full channel is not waited for. *)
HandleWant_Drops(c) ==
  /\ wants[c] # <<>>
  /\ wants' = [wants EXCEPT ![c] = Tail(@)]
  /\ answers' = IF Len(answers[c]) < WantCap
                THEN [answers EXCEPT ![c] = Append(@, Head(wants[c]).blob)] ELSE answers
  /\ UNCHANGED <<fileVars, page, up, hook, teller, told>>

(* Mutant of HandleWant: the channel is a list without a bound. *)
HandleWant_Unbounded(c) ==
  /\ wants[c] # <<>>
  /\ wants' = [wants EXCEPT ![c] = Tail(@)]
  /\ answers' = [answers EXCEPT ![c] = Append(@, Head(wants[c]).blob)]
  /\ UNCHANGED <<fileVars, page, up, hook, teller, told>>

(* The callback: what is not here now is not looked at again later. *)
HandleWant(c) ==
  LET want == Head(wants[c])
  IN  /\ wants[c] # <<>>
      /\ wants' = [wants EXCEPT ![c] = Tail(@)]
      /\ IF Has(want.blob) /\ want.hops < 0
         THEN /\ Len(answers[c]) < WantCap
              /\ answers' = [answers EXCEPT ![c] = Append(@, want.blob)]
         ELSE UNCHANGED answers
      /\ UNCHANGED <<fileVars, page, up, hook, teller, told>>

(* Handler createWants: before the hook has run there is no channel, and a  *)
(* range over nil never ends.                                              *)
CreateWants(c) ==
  /\ up[c]
  /\ teller[c] = "off"
  /\ teller' = [teller EXCEPT ![c] = IF hook[c] THEN "on" ELSE "deaf"]
  /\ UNCHANGED <<fileVars, page, up, hook, wants, answers, told>>

(* The send of an answer fails unnoticed once the connection has ended. *)
Tell(c) ==
  /\ teller[c] = "on"
  /\ answers[c] # <<>>
  /\ answers' = [answers EXCEPT ![c] = Tail(@)]
  /\ told' = IF up[c] THEN told \cup {<<c, Head(answers[c])>>} ELSE told
  /\ UNCHANGED <<fileVars, page, up, hook, teller, wants>>

Disconnect(c) ==
  /\ up[c]
  /\ up' = [up EXCEPT ![c] = FALSE]
  /\ wants' = [wants EXCEPT ![c] = <<>>]
  /\ UNCHANGED <<fileVars, page, hook, teller, answers, told>>

(* The process ends, with all of its connections; the files stay. *)
Crash ==
  /\ spoilt' = spoilt \cup {r \in Blob : \E a \in Adding(r) : add[a].pc = "write" /\ add[a].at = "file"}
  /\ add' = [a \in Adder |-> Idle(add[a].blob)]
  /\ page' = [w \in Page |-> [pc |-> "off", blob |-> page[w].blob]]
  /\ up' = [c \in Conn |-> FALSE]
  /\ wants' = [c \in Conn |-> <<>>]
  /\ answers' = [c \in Conn |-> <<>>]
  /\ teller' = [c \in Conn |-> "off"]
  /\ UNCHANGED <<tmp, file, hook, told>>

-----------------------------------------------------------------------------
AddSteps(a) == (\E r \in Blob : Open(a, r) \/ OpenFails(a, r)) \/ Add(a) \/ WriteFails(a)

PageSteps ==
  \E w \in Page : (\E r \in Blob : Visit(w, r)) \/ Look(w) \/ Enlist(w) \/ Show(w)

PeerSteps ==
  \E c \in Conn :
    \/ \E r \in Blob : PeerHas(c, r) \/ \E hops \in {-1, 1} : PeerWants(c, r, hops)
    \/ Hook(c) \/ HandleWant(c) \/ CreateWants(c) \/ Tell(c) \/ Disconnect(c)

Next == (\E a \in Adder : AddSteps(a)) \/ PageSteps \/ PeerSteps \/ Crash

Spec == Init /\ [][Next]_vars

(* Fairness: goroutines go on; one that waits for the lock gets it in turn. *)
Fairness ==
  /\ \A a \in Adder : WF_vars(Add(a))
  /\ \A w \in Page : SF_vars(Look(w)) /\ WF_vars(Enlist(w) \/ Show(w))
  /\ \A c \in Conn : WF_vars(HandleWant(c)) /\ WF_vars(Tell(c))

FairSpec == Spec /\ Fairness

-----------------------------------------------------------------------------
State     == {"none", "empty", "whole"}
AddState  == [pc : {"idle", "write", "rename", "signal"}, blob : Blob, at : {"tmp", "file", "gone"}]
PageState == [pc : {"off", "lock", "enlist", "waiting", "get"}, blob : Blob]
Offer     == [blob : Blob, hops : {-1, 1}]

TypeOK ==
  /\ tmp \in [Blob -> State]
  /\ file \in [Blob -> State]
  /\ add \in [Adder -> AddState]
  /\ page \in [Page -> PageState]
  /\ up \in [Conn -> BOOLEAN]
  /\ hook \in [Conn -> BOOLEAN]
  /\ teller \in [Conn -> {"off", "on", "deaf"}]
  /\ wants \in [Conn -> Seq(Offer)]
  /\ answers \in [Conn -> Seq(Blob)]
  /\ \A c \in Conn : Len(answers[c]) <= WantCap
  /\ told \subseteq Conn \X Blob
  /\ spoilt \subseteq Blob

(***************************************************************************)
(* A stored blob is whole, wherever the process ends, except while an Add  *)
(* still writes to a file that a racing Add has renamed under it, after an *)
(* error of the file system, and where the process ended in that gap       *)
(* (blobs.go:68-76).                                                       *)
(***************************************************************************)
StoredIsWhole ==
  \A r \in Blob : file[r] = "empty" =>
    r \in spoilt \/ \E a \in Adding(r) : add[a].pc = "write" /\ add[a].at = "file"

(***************************************************************************)
(* Who has been told that a blob is here can have it: the page that WaitFor*)
(* has let through, which does not test what Get returns (webui.go:831-834)*)
(* and a peer that was told so by blobs.has or createWants, while the blob *)
(* is added again or the process restarts (blobs.go:108-127, 190-231).     *)
(***************************************************************************)
PromisesKept ==
  /\ \A w \in Page : page[w].pc = "get" => Has(page[w].blob)
  /\ \A c \in Conn, r \in Blob : <<c, r>> \in told => Has(r)

(***************************************************************************)
(* Liveness: as long as blobs keep being added, a page whose blob is       *)
(* stored does not wait for ever, although a Broadcast may come between    *)
(* its look at the file and its Wait (blobs.go:77, 108-117).               *)
(***************************************************************************)
WaitersHear ==
  ([]<>\E a \in Adder : add[a].pc = "signal") =>
    \A w \in Page : (page[w].pc = "waiting" /\ Has(page[w].blob)) ~> page[w].pc \in {"get", "off"}

(***************************************************************************)
(* Liveness: a peer that has asked for the answers after the hook had run  *)
(* is told of every blob that is here when it sends its want, however many *)
(* answers are waiting, unless the connection ends (blobs.go:278-321).     *)
(***************************************************************************)
WantsAreAnswered ==
  \A c \in Conn, r \in Blob :
    (/\ teller[c] = "on" /\ up[c] /\ wants[c] # <<>>
     /\ Head(wants[c]).blob = r /\ Head(wants[c]).hops < 0 /\ Has(r))
      ~> (<<c, r>> \in told \/ ~up[c])
=============================================================================
