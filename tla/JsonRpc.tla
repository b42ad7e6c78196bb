------------------------------- MODULE JsonRpc -------------------------------
(***************************************************************************)
(* One connection of the JSON-RPC server (rpc.ServeConn): a reader that    *)
(* starts a goroutine for each request, and a writer that takes responses  *)
(* from an unbuffered channel and encodes them to the client.  Connections *)
(* share nothing but the table of methods, which does not change.          *)
(***************************************************************************)
EXTENDS Integers, Sequences, SequencesExt

CONSTANT MaxRequests  \* bound on the requests of the connection

ASSUME JsonRpcAssumption == MaxRequests \in Nat

Request == 1 .. MaxRequests

(* What there is to a request: whether it has an ID, what its method names, *)
(* whether its parameters decode, and how the call goes.  A "void" method   *)
(* returns nothing, an "error" method an error.                            *)
Kinds ==
  {k \in [id : BOOLEAN, method : {"unknown", "notfunc", "func"}, decodes : BOOLEAN,
          does : {"value", "error", "void", "panics", "hangs"}] :
     k.method # "func" => k.decodes /\ k.does = "value"}

VARIABLES
  kind,    \* the kinds of the requests that have been sent, in order
  read,    \* how many of them the reader has decoded
  open,    \* the connection can be written to
  reader,  \* "read", "send" (on resp, for request number read) or "gone"
  work,    \* work[q]: where the goroutine of q is; in "send" with what it
           \* answers and where it goes on
  writer,  \* the response that is being encoded, or none
  out,     \* what has been written and the client has not read
  got      \* got[q]: the responses to q that the client has read

vars == <<kind, read, open, reader, work, writer, out, got>>

At(pc) == [pc |-> pc, what |-> "none", then |-> "none"]

Init ==
  /\ kind = <<>>
  /\ read = 0
  /\ open = TRUE
  /\ reader = "read"
  /\ work = [q \in Request |-> At("off")]
  /\ writer = <<>>
  /\ out = <<>>
  /\ got = [q \in Request |-> <<>>]

-----------------------------------------------------------------------------
(* The reader. *)

(* Mutant of Dispatch: an unknown method is answered, and goes on.         *)
Dispatch_FallsThrough(q) ==
  /\ work' = [work EXCEPT ![q] = At("start")]
  /\ reader' = IF kind[q].method = "unknown" /\ kind[q].id THEN "send" ELSE "read"

(* The reader itself answers a request whose method is not known. *)
Dispatch(q) ==
  IF kind[q].method = "unknown"
  THEN reader' = (IF kind[q].id THEN "send" ELSE "read") /\ UNCHANGED work
  ELSE work' = [work EXCEPT ![q] = At("start")] /\ UNCHANGED reader

(* Mutant of Free: the method is called by the reader. *)
Free_Inline == reader = "read" /\ \A q \in Request : work[q].pc \in {"off", "done"}

Free == reader = "read"

Decode ==
  /\ Free
  /\ read < Len(kind)
  /\ read' = read + 1
  /\ Dispatch(read + 1)
  /\ UNCHANGED <<kind, open, writer, out, got>>

(* End of input, or something that is not a request: the connection is     *)
(* closed, with whatever calls are under way.                              *)
InputEnds ==
  /\ Free
  /\ read = Len(kind)
  /\ reader' = "gone"
  /\ open' = FALSE
  /\ UNCHANGED <<kind, read, work, writer, out, got>>

-----------------------------------------------------------------------------
(* The goroutine of a request. *)

Answer(q, what, then) ==
  work' = [work EXCEPT ![q] =
             IF kind[q].id THEN [pc |-> "send", what |-> what, then |-> then] ELSE At(then)]

(* Parameters that do not decode are answered, and the call is made. *)
Start(q) ==
  /\ work[q].pc = "start"
  /\ CASE kind[q].method # "func" -> Answer(q, "error", "done")
       [] kind[q].method = "func" /\ ~kind[q].decodes -> Answer(q, "error", "call")
       [] OTHER -> work' = [work EXCEPT ![q] = At("call")]
  /\ UNCHANGED <<kind, read, open, reader, writer, out, got>>

(* A panic is recovered; looking at the result of a method without one is  *)
(* a panic, too.                                                           *)
Call(q) ==
  /\ work[q].pc = "call"
  /\ kind[q].does # "hangs"
  /\ Answer(q, IF kind[q].does = "value" THEN "result" ELSE "error", "done")
  /\ UNCHANGED <<kind, read, open, reader, writer, out, got>>

Goroutine(q) == Start(q) \/ Call(q)

-----------------------------------------------------------------------------
(* The writer takes the response of whoever waits on resp. *)

TakeFromReader ==
  /\ writer = <<>>
  /\ reader = "send"
  /\ reader' = "read"
  /\ writer' = <<[id |-> read, what |-> "error"]>>
  /\ UNCHANGED <<kind, read, open, work, out, got>>

Take(q) ==
  /\ writer = <<>>
  /\ work[q].pc = "send"
  /\ work' = [work EXCEPT ![q] = At(@.then)]
  /\ writer' = <<[id |-> q, what |-> work[q].what]>>
  /\ UNCHANGED <<kind, read, open, reader, out, got>>

(* Encode waits for a client that does not read; what cannot be written is *)
(* dropped.  Bound: one response fits between the two.                     *)
Encode ==
  /\ writer # <<>>
  /\ open => out = <<>>
  /\ out' = IF open THEN writer ELSE out
  /\ writer' = <<>>
  /\ UNCHANGED <<kind, read, open, reader, work, got>>

-----------------------------------------------------------------------------
(* The client. *)

Send(k) ==
  /\ open
  /\ Len(kind) < MaxRequests
  /\ kind' = Append(kind, k)
  /\ UNCHANGED <<read, open, reader, work, writer, out, got>>

Receive ==
  /\ out # <<>>
  /\ out' = <<>>
  /\ got' = [got EXCEPT ![out[1].id] = Append(@, out[1].what)]
  /\ UNCHANGED <<kind, read, open, reader, work, writer>>

ClientCloses ==
  /\ open
  /\ open' = FALSE
  /\ UNCHANGED <<kind, read, reader, work, writer, out, got>>

-----------------------------------------------------------------------------
Next ==
  \/ Decode \/ InputEnds
  \/ \E q \in Request : Goroutine(q) \/ Take(q)
  \/ TakeFromReader \/ Encode
  \/ (\E k \in Kinds : Send(k)) \/ Receive \/ ClientCloses

Spec == Init /\ [][Next]_vars

(* Fairness: goroutines go on, each that waits on resp gets its turn, and  *)
(* the client reads what it is sent.                                       *)
Fairness ==
  /\ WF_vars(Decode) /\ SF_vars(TakeFromReader) /\ WF_vars(Encode) /\ WF_vars(Receive)
  /\ \A q \in Request : WF_vars(Goroutine(q)) /\ SF_vars(Take(q))

FairSpec == Spec /\ Fairness

-----------------------------------------------------------------------------
(***************************************************************************)
(* Whatever runs at the same time and whoever panics: a notification is    *)
(* never answered, and a request once, but for parameters that do not      *)
(* decode, where an error comes before what the call gives (rpc.go:78-84). *)
(***************************************************************************)
AnsweredOnce ==
  \A q \in Request : got[q] # <<>> =>
    /\ kind[q].id
    /\ Len(got[q]) = 2 => ~kind[q].decodes /\ got[q][1] = "error"
    /\ Len(got[q]) <= 2
    /\ Contains(got[q], "result") => kind[q].does = "value"

(***************************************************************************)
(* Liveness: on a connection that lasts, a request with an ID is answered  *)
(* whatever the other calls do: one that hangs holds up only itself, and a *)
(* full writer is not waited for for ever (rpc.go:28, 44, 55-104).         *)
(***************************************************************************)
EventuallyAnswered ==
  \A q \in Request :
    (q \in DOMAIN kind /\ kind[q].id /\ kind[q].does # "hangs") ~> (got[q] # <<>> \/ ~open)
=============================================================================
