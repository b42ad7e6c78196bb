---------------------------- MODULE MessageTopic ----------------------------
(***************************************************************************)
(* The topics of messagetopic.go.  A topic owns a channel Send and one     *)
(* goroutine, process, which takes each message from Send and hands it to  *)
(* the registered recipients while it holds the lock of the topic.  A      *)
(* strict recipient is waited for; another one whose channel is full is    *)
(* removed and its channel closed.                                         *)
(*                                                                         *)
(* process holds the lock exactly while it is in "send", the range over    *)
(* the recipients.  Register, Unregister and the final clean-up never      *)
(* block once they have the lock, so each is one action.                   *)
(*                                                                         *)
(* The owner of a topic sends each message once (FeedStore shows this of   *)
(* the topic of a feed), so Content bounds what is sent.                   *)
(***************************************************************************)
EXTENDS SequencesExt

CONSTANTS Topic,    \* the topics
          Chan,     \* the channels that recipients register
          Content,  \* what is sent
          Cap,      \* Cap[c]: the capacity of channel c (1 if Register made it)
          SendCap,  \* the capacity of Send (10 in the code)
          Nil

ASSUME TopicAssumption ==
  /\ Cap \in [Chan -> Nat \ {0}]
  /\ SendCap \in Nat \ {0}
  /\ Nil \notin Chan

VARIABLES
  send,      \* send[t]: the messages in the channel Send
  sendOpen,  \* sendOpen[t]: Send has not been closed
  process,   \* process[t]: where the goroutine is
  todo,      \* todo[t]: the recipients the range loop has not come to yet
  at,        \* at[t]: the recipient the loop is at, or Nil
  recps,     \* recps[t]: the map from channels to strict
  buf,       \* buf[c]: the messages in channel c
  closed,    \* the closed channels
  heard,     \* heard[t]: the messages taken from Send so far (history)
  since,     \* since[c]: how many of them had been handed out at c's Register
  got        \* got[c]: the messages received from c (history)

topicVars == <<send, sendOpen, process, todo, at, recps, heard>>
chanVars == <<buf, closed, since, got>>
tvars == <<topicVars, chanVars>>

Elements(s) == {s[i] : i \in DOMAIN s}

Locked(t) == process[t] = "send"
Current(t) == heard[t][Len(heard[t])]

(* delete(mt.recps, c) *)
Without(recp, c) == [d \in DOMAIN recp \ {c} |-> recp[d]]

(* How many messages the loop has finished with. *)
HandedOut(t) == IF process[t] \in {"lock", "send"} THEN Len(heard[t]) - 1 ELSE Len(heard[t])

-----------------------------------------------------------------------------
(* NewMessageTopic *)
Init ==
  /\ send     = [t \in Topic |-> <<>>]
  /\ sendOpen = [t \in Topic |-> TRUE]
  /\ process  = [t \in Topic |-> "range"]
  /\ todo     = [t \in Topic |-> {}]
  /\ at       = [t \in Topic |-> Nil]
  /\ recps    = [t \in Topic |-> <<>>]
  /\ heard    = [t \in Topic |-> <<>>]
  /\ buf      = [c \in Chan |-> <<>>]
  /\ closed   = {}
  /\ since    = [c \in Chan |-> 0]
  /\ got      = [c \in Chan |-> <<>>]

(* mt.Send <- m, by the owner of the topic; blocks on a full channel. *)
Publish(t, m) ==
  /\ sendOpen[t]
  /\ m \notin Elements(heard[t]) \cup Elements(send[t])
  /\ Len(send[t]) < SendCap
  /\ send' = [send EXCEPT ![t] = Append(@, m)]
  /\ UNCHANGED <<sendOpen, process, todo, at, recps, heard, chanVars>>

Close(t) ==
  /\ sendOpen[t]
  /\ sendOpen' = [sendOpen EXCEPT ![t] = FALSE]
  /\ UNCHANGED <<send, process, todo, at, recps, heard, chanVars>>

-----------------------------------------------------------------------------
(* The goroutine. *)

(* Mutant of Take: the message stays in the channel. *)
Take_Peeks(t) ==
  /\ process[t] = "range"
  /\ send[t] # <<>>
  /\ heard' = [heard EXCEPT ![t] = Append(@, Head(send[t]))]
  /\ process' = [process EXCEPT ![t] = "lock"]
  /\ UNCHANGED <<send, sendOpen, todo, at, recps, chanVars>>

(* for m := range mt.Send: the next message; it does not have the lock yet. *)
Take(t) ==
  /\ process[t] = "range"
  /\ send[t] # <<>>
  /\ send' = [send EXCEPT ![t] = Tail(@)]
  /\ heard' = [heard EXCEPT ![t] = Append(@, Head(send[t]))]
  /\ process' = [process EXCEPT ![t] = "lock"]
  /\ UNCHANGED <<sendOpen, todo, at, recps, chanVars>>

Lock(t) ==
  /\ process[t] = "lock"
  /\ process' = [process EXCEPT ![t] = "send"]
  /\ todo' = [todo EXCEPT ![t] = DOMAIN recps[t]]
  /\ UNCHANGED <<send, sendOpen, at, recps, heard, chanVars>>

(* The loop comes to its next recipient, in whatever order the map has. *)
NextRecp(t, c) ==
  /\ process[t] = "send"
  /\ at[t] = Nil
  /\ c \in todo[t]
  /\ at' = [at EXCEPT ![t] = c]
  /\ todo' = [todo EXCEPT ![t] = @ \ {c}]
  /\ UNCHANGED <<send, sendOpen, process, recps, heard, chanVars>>

(* Mutant of Deliver: room is not waited for. *)
Deliver_Unbounded(t) ==
  /\ at[t] # Nil
  /\ buf' = [buf EXCEPT ![at[t]] = Append(@, Current(t))]
  /\ at' = [at EXCEPT ![t] = Nil]
  /\ UNCHANGED <<send, sendOpen, process, todo, recps, heard, closed, since, got>>

(* recp <- m: for a strict recipient the loop waits until there is room. *)
Deliver(t) ==
  LET c == at[t]
  IN  /\ c # Nil
      /\ Len(buf[c]) < Cap[c]
      /\ buf' = [buf EXCEPT ![c] = Append(@, Current(t))]
      /\ at' = [at EXCEPT ![t] = Nil]
      /\ UNCHANGED <<send, sendOpen, process, todo, recps, heard, closed, since, got>>

(* Mutants of Evict: the message is dropped; the channel stays registered;  *)
(* the loop waits.                                                         *)
Evict_Drop(t) ==
  LET c == at[t]
  IN  /\ c # Nil
      /\ Len(buf[c]) >= Cap[c]
      /\ ~recps[t][c]
      /\ at' = [at EXCEPT ![t] = Nil]
      /\ UNCHANGED <<send, sendOpen, process, todo, recps, heard, chanVars>>

Evict_Registered(t) ==
  LET c == at[t]
  IN  /\ c # Nil
      /\ Len(buf[c]) >= Cap[c]
      /\ ~recps[t][c]
      /\ closed' = closed \cup {c}
      /\ at' = [at EXCEPT ![t] = Nil]
      /\ UNCHANGED <<send, sendOpen, process, todo, recps, heard, buf, since, got>>

Evict_Waits(t) ==
  /\ at[t] # Nil
  /\ Len(buf[at[t]]) >= Cap[at[t]]
  /\ ~recps[t][at[t]]
  /\ UNCHANGED tvars

(* The default case: a recipient that is not strict and has no room. *)
Evict(t) ==
  LET c == at[t]
  IN  /\ c # Nil
      /\ Len(buf[c]) >= Cap[c]
      /\ ~recps[t][c]
      /\ recps' = [recps EXCEPT ![t] = Without(@, c)]
      /\ closed' = closed \cup {c}
      /\ at' = [at EXCEPT ![t] = Nil]
      /\ UNCHANGED <<send, sendOpen, process, todo, heard, buf, since, got>>

Unlock(t) ==
  /\ process[t] = "send"
  /\ at[t] = Nil
  /\ todo[t] = {}
  /\ process' = [process EXCEPT ![t] = "range"]
  /\ UNCHANGED <<send, sendOpen, todo, at, recps, heard, chanVars>>

(* Send is closed and empty: every recipient is removed and closed. *)
Stop(t) ==
  /\ process[t] = "range"
  /\ ~sendOpen[t]
  /\ send[t] = <<>>
  /\ process' = [process EXCEPT ![t] = "done"]
  /\ closed' = closed \cup DOMAIN recps[t]
  /\ recps' = [recps EXCEPT ![t] = <<>>]
  /\ UNCHANGED <<send, sendOpen, todo, at, heard, buf, since, got>>

Process(t) ==
  \/ Take(t) \/ Lock(t) \/ Deliver(t) \/ Evict(t) \/ Unlock(t) \/ Stop(t)
  \/ \E c \in Chan : NextRecp(t, c)

-----------------------------------------------------------------------------
(* The clients. *)

Register(t, c, strict) ==
  /\ ~Locked(t)
  /\ recps' = [recps EXCEPT ![t] = [d \in DOMAIN @ \cup {c} |-> IF d = c THEN strict ELSE @[d]]]
  /\ since' = [since EXCEPT ![c] = HandedOut(t)]
  /\ UNCHANGED <<send, sendOpen, process, todo, at, heard, buf, closed, got>>

(* A recipient that has been evicted in the meantime is left alone. *)
Unregister(t, c) ==
  /\ ~Locked(t)
  /\ recps' = [recps EXCEPT ![t] = Without(@, c)]
  /\ closed' = IF c \in DOMAIN recps[t] THEN closed \cup {c} ELSE closed
  /\ UNCHANGED <<send, sendOpen, process, todo, at, heard, buf, since, got>>

(* <-c, with a message in the channel. *)
Receive(c) ==
  /\ buf[c] # <<>>
  /\ got' = [got EXCEPT ![c] = Append(@, Head(buf[c]))]
  /\ buf' = [buf EXCEPT ![c] = Tail(@)]
  /\ UNCHANGED <<topicVars, closed, since>>

(* A channel that has not been registered before. *)
Unused(c) == c \notin closed /\ \A t \in Topic : c \notin DOMAIN recps[t]

Client ==
  \/ \E c \in Chan : Receive(c)
  \/ \E t \in Topic : \/ \E m \in Content : Publish(t, m)
                      \/ Close(t)
                      \/ \E c \in Chan : \/ \E strict \in BOOLEAN : Unused(c) /\ Register(t, c, strict)
                                         \/ Unregister(t, c)

Next == Client \/ \E t \in Topic : Process(t)

Spec == Init /\ [][Next]_tvars

(* A strict recipient keeps receiving; another one need not. *)
StrictReceive(t, c) == c \in DOMAIN recps[t] /\ recps[t][c] /\ Receive(c)

FairSpec ==
  /\ Spec
  /\ \A t \in Topic : /\ WF_tvars(Process(t))
                      /\ \A c \in Chan : WF_tvars(StrictReceive(t, c))

-----------------------------------------------------------------------------
(* Every variable has its type, and no channel exceeds its capacity. *)
TypeOK ==
  /\ send \in [Topic -> Seq(Content)] /\ heard \in [Topic -> Seq(Content)]
  /\ sendOpen \in [Topic -> BOOLEAN]
  /\ process \in [Topic -> {"range", "lock", "send", "done"}]
  /\ todo \in [Topic -> SUBSET Chan]
  /\ at \in [Topic -> Chan \cup {Nil}]
  /\ \A t \in Topic : DOMAIN recps[t] \subseteq Chan /\ Len(send[t]) <= SendCap
  /\ buf \in [Chan -> Seq(Content)] /\ got \in [Chan -> Seq(Content)]
  /\ \A c \in Chan : Len(buf[c]) <= Cap[c]
  /\ closed \subseteq Chan
  /\ since \in [Chan -> Nat]

(***************************************************************************)
(* A registered channel is open, and the range loop only ever comes to     *)
(* registered channels: neither a send on a closed channel nor a second    *)
(* close of one, which would panic, can happen (messagetopic.go:26-36,     *)
(* 43-46, 63-66).                                                          *)
(***************************************************************************)
RegisteredIsOpen ==
  \A t \in Topic : /\ DOMAIN recps[t] \cap closed = {}
                  /\ todo[t] \cup ({at[t]} \ {Nil}) \subseteq DOMAIN recps[t]

(***************************************************************************)
(* Delivery has no gaps.  A registered recipient, strict or not, has been  *)
(* handed every message since its Register, in order; one that has been    *)
(* evicted or unregistered, a run of them that starts at its Register      *)
(* (messagetopic.go:22-41).                                                *)
(***************************************************************************)
GaplessDelivery ==
  \A c \in Chan :
    LET handed == got[c] \o buf[c]
        due(t) == IF process[t] = "lock" \/ c \in todo[t] \cup {at[t]}
                  THEN Len(heard[t]) - 1
                  ELSE Len(heard[t])
    IN  /\ \A t \in Topic : c \in DOMAIN recps[t] =>
              handed = SubSeq(heard[t], since[c] + 1, due(t))
        /\ c \in closed => \E t \in Topic :
              IsPrefix(handed, SubSeq(heard[t], since[c] + 1, Len(heard[t])))

(***************************************************************************)
(* As long as its strict recipients receive, a topic takes every message   *)
(* that was sent to it and gives its lock back, however slow the other     *)
(* recipients are (messagetopic.go:29-36).  Under FairSpec.                *)
(***************************************************************************)
NeverHeldUp ==
  \A t \in Topic : /\ []<>(process[t] \in {"range", "done"})
                  /\ []<>(send[t] = <<>>)
=============================================================================
