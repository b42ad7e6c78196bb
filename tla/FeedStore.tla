----------------------------- MODULE FeedStore ------------------------------
(***************************************************************************)
(* The datastore of feeds.go: how a message that is handed to a feed       *)
(* reaches the bolt database and the topic of the feed.                    *)
(*                                                                         *)
(* A feed that GetFeed has opened owns two goroutines.  The drainer moves  *)
(* messages from addChan to the map waiting and signals the processor.     *)
(* The processor takes the waiting messages that follow latestSeq, one     *)
(* after the other, verifies and stores them in one bolt transaction, and  *)
(* once it has committed sends them to the topic of the feed.              *)
(*                                                                         *)
(* Bolt admits one read-write transaction at a time, for all feeds.  The   *)
(* mutexes waitingLock and SeqLock are held by the processor of the feed   *)
(* from LockFeed until its transaction function returns: these are the     *)
(* states in which proc[f] = "loop".  Everywhere else they are taken and   *)
(* given back within one action.                                           *)
(***************************************************************************)
EXTENDS Messages, Sequences

CONSTANTS Module,      \* the names under which AddMessageHooks are registered
          AddChanCap,  \* capacity of Feed.addChan (10 in the code)
          SendCap      \* capacity of MessageTopic.Send (10 in the code)

ASSUME CapacityAssumption == AddChanCap \in Nat \ {0} /\ SendCap \in Nat \ {0}

(* An entry of the "pointer" bucket, which is not what a missing one gives. *)
Pointer == [sequence : Nat, logKey : Nat, author : Feed]

ASSUME PointerAssumption == Nil \notin Pointer

VARIABLES
  db,         \* the committed state of the bolt file
  tx,         \* what the open read-write transaction sees; db when there is none
  writer,     \* the feed whose processor is in db.Update, or Nil
  addChan,    \* addChan[f]: the channel AddMessage sends on
  drain,      \* drain[f]: where the drainer is, and the message it holds
  waiting,    \* waiting[f]: the map Feed.waiting, as the set of its messages
  latestSeq,  \* latestSeq[f]: Feed.LatestSeq
  proc,       \* proc[f]: where processMessageQueue is; "off" if f is not open
  newMsgs,    \* newMsgs[f]: the messages stored by the current transaction
  sendChan,   \* sendChan[f]: the channel f.Topic.Send
  heard,      \* heard[f]: what the topic of f has received since f was opened
  base        \* base[f]: latestSeq[f] when f was opened (history variable)

feedVars == <<addChan, drain, waiting, latestSeq, proc, newMsgs, sendChan, heard, base>>
vars == <<db, tx, writer, feedVars>>

-----------------------------------------------------------------------------
(***************************************************************************)
(* The bolt file: the log bucket of each feed, the global "log" bucket     *)
(* (keys in the order in which they were stored), the "pointer" bucket,    *)
(* and for each indexing module the messages its hook was run on since the *)
(* index was last cleared, of which the index is a function: Nil stands    *)
(* for a message on which the hook failed and was not heeded.  order is a  *)
(* history of the messages themselves in the order in which they were      *)
(* stored; the code keeps their keys only.                                 *)
(***************************************************************************)
EmptyDB == [log     |-> [f \in Feed |-> {}],
            global  |-> <<>>,
            order   |-> <<>>,
            pointer |-> [k \in Key |-> Nil],
            index   |-> [mod \in Module |-> <<>>]]

(* DataStore.Get and GetMsg: through the pointer into the log of a feed. *)
Get(d, k) ==
  LET p == d.pointer[k]
  IN  IF p = Nil THEN Nil ELSE GetSeq(d.log[p.author], p.sequence)

(* Feed.addMessage: log, global log and pointer, then every hook. *)
AddToDB(d, f, m) ==
  LET logKey == Len(d.global) + 1
  IN  [log     |-> [d.log EXCEPT ![f] = PutSeq(@, m)],
       global  |-> Append(d.global, m.id),
       order   |-> Append(d.order, m),
       pointer |-> [d.pointer EXCEPT ![m.id] =
                      [sequence |-> m.sequence, logKey |-> logKey, author |-> m.author]],
       index   |-> [mod \in Module |-> Append(d.index[mod], m)]]

(* What a rebuild runs the hooks on: ds.Get of each key of the global log.  *)
Replayed(d) == [i \in DOMAIN d.global |-> Get(d, d.global[i])]

(* The elements of a sequence. *)
Items(s) == {s[i] : i \in DOMAIN s}

IsOpen(f) == proc[f] # "off"

-----------------------------------------------------------------------------
Init ==
  /\ db = EmptyDB
  /\ tx = EmptyDB
  /\ writer = Nil
  /\ addChan   = [f \in Feed |-> <<>>]
  /\ drain     = [f \in Feed |-> [pc |-> "recv", msg |-> Nil]]
  /\ waiting   = [f \in Feed |-> {}]
  /\ latestSeq = [f \in Feed |-> 0]
  /\ proc      = [f \in Feed |-> "off"]
  /\ newMsgs   = [f \in Feed |-> <<>>]
  /\ sendChan  = [f \in Feed |-> <<>>]
  /\ heard     = [f \in Feed |-> <<>>]
  /\ base      = [f \in Feed |-> 0]

(* Mutant of GetFeed: LatestSeq is not read back from the database. *)
GetFeed_FromZero(f) ==
  /\ ~IsOpen(f)
  /\ proc' = [proc EXCEPT ![f] = "start"]
  /\ UNCHANGED <<db, tx, writer, addChan, drain, waiting, latestSeq, newMsgs, sendChan, heard, base>>

(***************************************************************************)
(* DataStore.GetFeed, the first time it is called for f: the goroutines    *)
(* start and LatestSeq is read back from the database.  The processor has  *)
(* been started but need not have reached its Wait.                        *)
(***************************************************************************)
GetFeed(f) ==
  /\ ~IsOpen(f)
  /\ proc' = [proc EXCEPT ![f] = "start"]
  /\ latestSeq' = [latestSeq EXCEPT ![f] = LatestSequence(db.log[f])]
  /\ base' = [base EXCEPT ![f] = LatestSequence(db.log[f])]
  /\ UNCHANGED <<db, tx, writer, addChan, drain, waiting, newMsgs, sendChan, heard>>

(* Mutant of AddMessage: the channel never blocks its sender. *)
AddMessage_NeverBlocks(f, m) ==
  /\ IsOpen(f)
  /\ addChan' = [addChan EXCEPT ![f] = Append(@, m)]
  /\ UNCHANGED <<db, tx, writer, drain, waiting, latestSeq, proc, newMsgs, sendChan, heard, base>>

(* Feed.AddMessage: a peer's reply or a publisher; blocks on a full addChan. *)
AddMessage(f, m) ==
  /\ IsOpen(f)
  /\ Len(addChan[f]) < AddChanCap
  /\ addChan' = [addChan EXCEPT ![f] = Append(@, m)]
  /\ UNCHANGED <<db, tx, writer, drain, waiting, latestSeq, proc, newMsgs, sendChan, heard, base>>

-----------------------------------------------------------------------------
(* The drainer goroutine of GetFeed: receive, put, signal. *)
DrainRecv(f) ==
  /\ drain[f].pc = "recv"
  /\ addChan[f] # <<>>
  /\ addChan' = [addChan EXCEPT ![f] = Tail(@)]
  /\ drain' = [drain EXCEPT ![f] = [pc |-> "put", msg |-> Head(addChan[f])]]
  /\ UNCHANGED <<db, tx, writer, waiting, latestSeq, proc, newMsgs, sendChan, heard, base>>

(* Mutant of DrainPut: m.Sequence > LatestSeq is not tested. *)
DrainPut_Untested(f) ==
  /\ drain[f].pc = "put"
  /\ proc[f] # "loop"
  /\ waiting' = [waiting EXCEPT ![f] = PutSeq(@, drain[f].msg)]
  /\ drain' = [drain EXCEPT ![f] = [pc |-> "signal", msg |-> Nil]]
  /\ UNCHANGED <<db, tx, writer, addChan, latestSeq, proc, newMsgs, sendChan, heard, base>>

(* Needs waitingLock and SeqLock, which the processor holds in its loop. *)
DrainPut(f) ==
  LET m == drain[f].msg
  IN  /\ drain[f].pc = "put"
      /\ proc[f] # "loop"
      /\ waiting' = IF m.sequence > latestSeq[f]
                    THEN [waiting EXCEPT ![f] = PutSeq(@, m)]
                    ELSE waiting
      /\ drain' = [drain EXCEPT ![f] = [pc |-> "signal", msg |-> Nil]]
      /\ UNCHANGED <<db, tx, writer, addChan, latestSeq, proc, newMsgs, sendChan, heard, base>>

(* Mutant of DrainSignal: the Broadcast is left out. *)
DrainSignal_Silent(f) ==
  /\ drain[f].pc = "signal"
  /\ drain' = [drain EXCEPT ![f] = [pc |-> "recv", msg |-> Nil]]
  /\ UNCHANGED <<db, tx, writer, addChan, waiting, latestSeq, proc, newMsgs, sendChan, heard, base>>

(* waitingSignal.Broadcast: nothing remembers it if nobody is in Wait. *)
DrainSignal(f) ==
  /\ drain[f].pc = "signal"
  /\ proc' = IF proc[f] = "wait" THEN [proc EXCEPT ![f] = "ready"] ELSE proc
  /\ drain' = [drain EXCEPT ![f] = [pc |-> "recv", msg |-> Nil]]
  /\ UNCHANGED <<db, tx, writer, addChan, waiting, latestSeq, newMsgs, sendChan, heard, base>>

-----------------------------------------------------------------------------
(* processMessageQueue, one action for each of its steps. *)

Goto(f, pc) == proc' = [proc EXCEPT ![f] = pc]

(* waitingSignal.Wait: from here on a Broadcast is noticed. *)
Wait(f) ==
  /\ proc[f] = "start"
  /\ Goto(f, "wait")
  /\ UNCHANGED <<db, tx, writer, addChan, drain, waiting, latestSeq, newMsgs, sendChan, heard, base>>

(* db.Update gets bolt's write lock. *)
BeginUpdate(f) ==
  /\ proc[f] = "ready"
  /\ writer = Nil
  /\ writer' = f
  /\ newMsgs' = [newMsgs EXCEPT ![f] = <<>>]
  /\ Goto(f, "update")
  /\ UNCHANGED <<db, tx, addChan, drain, waiting, latestSeq, sendChan, heard, base>>

(* The transaction function locks waitingLock, then SeqLock. *)
LockFeed(f) ==
  /\ proc[f] = "update"
  /\ Goto(f, "loop")
  /\ UNCHANGED <<db, tx, writer, addChan, drain, waiting, latestSeq, newMsgs, sendChan, heard, base>>

(* m is the message the loop takes out of waiting next. *)
Takes(f, m) ==
  /\ proc[f] = "loop"
  /\ m \in waiting[f]
  /\ m.sequence = latestSeq[f] + 1
  /\ waiting' = [waiting EXCEPT ![f] = @ \ {m}]

(* Mutant of Skippable: the look-up of the key is left out. *)
Skippable_Unseen(f, m) == m.author # f

(* The look-up of a stored message reads the committed state, not tx. *)
Skippable(f, m) == m.author # f \/ Get(db, m.id) # Nil

(* The two continue statements. *)
SkipMessage(f, m) ==
  /\ Takes(f, m)
  /\ Skippable(f, m)
  /\ UNCHANGED <<db, tx, writer, addChan, drain, latestSeq, proc, newMsgs, sendChan, heard, base>>

(* Verify fails: the function returns an error, the deferred unlocks run. *)
RejectMessage(f, m) ==
  /\ Takes(f, m)
  /\ ~Skippable(f, m)
  /\ ~Verify(tx.log[f], m)
  /\ Goto(f, "abort")
  /\ UNCHANGED <<db, tx, writer, addChan, drain, latestSeq, newMsgs, sendChan, heard, base>>

StoreMessage(f, m) ==
  /\ Takes(f, m)
  /\ ~Skippable(f, m)
  /\ Verify(tx.log[f], m)
  /\ tx' = AddToDB(tx, f, m)
  /\ latestSeq' = [latestSeq EXCEPT ![f] = m.sequence]
  /\ newMsgs' = [newMsgs EXCEPT ![f] = Append(@, m)]
  /\ UNCHANGED <<db, writer, addChan, drain, proc, sendChan, heard, base>>

(* A bolt call or a hook of addMessage fails. *)
StoreFails(f, m) ==
  /\ Takes(f, m)
  /\ ~Skippable(f, m)
  /\ Verify(tx.log[f], m)
  /\ Goto(f, "abort")
  /\ UNCHANGED <<db, tx, writer, addChan, drain, latestSeq, newMsgs, sendChan, heard, base>>

(* Nothing follows latestSeq: the function returns nil and unlocks. *)
EndOfRun(f) ==
  /\ proc[f] = "loop"
  /\ \A m \in waiting[f] : m.sequence # latestSeq[f] + 1
  /\ Goto(f, "commit")
  /\ UNCHANGED <<db, tx, writer, addChan, drain, waiting, latestSeq, newMsgs, sendChan, heard, base>>

(* db.Update commits and gives the write lock back. *)
Commit(f) ==
  /\ proc[f] = "commit"
  /\ db' = tx
  /\ writer' = Nil
  /\ Goto(f, "send")
  /\ UNCHANGED <<tx, addChan, drain, waiting, latestSeq, newMsgs, sendChan, heard, base>>

(* Mutant of Rollback: the error of db.Update is not looked at. *)
Rollback_Announces(f) ==
  /\ tx' = db
  /\ writer' = Nil
  /\ Goto(f, "send")
  /\ UNCHANGED <<db, addChan, drain, waiting, latestSeq, newMsgs, sendChan, heard, base>>

(* db.Update rolls back.  LatestSeq is left as the loop has set it. *)
Rollback(f) ==
  /\ tx' = db
  /\ writer' = Nil
  /\ newMsgs' = [newMsgs EXCEPT ![f] = <<>>]
  /\ Goto(f, "start")
  /\ UNCHANGED <<db, addChan, drain, waiting, latestSeq, sendChan, heard, base>>

Abort(f) == proc[f] = "abort" /\ Rollback(f)

(* The commit itself fails (an I/O error of the bolt file). *)
CommitFails(f) == proc[f] = "commit" /\ Rollback(f)

(* Mutant of Send: the range does not move on. *)
Send_Repeats(f) ==
  /\ proc[f] = "send"
  /\ newMsgs[f] # <<>>
  /\ Len(sendChan[f]) < SendCap
  /\ sendChan' = [sendChan EXCEPT ![f] = Append(@, Head(newMsgs[f]))]
  /\ UNCHANGED <<db, tx, writer, addChan, drain, waiting, latestSeq, proc, newMsgs, heard, base>>

(* f.Topic.Send <- m, for each new message; blocks on a full channel. *)
Send(f) ==
  /\ proc[f] = "send"
  /\ newMsgs[f] # <<>>
  /\ Len(sendChan[f]) < SendCap
  /\ sendChan' = [sendChan EXCEPT ![f] = Append(@, Head(newMsgs[f]))]
  /\ newMsgs' = [newMsgs EXCEPT ![f] = Tail(@)]
  /\ UNCHANGED <<db, tx, writer, addChan, drain, waiting, latestSeq, proc, heard, base>>

Sent(f) ==
  /\ proc[f] = "send"
  /\ newMsgs[f] = <<>>
  /\ Goto(f, "start")
  /\ UNCHANGED <<db, tx, writer, addChan, drain, waiting, latestSeq, newMsgs, sendChan, heard, base>>

-----------------------------------------------------------------------------
(* The goroutine of the topic takes the next message from Send. *)
TopicReceive(f) ==
  /\ sendChan[f] # <<>>
  /\ heard' = [heard EXCEPT ![f] = Append(@, Head(sendChan[f]))]
  /\ sendChan' = [sendChan EXCEPT ![f] = Tail(@)]
  /\ UNCHANGED <<db, tx, writer, addChan, drain, waiting, latestSeq, proc, newMsgs, base>>

(* The indexes of mods become what index gives, in an Update of their own. *)
Reindex(mods, index) ==
  /\ writer = Nil
  /\ db' = [db EXCEPT !.index = [mod \in Module |->
                 IF mod \in mods THEN index ELSE db.index[mod]]]
  /\ tx' = db'
  /\ UNCHANGED <<writer, feedVars>>

(* RebuildAll: every index is cleared and filled from the global log.  The  *)
(* first hook that fails has all of it rolled back: nothing has changed.   *)
RebuildAll == Reindex(Module, Replayed(db))

(* Mutant of Rebuild: the index is not cleared first. *)
Rebuild_Uncleared(mod, failed) ==
  Reindex({mod}, db.index[mod] \o
                   [i \in DOMAIN db.global |-> IF i \in failed THEN Nil ELSE Replayed(db)[i]])

(***************************************************************************)
(* Rebuild of one module: the error of its hook is dropped and the rebuild *)
(* goes on, so that an index is committed in which the messages at failed  *)
(* are missing.                                                            *)
(***************************************************************************)
Rebuild(mod, failed) ==
  Reindex({mod}, [i \in DOMAIN db.global |-> IF i \in failed THEN Nil ELSE Replayed(db)[i]])

(* The process dies and starts again: the bolt file is all that is left. *)
Crash ==
  /\ \E f \in Feed : IsOpen(f)
  /\ tx' = db
  /\ writer' = Nil
  /\ addChan'   = [f \in Feed |-> <<>>]
  /\ drain'     = [f \in Feed |-> [pc |-> "recv", msg |-> Nil]]
  /\ waiting'   = [f \in Feed |-> {}]
  /\ latestSeq' = [f \in Feed |-> 0]
  /\ proc'      = [f \in Feed |-> "off"]
  /\ newMsgs'   = [f \in Feed |-> <<>>]
  /\ sendChan'  = [f \in Feed |-> <<>>]
  /\ heard'     = [f \in Feed |-> <<>>]
  /\ base'      = [f \in Feed |-> 0]
  /\ UNCHANGED db

-----------------------------------------------------------------------------
Drain(f) == DrainRecv(f) \/ DrainPut(f) \/ DrainSignal(f)

ProcessMessageQueue(f) ==
  \/ Wait(f) \/ BeginUpdate(f) \/ LockFeed(f) \/ EndOfRun(f)
  \/ \E m \in Msg : SkipMessage(f, m) \/ RejectMessage(f, m) \/ StoreMessage(f, m)
  \/ Commit(f) \/ Abort(f) \/ Send(f) \/ Sent(f)

(* What the datastore does of its own when nothing fails. *)
Internal ==
  \E f \in Feed : GetFeed(f) \/ Drain(f) \/ ProcessMessageQueue(f) \/ TopicReceive(f)

(* Peers hand over whatever they like, to whichever feed; the operator may  *)
(* have one index or all of them rebuilt.                                  *)
Healthy ==
  \/ Internal
  \/ \E f \in Feed, m \in Msg : AddMessage(f, m)
  \/ \E mod \in Module : Rebuild(mod, {})
  \/ RebuildAll

Fault ==
  \/ \E f \in Feed : CommitFails(f) \/ \E m \in Msg : StoreFails(f, m)
  \/ \E mod \in Module : \E failed \in SUBSET DOMAIN db.global : Rebuild(mod, failed)
  \/ Crash

Next == Healthy \/ Fault

Spec == Init /\ [][Next]_vars

(* No disk error and no restart; messages may still fail to verify. *)
HealthySpec == Init /\ [][Healthy]_vars

-----------------------------------------------------------------------------
Database == [log     : [Feed -> SUBSET Msg],
             global  : Seq(Key),
             order   : Seq(Msg),
             pointer : [Key -> Pointer \cup {Nil}],
             index   : [Module -> Seq(Msg \cup {Nil})]]

ProcPC == {"off", "start", "wait", "ready", "update", "loop", "commit", "abort", "send"}

(* Every variable has its type, and no channel exceeds its capacity.  The  *)
(* hooks of a rebuild are handed what ds.Get returns, which may be nil.    *)
TypeOK ==
  /\ db \in Database
  /\ tx \in Database
  /\ writer \in Feed \cup {Nil}
  /\ addChan \in [Feed -> Seq(Msg)]
  /\ drain \in [Feed -> [pc : {"recv", "put", "signal"}, msg : Msg \cup {Nil}]]
  /\ \A f \in Feed : drain[f].pc = "put" => drain[f].msg \in Msg
  /\ waiting \in [Feed -> SUBSET Msg]
  /\ latestSeq \in [Feed -> Nat]
  /\ proc \in [Feed -> ProcPC]
  /\ newMsgs \in [Feed -> Seq(Msg)]
  /\ sendChan \in [Feed -> Seq(Msg)]
  /\ heard \in [Feed -> Seq(Msg)]
  /\ base \in [Feed -> Nat]
  /\ \A f \in Feed : Len(addChan[f]) <= AddChanCap /\ Len(sendChan[f]) <= SendCap

-----------------------------------------------------------------------------
(* Safety. *)

(***************************************************************************)
(* The stored log of a feed is the chain that Verify is to admit: signed   *)
(* messages of its author, one for each sequence number, each linked to    *)
(* the one before it, whatever peers send, in whatever order, and whatever *)
(* transactions fail in between (feeds.go:304-333, message.go:41-80).      *)
(***************************************************************************)
FeedLogChained ==
  \A f \in Feed :
    /\ OnePerSequence(db.log[f])
    /\ \A m \in db.log[f] : m.author = f /\ m.signed /\ Linked(db.log[f], m)

(***************************************************************************)
(* What the stale look-up of feeds.go:314 still guarantees.  Messages with *)
(* one key can only be stored in one run of one feed, by the transaction   *)
(* that does not see its own first one: afterwards the look-up skips them. *)
(***************************************************************************)
KeysRepeatInOneRun(order) ==
  \A i, j \in DOMAIN order :
    i < j /\ order[i].id = order[j].id =>
      /\ order[i].id = ZeroRef
      /\ \A n \in i .. j : order[n].author = order[i].author

(***************************************************************************)
(* Each entry of the global log is the key of the message stored then and  *)
(* leads through its pointer to the last message stored under that key:    *)
(* to the message itself, unless it is one of a run with a zero key.  The  *)
(* log of a feed is what the global log says was stored of it.  RebuildAll,*)
(* LatestCountFiltered and Search dereference the result of ds.Get without *)
(* a nil test (feeds.go:314, 369-386, 417, 477).                           *)
(***************************************************************************)
GlobalLogResolves ==
  /\ Len(db.global) = Len(db.order)
  /\ KeysRepeatInOneRun(db.order)
  /\ \A i \in DOMAIN db.order :
       LET k == db.order[i].id
           p == db.pointer[k]
       IN  /\ db.global[i] = k
           /\ p # Nil
           /\ p.logKey \in i .. Len(db.order)
           /\ db.order[p.logKey] = Get(db, k)
           /\ Get(db, k).id = k
           /\ \A j \in p.logKey + 1 .. Len(db.order) : db.order[j].id # k
  /\ \A f \in Feed : db.log[f] = {m \in Items(db.order) : m.author = f}

(***************************************************************************)
(* An index is what its hook makes of the stored messages in the order in  *)
(* which they were stored, each once: a rolled back message never stays    *)
(* indexed.  A rebuild changes this in two ways only.  Of a run of         *)
(* messages with a zero key the hook is handed the last one, each time;    *)
(* and a message is missing if its hook failed in the rebuild of a single  *)
(* module (feeds.go:387-392, 417, 449).                                    *)
(***************************************************************************)
IndexesMatchLog ==
  \A mod \in Module :
    /\ Len(db.index[mod]) = Len(db.order)
    /\ \A i \in DOMAIN db.order :
         \/ db.index[mod][i] = db.order[i]
         \/ db.index[mod][i] = Nil
         \/ /\ db.order[i].id = ZeroRef
            /\ db.index[mod][i] = Get(db, ZeroRef)

(* What the topic of f has been sent, and is about to be sent, in order. *)
Announced(f) ==
  heard[f] \o sendChan[f] \o (IF proc[f] = "send" THEN newMsgs[f] ELSE <<>>)

(***************************************************************************)
(* The topic of an open feed gets every message committed since the feed   *)
(* was opened, exactly once and in feed order, and none whose transaction  *)
(* has not committed (feeds.go:296, 332, 336-341).                         *)
(***************************************************************************)
AnnouncedOnceInOrder ==
  \A f \in Feed :
    LET a == Announced(f)
    IN  /\ \A i, j \in DOMAIN a : i < j => a[i].sequence < a[j].sequence
        /\ IsOpen(f) => Items(a) = {m \in db.log[f] : m.sequence > base[f]}

(***************************************************************************)
(* LatestSeq never falls behind what is stored, so a stored message is     *)
(* never taken up again, and waiting holds only messages that are still    *)
(* ahead of it, at most one for each number (feeds.go:193-195, 305-306).   *)
(***************************************************************************)
NeverBehindLog ==
  \A f \in Feed : IsOpen(f) =>
    /\ \A m \in tx.log[f] : m.sequence <= latestSeq[f]
    /\ \A m \in waiting[f] : m.sequence > latestSeq[f]
    /\ OnePerSequence(waiting[f])

(***************************************************************************)
(* Nothing that has been stored is ever replaced or removed, and the       *)
(* global log grows at its end, crashes included (feeds.go:360, 369-373).  *)
(***************************************************************************)
AppendOnly ==
  [][/\ \A f \in Feed : db.log[f] \subseteq db'.log[f]
     /\ Len(db.global) <= Len(db'.global)
     /\ \A i \in DOMAIN db.global : db'.global[i] = db.global[i]]_vars

(***************************************************************************)
(* The datastore implements the append-only logs of AppendOnlyLogs: what   *)
(* is committed, through any failure, is one of its behaviours.  How far a *)
(* reader of the global log sees this order is GlobalLogResolves.          *)
(***************************************************************************)
Logs == INSTANCE AppendOnlyLogs WITH order <- db.order

ImplementsLogs == Logs!Spec

(***************************************************************************)
(* A client that has stored a feed up to Latest() goes on with the message *)
(* after it (feed_test.go:57-61, gossip.go:174-177): outside a             *)
(* transaction, LatestSeq must be the number of the latest stored message. *)
(***************************************************************************)
LatestSeqIsDurable ==
  \A f \in Feed :
    proc[f] \in {"start", "wait", "ready"} => latestSeq[f] = LatestSequence(db.log[f])

=============================================================================
