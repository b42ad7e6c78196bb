# go-ssb in TLA+

Specifications of go-ssb, a Secure Scuttlebutt server in Go: TLA+ modules that
model its concurrent core, TLC configurations that check them on small
instances, and theorems about the datastore, the topics, the replication, the
indexes, the connections, the blobs and the JSON-RPC server, proved with TLAPS
for every value of the constants. Paths are relative to the repository.

## 1. The system

A server keeps signed, append-only *feeds* in one bolt file and exchanges them
with peers over muxrpc streams.

| component | state | operations | talks to |
|---|---|---|---|
| datastore, feeds (`feeds.go`) | bolt file: a `log` bucket for each feed, global `log`, `pointer`, indexes; in memory: open feeds, each with `addChan`, `waiting`, `LatestSeq` | `GetFeed`, `AddMessage`, `processMessageQueue`, `addMessage`, `Rebuild`, `RebuildAll`, `Get`, `Latest`, `GetSeq`, `LatestCount`, `LatestCountFiltered`, `Log` | topic of each feed, hooks of the indexes |
| messages (`message.go`, `messagetypes.go`) | none | `Sign`, `Verify`, `Key`, `Encode` | datastore |
| topics (`messagetopic.go`) | `Send`, `recps`, `lock` | `Register`, `Unregister`, `Close`, goroutine `process` | publishers, followers |
| publishing, following (`feeds.go`, `follower.go`) | the local variables of each call | `PublishMessage`, `Follow` | feed, topic |
| gossip (`gossip/gossip.go`) | pubs bucket, timers, the connections | `createHistoryStream`, `Replicate`, dial loop, pubs hook | connection manager, feeds |
| connection manager (`muxrpcManager/`) | `Conns` | `HandleConn` | gossip, blobs |
| blobs (`blobs/blobs.go`) | blob files, wants of each peer, condition | `Want`, `WaitFor`, `Add`, `createWants`, `get` | connection manager, git |
| indexes (`graph`, `social`, `channels`, `git`, gossip's pubs) | a bucket each | `AddMessageHooks`, `RebuildClearHooks`, queries | datastore |
| search (`search/`) | none | a scan of the global log | datastore |
| JSON-RPC (`rpc/rpc.go`) | open requests | `ServeConn` | methods registered in the datastore |
| commands (`cmd/`) | none | start-up, HTTP pages, one-shot clients | all of the above |
| `encoding.go`, `compression.go`, `keys.go`, `ref.go` | none | conversions | messages |

**What is hard here.** Two goroutines for every feed and one for every topic
share two mutexes, a condition, four kinds of channel and bolt's single writer:

- the *drainer* (`feeds.go:189-200`) moves messages from `addChan` to `waiting`
  and broadcasts on a condition that remembers nothing;
- the *processor* (`feeds.go:291-343`) verifies and stores a run of messages in
  one transaction, which may be rolled back by a bad message, a failing hook or
  the disk, and only then announces them;
- the *topic* hands each message out under its lock and waits for strict
  recipients meanwhile;
- publishers and followers join and leave the topic while messages flow, and
  relate what they see in the database to what the topic tells them;
- the process may die between any two of these steps.

`PROJECT.json` lists each hazard at its line with the properties that cover it.

**What makes each part correct.** Feeds: the stored log is a chain, is never
rewritten, and pointers, global log and indexes agree with it after any
failure; each commit is announced once, in order; what honest peers keep
sending is stored. Topics: no gaps, no use of a closed channel, no waiting for a
slow recipient that is not strict. Publishing: a call that returns has stored
its own message. Following: nothing is lost between catching up and going live.
Replication: what a peer has of a followed feed is stored in the end, however
connections come and go. Blobs: a want lasts until its blob is stored, a stored
blob is whole, and everyone who waits for it hears. Connections: the entry of a connection
that never had a rival stays until it ends. Indexes: equal to their rebuild. JSON-RPC: one response for each request.

## 2. Modules

| module | models | extends / composes |
|---|---|---|
| `Messages` | messages, `Verify`, look-ups in a log bucket | |
| `FeedStore` | open feeds and the bolt file | `Messages` |
| `AppendOnlyLogs` | abstract: what the datastore promises | implemented by `FeedStore` |
| `MessageTopic` | topics, for any number of them | |
| `PubSub` | a feed, its topic, `PublishMessage`, live `Follow` | `FeedStore`, an instance of `MessageTopic` |
| `Replication` | the hook that asks peers for followed feeds, the peers' streams, connections that come and go | `FeedStore` |
| `Indexes` | the hooks of graph, social, channels, git and gossip, their rebuild, `AddPub` | `Messages`; the store is `AppendOnlyLogs` |
| `Queries` | what the pages, the search, the repositories and the replication read | `Indexes` |
| `Connections` | `HandleConn`, the `Conns` map, accepting and dialling | |
| `Blobs` | `Want`, its fetcher, the onConnect hook, `Add` | `Connections` |
| `BlobFiles` | the files that `Add` writes, `WaitFor`, `blobs.has`, `blobs.get`, the wants of peers | |
| `JsonRpc` | `ServeConn`: reader, goroutines of the requests, writer | |
| `FeedStoreProofs` | theorems about the datastore | `FeedStore` |
| `MessageTopicProofs` | theorems about topics | `MessageTopic` |
| `PubSubProofs` | theorems about the composition | `PubSub`, `FeedStoreProofs`, an instance of `MessageTopicProofs` |
| `ReplicationProofs` | theorems about replication | `Replication`, `FeedStoreProofs` |
| `IndexProofs` | theorems about the indexes and the queries | `Queries` |
| `BlobsProofs` | theorems about connections and wants | `Blobs` |
| `BlobFilesProofs`, `JsonRpcProofs` | theorems about these two | `BlobFiles`, `JsonRpc` |
| `MCFeedStore`, `MCMessageTopic`, `MCPubSub`, `MCReplication`, `MCIndexes`, `MCBlobs` | small instances for TLC | the module they name |
| `MCFeedStoreBoth`, `MCPubSubBoth`, `MCIndexesBoth`, `MCBlobFiles` | two or three scenes in one run: an extra variable, which never changes, says which of them a behaviour is about | `MCFeedStore`, `MCPubSub`, `MCIndexes`, `BlobFiles` |

### Messages and FeedStore

A message is a record of the fields that the store branches on. The field `id`
stands for its key: the hash of everything else if its field `hash` names sha256,
and the zero reference `ZeroRef` if it names anything else (`message.go:133-140`),
which `Verify` does not look at. So equal ids mean equal messages unless they
are `ZeroRef` (`MessageAssumption`). A log bucket is the set of its messages, `PutSeq` replaces what is stored under a number as
bolt's `Put` does. `Verify` is the code's, with its two branches that cannot be
taken (`message.go:66-71` compare with the message found under
`Sequence - 1`) left out.

`db` is the committed file; `tx` what the open read-write transaction sees.
`writer` is bolt's writer lock. For feed `f`, `proc[f]` says where its processor
is:

| `proc[f]` | code |
|---|---|
| `off` | not opened yet |
| `start` | before `Wait` (`feeds.go:293`) |
| `wait` / `ready` | in `Wait` / woken |
| `update` | has bolt's writer, not the feed's locks (`297-298`) |
| `loop` | holds `waitingLock` and `SeqLock` (`304-333`) |
| `commit` / `abort` | the transaction function has returned nil / an error |
| `send` | announcing (`339-341`) |

Each loop iteration is one action: `SkipMessage`, `RejectMessage`,
`StoreMessage` or `StoreFails`. They hold all the locks that anyone who reads
the same variables needs, so nobody could tell their parts apart. `Wait` is an
action of its own because a `Broadcast` before it is lost. `DrainPut` needs the
locks that the processor holds in its loop; `DrainSignal` is separate from it.
`Commit`, `CommitFails` and `Crash` are what may happen to a transaction.
Indexes are abstract: an index is a function of the messages its hook has been
run on since it was last cleared, so `index` records those. `heard`, `base` and
`db.order` are history variables; `order` holds the messages themselves in the
order of storing, where the global log has their keys.

`Get` goes through the pointer of a key and reads the committed state. With keys
that tell messages apart it finds what it looks for. With the zero key it does
not: the look-up of `feeds.go:314` misses a message of the same transaction, so
two messages of one run may both be stored, the pointer is left with the last,
and every later message with that key is skipped for good. `KeysRepeatInOneRun`
says that this is all that happens, and `GlobalLogResolves` and
`IndexesMatchLog` say what readers and hooks see of it.

`RebuildAll` is rolled back by the first hook that fails (`feeds.go:417-420`).
`Rebuild` of a single module drops the error of its hook and goes on
(`feeds.go:449`): the messages at the places `failed` are missing from the index
that it commits, which is recorded as `Nil` in their places.

### MessageTopic and PubSub

A topic's goroutine is split at every point where somebody else may come in:
taking a message, getting the lock, coming to a recipient, sending to it. A
channel of capacity 1 that `Register` makes is bounded by `Cap`. `Publish` sends
each message once, which `FeedStore` shows (`AnnouncedOnceInOrder`) and run
`PubSub` checks of the composition (`IsMessageTopic`).

`PubSub` composes one open feed with an instance of `MessageTopic` whose `send`
is the feed's `sendChan`. `PublishMessage` is five steps (read the latest
message, register, add, await, unregister), `Follow` a loop under `SeqLock` that
ends in a registration which is made while `SeqLock` is still held: the state
`stream[w] = "register"`, in which the processor and the drainer cannot go on
(`SeqLockFree`). `ds.Topic.Send` is the recipient `Bus`, strict and of capacity
`SendCap`. `PubSub` leaves disk errors, restarts and rebuilds to `FeedStore`;
messages that fail to verify are part of both.

### Replication

`Replication` puts gossip on top of `FeedStore`: for each connection the hook
`onConnects["replicate"]` starts a goroutine for every feed that is followed by
then (`gossip.go:165-199`), which asks for the messages after the latest stored one;
each reply goes to `AddMessage`, which blocks on a full `addChan` and with it
everything else on that connection.

The peer runs this program, too. Its side of a stream is the code of
`createHistoryStream` and `Follow`, reduced to what arrives here:

| `stream[p][f].pc` | code |
|---|---|
| `call` | the goroutine of the hook, before `Source` |
| `catchup` | the peer's `Follow`, below its `LatestSeq` |
| `live` | after its `Register` |
| `evicted` | its channel was full and is closed: what is left of it, then nulls (`follower.go:25`) |

`remote[p][f]` is the peer's `LatestSeq`, which a run of messages moves on before
they are committed there (`PeerStores`), and `announced[p][f]` how many of them its
topic has handed out by now: a catching-up stream may pass the others over
(`follower.go:8`), and a stream that goes live meanwhile is sent them later.
`passed` records the numbers that were passed over. A peer holds a prefix of
one chain for each feed, of messages with keys of their own, as `PublishMessage`
makes them (`ReplicationAssumption`); forks, forgeries and messages with the zero key
are the subject of `FeedStore`. So is
a transaction that is rolled back and leaves `LatestSeq` ahead of the
database (`FeedStoreResume`): what follows it does not verify any more until the
process restarts, and `Replication` has neither bad messages nor failing commits.

### Indexes and Queries

`FeedStore` keeps of an index only which messages its hook has seen. `Indexes`
says what the hooks make of them. It builds on what `AppendOnlyLogs` promises
(`StoreMessage` is guarded by its `Admissible`): a message joins `order`, the
global log, and every hook runs in the same transaction, so each step of the
program that stores or rebuilds is one action. `ix` has one field for each of
the buckets:

| field | bucket | hook |
|---|---|---|
| `graph` | author, contact -> relation | `HandleGraph` |
| `about`, `votes`, `threads` | a profile for each feed, votes for each link, a log and a time index for each root | `HandleAbout`, `HandleVote`, `HandleThread` |
| `channels` | a log and a time index for each channel | `HandleChannel` |
| `repos` | info, updates, blobs and issues of each repository | `HandleGit` |
| `pubs` | feed -> address | `HandlePub`, `AddPub` |

`Content[m]` is the decoded content of the message `m`; a field that
the JSON leaves out is `Nil`. `added` is a history variable.

A time index has 64-bit keys, of which there are `KeySpace`, twice `HalfSpace`.
The code takes `int(Timestamp * 1e6)` and writes it as an unsigned number
(`channels.go:13-17`, `58`, `social.go:163`): `TimeKey` multiplies by `TimeScale`, a time before
1970 gets a key in the upper half, behind all others, and one that an int cannot
hold gets `TooLate` or `TooEarly`, which are the build's (both `HalfSpace` on amd64).
`AddToList` takes the first key from there on that is free (`FirstFree`), and after the
greatest one comes the least (`KeyAfter`). Times are whole numbers: fractions of a unit, and
what a floating point product loses of large ones, are left out. `Precedes` says
which order such keys leave: posts of one key come as they were stored; one that starts n or
more keys earlier comes first in a list of n, unless it starts at the very end; so times from 1970
on that an int can hold are in order if a unit of time has as many keys as the list has
posts, and times before 1970 come after them, oldest first.

An index and all that reads it know a message by its key, and `GetMsg` finds for the zero
key the message that was stored last. What a property says of messages by way of
their keys it says under `KeysDiffer`, that no two stored messages have the zero key;
what `FeedStore` says of such messages is where their effect is described. Types, the distances of the
graph and the pages of a feed do not depend on it.

`RunHooks` is the loop over the hooks of one message, `Clear` the
`RebuildClearHooks` of a module, and `Replay` (a recursive function) the loop of
`Rebuild` and `RebuildAll`: clear, then enter every message of the log again. A
rebuild of one module runs the hooks of that module only (`OfModules`).

The operators of `Queries` follow the code's cursors: `LatestCount` counts
private messages towards a page but does not return them, `LatestCountFiltered`
skips before each entry, `GetFollows` adds to the map that it ranges over. Their
properties compare them with definitions that know nothing of cursors or rounds.
What a query leaves out of what it ranges over is
the work of `Kept`, a recursive function where the code has a loop with `continue`.
`Search` goes through the global log from the newest message and stops at its limit, of
which 0 means none; `GetThread` and `GetVotes` leave
out keys whose message is not stored (`Fetch`); a repository is one when its
message says so (`IsRepo`), whatever its bucket holds by then.

### Connections and Blobs

A slot of `Conn` stands for a connection and the goroutine that runs
`HandleConn` for it. `conn[c].pc` is `free`, `dial` (`gossip.go:264`), `new` (before
`muxrpcManager.go:31`) or `handle`; `up` says whether the connection is still
there, which `HandleConn` notices when `Handle` returns (`Delete`); `hook` whether
the goroutine of the onConnect hook has run. `turn` is the pub that the dial
loop has taken from its list: between the count of connections (`Tick`) and the
look at the entry of that pub (`Pass`, `Dial`) the lock is free. A pub may connect
itself while it is being dialled, and then has two connections and one entry.
`unrivalled` is a history variable: the connections that had no rival since they
were entered. A connection that had one may be left without an entry, though it is the
only one, since the end of either removes the entry of both (`muxrpcManager.go:45`).
Then it is neither asked for what is wanted later nor counted by the dial loop:
`ConnsMatch` and `AskedEveryone` are about the entries that there are.

For a blob `r`, `fetch[r]` is the goroutine that `Want` starts: `recv` (receiving
from `w.resp`), `get` (in `Source`), `unlist` (after the loop), `over`. `ask[<<r, c, by>>]`
is the goroutine that asks connection `c`, started by `Want` or by the hook: `call`
(in `conn.Call`) or `send` (sending on `w.resp`). `Receive` is the rendezvous on that
channel, which has no buffer. `Want` is one action since it holds `wantLock` and
the lock of `Conns`; so is the hook's loop under `wantLock`. What `Source` returns at
the end of a stream is up to muxrpc, which is not part of the repository, so
both branches of `blobs.go:149` are open (`DropData`, `AddData`), and what a peer sends
may be anything. It may also send nothing: `Source` has no time-out and then returns only
when its connection ends, which the timer of a dialled one sees to and nothing does for one
that was accepted. A fetcher on such a connection is `Held`. Other blobs than `Blob` are not recorded in `has`: nobody asks
for them.

### BlobFiles

`Add` truncates the temporary file of its blob, writes to it, renames it and
signals the condition (`blobs.go:68-78`): four steps, `Open`, `Write` or `WriteFails`,
`Rename`, `Broadcast`. If the directory or the temporary file cannot be made or opened, nothing looks at
the error and whatever lies under the temporary name is renamed (`OpenFails`). `add[a].at` follows what the writer has opened, which another
`Add` of the same blob may rename under it. `Crash` ends the process between any two
steps and leaves the files. `page[w].pc` is where the page of a blob is: `lock` (before it
gets the lock of the condition), `enlist` (has looked and is about to wait), `waiting`, `get`.
For a connection `c`, `hook[c]` says whether its channel in `peerWants` exists, `wants[c]` what
the peer has sent and the callback has not handled, `answers[c]` what is in that
channel. A handler of `createWants` that started before the hook is `deaf`: it ranges over
a nil channel for good.

### JsonRpc

`kind` lists the requests that a client has sent, by what the code tells apart:
with an ID or without, the method unknown, not a function or a function,
parameters that decode or not, and how the call goes. `reader`, `work[q]` and
`writer` are the three sorts of goroutine; the channel between them has no buffer, so
`TakeFromReader` and `Take` are rendezvous. What the code does and one might not expect:
results are encoded from the `reflect.Value` and not from what it holds
(`rpc.go:90`, `100`); a method without a result is answered with the error of a panic;
at the end of the input the connection is closed on calls that are under way,
and the goroutine of the writer never ends. Nothing in the repository calls
`ServeConn` but `ListenAndServe` (`rpc.go:120`), and nothing calls that.

## 3. What TLC checks

Every run takes less than three minutes with two workers.

| run | instance | what it shows |
|---|---|---|
| `FeedStore` | either one feed, with messages 1 and 2, a rival 1, a fork of 2, an unlinked 2, a forged 1, in any order and repeatedly; or two feeds that share bolt's writer, with a message each, handed to either; or two feeds of two messages and one that all have the zero key, without faults; two indexes, rebuilds, failing commits, failing hooks, restarts | `TypeOK`, the stored log is a chain (`FeedLogChained`), only grows (`AppendOnly`), `LatestSeq` is never behind it (`NeverBehindLog`), each commit is announced once (`AnnouncedOnceInOrder`), pointers resolve (`GlobalLogResolves`), indexes follow the log (`IndexesMatchLog`), as far as keys tell messages apart and hooks succeed, and the datastore implements `AppendOnlyLogs` (`ImplementsLogs`) |
| `FeedStoreResume` | the first of these, without faults | violated: see below |
| `Replication` | one feed with a chain of two, one peer, which stores them one by one or both at once, one restart, any number of connections | no stream skips what is missing (`StreamsCover`); everything a peer has of a followed feed is stored in the end (`EventuallyReplicated`) |
| `MessageTopic` | two recipients, strict or not, one with capacity 1 and one with 2; three messages; `Send` of 2; closing | `RegisteredIsOpen`, `GaplessDelivery`, `NeverHeldUp` |
| `PubSub` | either two calls of `PublishMessage` with two contents, feeds up to 2 messages; or one stream from number 1 or 2 and peers that send a chain of two | `ReturnedIsStored`, `FollowCovers`; the composition implements `FeedStore` (`IsFeedStore`) and `MessageTopic` (`IsMessageTopic`) |
| `PubSubLost` | one call | violated: see below |
| `PubSubStuck` | one call, another device that adds messages 2 and 3 to the feed | violated: see below |
| `Indexes` | either two feeds of seven and six messages that follow each other, a third that is followed, a thread and a channel with posts of the same time, a repository whose update comes first; one pub added by hand; rebuilds of each module and of all; or four feeds of three, two, one and one messages, five of which are posts in one thread and channel: three before 1970, one at 0 and one later than an int holds, with two time keys in a unit of time; or two feeds, two messages of which have the zero key | indexes say what the stored messages say (`LatestWordCounts`, `PostsAreListed`, `RepoIsComplete`, `PubsAreListed`), queries give what they are asked for (`PagesCover`, `FollowsAreNearest`), the order being that of `Precedes`, a rebuild changes nothing but the pubs added by hand (`RebuildChangesNothing`) |
| `IndexPages` | the first of these | violated: see below |
| `Blobs` | two pubs in the dial loop's list, one of which also connects itself; one slot for each kind of connection; one blob, and something else that peers may send | `ConnsMatch`, `AskedEveryone`, `WantedUntilStored`; `PubsHaveTheirTurn`, `AnswersAreHeard` under `FairSpec` |
| `BlobFiles` | two blobs; either two adders and a page, or one adder and a peer; full disks, files that cannot be opened, and crashes | stored blobs are whole, but for what these and a shared temporary file leave (`StoredIsWhole`), who was told of a blob can have it (`PromisesKept`), a waiting page hears of its blob (`WaitersHear`), a peer's want is answered (`WantsAreAnswered`) |
| `JsonRpc` | two requests of every kind | no answer too many (`AnsweredOnce`), none missing (`EventuallyAnswered`) |

**Bounds.** Both channel capacities, 10 in the code, are 1 (2 for the topic
alone): smaller channels block sooner, and everything that a longer one allows
before it blocks is a matter of more messages in the same order. Two messages
of a feed are the least for a link, three for an out-of-order arrival with one in
between and for the embrace (the caller's own, one in its channel, one in the
topic's hands). Two feeds are the least that share bolt's writer. In the universe of the zero key, two
messages of one feed are the least that one run stores under one key, and the message of
the other feed is the one that is skipped afterwards. The errors that a rebuild of one module drops
are left to one index of the first universe. A feed's
universe of messages is finite, so nothing else needs a bound. `PubSub` uses
symmetry of calls; nothing in the module tells them apart, and the run checks no
liveness.

In `Replication` the wire holds one packet and the process restarts once
(`WireCap`, `MaxCrashes`); connections are not bounded. `TopicFirst` has the topic take what it
is sent before anything else happens: no property of this run is about it. Two messages are the least with
which a stream has something behind it and something ahead when the
connection ends, and a peer's second message is what a stream may pass over,
be sent late or be evicted with.

`Indexes` has a page of 2 instead of 25, so that seven messages make four pages,
and the one pub in `ByHand`. Its universe of messages has for each hook a message
it takes and, for those that change what an earlier one stored, two. The second
universe is about time keys. `TimeScale`, 1000000 in the code (nanoseconds in a millisecond), is
2, and three posts carry the time -1, so that one moment runs out of keys: the first two take the
last keys there are, and the third the key 0, where the next post wants to go.
`HalfSpace` is 32 instead of 2^63, and the time 20 is beyond it. Which order is
left is what `Precedes` says in `PostsAreListed` and `PagesCover`; that none is lost or shown twice
they claim for any times. In the third universe two messages of one feed have the zero key:
once both are stored, `KeysDiffer` is false and the run shows what does not depend on it. (In `IndexPages`
the constants are such that no key wraps.)
In `Blobs`,
two slots are the least with which a peer has two connections; a slot is used
again only when no goroutine refers to the connection before (`Unused`), except
those that wait for a fetcher that has ended or is held. The dial loop pauses at two
connections instead of three. Blobs share nothing but the connections and the
locks, and one is enough for every order of want, connection, answer and upload.

Two adders are the least that race for a temporary file. In `BlobFiles` the channel of
answers holds one instead of ten, so two blobs fill it and hold up a want, and a peer has one want
on the wire at a time. The peers' scene has one adder, since peers only look whether a file
is there. In `JsonRpc` two requests are the least that compete for the
writer; one response fits between it and the client.

**Deadlock** is checked for `FeedStore`, `Replication`, `Indexes`, `Blobs` and `BlobFiles`.
`MessageTopic`, `PubSub` and `JsonRpc` may stop: a topic that is closed and drained, calls that have
all returned, a connection that has ended.

**Fairness.** `Replication!RFairness` says that a goroutine that can go on
does, and that one that waits for a mutex or a channel which
others keep using is served in the end: Go's mutexes hand over to a waiter
after one millisecond of starvation (bolt's writer lock is one of them) and
channels queue their senders. That is strong fairness of each goroutine. It also
says that connections are made again, which the dial loop does, and that they
end, as the timer sees to, but not always before a request, a message or a reply gets through
(strong fairness of `Ask`, `PassOver`, `Serve`, `Reply`). Nobody need follow, store or
announce faster than that. `EventuallyReplicated` needs no fault to stop but restarts.
Of `NeverHeldUp`,
the fairness of strict recipients is the premise and the topic's is the
scheduler's; recipients that are not strict have none.
`Blobs!Fairness`: the ticker of the dial loop goes on; a dial ends one way or the
other and the timer of a dialled connection goes off after five minutes;
goroutines that can go on do; `Source` returns when its connection has ended, and need not
before; one that waits to send on `w.resp` has its turn, since a channel
queues its senders (strong fairness of `Receive`). Nothing makes a peer connect,
have a blob or send it, or end a connection that it has made, so that a wanted blob arrives is not
claimed, and `AnswersAreHeard` excepts, with `<>[]Held`, the fetcher that waits for good for a peer that
had itself connected. Without the exception, or without the timers, TLC finds it violated.
`BlobFiles!Fairness`: an `Add` that has begun goes on, pages get the lock of the
condition in turn, the callback and the handler of `createWants` go on. That blobs keep being
added is the premise of `WaitersHear` and not assumed: a signal between the look and
the wait is lost, and only another one ends the wait. `JsonRpc!Fairness`: goroutines go
on, whoever waits on the channel of responses is served in turn, and the client
reads what it is sent; without the last, its own full connection holds up its answers.

**Disagreements** (the four violated runs):

1. `FeedStoreResume` / `LatestSeqIsDurable`. A bad message rolls back the good
   ones stored before it in the same run, and `LatestSeq` keeps counting them
   (`feeds.go:330`). They are dropped when they are sent again and their
   successors do not verify: the feed stands still until a restart.
2. `PubSubLost` / `PublishStores`. A broadcast that finds the processor between
   two rounds is lost and nobody looks at `waiting` before `Wait`
   (`feeds.go:198`, `293-295`): a message that is published then is not stored
   until some other message comes.
3. `PubSubStuck` / `PublishReturns`. `PublishMessage` stops receiving before it
   unregisters its strict channel (`feeds.go:520-523`); with two more messages on
   their way, the topic waits for it and it waits for the topic.
4. `IndexPages` / `IndexPagesCover`. `LatestCountFiltered` skips `start` entries before
   each message, not once (`feeds.go:467-473`): page 2 of the index shows every
   26th message, and most of the log is on no page. The page of a
   feed (`LatestCount`) does it right. (The page of a channel passes `25p-24` for
   `start` (`webui.go:755`) and never shows the newest post; `PagesCover` is about
   `GetChannelLatest` with the slices that follow each other.)

**What the properties leave out.** Some hazards are real and the code does nothing about them;
the properties then say what is left, and name the exception. `StoredIsWhole` exempts the
window in which a racing `Add` has renamed a file that is still being written, and shows that it
closes. `AnsweredOnce` allows the second response to a request whose parameters did not decode.
`WantsAreAnswered` speaks of peers that ask after the hook has run; the others
(`deaf`) are never answered. `ReturnedIsStored` speaks of calls that return: the loser of two publishers with
one number never does. `AskedEveryone`, `ConnsMatch`, `AnswersAreHeard`, `GlobalLogResolves` and
`IndexesMatchLog` have their exceptions explained above.

**Mutants.** Each property of a passing run is paired with a change of the code,
written as an operator next to the definition it replaces (`X_Suffix` for `X`),
under which the run finds the property violated: a dropped test, a missing
reset, a lock that is not taken, a signal that is left out.

## 4. What is proved

`FeedStoreProofs`, for any feeds, messages, modules and capacities that satisfy
`MessageAssumption` and `CapacityAssumption`:

| theorem | states |
|---|---|
| `TypeCorrect` | `Spec => []TypeOK` |
| `FeedsAreChains` | `Spec => []FeedLogChained` |
| `NeverBehind` | `Spec => []NeverBehindLog` |
| `StoresAppend` | `Spec => AppendOnly` |

The argument is one inductive invariant, `IInv` (theorem `Inductive`).
`FeedLogChained` speaks of the committed file only and is not inductive: a
commit brings in whatever the transaction holds. So `IInv` has

- `WriterInv`: `writer` is the one feed whose processor is inside `db.Update`;
- `TxInv`: when nobody writes, `tx = db`; otherwise `tx` extends `db` and
  differs from it in the writer's feed at most;
- `BucketInv`: the chain property of both `db` and `tx`, together with the fact
  that entries belong to their feed;
- `ClosedInv`: a feed that is not open has nothing in its channels;
- `NeverBehindLog`: a stored number is at most `LatestSeq`. This is what makes
  `StoreMessage`, which stores under `LatestSeq + 1`, replace nothing, which in
  turn is why the links of later entries stay good and the log only grows.

Each part is preserved by each action (one lemma for each part, one step for
each action), from lemmas about `PutSeq`, `GetSeq`, `Latest` and `AddToDB`.

Further theorems of the module build on `IInv`:

| theorem | states |
|---|---|
| `AnnouncedOnce` | `Spec => []AnnouncedOnceInOrder` |
| `EntriesResolve` | `Spec => []GlobalLogResolves` |
| `IndexesFollow` | `Spec => []IndexesMatchLog` |
| `Implements` | `Spec => ImplementsLogs`, the refinement of `AppendOnlyLogs` |

`AnnInv` says, for an open feed, that what its topic was sent, what waits in `sendChan` and, after
a commit, what is about to be sent are in order and are just the messages
committed since it was opened; and, inside a transaction, that `newMsgs` is the difference
between `tx` and `db` and comes after everything in `db`. A rolled-back
transaction announces nothing: its `newMsgs` is emptied with it.

`Sound(d)` says of a view `d` of the database that the logs of the feeds are what `order` has
of each (`Listed`), that the global log has the keys of `order` (`Keyed`) and the pointer of a key
leads to the last message stored under it (`Resolved`), that a key which
repeats is the zero key, within a run of one feed (`KeysRepeatInOneRun`), that an index is what its hook makes of
them but for the two exceptions of `IndexesMatchLog` (`Indexed`), and that each message was
admissible when it came (`Admitted`). It holds of `db` and of `tx`, which differ in messages of the writer that no rebuild has seen (`Added`); a message joins the log only if
it is not in its bucket, which is what `NeverBehindLog` gives. That a key does not repeat beyond its run rests
on the look-up of `feeds.go:314`, stale as it is: what the open transaction has stored so
far is all of one feed, and everything else the look-up sees. `Admissible` is the step of
`AppendOnlyLogs`, so the refinement follows, for messages and not for their keys: a commit maps to a step that appends
what the transaction has stored, everything else to a stutter. `PointerAssumption` (`Nil`
is no pointer) is the one assumption added for this; keys need not be unique.

`MessageTopicProofs`, for any topics, channels, contents and capacities that satisfy
`TopicAssumption`:

| theorem | states |
|---|---|
| `TopicTypes` | `Spec => []TypeOK` |
| `NoPanic` | `Spec => []RegisteredIsOpen` |
| `NoGaps` | `Spec => []GaplessDelivery` |

`RegInv` adds that a channel is registered with one topic at most, which makes closing it
safe for the others, and that the loop has nothing to do between two messages
(`LoopInv`), which is why `Register` and `Unregister` cannot touch what it ranges over.
`DeliveryInv` says of each channel which run of a topic's messages has been handed out
through it: up to the one that is due if it is registered (`Due` counts the message in the topic's hands only for
recipients that the loop is done with), up to some message if it is closed, none if it
was never registered.

`PubSubProofs`, for any feed, calls, streams, remote messages and capacities that satisfy
`PubSubAssumption` (each call and each stream has a channel of its own):

| theorem | states |
|---|---|
| `ComposesStore` | `PSpec => IsFeedStore` |
| `ComposesTopic` | `PSpec => IsMessageTopic` |
| `ReturnsStored` | `PSpec => []ReturnedIsStored` |
| `StreamsLoseNothing` | `PSpec => []FollowCovers` |

The two refinements come first: every step of the composition is a step of `FeedStore` or
leaves it alone, and so with the topic. The second needs `AnnInv`, since `MessageTopic` lets
its owner send a message once, and `ChanInv`: who has yet to register has a channel that
nobody has seen. With them the theorems of `FeedStoreProofs`, and through the instance `TP`
those of `MessageTopicProofs`, hold of the composition, and the rest is proved from these:
what is in a channel has come through the topic, so it has been announced, so it is committed
(`ReturnInv`). For `FollowCovers`, a stream has passed every number below `next` (`Passed`), and
while it keeps `SeqLock` to register, `LatestSeq` stays below `next` (`AtTheEnd`): nothing that
is stored is left when it goes live. From then on each step that commits adds to what waits
before the stream, and every other one only moves it towards the handler.

`ReplicationProofs`, for any number of peers, feeds, restarts and packets on the wire that
satisfy `MessageAssumption` and `ReplicationAssumption`: what peers hold of a feed is one chain, signed and linked, without the zero key.

| theorem | states |
|---|---|
| `ReplicationUsesStore` | `RSpec => Spec`, so that `IInv` holds |
| `ReplicationTypes` | `RSpec => []RTypeOK` |
| `NothingMissed` | `RSpec => []StreamsCover` |

`StreamsCover` needs to know that the store drops nothing it has not stored. `HonestInv` says
why: the queues of a feed hold its own messages (`QueueInv`), its log has no gap up to
`LatestSeq` (`LogInv`), so that a message which `DrainPut` leaves out has been stored; a
pointer leads to the message it was made for (`PointerInv`), so that one which
the loop skips has been stored; and the next message of an honest chain verifies, so that
no transaction rolls back (`NoneRejected`). `QueuedStays` puts these together: short of a
crash, which ends all streams, what is queued stays queued or is stored. The rest is the
streams' own arithmetic: `Ask` starts after the log, `GoLive` never moves a stream forward. With
two peers and a chain of two TLC does not come to an end in five minutes;
the theorem is what covers several peers that send the same feed.

`BlobsProofs`, for any peers, pubs, callers, slots and blobs that satisfy
`ConnectionsAssumption` and `BlobsAssumption`:

| theorem | states |
|---|---|
| `BlobsTypeCorrect` | `Spec => []TypeOK` |
| `EntriesAreConnections` | `Spec => []ConnsMatch` |
| `NobodyLeftOut` | `Spec => []AskedEveryone` |
| `WantsLast` | `Spec => []WantedUntilStored` |

`ConnsMatch` is not inductive: the end of a connection removes the entry of its
peer, whoever's it is. The invariant adds `UnrivalledInv`, that a connection in
`unrivalled` has no rival, so that the entry which goes is never its own, and
`SlotInv`, that a connection has a peer, and no hook before it is entered. That
the hook starts after the entry is made is what `NobodyLeftOut` rests on: a
connection whose hook has run was in the map before, so a later `Want` finds it if it still is,
and an earlier one was found by the hook; and an entry once lost does not come back, so that of the connections which
`Conns` lists none has missed a `Want`. `Blobs!Spec` needs no fairness for this.

`BlobFilesProofs`, for any blobs, adders, pages, connections and capacity that satisfy
`BlobFilesAssumption`: `TypeCorrect` (`TypeOK`), `WholeFiles` (`StoredIsWhole`), `PromisesLast` (`PromisesKept`).
`StoredIsWhole` needs to know of the temporary file what it says of the blob's: an
empty one that an `Add` may still rename has somebody who will write to it, or is one that an `Add` could not
open again (`TmpInv`).
`PromisesKept` needs that files never go away (`FilesStay`) and that what waits in `answers` has a
file.

`JsonRpcProofs`, for any number of requests: `OneAnswer` (`AnsweredOnce`). `Given(q)` is what has
been answered to `q`, wherever on its way to the client; `RpcInv` bounds it by where the goroutine
of `q` is: nothing before `start`, one error at most before the call is answered, and that only if the
parameters did not decode. An answer that is dropped, since the connection has ended, only
shortens it.

`IndexProofs`, for any feeds, messages, contents, pubs added by hand, time scale and page size
that satisfy `MessageAssumption`, `ContentAssumption` and `PageSizeAssumption`; nothing is assumed of
the times, nor of the keys that an overflowing time gets. As long as `KeysDiffer`, they say all that their
names promise; `IndexTypesCorrect`, `FollowsFound`, `FollowsStayNearest`, `IndexesUseStore` and, in `PagesShowAll`, the pages
of a feed do so in any case:

| theorem | states |
|---|---|
| `IndexTypesCorrect` | `Spec => []TypeOK` |
| `LatestWordsCount` | `Spec => []LatestWordCounts` |
| `PostsAreShown` | `Spec => []PostsAreListed` |
| `PagesShowAll` | `Spec => []PagesCover` |
| `PubsStayListed` | `Spec => []PubsAreListed` |
| `ReposAreComplete` | `Spec => []RepoIsComplete` |
| `FollowsFound` | `GetFollows` gives the distances, for every depth |
| `FollowsStayNearest` | `Spec => []FollowsAreNearest` |
| `RebuildsChangeNothing` | `Spec => RebuildChangesNothing` |
| `IndexesUseStore` | `Spec => Store!Spec`: the log is one that `AppendOnlyLogs` allows |

The invariant (`IxInv`) has a part that holds in any case, `IxTyped`, and one that holds as long as
`KeysDiffer`, `IxRight`. It says what an index is: the buckets are `Replayed(order)`, what a rebuild of
everything makes of the global log, but for pubs that were added by hand. Storing a message
appends it to the log and enters it, which is the last round of that replay; a rebuild replays the
log, and the hooks of a module touch nothing of another (`ReplayIsReplayed`). So
`RebuildsChangeNothing` is immediate, and what is left is to say what the replay makes of a log
(`LogSound`): one predicate for each bucket, in terms of the stored messages alone, kept by one lemma
for each hook (`GraphStep`, `AboutStep`, `VotesStep`, `ThreadsStep`, `ChannelsStep`, `ReposStep`,
`PubsStep`). `LatestWordsCount` needs that a feed's messages enter in the order of their
numbers (`Climbs`), and that is what `Admissible` gives.

- *Time lists* (`TimeGrows`). A list that is shorter than the space of keys has a free one within as many
  steps as it has entries, however the keys wrap (`FirstFreeIs`). The invariant of a list says of an entry that
  did not start near the end of the keys (`Room`) that all keys from the one it started from
  up to its own are taken (`Packed`). So no later entry of that start comes before it, and an entry that
  comes before another started less than the length of the list after it (`StartsBefore`); if a unit of
  time has that many keys, its time is not later.
- *Queries* (`PostsHold`). What a query shows is traced to the places in the log: `KeptPicks` gives
  for each element that is left the place it had, `SortedIs` that the n-th of a sorted set has
  n - 1 elements below it (`Ranks`, by counting), `ShowsAt` and `MsgsAt` compose these.
- *Pages* (`PagesHold`). Each number is on one page and pages are in order (`Paged`), so pages that
  each show their part of a sequence show all of it, in its order (`PagesFit`). A feed's sequence
  is its bucket, a channel's is its list from the end.
- *Distances* (`FollowsFound`). After round n the map holds exactly the feeds within n follows: a
  shortest chain to a new feed goes through one at distance n, and a feed that is entered while Go
  ranges over the map has distance n + 1, so it is passed over.

An induction theorem of the library takes an operator and is out of this prover's reach, and with it
induction over data. An induction over numbers is not: `NatSets` states it of a set,
`{n \in Nat : ...}`, and follows from the least element of its complement (`NatMin`). A recursive
function is unfolded by showing that functions which satisfy its equation exist up to every bound
(`KeptUnfolds`, for instance).

Only model-checked: liveness (`EventuallyReplicated`, `NeverHeldUp`,
`PubsHaveTheirTurn`, `AnswersAreHeard`, `WaitersHear`, `WantsAreAnswered`,
`EventuallyAnswered`), which is beyond the prover. Every safety property of a passing run is a theorem.

## 5. Plan

Done, in this order:

1. `Messages`, `FeedStore`, `AppendOnlyLogs` and their runs.
2. `FeedStoreProofs`: type correctness, chains, append-only.
3. `MessageTopic` and its runs.
4. `PubSub`: publishers and followers.
5. `Indexes` and `Queries`, each query against a reference definition.
6. `Connections`, `Blobs` and `BlobsProofs`.
7. `Replication`: gossip on top of the datastore.
8. `BlobFiles`: files, waiting pages, the wants of peers, with proofs.
9. `JsonRpc`, with its proof.
10. `Queries`: threads, votes, search, repositories.
11. Proofs: announcements, the global log, the refinement of `AppendOnlyLogs`, topics.
12. Proofs about `PubSub`: that it implements its parts, and what publishers and followers get.
13. `ReplicationProofs`: that streams skip nothing, for any number of peers.

14. `IndexProofs`: what each index is of the log, and what the queries and their pages show of it.

Next:

15. `EventuallyReplicated` with two peers, which needs an abstraction of the datastore
    (`AppendOnlyLogs` with its queues) small enough for TLC.

Not modelled: `Feed.Log`, which only a comment calls (`gossip.go:320`); forms, templates and
command lines (`cmd/`), which are I/O around operations of the other components;
the encodings and compression (pure conversions of strings and bytes: the models take a key to
be a value that two messages share only if it is the zero reference); `dns/`, which does not build; and muxrpc,
secret-handshake and bolt, which are not part of the repository: what the
code relies on of them (streams in order, a call that returns when its connection ends, one writer, commits
that happen or do not) is in the actions that use them.
