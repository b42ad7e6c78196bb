------------------------------ MODULE Indexes -------------------------------
(***************************************************************************)
(* The indexes that the packages graph, social, channels, git and gossip   *)
(* keep in the bolt file: a hook of each updates its buckets in the        *)
(* transaction that stores a message, a second one clears them when the    *)
(* index is rebuilt from the global log.                                   *)
(*                                                                         *)
(* The store is taken as what AppendOnlyLogs says of it, which FeedStore   *)
(* implements: messages are appended to order one at a time, those of a    *)
(* feed in the order of their numbers.  The hooks of one message touch     *)
(* buckets of their own, so the order in which Go ranges over the map of   *)
(* hooks makes no difference.                                              *)
(*                                                                         *)
(* The indexes, and what is read from them, name a message by its key.     *)
(* What a property says of the messages by way of their keys it says as    *)
(* long as KeysDiffer: no two stored messages have the key ZeroRef.        *)
(***************************************************************************)
EXTENDS Messages, FiniteSets, SequencesExt

CONSTANTS Content,    \* Content[m]: what message m says
          Channel,    \* channel names
          Word,       \* what one may search the text of a post for
          Name,       \* names and images that a feed may give itself
          Blob,       \* blob references
          Addr,       \* network addresses of pubs
          ByHand,     \* bound: the pubs, as <<feed, address>>, that may be added by hand
          TimeScale,  \* time index keys in one unit of Message.Timestamp (10^6)
          HalfSpace,  \* the keys of times from 1970 on (2^63)
          TooLate,    \* the key of a time that an int cannot hold, as the build
          TooEarly    \*   converts it: HalfSpace for both on amd64

(* The message types that a hook looks at.  A field that is left out in the *)
(* JSON, and a reference of another kind than the hook asks for, is Nil.    *)
Contents ==
  [type : {"contact"}, contact : Feed \cup {Nil},
   following : BOOLEAN \cup {Nil}, blocking : BOOLEAN \cup {Nil}]
  \cup [type : {"about"}, about : Feed \cup {Nil}, name : Name \cup {Nil}, image : Name \cup {Nil}]
  \cup [type : {"vote"}, link : Key]
  \cup [type : {"post"}, root : Key \cup {Nil}, channel : Channel \cup {Nil},
           text : SUBSET Word]
  \cup [type : {"git-repo"}]
  \cup [type : {"git-update"}, repo : Key, packs : SUBSET Blob, indexes : SUBSET Blob]
  \cup [type : {"issue"}, project : Key]
  \cup [type : {"pub"}, key : Feed \cup {Nil}, host : Addr]
  \cup [type : {"private"}]   \* encrypted: the content is a string, Type() is ""

(* What the graph keeps of a pair of feeds. *)
Relation == [following : BOOLEAN, blocking : BOOLEAN]

(* The keys of a "time" bucket: the 64-bit integers, unsigned. *)
KeySpace == 2 * HalfSpace

TimeKeys == 0 .. KeySpace - 1

ASSUME ContentAssumption ==
  /\ Content \in [Msg -> Contents]
  /\ Nil \notin Channel \cup Name \cup Blob \cup Addr \cup BOOLEAN \cup Relation
  /\ TimeScale \in Nat \ {0}
  /\ HalfSpace \in Nat \ {0}
  /\ TooLate \in TimeKeys /\ TooEarly \in TimeKeys
  /\ ByHand \subseteq Feed \X Addr

VARIABLES
  order,  \* every stored message, in the order in which it was stored
  ix,     \* the buckets of the indexes
  added   \* the pubs added by hand, as <<feed, address>> (history variable)

vars == <<order, ix, added>>

Store == INSTANCE AppendOnlyLogs

Stored == ToSet(order)

Says(m, type) == Content[m].type = type

(* DataStore.Get and GetMsg: of the messages with key k, which are several  *)
(* if it is ZeroRef, the pointer leads to the one that was stored last.    *)
GetMsg(k) ==
  LET places == {i \in DOMAIN order : order[i].id = k}
  IN  IF places = {} THEN Nil ELSE order[Max(places)]

(* The global log as its readers see it: the messages its keys lead to. *)
LogRead == [i \in DOMAIN order |-> GetMsg(order[i].id)]

KeysDiffer == \A i, j \in DOMAIN order : order[i].id = order[j].id => i = j

-----------------------------------------------------------------------------
(* Empty buckets.  A bucket that is not there yet is an empty one. *)

NoRelation == [following |-> FALSE, blocking |-> FALSE]

(* The buckets "log" and "time" of a thread or a channel. *)
EmptyList == [log |-> <<>>, time |-> <<>>]

EmptyRepo == [info |-> Nil, updates |-> {}, blobs |-> {}, issues |-> {}]

EmptyIx ==
  [graph    |-> [f \in Feed |-> [c \in Feed |-> Nil]],
   about    |-> [f \in Feed |-> [name |-> Nil, image |-> Nil]],
   votes    |-> [k \in Key |-> <<>>],
   threads  |-> [k \in Key |-> EmptyList],
   channels |-> [c \in Channel |-> EmptyList],
   repos    |-> [k \in Key |-> EmptyRepo],
   pubs     |-> [f \in Feed |-> Nil]]

-----------------------------------------------------------------------------
(* Mutant of HandleGraph: what is left out is stored as such. *)
HandleGraph_Verbatim(graph, m) ==
  LET c == Content[m]
  IN  IF c.type # "contact" \/ c.contact = Nil THEN graph
      ELSE [graph EXCEPT ![m.author][c.contact] =
              [following |-> c.following, blocking |-> c.blocking]]

(* Mutant of HandleGraph: the stored relation is not read first. *)
HandleGraph_Anew(graph, m) ==
  LET c == Content[m]
      Given(new, old) == IF new = Nil THEN old ELSE new
  IN  IF c.type # "contact" \/ c.contact = Nil THEN graph
      ELSE [graph EXCEPT ![m.author][c.contact] =
              [following |-> Given(c.following, NoRelation.following),
               blocking  |-> Given(c.blocking, NoRelation.blocking)]]

(* handleGraph: only what the contact message mentions is changed. *)
HandleGraph(graph, m) ==
  LET c == Content[m]
      r == IF graph[m.author][c.contact] = Nil THEN NoRelation ELSE graph[m.author][c.contact]
      Given(new, old) == IF new = Nil THEN old ELSE new
  IN  IF c.type # "contact" \/ c.contact = Nil THEN graph
      ELSE [graph EXCEPT ![m.author][c.contact] =
              [following |-> Given(c.following, r.following),
               blocking  |-> Given(c.blocking, r.blocking)]]

(* social, About: a feed names itself; what others call it is not kept. *)
HandleAbout(about, m) ==
  LET c == Content[m]
      Given(new, old) == IF new = Nil THEN old ELSE new
  IN  IF c.type # "about" \/ c.about # m.author THEN about
      ELSE [about EXCEPT ![m.author] =
              [name |-> Given(c.name, @.name), image |-> Given(c.image, @.image)]]

(* social, Vote: the votes on a message, in the order of arrival. *)
HandleVote(votes, m) ==
  IF Says(m, "vote") THEN [votes EXCEPT ![Content[m].link] = Append(@, m.id)] ELSE votes

(* int(m.Timestamp * float64(time.Millisecond)), as itob writes it: the keys *)
(* of times before 1970 come after those of all others.  Times are counted *)
(* in whole units; what the floating point product loses is left out.      *)
TimeKey(t) ==
  LET i == t * TimeScale
  IN  IF i >= HalfSpace THEN TooLate
      ELSE IF i < -HalfSpace THEN TooEarly
      ELSE IF i < 0 THEN i + KeySpace ELSE i

(* The key d after key k: the greatest one is -1, which 0 follows. *)
KeyAfter(k, d) == IF k + d < KeySpace THEN k + d ELSE k + d - KeySpace

(* The first key from k on that is not in taken. *)
FirstFree(taken, k) ==
  LET d == CHOOSE d \in 0 .. Cardinality(taken) :
             /\ KeyAfter(k, d) \notin taken
             /\ \A e \in 0 .. d - 1 : KeyAfter(k, e) \in taken
  IN  KeyAfter(k, d)

(* Mutant of AddToList: a key that is taken is moved on from once. *)
AddToList_MovesOnce(list, m) ==
  LET k    == TimeKey(m.timestamp)
      free == IF k \in DOMAIN list.time THEN KeyAfter(k, 1) ELSE k
  IN  [log |-> Append(list.log, m.id), time |-> (free :> m.id) @@ list.time]

(* social, Post and channels: the next number of "log", and in "time" the  *)
(* first key from that of the time of the message on that is still free.   *)
AddToList(list, m) ==
  LET free == FirstFree(DOMAIN list.time, TimeKey(m.timestamp))
  IN  [log  |-> Append(list.log, m.id),
       time |-> [k \in DOMAIN list.time \cup {free} |-> IF k = free THEN m.id ELSE list.time[k]]]

HandleThread(threads, m) ==
  LET c == Content[m]
  IN  IF c.type # "post" \/ c.root = Nil THEN threads
      ELSE [threads EXCEPT ![c.root] = AddToList(@, m)]

HandleChannel(channels, m) ==
  LET c == Content[m]
  IN  IF c.type # "post" \/ c.channel = Nil THEN channels
      ELSE [channels EXCEPT ![c.channel] = AddToList(@, m)]

(* Mutant of HandleGit: a repository starts out empty. *)
HandleGit_Anew(repos, m) ==
  LET c == Content[m]
  IN  CASE c.type = "git-repo"   -> [repos EXCEPT ![m.id] = [EmptyRepo EXCEPT !.info = m.id]]
        [] c.type = "git-update" -> [repos EXCEPT ![c.repo].updates = @ \cup {m.id},
                                                  ![c.repo].blobs = @ \cup c.packs \cup c.indexes]
        [] c.type = "issue"      -> [repos EXCEPT ![c.project].issues = @ \cup {m.id}]
        [] OTHER                 -> repos

(* git: updates and issues may be stored before the repository they name. *)
HandleGit(repos, m) ==
  LET c == Content[m]
  IN  CASE c.type = "git-repo"   -> [repos EXCEPT ![m.id].info = m.id]
        [] c.type = "git-update" -> [repos EXCEPT ![c.repo].updates = @ \cup {m.id},
                                                  ![c.repo].blobs = @ \cup c.packs \cup c.indexes]
        [] c.type = "issue"      -> [repos EXCEPT ![c.project].issues = @ \cup {m.id}]
        [] OTHER                 -> repos

HandlePub(pubs, m) ==
  LET c == Content[m]
  IN  IF c.type # "pub" \/ c.key = Nil THEN pubs ELSE [pubs EXCEPT ![c.key] = c.host]

-----------------------------------------------------------------------------
(* The packages that register hooks: AddMessageHooks, RebuildClearHooks. *)
Module == {"graph", "social", "channels", "git", "gossip"}

(* The buckets of the packages in mods as in new, the others as in old. *)
OfModules(mods, new, old) ==
  [graph    |-> IF "graph" \in mods THEN new.graph ELSE old.graph,
   about    |-> IF "social" \in mods THEN new.about ELSE old.about,
   votes    |-> IF "social" \in mods THEN new.votes ELSE old.votes,
   threads  |-> IF "social" \in mods THEN new.threads ELSE old.threads,
   channels |-> IF "channels" \in mods THEN new.channels ELSE old.channels,
   repos    |-> IF "git" \in mods THEN new.repos ELSE old.repos,
   pubs     |-> IF "gossip" \in mods THEN new.pubs ELSE old.pubs]

(* Every bucket with m entered. *)
Entered(x, m) ==
  [graph    |-> HandleGraph(x.graph, m),
   about    |-> HandleAbout(x.about, m),
   votes    |-> HandleVote(x.votes, m),
   threads  |-> HandleThread(x.threads, m),
   channels |-> HandleChannel(x.channels, m),
   repos    |-> HandleGit(x.repos, m),
   pubs     |-> HandlePub(x.pubs, m)]

RunHooks(mods, x, m) == OfModules(mods, Entered(x, m), x)

(* Mutant of Clear: the bucket "votes" is left as it is. *)
Clear_KeepsVotes(mods, x) == OfModules(mods, [EmptyIx EXCEPT !.votes = x.votes], x)

Clear(mods, x) == OfModules(mods, EmptyIx, x)

(* Mutant of Replay: the index is cleared, the log is not replayed. *)
Replay_ClearsOnly(mods, x, log) == IF log = <<>> THEN x ELSE Clear(mods, x)

(* What rebuild makes of x: after n messages of the log, after[n]. *)
Replay(mods, x, log) ==
  LET after[n \in 0 .. Len(log)] ==
        IF n = 0 THEN Clear(mods, x) ELSE RunHooks(mods, after[n - 1], log[n])
  IN  after[Len(log)]

-----------------------------------------------------------------------------
Init == order = <<>> /\ ix = EmptyIx /\ added = {}

(* The end of Feed.addMessage: in the transaction of m, every hook is run.  *)
(* Bound: there are more time keys than messages.                          *)
StoreMessage(m) ==
  /\ Len(order) < KeySpace
  /\ Store!Admissible(Append(order, m), Len(order) + 1)
  /\ order' = Append(order, m)
  /\ ix' = RunHooks(Module, ix, m)
  /\ UNCHANGED added

(* Rebuild of one module, RebuildAll of all: clear, then replay the log.    *)
(* A hook fails by what a message says, and a stored one has passed it.    *)
Rebuild(mods) ==
  /\ ix' = Replay(mods, ix, LogRead)
  /\ UNCHANGED <<order, added>>

(* gossip.AddPub, from the admin page, an invite or the command line. *)
AddPub(f, a) ==
  /\ <<f, a>> \in ByHand
  /\ ix' = [ix EXCEPT !.pubs[f] = a]
  /\ added' = added \cup {<<f, a>>}
  /\ UNCHANGED order

Next ==
  \/ \E m \in Msg : StoreMessage(m)
  \/ \E mod \in Module : Rebuild({mod})
  \/ Rebuild(Module)
  \/ \E f \in Feed, a \in Addr : AddPub(f, a)

Spec == Init /\ [][Next]_vars

-----------------------------------------------------------------------------
(* The elements of S in the order Before, as bolt's cursors go by the keys. *)
SortedBy(S, Before(_, _)) ==
  [i \in 1 .. Cardinality(S) |-> CHOOSE e \in S : Cardinality({d \in S : Before(d, e)}) = i - 1]

(* What a "time" bucket lists, oldest first. *)
InTimeOrder(time) ==
  LET keys == SortedBy(DOMAIN time, <)
  IN  [i \in DOMAIN keys |-> time[keys[i]]]

IsList(list) ==
  /\ list.log \in Seq(Key)
  /\ DOMAIN list.time \subseteq TimeKeys
  /\ list.time \in [DOMAIN list.time -> Key]

(* Every bucket holds what its readers expect to decode. *)
TypeOK ==
  /\ order \in Seq(Msg)
  /\ ix.graph \in [Feed -> [Feed -> Relation \cup {Nil}]]
  /\ ix.about \in [Feed -> [name : Name \cup {Nil}, image : Name \cup {Nil}]]
  /\ ix.votes \in [Key -> Seq(Key)]
  /\ DOMAIN ix.threads = Key /\ \A k \in Key : IsList(ix.threads[k])
  /\ DOMAIN ix.channels = Channel /\ \A c \in Channel : IsList(ix.channels[c])
  /\ ix.repos \in [Key -> [info : Key \cup {Nil}, updates : SUBSET Key,
                           blobs : SUBSET Blob, issues : SUBSET Key]]
  /\ ix.pubs \in [Feed -> Addr \cup {Nil}]
  /\ added \subseteq Feed \X Addr

-----------------------------------------------------------------------------
(***************************************************************************)
(* What feed f last said: the value of field in the message with the       *)
(* highest number among those in said that give one, and initial if there  *)
(* is none.                                                                *)
(***************************************************************************)
LastWord(said, field, initial) ==
  LET given == {m \in said : Content[m][field] # Nil}
  IN  IF given = {} THEN initial ELSE Content[Latest(given)][field]

(***************************************************************************)
(* Whom a feed follows and blocks, and what it calls itself, is for each   *)
(* of the fields its own latest word, however the feeds interleave in the  *)
(* global log and whatever was rebuilt (graph.go:49-54, social.go:95-105). *)
(***************************************************************************)
LatestWordCounts ==
  KeysDiffer => \A f \in Feed :
    LET Of(type) == {m \in Stored : m.author = f /\ Says(m, type)}
        self == {m \in Of("about") : Content[m].about = f}
    IN  /\ \A c \in Feed :
             LET said == {m \in Of("contact") : Content[m].contact = c}
             IN  ix.graph[f][c] = IF said = {} THEN Nil
                                  ELSE [following |-> LastWord(said, "following", FALSE),
                                        blocking  |-> LastWord(said, "blocking", FALSE)]
        /\ ix.about[f] = [name  |-> LastWord(self, "name", Nil),
                          image |-> LastWord(self, "image", Nil)]

(***************************************************************************)
(* The dial loop finds a pub at the address that was announced last, or at *)
(* one that was added by hand, whatever was rebuilt in between: each pub   *)
(* that a stored message announces has one (gossip.go:34-44, 91-113).      *)
(***************************************************************************)
PubsAreListed ==
  KeysDiffer => \A f \in Feed :
    LET announced == {i \in DOMAIN order : Says(order[i], "pub") /\ Content[order[i]].key = f}
        last      == CHOOSE i \in announced : \A j \in announced : j <= i
        byHand    == {a \in Addr : <<f, a>> \in added}
    IN  \/ ix.pubs[f] \in byHand
        \/ ix.pubs[f] = IF announced = {} THEN Nil ELSE Content[order[last]].host

(***************************************************************************)
(* A rebuild of any index, or of all, leaves every index as it was: the    *)
(* clearing hook removes all that the other hook makes, and replaying the  *)
(* log makes it again, time keys included.  The pubs are the exception:    *)
(* those added by hand are in no message (feeds.go:398-457).               *)
(***************************************************************************)
RebuildChangesNothing ==
  [][KeysDiffer /\ UNCHANGED order => ix' = [ix EXCEPT !.pubs = ix'.pubs]]_vars
=============================================================================
