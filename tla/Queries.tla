------------------------------ MODULE Queries -------------------------------
(***************************************************************************)
(* What the web pages and the replication read: pages of the newest        *)
(* messages of a feed, of a channel and of all followed feeds, threads and *)
(* votes, repositories, what a search finds, and the feeds within some     *)
(* distance of a feed in the graph.  Each query runs in one read-only      *)
(* transaction, so it sees one state of the indexes.                       *)
(***************************************************************************)
EXTENDS Indexes

CONSTANT PageSize   \* messages on a page (25 in the code)

ASSUME PageSizeAssumption == PageSize \in Nat \ {0}

(* What is left of a sequence when its elements that are not in S go. *)
Kept(seq, S) ==
  LET kept[n \in 0 .. Len(seq)] ==
        IF n = 0 THEN <<>>
        ELSE IF seq[n] \in S THEN Append(kept[n - 1], seq[n]) ELSE kept[n - 1]
  IN  kept[Len(seq)]

(* The messages with the keys in a bucket or list, without the nils. *)
Fetch(keys) == Kept([i \in DOMAIN keys |-> GetMsg(keys[i])], Stored)

(* Message.Type() # "": the content of a private message is not decoded. *)
Typed == {m \in Stored : ~Says(m, "private")}

-----------------------------------------------------------------------------
(* Cursors.  newest is a bucket from its last entry backwards. *)

FirstOf(n, seq) == SubSeq(seq, 1, IF n < Len(seq) THEN n ELSE Len(seq))

(* Mutant of Page: one entry too many is skipped. *)
Page_SkipsOneMore(newest, num, start) == FirstOf(num, SubSeq(newest, start + 2, Len(newest)))

(* Skip start entries and take the next num, as far as there are any. *)
Page(newest, num, start) == FirstOf(num, SubSeq(newest, start + 1, Len(newest)))

(* Feed.LatestCount: num counts the entries looked at, not those returned. *)
LatestCount(f, num, start) ==
  LET bucket == {m \in Stored : m.author = f}
      newest == SortedBy(bucket, LAMBDA m, n : m.sequence > n.sequence)
  IN  Kept(Page(newest, num, start), Typed)

GetChannelLatest(channel, num, start) ==
  LET newest == Reverse(InTimeOrder(ix.channels[channel].time))
      page   == Page(newest, num, start)
  IN  [i \in DOMAIN page |-> GetMsg(page[i])]

(* Search: the posts that contain a word, newest first; 0 is no limit. *)
Search(term, max) ==
  LET found == Kept(Reverse(LogRead), {m \in Stored : Says(m, "post") /\ term \in Content[m].text})
  IN  IF max > 0 THEN FirstOf(max, found) ELSE found

(* DataStore.LatestCountFiltered: start entries are skipped before each of  *)
(* the entries that are looked at, until num of them have passed.          *)
LatestCountFiltered(num, start, filter) ==
  LET newest == Reverse(LogRead)
      looked == [j \in 1 .. Len(newest) \div (start + 1) |-> newest[j * (start + 1)]]
  IN  FirstOf(num, Kept(looked, {m \in Typed : m.author \in filter}))

-----------------------------------------------------------------------------
(* Threads, votes and repositories. *)

GetThread(root) == Fetch(InTimeOrder(ix.threads[root].time))
GetVotes(k)     == Fetch(ix.votes[k])

(* git.Get asks the log, the others the bucket of the repository. *)
IsRepo(k)      == GetMsg(k) # Nil /\ Says(GetMsg(k), "git-repo")
ListBlobs(k)   == ix.repos[k].blobs
ListUpdates(k) == ix.repos[k].updates
Issues(k)      == {GetMsg(i) : i \in ix.repos[k].issues}

-----------------------------------------------------------------------------
(* Mutant of Discover: a feed is entered again each time it is met. *)
Discover_Again(follows, n) ==
  [c \in {c \in Feed : \E k \in DOMAIN follows :
            /\ follows[k] = n
            /\ ix.graph[k][c] # Nil
            /\ ix.graph[k][c].following} |-> n + 1] @@ follows

(* One round of GetFollows: the feeds that those at distance n follow are  *)
(* at distance n + 1, unless they are in the map.  Feeds that are entered  *)
(* while Go ranges over the map have distance n + 1 and are passed over.   *)
Discover(follows, n) ==
  LET found == {c \in Feed : \E k \in DOMAIN follows :
                  /\ follows[k] = n
                  /\ ix.graph[k][c] # Nil
                  /\ ix.graph[k][c].following}
  IN  [c \in DOMAIN follows \cup found |-> IF c \in DOMAIN follows THEN follows[c] ELSE n + 1]

GetFollows(feed, depth) ==
  LET round[n \in 0 .. depth] ==
        IF n = 0 THEN [c \in {feed} |-> 0] ELSE Discover(round[n - 1], n - 1)
  IN  round[depth]

-----------------------------------------------------------------------------
(* The pages that cmd/sbot/webui.go asks for; the first one is number 1. *)
FeedPage(f, i) == LatestCount(f, PageSize, PageSize * i - PageSize)
Index(me, i)   == LatestCountFiltered(PageSize * i, PageSize * i - PageSize,
                                      DOMAIN GetFollows(me, 2))

Pages == 1 .. Len(order) + 1

-----------------------------------------------------------------------------
(* The places in the log of the messages of a type of which a field is v.  *)
Places(log, type, field, v) ==
  {i \in DOMAIN log : Says(log[i], type) /\ Content[log[i]][field] = v}

(* A bucket holds the messages at the places T of the log, and no others. *)
Holds(log, bucket, T) ==
  /\ \A k \in DOMAIN bucket : \E a \in T : bucket[k] = log[a].id
  /\ \A a \in T : \E k \in DOMAIN bucket : bucket[k] = log[a].id

(* A bucket "log" or "votes" holds them each once, in the order in which   *)
(* they were stored.                                                       *)
InLog(log, keys, T) ==
  /\ Holds(log, keys, T)
  /\ \A i, j \in DOMAIN keys, a, b \in T :
       i < j /\ keys[i] = log[a].id /\ keys[j] = log[b].id => a < b

(* The messages of a query are those at the places T, with Before between  *)
(* the places of each and those of all that come after it.                 *)
Shows(msgs, T, Before(_, _)) ==
  /\ ToSet(msgs) = {order[a] : a \in T}
  /\ \A i, j \in DOMAIN msgs, a, b \in T :
       i < j /\ msgs[i] = order[a] /\ msgs[j] = order[b] => Before(a, b)

(* In a list of n posts m may come before o.  Those that start from one key *)
(* come as they were stored, as placed says, and one before another if the  *)
(* other starts n keys later, unless the keys from there on run out.  So    *)
(* times after 1970 that an int can hold are in order, if a unit of time    *)
(* has n keys, and times before 1970 come after them.                      *)
Precedes(n, m, o, placed) ==
  LET Room(p)  == TimeKey(p.timestamp) + n <= KeySpace
      Dated(p) == 0 <= p.timestamp /\ p.timestamp * TimeScale + n <= HalfSpace
  IN  /\ Room(m) => TimeKey(m.timestamp) < TimeKey(o.timestamp) + n
      /\ Room(m) /\ TimeKey(m.timestamp) = TimeKey(o.timestamp) => placed
      /\ n <= TimeScale /\ Dated(m) /\ Dated(o) => m.timestamp <= o.timestamp

(* Each once, by time. *)
ShowsByTime(msgs, T) ==
  LET Before(a, b) == a # b /\ Precedes(Cardinality(T), order[a], order[b], a < b)
  IN  Shows(msgs, T, Before)

(***************************************************************************)
(* However many posts compete for the keys of one moment, a thread and a   *)
(* channel keep and show each of their posts exactly once, by time, and a  *)
(* message shows each vote on it, the earlier ones than itself included    *)
(* (social.go:120-168, 191-234, channels.go:40-102).                       *)
(***************************************************************************)
PostsAreListed ==
  KeysDiffer =>
  /\ \A k \in Key :
       LET posts == Places(order, "post", "root", k)
           votes == Places(order, "vote", "link", k)
       IN  /\ InLog(order, ix.threads[k].log, posts)
           /\ ShowsByTime(GetThread(k), posts)
           /\ Shows(GetVotes(k), votes, <)
  /\ \A c \in Channel :
       LET posts == Places(order, "post", "channel", c)
       IN  /\ InLog(order, ix.channels[c].log, posts)
           /\ ShowsByTime(Reverse(GetChannelLatest(c, Len(order), 0)), posts)

(***************************************************************************)
(* A repository lists every blob, update and issue that a stored message   *)
(* names it in, in whichever order they and the repository were stored: a  *)
(* blob that is missing here is never wanted, and what has a page as a     *)
(* repository has its entry (git.go:70-137, 157-266).                      *)
(***************************************************************************)
RepoIsComplete ==
  KeysDiffer => \A k \in Key :
    LET Of(type) == {m \in Stored : Says(m, type)}
        updates  == {m \in Of("git-update") : Content[m].repo = k}
    IN  /\ IsRepo(k) <=> ix.repos[k].info = k
        /\ ListUpdates(k) = {m.id : m \in updates}
        /\ ListBlobs(k) = UNION {Content[m].packs \cup Content[m].indexes : m \in updates}
        /\ Issues(k) = {m \in Of("issue") : Content[m].project = k}

(* Page after page, the messages of S are shown, with Before between each  *)
(* and all that come after it.                                             *)
PagesShow(page, S, Before(_, _)) ==
  /\ UNION {ToSet(page[i]) : i \in DOMAIN page} = S
  /\ \A i, j \in DOMAIN page : \A a \in DOMAIN page[i], b \in DOMAIN page[j] :
       i < j \/ (i = j /\ a < b) => Before(page[i][a], page[j][b])

(***************************************************************************)
(* Paging through a feed shows each of its messages that have a type once, *)
(* newest first, although private ones count towards a page; consecutive   *)
(* slices of a channel show each of its posts once, the latest first as    *)
(* far as Precedes says; and a search that leaves out a post has found as  *)
(* many newer ones as it may                                               *)
(* (feeds.go:552-584, channels.go:69-102, search.go:11-36).                *)
(***************************************************************************)
PagesCover ==
  /\ \A f \in Feed :
       PagesShow([i \in Pages |-> FeedPage(f, i)], {m \in Typed : m.author = f},
                 LAMBDA m, n : m.sequence > n.sequence)
  /\ KeysDiffer => \A c \in Channel :
       LET posts == {m \in Stored : Says(m, "post") /\ Content[m].channel = c}
       IN  PagesShow([i \in Pages |-> GetChannelLatest(c, PageSize, PageSize * (i - 1))], posts,
                     LAMBDA m, n : m # n /\ Precedes(Cardinality(posts), n, m, TRUE))
  /\ KeysDiffer => \A w \in Word, max \in 0 .. 2 :
       LET found == Search(w, max)
           Has(m) == Says(m, "post") /\ w \in Content[m].text
           Newer(m, n) == \E i, j \in DOMAIN order : i > j /\ order[i] = m /\ order[j] = n
       IN  /\ IsInjective(found)
           /\ \A m \in ToSet(found) : Has(m)
           /\ \A n \in {m \in Stored : Has(m)} \ ToSet(found) :
                max = Len(found) /\ max > 0 /\ \A m \in ToSet(found) : Newer(m, n)

(***************************************************************************)
(* GetFollows gives exactly the feeds that a chain of at most depth        *)
(* follows leads to, each with the length of its shortest chain, in spite  *)
(* of cycles and of entering feeds while ranging over the map: replication *)
(* asks for these feeds and for no others (graph.go:62-96).                *)
(***************************************************************************)
FollowsAreNearest ==
  \A f \in Feed, depth \in 0 .. 2 :
    LET Follows(a, c) == ix.graph[a][c] # Nil /\ ix.graph[a][c].following
        Chain(c, n) == \E w \in [0 .. n -> Feed] :
                         /\ w[0] = f /\ w[n] = c
                         /\ \A i \in 1 .. n : Follows(w[i - 1], w[i])
        near == {c \in Feed : \E n \in 0 .. depth : Chain(c, n)}
    IN  GetFollows(f, depth) =
          [c \in near |-> CHOOSE n \in 0 .. depth :
                            Chain(c, n) /\ \A o \in 0 .. n - 1 : ~Chain(c, o)]

(***************************************************************************)
(* Every message of a feed within the distance of the index page is on     *)
(* some page that "next" leads to: page p is to start where the page       *)
(* before it ended, as it does for a feed (webui.go:542, 583).             *)
(***************************************************************************)
IndexPagesCover ==
  \A me \in Feed, m \in Stored :
    m.author \in DOMAIN GetFollows(me, 2) /\ m \in Typed
      => \E i \in Pages : m \in ToSet(Index(me, i))
=============================================================================
