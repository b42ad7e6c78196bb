---------------------------- MODULE IndexProofs -----------------------------
(***************************************************************************)
(* Proofs about the indexes and about what is read from them, for any      *)
(* feeds, messages and contents.  The provers do not instantiate the       *)
(* induction theorems of the library, which take an operator, so           *)
(* inductions over a number are done with sets: NatSets says that a set    *)
(* of numbers that holds 0, and n + 1 with every n, holds them all.        *)
(***************************************************************************)
EXTENDS Queries, FiniteSetTheorems, SequenceTheorems, TLAPS

-----------------------------------------------------------------------------
(* Numbers. *)

LEMMA NatOrder ==
  \E R : IsWellFoundedOn(R, Nat) /\ \A k, n \in Nat : <<k, n>> \in R <=> k < n
<1>1. \A k, n \in Nat : <<k, n>> \in OpToRel(<, Nat) <=> k < n
  BY DEF OpToRel
<1> QED BY <1>1, NatLessThanWellFounded

(* A set of numbers has a smallest one. *)
LEMMA NatMin ==
  ASSUME NEW T, T \subseteq Nat, T # {}
  PROVE  \E n \in T : \A k \in T : n <= k
<1>1. PICK R : IsWellFoundedOn(R, Nat) /\ \A k, n \in Nat : <<k, n>> \in R <=> k < n
  BY NatOrder
<1>2. IsWellFoundedOn(R, Nat)
  BY <1>1
<1>3. PICK n \in T : \A k \in T : ~ (<<k, n>> \in R)
  <2>1. \E x \in T : \A y \in T : ~ (<<y, x>> \in R)
    <3> HIDE <1>1
    <3> QED BY <1>2, WFMin
  <2> QED BY <2>1
<1>4. ASSUME NEW k \in T PROVE n <= k
  <2>1. n \in Nat /\ k \in Nat
    OBVIOUS
  <2>2. ~ (<<k, n>> \in R)
    BY <1>3
  <2>3. ~ (k < n)
    BY <2>1, <2>2, <1>1
  <2> QED BY <2>1, <2>3
<1> QED BY <1>4

(* Induction. *)
LEMMA NatSets ==
  ASSUME NEW S, 0 \in S, \A n \in Nat : n \in S => n + 1 \in S
  PROVE  \A n \in Nat : n \in S
<1> DEFINE T == {n \in Nat : n \notin S}
<1>1. SUFFICES ASSUME T # {} PROVE FALSE
  OBVIOUS
<1>2. PICK n \in T : \A k \in T : n <= k
  BY <1>1, NatMin
<1>3. n \in Nat /\ n # 0
  OBVIOUS
<1>4. n - 1 \in Nat /\ n - 1 + 1 = n /\ ~ (n <= n - 1)
  BY <1>3
<1>5. n - 1 \in S
  BY <1>2, <1>4
<1> QED BY <1>4, <1>5

-----------------------------------------------------------------------------
(* The log and what a rebuild makes of it. *)

(* h[n] is what a rebuild of x has made after n messages of the log. *)
After(mods, x, log, h) ==
  h = [n \in 0 .. Len(log) |->
         IF n = 0 THEN Clear(mods, x) ELSE RunHooks(mods, h[n - 1], log[n])]

LEMMA AfterExists ==
  ASSUME NEW mods, NEW x, NEW log \in Seq(Msg)
  PROVE  \E h : After(mods, x, log, h)
<1> DEFINE Upto(n, h) == h = [i \in 0 .. n |->
                               IF i = 0 THEN Clear(mods, x) ELSE RunHooks(mods, h[i - 1], log[i])]
           S == {n \in Nat : \E h : Upto(n, h)}
<1>1. 0 \in S
  <2> DEFINE h == [i \in 0 .. 0 |-> Clear(mods, x)]
  <2>1. Upto(0, h)
    OBVIOUS
  <2> QED BY <2>1
<1>2. ASSUME NEW n \in Nat, n \in S PROVE n + 1 \in S
  <2>1. PICK h : Upto(n, h)
    BY <1>2
  <2> DEFINE g == [i \in 0 .. n + 1 |-> IF i = n + 1 THEN RunHooks(mods, h[n], log[n + 1]) ELSE h[i]]
  <2>2. /\ \A i \in 0 .. n : g[i] = h[i]
        /\ \A i \in 0 .. n :
             h[i] = IF i = 0 THEN Clear(mods, x) ELSE RunHooks(mods, h[i - 1], log[i])
    BY <2>1
  <2>3. \A i \in 0 .. n + 1 :
          g[i] = IF i = 0 THEN Clear(mods, x) ELSE RunHooks(mods, g[i - 1], log[i])
    <3> TAKE i \in 0 .. n + 1
    <3>1. CASE i = n + 1
      <4>1. g[i] = RunHooks(mods, h[n], log[n + 1]) /\ g[i - 1] = h[n] /\ i # 0
        BY <3>1, <2>2
      <4> QED BY <3>1, <4>1
    <3>2. CASE i # n + 1
      <4>1. i \in 0 .. n /\ g[i] = h[i] /\ (i # 0 => g[i - 1] = h[i - 1])
        BY <3>2, <2>2
      <4> QED BY <2>2, <4>1
    <3> QED BY <3>1, <3>2
  <2>4. Upto(n + 1, g)
    BY <2>3
  <2> HIDE DEF Upto, g
  <2> QED BY <2>4
<1>3. Len(log) \in S
  <2> HIDE DEF S
  <2> QED BY <1>1, <1>2, NatSets
<1> QED BY <1>3 DEF After

Run(mods, x, log, h) ==
  /\ h[0] = Clear(mods, x)
  /\ \A n \in 1 .. Len(log) : h[n] = RunHooks(mods, h[n - 1], log[n])

LEMMA ReplayUnfolds ==
  ASSUME NEW mods, NEW x, NEW log \in Seq(Msg)
  PROVE  \E h : Replay(mods, x, log) = h[Len(log)] /\ Run(mods, x, log, h)
<1> DEFINE h == CHOOSE h : h = [n \in 0 .. Len(log) |->
                   IF n = 0 THEN Clear(mods, x) ELSE RunHooks(mods, h[n - 1], log[n])]
<1>1. h = [n \in 0 .. Len(log) |->
             IF n = 0 THEN Clear(mods, x) ELSE RunHooks(mods, h[n - 1], log[n])]
  BY AfterExists DEF After
<1>2. Replay(mods, x, log) = h[Len(log)]
  BY DEF Replay
<1> HIDE DEF h
<1>3. Run(mods, x, log, h)
  BY <1>1 DEF Run
<1> QED BY <1>2, <1>3

LEMMA ReplayEmpty ==
  ASSUME NEW mods, NEW x
  PROVE  Replay(mods, x, <<>>) = Clear(mods, x)
<1>1. <<>> \in Seq(Msg) /\ Len(<<>>) = 0
  OBVIOUS
<1>2. PICK h : Replay(mods, x, <<>>) = h[Len(<<>>)] /\ Run(mods, x, <<>>, h)
  BY <1>1, ReplayUnfolds
<1> QED BY <1>1, <1>2 DEF Run

Begins(s, t) == Len(s) <= Len(t) /\ \A i \in 1 .. Len(s) : s[i] = t[i]

(* Two replays of which one is of a part of what the other is of, and of a *)
(* part of its modules: they agree on what they share.                     *)
LEMMA ReplaysAgree ==
  ASSUME NEW mods, NEW x, NEW y, NEW s \in Seq(Msg), NEW t \in Seq(Msg), NEW all, mods \subseteq all,
         Begins(s, t),
         NEW g, Run(mods, x, s, g), NEW h, Run(all, y, t, h)
  PROVE  \A n \in 0 .. Len(s) : g[n] = OfModules(mods, h[n], x)
<1> DEFINE S == {n \in Nat : n <= Len(s) => g[n] = OfModules(mods, h[n], x)}
<1>1. 0 \in S
  BY DEF Run, Clear, OfModules
<1>2. ASSUME NEW n \in Nat, n \in S PROVE n + 1 \in S
  <2> SUFFICES ASSUME n + 1 <= Len(s) PROVE g[n + 1] = OfModules(mods, h[n + 1], x)
    OBVIOUS
  <2> DEFINE m == s[n + 1]
  <2>1. g[n] = OfModules(mods, h[n], x)
    BY <1>2
  <2>2. n + 1 \in 1 .. Len(s) /\ n + 1 \in 1 .. Len(t) /\ n + 1 - 1 = n /\ t[n + 1] = m
    BY DEF Begins
  <2>3. g[n + 1] = RunHooks(mods, g[n], m) /\ h[n + 1] = RunHooks(all, h[n], m)
    BY <2>2 DEF Run
  <2> HIDE DEF m
  <2> QED BY <2>1, <2>3 DEF RunHooks, Entered, OfModules
<1>3. \A n \in Nat : n \in S
  <2> HIDE DEF S
  <2> QED BY <1>1, <1>2, NatSets
<1> QED BY <1>3

(* The buckets as a rebuild of everything makes them. *)
Replayed(log) == Replay(Module, EmptyIx, log)

LEMMA ReplayedEmpty == Replayed(<<>>) = EmptyIx
BY ReplayEmpty DEF Replayed, Clear, OfModules, EmptyIx, Module

(* A rebuild of some modules makes their buckets anew and leaves others.   *)
LEMMA ReplayIsReplayed ==
  ASSUME NEW mods \in SUBSET Module, NEW x, NEW log \in Seq(Msg)
  PROVE  Replay(mods, x, log) = OfModules(mods, Replayed(log), x)
<1>1. PICK g : Replay(mods, x, log) = g[Len(log)] /\ Run(mods, x, log, g)
  BY ReplayUnfolds
<1>2. PICK h : Replayed(log) = h[Len(log)] /\ Run(Module, EmptyIx, log, h)
  BY ReplayUnfolds DEF Replayed
<1>3. \A n \in 0 .. Len(log) : g[n] = OfModules(mods, h[n], x)
  <2>1. mods \subseteq Module /\ Begins(log, log)
    BY DEF Begins
  <2> QED BY <1>1, <1>2, <2>1, ReplaysAgree
<1> QED BY <1>1, <1>2, <1>3

(* One more message: its hooks are run on what the others made.            *)
LEMMA ReplayedAppend ==
  ASSUME NEW log \in Seq(Msg), NEW m \in Msg
  PROVE  Replayed(Append(log, m)) = Entered(Replayed(log), m)
<1> DEFINE t == Append(log, m)
<1>0. /\ t \in Seq(Msg) /\ Len(t) = Len(log) + 1 /\ t[Len(log) + 1] = m
      /\ \A i \in 1 .. Len(log) : log[i] = t[i]
  OBVIOUS
<1> HIDE DEF t
<1>1. PICK g : Replayed(log) = g[Len(log)] /\ Run(Module, EmptyIx, log, g)
  BY ReplayUnfolds DEF Replayed
<1>2. PICK h : Replayed(t) = h[Len(t)] /\ Run(Module, EmptyIx, t, h)
  BY <1>0, ReplayUnfolds DEF Replayed
<1>3. \A n \in 0 .. Len(log) : g[n] = OfModules(Module, h[n], EmptyIx)
  <2>1. Module \subseteq Module /\ Begins(log, t)
    BY <1>0 DEF Begins
  <2> QED BY <1>0, <1>1, <1>2, <2>1, ReplaysAgree
<1>4. g[Len(log)] = OfModules(Module, h[Len(log)], EmptyIx)
  BY <1>3
<1>5. h[Len(log) + 1] = RunHooks(Module, h[Len(log)], m)
  BY <1>0, <1>2 DEF Run
<1>6. RunHooks(Module, h[Len(log)], m) = Entered(g[Len(log)], m)
  BY <1>4 DEF RunHooks, OfModules, Entered, Module
<1> QED BY <1>0, <1>1, <1>2, <1>5, <1>6 DEF t

-----------------------------------------------------------------------------
(* Types. *)

LEMMA MsgFields ==
  ASSUME NEW m \in Msg
  PROVE  /\ m.id \in Key /\ m.author \in Feed /\ m.sequence \in Nat /\ m.timestamp \in Int
         /\ Content[m] \in Contents
BY MessageAssumption, ContentAssumption

LEMMA NilApart ==
  /\ Nil \notin Feed /\ Nil \notin Key /\ Nil \notin Msg /\ Nil \notin Channel /\ Nil \notin Name
  /\ Nil \notin Addr /\ Nil # TRUE /\ Nil # FALSE /\ Nil \notin Relation
BY MessageAssumption, ContentAssumption

(* What a message of each type says. *)
LEMMA Said ==
  ASSUME NEW c \in Contents
  PROVE  /\ c.type = "contact" => /\ c.contact \in Feed \cup {Nil}
                                  /\ c.following \in BOOLEAN \cup {Nil}
                                  /\ c.blocking \in BOOLEAN \cup {Nil}
         /\ c.type = "about" => /\ c.about \in Feed \cup {Nil}
                                /\ c.name \in Name \cup {Nil}
                                /\ c.image \in Name \cup {Nil}
         /\ c.type = "vote" => c.link \in Key
         /\ c.type = "post" => c.root \in Key \cup {Nil} /\ c.channel \in Channel \cup {Nil}
         /\ c.type = "git-update" => /\ c.repo \in Key
                                     /\ c.packs \in SUBSET Blob
                                     /\ c.indexes \in SUBSET Blob
         /\ c.type = "issue" => c.project \in Key
         /\ c.type = "pub" => c.key \in Feed \cup {Nil} /\ c.host \in Addr
BY DEF Contents

Profile == [name : Name \cup {Nil}, image : Name \cup {Nil}]

Repo == [info : Key \cup {Nil}, updates : SUBSET Key, blobs : SUBSET Blob, issues : SUBSET Key]

(* A list of at most n entries. *)
ListTypes(list, n) ==
  IsList(list) /\ IsFiniteSet(DOMAIN list.time) /\ Cardinality(DOMAIN list.time) <= n

ListsTypes(S, lists, n) ==
  lists = [k \in S |-> lists[k]] /\ \A k \in S : ListTypes(lists[k], n)

(* The buckets that n messages make. *)
IxTypes(x, n) ==
  /\ x.graph \in [Feed -> [Feed -> Relation \cup {Nil}]]
  /\ x.about \in [Feed -> Profile]
  /\ x.votes \in [Key -> Seq(Key)]
  /\ ListsTypes(Key, x.threads, n)
  /\ ListsTypes(Channel, x.channels, n)
  /\ x.repos \in [Key -> Repo]
  /\ x.pubs \in [Feed -> Addr \cup {Nil}]

LEMMA EmptyTypes == IxTypes(EmptyIx, 0)
<1>1. ListTypes(EmptyList, 0)
  <2>1. EmptyList.log = <<>> /\ EmptyList.time = <<>> /\ DOMAIN <<>> = {}
    BY DEF EmptyList
  <2>2. EmptyList.log \in Seq(Key) /\ EmptyList.time \in [{} -> Key] /\ IsFiniteSet({}) /\ Cardinality({}) = 0
    BY <2>1, FS_EmptySet
  <2> QED BY <2>1, <2>2 DEF ListTypes, IsList
<1>2. EmptyRepo \in Repo
  BY DEF EmptyRepo, Repo
<1>3. /\ EmptyIx.graph = [f \in Feed |-> [c \in Feed |-> Nil]]
      /\ EmptyIx.about = [f \in Feed |-> [name |-> Nil, image |-> Nil]]
      /\ EmptyIx.votes = [k \in Key |-> <<>>]
      /\ EmptyIx.threads = [k \in Key |-> EmptyList]
      /\ EmptyIx.channels = [c \in Channel |-> EmptyList]
      /\ EmptyIx.repos = [k \in Key |-> EmptyRepo]
      /\ EmptyIx.pubs = [f \in Feed |-> Nil]
  BY DEF EmptyIx
<1>4. ListsTypes(Key, EmptyIx.threads, 0) /\ ListsTypes(Channel, EmptyIx.channels, 0)
  BY <1>1, <1>3 DEF ListsTypes
<1>5. /\ EmptyIx.graph \in [Feed -> [Feed -> Relation \cup {Nil}]]
      /\ EmptyIx.about \in [Feed -> Profile]
      /\ EmptyIx.votes \in [Key -> Seq(Key)]
  BY <1>3 DEF Profile
<1>6. EmptyIx.repos \in [Key -> Repo] /\ EmptyIx.pubs \in [Feed -> Addr \cup {Nil}]
  BY <1>2, <1>3
<1> QED BY <1>4, <1>5, <1>6 DEF IxTypes

LEMMA GraphTypes ==
  ASSUME NEW graph \in [Feed -> [Feed -> Relation \cup {Nil}]], NEW m \in Msg
  PROVE  HandleGraph(graph, m) \in [Feed -> [Feed -> Relation \cup {Nil}]]
<1> DEFINE c == Content[m]
<1>1. CASE c.type # "contact" \/ c.contact = Nil
  BY <1>1 DEF HandleGraph
<1>2. CASE c.type = "contact" /\ c.contact # Nil
  <2> DEFINE r == IF graph[m.author][c.contact] = Nil THEN NoRelation ELSE graph[m.author][c.contact]
             n == [following |-> IF c.following = Nil THEN r.following ELSE c.following,
                   blocking  |-> IF c.blocking = Nil THEN r.blocking ELSE c.blocking]
  <2>1. /\ m.author \in Feed /\ c.contact \in Feed
        /\ c.following \in BOOLEAN \cup {Nil} /\ c.blocking \in BOOLEAN \cup {Nil}
    BY <1>2, MsgFields, Said
  <2>2. r \in Relation
    BY <2>1 DEF NoRelation, Relation
  <2>3. n \in Relation
    BY <2>1, <2>2 DEF Relation
  <2>4. HandleGraph(graph, m) = [graph EXCEPT ![m.author][c.contact] = n]
    BY <1>2 DEF HandleGraph
  <2> HIDE DEF n
  <2> QED BY <2>1, <2>3, <2>4
<1> QED BY <1>1, <1>2

LEMMA AboutTypes ==
  ASSUME NEW about \in [Feed -> Profile], NEW m \in Msg
  PROVE  HandleAbout(about, m) \in [Feed -> Profile]
<1> DEFINE c == Content[m]
<1>1. CASE c.type # "about" \/ c.about # m.author
  BY <1>1 DEF HandleAbout
<1>2. CASE c.type = "about" /\ c.about = m.author
  <2> DEFINE a == about[m.author]
             n == [name  |-> IF c.name = Nil THEN a.name ELSE c.name,
                   image |-> IF c.image = Nil THEN a.image ELSE c.image]
  <2>1. m.author \in Feed /\ c.name \in Name \cup {Nil} /\ c.image \in Name \cup {Nil}
    BY <1>2, MsgFields, Said
  <2>2. n \in Profile
    BY <2>1 DEF Profile
  <2>3. HandleAbout(about, m) = [about EXCEPT ![m.author] = n]
    BY <1>2 DEF HandleAbout
  <2> HIDE DEF n
  <2> QED BY <2>1, <2>2, <2>3
<1> QED BY <1>1, <1>2

LEMMA VoteTypes ==
  ASSUME NEW votes \in [Key -> Seq(Key)], NEW m \in Msg
  PROVE  HandleVote(votes, m) \in [Key -> Seq(Key)]
<1>1. m.id \in Key /\ (Says(m, "vote") => Content[m].link \in Key)
  BY MsgFields, Said DEF Says
<1> QED BY <1>1 DEF HandleVote

(* The keys of times, and that one is always free. *)
LEMMA KeySpaceIs ==
  /\ HalfSpace \in Nat \ {0} /\ KeySpace = 2 * HalfSpace /\ KeySpace \in Nat \ {0}
  /\ TimeScale \in Nat \ {0} /\ TimeKeys = 0 .. KeySpace - 1 /\ TimeKeys \subseteq Nat
  /\ TooLate \in TimeKeys /\ TooEarly \in TimeKeys
BY ContentAssumption DEF KeySpace, TimeKeys

LEMMA TimeKeyIs ==
  ASSUME NEW t \in Int
  PROVE  TimeKey(t) \in TimeKeys /\ TimeKey(t) \in Nat
<1> DEFINE i == t * TimeScale
<1>1. i \in Int
  BY KeySpaceIs
<1>2. TimeKey(t) = IF i >= HalfSpace THEN TooLate
                   ELSE IF i < -HalfSpace THEN TooEarly
                   ELSE IF i < 0 THEN i + KeySpace ELSE i
  BY DEF TimeKey
<1> HIDE DEF i
<1> QED BY <1>1, <1>2, KeySpaceIs

LEMMA FirstFreeIs ==
  ASSUME NEW D, D \subseteq TimeKeys, IsFiniteSet(D), Cardinality(D) < KeySpace,
         NEW k \in TimeKeys
  PROVE  /\ FirstFree(D, k) \in TimeKeys /\ FirstFree(D, k) \notin D
         /\ k + Cardinality(D) < KeySpace
              => /\ FirstFree(D, k) \in k .. k + Cardinality(D)
                 /\ k .. FirstFree(D, k) - 1 \subseteq D
<1> DEFINE n == Cardinality(D)
           T == {d \in 0 .. n : KeyAfter(k, d) \notin D}
           First(d) == KeyAfter(k, d) \notin D /\ \A e \in 0 .. d - 1 : KeyAfter(k, e) \in D
<1>1. n \in Nat /\ n < KeySpace /\ k \in Nat /\ k < KeySpace /\ KeySpace \in Nat
  BY FS_CardinalityType, KeySpaceIs
<1>2. /\ \A d \in 0 .. n : KeyAfter(k, d) \in TimeKeys
      /\ \A d, e \in 0 .. n : KeyAfter(k, d) = KeyAfter(k, e) => d = e
  BY <1>1, KeySpaceIs DEF KeyAfter
<1>3. T # {}
  <2> SUFFICES ASSUME \A d \in 0 .. n : KeyAfter(k, d) \in D PROVE FALSE
    OBVIOUS
  <2> DEFINE f == [d \in 0 .. n |-> KeyAfter(k, d)]
  <2>1. f \in Injection(0 .. n, D)
    BY <1>2, Zenon DEF Injection, IsInjective
  <2>2. Cardinality(0 .. n) <= n
    <3> HIDE DEF f
    <3> QED BY <2>1, FS_Injection
  <2>3. Cardinality(0 .. n) = n + 1
    BY <1>1, FS_Interval
  <2> QED BY <1>1, <2>2, <2>3
<1>4. PICK d \in T : \A e \in T : d <= e
  <2>1. T \subseteq Nat
    BY <1>1
  <2> HIDE DEF T
  <2> QED BY <1>3, <2>1, NatMin
<1>5. d \in 0 .. n /\ First(d)
  <2>1. d \in 0 .. n /\ d \in Nat /\ KeyAfter(k, d) \notin D
    BY <1>1
  <2>2. ASSUME NEW e \in 0 .. d - 1 PROVE KeyAfter(k, e) \in D
    <3>1. e \in 0 .. n /\ ~ (d <= e)
      BY <1>1, <2>1
    <3> QED BY <1>4, <3>1
  <2> QED BY <2>1, <2>2
<1> DEFINE c == CHOOSE c \in 0 .. n : First(c)
<1>6. c \in 0 .. n /\ First(c)
  BY <1>5
<1>7. FirstFree(D, k) = KeyAfter(k, c)
  BY DEF FirstFree
<1> HIDE DEF c
<1>8. ASSUME k + n < KeySpace
      PROVE  FirstFree(D, k) \in k .. k + n /\ k .. FirstFree(D, k) - 1 \subseteq D
  <2>1. FirstFree(D, k) = k + c
    BY <1>1, <1>6, <1>7, <1>8 DEF KeyAfter
  <2>2. ASSUME NEW q \in k .. k + c - 1 PROVE q \in D
    <3>1. q - k \in 0 .. c - 1 /\ KeyAfter(k, q - k) = q
      BY <1>1, <1>6, <1>8 DEF KeyAfter
    <3> QED BY <1>6, <3>1
  <2> QED BY <1>1, <1>6, <2>1, <2>2
<1> QED BY <1>2, <1>6, <1>7, <1>8

LEMMA ListKeeps ==
  ASSUME NEW n \in Nat, n < KeySpace, NEW list, ListTypes(list, n), NEW m \in Msg
  PROVE  ListTypes(AddToList(list, m), n + 1)
<1> DEFINE D == DOMAIN list.time
           free == FirstFree(D, TimeKey(m.timestamp))
           new == [k \in D \cup {free} |-> IF k = free THEN m.id ELSE list.time[k]]
<1>1. /\ list.log \in Seq(Key) /\ D \subseteq TimeKeys /\ list.time \in [D -> Key]
      /\ IsFiniteSet(D) /\ Cardinality(D) \in Nat /\ Cardinality(D) <= n
  BY FS_CardinalityType DEF ListTypes, IsList
<1>2. TimeKey(m.timestamp) \in TimeKeys /\ m.id \in Key /\ KeySpace \in Nat
  BY MsgFields, TimeKeyIs, KeySpaceIs
<1>3. free \in TimeKeys /\ free \notin D
  BY <1>1, <1>2, FirstFreeIs
<1>4. AddToList(list, m).log = Append(list.log, m.id) /\ AddToList(list, m).time = new
  BY DEF AddToList
<1> HIDE DEF free
<1>5. new \in [D \cup {free} -> Key] /\ DOMAIN new = D \cup {free} /\ D \cup {free} \subseteq TimeKeys
  BY <1>1, <1>2, <1>3
<1>6. IsFiniteSet(D \cup {free}) /\ Cardinality(D \cup {free}) = Cardinality(D) + 1
  BY <1>1, <1>3, FS_AddElement
<1>7. Append(list.log, m.id) \in Seq(Key)
  BY <1>1, <1>2
<1> HIDE DEF new, D
<1>8. Cardinality(DOMAIN new) <= n + 1
  BY <1>1, <1>5, <1>6
<1> QED BY <1>4, <1>5, <1>6, <1>7, <1>8 DEF ListTypes, IsList

LEMMA ListsGrow ==
  ASSUME NEW S, NEW lists, NEW n \in Nat, ListsTypes(S, lists, n), NEW p \in Nat, n <= p
  PROVE  ListsTypes(S, lists, p)
<1>1. ASSUME NEW k \in S PROVE ListTypes(lists[k], p)
  <2>1. ListTypes(lists[k], n)
    BY DEF ListsTypes
  <2>2. Cardinality(DOMAIN lists[k].time) \in Nat
    BY <2>1, FS_CardinalityType DEF ListTypes
  <2> QED BY <2>1, <2>2 DEF ListTypes
<1> QED BY <1>1 DEF ListsTypes

LEMMA ThreadTypes ==
  ASSUME NEW n \in Nat, n < KeySpace, NEW threads, ListsTypes(Key, threads, n), NEW m \in Msg
  PROVE  ListsTypes(Key, HandleThread(threads, m), n + 1)
<1> DEFINE c == Content[m]
<1>1. CASE c.type # "post" \/ c.root = Nil
  <2>1. HandleThread(threads, m) = threads
    BY <1>1 DEF HandleThread
  <2>2. n + 1 \in Nat /\ n <= n + 1
    OBVIOUS
  <2> QED BY <2>1, <2>2, ListsGrow
<1>2. CASE c.type = "post" /\ c.root # Nil
  <2>1. c.root \in Key
    BY <1>2, MsgFields, Said
  <2>2. HandleThread(threads, m) = [threads EXCEPT ![c.root] = AddToList(@, m)]
    BY <1>2 DEF HandleThread
  <2>3. ListTypes(AddToList(threads[c.root], m), n + 1)
    BY <2>1, ListKeeps DEF ListsTypes
  <2>4. ListsTypes(Key, threads, n + 1)
    BY ListsGrow
  <2> QED BY <2>1, <2>2, <2>3, <2>4 DEF ListsTypes
<1> QED BY <1>1, <1>2

LEMMA ChannelTypes ==
  ASSUME NEW n \in Nat, n < KeySpace, NEW channels, ListsTypes(Channel, channels, n), NEW m \in Msg
  PROVE  ListsTypes(Channel, HandleChannel(channels, m), n + 1)
<1> DEFINE c == Content[m]
<1>1. CASE c.type # "post" \/ c.channel = Nil
  <2>1. HandleChannel(channels, m) = channels
    BY <1>1 DEF HandleChannel
  <2>2. n + 1 \in Nat /\ n <= n + 1
    OBVIOUS
  <2> QED BY <2>1, <2>2, ListsGrow
<1>2. CASE c.type = "post" /\ c.channel # Nil
  <2>1. c.channel \in Channel
    BY <1>2, MsgFields, Said
  <2>2. HandleChannel(channels, m) = [channels EXCEPT ![c.channel] = AddToList(@, m)]
    BY <1>2 DEF HandleChannel
  <2>3. ListTypes(AddToList(channels[c.channel], m), n + 1)
    BY <2>1, ListKeeps DEF ListsTypes
  <2>4. ListsTypes(Channel, channels, n + 1)
    BY ListsGrow
  <2> QED BY <2>1, <2>2, <2>3, <2>4 DEF ListsTypes
<1> QED BY <1>1, <1>2

LEMMA GitTypes ==
  ASSUME NEW repos \in [Key -> Repo], NEW m \in Msg
  PROVE  HandleGit(repos, m) \in [Key -> Repo]
<1> DEFINE c == Content[m]
<1>0. m.id \in Key /\ c \in Contents
  BY MsgFields
<1>1. CASE c.type = "git-repo"
  <2>1. HandleGit(repos, m) = [repos EXCEPT ![m.id].info = m.id]
    BY <1>1 DEF HandleGit
  <2> QED BY <1>0, <2>1 DEF Repo
<1>2. CASE c.type = "git-update"
  <2> DEFINE r == repos[c.repo]
             n == [r EXCEPT !.updates = @ \cup {m.id}, !.blobs = @ \cup c.packs \cup c.indexes]
  <2>1. c.repo \in Key /\ c.packs \in SUBSET Blob /\ c.indexes \in SUBSET Blob
    BY <1>0, <1>2, Said
  <2>2. n \in Repo
    <3>1. r \in Repo /\ r.updates \in SUBSET Key /\ r.blobs \in SUBSET Blob
      BY <2>1 DEF Repo
    <3>2. r.updates \cup {m.id} \in SUBSET Key /\ r.blobs \cup c.packs \cup c.indexes \in SUBSET Blob
      BY <1>0, <2>1, <3>1
    <3> HIDE DEF r, c
    <3> QED BY <3>1, <3>2 DEF Repo
  <2>3. HandleGit(repos, m) = [repos EXCEPT ![c.repo].updates = @ \cup {m.id},
                                            ![c.repo].blobs = @ \cup c.packs \cup c.indexes]
    BY <1>2 DEF HandleGit
  <2>4. HandleGit(repos, m) = [repos EXCEPT ![c.repo] = n]
    BY <2>1, <2>3 DEF Repo
  <2> HIDE DEF n
  <2> QED BY <2>1, <2>2, <2>4
<1>3. CASE c.type = "issue"
  <2>1. c.project \in Key
    BY <1>0, <1>3, Said
  <2> DEFINE r == repos[c.project]
             n == [r EXCEPT !.issues = @ \cup {m.id}]
  <2>2. n \in Repo
    <3>1. r \in Repo /\ r.issues \in SUBSET Key
      BY <2>1 DEF Repo
    <3>2. r.issues \cup {m.id} \in SUBSET Key
      BY <1>0, <3>1
    <3> HIDE DEF r
    <3> QED BY <3>1, <3>2 DEF Repo
  <2>3. HandleGit(repos, m) = [repos EXCEPT ![c.project] = n]
    BY <1>3, <2>1 DEF HandleGit, Repo
  <2> HIDE DEF n
  <2> QED BY <2>1, <2>2, <2>3
<1>4. CASE c.type \notin {"git-repo", "git-update", "issue"}
  BY <1>4 DEF HandleGit
<1> QED BY <1>1, <1>2, <1>3, <1>4

LEMMA PubTypes ==
  ASSUME NEW pubs \in [Feed -> Addr \cup {Nil}], NEW m \in Msg
  PROVE  HandlePub(pubs, m) \in [Feed -> Addr \cup {Nil}]
<1> DEFINE c == Content[m]
<1>1. c.type = "pub" => c.key \in Feed \cup {Nil} /\ c.host \in Addr
  BY MsgFields, Said
<1> QED BY <1>1 DEF HandlePub

LEMMA EnteredTypes ==
  ASSUME NEW n \in Nat, n < KeySpace, NEW x, IxTypes(x, n), NEW m \in Msg
  PROVE  IxTypes(Entered(x, m), n + 1)
<1> DEFINE y == Entered(x, m)
<1>1. /\ y.graph = HandleGraph(x.graph, m) /\ y.about = HandleAbout(x.about, m)
      /\ y.votes = HandleVote(x.votes, m) /\ y.threads = HandleThread(x.threads, m)
      /\ y.channels = HandleChannel(x.channels, m) /\ y.repos = HandleGit(x.repos, m)
      /\ y.pubs = HandlePub(x.pubs, m)
  BY DEF Entered
<1> HIDE DEF y
<1>2. /\ y.graph \in [Feed -> [Feed -> Relation \cup {Nil}]]
      /\ y.about \in [Feed -> Profile]
      /\ y.votes \in [Key -> Seq(Key)]
  <2>1. /\ x.graph \in [Feed -> [Feed -> Relation \cup {Nil}]]
        /\ x.about \in [Feed -> Profile]
        /\ x.votes \in [Key -> Seq(Key)]
    BY DEF IxTypes
  <2>2. y.graph \in [Feed -> [Feed -> Relation \cup {Nil}]]
    BY <1>1, <2>1, GraphTypes
  <2>3. y.about \in [Feed -> Profile]
    BY <1>1, <2>1, AboutTypes
  <2>4. y.votes \in [Key -> Seq(Key)]
    BY <1>1, <2>1, VoteTypes
  <2> QED BY <2>2, <2>3, <2>4
<1>3. ListsTypes(Key, y.threads, n + 1) /\ ListsTypes(Channel, y.channels, n + 1)
  <2>1. ListsTypes(Key, x.threads, n) /\ ListsTypes(Channel, x.channels, n)
    BY DEF IxTypes
  <2> QED BY <1>1, <2>1, ThreadTypes, ChannelTypes
<1>4. y.repos \in [Key -> Repo] /\ y.pubs \in [Feed -> Addr \cup {Nil}]
  <2>1. x.repos \in [Key -> Repo] /\ x.pubs \in [Feed -> Addr \cup {Nil}]
    BY DEF IxTypes
  <2> QED BY <1>1, <2>1, GitTypes, PubTypes
<1> QED BY <1>2, <1>3, <1>4 DEF IxTypes, y

(* However the keys coincide, a rebuild makes the buckets of some messages. *)
LEMMA ReplayTypes ==
  ASSUME NEW log \in Seq(Msg), Len(log) <= KeySpace
  PROVE  IxTypes(Replayed(log), Len(log))
<1>1. PICK h : Replayed(log) = h[Len(log)] /\ Run(Module, EmptyIx, log, h)
  BY ReplayUnfolds DEF Replayed
<1> DEFINE S == {n \in Nat : n <= Len(log) => IxTypes(h[n], n)}
<1>2. 0 \in S
  <2>1. h[0] = EmptyIx
    BY <1>1 DEF Run, Clear, OfModules, EmptyIx, Module
  <2> QED BY <2>1, EmptyTypes
<1>3. ASSUME NEW n \in Nat, n \in S PROVE n + 1 \in S
  <2> SUFFICES ASSUME n + 1 <= Len(log) PROVE IxTypes(h[n + 1], n + 1)
    OBVIOUS
  <2>1. IxTypes(h[n], n) /\ n < KeySpace /\ n + 1 \in 1 .. Len(log) /\ n + 1 - 1 = n
    BY <1>3, KeySpaceIs
  <2>2. h[n + 1] = RunHooks(Module, h[n], log[n + 1]) /\ log[n + 1] \in Msg
    BY <1>1, <2>1 DEF Run
  <2>3. h[n + 1] = Entered(h[n], log[n + 1])
    BY <2>2 DEF RunHooks, OfModules, Entered, Module
  <2> QED BY <2>1, <2>2, <2>3, EnteredTypes
<1>4. Len(log) \in S
  <2> HIDE DEF S
  <2> QED BY <1>2, <1>3, NatSets
<1> QED BY <1>1, <1>4

-----------------------------------------------------------------------------
(* What the buckets hold, given the messages stored: S is the set of them, *)
(* log their sequence.                                                     *)

(* m is newer than what S has of its feed.                                 *)
Newest(S, m) == \A o \in S : o.author = m.author => o.sequence < m.sequence

LEMMA LatestIsNew ==
  ASSUME NEW S \in SUBSET Msg, NEW m \in Msg, \A o \in S : o.sequence < m.sequence
  PROVE  Latest(S \cup {m}) = m
<1> DEFINE T == S \cup {m}
           Greatest(x) == \A o \in T : o.sequence <= x.sequence
<1>1. m \in T /\ Greatest(m)
  BY MsgFields
<1>2. ASSUME NEW x \in T, Greatest(x) PROVE x = m
  <2>1. m.sequence <= x.sequence /\ x.sequence \in Nat /\ m.sequence \in Nat
    BY <1>2, MsgFields
  <2> QED BY <2>1
<1>3. (CHOOSE x \in T : Greatest(x)) = m
  <2> HIDE DEF T, Greatest
  <2> QED BY <1>1, <1>2
<1> QED BY <1>3 DEF Latest

LEMMA LastWordNew ==
  ASSUME NEW said \in SUBSET Msg, NEW m \in Msg, \A o \in said : o.sequence < m.sequence,
         NEW field, NEW initial
  PROVE  LastWord(said \cup {m}, field, initial)
           = IF Content[m][field] = Nil THEN LastWord(said, field, initial)
             ELSE Content[m][field]
<1> DEFINE Gives(o) == Content[o][field] # Nil
           given == {o \in said : Gives(o)}
           after == {o \in said \cup {m} : Gives(o)}
<1>1. CASE ~Gives(m)
  <2>1. after = given
    BY <1>1
  <2> QED BY <1>1, <2>1 DEF LastWord
<1>2. CASE Gives(m)
  <2>1. after = given \cup {m} /\ given \in SUBSET Msg
    BY <1>2
  <2>2. Latest(after) = m
    BY <2>1, LatestIsNew
  <2>3. after # {}
    BY <2>1
  <2> QED BY <1>2, <2>2, <2>3 DEF LastWord
<1> QED BY <1>1, <1>2

LEMMA LastWordNone ==
  ASSUME NEW field, NEW initial
  PROVE  LastWord({}, field, initial) = initial
BY DEF LastWord

-----------------------------------------------------------------------------
(* The graph and the profiles. *)

Contacts(S, f, c) ==
  {m \in S : m.author = f /\ Says(m, "contact") /\ Content[m].contact = c}

GraphSound(S, graph) ==
  \A f, c \in Feed :
    LET said == Contacts(S, f, c)
    IN  /\ graph[f][c] = IF said = {} THEN Nil
                         ELSE [following |-> LastWord(said, "following", FALSE),
                               blocking  |-> LastWord(said, "blocking", FALSE)]
        /\ said # {} => graph[f][c] \in Relation

LEMMA GraphStep ==
  ASSUME NEW S \in SUBSET Msg, NEW m \in Msg, Newest(S, m),
         NEW graph \in [Feed -> [Feed -> Relation \cup {Nil}]], GraphSound(S, graph)
  PROVE  GraphSound(S \cup {m}, HandleGraph(graph, m))
<1> SUFFICES ASSUME NEW f \in Feed, NEW c \in Feed
             PROVE  LET said == Contacts(S \cup {m}, f, c)
                        g    == HandleGraph(graph, m)
                    IN  /\ g[f][c] = IF said = {} THEN Nil
                                     ELSE [following |-> LastWord(said, "following", FALSE),
                                           blocking  |-> LastWord(said, "blocking", FALSE)]
                        /\ said # {} => g[f][c] \in Relation
  BY DEF GraphSound
<1> DEFINE k == Content[m]
           said == Contacts(S, f, c)
           new == HandleGraph(graph, m)
           This == m.author = f /\ k.type = "contact" /\ k.contact = c
<1>0. /\ m.author \in Feed /\ k \in Contents
      /\ graph[f][c] = IF said = {} THEN Nil
                       ELSE [following |-> LastWord(said, "following", FALSE),
                             blocking  |-> LastWord(said, "blocking", FALSE)]
      /\ said # {} => graph[f][c] \in Relation
  BY MsgFields DEF GraphSound
<1>1. CASE ~This
  <2>1. Contacts(S \cup {m}, f, c) = said
    BY <1>1 DEF Contacts, Says
  <2>2. new[f][c] = graph[f][c]
    BY <1>0, <1>1, Said DEF HandleGraph
  <2> QED BY <1>0, <2>1, <2>2
<1>2. CASE This
  <2> DEFINE r == IF graph[f][c] = Nil THEN NoRelation ELSE graph[f][c]
  <2>1. Contacts(S \cup {m}, f, c) = said \cup {m} /\ said \in SUBSET Msg
    BY <1>2 DEF Contacts, Says
  <2>2. \A o \in said : o.sequence < m.sequence
    BY <1>2 DEF Contacts, Newest
  <2>3. new[f][c] = [following |-> IF k.following = Nil THEN r.following ELSE k.following,
                     blocking  |-> IF k.blocking = Nil THEN r.blocking ELSE k.blocking]
    BY <1>0, <1>2, NilApart DEF HandleGraph
  <2>4. /\ r.following = LastWord(said, "following", FALSE)
        /\ r.blocking = LastWord(said, "blocking", FALSE)
        /\ r \in Relation
    <3>1. CASE said = {}
      BY <1>0, <3>1, LastWordNone DEF NoRelation, Relation
    <3>2. CASE said # {}
      <4>1. graph[f][c] \in Relation /\ r = graph[f][c]
        BY <1>0, <3>2, NilApart
      <4>2. r = [following |-> LastWord(said, "following", FALSE),
                 blocking  |-> LastWord(said, "blocking", FALSE)]
        BY <1>0, <3>2, <4>1
      <4> HIDE DEF r, said
      <4> QED BY <4>1, <4>2
    <3> QED BY <3>1, <3>2
  <2>5. \A field, initial : LastWord(said \cup {m}, field, initial)
          = IF k[field] = Nil THEN LastWord(said, field, initial) ELSE k[field]
    <3> HIDE DEF said
    <3> QED BY <2>1, <2>2, LastWordNew
  <2>6. /\ LastWord(said \cup {m}, "following", FALSE)
             = IF k["following"] = Nil THEN LastWord(said, "following", FALSE) ELSE k["following"]
        /\ LastWord(said \cup {m}, "blocking", FALSE)
             = IF k["blocking"] = Nil THEN LastWord(said, "blocking", FALSE) ELSE k["blocking"]
    <3> HIDE DEF said, k
    <3> QED BY <2>5, Zenon
  <2>7. new[f][c] \in Relation
    <3>1. k.following \in BOOLEAN \cup {Nil} /\ k.blocking \in BOOLEAN \cup {Nil}
      BY <1>0, <1>2, Said
    <3>2. (IF k.following = Nil THEN r.following ELSE k.following) \in BOOLEAN
      BY <2>4, <3>1 DEF Relation
    <3>3. (IF k.blocking = Nil THEN r.blocking ELSE k.blocking) \in BOOLEAN
      BY <2>4, <3>1 DEF Relation
    <3> HIDE DEF k, r, new
    <3> QED BY <2>3, <3>2, <3>3 DEF Relation
  <2> HIDE DEF said, k, r
  <2>8. said \cup {m} # {}
    OBVIOUS
  <2> QED BY <2>1, <2>3, <2>4, <2>6, <2>7, <2>8
<1> QED BY <1>1, <1>2

Abouts(S, f) == {m \in S : m.author = f /\ Says(m, "about") /\ Content[m].about = f}

AboutSound(S, about) ==
  \A f \in Feed : about[f] = [name  |-> LastWord(Abouts(S, f), "name", Nil),
                              image |-> LastWord(Abouts(S, f), "image", Nil)]

LEMMA AboutStep ==
  ASSUME NEW S \in SUBSET Msg, NEW m \in Msg, Newest(S, m),
         NEW about \in [Feed -> Profile], AboutSound(S, about)
  PROVE  AboutSound(S \cup {m}, HandleAbout(about, m))
<1> SUFFICES ASSUME NEW f \in Feed
             PROVE  HandleAbout(about, m)[f]
                      = [name  |-> LastWord(Abouts(S \cup {m}, f), "name", Nil),
                         image |-> LastWord(Abouts(S \cup {m}, f), "image", Nil)]
  BY DEF AboutSound
<1> DEFINE k == Content[m]
           said == Abouts(S, f)
           new == HandleAbout(about, m)
           This == m.author = f /\ k.type = "about" /\ k.about = f
<1>0. /\ m.author \in Feed /\ k \in Contents
      /\ about[f] = [name  |-> LastWord(said, "name", Nil), image |-> LastWord(said, "image", Nil)]
  BY MsgFields DEF AboutSound
<1>1. CASE ~This
  <2>1. Abouts(S \cup {m}, f) = said
    BY <1>1 DEF Abouts, Says
  <2>2. new[f] = about[f]
    BY <1>0, <1>1 DEF HandleAbout
  <2> QED BY <1>0, <2>1, <2>2
<1>2. CASE This
  <2>1. Abouts(S \cup {m}, f) = said \cup {m} /\ said \in SUBSET Msg
    BY <1>2 DEF Abouts, Says
  <2>2. \A o \in said : o.sequence < m.sequence
    BY <1>2 DEF Abouts, Newest
  <2>3. new[f] = [name  |-> IF k.name = Nil THEN LastWord(said, "name", Nil) ELSE k.name,
                  image |-> IF k.image = Nil THEN LastWord(said, "image", Nil) ELSE k.image]
    BY <1>0, <1>2 DEF HandleAbout
  <2>4. \A field, initial : LastWord(said \cup {m}, field, initial)
          = IF k[field] = Nil THEN LastWord(said, field, initial) ELSE k[field]
    <3> HIDE DEF said
    <3> QED BY <2>1, <2>2, LastWordNew
  <2>5. /\ LastWord(said \cup {m}, "name", Nil)
             = IF k["name"] = Nil THEN LastWord(said, "name", Nil) ELSE k["name"]
        /\ LastWord(said \cup {m}, "image", Nil)
             = IF k["image"] = Nil THEN LastWord(said, "image", Nil) ELSE k["image"]
    <3> HIDE DEF said, k
    <3> QED BY <2>4, Zenon
  <2> HIDE DEF said, k
  <2> QED BY <2>1, <2>3, <2>5
<1> QED BY <1>1, <1>2

-----------------------------------------------------------------------------
(* The pubs. *)

(* A set of numbers up to n has a greatest one. *)
LEMMA NatMax ==
  ASSUME NEW n \in Nat, NEW T, T \subseteq 1 .. n, T # {}
  PROVE  \E i \in T : \A j \in T : j <= i
<1> DEFINE U == {n - i : i \in T}
<1>1. U \subseteq Nat /\ U # {}
  <2>1. \A i \in T : n - i \in Nat /\ n - i \in U
    OBVIOUS
  <2> QED BY <2>1
<1>2. PICK u \in U : \A v \in U : u <= v
  <2> HIDE DEF U
  <2> QED BY <1>1, NatMin
<1>3. PICK i \in T : u = n - i
  OBVIOUS
<1>4. ASSUME NEW j \in T PROVE j <= i
  <2>1. n - j \in U
    OBVIOUS
  <2>2. n - i <= n - j
    BY <1>2, <1>3, <2>1
  <2> QED BY <2>2
<1> QED BY <1>4

Announced(log, f) == {i \in DOMAIN log : Says(log[i], "pub") /\ Content[log[i]].key = f}

LastOf(T) == CHOOSE i \in T : \A j \in T : j <= i

PubsSound(log, pubs) ==
  \A f \in Feed : pubs[f] = IF Announced(log, f) = {} THEN Nil
                            ELSE Content[log[LastOf(Announced(log, f))]].host

LEMMA PubsStep ==
  ASSUME NEW log \in Seq(Msg), NEW m \in Msg,
         NEW pubs \in [Feed -> Addr \cup {Nil}], PubsSound(log, pubs)
  PROVE  PubsSound(Append(log, m), HandlePub(pubs, m))
<1> SUFFICES ASSUME NEW f \in Feed
             PROVE  HandlePub(pubs, m)[f]
                      = IF Announced(Append(log, m), f) = {} THEN Nil
                        ELSE Content[Append(log, m)[LastOf(Announced(Append(log, m), f))]].host
  BY DEF PubsSound
<1> DEFINE k == Content[m]
           A == Announced(log, f)
           n == Len(log) + 1
           t == Append(log, m)
           This == k.type = "pub" /\ k.key = f
<1>0. /\ Len(log) \in Nat /\ DOMAIN log = 1 .. Len(log)
      /\ DOMAIN t = 1 .. n /\ t[n] = m /\ \A i \in 1 .. Len(log) : t[i] = log[i]
  OBVIOUS
<1> HIDE DEF t
<1>3. A \subseteq 1 .. Len(log)
  BY <1>0 DEF Announced
<1>4. pubs[f] = IF A = {} THEN Nil ELSE Content[log[LastOf(A)]].host
  BY DEF PubsSound
<1>5. ASSUME NEW i PROVE i \in Announced(t, f) <=> i \in A \/ (i = n /\ This)
  <2>1. i \in 1 .. n <=> i \in 1 .. Len(log) \/ i = n
    BY <1>0
  <2>2. n \notin 1 .. Len(log)
    BY <1>0
  <2>3. CASE i = n
    BY <1>0, <2>1, <2>2, <2>3 DEF Announced, Says
  <2>4. CASE i \in 1 .. Len(log)
    BY <1>0, <2>1, <2>2, <2>4 DEF Announced
  <2>5. CASE i \notin 1 .. n
    BY <1>0, <2>1, <2>5 DEF Announced
  <2> QED BY <2>1, <2>3, <2>4, <2>5
<1>1. CASE ~This
  <2>1. Announced(t, f) = A
    <3> HIDE DEF A, This
    <3> QED BY <1>1, <1>5
  <2>2. HandlePub(pubs, m)[f] = pubs[f]
    BY <1>1 DEF HandlePub
  <2>3. A # {} => LastOf(A) \in A
    <3> HIDE DEF A
    <3> QED BY <1>0, <1>3, NatMax DEF LastOf
  <2>4. A # {} => t[LastOf(A)] = log[LastOf(A)]
    BY <1>0, <1>3, <2>3
  <2> QED BY <1>4, <2>1, <2>2, <2>4 DEF t
<1>2. CASE This
  <2>1. Announced(t, f) = A \cup {n}
    <3> HIDE DEF A, This, n
    <3> QED BY <1>2, <1>5
  <2>2. LastOf(A \cup {n}) = n
    <3> DEFINE Greatest(i) == \A j \in A \cup {n} : j <= i
    <3> HIDE DEF A
    <3>1. n \in A \cup {n} /\ Greatest(n) /\ \A i \in A \cup {n} : Greatest(i) => i = n
      BY <1>0, <1>3
    <3> HIDE DEF Greatest
    <3>2. (CHOOSE i \in A \cup {n} : Greatest(i)) = n
      BY <3>1
    <3> QED BY <3>2 DEF LastOf, Greatest
  <2>3. HandlePub(pubs, m)[f] = k.host
    BY <1>2, NilApart DEF HandlePub
  <2> QED BY <1>0, <2>1, <2>2, <2>3 DEF t
<1> QED BY <1>1, <1>2

-----------------------------------------------------------------------------
(* The repositories. *)

Updates(S, k) == {m \in S : Says(m, "git-update") /\ Content[m].repo = k}
IssuesOn(S, k) == {m \in S : Says(m, "issue") /\ Content[m].project = k}
Founded(S, k) == \E m \in S : m.id = k /\ Says(m, "git-repo")

ReposSound(S, repos) ==
  \A k \in Key :
    /\ repos[k].info = IF Founded(S, k) THEN k ELSE Nil
    /\ repos[k].updates = {m.id : m \in Updates(S, k)}
    /\ repos[k].blobs = UNION {Content[m].packs \cup Content[m].indexes : m \in Updates(S, k)}
    /\ repos[k].issues = {m.id : m \in IssuesOn(S, k)}

(* What a message changes of the entry of a repository.                    *)
LEMMA GitFields ==
  ASSUME NEW repos \in [Key -> Repo], NEW m \in Msg, NEW k \in Key
  PROVE  /\ HandleGit(repos, m)[k].info =
              IF Content[m].type = "git-repo" /\ m.id = k THEN k ELSE repos[k].info
         /\ HandleGit(repos, m)[k].updates =
              IF Content[m].type = "git-update" /\ Content[m].repo = k
              THEN repos[k].updates \cup {m.id} ELSE repos[k].updates
         /\ HandleGit(repos, m)[k].blobs =
              IF Content[m].type = "git-update" /\ Content[m].repo = k
              THEN repos[k].blobs \cup Content[m].packs \cup Content[m].indexes ELSE repos[k].blobs
         /\ HandleGit(repos, m)[k].issues =
              IF Content[m].type = "issue" /\ Content[m].project = k THEN repos[k].issues \cup {m.id}
              ELSE repos[k].issues
<1> SUFFICES ASSUME NEW c, c = Content[m]
             PROVE  /\ HandleGit(repos, m)[k].info =
                         IF c.type = "git-repo" /\ m.id = k THEN k ELSE repos[k].info
                    /\ HandleGit(repos, m)[k].updates =
                         IF c.type = "git-update" /\ c.repo = k THEN repos[k].updates \cup {m.id}
                         ELSE repos[k].updates
                    /\ HandleGit(repos, m)[k].blobs =
                         IF c.type = "git-update" /\ c.repo = k
                         THEN repos[k].blobs \cup c.packs \cup c.indexes ELSE repos[k].blobs
                    /\ HandleGit(repos, m)[k].issues =
                         IF c.type = "issue" /\ c.project = k THEN repos[k].issues \cup {m.id}
                         ELSE repos[k].issues
  OBVIOUS
<1> DEFINE old == repos[k]
           new == HandleGit(repos, m)[k]
           Fields ==
             /\ new.info = IF c.type = "git-repo" /\ m.id = k THEN k ELSE old.info
             /\ new.updates = IF c.type = "git-update" /\ c.repo = k
                              THEN old.updates \cup {m.id} ELSE old.updates
             /\ new.blobs = IF c.type = "git-update" /\ c.repo = k
                            THEN old.blobs \cup c.packs \cup c.indexes ELSE old.blobs
             /\ new.issues = IF c.type = "issue" /\ c.project = k
                             THEN old.issues \cup {m.id} ELSE old.issues
<1>1. old \in [info : Key \cup {Nil}, updates : SUBSET Key, blobs : SUBSET Blob, issues : SUBSET Key]
  BY DEF Repo
<1>2. ASSUME c.type = "git-repo" PROVE Fields
  <2>1. new = IF m.id = k THEN [old EXCEPT !.info = m.id] ELSE old
    BY <1>2 DEF HandleGit
  <2> HIDE DEF new, old
  <2>2. CASE m.id = k
    BY <1>1, <1>2, <2>1, <2>2
  <2>3. CASE m.id # k
    BY <1>2, <2>1, <2>3
  <2> QED BY <2>2, <2>3
<1>3. ASSUME c.type = "git-update" PROVE Fields
  <2>1. new = IF c.repo = k THEN [old EXCEPT !.updates = @ \cup {m.id},
                                            !.blobs = @ \cup c.packs \cup c.indexes] ELSE old
    BY <1>3 DEF HandleGit
  <2> HIDE DEF new, old
  <2>2. CASE c.repo = k
    BY <1>1, <1>3, <2>1, <2>2
  <2>3. CASE c.repo # k
    BY <1>3, <2>1, <2>3
  <2> QED BY <2>2, <2>3
<1>4. ASSUME c.type = "issue" PROVE Fields
  <2>1. new = IF c.project = k THEN [old EXCEPT !.issues = @ \cup {m.id}] ELSE old
    BY <1>4 DEF HandleGit
  <2> HIDE DEF new, old
  <2>2. CASE c.project = k
    BY <1>1, <1>4, <2>1, <2>2
  <2>3. CASE c.project # k
    BY <1>4, <2>1, <2>3
  <2> QED BY <2>2, <2>3
<1>5. ASSUME c.type \notin {"git-repo", "git-update", "issue"} PROVE Fields
  <2>1. new = old
    BY <1>5 DEF HandleGit
  <2> HIDE DEF new, old
  <2> QED BY <1>5, <2>1
<1>6. Fields
  BY <1>2, <1>3, <1>4, <1>5
<1> QED BY <1>6

LEMMA ReposStep ==
  ASSUME NEW S \in SUBSET Msg, NEW m \in Msg,
         NEW repos \in [Key -> Repo], ReposSound(S, repos)
  PROVE  ReposSound(S \cup {m}, HandleGit(repos, m))
<1> DEFINE c == Content[m]
           T == S \cup {m}
           new == HandleGit(repos, m)
<1>0. m.id \in Key /\ c \in Contents
  BY MsgFields
<1>g. ASSUME NEW k \in Key
      PROVE  /\ new[k].info = IF c.type = "git-repo" /\ m.id = k THEN k ELSE repos[k].info
             /\ new[k].updates = IF c.type = "git-update" /\ c.repo = k
                                 THEN repos[k].updates \cup {m.id} ELSE repos[k].updates
             /\ new[k].blobs = IF c.type = "git-update" /\ c.repo = k
                               THEN repos[k].blobs \cup c.packs \cup c.indexes ELSE repos[k].blobs
             /\ new[k].issues = IF c.type = "issue" /\ c.project = k
                                THEN repos[k].issues \cup {m.id} ELSE repos[k].issues
  BY GitFields
<1> HIDE DEF new
<1>1. ASSUME NEW k \in Key PROVE new[k].info = IF Founded(T, k) THEN k ELSE Nil
  <2>1. repos[k].info = IF Founded(S, k) THEN k ELSE Nil
    BY DEF ReposSound
  <2>2. Founded(T, k) <=> Founded(S, k) \/ (c.type = "git-repo" /\ m.id = k)
    BY DEF Founded, Says
  <2>3. new[k].info = IF c.type = "git-repo" /\ m.id = k THEN k ELSE repos[k].info
    BY <1>g
  <2> QED BY <2>1, <2>2, <2>3
<1>2. ASSUME NEW k \in Key
      PROVE  /\ new[k].updates = {o.id : o \in Updates(T, k)}
             /\ new[k].blobs = UNION {Content[o].packs \cup Content[o].indexes : o \in Updates(T, k)}
  <2>1. /\ repos[k].updates = {o.id : o \in Updates(S, k)}
        /\ repos[k].blobs = UNION {Content[o].packs \cup Content[o].indexes : o \in Updates(S, k)}
    BY DEF ReposSound
  <2>2. CASE c.type = "git-update" /\ c.repo = k
    <3>1. Updates(T, k) = Updates(S, k) \cup {m}
      BY <2>2 DEF Updates, Says
    <3>2. new[k].updates = repos[k].updates \cup {m.id}
      BY <1>g, <2>2
    <3>3. new[k].blobs = repos[k].blobs \cup c.packs \cup c.indexes
      BY <1>g, <2>2
    <3>4. {o.id : o \in Updates(T, k)} = {o.id : o \in Updates(S, k)} \cup {m.id}
      BY <3>1
    <3>5. UNION {Content[o].packs \cup Content[o].indexes : o \in Updates(T, k)}
            = (UNION {Content[o].packs \cup Content[o].indexes : o \in Updates(S, k)})
                \cup c.packs \cup c.indexes
      <4> DEFINE Of(o) == Content[o].packs \cup Content[o].indexes
      <4>1. Of(m) = c.packs \cup c.indexes
        OBVIOUS
      <4> HIDE DEF Of, c
      <4>2. UNION {Of(o) : o \in Updates(T, k)} = (UNION {Of(o) : o \in Updates(S, k)}) \cup Of(m)
        BY <3>1
      <4> QED BY <4>1, <4>2 DEF Of
    <3> QED BY <2>1, <3>2, <3>3, <3>4, <3>5
  <2>3. CASE ~(c.type = "git-update" /\ c.repo = k)
    <3>1. Updates(T, k) = Updates(S, k)
      BY <2>3 DEF Updates, Says
    <3>2. new[k].updates = repos[k].updates /\ new[k].blobs = repos[k].blobs
      BY <1>g, <2>3
    <3> QED BY <2>1, <3>1, <3>2
  <2> QED BY <2>2, <2>3
<1>3. ASSUME NEW k \in Key PROVE new[k].issues = {o.id : o \in IssuesOn(T, k)}
  <2>1. repos[k].issues = {o.id : o \in IssuesOn(S, k)}
    BY DEF ReposSound
  <2>2. CASE c.type = "issue" /\ c.project = k
    <3>1. IssuesOn(T, k) = IssuesOn(S, k) \cup {m}
      BY <2>2 DEF IssuesOn, Says
    <3>2. new[k].issues = repos[k].issues \cup {m.id}
      BY <1>g, <2>2
    <3> QED BY <2>1, <3>1, <3>2
  <2>3. CASE ~(c.type = "issue" /\ c.project = k)
    <3>1. IssuesOn(T, k) = IssuesOn(S, k)
      BY <2>3 DEF IssuesOn, Says
    <3>2. new[k].issues = repos[k].issues
      BY <1>g, <2>3
    <3> QED BY <2>1, <3>1, <3>2
  <2> QED BY <2>2, <2>3
<1> HIDE DEF new, T, c
<1>4. ReposSound(T, new)
  BY <1>1, <1>2, <1>3 DEF ReposSound, c
<1> QED BY <1>4 DEF T, new

-----------------------------------------------------------------------------
(* The lists. *)

(* No two places of the log hold one message.                              *)
Distinct(log) == \A a, b \in DOMAIN log : log[a].id = log[b].id => a = b

(* There are keys for the entries of a bucket from that of the time of m on. *)
Room(time, m) == TimeKey(m.timestamp) + Cardinality(DOMAIN time) <= KeySpace

(* A bucket "time" holds the messages at the places T each once, and those *)
(* of one time in the order in which they were stored, if there is room.   *)
InTime(log, time, T) ==
  /\ Holds(log, time, T)
  /\ \A a, b \in T, j, k \in DOMAIN time :
       time[j] = log[a].id /\ time[k] = log[b].id
         => /\ a = b => j = k
            /\ /\ Room(time, log[a]) /\ a < b
               /\ TimeKey(log[a].timestamp) = TimeKey(log[b].timestamp)
               => j < k

(* From the key of the time of an entry on, the keys before it are taken,  *)
(* if there is room.                                                       *)
Packed(log, time, T) ==
  \A a \in T, k \in DOMAIN time :
    time[k] = log[a].id /\ Room(time, log[a])
      => /\ TimeKey(log[a].timestamp) <= k
         /\ TimeKey(log[a].timestamp) .. k - 1 \subseteq DOMAIN time

ListSound(log, list, T) ==
  InLog(log, list.log, T) /\ InTime(log, list.time, T) /\ Packed(log, list.time, T)

(* A list that a message is not entered in stays right.                    *)
LEMMA LogOfOld ==
  ASSUME NEW log \in Seq(Msg), NEW m \in Msg, NEW T \in SUBSET (1 .. Len(log)),
         NEW keys, InLog(log, keys, T)
  PROVE  InLog(Append(log, m), keys, T)
<1> DEFINE t == Append(log, m)
<1>1. \A a \in T : t[a] = log[a]
  OBVIOUS
<1> HIDE DEF t
<1>2. Holds(t, keys, T)
  <2>1. /\ \A k \in DOMAIN keys : \E a \in T : keys[k] = log[a].id
        /\ \A a \in T : \E k \in DOMAIN keys : keys[k] = log[a].id
    BY DEF InLog, Holds
  <2>2. ASSUME NEW k \in DOMAIN keys PROVE \E a \in T : keys[k] = t[a].id
    <3>1. PICK a \in T : keys[k] = log[a].id
      BY <2>1
    <3> QED BY <1>1, <3>1
  <2>3. ASSUME NEW a \in T PROVE \E k \in DOMAIN keys : keys[k] = t[a].id
    <3>1. PICK k \in DOMAIN keys : keys[k] = log[a].id
      BY <2>1
    <3> QED BY <1>1, <3>1
  <2> QED BY <2>2, <2>3 DEF Holds
<1>3. ASSUME NEW i \in DOMAIN keys, NEW j \in DOMAIN keys, NEW a \in T, NEW b \in T,
             i < j, keys[i] = t[a].id, keys[j] = t[b].id
      PROVE  a < b
  <2>1. keys[i] = log[a].id /\ keys[j] = log[b].id
    BY <1>1, <1>3
  <2> QED BY <1>3, <2>1 DEF InLog
<1>4. InLog(t, keys, T)
  BY <1>2, <1>3 DEF InLog
<1> QED BY <1>4 DEF t

LEMMA ListOfOld ==
  ASSUME NEW log \in Seq(Msg), NEW m \in Msg, NEW T \in SUBSET (1 .. Len(log)),
         NEW list, ListSound(log, list, T)
  PROVE  ListSound(Append(log, m), list, T)
<1> DEFINE t == Append(log, m)
<1>1. \A a \in T : t[a] = log[a]
  OBVIOUS
<1> HIDE DEF t
<1>2. InLog(log, list.log, T) /\ InTime(log, list.time, T)
  BY DEF ListSound
<1>3. InLog(t, list.log, T)
  BY <1>2, LogOfOld DEF t
<1>4. InTime(t, list.time, T)
  <2> DEFINE time == list.time
  <2>1. InTime(log, time, T)
    BY <1>2
  <2> HIDE DEF time
  <2>2. Holds(t, time, T)
    BY <1>1, <2>1 DEF InTime, Holds
  <2>3. ASSUME NEW a \in T, NEW b \in T, NEW j \in DOMAIN time, NEW k \in DOMAIN time,
               time[j] = t[a].id, time[k] = t[b].id
        PROVE  /\ a = b => j = k
               /\ /\ Room(time, t[a]) /\ a < b
                  /\ TimeKey(t[a].timestamp) = TimeKey(t[b].timestamp)
                  => j < k
    BY <1>1, <2>1, <2>3 DEF InTime
  <2>4. InTime(t, time, T)
    BY <2>2, <2>3 DEF InTime
  <2> QED BY <2>4 DEF time
<1>5. Packed(t, list.time, T)
  BY <1>1 DEF ListSound, Packed
<1> QED BY <1>3, <1>4, <1>5 DEF ListSound, t

LEMMA LogGrows ==
  ASSUME NEW log \in Seq(Msg), NEW m \in Msg, Distinct(Append(log, m)),
         NEW T \in SUBSET (1 .. Len(log)), NEW keys \in Seq(Key), InLog(log, keys, T)
  PROVE  InLog(Append(log, m), Append(keys, m.id), T \cup {Len(log) + 1})
<1> DEFINE t == Append(log, m)
           n == Len(log) + 1
           s == Append(keys, m.id)
           l == Len(keys) + 1
<1>1. /\ n \notin T /\ \A a \in T : a < n /\ t[a] = log[a] /\ log[a].id # m.id
      /\ t[n] = m
  <2>0. Len(log) \in Nat /\ DOMAIN t = 1 .. n /\ t[n] = m /\ n \in 1 .. n
    OBVIOUS
  <2>1. /\ Len(log) \in Nat /\ DOMAIN t = 1 .. n /\ t[n] = m /\ n \in 1 .. n
        /\ \A a \in T : a < n /\ t[a] = log[a] /\ a \in 1 .. n
    <3>1. ASSUME NEW a \in T PROVE a < n /\ t[a] = log[a] /\ a \in 1 .. n
      OBVIOUS
    <3> HIDE DEF t, n
    <3> QED BY <2>0, <3>1
  <2>2. Distinct(t)
    OBVIOUS
  <2> HIDE DEF t, n
  <2>3. ASSUME NEW a \in T PROVE log[a].id # m.id
    BY <2>1, <2>2, <2>3 DEF Distinct
  <2> QED BY <2>1, <2>3
<1>2. /\ l \notin DOMAIN keys /\ DOMAIN s = DOMAIN keys \cup {l} /\ s[l] = m.id
      /\ \A i \in DOMAIN keys : s[i] = keys[i] /\ i < l
  <2>1. Len(keys) \in Nat /\ DOMAIN keys = 1 .. Len(keys) /\ DOMAIN s = 1 .. l
    BY MsgFields
  <2>2. s[l] = m.id /\ \A i \in DOMAIN keys : s[i] = keys[i]
    BY MsgFields
  <2> HIDE DEF s
  <2> QED BY <2>1, <2>2
<1>3. Holds(log, keys, T)
  BY DEF InLog
<1> HIDE DEF t, n, s, l
<1>4. Holds(t, s, T \cup {n})
  <2>1. ASSUME NEW i \in DOMAIN s PROVE \E a \in T \cup {n} : s[i] = t[a].id
    <3>1. CASE i = l
      BY <1>1, <1>2, <3>1
    <3>2. CASE i \in DOMAIN keys
      <4>1. PICK a \in T : keys[i] = log[a].id
        BY <1>3, <3>2 DEF Holds
      <4> QED BY <1>1, <1>2, <3>2, <4>1
    <3> QED BY <1>2, <3>1, <3>2
  <2>2. ASSUME NEW a \in T \cup {n} PROVE \E i \in DOMAIN s : s[i] = t[a].id
    <3>1. CASE a = n
      BY <1>1, <1>2, <3>1
    <3>2. CASE a \in T
      <4>1. PICK i \in DOMAIN keys : keys[i] = log[a].id
        BY <1>3, <3>2 DEF Holds
      <4> QED BY <1>1, <1>2, <3>2, <4>1
    <3> QED BY <3>1, <3>2
  <2> QED BY <2>1, <2>2 DEF Holds
<1>5. ASSUME NEW i \in DOMAIN s, NEW j \in DOMAIN s, NEW a \in T \cup {n}, NEW b \in T \cup {n},
             i < j, s[i] = t[a].id, s[j] = t[b].id
      PROVE  a < b
  <2>1. i \in DOMAIN keys
    <3>1. l \in Nat /\ DOMAIN keys \subseteq Nat
      BY DEF l
    <3> QED BY <1>2, <1>5, <3>1
  <2>2. s[i] = keys[i]
    BY <1>2, <2>1
  <2>3. keys[i] # m.id
    <3>1. PICK o \in T : keys[i] = log[o].id
      BY <1>3, <2>1 DEF Holds
    <3> QED BY <1>1, <3>1
  <2>4. a \in T
    BY <1>1, <1>5, <2>2, <2>3
  <2>5. CASE b = n
    BY <1>1, <2>4, <2>5
  <2>6. CASE b \in T
    <3>1. j \in DOMAIN keys
      BY <1>1, <1>2, <1>5, <2>6
    <3> QED BY <1>1, <1>2, <1>5, <2>1, <2>4, <2>6, <3>1 DEF InLog
  <2> QED BY <2>5, <2>6
<1>6. InLog(t, s, T \cup {n})
  BY <1>4, <1>5 DEF InLog
<1> QED BY <1>6 DEF t, n, s

LEMMA Scaled ==
  ASSUME NEW a \in Nat, NEW b \in Nat, a < b, NEW s \in Nat
  PROVE  a * s + s <= b * s /\ a * s \in Nat /\ b * s \in Nat
<1>1. PICK d \in Nat : b = a + 1 + d
  <2>1. b - a - 1 \in Nat /\ b = a + 1 + (b - a - 1)
    OBVIOUS
  <2> QED BY <2>1
<1>2. b * s = a * s + s + d * s
  BY <1>1
<1>3. d * s \in Nat /\ a * s \in Nat
  OBVIOUS
<1> HIDE <1>1
<1> QED BY <1>2, <1>3

LEMMA TimeGrows ==
  ASSUME NEW log \in Seq(Msg), NEW m \in Msg, Distinct(Append(log, m)),
         NEW T \in SUBSET (1 .. Len(log)),
         NEW time, DOMAIN time \subseteq Nat, IsFiniteSet(DOMAIN time),
         InTime(log, time, T), Packed(log, time, T),
         NEW free \in Nat, free \notin DOMAIN time,
         TimeKey(m.timestamp) + Cardinality(DOMAIN time) < KeySpace
           => TimeKey(m.timestamp) <= free /\ TimeKey(m.timestamp) .. free - 1 \subseteq DOMAIN time,
         NEW new, DOMAIN new = DOMAIN time \cup {free}, new[free] = m.id,
         \A k \in DOMAIN time : new[k] = time[k]
  PROVE  /\ InTime(Append(log, m), new, T \cup {Len(log) + 1})
         /\ Packed(Append(log, m), new, T \cup {Len(log) + 1})
<1> SUFFICES ASSUME NEW D \in SUBSET Nat, DOMAIN time = D, IsFiniteSet(D), free \notin D,
                    NEW start, start = TimeKey(m.timestamp),
                    start + Cardinality(D) < KeySpace
                      => start <= free /\ start .. free - 1 \subseteq D,
                    DOMAIN new = D \cup {free}, \A k \in D : new[k] = time[k]
             PROVE  /\ InTime(Append(log, m), new, T \cup {Len(log) + 1})
                    /\ Packed(Append(log, m), new, T \cup {Len(log) + 1})
  OBVIOUS
<1> DEFINE t == Append(log, m)
           n == Len(log) + 1
           E == D \cup {free}
           Starts(a) == TimeKey(t[a].timestamp)
<1>1. /\ n \notin T /\ t[n] = m
      /\ \A a \in T : a < n /\ t[a] = log[a] /\ log[a].id # m.id /\ log[a] \in Msg
  <2>0. Len(log) \in Nat /\ DOMAIN t = 1 .. n /\ t[n] = m /\ n \in 1 .. n
    OBVIOUS
  <2>1. /\ Len(log) \in Nat /\ DOMAIN t = 1 .. n /\ t[n] = m /\ n \in 1 .. n
        /\ \A a \in T : a < n /\ t[a] = log[a] /\ a \in 1 .. n /\ log[a] \in Msg
    <3>1. ASSUME NEW a \in T PROVE a < n /\ t[a] = log[a] /\ a \in 1 .. n /\ log[a] \in Msg
      OBVIOUS
    <3> HIDE DEF t, n
    <3> QED BY <2>0, <3>1
  <2> HIDE DEF t
  <2> QED BY <2>1 DEF Distinct, t
<1>2. /\ DOMAIN new = E /\ new[free] = m.id /\ \A k \in D : new[k] = time[k] /\ k # free
      /\ free \in E /\ D \subseteq E
  OBVIOUS
<1>3. start \in Nat /\ Starts(n) = start /\ KeySpace \in Nat
  BY <1>1, MsgFields, TimeKeyIs, KeySpaceIs
<1>4. \A a \in T \cup {n} : Starts(a) \in Nat
  <2>1. \A a \in T \cup {n} : t[a] \in Msg
    BY <1>1
  <2> QED BY <2>1, MsgFields, TimeKeyIs
<1>5. Cardinality(D) \in Nat /\ Cardinality(E) = Cardinality(D) + 1
  BY FS_CardinalityType, FS_AddElement
(* Where there is room for one more there was room before.                 *)
<1>r. ASSUME NEW a \in T \cup {n}, Room(new, t[a])
      PROVE  Starts(a) + Cardinality(D) < KeySpace
  BY <1>2, <1>3, <1>4, <1>5, <1>r DEF Room
<1>6. /\ \A k \in D : \E a \in T : time[k] = log[a].id
      /\ \A a \in T : \E k \in D : time[k] = log[a].id
  BY DEF InTime, Holds
<1> HIDE DEF t, n, E
(* An entry of new is that of m, or an old one.                            *)
<1>7. ASSUME NEW a \in T \cup {n}, NEW k \in E, new[k] = t[a].id
      PROVE  \/ a = n /\ k = free
             \/ a \in T /\ k \in D /\ time[k] = log[a].id
  <2>1. CASE k = free
    BY <1>1, <1>2, <1>7, <2>1
  <2>2. CASE k # free
    <3>1. k \in D /\ new[k] = time[k]
      BY <1>2, <2>2 DEF E
    <3>2. time[k] # m.id
      <4>1. PICK o \in T : time[k] = log[o].id
        BY <1>6, <3>1
      <4> QED BY <1>1, <4>1
    <3> QED BY <1>1, <1>7, <3>1, <3>2
  <2> QED BY <2>1, <2>2
<1>8. /\ \A k \in E : \E a \in T \cup {n} : new[k] = t[a].id
      /\ \A a \in T \cup {n} : \E k \in E : new[k] = t[a].id
  <2>1. ASSUME NEW k \in E PROVE \E a \in T \cup {n} : new[k] = t[a].id
    <3>1. CASE k = free
      BY <1>1, <1>2, <3>1
    <3>2. CASE k \in D
      <4>1. PICK a \in T : time[k] = log[a].id
        BY <1>6, <3>2
      <4> QED BY <1>1, <1>2, <3>2, <4>1
    <3> QED BY <3>1, <3>2 DEF E
  <2>2. ASSUME NEW a \in T \cup {n} PROVE \E k \in E : new[k] = t[a].id
    <3>1. CASE a = n
      BY <1>1, <1>2, <3>1
    <3>2. CASE a \in T
      BY <1>1, <1>2, <1>6, <3>2
    <3> QED BY <3>1, <3>2
  <2> QED BY <2>1, <2>2
<1>9. ASSUME NEW a \in T, NEW k \in D, time[k] = log[a].id, Room(new, t[a])
      PROVE  Room(time, log[a]) /\ Starts(a) <= k /\ Starts(a) .. k - 1 \subseteq D
  <2>1. t[a] = log[a] /\ Starts(a) \in Nat /\ Starts(a) + Cardinality(D) < KeySpace
    BY <1>1, <1>4, <1>9, <1>r
  <2>2. Room(time, log[a])
    BY <1>3, <1>5, <2>1 DEF Room
  <2> QED BY <1>9, <2>1, <2>2 DEF Packed
<1>10. ASSUME NEW a \in T \cup {n}, NEW k \in E, new[k] = t[a].id, Room(new, t[a])
       PROVE  Starts(a) <= k /\ Starts(a) .. k - 1 \subseteq E
  <2>1. CASE a = n /\ k = free
    <3>1. start + Cardinality(D) < KeySpace
      BY <1>3, <1>10, <1>r, <2>1
    <3> QED BY <1>3, <2>1, <3>1 DEF E
  <2>2. CASE a \in T /\ k \in D /\ time[k] = log[a].id
    BY <1>2, <1>9, <1>10, <2>2
  <2> QED BY <1>7, <1>10, <2>1, <2>2
<1>12. ASSUME NEW a \in T \cup {n}, NEW b \in T \cup {n}, NEW j \in E, NEW k \in E,
              new[j] = t[a].id, new[k] = t[b].id
       PROVE  /\ a = b => j = k
              /\ Room(new, t[a]) /\ a < b /\ Starts(a) = Starts(b) => j < k
  <2>0. /\ \/ a = n /\ j = free
           \/ a \in T /\ j \in D /\ time[j] = log[a].id
        /\ \/ b = n /\ k = free
           \/ b \in T /\ k \in D /\ time[k] = log[b].id
        /\ n \notin T
    BY <1>1, <1>7, <1>12
  <2>1. CASE a \in T /\ j \in D /\ time[j] = log[a].id /\ b \in T /\ k \in D /\ time[k] = log[b].id
    <3>1. t[a] = log[a] /\ t[b] = log[b] /\ (Room(new, t[a]) => Room(time, log[a]))
      BY <1>1, <1>9, <2>1
    <3> QED BY <2>1, <3>1 DEF InTime
  <2>2. CASE a = n /\ j = free /\ b = n /\ k = free
    <3>1. ~ (n < n)
      BY DEF n
    <3> QED BY <2>2, <3>1
  <2>3. CASE a \in T /\ j \in D /\ time[j] = log[a].id /\ b = n /\ k = free
    <3>1. a # b /\ j \in Nat /\ j # free
      BY <1>1, <2>3
    <3>2. ASSUME Room(new, t[a]), Starts(a) = Starts(b) PROVE j < k
      <4>1. Starts(a) = start /\ start + Cardinality(D) < KeySpace
        BY <1>3, <1>r, <2>3, <3>2
      <4>2. start .. j - 1 \subseteq D /\ start <= free
        BY <1>9, <2>3, <3>2, <4>1
      <4>3. ~ (free < j)
        <5>1. SUFFICES ASSUME free < j PROVE FALSE
          OBVIOUS
        <5>2. free \in start .. j - 1
          BY <1>3, <3>1, <4>2, <5>1
        <5> QED BY <4>2, <5>2
      <4> QED BY <2>3, <3>1, <4>3
    <3> QED BY <3>1, <3>2
  <2>4. CASE a = n /\ j = free /\ b \in T /\ k \in D /\ time[k] = log[b].id
    BY <1>1, <2>4 DEF n
  <2> QED BY <2>0, <2>1, <2>2, <2>3, <2>4
<1>13. InTime(t, new, T \cup {n})
  <2>1. DOMAIN new = E
    BY <1>2
  <2>2. Holds(t, new, T \cup {n})
    BY <1>8, <2>1 DEF Holds
  <2> QED BY <1>12, <2>1, <2>2 DEF InTime
<1>14. Packed(t, new, T \cup {n})
  BY <1>2, <1>10 DEF Packed
<1> QED BY <1>13, <1>14 DEF t, n

LEMMA ListGrows ==
  ASSUME NEW log \in Seq(Msg), NEW m \in Msg, Distinct(Append(log, m)),
         NEW T \in SUBSET (1 .. Len(log)),
         NEW l \in Nat, l < KeySpace, NEW list, ListTypes(list, l), ListSound(log, list, T)
  PROVE  ListSound(Append(log, m), AddToList(list, m), T \cup {Len(log) + 1})
<1> DEFINE start == TimeKey(m.timestamp)
           D == DOMAIN list.time
           free == FirstFree(D, start)
           time == [k \in D \cup {free} |-> IF k = free THEN m.id ELSE list.time[k]]
           n == Len(log) + 1
<1>1. /\ list.log \in Seq(Key) /\ D \subseteq TimeKeys /\ IsFiniteSet(D) /\ D \subseteq Nat
      /\ Cardinality(D) \in Nat /\ Cardinality(D) < KeySpace
      /\ InLog(log, list.log, T) /\ InTime(log, list.time, T) /\ Packed(log, list.time, T)
  BY KeySpaceIs, FS_CardinalityType DEF ListTypes, IsList, ListSound
<1>2. start \in TimeKeys /\ start \in Nat
  BY MsgFields, TimeKeyIs
<1>3. /\ free \in Nat /\ free \notin D
      /\ start + Cardinality(D) < KeySpace => start <= free /\ start .. free - 1 \subseteq D
  BY <1>1, <1>2, FirstFreeIs, KeySpaceIs
<1>4. AddToList(list, m).log = Append(list.log, m.id) /\ AddToList(list, m).time = time
  BY DEF AddToList
<1> HIDE DEF free
<1>5. DOMAIN time = D \cup {free} /\ time[free] = m.id /\ \A k \in D : time[k] = list.time[k]
  BY <1>3
<1> HIDE DEF time
<1>6. InLog(Append(log, m), Append(list.log, m.id), T \cup {n})
  BY <1>1, LogGrows
<1>7. InTime(Append(log, m), time, T \cup {n}) /\ Packed(Append(log, m), time, T \cup {n})
  BY <1>1, <1>3, <1>5, TimeGrows
<1> QED BY <1>4, <1>6, <1>7 DEF ListSound

LEMMA ListEmpty == ListSound(<<>>, EmptyList, {})
<1>1. EmptyList.log = <<>> /\ EmptyList.time = <<>> /\ DOMAIN <<>> = {}
  BY DEF EmptyList
<1> QED BY <1>1 DEF ListSound, InLog, InTime, Packed, Holds

LEMMA PlacesGrow ==
  ASSUME NEW log \in Seq(Msg), NEW m \in Msg, NEW type, NEW field, NEW v
  PROVE  /\ Places(log, type, field, v) \in SUBSET (1 .. Len(log))
         /\ Places(Append(log, m), type, field, v)
              = IF Says(m, type) /\ Content[m][field] = v
                THEN Places(log, type, field, v) \cup {Len(log) + 1}
                ELSE Places(log, type, field, v)
<1> DEFINE t == Append(log, m)
           n == Len(log) + 1
           P == Places(log, type, field, v)
           This == Says(m, type) /\ Content[m][field] = v
<1>0. /\ Len(log) \in Nat /\ DOMAIN log = 1 .. Len(log)
      /\ DOMAIN t = 1 .. n /\ t[n] = m /\ \A i \in 1 .. Len(log) : t[i] = log[i]
  OBVIOUS
<1> HIDE DEF t
<1>1. P \subseteq 1 .. Len(log)
  BY <1>0 DEF Places
<1>2. ASSUME NEW i PROVE i \in Places(t, type, field, v) <=> i \in P \/ (i = n /\ This)
  <2>1. i \in 1 .. n <=> i \in 1 .. Len(log) \/ i = n
    BY <1>0
  <2>2. n \notin 1 .. Len(log)
    BY <1>0
  <2>3. CASE i = n
    BY <1>0, <2>1, <2>2, <2>3 DEF Places
  <2>4. CASE i \in 1 .. Len(log)
    BY <1>0, <2>1, <2>2, <2>4 DEF Places
  <2>5. CASE i \notin 1 .. n
    BY <1>0, <2>1, <2>5 DEF Places
  <2> QED BY <2>1, <2>3, <2>4, <2>5
<1> HIDE DEF P, n, This
<1>3. Places(t, type, field, v) = IF This THEN P \cup {n} ELSE P
  BY <1>2
<1> QED BY <1>1, <1>3 DEF t, n, P, This

VotesSound(log, votes) ==
  \A k \in Key : InLog(log, votes[k], Places(log, "vote", "link", k))

ThreadsSound(log, threads) ==
  \A k \in Key : ListSound(log, threads[k], Places(log, "post", "root", k))

ChannelsSound(log, channels) ==
  \A c \in Channel : ListSound(log, channels[c], Places(log, "post", "channel", c))

LEMMA VotesStep ==
  ASSUME NEW log \in Seq(Msg), NEW m \in Msg, Distinct(Append(log, m)),
         NEW votes \in [Key -> Seq(Key)], VotesSound(log, votes)
  PROVE  VotesSound(Append(log, m), HandleVote(votes, m))
<1> SUFFICES ASSUME NEW k \in Key
             PROVE  InLog(Append(log, m), HandleVote(votes, m)[k],
                          Places(Append(log, m), "vote", "link", k))
  BY DEF VotesSound
<1> DEFINE c == Content[m]
           T == Places(log, "vote", "link", k)
           U == Places(Append(log, m), "vote", "link", k)
<1>1. InLog(log, votes[k], T) /\ votes[k] \in Seq(Key) /\ T \in SUBSET (1 .. Len(log))
  BY PlacesGrow DEF VotesSound
<1>2. U = IF c.type = "vote" /\ c["link"] = k THEN T \cup {Len(log) + 1} ELSE T
  BY PlacesGrow DEF Says
<1>3. CASE c.type = "vote" /\ c.link = k
  <2>1. HandleVote(votes, m)[k] = Append(votes[k], m.id)
    BY <1>3 DEF HandleVote, Says
  <2>2. U = T \cup {Len(log) + 1}
    BY <1>2, <1>3
  <2> HIDE DEF T, U
  <2>3. InLog(Append(log, m), Append(votes[k], m.id), T \cup {Len(log) + 1})
    BY <1>1, LogGrows
  <2>4. InLog(Append(log, m), HandleVote(votes, m)[k], U)
    BY <2>1, <2>2, <2>3
  <2> QED BY <2>4 DEF U
<1>4. CASE ~(c.type = "vote" /\ c.link = k)
  <2>1. HandleVote(votes, m)[k] = votes[k]
    BY <1>4 DEF HandleVote, Says
  <2> HIDE DEF T, U
  <2>2. InLog(Append(log, m), votes[k], T)
    BY <1>1, LogOfOld
  <2> QED BY <1>2, <1>4, <2>1, <2>2 DEF U
<1> QED BY <1>3, <1>4

LEMMA ThreadsStep ==
  ASSUME NEW log \in Seq(Msg), NEW m \in Msg, Distinct(Append(log, m)),
         NEW l \in Nat, l < KeySpace, NEW threads, ListsTypes(Key, threads, l), ThreadsSound(log, threads)
  PROVE  ThreadsSound(Append(log, m), HandleThread(threads, m))
<1> SUFFICES ASSUME NEW k \in Key
             PROVE  ListSound(Append(log, m), HandleThread(threads, m)[k],
                              Places(Append(log, m), "post", "root", k))
  BY DEF ThreadsSound
<1> DEFINE c == Content[m]
           T == Places(log, "post", "root", k)
           U == Places(Append(log, m), "post", "root", k)
<1>1. ListSound(log, threads[k], T) /\ ListTypes(threads[k], l) /\ T \in SUBSET (1 .. Len(log))
  BY PlacesGrow DEF ThreadsSound, ListsTypes
<1>2. U = IF c.type = "post" /\ c["root"] = k THEN T \cup {Len(log) + 1} ELSE T
  BY PlacesGrow DEF Says
<1>3. CASE c.type = "post" /\ c.root = k
  <2>1. HandleThread(threads, m)[k] = AddToList(threads[k], m)
    BY <1>3, NilApart DEF HandleThread, ListsTypes
  <2> HIDE DEF T, U
  <2> QED BY <1>1, <1>2, <1>3, <2>1, ListGrows DEF U
<1>4. CASE ~(c.type = "post" /\ c.root = k)
  <2>1. HandleThread(threads, m)[k] = threads[k]
    BY <1>4 DEF HandleThread, ListsTypes
  <2> HIDE DEF T, U
  <2> QED BY <1>1, <1>2, <1>4, <2>1, ListOfOld DEF U
<1> QED BY <1>3, <1>4

LEMMA ChannelsStep ==
  ASSUME NEW log \in Seq(Msg), NEW m \in Msg, Distinct(Append(log, m)),
         NEW l \in Nat, l < KeySpace, NEW channels, ListsTypes(Channel, channels, l), ChannelsSound(log, channels)
  PROVE  ChannelsSound(Append(log, m), HandleChannel(channels, m))
<1> SUFFICES ASSUME NEW k \in Channel
             PROVE  ListSound(Append(log, m), HandleChannel(channels, m)[k],
                              Places(Append(log, m), "post", "channel", k))
  BY DEF ChannelsSound
<1> DEFINE c == Content[m]
           T == Places(log, "post", "channel", k)
           U == Places(Append(log, m), "post", "channel", k)
<1>1. ListSound(log, channels[k], T) /\ ListTypes(channels[k], l) /\ T \in SUBSET (1 .. Len(log))
  BY PlacesGrow DEF ChannelsSound, ListsTypes
<1>2. U = IF c.type = "post" /\ c["channel"] = k THEN T \cup {Len(log) + 1} ELSE T
  BY PlacesGrow DEF Says
<1>3. CASE c.type = "post" /\ c.channel = k
  <2>1. HandleChannel(channels, m)[k] = AddToList(channels[k], m)
    BY <1>3, NilApart DEF HandleChannel, ListsTypes
  <2> HIDE DEF T, U
  <2> QED BY <1>1, <1>2, <1>3, <2>1, ListGrows DEF U
<1>4. CASE ~(c.type = "post" /\ c.channel = k)
  <2>1. HandleChannel(channels, m)[k] = channels[k]
    BY <1>4 DEF HandleChannel, ListsTypes
  <2> HIDE DEF T, U
  <2> QED BY <1>1, <1>2, <1>4, <2>1, ListOfOld DEF U
<1> QED BY <1>3, <1>4

-----------------------------------------------------------------------------
(* The state. *)

(* The messages of a feed are in the log in their order.                   *)
Climbs(log) ==
  \A a, b \in DOMAIN log :
    a < b /\ log[a].author = log[b].author => log[a].sequence < log[b].sequence

(* The buckets of x with other pubs.                                       *)
WithPubs(x, pubs) ==
  [graph |-> x.graph, about |-> x.about, votes |-> x.votes, threads |-> x.threads,
   channels |-> x.channels, repos |-> x.repos, pubs |-> pubs]

(* If the keys differ, what a rebuild of everything makes is what the       *)
(* stored messages say.                                                    *)
LogSound(log, x) ==
  /\ x = WithPubs(x, x.pubs)
  /\ IxTypes(x, Len(log))
  /\ GraphSound(ToSet(log), x.graph)
  /\ AboutSound(ToSet(log), x.about)
  /\ ReposSound(ToSet(log), x.repos)
  /\ PubsSound(log, x.pubs)
  /\ Distinct(log)
  /\ VotesSound(log, x.votes)
  /\ ThreadsSound(log, x.threads)
  /\ ChannelsSound(log, x.channels)

(* What the buckets hold can be decoded, and no list has all the keys.     *)
IxTyped ==
  /\ order \in Seq(Msg)
  /\ Len(order) <= KeySpace
  /\ Climbs(order)
  /\ ix = WithPubs(ix, ix.pubs)
  /\ IxTypes(ix, Len(order))
  /\ added \subseteq Feed \X Addr

(* The buckets are what a rebuild of everything would make, but for pubs   *)
(* that were added by hand.                                                *)
IxRight ==
  /\ LogSound(order, Replayed(order))
  /\ ix = WithPubs(Replayed(order), ix.pubs)
  /\ \A f \in Feed : ix.pubs[f] = Replayed(order).pubs[f] \/ <<f, ix.pubs[f]>> \in added

IxInv == IxTyped /\ (KeysDiffer => IxRight)

LEMMA StoredGrows ==
  ASSUME NEW log \in Seq(Msg), NEW m \in Msg
  PROVE  ToSet(Append(log, m)) = ToSet(log) \cup {m} /\ ToSet(log) \in SUBSET Msg
<1> DEFINE t == Append(log, m)
<1>1. /\ Len(log) \in Nat /\ DOMAIN log = 1 .. Len(log) /\ DOMAIN t = 1 .. Len(log) + 1
      /\ t[Len(log) + 1] = m /\ \A i \in 1 .. Len(log) : t[i] = log[i] /\ log[i] \in Msg
  OBVIOUS
<1>2. ToSet(log) = {log[i] : i \in DOMAIN log} /\ ToSet(t) = {t[i] : i \in DOMAIN t}
  BY DEF ToSet
<1> HIDE DEF t
<1>3. ASSUME NEW o PROVE o \in ToSet(t) <=> o \in ToSet(log) \/ o = m
  <2>1. \A i : i \in 1 .. Len(log) + 1 <=> i \in 1 .. Len(log) \/ i = Len(log) + 1
    BY <1>1
  <2> QED BY <1>1, <1>2, <2>1
<1>4. ToSet(log) \subseteq Msg
  BY <1>1, <1>2
<1>5. ToSet(t) = ToSet(log) \cup {m}
  BY <1>3
<1> QED BY <1>4, <1>5 DEF t

LEMMA StoredInOrder ==
  ASSUME NEW log \in Seq(Msg), NEW m \in Msg, Store!Admissible(Append(log, m), Len(log) + 1)
  PROVE  Newest(ToSet(log), m)
<1> DEFINE t == Append(log, m)
<1>1. /\ Len(log) \in Nat /\ DOMAIN log = 1 .. Len(log) /\ t[Len(log) + 1] = m
      /\ \A i \in 1 .. Len(log) : t[i] = log[i]
  OBVIOUS
<1> HIDE DEF t
<1>2. \A p \in Store!FeedUpTo(t, m.author, Len(log)) : p.sequence < m.sequence
  <2>1. Len(log) + 1 - 1 = Len(log)
    BY <1>1
  <2>2. \A p \in Store!FeedUpTo(t, t[Len(log) + 1].author, Len(log) + 1 - 1) :
          p.sequence < t[Len(log) + 1].sequence
    BY DEF Store!Admissible, t
  <2> QED BY <1>1, <2>1, <2>2
<1>3. ASSUME NEW o \in ToSet(log), o.author = m.author PROVE o.sequence < m.sequence
  <2>1. PICK i \in 1 .. Len(log) : o = log[i]
    BY <1>1 DEF ToSet
  <2>2. o \in Store!FeedUpTo(t, m.author, Len(log))
    BY <1>1, <1>3, <2>1 DEF Store!FeedUpTo
  <2> QED BY <1>2, <2>2
<1> QED BY <1>3 DEF Newest

(* The keys of what was stored before differ if those of all do.           *)
LEMMA OnceBefore ==
  ASSUME NEW log \in Seq(Msg), NEW m \in Msg, Distinct(Append(log, m))
  PROVE  Distinct(log)
<1>1. /\ DOMAIN log \subseteq DOMAIN Append(log, m)
      /\ \A i \in DOMAIN log : Append(log, m)[i] = log[i]
  OBVIOUS
<1> QED BY <1>1 DEF Distinct

LEMMA StoredLater ==
  ASSUME NEW log \in Seq(Msg), NEW m \in Msg, Newest(ToSet(log), m), Climbs(log)
  PROVE  Climbs(Append(log, m))
<1> DEFINE t == Append(log, m)
           n == Len(log) + 1
<1>1. /\ Len(log) \in Nat /\ DOMAIN log = 1 .. Len(log)
      /\ DOMAIN t = 1 .. n /\ t[n] = m /\ \A i \in 1 .. Len(log) : t[i] = log[i]
  OBVIOUS
<1> HIDE DEF t
<1>2. ASSUME NEW a \in 1 .. n, NEW b \in 1 .. n, a < b, t[a].author = t[b].author
      PROVE  t[a].sequence < t[b].sequence
  <2>1. a \in 1 .. Len(log) /\ t[a] = log[a]
    BY <1>1, <1>2
  <2>2. CASE b = n
    <3>1. log[a] \in ToSet(log)
      BY <1>1, <2>1 DEF ToSet
    <3> QED BY <1>1, <1>2, <2>1, <2>2, <3>1 DEF Newest
  <2>3. CASE b # n
    <3>1. b \in 1 .. Len(log) /\ t[b] = log[b]
      BY <1>1, <2>3
    <3> QED BY <1>1, <1>2, <2>1, <3>1 DEF Climbs
  <2> QED BY <2>2, <2>3
<1> QED BY <1>1, <1>2 DEF Climbs, t

LEMMA LogSoundStep ==
  ASSUME NEW log \in Seq(Msg), NEW m \in Msg, Newest(ToSet(log), m),
         Distinct(Append(log, m)), Len(log) < KeySpace,
         NEW x, LogSound(log, x)
  PROVE  LogSound(Append(log, m), Entered(x, m))
<1> DEFINE S == ToSet(log)
           y == Entered(x, m)
<1>0. /\ y.graph = HandleGraph(x.graph, m) /\ y.about = HandleAbout(x.about, m)
      /\ y.repos = HandleGit(x.repos, m) /\ y.pubs = HandlePub(x.pubs, m)
      /\ y.votes = HandleVote(x.votes, m) /\ y.threads = HandleThread(x.threads, m)
      /\ y.channels = HandleChannel(x.channels, m)
      /\ y = WithPubs(y, y.pubs)
  BY DEF Entered, WithPubs
<1> HIDE DEF y
<1>1. ToSet(Append(log, m)) = S \cup {m} /\ S \in SUBSET Msg
  BY StoredGrows
<1>l. Len(log) \in Nat /\ Len(Append(log, m)) = Len(log) + 1
  OBVIOUS
<1>t. IxTypes(x, Len(log))
  BY DEF LogSound
<1>2. IxTypes(y, Len(Append(log, m)))
  BY <1>l, <1>t, EnteredTypes DEF y
<1>3. /\ x.graph \in [Feed -> [Feed -> Relation \cup {Nil}]] /\ x.about \in [Feed -> Profile]
      /\ x.repos \in [Key -> Repo] /\ x.pubs \in [Feed -> Addr \cup {Nil}]
  BY <1>t DEF IxTypes
<1>4. /\ GraphSound(S, x.graph) /\ AboutSound(S, x.about)
      /\ ReposSound(S, x.repos) /\ PubsSound(log, x.pubs)
  BY DEF LogSound
<1> HIDE DEF S
<1>5. GraphSound(S \cup {m}, y.graph)
  BY <1>0, <1>1, <1>3, <1>4, GraphStep DEF S
<1>6. AboutSound(S \cup {m}, y.about)
  BY <1>0, <1>1, <1>3, <1>4, AboutStep DEF S
<1>7. ReposSound(S \cup {m}, y.repos)
  BY <1>0, <1>1, <1>3, <1>4, ReposStep
<1>8. PubsSound(Append(log, m), y.pubs)
  BY <1>0, <1>3, <1>4, PubsStep
<1>9. /\ x.votes \in [Key -> Seq(Key)] /\ ListsTypes(Key, x.threads, Len(log))
      /\ ListsTypes(Channel, x.channels, Len(log))
  BY <1>t DEF IxTypes
<1>10. VotesSound(log, x.votes) /\ ThreadsSound(log, x.threads) /\ ChannelsSound(log, x.channels)
  BY DEF LogSound
<1>11. VotesSound(Append(log, m), y.votes)
  BY <1>0, <1>9, <1>10, VotesStep
<1>12. ThreadsSound(Append(log, m), y.threads)
  BY <1>0, <1>l, <1>9, <1>10, ThreadsStep
<1>13. ChannelsSound(Append(log, m), y.channels)
  BY <1>0, <1>l, <1>9, <1>10, ChannelsStep
<1> QED BY <1>0, <1>1, <1>2, <1>5, <1>6, <1>7, <1>8, <1>11, <1>12, <1>13
         DEF LogSound, y

LEMMA LogSoundEmpty == LogSound(<<>>, EmptyIx)
<1>1. ToSet(<<>>) = {}
  BY DEF ToSet
<1>2. /\ EmptyIx.graph = [f \in Feed |-> [c \in Feed |-> Nil]]
      /\ EmptyIx.about = [f \in Feed |-> [name |-> Nil, image |-> Nil]]
      /\ EmptyIx.repos = [k \in Key |-> EmptyRepo]
      /\ EmptyIx.pubs = [f \in Feed |-> Nil]
      /\ EmptyIx = WithPubs(EmptyIx, EmptyIx.pubs)
  BY DEF EmptyIx, WithPubs
<1>3. GraphSound({}, EmptyIx.graph)
  BY <1>2 DEF GraphSound, Contacts
<1>4. AboutSound({}, EmptyIx.about)
  <2>1. \A f \in Feed : Abouts({}, f) = {}
    BY DEF Abouts
  <2>2. ASSUME NEW f \in Feed
        PROVE  /\ LastWord(Abouts({}, f), "name", Nil) = Nil
               /\ LastWord(Abouts({}, f), "image", Nil) = Nil
    BY <2>1, LastWordNone, Zenon
  <2>3. \A f \in Feed : EmptyIx.about[f] = [name |-> Nil, image |-> Nil]
    BY <1>2
  <2> QED BY <2>2, <2>3 DEF AboutSound
<1>5. ReposSound({}, EmptyIx.repos)
  <2>1. \A k \in Key : Updates({}, k) = {} /\ IssuesOn({}, k) = {} /\ ~Founded({}, k)
    BY DEF Updates, IssuesOn, Founded
  <2> QED BY <1>2, <2>1 DEF ReposSound, EmptyRepo
<1>6. PubsSound(<<>>, EmptyIx.pubs)
  <2>1. \A f \in Feed : Announced(<<>>, f) = {}
    BY DEF Announced
  <2> QED BY <1>2, <2>1 DEF PubsSound
<1>7. DOMAIN <<>> = {} /\ \A type, field, v : Places(<<>>, type, field, v) = {}
  BY DEF Places
<1>8. VotesSound(<<>>, EmptyIx.votes)
  <2>1. \A k \in Key : EmptyIx.votes[k] = <<>>
    BY DEF EmptyIx
  <2>2. InLog(<<>>, <<>>, {})
    BY <1>7 DEF InLog, Holds
  <2>3. \A k \in Key : Places(<<>>, "vote", "link", k) = {}
    BY <1>7, Zenon
  <2> QED BY <2>1, <2>2, <2>3 DEF VotesSound
<1>9. ThreadsSound(<<>>, EmptyIx.threads)
  <2>1. \A k \in Key : EmptyIx.threads[k] = EmptyList
    BY DEF EmptyIx
  <2>2. \A k \in Key : Places(<<>>, "post", "root", k) = {}
    BY <1>7, Zenon
  <2> QED BY <2>1, <2>2, ListEmpty DEF ThreadsSound
<1>10. ChannelsSound(<<>>, EmptyIx.channels)
  <2>1. \A c \in Channel : EmptyIx.channels[c] = EmptyList
    BY DEF EmptyIx
  <2>2. \A c \in Channel : Places(<<>>, "post", "channel", c) = {}
    BY <1>7, Zenon
  <2> QED BY <2>1, <2>2, ListEmpty DEF ChannelsSound
<1>11. Distinct(<<>>) /\ Len(<<>>) = 0
  BY <1>7 DEF Distinct
<1> QED BY <1>1, <1>2, <1>3, <1>4, <1>5, <1>6, <1>8, <1>9, <1>10, <1>11, EmptyTypes DEF LogSound

-----------------------------------------------------------------------------
(* The log as it is read: of as many messages, and the log if keys differ. *)
LEMMA Led ==
  ASSUME order \in Seq(Msg), NEW i \in DOMAIN order
  PROVE  GetMsg(order[i].id) \in Msg /\ (KeysDiffer => GetMsg(order[i].id) = order[i])
<1> DEFINE places == {j \in DOMAIN order : order[j].id = order[i].id}
<1>1. i \in places /\ places \subseteq 1 .. Len(order) /\ Len(order) \in Nat
  OBVIOUS
<1>2. Max(places) \in places
  <2>1. PICK j \in places : \A k \in places : k <= j
    BY <1>1, NatMax
  <2>2. \A k \in places : j >= k
    BY <1>1, <2>1
  <2> HIDE DEF places
  <2> QED BY <2>1, <2>2 DEF Max
<1>3. GetMsg(order[i].id) = order[Max(places)]
  BY <1>1 DEF GetMsg
<1> HIDE DEF places
<1>4. Max(places) \in DOMAIN order /\ order[Max(places)] \in Msg
  BY <1>1, <1>2
<1>5. KeysDiffer => Max(places) = i
  BY <1>1, <1>2, <1>4 DEF KeysDiffer, places
<1> QED BY <1>3, <1>4, <1>5

LEMMA LogReadIs ==
  ASSUME order \in Seq(Msg)
  PROVE  LogRead \in Seq(Msg) /\ Len(LogRead) = Len(order) /\ (KeysDiffer => LogRead = order)
<1>1. Len(order) \in Nat /\ DOMAIN order = 1 .. Len(order)
  OBVIOUS
<1>2. LogRead \in [1 .. Len(order) -> Msg]
  BY <1>1, Led DEF LogRead
<1>3. LogRead \in Seq(Msg) /\ Len(LogRead) = Len(order)
  BY <1>1, <1>2
<1>4. ASSUME KeysDiffer PROVE LogRead = order
  <2>1. LogRead = [i \in DOMAIN order |-> order[i]]
    BY <1>4, Led DEF LogRead
  <2> QED BY <2>1
<1> QED BY <1>3, <1>4

(* A rebuild makes buckets that are what they were, but for the pubs.      *)
LEMMA RebuildKeeps ==
  ASSUME IxInv, KeysDiffer, NEW mods \in SUBSET Module
  PROVE  /\ Replay(mods, ix, LogRead)
              = WithPubs(Replayed(order), Replay(mods, ix, LogRead).pubs)
         /\ Replay(mods, ix, LogRead).pubs \in {ix.pubs, Replayed(order).pubs}
<1> DEFINE R == Replayed(order)
<1>0. LogRead = order /\ order \in Seq(Msg)
  BY LogReadIs DEF IxInv, IxTyped
<1>1. Replay(mods, ix, LogRead) = OfModules(mods, R, ix)
  BY <1>0, ReplayIsReplayed
<1>2. ix = WithPubs(R, ix.pubs)
  BY DEF IxInv, IxRight
<1> HIDE DEF R
<1>3. /\ ix.graph = R.graph /\ ix.about = R.about /\ ix.votes = R.votes /\ ix.threads = R.threads
      /\ ix.channels = R.channels /\ ix.repos = R.repos
  BY <1>2 DEF WithPubs
<1> QED BY <1>1, <1>3 DEF OfModules, WithPubs, R

LEMMA IxInit == Init => IxInv
<1> SUFFICES ASSUME Init PROVE IxInv
  OBVIOUS
<1>1. order = <<>> /\ ix = EmptyIx /\ added = {}
  BY DEF Init
<1>2. Replayed(order) = EmptyIx /\ LogSound(order, EmptyIx)
  BY <1>1, ReplayedEmpty, LogSoundEmpty
<1>3. EmptyIx = WithPubs(EmptyIx, EmptyIx.pubs)
  BY LogSoundEmpty DEF LogSound
<1>4. order \in Seq(Msg) /\ Len(order) = 0 /\ DOMAIN order = {} /\ 0 <= KeySpace
  BY <1>1, KeySpaceIs
<1>5. IxTyped
  BY <1>1, <1>3, <1>4, EmptyTypes DEF IxTyped, Climbs
<1>6. IxRight
  BY <1>1, <1>2, <1>3 DEF IxRight
<1> QED BY <1>5, <1>6 DEF IxInv

LEMMA IxStore ==
  ASSUME IxInv, NEW m \in Msg, StoreMessage(m)
  PROVE  IxInv'
<1> DEFINE R == Replayed(order)
           Q == Replayed(order')
<1>1. /\ order \in Seq(Msg) /\ order' = Append(order, m) /\ order' \in Seq(Msg)
      /\ added' = added /\ Store!Admissible(Append(order, m), Len(order) + 1)
      /\ ix' = RunHooks(Module, ix, m)
      /\ Len(order) \in Nat /\ Len(order') = Len(order) + 1
      /\ Len(order) < KeySpace /\ KeySpace \in Nat
  BY KeySpaceIs DEF IxInv, IxTyped, StoreMessage
<1>2. Newest(ToSet(order), m)
  BY <1>1, StoredInOrder
<1>3. ix' = Entered(ix, m)
  BY <1>1 DEF RunHooks, OfModules, Entered, Module
<1>4. IxTyped'
  <2>1. Climbs(order')
    BY <1>1, <1>2, StoredLater DEF IxInv, IxTyped
  <2>2. IxTypes(ix', Len(order'))
    <3>1. IxTypes(ix, Len(order))
      BY DEF IxInv, IxTyped
    <3> QED BY <1>1, <1>3, <3>1, EnteredTypes
  <2>3. Len(order') <= KeySpace
    BY <1>1
  <2>4. ix' = WithPubs(ix', ix'.pubs)
    BY <1>3 DEF Entered, WithPubs
  <2> QED BY <1>1, <2>1, <2>2, <2>3, <2>4 DEF IxInv, IxTyped
<1>5. ASSUME KeysDiffer' PROVE IxRight'
  <2>1. Distinct(order') /\ Distinct(order)
    BY <1>1, <1>5, OnceBefore DEF KeysDiffer, Distinct
  <2>2. IxRight
    BY <2>1 DEF IxInv, KeysDiffer, Distinct
  <2>3. Q = Entered(R, m)
    BY <1>1, ReplayedAppend
  <2>4. LogSound(order', Q)
    <3>1. LogSound(order, R)
      BY <2>2 DEF IxRight
    <3> QED BY <1>1, <1>2, <2>1, <2>3, <3>1, LogSoundStep
  <2>5. /\ ix = WithPubs(R, ix.pubs) /\ ix.pubs \in [Feed -> Addr \cup {Nil}]
        /\ R.pubs \in [Feed -> Addr \cup {Nil}]
    BY <2>2 DEF IxInv, IxTyped, IxRight, LogSound, IxTypes
  <2> HIDE DEF R, Q
  <2>6. ix' = WithPubs(Q, ix'.pubs) /\ ix'.pubs = HandlePub(ix.pubs, m) /\ Q.pubs = HandlePub(R.pubs, m)
    BY <1>3, <2>3, <2>5 DEF Entered, WithPubs
  <2>7. ASSUME NEW f \in Feed
        PROVE  ix'.pubs[f] = Q.pubs[f] \/ <<f, ix'.pubs[f]>> \in added'
    <3>1. ix.pubs[f] = R.pubs[f] \/ <<f, ix.pubs[f]>> \in added
      BY <2>2 DEF IxRight, R
    <3>2. ix'.pubs[f] = Q.pubs[f] \/ (ix'.pubs[f] = ix.pubs[f] /\ Q.pubs[f] = R.pubs[f])
      BY <2>5, <2>6 DEF HandlePub
    <3> QED BY <1>1, <3>1, <3>2
  <2> QED BY <2>4, <2>6, <2>7 DEF IxRight, Q
<1> QED BY <1>4, <1>5 DEF IxInv

LEMMA IxRebuild ==
  ASSUME IxInv, NEW mods \in SUBSET Module, Rebuild(mods)
  PROVE  IxInv'
<1>1. ix' = Replay(mods, ix, LogRead) /\ order' = order /\ added' = added
  BY DEF Rebuild
<1>2. IxTyped'
  <2>1. LogRead \in Seq(Msg) /\ Len(LogRead) = Len(order) /\ Len(order) <= KeySpace
    BY LogReadIs DEF IxInv, IxTyped
  <2>2. IxTypes(Replayed(LogRead), Len(order)) /\ IxTypes(ix, Len(order))
    BY <2>1, ReplayTypes DEF IxInv, IxTyped
  <2>3. ix' = OfModules(mods, Replayed(LogRead), ix)
    BY <1>1, <2>1, ReplayIsReplayed
  <2>4. IxTypes(ix', Len(order))
    <3> DEFINE R == Replayed(LogRead)
    <3>1. /\ ix'.graph \in {R.graph, ix.graph} /\ ix'.about \in {R.about, ix.about}
          /\ ix'.votes \in {R.votes, ix.votes} /\ ix'.threads \in {R.threads, ix.threads}
          /\ ix'.channels \in {R.channels, ix.channels} /\ ix'.repos \in {R.repos, ix.repos}
          /\ ix'.pubs \in {R.pubs, ix.pubs}
      BY <2>3 DEF OfModules
    <3> HIDE DEF R
    <3>2. IxTypes(R, Len(order)) /\ IxTypes(ix, Len(order))
      BY <2>2 DEF R
    <3> QED BY <3>1, <3>2, Zenon DEF IxTypes
  <2>5. ix' = WithPubs(ix', ix'.pubs)
    BY <2>3 DEF OfModules, WithPubs
  <2> QED BY <1>1, <2>4, <2>5 DEF IxInv, IxTyped
<1>3. ASSUME KeysDiffer' PROVE IxRight'
  <2>1. KeysDiffer /\ IxRight
    BY <1>1, <1>3 DEF IxInv, KeysDiffer
  <2>2. /\ ix' = WithPubs(Replayed(order), ix'.pubs)
        /\ ix'.pubs \in {ix.pubs, Replayed(order).pubs}
    BY <1>1, <2>1, RebuildKeeps
  <2>3. Replayed(order') = Replayed(order) /\ LogSound(order', Replayed(order'))
    BY <1>1, <2>1 DEF IxRight
  <2> QED BY <1>1, <2>1, <2>2, <2>3 DEF IxRight
<1> QED BY <1>2, <1>3 DEF IxInv

LEMMA IxAddPub ==
  ASSUME IxInv, NEW f \in Feed, NEW a \in Addr, AddPub(f, a)
  PROVE  IxInv'
<1>1. /\ ix' = [ix EXCEPT !.pubs[f] = a] /\ added' = added \cup {<<f, a>>} /\ order' = order
  BY DEF AddPub
<1>2. /\ IxTypes(ix, Len(order)) /\ ix.pubs \in [Feed -> Addr \cup {Nil}]
      /\ ix = WithPubs(ix, ix.pubs)
  BY DEF IxInv, IxTyped, IxTypes
<1>3. IxTyped'
  <2>1. /\ ix'.graph = ix.graph /\ ix'.about = ix.about /\ ix'.votes = ix.votes
        /\ ix'.threads = ix.threads /\ ix'.channels = ix.channels /\ ix'.repos = ix.repos
        /\ ix'.pubs = [ix.pubs EXCEPT ![f] = a] /\ ix' = WithPubs(ix', ix'.pubs)
    BY <1>1, <1>2 DEF WithPubs
  <2>2. ix'.pubs \in [Feed -> Addr \cup {Nil}]
    BY <1>2, <2>1
  <2>3. IxTypes(ix', Len(order))
    BY <1>2, <2>1, <2>2 DEF IxTypes
  <2>4. added' \subseteq Feed \X Addr
    BY <1>1 DEF IxInv, IxTyped
  <2> QED BY <1>1, <2>1, <2>3, <2>4 DEF IxInv, IxTyped
<1>4. ASSUME KeysDiffer' PROVE IxRight'
  <2>1. IxRight
    BY <1>1, <1>4 DEF IxInv, KeysDiffer
  <2>2. ix = WithPubs(Replayed(order), ix.pubs)
    BY <2>1 DEF IxRight
  <2>3. ix' = WithPubs(Replayed(order), ix'.pubs) /\ ix'.pubs = [ix.pubs EXCEPT ![f] = a]
    BY <1>1, <2>2 DEF WithPubs
  <2>4. Replayed(order') = Replayed(order) /\ LogSound(order', Replayed(order'))
    BY <1>1, <2>1 DEF IxRight
  <2>5. \A g \in Feed : ix'.pubs[g] = Replayed(order').pubs[g] \/ <<g, ix'.pubs[g]>> \in added'
    BY <1>1, <1>2, <2>1, <2>3, <2>4 DEF IxRight
  <2> QED BY <2>3, <2>4, <2>5 DEF IxRight
<1> QED BY <1>3, <1>4 DEF IxInv

LEMMA IxStep == IxInv /\ [Next]_vars => IxInv'
<1> SUFFICES ASSUME IxInv, [Next]_vars PROVE IxInv'
  OBVIOUS
<1>1. ASSUME NEW m \in Msg, StoreMessage(m) PROVE IxInv'
  BY <1>1, IxStore
<1>2. ASSUME NEW mod \in Module, Rebuild({mod}) PROVE IxInv'
  BY <1>2, IxRebuild
<1>3. CASE Rebuild(Module)
  BY <1>3, IxRebuild
<1>4. ASSUME NEW f \in Feed, NEW a \in Addr, AddPub(f, a) PROVE IxInv'
  BY <1>4, IxAddPub
<1>5. CASE UNCHANGED vars
  <2>1. order' = order /\ ix' = ix /\ added' = added
    BY <1>5 DEF vars
  <2>2. IxTyped' /\ (KeysDiffer' => KeysDiffer)
    BY <2>1 DEF IxInv, IxTyped, KeysDiffer
  <2>3. IxRight => IxRight'
    BY <2>1 DEF IxRight
  <2> QED BY <2>2, <2>3 DEF IxInv
<1> QED BY <1>1, <1>2, <1>3, <1>4, <1>5 DEF Next

LEMMA IxAlways == Spec => []IxInv
BY IxInit, IxStep, PTL DEF Spec

-----------------------------------------------------------------------------
(* The properties of a state that the runs check.                          *)

LEMMA TypesHold == IxInv => TypeOK
<1> SUFFICES ASSUME IxInv PROVE TypeOK
  OBVIOUS
<1>1. IxTypes(ix, Len(order)) /\ order \in Seq(Msg) /\ added \subseteq Feed \X Addr
  BY DEF IxInv, IxTyped
<1>2. /\ ix.graph \in [Feed -> [Feed -> Relation \cup {Nil}]]
      /\ ix.about \in [Feed -> [name : Name \cup {Nil}, image : Name \cup {Nil}]]
      /\ ix.votes \in [Key -> Seq(Key)]
      /\ ix.pubs \in [Feed -> Addr \cup {Nil}]
  BY <1>1 DEF IxTypes, Profile
<1>3. /\ DOMAIN ix.threads = Key /\ \A k \in Key : IsList(ix.threads[k])
      /\ DOMAIN ix.channels = Channel /\ \A c \in Channel : IsList(ix.channels[c])
  <2>1. ListsTypes(Key, ix.threads, Len(order)) /\ ListsTypes(Channel, ix.channels, Len(order))
    BY <1>1 DEF IxTypes
  <2> QED BY <2>1 DEF ListsTypes, ListTypes
<1>4. ix.repos \in [Key -> [info : Key \cup {Nil}, updates : SUBSET Key,
                            blobs : SUBSET Blob, issues : SUBSET Key]]
  BY <1>1 DEF IxTypes, Repo
<1> QED BY <1>1, <1>2, <1>3, <1>4 DEF TypeOK

(* What the stored messages say is in the buckets.                         *)
LEMMA BucketsSound ==
  ASSUME IxInv, KeysDiffer
  PROVE  /\ GraphSound(Stored, ix.graph)
         /\ AboutSound(Stored, ix.about)
         /\ ReposSound(Stored, ix.repos)
         /\ Stored \in SUBSET Msg
<1> DEFINE R == Replayed(order)
<1>1. /\ ix = WithPubs(R, ix.pubs)
      /\ GraphSound(Stored, R.graph) /\ AboutSound(Stored, R.about) /\ ReposSound(Stored, R.repos)
  BY DEF IxInv, IxRight, LogSound, Stored
<1> HIDE DEF R
<1>2. ix.graph = R.graph /\ ix.about = R.about /\ ix.repos = R.repos
  BY <1>1 DEF WithPubs
<1>3. Stored \in SUBSET Msg
  BY DEF IxInv, IxTyped, Stored, ToSet
<1> QED BY <1>1, <1>2, <1>3

LEMMA WordsHold == IxInv => LatestWordCounts
<1> SUFFICES ASSUME IxInv, KeysDiffer, NEW f \in Feed
             PROVE  LET Of(type) == {m \in Stored : m.author = f /\ Says(m, type)}
                        self == {m \in Of("about") : Content[m].about = f}
                    IN  /\ \A c \in Feed :
                             LET said == {m \in Of("contact") : Content[m].contact = c}
                             IN  ix.graph[f][c] = IF said = {} THEN Nil
                                                  ELSE [following |-> LastWord(said, "following", FALSE),
                                                        blocking  |-> LastWord(said, "blocking", FALSE)]
                        /\ ix.about[f] = [name  |-> LastWord(self, "name", Nil),
                                          image |-> LastWord(self, "image", Nil)]
  BY DEF LatestWordCounts
<1> DEFINE Of(type) == {m \in Stored : m.author = f /\ Says(m, type)}
<1>1. GraphSound(Stored, ix.graph) /\ AboutSound(Stored, ix.about)
  BY BucketsSound
<1>2. {m \in Of("about") : Content[m].about = f} = Abouts(Stored, f)
  BY DEF Abouts
<1>3. ASSUME NEW c \in Feed
      PROVE  {m \in Of("contact") : Content[m].contact = c} = Contacts(Stored, f, c)
  BY DEF Contacts
<1>4. ix.about[f] = [name  |-> LastWord(Abouts(Stored, f), "name", Nil),
                     image |-> LastWord(Abouts(Stored, f), "image", Nil)]
  BY <1>1 DEF AboutSound
<1>5. ASSUME NEW c \in Feed
      PROVE  ix.graph[f][c] = IF Contacts(Stored, f, c) = {} THEN Nil
               ELSE [following |-> LastWord(Contacts(Stored, f, c), "following", FALSE),
                     blocking  |-> LastWord(Contacts(Stored, f, c), "blocking", FALSE)]
  BY <1>1 DEF GraphSound
<1> QED BY <1>2, <1>3, <1>4, <1>5

LEMMA PubsHold == IxInv => PubsAreListed
<1> SUFFICES ASSUME IxInv, KeysDiffer, NEW f \in Feed
             PROVE  LET announced == {i \in DOMAIN order :
                                        Says(order[i], "pub") /\ Content[order[i]].key = f}
                        last   == CHOOSE i \in announced : \A j \in announced : j <= i
                        byHand == {a \in Addr : <<f, a>> \in added}
                    IN  \/ ix.pubs[f] \in byHand
                        \/ ix.pubs[f] = IF announced = {} THEN Nil
                                        ELSE Content[order[last]].host
  BY DEF PubsAreListed
<1>1. ix.pubs[f] = Replayed(order).pubs[f] \/ <<f, ix.pubs[f]>> \in added
  BY DEF IxInv, IxRight
<1>2. <<f, ix.pubs[f]>> \in added => ix.pubs[f] \in {a \in Addr : <<f, a>> \in added}
  BY DEF IxInv, IxTyped
<1>3. Replayed(order).pubs[f] = IF Announced(order, f) = {} THEN Nil
                                ELSE Content[order[LastOf(Announced(order, f))]].host
  BY DEF IxInv, IxRight, LogSound, PubsSound
<1> QED BY <1>1, <1>2, <1>3 DEF Announced, LastOf

(* The message with a key is found.                                        *)
LEMMA Found ==
  ASSUME order \in Seq(Msg), KeysDiffer
  PROVE  /\ \A m \in Stored : GetMsg(m.id) = m
         /\ \A k : (\A m \in Stored : m.id # k) => GetMsg(k) = Nil
<1>1. ASSUME NEW m \in Stored PROVE GetMsg(m.id) = m
  <2>1. PICK i \in DOMAIN order : m = order[i]
    BY DEF Stored, ToSet
  <2> QED BY <2>1, Led
<1>2. ASSUME NEW k, \A m \in Stored : m.id # k PROVE GetMsg(k) = Nil
  <2>1. {i \in DOMAIN order : order[i].id = k} = {}
    BY <1>2 DEF Stored, ToSet
  <2> QED BY <2>1 DEF GetMsg
<1> QED BY <1>1, <1>2

LEMMA ReposHold == IxInv => RepoIsComplete
<1> SUFFICES ASSUME IxInv, KeysDiffer, NEW k \in Key
             PROVE  LET Of(type) == {m \in Stored : Says(m, type)}
                        updates  == {m \in Of("git-update") : Content[m].repo = k}
                    IN  /\ IsRepo(k) <=> ix.repos[k].info = k
                        /\ ListUpdates(k) = {m.id : m \in updates}
                        /\ ListBlobs(k)
                             = UNION {Content[m].packs \cup Content[m].indexes : m \in updates}
                        /\ Issues(k) = {m \in Of("issue") : Content[m].project = k}
  BY DEF RepoIsComplete
<1> DEFINE Of(type) == {m \in Stored : Says(m, type)}
<1>1. Stored \in SUBSET Msg /\ order \in Seq(Msg)
  BY BucketsSound DEF IxInv, IxTyped
<1>2. /\ ix.repos[k].info = IF Founded(Stored, k) THEN k ELSE Nil
      /\ ix.repos[k].updates = {m.id : m \in Updates(Stored, k)}
      /\ ix.repos[k].blobs
           = UNION {Content[m].packs \cup Content[m].indexes : m \in Updates(Stored, k)}
      /\ ix.repos[k].issues = {m.id : m \in IssuesOn(Stored, k)}
  BY BucketsSound DEF ReposSound
<1>3. {m \in Of("git-update") : Content[m].repo = k} = Updates(Stored, k)
  BY DEF Updates
<1>4. {m \in Of("issue") : Content[m].project = k} = IssuesOn(Stored, k)
  BY DEF IssuesOn
<1>5. IsRepo(k) <=> ix.repos[k].info = k
  <2>1. k # Nil
    BY NilApart
  <2>2. IsRepo(k) <=> Founded(Stored, k)
    <3>1. ASSUME NEW m \in Stored, m.id = k PROVE IsRepo(k) <=> Founded(Stored, k)
      <4>1. GetMsg(k) = m /\ m # Nil /\ \A o \in Stored : o.id = k => o = m
        BY <1>1, <3>1, Found, NilApart
      <4> QED BY <3>1, <4>1 DEF IsRepo, Founded
    <3>2. CASE \A m \in Stored : m.id # k
      BY <1>1, <3>2, Found DEF IsRepo, Founded
    <3> QED BY <3>1, <3>2
  <2> QED BY <1>2, <2>1, <2>2
<1>6. Issues(k) = IssuesOn(Stored, k)
  <2>1. \A m \in IssuesOn(Stored, k) : GetMsg(m.id) = m
    BY <1>1, Found DEF IssuesOn
  <2>2. Issues(k) = {GetMsg(i) : i \in {m.id : m \in IssuesOn(Stored, k)}}
    BY <1>2 DEF Issues
  <2> QED BY <2>1, <2>2
<1> QED BY <1>2, <1>3, <1>4, <1>5, <1>6 DEF ListUpdates, ListBlobs

-----------------------------------------------------------------------------
(* Whom a feed follows, and whom those follow.                             *)

Follows(a, c) == ix.graph[a][c] # Nil /\ ix.graph[a][c].following

(* A chain of n follows leads from f to c.                                 *)
Chain(f, c, n) ==
  \E w \in [0 .. n -> Feed] : /\ w[0] = f /\ w[n] = c
                              /\ \A i \in 1 .. n : Follows(w[i - 1], w[i])

(* The shortest such chain has n follows.                                  *)
Nearest(f, c, n) == Chain(f, c, n) /\ \A o \in 0 .. n - 1 : ~Chain(f, c, o)

Near(f, depth) == {c \in Feed : \E n \in 0 .. depth : Chain(f, c, n)}

Distances(f, depth) == [c \in Near(f, depth) |-> CHOOSE n \in 0 .. depth : Nearest(f, c, n)]

LEMMA ChainStarts ==
  ASSUME NEW f \in Feed, NEW c \in Feed
  PROVE  Chain(f, c, 0) <=> c = f
<1>1. ASSUME c = f PROVE Chain(f, c, 0)
  <2> DEFINE w == [i \in 0 .. 0 |-> f]
  <2>1. w \in [0 .. 0 -> Feed] /\ w[0] = f /\ \A i \in 1 .. 0 : Follows(w[i - 1], w[i])
    OBVIOUS
  <2> QED BY <1>1, <2>1 DEF Chain
<1>2. Chain(f, c, 0) => c = f
  BY DEF Chain
<1> QED BY <1>1, <1>2

LEMMA ChainGrows ==
  ASSUME NEW f \in Feed, NEW c \in Feed, NEW n \in Nat
  PROVE  Chain(f, c, n + 1) <=> \E b \in Feed : Chain(f, b, n) /\ Follows(b, c)
<1>1. ASSUME Chain(f, c, n + 1) PROVE \E b \in Feed : Chain(f, b, n) /\ Follows(b, c)
  <2>1. PICK w \in [0 .. n + 1 -> Feed] :
               w[0] = f /\ w[n + 1] = c /\ \A i \in 1 .. n + 1 : Follows(w[i - 1], w[i])
    BY <1>1 DEF Chain
  <2> DEFINE v == [i \in 0 .. n |-> w[i]]
  <2>2. v \in [0 .. n -> Feed] /\ v[0] = f /\ v[n] = w[n] /\ w[n] \in Feed
    BY <2>1
  <2>3. ASSUME NEW i \in 1 .. n PROVE Follows(v[i - 1], v[i])
    <3>1. v[i - 1] = w[i - 1] /\ v[i] = w[i] /\ i \in 1 .. n + 1
      OBVIOUS
    <3> QED BY <2>1, <3>1
  <2>4. Follows(w[n], c)
    <3>1. n + 1 \in 1 .. n + 1 /\ n + 1 - 1 = n
      OBVIOUS
    <3> QED BY <2>1, <3>1
  <2> HIDE DEF v
  <2>5. Chain(f, w[n], n)
    BY <2>2, <2>3 DEF Chain
  <2> QED BY <2>2, <2>4, <2>5
<1>2. ASSUME NEW b \in Feed, Chain(f, b, n), Follows(b, c) PROVE Chain(f, c, n + 1)
  <2>1. PICK w \in [0 .. n -> Feed] :
               w[0] = f /\ w[n] = b /\ \A i \in 1 .. n : Follows(w[i - 1], w[i])
    BY <1>2 DEF Chain
  <2> DEFINE v == [i \in 0 .. n + 1 |-> IF i = n + 1 THEN c ELSE w[i]]
  <2>2. v \in [0 .. n + 1 -> Feed] /\ v[0] = f /\ v[n + 1] = c
    BY <2>1
  <2>3. ASSUME NEW i \in 1 .. n + 1 PROVE Follows(v[i - 1], v[i])
    <3>1. CASE i = n + 1
      <4>1. v[i - 1] = b /\ v[i] = c
        BY <2>1, <3>1
      <4> QED BY <1>2, <4>1
    <3>2. CASE i # n + 1
      <4>1. v[i - 1] = w[i - 1] /\ v[i] = w[i] /\ i \in 1 .. n
        BY <3>2
      <4> QED BY <2>1, <4>1
    <3> QED BY <3>1, <3>2
  <2> HIDE DEF v
  <2> QED BY <2>2, <2>3 DEF Chain
<1> QED BY <1>1, <1>2

LEMMA NearestExists ==
  ASSUME NEW f \in Feed, NEW depth \in Nat, NEW c \in Near(f, depth)
  PROVE  Distances(f, depth)[c] \in 0 .. depth /\ Nearest(f, c, Distances(f, depth)[c])
<1> DEFINE T == {n \in 0 .. depth : Chain(f, c, n)}
<1>1. T \subseteq Nat /\ T # {}
  BY DEF Near
<1>2. PICK n \in T : \A k \in T : n <= k
  <2> HIDE DEF T
  <2> QED BY <1>1, NatMin
<1>3. n \in 0 .. depth /\ Chain(f, c, n)
  OBVIOUS
<1>4. ASSUME NEW o \in 0 .. n - 1 PROVE ~Chain(f, c, o)
  <2> SUFFICES ASSUME Chain(f, c, o) PROVE FALSE
    OBVIOUS
  <2>1. o \in T /\ ~ (n <= o)
    BY <1>3
  <2> QED BY <1>2, <2>1
<1>5. Nearest(f, c, n)
  BY <1>3, <1>4 DEF Nearest
<1> QED BY <1>3, <1>5 DEF Distances

LEMMA NearestUnique ==
  ASSUME NEW f, NEW c, NEW m \in Nat, NEW n \in Nat, Nearest(f, c, m), Nearest(f, c, n)
  PROVE  m = n
<1>1. ~ (m < n) /\ ~ (n < m)
  BY DEF Nearest
<1> QED BY <1>1

(* One more round finds what is one follow further.                        *)
LEMMA RoundFinds ==
  ASSUME NEW f \in Feed, NEW n \in Nat
  PROVE  Discover(Distances(f, n), n) = Distances(f, n + 1)
<1> DEFINE D == Distances(f, n)
           E == Distances(f, n + 1)
           found == {c \in Feed : \E k \in DOMAIN D : D[k] = n /\ Follows(k, c)}
<1>1. DOMAIN D = Near(f, n) /\ DOMAIN E = Near(f, n + 1)
  BY DEF Distances
<1>2. Discover(D, n) = [c \in DOMAIN D \cup found |-> IF c \in DOMAIN D THEN D[c] ELSE n + 1]
  BY DEF Discover, Follows
<1>3. /\ \A c \in Near(f, n) : c \in Feed /\ D[c] \in 0 .. n /\ Nearest(f, c, D[c])
      /\ \A c \in Near(f, n + 1) : c \in Feed /\ E[c] \in 0 .. n + 1 /\ Nearest(f, c, E[c])
  BY NearestExists DEF Near
<1> HIDE DEF D, E
<1>4. Near(f, n) \subseteq Near(f, n + 1)
  BY DEF Near
<1>5. found \subseteq Near(f, n + 1)
  <2> SUFFICES ASSUME NEW c \in Feed, NEW k \in Near(f, n), D[k] = n, Follows(k, c)
               PROVE  c \in Near(f, n + 1)
    BY <1>1
  <2>1. Chain(f, k, n) /\ k \in Feed
    BY <1>3 DEF Nearest
  <2>2. Chain(f, c, n + 1)
    BY <2>1, ChainGrows
  <2> QED BY <2>2 DEF Near
<1>6. ASSUME NEW c \in Near(f, n + 1), c \notin Near(f, n)
      PROVE  c \in found /\ Nearest(f, c, n + 1)
  <2>1. c \in Feed /\ \A o \in 0 .. n : ~Chain(f, c, o)
    BY <1>6 DEF Near
  <2>2. Chain(f, c, n + 1)
    BY <2>1 DEF Near
  <2>3. PICK b \in Feed : Chain(f, b, n) /\ Follows(b, c)
    BY <2>1, <2>2, ChainGrows
  <2>4. b \in Near(f, n)
    BY <2>3 DEF Near
  <2>5. D[b] \in 0 .. n /\ Chain(f, b, D[b])
    BY <1>3, <2>4 DEF Nearest
  <2>6. Chain(f, c, D[b] + 1)
    BY <2>1, <2>3, <2>5, ChainGrows
  <2>7. D[b] = n
    <3>1. D[b] + 1 \notin 0 .. n
      BY <2>1, <2>6
    <3> QED BY <2>5, <3>1
  <2>8. c \in found
    BY <1>1, <2>1, <2>3, <2>4, <2>7
  <2>9. n + 1 - 1 = n
    OBVIOUS
  <2> QED BY <2>1, <2>2, <2>8, <2>9 DEF Nearest
<1>7. DOMAIN D \cup found = Near(f, n + 1)
  <2> HIDE DEF found
  <2> QED BY <1>1, <1>4, <1>5, <1>6
<1>8. ASSUME NEW c \in Near(f, n + 1)
      PROVE  E[c] = IF c \in DOMAIN D THEN D[c] ELSE n + 1
  <2>1. E[c] \in Nat /\ Nearest(f, c, E[c])
    BY <1>3
  <2>2. CASE c \in DOMAIN D
    <3>1. D[c] \in Nat /\ Nearest(f, c, D[c])
      BY <1>1, <1>3, <2>2
    <3> QED BY <2>1, <2>2, <3>1, NearestUnique
  <2>3. CASE c \notin DOMAIN D
    <3>1. Nearest(f, c, n + 1)
      BY <1>1, <1>6, <2>3
    <3> QED BY <2>1, <2>3, <3>1, NearestUnique
  <2> QED BY <2>2, <2>3
<1>9. E = [c \in Near(f, n + 1) |-> E[c]]
  BY DEF E, Distances
<1> HIDE DEF found
<1>10. E = [c \in DOMAIN D \cup found |-> IF c \in DOMAIN D THEN D[c] ELSE n + 1]
  BY <1>7, <1>8, <1>9
<1> QED BY <1>2, <1>10 DEF D, E

LEMMA RoundStarts ==
  ASSUME NEW f \in Feed
  PROVE  Distances(f, 0) = [c \in {f} |-> 0]
<1>1. Near(f, 0) = {f}
  <2>1. ASSUME NEW c \in Feed PROVE (\E n \in 0 .. 0 : Chain(f, c, n)) <=> c = f
    BY ChainStarts
  <2> QED BY <2>1 DEF Near
<1>2. Distances(f, 0)[f] = 0
  BY <1>1, NearestExists
<1> QED BY <1>1, <1>2 DEF Distances

(* After its rounds the map of GetFollows has the feeds within that many   *)
(* follows, each with its distance, for every depth (graph.go:62-96).      *)
THEOREM FollowsFound ==
  ASSUME NEW f \in Feed, NEW depth \in Nat
  PROVE  GetFollows(f, depth) = Distances(f, depth)
<1> DEFINE Rounds(h) == h = [n \in 0 .. depth |->
                               IF n = 0 THEN [c \in {f} |-> 0] ELSE Discover(h[n - 1], n - 1)]
           d == [n \in 0 .. depth |-> Distances(f, n)]
           h == CHOOSE h : Rounds(h)
<1>1. Rounds(d)
  <2>1. ASSUME NEW n \in 0 .. depth
        PROVE  d[n] = IF n = 0 THEN [c \in {f} |-> 0] ELSE Discover(d[n - 1], n - 1)
    <3>1. CASE n = 0
      BY <3>1, RoundStarts
    <3>2. CASE n # 0
      <4>1. n - 1 \in Nat /\ n - 1 + 1 = n /\ d[n] = Distances(f, n) /\ d[n - 1] = Distances(f, n - 1)
        BY <3>2
      <4>2. Discover(Distances(f, n - 1), n - 1) = Distances(f, n)
        BY <4>1, RoundFinds
      <4> QED BY <3>2, <4>1, <4>2
    <3> QED BY <3>1, <3>2
  <2>2. d = [n \in 0 .. depth |-> d[n]]
    OBVIOUS
  <2> HIDE DEF d
  <2> QED BY <2>1, <2>2
<1>2. Rounds(h)
  <2> HIDE DEF Rounds, d
  <2> QED BY <1>1
<1>3. GetFollows(f, depth) = h[depth]
  BY DEF GetFollows
<1> HIDE DEF h, d
<1>4. \A n \in 0 .. depth : h[n] = IF n = 0 THEN [c \in {f} |-> 0] ELSE Discover(h[n - 1], n - 1)
  BY <1>2
<1> DEFINE S == {n \in Nat : n <= depth => h[n] = Distances(f, n)}
<1>5. 0 \in S
  BY <1>4, RoundStarts
<1>6. ASSUME NEW n \in Nat, n \in S PROVE n + 1 \in S
  <2> SUFFICES ASSUME n + 1 <= depth PROVE h[n + 1] = Distances(f, n + 1)
    OBVIOUS
  <2>1. n + 1 \in 0 .. depth /\ n + 1 # 0 /\ n + 1 - 1 = n /\ h[n] = Distances(f, n)
    BY <1>6
  <2>2. h[n + 1] = Discover(h[n], n)
    BY <1>4, <2>1
  <2> QED BY <2>1, <2>2, RoundFinds
<1>7. depth \in S
  <2> HIDE DEF S
  <2> QED BY <1>5, <1>6, NatSets
<1> QED BY <1>3, <1>7

LEMMA FollowsHold == FollowsAreNearest
<1> SUFFICES ASSUME NEW f \in Feed, NEW depth \in 0 .. 2
             PROVE  LET Reaches(c, n) == \E w \in [0 .. n -> Feed] :
                          /\ w[0] = f /\ w[n] = c
                          /\ \A i \in 1 .. n : /\ ix.graph[w[i - 1]][w[i]] # Nil
                                               /\ ix.graph[w[i - 1]][w[i]].following
                        near == {c \in Feed : \E n \in 0 .. depth : Reaches(c, n)}
                    IN  GetFollows(f, depth) =
                          [c \in near |-> CHOOSE n \in 0 .. depth :
                                            Reaches(c, n) /\ \A o \in 0 .. n - 1 : ~Reaches(c, o)]
  BY DEF FollowsAreNearest
<1>1. depth \in Nat
  OBVIOUS
<1>2. GetFollows(f, depth) = Distances(f, depth)
  BY <1>1, FollowsFound
<1> QED BY <1>2 DEF Distances, Near, Nearest, Chain, Follows

-----------------------------------------------------------------------------
(* Sequences. *)

LEMMA FunctionIsSeq ==
  ASSUME NEW n \in Nat, NEW S, NEW f \in [1 .. n -> S]
  PROVE  f \in Seq(S) /\ Len(f) = n
OBVIOUS

(* r is what seq has of S among its first n elements, and h its places.    *)
Picks(seq, n, S, r, h) ==
  /\ r \in Seq(S)
  /\ \A j \in 1 .. Len(r) : h[j] \in 1 .. n /\ r[j] = seq[h[j]]
  /\ \A i, j \in 1 .. Len(r) : i < j => h[i] < h[j]
  /\ \A p \in 1 .. n : seq[p] \in S => \E j \in 1 .. Len(r) : h[j] = p

(* r with the element n of seq, if it is in S. *)
With(seq, S, r, n) == IF seq[n] \in S THEN Append(r, seq[n]) ELSE r

LEMMA KeptUnfolds ==
  ASSUME NEW seq, Len(seq) \in Nat, NEW S
  PROVE  \E g : /\ Kept(seq, S) = g[Len(seq)]
                /\ g[0] = <<>>
                /\ \A n \in 1 .. Len(seq) : g[n] = With(seq, S, g[n - 1], n)
<1> DEFINE l == Len(seq)
           Upto(n, g) == g = [i \in 0 .. n |-> IF i = 0 THEN <<>> ELSE With(seq, S, g[i - 1], i)]
           T == {n \in Nat : \E g : Upto(n, g)}
           g == CHOOSE g : Upto(l, g)
<1>1. 0 \in T
  <2> DEFINE h == [i \in 0 .. 0 |-> <<>>]
  <2>1. Upto(0, h)
    OBVIOUS
  <2> QED BY <2>1
<1>2. ASSUME NEW n \in Nat, n \in T PROVE n + 1 \in T
  <2>1. PICK h : Upto(n, h)
    BY <1>2
  <2> DEFINE f == [i \in 0 .. n + 1 |-> IF i = n + 1 THEN With(seq, S, h[n], i) ELSE h[i]]
  <2>2. \A i \in 0 .. n :
          f[i] = h[i] /\ h[i] = IF i = 0 THEN <<>> ELSE With(seq, S, h[i - 1], i)
    BY <2>1
  <2>3. \A i \in 0 .. n + 1 : f[i] = IF i = 0 THEN <<>> ELSE With(seq, S, f[i - 1], i)
    <3> TAKE i \in 0 .. n + 1
    <3>1. CASE i = n + 1
      <4>1. f[i] = With(seq, S, h[n], i) /\ f[i - 1] = h[n] /\ i # 0
        BY <3>1, <2>2
      <4> QED BY <4>1
    <3>2. CASE i # n + 1
      <4>1. i \in 0 .. n /\ f[i] = h[i] /\ (i # 0 => f[i - 1] = h[i - 1])
        BY <3>2, <2>2
      <4> QED BY <2>2, <4>1
    <3> QED BY <3>1, <3>2
  <2>4. f = [i \in 0 .. n + 1 |-> f[i]]
    OBVIOUS
  <2>5. Upto(n + 1, f)
    <3> HIDE DEF f
    <3> QED BY <2>3, <2>4
  <2> HIDE DEF Upto, f
  <2> QED BY <2>5
<1>3. l \in T
  <2> HIDE DEF T
  <2> QED BY <1>1, <1>2, NatSets
<1>4. Upto(l, g)
  <2> HIDE DEF Upto
  <2> QED BY <1>3
<1>5. Kept(seq, S) = g[l]
  BY DEF Kept, With
<1> HIDE DEF g
<1>6. g[0] = <<>> /\ \A n \in 1 .. l : g[n] = With(seq, S, g[n - 1], n)
  BY <1>4
<1> QED BY <1>5, <1>6

LEMMA KeptPicks ==
  ASSUME NEW seq, Len(seq) \in Nat, NEW S
  PROVE  \E h : Picks(seq, Len(seq), S, Kept(seq, S), h)
<1>1. PICK g : /\ Kept(seq, S) = g[Len(seq)]
               /\ g[0] = <<>>
               /\ \A n \in 1 .. Len(seq) : g[n] = With(seq, S, g[n - 1], n)
  BY KeptUnfolds
<1> DEFINE T == {n \in Nat : n <= Len(seq) => \E h : Picks(seq, n, S, g[n], h)}
<1>2. 0 \in T
  <2>1. Picks(seq, 0, S, <<>>, <<>>)
    BY DEF Picks
  <2> QED BY <1>1, <2>1
<1>3. ASSUME NEW n \in Nat, n \in T PROVE n + 1 \in T
  <2> SUFFICES ASSUME n + 1 <= Len(seq) PROVE \E h : Picks(seq, n + 1, S, g[n + 1], h)
    OBVIOUS
  <2>1. PICK h : Picks(seq, n, S, g[n], h)
    BY <1>3
  <2>2. g[n + 1] = IF seq[n + 1] \in S THEN Append(g[n], seq[n + 1]) ELSE g[n]
    <3>1. n + 1 \in 1 .. Len(seq) /\ n + 1 - 1 = n
      OBVIOUS
    <3> QED BY <1>1, <3>1 DEF With
  <2>3. CASE seq[n + 1] \notin S
    <3>1. Picks(seq, n + 1, S, g[n], h)
      <4>1. \A p \in 1 .. n + 1 : p \in 1 .. n \/ p = n + 1
        OBVIOUS
      <4> QED BY <2>1, <2>3, <4>1 DEF Picks
    <3> QED BY <2>2, <2>3, <3>1
  <2>4. CASE seq[n + 1] \in S
    <3> DEFINE r == g[n]
               l == Len(r) + 1
               s == Append(r, seq[n + 1])
               k == [j \in 1 .. l |-> IF j = l THEN n + 1 ELSE h[j]]
    <3>1. /\ r \in Seq(S) /\ Len(r) \in Nat
          /\ \A j \in 1 .. Len(r) : h[j] \in 1 .. n /\ r[j] = seq[h[j]]
          /\ \A i, j \in 1 .. Len(r) : i < j => h[i] < h[j]
          /\ \A p \in 1 .. n : seq[p] \in S => \E j \in 1 .. Len(r) : h[j] = p
      BY <2>1 DEF Picks
    <3>2. /\ s \in Seq(S) /\ Len(s) = l /\ s[l] = seq[n + 1]
          /\ \A j \in 1 .. Len(r) : s[j] = r[j]
      BY <2>4, <3>1
    <3>3. k[l] = n + 1 /\ \A j \in 1 .. Len(r) : k[j] = h[j] /\ j < l
      BY <3>1
    <3>4. /\ \A j \in 1 .. l : j \in 1 .. Len(r) \/ j = l
          /\ \A p \in 1 .. n + 1 : p \in 1 .. n \/ p = n + 1
          /\ l \in 1 .. l /\ \A j \in 1 .. Len(r) : j \in 1 .. l
      BY <3>1
    <3> HIDE DEF r, s, k
    <3>5. \A j \in 1 .. l : k[j] \in 1 .. n + 1 /\ s[j] = seq[k[j]]
      BY <3>1, <3>2, <3>3, <3>4
    <3>6. ASSUME NEW i \in 1 .. l, NEW j \in 1 .. l, i < j PROVE k[i] < k[j]
      <4>1. i \in 1 .. Len(r)
        BY <3>1, <3>6
      <4>2. CASE j = l
        BY <3>1, <3>3, <4>1, <4>2
      <4>3. CASE j \in 1 .. Len(r)
        BY <3>1, <3>3, <3>6, <4>1, <4>3
      <4> QED BY <3>4, <4>2, <4>3
    <3>7. \A p \in 1 .. n + 1 : seq[p] \in S => \E j \in 1 .. l : k[j] = p
      BY <3>1, <3>3, <3>4
    <3>8. Picks(seq, n + 1, S, s, k)
      BY <3>2, <3>5, <3>6, <3>7 DEF Picks
    <3> QED BY <2>2, <2>4, <3>8 DEF s, r
  <2> QED BY <2>3, <2>4
<1>4. Len(seq) \in T
  <2> HIDE DEF T
  <2> QED BY <1>2, <1>3, NatSets
<1> QED BY <1>1, <1>4

-----------------------------------------------------------------------------
(* Orders. *)

(* R orders S. *)
Orders(R, S) ==
  /\ \A d \in S : <<d, d>> \notin R
  /\ \A d, e, f \in S : <<d, e>> \in R /\ <<e, f>> \in R => <<d, f>> \in R
  /\ \A d, e \in S : d = e \/ <<d, e>> \in R \/ <<e, d>> \in R

Below(R, S, e) == {d \in S : <<d, e>> \in R}

(* The number of those below it is the place of an element. *)
LEMMA Ranks ==
  ASSUME NEW S, IsFiniteSet(S), NEW R, Orders(R, S)
  PROVE  /\ \A e \in S : Cardinality(Below(R, S, e)) \in 0 .. Cardinality(S) - 1
         /\ \A d, e \in S : <<d, e>> \in R
                              => Cardinality(Below(R, S, d)) < Cardinality(Below(R, S, e))
         /\ \A i \in 1 .. Cardinality(S) : \E e \in S : Cardinality(Below(R, S, e)) = i - 1
<1> DEFINE Rank(e) == Cardinality(Below(R, S, e))
           N == Cardinality(S)
<1>1. N \in Nat
  BY FS_CardinalityType
<1>2. ASSUME NEW e \in S PROVE Rank(e) \in 0 .. N - 1
  <2>1. Below(R, S, e) \in SUBSET S /\ e \notin Below(R, S, e)
    BY DEF Below, Orders
  <2>2. IsFiniteSet(Below(R, S, e)) /\ Rank(e) <= N /\ Rank(e) # N
    BY <2>1, FS_Subset
  <2>3. Rank(e) \in Nat
    BY <2>2, FS_CardinalityType
  <2> QED BY <1>1, <2>2, <2>3
<1>3. ASSUME NEW d \in S, NEW e \in S, <<d, e>> \in R PROVE Rank(d) < Rank(e)
  <2>1. Below(R, S, d) \in SUBSET Below(R, S, e)
    BY <1>3 DEF Below, Orders
  <2>2. d \in Below(R, S, e) /\ d \notin Below(R, S, d)
    BY <1>3 DEF Below, Orders
  <2>3. IsFiniteSet(Below(R, S, e))
    <3>1. Below(R, S, e) \in SUBSET S
      BY DEF Below
    <3> QED BY <3>1, FS_Subset
  <2>4. Rank(d) <= Rank(e) /\ Rank(d) # Rank(e)
    BY <2>1, <2>2, <2>3, FS_Subset
  <2> QED BY <1>2, <2>4
<1>4. ASSUME NEW i \in 1 .. N PROVE \E e \in S : Rank(e) = i - 1
  <2> DEFINE I == 0 .. N - 1
             f == [e \in S |-> Rank(e)]
  <2>1. f \in [S -> I]
    BY <1>2
  <2>2. \A d, e \in S : f[d] = f[e] => d = e
    <3>1. \A d, e \in S : f[d] = Rank(d) /\ (<<d, e>> \in R => Rank(d) < Rank(e))
      BY <1>3
    <3>2. \A d \in S : f[d] \in I
      BY <2>1
    <3>3. \A d \in S : f[d] \in Int
      BY <1>1, <3>2
    <3> HIDE DEF f, I, Rank
    <3>4. ASSUME NEW d \in S, NEW e \in S, f[d] = f[e] PROVE d = e
      <4>1. ~ (<<d, e>> \in R) /\ ~ (<<e, d>> \in R)
        BY <3>1, <3>3, <3>4
      <4> QED BY <4>1 DEF Orders
    <3> QED BY <3>4
  <2>3. f \in Injection(S, I)
    BY <2>1, <2>2 DEF Injection, IsInjective
  <2>4. IsFiniteSet(I) /\ Cardinality(I) = N
    <3>1. 0 \in Int /\ N - 1 \in Int
      BY <1>1
    <3> HIDE DEF N
    <3>2. IsFiniteSet(I) /\ Cardinality(I) = IF 0 > N - 1 THEN 0 ELSE N - 1 - 0 + 1
      BY <3>1, FS_Interval
    <3> QED BY <1>1, <3>2
  <2>5. f \in Surjection(S, I)
    BY <2>3, <2>4, FS_Injection
  <2>6. i - 1 \in I
    BY <1>1
  <2>7. \E e \in S : f[e] = i - 1
    <3> HIDE DEF f, I
    <3> QED BY <2>5, <2>6 DEF Surjection
  <2> QED BY <2>7
<1> QED BY <1>2, <1>3, <1>4

(* s has the elements of S in the order R. *)
InOrder(s, S, R) ==
  /\ Len(s) = Cardinality(S) /\ DOMAIN s = 1 .. Len(s) /\ Len(s) \in Nat
  /\ \A i \in 1 .. Len(s) : s[i] \in S
  /\ \A e \in S : \E i \in 1 .. Len(s) : s[i] = e
  /\ \A i, j \in 1 .. Len(s) : i < j => <<s[i], s[j]>> \in R

LEMMA SortedIs ==
  ASSUME NEW S, IsFiniteSet(S), NEW R, Orders(R, S),
         NEW s, s = [i \in 1 .. Cardinality(S) |-> s[i]],
         \A i \in 1 .. Cardinality(S) :
           s[i] = CHOOSE e \in S : Cardinality(Below(R, S, e)) = i - 1
  PROVE  InOrder(s, S, R)
<1> DEFINE Rank(e) == Cardinality(Below(R, S, e))
           N == Cardinality(S)
<1>1. N \in Nat
  BY FS_CardinalityType
<1>2. /\ \A e \in S : Rank(e) \in 0 .. N - 1
      /\ \A d, e \in S : <<d, e>> \in R => Rank(d) < Rank(e)
      /\ \A i \in 1 .. N : \E e \in S : Rank(e) = i - 1
  BY Ranks
<1> HIDE DEF Rank
<1>3. /\ s = [i \in 1 .. N |-> s[i]]
      /\ \A i \in 1 .. N : s[i] = CHOOSE e \in S : Rank(e) = i - 1
  BY DEF Rank
<1> HIDE DEF N
<1>4. ASSUME NEW i \in 1 .. N PROVE s[i] \in S /\ Rank(s[i]) = i - 1
  <2>1. s[i] = CHOOSE e \in S : Rank(e) = i - 1
    BY <1>3
  <2> QED BY <1>2, <2>1
<1>5. Len(s) = N /\ DOMAIN s = 1 .. N
  <2>1. s \in [1 .. N -> S]
    BY <1>3, <1>4
  <2> QED BY <1>1, <2>1, FunctionIsSeq
<1>6. ASSUME NEW d \in S, NEW e \in S, Rank(d) <= Rank(e) PROVE d = e \/ <<d, e>> \in R
  <2>1. ~ (<<e, d>> \in R)
    <3>1. Rank(d) \in 0 .. N - 1 /\ Rank(e) \in 0 .. N - 1
      BY <1>2
    <3>2. ~ (Rank(e) < Rank(d))
      BY <1>1, <1>6, <3>1
    <3> QED BY <1>2, <3>2
  <2> QED BY <2>1 DEF Orders
<1>7. ASSUME NEW e \in S PROVE \E i \in 1 .. N : s[i] = e
  <2>1. Rank(e) \in 0 .. N - 1
    BY <1>2
  <2>2. PICK i \in 1 .. N : i = Rank(e) + 1
    BY <1>1, <2>1
  <2>3. Rank(s[i]) = Rank(e) /\ s[i] \in S
    <3>1. Rank(s[i]) = i - 1 /\ s[i] \in S
      BY <1>4
    <3>2. Rank(e) \in Int
      BY <1>1, <2>1
    <3> QED BY <2>2, <3>1, <3>2
  <2>4. Rank(e) <= Rank(s[i]) /\ Rank(s[i]) <= Rank(e)
    BY <2>1, <2>3
  <2>5. s[i] = e \/ (<<s[i], e>> \in R /\ <<e, s[i]>> \in R)
    BY <1>6, <2>3, <2>4
  <2>6. s[i] = e
    BY <2>3, <2>5 DEF Orders
  <2> QED BY <2>6
<1>8. ASSUME NEW i \in 1 .. N, NEW j \in 1 .. N, i < j PROVE <<s[i], s[j]>> \in R
  <2>1. Rank(s[i]) = i - 1 /\ Rank(s[j]) = j - 1 /\ s[i] \in S /\ s[j] \in S
    BY <1>4
  <2>2. Rank(s[i]) <= Rank(s[j]) /\ Rank(s[i]) # Rank(s[j])
    BY <1>1, <1>8, <2>1
  <2> QED BY <1>6, <2>1, <2>2
<1> QED BY <1>1, <1>4, <1>5, <1>7, <1>8 DEF InOrder, N

-----------------------------------------------------------------------------
(* What the queries show. *)

(* The messages of r, or those whose keys are in keys, are those at the    *)
(* places T of the log, at g[1], g[2], ..., in the order B.                *)
ShowsAt(T, n, g, B) ==
  /\ n \in Nat
  /\ \A i \in 1 .. n : g[i] \in T
  /\ \A a \in T : \E i \in 1 .. n : g[i] = a
  /\ \A i, j \in 1 .. n : i < j => <<g[i], g[j]>> \in B

KeysAt(keys, T, g, B) ==
  /\ DOMAIN keys = 1 .. Len(keys)
  /\ ShowsAt(T, Len(keys), g, B)
  /\ \A i \in 1 .. Len(keys) : keys[i] = order[g[i]].id

MsgsAt(r, T, g, B) ==
  /\ DOMAIN r = 1 .. Len(r)
  /\ ShowsAt(T, Len(r), g, B)
  /\ \A i \in 1 .. Len(r) : r[i] = order[g[i]]

(* The stored messages are those of the log. *)
LEMMA LogTyped ==
  ASSUME IxInv
  PROVE  /\ order \in Seq(Msg) /\ Len(order) \in Nat /\ DOMAIN order = 1 .. Len(order)
         /\ \A a \in 1 .. Len(order) : order[a] \in Stored /\ order[a] \in Msg
         /\ \A m \in Stored : m \in Msg /\ \E a \in 1 .. Len(order) : m = order[a]
<1>1. order \in Seq(Msg) /\ Len(order) \in Nat /\ DOMAIN order = 1 .. Len(order)
  BY DEF IxInv, IxTyped
<1>2. \A a \in 1 .. Len(order) : order[a] \in Msg
  BY <1>1
<1>3. Stored = {order[a] : a \in 1 .. Len(order)}
  BY <1>1 DEF Stored, ToSet
<1> QED BY <1>1, <1>2, <1>3

(* It holds no message twice, and its keys lead to them.                   *)
LEMMA LogFacts ==
  ASSUME IxInv, KeysDiffer
  PROVE  /\ \A a \in 1 .. Len(order) : GetMsg(order[a].id) = order[a]
         /\ \A a, b \in 1 .. Len(order) : order[a].id = order[b].id => a = b
<1>1. order \in Seq(Msg)
  BY LogTyped
<1>2. \A a \in 1 .. Len(order) : order[a] \in Stored
  BY LogTyped
<1>3. \A m \in Stored : GetMsg(m.id) = m
  BY <1>1, Found
<1>4. \A a, b \in 1 .. Len(order) : order[a].id = order[b].id => a = b
  BY LogTyped DEF KeysDiffer
<1> QED BY <1>2, <1>3, <1>4

LEMMA ShowsThem ==
  ASSUME IxInv, KeysDiffer, NEW T \in SUBSET (1 .. Len(order)), NEW r, NEW g, NEW B, MsgsAt(r, T, g, B)
  PROVE  /\ ToSet(r) = {order[a] : a \in T}
         /\ \A i, j \in DOMAIN r, a, b \in T :
              i < j /\ r[i] = order[a] /\ r[j] = order[b] => <<a, b>> \in B
<1>1. /\ DOMAIN r = 1 .. Len(r) /\ \A i \in 1 .. Len(r) : r[i] = order[g[i]] /\ g[i] \in T
      /\ \A a \in T : \E i \in 1 .. Len(r) : g[i] = a
      /\ \A i, j \in 1 .. Len(r) : i < j => <<g[i], g[j]>> \in B
  BY DEF MsgsAt, ShowsAt
<1>2. ToSet(r) = {r[i] : i \in DOMAIN r}
  BY DEF ToSet
<1>3. ToSet(r) = {order[a] : a \in T}
  <2>1. \A m : m \in ToSet(r) <=> \E i \in 1 .. Len(r) : m = order[g[i]]
    BY <1>1, <1>2
  <2>2. \A m : m \in ToSet(r) <=> \E a \in T : m = order[a]
    <3>1. ASSUME NEW i \in 1 .. Len(r) PROVE \E a \in T : order[g[i]] = order[a]
      BY <1>1
    <3>2. ASSUME NEW a \in T PROVE \E i \in 1 .. Len(r) : order[a] = order[g[i]]
      <4>1. PICK i \in 1 .. Len(r) : g[i] = a
        BY <1>1
      <4> QED BY <4>1
    <3>3. ASSUME NEW m, NEW i \in 1 .. Len(r), m = order[g[i]] PROVE \E a \in T : m = order[a]
      BY <3>1, <3>3
    <3>4. ASSUME NEW m, NEW a \in T, m = order[a] PROVE \E i \in 1 .. Len(r) : m = order[g[i]]
      BY <3>2, <3>4
    <3> QED BY <2>1, <3>3, <3>4
  <2> QED BY <2>2
<1>4. ASSUME NEW i \in DOMAIN r, NEW a \in T, r[i] = order[a] PROVE g[i] = a
  <2>1. g[i] \in 1 .. Len(order) /\ a \in 1 .. Len(order) /\ order[g[i]] = order[a]
    BY <1>1, <1>4
  <2> QED BY <2>1, LogFacts, LogTyped
<1>5. ASSUME NEW i \in DOMAIN r, NEW j \in DOMAIN r, NEW a \in T, NEW b \in T,
             i < j, r[i] = order[a], r[j] = order[b]
      PROVE  <<a, b>> \in B
  BY <1>1, <1>4, <1>5
<1> QED BY <1>3, <1>5

(* Fetching the keys leaves out none of them.                              *)
LEMMA FetchShows ==
  ASSUME IxInv, KeysDiffer, NEW T \in SUBSET (1 .. Len(order)), NEW keys, NEW g, NEW B, KeysAt(keys, T, g, B)
  PROVE  \E h : MsgsAt(Fetch(keys), T, h, B)
<1> DEFINE n == Len(keys)
           msgs == [i \in DOMAIN keys |-> GetMsg(keys[i])]
           r == Fetch(keys)
<1>1. /\ n \in Nat /\ DOMAIN keys = 1 .. n
      /\ \A i \in 1 .. n : g[i] \in T /\ keys[i] = order[g[i]].id
      /\ \A a \in T : \E i \in 1 .. n : g[i] = a
      /\ \A i, j \in 1 .. n : i < j => <<g[i], g[j]>> \in B
  BY DEF KeysAt, ShowsAt
<1>2. ASSUME NEW i \in 1 .. n PROVE msgs[i] = order[g[i]] /\ msgs[i] \in Stored
  <2>1. g[i] \in 1 .. Len(order) /\ keys[i] = order[g[i]].id /\ i \in DOMAIN keys
    BY <1>1
  <2>2. msgs[i] = GetMsg(keys[i])
    BY <2>1
  <2> QED BY <2>1, <2>2, LogFacts, LogTyped
<1>3. Len(msgs) = n
  <2>1. msgs \in [1 .. n -> Stored]
    BY <1>1, <1>2
  <2> HIDE DEF msgs, n
  <2> QED BY <1>1, <2>1, FunctionIsSeq
<1>4. r = Kept(msgs, Stored)
  BY DEF Fetch
<1> HIDE DEF msgs, n, r
<1>5. PICK h : Picks(msgs, n, Stored, r, h)
  BY <1>1, <1>3, <1>4, KeptPicks
<1> DEFINE k == [j \in 1 .. Len(r) |-> g[h[j]]]
<1>6. /\ Len(r) \in Nat /\ DOMAIN r = 1 .. Len(r)
      /\ \A j \in 1 .. Len(r) : h[j] \in 1 .. n /\ r[j] = msgs[h[j]] /\ k[j] = g[h[j]]
      /\ \A i, j \in 1 .. Len(r) : i < j => h[i] < h[j]
      /\ \A p \in 1 .. n : \E j \in 1 .. Len(r) : h[j] = p
  BY <1>2, <1>5 DEF Picks
<1> HIDE DEF k
<1>7. ShowsAt(T, Len(r), k, B)
  <2>1. \A j \in 1 .. Len(r) : k[j] \in T
    BY <1>1, <1>6
  <2>2. ASSUME NEW a \in T PROVE \E j \in 1 .. Len(r) : k[j] = a
    <3>1. PICK i \in 1 .. n : g[i] = a
      BY <1>1
    <3>2. PICK j \in 1 .. Len(r) : h[j] = i
      BY <1>6
    <3> QED BY <1>6, <3>1, <3>2
  <2>3. ASSUME NEW i \in 1 .. Len(r), NEW j \in 1 .. Len(r), i < j PROVE <<k[i], k[j]>> \in B
    <3>1. h[i] \in 1 .. n /\ h[j] \in 1 .. n /\ h[i] < h[j] /\ k[i] = g[h[i]] /\ k[j] = g[h[j]]
      BY <1>6, <2>3
    <3> QED BY <1>1, <3>1
  <2> QED BY <1>6, <2>1, <2>2, <2>3 DEF ShowsAt
<1>8. MsgsAt(r, T, k, B)
  BY <1>2, <1>6, <1>7 DEF MsgsAt
<1> QED BY <1>8 DEF r

(* The order of storing, and that of the times.                            *)
AsStored(T) == {p \in T \X T : p[1] < p[2]}

Sooner(T, a, b) == a # b /\ Precedes(Cardinality(T), order[a], order[b], a < b)

ByTime(T) == {p \in T \X T : Sooner(T, p[1], p[2])}

LEMMA InLogShows ==
  ASSUME IxInv, KeysDiffer, NEW T \in SUBSET (1 .. Len(order)), NEW keys \in Seq(Key), InLog(order, keys, T)
  PROVE  \E g : KeysAt(keys, T, g, AsStored(T))
<1> DEFINE n == Len(keys)
           g == [i \in 1 .. n |-> CHOOSE a \in T : keys[i] = order[a].id]
<1>1. n \in Nat /\ DOMAIN keys = 1 .. n
  OBVIOUS
<1>2. /\ \A i \in 1 .. n : \E a \in T : keys[i] = order[a].id
      /\ \A a \in T : \E i \in 1 .. n : keys[i] = order[a].id
      /\ \A i, j \in 1 .. n, a, b \in T :
           i < j /\ keys[i] = order[a].id /\ keys[j] = order[b].id => a < b
  BY <1>1 DEF InLog, Holds
<1> HIDE DEF n
<1>3. \A i \in 1 .. n : g[i] \in T /\ keys[i] = order[g[i]].id
  BY <1>2
<1> HIDE DEF g
<1>4. ASSUME NEW a \in T PROVE \E i \in 1 .. n : g[i] = a
  <2>1. PICK i \in 1 .. n : keys[i] = order[a].id
    BY <1>2
  <2>2. g[i] \in 1 .. Len(order) /\ a \in 1 .. Len(order) /\ order[g[i]].id = order[a].id
    BY <1>3, <2>1
  <2>3. g[i] = a
    BY <2>2, LogFacts, LogTyped
  <2> QED BY <2>3
<1>5. \A i, j \in 1 .. n : i < j => <<g[i], g[j]>> \in AsStored(T)
  <2>1. ASSUME NEW i \in 1 .. n, NEW j \in 1 .. n, i < j PROVE g[i] < g[j]
    <3>1. g[i] \in T /\ keys[i] = order[g[i]].id /\ g[j] \in T /\ keys[j] = order[g[j]].id
      BY <1>3
    <3> QED BY <1>2, <2>1, <3>1
  <2>2. ASSUME NEW i \in 1 .. n, NEW j \in 1 .. n, i < j PROVE <<g[i], g[j]>> \in AsStored(T)
    <3>1. <<g[i], g[j]>> \in T \X T /\ g[i] < g[j]
      BY <1>3, <2>1, <2>2
    <3> QED BY <3>1 DEF AsStored
  <2> QED BY <2>2
<1>6. ShowsAt(T, n, g, AsStored(T))
  BY <1>1, <1>3, <1>4, <1>5 DEF ShowsAt
<1>7. KeysAt(keys, T, g, AsStored(T))
  BY <1>1, <1>3, <1>6 DEF KeysAt, n
<1> QED BY <1>7

LEMMA PartOfRange ==
  ASSUME NEW n \in Nat, NEW T \in SUBSET (1 .. n)
  PROVE  IsFiniteSet(T) /\ Cardinality(T) <= n
<1> DEFINE R == 1 .. n
<1>1. IsFiniteSet(R) /\ Cardinality(R) = n
  BY FS_Interval
<1>2. T \in SUBSET R
  OBVIOUS
<1> HIDE DEF R
<1> QED BY <1>1, <1>2, FS_Subset

(* There is a time key for each post.                                      *)
LEMMA KeyForEach ==
  ASSUME IxInv, KeysDiffer, NEW T \in SUBSET (1 .. Len(order)),
         NEW time, IsFiniteSet(DOMAIN time), InTime(order, time, T)
  PROVE  Cardinality(DOMAIN time) = Cardinality(T) /\ Cardinality(T) <= Len(order)
<1> DEFINE D == DOMAIN time
           f == [k \in D |-> CHOOSE a \in T : time[k] = order[a].id]
<1>1. IsFiniteSet(T) /\ Cardinality(T) <= Len(order)
  BY LogFacts, LogTyped, PartOfRange
<1>2. /\ \A k \in D : \E a \in T : time[k] = order[a].id
      /\ \A a \in T : \E k \in D : time[k] = order[a].id
      /\ \A a \in T, j, k \in D : time[j] = order[a].id /\ time[k] = order[a].id => j = k
  BY DEF InTime, Holds
<1>3. \A k \in D : f[k] \in T /\ time[k] = order[f[k]].id
  BY <1>2
<1>4. f \in [D -> T]
  BY <1>3
<1> HIDE DEF f, D
<1>5. f \in Injection(D, T)
  <2>1. \A j, k \in D : f[j] = f[k] => j = k
    BY <1>2, <1>3
  <2> QED BY <1>4, <2>1 DEF Injection, IsInjective
<1>6. f \in Surjection(D, T)
  <2>1. ASSUME NEW a \in T PROVE \E k \in D : f[k] = a
    <3>1. PICK k \in D : time[k] = order[a].id
      BY <1>2
    <3>2. f[k] \in 1 .. Len(order) /\ a \in 1 .. Len(order) /\ order[f[k]].id = order[a].id
      BY <1>3, <3>1
    <3>3. f[k] = a
      BY <3>2, LogFacts, LogTyped
    <3> QED BY <3>3
  <2> QED BY <1>4, <2>1 DEF Surjection
<1>7. Cardinality(D) = Cardinality(T)
  BY <1>1, <1>5, <1>6, FS_Injection
<1> QED BY <1>1, <1>7 DEF D

Ascending(D) == {p \in D \X D : p[1] < p[2]}

LEMMA KeysInOrder ==
  ASSUME NEW D \in SUBSET Nat, IsFiniteSet(D)
  PROVE  InOrder(SortedBy(D, <), D, Ascending(D))
<1> DEFINE R == Ascending(D)
           s == SortedBy(D, <)
<1>1. \A i, j \in D : <<i, j>> \in R <=> i < j
  BY DEF Ascending
<1> HIDE DEF R
<1>2. Orders(R, D)
  BY <1>1 DEF Orders
<1>3. \A e \in D : Below(R, D, e) = {d \in D : d < e}
  BY <1>1 DEF Below
<1>4. s = [i \in 1 .. Cardinality(D) |-> CHOOSE e \in D : Cardinality({d \in D : d < e}) = i - 1]
  BY DEF SortedBy
<1> HIDE DEF s
<1>5. ASSUME NEW i \in 1 .. Cardinality(D)
      PROVE  s[i] = CHOOSE e \in D : Cardinality(Below(R, D, e)) = i - 1
  <2>1. s[i] = CHOOSE e \in D : Cardinality({d \in D : d < e}) = i - 1
    BY <1>4
  <2> QED BY <1>3, <2>1
<1>6. s = [i \in 1 .. Cardinality(D) |-> s[i]]
  <2> DEFINE F(i) == CHOOSE e \in D : Cardinality({d \in D : d < e}) = i - 1
  <2>1. s = [i \in 1 .. Cardinality(D) |-> F(i)]
    BY <1>4
  <2> HIDE DEF F
  <2> QED BY <2>1
<1>7. InOrder(s, D, R)
  BY <1>2, <1>5, <1>6, SortedIs
<1> QED BY <1>7 DEF s, R

(* A time that leaves room for n keys is its key.                          *)
LEMMA DatedIs ==
  ASSUME NEW t \in Int, NEW n \in Nat \ {0}, 0 <= t, t * TimeScale + n <= HalfSpace
  PROVE  t \in Nat /\ TimeKey(t) = t * TimeScale
<1>1. t \in Nat
  OBVIOUS
<1>2. t * TimeScale \in Nat
  BY <1>1, KeySpaceIs
<1>3. TimeKey(t) = IF t * TimeScale >= HalfSpace THEN TooLate
                   ELSE IF t * TimeScale < -HalfSpace THEN TooEarly
                   ELSE IF t * TimeScale < 0 THEN t * TimeScale + KeySpace ELSE t * TimeScale
  BY DEF TimeKey
<1> DEFINE i == t * TimeScale
<1>4. i \in Nat /\ i + n <= HalfSpace /\ HalfSpace \in Nat
  BY <1>2, KeySpaceIs
<1> HIDE DEF i
<1>5. ~ (i >= HalfSpace) /\ ~ (i < -HalfSpace) /\ ~ (i < 0)
  BY <1>4
<1> QED BY <1>1, <1>3, <1>5 DEF i

(* The first of two keys starts before the last key that the second one    *)
(* may have, if those from there on do not run out.                        *)
LEMMA StartsBefore ==
  ASSUME NEW D \in SUBSET Nat, IsFiniteSet(D), NEW A \in Nat, NEW B \in Nat,
         NEW j \in D, NEW k \in D, j < k,
         A + Cardinality(D) <= KeySpace, A <= j,
         B + Cardinality(D) <= KeySpace => B <= k /\ B .. k - 1 \subseteq D
  PROVE  A < B + Cardinality(D)
<1> DEFINE n == Cardinality(D)
<1>1. n \in Nat /\ KeySpace \in Nat
  BY FS_CardinalityType, KeySpaceIs
<1> SUFFICES ASSUME B + n <= A PROVE FALSE
  BY <1>1
<1>2. B <= k /\ B .. k - 1 \subseteq D
  <2>1. B + n <= KeySpace
    BY <1>1
  <2> QED BY <2>1
<1>3. B .. k \subseteq D
  BY <1>2
<1>4. Cardinality(B .. k) = k - B + 1
  BY <1>2, FS_Interval
<1>5. Cardinality(B .. k) <= n
  <2> HIDE DEF n
  <2> QED BY <1>3, FS_Subset DEF n
<1> HIDE DEF n
<1> QED BY <1>1, <1>2, <1>4, <1>5

(* The order of the time keys is that of the times.                        *)
LEMMA InTimeShows ==
  ASSUME IxInv, KeysDiffer, NEW T \in SUBSET (1 .. Len(order)),
         NEW time, DOMAIN time \in SUBSET Nat, IsFiniteSet(DOMAIN time),
         InTime(order, time, T), Packed(order, time, T)
  PROVE  /\ \E g : KeysAt(InTimeOrder(time), T, g, ByTime(T))
         /\ Len(InTimeOrder(time)) = Cardinality(T)
<1> DEFINE D == DOMAIN time
           keys == SortedBy(D, <)
           n == Cardinality(T)
           shown == InTimeOrder(time)
           g == [i \in 1 .. n |-> CHOOSE a \in T : time[keys[i]] = order[a].id]
<1>1. Cardinality(D) = n
  BY KeyForEach
<1>2. InOrder(keys, D, Ascending(D))
  BY KeysInOrder
<1>3. shown = [i \in DOMAIN keys |-> time[keys[i]]]
  BY DEF InTimeOrder
<1> HIDE DEF keys, n, D, shown
<1>4. /\ n \in Nat /\ DOMAIN keys = 1 .. n
      /\ \A i \in 1 .. n : keys[i] \in D
      /\ \A e \in D : \E i \in 1 .. n : keys[i] = e
      /\ \A i, j \in 1 .. n : i < j => keys[i] < keys[j]
  BY <1>1, <1>2 DEF InOrder, Ascending
<1>5. shown = [i \in 1 .. n |-> time[keys[i]]] /\ DOMAIN shown = 1 .. n
  BY <1>3, <1>4
<1>6. /\ \A k \in D : \E a \in T : time[k] = order[a].id
      /\ \A a \in T : \E k \in D : time[k] = order[a].id
      /\ \A a, b \in T, j, k \in D :
           time[j] = order[a].id /\ time[k] = order[b].id
             => /\ a = b => j = k
                /\ /\ TimeKey(order[a].timestamp) + n <= KeySpace /\ a < b
                   /\ TimeKey(order[a].timestamp) = TimeKey(order[b].timestamp)
                   => j < k
      /\ \A a \in T, k \in D :
           time[k] = order[a].id /\ TimeKey(order[a].timestamp) + n <= KeySpace
             => /\ TimeKey(order[a].timestamp) <= k
                /\ TimeKey(order[a].timestamp) .. k - 1 \subseteq D
  <2>1. /\ \A k \in D : \E a \in T : time[k] = order[a].id
        /\ \A a \in T : \E k \in D : time[k] = order[a].id
    BY DEF InTime, Holds, D
  <2>2. \A a \in T : Room(time, order[a]) <=> TimeKey(order[a].timestamp) + n <= KeySpace
    BY <1>1 DEF Room, D
  <2>3. \A a, b \in T, j, k \in D :
          time[j] = order[a].id /\ time[k] = order[b].id
            => /\ a = b => j = k
               /\ /\ Room(time, order[a]) /\ a < b
                  /\ TimeKey(order[a].timestamp) = TimeKey(order[b].timestamp)
                  => j < k
    BY DEF InTime, D
  <2>4. \A a \in T, k \in D :
          time[k] = order[a].id /\ Room(time, order[a])
            => /\ TimeKey(order[a].timestamp) <= k
               /\ TimeKey(order[a].timestamp) .. k - 1 \subseteq D
    BY DEF Packed, D
  <2> QED BY <2>1, <2>2, <2>3, <2>4
<1>7. \A i \in 1 .. n : g[i] \in T /\ time[keys[i]] = order[g[i]].id /\ shown[i] = order[g[i]].id
  BY <1>4, <1>5, <1>6
<1> HIDE DEF g
<1>8. Len(shown) = n
  <2>1. shown \in [1 .. n -> {order[a].id : a \in T}]
    BY <1>5, <1>7
  <2> QED BY <1>4, <2>1, FunctionIsSeq
<1>9. ASSUME NEW a \in T PROVE \E i \in 1 .. n : g[i] = a
  <2>1. PICK i \in 1 .. n : time[keys[i]] = order[a].id
    BY <1>4, <1>6, SMTT(30)
  <2>2. g[i] \in 1 .. Len(order) /\ a \in 1 .. Len(order) /\ order[g[i]].id = order[a].id
    BY <1>7, <2>1
  <2>3. g[i] = a
    BY <2>2, LogFacts, LogTyped
  <2> QED BY <2>3
<1>10. ASSUME NEW i \in 1 .. n, NEW j \in 1 .. n, i < j PROVE <<g[i], g[j]>> \in ByTime(T)
  <2> DEFINE a == g[i]
             b == g[j]
  <2>1. /\ a \in T /\ b \in T /\ time[keys[i]] = order[a].id /\ time[keys[j]] = order[b].id
        /\ keys[i] \in D /\ keys[j] \in D
    BY <1>4, <1>7
  <2>2. keys[i] < keys[j] /\ keys[i] \in Nat /\ keys[j] \in Nat
    BY <1>4, <1>10, <2>1 DEF D
  <2>3. /\ a \in 1 .. Len(order) /\ b \in 1 .. Len(order) /\ a \in Nat /\ b \in Nat
        /\ order[a].timestamp \in Int /\ order[b].timestamp \in Int
    <3>1. a \in 1 .. Len(order) /\ b \in 1 .. Len(order) /\ Len(order) \in Nat
      BY <2>1, LogTyped
    <3>2. order[a] \in Msg /\ order[b] \in Msg
      BY <3>1, LogTyped
    <3> QED BY <3>1, <3>2, MsgFields
  <2> DEFINE A == TimeKey(order[a].timestamp)
             B == TimeKey(order[b].timestamp)
             j1 == keys[i]
             k1 == keys[j]
  <2>4. A \in Nat /\ B \in Nat /\ KeySpace \in Nat
    BY <2>3, TimeKeyIs, KeySpaceIs
  <2> HIDE DEF a, b
  <2>5. a # b
    BY <1>6, <2>1, <2>2
  <2>6. ASSUME A + n <= KeySpace PROVE A < B + n
    <3>1. A <= j1
      BY <1>6, <2>1, <2>6
    <3>2. B + n <= KeySpace => B <= k1 /\ B .. k1 - 1 \subseteq D
      BY <1>6, <2>1
    <3>3. D \in SUBSET Nat /\ IsFiniteSet(D) /\ Cardinality(D) = n
      BY <1>1 DEF D
    <3> HIDE DEF A, B, j1, k1
    <3> QED BY <2>1, <2>2, <2>4, <2>6, <3>1, <3>2, <3>3, StartsBefore DEF j1, k1
  <2>7. ASSUME A + n <= KeySpace, A = B PROVE a < b
    <3>1. ~ (b < a)
      <4>1. ASSUME b < a PROVE k1 < j1
        BY <1>6, <2>1, <2>7, <4>1
      <4> QED BY <2>2, <4>1
    <3> QED BY <2>3, <2>5, <3>1
  <2>8. ASSUME n <= TimeScale,
               0 <= order[a].timestamp, order[a].timestamp * TimeScale + n <= HalfSpace,
               0 <= order[b].timestamp, order[b].timestamp * TimeScale + n <= HalfSpace
        PROVE  order[a].timestamp <= order[b].timestamp
    <3> DEFINE s == order[a].timestamp
               t == order[b].timestamp
    <3>1. n \in Nat \ {0}
      BY <1>4, <1>10
    <3>2. s \in Nat /\ t \in Nat /\ A = s * TimeScale /\ B = t * TimeScale
      BY <2>3, <2>8, <3>1, DatedIs
    <3>3. TimeScale \in Nat /\ HalfSpace \in Nat /\ KeySpace = 2 * HalfSpace
      BY KeySpaceIs
    <3>4. A + n <= HalfSpace
      BY <2>8, <3>2
    <3> HIDE DEF s, t, A, B
    <3>5. A + n <= KeySpace
      BY <2>4, <3>1, <3>3, <3>4
    <3>6. A < B + n
      BY <2>6, <3>5
    <3>7. ASSUME t < s PROVE FALSE
      <4>1. t * TimeScale + TimeScale <= s * TimeScale
        BY <3>2, <3>3, <3>7, Scaled
      <4>2. B + TimeScale <= A
        BY <3>2, <4>1
      <4> QED BY <2>4, <2>8, <3>1, <3>3, <3>6, <4>2
    <3>8. s <= t
      BY <3>2, <3>7
    <3> QED BY <3>8 DEF s, t
  <2>9. Precedes(n, order[a], order[b], a < b)
    BY <2>6, <2>7, <2>8 DEF Precedes
  <2>10. <<a, b>> \in T \X T /\ Sooner(T, a, b)
    BY <2>1, <2>5, <2>9 DEF Sooner, n
  <2> QED BY <2>10 DEF ByTime, a, b
<1>11. ShowsAt(T, n, g, ByTime(T))
  BY <1>4, <1>7, <1>9, <1>10 DEF ShowsAt
<1>12. KeysAt(shown, T, g, ByTime(T))
  BY <1>5, <1>7, <1>8, <1>11 DEF KeysAt
<1> QED BY <1>8, <1>12 DEF shown, n

(* What is in the lists.                                                   *)
LEMMA ListsSound ==
  ASSUME IxInv, KeysDiffer
  PROVE  /\ \A k \in Key : /\ ix.votes[k] \in Seq(Key)
                            /\ InLog(order, ix.votes[k], Places(order, "vote", "link", k))
         /\ \A k \in Key :
              /\ ListTypes(ix.threads[k], Len(order))
              /\ ListSound(order, ix.threads[k], Places(order, "post", "root", k))
         /\ \A c \in Channel :
              /\ ListTypes(ix.channels[c], Len(order))
              /\ ListSound(order, ix.channels[c], Places(order, "post", "channel", c))
<1> DEFINE R == Replayed(order)
<1>1. /\ ix = WithPubs(R, ix.pubs) /\ IxTypes(R, Len(order))
      /\ VotesSound(order, R.votes) /\ ThreadsSound(order, R.threads)
      /\ ChannelsSound(order, R.channels)
  BY DEF IxInv, IxRight, LogSound
<1> HIDE DEF R
<1>2. ix.votes = R.votes /\ ix.threads = R.threads /\ ix.channels = R.channels
  BY <1>1 DEF WithPubs
<1>3. /\ R.votes \in [Key -> Seq(Key)] /\ ListsTypes(Key, R.threads, Len(order))
      /\ ListsTypes(Channel, R.channels, Len(order))
  BY <1>1 DEF IxTypes
<1> QED BY <1>1, <1>2, <1>3 DEF VotesSound, ThreadsSound, ChannelsSound, ListsTypes

LEMMA PlacesIn ==
  ASSUME IxInv, NEW type, NEW field, NEW v
  PROVE  Places(order, type, field, v) \in SUBSET (1 .. Len(order))
BY LogTyped DEF Places

(* A page is a part of what it is a page of.                               *)
LEMMA PageIs ==
  ASSUME NEW X, NEW s \in Seq(X), NEW num \in Nat, NEW start \in Nat
  PROVE  LET p == Page(s, num, start)
             left == IF start <= Len(s) THEN Len(s) - start ELSE 0
         IN  /\ p \in Seq(X)
             /\ Len(p) = IF num < left THEN num ELSE left
             /\ \A j \in 1 .. Len(p) : p[j] = s[start + j]
<1> DEFINE rest == SubSeq(s, start + 1, Len(s))
           left == IF start <= Len(s) THEN Len(s) - start ELSE 0
           n == IF num < Len(rest) THEN num ELSE Len(rest)
           p == SubSeq(rest, 1, n)
<1>1. Len(s) \in Nat /\ left \in Nat /\ \A i \in start + 1 .. Len(s) : s[i] \in X
  OBVIOUS
<1>2. /\ rest \in Seq(X)
      /\ Len(rest) = IF start + 1 <= Len(s) THEN Len(s) - (start + 1) + 1 ELSE 0
      /\ \A i \in 1 .. Len(s) - (start + 1) + 1 : rest[i] = s[start + 1 + i - 1]
  <2>1. start + 1 \in Int /\ Len(s) \in Int
    BY <1>1
  <2> QED BY <1>1, <2>1, SubSeqProperties
<1>3. Len(rest) = left /\ \A i \in 1 .. left : rest[i] = s[start + i]
  <2> HIDE DEF rest
  <2> QED BY <1>1, <1>2
<1>4. n \in Nat /\ n <= left /\ n = IF num < left THEN num ELSE left
  BY <1>1, <1>3
<1>5. /\ p \in Seq(X)
      /\ Len(p) = IF 1 <= n THEN n - 1 + 1 ELSE 0
      /\ \A i \in 1 .. n - 1 + 1 : p[i] = rest[1 + i - 1]
  <2>1. \A i \in 1 .. n : rest[i] \in X
    BY <1>2, <1>3, <1>4
  <2> HIDE DEF rest, n
  <2> QED BY <1>4, <2>1, SubSeqProperties
<1>6. Page(s, num, start) = p
  BY DEF Page, FirstOf
<1> HIDE DEF p, n, rest
<1>7. Len(p) = n /\ \A j \in 1 .. n : p[j] = s[start + j]
  BY <1>1, <1>3, <1>4, <1>5
<1> QED BY <1>4, <1>5, <1>6, <1>7

LEMMA ReverseIs ==
  ASSUME NEW X, NEW s \in Seq(X)
  PROVE  /\ Reverse(s) \in Seq(X) /\ Len(Reverse(s)) = Len(s)
         /\ \A i \in 1 .. Len(s) : Reverse(s)[i] = s[Len(s) - i + 1]
<1> DEFINE r == [i \in 1 .. Len(s) |-> s[Len(s) - i + 1]]
<1>1. Len(s) \in Nat /\ \A i \in 1 .. Len(s) : Len(s) - i + 1 \in 1 .. Len(s)
  OBVIOUS
<1>2. r \in [1 .. Len(s) -> X]
  BY <1>1
<1>3. r \in Seq(X) /\ Len(r) = Len(s)
  <2> HIDE DEF r
  <2> QED BY <1>1, <1>2, FunctionIsSeq
<1>4. Reverse(s) = r
  BY DEF Reverse
<1> QED BY <1>3, <1>4

(* r is the slice of num messages after the latest start ones of the n     *)
(* messages that are at the places g[1], g[2] and so on.                   *)
SliceOf(r, n, num, start, g) ==
  LET left == IF start <= n THEN n - start ELSE 0
  IN  /\ r \in Seq(Msg)
      /\ Len(r) = IF num < left THEN num ELSE left
      /\ \A j \in 1 .. Len(r) : /\ n - (start + j) + 1 \in 1 .. n
                               /\ r[j] = order[g[n - (start + j) + 1]]

LEMMA SliceShows ==
  ASSUME IxInv, KeysDiffer, NEW c \in Channel, NEW num \in Nat, NEW start \in Nat,
         NEW T \in SUBSET (1 .. Len(order)), NEW g, NEW B,
         KeysAt(InTimeOrder(ix.channels[c].time), T, g, B)
  PROVE  SliceOf(GetChannelLatest(c, num, start), Len(InTimeOrder(ix.channels[c].time)),
                 num, start, g)
<1> DEFINE keys == InTimeOrder(ix.channels[c].time)
           n == Len(keys)
           newest == Reverse(keys)
           page == Page(newest, num, start)
           r == GetChannelLatest(c, num, start)
           left == IF start <= n THEN n - start ELSE 0
<1>1. /\ n \in Nat /\ DOMAIN keys = 1 .. n
      /\ \A i \in 1 .. n : g[i] \in T /\ keys[i] = order[g[i]].id
  BY DEF KeysAt, ShowsAt
<1>2. r = [i \in DOMAIN page |-> GetMsg(page[i])]
  BY DEF GetChannelLatest
<1> HIDE DEF keys, r
<1>3. \A i \in 1 .. n : /\ keys[i] \in Key /\ order[g[i]] \in Msg
                        /\ GetMsg(keys[i]) = order[g[i]]
  <2>1. \A i \in 1 .. n : g[i] \in 1 .. Len(order)
    BY <1>1
  <2> QED BY <1>1, <2>1, LogFacts, LogTyped, MsgFields
<1>4. keys \in Seq(Key)
  <2>1. keys = [i \in 1 .. n |-> keys[i]]
    BY <1>1 DEF keys, InTimeOrder
  <2>2. keys \in [1 .. n -> Key]
    BY <1>3, <2>1
  <2> QED BY <1>1, <2>2, FunctionIsSeq
<1>5. /\ newest \in Seq(Key) /\ Len(newest) = n
      /\ \A i \in 1 .. n : newest[i] = keys[n - i + 1]
  BY <1>4, ReverseIs
<1> HIDE DEF newest, n
<1>6. /\ page \in Seq(Key) /\ Len(page) = IF num < left THEN num ELSE left
      /\ \A j \in 1 .. Len(page) : page[j] = newest[start + j]
  <2> DEFINE rest == IF start <= Len(newest) THEN Len(newest) - start ELSE 0
  <2>0. newest \in Seq(Key) /\ Len(newest) = n
    BY <1>5
  <2>1. /\ page \in Seq(Key) /\ Len(page) = IF num < rest THEN num ELSE rest
        /\ \A j \in 1 .. Len(page) : page[j] = newest[start + j]
    BY <2>0, PageIs
  <2>2. rest = left
    BY <2>0
  <2> HIDE DEF page, rest, left
  <2> QED BY <2>1, <2>2
<1> HIDE DEF page
<1>7. left \in Nat /\ Len(page) \in Nat /\ Len(page) <= left /\ DOMAIN page = 1 .. Len(page)
  BY <1>1, <1>6
<1>8. ASSUME NEW j \in 1 .. Len(page)
      PROVE  /\ n - (start + j) + 1 \in 1 .. n
             /\ r[j] = order[g[n - (start + j) + 1]] /\ r[j] \in Msg
  <2>1. start + j \in 1 .. n /\ n - (start + j) + 1 \in 1 .. n
    BY <1>1, <1>7
  <2>2. page[j] = keys[n - (start + j) + 1]
    BY <1>5, <1>6, <2>1
  <2>3. r[j] = GetMsg(page[j])
    BY <1>2, <1>7
  <2> QED BY <1>3, <2>1, <2>2, <2>3
<1>9. r \in [1 .. Len(page) -> Msg]
  BY <1>2, <1>7, <1>8
<1>10. r \in Seq(Msg) /\ Len(r) = Len(page)
  BY <1>7, <1>9, FunctionIsSeq
<1>11. SliceOf(r, n, num, start, g)
  BY <1>6, <1>8, <1>10 DEF SliceOf
<1> QED BY <1>11 DEF r, n, keys

LEMMA PostsHold == IxInv => PostsAreListed
<1> SUFFICES ASSUME IxInv, KeysDiffer
             PROVE  /\ \A k \in Key :
                         LET posts == Places(order, "post", "root", k)
                             votes == Places(order, "vote", "link", k)
                         IN  /\ InLog(order, ix.threads[k].log, posts)
                             /\ ShowsByTime(GetThread(k), posts)
                             /\ Shows(GetVotes(k), votes, <)
                    /\ \A c \in Channel :
                         LET posts == Places(order, "post", "channel", c)
                         IN  /\ InLog(order, ix.channels[c].log, posts)
                             /\ ShowsByTime(Reverse(GetChannelLatest(c, Len(order), 0)), posts)
  BY DEF PostsAreListed
<1>1. ASSUME NEW T \in SUBSET (1 .. Len(order)), NEW r, NEW g, MsgsAt(r, T, g, ByTime(T))
      PROVE  ShowsByTime(r, T)
  <2>1. /\ ToSet(r) = {order[a] : a \in T}
        /\ \A i, j \in DOMAIN r, a, b \in T :
             i < j /\ r[i] = order[a] /\ r[j] = order[b] => <<a, b>> \in ByTime(T)
    BY <1>1, ShowsThem
  <2>2. \A a, b \in T : <<a, b>> \in ByTime(T) => Sooner(T, a, b)
    BY DEF ByTime
  <2> QED BY <2>1, <2>2 DEF ShowsByTime, Shows, Sooner
<1>2. ASSUME NEW list, NEW T \in SUBSET (1 .. Len(order)), NEW l, ListTypes(list, l),
             ListSound(order, list, T)
      PROVE  /\ InLog(order, list.log, T)
             /\ \E g : KeysAt(InTimeOrder(list.time), T, g, ByTime(T))
             /\ Len(InTimeOrder(list.time)) = Cardinality(T)
             /\ Cardinality(T) <= Len(order)
  <2>1. DOMAIN list.time \in SUBSET Nat /\ IsFiniteSet(DOMAIN list.time)
    BY <1>2, KeySpaceIs DEF ListTypes, IsList
  <2>2. InLog(order, list.log, T) /\ InTime(order, list.time, T) /\ Packed(order, list.time, T)
    BY <1>2 DEF ListSound
  <2> QED BY <2>1, <2>2, InTimeShows, KeyForEach
<1>3. ASSUME NEW k \in Key
      PROVE  LET posts == Places(order, "post", "root", k)
                 votes == Places(order, "vote", "link", k)
             IN  /\ InLog(order, ix.threads[k].log, posts)
                 /\ ShowsByTime(GetThread(k), posts)
                 /\ Shows(GetVotes(k), votes, <)
  <2> DEFINE posts == Places(order, "post", "root", k)
             votes == Places(order, "vote", "link", k)
  <2>1. posts \in SUBSET (1 .. Len(order)) /\ votes \in SUBSET (1 .. Len(order))
    BY PlacesIn
  <2>2. /\ ListTypes(ix.threads[k], Len(order)) /\ ListSound(order, ix.threads[k], posts)
        /\ ix.votes[k] \in Seq(Key) /\ InLog(order, ix.votes[k], votes)
    BY ListsSound
  <2> HIDE DEF posts, votes
  <2>3. InLog(order, ix.threads[k].log, posts)
    BY <1>2, <2>1, <2>2
  <2>4. ShowsByTime(GetThread(k), posts)
    <3>1. PICK g : KeysAt(InTimeOrder(ix.threads[k].time), posts, g, ByTime(posts))
      BY <1>2, <2>1, <2>2
    <3>2. \E h : MsgsAt(GetThread(k), posts, h, ByTime(posts))
      BY <2>1, <3>1, FetchShows DEF GetThread
    <3> QED BY <1>1, <2>1, <3>2
  <2>5. Shows(GetVotes(k), votes, <)
    <3>1. PICK g : KeysAt(ix.votes[k], votes, g, AsStored(votes))
      BY <2>1, <2>2, InLogShows
    <3>2. PICK h : MsgsAt(GetVotes(k), votes, h, AsStored(votes))
      BY <2>1, <3>1, FetchShows DEF GetVotes
    <3>3. /\ ToSet(GetVotes(k)) = {order[a] : a \in votes}
          /\ \A i, j \in DOMAIN GetVotes(k), a, b \in votes :
               i < j /\ GetVotes(k)[i] = order[a] /\ GetVotes(k)[j] = order[b]
                 => <<a, b>> \in AsStored(votes)
      BY <2>1, <3>2, ShowsThem
    <3>4. \A a, b \in votes : <<a, b>> \in AsStored(votes) => a < b
      BY DEF AsStored
    <3> QED BY <3>3, <3>4 DEF Shows
  <2> QED BY <2>3, <2>4, <2>5 DEF posts, votes
<1>4. ASSUME NEW c \in Channel
      PROVE  LET posts == Places(order, "post", "channel", c)
             IN  /\ InLog(order, ix.channels[c].log, posts)
                 /\ ShowsByTime(Reverse(GetChannelLatest(c, Len(order), 0)), posts)
  <2> DEFINE posts == Places(order, "post", "channel", c)
             keys == InTimeOrder(ix.channels[c].time)
             n == Len(keys)
             r == GetChannelLatest(c, Len(order), 0)
             s == Reverse(r)
  <2>1. posts \in SUBSET (1 .. Len(order))
    BY PlacesIn
  <2>2. ListTypes(ix.channels[c], Len(order)) /\ ListSound(order, ix.channels[c], posts)
    BY ListsSound
  <2> HIDE DEF posts, r
  <2>3. /\ InLog(order, ix.channels[c].log, posts)
        /\ n = Cardinality(posts) /\ n <= Len(order)
    BY <1>2, <2>1, <2>2
  <2>4. PICK g : KeysAt(keys, posts, g, ByTime(posts))
    BY <1>2, <2>1, <2>2
  <2>5. Len(order) \in Nat /\ n \in Nat /\ ShowsAt(posts, n, g, ByTime(posts))
    BY <2>4, LogFacts, LogTyped DEF KeysAt, ShowsAt
  <2>6. /\ r \in Seq(Msg)
        /\ Len(r) = IF Len(order) < n - 0 THEN Len(order) ELSE n - 0
        /\ \A j \in 1 .. Len(r) : r[j] = order[g[n - (0 + j) + 1]]
    <3>1. SliceOf(r, n, Len(order), 0, g)
      BY <2>1, <2>4, <2>5, SliceShows DEF r
    <3> HIDE DEF n
    <3> QED BY <2>5, <3>1 DEF SliceOf
  <2> HIDE DEF keys, n, s
  <2>7. Len(r) = n /\ \A j \in 1 .. n : r[j] = order[g[n - j + 1]]
    BY <2>3, <2>5, <2>6
  <2>8. s \in Seq(Msg) /\ Len(s) = n /\ \A i \in 1 .. n : s[i] = r[n - i + 1]
    BY <2>6, <2>7, ReverseIs DEF s
  <2>9. ASSUME NEW i \in 1 .. n PROVE s[i] = order[g[i]]
    <3>1. n - i + 1 \in 1 .. n /\ n - (n - i + 1) + 1 = i
      BY <2>5
    <3>2. r[n - i + 1] = order[g[n - (n - i + 1) + 1]]
      BY <2>7, <3>1
    <3> QED BY <2>8, <3>1, <3>2
  <2>10. MsgsAt(s, posts, g, ByTime(posts))
    <3>1. DOMAIN s = 1 .. Len(s)
      BY <2>8
    <3> QED BY <2>5, <2>8, <2>9, <3>1 DEF MsgsAt
  <2>11. ShowsByTime(s, posts)
    BY <1>1, <2>1, <2>10
  <2> QED BY <2>3, <2>11 DEF posts, s, r
<1> QED BY <1>3, <1>4

-----------------------------------------------------------------------------
(* Pages. *)

(* The numbers that page i shows of what it pages through. *)
OnPage(i) == {q \in Nat : PageSize * (i - 1) < q /\ q <= PageSize * (i - 1) + PageSize}

(* Each of the numbers is on one page, and pages are in order.             *)
LEMMA Paged ==
  /\ \A i \in Nat \ {0} : PageSize * (i - 1) \in Nat
  /\ \A i, j \in Nat \ {0} : i < j => \A p \in OnPage(i), q \in OnPage(j) : p < q
  /\ \A q \in Nat \ {0} : \E i \in 1 .. q : q \in OnPage(i)
<1>1. PageSize \in Nat \ {0}
  BY PageSizeAssumption
<1>2. \A i \in Nat \ {0} : PageSize * (i - 1) \in Nat
  BY <1>1
<1>3. ASSUME NEW i \in Nat \ {0}, NEW j \in Nat \ {0}, i < j, NEW p \in OnPage(i), NEW q \in OnPage(j)
      PROVE  p < q
  <2>1. i - 1 \in Nat /\ j - 1 \in Nat /\ i - 1 < j - 1 /\ PageSize \in Nat
    BY <1>1, <1>3
  <2>2. (i - 1) * PageSize + PageSize <= (j - 1) * PageSize
    BY <2>1, Scaled
  <2>3. /\ PageSize * (i - 1) = (i - 1) * PageSize /\ PageSize * (j - 1) = (j - 1) * PageSize
        /\ (i - 1) * PageSize \in Nat /\ (j - 1) * PageSize \in Nat
    BY <2>1
  <2> DEFINE a == (i - 1) * PageSize
             b == (j - 1) * PageSize
  <2>4. p \in Nat /\ q \in Nat /\ p <= a + PageSize /\ b < q
    BY <2>3 DEF OnPage
  <2> HIDE DEF a, b
  <2>5. a \in Nat /\ b \in Nat /\ a + PageSize <= b
    BY <2>2, <2>3 DEF a, b
  <2> QED BY <2>1, <2>4, <2>5
<1> DEFINE T == {q \in Nat : q > 0 => \E i \in 1 .. q : q \in OnPage(i)}
<1>4. 0 \in T
  OBVIOUS
<1>5. ASSUME NEW q \in Nat, q \in T PROVE q + 1 \in T
  <2>1. CASE q = 0
    <3>1. PageSize * (1 - 1) = 0
      BY <1>1
    <3>2. 1 \in OnPage(1)
      BY <1>1, <3>1 DEF OnPage
    <3> QED BY <2>1, <3>2
  <2>2. CASE q > 0
    <3>1. PICK i \in 1 .. q : q \in OnPage(i)
      BY <1>5, <2>2
    <3> DEFINE a == PageSize * (i - 1)
    <3>2. a \in Nat /\ a < q /\ q <= a + PageSize
      BY <1>1, <3>1 DEF OnPage
    <3>3. PageSize * (i + 1 - 1) = a + PageSize
      BY <1>1
    <3>4. CASE q < a + PageSize
      <4>1. q + 1 \in OnPage(i) /\ i \in 1 .. q + 1
        <5> HIDE DEF a
        <5>1. a < q + 1 /\ q + 1 <= a + PageSize
          BY <1>1, <3>2, <3>4
        <5> QED BY <5>1 DEF OnPage, a
      <4> QED BY <4>1
    <3>5. CASE q = a + PageSize
      <4> HIDE DEF a
      <4>1. PageSize * (i + 1 - 1) < q + 1 /\ q + 1 <= PageSize * (i + 1 - 1) + PageSize
        BY <1>1, <3>2, <3>3, <3>5
      <4>2. q + 1 \in OnPage(i + 1) /\ i + 1 \in 1 .. q + 1
        BY <4>1 DEF OnPage
      <4> QED BY <4>2
    <3>6. q < a + PageSize \/ q = a + PageSize
      <4> HIDE DEF a
      <4> QED BY <1>1, <3>2
    <3> QED BY <3>4, <3>5, <3>6
  <2> QED BY <2>1, <2>2
<1>6. \A q \in Nat \ {0} : \E i \in 1 .. q : q \in OnPage(i)
  <2> SUFFICES ASSUME NEW q \in Nat \ {0} PROVE q \in T
    OBVIOUS
  <2> HIDE DEF T
  <2> QED BY <1>4, <1>5, NatSets
<1> QED BY <1>2, <1>3, <1>6

(* r is what page i has of item[1], ..., item[n] and of S, and h their     *)
(* numbers.                                                                *)
PagePicks(r, i, n, item, S, h) ==
  /\ DOMAIN r = 1 .. Len(r) /\ Len(r) \in Nat
  /\ \A a \in 1 .. Len(r) : /\ h[a] \in 1 .. n /\ h[a] \in OnPage(i)
                           /\ r[a] = item[h[a]] /\ r[a] \in S
  /\ \A a, b \in 1 .. Len(r) : a < b => h[a] < h[b]
  /\ \A q \in 1 .. n : q \in OnPage(i) /\ item[q] \in S => \E a \in 1 .. Len(r) : h[a] = q

PageOf(r, i, n, item, S) == \E h : PagePicks(r, i, n, item, S, h)

(* PagesShow, with an order that is a set of pairs.                        *)
PagesTell(page, S, B) ==
  /\ UNION {ToSet(page[i]) : i \in DOMAIN page} = S
  /\ \A i, j \in DOMAIN page : \A a \in DOMAIN page[i], b \in DOMAIN page[j] :
       i < j \/ (i = j /\ a < b) => <<page[i][a], page[j][b]>> \in B

Among(n, item, S) == {m \in S : \E q \in 1 .. n : m = item[q]}

(* Pages that are pages of it show all of it, in its order.                *)
LEMMA PagesFit ==
  ASSUME NEW n \in Nat, n <= Len(order), Len(order) \in Nat, NEW S, NEW item, NEW page, NEW B,
         DOMAIN page = Pages, \A i \in Pages : PageOf(page[i], i, n, item, S),
         \A p, q \in 1 .. n : p < q /\ item[p] \in S /\ item[q] \in S => <<item[p], item[q]>> \in B
  PROVE  PagesTell(page, Among(n, item, S), B)
<1>1. Pages = 1 .. Len(order) + 1
  BY DEF Pages
<1>2. ASSUME NEW i \in Pages, NEW m \in ToSet(page[i]) PROVE m \in S /\ \E q \in 1 .. n : m = item[q]
  <2>1. PICK a \in DOMAIN page[i] : m = page[i][a]
    BY DEF ToSet
  <2> QED BY <2>1 DEF PageOf, PagePicks
<1>3. ASSUME NEW q \in 1 .. n, item[q] \in S PROVE \E i \in Pages : item[q] \in ToSet(page[i])
  <2>1. PICK i \in 1 .. q : q \in OnPage(i)
    BY Paged
  <2>2. i \in Pages
    BY <1>1
  <2>3. PICK a \in DOMAIN page[i] : page[i][a] = item[q]
    BY <1>3, <2>1, <2>2 DEF PageOf, PagePicks
  <2> QED BY <2>2, <2>3 DEF ToSet
<1>4. UNION {ToSet(page[i]) : i \in DOMAIN page} = {m \in S : \E q \in 1 .. n : m = item[q]}
  <2>1. \A m : m \in UNION {ToSet(page[i]) : i \in DOMAIN page} <=> \E i \in Pages : m \in ToSet(page[i])
    OBVIOUS
  <2> QED BY <1>2, <1>3, <2>1
<1>5. ASSUME NEW i \in Pages, NEW j \in Pages, NEW a \in DOMAIN page[i], NEW b \in DOMAIN page[j],
             i < j \/ (i = j /\ a < b)
      PROVE  <<page[i][a], page[j][b]>> \in B
  <2>1. PICK h : PagePicks(page[i], i, n, item, S, h)
    BY DEF PageOf
  <2>2. CASE i = j /\ a < b
    <3>1. h[a] \in 1 .. n /\ h[b] \in 1 .. n /\ h[a] < h[b]
      BY <2>1, <2>2 DEF PagePicks
    <3>2. page[i][a] = item[h[a]] /\ page[j][b] = item[h[b]] /\ item[h[a]] \in S /\ item[h[b]] \in S
      BY <2>1, <2>2 DEF PagePicks
    <3> QED BY <3>1, <3>2
  <2>3. CASE i < j
    <3>1. PICK k : PagePicks(page[j], j, n, item, S, k)
      BY DEF PageOf
    <3>2. h[a] \in 1 .. n /\ k[b] \in 1 .. n /\ h[a] \in OnPage(i) /\ k[b] \in OnPage(j)
      BY <2>1, <3>1 DEF PagePicks
    <3>3. i \in Nat \ {0} /\ j \in Nat \ {0}
      BY <1>1
    <3>4. h[a] < k[b]
      BY <2>3, <3>2, <3>3, Paged
    <3>5. page[i][a] = item[h[a]] /\ page[j][b] = item[k[b]] /\ item[h[a]] \in S /\ item[k[b]] \in S
      BY <2>1, <3>1 DEF PagePicks
    <3> QED BY <3>2, <3>4, <3>5
  <2> QED BY <1>5, <2>2, <2>3
<1> QED BY <1>4, <1>5 DEF PagesTell, Among

-----------------------------------------------------------------------------
(* The pages of a feed. *)

OfFeed(f) == {m \in Stored : m.author = f}

Later(S) == {p \in S \X S : p[1].sequence > p[2].sequence}

LEMMA StoredFinite ==
  ASSUME IxInv, NEW S \in SUBSET Stored
  PROVE  IsFiniteSet(S) /\ Cardinality(S) <= Len(order) /\ Cardinality(S) \in Nat
<1> DEFINE n == Len(order)
           f == [a \in 1 .. n |-> order[a]]
<1>1. n \in Nat /\ IsFiniteSet(1 .. n) /\ Cardinality(1 .. n) = n
  <2>1. n \in Nat
    BY LogTyped
  <2> HIDE DEF n
  <2> QED BY <2>1, FS_Interval
<1>2. f \in Surjection(1 .. n, Stored)
  <2>1. f \in [1 .. n -> Stored]
    BY LogTyped
  <2>2. \A m \in Stored : \E a \in 1 .. n : f[a] = m
    BY LogTyped
  <2> QED BY <2>1, <2>2 DEF Surjection
<1>3. IsFiniteSet(Stored) /\ Cardinality(Stored) <= n
  BY <1>1, <1>2, FS_Surjection
<1>4. IsFiniteSet(S) /\ Cardinality(S) <= Cardinality(Stored)
  BY <1>3, FS_Subset
<1> QED BY <1>1, <1>3, <1>4, FS_CardinalityType

LEMMA FeedInOrder ==
  ASSUME IxInv, NEW f \in Feed
  PROVE  InOrder(SortedBy(OfFeed(f), LAMBDA m, n : m.sequence > n.sequence), OfFeed(f),
                 Later(OfFeed(f)))
<1> DEFINE D == OfFeed(f)
           R == Later(D)
           s == SortedBy(D, LAMBDA m, n : m.sequence > n.sequence)
<1>1. \A m \in D : m \in Stored /\ m \in Msg /\ m.author = f /\ m.sequence \in Nat
  BY LogTyped, MsgFields DEF OfFeed
<1>2. \A m, n \in D : <<m, n>> \in R <=> m.sequence > n.sequence
  BY DEF Later
<1>3. ASSUME NEW m \in D, NEW n \in D, m # n PROVE m.sequence # n.sequence
  <2>1. PICK a, b \in 1 .. Len(order) : m = order[a] /\ n = order[b]
    BY <1>1, LogTyped
  <2>2. a < b \/ b < a
    BY <1>3, <2>1
  <2>3. \A c, d \in 1 .. Len(order) :
          c < d /\ order[c].author = order[d].author => order[c].sequence < order[d].sequence
    BY LogTyped DEF IxInv, IxTyped, Climbs
  <2>4. m.author = n.author /\ m.sequence \in Nat /\ n.sequence \in Nat
    BY <1>1
  <2>5. m.sequence < n.sequence \/ n.sequence < m.sequence
    BY <2>1, <2>2, <2>3, <2>4
  <2> QED BY <2>4, <2>5
<1>4. IsFiniteSet(D)
  BY StoredFinite DEF OfFeed
<1> HIDE DEF R
<1>5. Orders(R, D)
  <2>1. \A m \in D : <<m, m>> \notin R
    BY <1>1, <1>2
  <2>2. \A l, m, n \in D : <<l, m>> \in R /\ <<m, n>> \in R => <<l, n>> \in R
    BY <1>1, <1>2
  <2>3. \A m, n \in D : m = n \/ <<m, n>> \in R \/ <<n, m>> \in R
    <3> SUFFICES ASSUME NEW m \in D, NEW n \in D, m # n PROVE <<m, n>> \in R \/ <<n, m>> \in R
      OBVIOUS
    <3>1. m.sequence \in Nat /\ n.sequence \in Nat /\ m.sequence # n.sequence
      BY <1>1, <1>3
    <3>2. m.sequence > n.sequence \/ n.sequence > m.sequence
      BY <3>1
    <3> QED BY <1>2, <3>2
  <2> QED BY <2>1, <2>2, <2>3 DEF Orders
<1>6. \A m \in D : Below(R, D, m) = {n \in D : n.sequence > m.sequence}
  BY <1>2 DEF Below
<1> DEFINE F(i) == CHOOSE m \in D : Cardinality({n \in D : n.sequence > m.sequence}) = i - 1
<1>7. s = [i \in 1 .. Cardinality(D) |-> F(i)]
  BY DEF SortedBy
<1> HIDE DEF s
<1>8. ASSUME NEW i \in 1 .. Cardinality(D)
      PROVE  s[i] = CHOOSE m \in D : Cardinality(Below(R, D, m)) = i - 1
  <2>1. s[i] = F(i)
    BY <1>7
  <2> QED BY <1>6, <2>1
<1>9. s = [i \in 1 .. Cardinality(D) |-> s[i]]
  <2> HIDE DEF F
  <2> QED BY <1>7
<1>10. InOrder(s, D, R)
  BY <1>4, <1>5, <1>8, <1>9, SortedIs
<1> QED BY <1>10 DEF s, R, D

(* What there is to page through: part of what a page of it shows.         *)
LEMMA PageAt ==
  ASSUME NEW X, NEW s \in Seq(X), NEW i \in Nat \ {0}, NEW S
  PROVE  LET r == Kept(Page(s, PageSize, PageSize * (i - 1)), S)
         IN  PageOf(r, i, Len(s), s, S)
<1> DEFINE start == PageSize * (i - 1)
           n == Len(s)
           p == Page(s, PageSize, start)
           r == Kept(p, S)
           left == IF start <= n THEN n - start ELSE 0
<1>1. PageSize \in Nat \ {0} /\ start \in Nat /\ n \in Nat
  BY PageSizeAssumption, Paged
<1> HIDE DEF start, p
<1>2. /\ p \in Seq(X) /\ Len(p) = IF PageSize < left THEN PageSize ELSE left
      /\ \A j \in 1 .. Len(p) : p[j] = s[start + j]
  BY <1>1, PageIs DEF p
<1>3. PICK h : Picks(p, Len(p), S, r, h)
  <2>1. Len(p) \in Nat
    BY <1>2
  <2> QED BY <2>1, KeptPicks
<1> HIDE DEF r
<1>4. /\ Len(r) \in Nat /\ DOMAIN r = 1 .. Len(r)
      /\ \A a \in 1 .. Len(r) : h[a] \in 1 .. Len(p) /\ r[a] = p[h[a]] /\ r[a] \in S
      /\ \A a, b \in 1 .. Len(r) : a < b => h[a] < h[b]
      /\ \A q \in 1 .. Len(p) : p[q] \in S => \E a \in 1 .. Len(r) : h[a] = q
  BY <1>3 DEF Picks
<1> DEFINE k == [a \in 1 .. Len(r) |-> start + h[a]]
<1>5. \A j \in 1 .. Len(p) : start + j \in 1 .. n /\ start + j \in OnPage(i)
  <2>1. \A j \in 1 .. Len(p) : /\ start + j \in 1 .. n /\ start < start + j
                              /\ start + j <= start + PageSize
    BY <1>1, <1>2
  <2> QED BY <1>1, <2>1 DEF OnPage, start
<1>6. ASSUME NEW q \in 1 .. n, q \in OnPage(i) PROVE \E j \in 1 .. Len(p) : q = start + j
  <2>1. start < q /\ q <= start + PageSize
    BY <1>6 DEF OnPage, start
  <2>2. q - start \in 1 .. Len(p) /\ q = start + (q - start)
    BY <1>1, <1>2, <2>1
  <2> QED BY <2>2
<1>7. \A a \in 1 .. Len(r) : k[a] = start + h[a]
  OBVIOUS
<1> HIDE DEF k, left, n
<1>8. \A a \in 1 .. Len(r) : /\ k[a] \in 1 .. n /\ k[a] \in OnPage(i)
                             /\ r[a] = s[k[a]] /\ r[a] \in S
  BY <1>2, <1>4, <1>5, <1>7
<1>9. ASSUME NEW a \in 1 .. Len(r), NEW b \in 1 .. Len(r), a < b PROVE k[a] < k[b]
  <2>1. h[a] < h[b] /\ h[a] \in 1 .. Len(p) /\ h[b] \in 1 .. Len(p)
    BY <1>4, <1>9
  <2> QED BY <1>1, <1>7, <2>1
<1>10. ASSUME NEW q \in 1 .. n, q \in OnPage(i), s[q] \in S PROVE \E a \in 1 .. Len(r) : k[a] = q
  <2>1. PICK j \in 1 .. Len(p) : q = start + j
    BY <1>6, <1>10
  <2>2. PICK a \in 1 .. Len(r) : h[a] = j
    BY <1>2, <1>4, <1>10, <2>1
  <2> QED BY <1>7, <2>1, <2>2
<1>11. PagePicks(r, i, n, s, S, k)
  BY <1>4, <1>8, <1>9, <1>10 DEF PagePicks
<1>12. PageOf(r, i, n, s, S)
  BY <1>11 DEF PageOf
<1> QED BY <1>12 DEF r, p, start, n

LEMMA FeedPaged ==
  ASSUME IxInv, NEW f \in Feed
  PROVE  PagesShow([i \in Pages |-> FeedPage(f, i)], {m \in Typed : m.author = f},
                   LAMBDA m, n : m.sequence > n.sequence)
<1> DEFINE D == OfFeed(f)
           s == SortedBy(D, LAMBDA m, n : m.sequence > n.sequence)
           page == [i \in Pages |-> FeedPage(f, i)]
           B == Later(D)
<1>1. /\ Len(s) = Cardinality(D) /\ DOMAIN s = 1 .. Len(s) /\ Len(s) \in Nat
      /\ \A i \in 1 .. Len(s) : s[i] \in D
      /\ \A m \in D : \E i \in 1 .. Len(s) : s[i] = m
      /\ \A i, j \in 1 .. Len(s) : i < j => <<s[i], s[j]>> \in B
  BY FeedInOrder DEF InOrder
<1>2. s = [i \in 1 .. Len(s) |-> s[i]]
  <2> DEFINE F(i) == CHOOSE m \in D : Cardinality({n \in D : n.sequence > m.sequence}) = i - 1
  <2>1. s = [i \in 1 .. Cardinality(D) |-> F(i)]
    BY DEF SortedBy
  <2> HIDE DEF F, s
  <2> QED BY <1>1, <2>1
<1>3. ASSUME NEW i \in Pages
      PROVE  page[i] = Kept(Page(s, PageSize, PageSize * (i - 1)), Typed) /\ i \in Nat \ {0}
  <2>1. i \in Nat \ {0} /\ PageSize \in Nat
    BY LogTyped, PageSizeAssumption DEF Pages
  <2>2. PageSize * i - PageSize = PageSize * (i - 1)
    BY <2>1
  <2>3. page[i] = LatestCount(f, PageSize, PageSize * i - PageSize)
    BY DEF FeedPage
  <2>4. LatestCount(f, PageSize, PageSize * (i - 1))
          = Kept(Page(s, PageSize, PageSize * (i - 1)), Typed)
    BY DEF LatestCount, OfFeed
  <2> QED BY <2>1, <2>2, <2>3, <2>4
<1> HIDE DEF s
<1>4. s \in Seq(D)
  <2>1. s \in [1 .. Len(s) -> D]
    BY <1>1, <1>2
  <2> QED BY <1>1, <2>1, FunctionIsSeq
<1>5. DOMAIN page = Pages
  OBVIOUS
<1> HIDE DEF page
<1>6. ASSUME NEW i \in Pages PROVE PageOf(page[i], i, Len(s), s, Typed)
  BY <1>3, <1>4, PageAt
<1>7. Len(s) <= Len(order) /\ Len(order) \in Nat
  BY <1>1, StoredFinite, LogTyped DEF OfFeed
<1>8. PagesTell(page, Among(Len(s), s, Typed), B)
  <2> HIDE DEF B
  <2> DEFINE n == Len(s)
  <2>1. n \in Nat /\ n <= Len(order) /\ Len(order) \in Nat
    BY <1>1, <1>7
  <2>2. \A p, q \in 1 .. n : p < q /\ s[p] \in Typed /\ s[q] \in Typed => <<s[p], s[q]>> \in B
    BY <1>1
  <2>3. DOMAIN page = Pages /\ \A i \in Pages : PageOf(page[i], i, n, s, Typed)
    BY <1>5, <1>6
  <2> HIDE DEF n
  <2>4. PagesTell(page, Among(n, s, Typed), B)
    BY <2>1, <2>2, <2>3, PagesFit
  <2> QED BY <2>4 DEF n
<1>9. Among(Len(s), s, Typed) = {m \in Typed : m.author = f}
  BY <1>1 DEF Among, OfFeed, Typed
<1>10. \A m, n : <<m, n>> \in B => m.sequence > n.sequence
  BY DEF Later
<1> HIDE DEF B
<1>11. PagesShow(page, {m \in Typed : m.author = f}, LAMBDA m, n : m.sequence > n.sequence)
  BY <1>8, <1>9, <1>10 DEF PagesShow, PagesTell
<1> QED BY <1>11 DEF page

-----------------------------------------------------------------------------
(* The slices of a channel. *)

NoLater(S) == {p \in S \X S : p[1] # p[2] /\ Precedes(Cardinality(S), p[2], p[1], TRUE)}

LEMMA ChannelPaged ==
  ASSUME IxInv, KeysDiffer, NEW c \in Channel
  PROVE  LET posts == {m \in Stored : Says(m, "post") /\ Content[m].channel = c}
         IN  PagesShow([i \in Pages |-> GetChannelLatest(c, PageSize, PageSize * (i - 1))], posts,
                       LAMBDA m, n : m # n /\ Precedes(Cardinality(posts), n, m, TRUE))
<1> DEFINE T == Places(order, "post", "channel", c)
           posts == {m \in Stored : Says(m, "post") /\ Content[m].channel = c}
           keys == InTimeOrder(ix.channels[c].time)
           n == Len(keys)
           page == [i \in Pages |-> GetChannelLatest(c, PageSize, PageSize * (i - 1))]
           B == NoLater(posts)
<1>1. T \in SUBSET (1 .. Len(order))
  BY PlacesIn
<1>2. posts = {order[a] : a \in T} /\ \A a \in T : order[a] \in posts
  <2>1. \A a \in 1 .. Len(order) : order[a] \in posts <=> a \in T
    BY LogFacts, LogTyped DEF Places
  <2>2. \A m \in posts : \E a \in 1 .. Len(order) : m = order[a]
    BY LogFacts, LogTyped
  <2> QED BY <1>1, <2>1, <2>2
<1>3. /\ ListTypes(ix.channels[c], Len(order))
      /\ ListSound(order, ix.channels[c], T)
  BY ListsSound
<1>4. posts \in SUBSET Stored
  OBVIOUS
<1> HIDE DEF T, posts
<1>5. Cardinality(T) = Cardinality(posts) /\ Cardinality(T) <= Len(order)
  <2> DEFINE f == [a \in T |-> order[a]]
  <2>1. IsFiniteSet(T) /\ Cardinality(T) <= Len(order)
    BY <1>1, LogFacts, LogTyped, PartOfRange
  <2>2. f \in Bijection(T, posts)
    <3>1. f \in [T -> posts]
      BY <1>2
    <3>2. ASSUME NEW a \in T, NEW b \in T, f[a] = f[b] PROVE a = b
      <4>1. a \in 1 .. Len(order) /\ b \in 1 .. Len(order) /\ order[a] = order[b]
        BY <1>1, <3>2
      <4> QED BY <4>1, LogFacts, LogTyped
    <3>3. \A m \in posts : \E a \in T : f[a] = m
      BY <1>2
    <3> HIDE DEF f
    <3> QED BY <3>1, <3>2, <3>3 DEF Bijection, Injection, Surjection, IsInjective
  <2> HIDE DEF f
  <2>3. \E b : b \in Bijection(T, posts)
    BY <2>2
  <2>4. Cardinality(T) = Cardinality(posts)
    BY <2>1, <2>3, FS_Bijection DEF ExistsBijection
  <2> QED BY <2>1, <2>4
<1>6. PICK g : KeysAt(keys, T, g, ByTime(T))
  <2>1. DOMAIN ix.channels[c].time \in SUBSET Nat /\ IsFiniteSet(DOMAIN ix.channels[c].time)
    BY <1>3, KeySpaceIs DEF ListTypes, IsList
  <2>2. InTime(order, ix.channels[c].time, T) /\ Packed(order, ix.channels[c].time, T)
    BY <1>3 DEF ListSound
  <2> QED BY <1>1, <2>1, <2>2, InTimeShows
<1>7. n = Cardinality(T)
  <2>1. DOMAIN ix.channels[c].time \in SUBSET Nat /\ IsFiniteSet(DOMAIN ix.channels[c].time)
    BY <1>3, KeySpaceIs DEF ListTypes, IsList
  <2>2. InTime(order, ix.channels[c].time, T) /\ Packed(order, ix.channels[c].time, T)
    BY <1>3 DEF ListSound
  <2> QED BY <1>1, <2>1, <2>2, InTimeShows
<1>8. /\ n \in Nat
      /\ \A q \in 1 .. n : g[q] \in T
      /\ \A a \in T : \E q \in 1 .. n : g[q] = a
      /\ \A p, q \in 1 .. n : p < q => <<g[p], g[q]>> \in ByTime(T)
  BY <1>6 DEF KeysAt, ShowsAt
<1> DEFINE item == [q \in 1 .. n |-> order[g[n - q + 1]]]
<1>9. \A i \in Pages : /\ i \in Nat \ {0} /\ PageSize * (i - 1) \in Nat
                       /\ SliceOf(page[i], n, PageSize, PageSize * (i - 1), g)
  <2> SUFFICES ASSUME NEW i \in Pages
               PROVE  /\ i \in Nat \ {0} /\ PageSize * (i - 1) \in Nat
                      /\ SliceOf(page[i], n, PageSize, PageSize * (i - 1), g)
    OBVIOUS
  <2>1. i \in Nat \ {0} /\ PageSize \in Nat
    BY LogFacts, LogTyped, PageSizeAssumption DEF Pages
  <2>2. PageSize * (i - 1) \in Nat
    BY <2>1, Paged
  <2>3. page[i] = GetChannelLatest(c, PageSize, PageSize * (i - 1))
    OBVIOUS
  <2> HIDE DEF page
  <2> QED BY <1>1, <1>6, <2>1, <2>2, <2>3, SliceShows
<1>10. DOMAIN page = Pages
  OBVIOUS
<1> HIDE DEF page, keys, n
<1>11. \A q \in 1 .. n : n - q + 1 \in 1 .. n /\ item[q] = order[g[n - q + 1]] /\ item[q] \in posts
  <2>1. \A q \in 1 .. n : n - q + 1 \in 1 .. n
    BY <1>8
  <2> QED BY <1>2, <1>8, <2>1
<1> HIDE DEF item
<1>12. ASSUME NEW i \in Pages PROVE PageOf(page[i], i, n, item, posts)
  <2> DEFINE start == PageSize * (i - 1)
             r == page[i]
             left == IF start <= n THEN n - start ELSE 0
             h == [j \in 1 .. Len(r) |-> start + j]
  <2>1. /\ start \in Nat /\ PageSize \in Nat \ {0} /\ n \in Nat
        /\ r \in Seq(Msg) /\ Len(r) = IF PageSize < left THEN PageSize ELSE left
        /\ \A j \in 1 .. Len(r) : r[j] = order[g[n - (start + j) + 1]]
    BY <1>8, <1>9, PageSizeAssumption DEF SliceOf
  <2>2. Len(r) \in Nat /\ DOMAIN r = 1 .. Len(r)
    BY <2>1
  <2>3. \A q \in Nat : q \in OnPage(i) <=> start < q /\ q <= start + PageSize
    BY DEF OnPage
  <2> HIDE DEF start, r
  <2>4. \A j \in 1 .. Len(r) : start + j \in 1 .. n /\ start + j \in OnPage(i) /\ h[j] = start + j
    <3>1. \A j \in 1 .. Len(r) : start + j \in 1 .. n /\ start < start + j /\ start + j <= start + PageSize
      BY <2>1
    <3> QED BY <2>1, <2>3, <3>1
  <2>5. ASSUME NEW q \in 1 .. n, q \in OnPage(i) PROVE \E j \in 1 .. Len(r) : q = start + j
    <3>1. start < q /\ q <= start + PageSize
      BY <2>3, <2>5
    <3>2. q - start \in 1 .. Len(r) /\ q = start + (q - start)
      BY <2>1, <3>1
    <3> QED BY <3>2
  <2> HIDE DEF h, left
  <2>6. \A j \in 1 .. Len(r) : r[j] = item[h[j]] /\ r[j] \in posts
    BY <1>11, <2>1, <2>4
  <2>7. \A a, b \in 1 .. Len(r) : a < b => h[a] < h[b]
    BY <2>1, <2>2, <2>4
  <2>8. \A q \in 1 .. n : q \in OnPage(i) => \E j \in 1 .. Len(r) : h[j] = q
    BY <2>4, <2>5
  <2>9. PagePicks(r, i, n, item, posts, h)
    BY <2>2, <2>4, <2>6, <2>7, <2>8 DEF PagePicks
  <2> QED BY <2>9 DEF PageOf, r
<1>13. ASSUME NEW p \in 1 .. n, NEW q \in 1 .. n, p < q PROVE <<item[p], item[q]>> \in B
  <2> DEFINE a == g[n - q + 1]
             b == g[n - p + 1]
  <2>1. n - q + 1 \in 1 .. n /\ n - p + 1 \in 1 .. n /\ n - q + 1 < n - p + 1
    BY <1>8, <1>11, <1>13
  <2>2. a \in T /\ b \in T /\ <<a, b>> \in ByTime(T)
    BY <1>8, <2>1
  <2>3. item[q] = order[a] /\ item[p] = order[b] /\ item[p] \in posts /\ item[q] \in posts
    BY <1>11
  <2> HIDE DEF a, b
  <2>4. a # b /\ Precedes(Cardinality(T), order[a], order[b], a < b)
    BY <2>2 DEF ByTime, Sooner
  <2>5. Precedes(Cardinality(T), order[a], order[b], TRUE)
    BY <2>4 DEF Precedes
  <2>6. order[a] # order[b]
    <3>1. a \in 1 .. Len(order) /\ b \in 1 .. Len(order)
      BY <1>1, <2>2
    <3> QED BY <2>4, <3>1, LogFacts
  <2>7. item[p] # item[q] /\ Precedes(Cardinality(posts), item[q], item[p], TRUE)
    BY <1>5, <2>3, <2>5, <2>6
  <2> QED BY <2>3, <2>7 DEF NoLater
<1>14. PagesTell(page, Among(n, item, posts), B)
  <2>1. n <= Len(order) /\ n \in Nat /\ Len(order) \in Nat
    BY <1>5, <1>7, <1>8, LogFacts, LogTyped
  <2> HIDE DEF B
  <2> QED BY <1>10, <1>12, <1>13, <2>1, PagesFit
<1>15. Among(n, item, posts) = posts
  <2>1. ASSUME NEW m \in posts PROVE \E q \in 1 .. n : m = item[q]
    <3>1. PICK a \in T : m = order[a]
      BY <1>2
    <3>2. PICK p \in 1 .. n : g[p] = a
      BY <1>8
    <3>3. n - p + 1 \in 1 .. n /\ n - (n - p + 1) + 1 = p
      BY <1>8
    <3>4. item[n - p + 1] = order[g[n - (n - p + 1) + 1]]
      BY <1>11, <3>3
    <3> QED BY <3>1, <3>2, <3>3, <3>4
  <2> QED BY <2>1 DEF Among
<1>16. \A m, k : <<m, k>> \in B => m # k /\ Precedes(Cardinality(posts), k, m, TRUE)
  BY DEF NoLater
<1> HIDE DEF B
<1>17. PagesShow(page, posts,
                 LAMBDA m, k : m # k /\ Precedes(Cardinality(posts), k, m, TRUE))
  BY <1>14, <1>15, <1>16 DEF PagesShow, PagesTell
<1> QED BY <1>17 DEF page, posts

-----------------------------------------------------------------------------
(* What a search finds. *)

LEMMA SearchFinds ==
  ASSUME IxInv, KeysDiffer, NEW w \in Word, NEW most \in Nat
  PROVE  LET found == Search(w, most)
             Has(m) == Says(m, "post") /\ w \in Content[m].text
             Newer(m, n) == \E i, j \in DOMAIN order : i > j /\ order[i] = m /\ order[j] = n
         IN  /\ IsInjective(found)
             /\ \A m \in ToSet(found) : Has(m)
             /\ \A n \in {m \in Stored : Has(m)} \ ToSet(found) :
                  most = Len(found) /\ most > 0 /\ \A m \in ToSet(found) : Newer(m, n)
<1> DEFINE r == Search(w, most)
           Has(m) == Says(m, "post") /\ w \in Content[m].text
           Newer(m, n) == \E i, j \in DOMAIN order : i > j /\ order[i] = m /\ order[j] = n
           W == {m \in Stored : Says(m, "post") /\ w \in Content[m].text}
           newest == Reverse(order)
           found == Kept(newest, W)
           l == Len(order)
<1>1. /\ l \in Nat /\ DOMAIN order = 1 .. l
      /\ \A a, b \in 1 .. l : order[a] = order[b] => a = b
      /\ \A m \in W : \E a \in 1 .. l : m = order[a]
  BY LogFacts, LogTyped
<1>2. Len(newest) = l /\ \A i \in 1 .. l : newest[i] = order[l - i + 1]
  BY LogFacts, LogTyped, ReverseIs
<1>3. PICK h : Picks(newest, l, W, found, h)
  <2> HIDE DEF W, newest, l
  <2> QED BY <1>1, <1>2, KeptPicks
<1>4. /\ W = {m \in Stored : Has(m)} /\ \A m \in W : Has(m)
      /\ r = IF most > 0 THEN FirstOf(most, found) ELSE found
  BY LogTyped, LogReadIs DEF Search
<1> HIDE DEF W, newest, found, l, r, Has
<1>5. /\ Len(found) \in Nat /\ DOMAIN found = 1 .. Len(found) /\ found \in Seq(W)
      /\ \A j \in 1 .. Len(found) : /\ h[j] \in 1 .. l /\ l - h[j] + 1 \in 1 .. l
                                    /\ found[j] = order[l - h[j] + 1] /\ found[j] \in W
      /\ \A i, j \in 1 .. Len(found) : i < j => h[i] < h[j]
      /\ \A p \in 1 .. l : newest[p] \in W => \E j \in 1 .. Len(found) : h[j] = p
  <2>1. /\ found \in Seq(W)
        /\ \A j \in 1 .. Len(found) : h[j] \in 1 .. l /\ found[j] = newest[h[j]]
        /\ \A i, j \in 1 .. Len(found) : i < j => h[i] < h[j]
        /\ \A p \in 1 .. l : newest[p] \in W => \E j \in 1 .. Len(found) : h[j] = p
    BY <1>3 DEF Picks
  <2>2. \A p \in 1 .. l : l - p + 1 \in 1 .. l
    BY <1>1
  <2>3. Len(found) \in Nat /\ DOMAIN found = 1 .. Len(found) /\ \A j \in 1 .. Len(found) : found[j] \in W
    BY <2>1
  <2> QED BY <1>2, <2>1, <2>2, <2>3
<1>6. /\ Len(r) \in Nat /\ DOMAIN r = 1 .. Len(r) /\ Len(r) <= Len(found)
      /\ \A j \in 1 .. Len(r) : r[j] = found[j]
      /\ Len(r) < Len(found) => most = Len(r) /\ most > 0
  <2>1. CASE most > 0
    <3> DEFINE k == IF most < Len(found) THEN most ELSE Len(found)
    <3>1. r = SubSeq(found, 1, k) /\ k \in Nat /\ k <= Len(found)
      BY <1>4, <1>5, <2>1 DEF FirstOf
    <3>2. Len(r) = k /\ DOMAIN r = 1 .. k /\ \A j \in 1 .. k : r[j] = found[j]
      <4> HIDE DEF k
      <4> QED BY <1>5, <3>1
    <3>3. Len(found) \in Nat /\ (k < Len(found) => k = most)
      <4>1. Len(found) \in Nat
        BY <1>5, Zenon
      <4> QED BY <4>1
    <3> HIDE DEF k
    <3>4. Len(r) \in Nat /\ Len(r) <= Len(found) /\ DOMAIN r = 1 .. Len(r)
      BY <3>1, <3>2
    <3>5. \A j \in 1 .. Len(r) : r[j] = found[j]
      BY <3>2
    <3>6. Len(r) < Len(found) => most = Len(r) /\ most > 0
      BY <2>1, <3>2, <3>3
    <3> QED BY <3>4, <3>5, <3>6
  <2>2. CASE ~ (most > 0)
    <3>1. r = found
      BY <1>4, <2>2
    <3>2. Len(found) \in Nat /\ DOMAIN found = 1 .. Len(found)
      BY <1>5
    <3>3. Len(r) <= Len(found) /\ ~(Len(r) < Len(found))
      BY <3>1, <3>2
    <3> QED BY <3>1, <3>2, <3>3
  <2> QED BY <2>1, <2>2
<1>7. \A j \in 1 .. Len(r) : j \in 1 .. Len(found) /\ r[j] = found[j] /\ j \in Nat
  <2>1. Len(r) \in Nat /\ Len(found) \in Nat /\ Len(r) <= Len(found)
    BY <1>5, <1>6
  <2>2. \A j \in 1 .. Len(r) : j \in 1 .. Len(found) /\ j \in Nat
    BY <2>1
  <2> QED BY <1>6, <2>2
<1>8. /\ DOMAIN r = 1 .. Len(r) /\ \A i, j \in 1 .. Len(r) : i = j \/ i < j \/ j < i
      /\ \A j \in 1 .. Len(found) \ 1 .. Len(r) :
           most = Len(r) /\ most > 0 /\ \A i \in 1 .. Len(r) : i < j
  <2>1. Len(r) \in Nat /\ Len(found) \in Nat /\ DOMAIN r = 1 .. Len(r)
    BY <1>5, <1>6
  <2>2. ASSUME NEW j \in 1 .. Len(found) \ 1 .. Len(r)
        PROVE  Len(r) < Len(found) /\ \A i \in 1 .. Len(r) : i < j
    BY <2>1
  <2>3. ASSUME Len(r) < Len(found) PROVE most = Len(r) /\ most > 0
    BY <1>6, <2>3, Zenon
  <2>4. \A i, j \in 1 .. Len(r) : i = j \/ i < j \/ j < i
    BY <2>1
  <2> QED BY <2>1, <2>2, <2>3, <2>4
(* Two that are found are at two places of the log, the later one first.   *)
<1>9. ASSUME NEW i \in 1 .. Len(found), NEW j \in 1 .. Len(found), i < j
      PROVE  found[i] # found[j] /\ Newer(found[i], found[j])
  <2> DEFINE a == l - h[i] + 1
             b == l - h[j] + 1
  <2>1. h[i] < h[j] /\ h[i] \in 1 .. l /\ h[j] \in 1 .. l
    BY <1>5, <1>9
  <2>2. a \in 1 .. l /\ b \in 1 .. l /\ a > b /\ a # b
    BY <1>1, <2>1
  <2>3. found[i] = order[a] /\ found[j] = order[b]
    BY <1>5
  <2> HIDE DEF a, b
  <2> QED BY <1>1, <2>2, <2>3
<1> HIDE DEF Newer
<1>10. IsInjective(r)
  <2>1. ASSUME NEW i \in 1 .. Len(r), NEW j \in 1 .. Len(r), r[i] = r[j] PROVE i = j
    <3>1. i \in 1 .. Len(found) /\ j \in 1 .. Len(found) /\ found[i] = found[j]
      BY <1>7, <2>1
    <3>2. ~ (i < j) /\ ~ (j < i)
      BY <1>9, <3>1
    <3> QED BY <1>8, <3>2
  <2> QED BY <1>8, <2>1 DEF IsInjective
<1>11. \A m \in ToSet(r) : \E i \in 1 .. Len(r) : m = found[i]
  BY <1>7, <1>8 DEF ToSet
<1>12. \A m \in ToSet(r) : Has(m)
  BY <1>4, <1>5, <1>7, <1>11
<1>13. ASSUME NEW n \in W, n \notin ToSet(r)
       PROVE  most = Len(r) /\ most > 0 /\ \A m \in ToSet(r) : Newer(m, n)
  <2>1. PICK j \in 1 .. Len(found) : found[j] = n
    <3>1. PICK a \in 1 .. l : n = order[a]
      BY <1>1
    <3> DEFINE p == l - a + 1
    <3>2. p \in 1 .. l /\ l - p + 1 = a
      BY <1>1
    <3> HIDE DEF p
    <3>3. newest[p] = n
      BY <1>2, <3>1, <3>2
    <3>4. PICK j \in 1 .. Len(found) : h[j] = p
      BY <1>5, <3>2, <3>3
    <3> QED BY <1>5, <3>1, <3>2, <3>4
  <2>2. j \notin 1 .. Len(r)
    BY <1>7, <1>8, <1>13, <2>1 DEF ToSet
  <2>3. most = Len(r) /\ most > 0 /\ \A i \in 1 .. Len(r) : i < j
    BY <1>8, <2>2
  <2>4. ASSUME NEW m \in ToSet(r) PROVE Newer(m, n)
    <3>1. PICK i \in 1 .. Len(r) : m = found[i]
      BY <1>11
    <3> QED BY <1>7, <1>9, <2>1, <2>3, <3>1
  <2> QED BY <2>3, <2>4
<1> QED BY <1>4, <1>10, <1>12, <1>13 DEF r, Has, Newer

LEMMA PagesHold == IxInv => PagesCover
<1> SUFFICES ASSUME IxInv PROVE PagesCover
  OBVIOUS
<1>1. \A f \in Feed :
        PagesShow([i \in Pages |-> FeedPage(f, i)], {m \in Typed : m.author = f},
                  LAMBDA m, n : m.sequence > n.sequence)
  BY FeedPaged
<1>2. ASSUME KeysDiffer
      PROVE  \A c \in Channel :
        LET posts == {m \in Stored : Says(m, "post") /\ Content[m].channel = c}
        IN  PagesShow([i \in Pages |-> GetChannelLatest(c, PageSize, PageSize * (i - 1))], posts,
                      LAMBDA m, n : m # n /\ Precedes(Cardinality(posts), n, m, TRUE))
  BY <1>2, ChannelPaged
<1>3. ASSUME KeysDiffer
      PROVE  \A w \in Word, max \in 0 .. 2 :
        LET found == Search(w, max)
            Has(m) == Says(m, "post") /\ w \in Content[m].text
            Newer(m, n) == \E i, j \in DOMAIN order : i > j /\ order[i] = m /\ order[j] = n
        IN  /\ IsInjective(found)
            /\ \A m \in ToSet(found) : Has(m)
            /\ \A n \in {m \in Stored : Has(m)} \ ToSet(found) :
                 max = Len(found) /\ max > 0 /\ \A m \in ToSet(found) : Newer(m, n)
  <2>1. \A max \in 0 .. 2 : max \in Nat
    OBVIOUS
  <2> QED BY <1>3, <2>1, SearchFinds
<1> QED BY <1>1, <1>2, <1>3, Zenon DEF PagesCover

-----------------------------------------------------------------------------
(* Every bucket holds what its readers decode, whatever is stored, rebuilt *)
(* and added in whatever order (graph.go:49-54, social.go:28-53,           *)
(* channels.go:52-62, git.go:157-266).                                     *)
THEOREM IndexTypesCorrect == Spec => []TypeOK
BY IxAlways, TypesHold, PTL

(* Whom a feed follows and blocks, and what it calls itself, is its own    *)
(* latest word on each field, for any number of feeds whose messages come  *)
(* in any order, and through any rebuild (graph.go:49-54,                  *)
(* social.go:95-105).                                                      *)
THEOREM LatestWordsCount == Spec => []LatestWordCounts
BY IxAlways, WordsHold, PTL

(* As long as the keys differ, a thread and a channel keep and show each   *)
(* of their posts once, by time as far as the 64-bit keys of the times     *)
(* allow (Precedes), and a message shows each vote on it: for any number   *)
(* of posts that compete for the keys of any moment, with times before     *)
(* 1970 and times that an int cannot hold among them                       *)
(* (social.go:120-168, 191-234, channels.go:40-102).                       *)
THEOREM PostsAreShown == Spec => []PostsAreListed
BY IxAlways, PostsHold, PTL

(* Page after page, a feed is shown newest first, each message that has a  *)
(* type once.  As long as the keys differ, slice after slice, a channel is *)
(* shown latest first as far as Precedes says, each post once; and a       *)
(* search leaves out only older posts than those it finds, when they are   *)
(* as many as it may find: for any log, any number of messages to a page,  *)
(* any number of private ones among them and any times                     *)
(* (feeds.go:552-584, channels.go:69-102, search.go:11-36).                *)
THEOREM PagesShowAll == Spec => []PagesCover
BY IxAlways, PagesHold, PTL

(* Each pub that a stored message announces has an address: the latest     *)
(* announced one, or one added by hand (gossip.go:34-44, 91-113).          *)
THEOREM PubsStayListed == Spec => []PubsAreListed
BY IxAlways, PubsHold, PTL

(* A repository lists every blob, update and issue that a stored message   *)
(* names it in, whichever was stored first (git.go:70-137, 157-266).       *)
THEOREM ReposAreComplete == Spec => []RepoIsComplete
BY IxAlways, ReposHold, PTL

(* GetFollows ends with exactly the feeds within the distance, each with   *)
(* the length of its shortest chain, in every graph (graph.go:62-96).      *)
THEOREM FollowsStayNearest == Spec => []FollowsAreNearest
BY FollowsHold, PTL

(* A rebuild of an index, or of all of them, leaves all as they were, but  *)
(* for pubs added by hand, for any log in which the keys differ: clearing  *)
(* removes all that entering the messages has made, and replaying makes it *)
(* again (feeds.go:398-457).                                               *)
THEOREM RebuildsChangeNothing == Spec => RebuildChangesNothing
<1>1. IxInv /\ IxInv' /\ [Next]_vars
        => [KeysDiffer /\ UNCHANGED order => ix' = [ix EXCEPT !.pubs = ix'.pubs]]_vars
  <2> SUFFICES ASSUME IxInv, IxInv', KeysDiffer, order' = order
               PROVE  ix' = [ix EXCEPT !.pubs = ix'.pubs]
    OBVIOUS
  <2>0. KeysDiffer'
    BY DEF KeysDiffer
  <2>1. ix = WithPubs(Replayed(order), ix.pubs) /\ ix' = WithPubs(Replayed(order'), ix'.pubs)
    BY <2>0 DEF IxInv, IxRight
  <2>2. Replayed(order') = Replayed(order)
    OBVIOUS
  <2> HIDE DEF Replayed
  <2> QED BY <2>1, <2>2 DEF WithPubs
<1> QED BY <1>1, IxAlways, PTL DEF Spec, RebuildChangesNothing

(* The log that the indexes are proved about is one that the store may     *)
(* build: every step of the indexes appends a message that it admits, or   *)
(* leaves the log alone.  FeedStoreProofs!Implements says that the code's  *)
(* log is one of these too (feeds.go:345-457).                             *)
THEOREM IndexesUseStore == Spec => Store!Spec
<1>1. Init => Store!Init
  BY DEF Init, Store!Init
<1>2. ASSUME IxInv, NEW m \in Msg, StoreMessage(m) PROVE Store!Extend(m.author)
  <2> DEFINE t == Append(order, m)
             n == Len(order)
  <2>1. order \in Seq(Msg) /\ order' = t /\ Store!Admissible(t, n + 1)
    BY <1>2 DEF IxInv, IxTyped, StoreMessage
  <2>2. t \in Seq(Msg) /\ n \in Nat /\ Len(t) = n + 1 /\ t[n + 1] = m
    BY <2>1
  <2>3. SubSeq(order, 1, n) = SubSeq(t, 1, n)
    BY <2>1
  <2>4. \A i \in n + 1 .. Len(t) : i = n + 1
    BY <2>2
  <2> HIDE DEF t
  <2>5. Store!IsStrictPrefix(order, t)
    BY <2>2, <2>3 DEF Store!IsStrictPrefix, Store!IsPrefix, n
  <2> HIDE DEF n
  <2>6. \A i \in n + 1 .. Len(t) : t[i].author = m.author /\ Store!Admissible(t, i)
    BY <2>1, <2>2, <2>4
  <2> QED BY <2>1, <2>2, <2>5, <2>6 DEF Store!Extend, n
<1>3. IxInv /\ [Next]_vars => [Store!Next]_order
  <2> SUFFICES ASSUME IxInv, [Next]_vars PROVE Store!Next \/ order' = order
    OBVIOUS
  <2>1. ASSUME NEW m \in Msg, StoreMessage(m) PROVE Store!Next
    <3>1. m.author \in Feed
      BY MsgFields
    <3> QED BY <1>2, <2>1, <3>1 DEF Store!Next
  <2>2. ASSUME NEW mods, Rebuild(mods) PROVE order' = order
    BY <2>2 DEF Rebuild
  <2>3. ASSUME NEW f \in Feed, NEW a \in Addr, AddPub(f, a) PROVE order' = order
    BY <2>3 DEF AddPub
  <2>4. CASE UNCHANGED vars
    BY <2>4 DEF vars
  <2> QED BY <2>1, <2>2, <2>3, <2>4 DEF Next
<1> QED BY <1>1, <1>3, IxAlways, PTL DEF Spec, Store!Spec
=============================================================================
