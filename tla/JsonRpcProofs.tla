--------------------------- MODULE JsonRpcProofs -----------------------------
(***************************************************************************)
(* Proof that the JSON-RPC server answers a request once, for any number   *)
(* of requests.  Given(q) is what has been answered to q, wherever it is   *)
(* by now; the invariant RpcInv says for each place that the goroutine of  *)
(* q may be at what that can be.                                           *)
(***************************************************************************)
EXTENDS JsonRpc, SequenceTheorems, TLAPS

What     == {"result", "error"}
Response == [id : Request, what : What]
Slot     == {<<>>} \cup {<<r>> : r \in Response}

Part(s, q) == IF s # <<>> /\ s[1].id = q THEN <<s[1].what>> ELSE <<>>
Given(q)   == got[q] \o (Part(out, q) \o Part(writer, q))

Values(k) == IF k.does = "value" THEN What ELSE {"error"}

(* What a request may have been answered: before the last answer, and in   *)
(* the end.                                                                *)
First(k) == IF k.id /\ ~k.decodes THEN {<<>>, <<"error">>} ELSE {<<>>}
Final(k) == First(k) \cup {<<w>> : w \in IF k.id THEN Values(k) ELSE {}}
                     \cup {<<"error", w>> : w \in IF k.id /\ ~k.decodes THEN Values(k) ELSE {}}

Places == {"off", "start", "call", "send", "done"}

Types ==
  /\ kind \in Seq(Kinds) /\ Len(kind) <= MaxRequests
  /\ read \in 0 .. Len(kind)
  /\ reader \in {"read", "send", "gone"}
  /\ open \in BOOLEAN
  /\ work \in [Request -> [pc : Places, what : What \cup {"none"}, then : {"none", "call", "done"}]]
  /\ writer \in Slot /\ out \in Slot
  /\ got \in [Request -> Seq(What)]

ReaderInv == reader = "send" => read >= 1 /\ kind[read].id /\ Given(read) = <<>> /\ work[read].pc = "off"

Off(q) ==
  work[q].pc = "off" => IF q > read THEN Given(q) = <<>> ELSE Given(q) \in {<<>>} \cup {<<"error">>} /\ (Given(q) # <<>> => kind[q].id)

Working(q) ==
  /\ work[q].pc # "off" => q <= read
  /\ work[q].pc = "start" => Given(q) = <<>>
  /\ work[q].pc = "call" => Given(q) \in First(kind[q])
  /\ work[q].pc = "send" =>
       /\ kind[q].id
       /\ work[q].what \in Values(kind[q])
       /\ work[q].then = "done" => Given(q) \in First(kind[q])
       /\ work[q].then = "call" => Given(q) = <<>> /\ ~kind[q].decodes /\ work[q].what = "error"
       /\ work[q].then # "none"
  /\ work[q].pc = "done" => Given(q) \in Final(kind[q])

RpcInv == Types /\ ReaderInv /\ \A q \in Request : Off(q) /\ Working(q)
-----------------------------------------------------------------------------
(* Sequences of answers. *)

LEMMA ShorterAnswers ==
  ASSUME NEW s \in Seq(What), NEW w \in What
  PROVE  /\ s \o <<w>> # <<>>
         /\ \A v \in What : s \o <<w>> = <<v>> => s = <<>> /\ w = v
         /\ \A u, v \in What : s \o <<w>> = <<u, v>> => s = <<u>> /\ w = v
<1>1. PICK t \in Seq(What) : t = s \o <<w>>
  <2>1. <<w>> \in Seq(What)
    OBVIOUS
  <2> QED BY <2>1, ConcatProperties
<1>2. /\ Len(t) = Len(s) + 1 /\ Len(s) \in Nat /\ t[Len(s) + 1] = w
      /\ \A i \in 1 .. Len(s) : t[i] = s[i]
  <2>1. <<w>> \in Seq(What) /\ Len(<<w>>) = 1 /\ <<w>>[1] = w
    OBVIOUS
  <2>2. /\ Len(s \o <<w>>) = Len(s) + 1 /\ Len(s) \in Nat /\ (s \o <<w>>)[Len(s) + 1] = w
        /\ \A i \in 1 .. Len(s) : (s \o <<w>>)[i] = s[i]
    BY <2>1, ConcatProperties
  <2> QED BY <1>1, <2>2
<1>3. t # <<>>
  BY <1>2
<1>4. ASSUME NEW v \in What, t = <<v>> PROVE s = <<>> /\ w = v
  <2>1. Len(t) = 1 /\ t[1] = v
    BY <1>4
  <2>2. Len(s) = 0
    BY <1>2, <2>1
  <2> QED BY <1>2, <2>1, <2>2, EmptySeq
<1>5. ASSUME NEW u \in What, NEW v \in What, t = <<u, v>> PROVE s = <<u>> /\ w = v
  <2>1. Len(t) = 2 /\ t[1] = u /\ t[2] = v
    BY <1>5
  <2>2. Len(s) = 1 /\ s[1] = u
    <3>1. Len(s) = 1
      <4>1. PICK n \in Nat : n = Len(s)
        BY <1>2
      <4>2. n + 1 = 2
        BY <1>2, <2>1, <4>1
      <4>3. n = 1
        BY <4>2
      <4> QED BY <4>1, <4>3
    <3>2. t[1] = s[1]
      BY <1>2, <3>1
    <3> QED BY <2>1, <3>1, <3>2
  <2>3. <<u>> \in Seq(What) /\ Len(<<u>>) = 1 /\ <<u>>[1] = u
    OBVIOUS
  <2>4. \A i \in 1 .. Len(s) : s[i] = <<u>>[i]
    BY <2>2, <2>3
  <2>5. s = <<u>>
    BY <2>2, <2>3, <2>4, SeqEqual
  <2> QED BY <1>2, <2>1, <2>2, <2>5
<1> QED BY <1>1, <1>3, <1>4, <1>5

LEMMA Regroup ==
  \A a, b, c \in Seq(What) : (a \o b) \o c = a \o (b \o c)
BY ConcatAssociative

LEMMA LongerAnswers ==
  ASSUME NEW w \in What
  PROVE  <<>> \o <<w>> = <<w>> /\ <<"error">> \o <<w>> = <<"error", w>>
<1>1. <<w>> \in Seq(What) /\ <<"error">> \in Seq(What)
  BY DEF What
<1>2. <<>> \o <<w>> = <<w>>
  BY <1>1, ConcatEmptySeq
<1>3. <<"error">> \o <<w>> = <<"error", w>>
  <2>1. PICK t \in Seq(What) : t = <<"error">> \o <<w>>
    BY <1>1, ConcatProperties
  <2>2. Len(t) = 2 /\ t[1] = "error" /\ t[2] = w
    <3>1. /\ Len(<<"error">> \o <<w>>) = 2
          /\ (<<"error">> \o <<w>>)[1] = "error" /\ (<<"error">> \o <<w>>)[2] = w
      BY <1>1, ConcatProperties
    <3> QED BY <2>1, <3>1
  <2>3. t = <<"error", w>>
    <3>1. <<"error", w>> \in Seq(What) /\ Len(<<"error", w>>) = 2
      BY DEF What
    <3>2. \A i \in 1 .. Len(t) : t[i] = <<"error", w>>[i]
      BY <2>2
    <3> QED BY <2>2, <3>1, <3>2, SeqEqual
  <2> QED BY <2>1, <2>3
<1> QED BY <1>2, <1>3

(* A set of answers that has what comes before each of them. *)
Closed(A) == \A s \in Seq(What), w \in What : s \o <<w>> \in A => s \in A

LEMMA ValuesAreWhat ==
  ASSUME NEW k
  PROVE  Values(k) \subseteq What
BY DEF Values, What

LEMMA AnswersClosed ==
  ASSUME NEW k
  PROVE  Closed({<<>>}) /\ Closed({<<>>, <<"error">>}) /\ Closed(First(k)) /\ Closed(Final(k))
<1>1. "error" \in What
  BY DEF What
<1>2. Closed({<<>>}) /\ Closed({<<>>, <<"error">>})
  BY <1>1, ShorterAnswers DEF Closed
<1>3. Closed(First(k))
  BY <1>2 DEF First
<1>4. Closed(Final(k))
  <2> SUFFICES ASSUME NEW s \in Seq(What), NEW w \in What, s \o <<w>> \in Final(k)
               PROVE  s \in Final(k)
    BY DEF Closed
  <2>1. <<>> \in First(k) /\ (k.id /\ ~k.decodes => <<"error">> \in First(k))
    BY DEF First
  <2>2. CASE s \o <<w>> \in First(k)
    BY <1>3, <2>2 DEF Closed, Final
  <2>3. ASSUME NEW v \in What, s \o <<w>> = <<v>> PROVE s \in Final(k)
    BY <2>1, <2>3, ShorterAnswers DEF Final
  <2>4. ASSUME NEW v \in What, k.id /\ ~k.decodes, s \o <<w>> = <<"error", v>> PROVE s \in Final(k)
    BY <1>1, <2>1, <2>4, ShorterAnswers DEF Final
  <2>5. \/ s \o <<w>> \in First(k)
        \/ \E v \in What : s \o <<w>> = <<v>>
        \/ k.id /\ ~k.decodes /\ \E v \in What : s \o <<w>> = <<"error", v>>
    BY ValuesAreWhat DEF Final
  <2> QED BY <2>2, <2>3, <2>4, <2>5
<1> QED BY <1>2, <1>3, <1>4

LEMMA LastAnswer ==
  ASSUME NEW k, k.id, NEW s \in First(k), NEW w \in Values(k)
  PROVE  s \o <<w>> \in Final(k)
<1>1. w \in What
  BY ValuesAreWhat
<1>2. CASE s = <<>>
  BY <1>1, <1>2, LongerAnswers DEF Final
<1>3. CASE s = <<"error">> /\ ~k.decodes
  BY <1>1, <1>3, LongerAnswers DEF Final
<1>4. s = <<>> \/ (s = <<"error">> /\ ~k.decodes)
  BY DEF First
<1> QED BY <1>2, <1>3, <1>4

LEMMA PartTyped ==
  ASSUME NEW s \in Slot, NEW q
  PROVE  Part(s, q) \in Seq(What) /\ (Part(s, q) = <<>> \/ \E w \in What : Part(s, q) = <<w>>)
<1>1. CASE s = <<>>
  BY <1>1 DEF Part
<1>2. ASSUME NEW r \in Response, s = <<r>>
      PROVE  Part(s, q) \in Seq(What) /\ (Part(s, q) = <<>> \/ \E w \in What : Part(s, q) = <<w>>)
  <2>1. s[1] = r /\ r.what \in What
    BY <1>2 DEF Response
  <2> QED BY <2>1 DEF Part
<1> QED BY <1>1, <1>2 DEF Slot

-----------------------------------------------------------------------------
(* What the steps do to the answers that have been given. *)

Shrinks(q) == Given(q)' = Given(q) \/ \E w \in What : Given(q) = Given(q)' \o <<w>>

LEMMA GivenTyped ==
  ASSUME Types, NEW q \in Request
  PROVE  /\ Given(q) \in Seq(What) /\ got[q] \in Seq(What)
         /\ Part(out, q) \in Seq(What) /\ Part(writer, q) \in Seq(What)
<1>1. got[q] \in Seq(What) /\ Part(out, q) \in Seq(What) /\ Part(writer, q) \in Seq(What)
  BY PartTyped DEF Types
<1> QED BY <1>1, ConcatProperties DEF Given

LEMMA EncodeGiven ==
  ASSUME Types, NEW q \in Request, Encode
  PROVE  Shrinks(q)
<1>1. /\ got[q] \in Seq(What) /\ Part(out, q) \in Seq(What) /\ Part(writer, q) \in Seq(What)
      /\ <<>> \in Seq(What)
  BY GivenTyped
<1>2. Part(<<>>, q) = <<>>
  BY DEF Part
<1>3. CASE open
  <2>1. out = <<>> /\ out' = writer /\ writer' = <<>> /\ got' = got
    BY <1>3 DEF Encode
  <2>2. Given(q)' = got[q] \o (Part(writer, q) \o <<>>) /\ Given(q) = got[q] \o (<<>> \o Part(writer, q))
    BY <1>2, <2>1 DEF Given
  <2> QED BY <1>1, <2>2, ConcatEmptySeq DEF Shrinks
<1>4. CASE ~open
  <2>1. out' = out /\ writer' = <<>> /\ got' = got
    BY <1>4 DEF Encode
  <2>2. Given(q)' = got[q] \o (Part(out, q) \o <<>>)
    BY <1>2, <2>1 DEF Given
  <2>3. Given(q)' = got[q] \o Part(out, q)
    BY <1>1, <2>2, ConcatEmptySeq
  <2>4. Given(q) = Given(q)' \o Part(writer, q)
    <3>0. PICK a, b, c \in Seq(What) : a = got[q] /\ b = Part(out, q) /\ c = Part(writer, q)
      BY <1>1
    <3>1. (got[q] \o Part(out, q)) \o Part(writer, q) = got[q] \o (Part(out, q) \o Part(writer, q))
      <4>1. (a \o b) \o c = a \o (b \o c)
        BY Regroup
      <4> QED BY <3>0, <4>1
    <3> QED BY <2>3, <3>1 DEF Given
  <2>5. CASE Part(writer, q) = <<>>
    BY <1>1, <2>2, <2>5 DEF Given, Shrinks
  <2>6. CASE \E w \in What : Part(writer, q) = <<w>>
    BY <2>4, <2>6 DEF Shrinks
  <2> QED BY <2>5, <2>6, PartTyped DEF Types
<1> QED BY <1>3, <1>4

LEMMA ReceiveGiven ==
  ASSUME Types, NEW q \in Request, Receive
  PROVE  Given(q)' = Given(q)
<1>1. /\ got[q] \in Seq(What) /\ Part(out, q) \in Seq(What) /\ Part(writer, q) \in Seq(What)
  BY GivenTyped
<1>2. out # <<>> /\ out' = <<>> /\ writer' = writer
  BY DEF Receive
<1>3. got' = [got EXCEPT ![out[1].id] = Append(got[out[1].id], out[1].what)] /\ DOMAIN got = Request
  BY DEF Receive, Types
<1>4. Given(q)' = got'[q] \o (<<>> \o Part(writer, q))
  BY <1>2 DEF Given, Part
<1>5. Given(q)' = got'[q] \o Part(writer, q)
  BY <1>1, <1>4, ConcatEmptySeq
<1>6. CASE out[1].id = q
  <2>1. Part(out, q) = <<out[1].what>> /\ out[1].what \in What
    <3>1. PICK r \in Response : out = <<r>>
      BY <1>2 DEF Types, Slot
    <3> QED BY <1>6, <3>1 DEF Part, Response
  <2>2. got'[q] = got[q] \o Part(out, q)
    <3>1. got'[q] = Append(got[q], out[1].what)
      BY <1>3, <1>6
    <3> QED BY <1>1, <2>1, <3>1, AppendIsConcat
  <2>3. (got[q] \o Part(out, q)) \o Part(writer, q) = got[q] \o (Part(out, q) \o Part(writer, q))
    <3>0. PICK a, b, c \in Seq(What) : a = got[q] /\ b = Part(out, q) /\ c = Part(writer, q)
      BY <1>1
    <3>1. (a \o b) \o c = a \o (b \o c)
      BY Regroup
    <3> QED BY <3>0, <3>1
  <2> QED BY <1>5, <2>2, <2>3 DEF Given
<1>7. CASE out[1].id # q
  <2>1. Part(out, q) = <<>> /\ got'[q] = got[q]
    BY <1>3, <1>7 DEF Part
  <2> QED BY <1>1, <1>5, <2>1, ConcatEmptySeq DEF Given
<1> QED BY <1>6, <1>7

LEMMA TakeGiven ==
  ASSUME Types, NEW p \in Request, NEW w \in What, writer = <<>>,
         writer' = <<[id |-> p, what |-> w]>>, UNCHANGED <<out, got>>
  PROVE  Given(p)' = Given(p) \o <<w>> /\ \A q \in Request \ {p} : Given(q)' = Given(q)
<1>1. \A q : Part(writer, q) = <<>> /\ Part(writer, q)' = IF q = p THEN <<w>> ELSE <<>>
  BY DEF Part
<1>2. ASSUME NEW q \in Request
      PROVE  /\ got[q] \in Seq(What) /\ Part(out, q) \in Seq(What) /\ <<>> \in Seq(What) /\ <<w>> \in Seq(What)
             /\ Given(q) = got[q] \o Part(out, q)
             /\ Given(q)' = got[q] \o (Part(out, q) \o IF q = p THEN <<w>> ELSE <<>>)
  <2>1. got[q] \in Seq(What) /\ Part(out, q) \in Seq(What) /\ <<>> \in Seq(What) /\ <<w>> \in Seq(What)
    BY GivenTyped
  <2>2. Part(out, q)' = Part(out, q)
    BY DEF Part
  <2> QED BY <1>1, <2>1, <2>2, ConcatEmptySeq DEF Given
<1>3. Given(p)' = Given(p) \o <<w>>
  <2>1. (got[p] \o Part(out, p)) \o <<w>> = got[p] \o (Part(out, p) \o <<w>>)
    <3>0. PICK a, b, c \in Seq(What) : a = got[p] /\ b = Part(out, p) /\ c = <<w>>
      BY <1>2
    <3>1. (a \o b) \o c = a \o (b \o c)
      BY Regroup
    <3> QED BY <3>0, <3>1
  <2> QED BY <1>2, <2>1
<1>4. ASSUME NEW q \in Request \ {p} PROVE Given(q)' = Given(q)
  BY <1>2, ConcatEmptySeq
<1> QED BY <1>3, <1>4

(* A step that gives no answer and leaves the places alone keeps RpcInv. *)
LEMMA PlacesKept ==
  ASSUME RpcInv, Types', UNCHANGED <<kind, read, reader, work>>, \A q \in Request : Shrinks(q)
  PROVE  RpcInv'
<1>1. ASSUME NEW q \in Request, NEW A, Closed(A), Given(q) \in A PROVE Given(q)' \in A
  <2>1. Given(q)' \in Seq(What)
    <3>1. /\ got'[q] \in Seq(What) /\ out' \in Slot /\ writer' \in Slot
      BY DEF Types
    <3>2. Part(out', q) \in Seq(What) /\ Part(writer', q) \in Seq(What)
      BY <3>1, PartTyped
    <3>3. got'[q] \o (Part(out', q) \o Part(writer', q)) \in Seq(What)
      BY <3>1, <3>2, ConcatProperties
    <3> QED BY <3>3 DEF Given, Part
  <2> QED BY <1>1, <2>1 DEF Closed, Shrinks
<1>2. ASSUME NEW q \in Request PROVE Off(q)' /\ Working(q)'
  <2>1. Given(q) = <<>> => Given(q)' = <<>>
    BY <1>1, AnswersClosed
  <2>2. Given(q) \in {<<>>, <<"error">>} => Given(q)' \in {<<>>, <<"error">>}
    BY <1>1, AnswersClosed
  <2>3. \A k : Given(q) \in First(k) => Given(q)' \in First(k)
    BY <1>1, AnswersClosed
  <2>4. \A k : Given(q) \in Final(k) => Given(q)' \in Final(k)
    BY <1>1, AnswersClosed
  <2>5. Off(q)'
    BY <2>1, <2>2 DEF RpcInv, Off
  <2>6. Working(q)'
    BY <2>1, <2>3, <2>4 DEF RpcInv, Working
  <2> QED BY <2>5, <2>6
<1>3. ReaderInv'
  <2> SUFFICES ASSUME reader' = "send" PROVE ReaderInv'
    BY DEF ReaderInv
  <2>1. read \in Request /\ read >= 1 /\ kind[read].id /\ Given(read) = <<>> /\ work[read].pc = "off"
    <3>1. reader = "send"
      OBVIOUS
    <3>2. read \in Nat /\ read <= MaxRequests
      BY JsonRpcAssumption DEF RpcInv, Types
    <3> QED BY <3>1, <3>2 DEF RpcInv, ReaderInv, Request
  <2>2. PICK q \in Request : q = read
    BY <2>1
  <2>3. Given(q)' = <<>>
    BY <1>1, <2>1, <2>2, AnswersClosed
  <2> QED BY <2>1, <2>2, <2>3 DEF ReaderInv
<1> QED BY <1>2, <1>3 DEF RpcInv
(* A step that gives no answer leaves what has been given as it is. *)
LEMMA GivenKept ==
  ASSUME UNCHANGED <<writer, out, got>>
  PROVE  \A q : Given(q)' = Given(q) /\ Shrinks(q)
BY DEF Given, Part, Shrinks

LEMMA KindTyped ==
  ASSUME Types, NEW q \in 1 .. Len(kind)
  PROVE  kind[q] \in Kinds /\ kind[q].id \in BOOLEAN /\ kind[q].decodes \in BOOLEAN /\ q \in Request
<1>1. kind[q] \in Kinds
  BY DEF Types
<1>2. q \in Request
  BY JsonRpcAssumption DEF Types, Request
<1> QED BY <1>1, <1>2 DEF Kinds

-----------------------------------------------------------------------------
LEMMA InitRpcInv == Init => RpcInv
<1> SUFFICES ASSUME Init PROVE RpcInv
  OBVIOUS
<1>1. kind = <<>> /\ <<>> \in Seq(Kinds) /\ Len(<<>>) = 0 /\ <<>> \in Seq(What)
  BY DEF Init
<1>2. Types
  BY <1>1, JsonRpcAssumption DEF Init, Types, At, Places, Slot
<1>3. ASSUME NEW q \in Request PROVE Off(q) /\ Working(q)
  <2>1. Given(q) = <<>>
    <3>1. Given(q) = <<>> \o (<<>> \o <<>>)
      BY DEF Init, Given, Part
    <3> QED BY <1>1, <3>1, ConcatEmptySeq
  <2>2. work[q].pc = "off"
    BY DEF Init, At
  <2>3. q > read
    BY DEF Init, Request
  <2> QED BY <2>1, <2>2, <2>3 DEF Off, Working
<1> QED BY <1>2, <1>3 DEF RpcInv, ReaderInv, Init

(* The reader. *)

LEMMA DecodeRpcInv ==
  ASSUME RpcInv, Decode
  PROVE  RpcInv'
<1>1. /\ reader = "read" /\ read < Len(kind) /\ read' = read + 1
      /\ Dispatch(read + 1) /\ UNCHANGED <<kind, open, writer, out, got>>
  BY DEF Decode, Free
<1>2. PICK n \in Request : n = read + 1 /\ n \in 1 .. Len(kind) /\ n > read
  <2>1. read + 1 \in 1 .. Len(kind) /\ read + 1 > read
    BY <1>1 DEF RpcInv, Types
  <2> QED BY <2>1, KindTyped DEF RpcInv
<1>3. /\ kind[n].method = "unknown" => reader' = (IF kind[n].id THEN "send" ELSE "read") /\ work' = work
      /\ kind[n].method # "unknown" => work' = [work EXCEPT ![n] = At("start")] /\ reader' = reader
  BY <1>1, <1>2 DEF Dispatch
<1>4. Types'
  <2>1. read' \in 0 .. Len(kind')
    BY <1>1 DEF RpcInv, Types
  <2>2. work' \in [Request -> [pc : Places, what : What \cup {"none"}, then : {"none", "call", "done"}]]
    <3>1. At("start") \in [pc : Places, what : What \cup {"none"}, then : {"none", "call", "done"}]
      BY DEF At, Places
    <3> QED BY <1>3, <3>1 DEF RpcInv, Types
  <2>3. reader' \in {"read", "send", "gone"}
    BY <1>3 DEF RpcInv, Types
  <2> QED BY <1>1, <2>1, <2>2, <2>3 DEF RpcInv, Types
<1>5. work[n].pc = "off" /\ Given(n) = <<>>
  BY <1>2 DEF RpcInv, Off, Working, Types
<1>6. \A q : Given(q)' = Given(q)
  BY <1>1, GivenKept
<1>7. ReaderInv'
  <2> SUFFICES ASSUME reader' = "send"
               PROVE  read' >= 1 /\ kind[read'].id /\ Given(n) = <<>> /\ work'[n].pc = "off" /\ read' = n
    BY <1>1, <1>6 DEF ReaderInv
  <2>1. kind[n].method = "unknown" /\ kind[n].id /\ work' = work
    BY <1>1, <1>3, <1>2, KindTyped DEF RpcInv
  <2> QED BY <1>1, <1>2, <1>5, <2>1
<1>8. ASSUME NEW q \in Request PROVE Off(q)' /\ Working(q)'
  <2>1. CASE q = n /\ kind[n].method = "unknown"
    <3>1. work' = work /\ read' = n
      BY <1>1, <1>2, <1>3, <2>1
    <3> QED BY <1>1, <1>5, <1>6, <2>1, <3>1 DEF Off, Working
  <2>2. CASE q = n /\ kind[n].method # "unknown"
    <3>1. work'[n].pc = "start" /\ read' = n
      BY <1>1, <1>2, <1>3, <2>2 DEF RpcInv, Types, At
    <3> QED BY <1>1, <1>5, <1>6, <2>2, <3>1 DEF Off, Working
  <2>3. CASE q # n
    <3>1. work'[q] = work[q] /\ (q > read' <=> q > read) /\ (q <= read' <=> q <= read)
      <4>1. work'[q] = work[q]
        BY <1>3, <2>3 DEF RpcInv, Types
      <4>2. q \in Int /\ read \in Int
        BY DEF Request, RpcInv, Types
      <4> QED BY <1>1, <1>2, <2>3, <4>1, <4>2
    <3> QED BY <1>1, <1>6, <3>1 DEF RpcInv, Off, Working
  <2> QED BY <2>1, <2>2, <2>3
<1> QED BY <1>4, <1>7, <1>8 DEF RpcInv

LEMMA SendRpcInv ==
  ASSUME RpcInv, NEW k \in Kinds, Send(k)
  PROVE  RpcInv'
<1>1. /\ Len(kind) < MaxRequests /\ kind' = Append(kind, k)
      /\ UNCHANGED <<read, open, reader, work, writer, out, got>>
  BY DEF Send
<1>2. /\ kind' \in Seq(Kinds) /\ Len(kind') = Len(kind) + 1 /\ Len(kind) \in Nat
      /\ \A i \in 1 .. Len(kind) : kind'[i] = kind[i]
  BY <1>1, AppendProperties DEF RpcInv, Types
<1>3. Types'
  <2>1. Len(kind') <= MaxRequests /\ read' \in 0 .. Len(kind')
    BY <1>1, <1>2, JsonRpcAssumption DEF RpcInv, Types
  <2> QED BY <1>1, <1>2, <2>1 DEF RpcInv, Types
<1>4. \A q : Given(q)' = Given(q)
  BY <1>1, GivenKept
<1>5. \A q \in Request : q <= read => kind'[q] = kind[q]
  BY <1>2 DEF RpcInv, Types, Request
<1>6. read \in Nat /\ read <= Len(kind)
  BY DEF RpcInv, Types
<1>7. ReaderInv'
  <2>1. read >= 1 => kind'[read] = kind[read]
    BY <1>2, <1>6
  <2> QED BY <1>1, <1>4, <2>1 DEF RpcInv, ReaderInv
<1>8. ASSUME NEW q \in Request PROVE Off(q)' /\ Working(q)'
  <2>1. q > read \/ q <= read
    BY <1>6 DEF Request
  <2>2. CASE q > read
    <3>1. work[q].pc = "off"
      BY <1>6, <2>2 DEF RpcInv, Working, Request
    <3> QED BY <1>1, <1>4, <2>2, <3>1 DEF RpcInv, Off, Working
  <2>3. CASE q <= read
    <3>1. kind'[q] = kind[q]
      BY <1>5, <2>3
    <3> QED BY <1>1, <1>4, <3>1 DEF RpcInv, Off, Working
  <2> QED BY <2>1, <2>2, <2>3
<1> QED BY <1>3, <1>7, <1>8 DEF RpcInv

LEMMA CloseRpcInv ==
  ASSUME RpcInv, InputEnds \/ ClientCloses
  PROVE  RpcInv'
<1>1. /\ UNCHANGED <<kind, read, work, writer, out, got>>
      /\ open' = FALSE /\ (reader' = reader \/ reader' = "gone")
  BY DEF InputEnds, ClientCloses
<1>2. \A q : Given(q)' = Given(q)
  BY <1>1, GivenKept
<1>3. Types' /\ ReaderInv'
  BY <1>1, <1>2 DEF RpcInv, Types, ReaderInv
<1>4. ASSUME NEW q \in Request PROVE Off(q)' /\ Working(q)'
  BY <1>1, <1>2 DEF RpcInv, Off, Working
<1> QED BY <1>3, <1>4 DEF RpcInv

-----------------------------------------------------------------------------
(* The goroutine of a request. *)

WorkState == [pc : Places, what : What \cup {"none"}, then : {"none", "call", "done"}]

LEMMA WorkRpcInv ==
  ASSUME RpcInv, NEW q \in Request, NEW w \in WorkState, work[q].pc # "off", w.pc # "off",
         work' = [work EXCEPT ![q] = w], UNCHANGED <<kind, read, open, reader, writer, out, got>>,
         w.pc # "start",
         w.pc = "call" => Given(q) \in First(kind[q]),
         w.pc = "send" =>
           /\ kind[q].id
           /\ w.what \in Values(kind[q])
           /\ w.then = "done" => Given(q) \in First(kind[q])
           /\ w.then = "call" => Given(q) = <<>> /\ ~kind[q].decodes /\ w.what = "error"
           /\ w.then # "none",
         w.pc = "done" => Given(q) \in Final(kind[q])
  PROVE  RpcInv'
<1>1. \A p : Given(p)' = Given(p)
  BY GivenKept
<1>2. work'[q] = w /\ \A p \in Request \ {q} : work'[p] = work[p]
  BY DEF RpcInv, Types
<1>3. Types'
  BY DEF RpcInv, Types, WorkState
<1>4. ReaderInv'
  <2>1. reader = "send" => read \in Request
    BY JsonRpcAssumption DEF RpcInv, ReaderInv, Types, Request
  <2> QED BY <1>1, <1>2, <2>1 DEF RpcInv, ReaderInv
<1>5. ASSUME NEW p \in Request PROVE Off(p)' /\ Working(p)'
  <2>1. CASE p = q
    <3>1. q <= read
      BY DEF RpcInv, Working
    <3>2. Off(q)'
      BY <1>2 DEF Off
    <3>3. Working(q)'
      BY <1>1, <1>2, <3>1 DEF Working
    <3> QED BY <2>1, <3>2, <3>3
  <2>2. CASE p # q
    BY <1>1, <1>2, <2>2 DEF RpcInv, Off, Working
  <2> QED BY <2>1, <2>2
<1> QED BY <1>3, <1>4, <1>5 DEF RpcInv

LEMMA StartRpcInv ==
  ASSUME RpcInv, NEW q \in Request, Start(q)
  PROVE  RpcInv'
<1>1. work[q].pc = "start" /\ UNCHANGED <<kind, read, open, reader, writer, out, got>>
  BY DEF Start
<1>2. Given(q) = <<>> /\ q \in 1 .. Len(kind)
  BY <1>1 DEF RpcInv, Working, Types, Request
<1>3. <<>> \in First(kind[q]) /\ <<>> \in Final(kind[q]) /\ "error" \in Values(kind[q]) /\ "error" \in What
  BY DEF First, Final, Values, What
<1>4. At("call") \in WorkState /\ At("done") \in WorkState
  BY DEF At, WorkState, Places
<1>5. ASSUME NEW then \in {"call", "done"}
      PROVE  [pc |-> "send", what |-> "error", then |-> then] \in WorkState
  BY <1>3 DEF WorkState, Places
<1>6. ASSUME NEW then \in {"call", "done"}, Answer(q, "error", then), then = "call" => ~kind[q].decodes
      PROVE  RpcInv'
  <2>1. CASE kind[q].id
    <3>1. work' = [work EXCEPT ![q] = [pc |-> "send", what |-> "error", then |-> then]]
      BY <1>6, <2>1 DEF Answer
    <3> QED BY <1>1, <1>2, <1>3, <1>5, <1>6, <2>1, <3>1, WorkRpcInv
  <2>2. CASE ~kind[q].id
    <3>1. work' = [work EXCEPT ![q] = At(then)]
      BY <1>6, <2>2 DEF Answer
    <3> QED BY <1>1, <1>2, <1>3, <1>4, <1>6, <3>1, WorkRpcInv DEF At
  <2> QED BY <2>1, <2>2
<1>7. CASE work' = [work EXCEPT ![q] = At("call")]
  BY <1>1, <1>2, <1>3, <1>4, <1>7, WorkRpcInv DEF At
<1>8. \/ Answer(q, "error", "done")
      \/ ~kind[q].decodes /\ Answer(q, "error", "call")
      \/ work' = [work EXCEPT ![q] = At("call")]
  BY DEF Start
<1> QED BY <1>6, <1>7, <1>8

LEMMA CallRpcInv ==
  ASSUME RpcInv, NEW q \in Request, Call(q)
  PROVE  RpcInv'
<1> DEFINE what == IF kind[q].does = "value" THEN "result" ELSE "error"
<1>1. /\ work[q].pc = "call" /\ Answer(q, what, "done")
      /\ UNCHANGED <<kind, read, open, reader, writer, out, got>>
  BY DEF Call
<1>2. Given(q) \in First(kind[q]) /\ Given(q) \in Final(kind[q])
  BY <1>1 DEF RpcInv, Working, Final
<1>3. PICK w \in What : w = what /\ w \in Values(kind[q])
  BY DEF Values, What
<1> HIDE DEF what
<1>4. At("done") \in WorkState /\ [pc |-> "send", what |-> w, then |-> "done"] \in WorkState
  BY DEF At, WorkState, Places
<1>5. CASE kind[q].id
  <2>1. work' = [work EXCEPT ![q] = [pc |-> "send", what |-> w, then |-> "done"]]
    BY <1>1, <1>3, <1>5 DEF Answer
  <2> QED BY <1>1, <1>2, <1>3, <1>4, <1>5, <2>1, WorkRpcInv
<1>6. CASE ~kind[q].id
  <2>1. work' = [work EXCEPT ![q] = At("done")]
    BY <1>1, <1>6 DEF Answer
  <2> QED BY <1>1, <1>2, <1>4, <2>1, WorkRpcInv DEF At
<1> QED BY <1>5, <1>6

-----------------------------------------------------------------------------
(* The writer, and the client. *)

LEMMA TakeRpcInv ==
  ASSUME RpcInv, NEW q \in Request, Take(q)
  PROVE  RpcInv'
<1>1. /\ writer = <<>> /\ work[q].pc = "send"
      /\ work' = [work EXCEPT ![q] = At(work[q].then)]
      /\ writer' = <<[id |-> q, what |-> work[q].what]>>
      /\ UNCHANGED <<kind, read, open, reader, out, got>>
  BY DEF Take
<1>2. /\ kind[q].id /\ work[q].what \in Values(kind[q])
      /\ work[q].then = "done" => Given(q) \in First(kind[q])
      /\ work[q].then = "call" => Given(q) = <<>> /\ ~kind[q].decodes /\ work[q].what = "error"
      /\ work[q].then \in {"call", "done"} /\ q <= read
  BY <1>1 DEF RpcInv, Working, Types
<1>3. PICK v \in What : v = work[q].what
  BY <1>2, ValuesAreWhat
<1>4. Given(q)' = Given(q) \o <<v>> /\ \A p \in Request \ {q} : Given(p)' = Given(p)
  BY <1>1, <1>3, TakeGiven DEF RpcInv
<1>5. work'[q] = At(work[q].then) /\ \A p \in Request \ {q} : work'[p] = work[p]
  BY <1>1 DEF RpcInv, Types
<1>6. Types'
  <2>1. writer' \in Slot
    BY <1>1, <1>3 DEF Slot, Response
  <2>2. At(work[q].then) \in [pc : Places, what : What \cup {"none"}, then : {"none", "call", "done"}]
    BY <1>2 DEF At, Places
  <2> QED BY <1>1, <2>1, <2>2 DEF RpcInv, Types
<1>7. ReaderInv'
  <2>1. reader = "send" => read \in Request /\ read # q
    BY <1>1, JsonRpcAssumption DEF RpcInv, ReaderInv, Types, Request
  <2> QED BY <1>1, <1>4, <1>5, <2>1 DEF RpcInv, ReaderInv
<1>8. ASSUME NEW p \in Request PROVE Off(p)' /\ Working(p)'
  <2>1. CASE p = q /\ work[q].then = "done"
    <3>1. Given(q)' \in Final(kind[q])
      BY <1>2, <1>3, <1>4, <2>1, LastAnswer
    <3>2. work'[q].pc = "done"
      BY <1>5, <2>1 DEF At
    <3> QED BY <1>1, <1>2, <2>1, <3>1, <3>2 DEF Off, Working
  <2>2. CASE p = q /\ work[q].then = "call"
    <3>1. Given(q)' = <<"error">>
      BY <1>2, <1>3, <1>4, <2>2, LongerAnswers
    <3>2. Given(q)' \in First(kind[q])
      BY <1>2, <2>2, <3>1 DEF First
    <3>3. work'[q].pc = "call"
      BY <1>5, <2>2 DEF At
    <3> QED BY <1>1, <1>2, <2>2, <3>2, <3>3 DEF Off, Working
  <2>3. CASE p # q
    BY <1>1, <1>4, <1>5, <2>3 DEF RpcInv, Off, Working
  <2> QED BY <1>2, <2>1, <2>2, <2>3
<1> QED BY <1>6, <1>7, <1>8 DEF RpcInv

LEMMA TakeFromReaderRpcInv ==
  ASSUME RpcInv, TakeFromReader
  PROVE  RpcInv'
<1>1. /\ writer = <<>> /\ reader = "send" /\ reader' = "read"
      /\ writer' = <<[id |-> read, what |-> "error"]>>
      /\ UNCHANGED <<kind, read, open, work, out, got>>
  BY DEF TakeFromReader
<1>2. PICK q \in Request : q = read /\ kind[q].id /\ Given(q) = <<>> /\ work[q].pc = "off"
  <2>1. read \in Request
    BY <1>1, JsonRpcAssumption DEF RpcInv, ReaderInv, Types, Request
  <2> QED BY <1>1, <2>1 DEF RpcInv, ReaderInv
<1>3. "error" \in What
  BY DEF What
<1>4. Given(q)' = <<"error">> /\ \A p \in Request \ {q} : Given(p)' = Given(p)
  <2>1. Given(q)' = Given(q) \o <<"error">> /\ \A p \in Request \ {q} : Given(p)' = Given(p)
    BY <1>1, <1>2, <1>3, TakeGiven DEF RpcInv
  <2> QED BY <1>2, <1>3, <2>1, LongerAnswers
<1>5. Types'
  <2>1. writer' \in Slot
    BY <1>1, <1>2, <1>3 DEF Slot, Response
  <2> QED BY <1>1, <2>1 DEF RpcInv, Types
<1>6. ASSUME NEW p \in Request PROVE Off(p)' /\ Working(p)'
  <2>1. CASE p = q
    BY <1>1, <1>2, <1>4, <2>1 DEF Off, Working, Request
  <2>2. CASE p # q
    BY <1>1, <1>4, <2>2 DEF RpcInv, Off, Working
  <2> QED BY <2>1, <2>2
<1> QED BY <1>1, <1>5, <1>6 DEF RpcInv, ReaderInv

LEMMA WriteRpcInv ==
  ASSUME RpcInv, Encode \/ Receive
  PROVE  RpcInv'
<1>1. UNCHANGED <<kind, read, reader, work>>
  BY DEF Encode, Receive
<1>2. \A q \in Request : Shrinks(q)
  BY EncodeGiven, ReceiveGiven DEF RpcInv, Shrinks
<1>3. Types'
  <2>1. CASE Encode
    BY <2>1 DEF Encode, RpcInv, Types, Slot
  <2>2. CASE Receive
    <3>1. PICK r \in Response : out = <<r>>
      BY <2>2 DEF Receive, RpcInv, Types, Slot
    <3>2. got' = [got EXCEPT ![r.id] = Append(got[r.id], r.what)] /\ out' = <<>>
      BY <2>2, <3>1 DEF Receive
    <3>3. r.id \in Request /\ r.what \in What
      BY DEF Response
    <3>4. Append(got[r.id], r.what) \in Seq(What)
      BY <3>3, AppendProperties DEF RpcInv, Types
    <3>5. got' \in [Request -> Seq(What)] /\ out' \in Slot
      BY <3>2, <3>3, <3>4 DEF RpcInv, Types, Slot
    <3> QED BY <2>2, <3>5 DEF Receive, RpcInv, Types
  <2> QED BY <2>1, <2>2
<1> QED BY <1>1, <1>2, <1>3, PlacesKept

-----------------------------------------------------------------------------
LEMMA NextRpcInv == RpcInv /\ [Next]_vars => RpcInv'
<1> SUFFICES ASSUME RpcInv, [Next]_vars PROVE RpcInv'
  OBVIOUS
<1>1. CASE UNCHANGED vars
  <2>1. UNCHANGED <<kind, read, open, reader, work, writer, out, got>>
    BY <1>1 DEF vars
  <2>2. Types'
    BY <2>1 DEF RpcInv, Types
  <2> QED BY <2>1, <2>2, GivenKept, PlacesKept
<1>2. ASSUME NEW q \in Request, Goroutine(q) \/ Take(q) PROVE RpcInv'
  BY <1>2, StartRpcInv, CallRpcInv, TakeRpcInv DEF Goroutine
<1>3. ASSUME NEW k \in Kinds, Send(k) PROVE RpcInv'
  BY <1>3, SendRpcInv
<1> QED BY <1>1, <1>2, <1>3, DecodeRpcInv, CloseRpcInv, TakeFromReaderRpcInv, WriteRpcInv DEF Next

(* What has been received is a part of what has been given. *)
LEMMA GivenDecides ==
  ASSUME RpcInv, NEW q \in Request, got[q] # <<>>
  PROVE  /\ kind[q].id
         /\ got[q] \in Final(kind[q])
<1>1. /\ got[q] \in Seq(What) /\ Part(out, q) \in Seq(What) /\ Part(writer, q) \in Seq(What)
      /\ Given(q) = (got[q] \o Part(out, q)) \o Part(writer, q)
  <2>1. got[q] \in Seq(What) /\ Part(out, q) \in Seq(What) /\ Part(writer, q) \in Seq(What)
    BY GivenTyped DEF RpcInv
  <2>2. PICK a, b, c \in Seq(What) : a = got[q] /\ b = Part(out, q) /\ c = Part(writer, q)
    BY <2>1
  <2>3. (a \o b) \o c = a \o (b \o c)
    BY Regroup
  <2> QED BY <2>1, <2>2, <2>3 DEF Given
<1>2. ASSUME NEW A, Closed(A), Given(q) \in A PROVE got[q] \in A
  <2>1. PICK s \in Seq(What) : s = got[q] \o Part(out, q)
    BY <1>1, ConcatProperties
  <2>2. s \in A
    <3>1. CASE Part(writer, q) = <<>>
      BY <1>1, <1>2, <2>1, <3>1, ConcatEmptySeq
    <3>2. ASSUME NEW w \in What, Part(writer, q) = <<w>> PROVE s \in A
      BY <1>1, <1>2, <2>1, <3>2 DEF Closed
    <3> QED BY <3>1, <3>2, PartTyped DEF RpcInv, Types
  <2>3. CASE Part(out, q) = <<>>
    BY <1>1, <2>1, <2>2, <2>3, ConcatEmptySeq
  <2>4. ASSUME NEW w \in What, Part(out, q) = <<w>> PROVE got[q] \in A
    BY <1>1, <1>2, <2>1, <2>2, <2>4 DEF Closed
  <2> QED BY <2>3, <2>4, PartTyped DEF RpcInv, Types
<1>3. Given(q) # <<>>
  BY <1>2, AnswersClosed
<1>4. Final(kind[q]) # {} /\ First(kind[q]) \subseteq Final(kind[q])
  BY DEF Final, First
<1>5. CASE work[q].pc = "off"
  <2>1. Given(q) \in {<<>>, <<"error">>} /\ kind[q].id
    BY <1>3, <1>5 DEF RpcInv, Off
  <2>2. <<>> \in Final(kind[q]) /\ <<"error">> \in Final(kind[q])
    BY <2>1 DEF Final, First, Values, What
  <2>3. Given(q) \in Final(kind[q])
    BY <2>1, <2>2
  <2> QED BY <1>2, <2>1, <2>3, AnswersClosed
<1>6. CASE work[q].pc # "off"
  <2>1. Given(q) \in Final(kind[q])
    <3>1. work[q].pc \in {"start", "call", "send", "done"} /\ work[q].then \in {"none", "call", "done"}
      BY <1>6 DEF RpcInv, Types, Places
    <3> QED BY <1>3, <1>4, <3>1 DEF RpcInv, Working
  <2>2. kind[q].id
    BY <1>3, <2>1 DEF Final, First
  <2> QED BY <1>2, <2>1, <2>2, AnswersClosed
<1> QED BY <1>5, <1>6

(***************************************************************************)
(* A notification is never answered, and a request once, but for           *)
(* parameters that do not decode, where an error comes before what the     *)
(* call gives (rpc.go:78-84).                                              *)
(***************************************************************************)
THEOREM OneAnswer == Spec => []AnsweredOnce
<1>1. RpcInv => AnsweredOnce
  <2> SUFFICES ASSUME RpcInv, NEW q \in Request, got[q] # <<>>
               PROVE  /\ kind[q].id
                      /\ Len(got[q]) = 2 => ~kind[q].decodes /\ got[q][1] = "error"
                      /\ Len(got[q]) <= 2
                      /\ Contains(got[q], "result") => kind[q].does = "value"
    BY DEF AnsweredOnce
  <2>1. kind[q].id /\ got[q] \in Final(kind[q])
    BY GivenDecides
  <2>2. CASE \E w \in Values(kind[q]) : got[q] = <<w>>
    BY <2>1, <2>2 DEF Contains, Values
  <2>3. CASE ~kind[q].decodes /\ \E w \in Values(kind[q]) : got[q] = <<"error", w>>
    BY <2>1, <2>3 DEF Contains, Values
  <2>4. "error" \in Values(kind[q])
    BY DEF Values, What
  <2> QED BY <2>1, <2>2, <2>3, <2>4 DEF Final, First
<1>2. Spec => []RpcInv
  BY InitRpcInv, NextRpcInv, PTL DEF Spec
<1> QED BY <1>1, <1>2, PTL
=============================================================================
