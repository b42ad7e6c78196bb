-------------------------- MODULE BlobFilesProofs --------------------------
(***************************************************************************)
(* Proofs about BlobFiles, for any blobs, adders, pages and connections.   *)
(* IInv adds to the invariants of the run that an empty temporary file has *)
(* a writer as long as an Add that may rename it is under way, and that    *)
(* whatever is about to be announced to a peer has a file.                 *)
(***************************************************************************)
EXTENDS BlobFiles, TLAPS

(* Some Add is still to write what it has opened, which is now x. *)
Writes(r, x) == \E a \in Adder : add[a].blob = r /\ add[a].pc = "write" /\ add[a].at = x

TmpInv ==
  \A r \in Blob : (tmp[r] = "empty" /\ Adding(r) # {}) => (r \in spoilt \/ Writes(r, "tmp"))

FileInv == \A r \in Blob : file[r] = "empty" => (r \in spoilt \/ Writes(r, "file"))

AnswerInv == \A c \in Conn : \A i \in 1 .. Len(answers[c]) : Has(answers[c][i])

IInv == TypeOK /\ TmpInv /\ FileInv /\ AnswerInv /\ PromisesKept

-----------------------------------------------------------------------------
(* What holds of the files in every step: none disappears. *)
FilesStay == \A r \in Blob : Has(r) => Has(r)'

LEMMA FileStep ==
  ASSUME TypeOK, Next
  PROVE  FilesStay
<1>1. ASSUME NEW a \in Adder, AddSteps(a) PROVE FilesStay
  <2>1. ASSUME NEW r \in Blob, Open(a, r) PROVE FilesStay
    BY <2>1 DEF Open, FilesStay, Has
  <2>5. ASSUME NEW r \in Blob, OpenFails(a, r) PROVE FilesStay
    BY <2>5 DEF OpenFails, FilesStay, Has
  <2>2. CASE Write(a)
    BY <2>2 DEF Write, FilesStay, Has, TypeOK
  <2>3. CASE Rename(a)
    BY <2>3 DEF Rename, MoveFile, FilesStay, Has, TypeOK
  <2>4. CASE Broadcast(a) \/ WriteFails(a)
    BY <2>4 DEF Broadcast, WriteFails, FilesStay, Has
  <2> QED BY <1>1, <2>1, <2>2, <2>3, <2>4, <2>5 DEF AddSteps, Add
<1>2. CASE PageSteps \/ PeerSteps \/ Crash
  BY <1>2 DEF PageSteps, PeerSteps, Crash, Visit, Look, Enlist, Show, PeerHas, PeerWants, Hook,
     HandleWant, CreateWants, Tell, Disconnect, fileVars, FilesStay, Has
<1> QED BY <1>1, <1>2 DEF Next

-----------------------------------------------------------------------------
(* The steps of an Add, one by one. *)

LEMMA GotoAdd ==
  ASSUME TypeOK, NEW a \in Adder, NEW pc \in {"idle", "write", "rename", "signal"}, Goto(a, pc)
  PROVE  /\ add' \in [Adder -> AddState]
         /\ add'[a] = [pc |-> pc, blob |-> add[a].blob, at |-> add[a].at]
         /\ \A b \in Adder \ {a} : add'[b] = add[b]
BY DEF TypeOK, AddState, Goto

LEMMA OpenStep ==
  ASSUME IInv, NEW a \in Adder, NEW r \in Blob, Open(a, r)
  PROVE  TypeOK' /\ TmpInv' /\ FileInv'
<1> USE DEF IInv, Open, peerVars
<1>1. /\ add' \in [Adder -> AddState]
      /\ add'[a] = [pc |-> "write", blob |-> r, at |-> "tmp"]
      /\ \A b \in Adder \ {a} : add'[b] = add[b]
      /\ add[a].pc = "idle"
  BY DEF TypeOK, AddState
<1>2. TypeOK'
  BY <1>1 DEF TypeOK, AddState, State
<1>3. ASSUME NEW q \in Blob, NEW x, Writes(q, x) PROVE Writes(q, x)'
  BY <1>1, <1>3 DEF Writes
<1>4. TmpInv'
  <2> SUFFICES ASSUME NEW q \in Blob, tmp'[q] = "empty", Adding(q)' # {}
               PROVE  q \in spoilt \/ Writes(q, "tmp")'
    BY DEF TmpInv
  <2>1. CASE q = r
    BY <2>1, <1>1 DEF Writes
  <2>2. CASE q # r
    <3>1. Adding(q) # {} /\ tmp[q] = "empty"
      BY <2>2, <1>1 DEF Adding, TypeOK
    <3> QED BY <3>1, <1>3 DEF TmpInv
  <2> QED BY <2>1, <2>2
<1>5. FileInv'
  BY <1>3 DEF FileInv
<1> QED BY <1>2, <1>4, <1>5

LEMMA OpenFailsStep ==
  ASSUME IInv, NEW a \in Adder, NEW r \in Blob, OpenFails(a, r)
  PROVE  TypeOK' /\ TmpInv' /\ FileInv'
<1> USE DEF IInv, OpenFails, peerVars
<1>1. /\ add' \in [Adder -> AddState]
      /\ add'[a] = [pc |-> "rename", blob |-> r, at |-> "gone"]
      /\ \A b \in Adder \ {a} : add'[b] = add[b]
      /\ add[a].pc = "idle"
  BY DEF TypeOK, AddState
<1>2. TypeOK'
  BY <1>1 DEF TypeOK
<1>3. ASSUME NEW q \in Blob, NEW x, Writes(q, x) PROVE Writes(q, x)'
  BY <1>1, <1>3 DEF Writes
<1>4. TmpInv'
  <2> SUFFICES ASSUME NEW q \in Blob, tmp'[q] = "empty", Adding(q)' # {}
               PROVE  q \in spoilt' \/ Writes(q, "tmp")'
    BY DEF TmpInv
  <2>1. CASE q = r
    BY <2>1
  <2>2. CASE q # r
    <3>1. Adding(q) # {} /\ tmp[q] = "empty"
      BY <2>2, <1>1 DEF Adding, TypeOK
    <3> QED BY <3>1, <1>3 DEF TmpInv
  <2> QED BY <2>1, <2>2
<1>5. FileInv'
  BY <1>3 DEF FileInv
<1> QED BY <1>2, <1>4, <1>5

LEMMA WriteStep ==
  ASSUME IInv, NEW a \in Adder, NEW r \in Blob, r = add[a].blob, Write(a) \/ WriteFails(a)
  PROVE  TypeOK' /\ TmpInv' /\ FileInv'
<1> USE DEF IInv, peerVars
<1>1. /\ add' \in [Adder -> AddState]
      /\ add'[a] = [pc |-> "rename", blob |-> r, at |-> add[a].at]
      /\ \A b \in Adder \ {a} : add'[b] = add[b]
  BY GotoAdd DEF Write, WriteFails
<1>2. add[a].pc = "write"
  BY DEF Write, WriteFails
<1>3. /\ tmp' \in [Blob -> State] /\ file' \in [Blob -> State]
      /\ spoilt \subseteq spoilt' /\ spoilt' \subseteq Blob
  BY <1>2 DEF Write, WriteFails, TypeOK, State
<1>4. TypeOK'
  <2>1. UNCHANGED <<page, up, hook, teller, wants, answers, told>>
    BY DEF Write, WriteFails
  <2> QED BY <2>1, <1>1, <1>3 DEF TypeOK, AddState
<1>5. ASSUME NEW q \in Blob, Adding(q)' # {} PROVE Adding(q) # {}
  BY <1>1, <1>2, <1>5 DEF Adding
(* Who else writes goes on writing; what a wrote to is whole or spoilt. *)
<1>6. ASSUME NEW q \in Blob, NEW x \in {"tmp", "file"}, Writes(q, x)
      PROVE  Writes(q, x)' \/ q \in spoilt' \/ (q = r /\ add[a].at = x /\ Write(a))
  <2>1. PICK b \in Adder : add[b].blob = q /\ add[b].pc = "write" /\ add[b].at = x
    BY <1>6 DEF Writes
  <2>2. CASE b # a
    BY <2>1, <2>2, <1>1 DEF Writes
  <2>3. CASE b = a
    BY <2>1, <2>3 DEF Write, WriteFails
  <2> QED BY <2>2, <2>3
<1>7. TmpInv'
  <2> SUFFICES ASSUME NEW q \in Blob, tmp'[q] = "empty", Adding(q)' # {}
               PROVE  q \in spoilt' \/ Writes(q, "tmp")'
    BY DEF TmpInv
  <2>1. tmp[q] = "empty" /\ ~(q = r /\ add[a].at = "tmp" /\ Write(a))
    BY <1>2 DEF Write, WriteFails, TypeOK
  <2>2. q \in spoilt \/ Writes(q, "tmp")
    BY <2>1, <1>5 DEF TmpInv
  <2> QED BY <2>1, <2>2, <1>3, <1>6
<1>8. FileInv'
  <2> SUFFICES ASSUME NEW q \in Blob, file'[q] = "empty"
               PROVE  q \in spoilt' \/ Writes(q, "file")'
    BY DEF FileInv
  <2>1. file[q] = "empty" /\ ~(q = r /\ add[a].at = "file" /\ Write(a))
    BY <1>2 DEF Write, WriteFails, TypeOK
  <2>2. q \in spoilt \/ Writes(q, "file")
    BY <2>1 DEF FileInv
  <2> QED BY <2>1, <2>2, <1>3, <1>6
<1> QED BY <1>4, <1>7, <1>8

LEMMA RenameStep ==
  ASSUME IInv, NEW a \in Adder, NEW r \in Blob, r = add[a].blob, Rename(a)
  PROVE  TypeOK' /\ TmpInv' /\ FileInv'
<1> USE DEF IInv, peerVars
<1> DEFINE moved == [tmp |-> "file", file |-> "gone", gone |-> "gone"]
<1>1. add[a].pc = "rename" /\ a \in Adding(r)
  BY DEF Rename, Adding
<1>2. UNCHANGED <<spoilt, page, up, hook, teller, wants, answers, told>>
  BY DEF Rename
<1>3. CASE tmp[r] = "none"
  <2>1. /\ add' \in [Adder -> AddState]
        /\ add'[a] = [pc |-> "signal", blob |-> r, at |-> add[a].at]
        /\ \A b \in Adder \ {a} : add'[b] = add[b]
        /\ UNCHANGED <<tmp, file>>
    BY <1>3, GotoAdd DEF Rename, MoveFile
  <2>2. TypeOK'
    BY <1>2, <2>1 DEF TypeOK, AddState
  <2>3. ASSUME NEW q, NEW x, Writes(q, x) PROVE Writes(q, x)'
    BY <2>1, <2>3, <1>1 DEF Writes
  <2>4. ASSUME NEW q \in Blob, Adding(q)' # {} PROVE Adding(q) # {}
    BY <2>1, <1>1, <2>4 DEF Adding
  <2> QED BY <1>2, <2>1, <2>2, <2>3, <2>4 DEF TmpInv, FileInv
<1>4. CASE tmp[r] # "none"
  <2>1. /\ file' = [file EXCEPT ![r] = tmp[r]]
        /\ tmp' = [tmp EXCEPT ![r] = "none"]
        /\ \A b \in Adder : add'[b] =
             IF b \in Adding(r)
             THEN [pc |-> IF b = a THEN "signal" ELSE add[b].pc, blob |-> r, at |-> moved[add[b].at]]
             ELSE add[b]
        /\ add' = [b \in Adder |-> add'[b]]
    BY <1>4 DEF Rename, MoveFile
  <2>2. \A b \in Adder : add[b] \in AddState /\ moved[add[b].at] \in {"file", "gone"}
    BY DEF TypeOK, AddState
  <2>3. add' \in [Adder -> AddState]
    BY <2>1, <2>2, <1>1 DEF AddState
  <2>4. TypeOK'
    BY <1>1, <1>2, <2>1, <2>3 DEF TypeOK, AddState, State
  <2>5. ASSUME NEW q \in Blob, q # r, NEW x, Writes(q, x) PROVE Writes(q, x)'
    BY <2>5, <2>1 DEF Writes, Adding
  (* Who wrote to the temporary file writes to the blob's file now. *)
  <2>6. ASSUME Writes(r, "tmp") PROVE Writes(r, "file")'
    <3>1. PICK b \in Adder : add[b].blob = r /\ add[b].pc = "write" /\ add[b].at = "tmp"
      BY <2>6 DEF Writes
    <3>2. b # a /\ b \in Adding(r)
      BY <3>1, <1>1 DEF Adding
    <3>3. add'[b] = [pc |-> "write", blob |-> r, at |-> "file"]
      BY <3>1, <3>2, <2>1
    <3> QED BY <3>3 DEF Writes
  <2>7. TmpInv'
    <3> SUFFICES ASSUME NEW q \in Blob, tmp'[q] = "empty", Adding(q)' # {}
                 PROVE  q \in spoilt' \/ Writes(q, "tmp")'
      BY DEF TmpInv
    <3>1. q # r /\ tmp[q] = "empty"
      BY <2>1, <1>1 DEF TypeOK
    <3>2. Adding(q) # {}
      BY <3>1, <2>1 DEF Adding
    <3> QED BY <3>1, <3>2, <2>5, <1>2 DEF TmpInv
  <2>8. FileInv'
    <3> SUFFICES ASSUME NEW q \in Blob, file'[q] = "empty"
                 PROVE  q \in spoilt' \/ Writes(q, "file")'
      BY DEF FileInv
    <3>1. CASE q = r
      <4>1. tmp[r] = "empty"
        BY <3>1, <2>1, <1>1 DEF TypeOK
      <4>2. r \in spoilt \/ Writes(r, "tmp")
        BY <4>1, <1>1 DEF TmpInv
      <4> QED BY <4>2, <3>1, <1>2, <2>6
    <3>2. CASE q # r
      <4>1. file[q] = "empty"
        BY <3>2, <2>1 DEF TypeOK
      <4> QED BY <4>1, <3>2, <2>5, <1>2 DEF FileInv
    <3> QED BY <3>1, <3>2
  <2> QED BY <2>4, <2>7, <2>8
<1> QED BY <1>3, <1>4

LEMMA BroadcastStep ==
  ASSUME IInv, NEW a \in Adder, Broadcast(a)
  PROVE  TypeOK' /\ TmpInv' /\ FileInv'
<1> USE DEF IInv, peerVars
<1>1. /\ add' \in [Adder -> AddState]
      /\ add'[a].pc = "idle"
      /\ \A b \in Adder \ {a} : add'[b] = add[b]
      /\ add[a].pc = "signal"
      /\ UNCHANGED <<tmp, file, spoilt, up, hook, teller, wants, answers, told>>
  BY DEF Broadcast, Idle, TypeOK, AddState
<1>2. page' \in [Page -> PageState]
  BY DEF Broadcast, TypeOK, PageState
<1>3. TypeOK'
  BY <1>1, <1>2 DEF TypeOK, AddState
<1>4. ASSUME NEW q, NEW x, Writes(q, x) PROVE Writes(q, x)'
  BY <1>1, <1>4 DEF Writes
<1>5. ASSUME NEW q \in Blob, Adding(q)' # {} PROVE Adding(q) # {}
  BY <1>1, <1>5 DEF Adding
<1> QED BY <1>1, <1>3, <1>4, <1>5 DEF TmpInv, FileInv

LEMMA CrashStep ==
  ASSUME IInv, Crash
  PROVE  TypeOK' /\ TmpInv' /\ FileInv' /\ AnswerInv'
<1> USE DEF IInv, Crash
<1>1. add' \in [Adder -> AddState] /\ \A a \in Adder : add'[a].pc = "idle"
  BY DEF TypeOK, AddState, Idle
<1>2. TypeOK'
  <2>1. page' \in [Page -> PageState]
    BY DEF TypeOK, PageState
  <2>2. spoilt' \subseteq Blob
    BY DEF TypeOK
  <2>3. /\ wants' \in [Conn -> Seq(Offer)]
        /\ answers' \in [Conn -> Seq(Blob)]
        /\ \A c \in Conn : Len(answers'[c]) <= WantCap
    BY BlobFilesAssumption DEF TypeOK
  <2>4. up' \in [Conn -> BOOLEAN] /\ teller' \in [Conn -> {"off", "on", "deaf"}]
    OBVIOUS
  <2> QED BY <1>1, <2>1, <2>2, <2>3, <2>4 DEF TypeOK, AddState
<1>3. TmpInv'
  BY <1>1 DEF TmpInv, Adding
<1>4. FileInv'
  <2> SUFFICES ASSUME NEW r \in Blob, file'[r] = "empty" PROVE r \in spoilt'
    BY DEF FileInv
  <2>1. r \in spoilt \/ \E a \in Adding(r) : add[a].pc = "write" /\ add[a].at = "file"
    BY DEF FileInv, Writes, Adding
  <2> QED BY <2>1
<1>5. AnswerInv'
  BY DEF AnswerInv
<1> QED BY <1>2, <1>3, <1>4, <1>5

-----------------------------------------------------------------------------
(* Steps that leave the files alone. *)

LEMMA SameFiles ==
  ASSUME IInv, UNCHANGED fileVars
  PROVE  TmpInv' /\ FileInv'
BY DEF IInv, fileVars, TmpInv, FileInv, Adding, Writes

LEMMA PageStep ==
  ASSUME IInv, NEW w \in Page,
         (\E r \in Blob : Visit(w, r)) \/ Look(w) \/ Enlist(w) \/ Show(w)
  PROVE  TypeOK' /\ UNCHANGED <<fileVars, peerVars>>
         /\ \A v \in Page : page'[v].pc = "get" => Has(page'[v].blob)
<1>1. /\ page \in [Page -> PageState]
      /\ \A v \in Page : page[v].pc = "get" => Has(page[v].blob)
  BY DEF IInv, TypeOK, PromisesKept
<1>2. UNCHANGED <<fileVars, peerVars>>
  BY DEF Visit, Look, Enlist, Show
<1>3. PICK s \in PageState : /\ page' = [page EXCEPT ![w] = s]
                             /\ s.pc = "get" => Has(s.blob)
  <2>1. ASSUME NEW r \in Blob, Visit(w, r)
        PROVE  page' = [page EXCEPT ![w] = [pc |-> IF Has(r) THEN "get" ELSE "lock", blob |-> r]]
    BY <2>1 DEF Visit
  <2>2. ASSUME NEW pc \in {"off", "lock", "enlist", "waiting", "get"}, NEW r \in Blob
        PROVE  [pc |-> pc, blob |-> r] \in PageState
    BY DEF PageState
  <2>3. page[w].blob \in Blob
    BY <1>1 DEF PageState
  <2>4. CASE Look(w)
    BY <2>2, <2>3, <2>4 DEF Look, PageGoto
  <2>5. CASE Enlist(w) \/ Show(w)
    BY <2>2, <2>3, <2>5 DEF Enlist, Show, PageGoto
  <2> QED BY <2>1, <2>2, <2>4, <2>5
<1>4. page' \in [Page -> PageState]
  BY <1>1, <1>3
<1>5. \A v \in Page : page'[v].pc = "get" => Has(page'[v].blob)
  BY <1>1, <1>3
<1>6. TypeOK'
  BY <1>2, <1>4 DEF IInv, TypeOK, fileVars, peerVars
<1> QED BY <1>2, <1>5, <1>6

(* Every peer that is told, or about to be, is told of a file that is there. *)
LEMMA PeerStep ==
  ASSUME IInv, NEW c \in Conn,
         \/ \E r \in Blob : PeerHas(c, r) \/ \E hops \in {-1, 1} : PeerWants(c, r, hops)
         \/ Hook(c) \/ HandleWant(c) \/ CreateWants(c) \/ Tell(c) \/ Disconnect(c)
  PROVE  TypeOK' /\ AnswerInv' /\ UNCHANGED <<fileVars, page>>
         /\ \A d \in Conn, r \in Blob : <<d, r>> \in told' => Has(r)
<1> USE DEF IInv
<1>0. UNCHANGED <<fileVars, page>>
  BY DEF PeerHas, PeerWants, Hook, HandleWant, CreateWants, Tell, Disconnect
<1>1. \A r : Has(r)' <=> Has(r)
  BY <1>0 DEF fileVars, Has
<1>2. ASSUME NEW r \in Blob, PeerHas(c, r)
      PROVE  TypeOK' /\ AnswerInv' /\ \A d \in Conn, q \in Blob : <<d, q>> \in told' => Has(q)
  BY <1>2, <1>1 DEF PeerHas, fileVars, TypeOK, AnswerInv, PromisesKept
<1>3. ASSUME NEW r \in Blob, NEW hops \in {-1, 1}, PeerWants(c, r, hops)
      PROVE  TypeOK' /\ AnswerInv' /\ \A d \in Conn, q \in Blob : <<d, q>> \in told' => Has(q)
  <2>1. wants' \in [Conn -> Seq(Offer)]
    <3>1. [blob |-> r, hops |-> hops] \in Offer
      BY DEF Offer
    <3>2. <<[blob |-> r, hops |-> hops]>> \in Seq(Offer)
      BY <3>1
    <3> QED BY <1>3, <3>2 DEF PeerWants, TypeOK
  <2> QED BY <1>3, <2>1, <1>1 DEF PeerWants, fileVars, TypeOK, AnswerInv, PromisesKept
<1>4. CASE Hook(c) \/ CreateWants(c) \/ Disconnect(c)
  <2>1. wants' \in [Conn -> Seq(Offer)]
    <3>1. <<>> \in Seq(Offer) /\ wants \in [Conn -> Seq(Offer)]
      BY DEF TypeOK
    <3> QED BY <1>4, <3>1 DEF Hook, CreateWants, Disconnect
  <2> QED BY <1>4, <1>0, <2>1, <1>1 DEF Hook, CreateWants, Disconnect, fileVars, TypeOK, AnswerInv, PromisesKept
<1>5. CASE HandleWant(c)
  <2> DEFINE want == Head(wants[c])
  <2>1. /\ want \in Offer
        /\ Tail(wants[c]) \in Seq(Offer)
    BY <1>5 DEF HandleWant, TypeOK
  <2>2. wants' \in [Conn -> Seq(Offer)]
    BY <1>5, <2>1 DEF HandleWant, TypeOK
  <2>3. CASE Has(want.blob) /\ want.hops < 0
    <3>1. /\ answers' = [answers EXCEPT ![c] = Append(@, want.blob)]
          /\ Len(answers[c]) < WantCap /\ answers[c] \in Seq(Blob)
      BY <1>5, <2>3 DEF HandleWant, TypeOK
    <3>2. /\ Append(answers[c], want.blob) \in Seq(Blob)
          /\ Len(Append(answers[c], want.blob)) = Len(answers[c]) + 1
          /\ \A i \in 1 .. Len(answers[c]) + 1 :
               Append(answers[c], want.blob)[i] =
                 IF i = Len(answers[c]) + 1 THEN want.blob ELSE answers[c][i]
      <4>1. want.blob \in Blob
        BY <2>1 DEF Offer
      <4> QED BY <3>1, <4>1
    <3>3. TypeOK'
      BY <1>0, <1>5, <2>2, <3>1, <3>2, BlobFilesAssumption DEF HandleWant, fileVars, TypeOK
    <3>4. AnswerInv'
      <4> SUFFICES ASSUME NEW d \in Conn, NEW i \in 1 .. Len(answers'[d])
                   PROVE  Has(answers'[d][i])
        BY <1>1 DEF AnswerInv
      <4>1. CASE d # c
        BY <4>1, <3>1 DEF AnswerInv, TypeOK
      <4>2. CASE d = c
        <5>1. answers'[c] = Append(answers[c], want.blob)
          BY <3>1 DEF TypeOK
        <5> QED BY <4>2, <5>1, <3>2, <2>3, <3>1 DEF AnswerInv
      <4> QED BY <4>1, <4>2
    <3> QED BY <3>3, <3>4, <1>5 DEF HandleWant, PromisesKept
  <2>4. CASE ~(Has(want.blob) /\ want.hops < 0)
    BY <1>0, <1>1, <1>5, <2>2, <2>4 DEF HandleWant, fileVars, TypeOK, AnswerInv, PromisesKept
  <2> QED BY <2>3, <2>4
<1>6. CASE Tell(c)
  <2>1. /\ answers[c] \in Seq(Blob) /\ answers[c] # <<>>
        /\ answers' = [answers EXCEPT ![c] = Tail(@)]
        /\ told' \subseteq told \cup {<<c, Head(answers[c])>>}
    BY <1>6 DEF Tell, TypeOK
  <2>2. /\ Head(answers[c]) = answers[c][1] /\ 1 \in 1 .. Len(answers[c])
        /\ answers[c][1] \in Blob
        /\ Tail(answers[c]) \in Seq(Blob)
        /\ Len(Tail(answers[c])) = Len(answers[c]) - 1
        /\ \A i \in 1 .. Len(answers[c]) - 1 : Tail(answers[c])[i] = answers[c][i + 1]
    BY <2>1
  <2>3. TypeOK'
    BY <1>0, <1>6, <2>1, <2>2, BlobFilesAssumption DEF Tell, fileVars, TypeOK
  <2>4. AnswerInv'
    <3> SUFFICES ASSUME NEW d \in Conn, NEW i \in 1 .. Len(answers'[d])
                 PROVE  Has(answers'[d][i])
      BY <1>1 DEF AnswerInv
    <3>1. CASE d # c
      BY <3>1, <2>1 DEF AnswerInv, TypeOK
    <3>2. CASE d = c
      <4>1. answers'[c] = Tail(answers[c])
        BY <2>1 DEF TypeOK
      <4>2. i + 1 \in 1 .. Len(answers[c]) /\ answers'[d][i] = answers[c][i + 1]
        BY <3>2, <4>1, <2>2
      <4> QED BY <4>2 DEF AnswerInv
    <3> QED BY <3>1, <3>2
  <2>5. Has(Head(answers[c]))
    BY <2>2 DEF AnswerInv
  <2>6. \A d \in Conn, r \in Blob : <<d, r>> \in told' => Has(r)
    <3> SUFFICES ASSUME NEW d \in Conn, NEW r \in Blob, <<d, r>> \in told' PROVE Has(r)
      OBVIOUS
    <3>1. <<d, r>> \in told \/ r = Head(answers[c])
      BY <2>1
    <3> QED BY <3>1, <2>5 DEF PromisesKept
  <2> QED BY <1>0, <2>3, <2>4, <2>6
<1> QED BY <1>0, <1>2, <1>3, <1>4, <1>5, <1>6

-----------------------------------------------------------------------------
LEMMA Initially == Init => IInv
<1> SUFFICES ASSUME Init PROVE IInv
  OBVIOUS
<1>1. (CHOOSE r \in Blob : TRUE) \in Blob
  BY BlobFilesAssumption
<1>2. add \in [Adder -> AddState] /\ \A a \in Adder : add[a].pc = "idle"
  BY <1>1 DEF Init, Idle, AddState
<1>3. page \in [Page -> PageState] /\ \A w \in Page : page[w].pc = "off"
  BY <1>1 DEF Init, PageState
<1>0. wants = [c \in Conn |-> <<>>] /\ answers = [c \in Conn |-> <<>>]
  BY DEF Init
<1>4. TypeOK
  <2>1. wants \in [Conn -> Seq(Offer)] /\ answers \in [Conn -> Seq(Blob)]
    BY <1>0
  <2>2. \A c \in Conn : Len(answers[c]) <= WantCap
    BY <1>0, BlobFilesAssumption
  <2> QED BY <1>2, <1>3, <2>1, <2>2 DEF Init, TypeOK, State
<1>5. AnswerInv
  BY <1>0 DEF AnswerInv
<1> QED BY <1>2, <1>3, <1>4, <1>5 DEF Init, IInv, TmpInv, FileInv, PromisesKept

(* Promises once kept are kept on, since no file disappears. *)
LEMMA Inductive == IInv /\ [Next]_vars => IInv'
<1> SUFFICES ASSUME IInv, [Next]_vars PROVE IInv'
  OBVIOUS
<1>1. CASE Next
  <2>1. \A r \in Blob : Has(r) => Has(r)'
    BY <1>1, FileStep DEF IInv, FilesStay
  <2>2. ASSUME NEW a \in Adder, AddSteps(a) PROVE IInv'
    <3>1. TypeOK' /\ TmpInv' /\ FileInv'
      <4>1. add[a].blob \in Blob
        BY DEF IInv, TypeOK, AddState
      <4> QED BY <2>2, <4>1, OpenStep, OpenFailsStep, WriteStep, RenameStep, BroadcastStep DEF AddSteps, Add
    <3>2. UNCHANGED peerVars
      BY <2>2 DEF AddSteps, Add, Open, OpenFails, Write, Rename, Broadcast, WriteFails
    <3>3. \A w \in Page : page'[w].pc = "get" => page'[w] = page[w]
      BY <2>2 DEF AddSteps, Add, Open, OpenFails, Write, Rename, Broadcast, WriteFails, IInv, TypeOK
    <3>4. \A w \in Page : page[w].blob \in Blob
      BY DEF IInv, TypeOK, PageState
    <3>5. \A c \in Conn : \A i \in 1 .. Len(answers[c]) : answers[c][i] \in Blob
      BY DEF IInv, TypeOK
    <3> QED BY <2>1, <3>1, <3>2, <3>3, <3>4, <3>5 DEF IInv, peerVars, AnswerInv, PromisesKept
  <2>3. CASE PageSteps
    BY <2>3, PageStep, SameFiles DEF PageSteps, IInv, AnswerInv, PromisesKept, Has, fileVars, peerVars
  <2>4. CASE PeerSteps
    BY <2>4, PeerStep, SameFiles DEF PeerSteps, IInv, PromisesKept, Has, fileVars
  <2>5. CASE Crash
    <3>1. PromisesKept'
      BY <2>1, <2>5 DEF Crash, PromisesKept, IInv, TypeOK
    <3> QED BY <3>1, <2>5, CrashStep DEF IInv
  <2> QED BY <1>1, <2>2, <2>3, <2>4, <2>5 DEF Next
<1>2. CASE UNCHANGED vars
  <2>1. UNCHANGED <<fileVars, page, peerVars>>
    BY <1>2 DEF vars
  <2>2. TypeOK' /\ AnswerInv' /\ PromisesKept'
    BY <2>1 DEF fileVars, peerVars, IInv, TypeOK, AnswerInv, PromisesKept, Has
  <2> QED BY <2>1, <2>2, SameFiles DEF IInv
<1> QED BY <1>1, <1>2

LEMMA Invariance == Spec => []IInv
<1> QED BY Initially, Inductive, PTL DEF Spec

-----------------------------------------------------------------------------
(* Every variable keeps its type and no channel of answers exceeds its     *)
(* capacity (blobs.go:303-317).                                            *)
THEOREM TypeCorrect == Spec => []TypeOK
<1>1. IInv => TypeOK
  BY DEF IInv
<1> QED BY <1>1, Invariance, PTL

(* For any number of Adds that race for one temporary file, a stored blob  *)
(* is whole but for the gaps that StoredIsWhole names (blobs.go:68-76).    *)
THEOREM WholeFiles == Spec => []StoredIsWhole
<1>1. IInv => StoredIsWhole
  BY DEF IInv, FileInv, StoredIsWhole, Writes, Adding
<1> QED BY <1>1, Invariance, PTL

(* Whoever has been told that a blob is here, page or peer, finds it, how- *)
(* ever often it is added again and the process restarts.                  *)
THEOREM PromisesLast == Spec => []PromisesKept
<1>1. IInv => PromisesKept
  BY DEF IInv
<1> QED BY <1>1, Invariance, PTL
=============================================================================
