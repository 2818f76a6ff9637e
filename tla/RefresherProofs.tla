-------------------------- MODULE RefresherProofs --------------------------
(***************************************************************************)
(* Proofs about Refresher, for any texts and any size of the buffer: an    *)
(* answer that arrived whole is understood, whatever the buffer held       *)
(* before.                                                                 *)
(***************************************************************************)
EXTENDS Refresher, TLAPS

Buffers == [1..RespSize -> Parts \cup {NUL}]

LEMMA Joined ==
  ASSUME NEW s \in Seq(Parts \cup {NUL}), NEW t \in Seq(Parts \cup {NUL})
  PROVE  /\ s \o t \in Seq(Parts \cup {NUL}) /\ Len(s \o t) = Len(s) + Len(t)
         /\ \A k \in 1 .. Len(s) : (s \o t)[k] = s[k]
OBVIOUS

(* The buffer after recv: the parts it took, and what was there behind.    *)
Filled(s, rest) == SubSeq(s, 1, Len(s)) \o SubSeq(rest, Len(s) + 1, RespSize)

LEMMA BufferParts ==
  ASSUME NEW s \in Seq(Parts \cup {NUL}), NEW rest \in Buffers, Len(s) <= RespSize
  PROVE  /\ Filled(s, rest) \in Seq(Parts \cup {NUL}) /\ Len(Filled(s, rest)) = RespSize
         /\ \A k \in 1 .. Len(s) : Filled(s, rest)[k] = s[k]
<1> DEFINE tail == SubSeq(rest, Len(s) + 1, RespSize)
<1>0. RespSize \in Nat /\ Len(s) \in Nat
  BY RefresherAssumption
<1>1. rest \in Seq(Parts \cup {NUL}) /\ Len(rest) = RespSize
  BY <1>0 DEF Buffers
<1>2. tail \in Seq(Parts \cup {NUL}) /\ Len(tail) = RespSize - Len(s)
  BY <1>0, <1>1
<1>3. SubSeq(s, 1, Len(s)) = s
  OBVIOUS
<1>4. Filled(s, rest) = s \o tail
  BY <1>3 DEF Filled
<1> HIDE DEF tail
<1>5. /\ Filled(s, rest) \in Seq(Parts \cup {NUL})
      /\ Len(Filled(s, rest)) = Len(s) + Len(tail)
      /\ \A k \in 1 .. Len(s) : Filled(s, rest)[k] = s[k]
  BY <1>2, <1>4, Joined
<1> QED
  BY <1>0, <1>2, <1>5

(* A text and its NUL, part by part.                                       *)
LEMMA TextParts ==
  ASSUME NEW text \in Texts
  PROVE  /\ text \in Seq(Parts) /\ Len(text) \in Nat /\ Len(text) < RespSize
         /\ Append(text, NUL) \in Seq(Parts \cup {NUL})
         /\ Len(Append(text, NUL)) = Len(text) + 1
         /\ \A k \in 1 .. Len(text) : Append(text, NUL)[k] = text[k] /\ text[k] \in Parts
         /\ Append(text, NUL)[Len(text) + 1] = NUL
<1>1. text \in Seq(Parts) /\ Len(text) < RespSize
  BY RefresherAssumption
<1> QED
  BY <1>1

(* Of all texts strcmp finds the one that was answered, and no other.      *)
LEMMA OnlyTheAnswerHeld ==
  ASSUME NEW text \in Texts, NEW other \in Texts, NEW rest \in Buffers,
         stream = Append(text, NUL), got' = Len(stream)
  PROVE  Held(other, rest) <=> other = text
<1> DEFINE buffer == Filled(stream, rest)
           n == Len(text)
           m == Len(other)
<1> USE RefresherAssumption
<1>1. /\ n \in Nat /\ n < RespSize /\ m \in Nat /\ m < RespSize
      /\ text \in Seq(Parts) /\ other \in Seq(Parts)
      /\ stream \in Seq(Parts \cup {NUL}) /\ Len(stream) = n + 1
      /\ \A k \in 1..n : stream[k] = text[k] /\ text[k] \in Parts
      /\ stream[n + 1] = NUL
  BY TextParts
<1>2. /\ buffer \in Seq(Parts \cup {NUL}) /\ Len(buffer) = RespSize
      /\ \A k \in 1 .. n + 1 : buffer[k] = stream[k]
  <2>1. Len(stream) <= RespSize
    BY <1>1
  <2> QED
    BY <1>1, <2>1, BufferParts
<1> HIDE DEF buffer
<1> DEFINE start == SubSeq(buffer, 1, m + 1)
<1>3. /\ start \in Seq(Parts \cup {NUL}) /\ Len(start) = m + 1
      /\ \A k \in 1 .. m + 1 : start[k] = buffer[k]
  BY <1>1, <1>2
<1>4. Held(other, rest) <=> start = Append(other, NUL)
  BY <1>1 DEF Held, buffer, Filled
<1> HIDE DEF start
<1>5. ASSUME other = text PROVE start = Append(other, NUL)
  <2>1. \A k \in 1 .. n + 1 : start[k] = stream[k]
    BY <1>2, <1>3, <1>5
  <2> QED
    BY <1>1, <1>3, <1>5, <2>1
<1>6. ASSUME start = Append(other, NUL) PROVE other = text
  <2>1. /\ \A k \in 1..m : start[k] = other[k] /\ other[k] \in Parts
        /\ start[m + 1] = NUL
    BY <1>6, TextParts
  <2>2. m >= n
    <3> SUFFICES ASSUME m < n PROVE FALSE
      BY <1>1
    <3>1. start[m + 1] = text[m + 1] /\ text[m + 1] \in Parts
      BY <1>1, <1>2, <1>3
    <3> QED
      BY <2>1, <3>1
  <2>3. m <= n
    <3> SUFFICES ASSUME n < m PROVE FALSE
      BY <1>1
    <3>0. n + 1 \in 1 .. m /\ n + 1 \in 1 .. n + 1 /\ n + 1 \in 1 .. m + 1
      BY <1>1
    <3>1. start[n + 1] = NUL /\ start[n + 1] \in Parts
      BY <1>1, <1>2, <1>3, <2>1, <3>0
    <3> QED
      BY <3>1
  <2>4. m = n /\ \A k \in 1..n : other[k] = text[k]
    BY <1>1, <1>2, <1>3, <2>1, <2>2, <2>3
  <2> QED
    BY <1>1, <2>4
<1> QED
  BY <1>4, <1>5, <1>6

-----------------------------------------------------------------------------
(* What the server writes, if anything, is one answer, and it says OK when *)
(* the radio was refreshed and only then; recv takes nothing before its    *)
(* call, and gives the verdict with it.                                    *)
IInv ==
  /\ TypeOK
  /\ stream # <<>> =>
       /\ server \in {"answered", "gone"}
       /\ \E text \in Texts : stream = Append(text, NUL) /\ (text = OK <=> refreshed)
  /\ pc # "returned" => got = 0 /\ result = "none"
  /\ WholeAnswerUnderstood

LEMMA NothingWritten ==
  ASSUME NEW s, s = <<>>
  PROVE  Len(s) = 0 /\ s \in Seq(Parts \cup {NUL})
OBVIOUS

LEMMA TypeStep ==
  ASSUME IInv, [Next]_vars
  PROVE  TypeOK'
<1>0. /\ TypeOK /\ Len(stream) \in Nat
      /\ pc # "returned" => result = "none"
  BY DEF IInv, TypeOK
<1> USE <1>0, RefresherAssumption DEF TypeOK
<1>1. CASE SocketConnect
  BY <1>1 DEF SocketConnect, Return, remote
<1>2. CASE SocketSend
  BY <1>2 DEF SocketSend, Return
<1>3. CASE SocketRecv
  <2>1. result' \in {"ok", "refused", "invalid"}
    BY <1>3 DEF SocketRecv, Return, Verdict
  <2>2. got' \in 0 .. arrived
    BY <1>3 DEF SocketRecv
  <2> QED
    BY <1>3, <2>1, <2>2 DEF SocketRecv, Return, remote
<1>4. CASE SocketRecvFails
  BY <1>4 DEF SocketRecvFails, Return, remote
<1>5. CASE Refresh
  BY <1>5 DEF Refresh
<1>6. CASE Answer
  <2>1. PICK text \in Texts : stream' = Append(text, NUL)
    BY <1>6 DEF Answer, Texts
  <2>2. /\ stream' \in Seq(Parts \cup {NUL}) /\ Len(stream') = Len(text) + 1
        /\ Len(text) \in Nat
    BY <2>1, TextParts
  <2>3. stream = <<>>
    BY <1>6 DEF Answer, IInv
  <2>4. arrived = 0 /\ got = 0
    BY <2>3, NothingWritten
  <2>5. arrived' \in 0 .. Len(stream') /\ got' \in 0 .. arrived'
    BY <1>6, <2>2, <2>4 DEF Answer
  <2> QED
    BY <1>6, <2>2, <2>5 DEF Answer
<1>7. CASE ServerGoes
  BY <1>7 DEF ServerGoes
<1>8. CASE Deliver
  BY <1>8 DEF Deliver, remote
<1>9. CASE NextRun
  <2>1. stream' \in Seq(Parts \cup {NUL}) /\ Len(stream') = 0
    BY <1>9, NothingWritten DEF NextRun
  <2>2. /\ pc' = "start" /\ result' = "none" /\ socket' = "none"
        /\ server' = "listening" /\ refreshed' = FALSE /\ arrived' = 0 /\ got' = 0
    BY <1>9 DEF NextRun
  <2>3. arrived' \in 0 .. Len(stream') /\ got' \in 0 .. arrived'
    BY <2>1, <2>2
  <2> QED
    BY <2>1, <2>2, <2>3
<1>10. CASE UNCHANGED vars
  BY <1>10 DEF vars
<1> QED
  BY <1>1, <1>2, <1>3, <1>4, <1>5, <1>6, <1>7, <1>8, <1>9, <1>10 DEF Next, Client

(* recv took the whole answer: the verdict is about the answer.            *)
LEMMA RecvUnderstands ==
  ASSUME IInv, SocketRecv, got' > 0, got' = Len(stream)
  PROVE  result' = "ok" <=> refreshed
<1>1. stream # <<>>
  BY NothingWritten
<1>2. PICK text \in Texts : stream = Append(text, NUL) /\ (text = OK <=> refreshed)
  BY <1>1 DEF IInv
<1>3. PICK rest \in Buffers : result' = Verdict(rest)
  BY DEF SocketRecv, Return, Buffers
<1>4. OK \in Texts
  BY DEF Texts
<1>5. Held(OK, rest) <=> OK = text
  BY <1>2, <1>3, <1>4, OnlyTheAnswerHeld
<1> QED
  BY <1>2, <1>3, <1>5 DEF Verdict

THEOREM Understanding == Spec => []IInv
<1>1. Init => IInv
  <2> SUFFICES ASSUME Init PROVE IInv
    OBVIOUS
  <2>1. stream \in Seq(Parts \cup {NUL}) /\ Len(stream) = 0
    BY NothingWritten DEF Init
  <2>2. /\ pc = "start" /\ result = "none" /\ socket = "none"
        /\ server = "listening" /\ refreshed = FALSE /\ arrived = 0 /\ got = 0
    BY DEF Init
  <2>3. arrived \in 0 .. Len(stream) /\ got \in 0 .. arrived
    BY <2>1, <2>2
  <2>4. stream = <<>>
    BY DEF Init
  <2>5. TypeOK
    BY <2>1, <2>2, <2>3 DEF TypeOK
  <2> QED
    BY <2>2, <2>4, <2>5 DEF IInv, WholeAnswerUnderstood
<1>2. IInv /\ [Next]_vars => IInv'
  <2> SUFFICES ASSUME IInv, [Next]_vars PROVE IInv'
    OBVIOUS
  <2>0. TypeOK'
    BY TypeStep
  <2> USE DEF IInv, WholeAnswerUnderstood
  <2>1. CASE SocketConnect
    BY <2>0, <2>1 DEF SocketConnect, Return, remote
  <2>2. CASE SocketSend
    BY <2>0, <2>2 DEF SocketSend, Return
  <2>3. CASE SocketRecv
    BY <2>0, <2>3, RecvUnderstands DEF SocketRecv, Return, remote
  <2>4. CASE SocketRecvFails
    BY <2>0, <2>4 DEF SocketRecvFails, Return, remote
  <2>5. CASE Refresh
    BY <2>0, <2>5 DEF Refresh
  <2>6. CASE Answer
    <3>1. stream = <<>> /\ got = 0
      BY <2>6, NothingWritten DEF Answer, TypeOK
    <3>2. PICK text \in IF refreshed THEN {OK} ELSE Texts \ {OK} : stream' = Append(text, NUL)
      BY <2>6 DEF Answer
    <3>3. text \in Texts /\ (text = OK <=> refreshed)
      BY <3>2 DEF Texts
    <3> QED
      BY <2>0, <2>6, <3>1, <3>2, <3>3 DEF Answer
  <2>7. CASE ServerGoes
    BY <2>0, <2>7 DEF ServerGoes
  <2>8. CASE Deliver
    BY <2>0, <2>8 DEF Deliver, remote
  <2>9. CASE NextRun
    BY <2>0, <2>9 DEF NextRun
  <2>10. CASE UNCHANGED vars
    BY <2>0, <2>10 DEF vars
  <2> QED
    BY <2>1, <2>2, <2>3, <2>4, <2>5, <2>6, <2>7, <2>8, <2>9, <2>10 DEF Next, Client
<1> QED
  BY <1>1, <1>2, PTL DEF Spec

(* Every variable keeps its type, and a call that got an answer has closed *)
(* its socket (CPacSocket::Socket_Close).                                  *)
THEOREM Typing == Spec => []TypeOK
<1>1. IInv => TypeOK
  BY DEF IInv
<1> QED
  BY <1>1, Understanding, PTL

(* An answer recv took as a whole is reported for what it is, though the   *)
(* buffer was not initialised (CRefresher::RefreshPublicRadio).            *)
THEOREM WholeAnswers == Spec => []WholeAnswerUnderstood
<1>1. IInv => WholeAnswerUnderstood
  BY DEF IInv
<1> QED
  BY <1>1, Understanding, PTL
=============================================================================
