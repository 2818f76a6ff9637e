----------------------------- MODULE Refresher -----------------------------
(***************************************************************************)
(* CRefresher::RefreshPublicRadio: one message to the radio server and one *)
(* recv of its answer.  TCP keeps no borders between messages: a recv      *)
(* takes the part of the answer that has arrived.  The buffer it fills is  *)
(* not initialised, and strcmp reads on to the first NUL.                  *)
(*                                                                         *)
(* An answer is a sequence of parts, NUL the last; the answers start alike *)
(* (REF_OK, REF_FAILD, REF_INVALID).  The server is external: that its     *)
(* answers end with NUL, as the message of the client does, and that it    *)
(* says REF_OK after a refresh only, is assumed.                           *)
(***************************************************************************)
EXTENDS Integers, Sequences

CONSTANTS Parts, NUL, OK, FAILED,   \* OK and FAILED are texts, without NUL
          Others,                   \* other texts the server may answer
          RespSize                  \* REF_RESP_SIZE, in parts

Texts == {OK, FAILED} \cup Others

ASSUME RefresherAssumption ==
  /\ RespSize \in Nat
  /\ NUL \notin Parts /\ OK # FAILED /\ {OK, FAILED} \cap Others = {}
  /\ \A text \in Texts : text \in Seq(Parts) /\ Len(text) < RespSize

VARIABLES pc, result,     \* the client, and what the call returned
          socket,         \* the client's descriptor: "none", "open", "closed"
          server,         \* "listening", "asked", "refreshed", "refused", "answered", "gone"
          refreshed,      \* the server has refreshed for this call
          stream,         \* what the server has written on the connection
          arrived,        \* how much of it is at the client
          got             \* how much of it recv took

vars == <<pc, result, socket, server, refreshed, stream, arrived, got>>
remote == <<server, refreshed, stream>>

Init ==
  /\ pc = "start" /\ result = "none" /\ socket = "none"
  /\ server = "listening" /\ refreshed = FALSE
  /\ stream = <<>> /\ arrived = 0 /\ got = 0

Return(code) == pc' = "returned" /\ result' = code

-----------------------------------------------------------------------------
(* The client.                                                             *)

(* There may be no descriptor; one that cannot be connected is not closed. *)
SocketConnect ==
  /\ pc = "start"
  /\ \/ pc' = "send" /\ UNCHANGED result /\ socket' = "open"
     \/ Return("failed") /\ socket' \in {"none", "open"}
  /\ UNCHANGED <<remote, arrived, got>>

(* Nor is one on which send fails.  A message that was sent is received,   *)
(* unless the server goes away.                                            *)
SocketSend ==
  /\ pc = "send"
  /\ \/ /\ pc' = "recv" /\ UNCHANGED result
        /\ server' = IF server = "listening" THEN "asked" ELSE server
     \/ Return("failed") /\ UNCHANGED server
  /\ UNCHANGED <<socket, refreshed, stream, arrived, got>>

(* strcmp of the buffer with an answer, its end being what was there.      *)
Held(text, rest) ==
  LET buffer == SubSeq(stream, 1, got') \o SubSeq(rest, got' + 1, RespSize)
  IN  /\ Len(text) < RespSize
      /\ SubSeq(buffer, 1, Len(text) + 1) = Append(text, NUL)

(* Faulty: waits until the buffer is full.                                 *)
RecvReadyFull == arrived = RespSize \/ server = "gone"

(* recv returns when something has arrived, or nothing more will.          *)
RecvReady == arrived > 0 \/ server = "gone"

(* Faulty: any answer that is not the refusal is taken for success.        *)
VerdictLenient(rest) == IF Held(FAILED, rest) THEN "refused" ELSE "ok"

Verdict(rest) ==
  IF Held(OK, rest) THEN "ok" ELSE IF Held(FAILED, rest) THEN "refused" ELSE "invalid"

(* Faulty: the socket is closed only where recv fails.                     *)
SocketRecvKeepsSocket ==
  /\ pc = "recv" /\ RecvReady
  /\ got' = IF arrived < RespSize THEN arrived ELSE RespSize
  /\ \E rest \in [1..RespSize -> Parts \cup {NUL}] : Return(Verdict(rest))
  /\ UNCHANGED <<socket, remote, arrived>>

SocketRecv ==
  /\ pc = "recv" /\ RecvReady
  /\ got' = IF arrived < RespSize THEN arrived ELSE RespSize
  /\ \E rest \in [1..RespSize -> Parts \cup {NUL}] : Return(Verdict(rest))
  /\ socket' = "closed"
  /\ UNCHANGED <<remote, arrived>>

(* A connection that was reset.                                            *)
SocketRecvFails ==
  /\ pc = "recv" /\ server = "gone"
  /\ Return("failed")
  /\ socket' = "closed"
  /\ UNCHANGED <<remote, arrived, got>>

-----------------------------------------------------------------------------
(* The radio server and the network.                                       *)

Refresh ==
  /\ server = "asked"
  /\ server' \in {"refreshed", "refused"}
  /\ refreshed' = (server' = "refreshed")
  /\ UNCHANGED <<pc, result, socket, stream, arrived, got>>

Answer ==
  /\ server \in {"refreshed", "refused"}
  /\ \E text \in IF refreshed THEN {OK} ELSE Texts \ {OK} : stream' = Append(text, NUL)
  /\ server' = "answered"
  /\ UNCHANGED <<pc, result, socket, refreshed, arrived, got>>

ServerGoes ==
  /\ server # "gone"
  /\ server' = "gone"
  /\ UNCHANGED <<pc, result, socket, refreshed, stream, arrived, got>>

Deliver ==
  /\ arrived < Len(stream)
  /\ \E n \in arrived + 1 .. Len(stream) : arrived' = n
  /\ UNCHANGED <<pc, result, socket, remote, got>>

(* The next run makes its own call.                                        *)
NextRun ==
  /\ pc = "returned"
  /\ pc' = "start" /\ result' = "none" /\ socket' = "none"
  /\ server' = "listening" /\ refreshed' = FALSE
  /\ stream' = <<>> /\ arrived' = 0 /\ got' = 0

Client == SocketConnect \/ SocketSend \/ SocketRecv \/ SocketRecvFails
Next == Client \/ Refresh \/ Answer \/ ServerGoes \/ Deliver \/ NextRun

Spec == Init /\ [][Next]_vars

(* The server answers or goes away, what it wrote arrives.  Nothing makes  *)
(* it close a connection it has answered.                                  *)
FairSpec == Spec /\ WF_vars(Client) /\ WF_vars(Refresh) /\ WF_vars(Answer) /\ WF_vars(Deliver)

-----------------------------------------------------------------------------
(* A call that got an answer has closed its socket.                        *)
TypeOK ==
  /\ pc \in {"start", "send", "recv", "returned"}
  /\ result \in {"none", "failed", "ok", "refused", "invalid"}
  /\ socket \in {"none", "open", "closed"}
  /\ result \in {"ok", "refused", "invalid"} => socket = "closed"
  /\ server \in {"listening", "asked", "refreshed", "refused", "answered", "gone"}
  /\ refreshed \in BOOLEAN
  /\ stream \in Seq(Parts \cup {NUL})
  /\ arrived \in 0 .. Len(stream) /\ got \in 0 .. arrived

(* An answer that arrived in one piece is understood: the run reports      *)
(* success exactly when the radio was refreshed.                           *)
WholeAnswerUnderstood ==
  got > 0 /\ got = Len(stream) => (result = "ok" <=> refreshed)

(* The call returns, though recv has no timeout, if the server answers     *)
(* and though it keeps the connection afterwards.                          *)
CallReturns == pc = "recv" ~> pc = "returned"
=============================================================================
