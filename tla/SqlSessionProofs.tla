-------------------------- MODULE SqlSessionProofs --------------------------
(***************************************************************************)
(* Proofs about SqlSession, for any threads, databases and number of       *)
(* sessions: callers that lock overlap only after a stray disconnect, and  *)
(* as long as callers take care sessions keep their database and are       *)
(* counted exactly; every thread gets its own answers, and nobody is       *)
(* stuck.                                                                  *)
(***************************************************************************)
EXTENDS SqlSession, FiniteSetTheorems, TLAPS

-----------------------------------------------------------------------------
(* Recording a session adds one that was not there.                        *)
LEMMA OpenedFacts ==
  ASSUME TypeOK, NEW t \in Threads, Opened(t)
  PROVE  \E n \in Numbers :
           /\ <<t, want[t], n>> \in Threads \X DBs \X Numbers
           /\ <<t, want[t], n>> \notin sessions
           /\ sessions' = sessions \cup {<<t, want[t], n>>}
<1> PICK n \in Unused(t) : sessions' = sessions \cup {<<t, want[t], n>>}
  BY DEF Opened
<1>1. n \in Numbers /\ \A s \in sessions : s[1] = t => s[3] # n
  BY DEF Unused, Of
<1>2. want[t] \in DBs
  BY DEF TypeOK
<1> QED
  BY <1>1, <1>2

(* A step of t leaves the others where they are.                           *)
LEMMA GotoFacts ==
  ASSUME TypeOK, NEW t \in Threads, NEW label \in Calls, Goto(t, label)
  PROVE  /\ pc'[t] = label
         /\ \A u \in Threads \ {t} : pc'[u] = pc[u]
         /\ pc' \in [Threads -> Calls]
BY DEF TypeOK, Goto

(* The labels a call may go to next.                                       *)
LEMMA Labels ==
  /\ Refused \in {"idle", "isConn"} /\ Disconnected \in {"idle", "unlock"}
  /\ {"idle", "lock", "isConn", "isRef", "unlock", "connect", "encode", "record",
      "cleanup", "close", "query", "store"} \subseteq Calls
BY DEF Refused, Disconnected, Calls, Inside

(* Every variable keeps its type; the count never falls below zero.        *)
THEOREM Typing == Spec => []TypeOK
<1>1. Init => TypeOK
  <2> SUFFICES ASSUME Init PROVE TypeOK
    OBVIOUS
  <2>1. pc \in [Threads -> Calls]
    BY Labels DEF Init
  <2>2. {locking, overlapped, stray} \subseteq BOOLEAN
    BY DEF Init
  <2> QED
    BY <2>1, <2>2 DEF Init, TypeOK
<1>2. TypeOK /\ [Next]_vars => TypeOK'
  <2> SUFFICES ASSUME TypeOK, [Next]_vars PROVE TypeOK'
    OBVIOUS
  <2>1. ASSUME NEW t \in Threads, ConnectToLib(t) PROVE TypeOK'
    <3>1. PICK label \in {"lock", "connect"} : Goto(t, label)
      BY <2>1 DEF ConnectToLib
    <3>2. pc' \in [Threads -> Calls]
      BY <3>1, GotoFacts, Labels
    <3> QED
      BY <2>1, <3>2 DEF ConnectToLib, Begins, TypeOK, helper, callers
  <2>2. ASSUME NEW t \in Threads, LockLib(t) PROVE TypeOK'
    BY <2>2, GotoFacts, Labels DEF LockLib, Begins, TypeOK, helper
  <2>3. ASSUME NEW t \in Threads, DisConnFromLib(t) PROVE TypeOK'
    BY <2>3, GotoFacts, Labels DEF DisConnFromLib, Begins, TypeOK, helper
  <2>4. ASSUME NEW t \in Threads, IsConnected(t) PROVE TypeOK'
    <3>1. PICK label \in Calls : Goto(t, label)
      BY <2>4, Labels DEF IsConnected
    <3> QED
      BY <2>4, <3>1, GotoFacts DEF IsConnected, TypeOK, helper, callers
  <2>5. ASSUME NEW t \in Threads, UnlockLib(t) PROVE TypeOK'
    BY <2>5, GotoFacts, Labels DEF UnlockLib, TypeOK, helper, callers
  <2>6. ASSUME NEW t \in Threads, Enter(t) PROVE TypeOK'
    BY <2>6 DEF Enter, TypeOK, helper, callers
  <2>7. ASSUME NEW t \in Threads, SqlConn(t) PROVE TypeOK'
    <3>1. PICK label \in Calls : Leave(t, label)
      BY <2>7, Labels DEF SqlConn, ShareHandle, AlreadyConnected, OpenHandle
    <3>2. pc' \in [Threads -> Calls] /\ mutex' = None
      BY <3>1, GotoFacts DEF Leave
    <3>3. want[t] \in DBs
      BY DEF TypeOK
    <3>4. sessions' \subseteq Threads \X DBs \X Numbers
      BY <2>7, OpenedFacts
         DEF SqlConn, ShareHandle, AlreadyConnected, OpenHandle, TypeOK
    <3>5. numRef' \in Nat /\ conn' \in DBs \cup {None, Bare}
      BY <2>7, <3>3 DEF SqlConn, ShareHandle, AlreadyConnected, OpenHandle, TypeOK
    <3> QED
      BY <2>7, <3>2, <3>4, <3>5 DEF SqlConn, TypeOK, callers
  <2>8. ASSUME NEW t \in Threads, SetEncode(t) PROVE TypeOK'
    <3>1. PICK label \in {"record", "cleanup"} : Leave(t, label)
      BY <2>8 DEF SetEncode
    <3> QED
      BY <2>8, <3>1, GotoFacts, Labels DEF SetEncode, Leave, TypeOK, helper, callers
  <2>9. ASSUME NEW t \in Threads, Record(t) PROVE TypeOK'
    <3>1. sessions' \subseteq Threads \X DBs \X Numbers /\ want[t] \in DBs
      BY <2>9, OpenedFacts DEF Record, TypeOK
    <3> QED
      BY <2>9, <3>1, GotoFacts, Labels DEF Record, Leave, TypeOK, callers
  <2>10. ASSUME NEW t \in Threads, SqlClose(t) PROVE TypeOK'
    <3>1. PICK label \in Calls : Leave(t, label)
      BY <2>10, Labels DEF SqlClose
    <3>2. numRef' \in Nat /\ conn' \in DBs \cup {None, Bare}
      BY <2>10 DEF SqlClose, TypeOK
    <3> QED
      BY <2>10, <3>1, <3>2, GotoFacts DEF SqlClose, Leave, TypeOK, callers
  <2>11. ASSUME NEW t \in Threads, Query(t) PROVE TypeOK'
    BY <2>11, GotoFacts, Labels DEF Query, TypeOK, helper, callers
  <2>12. ASSUME NEW t \in Threads, Execute(t) PROVE TypeOK'
    <3>1. PICK label \in {"idle", "store"} : Goto(t, label)
      BY <2>12 DEF Execute, Leave
    <3> QED
      BY <2>12, <3>1, GotoFacts, Labels DEF Execute, Leave, TypeOK, helper, callers
  <2>13. ASSUME NEW t \in Threads, StoreResult(t) PROVE TypeOK'
    BY <2>13, GotoFacts, Labels DEF StoreResult, Leave, TypeOK, helper, callers
  <2>14. CASE UNCHANGED vars
    BY <2>14 DEF vars, TypeOK, helper, callers
  <2>15. ASSUME NEW t \in Threads, NoConfiguration(t) PROVE TypeOK'
    <3>1. pc' \in [Threads -> Calls]
      BY <2>15, GotoFacts, Labels DEF NoConfiguration
    <3> QED
      BY <2>15, <3>1 DEF NoConfiguration, Begins, TypeOK, helper
  <2> QED
    BY <2>1, <2>2, <2>3, <2>4, <2>5, <2>6, <2>7, <2>8, <2>9, <2>10, <2>11, <2>12,
       <2>13, <2>14, <2>15 DEF Next, Step
<1> QED
  BY <1>1, <1>2, PTL DEF Spec

-----------------------------------------------------------------------------
(* Callers that lock.                                                      *)

(* From the connect to the end of the disconnect, with a session or not.   *)
Within(t) == pc[t] \notin {"idle", "lock"} \/ Of(t) # {}

LockInv ==
  locking /\ ~stray =>
    /\ \A t \in Threads : Within(t) => libMutex = t
    /\ \A t \in Threads : pc[t] \notin {"idle", "query", "store"} => Of(t) = {}
    /\ \A s, r \in sessions : s = r
    /\ ~overlapped

(* A step of t between its connect and its disconnect that makes or ends   *)
(* no session and does not give m_conn_mutex back.                         *)
LEMMA LockStays ==
  ASSUME TypeOK, LockInv, NEW t \in Threads, NEW label \in Calls, Goto(t, label),
         Within(t), UNCHANGED <<sessions, libMutex, locking, overlapped, stray>>,
         label \notin {"idle", "query", "store"} =>
           Of(t) = {} \/ pc[t] \notin {"idle", "query", "store"}
  PROVE  LockInv'
<1>1. pc'[t] = label /\ \A u \in Threads \ {t} : pc'[u] = pc[u]
  BY GotoFacts
<1>2. \A u \in Threads : Of(u)' = Of(u)
  BY DEF Of
<1> QED
  BY <1>1, <1>2 DEF LockInv, Within

(* A session t makes while it holds m_conn_mutex is the only one.          *)
LEMMA LockOpens ==
  ASSUME TypeOK, LockInv, NEW t \in Threads, Goto(t, "idle"), Opened(t),
         pc[t] \in {"connect", "record"}, UNCHANGED <<libMutex, locking, overlapped, stray>>
  PROVE  LockInv'
<1> SUFFICES ASSUME locking, ~stray PROVE LockInv'
  BY DEF LockInv
<1>1. pc'[t] = "idle" /\ \A u \in Threads \ {t} : pc'[u] = pc[u]
  BY GotoFacts, Labels
<1>2. libMutex = t /\ Of(t) = {}
  BY DEF LockInv, Within
<1>3. \A u \in Threads \ {t} : ~Within(u)
  BY <1>2 DEF LockInv
<1>4. sessions = {}
  <2>1. \A s \in sessions : s[1] \in Threads /\ s \in Of(s[1])
    BY DEF TypeOK, Of
  <2> QED
    BY <1>2, <1>3, <2>1 DEF Within
<1>5. PICK n \in Numbers : sessions' = {<<t, want[t], n>>}
  BY <1>4, OpenedFacts
<1>6. \A u \in Threads \ {t} : Of(u)' = {}
  BY <1>5 DEF Of
<1> QED
  BY <1>1, <1>2, <1>3, <1>5, <1>6 DEF LockInv, Within

THEOREM LockInvariant == Spec => []LockInv
<1>1. Init => LockInv
  BY DEF Init, LockInv, Within, Of
<1>2. TypeOK /\ LockInv /\ [Next]_vars => LockInv'
  <2> SUFFICES ASSUME TypeOK, LockInv, [Next]_vars PROVE LockInv'
    OBVIOUS
  <2>1. ASSUME NEW t \in Threads, ConnectToLib(t) PROVE LockInv'
    <3>1. CASE ~locking \/ stray
      <4>1. ~(locking /\ ~stray)'
        BY <2>1, <3>1 DEF ConnectToLib, Begins, callers
      <4> QED
        BY <4>1 DEF LockInv
    <3>2. CASE locking /\ ~stray
      <4>1. Of(t) = {} /\ pc[t] = "idle" /\ Goto(t, "lock")
            /\ UNCHANGED <<sessions, libMutex, locking, overlapped, stray>>
        BY <2>1, <3>2 DEF ConnectToLib, callers
      <4>2. pc'[t] = "lock" /\ \A u \in Threads \ {t} : pc'[u] = pc[u]
        BY <4>1, GotoFacts, Labels
      <4>3. \A u \in Threads : Of(u)' = Of(u)
        BY <4>1 DEF Of
      <4> QED
        BY <4>1, <4>2, <4>3 DEF LockInv, Within
    <3> QED
      BY <3>1, <3>2
  <2>2. ASSUME NEW t \in Threads, LockLib(t) PROVE LockInv'
    <3> SUFFICES ASSUME locking, ~stray PROVE LockInv'
      BY <2>2 DEF LockLib, Begins, LockInv
    <3>1. /\ pc[t] = "lock" /\ libMutex = None /\ libMutex' = t /\ Goto(t, "connect")
          /\ sessions' = sessions /\ locking' = locking /\ stray' = stray
          /\ overlapped' = (overlapped \/ \E u \in Threads \ {t} : Busy(u))
      BY <2>2 DEF LockLib, Begins
    <3>2. pc'[t] = "connect" /\ \A u \in Threads \ {t} : pc'[u] = pc[u]
      BY <3>1, GotoFacts, Labels
    <3>3. \A u \in Threads : ~Within(u)
      BY <3>1, SessionAssumption DEF LockInv
    <3>4. \A u \in Threads : ~Busy(u)
      BY <3>3 DEF Within, Busy, Changing
    <3>5. ~overlapped'
      BY <3>1, <3>4 DEF LockInv
    <3>6. \A u \in Threads : Of(u)' = Of(u) /\ Of(u) = {}
      BY <3>1, <3>3 DEF Of, Within
    <3> QED
      BY <3>1, <3>2, <3>3, <3>5, <3>6 DEF LockInv, Within
  <2>3. ASSUME NEW t \in Threads, DisConnFromLib(t) PROVE LockInv'
    <3> SUFFICES ASSUME locking, ~stray PROVE LockInv'
      BY <2>3 DEF DisConnFromLib, Begins, LockInv
    <3> PICK s \in Of(t) : sessions' = sessions \ {s}
      BY <2>3 DEF DisConnFromLib
    <3>1. /\ pc[t] = "idle" /\ Goto(t, "isConn") /\ libMutex' = libMutex
          /\ locking' = locking /\ stray' = stray
          /\ overlapped' = (overlapped \/ \E u \in Threads \ {t} : Busy(u))
      BY <2>3 DEF DisConnFromLib, Begins
    <3>2. libMutex = t /\ sessions' = {}
      BY DEF LockInv, Within, Of
    <3>3. \A u \in Threads \ {t} : ~Within(u)
      BY <3>2 DEF LockInv
    <3>4. \A u \in Threads \ {t} : ~Busy(u)
      BY <3>3 DEF Within, Busy, Changing
    <3>5. ~overlapped'
      BY <3>1, <3>4 DEF LockInv
    <3>6. pc'[t] = "isConn" /\ \A u \in Threads \ {t} : pc'[u] = pc[u]
      BY <3>1, GotoFacts, Labels
    <3>7. \A u \in Threads : Of(u)' = {}
      BY <3>2 DEF Of
    <3> QED
      BY <3>1, <3>2, <3>3, <3>5, <3>6, <3>7 DEF LockInv, Within
  <2>4. ASSUME NEW t \in Threads, IsConnected(t) PROVE LockInv'
    <3>1. PICK label \in {"isRef", "close", "idle", "unlock"} : Goto(t, label)
      BY <2>4, Labels DEF IsConnected
    <3>2. /\ pc[t] \in {"isConn", "isRef"}
          /\ UNCHANGED <<sessions, libMutex, locking, overlapped, stray>>
      BY <2>4 DEF IsConnected, callers
    <3> QED
      BY <3>1, <3>2, LockStays, Labels DEF Within
  <2>5. ASSUME NEW t \in Threads, UnlockLib(t) PROVE LockInv'
    <3>1. /\ pc[t] = "unlock" /\ libMutex' = None /\ Goto(t, "idle")
          /\ UNCHANGED <<sessions, locking, overlapped, stray>>
      BY <2>5 DEF UnlockLib, callers
    <3>2. pc'[t] = "idle" /\ \A u \in Threads \ {t} : pc'[u] = pc[u]
      BY <3>1, GotoFacts, Labels
    <3>3. \A u \in Threads : Of(u)' = Of(u)
      BY <3>1 DEF Of
    <3> QED
      BY <3>1, <3>2, <3>3 DEF LockInv, Within
  <2>6. ASSUME NEW t \in Threads, Enter(t) PROVE LockInv'
    BY <2>6 DEF Enter, LockInv, Within, Of, callers
  <2>7. ASSUME NEW t \in Threads, SqlConn(t) PROVE LockInv'
    <3>1. pc[t] = "connect" /\ UNCHANGED <<libMutex, locking, overlapped, stray>>
      BY <2>7 DEF SqlConn, Holding, callers
    <3>2. CASE ShareHandle(t)
      BY <3>1, <3>2, LockOpens DEF ShareHandle, Leave
    <3>3. CASE AlreadyConnected(t) \/ OpenHandle(t)
      <4>1. PICK label \in {"idle", "isConn", "encode", "cleanup"} : Goto(t, label)
        BY <3>3, Labels DEF AlreadyConnected, OpenHandle, Leave
      <4>2. sessions' = sessions
        BY <3>3 DEF AlreadyConnected, OpenHandle
      <4> QED
        BY <3>1, <4>1, <4>2, LockStays, Labels DEF Within
    <3> QED
      BY <2>7, <3>2, <3>3 DEF SqlConn
  <2>8. ASSUME NEW t \in Threads, SetEncode(t) PROVE LockInv'
    <3>1. PICK label \in {"record", "cleanup"} : Goto(t, label)
      BY <2>8 DEF SetEncode, Leave
    <3>2. pc[t] = "encode" /\ UNCHANGED <<sessions, libMutex, locking, overlapped, stray>>
      BY <2>8 DEF SetEncode, Holding, callers
    <3> QED
      BY <3>1, <3>2, LockStays, Labels DEF Within
  <2>9. ASSUME NEW t \in Threads, Record(t) PROVE LockInv'
    BY <2>9, LockOpens DEF Record, Holding, Leave, callers
  <2>10. ASSUME NEW t \in Threads, SqlClose(t) PROVE LockInv'
    <3>1. PICK label \in {"idle", "unlock", "isConn"} : Goto(t, label)
      BY <2>10, Labels DEF SqlClose, Leave
    <3>2. /\ pc[t] \in {"close", "cleanup"}
          /\ UNCHANGED <<sessions, libMutex, locking, overlapped, stray>>
      BY <2>10 DEF SqlClose, Holding, callers
    <3> QED
      BY <3>1, <3>2, LockStays, Labels DEF Within
  <2>11. ASSUME NEW t \in Threads, Query(t) \/ Execute(t) \/ StoreResult(t) PROVE LockInv'
    <3>1. PICK label \in {"idle", "query", "store"} : Goto(t, label)
      BY <2>11 DEF Query, Execute, StoreResult, Leave
    <3>2. Within(t) /\ UNCHANGED <<sessions, libMutex, locking, overlapped, stray>>
      BY <2>11 DEF Query, Execute, StoreResult, Holding, Within, callers
    <3> QED
      BY <3>1, <3>2, LockStays, Labels
  <2>12. CASE UNCHANGED vars
    BY <2>12 DEF vars, callers, LockInv, Within, Of
  <2>13. ASSUME NEW t \in Threads, NoConfiguration(t) PROVE LockInv'
    BY <2>13 DEF NoConfiguration, LockInv
  <2> QED
    BY <2>1, <2>2, <2>3, <2>4, <2>5, <2>6, <2>7, <2>8, <2>9, <2>10, <2>11, <2>12,
       <2>13
    DEF Next, Step
<1> QED
  BY <1>1, <1>2, Typing, PTL DEF Spec

(* Callers that lock overlap only once one has disconnected after its      *)
(* connect was refused for want of a configuration: on every other path    *)
(* m_conn_mutex keeps the others out from the connect of a caller to its   *)
(* disconnect (CLib::ConnectToLib, DisConnFromLib).                        *)
THEOREM LockersNeverOverlap == Spec => []LockingExcludes
<1>1. LockInv => LockingExcludes
  BY DEF LockInv, LockingExcludes
<1> QED
  BY <1>1, LockInvariant, PTL

-----------------------------------------------------------------------------
(* Callers that take care.                                                  *)

(* Nothing is open.                                                        *)
Closed == conn = None /\ numRef = 0 /\ sessions = {}

(* The handle is the sessions', which are counted, with n more.            *)
Counted(n) ==
  /\ conn \in DBs /\ strConn = conn
  /\ numRef > 0 /\ numRef = Cardinality(sessions) + n
  /\ \A s \in sessions : conn = s[2]

(* The situations of the one thread that connects or disconnects: nothing  *)
(* is open, or no more; its handle is open and not counted yet; it comes   *)
(* to a handle that others opened; its session is still counted.           *)
Without(t) == Closed /\ pc[t] \in {"connect", "cleanup", "isConn"}

Opening(t) ==
  /\ conn # None /\ numRef = 0 /\ sessions = {}
  /\ pc[t] \in {"encode", "record", "cleanup"}
  /\ pc[t] # "cleanup" => conn = want[t]

Joining(t) == ~locking /\ pc[t] = "connect" /\ Counted(0)

Ending(t) == pc[t] \in {"isConn", "isRef", "close"} /\ Counted(1)

SessInv ==
  /\ IsFiniteSet(sessions)
  /\ Careful =>
       /\ \A t, u \in Threads : Busy(t) /\ Busy(u) => t = u
       /\ (\A t \in Threads : ~Busy(t)) => Closed \/ Counted(0)
       /\ \A t \in Threads :
            Busy(t) => Without(t) \/ Opening(t) \/ Joining(t) \/ Ending(t)

(* What a step of t has to show.                                           *)
LEMMA SessStep ==
  ASSUME TypeOK, SessInv, NEW t \in Threads, IsFiniteSet(sessions'),
         \A u \in Threads \ {t} : pc'[u] = pc[u],
         Careful' => \A u \in Threads \ {t} : ~Busy(u),
         Careful' =>
           IF Busy(t)' THEN (Without(t) \/ Opening(t) \/ Joining(t) \/ Ending(t))'
                       ELSE (Closed \/ Counted(0))'
  PROVE  SessInv'
<1> SUFFICES ASSUME Careful'
             PROVE  /\ \A s, u \in Threads : Busy(s)' /\ Busy(u)' => s = u
                    /\ (\A u \in Threads : ~Busy(u)') => (Closed \/ Counted(0))'
                    /\ \A u \in Threads :
                         Busy(u)' => (Without(u) \/ Opening(u) \/ Joining(u) \/ Ending(u))'
  BY DEF SessInv
<1>1. \A u \in Threads \ {t} : ~Busy(u)'
  BY DEF Busy
<1> QED
  BY <1>1

(* A step of t outside connects and disconnects.                           *)
LEMMA SessSame ==
  ASSUME SessInv, UNCHANGED <<conn, strConn, numRef, sessions, want, locking, overlapped, stray>>,
         \A u \in Threads : Busy(u)' = Busy(u) /\ (Busy(u) => pc'[u] = pc[u])
  PROVE  SessInv'
<1>1. Closed' = Closed /\ Counted(0)' = Counted(0) /\ Counted(1)' = Counted(1)
  BY DEF Closed, Counted
<1>2. \A u \in Threads : Busy(u) =>
        /\ Without(u)' = Without(u) /\ Opening(u)' = Opening(u)
        /\ Joining(u)' = Joining(u) /\ Ending(u)' = Ending(u)
  BY <1>1 DEF Without, Opening, Joining, Ending
<1>3. Careful' = Careful
  BY DEF Careful
<1> QED
  BY <1>1, <1>2, <1>3 DEF SessInv

(* The first step of a connect or disconnect: nobody else is at one.       *)
LEMMA BeginsAlone ==
  ASSUME SessInv, NEW t \in Threads, ~Busy(t), Begins(t), stray' = stray, Careful'
  PROVE  /\ Careful /\ (Closed \/ Counted(0))
         /\ \A u \in Threads \ {t} : ~Busy(u)
BY DEF Begins, SessInv, Careful

(* While t is at one, it is in one of the situations and alone.            *)
LEMMA BusyAlone ==
  ASSUME SessInv, NEW t \in Threads, Busy(t), Careful
  PROVE  /\ Without(t) \/ Opening(t) \/ Joining(t) \/ Ending(t)
         /\ \A u \in Threads \ {t} : ~Busy(u)
BY DEF SessInv

LEMMA ConnectToLibKeeps ==
  ASSUME TypeOK, LockInv, SessInv, NEW t \in Threads, ConnectToLib(t)
  PROVE  SessInv'
<1>1. /\ pc[t] = "idle" /\ ~Busy(t)
      /\ UNCHANGED <<conn, strConn, numRef, sessions>>
  BY DEF ConnectToLib, helper, Busy, Changing
<1>2. CASE locking
  <2>1. Goto(t, "lock") /\ UNCHANGED <<locking, overlapped, stray>>
    BY <1>2 DEF ConnectToLib, callers
  <2>2. pc'[t] = "lock" /\ \A u \in Threads \ {t} : pc'[u] = pc[u] /\ want'[u] = want[u]
    BY <2>1, GotoFacts, Labels DEF ConnectToLib, TypeOK
  <2>3. ~Busy(t)' /\ \A u \in Threads \ {t} : Busy(u)' = Busy(u)
    BY <2>2 DEF Busy, Changing
  <2>4. Closed' = Closed /\ Counted(0)' = Counted(0) /\ Counted(1)' = Counted(1)
    BY <1>1 DEF Closed, Counted
  <2>5. \A u \in Threads \ {t} :
          /\ Without(u)' = Without(u) /\ Opening(u)' = Opening(u)
          /\ Joining(u)' = Joining(u) /\ Ending(u)' = Ending(u)
    BY <1>1, <2>1, <2>2, <2>4 DEF Without, Opening, Joining, Ending
  <2> QED
    BY <1>1, <2>1, <2>3, <2>4, <2>5 DEF SessInv, Careful
<1>3. CASE ~locking
  <2>1. Goto(t, "connect") /\ Begins(t) /\ stray' = stray
    BY <1>3 DEF ConnectToLib
  <2>2. pc'[t] = "connect" /\ \A u \in Threads \ {t} : pc'[u] = pc[u]
    BY <2>1, GotoFacts, Labels
  <2>3. ASSUME Careful' PROVE (Without(t) \/ Joining(t))'
    BY <1>1, <1>3, <2>1, <2>2, <2>3, BeginsAlone
       DEF Begins, Without, Joining, Closed, Counted
  <2>4. Careful' => \A u \in Threads \ {t} : ~Busy(u)
    BY <1>1, <2>1, BeginsAlone
  <2>5. Busy(t)'
    BY <2>2 DEF Busy, Changing
  <2>6. IsFiniteSet(sessions')
    BY <1>1 DEF SessInv
  <2> QED
    BY <2>2, <2>3, <2>4, <2>5, <2>6, SessStep
<1> QED
  BY <1>2, <1>3

LEMMA NoConfigurationKeeps ==
  ASSUME TypeOK, SessInv, NEW t \in Threads, NoConfiguration(t)
  PROVE  SessInv'
BY DEF NoConfiguration, SessInv, Careful

LEMMA LockLibKeeps ==
  ASSUME TypeOK, LockInv, SessInv, NEW t \in Threads, LockLib(t)
  PROVE  SessInv'
<1>1. /\ pc[t] = "lock" /\ libMutex = None /\ Goto(t, "connect") /\ Begins(t) /\ ~Busy(t)
      /\ UNCHANGED <<conn, strConn, numRef, sessions, stray>>
  BY DEF LockLib, helper, Busy, Changing
<1>2. pc'[t] = "connect" /\ \A u \in Threads \ {t} : pc'[u] = pc[u]
  BY <1>1, GotoFacts, Labels
<1>3. locking /\ ~stray => sessions = {}
  <2>1. \A s \in sessions : s[1] \in Threads /\ s \in Of(s[1])
    BY DEF TypeOK, Of
  <2> QED
    BY <1>1, <2>1, SessionAssumption DEF LockInv, Within
<1>4. ASSUME Careful' PROVE (Without(t) \/ Joining(t))'
  <2>1. Closed \/ Counted(0)
    BY <1>1, <1>4, BeginsAlone
  <2>2. locking => Closed
    BY <1>1, <1>3, <1>4, <2>1, FS_EmptySet DEF Counted, Careful
  <2> QED
    BY <1>1, <1>2, <2>1, <2>2 DEF Begins, Without, Joining, Closed, Counted
<1>5. Careful' => \A u \in Threads \ {t} : ~Busy(u)
  BY <1>1, BeginsAlone
<1>6. Busy(t)' /\ IsFiniteSet(sessions')
  BY <1>1, <1>2 DEF Busy, Changing, SessInv
<1> QED
  BY <1>2, <1>4, <1>5, <1>6, SessStep

LEMMA DisConnFromLibKeeps ==
  ASSUME TypeOK, SessInv, NEW t \in Threads, DisConnFromLib(t)
  PROVE  SessInv'
<1> PICK s \in Of(t) : sessions' = sessions \ {s}
  BY DEF DisConnFromLib
<1>1. /\ pc[t] = "idle" /\ Goto(t, "isConn") /\ Begins(t) /\ ~Busy(t)
      /\ UNCHANGED <<conn, strConn, numRef, stray>>
  BY DEF DisConnFromLib, helper, Busy, Changing
<1>2. pc'[t] = "isConn" /\ \A u \in Threads \ {t} : pc'[u] = pc[u]
  BY <1>1, GotoFacts, Labels
<1>3. /\ s \in sessions /\ IsFiniteSet(sessions) /\ IsFiniteSet(sessions')
      /\ Cardinality(sessions') = Cardinality(sessions) - 1
  BY FS_RemoveElement DEF Of, SessInv
<1>4. Cardinality(sessions) \in Nat
  BY <1>3, FS_CardinalityType
<1>5. ASSUME Careful' PROVE Ending(t)'
  <2>1. Counted(0)
    BY <1>1, <1>3, <1>5, BeginsAlone DEF Closed
  <2> QED
    BY <1>1, <1>2, <1>3, <1>4, <2>1 DEF Ending, Counted
<1>6. Careful' => \A u \in Threads \ {t} : ~Busy(u)
  BY <1>1, BeginsAlone
<1>7. Busy(t)'
  BY <1>2 DEF Busy, Changing
<1> QED
  BY <1>2, <1>3, <1>5, <1>6, <1>7, SessStep

(* A step of a thread at a connect or disconnect that makes no session.    *)
LEMMA BusyStep ==
  ASSUME TypeOK, SessInv, NEW t \in Threads, Busy(t), NEW label \in Calls, Goto(t, label),
         UNCHANGED <<sessions, locking, overlapped, stray>>,
         Careful =>
           IF label \in Changing
           THEN (Without(t) \/ Opening(t) \/ Joining(t) \/ Ending(t))'
           ELSE (Closed \/ Counted(0))'
  PROVE  SessInv'
<1>1. pc'[t] = label /\ \A u \in Threads \ {t} : pc'[u] = pc[u]
  BY GotoFacts
<1>2. Careful => \A u \in Threads \ {t} : ~Busy(u)
  BY BusyAlone
<1>3. IsFiniteSet(sessions') /\ (Busy(t)' <=> label \in Changing)
  BY <1>1 DEF SessInv, Busy
<1>4. Careful' = Careful
  BY DEF Careful
<1> QED
  BY <1>1, <1>2, <1>3, <1>4, SessStep

LEMMA IsConnectedKeeps ==
  ASSUME TypeOK, SessInv, NEW t \in Threads, IsConnected(t)
  PROVE  SessInv'
<1>1. /\ UNCHANGED <<conn, strConn, numRef, want, sessions, locking, overlapped, stray>>
      /\ pc[t] \in {"isConn", "isRef"} /\ Busy(t)
  BY DEF IsConnected, helper, callers, Busy, Changing
<1>2. CASE ~Careful
  <2>1. PICK label \in Calls : Goto(t, label)
    BY Labels DEF IsConnected
  <2> QED
    BY <1>1, <1>2, <2>1, BusyStep
<1>3. CASE Careful
  <2>1. Without(t) \/ Ending(t)
    BY <1>1, <1>3, BusyAlone DEF Opening, Joining
  <2>2. CASE Without(t)
    <3>1. Goto(t, Disconnected)
      BY <1>1, <2>2 DEF IsConnected, Without, Closed
    <3>2. Closed' /\ Disconnected \notin Changing
      BY <1>1, <2>2 DEF Without, Closed, Disconnected, Changing
    <3> QED
      BY <1>1, <3>1, <3>2, Labels, BusyStep
  <2>3. CASE Ending(t)
    <3>1. conn # None /\ numRef > 0
      BY <2>3, SessionAssumption DEF Ending, Counted
    <3>2. PICK label \in {"isRef", "close"} : Goto(t, label)
      BY <3>1 DEF IsConnected
    <3>3. pc'[t] = label /\ label \in Changing /\ label \in Calls
      BY <3>2, GotoFacts, Labels DEF Changing
    <3>4. Ending(t)'
      BY <1>1, <2>3, <3>3 DEF Ending, Counted
    <3> QED
      BY <1>1, <3>2, <3>3, <3>4, BusyStep
  <2> QED
    BY <2>1, <2>2, <2>3
<1> QED
  BY <1>2, <1>3

(* Recording a session.                                                    *)
LEMMA OpenedCounts ==
  ASSUME TypeOK, SessInv, NEW t \in Threads, Busy(t), Goto(t, "idle"), Opened(t),
         UNCHANGED <<locking, overlapped, stray>>,
         Careful => conn' = want[t] /\ strConn' = conn' /\ numRef' = Cardinality(sessions) + 1,
         Careful => \A s \in sessions : s[2] = want[t]
  PROVE  SessInv'
<1>1. pc'[t] = "idle" /\ \A u \in Threads \ {t} : pc'[u] = pc[u]
  BY GotoFacts, Labels
<1>2. PICK n \in Numbers : /\ <<t, want[t], n>> \notin sessions
                           /\ sessions' = sessions \cup {<<t, want[t], n>>}
  BY OpenedFacts
<1>3. /\ IsFiniteSet(sessions') /\ Cardinality(sessions) \in Nat
      /\ Cardinality(sessions') = Cardinality(sessions) + 1
  BY <1>2, FS_AddElement, FS_CardinalityType DEF SessInv
<1>4. ~Busy(t)' /\ want[t] \in DBs
  BY <1>1 DEF Busy, Changing, TypeOK
<1>5. Careful => Counted(0)'
  BY <1>2, <1>3, <1>4 DEF Counted
<1>6. Careful => \A u \in Threads \ {t} : ~Busy(u)
  BY BusyAlone
<1>7. Careful' = Careful
  BY DEF Careful
<1> QED
  BY <1>1, <1>3, <1>4, <1>5, <1>6, <1>7, SessStep

LEMMA SqlConnKeeps ==
  ASSUME TypeOK, SessInv, NEW t \in Threads, SqlConn(t)
  PROVE  SessInv'
<1>1. UNCHANGED <<strConn, want, locking, overlapped, stray>> /\ pc[t] = "connect" /\ Busy(t)
  BY DEF SqlConn, Holding, callers, Busy, Changing
<1>2. Careful => Without(t) \/ Joining(t)
  BY <1>1, BusyAlone DEF Opening, Ending
<1>3. CASE ShareHandle(t)
  <2>1. /\ Goto(t, "idle") /\ Opened(t) /\ numRef' = numRef + 1 /\ conn' = conn
        /\ conn # None /\ strConn = want[t]
    BY <1>3 DEF ShareHandle, Leave
  <2>2. Careful => Counted(0)
    BY <1>2, <2>1 DEF Without, Closed, Joining
  <2>3. Cardinality(sessions) \in Nat
    BY FS_CardinalityType DEF SessInv
  <2>4. Careful => /\ conn' = want[t] /\ strConn' = conn'
                       /\ numRef' = Cardinality(sessions) + 1
                       /\ \A s \in sessions : s[2] = want[t]
    BY <1>1, <2>1, <2>2, <2>3 DEF Counted
  <2> QED
    BY <1>1, <2>1, <2>4, OpenedCounts
<1>4. CASE AlreadyConnected(t)
  <2>1. Goto(t, Refused) /\ UNCHANGED <<conn, numRef, sessions>> /\ conn # None
    BY <1>4 DEF AlreadyConnected, Leave
  <2>2. Careful => Refused = "idle" /\ Counted(0)'
    BY <1>1, <1>2, <2>1 DEF Without, Closed, Joining, Refused, Counted
  <2> QED
    BY <1>1, <2>1, <2>2, Labels, BusyStep DEF Changing
<1>5. CASE OpenHandle(t)
  <2>1. conn = None /\ UNCHANGED <<numRef, sessions>>
    BY <1>5 DEF OpenHandle
  <2>2. PICK label \in {"encode", "cleanup"} :
          /\ Goto(t, label)
          /\ IF label = "encode" THEN conn' = want[t] ELSE conn' \in {None, Bare}
    BY <1>5 DEF OpenHandle, Leave
  <2>3. pc'[t] = label /\ label \in Calls /\ label \in Changing
    BY <2>2, GotoFacts, Labels DEF Changing
  <2>4. want[t] # None /\ Bare # None
    BY SessionAssumption DEF TypeOK
  <2>5. Careful => (Without(t) \/ Opening(t))'
    BY <1>1, <1>2, <2>1, <2>2, <2>3, <2>4, SessionAssumption
       DEF Without, Opening, Joining, Closed, Counted
  <2> QED
    BY <1>1, <2>1, <2>2, <2>3, <2>5, BusyStep
<1> QED
  BY <1>3, <1>4, <1>5 DEF SqlConn

LEMMA SetEncodeKeeps ==
  ASSUME TypeOK, SessInv, NEW t \in Threads, SetEncode(t)
  PROVE  SessInv'
<1>1. /\ UNCHANGED <<conn, strConn, numRef, want, sessions, locking, overlapped, stray>>
      /\ pc[t] = "encode" /\ Busy(t)
  BY DEF SetEncode, Holding, helper, callers, Busy, Changing
<1>2. PICK label \in {"record", "cleanup"} : Goto(t, label)
  BY DEF SetEncode, Leave
<1>3. pc'[t] = label /\ label \in Calls /\ label \in Changing
  BY <1>2, GotoFacts, Labels DEF Changing
<1>4. Careful => Opening(t)
  BY <1>1, BusyAlone DEF Without, Joining, Ending
<1>5. Careful => Opening(t)'
  BY <1>1, <1>3, <1>4 DEF Opening
<1> QED
  BY <1>1, <1>2, <1>3, <1>5, BusyStep

LEMMA RecordKeeps ==
  ASSUME TypeOK, SessInv, NEW t \in Threads, Record(t)
  PROVE  SessInv'
<1>1. /\ UNCHANGED <<conn, want, locking, overlapped, stray>> /\ pc[t] = "record" /\ Busy(t)
      /\ strConn' = want[t] /\ numRef' = 1 /\ Opened(t) /\ Goto(t, "idle")
  BY DEF Record, Holding, Leave, callers, Busy, Changing
<1>2. Careful => Opening(t)
  BY <1>1, BusyAlone DEF Without, Joining, Ending
<1>3. Careful => conn = want[t] /\ sessions = {}
  BY <1>1, <1>2 DEF Opening
<1> QED
  BY <1>1, <1>3, FS_EmptySet, OpenedCounts

LEMMA SqlCloseKeeps ==
  ASSUME TypeOK, SessInv, NEW t \in Threads, SqlClose(t)
  PROVE  SessInv'
<1>1. /\ UNCHANGED <<strConn, want, sessions, locking, overlapped, stray>>
      /\ numRef' = IF conn # None /\ numRef > 0 THEN numRef - 1 ELSE numRef
      /\ conn' = IF numRef' = 0 THEN None ELSE conn
      /\ pc[t] \in {"close", "cleanup"} /\ Busy(t)
  BY DEF SqlClose, Holding, callers, Busy, Changing
<1>2. CASE pc[t] = "close"
  <2>1. Goto(t, Disconnected) /\ Disconnected \notin Changing
    BY <1>2, Labels DEF SqlClose, Holding, Leave, Disconnected, Changing
  <2>2. Careful => Ending(t)
    BY <1>1, <1>2, BusyAlone DEF Without, Opening, Joining
  <2>3. Cardinality(sessions) \in Nat /\ (Cardinality(sessions) = 0 <=> sessions = {})
    BY FS_CardinalityType, FS_EmptySet DEF SessInv
  <2>4. Careful => numRef' = Cardinality(sessions)
    BY <1>1, <2>2, <2>3, SessionAssumption DEF Ending, Counted
  <2>5. Careful => (Closed \/ Counted(0))'
    BY <1>1, <2>2, <2>3, <2>4 DEF Closed, Ending, Counted
  <2> QED
    BY <1>1, <2>1, <2>5, Labels, BusyStep
<1>3. CASE pc[t] = "cleanup"
  <2>1. Goto(t, Refused)
    BY <1>3 DEF SqlClose, Holding, Leave
  <2>2. Careful => numRef = 0 /\ sessions = {}
    BY <1>1, <1>3, BusyAlone DEF Without, Closed, Opening, Joining, Ending
  <2>3. Careful => Closed'
    BY <1>1, <2>2 DEF Closed
  <2>4. pc'[t] = Refused
    BY <2>1, Labels, GotoFacts
  <2>5. Careful /\ Refused \in Changing => Without(t)'
    BY <2>3, <2>4 DEF Without, Refused, Changing
  <2> QED
    BY <1>1, <2>1, <2>3, <2>5, Labels, BusyStep
<1> QED
  BY <1>1, <1>2, <1>3

(* Entering a section, giving m_conn_mutex back and querying.              *)
LEMMA OthersKeep ==
  ASSUME TypeOK, SessInv, NEW t \in Threads,
         Enter(t) \/ UnlockLib(t) \/ Query(t) \/ Execute(t) \/ StoreResult(t)
  PROVE  SessInv'
<1>1. UNCHANGED <<conn, strConn, numRef, want, sessions, locking, overlapped, stray>>
  BY DEF Enter, UnlockLib, Query, Execute, StoreResult, helper, callers
<1>2. CASE Enter(t)
  BY <1>1, <1>2, SessSame DEF Enter, Busy
<1>3. CASE ~Enter(t)
  <2>1. pc[t] \in {"unlock", "idle", "query", "store"}
    BY <1>3 DEF UnlockLib, Query, Execute, StoreResult, Holding
  <2>2. PICK label \in {"idle", "query", "store"} : Goto(t, label)
    BY <1>3 DEF UnlockLib, Query, Execute, StoreResult, Leave
  <2>3. pc'[t] = label /\ \A u \in Threads \ {t} : pc'[u] = pc[u]
    BY <2>2, GotoFacts, Labels
  <2>4. \A u \in Threads : Busy(u)' = Busy(u)
    BY <2>1, <2>3 DEF Busy, Changing
  <2>5. \A u \in Threads : Busy(u) => pc'[u] = pc[u]
    BY <2>1, <2>3 DEF Busy, Changing
  <2> QED
    BY <1>1, <2>4, <2>5, SessSame
<1> QED
  BY <1>2, <1>3

THEOREM SessionInvariant == Spec => []SessInv
<1>1. Init => SessInv
  BY FS_EmptySet DEF Init, SessInv, Closed, Busy, Changing
<1>2. TypeOK /\ LockInv /\ SessInv /\ [Next]_vars => SessInv'
  <2> SUFFICES ASSUME TypeOK, LockInv, SessInv, [Next]_vars PROVE SessInv'
    OBVIOUS
  <2>1. ASSUME NEW t \in Threads,
               ConnectToLib(t) \/ NoConfiguration(t) \/ DisConnFromLib(t) \/ Query(t) \/ Step(t)
        PROVE  SessInv'
    BY <2>1, ConnectToLibKeeps, NoConfigurationKeeps, DisConnFromLibKeeps,
       LockLibKeeps, IsConnectedKeeps, SqlConnKeeps, SetEncodeKeeps, RecordKeeps, SqlCloseKeeps, OthersKeep DEF Step
  <2>2. CASE UNCHANGED vars
    BY <2>2, SessSame DEF vars, helper, callers, Busy
  <2> QED
    BY <2>1, <2>2 DEF Next
<1> QED
  BY <1>1, <1>2, Typing, LockInvariant, PTL DEF Spec

(* A session has its database from the connect that made it to its end, as *)
(* long as callers take care (no two connects or disconnects overlap, none *)
(* disconnects for whom nothing was locked), however many others are       *)
(* shared, refused or fail in between (CMySqlHelper::SqlConn, SqlClose).   *)
THEOREM SessionsKept == Spec => []SessionKept
<1>1. SessInv => SessionKept
  BY DEF SessInv, SessionKept, Closed, Counted, Without, Opening, Joining, Ending
<1> QED
  BY <1>1, SessionInvariant, PTL

(* m_numRef is the number of sessions and the handle is closed with the    *)
(* last of them, as long as callers take the same care.                    *)
THEOREM ReferencesExact == Spec => []CountExact
<1>1. SessInv => CountExact
  <2> SUFFICES ASSUME SessInv, Careful, \A t \in Threads : ~Busy(t)
               PROVE  /\ numRef = Cardinality(sessions)
                      /\ conn # None <=> sessions # {}
    BY DEF CountExact
  <2>1. Cardinality(sessions) \in Nat
    BY FS_CardinalityType DEF SessInv
  <2>2. CASE Closed
    BY <2>2, FS_EmptySet DEF Closed
  <2>3. CASE Counted(0)
    BY <2>1, <2>3, FS_EmptySet, SessionAssumption DEF Counted
  <2> QED
    BY <2>2, <2>3 DEF SessInv
<1> QED
  BY <1>1, SessionInvariant, PTL

-----------------------------------------------------------------------------
(* A thread whose answer waits has the mutex, so no other can close the    *)
(* handle or send a statement.                                             *)
AnswerInv ==
  \A t \in Threads : pc[t] = "store" => mutex = t /\ answer = t /\ conn # None

(* A step that does not lead to "store" and leaves the connection alone.   *)
LEMMA AnswerStays ==
  ASSUME TypeOK, AnswerInv, NEW t \in Threads, pc[t] # "store", UNCHANGED <<conn, answer, mutex>>,
         NEW label \in Calls \ {"store"}, Goto(t, label)
  PROVE  AnswerInv'
BY GotoFacts DEF AnswerInv

(* A step under the mutex that gives it up.                                *)
LEMMA AnswerLeaves ==
  ASSUME TypeOK, AnswerInv, NEW t \in Threads, mutex = t,
         NEW label \in Calls \ {"store"}, Leave(t, label)
  PROVE  AnswerInv'
<1>1. \A u \in Threads \ {t} : pc'[u] = pc[u] /\ pc[u] # "store"
  BY GotoFacts DEF AnswerInv, Leave
<1> QED
  BY <1>1, GotoFacts DEF AnswerInv, Leave

(* However calls overlap, a thread reads its own answer, from an open      *)
(* handle: ExecuteQuery keeps the mutex in between (MySqlHelper.cpp:127).  *)
THEOREM AnswersOwned == Spec => OwnAnswer
<1>1. Init => AnswerInv
  BY DEF Init, AnswerInv
<1>2. TypeOK /\ AnswerInv /\ [Next]_vars => AnswerInv'
  <2> SUFFICES ASSUME TypeOK, AnswerInv, [Next]_vars PROVE AnswerInv'
    OBVIOUS
  <2>1. ASSUME NEW t \in Threads, ConnectToLib(t) PROVE AnswerInv'
    <3>1. PICK label \in {"lock", "connect"} : Goto(t, label)
      BY <2>1 DEF ConnectToLib
    <3> QED
      BY <2>1, <3>1, Labels, AnswerStays DEF ConnectToLib, helper
  <2>2. ASSUME NEW t \in Threads, LockLib(t) PROVE AnswerInv'
    BY <2>2, Labels, AnswerStays DEF LockLib, helper
  <2>3. ASSUME NEW t \in Threads, DisConnFromLib(t) PROVE AnswerInv'
    BY <2>3, Labels, AnswerStays DEF DisConnFromLib, helper
  <2>4. ASSUME NEW t \in Threads, IsConnected(t) PROVE AnswerInv'
    <3>1. PICK label \in {"isRef", "close", "idle", "unlock"} : Goto(t, label)
      BY <2>4, Labels DEF IsConnected
    <3> QED
      BY <2>4, <3>1, Labels, AnswerStays DEF IsConnected, helper
  <2>5. ASSUME NEW t \in Threads, UnlockLib(t) PROVE AnswerInv'
    BY <2>5, Labels, AnswerStays DEF UnlockLib, helper
  <2>6. ASSUME NEW t \in Threads, Query(t) PROVE AnswerInv'
    BY <2>6, Labels, AnswerStays DEF Query, helper
  <2>7. ASSUME NEW t \in Threads, Enter(t) PROVE AnswerInv'
    BY <2>7, SessionAssumption DEF Enter, AnswerInv, helper
  <2>8. ASSUME NEW t \in Threads, SqlConn(t) PROVE AnswerInv'
    <3>1. PICK label \in {"idle", "isConn", "encode", "cleanup"} : Leave(t, label)
      BY <2>8, Labels DEF SqlConn, ShareHandle, AlreadyConnected, OpenHandle
    <3> QED
      BY <2>8, <3>1, Labels, AnswerLeaves DEF SqlConn, Holding
  <2>9. ASSUME NEW t \in Threads, SetEncode(t) PROVE AnswerInv'
    BY <2>9, Labels, AnswerLeaves DEF SetEncode, Holding
  <2>10. ASSUME NEW t \in Threads, Record(t) PROVE AnswerInv'
    BY <2>10, Labels, AnswerLeaves DEF Record, Holding
  <2>11. ASSUME NEW t \in Threads, SqlClose(t) PROVE AnswerInv'
    <3>1. PICK label \in {"idle", "isConn", "unlock"} : Leave(t, label)
      BY <2>11, Labels DEF SqlClose
    <3> QED
      BY <2>11, <3>1, Labels, AnswerLeaves DEF SqlClose, Holding
  <2>12. ASSUME NEW t \in Threads, Execute(t) PROVE AnswerInv'
    <3>1. CASE Leave(t, "idle")
      BY <2>12, <3>1, Labels, AnswerLeaves DEF Execute, Holding
    <3>2. CASE conn # None /\ answer' = t /\ Goto(t, "store") /\ UNCHANGED mutex
      BY <2>12, <3>2, Labels, GotoFacts DEF Execute, Holding, AnswerInv, helper
    <3> QED
      BY <2>12, <3>1, <3>2 DEF Execute
  <2>13. ASSUME NEW t \in Threads, StoreResult(t) PROVE AnswerInv'
    BY <2>13, Labels, AnswerLeaves DEF StoreResult, AnswerInv
  <2>14. CASE UNCHANGED vars
    BY <2>14 DEF AnswerInv, vars, helper
  <2>15. ASSUME NEW t \in Threads, NoConfiguration(t) PROVE AnswerInv'
    BY <2>15, Labels, AnswerStays DEF NoConfiguration, helper
  <2> QED
    BY <2>1, <2>2, <2>3, <2>4, <2>5, <2>6, <2>7, <2>8, <2>9, <2>10, <2>11, <2>12, <2>13,
       <2>14, <2>15 DEF Next, Step
<1>3. AnswerInv => \A t \in Threads : StoreResult(t) => answer = t /\ conn # None
  BY DEF AnswerInv, StoreResult
<1> QED
  BY <1>1, <1>2, <1>3, Typing, PTL DEF Spec, OwnAnswer

-----------------------------------------------------------------------------
(* Nobody is stuck: what a thread in a call may wait for.                  *)

Waits(t, u) ==
  /\ u # t
  /\ \/ pc[t] = "lock" /\ libMutex = u
     \/ pc[t] \in Inside \ {"store"} /\ mutex = u

(* When a thread in a call can take its next step; when one that is in no  *)
(* call has a session to end.                                              *)
MayGo(t) ==
  /\ pc[t] # "idle"
  /\ pc[t] = "lock" => libMutex = None
  /\ pc[t] \in Inside => mutex \in {None, t}
  /\ pc[t] \in {"connect", "record"} => Unused(t) # {}
MayEnd(t) == pc[t] = "idle" /\ Of(t) # {}

(* A thread that waits, waits for one that can go on, for one with a       *)
(* session to end, or, for m_conn_mutex, for one that waits for            *)
(* m_sqlConn_mutex, which is with one that can go on.  Nobody waits for    *)
(* itself.                                                                 *)
NobodyStuck ==
  \A t \in Threads : pc[t] # "idle" =>
    \/ MayGo(t)
    \/ \E u \in Threads :
         /\ Waits(t, u)
         /\ MayGo(u) \/ MayEnd(u) \/ \E v \in Threads : Waits(u, v) /\ MayGo(v)

(* m_sqlConn_mutex is held inside its sections only, m_conn_mutex never by *)
(* one that is to lock it and, outside calls, only for a session.          *)
HeldInv ==
  /\ \A t \in Threads : mutex = t => pc[t] \in Inside
  /\ \A t \in Threads : pc[t] = "store" => mutex = t
  /\ \A t \in Threads : pc[t] \in {"query", "store"} => Of(t) # {}
  /\ \A t \in Threads : pc[t] = "lock" => locking
  /\ \A t \in Threads : pc[t] \in {"lock", "connect", "encode", "record"} => Unused(t) # {}
  /\ \A t \in Threads : libMutex = t => locking /\ Within(t) /\ pc[t] # "lock"

(* What a step of t to a label has to see to.                              *)
SeenTo(t, label) ==
  /\ locking' = locking
  /\ \A u \in Threads \ {t} : /\ Of(u)' = Of(u)
                              /\ mutex' = u <=> mutex = u
                              /\ libMutex' = u => libMutex = u
  /\ mutex' = t => label \in Inside
  /\ label = "store" => mutex' = t
  /\ label \in {"query", "store"} => Of(t)' # {}
  /\ label = "lock" => locking
  /\ label \in {"lock", "connect", "encode", "record"} => Unused(t)' # {}
  /\ libMutex' = t => locking /\ label # "lock" /\ (label = "idle" => Of(t)' # {})

LEMMA HeldStep ==
  ASSUME TypeOK, HeldInv, NEW t \in Threads, NEW label \in Calls, Goto(t, label),
         SeenTo(t, label)
  PROVE  HeldInv'
<1>1. pc'[t] = label /\ \A u \in Threads \ {t} : pc'[u] = pc[u]
  BY GotoFacts
<1>2. \A u \in Threads \ {t} : Unused(u)' = Unused(u)
  BY DEF SeenTo, Unused
<1>3. \A u \in Threads \ {t} : Within(u)' = Within(u)
  BY <1>1 DEF SeenTo, Within
<1>4. \A u \in Threads : mutex' = u => pc'[u] \in Inside
  BY <1>1 DEF SeenTo, HeldInv
<1>5. \A u \in Threads : pc'[u] = "store" => mutex' = u
  BY <1>1 DEF SeenTo, HeldInv
<1>6. \A u \in Threads : pc'[u] \in {"query", "store"} => Of(u)' # {}
  BY <1>1 DEF SeenTo, HeldInv
<1>7. \A u \in Threads : pc'[u] = "lock" => locking'
  BY <1>1 DEF SeenTo, HeldInv
<1>8. \A u \in Threads : pc'[u] \in {"lock", "connect", "encode", "record"} => Unused(u)' # {}
  BY <1>1, <1>2 DEF SeenTo, HeldInv
<1>9. \A u \in Threads : libMutex' = u => locking' /\ Within(u)' /\ pc'[u] # "lock"
  <2>1. libMutex' = t => Within(t)'
    BY <1>1 DEF SeenTo, Within
  <2> QED
    BY <1>1, <1>3, <2>1 DEF SeenTo, HeldInv
<1> QED
  BY <1>4, <1>5, <1>6, <1>7, <1>8, <1>9 DEF HeldInv

(* Steps that make and end no session.                                     *)
LEMMA SessionsSame ==
  ASSUME sessions' = sessions
  PROVE  \A u : Of(u)' = Of(u) /\ Unused(u)' = Unused(u)
BY DEF Of, Unused

(* A step that makes a session is one out of a section, to no call.        *)
LEMMA OpenedHeld ==
  ASSUME TypeOK, HeldInv, NEW t \in Threads, mutex = t, Opened(t), Leave(t, "idle"),
         UNCHANGED <<libMutex, locking>>
  PROVE  HeldInv'
<1>1. PICK n \in Numbers : sessions' = sessions \cup {<<t, want[t], n>>}
  BY OpenedFacts
<1>2. \A u \in Threads \ {t} : Of(u)' = Of(u)
  BY <1>1 DEF Of
<1>3. Of(t)' # {}
  <2>1. <<t, want[t], n>> \in Of(t)'
    BY <1>1 DEF Of
  <2> QED
    BY <2>1
<1>4. mutex' = None /\ Goto(t, "idle") /\ None \notin Threads
  BY SessionAssumption DEF Leave
<1>5. SeenTo(t, "idle")
  BY <1>2, <1>3, <1>4 DEF SeenTo, HeldInv
<1> QED
  BY <1>4, <1>5, HeldStep, Labels

(* A step out of a section to a label other than "store".                  *)
LEMMA LeaveHeld ==
  ASSUME TypeOK, HeldInv, NEW t \in Threads, mutex = t, UNCHANGED <<libMutex, locking, sessions>>,
         NEW label \in Calls \ {"lock", "query", "store"}, Leave(t, label),
         label \in {"encode", "record"} => pc[t] \in {"connect", "encode"},
         label # "connect",
         label = "idle" => ~locking \/ pc[t] \in {"query", "store"}
  PROVE  HeldInv'
<1>1. \A u \in Threads : Of(u)' = Of(u) /\ Unused(u)' = Unused(u)
  BY SessionsSame
<1>2. mutex' = None /\ Goto(t, label) /\ None \notin Threads
  BY SessionAssumption DEF Leave
<1>3. label \in {"lock", "connect", "encode", "record"} => Unused(t)' # {}
  BY <1>1 DEF HeldInv
<1>4. libMutex' = t => locking /\ label # "lock" /\ (label = "idle" => Of(t)' # {})
  BY <1>1 DEF HeldInv
<1>5. SeenTo(t, label)
  BY <1>1, <1>2, <1>3, <1>4 DEF SeenTo
<1> QED
  BY <1>2, <1>5, HeldStep

LEMMA HeldInductive ==
  ASSUME TypeOK, HeldInv, [Next]_vars
  PROVE  HeldInv'
<1>1. ASSUME NEW t \in Threads, ConnectToLib(t) PROVE HeldInv'
  <2>1. /\ UNCHANGED <<sessions, mutex, libMutex, locking>>
        /\ pc[t] = "idle" /\ Unused(t) # {}
    BY <1>1 DEF ConnectToLib, Begins, callers
  <2>2. \A u \in Threads : Of(u)' = Of(u) /\ Unused(u)' = Unused(u)
    BY <2>1, SessionsSame
  <2>3. mutex # t
    BY <2>1 DEF HeldInv, Inside
  <2>4. CASE locking /\ Of(t) = {} /\ Goto(t, "lock")
    <3>1. libMutex # t
      BY <2>1, <2>4 DEF HeldInv, Within
    <3>2. SeenTo(t, "lock")
      BY <2>1, <2>2, <2>3, <2>4, <3>1 DEF SeenTo
    <3> QED
      BY <2>4, <3>2, HeldStep, Labels
  <2>5. CASE ~locking /\ Goto(t, "connect")
    <3>1. libMutex # t
      BY <2>5 DEF HeldInv
    <3>2. SeenTo(t, "connect")
      BY <2>1, <2>2, <2>3, <3>1 DEF SeenTo
    <3> QED
      BY <2>5, <3>2, HeldStep, Labels
  <2> QED
    BY <1>1, <2>4, <2>5 DEF ConnectToLib
<1>2. ASSUME NEW t \in Threads, LockLib(t) PROVE HeldInv'
  <2>1. /\ UNCHANGED <<sessions, mutex, locking>> /\ libMutex' = t
        /\ pc[t] = "lock" /\ Goto(t, "connect")
    BY <1>2 DEF LockLib, Begins
  <2>2. \A u \in Threads : Of(u)' = Of(u) /\ Unused(u)' = Unused(u)
    BY <2>1, SessionsSame
  <2>3. mutex # t /\ locking /\ Unused(t) # {}
    BY <2>1 DEF HeldInv, Inside
  <2>4. SeenTo(t, "connect")
    BY <2>1, <2>2, <2>3 DEF SeenTo
  <2> QED
    BY <2>1, <2>4, HeldStep, Labels
<1>3. ASSUME NEW t \in Threads, DisConnFromLib(t) PROVE HeldInv'
  <2>1. /\ UNCHANGED <<mutex, libMutex, locking>>
        /\ pc[t] = "idle" /\ Goto(t, "isConn")
    BY <1>3 DEF DisConnFromLib, Begins
  <2>2. PICK s \in Of(t) : sessions' = sessions \ {s}
    BY <1>3 DEF DisConnFromLib
  <2>3. \A u \in Threads \ {t} : Of(u)' = Of(u)
    BY <2>2 DEF Of
  <2>4. mutex # t /\ (libMutex = t => locking)
    BY <2>1 DEF HeldInv, Inside
  <2>5. SeenTo(t, "isConn")
    BY <2>1, <2>3, <2>4 DEF SeenTo
  <2> QED
    BY <2>1, <2>5, HeldStep, Labels
<1>4. ASSUME NEW t \in Threads, IsConnected(t) PROVE HeldInv'
  <2>1. /\ UNCHANGED <<sessions, mutex, libMutex, locking>>
        /\ pc[t] \in {"isConn", "isRef"}
    BY <1>4 DEF IsConnected, callers
  <2>2. PICK label \in {"isRef", "close", "idle", "unlock"} :
          Goto(t, label) /\ (label = "idle" => ~locking)
    BY <1>4 DEF IsConnected, Disconnected
  <2>3. \A u \in Threads : Of(u)' = Of(u) /\ Unused(u)' = Unused(u)
    BY <2>1, SessionsSame
  <2>4. mutex # t /\ (libMutex = t => locking)
    BY <2>1 DEF HeldInv, Inside
  <2>5. SeenTo(t, label)
    BY <2>1, <2>2, <2>3, <2>4 DEF SeenTo
  <2> QED
    BY <2>2, <2>5, HeldStep, Labels
<1>5. ASSUME NEW t \in Threads, UnlockLib(t) PROVE HeldInv'
  <2>1. /\ UNCHANGED <<sessions, mutex, locking>> /\ libMutex' = None
        /\ pc[t] = "unlock" /\ Goto(t, "idle")
    BY <1>5 DEF UnlockLib, callers
  <2>2. \A u \in Threads : Of(u)' = Of(u)
    BY <2>1, SessionsSame
  <2>3. mutex # t /\ None \notin Threads
    BY <2>1, SessionAssumption DEF HeldInv, Inside
  <2>4. SeenTo(t, "idle")
    BY <2>1, <2>2, <2>3 DEF SeenTo
  <2> QED
    BY <2>1, <2>4, HeldStep, Labels
<1>6. ASSUME NEW t \in Threads, Query(t) PROVE HeldInv'
  <2>1. /\ UNCHANGED <<sessions, mutex, libMutex, locking>>
        /\ pc[t] = "idle" /\ Of(t) # {} /\ Goto(t, "query")
    BY <1>6 DEF Query, callers
  <2>2. \A u \in Threads : Of(u)' = Of(u)
    BY <2>1, SessionsSame
  <2>3. mutex # t /\ (libMutex = t => locking)
    BY <2>1 DEF HeldInv, Inside
  <2>4. SeenTo(t, "query")
    BY <2>1, <2>2, <2>3 DEF SeenTo
  <2> QED
    BY <2>1, <2>4, HeldStep, Labels
<1>7. ASSUME NEW t \in Threads, Enter(t) PROVE HeldInv'
  <2>1. /\ UNCHANGED <<sessions, pc, libMutex, locking>>
        /\ mutex = None /\ mutex' = t /\ pc[t] \in Inside \ {"store"}
    BY <1>7 DEF Enter, callers
  <2>2. \A u \in Threads : Of(u)' = Of(u) /\ Unused(u)' = Unused(u)
    BY <2>1, SessionsSame
  <2>3. \A u \in Threads : pc[u] # "store"
    BY <2>1, SessionAssumption DEF HeldInv
  <2> QED
    BY <2>1, <2>2, <2>3 DEF HeldInv, Within
<1>8. ASSUME NEW t \in Threads, SqlConn(t) PROVE HeldInv'
  <2>1. mutex = t /\ pc[t] = "connect" /\ UNCHANGED <<libMutex, locking>>
    BY <1>8 DEF SqlConn, Holding, callers
  <2>2. CASE ShareHandle(t)
    BY <2>1, <2>2, OpenedHeld DEF ShareHandle
  <2>3. CASE AlreadyConnected(t) \/ OpenHandle(t)
    <3>1. PICK label \in {"idle", "isConn", "encode", "cleanup"} :
            Leave(t, label) /\ (label = "idle" => ~locking)
      BY <2>3 DEF AlreadyConnected, OpenHandle, Refused
    <3>2. sessions' = sessions
      BY <2>3 DEF AlreadyConnected, OpenHandle
    <3> QED
      BY <2>1, <3>1, <3>2, LeaveHeld, Labels
  <2> QED
    BY <1>8, <2>2, <2>3 DEF SqlConn
<1>9. ASSUME NEW t \in Threads, SetEncode(t) PROVE HeldInv'
  <2>1. PICK label \in {"record", "cleanup"} : Leave(t, label)
    BY <1>9 DEF SetEncode
  <2>2. mutex = t /\ pc[t] = "encode" /\ UNCHANGED <<sessions, libMutex, locking>>
    BY <1>9 DEF SetEncode, Holding, callers
  <2> QED
    BY <2>1, <2>2, LeaveHeld, Labels
<1>10. ASSUME NEW t \in Threads, Record(t) PROVE HeldInv'
  BY <1>10, OpenedHeld DEF Record, Holding, callers
<1>11. ASSUME NEW t \in Threads, SqlClose(t) PROVE HeldInv'
  <2>1. PICK label \in {"idle", "isConn", "unlock"} :
          Leave(t, label) /\ (label = "idle" => ~locking)
    BY <1>11 DEF SqlClose, Refused, Disconnected
  <2>2. mutex = t /\ UNCHANGED <<sessions, libMutex, locking>>
    BY <1>11 DEF SqlClose, Holding, callers
  <2> QED
    BY <2>1, <2>2, LeaveHeld, Labels
<1>12. ASSUME NEW t \in Threads, Execute(t) PROVE HeldInv'
  <2>1. mutex = t /\ pc[t] = "query" /\ UNCHANGED <<sessions, libMutex, locking>>
    BY <1>12 DEF Execute, Holding, callers
  <2>2. CASE Leave(t, "idle")
    BY <2>1, <2>2, LeaveHeld, Labels
  <2>3. CASE Goto(t, "store") /\ UNCHANGED mutex
    <3>1. \A u \in Threads : Of(u)' = Of(u)
      BY <2>1, SessionsSame
    <3>2. SeenTo(t, "store")
      BY <2>1, <2>3, <3>1 DEF SeenTo, HeldInv, Inside
    <3> QED
      BY <2>3, <3>2, HeldStep, Labels
  <2> QED
    BY <1>12, <2>2, <2>3 DEF Execute
<1>13. ASSUME NEW t \in Threads, StoreResult(t) PROVE HeldInv'
  <2>1. pc[t] = "store" /\ Leave(t, "idle") /\ UNCHANGED <<sessions, libMutex, locking>>
    BY <1>13 DEF StoreResult, callers
  <2>2. mutex = t
    BY <2>1 DEF HeldInv
  <2> QED
    BY <2>1, <2>2, LeaveHeld, Labels
<1>14. CASE UNCHANGED vars
  <2>1. UNCHANGED <<sessions, pc, mutex, libMutex, locking>>
    BY <1>14 DEF vars, callers
  <2> QED
    BY <2>1, SessionsSame DEF HeldInv, Within
<1>15. ASSUME NEW t \in Threads, NoConfiguration(t) PROVE HeldInv'
  <2>1. /\ UNCHANGED <<sessions, mutex, libMutex, locking>>
        /\ pc[t] = "idle" /\ locking /\ Of(t) = {} /\ Goto(t, "isConn")
    BY <1>15 DEF NoConfiguration, Begins, Refused
  <2>2. \A u \in Threads : Of(u)' = Of(u) /\ Unused(u)' = Unused(u)
    BY <2>1, SessionsSame
  <2>3. mutex # t /\ libMutex # t
    BY <2>1 DEF HeldInv, Inside, Within
  <2>4. SeenTo(t, "isConn")
    BY <2>1, <2>2, <2>3 DEF SeenTo
  <2> QED
    BY <2>1, <2>4, HeldStep, Labels
<1> QED
  BY <1>1, <1>2, <1>3, <1>4, <1>5, <1>6, <1>7, <1>8, <1>9, <1>10, <1>11, <1>12, <1>13, <1>14,
     <1>15 DEF Next, Step

(* The mutexes are taken in one order, m_conn_mutex first, and neither is  *)
(* asked for by the thread that has it: every thread in a call can go on,  *)
(* or some thread it waits for, directly or through one more, can, or has  *)
(* its own session to end (CLib::ConnectToLib, CMySqlHelper, all exits).   *)
THEOREM NobodyIsStuck == Spec => []NobodyStuck
<1>1. Init => HeldInv
  BY SessionAssumption DEF Init, HeldInv, Within, Of
<1>2. TypeOK /\ HeldInv => NobodyStuck
  <2> SUFFICES ASSUME TypeOK, HeldInv, NEW t \in Threads, pc[t] # "idle", ~MayGo(t)
               PROVE  \E u \in Threads :
                        /\ Waits(t, u)
                        /\ MayGo(u) \/ MayEnd(u) \/ \E v \in Threads : Waits(u, v) /\ MayGo(v)
    BY DEF NobodyStuck
  <2>1. ASSUME NEW u \in Threads, mutex = u PROVE MayGo(u)
    BY <2>1 DEF HeldInv, MayGo, Inside
  <2>2. ASSUME NEW u \in Threads, pc[u] \notin {"idle", "lock"}, ~MayGo(u)
        PROVE  \E v \in Threads : Waits(u, v) /\ MayGo(v)
    <3>1. pc[u] \in Inside /\ mutex \in Threads \ {u}
      BY <2>2 DEF MayGo, HeldInv, TypeOK, Inside
    <3>2. Waits(u, mutex)
      BY <3>1 DEF Waits, HeldInv
    <3> QED
      BY <2>1, <3>1, <3>2
  <2>3. CASE pc[t] = "lock"
    <3>1. libMutex \in Threads /\ libMutex # t
      BY <2>3 DEF MayGo, HeldInv, TypeOK, Inside
    <3>2. Waits(t, libMutex)
      BY <2>3, <3>1 DEF Waits
    <3>3. MayEnd(libMutex) \/ pc[libMutex] \notin {"idle", "lock"}
      BY <3>1 DEF MayEnd, HeldInv, Within
    <3> QED
      BY <2>2, <3>1, <3>2, <3>3
  <2>4. CASE pc[t] # "lock"
    BY <2>2, <2>4
  <2> QED
    BY <2>3, <2>4
<1> QED
  BY <1>1, <1>2, HeldInductive, Typing, PTL DEF Spec
=============================================================================
