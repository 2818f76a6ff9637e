----------------------------- MODULE SqlSession -----------------------------
(***************************************************************************)
(* One CLib object and its CMySqlHelper, used by several threads.  A       *)
(* session is a ConnectToLib that succeeded and was not yet followed by    *)
(* its DisConnFromLib.  Sessions share one MySQL handle, which             *)
(* m_numRef counts; m_sqlConn_mutex guards each access to the handle, but  *)
(* SqlConn gives it up twice before it has recorded what it opened.        *)
(* Callers may ask ConnectToLib to hold m_conn_mutex until DisConnFromLib. *)
(* Those that do not may still take care that no two of their connects and *)
(* disconnects overlap, though their sessions and queries do; whether they *)
(* did is remembered.  So is a disconnect after a connect that was refused *)
(* before it locked anything, which ConnectToLib lets no caller tell from  *)
(* the other refusals.                                                     *)
(*                                                                         *)
(* Host, port, database, user and password make one connection string; a   *)
(* string is a member of DBs.                                              *)
(***************************************************************************)
EXTENDS Integers, FiniteSets

CONSTANTS Threads, DBs,
          MaxDepth,   \* bound: sessions one thread has at a time
          None, Bare  \* no handle; a handle not connected to a database

ASSUME SessionAssumption ==
  /\ MaxDepth \in Nat \ {0}
  /\ None \notin Threads \cup DBs /\ Bare \notin DBs /\ None # Bare

VARIABLES conn,       \* what m_pSqlConn leads to
          strConn,    \* m_strSqlConn; no close clears it
          numRef,     \* m_numRef
          mutex,      \* holder of m_sqlConn_mutex
          libMutex,   \* holder of m_conn_mutex
          answer,     \* the thread whose answer waits on the connection
          pc, want,   \* where a thread is, and the string it connects with
          sessions,   \* the sessions, <<thread, string, number>>
          locking,    \* callers pass lock = true
          overlapped, \* history: two connects or disconnects were under way at once
          stray       \* history: a caller disconnected for which nothing had been locked

helper == <<conn, strConn, numRef>>
callers == <<locking, overlapped, stray>>
vars == <<helper, mutex, libMutex, answer, pc, want, sessions, callers>>

Numbers == 1..MaxDepth
Of(t) == {s \in sessions : s[1] = t}

Inside == {"connect", "encode", "record", "cleanup", "close", "query", "store"}
Calls == {"idle", "lock", "isConn", "isRef", "unlock"} \cup Inside

(* Under way through SqlConn or SqlClose.                                  *)
Changing == {"connect", "encode", "record", "cleanup", "isConn", "isRef", "close"}
Busy(t) == pc[t] \in Changing

Goto(t, label) == pc' = [pc EXCEPT ![t] = label]
Leave(t, label) == mutex' = None /\ Goto(t, label)
Holding(t, label) == pc[t] = label /\ mutex = t

(* Faulty: a refused caller just returns, though it holds m_conn_mutex.    *)
RefusedForgets == "idle"

(* A caller that was refused while it holds m_conn_mutex disconnects to    *)
(* give it back; without the lock it just returns, as EtlDoWork does.      *)
Refused == IF locking THEN "isConn" ELSE "idle"
Disconnected == IF locking THEN "unlock" ELSE "idle"

Unused(t) == {n \in Numbers : \A s \in Of(t) : s[3] # n}
Opened(t) == \E n \in Unused(t) : sessions' = sessions \cup {<<t, want[t], n>>}

Begins(t) ==
  /\ overlapped' = (overlapped \/ \E u \in Threads \ {t} : Busy(u))
  /\ UNCHANGED locking

Init ==
  /\ conn = None /\ strConn = None /\ numRef = 0
  /\ mutex = None /\ libMutex = None /\ answer = None
  /\ pc = [t \in Threads |-> "idle"]
  /\ want \in [Threads -> DBs]
  /\ sessions = {}
  /\ locking \in BOOLEAN /\ overlapped = FALSE /\ stray = FALSE

-----------------------------------------------------------------------------
(* Library level.  m_conn_mutex is not recursive: a thread that locks has  *)
(* one session.                                                            *)
ConnectToLib(t) ==
  /\ pc[t] = "idle" /\ Unused(t) # {}
  /\ \E d \in DBs : want' = [want EXCEPT ![t] = d]
  /\ \/ locking /\ Of(t) = {} /\ Goto(t, "lock") /\ UNCHANGED callers
     \/ ~locking /\ Goto(t, "connect") /\ Begins(t) /\ UNCHANGED stray
  /\ UNCHANGED <<helper, mutex, libMutex, answer, sessions>>

(* When the configuration cannot be read ConnectToLib returns an error     *)
(* before it locks anything.  A caller that locks disconnects, as after    *)
(* any other refusal; for one that just returns nothing changes.           *)
NoConfiguration(t) ==
  /\ pc[t] = "idle" /\ locking /\ Of(t) = {}
  /\ Goto(t, Refused) /\ Begins(t)
  /\ stray' = TRUE
  /\ UNCHANGED <<helper, mutex, libMutex, answer, want, sessions>>

(* Faulty: the mutex is asked for but not waited for.                      *)
LockLibAnyway(t) ==
  /\ pc[t] = "lock"
  /\ libMutex' = t
  /\ Goto(t, "connect") /\ Begins(t)
  /\ UNCHANGED <<helper, mutex, answer, want, sessions, stray>>

LockLib(t) ==
  /\ pc[t] = "lock" /\ libMutex = None
  /\ libMutex' = t
  /\ Goto(t, "connect") /\ Begins(t)
  /\ UNCHANGED <<helper, mutex, answer, want, sessions, stray>>

DisConnFromLib(t) ==
  /\ pc[t] = "idle"
  /\ \E s \in Of(t) : sessions' = sessions \ {s}
  /\ Goto(t, "isConn") /\ Begins(t)
  /\ UNCHANGED <<helper, mutex, libMutex, answer, want, stray>>

(* IsConnected reads two fields, without the mutex.                        *)
IsConnected(t) ==
  /\ \/ pc[t] = "isConn" /\ Goto(t, IF conn # None THEN "isRef" ELSE Disconnected)
     \/ pc[t] = "isRef" /\ Goto(t, IF numRef > 0 THEN "close" ELSE Disconnected)
  /\ UNCHANGED <<helper, mutex, libMutex, answer, want, sessions, callers>>

(* The mutex is given back, whoever has it.                                *)
UnlockLib(t) ==
  /\ pc[t] = "unlock"
  /\ libMutex' = None
  /\ Goto(t, "idle")
  /\ UNCHANGED <<helper, mutex, answer, want, sessions, callers>>

-----------------------------------------------------------------------------
(* Helper level: a thread enters a section that m_sqlConn_mutex guards.    *)
Enter(t) ==
  /\ pc[t] \in Inside \ {"store"} /\ mutex = None
  /\ mutex' = t
  /\ UNCHANGED <<helper, libMutex, answer, pc, want, sessions, callers>>

(* First section of SqlConn: share the handle, refuse, or open one.        *)
ShareHandle(t) ==
  /\ conn # None /\ strConn = want[t]
  /\ numRef' = numRef + 1
  /\ Opened(t)
  /\ Leave(t, "idle")
  /\ UNCHANGED conn

(* Faulty: the refusal leaves through e_exit, where SqlClose is called.    *)
AlreadyConnectedCleans(t) ==
  /\ conn # None /\ strConn # want[t]
  /\ Leave(t, "cleanup")
  /\ UNCHANGED <<conn, numRef, sessions>>

AlreadyConnected(t) ==
  /\ conn # None /\ strConn # want[t]
  /\ Leave(t, Refused)
  /\ UNCHANGED <<conn, numRef, sessions>>

(* mysql_real_connect leaves NULL when it fails, the calls around it a     *)
(* handle that is not usable.                                              *)
OpenHandle(t) ==
  /\ conn = None
  /\ \/ conn' = want[t] /\ Leave(t, "encode")
     \/ conn' \in {None, Bare} /\ Leave(t, "cleanup")
  /\ UNCHANGED <<numRef, sessions>>

SqlConn(t) ==
  /\ Holding(t, "connect")
  /\ ShareHandle(t) \/ AlreadyConnected(t) \/ OpenHandle(t)
  /\ UNCHANGED <<strConn, libMutex, answer, want, callers>>

(* Faulty: the answer to SET NAMES is not looked at.                       *)
SetEncodeFails(t) ==
  /\ Holding(t, "encode")
  /\ \/ conn # None /\ Leave(t, "record")
     \/ Leave(t, Refused)
  /\ UNCHANGED <<helper, libMutex, answer, want, sessions, callers>>

SetEncode(t) ==
  /\ Holding(t, "encode")
  /\ \/ conn # None /\ Leave(t, "record")
     \/ Leave(t, "cleanup")
  /\ UNCHANGED <<helper, libMutex, answer, want, sessions, callers>>

(* Second section of SqlConn.                                              *)
Record(t) ==
  /\ Holding(t, "record")
  /\ strConn' = want[t] /\ numRef' = 1
  /\ Opened(t)
  /\ Leave(t, "idle")
  /\ UNCHANGED <<conn, libMutex, answer, want, callers>>

(* Faulty: the count goes down whether or not there was a reference.       *)
SqlCloseUnguarded(t) ==
  /\ \/ Holding(t, "close") /\ Leave(t, Disconnected)
     \/ Holding(t, "cleanup") /\ Leave(t, Refused)
  /\ numRef' = IF conn # None THEN numRef - 1 ELSE numRef
  /\ conn' = IF numRef' = 0 THEN None ELSE conn
  /\ UNCHANGED <<strConn, libMutex, answer, want, sessions, callers>>

SqlClose(t) ==
  /\ \/ Holding(t, "close") /\ Leave(t, Disconnected)
     \/ Holding(t, "cleanup") /\ Leave(t, Refused)
  /\ numRef' = IF conn # None /\ numRef > 0 THEN numRef - 1 ELSE numRef
  /\ conn' = IF numRef' = 0 THEN None ELSE conn
  /\ UNCHANGED <<strConn, libMutex, answer, want, sessions, callers>>

-----------------------------------------------------------------------------
(* ExecuteQuery keeps the mutex between the statement and its answer.      *)
Query(t) ==
  /\ pc[t] = "idle" /\ Of(t) # {}
  /\ Goto(t, "query")
  /\ UNCHANGED <<helper, mutex, libMutex, answer, want, sessions, callers>>

(* Faulty: Execute takes and gives back the mutex by itself.               *)
ExecuteUnlocks(t) ==
  /\ Holding(t, "query")
  /\ \/ Leave(t, "idle") /\ UNCHANGED answer
     \/ conn # None /\ answer' = t /\ Leave(t, "store")
  /\ UNCHANGED <<helper, libMutex, want, sessions, callers>>

(* A statement that fails, for want of a handle or otherwise, or that has  *)
(* no answer ends the call.                                                *)
Execute(t) ==
  /\ Holding(t, "query")
  /\ \/ Leave(t, "idle") /\ UNCHANGED answer
     \/ conn # None /\ answer' = t /\ Goto(t, "store") /\ UNCHANGED mutex
  /\ UNCHANGED <<helper, libMutex, want, sessions, callers>>

StoreResult(t) ==
  /\ pc[t] = "store"
  /\ answer' = None
  /\ Leave(t, "idle")
  /\ UNCHANGED <<helper, libMutex, want, sessions, callers>>

-----------------------------------------------------------------------------
Step(t) ==   \* steps of a call a thread is in
  \/ LockLib(t) \/ IsConnected(t) \/ UnlockLib(t)
  \/ Enter(t) \/ SqlConn(t) \/ SetEncode(t) \/ Record(t) \/ SqlClose(t)
  \/ Execute(t) \/ StoreResult(t)

Next ==
  \E t \in Threads :
    \/ ConnectToLib(t) \/ NoConfiguration(t) \/ DisConnFromLib(t) \/ Query(t)
    \/ Step(t)

(* Calls go on, and a session is ended some day.                           *)
Spec == Init /\ [][Next]_vars
FairSpec ==
  /\ Spec
  /\ \A t \in Threads : WF_vars(Step(t)) /\ SF_vars(DisConnFromLib(t))

-----------------------------------------------------------------------------
TypeOK ==
  /\ conn \in DBs \cup {None, Bare} /\ strConn \in DBs \cup {None}
  /\ numRef \in Nat
  /\ {mutex, libMutex, answer} \subseteq Threads \cup {None}
  /\ pc \in [Threads -> Calls] /\ want \in [Threads -> DBs]
  /\ sessions \subseteq Threads \X DBs \X Numbers
  /\ {locking, overlapped, stray} \subseteq BOOLEAN

(* Two connects or disconnects of callers that lock are under way at once  *)
(* only after a caller disconnected whose connect had been refused for     *)
(* want of a configuration: that one path returns without m_conn_mutex     *)
(* (lib.cpp:21) and DisConnFromLib unlocks it all the same (lib.cpp:34).   *)
(* On every other path the mutex goes from the connect of a caller to the  *)
(* disconnect of the same.                                                 *)
LockingExcludes == locking /\ overlapped => stray

(* Callers take care: no two connects or disconnects overlap and no caller *)
(* disconnects that was refused before anything was locked.                *)
Careful == ~overlapped /\ ~stray

(* As long as they do, a session has the database it asked for until it is *)
(* ended, whatever the connects of other threads share, are refused or     *)
(* fail meanwhile, and whoever queries.  When they overlap it is false:    *)
(* SqlConn gives the mutex up before it has recorded what it opened        *)
(* (MySqlHelper.cpp:76); and a stray disconnect ends another's session.    *)
SessionKept == Careful => \A s \in sessions : conn = s[2]

(* Under the same care, outside all calls the count is that of the         *)
(* sessions, and the handle is open only while there are some: no failed   *)
(* or refused connect leaves a handle open or a reference too many.        *)
CountExact ==
  Careful /\ (\A t \in Threads : ~Busy(t)) =>
    /\ numRef = Cardinality(sessions)
    /\ conn # None <=> sessions # {}

(* However calls overlap, an answer is read by the thread that asked, from *)
(* a handle that is still open.                                            *)
OwnAnswer ==
  [][\A t \in Threads : StoreResult(t) => answer = t /\ conn # None]_vars

(* Both mutexes are given back on every path, and no path of a locking     *)
(* caller keeps the others out for ever; a stray disconnect does not       *)
(* change that.                                                            *)
MutexesReleased ==
  /\ mutex # None ~> mutex = None
  /\ \A t \in Threads : libMutex = t ~> libMutex # t
=============================================================================
