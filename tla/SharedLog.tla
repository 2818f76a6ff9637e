----------------------------- MODULE SharedLog -----------------------------
(***************************************************************************)
(* Several processes, each with threads, that append lines to one log      *)
(* file.  A line is three fwrite calls into the stdio buffer of its        *)
(* process: header, text, newline.  log_mutex serialises the threads of a  *)
(* process; built with PROC_LOG_LOCK, a lock on a file of its own (class   *)
(* CFileLock) is asked for around the writing, and that is all that keeps  *)
(* the processes apart.  Rotation is the matter of LogRotate: the log has  *)
(* room here.                                                              *)
(*                                                                         *)
(* Not every line is written under the lock.  A signal may end the wait    *)
(* for it, and nobody looks at the answer.  The lock file belongs to the   *)
(* user that makes it until a chmod opens it to all: a process of another  *)
(* user that comes in between, or after a death in between, has no         *)
(* descriptor, and fcntl on none is taken for success.                     *)
(***************************************************************************)
EXTENDS Integers, Sequences

CONSTANTS Processes, Threads,
          Process,    \* the process of a thread
          None,
          MaxLines,   \* bound: calls
          MaxDeaths   \* bound: deaths of a process

ASSUME SharedAssumption ==
  /\ Process \in [Threads -> Processes]
  /\ None \notin Processes \cup Threads
  /\ MaxLines \in Nat /\ MaxDeaths \in Nat

VARIABLES
  locking, flush,  \* PROC_LOG_LOCK is defined; init was told to flush
  lockFile,        \* "absent", "private" to a user, or "public"
  status,          \* of a process: "down", "opened" (the lock file), "up"
  fd,              \* a process has a descriptor of the lock file
  logMutex,        \* the thread of a process that holds log_mutex
  fileLock,        \* the process that has the lock
  buffer, file,    \* lines in parts, <<process, line, part>>
  pc, line,        \* where a thread is, and the line it writes
  lines, deaths,   \* calls and deaths so far
  torn,            \* history: lines a death cut short
  bare             \* history: somebody wrote without the lock

setting == <<locking, flush>>
lock    == <<lockFile, fd, fileLock>>
threads == <<logMutex, pc, line>>
history == <<deaths, torn, bare>>
vars    == <<setting, lock, status, threads, buffer, file, lines, history>>

Lines == 1..MaxLines
Parts == 1..3     \* header_line, buffer, "\n"
Pieces == Processes \X Lines \X Parts

Goto(t, label) == pc' = [pc EXCEPT ![t] = label]
ThreadsOf(p) == {t \in Threads : Process[t] = p}

Init ==
  /\ locking \in BOOLEAN /\ flush \in BOOLEAN
  /\ lockFile = "absent"
  /\ status = [p \in Processes |-> "down"]
  /\ fd = [p \in Processes |-> FALSE]
  /\ logMutex = [p \in Processes |-> None] /\ fileLock = None
  /\ buffer = [p \in Processes |-> <<>>] /\ file = <<>>
  /\ pc = [t \in Threads |-> "idle"] /\ line = [t \in Threads |-> 0]
  /\ lines = 0 /\ deaths = 0 /\ torn = {} /\ bare = FALSE

-----------------------------------------------------------------------------
(* init makes or opens the lock file.  One that is private to a user opens *)
(* for processes of that user only.                                        *)
InitLogger(p) ==
  /\ status[p] = "down"
  /\ status' = [status EXCEPT ![p] = IF locking THEN "opened" ELSE "up"]
  /\ \E ok \in IF lockFile = "private" THEN BOOLEAN ELSE {TRUE} :
       fd' = [fd EXCEPT ![p] = locking /\ ok]
  /\ lockFile' = IF locking /\ lockFile = "absent" THEN "private" ELSE lockFile
  /\ UNCHANGED <<setting, fileLock, threads, buffer, file, lines, history>>

(* A process that may read the file opens it to all.                       *)
OpenToAll(p) ==
  /\ status[p] = "opened"
  /\ status' = [status EXCEPT ![p] = "up"]
  /\ lockFile' = IF fd[p] THEN "public" ELSE lockFile
  /\ UNCHANGED <<setting, fd, fileLock, threads, buffer, file, lines, history>>

LogCall(t) ==
  /\ pc[t] = "idle" /\ status[Process[t]] = "up"
  /\ lines < MaxLines
  /\ lines' = lines + 1 /\ line' = [line EXCEPT ![t] = lines + 1]
  /\ Goto(t, "enter")
  /\ UNCHANGED <<setting, lock, status, logMutex, buffer, file, history>>

(* Faulty: the calls do not exclude each other in a process.               *)
EnterAnyway(t) ==
  /\ pc[t] = "enter"
  /\ logMutex' = [logMutex EXCEPT ![Process[t]] = t]
  /\ Goto(t, "lock")
  /\ UNCHANGED <<setting, lock, status, line, buffer, file, lines, history>>

Enter(t) ==
  /\ pc[t] = "enter" /\ logMutex[Process[t]] = None
  /\ logMutex' = [logMutex EXCEPT ![Process[t]] = t]
  /\ Goto(t, "lock")
  /\ UNCHANGED <<setting, lock, status, line, buffer, file, lines, history>>

(* Faulty: WriteLock, which does not wait, and nobody looks at its answer. *)
WriteLock(t) ==
  LET p == Process[t] IN
  /\ pc[t] = "lock"
  /\ fileLock' = IF locking /\ fd[p] /\ fileLock = None THEN p ELSE fileLock
  /\ bare' = (bare \/ ~fd[p])
  /\ Goto(t, "header")
  /\ UNCHANGED <<setting, lockFile, fd, status, logMutex, line, buffer, file, lines,
                 deaths, torn>>

(* WriteLockW: the lock is had, or there is no descriptor, which passes    *)
(* for success.                                                            *)
WriteLockW(t) ==
  LET p == Process[t] IN
  /\ pc[t] = "lock"
  /\ \/ fd[p] /\ fileLock \in {None, p} /\ fileLock' = p /\ UNCHANGED bare
     \/ ~fd[p] /\ bare' = TRUE /\ UNCHANGED fileLock
  /\ Goto(t, "header")
  /\ UNCHANGED <<setting, lockFile, fd, status, logMutex, line, buffer, file, lines,
                 deaths, torn>>

(* A signal ends the wait for the lock (EINTR); the call goes on.          *)
Signal(t) ==
  /\ pc[t] = "lock" /\ fd[Process[t]] /\ fileLock \notin {None, Process[t]}
  /\ bare' = TRUE
  /\ Goto(t, "header")
  /\ UNCHANGED <<setting, lock, status, logMutex, line, buffer, file, lines, deaths, torn>>

(* The library writes a buffer out.                                        *)
WriteOut(p, pieces) ==
  /\ file' = file \o pieces
  /\ buffer' = [buffer EXCEPT ![p] = <<>>]

Part == [header |-> 1, text |-> 2, newline |-> 3]
After == [header |-> "text", text |-> "newline", newline |-> "flush"]

(* fwrite; the library writes its buffer out when it likes.                *)
Write(t) ==
  LET p == Process[t]
      pieces == Append(buffer[p], <<p, line[t], Part[pc[t]]>>)
  IN
  /\ pc[t] \in DOMAIN Part
  /\ \/ buffer' = [buffer EXCEPT ![p] = pieces] /\ UNCHANGED file
     \/ WriteOut(p, pieces)
  /\ Goto(t, After[pc[t]])
  /\ UNCHANGED <<setting, lock, status, logMutex, line, lines, history>>

(* Faulty: without the lock file nothing is flushed.                       *)
FlushIfLocked(t) ==
  LET p == Process[t] IN
  /\ pc[t] = "flush"
  /\ IF flush /\ fd[p] THEN WriteOut(p, buffer[p])
                       ELSE UNCHANGED <<buffer, file>>
  /\ Goto(t, "unlock")
  /\ UNCHANGED <<setting, lock, status, logMutex, line, lines, history>>

Flush(t) ==
  LET p == Process[t] IN
  /\ pc[t] = "flush"
  /\ IF flush THEN WriteOut(p, buffer[p]) ELSE UNCHANGED <<buffer, file>>
  /\ Goto(t, "unlock")
  /\ UNCHANGED <<setting, lock, status, logMutex, line, lines, history>>

(* Faulty: the call returns with the file locked.                          *)
UnlockForgotten(t) ==
  /\ pc[t] = "unlock"
  /\ logMutex' = [logMutex EXCEPT ![Process[t]] = None]
  /\ line' = [line EXCEPT ![t] = 0]
  /\ Goto(t, "idle")
  /\ UNCHANGED <<setting, lock, status, buffer, file, lines, history>>

(* Unlock gives back what the process has, if anything; KmScopedLock goes. *)
Unlock(t) ==
  LET p == Process[t] IN
  /\ pc[t] = "unlock"
  /\ fileLock' = IF fileLock = p THEN None ELSE fileLock
  /\ logMutex' = [logMutex EXCEPT ![p] = None]
  /\ line' = [line EXCEPT ![t] = 0]
  /\ Goto(t, "idle")
  /\ UNCHANGED <<setting, lockFile, fd, status, buffer, file, lines, history>>

-----------------------------------------------------------------------------
Gone(p) ==
  /\ status' = [status EXCEPT ![p] = "down"]
  /\ fd' = [fd EXCEPT ![p] = FALSE]
  /\ buffer' = [buffer EXCEPT ![p] = <<>>]

(* The destructor closes log and lock file; nobody is in a call then.      *)
Close(p) ==
  /\ status[p] = "up" /\ \A t \in ThreadsOf(p) : pc[t] = "idle"
  /\ file' = file \o buffer[p]
  /\ Gone(p)
  /\ UNCHANGED <<setting, lockFile, fileLock, threads, lines, history>>

(* A process that dies leaves its lock to the next, and loses its buffer.  *)
Die(p) ==
  /\ status[p] # "down" /\ deaths < MaxDeaths
  /\ deaths' = deaths + 1
  /\ Gone(p)
  /\ fileLock' = IF fileLock = p THEN None ELSE fileLock
  /\ logMutex' = [logMutex EXCEPT ![p] = None]
  /\ pc' = [t \in Threads |-> IF Process[t] = p THEN "idle" ELSE pc[t]]
  /\ line' = [t \in Threads |-> IF Process[t] = p THEN 0 ELSE line[t]]
  /\ torn' = torn \cup {line[t] : t \in {u \in ThreadsOf(p) : pc[u] # "idle"}}
                  \cup {buffer[p][k][2] : k \in DOMAIN buffer[p]}
  /\ UNCHANGED <<setting, lockFile, file, lines, bare>>

-----------------------------------------------------------------------------
Step(t) == Enter(t) \/ WriteLockW(t) \/ Write(t) \/ Flush(t) \/ Unlock(t)

Next ==
  \/ \E p \in Processes : InitLogger(p) \/ OpenToAll(p) \/ Close(p) \/ Die(p)
  \/ \E t \in Threads : LogCall(t) \/ Signal(t) \/ Step(t)

Spec == Init /\ [][Next]_vars

(* A thread that can go on does; mutex and file lock are granted in turn.  *)
(* Nobody need send a signal.                                              *)
FairSpec == Spec /\ \A t \in Threads : SF_vars(Step(t))

-----------------------------------------------------------------------------
(* The file lock is held in a call only, by one that has the descriptor.   *)
TypeOK ==
  /\ locking \in BOOLEAN /\ flush \in BOOLEAN /\ bare \in BOOLEAN
  /\ lockFile \in {"absent", "private", "public"}
  /\ status \in [Processes -> {"down", "opened", "up"}]
  /\ fd \in [Processes -> BOOLEAN]
  /\ logMutex \in [Processes -> Threads \cup {None}]
  /\ fileLock \in Processes \cup {None}
  /\ buffer \in [Processes -> Seq(Pieces)] /\ file \in Seq(Pieces)
  /\ pc \in [Threads -> {"idle", "enter", "lock", "header", "text", "newline",
                         "flush", "unlock"}]
  /\ line \in [Threads -> Lines \cup {0}] /\ torn \subseteq Lines
  /\ lines \in 0..MaxLines /\ deaths \in 0..MaxDeaths
  /\ fileLock # None => fd[fileLock] /\ logMutex[fileLock] # None

Next3(a, b) == a[2] = b[2] /\ b[3] = a[3] + 1
Ends(a) == a[3] = 3 \/ a[2] \in torn

(* With PROC_LOG_LOCK and flush set no line is mixed up with another, of   *)
(* whatever process or thread, as long as nobody wrote past the lock: each *)
(* part is followed by the next part of its line, unless its process died  *)
(* there.                                                                  *)
LinesWhole ==
  locking /\ flush /\ ~bare =>
    \A k \in 1..(Len(file) - 1) : Next3(file[k], file[k + 1]) \/ Ends(file[k])

(* Two parts a process wrote, with none of its own between them.           *)
Adjacent(s, p, j, k) ==
  /\ j < k /\ s[j][1] = p /\ s[k][1] = p
  /\ \A i \in (j + 1) .. (k - 1) : s[i][1] # p

(* With the lock or without it, and however the buffers are written out, a *)
(* process's lines follow one another whole and none is written twice.     *)
OwnLinesWhole ==
  \A p \in Processes :
    LET s == file \o buffer[p] IN
    \A j, k \in 1..Len(s) : Adjacent(s, p, j, k) =>
      \/ Next3(s[j], s[k])
      \/ Ends(s[j]) /\ s[k][3] = 1
         /\ \A i \in 1..j : s[i][1] = p => s[i][2] # s[k][2]

(* With flush set a call that returned has its line in the file, all three *)
(* parts of it: no later death of the process takes it back.               *)
FlushedStays ==
  flush => \A n \in 1..lines :
             \/ n \in torn \/ \E t \in Threads : line[t] = n
             \/ \A part \in Parts : \E k \in DOMAIN file : file[k][2] = n /\ file[k][3] = part

(* Every call returns or dies with its process: no thread waits for ever   *)
(* for log_mutex or for the file lock.                                     *)
CallReturns == \A t \in Threads : pc[t] = "enter" ~> pc[t] = "idle"
=============================================================================
