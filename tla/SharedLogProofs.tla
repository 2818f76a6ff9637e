-------------------------- MODULE SharedLogProofs --------------------------
(***************************************************************************)
(* Proofs about SharedLog, for any processes, threads, lines and deaths.   *)
(***************************************************************************)
EXTENDS SharedLog, TLAPS

Inside == {"header", "text", "newline", "flush", "unlock"}

(* Who is where: log_mutex is with the thread of the process that is in a  *)
(* call past it, and the file lock with a process that writes.             *)
Calls ==
  /\ \A t \in Threads : logMutex[Process[t]] = t <=> pc[t] \notin {"idle", "enter"}
  /\ \A p \in Processes : logMutex[p] # None => Process[logMutex[p]] = p
  /\ \A t \in Threads : pc[t] = "idle" => line[t] = 0
  /\ \A t \in Threads : pc[t] # "idle" => line[t] \in 1..lines /\ status[Process[t]] = "up"
  /\ \A p \in Processes : fd[p] => status[p] # "down"
  /\ \A p \in Processes : fileLock = p => pc[logMutex[p]] \in Inside

IInv == TypeOK /\ Calls

-----------------------------------------------------------------------------
(* Sequences of pieces.                                                    *)

LEMMA Pushed ==
  ASSUME NEW s \in Seq(Pieces), NEW x \in Pieces
  PROVE  /\ Append(s, x) \in Seq(Pieces) /\ Len(Append(s, x)) = Len(s) + 1
         /\ \A k \in 1..Len(s) : Append(s, x)[k] = s[k]
         /\ Append(s, x)[Len(s) + 1] = x
OBVIOUS

LEMMA Joined ==
  ASSUME NEW s \in Seq(Pieces), NEW r \in Seq(Pieces)
  PROVE  /\ s \o r \in Seq(Pieces) /\ Len(s \o r) = Len(s) + Len(r)
         /\ \A k \in 1..Len(s) : (s \o r)[k] = s[k]
         /\ \A k \in 1..Len(r) : (s \o r)[Len(s) + k] = r[k]
OBVIOUS

LEMMA NoPieces == <<>> \in Seq(Pieces)
OBVIOUS

LEMMA PieceWritten ==
  ASSUME IInv, NEW t \in Threads, pc[t] \in DOMAIN Part
  PROVE  /\ <<Process[t], line[t], Part[pc[t]]>> \in Pieces
         /\ Append(buffer[Process[t]], <<Process[t], line[t], Part[pc[t]]>>) \in Seq(Pieces)
<1>1. Process[t] \in Processes
  BY SharedAssumption
<1>2. line[t] \in Lines
  BY DEF IInv, TypeOK, Calls, Lines, Part
<1>3. Part[pc[t]] \in Parts
  BY DEF Part, Parts
<1>4. <<Process[t], line[t], Part[pc[t]]>> \in Pieces
  BY <1>1, <1>2, <1>3 DEF Pieces
<1>5. buffer[Process[t]] \in Seq(Pieces)
  BY <1>1 DEF IInv, TypeOK
<1> QED
  BY <1>4, <1>5, Pushed

-----------------------------------------------------------------------------
(* The sequences keep their type in every step.                            *)
Stores == buffer \in [Processes -> Seq(Pieces)] /\ file \in Seq(Pieces)

LEMMA StoresStep ==
  ASSUME IInv, [Next]_vars
  PROVE  Stores'
<1>0. Stores
  BY DEF IInv, TypeOK, Stores
<1> USE <1>0, NoPieces DEF Stores
<1>1. ASSUME NEW t \in Threads, Write(t) PROVE Stores'
  <2> DEFINE pieces == Append(buffer[Process[t]], <<Process[t], line[t], Part[pc[t]]>>)
  <2>1. pieces \in Seq(Pieces)
    BY <1>1, PieceWritten DEF Write
  <2>2. file \o pieces \in Seq(Pieces)
    BY <2>1, Joined
  <2>3. \/ buffer' = [buffer EXCEPT ![Process[t]] = pieces] /\ file' = file
        \/ file' = file \o pieces /\ buffer' = [buffer EXCEPT ![Process[t]] = <<>>]
    BY <1>1 DEF Write, WriteOut
  <2> HIDE DEF pieces
  <2> QED
    BY <2>1, <2>2, <2>3
<1>2. ASSUME NEW t \in Threads, Flush(t) PROVE Stores'
  <2>1. buffer[Process[t]] \in Seq(Pieces)
    BY SharedAssumption
  <2>2. file \o buffer[Process[t]] \in Seq(Pieces)
    BY <2>1, Joined
  <2> QED
    BY <1>2, <2>2 DEF Flush, WriteOut
<1>3. ASSUME NEW p \in Processes, Close(p) PROVE Stores'
  <2>1. file \o buffer[p] \in Seq(Pieces)
    BY Joined
  <2> QED
    BY <1>3, <2>1 DEF Close, Gone
<1>4. ASSUME NEW p \in Processes, Die(p) PROVE Stores'
  BY <1>4 DEF Die, Gone
<1>5. ASSUME buffer' = buffer, file' = file PROVE Stores'
  BY <1>5
<1>6. ASSUME NEW p \in Processes, InitLogger(p) \/ OpenToAll(p) PROVE Stores'
  BY <1>5, <1>6 DEF InitLogger, OpenToAll
<1>7. ASSUME NEW t \in Threads, LogCall(t) \/ Signal(t) \/ Enter(t) \/ WriteLockW(t) \/ Unlock(t)
      PROVE  Stores'
  BY <1>5, <1>7 DEF LogCall, Signal, Enter, WriteLockW, Unlock
<1>8. CASE UNCHANGED vars
  BY <1>5, <1>8 DEF vars
<1> QED
  BY <1>1, <1>2, <1>3, <1>4, <1>6, <1>7, <1>8 DEF Next, Step

(* So do the other variables.                                              *)
Rest ==
  /\ locking \in BOOLEAN /\ flush \in BOOLEAN /\ bare \in BOOLEAN
  /\ lockFile \in {"absent", "private", "public"}
  /\ status \in [Processes -> {"down", "opened", "up"}]
  /\ fd \in [Processes -> BOOLEAN]
  /\ logMutex \in [Processes -> Threads \cup {None}]
  /\ fileLock \in Processes \cup {None}
  /\ pc \in [Threads -> {"idle", "enter", "lock", "header", "text", "newline",
                         "flush", "unlock"}]
  /\ line \in [Threads -> Lines \cup {0}] /\ torn \subseteq Lines
  /\ lines \in 0..MaxLines /\ deaths \in 0..MaxDeaths
  /\ fileLock # None => fd[fileLock] /\ logMutex[fileLock] # None

LEMMA Parted == TypeOK <=> Stores /\ Rest
BY DEF TypeOK, Stores, Rest

LEMMA DieStep ==
  ASSUME IInv, NEW p \in Processes, Die(p)
  PROVE  Rest' /\ Calls'
<1> USE SharedAssumption DEF IInv
<1>0. Rest /\ Stores
  BY Parted
<1>1. torn' \subseteq Lines
  <2>1. {line[t] : t \in {u \in ThreadsOf(p) : pc[u] # "idle"}} \subseteq Lines
    BY DEF Calls, ThreadsOf, TypeOK, Lines
  <2>2. {buffer[p][k][2] : k \in DOMAIN buffer[p]} \subseteq Lines
    BY <1>0 DEF Stores, Pieces
  <2> QED
    BY <1>0, <2>1, <2>2 DEF Die, Rest
<1>2. deaths' \in 0..MaxDeaths
  BY <1>0 DEF Die, Rest
<1>3. /\ pc' = [t \in Threads |-> IF Process[t] = p THEN "idle" ELSE pc[t]]
      /\ line' = [t \in Threads |-> IF Process[t] = p THEN 0 ELSE line[t]]
      /\ status' = [status EXCEPT ![p] = "down"]
      /\ fd' = [fd EXCEPT ![p] = FALSE]
      /\ fileLock' = IF fileLock = p THEN None ELSE fileLock
      /\ logMutex' = [logMutex EXCEPT ![p] = None]
      /\ locking' = locking /\ flush' = flush /\ lockFile' = lockFile
      /\ lines' = lines /\ bare' = bare
  BY DEF Die, Gone, setting
<1>4. Rest'
  BY <1>0, <1>1, <1>2, <1>3 DEF Rest
<1>5. Calls'
  BY <1>0, <1>3 DEF Rest, Calls, Inside
<1> QED
  BY <1>4, <1>5

LEMMA InvariantStep ==
  ASSUME IInv, [Next]_vars
  PROVE  IInv'
<1>0. Rest /\ Calls
  BY Parted DEF IInv
<1> SUFFICES Rest' /\ Calls'
  BY StoresStep DEF IInv, TypeOK, Stores, Rest
<1> USE <1>0, SharedAssumption
<1>1. ASSUME NEW p \in Processes, InitLogger(p) PROVE Rest' /\ Calls'
  <2>1. status' \in [Processes -> {"down", "opened", "up"}]
    BY <1>1 DEF InitLogger, Rest
  <2>2. fd' \in [Processes -> BOOLEAN] /\ lockFile' \in {"absent", "private", "public"}
    BY <1>1 DEF InitLogger, Rest
  <2>3. fileLock # p
    BY <1>1 DEF InitLogger, Rest, Calls
  <2>4. /\ \A q \in Processes \ {p} : fd'[q] = fd[q] /\ status'[q] = status[q]
        /\ status'[p] # "down" /\ status[p] = "down"
    BY <1>1 DEF InitLogger, Rest
  <2>5. /\ locking' = locking /\ flush' = flush /\ fileLock' = fileLock
        /\ logMutex' = logMutex /\ pc' = pc /\ line' = line /\ lines' = lines
        /\ deaths' = deaths /\ torn' = torn /\ bare' = bare
    BY <1>1 DEF InitLogger, setting, threads, history
  <2>6. Rest'
    BY <2>1, <2>2, <2>3, <2>4, <2>5 DEF Rest
  <2>7. Calls'
    BY <2>4, <2>5 DEF Calls, Rest
  <2> QED
    BY <2>6, <2>7
<1>2. ASSUME NEW p \in Processes, OpenToAll(p) PROVE Rest' /\ Calls'
  BY <1>2 DEF OpenToAll, setting, threads, history, Rest, Calls
<1>3. ASSUME NEW p \in Processes, Close(p) PROVE Rest' /\ Calls'
  <2>1. fileLock # p
    BY <1>3 DEF Close, ThreadsOf, Rest, Calls, Inside
  <2> QED
    BY <1>3, <2>1 DEF Close, Gone, ThreadsOf, setting, threads, history, Rest, Calls
<1>4. ASSUME NEW t \in Threads, LogCall(t) PROVE Rest' /\ Calls'
  <2>1. lines' \in 0..MaxLines /\ lines' = lines + 1 /\ lines' \in Lines
    BY <1>4 DEF LogCall, Rest, Lines
  <2> QED
    BY <1>4, <2>1 DEF LogCall, Goto, setting, lock, history, Rest, Calls, Inside
<1>5. ASSUME NEW t \in Threads, Enter(t) PROVE Rest' /\ Calls'
  BY <1>5 DEF Enter, Goto, setting, lock, history, Rest, Calls, Inside
<1>6. ASSUME NEW t \in Threads, WriteLockW(t) PROVE Rest' /\ Calls'
  <2>1. /\ pc[t] = "lock" /\ pc' = [pc EXCEPT ![t] = "header"]
        /\ \/ fd[Process[t]] /\ fileLock \in {None, Process[t]}
              /\ fileLock' = Process[t] /\ bare' = bare
           \/ ~fd[Process[t]] /\ bare' = TRUE /\ fileLock' = fileLock
        /\ locking' = locking /\ flush' = flush /\ lockFile' = lockFile /\ fd' = fd
        /\ status' = status /\ logMutex' = logMutex /\ line' = line /\ lines' = lines
        /\ deaths' = deaths /\ torn' = torn
    BY <1>6 DEF WriteLockW, Goto, setting
  <2>2. Process[t] \in Processes /\ logMutex[Process[t]] = t
    BY <2>1 DEF Calls
  <2>3. Rest'
    BY <2>1, <2>2 DEF Rest
  <2>4. Calls'
    BY <2>1, <2>2 DEF Rest, Calls, Inside
  <2> QED
    BY <2>3, <2>4
<1>7. ASSUME NEW t \in Threads, Signal(t) PROVE Rest' /\ Calls'
  BY <1>7 DEF Signal, Goto, setting, lock, Rest, Calls, Inside
<1>8. ASSUME NEW t \in Threads, Write(t) PROVE Rest' /\ Calls'
  BY <1>8 DEF Write, Part, After, Goto, setting, lock, history, Rest, Calls, Inside
<1>9. ASSUME NEW t \in Threads, Flush(t) PROVE Rest' /\ Calls'
  BY <1>9 DEF Flush, Goto, setting, lock, history, Rest, Calls, Inside
<1>10. ASSUME NEW t \in Threads, Unlock(t) PROVE Rest' /\ Calls'
  BY <1>10 DEF Unlock, Goto, setting, history, Rest, Calls, Inside
<1>11. CASE UNCHANGED vars
  BY <1>11 DEF vars, setting, lock, threads, history, Rest, Calls
<1> QED
  BY <1>1, <1>2, <1>3, <1>4, <1>5, <1>6, <1>7, <1>8, <1>9, <1>10, <1>11, DieStep
  DEF Next, Step

THEOREM LogInvariant == Spec => []IInv
<1>1. Init => IInv
  <2> SUFFICES ASSUME Init PROVE IInv
    OBVIOUS
  <2> USE SharedAssumption
  <2>1. Stores
    BY NoPieces DEF Init, Stores
  <2>2. Rest
    <3>1. lines \in 0..MaxLines /\ deaths \in 0..MaxDeaths
      BY DEF Init
    <3>2. fileLock = None /\ torn = {} /\ lockFile = "absent"
      BY DEF Init
    <3>3. /\ locking \in BOOLEAN /\ flush \in BOOLEAN /\ bare \in BOOLEAN
          /\ status \in [Processes -> {"down", "opened", "up"}]
          /\ fd \in [Processes -> BOOLEAN]
          /\ logMutex \in [Processes -> Threads \cup {None}]
          /\ pc \in [Threads -> {"idle", "enter", "lock", "header", "text", "newline",
                                 "flush", "unlock"}]
          /\ line \in [Threads -> Lines \cup {0}]
      BY DEF Init
    <3> QED
      BY <3>1, <3>2, <3>3 DEF Rest
  <2>3. Calls
    BY DEF Init, Calls
  <2> QED
    BY <2>1, <2>2, <2>3, Parted DEF IInv
<1>2. IInv /\ [Next]_vars => IInv'
  BY InvariantStep
<1> QED
  BY <1>1, <1>2, PTL DEF Spec

(* Every variable keeps its type, and the file lock is in a call only, of  *)
(* a process that has the lock file open (CFileLock, KmScopedLock).        *)
THEOREM Typing == Spec => []TypeOK
<1>1. IInv => TypeOK
  BY DEF IInv
<1> QED
  BY <1>1, LogInvariant, PTL

-----------------------------------------------------------------------------
(* What is written stays written.                                          *)
Holds(s, n, part) == \E k \in DOMAIN s : s[k][2] = n /\ s[k][3] = part
Out(t, part) == Holds(file, line[t], part) \/ Holds(buffer[Process[t]], line[t], part)

(* The parts of a line a call has got through are in the file or in the    *)
(* buffer, with flush set in the file once it is flushed.                  *)
Written ==
  \A t \in Threads :
    /\ pc[t] \in {"text", "newline", "flush", "unlock"} => Out(t, 1)
    /\ pc[t] \in {"newline", "flush", "unlock"} => Out(t, 2)
    /\ pc[t] \in {"flush", "unlock"} => Out(t, 3)
    /\ flush /\ pc[t] = "unlock" => \A part \in Parts : Holds(file, line[t], part)

StaysInv == IInv /\ Written /\ FlushedStays

LEMMA HoldsPushed ==
  ASSUME NEW s \in Seq(Pieces), NEW x \in Pieces, NEW n, NEW part
  PROVE  /\ Holds(s, n, part) => Holds(Append(s, x), n, part)
         /\ x[2] = n /\ x[3] = part => Holds(Append(s, x), n, part)
<1>1. \A k \in DOMAIN s : k \in DOMAIN Append(s, x) /\ Append(s, x)[k] = s[k]
  BY Pushed
<1>2. Len(s) + 1 \in DOMAIN Append(s, x) /\ Append(s, x)[Len(s) + 1] = x
  BY Pushed
<1> QED
  BY <1>1, <1>2 DEF Holds

LEMMA HoldsJoined ==
  ASSUME NEW s \in Seq(Pieces), NEW r \in Seq(Pieces), NEW n, NEW part,
         Holds(s, n, part) \/ Holds(r, n, part)
  PROVE  Holds(s \o r, n, part)
<1>1. \A k \in DOMAIN s : k \in DOMAIN (s \o r) /\ (s \o r)[k] = s[k]
  BY Joined
<1>2. \A k \in DOMAIN r : Len(s) + k \in DOMAIN (s \o r) /\ (s \o r)[Len(s) + k] = r[k]
  BY Joined
<1>3. CASE Holds(s, n, part)
  BY <1>1, <1>3 DEF Holds
<1>4. CASE Holds(r, n, part)
  BY <1>2, <1>4 DEF Holds
<1> QED
  BY <1>3, <1>4

(* The file only grows, and a process that lives loses nothing of what it  *)
(* has written.                                                            *)
LEMMA NothingLost ==
  ASSUME IInv, [Next]_vars
  PROVE  /\ \A n, part : Holds(file, n, part) => Holds(file', n, part)
         /\ \A p \in Processes : \A n, part :
              Holds(buffer[p], n, part) /\ status'[p] = "up"
              => Holds(file', n, part) \/ Holds(buffer'[p], n, part)
<1> DEFINE Goal == /\ \A n, part : Holds(file, n, part) => Holds(file', n, part)
                   /\ \A p \in Processes : \A n, part :
                        Holds(buffer[p], n, part) /\ status'[p] = "up"
                        => Holds(file', n, part) \/ Holds(buffer'[p], n, part)
<1>0. buffer \in [Processes -> Seq(Pieces)] /\ file \in Seq(Pieces)
  BY DEF IInv, TypeOK
<1>1. ASSUME NEW t \in Threads, Write(t) PROVE Goal
  <2> DEFINE p == Process[t]
             x == <<p, line[t], Part[pc[t]]>>
             pieces == Append(buffer[p], x)
  <2>1. p \in Processes /\ x \in Pieces /\ pieces \in Seq(Pieces)
    BY <1>1, SharedAssumption, PieceWritten DEF Write
  <2>2. \/ buffer' = [buffer EXCEPT ![p] = pieces] /\ file' = file
        \/ file' = file \o pieces /\ buffer' = [buffer EXCEPT ![p] = <<>>]
    BY <1>1 DEF Write, WriteOut
  <2>3. \A n, part : Holds(buffer[p], n, part) => Holds(pieces, n, part)
    BY <1>0, <2>1, HoldsPushed
  <2>4. \A n, part : Holds(file, n, part) \/ Holds(pieces, n, part)
                     => Holds(file \o pieces, n, part)
    BY <1>0, <2>1, HoldsJoined
  <2> HIDE DEF x, pieces
  <2>5. CASE buffer' = [buffer EXCEPT ![p] = pieces] /\ file' = file
    BY <1>0, <2>1, <2>3, <2>5
  <2>6. CASE file' = file \o pieces /\ buffer' = [buffer EXCEPT ![p] = <<>>]
    BY <1>0, <2>1, <2>3, <2>4, <2>6
  <2> QED
    BY <2>2, <2>5, <2>6
<1>2. ASSUME NEW p \in Processes, file' = file \o buffer[p],
             buffer' = [buffer EXCEPT ![p] = <<>>]
      PROVE  Goal
  <2>1. \A n, part : Holds(file, n, part) \/ Holds(buffer[p], n, part)
                     => Holds(file \o buffer[p], n, part)
    BY <1>0, HoldsJoined
  <2> QED
    BY <1>0, <1>2, <2>1
<1>3. ASSUME buffer' = buffer, file' = file PROVE Goal
  BY <1>3
<1>4. ASSUME NEW t \in Threads, Flush(t) PROVE Goal
  BY <1>2, <1>3, <1>4, SharedAssumption DEF Flush, WriteOut
<1>5. ASSUME NEW p \in Processes, Close(p) PROVE Goal
  BY <1>2, <1>5 DEF Close, Gone
<1>6. ASSUME NEW p \in Processes, Die(p) PROVE Goal
  BY <1>0, <1>6 DEF Die, Gone, IInv, TypeOK
<1>7. ASSUME NEW p \in Processes, InitLogger(p) \/ OpenToAll(p) PROVE Goal
  BY <1>3, <1>7 DEF InitLogger, OpenToAll
<1>8. ASSUME NEW t \in Threads, LogCall(t) \/ Signal(t) \/ Enter(t) \/ WriteLockW(t) \/ Unlock(t)
      PROVE  Goal
  BY <1>3, <1>8 DEF LogCall, Signal, Enter, WriteLockW, Unlock
<1>9. CASE UNCHANGED vars
  BY <1>3, <1>9 DEF vars
<1> QED
  BY <1>1, <1>4, <1>5, <1>6, <1>7, <1>8, <1>9 DEF Next, Step

(* What a thread's line has behind it, it keeps while the thread lives.    *)
LEMMA OutStays ==
  ASSUME IInv, [Next]_vars, NEW t \in Threads, line'[t] = line[t], pc'[t] # "idle",
         NEW part, Out(t, part)
  PROVE  Out(t, part)'
<1>1. Process[t] \in Processes
  BY SharedAssumption
<1>2. status'[Process[t]] = "up"
  BY InvariantStep DEF IInv, Calls
<1> QED
  BY <1>1, <1>2, NothingLost DEF Out

(* A thread stays where it is, ends its call, has not written yet, writes, *)
(* or flushes.                                                             *)
LEMMA ThreadStep ==
  ASSUME IInv, [Next]_vars, NEW t \in Threads
  PROVE  \/ pc'[t] = pc[t] /\ line'[t] = line[t]
         \/ pc'[t] = "idle" /\ (line[t] \in torn' \/ Unlock(t))
         \/ pc'[t] = "enter" /\ pc[t] = "idle"
         \/ pc'[t] \in {"lock", "header"} /\ line'[t] = line[t]
         \/ Write(t) /\ line'[t] = line[t]
         \/ Flush(t) /\ line'[t] = line[t]
<1> DEFINE Goal == \/ pc'[t] = pc[t] /\ line'[t] = line[t]
                   \/ pc'[t] = "idle" /\ (line[t] \in torn' \/ Unlock(t))
                   \/ pc'[t] = "enter" /\ pc[t] = "idle"
                   \/ pc'[t] \in {"lock", "header"} /\ line'[t] = line[t]
                   \/ Write(t) /\ line'[t] = line[t]
                   \/ Flush(t) /\ line'[t] = line[t]
<1>0. /\ pc \in [Threads -> {"idle", "enter", "lock", "header", "text", "newline",
                            "flush", "unlock"}]
      /\ line \in [Threads -> Lines \cup {0}]
      /\ pc[t] = "idle" => line[t] = 0
  BY DEF IInv, TypeOK, Calls
<1>1. ASSUME pc' = pc, line' = line PROVE Goal
  BY <1>1
<1>2. ASSUME NEW p \in Processes, InitLogger(p) \/ OpenToAll(p) \/ Close(p) PROVE Goal
  BY <1>1, <1>2 DEF InitLogger, OpenToAll, Close, threads
<1>3. ASSUME NEW p \in Processes, Die(p) PROVE Goal
  <2>1. /\ pc'[t] = IF Process[t] = p THEN "idle" ELSE pc[t]
        /\ line'[t] = IF Process[t] = p THEN 0 ELSE line[t]
        /\ Process[t] = p /\ pc[t] # "idle" => line[t] \in torn'
    BY <1>3 DEF Die, ThreadsOf
  <2> QED
    BY <1>0, <2>1
<1>4. ASSUME NEW u \in Threads, Step(u) \/ LogCall(u) \/ Signal(u), u # t PROVE Goal
  BY <1>0, <1>4
  DEF Step, LogCall, Signal, Enter, WriteLockW, Write, Flush, Unlock, Goto
<1>5. CASE Step(t) \/ LogCall(t) \/ Signal(t)
  BY <1>0, <1>5 DEF Step, LogCall, Signal, Enter, WriteLockW, Write, Flush, Goto, Unlock
<1>6. CASE UNCHANGED vars
  BY <1>1, <1>6 DEF vars, threads
<1> QED
  BY <1>2, <1>3, <1>4, <1>5, <1>6 DEF Next

LEMMA WrittenStep ==
  ASSUME IInv, Written, [Next]_vars
  PROVE  Written'
<1> SUFFICES ASSUME NEW t \in Threads, pc'[t] \in {"text", "newline", "flush", "unlock"}
             PROVE  /\ Out(t, 1)'
                    /\ pc'[t] \in {"newline", "flush", "unlock"} => Out(t, 2)'
                    /\ pc'[t] \in {"flush", "unlock"} => Out(t, 3)'
                    /\ flush' /\ pc'[t] = "unlock"
                         => \A part \in Parts : Holds(file', line'[t], part)
  BY DEF Written
<1>0. /\ pc \in [Threads -> {"idle", "enter", "lock", "header", "text", "newline",
                            "flush", "unlock"}]
      /\ buffer \in [Processes -> Seq(Pieces)] /\ file \in Seq(Pieces)
      /\ Process[t] \in Processes
  BY SharedAssumption DEF IInv, TypeOK
<1>1. flush' = flush
  BY DEF Next, vars, setting, InitLogger, OpenToAll, Close, Die, LogCall, Signal, Step,
         Enter, WriteLockW, Write, Flush, Unlock
<1>2. CASE pc'[t] = pc[t] /\ line'[t] = line[t]
  BY <1>1, <1>2, OutStays, NothingLost DEF Written
<1>3. CASE Write(t) /\ line'[t] = line[t]
  <2> DEFINE p == Process[t]
             x == <<p, line[t], Part[pc[t]]>>
             pieces == Append(buffer[p], x)
  <2>1. x \in Pieces /\ pieces \in Seq(Pieces)
    BY <1>3, PieceWritten DEF Write
  <2>2. Holds(pieces, line[t], Part[pc[t]])
    BY <1>0, <2>1, HoldsPushed
  <2>3. Holds(file \o pieces, line[t], Part[pc[t]])
    BY <1>0, <2>1, <2>2, HoldsJoined
  <2>4. \/ buffer' = [buffer EXCEPT ![p] = pieces] /\ file' = file
        \/ file' = file \o pieces /\ buffer' = [buffer EXCEPT ![p] = <<>>]
    BY <1>3 DEF Write, WriteOut
  <2> HIDE DEF x, pieces
  <2>5. \E part \in Parts : part = Part[pc[t]] /\ Out(t, part)'
    <3>1. PICK part \in Parts : part = Part[pc[t]]
      BY <1>3 DEF Write, Part, Parts
    <3>2. Holds(file', line'[t], part) \/ Holds(buffer'[p], line'[t], part)
      BY <1>0, <1>3, <2>2, <2>3, <2>4, <3>1
    <3> QED
      BY <3>1, <3>2 DEF Out
  <2>6. /\ pc[t] \in {"header", "text", "newline"} /\ pc'[t] = After[pc[t]]
    BY <1>0, <1>3 DEF Write, Part, Goto
  <2> QED
    BY <1>3, <2>5, <2>6, OutStays DEF Written, Part, After
<1>4. CASE Flush(t) /\ line'[t] = line[t]
  <2>1. pc[t] = "flush" /\ pc'[t] = "unlock"
    BY <1>0, <1>4 DEF Flush, Goto
  <2>2. Out(t, 1) /\ Out(t, 2) /\ Out(t, 3)
    BY <2>1 DEF Written
  <2>3. Out(t, 1)' /\ Out(t, 2)' /\ Out(t, 3)'
    BY <1>4, <2>1, <2>2, OutStays
  <2>4. ASSUME flush, NEW part \in Parts PROVE Holds(file', line'[t], part)
    <3>1. file' = file \o buffer[Process[t]]
      BY <1>4, <2>4 DEF Flush, WriteOut
    <3>2. Out(t, part)
      BY <2>2 DEF Parts
    <3> QED
      BY <1>0, <1>4, <3>1, <3>2, HoldsJoined DEF Out
  <2> QED
    BY <1>1, <2>1, <2>3, <2>4
<1> QED
  BY <1>2, <1>3, <1>4, ThreadStep

LEMMA StaysStep ==
  ASSUME StaysInv, [Next]_vars
  PROVE  FlushedStays'
<1> SUFFICES ASSUME flush', NEW n \in 1..lines', n \notin torn',
                    \A t \in Threads : line'[t] # n, NEW part \in Parts
             PROVE  Holds(file', n, part)
  BY DEF FlushedStays, Holds
<1>0. lines \in Nat /\ IInv /\ Written
  BY DEF StaysInv, IInv, TypeOK
<1>5. torn \subseteq torn'
  BY DEF Next, vars, history, InitLogger, OpenToAll, Close, Die, LogCall, Signal, Step,
         Enter, WriteLockW, Write, Flush, Unlock
<1>1. flush
  BY DEF Next, vars, setting, InitLogger, OpenToAll, Close, Die, LogCall, Signal, Step,
         Enter, WriteLockW, Write, Flush, Unlock
<1>2. n \in 1..lines
  <2>1. CASE \E t \in Threads : LogCall(t)
    BY <1>0, <2>1 DEF LogCall, IInv, TypeOK
  <2>2. CASE lines' = lines
    BY <2>2
  <2> QED
    BY <2>1, <2>2
    DEF Next, vars, InitLogger, OpenToAll, Close, Die, Signal, Step, Enter, WriteLockW,
        Write, Flush, Unlock
<1>3. CASE \E t \in Threads : line[t] = n
  <2>1. PICK t \in Threads : line[t] = n
    BY <1>3
  <2>2. pc[t] # "idle"
    BY <1>0, <2>1 DEF IInv, Calls
  <2>3. Unlock(t)
    BY <1>0, <2>1, <2>2, ThreadStep
  <2>4. Holds(file, n, part)
    BY <1>0, <1>1, <2>1, <2>3 DEF Written, Unlock
  <2> QED
    BY <1>0, <2>4, NothingLost
<1>4. CASE ~ \E t \in Threads : line[t] = n
  <2>1. Holds(file, n, part)
    BY <1>0, <1>1, <1>2, <1>4, <1>5 DEF StaysInv, FlushedStays, Holds
  <2> QED
    BY <1>0, <2>1, NothingLost
<1> QED
  BY <1>3, <1>4

(* With flush set a call that returned has its line in the file, whatever  *)
(* dies and however the buffers are written out (Logger::log_write, the    *)
(* fflush of logger.cpp:411).                                              *)
THEOREM FlushedLinesStay == Spec => []FlushedStays
<1>1. Init => Written /\ FlushedStays
  BY DEF Init, Written, FlushedStays
<1>2. StaysInv /\ [Next]_vars => StaysInv'
  BY InvariantStep, WrittenStep, StaysStep DEF StaysInv
<1>3. IInv /\ Written /\ FlushedStays => StaysInv
  BY DEF StaysInv
<1>4. StaysInv => FlushedStays
  BY DEF StaysInv
<1> QED
  BY <1>1, <1>2, <1>3, <1>4, LogInvariant, PTL DEF Spec

-----------------------------------------------------------------------------
(* Lines that are not mixed up.  A sequence is linked when each part is    *)
(* followed by the next of its line, or ends one; it is settled when its   *)
(* last part ends a line.                                                  *)
EndsIn(a, gone) == a[3] = 3 \/ a[2] \in gone
Linked(s, gone) ==
  \A k \in 1 .. (Len(s) - 1) : Next3(s[k], s[k + 1]) \/ EndsIn(s[k], gone)
Settled(s, gone) == Len(s) > 0 => EndsIn(s[Len(s)], gone)

(* What is behind a line n of which the thread does label next.            *)
Behind(s, label, n, gone) ==
  /\ label = "header" => Settled(s, gone)
  /\ label = "text" => Len(s) > 0 /\ s[Len(s)][2] = n /\ s[Len(s)][3] = 1
  /\ label = "newline" => Len(s) > 0 /\ s[Len(s)][2] = n /\ s[Len(s)][3] = 2
  /\ label \in {"flush", "unlock"} => Len(s) > 0 /\ s[Len(s)][3] = 3

(* The file with what the process of a writing thread has not written out. *)
Writing(t) ==
  /\ fileLock = Process[t]
  /\ Linked(file \o buffer[Process[t]], torn)
  /\ Behind(file \o buffer[Process[t]], pc[t], line[t], torn)
  /\ pc[t] = "unlock" => buffer[Process[t]] = <<>>

(* As long as nobody wrote past the lock, only the process that has it is  *)
(* in the middle of a line.                                                *)
Apart ==
  locking /\ flush /\ ~bare =>
    /\ \A t \in Threads : pc[t] \in Inside => Writing(t)
    /\ \A p \in Processes : p # fileLock => buffer[p] = <<>>
    /\ Linked(file, torn)
    /\ fileLock = None => Settled(file, torn)

LEMMA LinkedMore ==
  ASSUME NEW s, NEW gone, NEW more, gone \subseteq more
  PROVE  /\ Linked(s, gone) => Linked(s, more)
         /\ Settled(s, gone) => Settled(s, more)
         /\ \A label, n : Behind(s, label, n, gone) => Behind(s, label, n, more)
BY DEF Linked, Settled, Behind, EndsIn

LEMMA LinkedPushed ==
  ASSUME NEW s \in Seq(Pieces), NEW x \in Pieces, NEW gone, Linked(s, gone),
         Settled(s, gone) \/ (Len(s) > 0 /\ Next3(s[Len(s)], x))
  PROVE  Linked(Append(s, x), gone)
<1> DEFINE r == Append(s, x)
<1>1. /\ Len(r) = Len(s) + 1 /\ Len(s) \in Nat
      /\ \A k \in 1..Len(s) : r[k] = s[k]
      /\ r[Len(s) + 1] = x
  BY Pushed
<1> HIDE DEF r
<1> SUFFICES ASSUME NEW k \in 1 .. (Len(r) - 1)
             PROVE  Next3(r[k], r[k + 1]) \/ EndsIn(r[k], gone)
  BY DEF Linked, r
<1>2. CASE k < Len(s)
  BY <1>1, <1>2 DEF Linked
<1>3. CASE k = Len(s)
  BY <1>1, <1>3 DEF Settled
<1> QED
  BY <1>1, <1>2, <1>3

LEMMA JoinedPushed ==
  ASSUME NEW s \in Seq(Pieces), NEW r \in Seq(Pieces), NEW x \in Pieces
  PROVE  s \o Append(r, x) = Append(s \o r, x)
OBVIOUS

LEMMA JoinedEmpty ==
  ASSUME NEW s \in Seq(Pieces), NEW r, r = <<>>
  PROVE  s \o r = s
OBVIOUS

(* Within what is linked a part that does not end a line is followed by    *)
(* one of the same line.                                                   *)
LEMMA CutBetween ==
  ASSUME NEW s \in Seq(Pieces), NEW r \in Seq(Pieces), NEW gone,
         Linked(s \o r, gone), Len(s) > 0, r # <<>>
  PROVE  EndsIn(s[Len(s)], gone) \/ s[Len(s)][2] = r[1][2]
<1>1. Len(r) > 0 /\ Len(s) \in Nat /\ Len(r) \in Nat
  OBVIOUS
<1>2. /\ Len(s) \in 1 .. (Len(s \o r) - 1)
      /\ (s \o r)[Len(s)] = s[Len(s)] /\ (s \o r)[Len(s) + 1] = r[1]
  BY <1>1, Joined
<1> QED
  BY <1>2 DEF Linked, Next3

(* One thread writes at a time.                                            *)
LEMMA OneInside ==
  ASSUME IInv, Apart, locking, flush, ~bare, NEW t \in Threads, NEW u \in Threads,
         pc[t] \in Inside, pc[u] \in Inside
  PROVE  t = u
<1>1. Process[t] = Process[u]
  BY DEF Apart, Writing
<1>2. logMutex[Process[t]] = t /\ logMutex[Process[u]] = u
  BY DEF IInv, Calls, Inside
<1> QED
  BY <1>1, <1>2

LEMMA WriteApart ==
  ASSUME IInv, Apart, locking, flush, ~bare, NEW t \in Threads, Write(t)
  PROVE  Apart'
<1> DEFINE p == Process[t]
           x == <<p, line[t], Part[pc[t]]>>
           s == file \o buffer[p]
<1>0. /\ buffer \in [Processes -> Seq(Pieces)] /\ file \in Seq(Pieces) /\ p \in Processes
      /\ pc \in [Threads -> {"idle", "enter", "lock", "header", "text", "newline",
                            "flush", "unlock"}]
  BY SharedAssumption DEF IInv, TypeOK
<1>1. /\ pc[t] \in {"header", "text", "newline"} /\ pc' = [pc EXCEPT ![t] = After[pc[t]]]
      /\ line' = line /\ fileLock' = fileLock /\ torn' = torn
  BY DEF Write, Part, Goto, lock, history
<1>2. Writing(t) /\ Linked(file, torn) /\ \A q \in Processes : q # fileLock => buffer[q] = <<>>
  BY <1>1 DEF Apart, Inside
<1>3. x \in Pieces /\ Append(buffer[p], x) \in Seq(Pieces) /\ s \in Seq(Pieces)
  BY <1>0, PieceWritten, Joined DEF Write
<1>4. file \o Append(buffer[p], x) = Append(s, x)
  BY <1>0, <1>3, JoinedPushed
<1>5. \/ buffer' = [buffer EXCEPT ![p] = Append(buffer[p], x)] /\ file' = file
      \/ file' = file \o Append(buffer[p], x) /\ buffer' = [buffer EXCEPT ![p] = <<>>]
  BY DEF Write, WriteOut
<1>6. Linked(s, torn) /\ Behind(s, pc[t], line[t], torn)
  BY <1>2 DEF Writing
<1>7. x[2] = line[t] /\ x[3] = Part[pc[t]]
  OBVIOUS
<1> HIDE DEF x, s
<1>8. Settled(s, torn) \/ (Len(s) > 0 /\ Next3(s[Len(s)], x))
  BY <1>1, <1>6, <1>7 DEF Behind, Next3, Part
<1>9. Linked(Append(s, x), torn)
  BY <1>3, <1>6, <1>8, LinkedPushed
<1>10. Behind(Append(s, x), After[pc[t]], line[t], torn)
  <2>1. /\ Len(Append(s, x)) = Len(s) + 1 /\ Append(s, x)[Len(s) + 1] = x
        /\ Len(s) \in Nat
    BY <1>3, Pushed
  <2> QED
    BY <1>1, <1>7, <2>1 DEF Behind, After, Part
<1>11. file' \o buffer'[p] = Append(s, x) /\ Linked(file', torn)
  <2>1. CASE buffer' = [buffer EXCEPT ![p] = Append(buffer[p], x)] /\ file' = file
    BY <1>0, <1>2, <1>4, <2>1
  <2>2. CASE file' = file \o Append(buffer[p], x) /\ buffer' = [buffer EXCEPT ![p] = <<>>]
    <3>1. buffer'[p] = <<>> /\ file' = Append(s, x) /\ file' \in Seq(Pieces)
      BY <1>0, <1>3, <1>4, <2>2, Joined
    <3> QED
      BY <1>9, <3>1, JoinedEmpty
  <2> QED
    BY <1>5, <2>1, <2>2
<1>12. \A q \in Processes : q # fileLock' => buffer'[q] = <<>>
  BY <1>0, <1>1, <1>2, <1>5 DEF Writing
<1>13. fileLock' = p /\ p # None
  BY <1>0, <1>1, <1>2, SharedAssumption DEF Writing
<1>14. ASSUME NEW u \in Threads, pc'[u] \in Inside PROVE Writing(u)'
  <2>1. u = t
    BY <1>0, <1>1, <1>14, OneInside DEF Inside
  <2>2. pc'[t] = After[pc[t]] /\ pc'[t] # "unlock"
    BY <1>0, <1>1 DEF After
  <2> QED
    BY <1>1, <1>9, <1>10, <1>11, <1>13, <2>1, <2>2 DEF Writing
<1> QED
  BY <1>1, <1>11, <1>12, <1>13, <1>14 DEF Apart

LEMMA FlushApart ==
  ASSUME IInv, Apart, locking, flush, ~bare, NEW t \in Threads, Flush(t)
  PROVE  Apart'
<1> DEFINE p == Process[t]
<1>0. /\ buffer \in [Processes -> Seq(Pieces)] /\ file \in Seq(Pieces) /\ p \in Processes
      /\ pc \in [Threads -> {"idle", "enter", "lock", "header", "text", "newline",
                            "flush", "unlock"}]
  BY SharedAssumption DEF IInv, TypeOK
<1>1. /\ pc[t] = "flush" /\ pc' = [pc EXCEPT ![t] = "unlock"]
      /\ line' = line /\ fileLock' = fileLock /\ torn' = torn
      /\ file' = file \o buffer[p] /\ buffer' = [buffer EXCEPT ![p] = <<>>]
  BY DEF Flush, Goto, WriteOut, lock, history
<1>2. Writing(t) /\ \A q \in Processes : q # fileLock => buffer[q] = <<>>
  BY <1>1 DEF Apart, Inside
<1>3. buffer'[p] = <<>> /\ file' \o buffer'[p] = file \o buffer[p]
  BY <1>0, <1>1, Joined, JoinedEmpty
<1>4. fileLock' = p /\ p # None
  BY <1>0, <1>1, <1>2, SharedAssumption DEF Writing
<1>5. ASSUME NEW u \in Threads, pc'[u] \in Inside PROVE Writing(u)'
  <2>1. u = t
    BY <1>0, <1>1, <1>5, OneInside DEF Inside
  <2> QED
    BY <1>0, <1>1, <1>2, <1>3, <1>4, <2>1 DEF Writing, Behind
<1>6. \A q \in Processes : q # fileLock' => buffer'[q] = <<>>
  BY <1>0, <1>1, <1>2
<1>7. Linked(file', torn')
  BY <1>1, <1>2 DEF Writing
<1> QED
  BY <1>4, <1>5, <1>6, <1>7 DEF Apart

LEMMA UnlockApart ==
  ASSUME IInv, Apart, locking, flush, ~bare, NEW t \in Threads, Unlock(t)
  PROVE  Apart'
<1> DEFINE p == Process[t]
<1>0. /\ buffer \in [Processes -> Seq(Pieces)] /\ file \in Seq(Pieces) /\ p \in Processes
      /\ pc \in [Threads -> {"idle", "enter", "lock", "header", "text", "newline",
                            "flush", "unlock"}]
  BY SharedAssumption DEF IInv, TypeOK
<1>1. /\ pc[t] = "unlock" /\ pc' = [pc EXCEPT ![t] = "idle"]
      /\ fileLock' = (IF fileLock = p THEN None ELSE fileLock) /\ torn' = torn
      /\ file' = file /\ buffer' = buffer
  BY DEF Unlock, Goto, history
<1>2. Writing(t) /\ \A q \in Processes : q # fileLock => buffer[q] = <<>>
  BY <1>1 DEF Apart, Inside
<1>3. file \o buffer[p] = file /\ buffer[p] = <<>>
  BY <1>0, <1>1, <1>2, JoinedEmpty DEF Writing
<1>4. fileLock' = None
  BY <1>1, <1>2 DEF Writing
<1>5. ASSUME NEW u \in Threads, pc'[u] \in Inside PROVE FALSE
  BY <1>0, <1>1, <1>5, OneInside DEF Inside
<1>6. \A q \in Processes : buffer'[q] = <<>>
  BY <1>0, <1>1, <1>2, <1>3 DEF Writing
<1>7. Linked(file', torn') /\ Settled(file', torn')
  BY <1>1, <1>2, <1>3 DEF Writing, Behind, Settled, EndsIn
<1> QED
  BY <1>4, <1>5, <1>6, <1>7 DEF Apart

LEMMA LockApart ==
  ASSUME IInv, Apart, locking, flush, ~bare, NEW t \in Threads, WriteLockW(t), ~bare'
  PROVE  Apart'
<1> DEFINE p == Process[t]
<1>0. /\ buffer \in [Processes -> Seq(Pieces)] /\ file \in Seq(Pieces) /\ p \in Processes
      /\ pc \in [Threads -> {"idle", "enter", "lock", "header", "text", "newline",
                            "flush", "unlock"}]
      /\ p # None
  BY SharedAssumption DEF IInv, TypeOK
<1>1. /\ pc[t] = "lock" /\ pc' = [pc EXCEPT ![t] = "header"] /\ line' = line
      /\ fileLock \in {None, p} /\ fileLock' = p /\ torn' = torn
      /\ file' = file /\ buffer' = buffer
  BY DEF WriteLockW, Goto
<1>2. fileLock = None
  <2>1. logMutex[p] = t
    BY <1>1 DEF IInv, Calls
  <2> QED
    BY <1>0, <1>1, <2>1 DEF IInv, Calls, Inside
<1>3. \A q \in Processes : buffer[q] = <<>>
  BY <1>2, SharedAssumption DEF Apart
<1>4. file \o buffer[p] = file /\ Linked(file, torn) /\ Settled(file, torn)
  BY <1>0, <1>2, <1>3, JoinedEmpty DEF Apart
<1>5. ASSUME NEW u \in Threads, pc'[u] \in Inside PROVE Writing(u)'
  <2>1. u = t
    <3> SUFFICES ASSUME u # t PROVE FALSE
      OBVIOUS
    <3>1. pc[u] \in Inside
      BY <1>0, <1>1, <1>5
    <3>2. fileLock = Process[u]
      BY <3>1 DEF Apart, Writing
    <3> QED
      BY <1>2, <3>2, SharedAssumption
  <2> QED
    BY <1>0, <1>1, <1>4, <2>1 DEF Writing, Behind
<1> QED
  BY <1>0, <1>1, <1>3, <1>4, <1>5 DEF Apart

(* What a death leaves in the file ends a line or is of a line it cut.     *)
LEMMA DieApart ==
  ASSUME IInv, Apart, locking, flush, ~bare, NEW p \in Processes, Die(p)
  PROVE  Apart'
<1>0. /\ buffer \in [Processes -> Seq(Pieces)] /\ file \in Seq(Pieces)
      /\ pc \in [Threads -> {"idle", "enter", "lock", "header", "text", "newline",
                            "flush", "unlock"}]
      /\ p # None
  BY SharedAssumption DEF IInv, TypeOK
<1>1. /\ pc' = [t \in Threads |-> IF Process[t] = p THEN "idle" ELSE pc[t]]
      /\ line' = [t \in Threads |-> IF Process[t] = p THEN 0 ELSE line[t]]
      /\ fileLock' = (IF fileLock = p THEN None ELSE fileLock)
      /\ file' = file /\ buffer' = [buffer EXCEPT ![p] = <<>>]
      /\ torn \subseteq torn'
      /\ \A t \in Threads : Process[t] = p /\ pc[t] # "idle" => line[t] \in torn'
      /\ \A k \in DOMAIN buffer[p] : buffer[p][k][2] \in torn'
  BY DEF Die, Gone, ThreadsOf
<1>2. Linked(file', torn')
  BY <1>1, LinkedMore DEF Apart
<1>3. \A q \in Processes : q # fileLock' => buffer'[q] = <<>>
  BY <1>0, <1>1 DEF Apart
<1>4. CASE fileLock = p
  <2>1. PICK t \in Threads : Process[t] = p /\ pc[t] \in Inside
    BY <1>0, <1>4 DEF IInv, TypeOK, Calls
  <2>2. Writing(t) /\ line[t] \in torn'
    BY <1>1, <2>1 DEF Apart, Inside
  <2>3. Settled(file, torn')
    <3>1. CASE buffer[p] = <<>>
      <4>1. file \o buffer[p] = file
        BY <1>0, <3>1, JoinedEmpty
      <4> QED
        BY <1>1, <2>1, <2>2, <4>1 DEF Writing, Behind, Settled, EndsIn, Inside
    <3>2. CASE buffer[p] # <<>>
      <4> SUFFICES ASSUME Len(file) > 0 PROVE EndsIn(file[Len(file)], torn')
        BY DEF Settled
      <4>1. buffer[p] \in Seq(Pieces) /\ 1 \in DOMAIN buffer[p]
        BY <1>0, <3>2
      <4>2. EndsIn(file[Len(file)], torn) \/ file[Len(file)][2] = buffer[p][1][2]
        BY <1>0, <2>1, <2>2, <3>2, <4>1, CutBetween DEF Writing
      <4> QED
        BY <1>1, <4>1, <4>2 DEF EndsIn
    <3> QED
      BY <3>1, <3>2
  <2>4. ASSUME NEW u \in Threads, pc'[u] \in Inside PROVE FALSE
    <3>1. Process[u] # p /\ pc[u] \in Inside
      BY <1>1, <2>4 DEF Inside
    <3> QED
      BY <1>4, <3>1 DEF Apart, Writing
  <2> QED
    BY <1>1, <1>2, <1>3, <2>3, <2>4 DEF Apart
<1>5. CASE fileLock # p
  <2>1. buffer' = buffer /\ fileLock' = fileLock
    BY <1>0, <1>1, <1>5 DEF Apart
  <2>2. ASSUME NEW u \in Threads, pc'[u] \in Inside PROVE Writing(u)'
    <3>1. Process[u] # p /\ pc[u] \in Inside /\ pc'[u] = pc[u] /\ line'[u] = line[u]
      BY <1>1, <2>2 DEF Inside
    <3>2. Writing(u)
      BY <3>1 DEF Apart
    <3> QED
      BY <1>1, <2>1, <3>1, <3>2, LinkedMore DEF Writing
  <2>3. fileLock = None => Settled(file, torn')
    BY <1>1, LinkedMore DEF Apart
  <2> QED
    BY <1>1, <1>2, <1>3, <2>1, <2>2, <2>3 DEF Apart
<1> QED
  BY <1>4, <1>5

LEMMA ApartStep ==
  ASSUME IInv, Apart, [Next]_vars
  PROVE  Apart'
<1>1. locking' = locking /\ flush' = flush
  BY DEF Next, vars, setting, InitLogger, OpenToAll, Close, Die, LogCall, Signal,
         Step, Enter, WriteLockW, Write, Flush, Unlock
<1>8. bare' = bare \/ bare' = TRUE
  BY DEF Next, vars, history, InitLogger, OpenToAll, Close, Die, LogCall, Signal,
         Step, Enter, WriteLockW, Write, Flush, Unlock
<1> SUFFICES ASSUME locking, flush, ~bare, ~bare' PROVE Apart'
  BY <1>1, <1>8 DEF Apart
<1>0. /\ buffer \in [Processes -> Seq(Pieces)] /\ file \in Seq(Pieces)
      /\ pc \in [Threads -> {"idle", "enter", "lock", "header", "text", "newline",
                            "flush", "unlock"}]
      /\ line \in [Threads -> Lines \cup {0}]
  BY DEF IInv, TypeOK
<1>2. ASSUME \A t \in Threads : pc'[t] \in Inside => pc[t] = pc'[t] /\ line'[t] = line[t],
             fileLock' = fileLock, file' = file, buffer' = buffer, torn' = torn
      PROVE  Apart'
  BY <1>2 DEF Apart, Writing
<1>3. ASSUME NEW p \in Processes, InitLogger(p) \/ OpenToAll(p) PROVE Apart'
  BY <1>2, <1>3 DEF InitLogger, OpenToAll, threads, history
<1>4. ASSUME NEW p \in Processes, Close(p) PROVE Apart'
  <2>1. fileLock # p
    BY <1>4, SharedAssumption DEF Close, ThreadsOf, IInv, TypeOK, Calls, Inside
  <2>2. buffer[p] = <<>>
    BY <2>1 DEF Apart
  <2>3. file' = file /\ buffer' = buffer
    BY <1>0, <1>4, <2>2, JoinedEmpty DEF Close, Gone
  <2> QED
    BY <1>2, <1>4, <2>3 DEF Close, threads, history
<1>5. ASSUME NEW t \in Threads, LogCall(t) \/ Enter(t) PROVE Apart'
  BY <1>0, <1>2, <1>5 DEF LogCall, Enter, Goto, lock, history, Inside
<1>6. ASSUME NEW t \in Threads, Signal(t) PROVE FALSE
  BY <1>6 DEF Signal
<1>7. CASE UNCHANGED vars
  BY <1>2, <1>7 DEF vars, lock, threads, history
<1> QED
  BY <1>3, <1>4, <1>5, <1>6, <1>7, WriteApart, FlushApart, UnlockApart, LockApart, DieApart
  DEF Next, Step

(* Built with PROC_LOG_LOCK and told to flush, no process or thread ever   *)
(* mixes its line up with another, as long as every line was written under *)
(* the lock (Logger::log_write, CFileLock::WriteLockW).                    *)
THEOREM LinesAreWhole == Spec => []LinesWhole
<1>1. Init => Apart
  BY DEF Init, Apart, Inside, Linked, Settled
<1>2. IInv /\ Apart /\ [Next]_vars => Apart'
  BY ApartStep
<1>3. Apart => LinesWhole
  BY DEF Apart, LinesWhole, Linked, Ends, EndsIn
<1> QED
  BY <1>1, <1>2, <1>3, LogInvariant, PTL DEF Spec

-----------------------------------------------------------------------------
(* A process's own lines.  Its parts are chained when each is followed, as *)
(* far as its own go, by the next of its line, or ends one and is followed *)
(* by the first of a new line.                                             *)
Follows(s, p, j, k, gone) ==
  \/ Next3(s[j], s[k])
  \/ EndsIn(s[j], gone) /\ s[k][3] = 1
     /\ \A i \in 1..j : s[i][1] = p => s[i][2] # s[k][2]
Chained(s, p, gone) ==
  \A j, k \in 1..Len(s) : Adjacent(s, p, j, k) => Follows(s, p, j, k, gone)
Lasts(s, p, k) ==
  k \in 1..Len(s) /\ s[k][1] = p /\ \A i \in (k + 1) .. Len(s) : s[i][1] # p

(* What the last part of a process is while its thread does label next.    *)
Stage(x, label, n, gone) ==
  /\ label \notin {"text", "newline"} => EndsIn(x, gone)
  /\ label = "text" => x[2] = n /\ x[3] = 1
  /\ label = "newline" => x[2] = n /\ x[3] = 2

All(p) == file \o buffer[p]
OwnLines(p, s, gone) ==
  /\ Chained(s, p, gone)
  /\ \A k \in 1..Len(s) : s[k][1] = p => s[k][2] <= lines
  /\ \A t \in ThreadsOf(p) : pc[t] \in {"enter", "lock", "header"} =>
       \A k \in 1..Len(s) : s[k][1] = p => s[k][2] # line[t]
  /\ \A k \in 1..Len(s) : Lasts(s, p, k) =>
       /\ logMutex[p] = None => EndsIn(s[k], gone)
       /\ \A t \in ThreadsOf(p) :
            logMutex[p] = t => Stage(s[k], pc[t], line[t], gone)

OwnInv ==
  /\ \A p \in Processes : \A k \in 1..Len(buffer[p]) : buffer[p][k][1] = p
  /\ \A t, u \in Threads : line[t] = line[u] /\ line[t] # 0 => t = u
  /\ \A p \in Processes : OwnLines(p, All(p), torn)

(* s is what r has, in its order, and r has of p nothing else.             *)
Placed(s, r, p, at) ==
  /\ \A i \in 1..Len(s) : at[i] \in 1..Len(r) /\ r[at[i]] = s[i]
  /\ \A i, j \in 1..Len(s) : i < j => at[i] < at[j]
  /\ \A k \in 1..Len(r) : r[k][1] = p => \E i \in 1..Len(s) : at[i] = k

LEMMA PlacedOrder ==
  ASSUME NEW s \in Seq(Pieces), NEW r \in Seq(Pieces), NEW p, NEW at, Placed(s, r, p, at),
         NEW i \in 1..Len(s), NEW j \in 1..Len(s)
  PROVE  at[i] <= at[j] <=> i <= j
<1>1. at[i] \in Int /\ at[j] \in Int
  BY DEF Placed
<1>2. i < j => at[i] < at[j]
  BY DEF Placed
<1>3. j < i => at[j] < at[i]
  BY DEF Placed
<1> QED
  BY <1>1, <1>2, <1>3

LEMMA PlacedChain ==
  ASSUME NEW s \in Seq(Pieces), NEW r \in Seq(Pieces), NEW p, NEW at, Placed(s, r, p, at),
         NEW gone, Chained(s, p, gone)
  PROVE  Chained(r, p, gone)
<1> SUFFICES ASSUME NEW j \in 1..Len(r), NEW k \in 1..Len(r), Adjacent(r, p, j, k)
             PROVE  Follows(r, p, j, k, gone)
  BY DEF Chained
<1>1. PICK a \in 1..Len(s) : at[a] = j
  BY DEF Placed, Adjacent
<1>2. PICK b \in 1..Len(s) : at[b] = k
  BY DEF Placed, Adjacent
<1>3. s[a] = r[j] /\ s[b] = r[k] /\ a < b
  BY <1>1, <1>2, PlacedOrder DEF Placed, Adjacent
<1>4. ASSUME NEW i \in (a + 1) .. (b - 1) PROVE s[i][1] # p
  <2>1. i \in 1..Len(s) /\ a < i /\ i < b
    OBVIOUS
  <2>2. at[i] \in 1..Len(r) /\ j < at[i] /\ at[i] < k /\ r[at[i]] = s[i]
    BY <1>1, <1>2, <2>1 DEF Placed
  <2>3. \A c \in 1..Len(r) : j < c /\ c < k => c \in (j + 1) .. (k - 1)
    OBVIOUS
  <2> QED
    BY <2>2, <2>3 DEF Adjacent
<1>5. Follows(s, p, a, b, gone)
  BY <1>3, <1>4 DEF Chained, Adjacent
<1>6. ASSUME NEW i \in 1..j, r[i][1] = p PROVE \E c \in 1..a : s[c] = r[i]
  <2>0. i \in 1..Len(r)
    OBVIOUS
  <2>1. PICK c \in 1..Len(s) : at[c] = i
    BY <1>6, <2>0 DEF Placed
  <2>2. c <= a
    BY <1>1, <2>1, PlacedOrder
  <2> QED
    BY <2>1, <2>2 DEF Placed
<1> QED
  BY <1>3, <1>5, <1>6 DEF Follows

LEMMA PlacedLast ==
  ASSUME NEW s \in Seq(Pieces), NEW r \in Seq(Pieces), NEW p, NEW at, Placed(s, r, p, at),
         NEW k \in 1..Len(r), r[k][1] = p
  PROVE  \E i \in 1..Len(s) : /\ s[i] = r[k] /\ s[i][1] = p
                              /\ Lasts(r, p, k) => Lasts(s, p, i)
<1>1. PICK i \in 1..Len(s) : at[i] = k
  BY DEF Placed
<1>2. s[i] = r[k]
  BY <1>1 DEF Placed
<1>3. ASSUME Lasts(r, p, k), NEW j \in (i + 1) .. Len(s) PROVE s[j][1] # p
  <2>1. j \in 1..Len(s) /\ i < j
    OBVIOUS
  <2>2. at[j] \in 1..Len(r) /\ k < at[j] /\ r[at[j]] = s[j]
    BY <1>1, <2>1 DEF Placed
  <2> QED
    BY <1>3, <2>2 DEF Lasts
<1> QED
  BY <1>1, <1>2, <1>3 DEF Lasts

(* What is put between file and buffer moves the buffer's parts.           *)
LEMMA InsertedPlaced ==
  ASSUME NEW s \in Seq(Pieces), NEW r \in Seq(Pieces), NEW x \in Seq(Pieces), NEW p,
         \A k \in 1..Len(x) : x[k][1] # p
  PROVE  \E at : Placed(s \o r, (s \o x) \o r, p, at)
<1> DEFINE a == s \o r
           b == (s \o x) \o r
           at == [i \in 1..Len(a) |-> IF i <= Len(s) THEN i ELSE i + Len(x)]
<1>1. Len(s) \in Nat /\ Len(r) \in Nat /\ Len(x) \in Nat
  OBVIOUS
<1>2. /\ Len(a) = Len(s) + Len(r)
      /\ \A k \in 1..Len(s) : a[k] = s[k]
      /\ \A k \in 1..Len(r) : a[Len(s) + k] = r[k]
  BY Joined
<1>3. /\ Len(b) = Len(s) + Len(x) + Len(r)
      /\ \A k \in 1..Len(s) : b[k] = s[k]
      /\ \A k \in 1..Len(x) : b[Len(s) + k] = x[k]
      /\ \A k \in 1..Len(r) : b[Len(s) + Len(x) + k] = r[k]
  <2>1. /\ s \o x \in Seq(Pieces) /\ Len(s \o x) = Len(s) + Len(x)
        /\ \A k \in 1..Len(s) : (s \o x)[k] = s[k]
        /\ \A k \in 1..Len(x) : (s \o x)[Len(s) + k] = x[k]
    BY Joined
  <2>2. /\ Len(b) = Len(s \o x) + Len(r)
        /\ \A k \in 1..Len(s \o x) : b[k] = (s \o x)[k]
        /\ \A k \in 1..Len(r) : b[Len(s \o x) + k] = r[k]
    BY <2>1, Joined
  <2> HIDE DEF b
  <2>3. ASSUME NEW k \in 1..Len(s) PROVE b[k] = s[k]
    <3>1. k \in 1..Len(s \o x)
      BY <1>1, <2>1
    <3> QED
      BY <2>1, <2>2, <3>1
  <2>4. ASSUME NEW k \in 1..Len(x) PROVE b[Len(s) + k] = x[k]
    <3>1. Len(s) + k \in 1..Len(s \o x)
      BY <1>1, <2>1
    <3> QED
      BY <2>1, <2>2, <3>1
  <2> QED
    BY <1>1, <2>1, <2>2, <2>3, <2>4
<1> HIDE DEF a, b
<1>4. ASSUME NEW i \in 1..Len(a) PROVE at[i] \in 1..Len(b) /\ b[at[i]] = a[i]
  <2>1. CASE i <= Len(s)
    BY <1>1, <1>2, <1>3, <2>1
  <2>2. CASE i > Len(s)
    <3> DEFINE k == i - Len(s)
    <3>1. k \in 1..Len(r) /\ i = Len(s) + k
      BY <1>1, <1>2, <2>2
    <3>2. at[i] = Len(s) + Len(x) + k
      BY <1>1, <2>2
    <3> HIDE DEF k, at
    <3>3. a[i] = r[k]
      BY <1>2, <3>1
    <3>4. b[Len(s) + Len(x) + k] = r[k] /\ Len(s) + Len(x) + k \in 1..Len(b)
      BY <1>1, <1>3, <3>1
    <3> QED
      BY <3>2, <3>3, <3>4
  <2> QED
    BY <1>1, <2>1, <2>2
<1>5. \A i, j \in 1..Len(a) : i < j => at[i] < at[j]
  BY <1>1, <1>2
<1>6. ASSUME NEW k \in 1..Len(b), b[k][1] = p PROVE \E i \in 1..Len(a) : at[i] = k
  <2>1. CASE k <= Len(s)
    BY <1>1, <1>2, <2>1
  <2>2. CASE k > Len(s) /\ k <= Len(s) + Len(x)
    <3>1. k - Len(s) \in 1..Len(x) /\ k = Len(s) + (k - Len(s))
      BY <1>1, <1>3, <2>2
    <3>2. b[k] = x[k - Len(s)]
      BY <1>3, <3>1
    <3> QED
      BY <1>6, <3>1, <3>2
  <2>3. CASE k > Len(s) + Len(x)
    <3>1. k - Len(x) \in 1..Len(a) /\ k - Len(x) > Len(s)
      BY <1>1, <1>2, <1>3, <2>3
    <3> QED
      BY <1>1, <3>1
  <2> QED
    BY <1>1, <2>1, <2>2, <2>3
<1>7. Placed(a, b, p, at)
  BY <1>4, <1>5, <1>6 DEF Placed
<1> HIDE DEF at
<1> QED
  BY <1>7 DEF a, b

LEMMA AllTyped ==
  ASSUME IInv, NEW p \in Processes
  PROVE  file \in Seq(Pieces) /\ buffer[p] \in Seq(Pieces) /\ All(p) \in Seq(Pieces)
<1>1. file \in Seq(Pieces) /\ buffer[p] \in Seq(Pieces)
  BY DEF IInv, TypeOK
<1> QED
  BY <1>1, Joined DEF All

LEMMA SamePlaced ==
  ASSUME NEW s \in Seq(Pieces), NEW p
  PROVE  \E at : Placed(s, s, p, at)
<1> DEFINE at == [i \in 1..Len(s) |-> i]
<1>1. Placed(s, s, p, at)
  BY DEF Placed
<1> HIDE DEF at
<1> QED
  BY <1>1

LEMMA ChainPushed ==
  ASSUME NEW s \in Seq(Pieces), NEW x \in Pieces, NEW p, NEW gone, Chained(s, p, gone),
         \A k \in 1..Len(s) : Lasts(s, p, k) =>
           Next3(s[k], x) \/ (EndsIn(s[k], gone) /\ x[3] = 1),
         x[3] = 1 => \A k \in 1..Len(s) : s[k][1] = p => s[k][2] # x[2]
  PROVE  Chained(Append(s, x), p, gone)
<1> DEFINE r == Append(s, x)
<1>1. /\ Len(r) = Len(s) + 1 /\ Len(s) \in Nat
      /\ \A k \in 1..Len(s) : r[k] = s[k]
      /\ r[Len(s) + 1] = x
  BY Pushed
<1> HIDE DEF r
<1> SUFFICES ASSUME NEW j \in 1..Len(r), NEW k \in 1..Len(r), Adjacent(r, p, j, k)
             PROVE  Follows(r, p, j, k, gone)
  BY DEF Chained, r
<1>2. j \in 1..Len(s) /\ r[j] = s[j] /\ \A i \in 1..j : i \in 1..Len(s) /\ r[i] = s[i]
  BY <1>1 DEF Adjacent
<1>3. CASE k \in 1..Len(s)
  <2>1. Adjacent(s, p, j, k)
    BY <1>1, <1>2, <1>3 DEF Adjacent
  <2>2. Follows(s, p, j, k, gone)
    BY <1>2, <1>3, <2>1 DEF Chained
  <2> QED
    BY <1>1, <1>2, <1>3, <2>2 DEF Follows
<1>4. CASE k = Len(s) + 1
  <2>1. Lasts(s, p, j)
    BY <1>1, <1>2, <1>4 DEF Adjacent, Lasts
  <2> QED
    BY <1>1, <1>2, <1>4, <2>1 DEF Follows
<1> QED
  BY <1>1, <1>3, <1>4

LEMMA LastPushed ==
  ASSUME NEW s \in Seq(Pieces), NEW x \in Pieces, NEW p, x[1] = p, NEW k,
         Lasts(Append(s, x), p, k)
  PROVE  k = Len(s) + 1 /\ Append(s, x)[k] = x
<1>1. /\ Len(Append(s, x)) = Len(s) + 1 /\ Len(s) \in Nat
      /\ Append(s, x)[Len(s) + 1] = x
  BY Pushed
<1>2. k \in 1 .. (Len(s) + 1)
  BY <1>1 DEF Lasts
<1>3. k < Len(s) + 1 => Len(s) + 1 \in (k + 1) .. Len(Append(s, x))
  BY <1>1, <1>2
<1> QED
  BY <1>1, <1>2, <1>3 DEF Lasts

LEMMA ChainMore ==
  ASSUME NEW s, NEW p, NEW gone, NEW more, gone \subseteq more, Chained(s, p, gone)
  PROVE  Chained(s, p, more)
BY DEF Chained, Follows, EndsIn

(* What is left of a chain when its end is lost.                           *)
LEMMA ChainCut ==
  ASSUME NEW s \in Seq(Pieces), NEW r \in Seq(Pieces), NEW p, NEW gone,
         Chained(s \o r, p, gone), \A k \in 1..Len(r) : r[k][1] = p
  PROVE  /\ Chained(s, p, gone)
         /\ \A k \in 1..Len(s) : Lasts(s, p, k) =>
              \/ EndsIn(s[k], gone)
              \/ r # <<>> /\ s[k][2] = r[1][2]
              \/ r = <<>> /\ Lasts(s \o r, p, k) /\ (s \o r)[k] = s[k]
<1> DEFINE a == s \o r
<1>1. /\ Len(s) \in Nat /\ Len(r) \in Nat /\ Len(a) = Len(s) + Len(r)
      /\ \A k \in 1..Len(s) : k \in 1..Len(a) /\ a[k] = s[k]
      /\ \A k \in 1..Len(r) : a[Len(s) + k] = r[k]
  BY Joined
<1>2. r # <<>> => 1 \in 1..Len(r)
  OBVIOUS
<1>3. r = <<>> => Len(a) = Len(s)
  BY JoinedEmpty
<1>4. Chained(a, p, gone)
  OBVIOUS
<1> HIDE DEF a
<1>5. Chained(s, p, gone)
  <2> SUFFICES ASSUME NEW j \in 1..Len(s), NEW k \in 1..Len(s), Adjacent(s, p, j, k)
               PROVE  Follows(s, p, j, k, gone)
    BY DEF Chained
  <2>1. /\ \A i \in 1..j : i \in 1..Len(s)
        /\ \A i \in (j + 1) .. (k - 1) : i \in 1..Len(s)
    <3>1. Len(s) \in Nat /\ j \in Nat /\ k \in Nat /\ 1 <= j /\ j <= Len(s) /\ k <= Len(s)
      BY <1>1
    <3>2. ASSUME NEW i \in (j + 1) .. (k - 1) PROVE i \in 1..Len(s)
      BY <3>1
    <3>3. ASSUME NEW i \in 1..j PROVE i \in 1..Len(s)
      BY <3>1
    <3> QED
      BY <3>2, <3>3
  <2>2. Adjacent(a, p, j, k)
    BY <1>1, <2>1 DEF Adjacent
  <2>3. Follows(a, p, j, k, gone)
    BY <1>1, <1>4, <2>2 DEF Chained
  <2> QED
    BY <1>1, <2>1, <2>3 DEF Follows
<1>6. ASSUME NEW k \in 1..Len(s), Lasts(s, p, k), r # <<>>
      PROVE  EndsIn(s[k], gone) \/ s[k][2] = r[1][2]
  <2>1. /\ Len(s) + 1 \in 1..Len(a) /\ a[Len(s) + 1] = r[1] /\ r[1][1] = p
        /\ a[k] = s[k] /\ k \in 1..Len(a)
    BY <1>1, <1>2, <1>6
  <2>2. \A i \in (k + 1) .. ((Len(s) + 1) - 1) : a[i][1] # p
    BY <1>1, <1>6 DEF Lasts
  <2>3. Adjacent(a, p, k, Len(s) + 1)
    BY <1>1, <1>6, <2>1, <2>2 DEF Adjacent, Lasts
  <2>4. Follows(a, p, k, Len(s) + 1, gone)
    BY <1>4, <2>1, <2>3 DEF Chained
  <2> QED
    BY <2>1, <2>4 DEF Follows, Next3
<1>7. ASSUME NEW k \in 1..Len(s), Lasts(s, p, k), r = <<>>
      PROVE  Lasts(a, p, k) /\ a[k] = s[k]
  BY <1>1, <1>3, <1>7 DEF Lasts
<1> QED
  BY <1>5, <1>6, <1>7 DEF a

(* A process of which nothing changes but the place of its parts.          *)
LEMMA Kept ==
  ASSUME IInv, IInv', NEW p \in Processes, OwnLines(p, All(p), torn),
         \A t \in ThreadsOf(p) : pc'[t] = pc[t] /\ line'[t] = line[t],
         logMutex'[p] = logMutex[p], lines <= lines', torn \subseteq torn',
         NEW at, Placed(All(p), All(p)', p, at)
  PROVE  OwnLines(p, All(p), torn)'
<1> DEFINE s == All(p)
           r == All(p)'
<1>1. s \in Seq(Pieces) /\ r \in Seq(Pieces) /\ Placed(s, r, p, at)
  BY AllTyped, Joined DEF IInv, TypeOK, All
<1>2. OwnLines(p, s, torn)
  OBVIOUS
<1>3. lines \in Nat /\ lines' \in Nat /\ torn \subseteq torn'
  BY DEF IInv, TypeOK
<1> HIDE DEF s, r
<1>4. Chained(r, p, torn')
  BY <1>1, <1>2, <1>3, PlacedChain, ChainMore DEF OwnLines
<1>5. ASSUME NEW k \in 1..Len(r), r[k][1] = p
      PROVE  \E i \in 1..Len(s) : /\ s[i] = r[k] /\ s[i][1] = p
                                  /\ Lasts(r, p, k) => Lasts(s, p, i)
  BY <1>1, <1>5, PlacedLast
<1>6. \A k \in 1..Len(s) : s[k][2] \in Nat
  BY <1>1 DEF Pieces, Lines
<1>7. \A k \in 1..Len(r) : r[k][1] = p => r[k][2] <= lines'
  BY <1>2, <1>3, <1>5, <1>6 DEF OwnLines
<1>8. \A t \in ThreadsOf(p) : pc'[t] \in {"enter", "lock", "header"} =>
        \A k \in 1..Len(r) : r[k][1] = p => r[k][2] # line'[t]
  BY <1>2, <1>5 DEF OwnLines
<1>9. ASSUME NEW k \in 1..Len(r), Lasts(r, p, k)
      PROVE  /\ logMutex'[p] = None => EndsIn(r[k], torn')
             /\ \A t \in ThreadsOf(p) :
                  logMutex'[p] = t => Stage(r[k], pc'[t], line'[t], torn')
  <2>1. r[k][1] = p
    BY <1>9 DEF Lasts
  <2>2. PICK i \in 1..Len(s) : s[i] = r[k] /\ Lasts(s, p, i)
    BY <1>5, <1>9, <2>1
  <2> QED
    BY <1>2, <1>3, <2>2 DEF OwnLines, Stage, EndsIn
<1> QED
  BY <1>4, <1>7, <1>8, <1>9 DEF OwnLines, r

Mine(s, p) == \A k \in 1..Len(s) : s[k][1] = p

LEMMA MinePushed ==
  ASSUME NEW s \in Seq(Pieces), NEW x \in Pieces, NEW p, Mine(s, p), x[1] = p
  PROVE  Mine(Append(s, x), p)
BY Pushed DEF Mine

LEMMA MineStep ==
  ASSUME IInv, [Next]_vars, \A p \in Processes : Mine(buffer[p], p)
  PROVE  \A p \in Processes : Mine(buffer'[p], p)
<1> DEFINE Goal == \A p \in Processes : Mine(buffer'[p], p)
<1>0. /\ buffer \in [Processes -> Seq(Pieces)]
      /\ \A p : Mine(<<>>, p)
  BY DEF IInv, TypeOK, Mine
<1>1. ASSUME NEW t \in Threads, Write(t) PROVE Goal
  <2> DEFINE p == Process[t]
             x == <<p, line[t], Part[pc[t]]>>
             pieces == Append(buffer[p], x)
  <2>1. p \in Processes /\ x \in Pieces /\ x[1] = p
    BY <1>1, SharedAssumption, PieceWritten DEF Write
  <2>2. Mine(pieces, p)
    BY <1>0, <2>1, MinePushed
  <2>3. buffer' = [buffer EXCEPT ![p] = pieces] \/ buffer' = [buffer EXCEPT ![p] = <<>>]
    BY <1>1 DEF Write, WriteOut
  <2> HIDE DEF pieces
  <2> QED
    BY <1>0, <2>1, <2>2, <2>3
<1>2. ASSUME NEW p \in Processes, buffer' = [buffer EXCEPT ![p] = <<>>] PROVE Goal
  BY <1>0, <1>2
<1>3. ASSUME buffer' = buffer PROVE Goal
  BY <1>3
<1>4. ASSUME NEW t \in Threads, Flush(t) PROVE Goal
  BY <1>2, <1>3, <1>4, SharedAssumption DEF Flush, WriteOut
<1>5. ASSUME NEW p \in Processes, Close(p) \/ Die(p) PROVE Goal
  BY <1>2, <1>5 DEF Close, Die, Gone
<1>6. ASSUME NEW p \in Processes, InitLogger(p) \/ OpenToAll(p) PROVE Goal
  BY <1>3, <1>6 DEF InitLogger, OpenToAll
<1>7. ASSUME NEW t \in Threads, LogCall(t) \/ Signal(t) \/ Enter(t) \/ WriteLockW(t) \/ Unlock(t)
      PROVE  Goal
  BY <1>3, <1>7 DEF LogCall, Signal, Enter, WriteLockW, Unlock
<1>8. CASE UNCHANGED vars
  BY <1>3, <1>8 DEF vars
<1> QED
  BY <1>1, <1>4, <1>5, <1>6, <1>7, <1>8 DEF Next, Step

(* No two calls under way write the same line.                             *)
Distinct == \A t, u \in Threads : line[t] = line[u] /\ line[t] # 0 => t = u

LEMMA DistinctStep ==
  ASSUME IInv, [Next]_vars, Distinct
  PROVE  Distinct'
<1>0. line \in [Threads -> Lines \cup {0}] /\ lines \in Nat
  BY DEF IInv, TypeOK
<1>1. \A t \in Threads : line[t] \in 0..lines
  BY <1>0 DEF IInv, Calls
<1>2. ASSUME NEW t \in Threads, LogCall(t) PROVE Distinct'
  <2>1. line' = [line EXCEPT ![t] = lines + 1]
    BY <1>2 DEF LogCall
  <2> QED
    BY <1>0, <1>1, <2>1 DEF Distinct
<1>3. ASSUME \A t \in Threads : line'[t] \in {0, line[t]} PROVE Distinct'
  BY <1>3 DEF Distinct
<1>4. ASSUME NEW p \in Processes, Die(p) PROVE Distinct'
  BY <1>3, <1>4 DEF Die
<1>5. ASSUME NEW p \in Processes, InitLogger(p) \/ OpenToAll(p) \/ Close(p) PROVE Distinct'
  BY <1>3, <1>5 DEF InitLogger, OpenToAll, Close, threads
<1>6. ASSUME NEW t \in Threads, Signal(t) \/ Step(t) PROVE Distinct'
  BY <1>0, <1>3, <1>6 DEF Signal, Step, Enter, WriteLockW, Write, Flush, Unlock
<1>7. CASE UNCHANGED vars
  BY <1>3, <1>7 DEF vars, threads
<1> QED
  BY <1>2, <1>4, <1>5, <1>6, <1>7 DEF Next

(* A process does not disturb the lines of another.                        *)
LEMMA OthersOwn ==
  ASSUME IInv, IInv', OwnInv, NEW q \in Processes, NEW p \in Processes, q # p,
         \A t \in ThreadsOf(q) : pc'[t] = pc[t] /\ line'[t] = line[t],
         logMutex'[q] = logMutex[q], buffer'[q] = buffer[q],
         lines <= lines', torn \subseteq torn',
         file' = file \/ \E x \in Seq(Pieces) : Mine(x, p) /\ file' = file \o x
  PROVE  OwnLines(q, All(q), torn)'
<1>1. file \in Seq(Pieces) /\ buffer[q] \in Seq(Pieces) /\ All(q) \in Seq(Pieces)
  BY AllTyped
<1>2. All(q)' = file' \o buffer[q]
  BY DEF All
<1>3. \E at : Placed(All(q), All(q)', q, at)
  <2>1. CASE file' = file
    BY <1>1, <1>2, <2>1, SamePlaced DEF All
  <2>2. CASE \E x \in Seq(Pieces) : Mine(x, p) /\ file' = file \o x
    <3>1. PICK x \in Seq(Pieces) : Mine(x, p) /\ file' = file \o x
      BY <2>2
    <3>2. \A k \in 1..Len(x) : x[k][1] # q
      BY <3>1 DEF Mine
    <3>3. \E at : Placed(file \o buffer[q], (file \o x) \o buffer[q], q, at)
      BY <1>1, <3>2, InsertedPlaced
    <3> QED
      BY <1>2, <3>1, <3>3 DEF All
  <2> QED
    BY <2>1, <2>2
<1>4. PICK at : Placed(All(q), All(q)', q, at)
  BY <1>3
<1>5. OwnLines(q, All(q), torn)
  BY DEF OwnInv
<1> QED
  BY <1>4, <1>5, Kept

(* Nor does a step that writes nothing, of a thread elsewhere.             *)
LEMMA QuietOwn ==
  ASSUME IInv, IInv', OwnInv, NEW q \in Processes,
         \A t \in ThreadsOf(q) : pc'[t] = pc[t] /\ line'[t] = line[t],
         logMutex'[q] = logMutex[q], All(q)' = All(q),
         lines <= lines', torn \subseteq torn'
  PROVE  OwnLines(q, All(q), torn)'
<1>1. \E at : Placed(All(q), All(q)', q, at)
  BY AllTyped, SamePlaced
<1>2. PICK at : Placed(All(q), All(q)', q, at)
  BY <1>1
<1> QED
  BY <1>2, Kept DEF OwnInv

(* What a last part has to be while its process is where it is.            *)
LastPart(p, x) ==
  /\ logMutex[p] = None => EndsIn(x, torn)
  /\ \A t \in ThreadsOf(p) : logMutex[p] = t => Stage(x, pc[t], line[t], torn)

(* The thread in turn goes on without writing.                             *)
LEMMA TurnOwn ==
  ASSUME IInv, IInv', OwnInv, NEW p \in Processes,
         All(p)' = All(p), torn' = torn, lines <= lines',
         \A t \in ThreadsOf(p) : pc'[t] \in {"enter", "lock", "header"} =>
           \/ pc[t] \in {"enter", "lock", "header"} /\ line'[t] = line[t]
           \/ line'[t] > lines,
         \A x \in Pieces : LastPart(p, x) => LastPart(p, x)'
  PROVE  OwnLines(p, All(p), torn)'
<1> DEFINE s == All(p)
<1>1. s \in Seq(Pieces) /\ OwnLines(p, s, torn)
  BY AllTyped DEF OwnInv
<1>2. lines \in Nat /\ lines' \in Nat /\ \A k \in 1..Len(s) : s[k] \in Pieces /\ s[k][2] \in Nat
  <2>1. lines \in Nat /\ lines' \in Nat
    BY DEF IInv, TypeOK
  <2> QED
    BY <1>1, <2>1 DEF Pieces, Lines
<1>3. All(p)' = s
  OBVIOUS
<1> HIDE DEF s
<1>4. Chained(s, p, torn) /\ \A k \in 1..Len(s) : s[k][1] = p => s[k][2] <= lines'
  BY <1>1, <1>2 DEF OwnLines
<1>5. ASSUME NEW t \in ThreadsOf(p), pc'[t] \in {"enter", "lock", "header"},
             NEW k \in 1..Len(s), s[k][1] = p
      PROVE  s[k][2] # line'[t]
  <2>1. s[k][2] <= lines /\ s[k][2] \in Nat
    BY <1>1, <1>2, <1>5 DEF OwnLines
  <2>2. CASE line'[t] > lines
    BY <1>2, <2>1, <2>2
  <2>3. CASE pc[t] \in {"enter", "lock", "header"} /\ line'[t] = line[t]
    BY <1>1, <1>5, <2>3 DEF OwnLines
  <2> QED
    BY <1>5, <2>2, <2>3
<1>6. \A k \in 1..Len(s) : Lasts(s, p, k) =>
        /\ logMutex'[p] = None => EndsIn(s[k], torn)
        /\ \A t \in ThreadsOf(p) :
             logMutex'[p] = t => Stage(s[k], pc'[t], line'[t], torn)
  BY <1>1, <1>2 DEF OwnLines, LastPart
<1> QED
  BY <1>3, <1>4, <1>5, <1>6 DEF OwnLines

LEMMA WriteOwn ==
  ASSUME IInv, IInv', OwnInv, NEW t \in Threads, Write(t)
  PROVE  OwnLines(Process[t], All(Process[t]), torn)'
<1> DEFINE p == Process[t]
           x == <<p, line[t], Part[pc[t]]>>
           s == All(p)
           r == Append(s, x)
<1>0. /\ p \in Processes /\ file \in Seq(Pieces) /\ buffer[p] \in Seq(Pieces)
      /\ s \in Seq(Pieces) /\ OwnLines(p, s, torn)
  BY SharedAssumption, AllTyped DEF OwnInv
<1>1. /\ pc[t] \in {"header", "text", "newline"} /\ pc' = [pc EXCEPT ![t] = After[pc[t]]]
      /\ line' = line /\ torn' = torn /\ lines' = lines /\ logMutex' = logMutex
  BY DEF Write, Part, Goto, history
<1>2. x \in Pieces /\ Append(buffer[p], x) \in Seq(Pieces)
  BY PieceWritten DEF Write
<1>3. All(p)' = r
  <2>1. file \o Append(buffer[p], x) = r
    BY <1>0, <1>2, JoinedPushed DEF All
  <2>2. \/ buffer' = [buffer EXCEPT ![p] = Append(buffer[p], x)] /\ file' = file
        \/ file' = file \o Append(buffer[p], x) /\ buffer' = [buffer EXCEPT ![p] = <<>>]
    BY DEF Write, WriteOut
  <2>3. buffer \in [Processes -> Seq(Pieces)] /\ r \in Seq(Pieces)
    BY <1>0, <1>2, Pushed DEF IInv, TypeOK
  <2> HIDE DEF r, s, x
  <2>4. CASE buffer' = [buffer EXCEPT ![p] = Append(buffer[p], x)] /\ file' = file
    BY <1>0, <2>1, <2>3, <2>4 DEF All
  <2>5. CASE file' = file \o Append(buffer[p], x) /\ buffer' = [buffer EXCEPT ![p] = <<>>]
    <3>1. buffer'[p] = <<>> /\ file' = r
      BY <1>0, <2>1, <2>3, <2>5
    <3> QED
      BY <2>3, <3>1, JoinedEmpty DEF All
  <2> QED
    BY <2>2, <2>4, <2>5
<1>4. x[1] = p /\ x[2] = line[t] /\ x[3] = Part[pc[t]]
  OBVIOUS
<1>5. /\ logMutex[p] = t /\ t \in ThreadsOf(p) /\ t # None
      /\ line[t] \in 1..lines /\ lines \in Nat
      /\ pc \in [Threads -> {"idle", "enter", "lock", "header", "text", "newline",
                            "flush", "unlock"}]
  BY <1>1, SharedAssumption DEF IInv, TypeOK, Calls, ThreadsOf
<1> HIDE DEF p, x, s
<1>6. \A k \in 1..Len(s) : Lasts(s, p, k) => Stage(s[k], pc[t], line[t], torn)
  BY <1>0, <1>5 DEF OwnLines
<1>7. Chained(r, p, torn)
  <2>1. \A k \in 1..Len(s) : Lasts(s, p, k) =>
          Next3(s[k], x) \/ (EndsIn(s[k], torn) /\ x[3] = 1)
    BY <1>1, <1>4, <1>6 DEF Stage, Next3, Part
  <2>2. x[3] = 1 => pc[t] = "header"
    BY <1>1, <1>4 DEF Part
  <2>3. x[3] = 1 => \A k \in 1..Len(s) : s[k][1] = p => s[k][2] # x[2]
    BY <1>0, <1>4, <1>5, <2>2 DEF OwnLines
  <2> QED
    BY <1>0, <1>2, <2>1, <2>3, ChainPushed DEF OwnLines
<1>8. /\ Len(r) = Len(s) + 1 /\ Len(s) \in Nat
      /\ \A k \in 1..Len(s) : r[k] = s[k]
      /\ r[Len(s) + 1] = x
  BY <1>0, <1>2, Pushed
<1>9. \A k \in 1..Len(r) : r[k] = x \/ (k \in 1..Len(s) /\ r[k] = s[k])
  BY <1>8
<1>10. \A k \in 1..Len(r) : r[k][1] = p => r[k][2] <= lines'
  BY <1>0, <1>1, <1>4, <1>5, <1>9 DEF OwnLines
<1>11. ASSUME NEW u \in ThreadsOf(p), pc'[u] \in {"enter", "lock", "header"},
              NEW k \in 1..Len(r), r[k][1] = p
       PROVE  r[k][2] # line'[u]
  <2>1. u # t /\ pc[u] = pc'[u] /\ u \in Threads
    BY <1>1, <1>5, <1>11 DEF After, ThreadsOf
  <2>2. line[u] # line[t]
    <3>1. line[t] # 0
      BY <1>5
    <3> QED
      BY <2>1, <3>1 DEF OwnInv
  <2> QED
    BY <1>0, <1>1, <1>4, <1>9, <1>11, <2>1, <2>2 DEF OwnLines
<1>12. ASSUME NEW k \in 1..Len(r), Lasts(r, p, k)
       PROVE  /\ logMutex'[p] = None => EndsIn(r[k], torn')
              /\ \A u \in ThreadsOf(p) :
                   logMutex'[p] = u => Stage(r[k], pc'[u], line'[u], torn')
  <2>1. r[k] = x
    BY <1>0, <1>2, <1>4, <1>12, LastPushed
  <2>2. pc'[t] = After[pc[t]]
    BY <1>1, <1>5
  <2>3. Stage(x, pc'[t], line[t], torn)
    BY <1>1, <1>4, <2>2 DEF Stage, EndsIn, After, Part
  <2> QED
    BY <1>1, <1>5, <2>1, <2>3
<1> HIDE DEF r
<1> QED
  BY <1>1, <1>3, <1>7, <1>10, <1>11, <1>12 DEF OwnLines, p

(* A death keeps what is in the file, and what it cuts short counts as     *)
(* torn.                                                                   *)
LEMMA DieOwn ==
  ASSUME IInv, IInv', OwnInv, NEW p \in Processes, Die(p)
  PROVE  OwnLines(p, All(p), torn)'
<1> DEFINE b == buffer[p]
<1>0. /\ file \in Seq(Pieces) /\ b \in Seq(Pieces)
      /\ OwnLines(p, file \o b, torn) /\ \A k \in 1..Len(b) : b[k][1] = p
  BY AllTyped DEF OwnInv, All
<1>1. /\ pc' = [t \in Threads |-> IF Process[t] = p THEN "idle" ELSE pc[t]]
      /\ logMutex' = [logMutex EXCEPT ![p] = None] /\ lines' = lines
      /\ file' = file /\ buffer' = [buffer EXCEPT ![p] = <<>>]
      /\ torn \subseteq torn'
      /\ \A t \in Threads : Process[t] = p /\ pc[t] # "idle" => line[t] \in torn'
      /\ \A k \in DOMAIN b : b[k][2] \in torn'
  BY DEF Die, Gone, ThreadsOf
<1>2. /\ buffer \in [Processes -> Seq(Pieces)]
      /\ logMutex \in [Processes -> Threads \cup {None}] /\ None \notin Threads
  BY SharedAssumption DEF IInv, TypeOK
<1>3. All(p)' = file
  <2>1. buffer'[p] = <<>>
    BY <1>1, <1>2
  <2> QED
    BY <1>0, <1>1, <2>1, JoinedEmpty DEF All
<1>4. b # <<>> => b[1][2] \in torn'
  <2>1. b # <<>> => 1 \in DOMAIN b
    BY <1>0
  <2> QED
    BY <1>1, <2>1
<1> HIDE DEF b
<1>5. /\ Chained(file, p, torn)
      /\ \A k \in 1..Len(file) : Lasts(file, p, k) =>
           \/ EndsIn(file[k], torn)
           \/ b # <<>> /\ file[k][2] = b[1][2]
           \/ b = <<>> /\ Lasts(file \o b, p, k) /\ (file \o b)[k] = file[k]
  BY <1>0, ChainCut DEF OwnLines
<1>6. Chained(file, p, torn')
  BY <1>1, <1>5, ChainMore
<1>7. \A k \in 1..Len(file) : file[k][1] = p => file[k][2] <= lines'
  <2>1. \A k \in 1..Len(file) : k \in 1..Len(file \o b) /\ (file \o b)[k] = file[k]
    BY <1>0, Joined
  <2> QED
    BY <1>0, <1>1, <2>1 DEF OwnLines
<1>8. ASSUME NEW k \in 1..Len(file), Lasts(file, p, k) PROVE EndsIn(file[k], torn')
  <2>1. CASE EndsIn(file[k], torn)
    BY <1>1, <2>1 DEF EndsIn
  <2>2. CASE b # <<>> /\ file[k][2] = b[1][2]
    BY <1>4, <2>2 DEF EndsIn
  <2>3. CASE Lasts(file \o b, p, k) /\ (file \o b)[k] = file[k]
    <3>1. k \in 1..Len(file \o b)
      BY <2>3 DEF Lasts
    <3>2. CASE logMutex[p] = None
      <4>1. EndsIn(file[k], torn)
        BY <1>0, <2>3, <3>1, <3>2 DEF OwnLines
      <4> QED
        BY <1>1, <4>1 DEF EndsIn
    <3>3. CASE logMutex[p] # None
      <4>1. PICK t \in Threads : t = logMutex[p]
        BY <1>2, <3>3
      <4>2. Process[t] = p /\ pc[t] # "idle" /\ t \in ThreadsOf(p)
        BY <3>3, <4>1 DEF IInv, Calls, ThreadsOf
      <4>3. Stage(file[k], pc[t], line[t], torn)
        BY <1>0, <2>3, <3>1, <4>1, <4>2 DEF OwnLines
      <4> QED
        BY <1>1, <4>2, <4>3 DEF Stage, EndsIn
    <3> QED
      BY <3>2, <3>3
  <2> QED
    BY <1>5, <1>8, <2>1, <2>2, <2>3
<1>9. /\ \A t \in ThreadsOf(p) : pc'[t] = "idle" /\ t # logMutex'[p]
      /\ logMutex'[p] = None
  BY <1>1, <1>2 DEF ThreadsOf
<1> QED
  BY <1>3, <1>6, <1>7, <1>8, <1>9 DEF OwnLines

(* Every process keeps its lines in order in every step.                   *)
LEMMA OwnStep ==
  ASSUME IInv, OwnInv, [Next]_vars
  PROVE  OwnInv'
<1> DEFINE Goal == \A q \in Processes : OwnLines(q, All(q), torn)'
<1>0. IInv'
  BY InvariantStep
<1>1. /\ \A p \in Processes : Mine(buffer'[p], p)
      /\ Distinct'
  BY MineStep, DistinctStep DEF OwnInv, Mine, Distinct
<1>2. SUFFICES Goal
  BY <1>1, <1>2 DEF OwnInv, Mine, Distinct
<1>3. /\ buffer \in [Processes -> Seq(Pieces)] /\ file \in Seq(Pieces)
      /\ pc \in [Threads -> {"idle", "enter", "lock", "header", "text", "newline",
                            "flush", "unlock"}]
      /\ line \in [Threads -> Lines \cup {0}] /\ lines \in Nat
      /\ logMutex \in [Processes -> Threads \cup {None}] /\ None \notin Threads
      /\ \A t \in Threads : Process[t] \in Processes
      /\ \A p \in Processes : buffer[p] \in Seq(Pieces) /\ Mine(buffer[p], p)
  BY SharedAssumption DEF IInv, TypeOK, OwnInv, Mine
<1>4. ASSUME pc' = pc, line' = line, logMutex' = logMutex, buffer' = buffer, file' = file,
             lines' = lines, torn' = torn
      PROVE  Goal
  <2> SUFFICES ASSUME NEW q \in Processes PROVE OwnLines(q, All(q), torn)'
    OBVIOUS
  <2>1. All(q)' = All(q)
    BY <1>4 DEF All
  <2> QED
    BY <1>0, <1>3, <1>4, <2>1, QuietOwn
(* Of a step of one thread, what it does for its process is enough.        *)
<1>5. ASSUME NEW t \in Threads, OwnLines(Process[t], All(Process[t]), torn)',
             \A u \in Threads \ {t} : pc'[u] = pc[u] /\ line'[u] = line[u],
             \A q \in Processes \ {Process[t]} :
               logMutex'[q] = logMutex[q] /\ buffer'[q] = buffer[q],
             lines <= lines', torn' = torn,
             file' = file \/ \E x \in Seq(Pieces) : Mine(x, Process[t]) /\ file' = file \o x
      PROVE  Goal
  <2> SUFFICES ASSUME NEW q \in Processes, q # Process[t]
               PROVE  OwnLines(q, All(q), torn)'
    BY <1>5
  <2>1. \A u \in ThreadsOf(q) : pc'[u] = pc[u] /\ line'[u] = line[u]
    BY <1>5 DEF ThreadsOf
  <2> QED
    BY <1>0, <1>3, <1>5, <2>1, OthersOwn
<1>6. ASSUME NEW t \in Threads, Write(t) PROVE Goal
  <2> DEFINE p == Process[t]
             x == <<p, line[t], Part[pc[t]]>>
             pieces == Append(buffer[p], x)
  <2>1. pieces \in Seq(Pieces) /\ Mine(pieces, p)
    BY <1>3, <1>6, PieceWritten, MinePushed DEF Write
  <2>2. \/ buffer' = [buffer EXCEPT ![p] = pieces] /\ file' = file
        \/ file' = file \o pieces /\ buffer' = [buffer EXCEPT ![p] = <<>>]
    BY <1>6 DEF Write, WriteOut
  <2>3. /\ pc' = [pc EXCEPT ![t] = After[pc[t]]] /\ line' = line /\ logMutex' = logMutex
        /\ lines' = lines /\ torn' = torn
    BY <1>6 DEF Write, Goto, history
  <2>4. OwnLines(p, All(p), torn)'
    BY <1>0, <1>6, WriteOwn
  <2> HIDE DEF pieces
  <2>5. \A u \in Threads \ {t} : pc'[u] = pc[u] /\ line'[u] = line[u]
    BY <1>3, <2>3
  <2>6. \A q \in Processes \ {p} : logMutex'[q] = logMutex[q] /\ buffer'[q] = buffer[q]
    BY <1>3, <2>2, <2>3
  <2>7. file' = file \/ \E z \in Seq(Pieces) : Mine(z, p) /\ file' = file \o z
    BY <2>1, <2>2
  <2>8. lines <= lines' /\ torn' = torn
    BY <1>3, <2>3
  <2> QED
    BY <1>5, <2>4, <2>5, <2>6, <2>7, <2>8
<1>7. ASSUME NEW t \in Threads, Flush(t) PROVE Goal
  <2> DEFINE p == Process[t]
  <2>1. /\ pc[t] = "flush" /\ pc' = [pc EXCEPT ![t] = "unlock"] /\ line' = line
        /\ logMutex' = logMutex /\ lines' = lines /\ torn' = torn
        /\ \/ file' = file \o buffer[p] /\ buffer' = [buffer EXCEPT ![p] = <<>>]
           \/ file' = file /\ buffer' = buffer
    BY <1>7 DEF Flush, WriteOut, Goto, history
  <2>2. All(p)' = All(p)
    <3>1. file \o buffer[p] \in Seq(Pieces) /\ p \in Processes
      BY <1>3, Joined
    <3>2. CASE file' = file \o buffer[p] /\ buffer' = [buffer EXCEPT ![p] = <<>>]
      <4>1. buffer'[p] = <<>>
        BY <1>3, <3>1, <3>2
      <4>2. file' \o buffer'[p] = file'
        BY <3>1, <3>2, <4>1, JoinedEmpty
      <4> QED
        BY <3>2, <4>2 DEF All
    <3>3. CASE file' = file /\ buffer' = buffer
      BY <3>3 DEF All
    <3> QED
      BY <2>1, <3>2, <3>3
  <2>3. \A x, n : Stage(x, "flush", n, torn) => Stage(x, "unlock", n, torn)
    BY DEF Stage
  <2>4. OwnLines(p, All(p), torn)'
    <3>1. \A u \in ThreadsOf(p) : /\ line'[u] = line[u]
                                  /\ pc'[u] = pc[u] \/ (pc[u] = "flush" /\ pc'[u] = "unlock")
      BY <1>3, <2>1 DEF ThreadsOf
    <3>2. \A u \in ThreadsOf(p) : pc'[u] \in {"enter", "lock", "header"} =>
            \/ pc[u] \in {"enter", "lock", "header"} /\ line'[u] = line[u]
            \/ line'[u] > lines
      BY <3>1
    <3>3. \A x \in Pieces : LastPart(p, x) => LastPart(p, x)'
      BY <2>1, <2>3, <3>1 DEF LastPart
    <3>4. p \in Processes /\ torn' = torn /\ lines <= lines'
      BY <1>3, <2>1
    <3> QED
      BY <1>0, <2>2, <3>2, <3>3, <3>4, TurnOwn
  <2>5. /\ \A u \in Threads \ {t} : pc'[u] = pc[u] /\ line'[u] = line[u]
        /\ lines <= lines'
    BY <1>3, <2>1
  <2>6. \A q \in Processes \ {p} : logMutex'[q] = logMutex[q] /\ buffer'[q] = buffer[q]
    BY <1>3, <2>1
  <2>7. file' = file \/ \E x \in Seq(Pieces) : Mine(x, p) /\ file' = file \o x
    BY <1>3, <2>1
  <2> QED
    BY <1>5, <2>1, <2>4, <2>5, <2>6, <2>7
<1>8. ASSUME NEW t \in Threads, Unlock(t) PROVE Goal
  <2> DEFINE p == Process[t]
  <2>1. /\ pc[t] = "unlock" /\ pc' = [pc EXCEPT ![t] = "idle"]
        /\ line' = [line EXCEPT ![t] = 0]
        /\ logMutex' = [logMutex EXCEPT ![p] = None] /\ lines' = lines /\ torn' = torn
        /\ file' = file /\ buffer' = buffer
    BY <1>8 DEF Unlock, Goto, history
  <2>2. All(p)' = All(p)
    BY <2>1 DEF All
  <2>3. \A x, n : Stage(x, "unlock", n, torn) => EndsIn(x, torn)
    BY DEF Stage
  <2>4. logMutex[p] = t /\ t \in ThreadsOf(p) /\ logMutex'[p] = None
    BY <1>3, <2>1 DEF IInv, Calls, ThreadsOf
  <2>5. OwnLines(p, All(p), torn)'
    <3>1. \A u \in ThreadsOf(p) : pc'[u] = "idle" \/ (pc'[u] = pc[u] /\ line'[u] = line[u])
      BY <1>3, <2>1 DEF ThreadsOf
    <3>2. None \notin ThreadsOf(p)
      BY <1>3 DEF ThreadsOf
    <3>3. \A u \in ThreadsOf(p) : pc'[u] \in {"enter", "lock", "header"} =>
            \/ pc[u] \in {"enter", "lock", "header"} /\ line'[u] = line[u]
            \/ line'[u] > lines
      BY <3>1
    <3>4. \A x \in Pieces : LastPart(p, x) => LastPart(p, x)'
      BY <2>1, <2>3, <2>4, <3>1, <3>2 DEF LastPart
    <3>5. p \in Processes /\ torn' = torn /\ lines <= lines'
      BY <1>3, <2>1
    <3> QED
      BY <1>0, <2>2, <3>3, <3>4, <3>5, TurnOwn
  <2>6. /\ \A u \in Threads \ {t} : pc'[u] = pc[u] /\ line'[u] = line[u]
        /\ lines <= lines'
    BY <1>3, <2>1
  <2>7. \A q \in Processes \ {p} : logMutex'[q] = logMutex[q] /\ buffer'[q] = buffer[q]
    BY <1>3, <2>1
  <2>8. file' = file \/ \E x \in Seq(Pieces) : Mine(x, p) /\ file' = file \o x
    BY <1>3, <2>1
  <2> QED
    BY <1>5, <2>1, <2>5, <2>6, <2>7, <2>8
<1>9. ASSUME NEW t \in Threads, Enter(t) PROVE Goal
  <2> DEFINE p == Process[t]
  <2>1. /\ pc[t] = "enter" /\ logMutex[p] = None /\ pc' = [pc EXCEPT ![t] = "lock"]
        /\ line' = line /\ logMutex' = [logMutex EXCEPT ![p] = t]
        /\ lines' = lines /\ torn' = torn /\ file' = file /\ buffer' = buffer
    BY <1>9 DEF Enter, Goto, history
  <2>2. All(p)' = All(p)
    BY <2>1 DEF All
  <2>3. \A x, n : EndsIn(x, torn) => Stage(x, "lock", n, torn)
    BY DEF Stage
  <2>4. logMutex'[p] = t /\ pc'[t] = "lock" /\ t # None
    BY <1>3, <2>1
  <2>5. OwnLines(p, All(p), torn)'
    <3>1. \A u \in ThreadsOf(p) : /\ line'[u] = line[u]
                                  /\ pc'[u] = pc[u] \/ (pc[u] = "enter" /\ pc'[u] = "lock")
      BY <1>3, <2>1 DEF ThreadsOf
    <3>2. \A u \in ThreadsOf(p) : pc'[u] \in {"enter", "lock", "header"} =>
            \/ pc[u] \in {"enter", "lock", "header"} /\ line'[u] = line[u]
            \/ line'[u] > lines
      BY <3>1
    <3>3. \A x \in Pieces : LastPart(p, x) => LastPart(p, x)'
      BY <2>1, <2>3, <2>4, <3>1 DEF LastPart
    <3>4. p \in Processes /\ torn' = torn /\ lines <= lines'
      BY <1>3, <2>1
    <3> QED
      BY <1>0, <2>2, <3>2, <3>3, <3>4, TurnOwn
  <2>6. /\ \A u \in Threads \ {t} : pc'[u] = pc[u] /\ line'[u] = line[u]
        /\ lines <= lines'
    BY <1>3, <2>1
  <2>7. \A q \in Processes \ {p} : logMutex'[q] = logMutex[q] /\ buffer'[q] = buffer[q]
    BY <1>3, <2>1
  <2>8. file' = file \/ \E x \in Seq(Pieces) : Mine(x, p) /\ file' = file \o x
    BY <1>3, <2>1
  <2> QED
    BY <1>5, <2>1, <2>5, <2>6, <2>7, <2>8
<1>10. ASSUME NEW t \in Threads, WriteLockW(t) \/ Signal(t) PROVE Goal
  <2> DEFINE p == Process[t]
  <2>1. /\ pc[t] = "lock" /\ pc' = [pc EXCEPT ![t] = "header"]
        /\ line' = line /\ logMutex' = logMutex
        /\ lines' = lines /\ torn' = torn /\ file' = file /\ buffer' = buffer
    BY <1>10 DEF WriteLockW, Signal, Goto
  <2>2. All(p)' = All(p)
    BY <2>1 DEF All
  <2>3. \A x, n : Stage(x, "lock", n, torn) => Stage(x, "header", n, torn)
    BY DEF Stage
  <2>4. OwnLines(p, All(p), torn)'
    <3>1. \A u \in ThreadsOf(p) : /\ line'[u] = line[u]
                                  /\ pc'[u] = pc[u] \/ (pc[u] = "lock" /\ pc'[u] = "header")
      BY <1>3, <2>1 DEF ThreadsOf
    <3>2. \A u \in ThreadsOf(p) : pc'[u] \in {"enter", "lock", "header"} =>
            \/ pc[u] \in {"enter", "lock", "header"} /\ line'[u] = line[u]
            \/ line'[u] > lines
      BY <3>1
    <3>3. \A x \in Pieces : LastPart(p, x) => LastPart(p, x)'
      BY <2>1, <2>3, <3>1 DEF LastPart
    <3>4. p \in Processes /\ torn' = torn /\ lines <= lines'
      BY <1>3, <2>1
    <3> QED
      BY <1>0, <2>2, <3>2, <3>3, <3>4, TurnOwn
  <2>5. /\ \A u \in Threads \ {t} : pc'[u] = pc[u] /\ line'[u] = line[u]
        /\ lines <= lines'
    BY <1>3, <2>1
  <2>6. \A q \in Processes \ {p} : logMutex'[q] = logMutex[q] /\ buffer'[q] = buffer[q]
    BY <1>3, <2>1
  <2>7. file' = file \/ \E x \in Seq(Pieces) : Mine(x, p) /\ file' = file \o x
    BY <1>3, <2>1
  <2> QED
    BY <1>5, <2>1, <2>4, <2>5, <2>6, <2>7
<1>11. ASSUME NEW t \in Threads, LogCall(t) PROVE Goal
  <2> DEFINE p == Process[t]
  <2>1. /\ pc[t] = "idle" /\ pc' = [pc EXCEPT ![t] = "enter"]
        /\ line' = [line EXCEPT ![t] = lines + 1] /\ logMutex' = logMutex
        /\ lines' = lines + 1 /\ torn' = torn /\ file' = file /\ buffer' = buffer
    BY <1>11 DEF LogCall, Goto, history
  <2>2. All(p)' = All(p)
    BY <2>1 DEF All
  <2>3. logMutex[p] # t
    BY <1>3, <2>1 DEF IInv, Calls
  <2>4. OwnLines(p, All(p), torn)'
    <3>1. \A u \in ThreadsOf(p) : /\ u # t => pc'[u] = pc[u] /\ line'[u] = line[u]
                                  /\ u = t => line'[u] > lines
      BY <1>3, <2>1 DEF ThreadsOf
    <3>2. \A u \in ThreadsOf(p) : pc'[u] \in {"enter", "lock", "header"} =>
            \/ pc[u] \in {"enter", "lock", "header"} /\ line'[u] = line[u]
            \/ line'[u] > lines
      BY <3>1
    <3>3. \A x \in Pieces : LastPart(p, x) => LastPart(p, x)'
      BY <2>1, <2>3, <3>1 DEF LastPart
    <3>4. p \in Processes /\ torn' = torn /\ lines <= lines'
      BY <1>3, <2>1
    <3> QED
      BY <1>0, <2>2, <3>2, <3>3, <3>4, TurnOwn
  <2>5. /\ \A u \in Threads \ {t} : pc'[u] = pc[u] /\ line'[u] = line[u]
        /\ lines <= lines'
    BY <1>3, <2>1
  <2>6. \A q \in Processes \ {p} : logMutex'[q] = logMutex[q] /\ buffer'[q] = buffer[q]
    BY <1>3, <2>1
  <2>7. file' = file \/ \E x \in Seq(Pieces) : Mine(x, p) /\ file' = file \o x
    BY <1>3, <2>1
  <2> QED
    BY <1>5, <2>1, <2>4, <2>5, <2>6, <2>7
<1>12. ASSUME NEW p \in Processes, InitLogger(p) \/ OpenToAll(p) PROVE Goal
  BY <1>4, <1>12 DEF InitLogger, OpenToAll, threads, history
<1>13. ASSUME NEW p \in Processes, Close(p) PROVE Goal
  <2>1. /\ file' = file \o buffer[p] /\ buffer' = [buffer EXCEPT ![p] = <<>>]
        /\ pc' = pc /\ line' = line /\ logMutex' = logMutex /\ lines' = lines /\ torn' = torn
    BY <1>13 DEF Close, Gone, threads, history
  <2>2. All(p)' = All(p)
    BY <1>3, <2>1, Joined, JoinedEmpty DEF All
  <2>3. ASSUME NEW q \in Processes PROVE OwnLines(q, All(q), torn)'
    <3>1. CASE q = p
      BY <1>0, <1>3, <2>1, <2>2, <3>1, QuietOwn
    <3>2. CASE q # p
      <4>1. \E x \in Seq(Pieces) : Mine(x, p) /\ file' = file \o x
        BY <1>3, <2>1
      <4>2. buffer'[q] = buffer[q]
        BY <1>3, <2>1, <3>2
      <4>3. /\ \A t \in ThreadsOf(q) : pc'[t] = pc[t] /\ line'[t] = line[t]
            /\ logMutex'[q] = logMutex[q] /\ lines <= lines' /\ torn \subseteq torn'
        BY <1>3, <2>1
      <4> QED
        BY <1>0, <3>2, <4>1, <4>2, <4>3, OthersOwn
    <3> QED
      BY <3>1, <3>2
  <2> QED
    BY <2>3
<1>14. ASSUME NEW p \in Processes, Die(p) PROVE Goal
  <2>1. /\ pc' = [t \in Threads |-> IF Process[t] = p THEN "idle" ELSE pc[t]]
        /\ line' = [t \in Threads |-> IF Process[t] = p THEN 0 ELSE line[t]]
        /\ logMutex' = [logMutex EXCEPT ![p] = None] /\ lines' = lines
        /\ file' = file /\ buffer' = [buffer EXCEPT ![p] = <<>>]
        /\ torn \subseteq torn'
    BY <1>14 DEF Die, Gone
  <2>2. ASSUME NEW q \in Processes, q # p PROVE OwnLines(q, All(q), torn)'
    <3>1. \A t \in ThreadsOf(q) : pc'[t] = pc[t] /\ line'[t] = line[t]
      BY <2>1, <2>2 DEF ThreadsOf
    <3>2. buffer'[q] = buffer[q] /\ logMutex'[q] = logMutex[q] /\ lines <= lines'
      BY <1>3, <2>1, <2>2
    <3> QED
      BY <1>0, <2>1, <2>2, <3>1, <3>2, OthersOwn
  <2> QED
    BY <1>0, <1>14, <2>2, DieOwn
<1>15. CASE UNCHANGED vars
  BY <1>4, <1>15 DEF vars, threads, history
<1> HIDE DEF Goal
<1> QED
  BY <1>6, <1>7, <1>8, <1>9, <1>10, <1>11, <1>12, <1>13, <1>14, <1>15 DEF Next, Step

(* A process's lines follow one another whole and none is written twice,   *)
(* with the file lock or without it and whatever else is mixed in (the     *)
(* three fwrite calls under log_mutex in Logger::log).                     *)
THEOREM OwnLinesAreWhole == Spec => []OwnLinesWhole
<1>1. Init => OwnInv
  <2> SUFFICES ASSUME Init PROVE OwnInv
    OBVIOUS
  <2>0. buffer = [p \in Processes |-> <<>>] /\ file = <<>>
    BY DEF Init
  <2>1. \A p \in Processes : buffer[p] = <<>> /\ file = <<>>
    BY <2>0, Zenon
  <2>2. ASSUME NEW p \in Processes PROVE OwnLines(p, All(p), torn)
    <3>1. All(p) = <<>>
      BY <2>1, NoPieces, JoinedEmpty DEF All
    <3>2. 1..Len(All(p)) = {}
      BY <3>1
    <3> QED
      BY <3>2 DEF OwnLines, Chained
  <2>3. \A t \in Threads : line[t] = 0
    BY DEF Init
  <2> QED
    BY <2>1, <2>2, <2>3 DEF OwnInv
<1>2. IInv /\ OwnInv /\ [Next]_vars => OwnInv'
  BY OwnStep
<1>3. OwnInv => OwnLinesWhole
  BY DEF OwnInv, OwnLines, OwnLinesWhole, Chained, Follows, All, Ends, EndsIn
<1> QED
  BY <1>1, <1>2, <1>3, LogInvariant, PTL DEF Spec

-----------------------------------------------------------------------------
(* Nobody is stuck: what a thread in a call may wait for.                  *)

Waits(t, u) ==
  \/ pc[t] = "enter" /\ logMutex[Process[t]] = u
  \/ /\ pc[t] = "lock" /\ fileLock \in Processes \ {Process[t]}
     /\ logMutex[fileLock] = u

(* When a thread in a call can take its next step, no signal helping.      *)
MayGo(t) ==
  /\ pc[t] # "idle"
  /\ pc[t] = "enter" => logMutex[Process[t]] = None
  /\ pc[t] = "lock" => ~fd[Process[t]] \/ fileLock \in {None, Process[t]}

NobodyStuck ==
  \A t \in Threads : pc[t] # "idle" =>
    \/ MayGo(t)
    \/ \E u \in Threads : /\ Waits(t, u)
                          /\ MayGo(u) \/ \E v \in Threads : Waits(u, v) /\ MayGo(v)

(* log_mutex is taken before the file lock, and whoever has the lock is    *)
(* writing: whatever processes die, every thread in a call can go on, or   *)
(* the one it waits for can, or the one that one waits for.  No lock of a  *)
(* dead process or of a returned call keeps the others out                 *)
(* (Logger::log, CFileLock).                                               *)
THEOREM NobodyIsStuck == Spec => []NobodyStuck
<1>1. IInv => NobodyStuck
  <2> SUFFICES ASSUME IInv, NEW t \in Threads, pc[t] # "idle", ~MayGo(t)
               PROVE  \E u \in Threads :
                        /\ Waits(t, u)
                        /\ MayGo(u) \/ \E v \in Threads : Waits(u, v) /\ MayGo(v)
    BY DEF NobodyStuck
  <2>1. ASSUME NEW u \in Threads, pc[u] = "lock", ~MayGo(u)
        PROVE  \E v \in Threads : Waits(u, v) /\ MayGo(v)
    <3>1. fileLock \in Processes \ {Process[u]}
      BY <2>1 DEF MayGo, IInv, TypeOK
    <3>2. logMutex[fileLock] \in Threads
      BY <3>1, SharedAssumption DEF IInv, TypeOK
    <3>3. Waits(u, logMutex[fileLock])
      BY <2>1, <3>1 DEF Waits
    <3>4. pc[logMutex[fileLock]] \in Inside
      BY <3>1 DEF IInv, Calls
    <3>5. MayGo(logMutex[fileLock])
      BY <3>4 DEF MayGo, Inside
    <3> QED
      BY <3>2, <3>3, <3>5
  <2>2. CASE pc[t] = "lock"
    BY <2>1, <2>2
  <2>3. CASE pc[t] # "lock"
    <3>1. pc[t] = "enter" /\ logMutex[Process[t]] # None
      BY <2>3 DEF MayGo
    <3> DEFINE u == logMutex[Process[t]]
    <3>2. u \in Threads
      BY <3>1, SharedAssumption DEF IInv, TypeOK
    <3>3. Waits(t, u)
      BY <3>1 DEF Waits
    <3>4. Process[u] = Process[t]
      BY <3>1, SharedAssumption DEF IInv, Calls
    <3>5. pc[u] \notin {"idle", "enter"}
      BY <3>2, <3>4 DEF IInv, Calls
    <3>6. MayGo(u) \/ pc[u] = "lock"
      BY <3>5 DEF MayGo
    <3> HIDE DEF u
    <3> QED
      BY <2>1, <3>2, <3>3, <3>6
  <2> QED
    BY <2>2, <2>3
<1> QED
  BY <1>1, LogInvariant, PTL
=============================================================================
