----------------------------- MODULE LogRotate -----------------------------
(***************************************************************************)
(* The logger of one process in its default mode (daysplit off): every     *)
(* accepted message is appended to the log file, and a call that finds the *)
(* file at its maximal size first shifts the numbered archives             *)
(* log.1 ... log.Slots and moves the file to log.1.  A shift is a sequence *)
(* of link and unlink calls between any two of which the process may die;  *)
(* a new process then finds the files as they are.  Each call may also be  *)
(* refused, for want of space or permission, or because the archives are   *)
(* on another file system: the code looks at no answer and goes on.        *)
(* Names refer to inodes, because a crash or a refusal may leave one file  *)
(* under two names.                                                        *)
(*                                                                         *)
(* Calls are serialised by log_mutex, so one call is followed step by step *)
(* and no second one is in progress.                                       *)
(***************************************************************************)
EXTENDS Integers, FiniteSets

CONSTANTS Slots,      \* archives kept: 10 in the code
          MaxSize,    \* log_max_size, counted in messages
          LastMsg,    \* bound: messages written in a behaviour
          MaxCrash,   \* bound: crashes in a behaviour
          MaxFail,    \* bound: link and unlink calls refused in a behaviour
          Inodes, None

ASSUME LogAssumption ==
  /\ Slots \in Nat \ {0} /\ MaxSize \in Nat \ {0}
  /\ LastMsg \in Nat /\ MaxCrash \in Nat /\ MaxFail \in Nat
  /\ None \notin Inodes

Msgs == 1..LastMsg
Names == 0..Slots      \* 0 is the log itself, j is log.j

VARIABLES file,       \* the inode a name refers to, or None
          content,    \* messages in an inode, on disk
          fp,         \* the inode log_file_ptr writes to, or None
          buffer,     \* messages in the stdio buffer of log_file_ptr
          pc, i,      \* where open_log_file stands, and its loop counter
          logged,     \* messages handed to the logger so far
          stored,     \* history: messages that reached a file
          crashes,    \* history: crashes so far
          failed,     \* history: link and unlink calls refused so far
          unmoved     \* history: messages of files a refusal kept from their new
                      \* name; the old one is removed all the same

faults == <<crashes, failed, unmoved>>
vars == <<file, content, fp, buffer, pc, i, logged, stored, faults>>
disk == <<file, content, stored>>

Contents(names) == UNION {content[file[j]] : j \in {n \in names : file[n] # None}}
Retained == Contents(Names)
InUse == {file[j] : j \in Names} \cup {fp}

-----------------------------------------------------------------------------
(* System calls.                                                           *)

Flushed(out) ==
  /\ content' = [content EXCEPT ![fp] = @ \cup out]
  /\ stored' = stored \cup out

(* fopen(path, "a") opens the file or makes a new, empty one.              *)
OpenLog ==
  IF file[0] # None
  THEN fp' = file[0] /\ UNCHANGED <<file, content>>
  ELSE \E node \in Inodes \ InUse :
         /\ fp' = node
         /\ file' = [file EXCEPT ![0] = node]
         /\ content' = [content EXCEPT ![node] = {}]

Unlink(name) == file' = [file EXCEPT ![name] = None]

(* link fails when the new name exists; nobody looks at the answer.        *)
Link(old, new) ==
  IF file[old] # None /\ file[new] = None
  THEN file' = [file EXCEPT ![new] = file[old]]
  ELSE UNCHANGED file

(* A call on a name that exists is refused; some messages are not moved.   *)
Refused(name, messages) ==
  /\ file[name] # None /\ failed < MaxFail
  /\ failed' = failed + 1
  /\ unmoved' = unmoved \cup messages
  /\ UNCHANGED <<file, crashes>>

-----------------------------------------------------------------------------
Init ==
  /\ file = [j \in Names |-> None]
  /\ content = [node \in Inodes |-> {}]
  /\ fp = None /\ buffer = {}
  /\ pc = "down" /\ i = 0
  /\ logged = 0 /\ stored = {}
  /\ crashes = 0 /\ failed = 0 /\ unmoved = {}

(* Logger::init opens the file whatever its size.                          *)
InitLogger ==
  /\ pc = "down"
  /\ OpenLog
  /\ pc' = "ready"
  /\ UNCHANGED <<buffer, i, logged, stored, faults>>

(* The position ftell reports: what is in the file and in the buffer.      *)
Position == Cardinality(content[fp]) + Cardinality(buffer)

(* fwrite into the buffer, which the library writes out when it likes;     *)
(* with flush set, fflush after every line writes out all of it.           *)
Append ==
  /\ logged < LastMsg
  /\ logged' = logged + 1
  /\ \E out \in {{}, buffer \cup {logged + 1}} :
       /\ Flushed(out)
       /\ buffer' = (buffer \cup {logged + 1}) \ out

(* A call that finds room appends.  The eight functions that log differ    *)
(* only in the level they compare with log_level.                          *)
LogCall ==
  /\ pc = "ready" /\ Position < MaxSize
  /\ Append
  /\ UNCHANGED <<file, fp, pc, i, faults>>

(* Faulty: log_file_ptr is not reset after fclose.                         *)
BeginRotateKeepsPointer ==
  /\ pc = "ready" /\ Position >= MaxSize /\ logged < LastMsg
  /\ Flushed(buffer)
  /\ buffer' = {} /\ i' = Slots /\ pc' = "unlinkBig"
  /\ UNCHANGED <<file, fp, logged, faults>>

(* Faulty: the loop starts one archive too low.                            *)
BeginRotateTooLow ==
  /\ pc = "ready" /\ Position >= MaxSize /\ logged < LastMsg
  /\ Flushed(buffer)
  /\ buffer' = {} /\ fp' = None /\ i' = Slots - 1 /\ pc' = "unlinkBig"
  /\ UNCHANGED <<file, logged, faults>>

(* A call that finds none closes the file and starts the shift.            *)
BeginRotate ==
  /\ pc = "ready" /\ Position >= MaxSize /\ logged < LastMsg
  /\ Flushed(buffer)
  /\ buffer' = {} /\ fp' = None
  /\ i' = Slots
  /\ pc' = "unlinkBig"
  /\ UNCHANGED <<file, logged, faults>>

(* Faulty: the oldest archive is not removed, so link finds its name taken. *)
UnlinkBigForgotten ==
  /\ pc = "unlinkBig"
  /\ pc' = "link"
  /\ UNCHANGED <<disk, fp, buffer, i, logged, faults>>

(* Faulty: the arguments of link are swapped.                              *)
LinkLittleSwapped ==
  /\ pc = "link"
  /\ Link(i, i - 1)
  /\ pc' = "unlinkLittle"
  /\ UNCHANGED <<content, stored, fp, buffer, i, logged, faults>>

(* The loop for i = Slots .. 2 moves log.(i-1) to log.i, and what follows  *)
(* it moves the log to log.1 in the same three calls.                      *)
UnlinkBig ==
  /\ pc = "unlinkBig"
  /\ \/ Unlink(i) /\ UNCHANGED faults
     \/ Refused(i, Contents({i - 1}))
  /\ pc' = "link"
  /\ UNCHANGED <<content, stored, fp, buffer, i, logged>>

LinkLittle ==
  /\ pc = "link"
  /\ \/ Link(i - 1, i) /\ UNCHANGED faults
     \/ file[i] = None /\ Refused(i - 1, Contents({i - 1}))
  /\ pc' = "unlinkLittle"
  /\ UNCHANGED <<content, stored, fp, buffer, i, logged>>

UnlinkLittle ==
  /\ pc = "unlinkLittle"
  /\ \/ Unlink(i - 1) /\ UNCHANGED faults
     \/ Refused(i - 1, {})
  /\ i' = i - 1
  /\ pc' = IF i > 1 THEN "unlinkBig" ELSE "reopen"
  /\ UNCHANGED <<content, stored, fp, buffer, logged>>

(* Opening the log again; the call then goes on to append its message.  A  *)
(* stream that could not be opened is opened by a later call, and that one *)
(* does not look at the size.                                              *)
Reopen ==
  /\ pc \in {"reopen", "closed"} /\ logged < LastMsg
  /\ OpenLog
  /\ pc' = "append"
  /\ UNCHANGED <<buffer, i, logged, stored, faults>>

(* fopen fails: the call returns -3 and its message is gone.               *)
ReopenFails ==
  /\ pc \in {"reopen", "closed"} /\ logged < LastMsg
  /\ logged' = logged + 1
  /\ pc' = "closed"
  /\ UNCHANGED <<file, content, fp, buffer, i, stored, faults>>

AppendAfterRotate ==
  /\ pc = "append"
  /\ Append
  /\ pc' = "ready"
  /\ UNCHANGED <<file, fp, i, faults>>

(* The destructor closes the file.                                         *)
Close ==
  /\ pc \in {"ready", "closed"}
  /\ IF fp # None THEN Flushed(buffer) ELSE UNCHANGED <<content, stored>>
  /\ fp' = None /\ buffer' = {}
  /\ pc' = "down"
  /\ UNCHANGED <<file, i, logged, faults>>

Crash ==
  /\ pc # "down" /\ crashes < MaxCrash
  /\ crashes' = crashes + 1
  /\ pc' = "down" /\ fp' = None /\ buffer' = {} /\ i' = 0
  /\ UNCHANGED <<disk, logged, failed, unmoved>>

Rotate == BeginRotate \/ UnlinkBig \/ LinkLittle \/ UnlinkLittle \/ Reopen \/ ReopenFails
Next == InitLogger \/ LogCall \/ Rotate \/ AppendAfterRotate \/ Close \/ Crash

Spec == Init /\ [][Next]_vars

-----------------------------------------------------------------------------
TypeOK ==
  /\ file \in [Names -> Inodes \cup {None}]
  /\ content \in [Inodes -> SUBSET Msgs]
  /\ fp \in Inodes \cup {None}
  /\ buffer \subseteq Msgs /\ stored \subseteq Msgs
  /\ pc \in {"down", "ready", "unlinkBig", "link", "unlinkLittle", "reopen", "closed",
             "append"}
  /\ i \in Names /\ logged \in 0..LastMsg /\ crashes \in 0..MaxCrash
  /\ failed \in 0..MaxFail /\ unmoved \subseteq Msgs
  /\ (fp # None) = (pc \in {"ready", "append"})

(* What the files still hold is the newest part of what ever reached a     *)
(* file: a rotation, even one cut short by crashes at any of its calls and *)
(* taken up by a new process, loses only the oldest messages, and those of *)
(* a file the system refused to give its new name, which the code removes  *)
(* all the same (logger.cpp:371-372, 400-401).                             *)
NewestRetained ==
  \A m \in (stored \ Retained) \ unmoved : \A k \in Retained : m < k

(* The last message stored is never lost, but by such a refusal.           *)
LastRetained ==
  stored # {} => \E k \in Retained \cup unmoved : \A m \in stored : m <= k

(* The files that are full and have only messages newer than m.            *)
Full(node) == Cardinality(content[node]) >= MaxSize
FullNewer(m) ==
  {node \in {file[j] : j \in Names} \ {None} :
     Full(node) /\ \A k \in content[node] : k > m}

(* A message goes only when Slots full files of newer ones stay, or by a   *)
(* refusal of its own move; each crash and each refused call costs at most *)
(* one of them.                                                            *)
RetentionBudget ==
  [][\A m \in (Retained \ Retained') \ unmoved' :
       Cardinality(FullNewer(m)') >= Slots - (crashes + failed)]_vars
=============================================================================
