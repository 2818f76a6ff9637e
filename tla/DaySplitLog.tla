---------------------------- MODULE DaySplitLog ----------------------------
(***************************************************************************)
(* The logger in its daysplit mode, flushing every line: the log file is   *)
(* moved to log.<year>-<month>-<day> by calls made late, that is in hour   *)
(* 23 or in minute 59 of any hour, which is what open_log_file tests.  The *)
(* clock runs between any two steps and the process may die there.  Each   *)
(* unlink, link and fopen may be refused (the directory of the days is on  *)
(* another file system, the disk is full, permission is missing); only the *)
(* answer of fopen is looked at.                                           *)
(***************************************************************************)
EXTENDS Integers, FiniteSets

CONSTANTS LastDay,    \* bound: days in a behaviour
          LastMsg,    \* bound: messages
          Inodes, None

ASSUME DaysAssumption == LastDay \in Nat \ {0} /\ LastMsg \in Nat /\ None \notin Inodes

Days == 1..LastDay
Names == 0..LastDay   \* 0 is the log itself, d is the file of day d

VARIABLES day, late,  \* the clock: the day, and whether this minute is late
          file,       \* the inode a name refers to, or None
          content,    \* messages in an inode
          fp,         \* the inode log_file_ptr writes to, or None
          pc,
          stamp,      \* the day of the time open_log_file read
          logged,     \* messages written so far
          unmoved     \* history: messages of a log that a refusal kept from its
                      \* day's name; the log is removed all the same

vars == <<day, late, file, content, fp, pc, stamp, logged, unmoved>>

Retained == UNION {content[file[n]] : n \in {k \in Names : file[k] # None}}
InUse == {file[n] : n \in Names} \cup {fp}

Init ==
  /\ day = 1 /\ late \in BOOLEAN
  /\ file = [n \in Names |-> None]
  /\ content = [node \in Inodes |-> {}]
  /\ fp = None /\ pc = "down" /\ stamp = 1 /\ logged = 0 /\ unmoved = {}

(* Minutes pass; the last minutes of a day are late, its first is not.     *)
Tick ==
  /\ \/ late' = ~late /\ UNCHANGED day
     \/ late /\ day < LastDay /\ day' = day + 1 /\ late' = FALSE
  /\ UNCHANGED <<file, content, fp, pc, stamp, logged, unmoved>>

OpenLog ==
  /\ UNCHANGED <<day, late, stamp, logged, unmoved>>
  /\ IF file[0] # None
     THEN fp' = file[0] /\ UNCHANGED <<file, content>>
     ELSE \E node \in Inodes \ InUse :
            /\ fp' = node
            /\ file' = [file EXCEPT ![0] = node]
            /\ content' = [content EXCEPT ![node] = {}]

InitLogger == pc = "down" /\ OpenLog /\ pc' = "ready"

(* Faulty: the pointer is not reset when the file is closed.               *)
CallKeepsPointer ==
  /\ pc = "ready" /\ logged < LastMsg
  /\ stamp' = day
  /\ pc' = IF late THEN "unlinkDay" ELSE "append"
  /\ UNCHANGED <<day, late, file, content, fp, logged, unmoved>>

(* A call reads the clock: it keeps the file, or closes it to move it.     *)
Call ==
  /\ pc = "ready" /\ logged < LastMsg
  /\ stamp' = day
  /\ IF late THEN fp' = None /\ pc' = "unlinkDay" ELSE UNCHANGED fp /\ pc' = "append"
  /\ UNCHANGED <<day, late, file, content, logged, unmoved>>

(* A call is refused, and the log loses its name before it has another.    *)
Refused == unmoved' = unmoved \cup content[file[0]] /\ UNCHANGED file

(* The file the day already had goes.                                      *)
UnlinkDay ==
  /\ pc = "unlinkDay"
  /\ \/ file' = [file EXCEPT ![stamp] = None] /\ UNCHANGED unmoved
     \/ file[stamp] # None /\ Refused
  /\ pc' = "linkDay"
  /\ UNCHANGED <<day, late, content, fp, stamp, logged>>

(* Faulty: the name leaves out the month, so that names come round again.  *)
LinkDayReused ==
  /\ pc = "linkDay"
  /\ file' = [file EXCEPT ![1 + (stamp % 2)] = file[0]]
  /\ pc' = "unlinkLog"
  /\ UNCHANGED <<day, late, content, fp, stamp, logged, unmoved>>

(* Faulty: the log is removed before it has its second name.               *)
LinkDayTooLate ==
  /\ pc = "linkDay"
  /\ file' = [file EXCEPT ![0] = None]
  /\ pc' = "unlinkLog"
  /\ UNCHANGED <<day, late, content, fp, stamp, logged, unmoved>>

(* link fails when the name exists, or is refused.                         *)
LinkDay ==
  /\ pc = "linkDay"
  /\ \/ file[stamp] = None /\ file' = [file EXCEPT ![stamp] = file[0]] /\ UNCHANGED unmoved
     \/ file[stamp] # None /\ UNCHANGED <<file, unmoved>>
     \/ file[stamp] = None /\ Refused
  /\ pc' = "unlinkLog"
  /\ UNCHANGED <<day, late, content, fp, stamp, logged>>

(* A log that could not be removed stays the log.                          *)
UnlinkLog ==
  /\ pc = "unlinkLog"
  /\ file' = [file EXCEPT ![0] = None] \/ UNCHANGED file
  /\ pc' = "reopen"
  /\ UNCHANGED <<day, late, content, fp, stamp, logged, unmoved>>

(* A stream that could not be opened is opened by a later call, and that   *)
(* one does not look at the clock.                                         *)
Reopen == pc \in {"reopen", "closed"} /\ logged < LastMsg /\ OpenLog /\ pc' = "append"

(* fopen fails: the call returns -3 and its message is not written.        *)
ReopenFails ==
  /\ pc = "reopen"
  /\ pc' = "closed"
  /\ UNCHANGED <<day, late, file, content, fp, stamp, logged, unmoved>>

Append ==
  /\ pc = "append"
  /\ logged' = logged + 1
  /\ content' = [content EXCEPT ![fp] = @ \cup {logged + 1}]
  /\ pc' = "ready"
  /\ UNCHANGED <<day, late, file, fp, stamp, unmoved>>

(* The process ends or dies; with every line flushed that is the same.     *)
Stop ==
  /\ pc # "down"
  /\ pc' = "down" /\ fp' = None
  /\ UNCHANGED <<day, late, file, content, stamp, logged, unmoved>>

Next == Tick \/ InitLogger \/ Call \/ UnlinkDay \/ LinkDay \/ UnlinkLog \/ Reopen
        \/ ReopenFails \/ Append \/ Stop

Spec == Init /\ [][Next]_vars

-----------------------------------------------------------------------------
TypeOK ==
  /\ day \in Days /\ stamp \in Days /\ late \in BOOLEAN
  /\ file \in [Names -> Inodes \cup {None}]
  /\ content \in [Inodes -> SUBSET (1..LastMsg)]
  /\ fp \in {None, file[0]}
  /\ (fp # None) = (pc \in {"ready", "append"})
  /\ unmoved \subseteq 1..LastMsg

(* No step loses what the log file holds, whenever the process dies: only  *)
(* messages already moved to a day's file can go, and those of a log that  *)
(* the system refused to give its day's name.                              *)
LogNeverLost ==
  [][file[0] # None => content[file[0]] \subseteq Retained' \cup unmoved']_vars

(* The files are in the order of their days and the log comes last, though *)
(* a file may be under several names when a process died or a call was     *)
(* refused: an older day's file has older messages.                        *)
DaysInOrder ==
  \A d \in Days, n \in Names :
    (d < n \/ n = 0) /\ file[d] # None /\ file[n] # None /\ file[d] # file[n] =>
      \A m \in content[file[d]], o \in content[file[n]] : m < o

(* logger.h:94, "if you point daysplit,that per day have one log file": a  *)
(* file per day holds the day, so a written message stays in some file,    *)
(* unless the system refused the move.                                     *)
DaysKeepTheirMessages == 1..logged \subseteq Retained \cup unmoved
=============================================================================
