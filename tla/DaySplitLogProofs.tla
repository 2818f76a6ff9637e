------------------------- MODULE DaySplitLogProofs -------------------------
(***************************************************************************)
(* Proofs about DaySplitLog, for any number of days, messages and inodes,  *)
(* and whatever the clock does and the system refuses between two calls of *)
(* a rotation: the log file's messages survive every step but a refusal of *)
(* their move, and the files stay in the order of their days.              *)
(***************************************************************************)
EXTENDS DaySplitLog, TLAPS

Rotating == {"unlinkDay", "linkDay", "unlinkLog"}

(* A call under way has room for its message, and before the log loses its *)
(* name it has the name of the day the call was made on, or a refusal kept *)
(* it from it.                                                             *)
RotationProgress ==
  /\ pc \notin {"down", "ready", "closed"} => logged < LastMsg
  /\ pc \in Rotating => file[0] # None
  /\ pc = "linkDay" => file[stamp] = None \/ content[file[0]] \subseteq unmoved
  /\ pc = "unlinkLog" => file[stamp] = file[0] \/ content[file[0]] \subseteq unmoved

(* No day's file is of a day after the last rotation's.                    *)
StampIsLast == stamp <= day /\ \A d \in Days : file[d] # None => d <= stamp

(* A day that shares the file of the log shares it with all later days.    *)
LogIsLast ==
  \A d, e \in Days :
    d < e /\ file[d] # None /\ file[d] = file[0] /\ file[e] # None => file[e] = file[0]

IInv ==
  /\ TypeOK
  /\ logged \in 0..LastMsg
  /\ \A n \in Inodes : content[n] \subseteq 1..logged
  /\ RotationProgress /\ StampIsLast /\ LogIsLast /\ DaysInOrder

LEMMA DayNames ==
  0 \in Names /\ 0 \notin Days /\ 1 \in Days /\ Days \subseteq Nat
  /\ \A d \in Days : d \in Names /\ \A n \in Names : n # 0 => n \in Days
BY DaysAssumption DEF Names, Days

LEMMA Opened ==
  ASSUME IInv, OpenLog
  PROVE  /\ file' \in [Names -> Inodes \cup {None}]
         /\ content' \in [Inodes -> SUBSET (1..LastMsg)]
         /\ fp' = file'[0] /\ fp' # None
         /\ \A d \in Days : file'[d] = file[d]
         /\ file[0] # None => file' = file /\ content' = content
         /\ file[0] = None => content'[file'[0]] = {}
                              /\ \A d \in Days : file[d] # file'[0]
         /\ \A d \in Days : file[d] # None => content'[file[d]] = content[file[d]]
         /\ \A n \in Inodes : content'[n] \subseteq content[n]
<1> USE DayNames, DaysAssumption DEF IInv, TypeOK
<1>1. CASE file[0] # None
  BY <1>1 DEF OpenLog
<1>2. CASE file[0] = None
  <2>1. PICK node \in Inodes \ InUse : /\ fp' = node
                                       /\ file' = [file EXCEPT ![0] = node]
                                       /\ content' = [content EXCEPT ![node] = {}]
    BY <1>2 DEF OpenLog
  <2>2. \A n \in Names : file[n] # node
    BY <2>1 DEF InUse
  <2>3. file' \in [Names -> Inodes \cup {None}] /\ content' \in [Inodes -> SUBSET (1..LastMsg)]
        /\ fp' = file'[0] /\ fp' # None /\ \A d \in Days : file'[d] = file[d]
    BY <2>1
  <2>4. content'[file'[0]] = {} /\ file'[0] = node
    BY <2>1
  <2>5. \A n \in Inodes : n # node => content'[n] = content[n]
    BY <2>1
  <2>6. \A n \in Inodes : content'[n] \subseteq content[n]
    BY <2>1
  <2>7. \A d \in Days : file[d] # None => content'[file[d]] = content[file[d]]
    BY <2>2, <2>5
  <2> QED
    BY <1>2, <2>2, <2>3, <2>4, <2>6, <2>7
<1> QED
  BY <1>1, <1>2

(* Opening the log, in init or after a rotation.                           *)
LEMMA OpenStep ==
  ASSUME IInv, OpenLog, pc' \in {"ready", "append"}, pc' = "append" => logged < LastMsg
  PROVE  IInv'
<1> USE DayNames, DaysAssumption
<1>1. UNCHANGED <<day, late, stamp, logged, unmoved>>
  BY DEF OpenLog
<1>2. TypeOK'
  BY <1>1, Opened DEF IInv, TypeOK
<1>3. (\A n \in Inodes : content[n] \subseteq 1..logged)'
  BY <1>1, Opened DEF IInv
<1>4. RotationProgress' /\ StampIsLast'
  BY <1>1, Opened DEF IInv, RotationProgress, Rotating, StampIsLast, TypeOK
<1>5. LogIsLast' /\ DaysInOrder'
  <2>1. CASE file[0] # None
    <3>1. file' = file /\ content' = content
      BY <2>1, Opened
    <3> QED
      BY <3>1 DEF IInv, LogIsLast, DaysInOrder
  <2>2. CASE file[0] = None
    <3>1. LogIsLast'
      BY <2>2, Opened DEF LogIsLast
    <3>2. DaysInOrder'
      <4> SUFFICES ASSUME NEW d \in Days, NEW n \in Names, d < n \/ n = 0, file'[d] # None,
                          file'[n] # None, file'[d] # file'[n],
                          NEW m \in content'[file'[d]], NEW o \in content'[file'[n]]
                   PROVE  m < o
        BY DEF DaysInOrder
      <4>1. n \in Days
        BY <2>2, Opened
      <4> QED
        BY <4>1, Opened DEF IInv, DaysInOrder
    <3> QED
      BY <3>1, <3>2
  <2> QED
    BY <2>1, <2>2
<1> QED
  BY <1>1, <1>2, <1>3, <1>4, <1>5 DEF IInv

(* Removing a name disturbs no order.                                      *)
LEMMA NameGone ==
  ASSUME IInv, NEW n \in Names, file' = [file EXCEPT ![n] = None],
         UNCHANGED <<day, content, stamp>>
  PROVE  /\ file' \in [Names -> Inodes \cup {None}]
         /\ \A k \in Names : file'[k] = IF k = n THEN None ELSE file[k]
         /\ StampIsLast' /\ LogIsLast' /\ DaysInOrder'
<1>1. /\ file' \in [Names -> Inodes \cup {None}]
      /\ \A k \in Names : file'[k] = IF k = n THEN None ELSE file[k]
  BY DEF IInv, TypeOK
<1>2. StampIsLast'
  BY <1>1, DayNames DEF IInv, StampIsLast
<1>3. LogIsLast'
  BY <1>1, DayNames DEF IInv, LogIsLast
<1>4. DaysInOrder'
  BY <1>1, DayNames DEF IInv, DaysInOrder
<1> QED
  BY <1>1, <1>2, <1>3, <1>4

(* The log's own file gets the name of the last day.                       *)
LEMMA LogLinked ==
  ASSUME IInv, file[stamp] = None, file[0] # None, file' = [file EXCEPT ![stamp] = file[0]],
         UNCHANGED <<day, content, stamp>>
  PROVE  /\ file' \in [Names -> Inodes \cup {None}]
         /\ file'[0] = file[0] /\ file'[stamp] = file[0]
         /\ StampIsLast' /\ LogIsLast' /\ DaysInOrder'
<1> USE DayNames
<1>0. stamp \in Days /\ stamp \in Names /\ stamp # 0 /\ stamp \in Nat
  BY DEF IInv, TypeOK
<1>1. /\ file' \in [Names -> Inodes \cup {None}]
      /\ \A k \in Names : file'[k] = IF k = stamp THEN file[0] ELSE file[k]
  BY <1>0 DEF IInv, TypeOK
<1>2. StampIsLast'
  BY <1>0, <1>1 DEF IInv, StampIsLast
<1>3. \A d \in Days : file[d] # None => d <= stamp
  BY DEF IInv, StampIsLast
<1>4. LogIsLast'
  <2> SUFFICES ASSUME NEW d \in Days, NEW e \in Days, d < e, file'[d] # None,
                      file'[d] = file'[0], file'[e] # None
               PROVE  file'[e] = file'[0]
    BY DEF LogIsLast
  <2>1. d # stamp
    BY <1>0, <1>1, <1>3
  <2> QED
    BY <1>0, <1>1, <2>1 DEF IInv, LogIsLast
<1>5. DaysInOrder'
  <2> SUFFICES ASSUME NEW d \in Days, NEW n \in Names, d < n \/ n = 0, file'[d] # None,
                      file'[n] # None, file'[d] # file'[n],
                      NEW m \in content[file'[d]], NEW o \in content[file'[n]]
               PROVE  m < o
    BY DEF DaysInOrder
  <2>1. CASE d = stamp
    <3>1. n \in Days /\ n # stamp /\ n <= stamp
      BY <1>0, <1>1, <1>3, <2>1
    <3> QED
      BY <1>0, <2>1, <3>1
  <2>2. CASE d # stamp /\ n = stamp
    <3>1. file[d] # None /\ file[d] # file[0] /\ m \in content[file[d]] /\ o \in content[file[0]]
      BY <1>0, <1>1, <2>2
    <3> QED
      BY <3>1 DEF IInv, DaysInOrder
  <2>3. CASE d # stamp /\ n # stamp
    BY <1>0, <1>1, <2>3 DEF IInv, DaysInOrder
  <2> QED
    BY <2>1, <2>2, <2>3
<1> QED
  BY <1>0, <1>1, <1>2, <1>4, <1>5

LEMMA RefusedTypes ==
  ASSUME TypeOK, file[0] \in Inodes, Refused
  PROVE  file' = file /\ unmoved' \subseteq 1..LastMsg
         /\ content[file[0]] \subseteq unmoved'
BY DEF TypeOK, Refused

LEMMA UnlinkDayKeeps == ASSUME IInv, UnlinkDay PROVE IInv'
<1> USE DayNames, DaysAssumption
<1>0. /\ TypeOK /\ stamp \in Days /\ stamp \in Names /\ stamp # 0 /\ pc' = "linkDay"
      /\ UNCHANGED <<day, late, content, fp, stamp, logged>> /\ fp = None
      /\ file[0] # None /\ file[0] \in Inodes /\ logged < LastMsg
  BY DEF UnlinkDay, IInv, TypeOK, RotationProgress, Rotating
<1>1. CASE file' = [file EXCEPT ![stamp] = None] /\ UNCHANGED unmoved
  <2>1. /\ file' \in [Names -> Inodes \cup {None}]
        /\ \A k \in Names : file'[k] = IF k = stamp THEN None ELSE file[k]
        /\ StampIsLast' /\ LogIsLast' /\ DaysInOrder'
    BY <1>0, <1>1, NameGone
  <2>2. TypeOK'
    BY <1>0, <1>1, <2>1 DEF TypeOK
  <2>3. RotationProgress'
    BY <1>0, <2>1 DEF RotationProgress, Rotating
  <2> QED
    BY <1>0, <2>1, <2>2, <2>3 DEF IInv
<1>2. CASE Refused
  <2>1. TypeOK'
    <3>1. file' = file /\ unmoved' \subseteq 1..LastMsg
      BY <1>0, <1>2, RefusedTypes
    <3> QED
      BY <1>0, <3>1 DEF TypeOK
  <2>2. RotationProgress'
    BY <1>0, <1>2 DEF RotationProgress, Rotating, Refused
  <2> QED
    BY <1>0, <1>2, <2>1, <2>2 DEF IInv, Refused, StampIsLast, LogIsLast, DaysInOrder
<1> QED
  BY <1>1, <1>2 DEF UnlinkDay

LEMMA LinkDayKeeps == ASSUME IInv, LinkDay PROVE IInv'
<1> USE DayNames, DaysAssumption
<1>0. /\ TypeOK /\ stamp \in Days /\ stamp \in Names /\ stamp # 0 /\ pc' = "unlinkLog"
      /\ UNCHANGED <<day, late, content, fp, stamp, logged>> /\ fp = None
      /\ file[0] # None /\ file[0] \in Inodes /\ logged < LastMsg
  BY DEF LinkDay, IInv, TypeOK, RotationProgress, Rotating
<1>1. CASE /\ file[stamp] = None /\ file' = [file EXCEPT ![stamp] = file[0]]
           /\ UNCHANGED unmoved
  <2>1. /\ file' \in [Names -> Inodes \cup {None}]
        /\ file'[0] = file[0] /\ file'[stamp] = file[0]
        /\ StampIsLast' /\ LogIsLast' /\ DaysInOrder'
    BY <1>0, <1>1, LogLinked
  <2>2. TypeOK'
    BY <1>0, <1>1, <2>1 DEF TypeOK
  <2>3. RotationProgress'
    BY <1>0, <2>1 DEF RotationProgress, Rotating
  <2> QED
    BY <1>0, <2>1, <2>2, <2>3 DEF IInv
<1>2. CASE file[stamp] # None /\ UNCHANGED <<file, unmoved>>
  <2>1. TypeOK'
    BY <1>0, <1>2 DEF TypeOK
  <2>2. content[file[0]] \subseteq unmoved
    BY <1>2 DEF IInv, RotationProgress, LinkDay
  <2>3. RotationProgress'
    BY <1>0, <1>2, <2>2 DEF RotationProgress, Rotating
  <2> QED
    BY <1>0, <1>2, <2>1, <2>3 DEF IInv, StampIsLast, LogIsLast, DaysInOrder
<1>3. CASE Refused
  <2>1. TypeOK'
    <3>1. file' = file /\ unmoved' \subseteq 1..LastMsg
      BY <1>0, <1>3, RefusedTypes
    <3> QED
      BY <1>0, <3>1 DEF TypeOK
  <2>2. RotationProgress'
    BY <1>0, <1>3 DEF RotationProgress, Rotating, Refused
  <2> QED
    BY <1>0, <1>3, <2>1, <2>2 DEF IInv, Refused, StampIsLast, LogIsLast, DaysInOrder
<1> QED
  BY <1>1, <1>2, <1>3 DEF LinkDay

LEMMA UnlinkLogKeeps == ASSUME IInv, UnlinkLog PROVE IInv'
<1> USE DayNames, DaysAssumption
<1>0. /\ TypeOK /\ pc' = "reopen" /\ fp = None /\ logged < LastMsg
      /\ UNCHANGED <<day, late, content, fp, stamp, logged, unmoved>>
  BY DEF UnlinkLog, IInv, TypeOK, RotationProgress
<1>1. RotationProgress'
  BY <1>0 DEF RotationProgress, Rotating
<1>2. CASE file' = [file EXCEPT ![0] = None]
  <2>1. /\ file' \in [Names -> Inodes \cup {None}]
        /\ StampIsLast' /\ LogIsLast' /\ DaysInOrder'
    BY <1>0, <1>2, NameGone
  <2>2. TypeOK'
    BY <1>0, <2>1 DEF TypeOK
  <2> QED
    BY <1>0, <1>1, <2>1, <2>2 DEF IInv
<1>3. CASE UNCHANGED file
  <2>1. TypeOK'
    BY <1>0, <1>3 DEF TypeOK
  <2> QED
    BY <1>0, <1>1, <1>3, <2>1 DEF IInv, StampIsLast, LogIsLast, DaysInOrder
<1> QED
  BY <1>2, <1>3 DEF UnlinkLog

(* The new message is the newest of all and goes to the last file.         *)
LEMMA AppendKeeps == ASSUME IInv, Append PROVE IInv'
<1> USE DayNames, DaysAssumption
<1>1. /\ TypeOK /\ fp = file[0] /\ fp \in Inodes /\ logged \in Nat /\ logged' = logged + 1
      /\ logged + 1 \in 1..LastMsg /\ logged' \in 0..LastMsg
      /\ UNCHANGED <<day, late, file, fp, stamp, unmoved>> /\ pc' = "ready"
  BY DEF Append, IInv, TypeOK, RotationProgress
<1>2. \A n \in Inodes :
        content'[n] = IF n = fp THEN content[n] \cup {logged + 1} ELSE content[n]
  BY <1>1 DEF Append, TypeOK
<1>3. TypeOK'
  BY <1>1 DEF Append, TypeOK
<1>4. (\A n \in Inodes : content[n] \subseteq 1..logged)'
  <2>1. 1..logged \subseteq 1..logged' /\ logged + 1 \in 1..logged'
    BY <1>1
  <2> QED
    BY <1>2, <2>1 DEF IInv
<1>5. RotationProgress' /\ StampIsLast' /\ LogIsLast'
  BY <1>1 DEF IInv, RotationProgress, Rotating, StampIsLast, LogIsLast
<1>6. DaysInOrder'
  <2> SUFFICES ASSUME NEW d \in Days, NEW n \in Names, d < n \/ n = 0, file[d] # None,
                      file[n] # None, file[d] # file[n],
                      NEW m \in content'[file[d]], NEW o \in content'[file[n]]
               PROVE  m < o
    BY <1>1 DEF DaysInOrder
  <2>1. file[d] \in Inodes /\ file[n] \in Inodes
    BY <1>1 DEF TypeOK
  <2>2. file[d] # fp
    BY <1>1 DEF IInv, LogIsLast
  <2>3. m \in content[file[d]] /\ m \in 1..logged
    BY <1>2, <2>1, <2>2 DEF IInv
  <2>4. CASE o \in content[file[n]]
    BY <2>3, <2>4 DEF IInv, DaysInOrder
  <2>5. CASE o = logged + 1
    BY <1>1, <2>3, <2>5
  <2> QED
    BY <1>2, <2>1, <2>4, <2>5
<1> QED
  BY <1>1, <1>3, <1>4, <1>5, <1>6 DEF IInv

THEOREM DayInvariant == Spec => []IInv
<1> USE DayNames, DaysAssumption
<1>1. Init => IInv
  BY DEF Init, IInv, TypeOK, RotationProgress, Rotating, StampIsLast, LogIsLast, DaysInOrder
<1>2. IInv /\ [Next]_vars => IInv'
  <2> SUFFICES ASSUME IInv, [Next]_vars PROVE IInv'
    OBVIOUS
  <2>1. CASE Tick
    <3>1. day' \in Days /\ day <= day'
      BY <2>1 DEF Tick, IInv, TypeOK, Days
    <3>2. late' \in BOOLEAN
      BY <2>1, Zenon DEF Tick, IInv, TypeOK
    <3>3. UNCHANGED <<file, content, fp, pc, stamp, logged, unmoved>>
      BY <2>1 DEF Tick
    <3>4. TypeOK'
      BY <3>1, <3>2, <3>3 DEF IInv, TypeOK
    <3>5. StampIsLast'
      BY <3>1, <3>3 DEF IInv, TypeOK, StampIsLast
    <3> QED
      BY <3>3, <3>4, <3>5
      DEF IInv, RotationProgress, LogIsLast, DaysInOrder
  <2>2. CASE InitLogger
    BY <2>2, OpenStep DEF InitLogger
  <2>3. CASE Call
    <3>1. UNCHANGED <<day, late, file, content, logged, unmoved>> /\ stamp' = day
      BY <2>3 DEF Call
    <3>2. TypeOK'
      BY <2>3 DEF Call, IInv, TypeOK
    <3>3. RotationProgress'
      BY <2>3 DEF Call, IInv, TypeOK, RotationProgress, Rotating
    <3>4. StampIsLast'
      BY <3>1 DEF IInv, TypeOK, StampIsLast
    <3> QED
      BY <3>1, <3>2, <3>3, <3>4 DEF IInv, LogIsLast, DaysInOrder
  <2>4. CASE UnlinkDay
    BY <2>4, UnlinkDayKeeps
  <2>5. CASE LinkDay
    BY <2>5, LinkDayKeeps
  <2>6. CASE UnlinkLog
    BY <2>6, UnlinkLogKeeps
  <2>7. CASE Reopen
    BY <2>7, OpenStep DEF Reopen
  <2>8. CASE ReopenFails
    BY <2>8 DEF ReopenFails, IInv, TypeOK, RotationProgress, Rotating, StampIsLast, LogIsLast,
                DaysInOrder
  <2>9. CASE Append
    BY <2>9, AppendKeeps
  <2>10. CASE Stop
    BY <2>10 DEF Stop, IInv, TypeOK, RotationProgress, Rotating, StampIsLast, LogIsLast,
                 DaysInOrder
  <2>11. CASE UNCHANGED vars
    BY <2>11 DEF vars, IInv, TypeOK, RotationProgress, Rotating, StampIsLast, LogIsLast,
                 DaysInOrder
  <2> QED
    BY <2>1, <2>2, <2>3, <2>4, <2>5, <2>6, <2>7, <2>8, <2>9, <2>10, <2>11 DEF Next
<1> QED
  BY <1>1, <1>2, PTL DEF Spec

(* Every variable keeps its type, and the pointer names the log file.      *)
THEOREM Typing == Spec => []TypeOK
<1>1. IInv => TypeOK
  BY DEF IInv
<1> QED
  BY <1>1, DayInvariant, PTL

(* The order of the days is the order of the messages, deaths and refused  *)
(* calls included (logger.cpp:321-334).                                    *)
THEOREM OrderOfDays == Spec => []DaysInOrder
<1>1. IInv => DaysInOrder
  BY DEF IInv
<1> QED
  BY <1>1, DayInvariant, PTL

LEMMA NamedIsRetained ==
  ASSUME NEW n \in Names, file'[n] # None
  PROVE  content'[file'[n]] \subseteq Retained'
BY DEF Retained

(* Whatever the process dies in, the messages of the log file stay in some *)
(* file, or their move was refused (logger.cpp:321-334).                   *)
THEOREM LogIsNeverLost == Spec => LogNeverLost
<1> DEFINE Kept == file[0] # None => content[file[0]] \subseteq Retained' \cup unmoved'
<1> USE DayNames, DaysAssumption
<1>1. IInv /\ [Next]_vars => [Kept]_vars
  <2> SUFFICES ASSUME IInv, Next, file[0] # None
               PROVE  content[file[0]] \subseteq Retained' \cup unmoved'
    OBVIOUS
  <2>0. /\ file \in [Names -> Inodes \cup {None}] /\ stamp \in Days
        /\ content \in [Inodes -> SUBSET (1..LastMsg)]
    BY DEF IInv, TypeOK
  <2>1. CASE file'[0] = file[0] /\ content' = content
    BY <2>1, NamedIsRetained
  <2>2. CASE Append
    <3>1. fp \in Inodes /\ file' = file /\ file[0] \in Inodes
      BY <2>0, <2>2 DEF Append, IInv, TypeOK
    <3>2. content[file[0]] \subseteq content'[file'[0]]
      BY <2>0, <2>2, <3>1 DEF Append
    <3> QED
      BY <3>1, <3>2, NamedIsRetained
  <2>3. CASE UnlinkLog
    <3>1. content' = content /\ unmoved' = unmoved /\ stamp \in Names /\ stamp # 0
      BY <2>0, <2>3 DEF UnlinkLog
    <3>2. CASE UNCHANGED file
      BY <2>1, <3>1, <3>2
    <3>3. CASE file' = [file EXCEPT ![0] = None] /\ file[stamp] = file[0]
      <4>1. file'[stamp] = file[0]
        BY <2>0, <3>1, <3>3
      <4> QED
        BY <3>1, <4>1, NamedIsRetained
    <3>4. CASE content[file[0]] \subseteq unmoved
      BY <3>1, <3>4
    <3> QED
      BY <2>3, <3>2, <3>3, <3>4 DEF UnlinkLog, IInv, RotationProgress
  <2>4. CASE Tick \/ InitLogger \/ Call \/ UnlinkDay \/ LinkDay \/ Reopen \/ ReopenFails \/ Stop
    <3>1. file'[0] = file[0] /\ content' = content
      BY <2>0, <2>4, Opened
      DEF Tick, InitLogger, Call, UnlinkDay, LinkDay, Refused, Reopen, ReopenFails, Stop
    <3> QED
      BY <2>1, <3>1
  <2> QED
    BY <2>2, <2>3, <2>4 DEF Next
<1> QED
  BY <1>1, DayInvariant, PTL DEF Spec, LogNeverLost
=============================================================================
