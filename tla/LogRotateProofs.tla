--------------------------- MODULE LogRotateProofs ---------------------------
(***************************************************************************)
(* Proofs about LogRotate, for any number of archives, any maximal size,   *)
(* and any number of messages, crashes and refused calls.                  *)
(***************************************************************************)
EXTENDS LogRotate, FiniteSetTheorems, TLAPS

-----------------------------------------------------------------------------
(* The inductive invariant.                                                *)

(* Older archives hold older messages; files of one inode aside.           *)
ArchivesInOrder ==
  \A j, k \in Names :
    j < k /\ file[j] # None /\ file[k] # None /\ file[j] # file[k] =>
      \A m \in content[file[j]], o \in content[file[k]] : o < m

(* The names a crash or a refusal left to one inode are neighbours, gaps   *)
(* aside.                                                                  *)
NamesOfOneFile ==
  \A j, k, n \in Names :
    j < k /\ k < n /\ file[j] # None /\ file[k] # None /\ file[j] = file[n] =>
      file[k] = file[j]

(* A name that may go: it is free, its file has the next name as well, or  *)
(* a refusal kept the file from it.                                        *)
MayGo(name) ==
  file[name] \in {None, file[name + 1]} \/ content[file[name]] \subseteq unmoved

(* Where the shift stands: the name below the one last linked to may go,   *)
(* and the log is not empty when the oldest archive goes.                  *)
ShiftProgress ==
  /\ fp # None => fp = file[0]
  /\ pc \in {"unlinkBig", "link", "unlinkLittle"} => i >= 1
  /\ pc = "unlinkBig" =>
       IF i = Slots THEN file[0] # None /\ content[file[0]] # {} ELSE MayGo(i)
  /\ pc = "link" => file[i] = None \/ MayGo(i - 1)
  /\ pc = "unlinkLittle" => MayGo(i - 1)

HasNewest(messages) ==
  messages # {} => \E b \in messages : \A c \in messages : c <= b

(* Messages are stored in the order they were logged.                      *)
StoredInOrder ==
  /\ Retained \subseteq stored
  /\ \A m \in stored : m <= logged
  /\ \A b \in buffer : b <= logged /\ \A m \in stored : m < b
  /\ HasNewest(buffer)

IInv == TypeOK /\ ArchivesInOrder /\ NamesOfOneFile /\ ShiftProgress /\ StoredInOrder
        /\ NewestRetained /\ LastRetained

-----------------------------------------------------------------------------
LEMMA RetainedMember ==
  ASSUME NEW m
  PROVE  m \in Retained <=> \E j \in Names : file[j] # None /\ m \in content[file[j]]
BY DEF Retained, Contents

LEMMA NamesFacts == 0 \in Names /\ Slots \in Names /\ Names \subseteq Nat
BY LogAssumption DEF Names

(* Everything the invariant says of the disk after some messages, newer    *)
(* than all stored ones, went to the log file.                             *)
LEMMA FlushKeeps ==
  ASSUME IInv, fp # None, NEW out, Flushed(out), UNCHANGED <<file, unmoved>>,
         out \subseteq Msgs, \A b \in out : \A m \in stored : m < b, HasNewest(out)
  PROVE  /\ ArchivesInOrder' /\ NamesOfOneFile' /\ NewestRetained' /\ LastRetained'
         /\ content' \in [Inodes -> SUBSET Msgs] /\ stored' \subseteq Msgs
         /\ Retained' \subseteq stored'
         /\ stored' = stored \cup out
         /\ Retained' = Retained \cup out
<1>1. fp = file[0] /\ fp \in Inodes /\ 0 \in Names /\ file \in [Names -> Inodes \cup {None}]
  BY NamesFacts DEF IInv, ShiftProgress, TypeOK
<1>2. content \in [Inodes -> SUBSET Msgs] /\ stored \subseteq Msgs
  BY DEF IInv, TypeOK
<1>3. content' \in [Inodes -> SUBSET Msgs] /\ stored' \subseteq Msgs
  BY <1>1, <1>2 DEF Flushed
<1>4. \A n \in Inodes : content'[n] = IF n = fp THEN content[n] \cup out ELSE content[n]
  BY <1>1, <1>2 DEF Flushed
<1>5. Retained' = Retained \cup out
  <2>1. \A j \in Names : file[j] # None => file[j] \in Inodes
    BY <1>1
  <2>2. ASSUME NEW m \in Retained' PROVE m \in Retained \cup out
    <3> PICK j \in Names : file'[j] # None /\ m \in content'[file'[j]]
      BY DEF Retained, Contents
    <3> QED
      BY <1>4, <2>1, RetainedMember
  <2>3. ASSUME NEW m \in Retained \cup out PROVE m \in Retained'
    <3> PICK j \in Names : file[j] # None /\ m \in content'[file[j]]
      BY <1>1, <1>4, <2>1, RetainedMember
    <3> QED
      BY DEF Retained, Contents
  <2> QED
    BY <2>2, <2>3
<1>6. Retained \subseteq stored /\ stored' = stored \cup out
  BY DEF IInv, StoredInOrder, Flushed
<1>7. NewestRetained'
  BY <1>5, <1>6 DEF IInv, NewestRetained
<1>8. NamesOfOneFile'
  BY DEF IInv, NamesOfOneFile
<1>9. ArchivesInOrder'
  <2> SUFFICES ASSUME NEW j \in Names, NEW k \in Names, j < k, file[j] # None, file[k] # None,
                      file[j] # file[k],
                      NEW m \in content'[file[j]], NEW o \in content'[file[k]]
               PROVE  o < m
    BY DEF ArchivesInOrder
  <2>1. file[j] \in Inodes /\ file[k] \in Inodes
    BY <1>1
  <2>2. file[k] # fp
    <3>1. CASE j = 0
      BY <3>1, <1>1
    <3>2. CASE j # 0
      BY <3>2, <1>1, NamesFacts DEF IInv, NamesOfOneFile
    <3> QED BY <3>1, <3>2
  <2>3. o \in content[file[k]]
    BY <2>1, <2>2, <1>4
  <2>4. o \in stored
    BY <2>3, <1>6, RetainedMember
  <2>5. CASE m \in content[file[j]]
    BY <2>3, <2>5 DEF IInv, ArchivesInOrder
  <2>6. CASE m \in out
    BY <2>4, <2>6
  <2> QED
    BY <2>1, <2>5, <2>6, <1>4
<1>10. LastRetained'
  <2>1. CASE out = {}
    BY <2>1, <1>5, <1>6 DEF IInv, LastRetained
  <2>2. CASE out # {}
    <3> PICK b \in out : \A c \in out : c <= b
      BY <2>2 DEF HasNewest
    <3>1. b \in Retained' /\ \A m \in stored' : m <= b
      BY <1>2, <1>5, <1>6 DEF Msgs
    <3> QED
      BY <3>1 DEF LastRetained
  <2> QED
    BY <2>1, <2>2
<1> QED
  BY <1>3, <1>5, <1>6, <1>7, <1>8, <1>9, <1>10

DiskInOrder == ArchivesInOrder /\ NamesOfOneFile /\ NewestRetained /\ LastRetained

(* Opening the log finds it or makes an empty file nobody else refers to.  *)
LEMMA OpenKeeps ==
  ASSUME IInv, fp = None, OpenLog, UNCHANGED <<stored, unmoved>>
  PROVE  /\ file' \in [Names -> Inodes \cup {None}] /\ content' \in [Inodes -> SUBSET Msgs]
         /\ fp' \in Inodes /\ fp' = file'[0]
         /\ Retained' = Retained
         /\ DiskInOrder'
<1>1. file \in [Names -> Inodes \cup {None}] /\ content \in [Inodes -> SUBSET Msgs]
      /\ 0 \in Names /\ None \notin Inodes
  BY NamesFacts, LogAssumption DEF IInv, TypeOK
<1>2. CASE file[0] # None
  <2>1. fp' = file[0] /\ UNCHANGED <<file, content>>
    BY <1>2 DEF OpenLog
  <2>2. Retained' = Retained
    BY <2>1 DEF Retained, Contents
  <2>3. DiskInOrder'
    BY <2>1, <2>2 DEF IInv, DiskInOrder, ArchivesInOrder, NamesOfOneFile, NewestRetained,
                      LastRetained
  <2> QED
    BY <1>1, <1>2, <2>1, <2>2, <2>3
<1>3. CASE file[0] = None
  <2> PICK node \in Inodes \ InUse :
         /\ fp' = node
         /\ file' = [file EXCEPT ![0] = node]
         /\ content' = [content EXCEPT ![node] = {}]
    BY <1>3 DEF OpenLog
  <2>1. \A j \in Names : file[j] # node
    BY DEF InUse
  <2>2. \A j \in Names : file'[j] = IF j = 0 THEN node ELSE file[j]
    BY <1>1
  <2>3. \A n \in Inodes : content'[n] = IF n = node THEN {} ELSE content[n]
    BY <1>1
  <2>4. \A j \in Names : file[j] # None => content'[file[j]] = content[file[j]]
    BY <1>1, <2>1, <2>3
  <2>5. Retained' = Retained
    <3>1. ASSUME NEW m PROVE m \in Retained' <=> m \in Retained
      <4>1. m \in Retained' <=> \E j \in Names : file'[j] # None /\ m \in content'[file'[j]]
        BY DEF Retained, Contents
      <4> QED
        BY <4>1, <1>3, <2>2, <2>3, <2>4, RetainedMember
    <3> QED
      BY <3>1
  <2>6. ArchivesInOrder'
    <3> SUFFICES ASSUME NEW j \in Names, NEW k \in Names, j < k, file'[j] # None,
                        file'[k] # None, file'[j] # file'[k],
                        NEW m \in content'[file'[j]], NEW o \in content'[file'[k]]
                 PROVE  o < m
      BY DEF ArchivesInOrder
    <3>1. j # 0 /\ k # 0
      BY <2>2, <2>3, NamesFacts
    <3> QED
      BY <3>1, <2>2, <2>4 DEF IInv, ArchivesInOrder
  <2>7. NamesOfOneFile'
    <3> SUFFICES ASSUME NEW j \in Names, NEW k \in Names, NEW n \in Names, j < k, k < n,
                        file'[j] # None, file'[k] # None, file'[j] = file'[n]
                 PROVE  file'[k] = file'[j]
      BY DEF NamesOfOneFile
    <3>1. k # 0 /\ n # 0
      BY NamesFacts
    <3>2. j # 0
      BY <3>1, <2>1, <2>2
    <3> QED
      BY <3>1, <3>2, <2>2 DEF IInv, NamesOfOneFile
  <2>8. DiskInOrder'
    BY <2>5, <2>6, <2>7 DEF IInv, DiskInOrder, NewestRetained, LastRetained
  <2>9. file' \in [Names -> Inodes \cup {None}] /\ content' \in [Inodes -> SUBSET Msgs]
    BY <1>1
  <2> QED
    BY <1>1, <2>2, <2>5, <2>8, <2>9
<1> QED
  BY <1>2, <1>3

(* Removing a name that may go.                                            *)
LEMMA UnlinkKeeps ==
  ASSUME IInv, NEW n \in Names, n + 1 \in Names, MayGo(n), Unlink(n),
         UNCHANGED <<content, stored, unmoved>>
  PROVE  /\ file' \in [Names -> Inodes \cup {None}]
         /\ \A j \in Names : file'[j] = IF j = n THEN None ELSE file[j]
         /\ Retained' \subseteq Retained
         /\ Retained \ unmoved \subseteq Retained'
         /\ DiskInOrder'
<1>1. /\ file' \in [Names -> Inodes \cup {None}]
      /\ \A j \in Names : file'[j] = IF j = n THEN None ELSE file[j]
  BY DEF IInv, TypeOK, Unlink
<1>2. \A m : m \in Retained' <=> \E j \in Names : file'[j] # None /\ m \in content[file'[j]]
  BY DEF Retained, Contents
<1>3. Retained' \subseteq Retained
  BY <1>1, <1>2, RetainedMember
<1>4. Retained \ unmoved \subseteq Retained'
  <2> SUFFICES ASSUME NEW m \in Retained, m \notin unmoved
               PROVE  \E j \in Names : file'[j] # None /\ m \in content[file'[j]]
    BY <1>2
  <2>1. PICK j \in Names : file[j] # None /\ m \in content[file[j]]
    BY RetainedMember
  <2>2. CASE j = n
    <3>1. file[n + 1] = file[n] /\ n + 1 # n
      BY <2>1, <2>2, NamesFacts DEF MayGo
    <3> QED
      BY <1>1, <2>1, <2>2, <3>1
  <2>3. CASE j # n
    BY <1>1, <2>1, <2>3
  <2> QED
    BY <2>2, <2>3
<1>5. ArchivesInOrder' /\ NamesOfOneFile'
  BY <1>1 DEF IInv, ArchivesInOrder, NamesOfOneFile
<1>6. NewestRetained'
  BY <1>3, <1>4 DEF IInv, NewestRetained
<1>7. LastRetained'
  BY <1>4 DEF IInv, LastRetained
<1> QED
  BY <1>1, <1>3, <1>4, <1>5, <1>6, <1>7 DEF DiskInOrder

(* Removing the oldest archive while the log is not empty.                 *)
LEMMA UnlinkOldestKeeps ==
  ASSUME IInv, Unlink(Slots), UNCHANGED <<content, stored, unmoved>>,
         file[0] # None, content[file[0]] # {}
  PROVE  /\ file' \in [Names -> Inodes \cup {None}]
         /\ \A j \in Names : file'[j] = IF j = Slots THEN None ELSE file[j]
         /\ Retained' \subseteq Retained
         /\ DiskInOrder'
<1> Slots \in Names /\ 0 \in Names /\ Slots # 0 /\ Names \subseteq Nat
  BY NamesFacts, LogAssumption
<1>1. /\ file' \in [Names -> Inodes \cup {None}]
      /\ \A j \in Names : file'[j] = IF j = Slots THEN None ELSE file[j]
  BY DEF IInv, TypeOK, Unlink
<1>2. \A m : m \in Retained' <=> \E j \in Names : file'[j] # None /\ m \in content[file'[j]]
  BY DEF Retained, Contents
<1>3. Retained' \subseteq Retained
  BY <1>1, <1>2, RetainedMember
<1>4. ArchivesInOrder' /\ NamesOfOneFile'
  BY <1>1 DEF IInv, ArchivesInOrder, NamesOfOneFile
<1>5. ASSUME NEW m \in Retained, m \notin Retained', NEW k \in Retained'
      PROVE  m < k
  <2> PICK j \in Names : file'[j] # None /\ k \in content[file'[j]]
    BY <1>2
  <2>1. j # Slots /\ j < Slots /\ file[j] # None /\ k \in content[file[j]]
    BY <1>1 DEF Names
  <2>2. file[Slots] # None /\ m \in content[file[Slots]]
    BY <1>1, <1>2, <1>5, RetainedMember
  <2>3. file[Slots] # file[j]
    BY <1>1, <1>2, <1>5, <2>1, <2>2
  <2> QED
    BY <2>1, <2>2, <2>3 DEF IInv, ArchivesInOrder
<1>6. NewestRetained'
  BY <1>3, <1>5 DEF IInv, NewestRetained
<1>7. LastRetained'
  <2> SUFFICES ASSUME stored # {}
               PROVE  \E k \in Retained' \cup unmoved : \A m \in stored : m <= k
    BY DEF LastRetained
  <2>1. PICK k \in Retained \cup unmoved : \A m \in stored : m <= k
    BY DEF IInv, LastRetained
  <2>2. PICK m \in content[file[0]] : TRUE
    OBVIOUS
  <2>3. m \in Retained' /\ m \in stored
    BY <1>1, <1>2, <1>3 DEF IInv, StoredInOrder
  <2>4. k \in Msgs /\ m \in Msgs
    BY <2>3 DEF IInv, StoredInOrder, TypeOK
  <2>5. CASE k \in Retained \ Retained'
    BY <1>5, <2>1, <2>3, <2>4, <2>5 DEF Msgs
  <2> QED
    BY <2>1, <2>5
<1> QED
  BY <1>1, <1>3, <1>4, <1>6, <1>7 DEF DiskInOrder

(* Giving the file of one name the free name above it.                     *)
LEMMA LinkKeeps ==
  ASSUME IInv, NEW n \in Names, n >= 1, file[n] = None, Link(n - 1, n),
         UNCHANGED <<content, stored, unmoved>>
  PROVE  /\ file' \in [Names -> Inodes \cup {None}]
         /\ \A j \in Names : file'[j] = IF j = n THEN file[n - 1] ELSE file[j]
         /\ Retained' = Retained
         /\ DiskInOrder'
<1> n - 1 \in Names /\ Names \subseteq Nat
  BY LogAssumption DEF Names
<1>1. /\ file' \in [Names -> Inodes \cup {None}]
      /\ \A j \in Names : file'[j] = IF j = n THEN file[n - 1] ELSE file[j]
  BY DEF IInv, TypeOK, Link
<1>2. ASSUME NEW m PROVE m \in Retained' <=> m \in Retained
  <2>1. m \in Retained' <=> \E j \in Names : file'[j] # None /\ m \in content[file'[j]]
    BY DEF Retained, Contents
  <2> QED
    BY <2>1, <1>1, RetainedMember
<1>3. Retained' = Retained
  BY <1>2
<1>4. ArchivesInOrder'
  <2> SUFFICES ASSUME NEW j \in Names, NEW k \in Names, j < k, file'[j] # None,
                      file'[k] # None, file'[j] # file'[k],
                      NEW m \in content[file'[j]], NEW o \in content[file'[k]]
               PROVE  o < m
    BY DEF ArchivesInOrder
  <2>1. CASE j # n /\ k # n
    BY <2>1, <1>1 DEF IInv, ArchivesInOrder
  <2>2. CASE j = n
    BY <2>2, <1>1 DEF IInv, ArchivesInOrder
  <2>3. CASE k = n
    <3>1. j < n - 1
      BY <2>3, <1>1
    <3> QED
      BY <2>3, <3>1, <1>1 DEF IInv, ArchivesInOrder
  <2> QED
    BY <2>1, <2>2, <2>3
<1>5. NamesOfOneFile'
  <2> SUFFICES ASSUME NEW j \in Names, NEW k \in Names, NEW l \in Names, j < k, k < l,
                      file'[j] # None, file'[k] # None, file'[j] = file'[l]
               PROVE  file'[k] = file'[j]
    BY DEF NamesOfOneFile
  <2>1. CASE j # n /\ k # n /\ l # n
    BY <2>1, <1>1 DEF IInv, NamesOfOneFile
  <2>2. CASE j = n
    BY <2>2, <1>1 DEF IInv, NamesOfOneFile
  <2>3. CASE k = n
    BY <2>3, <1>1 DEF IInv, NamesOfOneFile
  <2>4. CASE l = n
    BY <2>4, <1>1 DEF IInv, NamesOfOneFile
  <2> QED
    BY <2>1, <2>2, <2>3, <2>4
<1> QED
  BY <1>1, <1>3, <1>4, <1>5 DEF IInv, DiskInOrder, NewestRetained, LastRetained

(* A refused call changes no file.                                         *)
LEMMA DiskUnchanged ==
  ASSUME IInv, UNCHANGED disk, unmoved \subseteq unmoved'
  PROVE  Retained' = Retained /\ DiskInOrder'
<1>1. Retained' = Retained
  BY DEF disk, Retained, Contents
<1> QED
  BY <1>1 DEF disk, IInv, DiskInOrder, ArchivesInOrder, NamesOfOneFile, NewestRetained,
              LastRetained

LEMMA ContentsOfOne ==
  ASSUME TypeOK, NEW n \in Names
  PROVE  Contents({n}) = (IF file[n] = None THEN {} ELSE content[file[n]])
         /\ Contents({n}) \subseteq Msgs
BY DEF TypeOK, Contents

LEMMA RefusedKeeps ==
  ASSUME IInv, NEW n, NEW messages, messages \subseteq Msgs, Refused(n, messages),
         UNCHANGED <<content, stored>>
  PROVE  /\ file' = file /\ content' = content /\ Retained' = Retained /\ DiskInOrder'
         /\ failed' \in 0..MaxFail /\ unmoved' \subseteq Msgs /\ crashes' = crashes
         /\ unmoved' = unmoved \cup messages
<1>1. UNCHANGED disk /\ unmoved' = unmoved \cup messages
  BY DEF Refused, disk
<1>2. failed' \in 0..MaxFail /\ unmoved' \subseteq Msgs
  BY LogAssumption DEF IInv, TypeOK, Refused
<1> QED
  BY <1>1, <1>2, DiskUnchanged DEF Refused, disk

-----------------------------------------------------------------------------
LEMMA InitEstablishes == Init => IInv
<1> SUFFICES ASSUME Init PROVE IInv
  OBVIOUS
<1>1. \A j \in Names : file[j] = None
  BY DEF Init
<1>2. Retained = {}
  BY <1>1 DEF Retained, Contents
<1>3. TypeOK
  BY LogAssumption, NamesFacts DEF Init, TypeOK
<1>4. ArchivesInOrder /\ NamesOfOneFile
  BY <1>1 DEF ArchivesInOrder, NamesOfOneFile
<1> QED
  BY <1>2, <1>3, <1>4 DEF Init, IInv, ShiftProgress, StoredInOrder, HasNewest,
                         NewestRetained, LastRetained

(* Appending one message to the open log, written out or not.              *)
LEMMA AppendKeeps ==
  ASSUME IInv, pc \in {"ready", "append"}, Append, pc' = "ready",
         UNCHANGED <<file, fp, i, faults>>
  PROVE  IInv'
<1> PICK out \in {{}, buffer \cup {logged + 1}} :
       Flushed(out) /\ buffer' = (buffer \cup {logged + 1}) \ out
  BY DEF Append
<1>1. /\ TypeOK /\ fp # None /\ logged \in Nat
      /\ logged' = logged + 1 /\ logged' \in Msgs
  BY LogAssumption DEF IInv, TypeOK, Append, Msgs
<1>2. \A m \in stored \cup buffer : m <= logged /\ m \in Msgs
  BY <1>1 DEF IInv, StoredInOrder, TypeOK
<1>3. out \subseteq Msgs /\ HasNewest(out) /\ \A b \in out : \A m \in stored : m < b
  BY <1>1, <1>2 DEF IInv, StoredInOrder, HasNewest, Msgs
<1>4. /\ ArchivesInOrder' /\ NamesOfOneFile' /\ NewestRetained' /\ LastRetained'
      /\ content' \in [Inodes -> SUBSET Msgs] /\ stored' \subseteq Msgs
      /\ Retained' \subseteq stored' /\ stored' = stored \cup out
  BY <1>1, <1>3, FlushKeeps DEF faults
<1>5. TypeOK'
  <2>1. buffer' \subseteq Msgs
    BY <1>1, <1>2
  <2>2. logged' \in 0..LastMsg
    BY <1>1, LogAssumption DEF Msgs
  <2>3. /\ fp' = fp /\ file' = file /\ i' = i /\ UNCHANGED <<crashes, failed, unmoved>>
        /\ (fp' # None) = (pc' \in {"ready", "append"})
    BY <1>1 DEF faults
  <2> QED
    BY <1>1, <1>4, <2>1, <2>2, <2>3 DEF TypeOK
<1>6. StoredInOrder'
  <2>1. \A m \in stored' : m <= logged'
    BY <1>1, <1>2, <1>4 DEF Msgs
  <2>2. HasNewest(buffer)'
    <3>1. CASE out = {}
      BY <3>1, <1>1, <1>2 DEF HasNewest, Msgs
    <3>2. CASE out # {}
      BY <3>2 DEF HasNewest
    <3> QED BY <3>1, <3>2
  <2>3. \A b \in buffer' : b <= logged' /\ \A m \in stored' : m < b
    <3>1. CASE out = {}
      <4>1. buffer' = buffer \cup {logged + 1} /\ stored' = stored
        BY <3>1, <1>4
      <4>2. \A b \in buffer : \A m \in stored : m < b
        BY DEF IInv, StoredInOrder
      <4> QED
        BY <1>1, <1>2, <4>1, <4>2 DEF Msgs
    <3>2. CASE out # {}
      BY <3>2
    <3> QED BY <3>1, <3>2
  <2> QED
    BY <1>4, <2>1, <2>2, <2>3 DEF StoredInOrder
<1>7. ShiftProgress'
  BY <1>1 DEF IInv, ShiftProgress
<1> QED
  BY <1>4, <1>5, <1>6, <1>7 DEF IInv

(* Writing out the whole buffer, as fclose does.                           *)
LEMMA FcloseKeeps ==
  ASSUME IInv, fp # None, Flushed(buffer), buffer' = {},
         UNCHANGED <<file, logged, unmoved>>
  PROVE  /\ ArchivesInOrder' /\ NamesOfOneFile' /\ NewestRetained' /\ LastRetained'
         /\ content' \in [Inodes -> SUBSET Msgs] /\ stored' \subseteq Msgs
         /\ StoredInOrder'
<1>1. buffer \subseteq Msgs /\ HasNewest(buffer) /\ \A b \in buffer : \A m \in stored : m < b
  BY DEF IInv, TypeOK, StoredInOrder
<1>2. /\ ArchivesInOrder' /\ NamesOfOneFile' /\ NewestRetained' /\ LastRetained'
      /\ content' \in [Inodes -> SUBSET Msgs] /\ stored' \subseteq Msgs
      /\ Retained' \subseteq stored' /\ stored' = stored \cup buffer
  BY <1>1, FlushKeeps
<1>3. StoredInOrder'
  BY <1>2 DEF IInv, StoredInOrder, HasNewest
<1> QED
  BY <1>2, <1>3

(* A full log is not empty, so the shift starts with a file to shift.      *)
LEMMA FullLogNotEmpty ==
  ASSUME IInv, pc = "ready", Position >= MaxSize
  PROVE  content[fp] \cup buffer # {}
BY LogAssumption, FS_EmptySet DEF Position

LEMMA BeginRotateKeeps == ASSUME IInv, BeginRotate PROVE IInv'
<1>1. TypeOK /\ fp # None /\ fp = file[0] /\ fp \in Inodes
  BY DEF IInv, TypeOK, ShiftProgress, BeginRotate
<1>2. /\ ArchivesInOrder' /\ NamesOfOneFile' /\ NewestRetained' /\ LastRetained'
      /\ content' \in [Inodes -> SUBSET Msgs] /\ stored' \subseteq Msgs
      /\ StoredInOrder'
  BY <1>1, FcloseKeeps DEF BeginRotate, faults
<1>3. content'[file[0]] # {}
  BY <1>1, FullLogNotEmpty DEF BeginRotate, Flushed, TypeOK
<1>4. TypeOK'
  BY <1>1, <1>2, NamesFacts DEF TypeOK, BeginRotate, faults
<1>5. ShiftProgress'
  BY <1>1, <1>3, LogAssumption DEF ShiftProgress, BeginRotate
<1> QED
  BY <1>2, <1>4, <1>5 DEF IInv

LEMMA UnlinkBigKeeps == ASSUME IInv, UnlinkBig PROVE IInv'
<1>1. TypeOK /\ i \in Names /\ i \in 1..Slots /\ i - 1 \in Names
  BY LogAssumption DEF IInv, TypeOK, ShiftProgress, UnlinkBig, Names
<1>2. /\ file' \in [Names -> Inodes \cup {None}]
      /\ Retained' \subseteq Retained
      /\ DiskInOrder'
      /\ crashes' \in 0..MaxCrash /\ failed' \in 0..MaxFail /\ unmoved' \subseteq Msgs
      /\ file'[i] = None \/ MayGo(i - 1)'
  <2>1. CASE Unlink(i) /\ UNCHANGED faults /\ i = Slots
    BY <1>1, <2>1, UnlinkOldestKeeps DEF IInv, ShiftProgress, UnlinkBig, faults, TypeOK
  <2>2. CASE Unlink(i) /\ UNCHANGED faults /\ i # Slots
    <3>1. MayGo(i)
      BY <2>2 DEF IInv, ShiftProgress, UnlinkBig
    <3>2. i + 1 \in Names
      BY <1>1, <2>2, LogAssumption DEF Names
    <3> QED
      BY <1>1, <2>2, <3>1, <3>2, UnlinkKeeps DEF UnlinkBig, faults, TypeOK
  <2>3. CASE Refused(i, Contents({i - 1}))
    <3>1. /\ file' = file /\ content' = content /\ Retained' = Retained /\ DiskInOrder'
          /\ failed' \in 0..MaxFail /\ unmoved' \subseteq Msgs /\ crashes' = crashes
          /\ unmoved' = unmoved \cup Contents({i - 1})
      BY <1>1, <2>3, RefusedKeeps, ContentsOfOne DEF UnlinkBig
    <3>2. MayGo(i - 1)'
      BY <1>1, <3>1, ContentsOfOne DEF MayGo, UnlinkBig
    <3> QED
      BY <1>1, <3>1, <3>2 DEF TypeOK
  <2> QED
    BY <2>1, <2>2, <2>3 DEF UnlinkBig
<1>3. TypeOK'
  BY <1>1, <1>2 DEF TypeOK, UnlinkBig
<1>4. ShiftProgress'
  BY <1>1, <1>2 DEF IInv, TypeOK, ShiftProgress, UnlinkBig
<1>5. StoredInOrder'
  BY <1>2 DEF IInv, StoredInOrder, UnlinkBig
<1> QED
  BY <1>2, <1>3, <1>4, <1>5 DEF IInv, DiskInOrder

LEMMA LinkLittleKeeps == ASSUME IInv, LinkLittle PROVE IInv'
<1>1. TypeOK /\ i \in Names /\ i \in 1..Slots /\ i - 1 \in Names /\ i - 1 # i
      /\ (i - 1) + 1 = i
  BY LogAssumption DEF IInv, TypeOK, ShiftProgress, LinkLittle, Names
<1>2. /\ file' \in [Names -> Inodes \cup {None}]
      /\ Retained' = Retained
      /\ DiskInOrder'
      /\ crashes' \in 0..MaxCrash /\ failed' \in 0..MaxFail /\ unmoved' \subseteq Msgs
      /\ MayGo(i - 1)'
  <2>1. CASE Link(i - 1, i) /\ UNCHANGED faults /\ file[i] = None
    <3>1. /\ file' \in [Names -> Inodes \cup {None}]
          /\ \A j \in Names : file'[j] = IF j = i THEN file[i - 1] ELSE file[j]
          /\ Retained' = Retained
          /\ DiskInOrder'
      BY <1>1, <2>1, LinkKeeps DEF LinkLittle, faults
    <3>2. MayGo(i - 1)'
      <4>1. file'[i] = file[i - 1] /\ file'[i - 1] = file[i - 1] /\ i' = i
        BY <1>1, <3>1 DEF LinkLittle
      <4> QED
        BY <1>1, <4>1 DEF MayGo
    <3> QED
      BY <1>1, <2>1, <3>1, <3>2 DEF faults, TypeOK
  <2>2. CASE Link(i - 1, i) /\ UNCHANGED faults /\ file[i] # None
    <3>1. UNCHANGED <<file, content, stored, unmoved>>
      BY <2>2 DEF Link, LinkLittle, faults
    <3>2. MayGo(i - 1)'
      BY <2>2, <3>1 DEF IInv, ShiftProgress, LinkLittle, MayGo
    <3> QED
      BY <1>1, <2>2, <3>1, <3>2, DiskUnchanged DEF disk, faults, TypeOK
  <2>3. CASE Refused(i - 1, Contents({i - 1}))
    <3>1. /\ file' = file /\ content' = content /\ Retained' = Retained /\ DiskInOrder'
          /\ failed' \in 0..MaxFail /\ unmoved' \subseteq Msgs /\ crashes' = crashes
          /\ unmoved' = unmoved \cup Contents({i - 1})
      BY <1>1, <2>3, RefusedKeeps, ContentsOfOne DEF LinkLittle
    <3>2. MayGo(i - 1)'
      BY <1>1, <3>1, ContentsOfOne DEF MayGo, LinkLittle
    <3> QED
      BY <1>1, <3>1, <3>2 DEF TypeOK
  <2> QED
    BY <2>1, <2>2, <2>3 DEF LinkLittle
<1>3. TypeOK'
  BY <1>1, <1>2 DEF TypeOK, LinkLittle
<1>4. ShiftProgress'
  BY <1>1, <1>2 DEF IInv, TypeOK, ShiftProgress, LinkLittle
<1>5. StoredInOrder'
  BY <1>2 DEF IInv, StoredInOrder, LinkLittle
<1> QED
  BY <1>2, <1>3, <1>4, <1>5 DEF IInv, DiskInOrder

LEMMA UnlinkLittleKeeps == ASSUME IInv, UnlinkLittle PROVE IInv'
<1>1. TypeOK /\ i \in Names /\ i \in 1..Slots /\ MayGo(i - 1)
  BY LogAssumption DEF IInv, TypeOK, ShiftProgress, UnlinkLittle, Names
<1>2. i - 1 \in Names /\ i - 1 # i /\ i - 1 # Slots /\ (i - 1) + 1 = i /\ i' = i - 1
  BY <1>1, LogAssumption DEF Names, UnlinkLittle
<1>3. /\ file' \in [Names -> Inodes \cup {None}]
      /\ Retained' \subseteq Retained
      /\ DiskInOrder'
      /\ crashes' \in 0..MaxCrash /\ failed' \in 0..MaxFail /\ unmoved' \subseteq Msgs
      /\ MayGo(i)'
  <2>1. CASE Unlink(i - 1) /\ UNCHANGED faults
    <3>1. /\ file' \in [Names -> Inodes \cup {None}]
          /\ \A j \in Names : file'[j] = IF j = i - 1 THEN None ELSE file[j]
          /\ Retained' \subseteq Retained
          /\ DiskInOrder'
      BY <1>1, <1>2, <2>1, UnlinkKeeps DEF UnlinkLittle, faults
    <3>2. MayGo(i)'
      BY <1>2, <3>1 DEF MayGo
    <3> QED
      BY <1>1, <2>1, <3>1, <3>2 DEF faults, TypeOK
  <2>2. CASE Refused(i - 1, {})
    <3>1. /\ file' = file /\ content' = content /\ Retained' = Retained /\ DiskInOrder'
          /\ failed' \in 0..MaxFail /\ unmoved' \subseteq Msgs /\ crashes' = crashes
          /\ unmoved' = unmoved \cup {}
      BY <2>2, RefusedKeeps DEF UnlinkLittle
    <3>2. MayGo(i)'
      BY <1>1, <1>2, <3>1 DEF MayGo
    <3> QED
      BY <1>1, <3>1, <3>2 DEF TypeOK
  <2> QED
    BY <2>1, <2>2 DEF UnlinkLittle
<1>4. TypeOK'
  BY <1>1, <1>2, <1>3 DEF TypeOK, UnlinkLittle
<1>5. ShiftProgress'
  BY <1>1, <1>2, <1>3 DEF IInv, TypeOK, ShiftProgress, UnlinkLittle
<1>6. StoredInOrder'
  BY <1>3 DEF IInv, StoredInOrder, UnlinkLittle
<1> QED
  BY <1>3, <1>4, <1>5, <1>6 DEF IInv, DiskInOrder

(* Opening the log, in init or after a shift.                              *)
LEMMA OpenStepKeeps ==
  ASSUME IInv, fp = None, OpenLog, pc' \in {"ready", "append"},
         UNCHANGED <<buffer, i, logged, stored, faults>>
  PROVE  IInv'
<1>1. /\ file' \in [Names -> Inodes \cup {None}] /\ content' \in [Inodes -> SUBSET Msgs]
      /\ fp' \in Inodes /\ fp' = file'[0]
      /\ Retained' = Retained
      /\ DiskInOrder'
  BY OpenKeeps DEF faults
<1>2. TypeOK'
  BY <1>1, LogAssumption DEF IInv, TypeOK, faults
<1>3. ShiftProgress' /\ StoredInOrder'
  BY <1>1 DEF IInv, ShiftProgress, StoredInOrder, HasNewest
<1> QED
  BY <1>1, <1>2, <1>3 DEF IInv, DiskInOrder

LEMMA CloseKeeps == ASSUME IInv, Close PROVE IInv'
<1>1. TypeOK
  BY DEF IInv
<1>2. ShiftProgress'
  BY DEF ShiftProgress, Close
<1>3. CASE fp # None
  <2>1. /\ ArchivesInOrder' /\ NamesOfOneFile' /\ NewestRetained' /\ LastRetained'
        /\ content' \in [Inodes -> SUBSET Msgs] /\ stored' \subseteq Msgs
        /\ StoredInOrder'
    BY <1>3, FcloseKeeps DEF Close, faults
  <2>2. TypeOK'
    BY <1>1, <2>1 DEF TypeOK, Close, faults
  <2> QED
    BY <1>2, <2>1, <2>2 DEF IInv
<1>4. CASE fp = None
  <2>1. UNCHANGED disk /\ unmoved' = unmoved
    BY <1>4 DEF Close, disk, faults
  <2>2. TypeOK' /\ StoredInOrder'
    BY <1>1, <2>1, DiskUnchanged DEF IInv, TypeOK, StoredInOrder, HasNewest, Close, disk, faults
  <2> QED
    BY <1>2, <2>1, <2>2, DiskUnchanged DEF IInv, DiskInOrder
<1> QED
  BY <1>3, <1>4

LEMMA NextPreserves == IInv /\ [Next]_vars => IInv'
<1> SUFFICES ASSUME IInv, [Next]_vars PROVE IInv'
  OBVIOUS
<1>1. CASE InitLogger
  BY <1>1, OpenStepKeeps DEF InitLogger, IInv, TypeOK
<1>2. CASE LogCall
  BY <1>2, AppendKeeps DEF LogCall
<1>3. CASE BeginRotate
  BY <1>3, BeginRotateKeeps
<1>4. CASE UnlinkBig
  BY <1>4, UnlinkBigKeeps
<1>5. CASE LinkLittle
  BY <1>5, LinkLittleKeeps
<1>6. CASE UnlinkLittle
  BY <1>6, UnlinkLittleKeeps
<1>7. CASE Reopen
  BY <1>7, OpenStepKeeps DEF Reopen, IInv, TypeOK
<1>8. CASE ReopenFails
  <2>1. UNCHANGED disk /\ unmoved' = unmoved
    BY <1>8 DEF ReopenFails, disk, faults
  <2>2. TypeOK'
    BY <1>8, LogAssumption DEF ReopenFails, IInv, TypeOK, faults
  <2>3. ShiftProgress'
    BY <1>8 DEF ReopenFails, IInv, ShiftProgress, TypeOK
  <2>4. StoredInOrder'
    <3>1. /\ logged \in Nat /\ logged' = logged + 1
          /\ \A m \in stored \cup buffer : m \in Nat /\ m <= logged
      BY <1>8 DEF ReopenFails, IInv, TypeOK, StoredInOrder, Msgs
    <3>2. Retained' = Retained /\ stored' = stored /\ buffer' = buffer
      BY <1>8, <2>1, DiskUnchanged DEF ReopenFails
    <3> QED
      BY <3>1, <3>2 DEF IInv, StoredInOrder, HasNewest
  <2> QED
    BY <2>1, <2>2, <2>3, <2>4, DiskUnchanged DEF IInv, DiskInOrder
<1>9. CASE AppendAfterRotate
  BY <1>9, AppendKeeps DEF AppendAfterRotate
<1>10. CASE Close
  BY <1>10, CloseKeeps
<1>11. CASE Crash
  <2>1. UNCHANGED disk /\ unmoved' = unmoved
    BY <1>11 DEF Crash
  <2>2. TypeOK'
    BY <1>11, LogAssumption, NamesFacts DEF Crash, disk, IInv, TypeOK
  <2>3. ShiftProgress'
    BY <1>11 DEF Crash, ShiftProgress
  <2>4. StoredInOrder'
    BY <1>11, <2>1, DiskUnchanged DEF Crash, disk, IInv, StoredInOrder, HasNewest
  <2> QED
    BY <2>1, <2>2, <2>3, <2>4, DiskUnchanged DEF IInv, DiskInOrder
<1>12. CASE UNCHANGED vars
  <2>1. UNCHANGED disk /\ unmoved' = unmoved
    BY <1>12 DEF vars, disk, faults
  <2>2. TypeOK'
    BY <1>12 DEF vars, faults, IInv, TypeOK
  <2>3. ShiftProgress'
    BY <1>12 DEF vars, faults, IInv, ShiftProgress, MayGo
  <2>4. StoredInOrder'
    BY <1>12, <2>1, DiskUnchanged DEF vars, IInv, StoredInOrder, HasNewest
  <2> QED
    BY <2>1, <2>2, <2>3, <2>4, DiskUnchanged DEF IInv, DiskInOrder
<1> QED
  BY <1>1, <1>2, <1>3, <1>4, <1>5, <1>6, <1>7, <1>8, <1>9, <1>10, <1>11, <1>12
     DEF Next, Rotate

-----------------------------------------------------------------------------
(* The invariant holds in every state of every behaviour.                  *)
THEOREM LogInvariant == Spec => []IInv
BY InitEstablishes, NextPreserves, PTL DEF Spec

(* Types, and the log is open exactly while a call may append to it        *)
(* (log_file_ptr in Logger::open_log_file).                                *)
THEOREM LogTyping == Spec => []TypeOK
<1>1. IInv => TypeOK
  BY DEF IInv
<1> QED
  BY <1>1, LogInvariant, PTL

(* What a rotation loses, crashes at any of its calls included, is older   *)
(* than everything it keeps (the shift in Logger::open_log_file).          *)
THEOREM RotationLosesOldest == Spec => []NewestRetained
<1>1. IInv => NewestRetained
  BY DEF IInv
<1> QED
  BY <1>1, LogInvariant, PTL

(* The newest message that ever reached a file is in some file, also       *)
(* while the shift is half done or after a crash in it.                    *)
THEOREM LastMessageKept == Spec => []LastRetained
<1>1. IInv => LastRetained
  BY DEF IInv
<1> QED
  BY <1>1, LogInvariant, PTL

-----------------------------------------------------------------------------
(* How much is kept.  Between the log and an archive every number stands   *)
(* for a full file, but for as many as there were crashes and refusals; an *)
(* archive that the shift has moved already has one number more than       *)
(* files, which the log itself makes up for, unless the process dies       *)
(* first; and a name still taken that should be free owes what a refusal   *)
(* has saved for now.                                                      *)
Shift == {"unlinkBig", "link", "unlinkLittle"}
Shifted(j) ==
  IF (pc \in {"unlinkBig", "link"} /\ j > i) \/ (pc = "unlinkLittle" /\ j >= i)
  THEN 1 ELSE 0
Owed ==
  IF \/ pc = "unlinkBig" /\ i # Slots /\ file[i] \notin {None, file[i + 1]}
     \/ pc = "link" /\ file[i] # None
     \/ pc = "unlinkLittle" /\ file[i] # file[i - 1]
  THEN 1 ELSE 0
Spent(j) == crashes + failed - Owed + Shifted(j)

Files == [Names -> Inodes \cup {None}]

(* As functions of the names, to compare two states.                       *)
Between(f, j) == {f[k] : k \in 1 .. j - 1} \ {None, f[0], f[j]}
Bound(f, j, n) ==
  IF f[j] = f[0] THEN j <= n ELSE Cardinality(Between(f, j)) >= (j - 1) - n

FullLog == pc \in Shift => file[0] # None /\ Full(file[0])
FullArchives == \A j \in 1..Slots : file[j] # None => Full(file[j])
Bounded == \A j \in 1..Slots : file[j] # None => Bound(file, j, Spent(j))
Budget == FullLog /\ FullArchives /\ Bounded

LEMMA MsgsFinite ==
  ASSUME NEW S, S \subseteq Msgs
  PROVE  IsFiniteSet(S) /\ Cardinality(S) \in Nat
         /\ \A T : T \subseteq S => Cardinality(T) <= Cardinality(S)
<1>1. IsFiniteSet(Msgs)
  BY FS_Interval, LogAssumption DEF Msgs
<1>2. IsFiniteSet(S)
  BY <1>1, FS_Subset
<1> QED
  BY <1>2, FS_Subset, FS_CardinalityType

LEMMA DisjointCount ==
  ASSUME NEW S, NEW T, S \subseteq Msgs, T \subseteq Msgs, S \cap T = {}
  PROVE  Cardinality(S \cup T) = Cardinality(S) + Cardinality(T)
<1>1. IsFiniteSet(S) /\ IsFiniteSet(T)
      /\ Cardinality(S) \in Nat /\ Cardinality(T) \in Nat
  BY MsgsFinite
<1>2. Cardinality(S \cup T) = Cardinality(S) + Cardinality(T) - Cardinality(S \cap T)
  BY <1>1, FS_Union
<1>3. Cardinality(S \cap T) = 0
  BY FS_EmptySet
<1> QED
  BY <1>1, <1>2, <1>3

(* Some names refer to finitely many files.                                *)
LEMMA FewFiles ==
  ASSUME NEW f, NEW a \in Int, NEW b \in Int
  PROVE  IsFiniteSet({f[k] : k \in a .. b})
<1> DEFINE S == a .. b
           T == {f[k] : k \in S}
           g == [k \in S |-> f[k]]
<1>1. g \in Surjection(S, T)
  BY DEF Surjection
<1>2. IsFiniteSet(S)
  BY FS_Interval
<1> QED
  BY <1>1, <1>2, FS_Surjection

LEMMA BetweenFinite ==
  ASSUME NEW f, NEW j \in 1..Slots
  PROVE  IsFiniteSet(Between(f, j)) /\ Cardinality(Between(f, j)) \in Nat
<1>1. IsFiniteSet({f[k] : k \in 1 .. j - 1})
  BY FewFiles
<1>2. Between(f, j) \in SUBSET {f[k] : k \in 1 .. j - 1}
  BY DEF Between
<1> QED
  BY <1>1, <1>2, FS_Subset, FS_CardinalityType

LEMMA BetweenMember ==
  ASSUME NEW f, NEW j \in 1..Slots, NEW x
  PROVE  x \in Between(f, j) <=>
           /\ x \notin {None, f[0], f[j]}
           /\ \E k \in 1..Slots : k < j /\ f[k] = x
BY LogAssumption DEF Between

(* An archive with at least the files it had below it keeps its bound.     *)
LEMMA BoundKeeps ==
  ASSUME NEW f, NEW g, NEW j \in 1..Slots, NEW l \in 1..Slots, NEW n \in Int, NEW p \in Int,
         Bound(f, j, n), f[j] = f[0] <=> g[l] = g[0], l - p <= j - n,
         Between(f, j) \subseteq Between(g, l)
  PROVE  Bound(g, l, p)
<1>1. CASE f[j] = f[0]
  BY <1>1 DEF Bound
<1>2. CASE f[j] # f[0]
  <2>1. /\ Cardinality(Between(f, j)) \in Nat /\ Cardinality(Between(g, l)) \in Nat
        /\ Cardinality(Between(f, j)) <= Cardinality(Between(g, l))
    BY BetweenFinite, FS_Subset
  <2> QED
    BY <1>2, <2>1 DEF Bound
<1> QED
  BY <1>1, <1>2

(* One that loses a file below it needs one more crash or refusal.         *)
LEMMA BoundLosesOne ==
  ASSUME NEW f, NEW g, NEW x, NEW j \in 1..Slots, NEW n \in Int,
         Bound(f, j, n), f[j] = f[0] <=> g[j] = g[0],
         Between(f, j) \ {x} \subseteq Between(g, j)
  PROVE  Bound(g, j, n + 1)
<1>1. CASE f[j] = f[0]
  BY <1>1 DEF Bound
<1>2. CASE f[j] # f[0]
  <2>1. /\ IsFiniteSet(Between(f, j)) /\ IsFiniteSet(Between(g, j))
        /\ Cardinality(Between(f, j)) \in Nat /\ Cardinality(Between(g, j)) \in Nat
    BY BetweenFinite
  <2>2. /\ Cardinality(Between(f, j) \ {x}) \in Int
        /\ Cardinality(Between(f, j) \ {x}) >= Cardinality(Between(f, j)) - 1
    <3> HIDE DEF Between
    <3>1. Cardinality(Between(f, j) \ {x}) =
            IF x \in Between(f, j) THEN Cardinality(Between(f, j)) - 1
            ELSE Cardinality(Between(f, j))
      BY <2>1, FS_RemoveElement, Zenon
    <3> QED
      BY <2>1, <3>1
  <2>3. Cardinality(Between(f, j) \ {x}) <= Cardinality(Between(g, j))
    BY <2>1, FS_Subset
  <2> QED
    BY <1>2, <2>1, <2>2, <2>3 DEF Bound
<1> QED
  BY <1>1, <1>2

LEMMA BudgetTypes ==
  ASSUME TypeOK
  PROVE  /\ file \in Files /\ crashes \in Nat /\ failed \in Nat /\ i \in Nat
         /\ \A j \in 1..Slots : j \in Names /\ j \in Nat /\ j # 0
                                /\ Shifted(j) \in {0, 1} /\ Spent(j) \in Int
         /\ Owed \in {0, 1} /\ 0 \in Names
         /\ \A n \in Inodes : content[n] \subseteq Msgs
<1>1. /\ file \in Files /\ crashes \in Nat /\ failed \in Nat /\ i \in Nat /\ 0 \in Names
      /\ \A j \in 1..Slots : j \in Names /\ j \in Nat /\ j # 0 /\ Shifted(j) \in {0, 1}
      /\ \A n \in Inodes : content[n] \subseteq Msgs
  BY LogAssumption DEF TypeOK, Files, Shifted, Names
<1>2. Owed \in {0, 1}
  BY Zenon DEF Owed
<1> QED
  BY <1>1, <1>2 DEF Spent

(* A full file that grows stays full.                                      *)
LEMMA FullKeeps ==
  ASSUME TypeOK, TypeOK', NEW n \in Inodes, Full(n), content[n] \subseteq content'[n]
  PROVE  Full(n)'
<1>1. content[n] \subseteq Msgs /\ content'[n] \subseteq Msgs
  BY DEF TypeOK
<1> QED
  BY <1>1, MsgsFinite, LogAssumption DEF Full

(* The steps that leave the names alone and take nothing from a file.      *)
LEMMA NamesStay ==
  ASSUME IInv, IInv', Budget, UNCHANGED file,
         \A n \in Inodes : content[n] \subseteq content'[n],
         \A j \in 1..Slots : Spent(j) <= Spent(j)'
  PROVE  FullArchives' /\ Bounded'
<1> TypeOK /\ TypeOK'
  BY DEF IInv
<1>1. FullArchives'
  <2>1. \A j \in 1..Slots : file[j] # None => file[j] \in Inodes
    BY BudgetTypes DEF Files
  <2> QED
    BY <2>1, FullKeeps DEF Budget, FullArchives
<1>2. Bounded'
  <2> SUFFICES ASSUME NEW j \in 1..Slots, file[j] # None
               PROVE  Bound(file, j, Spent(j)')
    BY DEF Bounded
  <2>1. Bound(file, j, Spent(j))
    BY DEF Budget, Bounded
  <2>2. Spent(j) \in Int /\ j \in Int
    BY BudgetTypes
  <2>3. Spent(j)' \in Int
    <3>1. crashes' \in Nat /\ failed' \in Nat /\ Shifted(j)' \in {0, 1}
      BY LogAssumption DEF TypeOK, Shifted
    <3>2. Owed' \in {0, 1}
      BY Zenon DEF Owed
    <3> QED
      BY <3>1, <3>2 DEF Spent
  <2>4. Spent(j) <= Spent(j)'
    OBVIOUS
  <2> HIDE DEF Bound, Spent
  <2>5. j - Spent(j)' <= j - Spent(j)
    BY <2>2, <2>3, <2>4
  <2> QED
    BY <2>1, <2>2, <2>3, <2>5, BoundKeeps
<1> QED
  BY <1>1, <1>2

(* Opening the log: a new file is under no other name.                     *)
LEMMA OpenKeepsBudget ==
  ASSUME IInv, IInv', Budget, OpenLog, pc \notin Shift, pc' \notin Shift, UNCHANGED faults
  PROVE  Budget'
<1> TypeOK /\ TypeOK'
  BY DEF IInv
<1>1. /\ file \in Files /\ file' \in Files /\ 0 \in Names /\ None \notin Inodes
      /\ \A j \in 1..Slots : j \in Names /\ j # 0 /\ Spent(j) \in Int /\ Spent(j)' = Spent(j)
  <2>1. Owed = 0 /\ Owed' = 0
    BY DEF Owed, Shift
  <2>2. \A j \in 1..Slots : Shifted(j) = 0 /\ Shifted(j)' = 0
    BY DEF Shifted, Shift
  <2>3. \A j \in 1..Slots : Spent(j)' = Spent(j)
    BY <2>1, <2>2 DEF Spent, faults
  <2> QED
    BY <2>3, BudgetTypes, LogAssumption DEF TypeOK, Files
<1>2. CASE file[0] # None
  <2>1. UNCHANGED <<file, content>>
    BY <1>2 DEF OpenLog
  <2>2. \A j \in 1..Slots : Spent(j) <= Spent(j)'
    BY <1>1
  <2> QED
    BY <2>1, <2>2, NamesStay DEF Budget, FullLog
<1>3. CASE file[0] = None
  <2>0. PICK node \in Inodes \ InUse :
         /\ file' = [file EXCEPT ![0] = node]
         /\ content' = [content EXCEPT ![node] = {}]
    BY <1>3 DEF OpenLog
  <2>1. \A k \in Names : file[k] # node /\ file'[k] = IF k = 0 THEN node ELSE file[k]
    BY <1>1, <2>0 DEF InUse, Files
  <2>2. \A k \in Names : file[k] # None => content'[file[k]] = content[file[k]]
    BY <1>1, <2>0, <2>1 DEF Files, TypeOK
  <2>3. FullArchives'
    <3> SUFFICES ASSUME NEW j \in 1..Slots, file'[j] # None PROVE Full(file[j])'
      BY <1>1, <2>1 DEF FullArchives
    <3>1. file[j] # None /\ content'[file'[j]] = content[file[j]] /\ Full(file[j])
      BY <1>1, <2>1, <2>2 DEF Budget, FullArchives
    <3> QED
      BY <1>1, <2>1, <3>1 DEF Full
  <2>4. ASSUME NEW j \in 1..Slots, file'[j] # None
        PROVE  Bound(file', j, Spent(j)')
    <3>1. file'[j] = file[j] /\ file[j] # file[0] /\ file'[j] # file'[0]
      BY <1>1, <1>3, <2>1, <2>4
    <3>2. Between(file, j) \subseteq Between(file', j)
      <4> SUFFICES ASSUME NEW x \in Between(file, j) PROVE x \in Between(file', j)
        OBVIOUS
      <4>1. PICK k \in 1..Slots : k < j /\ file[k] = x
        BY BetweenMember
      <4>2. x \notin {None, file[j]} /\ file'[k] = x /\ x # node /\ file'[0] = node
        BY <1>1, <2>1, <4>1, BetweenMember
      <4> QED
        BY <3>1, <4>1, <4>2, BetweenMember
    <3>3. Bound(file, j, Spent(j))
      BY <2>4, <3>1 DEF Budget, Bounded
    <3> HIDE DEF Bound, Between, Spent
    <3> QED
      BY <1>1, <3>1, <3>2, <3>3, BoundKeeps
  <2> QED
    BY <2>3, <2>4 DEF Budget, FullLog, Bounded
<1> QED
  BY <1>2, <1>3

(* What the invariant gives each call of the shift.                        *)
LEMMA ShiftFacts ==
  ASSUME IInv, Budget, pc \in Shift
  PROVE  /\ TypeOK /\ i \in 1..Slots /\ i \in Names /\ i - 1 \in Names /\ i # i - 1
         /\ file[0] \in Inodes /\ Full(file[0]) /\ None \notin Inodes
         /\ \A j \in 1..Slots : j \in Names /\ j \in Nat /\ j # 0 /\ Spent(j) \in Int
         /\ crashes \in Nat /\ failed \in Nat
BY BudgetTypes, LogAssumption DEF IInv, ShiftProgress, Shift, Names, Budget, FullLog, TypeOK

(* A call that is refused costs one, and what it owes is not asked twice.  *)
LEMMA RefusedKeepsBudget ==
  ASSUME IInv, IInv', Budget, NEW n, NEW messages, Refused(n, messages), content' = content,
         pc \in Shift, \A j \in 1..Slots : Shifted(j) - Owed <= 1 + Shifted(j)' - Owed'
  PROVE  Budget'
<1>1. file' = file /\ crashes' = crashes /\ failed' = failed + 1
  BY DEF Refused
<1>2. \A j \in 1..Slots : Spent(j) <= Spent(j)'
  <2> SUFFICES ASSUME NEW j \in 1..Slots PROVE Spent(j) <= Spent(j)'
    OBVIOUS
  <2>1. Shifted(j) \in {0, 1} /\ Owed \in {0, 1} /\ crashes \in Nat /\ failed \in Nat
    BY BudgetTypes DEF IInv
  <2>2. Shifted(j)' \in {0, 1}
    BY DEF Shifted
  <2>3. Owed' \in {0, 1}
    BY Zenon DEF Owed
  <2>4. Shifted(j) - Owed <= 1 + Shifted(j)' - Owed'
    OBVIOUS
  <2> QED
    BY <1>1, <2>1, <2>2, <2>3, <2>4 DEF Spent
<1>3. FullArchives' /\ Bounded'
  BY <1>1, <1>2, NamesStay
<1>4. FullLog'
  BY <1>1 DEF Budget, FullLog, Full
<1> QED
  BY <1>3, <1>4 DEF Budget

LEMMA UnlinkBigKeepsBudget ==
  ASSUME IInv, IInv', Budget, UnlinkBig
  PROVE  Budget'
<1>1. /\ TypeOK /\ i \in 1..Slots /\ i \in Names /\ i - 1 \in Names /\ i # i - 1
      /\ file[0] \in Inodes /\ Full(file[0]) /\ None \notin Inodes
      /\ \A j \in 1..Slots : j \in Names /\ j \in Nat /\ j # 0 /\ Spent(j) \in Int
      /\ crashes \in Nat /\ failed \in Nat
  BY ShiftFacts DEF UnlinkBig, Shift
<1>2. \A j \in 1..Slots : Shifted(j)' = Shifted(j) /\ Shifted(j) \in {0, 1}
  BY DEF Shifted, UnlinkBig
<1>3. CASE Refused(i, Contents({i - 1}))
  <2>1. Owed \in {0, 1} /\ Owed' \in {0, 1}
    BY Zenon DEF Owed
  <2>2. \A j \in 1..Slots : Shifted(j) - Owed <= 1 + Shifted(j)' - Owed'
    BY <1>2, <2>1
  <2> QED
    BY <1>3, <2>2, RefusedKeepsBudget DEF UnlinkBig, Shift
<1>4. CASE Unlink(i) /\ UNCHANGED faults
  <2>1. /\ \A k \in Names : file'[k] = IF k = i THEN None ELSE file[k]
        /\ content' = content /\ crashes' = crashes /\ failed' = failed
    BY <1>1, <1>4 DEF Unlink, TypeOK, UnlinkBig, faults
  <2>2. file'[0] = file[0] /\ 0 \in Names
    BY <1>1, <2>1, NamesFacts
  <2>3. Owed' = 0
    BY <1>1, <2>1 DEF Owed, UnlinkBig
  <2>4. FullLog'
    BY <1>1, <2>1, <2>2 DEF FullLog, Full
  <2>5. FullArchives'
    BY <1>1, <2>1 DEF Budget, FullArchives, Full
  <2>6. ASSUME NEW j \in 1..Slots, file'[j] # None
        PROVE  Bound(file', j, Spent(j)')
    <3>1. j # i /\ file'[j] = file[j] /\ file[j] # None
      BY <1>1, <2>1, <2>6
    <3>2. Bound(file, j, Spent(j)) /\ Spent(j)' = Spent(j) + Owed
      <4>1. Owed \in {0, 1}
        BY Zenon DEF Owed
      <4> QED
        BY <1>1, <1>2, <2>1, <2>3, <3>1, <4>1 DEF Budget, Bounded, Spent
    <3>3. ASSUME NEW x \in Between(file, j), x # file[i]
          PROVE  x \in Between(file', j)
      <4>1. PICK k \in 1..Slots : k < j /\ file[k] = x
        BY BetweenMember
      <4>2. k # i /\ file'[k] = x /\ x \notin {None, file[0], file[j]}
        BY <1>1, <2>1, <3>3, <4>1, BetweenMember
      <4> QED
        BY <2>2, <3>1, <4>1, <4>2, BetweenMember
    <3>4. CASE Owed = 1
      <4> HIDE DEF Bound, Between, Spent
      <4>1. Between(file, j) \ {file[i]} \subseteq Between(file', j)
        BY <3>3
      <4>2. Bound(file', j, Spent(j) + 1)
        BY <1>1, <2>2, <3>1, <3>2, <4>1, BoundLosesOne
      <4> QED
        BY <3>2, <3>4, <4>2
    <3>5. CASE Owed = 0
      <4>1. file[i] \in Between(file, j) => file[i] \in Between(file', j)
        <5> SUFFICES ASSUME file[i] \in Between(file, j) PROVE file[i] \in Between(file', j)
          OBVIOUS
        <5>1. PICK k \in 1..Slots : k < j /\ file[k] = file[i]
          BY BetweenMember
        <5>2. file[i] \notin {None, file[0], file[j]}
          BY BetweenMember
        <5>3. CASE k # i
          <6>1. file'[k] = file[i]
            BY <1>1, <2>1, <5>1, <5>3
          <6> QED
            BY <2>2, <3>1, <5>1, <5>2, <6>1, BetweenMember
        <5>4. CASE k = i
          <6>1. i # Slots /\ i + 1 \in 1..Slots /\ i + 1 # i
            <7>1. i \in Int /\ j \in Int /\ 1 <= i /\ i < j /\ j <= Slots /\ Slots \in Int
              BY <1>1, <5>1, <5>4, LogAssumption
            <7> QED
              BY <7>1
          <6>2. file[i + 1] = file[i]
            BY <3>5, <5>2, <6>1 DEF Owed, UnlinkBig
          <6>3. i + 1 < j /\ file'[i + 1] = file[i]
            <7>1. i + 1 # j
              BY <5>2, <6>2
            <7> QED
              BY <1>1, <2>1, <5>1, <5>4, <6>1, <6>2, <7>1
          <6> QED
            BY <2>2, <3>1, <5>2, <6>1, <6>3, BetweenMember
        <5> QED
          BY <5>3, <5>4
      <4>2. Between(file, j) \subseteq Between(file', j)
        BY <3>3, <4>1
      <4>3. Spent(j)' = Spent(j) /\ Spent(j) \in Int
        BY <1>1, <3>2, <3>5
      <4> HIDE DEF Bound, Between, Spent
      <4> QED
        BY <2>2, <3>1, <3>2, <4>2, <4>3, BoundKeeps
    <3>6. Owed \in {0, 1}
      BY Zenon DEF Owed
    <3> QED
      BY <3>4, <3>5, <3>6
  <2> QED
    BY <2>4, <2>5, <2>6 DEF Budget, Bounded
<1> QED
  BY <1>3, <1>4 DEF UnlinkBig

LEMMA LinkLittleKeepsBudget ==
  ASSUME IInv, IInv', Budget, LinkLittle
  PROVE  Budget'
<1>1. /\ TypeOK /\ i \in 1..Slots /\ i \in Names /\ i - 1 \in Names /\ i # i - 1
      /\ file[0] \in Inodes /\ Full(file[0]) /\ None \notin Inodes
      /\ \A j \in 1..Slots : j \in Names /\ j \in Nat /\ j # 0 /\ Spent(j) \in Int
      /\ crashes \in Nat /\ failed \in Nat
  BY ShiftFacts DEF LinkLittle, Shift
<1>2. \A j \in 1..Slots : /\ Shifted(j) \in {0, 1}
                          /\ Shifted(j)' = IF j = i THEN 1 ELSE Shifted(j)
                          /\ j <= i => Shifted(j) = 0
  BY <1>1 DEF Shifted, LinkLittle
<1>3. Owed \in {0, 1} /\ Owed' \in {0, 1}
  BY Zenon DEF Owed
<1>4. CASE Refused(i - 1, Contents({i - 1}))
  <2>1. \A j \in 1..Slots : Shifted(j) - Owed <= 1 + Shifted(j)' - Owed'
    BY <1>2, <1>3
  <2> QED
    BY <1>4, <2>1, RefusedKeepsBudget DEF LinkLittle, Shift
<1>5. CASE UNCHANGED faults /\ file' = file /\ (file[i] = None => file[i - 1] = None)
  <2>1. Owed' <= Owed
    <3>1. CASE file[i] # None
      BY <1>3, <3>1 DEF Owed, LinkLittle
    <3>2. CASE file[i] = None
      BY <1>3, <1>5, <3>2 DEF Owed, LinkLittle
    <3> QED
      BY <3>1, <3>2
  <2>2. \A j \in 1..Slots : Spent(j) <= Spent(j)'
    BY <1>1, <1>2, <1>3, <1>5, <2>1 DEF Spent, faults
  <2>3. content' = content
    BY DEF LinkLittle
  <2>4. FullLog'
    BY <1>1, <1>5, <2>3 DEF FullLog, Full
  <2> QED
    BY <1>5, <2>2, <2>3, <2>4, NamesStay DEF Budget
<1>6. CASE /\ UNCHANGED faults /\ file[i] = None /\ file[i - 1] # None
           /\ file' = [file EXCEPT ![i] = file[i - 1]]
  <2>1. /\ \A k \in Names : file'[k] = IF k = i THEN file[i - 1] ELSE file[k]
        /\ content' = content /\ crashes' = crashes /\ failed' = failed
    BY <1>1, <1>6 DEF TypeOK, LinkLittle, faults
  <2>2. file'[0] = file[0] /\ 0 \in Names
    BY <1>1, <2>1, NamesFacts
  <2>3. Owed = 0 /\ Owed' = 0
    <3>1. file'[i] = file[i - 1] /\ file'[i - 1] = file[i - 1] /\ i' = i
      BY <1>1, <2>1 DEF LinkLittle
    <3> QED
      BY <1>6, <3>1 DEF Owed, LinkLittle
  <2>4. FullLog'
    BY <1>1, <2>1, <2>2 DEF FullLog, Full
  <2>5. FullArchives'
    <3>1. Full(file[i - 1])
      BY <1>1, <1>6 DEF Budget, FullArchives, Names
    <3> QED
      BY <1>1, <2>1, <3>1 DEF Budget, FullArchives, Full
  <2>6. \A j \in 1..Slots : Spent(j)' = Spent(j) + (IF j = i THEN 1 ELSE 0)
    BY <1>1, <1>2, <2>1, <2>3 DEF Spent
  <2>7. ASSUME NEW j \in 1..Slots, j # i, NEW x \in Between(file, j), file'[j] = file[j]
        PROVE  x \in Between(file', j)
    <3>1. PICK k \in 1..Slots : k < j /\ file[k] = x
      BY BetweenMember
    <3>2. x \notin {None, file[0], file[j]}
      BY BetweenMember
    <3>3. file'[k] = x
      BY <1>1, <1>6, <2>1, <3>1, <3>2
    <3> QED
      BY <2>2, <2>7, <3>1, <3>2, <3>3, BetweenMember
  <2>8. ASSUME NEW j \in 1..Slots, file'[j] # None
        PROVE  Bound(file', j, Spent(j)')
    <3>1. CASE j # i
      <4>1. file'[j] = file[j] /\ file[j] # None /\ Spent(j)' = Spent(j) /\ Spent(j) \in Int
        BY <1>1, <2>1, <2>6, <2>8, <3>1
      <4>2. Bound(file, j, Spent(j))
        BY <4>1 DEF Budget, Bounded
      <4>3. Between(file, j) \subseteq Between(file', j)
        BY <2>7, <3>1, <4>1
      <4> HIDE DEF Bound, Between, Spent
      <4> QED
        BY <2>2, <4>1, <4>2, <4>3, BoundKeeps
    <3>2. CASE j = i /\ i = 1
      <4>1. file'[1] = file'[0]
        BY <1>1, <1>6, <2>1, <2>2, <3>2
      <4>2. Spent(1) >= 0
        BY <1>1, <1>2, <2>3, <3>2 DEF Spent
      <4>3. Spent(1)' = Spent(1) + 1 /\ Spent(1) \in Int
        BY <1>1, <2>6, <3>2
      <4> QED
        BY <3>2, <4>1, <4>2, <4>3 DEF Bound
    <3>3. CASE j = i /\ i # 1
      <4>0. j - 1 \in 1..Slots /\ j - 1 # j /\ j - 1 \in Names /\ j \in Nat
        BY <3>3, LogAssumption DEF Names
      <4>1. file'[j] = file[j - 1] /\ file'[0] = file[0] /\ file[j - 1] # None
        BY <1>1, <1>6, <2>1, <2>2, <3>3
      <4>2. Spent(j)' = Spent(j - 1) + 1 /\ Spent(j - 1) \in Int
        <5>1. Shifted(j) = 0 /\ Shifted(j - 1) = 0
          BY <1>2, <3>3, <4>0
        <5>2. Spent(j) = Spent(j - 1)
          BY <5>1 DEF Spent
        <5>3. Spent(j)' = Spent(j) + 1
          BY <2>6, <3>3
        <5> QED
          BY <1>1, <4>0, <5>2, <5>3
      <4>3. Bound(file, j - 1, Spent(j - 1))
        BY <4>0, <4>1 DEF Budget, Bounded
      <4>4. Between(file, j - 1) \subseteq Between(file', j)
        <5> SUFFICES ASSUME NEW x \in Between(file, j - 1) PROVE x \in Between(file', j)
          OBVIOUS
        <5>1. PICK k \in 1..Slots : k < j - 1 /\ file[k] = x
          BY <4>0, BetweenMember
        <5>2. x \notin {None, file[0], file[j - 1]}
          BY <4>0, BetweenMember
        <5>3. file'[k] = x /\ k < j
          BY <1>1, <2>1, <3>3, <4>0, <5>1
        <5> QED
          BY <4>1, <5>2, <5>3, BetweenMember
      <4>5. j - (Spent(j - 1) + 1) <= (j - 1) - Spent(j - 1) /\ Spent(j - 1) + 1 \in Int
        BY <4>0, <4>2
      <4>6. Bound(file', j, Spent(j - 1) + 1)
        <5> HIDE DEF Bound, Between, Spent
        <5> QED
          BY <4>0, <4>1, <4>2, <4>3, <4>4, <4>5, BoundKeeps
      <4> QED
        BY <4>2, <4>6
    <3> QED
      BY <3>1, <3>2, <3>3
  <2> QED
    BY <2>4, <2>5, <2>8 DEF Budget, Bounded
<1> QED
  BY <1>4, <1>5, <1>6 DEF LinkLittle, Link

(* The log is unlinked when it has become archive 1, which makes up for    *)
(* what the archives were short of.                                        *)
LEMMA LogBecomesArchive ==
  ASSUME IInv, IInv', Budget, UnlinkLittle, i = 1, Unlink(0), UNCHANGED faults
  PROVE  Bounded'
<1>1. /\ TypeOK /\ i \in 1..Slots /\ i \in Names /\ i - 1 \in Names /\ i # i - 1
      /\ file[0] \in Inodes /\ Full(file[0]) /\ None \notin Inodes
      /\ \A j \in 1..Slots : j \in Names /\ j \in Nat /\ j # 0 /\ Spent(j) \in Int
      /\ crashes \in Nat /\ failed \in Nat
  BY ShiftFacts DEF UnlinkLittle, Shift
<1>2. /\ \A k \in Names : file'[k] = IF k = 0 THEN None ELSE file[k]
      /\ content' = content /\ crashes' = crashes /\ failed' = failed
  BY <1>1 DEF Unlink, TypeOK, UnlinkLittle, faults
<1>3. /\ file'[0] = None /\ 1 \in 1..Slots
      /\ \A k \in 1..Slots : file'[k] = file[k]
  BY <1>1, <1>2, NamesFacts
<1>4. /\ Owed = (IF file[1] # file[0] THEN 1 ELSE 0) /\ Owed' = 0
      /\ \A j \in 1..Slots : Shifted(j) = 1 /\ Shifted(j)' = 0
  BY DEF Owed, Shifted, UnlinkLittle
<1> SUFFICES ASSUME NEW j \in 1..Slots, file'[j] # None
             PROVE  Bound(file', j, Spent(j)')
  BY DEF Bounded
<1>5. file[j] # None /\ file'[j] = file[j] /\ file'[j] # file'[0] /\ j \in Nat
  BY <1>1, <1>3
<1>6. Spent(j)' = crashes + failed /\ Spent(j) = Spent(j)' + (1 - Owed) /\ Owed \in {0, 1}
  BY <1>1, <1>2, <1>4 DEF Spent
<1>7. Bound(file, j, Spent(j))
  BY <1>5 DEF Budget, Bounded
<1>8. Cardinality(Between(file', j)) \in Nat /\ Cardinality(Between(file, j)) \in Nat
      /\ IsFiniteSet(Between(file, j)) /\ IsFiniteSet(Between(file', j))
  BY BetweenFinite
<1>9. Between(file, j) \subseteq Between(file', j)
  <2> SUFFICES ASSUME NEW x \in Between(file, j) PROVE x \in Between(file', j)
    OBVIOUS
  <2>1. PICK k \in 1..Slots : k < j /\ file[k] = x
    BY BetweenMember
  <2>2. x \notin {None, file[j]}
    BY BetweenMember
  <2> QED
    BY <1>3, <1>5, <2>1, <2>2, BetweenMember
<1>10. Cardinality(Between(file, j)) <= Cardinality(Between(file', j))
  BY <1>8, <1>9, FS_Subset
<1>11. CASE file[j] = file[0]
  BY <1>1, <1>5, <1>6, <1>7, <1>8, <1>11 DEF Bound
<1>12. CASE file[j] # file[0] /\ Owed = 1
  BY <1>1, <1>5, <1>6, <1>7, <1>8, <1>10, <1>12 DEF Bound
<1>13. CASE file[j] # file[0] /\ Owed = 0
  <2>1. file[1] = file[0]
    BY <1>4, <1>13
  <2>2. 1 < j /\ file'[1] = file[0] /\ file[0] \notin {None, file'[0], file'[j]}
    BY <1>1, <1>3, <1>5, <1>13, <2>1
  <2>3. file[0] \in Between(file', j)
    BY <1>3, <2>2, BetweenMember
  <2>4. file[0] \notin Between(file, j)
    BY BetweenMember
  <2>5. Cardinality(Between(file, j) \cup {file[0]}) = Cardinality(Between(file, j)) + 1
    <3> HIDE DEF Between
    <3> QED
      BY <1>8, <2>4, FS_AddElement, Zenon
  <2>6. Between(file, j) \cup {file[0]} \subseteq Between(file', j)
    BY <1>9, <2>3
  <2>7. Cardinality(Between(file, j) \cup {file[0]}) <= Cardinality(Between(file', j))
    BY <1>8, <2>6, FS_Subset
  <2>8. Cardinality(Between(file, j)) >= (j - 1) - Spent(j)
    BY <1>7, <1>13 DEF Bound
  <2>9. Spent(j) = Spent(j)' + 1 /\ Spent(j)' \in Int
    BY <1>1, <1>6, <1>13
  <2> HIDE DEF Between, Spent
  <2>10. Cardinality(Between(file', j)) >= (j - 1) - Spent(j)'
    BY <1>5, <1>8, <2>5, <2>7, <2>8, <2>9
  <2> QED
    BY <1>5, <2>10 DEF Bound
<1> QED
  BY <1>6, <1>11, <1>12, <1>13

LEMMA UnlinkLittleKeepsBudget ==
  ASSUME IInv, IInv', Budget, UnlinkLittle
  PROVE  Budget'
<1>1. /\ TypeOK /\ i \in 1..Slots /\ i \in Names /\ i - 1 \in Names /\ i # i - 1
      /\ file[0] \in Inodes /\ Full(file[0]) /\ None \notin Inodes
      /\ \A j \in 1..Slots : j \in Names /\ j \in Nat /\ j # 0 /\ Spent(j) \in Int
      /\ crashes \in Nat /\ failed \in Nat
  BY ShiftFacts DEF UnlinkLittle, Shift
<1>2. Owed \in {0, 1} /\ Owed' \in {0, 1}
  BY Zenon DEF Owed
<1>3. CASE Refused(i - 1, {})
  <2>1. \A j \in 1..Slots : Shifted(j) - Owed <= 1 + Shifted(j)' - Owed'
    <3>1. CASE i = 1
      <4>1. Owed' = 0
        BY <3>1 DEF Owed, UnlinkLittle
      <4>2. \A j \in 1..Slots : Shifted(j) \in {0, 1} /\ Shifted(j)' = 0
        BY <3>1 DEF Shifted, UnlinkLittle
      <4> QED
        BY <1>2, <4>1, <4>2
    <3>2. CASE i # 1
      <4>1. \A j \in 1..Slots : Shifted(j) \in {0, 1} /\ Shifted(j)' = Shifted(j)
        BY <1>1, <3>2 DEF Shifted, UnlinkLittle
      <4> QED
        BY <1>2, <4>1
    <3> QED
      BY <3>1, <3>2
  <2> QED
    BY <1>3, <2>1, RefusedKeepsBudget DEF UnlinkLittle, Shift
<1>4. CASE Unlink(i - 1) /\ UNCHANGED faults
  <2>1. /\ \A k \in Names : file'[k] = IF k = i - 1 THEN None ELSE file[k]
        /\ content' = content /\ crashes' = crashes /\ failed' = failed
    BY <1>1, <1>4 DEF Unlink, TypeOK, UnlinkLittle, faults
  <2>2. FullArchives'
    BY <1>1, <2>1 DEF Budget, FullArchives, Full
  <2>3. CASE i = 1
    <3>1. FullLog'
      BY <2>3 DEF FullLog, Shift, UnlinkLittle
    <3>2. Unlink(0)
      BY <1>4, <2>3
    <3> QED
      BY <1>4, <2>2, <2>3, <3>1, <3>2, LogBecomesArchive DEF Budget
  <2>4. CASE i # 1
    <3>1. file'[0] = file[0] /\ i' = i - 1 /\ pc' = "unlinkBig"
      BY <1>1, <2>1, <2>4, NamesFacts DEF UnlinkLittle
    <3>2. FullLog'
      BY <1>1, <2>1, <3>1 DEF FullLog, Full
    <3>3. Owed' = 0
      BY <1>1, <2>1, <3>1 DEF Owed
    <3>4. \A j \in 1..Slots : Shifted(j) \in {0, 1} /\ Shifted(j)' = Shifted(j)
      BY <1>1, <2>4 DEF Shifted, UnlinkLittle
    <3>5. ASSUME NEW j \in 1..Slots, file'[j] # None
          PROVE  Bound(file', j, Spent(j)')
      <4>1. j # i - 1 /\ file'[j] = file[j] /\ file[j] # None
        BY <1>1, <2>1, <3>5
      <4>2. Bound(file, j, Spent(j)) /\ Spent(j)' = Spent(j) + Owed
        BY <1>1, <1>2, <2>1, <3>3, <3>4, <4>1 DEF Budget, Bounded, Spent
      <4>3. ASSUME NEW x \in Between(file, j), x # file[i - 1]
            PROVE  x \in Between(file', j)
        <5>1. PICK k \in 1..Slots : k < j /\ file[k] = x
          BY BetweenMember
        <5>2. k # i - 1 /\ file'[k] = x /\ x \notin {None, file[0], file[j]}
          BY <1>1, <2>1, <4>3, <5>1, BetweenMember
        <5> QED
          BY <3>1, <4>1, <5>1, <5>2, BetweenMember
      <4>4. CASE Owed = 1
        <5>1. Between(file, j) \ {file[i - 1]} \subseteq Between(file', j)
          BY <4>3
        <5> HIDE DEF Bound, Between, Spent
        <5>2. Bound(file', j, Spent(j) + 1)
          BY <1>1, <3>1, <4>1, <4>2, <5>1, BoundLosesOne
        <5> QED
          BY <4>2, <4>4, <5>2
      <4>5. CASE Owed = 0
        <5>1. file[i - 1] \in Between(file, j) => file[i - 1] \in Between(file', j)
          <6> SUFFICES ASSUME file[i - 1] \in Between(file, j)
                       PROVE  file[i - 1] \in Between(file', j)
            OBVIOUS
          <6>1. PICK k \in 1..Slots : k < j /\ file[k] = file[i - 1]
            BY BetweenMember
          <6>2. file[i - 1] \notin {None, file[0], file[j]}
            BY BetweenMember
          <6>3. file[i] = file[i - 1]
            BY <4>5 DEF Owed, UnlinkLittle
          <6>4. CASE k # i - 1
            <7>1. file'[k] = file[i - 1]
              BY <1>1, <2>1, <6>1, <6>4
            <7> QED
              BY <3>1, <4>1, <6>1, <6>2, <7>1, BetweenMember
          <6>5. CASE k = i - 1
            <7>1. i # j /\ file'[i] = file[i - 1]
              BY <1>1, <2>1, <6>2, <6>3
            <7>2. i < j
              BY <1>1, <6>1, <6>5, <7>1
            <7> QED
              BY <1>1, <3>1, <4>1, <6>2, <7>1, <7>2, BetweenMember
          <6> QED
            BY <6>4, <6>5
        <5>2. Between(file, j) \subseteq Between(file', j)
          BY <4>3, <5>1
        <5>3. Spent(j)' = Spent(j) /\ Spent(j) \in Int
          BY <1>1, <4>2, <4>5
        <5> HIDE DEF Bound, Between, Spent
        <5> QED
          BY <3>1, <4>1, <4>2, <5>2, <5>3, BoundKeeps
      <4> QED
        BY <1>2, <4>4, <4>5
    <3> QED
      BY <2>2, <3>2, <3>5 DEF Budget, Bounded
  <2> QED
    BY <2>3, <2>4
<1> QED
  BY <1>3, <1>4 DEF UnlinkLittle

(* Writing to the open log takes nothing from a file.                      *)
LEMMA FlushedGrows ==
  ASSUME IInv, fp # None, NEW out, Flushed(out)
  PROVE  \A n \in Inodes : content[n] \subseteq content'[n]
BY DEF IInv, TypeOK, Flushed

(* The log is full when a call closes it, with what the buffer had.        *)
LEMMA BeginRotateKeepsBudget ==
  ASSUME IInv, IInv', Budget, BeginRotate
  PROVE  Budget'
<1> TypeOK /\ TypeOK'
  BY DEF IInv
<1>1. /\ fp # None /\ fp = file[0] /\ fp \in Inodes /\ file' = file
      /\ content'[fp] = content[fp] \cup buffer
  BY DEF IInv, TypeOK, ShiftProgress, BeginRotate, Flushed
<1>2. content[fp] \subseteq Msgs /\ buffer \subseteq Msgs
  BY <1>1 DEF TypeOK
<1>3. content[fp] \cap buffer = {}
  <2>1. \A m \in content[fp] : m \in stored /\ m \in Msgs
    BY <1>1, <1>2, NamesFacts, RetainedMember DEF IInv, StoredInOrder
  <2>2. \A b \in buffer : \A m \in stored : m < b
    BY DEF IInv, StoredInOrder
  <2> QED
    BY <2>1, <2>2 DEF Msgs
<1>4. Cardinality(content'[file'[0]]) >= MaxSize
  BY <1>1, <1>2, <1>3, DisjointCount DEF BeginRotate, Position
<1>5. FullLog'
  BY <1>1, <1>4 DEF FullLog, Full
<1>6. \A j \in 1..Slots : Spent(j) <= Spent(j)'
  <2>1. Owed = 0 /\ Owed' = 0
    BY DEF Owed, BeginRotate
  <2>2. \A j \in 1..Slots : Shifted(j) = 0 /\ Shifted(j)' = 0
    BY LogAssumption DEF Shifted, BeginRotate
  <2> QED
    BY <2>1, <2>2, BudgetTypes DEF Spent, BeginRotate, faults
<1>7. \A n \in Inodes : content[n] \subseteq content'[n]
  BY <1>1, FlushedGrows DEF BeginRotate
<1> QED
  BY <1>1, <1>5, <1>6, <1>7, NamesStay DEF Budget

(* The steps outside the shift that do not open the log, and death.        *)
LEMMA QuietKeepsBudget ==
  ASSUME IInv, IInv', Budget, UNCHANGED <<file, failed>>, pc' \notin Shift,
         (pc \notin Shift /\ crashes' = crashes) \/ crashes' = crashes + 1,
         \A n \in Inodes : content[n] \subseteq content'[n]
  PROVE  Budget'
<1>1. TypeOK
  BY DEF IInv
<1>2. \A j \in 1..Slots : Spent(j) <= Spent(j)'
  <2>1. /\ Owed \in {0, 1} /\ Owed' = 0 /\ crashes \in Nat /\ failed \in Nat
        /\ \A j \in 1..Slots : Shifted(j) \in {0, 1} /\ Shifted(j)' = 0
    BY <1>1, BudgetTypes DEF Owed, Shifted, Shift
  <2>2. CASE pc \notin Shift /\ crashes' = crashes
    <3>1. Owed = 0 /\ \A j \in 1..Slots : Shifted(j) = 0
      BY <2>2 DEF Owed, Shifted, Shift
    <3> QED
      BY <2>1, <2>2, <3>1 DEF Spent
  <2>3. CASE crashes' = crashes + 1
    BY <2>1, <2>3 DEF Spent
  <2> QED
    BY <2>2, <2>3
<1> QED
  BY <1>2, NamesStay DEF Budget, FullLog

LEMMA AppendKeepsBudget ==
  ASSUME IInv, IInv', Budget, Append, pc \in {"ready", "append"}, pc' = "ready",
         UNCHANGED <<file, fp, i, faults>>
  PROVE  Budget'
<1>1. fp # None
  BY DEF IInv, TypeOK
<1>2. PICK out : Flushed(out)
  BY DEF Append
<1>3. \A n \in Inodes : content[n] \subseteq content'[n]
  BY <1>1, <1>2, FlushedGrows
<1> QED
  BY <1>3, QuietKeepsBudget DEF Shift, faults

LEMMA BudgetPreserved == IInv /\ IInv' /\ Budget /\ [Next]_vars => Budget'
<1> SUFFICES ASSUME IInv, IInv', Budget, [Next]_vars PROVE Budget'
  OBVIOUS
<1>1. CASE InitLogger
  BY <1>1, OpenKeepsBudget DEF InitLogger, Shift
<1>2. CASE LogCall
  BY <1>2, AppendKeepsBudget DEF LogCall
<1>3. CASE BeginRotate
  BY <1>3, BeginRotateKeepsBudget
<1>4. CASE UnlinkBig
  BY <1>4, UnlinkBigKeepsBudget
<1>5. CASE LinkLittle
  BY <1>5, LinkLittleKeepsBudget
<1>6. CASE UnlinkLittle
  BY <1>6, UnlinkLittleKeepsBudget
<1>7. CASE Reopen
  BY <1>7, OpenKeepsBudget DEF Reopen, Shift
<1>8. CASE ReopenFails
  BY <1>8, QuietKeepsBudget DEF ReopenFails, Shift, faults
<1>9. CASE AppendAfterRotate
  BY <1>9, AppendKeepsBudget DEF AppendAfterRotate
<1>10. CASE Close
  <2>1. \A n \in Inodes : content[n] \subseteq content'[n]
    BY <1>10, FlushedGrows DEF Close
  <2> QED
    BY <1>10, <2>1, QuietKeepsBudget DEF Close, Shift, faults
<1>11. CASE Crash
  BY <1>11, QuietKeepsBudget DEF Crash, Shift, disk
<1>12. CASE UNCHANGED vars
  <2>1. UNCHANGED <<file, content, pc, i, crashes, failed>>
    BY <1>12 DEF vars, faults
  <2>2. Owed' = Owed
    BY <2>1 DEF Owed
  <2>3. \A j : Spent(j)' = Spent(j)
    BY <2>1, <2>2 DEF Spent, Shifted
  <2> QED
    BY <2>1, <2>3 DEF Budget, FullLog, FullArchives, Full, Bounded
<1> QED
  BY <1>1, <1>2, <1>3, <1>4, <1>5, <1>6, <1>7, <1>8, <1>9, <1>10, <1>11, <1>12
     DEF Next, Rotate

-----------------------------------------------------------------------------
(* A message that every file still has somewhere is not lost.              *)
LEMMA StillRetained ==
  ASSUME \A j \in Names : file[j] # None =>
           \E k \in Names : file'[k] = file[j] /\ content[file[j]] \subseteq content'[file[j]]
  PROVE  Retained \subseteq Retained'
<1> SUFFICES ASSUME NEW m \in Retained PROVE m \in Retained'
  OBVIOUS
<1>1. PICK j \in Names : file[j] # None /\ m \in content[file[j]]
  BY RetainedMember
<1>2. PICK k \in Names : file'[k] = file[j] /\ content[file[j]] \subseteq content'[file[j]]
  BY <1>1
<1> QED
  BY <1>1, <1>2 DEF Retained, Contents

LEMMA FlushRetains ==
  ASSUME IInv, fp # None, NEW out, Flushed(out), UNCHANGED file
  PROVE  Retained \subseteq Retained'
<1>1. \A n \in Inodes : content[n] \subseteq content'[n]
  BY FlushedGrows
<1>2. \A j \in Names : file[j] # None => file[j] \in Inodes
  BY DEF IInv, TypeOK
<1> QED
  BY <1>1, <1>2, StillRetained

(* Only the removal of the oldest archive loses what no refusal kept.      *)
LEMMA OthersRetain ==
  ASSUME IInv, [Next]_vars, ~(UnlinkBig /\ i = Slots)
  PROVE  Retained \ unmoved' \subseteq Retained'
<1>1. TypeOK
  BY DEF IInv
<1>2. CASE InitLogger
  BY <1>1, <1>2, OpenKeeps DEF InitLogger, TypeOK, faults
<1>3. CASE LogCall
  <2>1. fp # None /\ \E out : Flushed(out)
    BY <1>1, <1>3 DEF TypeOK, LogCall, Append
  <2> QED
    BY <1>3, <2>1, FlushRetains DEF LogCall
<1>4. CASE BeginRotate
  BY <1>1, <1>4, FlushRetains DEF BeginRotate, TypeOK
<1>5. CASE UnlinkBig
  <2>1. MayGo(i) /\ i # Slots /\ i \in Names /\ content' = content /\ stored' = stored
    BY <1>1, <1>5 DEF UnlinkBig, IInv, ShiftProgress, TypeOK
  <2>2. i + 1 \in Names
    BY <2>1, LogAssumption DEF Names
  <2>3. CASE Unlink(i) /\ UNCHANGED faults
    BY <2>1, <2>2, <2>3, UnlinkKeeps DEF faults
  <2>4. CASE Refused(i, Contents({i - 1}))
    BY <2>1, <2>4, StillRetained DEF Refused
  <2> QED
    BY <1>5, <2>3, <2>4 DEF UnlinkBig
<1>6. CASE LinkLittle
  <2>1. i \in Names /\ i >= 1 /\ content' = content
    BY <1>1, <1>6 DEF LinkLittle, IInv, ShiftProgress, TypeOK
  <2>2. \A j \in Names : file[j] # None => file'[j] = file[j]
    BY <1>1, <1>6, <2>1 DEF LinkLittle, Link, Refused, TypeOK
  <2> QED
    BY <2>1, <2>2, StillRetained
<1>7. CASE UnlinkLittle
  <2>1. MayGo(i - 1) /\ i - 1 \in Names /\ (i - 1) + 1 \in Names
        /\ content' = content /\ stored' = stored
    BY <1>1, <1>7, LogAssumption DEF UnlinkLittle, IInv, ShiftProgress, TypeOK, Names
  <2>2. CASE Unlink(i - 1) /\ UNCHANGED faults
    BY <2>1, <2>2, UnlinkKeeps DEF faults
  <2>3. CASE Refused(i - 1, {})
    BY <2>1, <2>3, StillRetained DEF Refused
  <2> QED
    BY <1>7, <2>2, <2>3 DEF UnlinkLittle
<1>8. CASE Reopen
  BY <1>1, <1>8, OpenKeeps DEF Reopen, TypeOK, faults
<1>9. CASE AppendAfterRotate
  <2>1. fp # None /\ \E out : Flushed(out)
    BY <1>1, <1>9 DEF TypeOK, AppendAfterRotate, Append
  <2> QED
    BY <1>9, <2>1, FlushRetains DEF AppendAfterRotate
<1>10. CASE Close /\ fp # None
  BY <1>10, FlushRetains DEF Close
<1>11. CASE UNCHANGED <<file, content>>
  BY <1>11, StillRetained
<1> QED
  BY <1>2, <1>3, <1>4, <1>5, <1>6, <1>7, <1>8, <1>9, <1>10, <1>11
     DEF Next, Rotate, ReopenFails, Close, Crash, disk, vars

(* When the oldest archive goes, the log and the archives in between are   *)
(* newer, and stay.                                                        *)
LEMMA OldestLeavesEnough ==
  ASSUME IInv, Budget, UnlinkBig, i = Slots, NEW m \in Retained, m \notin Retained'
  PROVE  Cardinality(FullNewer(m)') >= Slots - (crashes + failed)
<1> TypeOK
  BY DEF IInv
<1>1. /\ Slots \in 1..Slots /\ Slots \in Nat /\ Slots # 0 /\ 0 \in Names /\ Slots \in Names
      /\ file[0] # None /\ Full(file[0]) /\ content' = content
      /\ crashes \in Nat /\ failed \in Nat
  BY BudgetTypes, NamesFacts, LogAssumption DEF UnlinkBig, Budget, FullLog, Shift
<1>2. Unlink(Slots) /\ UNCHANGED faults
  <2>1. CASE Refused(i, Contents({i - 1}))
    BY <1>1, <2>1, StillRetained DEF Refused
  <2> QED
    BY <2>1 DEF UnlinkBig
<1>3. /\ \A j \in Names : file'[j] = IF j = Slots THEN None ELSE file[j]
      /\ crashes' = crashes /\ failed' = failed
  BY <1>1, <1>2 DEF Unlink, TypeOK, faults
<1>4. \A k : k \in Retained' <=> \E j \in Names : file'[j] # None /\ k \in content[file'[j]]
  BY <1>1 DEF Retained, Contents
<1>5. file[Slots] # None /\ m \in content[file[Slots]]
  <2>1. PICK j \in Names : file[j] # None /\ m \in content[file[j]]
    BY RetainedMember
  <2> QED
    BY <1>3, <1>4, <2>1
<1>6. \A j \in Names : j # Slots => file[j] # file[Slots]
  BY <1>3, <1>4, <1>5
<1>7. Cardinality(Between(file, Slots)) >= (Slots - 1) - (crashes + failed)
  <2>1. Owed = 0 /\ Shifted(Slots) = 0
    BY <1>1 DEF Owed, Shifted, UnlinkBig
  <2>2. Spent(Slots) = crashes + failed
    BY <1>1, <2>1 DEF Spent
  <2> QED
    BY <1>1, <1>5, <1>6, <2>2 DEF Budget, Bounded, Bound
<1>8. ASSUME NEW j \in Names, j # Slots, file[j] # None, Full(file[j])
      PROVE  file[j] \in FullNewer(m)'
  <2>1. file'[j] = file[j] /\ Full(file[j])' /\ file[j] \in Inodes /\ file[Slots] \in Inodes
    BY <1>1, <1>3, <1>5, <1>8 DEF Full, TypeOK
  <2>2. \A k \in content'[file[j]] : k > m
    <3> SUFFICES ASSUME NEW k \in content[file[j]] PROVE k > m
      BY <1>1
    <3>1. j < Slots
      BY <1>1, <1>8 DEF Names
    <3>2. m < k
      BY <1>1, <1>5, <1>6, <1>8, <3>1 DEF IInv, ArchivesInOrder
    <3>3. m \in Nat /\ k \in Nat
      BY <1>5, <2>1 DEF TypeOK, Msgs
    <3> QED
      BY <3>2, <3>3
  <2> QED
    BY <1>8, <2>1, <2>2 DEF FullNewer
<1> DEFINE enough == Between(file, Slots) \cup {file[0]}
<1>9. enough \subseteq FullNewer(m)'
  <2>1. file[0] \in FullNewer(m)'
    BY <1>1, <1>8
  <2>2. ASSUME NEW x \in Between(file, Slots) PROVE x \in FullNewer(m)'
    <3>1. PICK k \in 1..Slots : k < Slots /\ file[k] = x
      BY <1>1, BetweenMember
    <3>2. x # None
      BY <1>1, BetweenMember
    <3>3. k \in Names /\ k # Slots /\ Full(file[k])
      BY <3>1, <3>2, BudgetTypes DEF Budget, FullArchives
    <3> QED
      BY <1>8, <3>1, <3>2, <3>3
  <2> QED
    BY <2>1, <2>2
<1>10. IsFiniteSet(FullNewer(m)')
  <2>1. IsFiniteSet({file'[k] : k \in 0 .. Slots})
    <3>1. ASSUME NEW f PROVE IsFiniteSet({f[k] : k \in 0 .. Slots})
      <4>1. 0 \in Int /\ Slots \in Int
        BY <1>1
      <4> QED
        BY <4>1, FewFiles, Zenon
    <3> QED
      BY <3>1, Zenon
  <2>2. FullNewer(m)' \subseteq {file'[k] : k \in 0 .. Slots}
    BY DEF FullNewer, Names
  <2> QED
    BY <2>1, <2>2, FS_Subset
<1>11. Cardinality(enough) = Cardinality(Between(file, Slots)) + 1
       /\ Cardinality(Between(file, Slots)) \in Nat
  <2>1. IsFiniteSet(Between(file, Slots)) /\ Cardinality(Between(file, Slots)) \in Nat
    BY <1>1, BetweenFinite
  <2>2. file[0] \notin Between(file, Slots)
    BY <1>1, BetweenMember
  <2> HIDE DEF Between
  <2>3. Cardinality(enough) = Cardinality(Between(file, Slots)) + 1
    BY <2>1, <2>2, FS_AddElement, Zenon
  <2> QED
    BY <2>1, <2>3
<1>12. Cardinality(enough) <= Cardinality(FullNewer(m)') /\ Cardinality(FullNewer(m)') \in Nat
  <2> HIDE DEF enough
  <2>1. Cardinality(FullNewer(m)') \in Nat
    BY <1>10, FS_CardinalityType
  <2> QED
    BY <1>9, <1>10, <2>1, FS_Subset
<1> HIDE DEF enough, Between
<1> QED
  BY <1>1, <1>3, <1>7, <1>11, <1>12

(* A rotation loses messages only when full files of newer ones stay, one  *)
(* for each archive number but for one per crash and one per refused call; *)
(* or a refusal kept their file from its new name (the shift in            *)
(* Logger::open_log_file).                                                 *)
THEOREM RotationKeepsBudget == Spec => RetentionBudget
<1>1. Init => Budget
  BY LogAssumption DEF Init, Budget, FullLog, FullArchives, Bounded, Shift, Names
<1>2. IInv /\ IInv' /\ Budget /\ [Next]_vars =>
        \A m \in (Retained \ Retained') \ unmoved' :
          Cardinality(FullNewer(m)') >= Slots - (crashes + failed)
  BY OthersRetain, OldestLeavesEnough
<1> QED
  BY <1>1, <1>2, BudgetPreserved, LogInvariant, PTL DEF Spec, RetentionBudget
=============================================================================
