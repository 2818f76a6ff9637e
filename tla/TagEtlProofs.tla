---------------------------- MODULE TagEtlProofs ----------------------------
(***************************************************************************)
(* Proofs about TagEtl, for every table, catalogue and threshold, and      *)
(* about two overlapping runs of it (EtlOverlap).                          *)
(***************************************************************************)
EXTENDS EtlOverlap, FiniteSetTheorems, TLAPS

-----------------------------------------------------------------------------
(* What the operators on rows compute.                                     *)

(* A matched row has a pair that fits the relation tables.                 *)
LEMMA SidTagType ==
  ASSUME NEW r \in Matched(Rows)
  PROVE  SidTag(r) \in Sids \X Tags
BY RowsAssumption DEF Matched, SidTag, Rows

(* The keys of missed rows are keys.                                       *)
LEMMA MissedType ==
  ASSUME NEW rows \in SUBSET Rows
  PROVE  Missed(rows) \subseteq Keys
BY RowsAssumption DEF Missed, HasSinger, Rows

(* Matched only picks among its rows, and picks by the row alone.          *)
LEMMA MatchedSubset ==
  ASSUME NEW few, NEW many, few \subseteq many
  PROVE  Matched(few) \subseteq few /\ Matched(few) \subseteq Matched(many)
BY DEF Matched

(* A row with a singer that is not matched is missed.                      *)
LEMMA MatchedOrMissed ==
  ASSUME NEW rows, NEW r \in rows, HasSinger(r), r \notin Matched(rows)
  PROVE  Key[r] \in Missed(rows)
BY DEF Matched, Missed

-----------------------------------------------------------------------------
(* The type invariant of EtlDoWork's variables and tables.                 *)
THEOREM Typing == Spec => []TypeOK
<1>1. Init => TypeOK
  BY DEF Init, TypeOK, Steps
<1>2. TypeOK /\ [Next]_vars => TypeOK'
  <2> SUFFICES ASSUME TypeOK, [Next]_vars PROVE TypeOK'
    OBVIOUS
  <2> USE DEF TypeOK, Steps, flush
  <2>f. ASSUME Forget, searchFile' \in {searchFile, searchFile \cup searchBuf},
               webStable' = webStable, webVar' \in {webVar, {}}, settled' = settled,
               {tags', tagsTmp', varTags', varBackup'} \subseteq SUBSET (Sids \X Tags),
               batch' \in SUBSET VarRows, left' \in SUBSET Matched(Rows), partial' \in BOOLEAN
        PROVE  TypeOK'
    BY <2>f DEF Forget
  <2>r. ASSUME Return PROVE Forget /\ searchFile' \in {searchFile, searchFile \cup searchBuf}
    BY <2>r DEF Return
  <2>1. CASE StartRun
    BY <2>1 DEF StartRun, web, local
  <2>2. CASE ConnectToLib
    BY <2>2, <2>f, <2>r DEF ConnectToLib, Reply, Goto, Fail, memory, web, local
  <2>3. CASE LoadWebSongs
    BY <2>3, <2>f, <2>r DEF LoadWebSongs, Fail, web, local
  <2>4. CASE LoadWebVarSongs
    BY <2>4, <2>f, <2>r DEF LoadWebVarSongs, Fail, web, local
  <2>5. CASE LoadSongs
    BY <2>5, <2>f, <2>r DEF LoadSongs, Reply, Goto, Fail, memory, web, local
  <2>m. ASSUME NEW rows \in SUBSET Rows, NEW next \in Steps, MatchSongs(rows, next)
        PROVE  TypeOK'
    <3>1. Matched(rows) \subseteq Matched(Rows)
      BY MatchedSubset
    <3>2. Missed(rows) \subseteq Keys
      BY MissedType
    <3> QED
      BY <2>m, <3>1, <3>2 DEF MatchSongs, WriteSearchSongs, web, local
  <2>6. CASE MatchStable
    BY <2>6, <2>m DEF MatchStable, Rows
  <2>7. CASE StoreStableTags
    BY <2>7, <2>f, <2>r DEF StoreStableTags, StoreTags, Goto, memory, web, local
  <2>8. CASE InsertStable
    <3> PICK r \in todo : Insert(r, tags, tags') /\ UNCHANGED <<varTags, flush>>
      BY <2>8 DEF InsertStable
    <3> SidTag(r) \in Sids \X Tags
      BY SidTagType
    <3> QED
      BY DEF Insert, web
  <2>9. CASE StableStored
    BY <2>9 DEF StableStored, Goto, memory, web, local
  <2>10. CASE NeedFlushVarTags
    BY <2>10 DEF NeedFlushVarTags, Goto, memory, web, local
  <2>11. CASE MatchVar
    BY <2>11, <2>m DEF MatchVar, Rows
  <2>12. CASE BackupVarTags
    BY <2>12, <2>f, <2>r DEF BackupVarTags, Reply, Goto, Fail, memory, web
  <2>13. CASE CleanVarTags
    <3>1. {tags', tagsTmp', varTags', varBackup'} \subseteq SUBSET (Sids \X Tags)
      BY <2>13 DEF CleanVarTags
    <3>2. batch' \in SUBSET VarRows /\ left' \in SUBSET Matched(Rows) /\ partial' \in BOOLEAN
      BY <2>13 DEF CleanVarTags
    <3>3. CASE Fail
      BY <2>13, <3>1, <3>2, <3>3, <2>f, <2>r DEF CleanVarTags, Fail, web
    <3>4. CASE Goto("storeVar")
      <4>1. UNCHANGED <<web, searchFile, memory, settled>> /\ pc' = "storeVar"
        BY <2>13, <3>4 DEF CleanVarTags, Goto
      <4> QED
        BY <3>1, <3>2, <4>1 DEF memory, web
    <3> QED
      BY <2>13, <3>3, <3>4 DEF CleanVarTags, Reply
  <2>14. CASE StoreVarTags
    BY <2>14, <2>f, <2>r DEF StoreVarTags, StoreTags, Goto, memory, web, local
  <2>15. CASE InsertVar
    <3> PICK r \in todo : /\ Insert(r, varTags, varTags') /\ left' = left \ {r}
                         /\ UNCHANGED <<tags, batch, partial>>
      BY <2>15 DEF InsertVar
    <3> SidTag(r) \in Sids \X Tags
      BY SidTagType
    <3> QED
      BY DEF Insert, web
  <2>16. CASE VarStored
    BY <2>16 DEF VarStored, Goto, memory, web, local
  <2>17. CASE CleanWebOldVarTags
    <3>1. CASE Fail
      BY <2>17, <3>1, <2>f, <2>r DEF CleanWebOldVarTags, Fail, web, local
    <3>2. CASE Goto("cleanTmp")
      BY <2>17, <3>2 DEF CleanWebOldVarTags, Goto, memory, web, local
    <3> QED
      BY <2>17, <3>1, <3>2 DEF CleanWebOldVarTags, Reply
  <2>18. CASE CleanTmpTags
    BY <2>18, <2>f, <2>r DEF CleanTmpTags, Reply, Goto, Fail, memory, web
  <2>19. CASE FillTmpTags
    BY <2>19, <2>f, <2>r DEF FillTmpTags, Reply, Goto, Fail, memory, web
  <2>20. CASE RefreshPublicRadio
    BY <2>20, <2>f, <2>r DEF RefreshPublicRadio, web, local
  <2>21. CASE World
    BY <2>21, <2>f DEF World, Crash, CollectStable, CollectVar, Settle, memory, web, local
  <2>22. CASE UNCHANGED vars
    BY <2>22 DEF vars, web, local, memory
  <2> QED
    BY <2>1, <2>2, <2>3, <2>4, <2>5, <2>6, <2>7, <2>8, <2>9, <2>10, <2>11, <2>12,
       <2>13, <2>14, <2>15, <2>16, <2>17, <2>18, <2>19, <2>20, <2>21, <2>22
    DEF Next, Process
<1> QED
  BY <1>1, <1>2, PTL DEF Spec

-----------------------------------------------------------------------------
(* The inductive invariant, in parts: what holds between which steps.      *)

FlushSteps == {"matchVar", "backupVar", "cleanVar", "storeVar", "insertVar", "cleanWeb"}

(* Loaded rows stay in the web table until this run deletes them.          *)
LoadedStay ==
  pc \notin {"cleanTmp", "fillTmp", "refresh"} => varSongs \subseteq webVar

(* Stable pairs: still to insert, stored, or refused.                      *)
StableProgress ==
  /\ pc = "storeStable" => todo = Matched(stableSongs)
  /\ pc = "insertStable" => \A r \in Matched(stableSongs) :
        r \in todo \/ r \in unsaved \/ SidTag(r) \in tags
  /\ pc \in FlushSteps \cup {"needFlush", "cleanTmp", "fillTmp", "refresh"} =>
        \A r \in Matched(stableSongs) : r \in unsaved \/ SidTag(r) \in tags

(* The same for the pairs of a flush, which starts from an empty relation. *)
VarProgress ==
  /\ pc \in {"backupVar", "cleanVar", "storeVar"} => todo = Matched(varSongs)
  /\ pc = "storeVar" => varTags = {}
  /\ pc = "insertVar" =>
       /\ todo \subseteq Matched(varSongs)
       /\ varTags \subseteq Relation(varSongs)
       /\ \A r \in Matched(varSongs) :
            r \in todo \/ r \in unsaved \/ SidTag(r) \in varTags
  /\ FlushReplacesRelation

(* The archive and the temporary table between their two statements.       *)
Archived == pc = "cleanVar" => varTags \subseteq varBackup
TmpProgress == 
  /\ pc = "fillTmp" => tagsTmp = {}
  /\ pc = "refresh" => tagsTmp = tags

(* Once the variable rows are matched their missed keys are written, but   *)
(* for those a stream that is not good has not taken.                      *)
Taken(k) == k \in searchFile \cup searchBuf \/ (~searchGood /\ k \in dropped)
MissesWritten ==
  pc \in FlushSteps \ {"matchVar"} => \A k \in Missed(varSongs) : Taken(k)

IInv ==
  LoadedStay /\ StableProgress /\ VarProgress /\ Archived /\ TmpProgress /\ MissesWritten

(* A key given to the stream is taken, or the stream is known to be bad.   *)
LEMMA KeysAreTaken ==
  ASSUME NEW keys, WriteSearchSongs(keys), NEW k \in keys
  PROVE  Taken(k)'
<1> USE DEF Taken
<1>1. CASE ~searchGood
  BY <1>1 DEF WriteSearchSongs
<1>2. CASE searchGood
  <2> PICK taken \in SUBSET keys : \E out \in SUBSET (searchBuf \cup taken) :
        /\ searchGood' = (taken = keys)
        /\ searchFile' = searchFile \cup out
        /\ searchBuf' = (searchBuf \cup taken) \ out
        /\ dropped' = dropped \cup (keys \ taken)
    BY <1>2 DEF WriteSearchSongs
  <2>1. CASE k \in taken
    BY <2>1
  <2>2. CASE k \notin taken
    BY <2>2
  <2> QED
    BY <2>1, <2>2
<1> QED
  BY <1>1, <1>2

(* A run that has ended remembers nothing, so every part holds of it.      *)
LEMMA EndedRun == Forget => IInv'
BY DEF Forget, IInv, LoadedStay, StableProgress, VarProgress, FlushReplacesRelation,
       Archived, TmpProgress, MissesWritten, FlushSteps

(* What an ending step is.                                                 *)
LEMMA FailForgets == (Fail => Forget) /\ (Return => Forget)
BY DEF Fail, Return

THEOREM InductiveInvariant == Spec => []IInv
<1>1. Init => IInv
  BY DEF Init, IInv, LoadedStay, StableProgress, VarProgress, FlushReplacesRelation,
         Archived, TmpProgress, MissesWritten, FlushSteps
<1>2. TypeOK /\ IInv /\ [Next]_vars => IInv'
  <2> SUFFICES ASSUME TypeOK, IInv, [Next]_vars PROVE IInv'
    OBVIOUS
  <2> USE DEF IInv, LoadedStay, StableProgress, VarProgress, FlushReplacesRelation,
              Archived, TmpProgress, MissesWritten, FlushSteps, Taken
  <2>1. CASE StartRun
    BY <2>1 DEF StartRun, web, local, TypeOK
  <2>2. CASE ConnectToLib
    BY <2>2, EndedRun, FailForgets DEF ConnectToLib, Reply, Goto, memory, web, local
  <2>3. CASE LoadWebSongs
    BY <2>3, EndedRun, FailForgets DEF LoadWebSongs, web, local
  <2>4. CASE LoadWebVarSongs
    BY <2>4, EndedRun, FailForgets DEF LoadWebVarSongs, web, local
  <2>5. CASE LoadSongs
    BY <2>5, EndedRun, FailForgets DEF LoadSongs, Reply, Goto, memory, web, local
  <2>6. CASE MatchStable
    BY <2>6 DEF MatchStable, MatchSongs, web, local
  <2>7. CASE StoreStableTags
    <3>1. CASE todo = {}
      BY <2>7, <3>1, EndedRun, FailForgets DEF StoreStableTags, StoreTags
    <3>2. CASE todo # {}
      BY <2>7, <3>2 DEF StoreStableTags, StoreTags, Goto, memory, web, local
    <3> QED BY <3>1, <3>2
  <2>8. CASE InsertStable
    <3> PICK r \in todo : Insert(r, tags, tags') /\ UNCHANGED varTags
      BY <2>8 DEF InsertStable
    <3>1. tags \subseteq tags' /\ unsaved \subseteq unsaved'
      BY DEF Insert
    <3>2. r \in unsaved' \/ SidTag(r) \in tags'
      BY DEF Insert
    <3> QED
      BY <2>8, <3>1, <3>2 DEF InsertStable, Insert, web
  <2>9. CASE StableStored
    BY <2>9 DEF StableStored, Goto, memory, web, local
  <2>10. CASE NeedFlushVarTags
    BY <2>10 DEF NeedFlushVarTags, Goto, memory, web, local
  <2>11. CASE MatchVar
    <3>1. WriteSearchSongs(Missed(varSongs)) /\ varSongs' = varSongs
      BY <2>11 DEF MatchVar, MatchSongs
    <3>2. \A k \in Missed(varSongs) : Taken(k)'
      BY <3>1, KeysAreTaken
    <3>3. Missed(varSongs)' = Missed(varSongs)
      BY <3>1 DEF Missed, HasSinger
    <3>4. MissesWritten'
      BY <3>2, <3>3
    <3> QED
      BY <2>11, <3>4 DEF MatchVar, MatchSongs, web, local
  <2>12. CASE BackupVarTags
    BY <2>12, EndedRun, FailForgets DEF BackupVarTags, Reply, Goto, memory, web
  <2>13. CASE CleanVarTags
    BY <2>13, EndedRun, FailForgets DEF CleanVarTags, Reply, Goto, memory, web
  <2>14. CASE StoreVarTags
    <3>1. CASE todo = {}
      BY <2>14, <3>1, EndedRun, FailForgets DEF StoreVarTags, StoreTags
    <3>2. CASE todo # {}
      BY <2>14, <3>2 DEF StoreVarTags, StoreTags, Goto, memory, web, local
    <3> QED BY <3>1, <3>2
  <2>15. CASE InsertVar
    <3> PICK r \in todo : Insert(r, varTags, varTags') /\ UNCHANGED tags
      BY <2>15 DEF InsertVar
    <3>1. varTags \subseteq varTags' /\ unsaved \subseteq unsaved'
      BY DEF Insert
    <3>2. r \in unsaved' \/ SidTag(r) \in varTags'
      BY DEF Insert
    <3>3. varTags' \subseteq varTags \cup {SidTag(r)}
      BY DEF Insert
    <3>4. SidTag(r) \in Relation(varSongs)
      BY <2>15 DEF InsertVar, Relation
    <3>5. UNCHANGED <<pc, varSongs, stableSongs, webVar, searchFile, searchBuf, searchGood,
                      dropped>>
          /\ todo' = todo \ {r} /\ pc = "insertVar"
      BY <2>15 DEF InsertVar, Insert, web
    <3>6. Relation(varSongs)' = Relation(varSongs)
      BY <3>5 DEF Relation, Matched, SidTag, HasSinger
    <3> QED
      BY <3>1, <3>2, <3>3, <3>4, <3>5, <3>6
  <2>16. CASE VarStored
    BY <2>16 DEF VarStored, Goto, memory, web, local
  <2>17. CASE CleanWebOldVarTags
    BY <2>17, EndedRun, FailForgets DEF CleanWebOldVarTags, Reply, Goto, memory, local
  <2>18. CASE CleanTmpTags
    BY <2>18, EndedRun, FailForgets DEF CleanTmpTags, Reply, Goto, memory, web
  <2>19. CASE FillTmpTags
    BY <2>19, EndedRun, FailForgets DEF FillTmpTags, Reply, Goto, memory, web
  <2>20. CASE RefreshPublicRadio
    BY <2>20, EndedRun, FailForgets DEF RefreshPublicRadio
  <2>21. CASE Crash
    BY <2>21, EndedRun DEF Crash
  <2>22. CASE CollectStable
    BY <2>22 DEF CollectStable, memory, local
  <2>23. CASE CollectVar
    BY <2>23 DEF CollectVar, memory, local
  <2>24. CASE Settle
    BY <2>24 DEF Settle, memory, web, local
  <2>25. CASE UNCHANGED vars
    BY <2>25 DEF vars, web, local, memory
  <2> QED
    BY <2>1, <2>2, <2>3, <2>4, <2>5, <2>6, <2>7, <2>8, <2>9, <2>10, <2>11, <2>12,
       <2>13, <2>14, <2>15, <2>16, <2>17, <2>18, <2>19, <2>20, <2>21, <2>22, <2>23,
       <2>24, <2>25
    DEF Next, Process, World
<1> QED
  BY <1>1, <1>2, Typing, PTL DEF Spec

-----------------------------------------------------------------------------
(* What it gives.                                                          *)

(* A flush replaces the variable relation: when the web rows are about to  *)
(* be deleted the relation is the loaded rows' one, up to refused inserts. *)
THEOREM FlushReplaces == Spec => []FlushReplacesRelation
<1>1. IInv => FlushReplacesRelation
  BY DEF IInv, VarProgress
<1> QED
  BY <1>1, InductiveInvariant, PTL

(* The radio is told to refresh only when the temporary table is the       *)
(* stable relation, with every accepted pair of this run.                  *)
THEOREM RadioRefreshedWhenReady == Spec => []RefreshReady
<1>1. IInv => RefreshReady
  BY DEF IInv, StableProgress, TmpProgress, RefreshReady
<1> QED
  BY <1>1, InductiveInvariant, PTL

(* A pair leaves the variable relation only if the backup table has it.    *)
THEOREM NothingDroppedUnarchived == Spec => ArchiveBeforeDrop
<1>1. IInv /\ [Next]_vars => [varTags \ varTags' \subseteq varBackup]_vars
  <2> SUFFICES ASSUME IInv, Next PROVE varTags \ varTags' \subseteq varBackup
    BY DEF vars
  <2>1. CASE CleanVarTags
    BY <2>1 DEF CleanVarTags, IInv, Archived
  <2>2. CASE InsertVar
    BY <2>2 DEF InsertVar, Insert
  <2>3. CASE World
    BY <2>3 DEF World, Crash, CollectStable, CollectVar, Settle, local
  <2>4. ASSUME Process, ~CleanVarTags, ~InsertVar PROVE UNCHANGED varTags
    BY <2>4 DEF Process, StartRun, ConnectToLib, LoadWebSongs, LoadWebVarSongs, LoadSongs,
       MatchStable, MatchVar, MatchSongs, StoreStableTags, StoreVarTags, StoreTags,
       InsertStable, StableStored, NeedFlushVarTags, BackupVarTags, VarStored,
       CleanWebOldVarTags, CleanTmpTags, FillTmpTags, RefreshPublicRadio, local
  <2> QED
    BY <2>1, <2>2, <2>3, <2>4 DEF Next
<1> QED
  BY <1>1, InductiveInvariant, PTL DEF Spec, ArchiveBeforeDrop

(* The statement that deletes the web rows is the only step that takes a   *)
(* row from re_songs_vartags.                                              *)
LEMMA OnlyCleanWebDeletes ==
  ASSUME [Next]_vars, ~CleanWebOldVarTags
  PROVE  webVar \subseteq webVar'
<1>1. CASE World
  BY <1>1 DEF World, Crash, CollectStable, CollectVar, Settle, web
<1>2. CASE Process
  BY <1>2 DEF Process, StartRun, ConnectToLib, LoadWebSongs, LoadWebVarSongs, LoadSongs,
     MatchStable, MatchVar, MatchSongs, StoreStableTags, StoreVarTags, StoreTags,
     InsertStable, InsertVar, Insert, StableStored, NeedFlushVarTags, BackupVarTags,
     CleanVarTags, VarStored, CleanTmpTags, FillTmpTags, RefreshPublicRadio, web
<1>3. CASE UNCHANGED vars
  BY <1>3 DEF vars, web
<1> QED
  BY <1>1, <1>2, <1>3 DEF Next

(* Deleting the web rows loses none of the rows the run loaded, but those  *)
(* whose insert, or whose very key, was refused.                           *)
THEOREM CleanLosesNoLoadedRow == Spec => CleanAccountsForLoaded
<1> DEFINE Accounted(r) ==
        \/ ~HasSinger(r)
        \/ r \in Matched(varSongs) /\ (r \in unsaved \/ SidTag(r) \in varTags)
        \/ Key[r] \in searchFile \cup searchBuf
        \/ ~searchGood /\ Key[r] \in dropped
<1>1. IInv /\ [Next]_vars =>
        [\A r \in (webVar \ webVar') \cap varSongs : Accounted(r)]_vars
  <2> SUFFICES ASSUME IInv, [Next]_vars, NEW r \in (webVar \ webVar') \cap varSongs
               PROVE  Accounted(r)
    OBVIOUS
  <2>1. pc = "cleanWeb"
    BY OnlyCleanWebDeletes DEF CleanWebOldVarTags
  <2>2. CASE r \in Matched(varSongs)
    BY <2>1, <2>2 DEF IInv, VarProgress, FlushReplacesRelation
  <2>3. CASE HasSinger(r) /\ r \notin Matched(varSongs)
    <3>1. Key[r] \in Missed(varSongs)
      BY <2>3, MatchedOrMissed
    <3> QED
      BY <2>1, <3>1 DEF IInv, MissesWritten, FlushSteps, Taken
  <2> QED
    BY <2>2, <2>3
<1> QED
  BY <1>1, InductiveInvariant, PTL DEF Spec, CleanAccountsForLoaded

(* A tag has no fewer rows in a table that has grown.                      *)
LEMMA RowsOfGrow ==
  ASSUME NEW few, NEW many \in SUBSET VarRows, few \subseteq many, NEW t
  PROVE  /\ Cardinality(RowsOf(t, few)) \in Nat
         /\ Cardinality(RowsOf(t, many)) \in Nat
         /\ Cardinality(RowsOf(t, few)) <= Cardinality(RowsOf(t, many))
<1>1. RowsOf(t, many) \subseteq VarRows /\ RowsOf(t, few) \subseteq RowsOf(t, many)
  BY DEF RowsOf
<1>2. IsFiniteSet(RowsOf(t, many))
  BY <1>1, RowsAssumption, FS_Subset
<1> QED
  BY <1>1, <1>2, FS_Subset, FS_CardinalityType

(* A step into or inside the flush that is not the decision itself stays   *)
(* in it, with the rows it loaded, over a table that only grows.           *)
LEMMA FlushGoesOn ==
  ASSUME [Next]_vars, pc' \in FlushSteps, ~NeedFlushVarTags
  PROVE  pc \in FlushSteps /\ varSongs' = varSongs /\ webVar \subseteq webVar'
<1> USE DEF FlushSteps
<1>1. ~Forget /\ ~Return /\ ~Fail
  BY FailForgets DEF Forget
<1>2. CASE World
  BY <1>1, <1>2 DEF World, Crash, CollectStable, CollectVar, Settle, memory, web
<1>3. CASE MatchVar \/ InsertVar
  BY <1>3 DEF MatchVar, MatchSongs, InsertVar, Insert, web
<1>4. CASE BackupVarTags \/ CleanVarTags \/ StoreVarTags \/ VarStored
  BY <1>1, <1>4 DEF BackupVarTags, CleanVarTags, StoreVarTags, StoreTags, VarStored,
     Reply, Goto, memory, web
<1>5. CASE MatchStable \/ StoreStableTags \/ InsertStable \/ StableStored
  BY <1>1, <1>5 DEF MatchStable, MatchSongs, StoreStableTags, StoreTags, InsertStable,
     Insert, StableStored, Goto
<1>6. CASE StartRun \/ ConnectToLib \/ LoadWebSongs \/ LoadWebVarSongs \/ LoadSongs
  BY <1>1, <1>6 DEF StartRun, ConnectToLib, LoadWebSongs, LoadWebVarSongs, LoadSongs,
     Reply, Goto
<1>7. CASE CleanWebOldVarTags \/ CleanTmpTags \/ FillTmpTags \/ RefreshPublicRadio
  BY <1>1, <1>7 DEF CleanWebOldVarTags, CleanTmpTags, FillTmpTags, RefreshPublicRadio,
     Reply, Goto
<1>8. CASE UNCHANGED vars
  BY <1>8 DEF vars, web, memory
<1> QED
  BY <1>2, <1>3, <1>4, <1>5, <1>6, <1>7, <1>8 DEF Next, Process

(* From the decision to flush on, every tag the run replaces has at least  *)
(* Threshold rows in the web table.                                        *)
THEOREM FlushIsDue == Spec => []FlushOnlyWhenDue
<1>1. Init => FlushOnlyWhenDue
  BY DEF Init, FlushOnlyWhenDue
<1>2. TypeOK /\ TypeOK' /\ IInv /\ FlushOnlyWhenDue /\ [Next]_vars => FlushOnlyWhenDue'
  <2> SUFFICES ASSUME TypeOK, TypeOK', IInv, FlushOnlyWhenDue, [Next]_vars,
                      pc' \in FlushSteps
               PROVE  /\ varSongs' \subseteq webVar'
                      /\ \A r \in varSongs' : Cardinality(RowsOf(Tag[r], webVar')) >= Threshold
    BY DEF FlushOnlyWhenDue, FlushSteps, RowsOf
  <2> USE DEF FlushSteps
  <2>1. CASE NeedFlushVarTags
    BY <2>1 DEF NeedFlushVarTags, Goto, FlushDue, IInv, LoadedStay, memory, web, RowsOf
  <2>2. CASE ~NeedFlushVarTags
    <3>1. pc \in FlushSteps /\ varSongs' = varSongs /\ webVar \subseteq webVar'
      BY <2>2, FlushGoesOn
    <3>2. \A r \in varSongs : Cardinality(RowsOf(Tag[r], webVar)) >= Threshold
      BY <3>1 DEF FlushOnlyWhenDue
    <3>3. webVar' \in SUBSET VarRows
      BY DEF TypeOK
    <3>4. ASSUME NEW r \in varSongs PROVE Cardinality(RowsOf(Tag[r], webVar')) >= Threshold
      <4>1. /\ Cardinality(RowsOf(Tag[r], webVar)) \in Nat
            /\ Cardinality(RowsOf(Tag[r], webVar')) \in Nat
            /\ Cardinality(RowsOf(Tag[r], webVar)) <= Cardinality(RowsOf(Tag[r], webVar'))
        BY <3>1, <3>3, RowsOfGrow
      <4>2. Cardinality(RowsOf(Tag[r], webVar)) >= Threshold
        BY <3>2
      <4> QED
        BY <4>1, <4>2, RowsAssumption
    <3> QED
      BY <3>1, <3>4 DEF FlushOnlyWhenDue
  <2> QED
    BY <2>1, <2>2
<1> QED
  BY <1>1, <1>2, Typing, InductiveInvariant, PTL DEF Spec

-----------------------------------------------------------------------------
(* The abstract variable relation.                                         *)

(* What the steps of a flush know of the batch they began, and what any    *)
(* later run knows of a batch that was left.                               *)
FlushInv ==
  /\ PartCanBeRemade
  /\ pc \in {"storeVar", "insertVar"} => partial /\ batch = varSongs /\ left = todo
  /\ pc = "insertVar" => Matched(varSongs) # {}
  /\ pc = "cleanWeb" => ~partial /\ batch = varSongs /\ Matched(varSongs) # {}

(* A step that leaves the batch and the web rows, or adds web rows, and    *)
(* does not lead into the flush.                                           *)
LEMMA BatchStays ==
  ASSUME FlushInv, UNCHANGED flush, webVar \subseteq webVar',
         pc' \notin {"storeVar", "insertVar", "cleanWeb"}
  PROVE  FlushInv'
BY DEF FlushInv, PartCanBeRemade, flush

(* The steps that change the relation or what is remembered of its flush.  *)
LEMMA OthersKeepFlush ==
  ASSUME [Next]_vars, ~CleanVarTags, ~InsertVar, ~VarStored, ~CleanWebOldVarTags
  PROVE  UNCHANGED <<flush, varTags>>
<1>1. CASE World
  BY <1>1 DEF World, Crash, CollectStable, CollectVar, Settle, local
<1>2. CASE Process
  BY <1>2 DEF Process, StartRun, ConnectToLib, LoadWebSongs, LoadWebVarSongs, LoadSongs,
     MatchStable, MatchVar, MatchSongs, StoreStableTags, StoreVarTags, StoreTags,
     InsertStable, StableStored, NeedFlushVarTags, BackupVarTags,
     CleanTmpTags, FillTmpTags, RefreshPublicRadio, local
<1>3. CASE UNCHANGED vars
  BY <1>3 DEF vars, local
<1> QED
  BY <1>1, <1>2, <1>3 DEF Next

THEOREM FlushInvariant == Spec => []FlushInv
<1>1. Init => FlushInv
  BY DEF Init, FlushInv, PartCanBeRemade
<1>2. TypeOK /\ IInv /\ FlushInv /\ [Next]_vars => FlushInv'
  <2> SUFFICES ASSUME TypeOK, IInv, FlushInv, [Next]_vars PROVE FlushInv'
    OBVIOUS
  <2>1. CASE CleanVarTags
    <3>1. varSongs \subseteq webVar /\ pc = "cleanVar" /\ UNCHANGED web
      BY <2>1 DEF CleanVarTags, IInv, LoadedStay
    <3>2. CASE Fail
      BY <2>1, <3>1, <3>2, FailForgets DEF CleanVarTags, Forget, FlushInv, PartCanBeRemade, flush, web
    <3>3. CASE Goto("storeVar")
      BY <2>1, <3>1, <3>3, FailForgets
         DEF CleanVarTags, Forget, Goto, memory, FlushInv, PartCanBeRemade, web
    <3> QED
      BY <2>1, <3>2, <3>3 DEF CleanVarTags, Reply
  <2>2. CASE InsertVar
    BY <2>2 DEF InsertVar, Insert, FlushInv, PartCanBeRemade, web
  <2>3. CASE VarStored
    BY <2>3 DEF VarStored, Goto, memory, FlushInv, PartCanBeRemade, web
  <2>4. CASE CleanWebOldVarTags
    BY <2>4, FailForgets DEF CleanWebOldVarTags, Reply, Goto, Forget, FlushInv, PartCanBeRemade
  <2>5. CASE StoreVarTags
    BY <2>5, FailForgets
       DEF StoreVarTags, StoreTags, Goto, memory, Forget, FlushInv, PartCanBeRemade, web, local, flush,
           IInv, VarProgress
  <2>6. CASE /\ ~CleanVarTags /\ ~InsertVar /\ ~VarStored /\ ~CleanWebOldVarTags /\ ~StoreVarTags
    <3>1. UNCHANGED flush /\ webVar \subseteq webVar'
      BY <2>6, OthersKeepFlush, OnlyCleanWebDeletes
    <3>2. CASE UNCHANGED <<pc, varSongs, todo>>
      BY <3>1, <3>2 DEF FlushInv, PartCanBeRemade, flush, Matched, HasSinger
    <3>3. CASE pc' \notin {"storeVar", "insertVar", "cleanWeb"}
      BY <3>1, <3>3, BatchStays
    <3>4. UNCHANGED <<pc, varSongs, todo>> \/ pc' \notin {"storeVar", "insertVar", "cleanWeb"}
      <4>1. CASE World \/ UNCHANGED vars
        BY <4>1 DEF World, Crash, Forget, CollectStable, CollectVar, Settle, memory, vars
      <4>2. CASE Process
        BY <2>6, <4>2, FailForgets DEF Process, StartRun, ConnectToLib, LoadWebSongs, LoadWebVarSongs,
           LoadSongs, MatchStable, MatchVar, MatchSongs, StoreStableTags, StoreTags,
           InsertStable, Insert, StableStored, NeedFlushVarTags, BackupVarTags, CleanTmpTags,
           FillTmpTags, RefreshPublicRadio, Reply, Goto, Forget
      <4> QED
        BY <4>1, <4>2 DEF Next
    <3> QED
      BY <3>2, <3>3, <3>4
  <2> QED
    BY <2>1, <2>2, <2>3, <2>4, <2>5, <2>6
<1> QED
  BY <1>1, <1>2, Typing, InductiveInvariant, PTL DEF Spec

(* Whatever part of a relation a run leaves, the rows it was to be made    *)
(* from wait in the web table until a flush has stored them all.           *)
THEOREM PartRemains == Spec => []PartCanBeRemade
<1>1. FlushInv => PartCanBeRemade
  BY DEF FlushInv
<1> QED
  BY <1>1, FlushInvariant, PTL

(* Rows that make a pair are the matched ones.                             *)
LEMMA MakersAreMatched ==
  ASSUME NEW rows \in SUBSET VarRows
  PROVE  Variable!Makers(rows) = Matched(rows)
BY DEF Variable!Makers, Matched

(* Every step of a run or of the world is a step of the variable relation  *)
(* or leaves it alone: the batch implements VarRelation.                   *)
THEOREM Implementation == Spec => ImplementsVarRelation
<1>1. Init => Variable!Init
  BY DEF Init, Variable!Init
<1>2. TypeOK /\ IInv /\ FlushInv /\ [Next]_vars => [Variable!Next]_(Variable!vars)
  <2> SUFFICES ASSUME TypeOK, IInv, FlushInv, [Next]_vars
               PROVE  Variable!Next \/ UNCHANGED Variable!vars
    OBVIOUS
  <2> USE DEF Variable!Next, Variable!vars
  <2>1. CASE CleanVarTags
    <3>1. varSongs \in SUBSET webVar /\ varSongs \in SUBSET VarRows /\ todo = Matched(varSongs)
          /\ varTags \subseteq varBackup
      BY <2>1 DEF CleanVarTags, IInv, LoadedStay, VarProgress, Archived, TypeOK
    <3>2. CASE UNCHANGED <<varTags, flush>>
      BY <2>1, <3>2 DEF CleanVarTags, flush, web
    <3>3. CASE varTags' = {} /\ batch' = varSongs /\ left' = todo /\ partial' = TRUE
      BY <2>1, <3>1, <3>3, MakersAreMatched DEF CleanVarTags, Variable!Begin, web
    <3> QED
      BY <2>1, <3>2, <3>3 DEF CleanVarTags
  <2>2. CASE InsertVar
    <3> PICK r \in todo : /\ Insert(r, varTags, varTags') /\ left' = left \ {r}
                          /\ UNCHANGED <<tags, batch, partial>>
      BY <2>2 DEF InsertVar
    <3>1. partial /\ r \in left /\ r \in Matched(VarRows)
      BY <2>2 DEF InsertVar, FlushInv, IInv, VarProgress, TypeOK, Matched
    <3>2. varTags' \in {varTags, varTags \cup {SidTag(r)}}
      BY DEF Insert
    <3> QED
      BY <3>1, <3>2 DEF Insert, Variable!Store, web
  <2>3. CASE VarStored
    BY <2>3 DEF VarStored, FlushInv, Variable!Complete, web
  <2>4. CASE CleanWebOldVarTags
    <3>1. ~partial /\ batch = varSongs /\ batch \subseteq webVar /\ varSongs \in SUBSET VarRows
          /\ Matched(batch) # {}
      BY <2>4 DEF CleanWebOldVarTags, FlushInv, IInv, LoadedStay, TypeOK
    <3> QED
      BY <2>4, <3>1, MakersAreMatched DEF CleanWebOldVarTags, Variable!Discard
  <2>5. CASE CollectVar
    BY <2>5 DEF CollectVar, Variable!Collect, local, flush
  <2>6. CASE BackupVarTags
    BY <2>6 DEF BackupVarTags, Variable!Archive, web, flush
  <2>7. CASE /\ ~CleanVarTags /\ ~InsertVar /\ ~VarStored /\ ~CleanWebOldVarTags
             /\ ~CollectVar /\ ~BackupVarTags
    <3>1. UNCHANGED <<flush, varTags>>
      BY <2>7, OthersKeepFlush
    <3>2. UNCHANGED <<webVar, varBackup>>
      <4>1. CASE World \/ UNCHANGED vars
        BY <2>7, <4>1 DEF World, Crash, CollectStable, Settle, vars, web, local
      <4>2. CASE Process
        BY <2>7, <4>2 DEF Process, StartRun, ConnectToLib, LoadWebSongs, LoadWebVarSongs,
           LoadSongs, MatchStable, MatchVar, MatchSongs, StoreStableTags, StoreVarTags,
           StoreTags, InsertStable, Insert, StableStored, NeedFlushVarTags, CleanTmpTags,
           FillTmpTags, RefreshPublicRadio, web, local
      <4> QED
        BY <4>1, <4>2 DEF Next
    <3> QED
      BY <3>1, <3>2 DEF flush
  <2> QED
    BY <2>1, <2>2, <2>3, <2>4, <2>5, <2>6, <2>7
<1> QED
  BY <1>1, <1>2, Typing, InductiveInvariant, FlushInvariant, PTL
     DEF Spec, ImplementsVarRelation, Variable!Spec

(* What follows from the abstract relation alone holds of the batch.       *)
LEMMA AbstractKeepsPairs ==
  ASSUME [Variable!Next]_(Variable!vars)
  PROVE  varTags \cup varBackup \subseteq (varTags \cup varBackup)'
BY DEF Variable!Next, Variable!vars, Variable!Collect, Variable!Archive, Variable!Begin,
   Variable!Store, Variable!Complete, Variable!Discard

(* A pair that was ever in the variable relation is in it or in the backup *)
(* table from then on, whatever runs fail and die (localLib.cpp:49-69).    *)
THEOREM PairsStay ==
  Spec => [][varTags \cup varBackup \subseteq (varTags \cup varBackup)']_vars
<1>1. [Variable!Next]_(Variable!vars) =>
        [varTags \cup varBackup \subseteq (varTags \cup varBackup)']_vars
  BY AbstractKeepsPairs
<1> QED
  BY <1>1, Implementation, PTL DEF ImplementsVarRelation, Variable!Spec

(* The rows of the batch a pair of the relation may come from.             *)
OneBatch ==
  /\ left \subseteq Matched(batch)
  /\ ~partial => left = {}
  /\ batch # {} => varTags \subseteq Relation(batch)

LEMMA AbstractOneBatch ==
  ASSUME webVar \in SUBSET VarRows, batch \in SUBSET VarRows, OneBatch,
         [Variable!Next]_(Variable!vars)
  PROVE  OneBatch'
<1> USE DEF OneBatch, Variable!vars
<1>1. CASE Variable!Begin
  BY <1>1, MakersAreMatched DEF Variable!Begin
<1>2. CASE Variable!Store
  <2> PICK r \in left : /\ left' = left \ {r} /\ UNCHANGED <<batch, partial>> /\ partial
                        /\ varTags' \in {varTags, varTags \cup {SidTag(r)}}
    <3>1. Matched(batch) \subseteq Matched(VarRows)
      BY MatchedSubset
    <3> QED
      BY <1>2, <3>1 DEF Variable!Store
  <2>1. Matched(batch)' = Matched(batch)
    BY DEF Matched, HasSinger
  <2>2. Relation(batch)' = Relation(batch)
    BY <2>1 DEF Relation, SidTag
  <2>3. SidTag(r) \in Relation(batch)
    BY DEF Relation
  <2> QED
    BY <2>1, <2>2, <2>3
<1>3. CASE Variable!Discard
  BY <1>3 DEF Variable!Discard
<1>4. CASE \/ Variable!Collect \/ Variable!Archive \/ Variable!Complete
           \/ UNCHANGED Variable!vars
  BY <1>4 DEF Variable!Collect, Variable!Archive, Variable!Complete, Relation, Matched,
     HasSinger, SidTag
<1> QED
  BY <1>1, <1>2, <1>3, <1>4 DEF Variable!Next

(* Until the rows it was made from are deleted, the variable relation has  *)
(* pairs of one flush only: at no step, and after no crash, is a pair of   *)
(* an earlier flush among them (localLib.cpp:60-66, tagEtl.cpp:95-117).    *)
THEOREM PairsOfOneFlush == Spec => [](batch # {} => varTags \subseteq Relation(batch))
<1>1. Variable!Init => OneBatch
  BY DEF Variable!Init, OneBatch
<1>2. TypeOK /\ OneBatch /\ [Variable!Next]_(Variable!vars) => OneBatch'
  BY AbstractOneBatch DEF TypeOK
<1>3. OneBatch => (batch # {} => varTags \subseteq Relation(batch))
  BY DEF OneBatch
<1> QED
  BY <1>1, <1>2, <1>3, Typing, Implementation, PTL DEF ImplementsVarRelation, Variable!Spec

-----------------------------------------------------------------------------
(* Two runs at a time (EtlOverlap).                                        *)

(* What run p knows of the tables at its steps, whatever the other run     *)
(* does: nobody deletes from the stable relation, and from the variable    *)
(* relation and the temporary table nobody deletes without taking them     *)
(* over from p.                                                            *)
RunInv(p, step, stable, var, rest, refused) ==
  /\ step = "storeStable" => rest = Matched(stable)
  /\ step = "insertStable" => Whole(stable, refused \cup rest, tags)
  /\ step \in FlushSteps \cup {"needFlush", "cleanTmp", "fillTmp", "refresh"} =>
        Whole(stable, refused, tags)
  /\ step \in {"backupVar", "cleanVar", "storeVar"} => rest = Matched(var)
  /\ step = "insertVar" /\ varBy = p => Whole(var, refused \cup rest, varTags)
  /\ step = "cleanWeb" /\ varBy = p => Whole(var, refused, varTags)
  /\ step = "refresh" /\ tmpBy = p => Whole(stable, refused, tagsTmp)

RunInv1 == RunInv(1, pc, stableSongs, varSongs, todo, unsaved)
RunInv2 == RunInv(2, pc2, stableSongs2, varSongs2, todo2, unsaved2)

OverlapInv == tagsTmp \subseteq tags /\ RunInv1 /\ RunInv2

(* What a step of run p does to the shared relations.                      *)
Effect(p) ==
  /\ tags \subseteq tags'
  /\ varBy' = p \/ (varBy' = varBy /\ varTags \subseteq varTags')
  /\ tmpBy' = p \/ (tmpBy' = tmpBy /\ tagsTmp \subseteq tagsTmp')
  /\ tagsTmp \subseteq tags => tagsTmp' \subseteq tags'

(* The rows and pairs of both runs are the same.                           *)
LEMMA OtherRows ==
  ASSUME NEW rows
  PROVE  Other!Matched(rows) = Matched(rows) /\ Other!SidTag(rows) = SidTag(rows)
BY DEF Other!Matched, Matched, Other!SidTag, SidTag, Other!HasSinger, HasSinger

(* Deletes take the relation over; every other statement only adds.        *)
LEMMA EffectOfFirst ==
  ASSUME Process \/ Crash, Empties(1, pc, pc')
  PROVE  Effect(1)
<1> USE DEF Effect, Empties
<1>1. CASE Crash
  BY <1>1 DEF Crash, local
<1>2. CASE StartRun \/ ConnectToLib \/ LoadWebSongs \/ LoadWebVarSongs \/ LoadSongs
  BY <1>2 DEF StartRun, ConnectToLib, LoadWebSongs, LoadWebVarSongs, LoadSongs, local
<1>3. CASE MatchStable \/ MatchVar \/ StoreStableTags \/ StoreVarTags
  BY <1>3 DEF MatchStable, MatchVar, MatchSongs, StoreStableTags, StoreVarTags, StoreTags, local
<1>4. CASE InsertStable \/ InsertVar
  BY <1>4 DEF InsertStable, InsertVar, Insert
<1>5. CASE StableStored \/ VarStored \/ NeedFlushVarTags \/ BackupVarTags \/ CleanWebOldVarTags
  BY <1>5 DEF StableStored, VarStored, NeedFlushVarTags, BackupVarTags, CleanWebOldVarTags, local
<1>6. CASE CleanVarTags
  BY <1>6, FailForgets DEF CleanVarTags, Reply, Goto, Forget
<1>7. CASE CleanTmpTags
  BY <1>7, FailForgets DEF CleanTmpTags, Reply, Goto, Forget
<1>8. CASE FillTmpTags \/ RefreshPublicRadio
  BY <1>8 DEF FillTmpTags, RefreshPublicRadio, local
<1> QED
  BY <1>1, <1>2, <1>3, <1>4, <1>5, <1>6, <1>7, <1>8 DEF Process

(* What a run knows of its own work, step by step.                         *)
LEMMA FirstKeepsOwn ==
  ASSUME Process \/ Crash, Empties(1, pc, pc'), RunInv1, tagsTmp \subseteq tags
  PROVE  RunInv1'
<1> USE DEF RunInv1, RunInv, FlushSteps
<1>f. ASSUME Fail \/ Return \/ Crash PROVE RunInv1'
  BY <1>f DEF Fail, Return, Crash, Forget
<1>1. CASE StartRun
  BY <1>1 DEF StartRun
<1>2. CASE ConnectToLib \/ LoadWebSongs \/ LoadWebVarSongs \/ LoadSongs
  BY <1>2, <1>f DEF ConnectToLib, LoadWebSongs, LoadWebVarSongs, LoadSongs, Reply, Goto
<1>3. CASE MatchStable
  BY <1>3 DEF MatchStable, MatchSongs
<1>4. CASE StoreStableTags
  <2>1. CASE todo = {}
    BY <1>4, <2>1, <1>f DEF StoreStableTags, StoreTags
  <2>2. CASE todo # {}
    BY <1>4, <2>2 DEF StoreStableTags, StoreTags, Goto, memory, local, Whole
  <2> QED
    BY <2>1, <2>2
<1>5. CASE InsertStable
  <2> PICK r \in todo : Insert(r, tags, tags')
    BY <1>5 DEF InsertStable
  <2>1. Whole(stableSongs, unsaved \cup todo, tags)
    BY <1>5 DEF InsertStable
  <2>2. tags \subseteq tags' /\ unsaved \subseteq unsaved' /\ (r \in unsaved' \/ SidTag(r) \in tags')
    BY DEF Insert
  <2>3. todo' = todo \ {r} /\ pc' = "insertStable" /\ stableSongs' = stableSongs
    BY <1>5 DEF InsertStable, Insert
  <2>4. Whole(stableSongs, unsaved' \cup todo', tags')
    BY <2>1, <2>2, <2>3 DEF Whole
  <2> QED
    BY <2>3, <2>4 DEF Whole
<1>6. CASE StableStored
  BY <1>6 DEF StableStored, Goto, memory, local, Whole
<1>7. CASE NeedFlushVarTags
  BY <1>7 DEF NeedFlushVarTags, Goto, memory, local, Whole
<1>8. CASE MatchVar
  BY <1>8 DEF MatchVar, MatchSongs, local, Whole
<1>9. CASE BackupVarTags
  BY <1>9, <1>f DEF BackupVarTags, Reply, Goto, memory, Whole
<1>10. CASE CleanVarTags
  BY <1>10, <1>f DEF CleanVarTags, Reply, Goto, memory, Whole
<1>11. CASE StoreVarTags
  <2>1. CASE todo = {}
    BY <1>11, <2>1, <1>f DEF StoreVarTags, StoreTags
  <2>2. CASE todo # {}
    BY <1>11, <2>2 DEF StoreVarTags, StoreTags, Goto, memory, local, Whole
  <2> QED
    BY <2>1, <2>2
<1>12. CASE InsertVar
  <2> PICK r \in todo : Insert(r, varTags, varTags') /\ UNCHANGED tags
    BY <1>12 DEF InsertVar
  <2>1. Whole(stableSongs, unsaved, tags)
        /\ (varBy = 1 => Whole(varSongs, unsaved \cup todo, varTags))
    BY <1>12 DEF InsertVar
  <2>2. varTags \subseteq varTags' /\ unsaved \subseteq unsaved'
        /\ (r \in unsaved' \/ SidTag(r) \in varTags')
    BY DEF Insert
  <2>3. todo' = todo \ {r} /\ pc' = "insertVar" /\ UNCHANGED <<stableSongs, varSongs, varBy>>
    BY <1>12 DEF InsertVar, Insert, Empties
  <2>4. varBy = 1 => Whole(varSongs, unsaved' \cup todo', varTags')
    BY <2>1, <2>2, <2>3 DEF Whole
  <2>5. Whole(stableSongs, unsaved', tags')
    BY <2>1, <2>2 DEF Whole
  <2> QED
    BY <2>3, <2>4, <2>5 DEF Whole
<1>13. CASE VarStored
  BY <1>13 DEF VarStored, Goto, memory, Whole, Empties
<1>14. CASE CleanWebOldVarTags
  BY <1>14, <1>f DEF CleanWebOldVarTags, Reply, Goto, memory, Whole
<1>15. CASE CleanTmpTags
  BY <1>15, <1>f DEF CleanTmpTags, Reply, Goto, memory, Whole
<1>16. CASE FillTmpTags
  BY <1>16, <1>f DEF FillTmpTags, Reply, Goto, memory, Whole, Empties
<1>17. CASE RefreshPublicRadio
  BY <1>17, <1>f DEF RefreshPublicRadio
<1> QED
  BY <1>f, <1>1, <1>2, <1>3, <1>4, <1>5, <1>6, <1>7, <1>8, <1>9, <1>10, <1>11, <1>12,
     <1>13, <1>14, <1>15, <1>16, <1>17
  DEF Process

(* What an ending step of the other run is.                                *)
LEMMA OtherForgets == (Other!Fail => Other!Forget) /\ (Other!Return => Other!Forget)
BY DEF Other!Fail, Other!Return

(* The same two facts of the other run.                                    *)
LEMMA EffectOfOther ==
  ASSUME Other!Process \/ Other!Crash, Empties(2, pc2, pc2')
  PROVE  Effect(2)
<1> USE DEF Effect, Empties
<1>1. CASE Other!Crash
  BY <1>1 DEF Other!Crash, Other!local
<1>2. CASE \/ Other!StartRun \/ Other!ConnectToLib \/ Other!LoadWebSongs
           \/ Other!LoadWebVarSongs \/ Other!LoadSongs
  BY <1>2 DEF Other!StartRun, Other!ConnectToLib, Other!LoadWebSongs,
     Other!LoadWebVarSongs, Other!LoadSongs, Other!local
<1>3. CASE \/ Other!MatchStable \/ Other!MatchVar \/ Other!StoreStableTags
           \/ Other!StoreVarTags
  BY <1>3 DEF Other!MatchStable, Other!MatchVar, Other!MatchSongs,
     Other!StoreStableTags, Other!StoreVarTags, Other!StoreTags, Other!local
<1>4. CASE Other!InsertStable \/ Other!InsertVar
  BY <1>4 DEF Other!InsertStable, Other!InsertVar, Other!Insert
<1>5. CASE \/ Other!StableStored \/ Other!VarStored \/ Other!NeedFlushVarTags
           \/ Other!BackupVarTags \/ Other!CleanWebOldVarTags
  BY <1>5 DEF Other!StableStored, Other!VarStored, Other!NeedFlushVarTags,
     Other!BackupVarTags, Other!CleanWebOldVarTags, Other!local
<1>6. CASE Other!CleanVarTags
  BY <1>6, OtherForgets DEF Other!CleanVarTags, Other!Reply, Other!Goto, Other!Forget
<1>7. CASE Other!CleanTmpTags
  BY <1>7, OtherForgets DEF Other!CleanTmpTags, Other!Reply, Other!Goto, Other!Forget
<1>8. CASE Other!FillTmpTags \/ Other!RefreshPublicRadio
  BY <1>8 DEF Other!FillTmpTags, Other!RefreshPublicRadio, Other!local
<1> QED
  BY <1>1, <1>2, <1>3, <1>4, <1>5, <1>6, <1>7, <1>8 DEF Other!Process

(* The other run's own work.                                               *)
LEMMA OtherKeepsOwn ==
  ASSUME Other!Process \/ Other!Crash, Empties(2, pc2, pc2'), RunInv2, tagsTmp \subseteq tags
  PROVE  RunInv2'
<1> USE DEF RunInv2, RunInv, FlushSteps
<1>m. \A songs : Other!Matched(songs) = Matched(songs)
  BY OtherRows
<1>s. \A r : Other!SidTag(r) = SidTag(r)
  BY OtherRows
<1>f. ASSUME Other!Fail \/ Other!Return \/ Other!Crash PROVE RunInv2'
  BY <1>f DEF Other!Fail, Other!Return, Other!Crash, Other!Forget
<1>1. CASE Other!StartRun
  BY <1>1 DEF Other!StartRun
<1>2. CASE \/ Other!ConnectToLib \/ Other!LoadWebSongs \/ Other!LoadWebVarSongs
           \/ Other!LoadSongs
  BY <1>2, <1>f DEF Other!ConnectToLib, Other!LoadWebSongs, Other!LoadWebVarSongs,
     Other!LoadSongs, Other!Reply, Other!Goto
<1>3. CASE Other!MatchStable
  BY <1>3, <1>m DEF Other!MatchStable, Other!MatchSongs
<1>4. CASE Other!StoreStableTags
  <2>1. CASE todo2 = {}
    BY <1>4, <2>1, <1>f DEF Other!StoreStableTags, Other!StoreTags
  <2>2. CASE todo2 # {}
    BY <1>4, <2>2 DEF Other!StoreStableTags, Other!StoreTags, Other!Goto, Other!memory,
       Other!local, Whole
  <2> QED
    BY <2>1, <2>2
<1>5. CASE Other!InsertStable
  <2> PICK r \in todo2 : Other!Insert(r, tags, tags')
    BY <1>5 DEF Other!InsertStable
  <2>1. Whole(stableSongs2, unsaved2 \cup todo2, tags)
    BY <1>5 DEF Other!InsertStable
  <2>2. tags \subseteq tags' /\ unsaved2 \subseteq unsaved2'
        /\ (r \in unsaved2' \/ SidTag(r) \in tags')
    BY <1>s DEF Other!Insert
  <2>3. todo2' = todo2 \ {r} /\ pc2' = "insertStable" /\ stableSongs2' = stableSongs2
    BY <1>5 DEF Other!InsertStable, Other!Insert
  <2>4. Whole(stableSongs2, unsaved2' \cup todo2', tags')
    BY <2>1, <2>2, <2>3 DEF Whole
  <2> QED
    BY <2>3, <2>4 DEF Whole
<1>6. CASE Other!StableStored
  BY <1>6 DEF Other!StableStored, Other!Goto, Other!memory, Other!local, Whole
<1>7. CASE Other!NeedFlushVarTags
  BY <1>7 DEF Other!NeedFlushVarTags, Other!Goto, Other!memory, Other!local, Whole
<1>8. CASE Other!MatchVar
  BY <1>8, <1>m DEF Other!MatchVar, Other!MatchSongs, Other!local, Whole
<1>9. CASE Other!BackupVarTags
  BY <1>9, <1>f DEF Other!BackupVarTags, Other!Reply, Other!Goto, Other!memory, Whole
<1>10. CASE Other!CleanVarTags
  BY <1>10, <1>f DEF Other!CleanVarTags, Other!Reply, Other!Goto, Other!memory, Whole
<1>11. CASE Other!StoreVarTags
  <2>1. CASE todo2 = {}
    BY <1>11, <2>1, <1>f DEF Other!StoreVarTags, Other!StoreTags
  <2>2. CASE todo2 # {}
    BY <1>11, <2>2 DEF Other!StoreVarTags, Other!StoreTags, Other!Goto, Other!memory,
       Other!local, Whole
  <2> QED
    BY <2>1, <2>2
<1>12. CASE Other!InsertVar
  <2> PICK r \in todo2 : Other!Insert(r, varTags, varTags') /\ UNCHANGED tags
    BY <1>12 DEF Other!InsertVar
  <2>1. Whole(stableSongs2, unsaved2, tags)
        /\ (varBy = 2 => Whole(varSongs2, unsaved2 \cup todo2, varTags))
    BY <1>12 DEF Other!InsertVar
  <2>2. varTags \subseteq varTags' /\ unsaved2 \subseteq unsaved2'
        /\ (r \in unsaved2' \/ SidTag(r) \in varTags')
    BY <1>s DEF Other!Insert
  <2>3. todo2' = todo2 \ {r} /\ pc2' = "insertVar"
        /\ UNCHANGED <<stableSongs2, varSongs2, varBy>>
    BY <1>12 DEF Other!InsertVar, Other!Insert, Empties
  <2>4. varBy = 2 => Whole(varSongs2, unsaved2' \cup todo2', varTags')
    BY <2>1, <2>2, <2>3 DEF Whole
  <2>5. Whole(stableSongs2, unsaved2', tags')
    BY <2>1, <2>2 DEF Whole
  <2> QED
    BY <2>3, <2>4, <2>5 DEF Whole
<1>13. CASE Other!VarStored
  BY <1>13 DEF Other!VarStored, Other!Goto, Other!memory, Whole, Empties
<1>14. CASE Other!CleanWebOldVarTags
  BY <1>14, <1>f DEF Other!CleanWebOldVarTags, Other!Reply, Other!Goto, Other!memory, Whole
<1>15. CASE Other!CleanTmpTags
  BY <1>15, <1>f DEF Other!CleanTmpTags, Other!Reply, Other!Goto, Other!memory, Whole
<1>16. CASE Other!FillTmpTags
  BY <1>16, <1>f DEF Other!FillTmpTags, Other!Reply, Other!Goto, Other!memory, Whole,
     Empties
<1>17. CASE Other!RefreshPublicRadio
  BY <1>17, <1>f DEF Other!RefreshPublicRadio
<1> QED
  BY <1>f, <1>1, <1>2, <1>3, <1>4, <1>5, <1>6, <1>7, <1>8, <1>9, <1>10, <1>11, <1>12,
     <1>13, <1>14, <1>15, <1>16, <1>17
  DEF Other!Process

(* The world does not touch the relations.                                 *)
LEMMA WorldKeepsRelations ==
  ASSUME Crawl \/ SettleBoth \/ UNCHANGED allVars
  PROVE  UNCHANGED <<tags, tagsTmp, varTags, emptied, firstRun, otherRun>>
BY DEF Crawl, SettleBoth, CollectStable, CollectVar, Settle, local, allVars, vars, firstRun

THEOREM OverlapInvariant == OverlapSpec => []OverlapInv
<1>1. OverlapInit => OverlapInv
  BY DEF OverlapInit, Init, Other!Init, OverlapInv, RunInv1, RunInv2, RunInv, FlushSteps
<1>2. OverlapInv /\ [OverlapNext]_allVars => OverlapInv'
  <2> SUFFICES ASSUME OverlapInv, [OverlapNext]_allVars PROVE OverlapInv'
    OBVIOUS
  <2>1. CASE Run1
    <3>1. Process \/ Crash
      BY <2>1 DEF Run1
    <3>2. Empties(1, pc, pc')
      BY <2>1 DEF Run1
    <3>3. RunInv1'
      BY <3>1, <3>2, FirstKeepsOwn DEF OverlapInv
    <3>4. Effect(1)
      BY <3>1, <3>2, EffectOfFirst
    <3>5. RunInv2'
      <4>1. RunInv(2, pc2, stableSongs2, varSongs2, todo2, unsaved2)
        BY DEF OverlapInv, RunInv2
      <4>2. UNCHANGED otherRun
        BY <2>1 DEF Run1
      <4> QED
        BY <3>4, <4>1, <4>2 DEF Effect, RunInv2, RunInv, otherRun, Whole
    <3> QED
      BY <3>3, <3>4, <3>5 DEF OverlapInv, Effect
  <2>2. CASE Run2
    <3>1. Other!Process \/ Other!Crash
      BY <2>2 DEF Run2
    <3>2. Empties(2, pc2, pc2')
      BY <2>2 DEF Run2
    <3>3. RunInv2'
      BY <3>1, <3>2, OtherKeepsOwn DEF OverlapInv
    <3>4. Effect(2)
      BY <3>1, <3>2, EffectOfOther
    <3>5. RunInv1'
      <4>1. RunInv(1, pc, stableSongs, varSongs, todo, unsaved)
        BY DEF OverlapInv, RunInv1
      <4>2. UNCHANGED firstRun
        BY <2>2 DEF Run2
      <4> QED
        BY <3>4, <4>1, <4>2 DEF Effect, RunInv1, RunInv, firstRun, memory, Whole
    <3> QED
      BY <3>3, <3>4, <3>5 DEF OverlapInv, Effect
  <2>3. CASE Crawl \/ SettleBoth \/ UNCHANGED allVars
    <3>1. UNCHANGED <<tags, tagsTmp, varTags, emptied, firstRun, otherRun>>
      BY <2>3, WorldKeepsRelations
    <3> QED
      BY <3>1 DEF OverlapInv, RunInv1, RunInv2, RunInv, Whole, emptied, firstRun, otherRun,
         memory
  <2> QED
    BY <2>1, <2>2, <2>3 DEF OverlapNext
<1> QED
  BY <1>1, <1>2, PTL DEF OverlapSpec

(* However two runs interleave, fail and die, the radio is never refreshed *)
(* over a part of a run's own pairs that the run itself put there last.    *)
THEOREM OverlappedRefresh == OverlapSpec => []RefreshWholeUnlessEmptied
<1>1. OverlapInv => RefreshWholeUnlessEmptied
  BY DEF OverlapInv, RunInv1, RunInv2, RunInv, RefreshWholeUnlessEmptied
<1> QED
  BY <1>1, OverlapInvariant, PTL

(* Of two flushes the one that emptied the variable relation last deletes  *)
(* the web rows over all its pairs.                                        *)
THEOREM OverlappedFlush == OverlapSpec => []FlushWholeUnlessEmptied
<1>1. OverlapInv => FlushWholeUnlessEmptied
  BY DEF OverlapInv, RunInv1, RunInv2, RunInv, FlushWholeUnlessEmptied
<1> QED
  BY <1>1, OverlapInvariant, PTL

-----------------------------------------------------------------------------
(* Runs that take turns are one TagEtl.                                    *)

(* The run that is under way; both are alike while neither is.             *)
Overlapped == pc # "idle" /\ pc2 # "idle"

onePc      == IF pc = "idle" THEN pc2 ELSE pc
oneStable  == IF pc = "idle" THEN stableSongs2 ELSE stableSongs
oneVar     == IF pc = "idle" THEN varSongs2 ELSE varSongs
oneTodo    == IF pc = "idle" THEN todo2 ELSE todo
oneGood    == IF pc = "idle" THEN searchGood2 ELSE searchGood
oneBuf     == IF pc = "idle" THEN searchBuf2 ELSE searchBuf
oneDropped == IF pc = "idle" THEN dropped2 ELSE dropped
oneUnsaved == IF pc = "idle" THEN unsaved2 ELSE unsaved

One == INSTANCE TagEtl WITH
  pc <- onePc, stableSongs <- oneStable, varSongs <- oneVar, todo <- oneTodo,
  searchGood <- oneGood, searchBuf <- oneBuf, dropped <- oneDropped, unsaved <- oneUnsaved

(* A run that is not under way remembers nothing.                          *)
IdleEmpty ==
  /\ pc = "idle" => /\ stableSongs = {} /\ varSongs = {} /\ todo = {}
                    /\ searchGood = FALSE /\ searchBuf = {} /\ dropped = {} /\ unsaved = {}
  /\ pc2 = "idle" => /\ stableSongs2 = {} /\ varSongs2 = {} /\ todo2 = {}
                     /\ searchGood2 = FALSE /\ searchBuf2 = {} /\ dropped2 = {} /\ unsaved2 = {}

IsFirst ==
  /\ onePc = pc /\ oneStable = stableSongs /\ oneVar = varSongs /\ oneTodo = todo
  /\ oneGood = searchGood /\ oneBuf = searchBuf /\ oneDropped = dropped
  /\ oneUnsaved = unsaved

IsOther ==
  /\ onePc = pc2 /\ oneStable = stableSongs2 /\ oneVar = varSongs2 /\ oneTodo = todo2
  /\ oneGood = searchGood2 /\ oneBuf = searchBuf2 /\ oneDropped = dropped2
  /\ oneUnsaved = unsaved2

(* A run becomes idle by ending, and starts by connecting.                 *)
LEMMA FirstEnds ==
  ASSUME Process \/ Crash
  PROVE  /\ pc' = "idle" => Forget /\ pc # "idle"
         /\ pc = "idle" => pc' = "connect"
<1> USE FailForgets
<1>1. CASE StartRun \/ Crash
  BY <1>1 DEF StartRun, Crash, Forget
<1>2. CASE ConnectToLib \/ LoadWebSongs \/ LoadWebVarSongs \/ LoadSongs
  BY <1>2 DEF ConnectToLib, LoadWebSongs, LoadWebVarSongs, LoadSongs, Reply, Goto
<1>3. CASE MatchStable \/ MatchVar \/ StoreStableTags \/ StoreVarTags
  BY <1>3 DEF MatchStable, MatchVar, MatchSongs, StoreStableTags, StoreVarTags, StoreTags, Goto
<1>4. CASE InsertStable \/ InsertVar \/ StableStored \/ VarStored
  BY <1>4 DEF InsertStable, InsertVar, Insert, StableStored, VarStored, Goto
<1>5. CASE NeedFlushVarTags \/ BackupVarTags \/ CleanVarTags \/ CleanWebOldVarTags
  BY <1>5 DEF NeedFlushVarTags, BackupVarTags, CleanVarTags, CleanWebOldVarTags, Reply, Goto
<1>6. CASE CleanTmpTags \/ FillTmpTags \/ RefreshPublicRadio
  BY <1>6 DEF CleanTmpTags, FillTmpTags, RefreshPublicRadio, Reply, Goto
<1> QED
  BY <1>1, <1>2, <1>3, <1>4, <1>5, <1>6 DEF Process

(* The same of the other run.                                              *)
LEMMA OtherEnds ==
  ASSUME Other!Process \/ Other!Crash
  PROVE  /\ pc2' = "idle" => Other!Forget /\ pc2 # "idle"
         /\ pc2 = "idle" => pc2' = "connect"
<1> USE OtherForgets
<1>1. CASE Other!StartRun \/ Other!Crash
  BY <1>1 DEF Other!StartRun, Other!Crash, Other!Forget
<1>2. CASE Other!ConnectToLib \/ Other!LoadWebSongs \/ Other!LoadWebVarSongs \/ Other!LoadSongs
  BY <1>2 DEF Other!ConnectToLib, Other!LoadWebSongs, Other!LoadWebVarSongs,
     Other!LoadSongs, Other!Reply, Other!Goto
<1>3. CASE \/ Other!MatchStable \/ Other!MatchVar
           \/ Other!StoreStableTags \/ Other!StoreVarTags
  BY <1>3 DEF Other!MatchStable, Other!MatchVar, Other!MatchSongs,
     Other!StoreStableTags, Other!StoreVarTags, Other!StoreTags, Other!Goto
<1>4. CASE Other!InsertStable \/ Other!InsertVar \/ Other!StableStored \/ Other!VarStored
  BY <1>4 DEF Other!InsertStable, Other!InsertVar, Other!Insert, Other!StableStored,
     Other!VarStored, Other!Goto
<1>5. CASE \/ Other!NeedFlushVarTags \/ Other!BackupVarTags
           \/ Other!CleanVarTags \/ Other!CleanWebOldVarTags
  BY <1>5 DEF Other!NeedFlushVarTags, Other!BackupVarTags, Other!CleanVarTags,
     Other!CleanWebOldVarTags, Other!Reply, Other!Goto
<1>6. CASE Other!CleanTmpTags \/ Other!FillTmpTags \/ Other!RefreshPublicRadio
  BY <1>6 DEF Other!CleanTmpTags, Other!FillTmpTags, Other!RefreshPublicRadio,
     Other!Reply, Other!Goto
<1> QED
  BY <1>1, <1>2, <1>3, <1>4, <1>5, <1>6 DEF Other!Process

(* A step of the first run is the same step of the run under way.          *)
LEMMA FirstActsAsOne ==
  ASSUME IsFirst, IsFirst', Process \/ Crash
  PROVE  One!Process \/ One!Crash
<1> USE DEF IsFirst, web, One!web, local, One!local, flush, One!flush, memory,
           One!memory, Forget, One!Forget, Return, One!Return, Fail, One!Fail, Goto,
           One!Goto, Reply, One!Reply
<1>r. \A rows : /\ Matched(rows) = One!Matched(rows)
                 /\ Missed(rows) = One!Missed(rows)
  BY DEF Matched, One!Matched, Missed, One!Missed, HasSinger, One!HasSinger
<1>s. \A r : SidTag(r) = One!SidTag(r)
  BY DEF SidTag, One!SidTag
<1>d. FlushDue(webVar) <=> One!FlushDue(webVar)
  BY DEF FlushDue, One!FlushDue, RowsOf, One!RowsOf, Cardinality, One!Cardinality
<1>1. CASE Crash
  BY <1>1 DEF Crash, One!Crash
<1>2. CASE StartRun
  BY <1>2 DEF StartRun, One!StartRun, One!Process
<1>3. CASE ConnectToLib
  BY <1>3 DEF ConnectToLib, One!ConnectToLib, One!Process
<1>4. CASE LoadWebSongs
  BY <1>4 DEF LoadWebSongs, One!LoadWebSongs, One!Process
<1>5. CASE LoadWebVarSongs
  BY <1>5 DEF LoadWebVarSongs, One!LoadWebVarSongs, One!Process
<1>6. CASE LoadSongs
  BY <1>6 DEF LoadSongs, One!LoadSongs, One!Process
<1>7. CASE MatchStable
  BY <1>7, <1>r, <1>s DEF MatchStable, One!MatchStable, MatchSongs, One!MatchSongs,
     WriteSearchSongs, One!WriteSearchSongs, One!Process
<1>8. CASE MatchVar
  BY <1>8, <1>r, <1>s DEF MatchVar, One!MatchVar, MatchSongs, One!MatchSongs,
     WriteSearchSongs, One!WriteSearchSongs, One!Process
<1>9. CASE StoreStableTags
  BY <1>9 DEF StoreStableTags, One!StoreStableTags, StoreTags, One!StoreTags,
     One!Process
<1>10. CASE StoreVarTags
  BY <1>10 DEF StoreVarTags, One!StoreVarTags, StoreTags, One!StoreTags, One!Process
<1>11. CASE InsertStable
  BY <1>11, <1>r, <1>s DEF InsertStable, One!InsertStable, Insert, One!Insert,
     One!Process
<1>12. CASE InsertVar
  BY <1>12, <1>r, <1>s DEF InsertVar, One!InsertVar, Insert, One!Insert, One!Process
<1>13. CASE StableStored
  BY <1>13 DEF StableStored, One!StableStored, One!Process
<1>14. CASE VarStored
  BY <1>14 DEF VarStored, One!VarStored, One!Process
<1>15. CASE NeedFlushVarTags
  BY <1>15, <1>d DEF NeedFlushVarTags, One!NeedFlushVarTags, One!Process
<1>16. CASE BackupVarTags
  BY <1>16 DEF BackupVarTags, One!BackupVarTags, One!Process
<1>17. CASE CleanVarTags
  BY <1>17 DEF CleanVarTags, One!CleanVarTags, One!Process
<1>18. CASE CleanWebOldVarTags
  BY <1>18 DEF CleanWebOldVarTags, One!CleanWebOldVarTags, One!Process
<1>19. CASE CleanTmpTags
  BY <1>19 DEF CleanTmpTags, One!CleanTmpTags, One!Process
<1>20. CASE FillTmpTags
  BY <1>20 DEF FillTmpTags, One!FillTmpTags, One!Process
<1>21. CASE RefreshPublicRadio
  BY <1>21 DEF RefreshPublicRadio, One!RefreshPublicRadio, One!Process
<1> QED
  BY <1>1, <1>2, <1>3, <1>4, <1>5, <1>6, <1>7, <1>8, <1>9, <1>10, <1>11, <1>12, <1>13,
     <1>14, <1>15, <1>16, <1>17, <1>18, <1>19, <1>20, <1>21 DEF Process

(* And so is a step of the other run.                                      *)
LEMMA OtherActsAsOne ==
  ASSUME IsOther, IsOther', Other!Process \/ Other!Crash
  PROVE  One!Process \/ One!Crash
<1> USE DEF IsOther, Other!web, One!web, Other!local, One!local, Other!flush, One!flush,
           Other!memory, One!memory, Other!Forget, One!Forget, Other!Return, One!Return,
           Other!Fail, One!Fail, Other!Goto, One!Goto, Other!Reply, One!Reply
<1>r. \A rows : /\ Other!Matched(rows) = One!Matched(rows)
                 /\ Other!Missed(rows) = One!Missed(rows)
  BY DEF Other!Matched, One!Matched, Other!Missed, One!Missed, Other!HasSinger,
     One!HasSinger
<1>s. \A r : Other!SidTag(r) = One!SidTag(r)
  BY DEF Other!SidTag, One!SidTag
<1>d. Other!FlushDue(webVar) <=> One!FlushDue(webVar)
  BY DEF Other!FlushDue, One!FlushDue, Other!RowsOf, One!RowsOf, Other!Cardinality,
     One!Cardinality
<1>1. CASE Other!Crash
  BY <1>1 DEF Other!Crash, One!Crash
<1>2. CASE Other!StartRun
  BY <1>2 DEF Other!StartRun, One!StartRun, One!Process
<1>3. CASE Other!ConnectToLib
  BY <1>3 DEF Other!ConnectToLib, One!ConnectToLib, One!Process
<1>4. CASE Other!LoadWebSongs
  BY <1>4 DEF Other!LoadWebSongs, One!LoadWebSongs, One!Process
<1>5. CASE Other!LoadWebVarSongs
  BY <1>5 DEF Other!LoadWebVarSongs, One!LoadWebVarSongs, One!Process
<1>6. CASE Other!LoadSongs
  BY <1>6 DEF Other!LoadSongs, One!LoadSongs, One!Process
<1>7. CASE Other!MatchStable
  BY <1>7, <1>r, <1>s DEF Other!MatchStable, One!MatchStable, Other!MatchSongs,
     One!MatchSongs, Other!WriteSearchSongs, One!WriteSearchSongs, One!Process
<1>8. CASE Other!MatchVar
  BY <1>8, <1>r, <1>s DEF Other!MatchVar, One!MatchVar, Other!MatchSongs,
     One!MatchSongs, Other!WriteSearchSongs, One!WriteSearchSongs, One!Process
<1>9. CASE Other!StoreStableTags
  BY <1>9 DEF Other!StoreStableTags, One!StoreStableTags, Other!StoreTags,
     One!StoreTags, One!Process
<1>10. CASE Other!StoreVarTags
  BY <1>10 DEF Other!StoreVarTags, One!StoreVarTags, Other!StoreTags, One!StoreTags,
     One!Process
<1>11. CASE Other!InsertStable
  BY <1>11, <1>r, <1>s DEF Other!InsertStable, One!InsertStable, Other!Insert,
     One!Insert, One!Process
<1>12. CASE Other!InsertVar
  BY <1>12, <1>r, <1>s DEF Other!InsertVar, One!InsertVar, Other!Insert, One!Insert,
     One!Process
<1>13. CASE Other!StableStored
  BY <1>13 DEF Other!StableStored, One!StableStored, One!Process
<1>14. CASE Other!VarStored
  BY <1>14 DEF Other!VarStored, One!VarStored, One!Process
<1>15. CASE Other!NeedFlushVarTags
  BY <1>15, <1>d DEF Other!NeedFlushVarTags, One!NeedFlushVarTags, One!Process
<1>16. CASE Other!BackupVarTags
  BY <1>16 DEF Other!BackupVarTags, One!BackupVarTags, One!Process
<1>17. CASE Other!CleanVarTags
  BY <1>17 DEF Other!CleanVarTags, One!CleanVarTags, One!Process
<1>18. CASE Other!CleanWebOldVarTags
  BY <1>18 DEF Other!CleanWebOldVarTags, One!CleanWebOldVarTags, One!Process
<1>19. CASE Other!CleanTmpTags
  BY <1>19 DEF Other!CleanTmpTags, One!CleanTmpTags, One!Process
<1>20. CASE Other!FillTmpTags
  BY <1>20 DEF Other!FillTmpTags, One!FillTmpTags, One!Process
<1>21. CASE Other!RefreshPublicRadio
  BY <1>21 DEF Other!RefreshPublicRadio, One!RefreshPublicRadio, One!Process
<1> QED
  BY <1>1, <1>2, <1>3, <1>4, <1>5, <1>6, <1>7, <1>8, <1>9, <1>10, <1>11, <1>12, <1>13,
     <1>14, <1>15, <1>16, <1>17, <1>18, <1>19, <1>20, <1>21 DEF Other!Process

(* What the world does it does to any run.                                 *)
LEMMA WorldActsAsOne ==
  /\ Crawl => One!CollectStable \/ One!CollectVar
  /\ SettleBoth => One!Settle
<1>1. ASSUME UNCHANGED <<firstRun, otherRun>>
      PROVE  UNCHANGED <<onePc, One!memory>>
  BY <1>1 DEF firstRun, otherRun, memory, One!memory, onePc, oneStable, oneVar, oneTodo,
     oneGood, oneBuf, oneDropped, oneUnsaved
<1>2. Crawl => UNCHANGED <<firstRun, otherRun>>
  BY DEF Crawl, CollectStable, CollectVar, firstRun
<1>3. Crawl => One!CollectStable \/ One!CollectVar
  BY <1>1, <1>2 DEF Crawl, CollectStable, CollectVar, One!CollectStable, One!CollectVar,
     local, flush, One!local, One!flush
<1>4. SettleBoth => UNCHANGED <<firstRun, otherRun>>
  BY DEF SettleBoth, Settle, firstRun
<1>5. SettleBoth => One!Settle
  BY <1>1, <1>4 DEF SettleBoth, Settle, One!Settle, web, One!web, local, flush,
     One!local, One!flush
<1> QED
  BY <1>3, <1>5

THEOREM IdleRunsEmpty == OverlapSpec => []IdleEmpty
<1>1. OverlapInit => IdleEmpty
  BY DEF OverlapInit, Init, Other!Init, IdleEmpty
<1>2. IdleEmpty /\ [OverlapNext]_allVars => IdleEmpty'
  <2> SUFFICES ASSUME IdleEmpty, [OverlapNext]_allVars PROVE IdleEmpty'
    OBVIOUS
  <2>1. CASE Run1
    <3>1. (pc' = "idle" => Forget) /\ UNCHANGED otherRun
      BY <2>1, FirstEnds DEF Run1
    <3> QED
      BY <3>1 DEF IdleEmpty, Forget, otherRun
  <2>2. CASE Run2
    <3>1. (pc2' = "idle" => Other!Forget) /\ UNCHANGED firstRun
      BY <2>2, OtherEnds DEF Run2
    <3> QED
      BY <3>1 DEF IdleEmpty, Other!Forget, firstRun, memory
  <2>3. CASE Crawl \/ SettleBoth \/ UNCHANGED allVars
    <3>1. UNCHANGED <<firstRun, otherRun>>
      BY <2>3, WorldKeepsRelations
    <3> QED
      BY <3>1 DEF IdleEmpty, firstRun, otherRun, memory
  <2> QED
    BY <2>1, <2>2, <2>3 DEF OverlapNext
<1> QED
  BY <1>1, <1>2, PTL DEF OverlapSpec

(* Two runs that take turns do what one TagEtl does: whatever is proved of *)
(* TagEtl goes wrong only while two runs are under way (tagEtl.cpp:216).   *)
THEOREM TurnsAreOneBatch == OverlapSpec /\ []~Overlapped => One!Spec
<1> USE DEF Overlapped
<1>1. OverlapInit => One!Init
  BY DEF OverlapInit, Init, Other!Init, One!Init, onePc, oneStable, oneVar, oneTodo, oneGood,
     oneBuf, oneDropped, oneUnsaved
<1>2. IdleEmpty /\ IdleEmpty' /\ ~Overlapped /\ ~Overlapped' /\ [OverlapNext]_allVars
        => [One!Next]_(One!vars)
  <2> SUFFICES ASSUME IdleEmpty, IdleEmpty', ~Overlapped, ~Overlapped', [OverlapNext]_allVars
               PROVE  One!Next \/ UNCHANGED One!vars
    OBVIOUS
  <2>f. pc2 = "idle" => IsFirst
    BY DEF IdleEmpty, IsFirst, onePc, oneStable, oneVar, oneTodo, oneGood, oneBuf,
       oneDropped, oneUnsaved
  <2>g. pc2' = "idle" => IsFirst'
    BY DEF IdleEmpty, IsFirst, onePc, oneStable, oneVar, oneTodo, oneGood, oneBuf,
       oneDropped, oneUnsaved
  <2>h. pc = "idle" => IsOther
    BY DEF IsOther, onePc, oneStable, oneVar, oneTodo, oneGood, oneBuf,
       oneDropped, oneUnsaved
  <2>i. pc' = "idle" => IsOther'
    BY DEF IsOther, onePc, oneStable, oneVar, oneTodo, oneGood, oneBuf,
       oneDropped, oneUnsaved
  <2>1. CASE Run1
    <3>1. Process \/ Crash
      BY <2>1 DEF Run1
    <3>2. pc2 = "idle" /\ pc2' = "idle"
      BY <2>1, <3>1, FirstEnds DEF Run1, otherRun
    <3>3. One!Process \/ One!Crash
      BY <2>f, <2>g, <3>1, <3>2, FirstActsAsOne
    <3> QED
      BY <3>3 DEF One!Next, One!World
  <2>2. CASE Run2
    <3>1. Other!Process \/ Other!Crash
      BY <2>2 DEF Run2
    <3>2. pc = "idle" /\ pc' = "idle"
      BY <2>2, <3>1, OtherEnds DEF Run2, firstRun
    <3>3. One!Process \/ One!Crash
      BY <2>h, <2>i, <3>1, <3>2, OtherActsAsOne
    <3> QED
      BY <3>3 DEF One!Next, One!World
  <2>3. CASE Crawl \/ SettleBoth
    BY <2>3, WorldActsAsOne DEF One!Next, One!World
  <2>4. CASE UNCHANGED allVars
    BY <2>4 DEF allVars, vars, web, local, flush, memory, otherRun, One!vars, One!web, One!local,
       One!flush, One!memory, onePc, oneStable, oneVar, oneTodo, oneGood, oneBuf,
       oneDropped, oneUnsaved
  <2> QED
    BY <2>1, <2>2, <2>3, <2>4 DEF OverlapNext
<1> QED
  BY <1>1, <1>2, IdleRunsEmpty, PTL DEF OverlapSpec, One!Spec
=============================================================================
