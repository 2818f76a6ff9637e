------------------------------- MODULE TagEtl -------------------------------
(***************************************************************************)
(* One batch of the tag ETL (CWebTagEtl::EtlDoWork) against the databases  *)
(* it shares with the crawler that fills the web library.                  *)
(*                                                                         *)
(* The web library holds two tables of crawled rows, re_songs_tags         *)
(* (webStable) and re_songs_vartags (webVar); the local library holds the  *)
(* relations song id - tag id made from them: re_songs_music_tags (tags),  *)
(* its copy re_songs_music_tags_tmp (tagsTmp), re_songs_music_vartags      *)
(* (varTags) and re_songs_music_vartags_backup (varBackup).  A step of the *)
(* process is one SQL statement or the work between two of them.  The      *)
(* process may die between any two steps, a statement may be refused, and  *)
(* its reply may be lost after it took effect.                             *)
(***************************************************************************)
EXTENDS Naturals, FiniteSets

CONSTANTS StableRows,  \* rows the crawler may put into re_songs_tags
          VarRows,     \* rows the crawler may put into re_songs_vartags
          Keys,        \* the texts title_artist that name a song
          NoSinger,    \* the key of a row whose artist is empty
          Tags, Sids,  \* tag ids and local song ids
          Key,         \* the song key of a row
          Tag,         \* the tag id of a row
          Catalogue,   \* v_songsinfo: the song id of a key, where it has one
          Threshold    \* varTagsFlushThreshold

Rows == StableRows \cup VarRows

ASSUME RowsAssumption ==
  /\ IsFiniteSet(VarRows)
  /\ StableRows \cap VarRows = {}
  /\ NoSinger \notin Keys
  /\ Key \in [Rows -> Keys \cup {NoSinger}]
  /\ Tag \in [Rows -> Tags]
  /\ DOMAIN Catalogue \subseteq Keys
  /\ Catalogue \in [DOMAIN Catalogue -> Sids]
  /\ Threshold \in Nat

VARIABLES webStable, webVar,      \* the web library
          tags, tagsTmp,          \* the local library
          varTags, varBackup,
          searchFile,             \* keys in data/search.txt
          pc,                     \* the step EtlDoWork takes next
          stableSongs, varSongs,  \* vecpWebSongs, vecpVarSongs
          todo,                   \* matched rows StoreTags has not inserted yet
          searchGood, searchBuf,  \* the ofstream: usable, not yet written out
          dropped,                \* history: keys the stream has not taken
          unsaved,                \* history: rows whose insert was refused
          batch, left, partial,   \* history: the rows of the last flush, until they
                                  \* are stored and deleted, those not tried yet,
                                  \* and whether it has not stored them all
          settled                 \* no fault, no crash and no new row from now on

web     == <<webStable, webVar>>
flush   == <<batch, left, partial>>
local   == <<tags, tagsTmp, varTags, varBackup, flush>>
memory  == <<stableSongs, varSongs, todo, searchGood, searchBuf, dropped, unsaved>>
vars    == <<web, local, searchFile, pc, memory, settled>>

Steps == {"idle", "connect", "loadStable", "loadVar", "loadLocal", "matchStable",
          "storeStable", "insertStable", "needFlush", "matchVar", "backupVar",
          "cleanVar", "storeVar", "insertVar", "cleanWeb", "cleanTmp", "fillTmp",
          "refresh"}

-----------------------------------------------------------------------------
(* What the code computes from rows.                                       *)

HasSinger(r) == Key[r] # NoSinger
Matched(rows) == {r \in rows : HasSinger(r) /\ Key[r] \in DOMAIN Catalogue}
Missed(rows)  == {Key[r] : r \in {q \in rows : HasSinger(q)}} \ DOMAIN Catalogue
SidTag(r)     == <<Catalogue[Key[r]], Tag[r]>>
Relation(rows) == {SidTag(r) : r \in Matched(rows)}

(* Faulty variants, written before the definition they stand for, show     *)
(* which mistake each property excludes: here one small tag no longer      *)
(* stops the flush.                                                        *)
FlushDueAnyRows(rows) == rows # {}

(* NeedFlushVarTags: there are rows, and no tag has fewer than Threshold.  *)
RowsOf(t, rows) == {r \in rows : Tag[r] = t}
FlushDue(rows) ==
  /\ rows # {}
  /\ \A r \in rows : Cardinality(RowsOf(Tag[r], rows)) >= Threshold

-----------------------------------------------------------------------------
(* How a run goes on, and how it ends.                                     *)

Goto(step) == pc' = step /\ UNCHANGED <<searchFile, memory>>

Forget ==
  /\ pc' = "idle"
  /\ stableSongs' = {} /\ varSongs' = {} /\ todo' = {}
  /\ searchGood' = FALSE /\ searchBuf' = {} /\ dropped' = {} /\ unsaved' = {}

(* Return runs the destructors: the stream is flushed (a failing flush is  *)
(* noticed by nobody), both connections are closed.                        *)
Return ==
  /\ Forget
  /\ \/ searchFile' = searchFile \cup searchBuf
     \/ ~settled /\ UNCHANGED searchFile

Fail == ~settled /\ Return

(* The reply to a statement that took effect: success, or an error because *)
(* the connection was lost meanwhile; any error ends the run.              *)
Reply(next) == Goto(next) \/ Fail

Init ==
  /\ webStable = {} /\ webVar = {}
  /\ tags = {} /\ tagsTmp = {} /\ varTags = {} /\ varBackup = {}
  /\ searchFile = {}
  /\ pc = "idle"
  /\ stableSongs = {} /\ varSongs = {} /\ todo = {}
  /\ searchGood = FALSE /\ searchBuf = {} /\ dropped = {} /\ unsaved = {}
  /\ batch = {} /\ left = {} /\ partial = FALSE
  /\ settled = FALSE

-----------------------------------------------------------------------------
(* Opening and loading.                                                    *)

(* SearchFileInit does not look whether the file could be opened.          *)
StartRun ==
  /\ pc = "idle"
  /\ pc' = "connect"
  /\ searchGood' \in IF settled THEN {TRUE} ELSE BOOLEAN
  /\ UNCHANGED <<web, local, searchFile, stableSongs, varSongs, todo,
                 searchBuf, dropped, unsaved, settled>>

ConnectToLib ==
  /\ pc = "connect"
  /\ Reply("loadStable")
  /\ UNCHANGED <<web, local, settled>>

LoadWebSongs ==
  /\ pc = "loadStable"
  /\ \/ /\ pc' = "loadVar"
        /\ stableSongs' = webStable
        /\ UNCHANGED <<searchFile, varSongs, todo, searchGood, searchBuf, dropped,
                       unsaved>>
     \/ Fail
  /\ UNCHANGED <<web, local, settled>>

(* Faulty: the volatile flag is dropped and the stable table is read.      *)
LoadWebVarSongsFromStable ==
  /\ pc = "loadVar"
  /\ pc' = "loadLocal" /\ varSongs' = webStable
  /\ UNCHANGED <<web, local, searchFile, stableSongs, todo, searchGood, searchBuf,
                 dropped, unsaved, settled>>

LoadWebVarSongs ==
  /\ pc = "loadVar"
  /\ \/ /\ pc' = "loadLocal"
        /\ varSongs' = webVar
        /\ UNCHANGED <<searchFile, stableSongs, todo, searchGood, searchBuf, dropped,
                       unsaved>>
     \/ Fail
  /\ UNCHANGED <<web, local, settled>>

LoadSongs ==
  /\ pc = "loadLocal"
  /\ Reply("matchStable")
  /\ UNCHANGED <<web, local, settled>>

-----------------------------------------------------------------------------
(* Faulty: a key that is not found is pushed as if it were.                *)
MatchSongsAll(rows, next) ==
  /\ pc' = next
  /\ todo' = {r \in rows : HasSinger(r)}
  /\ UNCHANGED <<web, local, searchFile, stableSongs, varSongs, searchGood,
                 searchBuf, dropped, unsaved, settled>>

(* WriteSearchSongs for each of some keys.  A good stream takes the keys    *)
(* into its buffer and writes some of it out when it fills up.  When that  *)
(* fails it turns bad; what it has taken stays in the buffer until it is   *)
(* closed.  A stream that is bad, or was never opened, takes nothing.  No  *)
(* exception is thrown, so nobody notices any of this.                     *)
WriteSearchSongs(keys) ==
  \/ /\ searchGood
     /\ \E taken \in SUBSET keys : \E out \in SUBSET (searchBuf \cup taken) :
          /\ taken = keys \/ ~settled
          /\ searchGood' = (taken = keys)
          /\ searchFile' = searchFile \cup out
          /\ searchBuf' = (searchBuf \cup taken) \ out
          /\ dropped' = dropped \cup (keys \ taken)
  \/ /\ ~searchGood
     /\ dropped' = dropped \cup keys
     /\ UNCHANGED <<searchFile, searchGood, searchBuf>>

(* MatchSongsAndWriteMissedToFile: matched rows are to be inserted, missed *)
(* keys go to the stream.                                                  *)
MatchSongs(rows, next) ==
  /\ pc' = next
  /\ todo' = Matched(rows)
  /\ WriteSearchSongs(Missed(rows))
  /\ UNCHANGED <<web, local, stableSongs, varSongs, unsaved, settled>>

MatchStable == pc = "matchStable" /\ MatchSongs(stableSongs, "storeStable")
MatchVar    == pc = "matchVar" /\ MatchSongs(varSongs, "backupVar")

(* Faulty: an empty vector is stored as any other.                         *)
StoreTagsAny(loop) ==
  /\ Goto(loop)
  /\ UNCHANGED <<web, local, settled>>

(* StoreTags refuses an empty vector; the error ends the run.              *)
StoreTags(loop) ==
  /\ IF todo = {} THEN Return ELSE Goto(loop)
  /\ UNCHANGED <<web, local, settled>>

StoreStableTags == pc = "storeStable" /\ StoreTags("insertStable")
StoreVarTags    == pc = "storeVar" /\ StoreTags("insertVar")

(* Faulty: a refused insert ends the loop.                                 *)
InsertOrBreak(r, relation, relationNew) ==
  /\ \/ relationNew = relation \cup {SidTag(r)} /\ todo' = todo \ {r} /\ UNCHANGED unsaved
     \/ relationNew = relation /\ todo' = {} /\ unsaved' = unsaved \cup {r}
  /\ UNCHANGED <<web, tagsTmp, varBackup, searchFile, pc, stableSongs, varSongs,
                 searchGood, searchBuf, dropped, settled>>

(* One insert of its loop.  Whatever the server answers is passed over.    *)
Insert(r, relation, relationNew) ==
  /\ todo' = todo \ {r}
  /\ \/ relationNew = relation \cup {SidTag(r)}
     \/ ~settled /\ relationNew = relation
  /\ unsaved' = IF SidTag(r) \in relationNew THEN unsaved ELSE unsaved \cup {r}
  /\ UNCHANGED <<web, tagsTmp, varBackup, searchFile, pc, stableSongs, varSongs,
                 searchGood, searchBuf, dropped, settled>>

InsertStable == 
  /\ pc = "insertStable"
  /\ \E r \in todo : Insert(r, tags, tags')
  /\ UNCHANGED <<varTags, flush>>

InsertVar ==
  /\ pc = "insertVar"
  /\ \E r \in todo : Insert(r, varTags, varTags') /\ left' = left \ {r}
  /\ UNCHANGED <<tags, batch, partial>>

StableStored ==
  /\ pc = "insertStable" /\ todo = {}
  /\ Goto("needFlush")
  /\ UNCHANGED <<web, local, settled>>

(* Faulty: the last row is left out.                                       *)
VarStoredButOne ==
  /\ pc = "insertVar" /\ todo \in {{r} : r \in Matched(Rows)}
  /\ Goto("cleanWeb")
  /\ partial' = (left # {})
  /\ UNCHANGED <<web, tags, tagsTmp, varTags, varBackup, batch, left, settled>>

VarStored ==
  /\ pc = "insertVar" /\ todo = {}
  /\ Goto("cleanWeb")
  /\ partial' = (left # {})
  /\ UNCHANGED <<web, tags, tagsTmp, varTags, varBackup, batch, left, settled>>

-----------------------------------------------------------------------------
(* The flush of the variable tags.                                         *)

(* Faulty: without a flush the run ends here.                              *)
NeedFlushVarTagsOrReturn ==
  /\ pc = "needFlush"
  /\ IF FlushDue(webVar) THEN Goto("matchVar") ELSE Return
  /\ UNCHANGED <<web, local, settled>>

(* A query that fails counts as "not due": the run goes on without it.     *)
NeedFlushVarTags ==
  /\ pc = "needFlush"
  /\ \/ FlushDue(webVar) /\ Goto("matchVar")
     \/ (~FlushDue(webVar) \/ ~settled) /\ Goto("cleanTmp")
  /\ UNCHANGED <<web, local, settled>>

(* Faulty: a failed backup does not stop the cleaning.                     *)
BackupVarTagsUnchecked ==
  /\ pc = "backupVar"
  /\ varBackup' \in {varBackup, varBackup \cup varTags}
  /\ Goto("cleanVar")
  /\ UNCHANGED <<web, tags, tagsTmp, varTags, flush, settled>>

(* Faulty: a pair the backup already has is taken for a failure.           *)
BackupVarTagsOnce ==
  /\ pc = "backupVar"
  /\ varBackup' = varBackup \cup varTags
  /\ IF varTags \cap varBackup # {} THEN Return ELSE Goto("cleanVar")
  /\ UNCHANGED <<web, tags, tagsTmp, varTags, flush, settled>>

(* CleanLocalVarTagsRelation: two statements.                              *)
BackupVarTags ==
  /\ pc = "backupVar"
  /\ \/ /\ varBackup' = varBackup \cup varTags
        /\ Reply("cleanVar")
     \/ Fail /\ UNCHANGED varBackup
  /\ UNCHANGED <<web, tags, tagsTmp, varTags, flush, settled>>

(* Faulty: a failed delete does not stop the storing.                      *)
CleanVarTagsUnchecked ==
  /\ pc = "cleanVar"
  /\ varTags' \in {varTags, {}}
  /\ Goto("storeVar")
  /\ batch' = varSongs /\ left' = todo /\ partial' = TRUE
  /\ UNCHANGED <<web, tags, tagsTmp, varBackup, settled>>

CleanVarTags ==
  /\ pc = "cleanVar"
  /\ \/ /\ varTags' = {}
        /\ batch' = varSongs /\ left' = todo /\ partial' = TRUE
        /\ Reply("storeVar")
     \/ Fail /\ UNCHANGED <<varTags, flush>>
  /\ UNCHANGED <<web, tags, tagsTmp, varBackup, settled>>

CleanWebOldVarTags ==
  /\ pc = "cleanWeb"
  /\ \/ /\ webVar' = {}
        /\ batch' = IF partial THEN batch ELSE {}
        /\ Reply("cleanTmp")
     \/ Fail /\ UNCHANGED <<webVar, batch>>
  /\ UNCHANGED <<webStable, tags, tagsTmp, varTags, varBackup, left, partial, settled>>

-----------------------------------------------------------------------------
(* BackUpStableTags (two statements) and the refresh of the public radio.  *)

CleanTmpTags ==
  /\ pc = "cleanTmp"
  /\ \/ tagsTmp' = {} /\ Reply("fillTmp")
     \/ Fail /\ UNCHANGED tagsTmp
  /\ UNCHANGED <<web, tags, varTags, varBackup, flush, settled>>

(* Faulty: a failed copy does not stop the refresh.                        *)
FillTmpTagsUnchecked ==
  /\ pc = "fillTmp"
  /\ tagsTmp' \in {tagsTmp, tagsTmp \cup tags}
  /\ Goto("refresh")
  /\ UNCHANGED <<web, tags, varTags, varBackup, flush, settled>>

FillTmpTags ==
  /\ pc = "fillTmp"
  /\ \/ tagsTmp' = tagsTmp \cup tags /\ Reply("refresh")
     \/ Fail /\ UNCHANGED tagsTmp
  /\ UNCHANGED <<web, tags, varTags, varBackup, flush, settled>>

RefreshPublicRadio ==
  /\ pc = "refresh"
  /\ Return
  /\ UNCHANGED <<web, local, settled>>

-----------------------------------------------------------------------------
(* The rest of the world.                                                  *)

Crash ==
  /\ pc # "idle" /\ ~settled
  /\ Forget
  /\ UNCHANGED <<web, local, searchFile, settled>>

CollectStable ==
  /\ ~settled
  /\ \E r \in StableRows \ webStable : webStable' = webStable \cup {r}
  /\ UNCHANGED <<webVar, local, searchFile, pc, memory, settled>>

CollectVar ==
  /\ ~settled
  /\ \E r \in VarRows \ webVar : webVar' = webVar \cup {r}
  /\ UNCHANGED <<webStable, local, searchFile, pc, memory, settled>>

Settle ==
  /\ ~settled /\ settled' = TRUE
  /\ UNCHANGED <<web, local, searchFile, pc, memory>>

Process ==
  \/ StartRun \/ ConnectToLib \/ LoadWebSongs \/ LoadWebVarSongs \/ LoadSongs
  \/ MatchStable \/ StoreStableTags \/ InsertStable \/ StableStored
  \/ NeedFlushVarTags \/ MatchVar \/ BackupVarTags \/ CleanVarTags
  \/ StoreVarTags \/ InsertVar \/ VarStored \/ CleanWebOldVarTags
  \/ CleanTmpTags \/ FillTmpTags \/ RefreshPublicRadio

World == Crash \/ CollectStable \/ CollectVar \/ Settle

Next == Process \/ World

Spec == Init /\ [][Next]_vars

(* The batch is started again and again, a started one is scheduled, and   *)
(* disturbances end some day.                                              *)
FairSpec == Spec /\ WF_vars(Process) /\ WF_vars(Settle)

-----------------------------------------------------------------------------
(* Properties.                                                             *)

(* Every variable holds what the program or a table can hold; the rows a   *)
(* run remembers are rows of the tables it read.                           *)
TypeOK ==
  /\ webStable \subseteq StableRows /\ webVar \subseteq VarRows
  /\ {tags, tagsTmp, varTags, varBackup} \subseteq SUBSET (Sids \X Tags)
  /\ searchFile \subseteq Keys /\ searchBuf \subseteq Keys /\ dropped \subseteq Keys
  /\ pc \in Steps
  /\ stableSongs \subseteq StableRows /\ varSongs \subseteq VarRows
  /\ todo \subseteq Matched(Rows) /\ unsaved \subseteq Matched(Rows)
  /\ searchGood \in BOOLEAN /\ settled \in BOOLEAN
  /\ batch \subseteq VarRows /\ left \subseteq Matched(Rows) /\ partial \in BOOLEAN

(* When the web rows are about to be deleted, the variable relation is the *)
(* one made from the rows this run loaded: nothing of an earlier flush,    *)
(* finished or not, is left in it, and only pairs whose insert the server  *)
(* refused are missing (tagEtl.cpp:95-117).                                *)
FlushReplacesRelation ==
  pc = "cleanWeb" =>
    /\ varTags \subseteq Relation(varSongs)
    /\ \A r \in Matched(varSongs) \ unsaved : SidTag(r) \in varTags

(* The threshold is read after the rows were loaded, from a table that has *)
(* grown meanwhile; still, from the decision on, every tag the run is      *)
(* about to replace has at least Threshold rows in the table.              *)
FlushOnlyWhenDue ==
  pc \in {"matchVar", "backupVar", "cleanVar", "storeVar", "insertVar", "cleanWeb"} =>
    /\ varSongs \subseteq webVar
    /\ \A r \in varSongs : Cardinality(RowsOf(Tag[r], webVar)) >= Threshold

(* The radio is told to refresh only when the temporary table is exactly   *)
(* the stable relation, with every pair this run matched and the server    *)
(* accepted - whatever an interrupted earlier run left in the table.       *)
RefreshReady ==
  pc = "refresh" =>
    /\ tagsTmp = tags
    /\ \A r \in Matched(stableSongs) \ unsaved : SidTag(r) \in tagsTmp

(* A pair leaves the variable relation only when the backup table has it,  *)
(* though backup and delete are two statements and the process may die or  *)
(* fail between them (localLib.cpp:54-66).                                 *)
ArchiveBeforeDrop == [][varTags \ varTags' \subseteq varBackup]_vars

(* Deleting the web rows loses none of the rows the run loaded but by a    *)
(* refusal: each has no singer, or its pair is stored or its insert was    *)
(* refused, or its key is in the search file or on its way there, or the   *)
(* stream, not opened or gone bad at a write, has not taken that very key, *)
(* which the code does not notice (searchFileGenerator.cpp:16, 25).        *)
CleanAccountsForLoaded ==
  [][\A r \in (webVar \ webVar') \cap varSongs :
        \/ ~HasSinger(r)
        \/ r \in Matched(varSongs) /\ (r \in unsaved \/ SidTag(r) \in varTags)
        \/ Key[r] \in searchFile \cup searchBuf
        \/ ~searchGood /\ Key[r] \in dropped]_vars

(* A run that dies or fails inside a flush leaves a part of a relation,    *)
(* and a later run in which no flush is due refreshes the radio over it    *)
(* (tagEtl.cpp:131).  As long as the relation is a part, every row the     *)
(* flush was given is still in the web table, so it can be made again.     *)
PartCanBeRemade == partial => batch \subseteq webVar

(* The batch implements the variable relation as VarRelation promises it.  *)
Variable == INSTANCE VarRelation WITH
  Rows <- VarRows, Pair <- [r \in Matched(VarRows) |-> SidTag(r)],
  waiting <- webVar, relation <- varTags, archive <- varBackup

(* Nothing dropped unarchived, pairs of one batch at a time, every row of  *)
(* it tried, and rows discarded once and only after a batch that made some *)
(* pair was stored - over all crashes, failures and lost replies of        *)
(* EtlDoWork and of any number of runs of it.                              *)
ImplementsVarRelation == Variable!Spec

(* Once disturbances have ended, a matched row that waits in the web table *)
(* when a run starts gets its pair into the variable relation, if a flush  *)
(* is due and some stable row matches (without one StoreStableTags ends    *)
(* every run early) - even if earlier runs died in the middle of a flush.  *)
RowsGetServed ==
  \A r \in Matched(VarRows) :
    (/\ settled /\ pc = "idle"
     /\ r \in webVar /\ FlushDue(webVar)
     /\ Matched(webStable) # {}) ~> SidTag(r) \in varTags

(* A relation that was left as a part is completed, once disturbances have *)
(* ended, if a flush is due when a run starts and some row of either kind  *)
(* matches: no part a run leaves keeps later runs from finishing.          *)
PartGetsCompleted ==
  (/\ settled /\ pc = "idle" /\ partial
   /\ FlushDue(webVar) /\ Matched(webVar) # {} /\ Matched(webStable) # {}) ~> ~partial

(* Once disturbances have ended, and if some stable row matches, the       *)
(* temporary table holds the whole stable relation again, though an        *)
(* earlier run may have died between emptying and filling it.              *)
TmpCatchesUp ==
  (settled /\ Matched(webStable) # {}) ~>
    (tagsTmp = tags /\ Relation(webStable) \subseteq tagsTmp)

-----------------------------------------------------------------------------
(* What the repository says and the code does not do.                      *)

(* localLib.cpp:134 takes a refused insert for a pair that "has exists":   *)
(* every matched pair would be in the relation before the web rows go.     *)
RefusedPairsExist ==
  pc = "cleanWeb" => Relation(varSongs) \subseteq varTags
=============================================================================
