----------------------------- MODULE EtlOverlap -----------------------------
(***************************************************************************)
(* Two runs of the batch on the same libraries at the same time: main      *)
(* makes a CWebTagEtl and calls it, whether or not another run is under    *)
(* way (tagEtl.cpp:216).  The first run is the TagEtl this module extends, *)
(* the other one a TagEtl with a memory of its own (pc2, ...).  The        *)
(* tables, the search file and the crawler are shared; so is the history   *)
(* of the last flush, and who emptied a relation last.                     *)
(*                                                                         *)
(* A run that ended, crashed or failed may be followed by another in its   *)
(* place.  The search file opens in every run: it is appended to only, and *)
(* a failing open is the matter of TagEtl.                                 *)
(***************************************************************************)
EXTENDS TagEtl

CONSTANTS MaxRuns,    \* bound: runs that are started
          MaxRows     \* bound: rows the crawler puts into the tables

ASSUME OverlapAssumption == MaxRuns \in Nat /\ MaxRows \in Nat

VARIABLES
  pc2, stableSongs2, varSongs2, todo2, searchGood2, searchBuf2,
  dropped2, unsaved2,
  varBy, tmpBy,  \* history: the run that emptied varTags, tagsTmp last, or 0
  started, crawled  \* history: runs started, rows crawled so far

Other == INSTANCE TagEtl WITH
  pc <- pc2, stableSongs <- stableSongs2, varSongs <- varSongs2, todo <- todo2,
  searchGood <- searchGood2, searchBuf <- searchBuf2,
  dropped <- dropped2, unsaved <- unsaved2

firstRun == <<pc, memory>>
otherRun == <<pc2, stableSongs2, varSongs2, todo2, searchGood2, searchBuf2,
              dropped2, unsaved2>>
emptied  == <<varBy, tmpBy>>
counts   == <<started, crawled>>
allVars  == <<vars, otherRun, emptied, counts>>

OverlapInit ==
  /\ Init /\ Other!Init
  /\ varBy = 0 /\ tmpBy = 0
  /\ started = 0 /\ crawled = 0

(* A new run starts within the bound and opens the search file.            *)
Start(step, open) ==
  IF step = "idle" THEN open /\ started < MaxRuns /\ started' = started + 1
                   ELSE UNCHANGED started

(* Which run emptied a relation last: its delete took effect, whether its  *)
(* reply arrived or not.                                                   *)
Empties(p, step, next) ==
  /\ varBy' = IF step = "cleanVar" /\ (next = "storeVar" \/ varTags' # varTags)
              THEN p ELSE varBy
  /\ tmpBy' = IF step = "cleanTmp" /\ (next = "fillTmp" \/ tagsTmp' # tagsTmp)
              THEN p ELSE tmpBy

Run1 ==
  /\ Process \/ Crash
  /\ Start(pc, searchGood')
  /\ Empties(1, pc, pc')
  /\ UNCHANGED <<otherRun, crawled>>

Run2 ==
  /\ Other!Process \/ Other!Crash
  /\ Start(pc2, searchGood2')
  /\ Empties(2, pc2, pc2')
  /\ UNCHANGED <<firstRun, crawled>>

Crawl ==
  /\ crawled < MaxRows /\ crawled' = crawled + 1
  /\ CollectStable \/ CollectVar
  /\ UNCHANGED <<otherRun, emptied, started>>

SettleBoth == Settle /\ UNCHANGED <<otherRun, emptied, counts>>

OverlapNext == Run1 \/ Run2 \/ Crawl \/ SettleBoth

OverlapSpec == OverlapInit /\ [][OverlapNext]_allVars

-----------------------------------------------------------------------------
(* Every pair the rows make is in the relation, but for refused ones.      *)
Whole(songs, refused, relation) ==
  \A r \in Matched(songs) \ refused : SidTag(r) \in relation

(* The radio is refreshed over what is in the stable relation, and over    *)
(* every pair the run matched itself, unless the other run has emptied the *)
(* temporary table since: an overlapping run may leave it empty under a    *)
(* refresh, but never makes it a part, or older than the run's own pairs   *)
(* (localLib.cpp:139-151, tagEtl.cpp:131).                                 *)
RefreshWholeUnlessEmptied ==
  /\ tagsTmp \subseteq tags
  /\ pc = "refresh" /\ tmpBy = 1 => Whole(stableSongs, unsaved, tagsTmp)
  /\ pc2 = "refresh" /\ tmpBy = 2 => Whole(stableSongs2, unsaved2, tagsTmp)

(* Of two flushes at a time the one that emptied the variable relation     *)
(* last has all its pairs in it when it comes to delete the web rows,      *)
(* whatever the other inserts meanwhile and wherever it dies               *)
(* (tagEtl.cpp:100-117).                                                   *)
FlushWholeUnlessEmptied ==
  /\ pc = "cleanWeb" /\ varBy = 1 => Whole(varSongs, unsaved, varTags)
  /\ pc2 = "cleanWeb" /\ varBy = 2 => Whole(varSongs2, unsaved2, varTags)
=============================================================================
