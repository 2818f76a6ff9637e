# Verification of tagEtl

tagEtl is a batch program. It reads song rows a crawler has put into a *web
library* (MySQL database `WebMusic`), matches them by title and singer with the
songs of a *local library* (`LocalMusic`), stores the pairs song id - tag id it
finds, writes the songs it does not find to a search file, and tells a radio
server to refresh. This directory holds TLA+ models of it, TLC configurations
and TLAPS proofs. Paths below are relative to the repository; line numbers are
those of the commit the models were written from.

## The system

| component | source | state | operations |
|---|---|---|---|
| batch run `CWebTagEtl` | `src/tagEtl.cpp` | vectors of loaded rows and matched pairs | `EtlDoWork`, `MatchSongsAndWriteMissedToFile` |
| web library `CWebLib` | `src/songLib/webLib.cpp` | tables `re_songs_tags`, `re_songs_vartags` | load both, `NeedFlushVarTags`, `CleanWebOldVarTags` |
| local library `CLocalLib` | `src/songLib/localLib.cpp` | `re_songs_music_tags`, `..._tags_tmp`, `..._vartags`, `..._vartags_backup` | load songs, store stable / variable tags, clean variable relation, back up stable relation |
| search file | `src/search/searchFileGenerator.cpp` | an `ofstream` opened for appending | open, write, close |
| connection `CLib`, `CMySqlHelper` | `src/songLib/lib.cpp`, `src/utils/MySqlHelper.cpp` | MySQL handle, its reference count and connection string, two mutexes | connect, execute, close |
| logger | `src/logger/logger.cpp`, `KmMutex.h` | log file, stdio buffer, archives, `log_mutex` | `init`, `error` ... `notice`, `log`, rotation |
| file lock `CFileLock` | `src/logger/filelock.cpp` | a lock file and a lock on it | `WriteLockW`, `Unlock` (compiled in with `PROC_LOG_LOCK`) |
| radio refresher | `src/refresh/refresher.cpp`, `src/utils/PacSocket.cpp` | a TCP connection | send the message, read the answer |
| configuration | `src/utils/Profile.cpp` | list of sections with lists of items | load, look up, release |
| string helpers | `src/utils/Utility.cpp`, `Converter.cpp` | none | trim, number to text |

`src/utils/` also holds Memcache, HttpClient, URLAnalyzer, Directory, Random and
an older Logger that no makefile builds. They are not modelled.

The batch has one thread; the logger and the connection are written for several.
What makes it hard is what it shares: the tables with a crawler (and with any
second run: nothing prevents one), the log with every process that logs to the
same name, and the disk with its own earlier runs, which may have died anywhere.
There are no transactions; each SQL statement is a step of its own, and most errors
end the run where it stands.

### What correctness means, per component

* **Batch, libraries, search file.** A flush replaces the whole variable
  relation by the one made from the loaded rows; nothing that was loaded is deleted
  from the web library that was not stored, refused, or written to the search file,
  as long as that file can be written; nothing leaves the relation that is not
  archived; the radio is refreshed only over a complete temporary table; and a run
  that died in the middle is repaired by later ones. Of two runs at a time, the one
  that emptied a relation last has all its pairs in it.
* **Logger.** Rotation loses only the oldest messages, whatever call the process
  dies in; where the system refuses a call it costs the file that was to be moved,
  and no more. A line stands in the log whole, and stays there once it is flushed.
* **File lock.** Nobody writes between the parts of another process's line who
  waited for the lock; a process that dies does not keep it.
* **Connection.** A thread that connected has a connection to its database until
  it closes, as long as callers do not connect at once or disconnect for nothing, and
  gets its own answers. Callers that lock do not connect at once.
* **Refresher.** Success is reported only for an answer of success.
* **Configuration.** A lookup gives the first item of the first section with the
  names asked for.
* **Song keys.** A web row whose own texts have no blanks at their ends and that is
  not found has no song; one that is found has the first song of its title and singer.

## The modules

| module | models | checked by |
|---|---|---|
| `VarRelation` | what the library promises of its variable relation (abstract) | as the property `ImplementsVarRelation` of `TagEtl` |
| `TagEtl` | `EtlDoWork` with both libraries, the search file, the crawler, crashes | `TagEtl_safety.cfg`, `TagEtl_liveness.cfg`, `TagEtl_refused.cfg` (through `MCTagEtl`) |
| `EtlOverlap` | two `TagEtl` at a time on the same tables | `EtlOverlap.cfg` (through `MCEtlOverlap`) |
| `LogRotate` | the logger, size-driven rotation, crashes, refused calls | `LogRotate.cfg` (through `MCLogRotate`) |
| `DaySplitLog` | the logger in daysplit mode | `DaySplitLog.cfg` (through `MCDaySplitLog`), `DaySplitLog_loss.cfg` |
| `SharedLog` | threads and processes that write to one log; `CFileLock`, `KmMutex` | `SharedLog.cfg` (through `MCSharedLog`) |
| `SqlSession` | `CLib` and `CMySqlHelper` shared by threads | `SqlSession.cfg` |
| `Refresher` | `RefreshPublicRadio`, its socket, the radio server | `Refresher.cfg` (through `MCRefresher`) |
| `Profile` | the configuration lists and the lookup in them | `Profile.cfg` |
| `TextTrim` | the trimming loops of `CUtility` and of the configuration reader | with `SongIndex` |
| `SongIndex` | the catalogue map and the keys of web rows | `SongIndex.cfg` (through `MCSongIndex`) |
| `TagEtlProofs`, `LogRotateProofs`, `DaySplitLogProofs`, `SharedLogProofs`, `SqlSessionProofs`, `RefresherProofs`, `ProfileProofs`, `SongIndexProofs` | the proofs about the module they are named after, `TagEtlProofs` also about `EtlOverlap` | tlapm |

`TagEtl` is the batch as a whole; it takes from the other parts only what they
give it: a connection that succeeds or ends the run (`SqlSession`), a finished
catalogue (`SongIndex`, which uses `TextTrim`), a radio call that returns
(`Refresher`). It writes no log.

### TagEtl

A row of a web table is an element of `StableRows` or `VarRows`; `Key` gives
the text title + "_" + singer it is looked up by, or `NoSinger`; `Catalogue` is
`v_songsinfo` read into a map. The relation tables are sets of pairs: the
unique key the log's "has exists" lines speak of makes a second insert of a pair
change nothing. `searchFile` is the set of keys on disk, `searchBuf` what is
still in the stream. The backup table is taken to have no unique key: a pair may be
copied there again (with one, the plain insert of `localLib.cpp:54` would fail on
the second flush of a pair). `v_re_songs_music_tags` is read as a view of
`re_songs_music_tags`, which its name and use suggest; its definition is not in
the repository.

`pc` names the statement `EtlDoWork` executes next. Each action is one SQL
statement, or the work between two of them, and has up to three outcomes: it
takes effect and the run goes on (`Goto`); it takes effect but the reply is an
error (`Fail` as part of `Reply`); it fails without effect (`Fail`). `Return` is
every early return and the final one: the destructors flush the stream and close
the connections. Three outcomes are not errors in the code and are not in the
model: a failing insert (the row is remembered in the history variable
`unsaved`), a failing query in `NeedFlushVarTags` (no flush this time), a
search stream that was not opened or whose write fails (`WriteSearchSongs`: it takes
nothing more, throws nothing and nobody looks; the history variable `dropped` has the
keys it has not taken). `InsertStable` and
`InsertVar` take the rows in any order, because the SELECT that loaded them has
no ORDER BY. `DestroyWebSongs` and the other destroy calls free memory no later
step reads; the model keeps the row sets, which the properties mention.

Three history variables remember the last flush, because properties speak of it
after the run that began it is gone: `batch`, the rows it was given, until they are
stored and deleted; `left`, those not tried yet; `partial`, whether it has stored
all. No guard reads them.

`VarRelation` is the promise without the program: rows wait, a flush puts the pairs
of a batch of waiting rows in the place of the whole relation, never without an
archive of it, and waiting rows are discarded only after a batch that made some
pair is stored completely, and only once for it. `ImplementsVarRelation` maps
`waiting` to `webVar`, `relation` to `varTags`, `archive` to `varBackup` and the
rest to the history variables.

`Crash` may happen at any step. `CollectStable` and `CollectVar` are the
crawler, known only from the tables it fills (external). `Settle` ends faults,
crashes and the crawler; it matters to liveness only.

### EtlOverlap

`main` starts a batch whether or not another is under way. `EtlOverlap` extends
`TagEtl`, whose `pc` and memory are the first run's, and takes a second instance of
it, `Other`, with a memory of its own (`pc2`, ...); tables, search file, crawler and
the history of the last flush are one. A step of a run (`Run1`, `Run2`) is a step of
its `TagEtl` that leaves the other's memory alone; `Crawl` and `SettleBoth` are the
rest. A run that ended may be followed by another in its place (`Start` counts
them), and `Empties` notes the deletes: `varBy` and `tmpBy` (history) say which run
emptied the variable relation and the temporary table last. Hardly any property of one run
survives a second: pairs can leave the relation unarchived (one run deletes what
the other inserted after the backup), rows can be deleted that the other run has
loaded and not stored, and the radio can be refreshed over a table the other run
has just emptied. What remains is `RefreshWholeUnlessEmptied` and
`FlushWholeUnlessEmptied`.

### LogRotate, DaySplitLog

Names are mapped to inodes, as a crash between `link` and `unlink` leaves one
file under two names. `i` is the loop counter of the shift; one pass of the loop
is `UnlinkBig`, `LinkLittle`, `UnlinkLittle`, and the code after the loop, which
moves the log to `log.1`, is the pass with `i = 1`. `access` only guards calls
that would otherwise fail harmlessly and is part of `Unlink` and `Link`. stdio
writes the buffer out when it likes: `Append` writes out all of it or nothing.
`ftell` counts buffered text, so `Position` does. Messages are numbered; sizes
are counted in messages. `DaySplitLog` flushes every line, as the buffer adds
nothing there that `LogRotate` does not show.

`link` and `unlink` may be refused: the archives may be on another file system, the
disk full, permission missing. The code looks at no answer (`logger.cpp:333-334`,
`371-372`, `400-401`), so a file whose `link` was refused is unlinked all the same,
and when a name to be freed could not be freed the `link` that follows fails. Such a
step is `Refused`; it notes in `unmoved` (history) the messages of the file that does
not get its new name, and no guard reads that. Only `fopen` is looked at
(`ReopenFails`): its call drops the message, and a later one opens the log without
looking at size or time.

### SharedLog

A line is three `fwrite` calls. `log_mutex` keeps the threads of a process apart
from `enter` to `unlock`; the file lock, asked for within it, keeps processes
apart. `locking` (`PROC_LOG_LOCK` is defined) and `flush` are fixed at the start and
both take both values. stdio writes a buffer out at any `fwrite`. `fcntl` locks
belong to a process and go with it; so does its buffer, in `Die`. A line may be
written without the lock in two ways, and `bare` (history) remembers it: a signal
ends the wait and nobody looks at what `WriteLockW` returns; or the process has no
descriptor, because the lock file belongs to another user who has not reached the
`chmod` of `logger.cpp:142` (or died before it), and `fcntl` on no descriptor is
taken for success. `torn` (history) holds the lines a death cut short. The log has
room: rotation is in `LogRotate`, and the file lock is not held around it.

### SqlSession

One library object, its handle, and the two mutexes. Whatever a thread does while
it holds `m_sqlConn_mutex` is one action; the pc label says which section it is
in or waits for: `connect`, `encode` and `record` are the three parts of
`SqlConn` (`SetEncode` takes the mutex for itself),
`cleanup` and `close` are `SqlClose` on the way out of a failed connect and in
`DisConnFromLib`, `query` and `store` the two halves of `ExecuteQuery` under one
hold of the mutex. `IsConnected` reads the handle and the count one after the
other without the mutex, hence `isConn` and `isRef`. `locking` is the parameter
`lock` of `ConnectToLib`, the same for all callers and fixed at the start; a locking
caller that is refused disconnects, since nothing else gives `m_conn_mutex` back. A
session is what a caller gets from a successful `ConnectToLib`; `sessions` holds
them and is not in the code. When
the configuration cannot be read (`NoConfiguration`, `lib.cpp:21-22`) `ConnectToLib`
returns before it takes `m_conn_mutex`; its caller gets an error like any other and
disconnects, which unlocks whoever's mutex it is and drops a reference if there is
one. `overlapped` (history) remembers whether two connects or disconnects were ever
under way at once, `stray` (history) whether anybody disconnected for whom nothing had
been locked: `SessionKept` and `CountExact` are promised until one of the two, and
`LockingExcludes` says that locking callers overlap only after the second.
The destructors, which close what is left, are not modelled.

### Refresher

`SocketConnect`, `SocketSend`, `SocketRecv` are the calls of
`RefreshPublicRadio`. TCP has no message borders: `Deliver` moves any part of what
the server wrote, and one `recv` takes what is there. The buffer is not
initialised, so what `strcmp` finds behind the received part is any text (`rest`).
The server is not in the repository; it is external and does what the client's use
of it needs: it answers with one of the protocol's texts and a NUL, it says
`REF_OK` after a refresh only, and it may go away at any time.

### Profile, TextTrim, SongIndex

A configuration line is a record of what the parser tells apart: a header with its
name, an item with name and value, a line to skip, a malformed line. `plstSecNode`
and `pLstItmNode` are list pointers, in the model positions in the lists: an item is
the head of the list of the section made last, or is hung after the item made last,
wherever that is. An item before any header, where the code follows NULL, ends the
program (`crashed`). Callers release a profile before they load it again, as all
in the repository do.

`TextTrim` has texts as sequences of a few characters and positions of the width of
`size_t`: `tirm` of a blank text computes a length below zero, and `rtrim` of one
runs below the text. `SongIndex` reads catalogue rows one by one into the map
(the first row of a key stays) and looks up web rows as they are, untrimmed; whether a
web row and a catalogue row are the same song (`Same`) is asked of the trimmed texts of
both.

## What is checked

| run | shows |
|---|---|
| `etl_safety` | `FlushReplacesRelation`, `FlushOnlyWhenDue`, `RefreshReady`, `PartCanBeRemade`, `ArchiveBeforeDrop`, `CleanAccountsForLoaded`, `TypeOK` and the refinement `ImplementsVarRelation` with two stable rows, four variable rows (two matching, one missed, one without singer and alone with its tag), threshold 2 |
| `etl_liveness` | `RowsGetServed`, `PartGetsCompleted`, `TmpCatchesUp` with one stable and three variable rows |
| `etl_refused_insert` | a violation: see findings |
| `etl_overlap` | `RefreshWholeUnlessEmptied`, `FlushWholeUnlessEmptied` for two runs at a time, three in all, and three crawled rows |
| `log_rotation` | `NewestRetained`, `LastRetained`, `RetentionBudget`, `TypeOK` with three archives, two messages per file, eleven messages, up to two crashes and two refused calls |
| `log_daysplit` | `LogNeverLost`, `DaysInOrder`, `TypeOK` over three days and five messages, with deaths and refused calls without bound |
| `log_daysplit_loss` | a violation: see findings |
| `log_shared` | `LinesWhole`, `OwnLinesWhole`, `FlushedStays`, `CallReturns`, `TypeOK` for two processes, one with two threads, with and without file lock and flushing |
| `session` | `LockingExcludes`, `SessionKept`, `CountExact`, `OwnAnswer`, `MutexesReleased`, `TypeOK` for two threads, two databases, two sessions each, locking or not, with and without a configuration |
| `radio_refresh` | `WholeAnswerUnderstood`, `CallReturns`, `TypeOK` for answers of one to five parts |
| `profile` | `LookupIsExpected`, `TypeOK` for every file of up to six lines, also after a load that failed |
| `song_index` | `MissedHasNoSong`, `FoundIsFirst`, `ColumnsTrimmed`, `ValuesTrimmed` for two catalogue rows over twelve texts |

**Bounds.** `TagEtl` has no counters: runs follow one another without bound and
the state space is finite because tables are sets over the given rows. Three rows
of one tag and one of another are enough for a tag below, at and above the
threshold, for a flush that is due and stops being due while a run is under way,
for a matched, a missed and a skipped row in one flush, and for a relation that
is partly stored when a run dies. In `LogRotate` three archives give a first, an
inner and a last pass of the loop; eleven messages of two per file fill log and
archives and let two rotations drop a file each; two crashes and two refused calls may hit
one rotation or the ones that would repair it. `DaySplitLog` bounds days and messages
only: three days are one that is over, one whose file is being made and one whose
rotation starts from what is left. In `EtlOverlap` `MaxRuns` bounds the runs started and `MaxRows` the rows
crawled: three runs let a run that died be followed by one that overlaps the same
other run; three rows fill both tables with one stable and two variable rows, or
put a row back that a flush deleted. In `SharedLog` `MaxLines` bounds the calls and
`MaxDeaths` the deaths: two lines are enough for one to come between the parts of
another, of the other process or of the other thread of its own, and one death for
a lock to be left, a buffer to be lost and a lock file to stay private.
`SqlSession` is bounded by `MaxDepth` only: calls go on for ever. Two databases make
a refusal; two sessions of a thread, with a second thread, share a handle in every
way that is told apart.
In `Refresher` the longest answer fills the buffer with its NUL, and calls follow
one another. Six lines let a section come twice with an item each, before and
after another section. In `SongIndex` two rows are the least that may compete for
a key; the texts have blanks, quotes and underscores at either end and alone.

**Deadlock** is checked in every passing run but `profile` (the program ends where
it follows NULL), `song_index` (a catalogue has an end) and `etl_overlap` (runs and
rows come to their bounds).

**Fairness.** `TagEtl!FairSpec` assumes that a started batch is scheduled and that
batches are started again (`WF_vars(Process)`: the program is run from outside,
again and again; its log shows a run's message every time), and that
disturbances end (`WF_vars(Settle)`). It also assumes that statements and the
radio call return, which the code does not guarantee: there is no timeout.
`RowsGetServed` starts from a batch that is about to start, because rows that
arrive during one may be deleted unread (`CleanWebOldVarTags` deletes without a
condition), and needs a stable row that matches, because a run without one ends
before it looks at variable rows. `SqlSession!FairSpec` assumes that a thread in a
call goes on where it can (weak fairness of `Step`) and that callers end their
sessions (strong fairness of `DisConnFromLib`, which another query of the same
thread may disable for a while). `SharedLog!FairSpec` assumes that a thread in a call
goes on, with strong fairness of its `Step`: mutex and file lock are granted in
turn, as a lock that is free again and again goes to every waiter some day; it does
not assume that a signal ever comes. `Refresher!FairSpec` assumes that the client is
scheduled, that the server answers or goes away, and that what was written
arrives; it does not assume that anyone closes an answered connection.

### Findings

1. `StoreTags` (`src/songLib/localLib.cpp:132`) passes over every failing insert
   as if the pair existed; the web row is deleted all the same, so the pair is
   lost (`etl_refused_insert`).
2. In daysplit mode (`src/logger/logger.cpp:285`) every call in hour 23 or in
   minute 59 of any hour moves the log onto the file of the day, so that file
   ends up with the last message only, where `src/logger/logger.h:94` promises a
   file per day (`log_daysplit_loss`).

Some things the models show that contradict no promise of the repository: rows the
crawler inserts between the load and `CleanWebOldVarTags` are deleted unread; a
missed key that is still in the stream's buffer when the web rows go is lost in a
crash; a run in which no flush is due refreshes the radio over whatever part an
interrupted flush left; two runs at a time undo each other's work as said under
`EtlOverlap`; threads that do not lock can lose a session to a thread that connects
while another is between the sections of `SqlConn`, and threads that do lock to one
whose configuration was missing and which disconnects all the same; a search file that
cannot be written loses its keys and the web rows go nonetheless; a refused `link`
loses the log or an archive; a web row with a blank at an end of its title or singer
misses even a song written exactly so; a split answer of the radio
server may be taken for anything; a line can be written past the file lock.

## What is proved

`TagEtlProofs` proves for all constants that satisfy `RowsAssumption` (finitely
many variable rows, stable and variable rows distinct, functions of the right
type):

* `Typing`: `Spec => []TypeOK`.
* `InductiveInvariant`: `Spec => []IInv`. The properties alone are not
  inductive: that `varTags` is the loaded rows' relation at `cleanWeb` rests on
  it having been empty at `storeVar`, on `todo` having been all matched rows, and
  on every row having since moved from `todo` to the table or to `unsaved`.
  `IInv` says this for both kinds of rows, and that loaded rows stay in the web
  table until this run deletes them, that the archive and the temporary table are
  as needed between their two statements, and that before anything is deleted missed
  keys are written, or the stream is unusable and has dropped them.
* From it `FlushReplaces`, `RadioRefreshedWhenReady`, `NothingDroppedUnarchived`,
  `CleanLosesNoLoadedRow`; and `FlushIsDue`, which also needs that a subset has
  no more elements.
* `FlushInvariant`: what the history of a flush has to do with `pc`. At `storeVar`
  and `insertVar` the flush is not complete, its batch is this run's rows and `left`
  its `todo`; at `cleanWeb` it is complete, and some row of it matched. From it
  `PartRemains` (`PartCanBeRemade`).
* `Implementation`: `Spec => ImplementsVarRelation`. Initial states map to initial
  states, and under both invariants every step maps to a step of `VarRelation` or
  to a stutter: a backup to `Archive`, a delete to `Begin` (which needs the
  archive), an insert to `Store`, `VarStored` to `Complete`, `CleanWebOldVarTags` to
  `Discard` (which needs that no earlier flush's part is being discarded).
* Two consequences of the abstract specification, which hold of `TagEtl` because it
  implements it: `PairsStay`, a pair that was ever in the variable relation is in it or
  in the backup from then on; and `PairsOfOneFlush`, until the rows of a flush are
  deleted the relation has pairs of that flush only, none of an earlier one.

Of `EtlOverlap` it proves, under the same assumptions and for any number of runs one
after another and of crawled rows:

* `OverlapInvariant`: `OverlapSpec => []OverlapInv`, from which `OverlappedRefresh`
  (`RefreshWholeUnlessEmptied`) and `OverlappedFlush` (`FlushWholeUnlessEmptied`). The
  invariant says what a run knows of its own pairs at each of its steps: those tried
  so far are in the relation it fills, unless the other run emptied that one since
  (`RunInv`). A step of the run keeps it because the run adds its pairs itself; a step
  of the other keeps it because it has one `Effect` only: nothing leaves the stable
  relation, and the other two tables only grow or are taken over, which `varBy` and
  `tmpBy` show.
* `TurnsAreOneBatch`: as long as only one run at a time is under way
  (`[]~Overlapped`), the two together behave as one `TagEtl`, whose memory is that of the
  run under way. So everything proved of `TagEtl` is at stake only when runs overlap.
  It needs `IdleRunsEmpty`: a run that is over has forgotten everything. That is a
  theorem only; TLC checks no run of it. Types in two overlapping runs are not proved:
  the two properties do not need them.

`LogRotateProofs` proves, for any number of archives, any size limit, any number of
messages, inodes, crashes and refused calls:

* `LogInvariant`: `Spec => []IInv`. That the newest messages stay is not inductive
  by itself: it needs that archives are ordered by age along their numbers
  (`ArchivesInOrder`), that one file has two names only when these are neighbours
  in the shift (`NamesOfOneFile`), what each step of a pass leaves for the next
  (`ShiftProgress`: a file about to be unlinked has its new name, or its messages are
  among the unmoved, `MayGo`) and that messages in a file are in order (`StoredInOrder`).
* From it `LogTyping`, `RotationLosesOldest` (`NewestRetained`) and
  `LastMessageKept` (`LastRetained`).
* `RotationKeepsBudget` (`RetentionBudget`), from a second invariant, `Budget`: every
  number between the log and an archive stands for a full file, but for one per
  crash and one per refused call, and the log is full while a shift runs. An archive
  the shift has moved is one short, which the full log makes up for unless the process
  dies before it is linked; a name that a refusal has left taken is one to spare until
  its file goes (`Owed`). The counts
  add up to messages because the files of two ages have none in common.

`DaySplitLogProofs` proves, for any number of days, messages and inodes, with deaths
and refused calls: `DayInvariant`, and from it `Typing`, `OrderOfDays` (`DaysInOrder`)
and `LogIsNeverLost` (`LogNeverLost`). That older days have older messages needs that no
day after the one being filed has a file yet (`StampIsLast`), that the log holds the
newest messages and shares its file with the last days only (`LogIsLast`); that the log
is not lost needs that between its link and its unlink it has the name of the day, or
was refused it (`RotationProgress`).

`SharedLogProofs` proves, for any processes and threads and any bounds:

* `Typing`, with who may hold the file lock.
* `LogInvariant`: who holds `log_mutex` and the file lock at which step of a call.
* `FlushedLinesStay` (`FlushedStays`): the parts of a line are in the buffer or in
  the file until the flush, and in the file after it.
* `LinesAreWhole` (`LinesWhole`), from `Apart`: as long as nobody wrote past the
  lock, only the process that has it has anything in its buffer, and the file with
  that buffer behind it is a chain of whole lines up to the part its thread wrote
  last.
* `NobodyIsStuck`: a thread in a call can take its next step (`MayGo` spells out the
  guards of `Step`), or the thread it waits for can, or that one waits for the file
  lock and the thread that has it can. `log_mutex` comes before the file lock, and
  neither a death nor a return leaves one of them behind. This is the safety half of
  `CallReturns`, for any processes and threads.
* `OwnLinesAreWhole` (`OwnLinesWhole`), with the lock or without it: the file with a
  process's buffer behind it is a chain as far as its own parts go, its last part is
  the one its thread in the mutex wrote last, and a line not begun is nowhere in it.
  What another process writes in between moves these parts and keeps their order
  (`Placed`); a death cuts the chain, and the line at the cut counts as torn.

`SqlSessionProofs` proves, for any threads, databases and depth:

* `Typing`; `LockersNeverOverlap` (`LockingExcludes`): as long as nobody
  disconnects for whom nothing was locked, a locking thread has `m_conn_mutex`
  exactly from its connect to the end of its disconnect.
* `SessionInvariant`, from it `SessionsKept` (`SessionKept`) and `ReferencesExact`
  (`CountExact`), which hold as long as no connects overlap and no thread disconnects
  that has not connected (`Careful`), and not beyond. At most
  one thread is then inside `SqlConn` or `SqlClose`, and is in one of three
  situations: nothing is open, a handle is open that nobody counts yet, or the count
  is that of the sessions plus the one it is about to give up.
* `AnswersOwned` (`OwnAnswer`): a thread between its statement and its answer holds
  the mutex, its own answer waits and the handle is open. This one holds however
  calls overlap.
* `NobodyIsStuck`, likewise: a thread in a call can go on, or waits for one that can,
  or for one with a session to end, or, for `m_conn_mutex`, for one that waits for
  `m_sqlConn_mutex`, which is with one that can. It rests on `HeldInv`:
  `m_sqlConn_mutex` is held in its sections only, and `m_conn_mutex` never by a thread
  that asks for it, nor by one outside a call that has no session: every refusal gives
  it back. This is the safety half of `MutexesReleased`.

`RefresherProofs` proves, for any texts and buffer size, `Typing` and `WholeAnswers`
(`WholeAnswerUnderstood`), from `Understanding`: the stream has nothing or exactly
one text with its NUL, `REF_OK` if and only if the radio was refreshed, and nothing is received
before the call returns.

`SongIndexProofs` proves, for any texts shorter than `size_t` counts and any number of
rows:

* `IndexInvariant`: the map's domain is the keys of the rows read, each with the
  first row of its key. From it `NothingHidden` (`MissedHasNoSong`), as trimming a
  trimmed text changes nothing, and
  `FirstIsFound` (`FoundIsFirst`), which needs that a key gives back title and singer
  when the titles lack the separator.
* `TrimStrips` (`ColumnsTrimmed`) and `ValuesAreStripped` (`ValuesTrimmed`): the
  loops stop at the first and the last character that is to stay, in arithmetic of
  the width of `size_t`.

`ProfileProofs` proves, for any names, values and length of a file, `Typing`,
`ListsInvariant` and `LookupsAreExpected` (`LookupIsExpected`). The invariant is that
there are functions from sections and items to the header and item lines they were
made from, which are in the order of the file and leave no header or item out.

Assumptions of all proofs are the named ASSUMEs of the modules, which TLC evaluates
in the runs. Liveness (`RowsGetServed`, `PartGetsCompleted`, `TmpCatchesUp`,
`MutexesReleased` and the two `CallReturns`) is checked by TLC only: it is out of the
prover's reach. Every other property of a passing run is a theorem.

## What is not modelled

* **Logger.** Two processes that rotate one log: the file lock is not held around a
  rotation, so each can unlink the other's fresh `log.1`, and none of `LogRotate`'s
  properties is left or promised. The text of log lines and the level filter.
  `logger.cpp:347` writes a byte past `ext`, and a `Logger` whose `init` failed
  deletes a pointer nobody set: neither has an outcome a model could justify.
* **Connection.** Escaping of quotes in SQL, and the rows of an answer.
* **Radio.** Reading its settings; `Socket_Listen`, `Socket_Accept` (called by
  nobody).
* **Configuration.** Conversion of values to numbers.
* **Errors.** `winerror.h`, `config.h`, `comdef.h` are constants; nothing throws.
* `CConverter` only prints numbers. Memcache, HttpClient, URLAnalyzer, Directory,
  Random and the older Logger are built by no makefile.

## What is left

A model of two processes that rotate one log, if somebody decides what it should
promise; the types of two overlapping runs, as a theorem.
