----------------------------- MODULE SongIndex -----------------------------
(***************************************************************************)
(* How web rows find their song: CLocalLib::LoadSongs reads v_songsinfo    *)
(* row by row into a map from title + "_" + singer, both trimmed, to the   *)
(* song; MatchSongsAndWriteMissedToFile looks web rows up with their texts *)
(* as they are.  TagEtl takes the finished map as its constant Catalogue.  *)
(***************************************************************************)
EXTENDS TextTrim

CONSTANTS Texts,      \* texts that occur in the two columns
          Separator,  \* the underscore
          MaxRows     \* bound: rows of v_songsinfo

Characters == UNION {{s[p] : p \in DOMAIN s} : s \in Texts}

ASSUME IndexAssumption ==
  /\ Separator \notin Blanks /\ MaxRows \in Nat
  /\ \A s \in Texts : s \in Seq(Characters) /\ Len(s) < SizeLimit

Songs == [title : Texts, singer : Texts]

VARIABLES rows,            \* rows read so far; a row's song_id is its position
          mapNameKeySongs  \* key to song_id

vars == <<rows, mapNameKeySongs>>

Key(title, singer) == title \o <<Separator>> \o singer

(* Faulty: the columns are taken as they are.                              *)
LocalKeyUntrimmed(row) == Key(row.title, row.singer)

LocalKey(row) == Key(trim(row.title), trim(row.singer))

Init == rows = <<>> /\ mapNameKeySongs = <<>>

(* Faulty: a later row of the same key takes the place of the first.       *)
LoadRowOver(row) ==
  /\ rows' = Append(rows, row)
  /\ mapNameKeySongs' =
       [k \in DOMAIN mapNameKeySongs \cup {LocalKey(row)} |->
          IF k = LocalKey(row) THEN Len(rows) + 1 ELSE mapNameKeySongs[k]]

(* map::insert leaves a key that is there alone.                           *)
LoadRow(row) ==
  /\ rows' = Append(rows, row)
  /\ mapNameKeySongs' =
       [k \in DOMAIN mapNameKeySongs \cup {LocalKey(row)} |->
          IF k \in DOMAIN mapNameKeySongs THEN mapNameKeySongs[k] ELSE Len(rows) + 1]

LoadSongs == Len(rows) < MaxRows /\ \E row \in Songs : LoadRow(row)

Spec == Init /\ [][LoadSongs]_vars

Found(web) == Key(web.title, web.singer) \in DOMAIN mapNameKeySongs
SongOf(web) == mapNameKeySongs[Key(web.title, web.singer)]
WebSongs == {web \in Songs : web.singer # <<>>}

-----------------------------------------------------------------------------
(* The same song, blanks at the ends of either text apart.                 *)
Same(web, row) ==
  trim(web.title) = trim(row.title) /\ trim(web.singer) = trim(row.singer)

BlankEnded(s) == trim(s) # s
Plain(song) == \A p \in DOMAIN song.title : song.title[p] # Separator

(* A web row that is not found though its song is in the catalogue has a   *)
(* blank at an end of its own title or singer (webLib.cpp:34-36 takes the  *)
(* texts as they are, localLib.cpp:32-33 trims them): such a row misses    *)
(* even a catalogue row that equals it letter by letter.  Nothing else     *)
(* about the keys hides a song, not blanks in the catalogue, empty columns *)
(* or underscores.                                                         *)
MissedHasNoSong ==
  \A web \in WebSongs : \A k \in DOMAIN rows :
    Same(web, rows[k]) /\ ~Found(web) => BlankEnded(web.title) \/ BlankEnded(web.singer)

(* A web row that is found gets the first row with its title and singer.   *)
(* Titles with an underscore are excepted: title and singer are joined by  *)
(* one, so that two different songs can have the same key.                 *)
FoundIsFirst ==
  \A web \in WebSongs :
    Found(web) /\ Plain(web) /\ (\A k \in DOMAIN rows : Plain(rows[k])) =>
      /\ Same(web, rows[SongOf(web)])
      /\ \A k \in 1 .. SongOf(web) - 1 : ~Same(web, rows[k])

(* What trimming has to give: the text without a first and a last part of  *)
(* the kind to drop, and nothing of that kind left at its ends.            *)
IsStripped(s, t, drop) ==
  /\ \E a, b \in 0..Len(s) :
       /\ a <= b /\ t = SubSeq(s, a + 1, b)
       /\ \A k \in (1..a) \cup (b + 1 .. Len(s)) : s[k] \in drop
  /\ t # <<>> => t[1] \notin drop /\ t[Len(t)] \notin drop

Columns == UNION {{rows[k].title, rows[k].singer} : k \in DOMAIN rows}

(* trim strips the columns, blank ones included, although rtrim alone does *)
(* not: a text of blanks is empty before rtrim gets it.                    *)
ColumnsTrimmed == \A s \in Columns : IsStripped(s, trim(s), Blanks)

(* The same texts read as configuration values lose blanks, then quotes,   *)
(* and keep the blanks between the quotes; also where the length of what   *)
(* is left is computed below zero.                                         *)
ValuesTrimmed ==
  \A s \in Columns : LET t == tirm(s) IN /\ IsStripped(s, t, Blanks)
                                        /\ IsStripped(t, QuotTirm(t), Quotes)
=============================================================================
