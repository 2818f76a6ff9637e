----------------------------- MODULE MCSongIndex -----------------------------
(* Texts with and without blanks, quotes and underscores, texts of blanks  *)
(* or quotes only, and the empty one.                                      *)
EXTENDS SongIndex

CONSTANTS Blank, Quote, x, y

MCBlanks == {Blank}
MCQuotes == {Quote}
MCTexts == {<<>>, <<Blank>>, <<Blank, Blank>>, <<Quote, Quote>>, <<x>>, <<y>>,
            <<Blank, x>>, <<x, Blank>>, <<Blank, Quote, Blank, x, Quote>>,
            <<x, Separator>>, <<Separator, y>>, <<x, Separator, y>>}
=============================================================================
