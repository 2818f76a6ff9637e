------------------------------ MODULE TextTrim ------------------------------
(***************************************************************************)
(* The trimming loops of CUtility and of the configuration reader.  A text *)
(* is a sequence of characters; blanks and quotes are the characters they  *)
(* remove.  Positions count from 0 and have the width of size_t, so that a *)
(* position before the first character is the largest one.                 *)
(***************************************************************************)
EXTENDS Integers, Sequences

CONSTANTS Blanks, Quotes,   \* space, tab, CR, LF; the two quotes
          SizeLimit         \* size_t holds 0 .. SizeLimit - 1

ASSUME TextAssumption == SizeLimit \in Nat \ {0} /\ Blanks \cap Quotes = {}

Size(n) == n % SizeLimit
Lower(m, n) == IF m < n THEN m ELSE n

(* string::substr for a position inside the text.                          *)
Substr(s, pos, count) == SubSeq(s, pos + 1, Lower(pos + count, Len(s)))

(* Where the loop from the left stops: at the first character to keep, or  *)
(* behind the last one.                                                    *)
PosLeft(s, drop) ==
  CHOOSE p \in 0..Len(s) : /\ p = Len(s) \/ s[p + 1] \notin drop
                           /\ \A q \in 0 .. p - 1 : s[q + 1] \in drop

(* The loop from the right in tirm does not look at position 0.            *)
PosRight(s, drop) ==
  CHOOSE p \in 0 .. Len(s) - 1 : /\ p = 0 \/ s[p + 1] \notin drop
                                 /\ \A q \in p + 1 .. Len(s) - 1 : s[q + 1] \in drop

(* Faulty: the length is taken for the last position.                      *)
StripShort(s, drop) ==
  IF s = <<>> THEN s
  ELSE Substr(s, PosLeft(s, drop), Size(PosRight(s, drop) - PosLeft(s, drop)))

Strip(s, drop) ==
  IF s = <<>> THEN s
  ELSE Substr(s, PosLeft(s, drop), Size(PosRight(s, drop) - PosLeft(s, drop) + 1))

tirm(s) == Strip(s, Blanks)

QuotTirm(s) == Strip(s, Quotes)

(* Faulty: the loop ends one character early.                              *)
ltrimButLast(s) ==
  LET p == PosLeft(s, Blanks) IN IF s # <<>> /\ p = Len(s) THEN SubSeq(s, p, p)
                                 ELSE Substr(s, p, Len(s) - p)

ltrim(s) == Substr(s, PosLeft(s, Blanks), Len(s) - PosLeft(s, Blanks))

(* The loop of rtrim does look at position 0, but its test u_pos >= 0      *)
(* never fails: with nothing to keep it runs on below the text until it    *)
(* meets some other byte, and as u_pos is then too large nothing is cut.   *)
rtrim(s) ==
  IF \A p \in DOMAIN s : s[p] \in Blanks THEN s
  ELSE Substr(s, 0, PosRight(s, Blanks) + 1)

trim(s) == rtrim(ltrim(s))
=============================================================================
