------------------------------ MODULE Profile ------------------------------
(***************************************************************************)
(* CProfile: the list of sections, each with its list of items, that       *)
(* BuildProfileQueue makes from a configuration file line by line, and the *)
(* lookup in it.  A line is what is left of it without blanks, quotes and  *)
(* trailing comments.  The text read so far is kept, so that the lists can *)
(* be compared with it.                                                    *)
(***************************************************************************)
EXTENDS Integers, Sequences

CONSTANTS Names, Values,   \* names of sections and items; values of items
          MaxLines,        \* bound: lines of a file
          None

ASSUME ProfileAssumption == None \notin Values /\ MaxLines \in Nat

(* A section line without "]" and an item line without "=" are bad; empty  *)
(* lines and comments are notes.                                           *)
Header(name) == [kind |-> "section", name |-> name]
Lines == {Header(name) : name \in Names}
         \cup {[kind |-> "item", name |-> name, value |-> value] : name \in Names, value \in Values}
         \cup {[kind |-> "note"], [kind |-> "bad"]}

VARIABLES pProfile,     \* the sections, in list order
          plstSecNode,  \* position of the section made last, 0 for NULL
          pLstItmNode,  \* positions of the item made last and of its section
          text,         \* the lines read by this load
          status

pointers == <<plstSecNode, pLstItmNode>>
vars == <<pProfile, pointers, text, status>>

NULL == <<0, 0>>

Least(hits) == IF hits = {} THEN 0 ELSE CHOOSE k \in hits : \A l \in hits : k <= l

(* The list walks of GetProfValue: a position, 0 when the end is reached.  *)
First(list, name) == Least({k \in DOMAIN list : list[k].name = name})

(* Only the first section of a name is searched, and the first item in it. *)
GetProfValue(section, item) ==
  LET s == First(pProfile, section)
      i == IF s = 0 THEN 0 ELSE First(pProfile[s].items, item)
  IN  IF i = 0 THEN None ELSE pProfile[s].items[i].value

-----------------------------------------------------------------------------
Init ==
  /\ pProfile = <<>> /\ plstSecNode = 0 /\ pLstItmNode = NULL
  /\ text = <<>> /\ status = "released"

(* A file that is missing, empty or unreadable leaves everything as it is. *)
LoadProfile ==
  /\ status \in {"released", "failed"}
  /\ plstSecNode' = 0 /\ pLstItmNode' = NULL /\ text' = <<>>
  /\ status' = "loading"
  /\ UNCHANGED pProfile

SectionLine(line) ==
  /\ line.kind = "section"
  /\ pProfile' = Append(pProfile, [name |-> line.name, items |-> <<>>])
  /\ plstSecNode' = Len(pProfile) + 1
  /\ UNCHANGED <<pLstItmNode, status>>

(* An item is the head of the list of the section made last, or hung after *)
(* the item made last, in whatever list that is; what followed it is lost. *)
Before == IF pProfile[plstSecNode].items = <<>> THEN <<plstSecNode, 0>> ELSE pLstItmNode

HangAfter(node, line) ==
  pProfile' = [pProfile EXCEPT ![node[1]].items =
                 Append(SubSeq(@, 1, node[2]), [name |-> line.name, value |-> line.value])]

(* Faulty: only an item that is hung after another is remembered.          *)
ItemLineForgetsHead(line) ==
  /\ line.kind = "item"
  /\ IF plstSecNode = 0
     THEN status' = "crashed" /\ UNCHANGED <<pProfile, pLstItmNode>>
     ELSE /\ HangAfter(Before, line)
          /\ pLstItmNode' = IF Before[2] = 0 THEN pLstItmNode ELSE <<Before[1], Before[2] + 1>>
          /\ UNCHANGED status
  /\ UNCHANGED plstSecNode

(* Before any section the code follows a NULL pointer.                     *)
ItemLine(line) ==
  /\ line.kind = "item"
  /\ IF plstSecNode = 0
     THEN status' = "crashed" /\ UNCHANGED <<pProfile, pLstItmNode>>
     ELSE /\ HangAfter(Before, line)
          /\ pLstItmNode' = <<Before[1], Before[2] + 1>>
          /\ UNCHANGED status
  /\ UNCHANGED plstSecNode

NoteLine(line) == line.kind = "note" /\ UNCHANGED <<pProfile, pointers, status>>

(* Faulty: a bad line ends the load but leaves the lists.                  *)
BadLineKeepsLists(line) ==
  /\ line.kind = "bad"
  /\ status' = "failed"
  /\ UNCHANGED <<pProfile, pointers>>

BadLine(line) ==
  /\ line.kind = "bad"
  /\ pProfile' = <<>> /\ status' = "failed"
  /\ UNCHANGED pointers

ReadLine ==
  /\ status = "loading" /\ Len(text) < MaxLines
  /\ \E line \in Lines :
       /\ text' = Append(text, line)
       /\ SectionLine(line) \/ ItemLine(line) \/ NoteLine(line) \/ BadLine(line)

EndOfFile ==
  /\ status = "loading"
  /\ status' = "loaded"
  /\ UNCHANGED <<pProfile, pointers, text>>

ReleaseProfile ==
  /\ status \in {"loaded", "failed"}
  /\ pProfile' = <<>> /\ text' = <<>>
  /\ plstSecNode' = 0 /\ pLstItmNode' = NULL
  /\ status' = "released"

Next == LoadProfile \/ ReadLine \/ EndOfFile \/ ReleaseProfile

Spec == Init /\ [][Next]_vars

-----------------------------------------------------------------------------
Items == [name : Names, value : Values]

(* The list pointers agree: the section whose list an item may head is the *)
(* last one made, and when it has items, the item the next is hung after   *)
(* is the last of these.                                                   *)
TypeOK ==
  /\ \A s \in DOMAIN pProfile :
       pProfile[s].name \in Names /\ pProfile[s].items \in Seq(Items)
  /\ plstSecNode \in 0..MaxLines
  /\ status = "loading" =>
       /\ plstSecNode = Len(pProfile)
       /\ plstSecNode # 0 /\ pProfile[plstSecNode].items # <<>> =>
            pLstItmNode = <<plstSecNode, Len(pProfile[plstSecNode].items)>>
  /\ text \in Seq(Lines)
  /\ status \in {"released", "loading", "loaded", "failed", "crashed"}

(* What a reader of the file expects: the first item of the name between   *)
(* the first header of the section and the header after it.                *)
HeadersIn(lines) == {k \in DOMAIN lines : lines[k].kind = "section"}
Expected(section, item) ==
  LET h == Least({k \in HeadersIn(text) : text[k].name = section})
      own == {k \in DOMAIN text :
                /\ k > h /\ text[k].kind = "item" /\ text[k].name = item
                /\ \A j \in HeadersIn(text) : j <= h \/ j > k}
  IN  IF h = 0 \/ own = {} THEN None ELSE text[Least(own)].value

(* A loaded profile answers every lookup as the text of this load says,    *)
(* also when an earlier load failed half way (BuildProfileQueue releases   *)
(* its lists) and with sections and items that come several times.         *)
LookupIsExpected ==
  status = "loaded" =>
    \A section, item \in Names : GetProfValue(section, item) = Expected(section, item)
=============================================================================
