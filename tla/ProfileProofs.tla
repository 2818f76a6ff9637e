--------------------------- MODULE ProfileProofs ---------------------------
(***************************************************************************)
(* Proofs about Profile, for any names, values and length of a file.  The  *)
(* lists are compared with the text through the lines they were made from: *)
(* H gives the header line of each section, J the item lines of each       *)
(* section's items.                                                        *)
(***************************************************************************)
EXTENDS Profile, WellFoundedInduction, TLAPS

Sections == [name : Names, items : Seq(Items)]

-----------------------------------------------------------------------------
(* What Least gives.                                                       *)

LEMMA NoLeast == Least({}) = 0
BY DEF Least

LEMMA SomeLeast ==
  ASSUME NEW T, T \subseteq Nat, T # {}
  PROVE  Least(T) \in T /\ \A k \in T : Least(T) <= k
<1>1. PICK m \in T : \A k \in T : <<k, m>> \notin OpToRel(<, Nat)
  BY WFMin, NatLessThanWellFounded, Zenon
<1>2. \A k \in T : ~(k < m)
  BY <1>1, Zenon DEF OpToRel
<1>3. m \in T /\ \A k \in T : m <= k
  BY <1>2
<1> QED
  BY <1>3, Zenon DEF Least

LEMMA LeastIs ==
  ASSUME NEW T, T \subseteq Nat, NEW m \in T, \A k \in T : m <= k
  PROVE  Least(T) = m
<1>1. Least(T) \in T /\ \A k \in T : Least(T) <= k
  BY SomeLeast
<1>2. Least(T) \in Nat /\ m \in Nat /\ Least(T) <= m /\ m <= Least(T)
  BY <1>1
<1> QED
  BY <1>2

LEMMA LineParts ==
  ASSUME NEW line \in Lines
  PROVE  /\ line.kind = "section" => line.name \in Names
         /\ line.kind = "item" => line.name \in Names /\ line.value \in Values
BY DEF Lines, Header

-----------------------------------------------------------------------------
(* Types.                                                                  *)

(* The item made last is the last one of the section made last.            *)
ItemPointer ==
  plstSecNode # 0 /\ pProfile[plstSecNode].items # <<>> =>
    pLstItmNode = <<plstSecNode, Len(pProfile[plstSecNode].items)>>

TypeInv ==
  /\ pProfile \in Seq(Sections)
  /\ plstSecNode \in 0..MaxLines
  /\ text \in Seq(Lines) /\ Len(text) <= MaxLines
  /\ status \in {"released", "loading", "loaded", "failed", "crashed"}
  /\ status = "loading" =>
       plstSecNode = Len(pProfile) /\ Len(pProfile) <= Len(text) /\ ItemPointer
  /\ status \in {"released", "failed"} => pProfile = <<>>

LEMMA SectionAdded ==
  ASSUME TypeInv, NEW line \in Lines, SectionLine(line)
  PROVE  /\ pProfile' \in Seq(Sections) /\ Len(pProfile') = Len(pProfile) + 1
         /\ \A s \in 1..Len(pProfile) : pProfile'[s] = pProfile[s]
         /\ pProfile'[Len(pProfile) + 1] = [name |-> line.name, items |-> <<>>]
<1>1. [name |-> line.name, items |-> <<>>] \in Sections
  BY LineParts DEF SectionLine, Sections
<1> QED
  BY <1>1 DEF TypeInv, SectionLine

LEMMA ItemsReplaced ==
  ASSUME NEW section \in Sections, NEW items
  PROVE  [section EXCEPT !.items = items] = [name |-> section.name, items |-> items]
BY DEF Sections

LEMMA WholeList ==
  ASSUME NEW list \in Seq(Items)
  PROVE  SubSeq(list, 1, Len(list)) = list /\ SubSeq(<<>>, 1, 0) = <<>>
OBVIOUS

(* The item is added to the list of the section made last, at its end.     *)
LEMMA HangsLast ==
  ASSUME TypeInv, status = "loading", NEW line \in Lines, ItemLine(line), plstSecNode # 0
  PROVE  LET n == Len(pProfile)
             old == pProfile[n].items
             item == [name |-> line.name, value |-> line.value]
         IN  /\ plstSecNode = n
             /\ pProfile' = [pProfile EXCEPT ![n].items = Append(old, item)]
             /\ pLstItmNode' = <<n, Len(old) + 1>>
<1> DEFINE n == Len(pProfile)
           old == pProfile[n].items
           item == [name |-> line.name, value |-> line.value]
<1>1. plstSecNode = n /\ pProfile[n] \in Sections
  BY DEF TypeInv
<1>2. old \in Seq(Items)
  BY <1>1 DEF Sections
<1>3. /\ pProfile' = [pProfile EXCEPT ![Before[1]].items = Append(SubSeq(@, 1, Before[2]), item)]
      /\ pLstItmNode' = <<Before[1], Before[2] + 1>>
  BY DEF ItemLine, HangAfter
<1>4. Before[1] = n /\ Before[2] = Len(old)
  <2>1. CASE old = <<>>
    BY <1>1, <2>1 DEF Before
  <2>2. CASE old # <<>>
    BY <1>1, <2>2 DEF Before, TypeInv, ItemPointer
  <2> QED
    BY <2>1, <2>2
<1>5. SubSeq(pProfile[n].items, 1, Len(old)) = old
  BY <1>2, WholeList
<1> HIDE DEF item
<1>6. pProfile' = [pProfile EXCEPT ![n].items = Append(old, item)]
  BY <1>3, <1>4, <1>5
<1> QED
  BY <1>1, <1>3, <1>4, <1>6 DEF item

LEMMA ItemAdded ==
  ASSUME TypeInv, status = "loading", NEW line \in Lines, ItemLine(line), plstSecNode # 0
  PROVE  LET n == Len(pProfile)
             old == pProfile[n].items
             new == pProfile'[n].items
         IN  /\ n \in 1..Len(pProfile) /\ pProfile' \in Seq(Sections) /\ Len(pProfile') = n
             /\ \A s \in 1..n : /\ pProfile'[s].name = pProfile[s].name
                                /\ s # n => pProfile'[s] = pProfile[s]
             /\ old \in Seq(Items) /\ new \in Seq(Items) /\ Len(new) = Len(old) + 1
             /\ \A i \in 1..Len(old) : new[i] = old[i]
             /\ new[Len(old) + 1] = [name |-> line.name, value |-> line.value]
             /\ pLstItmNode' = <<n, Len(new)>>
<1> DEFINE n == Len(pProfile)
           item == [name |-> line.name, value |-> line.value]
           old == pProfile[n].items
           section == [name |-> pProfile[n].name, items |-> Append(old, item)]
<1>1. /\ n \in 1..n /\ plstSecNode = n /\ pProfile \in Seq(Sections)
      /\ pProfile[n] \in Sections
  BY DEF TypeInv
<1>2. item \in Items
  BY LineParts DEF ItemLine, Items
<1>3. /\ old \in Seq(Items) /\ Append(old, item) \in Seq(Items)
      /\ Len(Append(old, item)) = Len(old) + 1
      /\ \A i \in 1..Len(old) : Append(old, item)[i] = old[i]
      /\ Append(old, item)[Len(old) + 1] = item
  <2>1. old \in Seq(Items)
    BY <1>1 DEF Sections
  <2> HIDE DEF item, old
  <2> QED
    BY <1>2, <2>1
<1>4. section \in Sections
  BY <1>1, <1>3 DEF Sections
<1>5. pProfile' = [pProfile EXCEPT ![n] = section]
  <2>1. pProfile' = [pProfile EXCEPT ![n].items = Append(old, item)]
    BY HangsLast
  <2> HIDE DEF item
  <2>2. [pProfile[n] EXCEPT !.items = Append(old, item)] = section
    BY <1>1, ItemsReplaced
  <2> QED
    BY <2>1, <2>2
<1>9. pLstItmNode' = <<n, Len(old) + 1>>
  BY HangsLast
<1> HIDE DEF section, item, n
<1>6. /\ pProfile' \in Seq(Sections) /\ Len(pProfile') = n
      /\ pProfile'[n] = section
      /\ \A s \in 1..n : s # n => pProfile'[s] = pProfile[s]
  BY <1>1, <1>4, <1>5 DEF n
<1>7. section.items = Append(old, item) /\ section.name = pProfile[n].name
  BY DEF section
<1> HIDE DEF old
<1>8. \A s \in 1..n : pProfile'[s].name = pProfile[s].name
  BY <1>6, <1>7
<1> QED
  BY <1>1, <1>3, <1>6, <1>7, <1>8, <1>9 DEF n, old, item

(* The lists have their types, and items go to the section read last       *)
(* (Profile.cpp:183).                                                      *)
THEOREM TypeInvariant == Spec => []TypeInv
<1>1. Init => TypeInv
  BY ProfileAssumption DEF Init, TypeInv
<1>2. TypeInv /\ [Next]_vars => TypeInv'
  <2> SUFFICES ASSUME TypeInv, [Next]_vars PROVE TypeInv'
    OBVIOUS
  <2> USE ProfileAssumption
  <2>1. CASE LoadProfile
    BY <2>1 DEF LoadProfile, TypeInv, ItemPointer
  <2>2. CASE ReadLine
    <3>1. PICK line \in Lines :
            /\ text' = Append(text, line)
            /\ SectionLine(line) \/ ItemLine(line) \/ NoteLine(line) \/ BadLine(line)
      BY <2>2 DEF ReadLine
    <3>2. status = "loading" /\ Len(text) < MaxLines
      BY <2>2 DEF ReadLine
    <3>3. text' \in Seq(Lines) /\ Len(text') = Len(text) + 1 /\ Len(text') <= MaxLines
      BY <3>1, <3>2 DEF TypeInv
    <3>4. CASE SectionLine(line)
      <4>1. pProfile' \in Seq(Sections) /\ Len(pProfile') = Len(pProfile) + 1
        BY <3>4, SectionAdded
      <4>2. plstSecNode' = Len(pProfile') /\ status' = status
        BY <3>4, <4>1 DEF SectionLine
      <4>3. pProfile'[Len(pProfile')].items = <<>>
        <5>1. pProfile'[Len(pProfile) + 1] = [name |-> line.name, items |-> <<>>]
          BY <3>4, SectionAdded
        <5> QED
          BY <4>1, <5>1
      <4>4. ItemPointer'
        BY <4>2, <4>3 DEF ItemPointer
      <4> QED
        BY <3>2, <3>3, <4>1, <4>2, <4>4 DEF TypeInv
    <3>5. CASE ItemLine(line)
      <4>1. CASE plstSecNode = 0
        BY <3>2, <3>3, <3>5, <4>1 DEF TypeInv, ItemLine
      <4>2. CASE plstSecNode # 0
        <5>1. pProfile' \in Seq(Sections) /\ Len(pProfile') = Len(pProfile)
          BY <3>2, <3>5, <4>2, ItemAdded
        <5>2. plstSecNode' = plstSecNode /\ status' = status
          BY <3>5, <4>2 DEF ItemLine
        <5>3. plstSecNode = Len(pProfile)
          BY <3>2 DEF TypeInv
        <5>4. pLstItmNode' = <<Len(pProfile), Len(pProfile'[Len(pProfile)].items)>>
          BY <3>2, <3>5, <4>2, ItemAdded
        <5>5. ItemPointer'
          BY <5>2, <5>3, <5>4 DEF ItemPointer
        <5> QED
          BY <3>2, <3>3, <5>1, <5>2, <5>5 DEF TypeInv
      <4> QED
        BY <4>1, <4>2
    <3>6. CASE NoteLine(line)
      BY <3>2, <3>3, <3>6 DEF TypeInv, ItemPointer, NoteLine, pointers
    <3>7. CASE BadLine(line)
      BY <3>2, <3>3, <3>7 DEF TypeInv, BadLine, pointers
    <3> QED
      BY <3>1, <3>4, <3>5, <3>6, <3>7
  <2>3. CASE EndOfFile
    BY <2>3 DEF EndOfFile, TypeInv, pointers
  <2>4. CASE ReleaseProfile
    BY <2>4 DEF ReleaseProfile, TypeInv
  <2>5. CASE UNCHANGED vars
    BY <2>5 DEF vars, TypeInv, ItemPointer, pointers
  <2> QED
    BY <2>1, <2>2, <2>3, <2>4, <2>5 DEF Next
<1> QED
  BY <1>1, <1>2, PTL DEF Spec

LEMMA SectionsTyped ==
  ASSUME TypeInv, NEW s \in DOMAIN pProfile
  PROVE  pProfile[s].name \in Names /\ pProfile[s].items \in Seq(Items)
<1>1. pProfile[s] \in Sections
  BY DEF TypeInv
<1> QED
  BY <1>1 DEF Sections

(* The list pointers agree, over sections without items and sections named *)
(* twice (Profile.cpp:183, 218).                                           *)
THEOREM Typing == Spec => []TypeOK
<1>1. TypeInv => TypeOK
  <2> SUFFICES ASSUME TypeInv PROVE TypeOK
    OBVIOUS
  <2>1. \A s \in DOMAIN pProfile :
          pProfile[s].name \in Names /\ pProfile[s].items \in Seq(Items)
    BY SectionsTyped
  <2> QED
    BY <2>1 DEF TypeInv, TypeOK, ItemPointer
<1> QED
  BY <1>1, TypeInvariant, PTL

-----------------------------------------------------------------------------
(* The lists and the text.                                                 *)

HeadersAt(H) ==
  /\ H \in [DOMAIN pProfile -> DOMAIN text]
  /\ \A s, u \in DOMAIN pProfile : s < u => H[s] < H[u]
  /\ \A s \in DOMAIN pProfile : /\ text[H[s]].kind = "section"
                                /\ text[H[s]].name = pProfile[s].name
  /\ \A k \in DOMAIN text : text[k].kind = "section" => \E s \in DOMAIN pProfile : H[s] = k

ItemsAt(H, J) ==
  /\ \A s \in DOMAIN pProfile : \A i \in DOMAIN pProfile[s].items :
       /\ J[s][i] \in DOMAIN text
       /\ text[J[s][i]].kind = "item"
       /\ text[J[s][i]].name = pProfile[s].items[i].name
       /\ text[J[s][i]].value = pProfile[s].items[i].value
       /\ H[s] < J[s][i] /\ \A u \in DOMAIN pProfile : s < u => J[s][i] < H[u]
  /\ \A s \in DOMAIN pProfile : \A i, l \in DOMAIN pProfile[s].items :
       i < l => J[s][i] < J[s][l]
  /\ \A k \in DOMAIN text : text[k].kind = "item" =>
       \E s \in DOMAIN pProfile : \E i \in DOMAIN pProfile[s].items : J[s][i] = k

MadeFromText ==
  status \in {"loading", "loaded"} => \E H, J : HeadersAt(H) /\ ItemsAt(H, J)

-----------------------------------------------------------------------------
(* Each line keeps it so.                                                  *)

LEMMA LineRead ==
  ASSUME TypeInv, NEW line \in Lines, text' = Append(text, line)
  PROVE  /\ Len(text) \in Nat
         /\ DOMAIN text = 1..Len(text) /\ DOMAIN text' = 1 .. Len(text) + 1
         /\ \A k \in 1..Len(text) : text'[k] = text[k]
         /\ text'[Len(text) + 1] = line
BY DEF TypeInv

LEMMA SectionKeeps ==
  ASSUME TypeInv, NEW H, NEW J, HeadersAt(H), ItemsAt(H, J),
         NEW line \in Lines, text' = Append(text, line), SectionLine(line)
  PROVE  \E H2, J2 : HeadersAt(H2)' /\ ItemsAt(H2, J2)'
<1> DEFINE n == Len(pProfile)
           m == Len(text) + 1
<1>h. PICK H2 : H2 = [s \in 1 .. n + 1 |-> IF s = n + 1 THEN m ELSE H[s]]
  OBVIOUS
<1>j. PICK J2 : J2 = [s \in 1 .. n + 1 |-> IF s = n + 1 THEN <<>> ELSE J[s]]
  OBVIOUS
<1>1. /\ m \in Nat /\ DOMAIN text' = 1..m /\ m \in 1..m
      /\ \A k \in 1..m : k \in DOMAIN text \/ k = m
      /\ \A k \in DOMAIN text : k \in Nat /\ k < m /\ k \in 1..m /\ text'[k] = text[k]
      /\ text'[m] = line
  BY LineRead
<1>2. /\ n \in Nat /\ DOMAIN pProfile' = 1 .. n + 1 /\ n + 1 \in 1 .. n + 1
      /\ \A s \in 1 .. n + 1 : s \in DOMAIN pProfile \/ s = n + 1
      /\ \A s \in DOMAIN pProfile : /\ s \in Nat /\ s < n + 1 /\ s \in 1 .. n + 1
                                    /\ pProfile'[s] = pProfile[s]
      /\ pProfile'[n + 1].name = line.name /\ pProfile'[n + 1].items = <<>>
  <2>1. /\ pProfile \in Seq(Sections) /\ pProfile' \in Seq(Sections) /\ Len(pProfile') = n + 1
        /\ \A s \in 1..n : pProfile'[s] = pProfile[s]
        /\ pProfile'[n + 1] = [name |-> line.name, items |-> <<>>]
    BY SectionAdded DEF TypeInv
  <2>2. n \in Nat /\ DOMAIN pProfile = 1..n /\ DOMAIN pProfile' = 1 .. n + 1
    BY <2>1
  <2>3. pProfile'[n + 1].name = line.name /\ pProfile'[n + 1].items = <<>>
    BY <2>1
  <2> HIDE DEF n
  <2> QED
    BY <2>1, <2>2, <2>3
<1>3. line.kind = "section"
  BY DEF SectionLine
<1>4. /\ H2 \in [1 .. n + 1 -> 1..m]
      /\ H2[n + 1] = m /\ \A s \in DOMAIN pProfile : H2[s] = H[s] /\ H[s] \in DOMAIN text
  BY <1>h, <1>1, <1>2 DEF HeadersAt
<1>5. \A s \in DOMAIN pProfile : J2[s] = J[s]
  BY <1>j, <1>2
<1> HIDE DEF m, n
<1>6. HeadersAt(H2)'
  <2>1. \A s, u \in 1 .. n + 1 : s < u => H2[s] < H2[u]
    <3> TAKE s, u \in 1 .. n + 1
    <3> HAVE s < u
    <3>1. s \in DOMAIN pProfile
      BY <1>2
    <3>2. H2[s] = H[s] /\ H[s] < m
      BY <1>1, <1>4, <3>1
    <3>3. CASE u = n + 1
      BY <1>4, <3>2, <3>3
    <3>4. CASE u # n + 1
      BY <1>2, <1>4, <3>1, <3>4 DEF HeadersAt
    <3> QED
      BY <3>3, <3>4
  <2>2. \A s \in 1 .. n + 1 : /\ text'[H2[s]].kind = "section"
                              /\ text'[H2[s]].name = pProfile'[s].name
    <3> TAKE s \in 1 .. n + 1
    <3>1. CASE s = n + 1
      BY <1>1, <1>2, <1>3, <1>4, <3>1
    <3>2. CASE s \in DOMAIN pProfile
      <4>1. text[H[s]].kind = "section" /\ text[H[s]].name = pProfile[s].name
        BY <3>2 DEF HeadersAt
      <4> QED
        BY <1>1, <1>2, <1>4, <3>2, <4>1
    <3> QED
      BY <1>2, <3>1, <3>2
  <2>3. \A k \in 1..m : text'[k].kind = "section" => \E s \in 1 .. n + 1 : H2[s] = k
    BY <1>1, <1>2, <1>4 DEF HeadersAt
  <2> QED
    <3>1. DOMAIN pProfile' = 1 .. n + 1 /\ DOMAIN text' = 1..m /\ H2 \in [1 .. n + 1 -> 1..m]
      BY <1>1, <1>2, <1>4
    <3>2. H2 \in [DOMAIN pProfile' -> DOMAIN text']
      BY <3>1
    <3>3. \A s, u \in DOMAIN pProfile' : s < u => H2[s] < H2[u]
      BY <2>1, <3>1
    <3>4. \A s \in DOMAIN pProfile' : /\ text'[H2[s]].kind = "section"
                                      /\ text'[H2[s]].name = pProfile'[s].name
      BY <2>2, <3>1
    <3>5. \A k \in DOMAIN text' : text'[k].kind = "section" =>
            \E s \in DOMAIN pProfile' : H2[s] = k
      BY <2>3, <3>1
    <3> QED
      BY <3>2, <3>3, <3>4, <3>5, Zenon DEF HeadersAt
<1>7. ItemsAt(H2, J2)'
  <2>1. ASSUME NEW s \in 1 .. n + 1, NEW i \in DOMAIN pProfile'[s].items
        PROVE  s \in DOMAIN pProfile /\ pProfile'[s] = pProfile[s] /\ i \in DOMAIN pProfile[s].items
    BY <1>2, <2>1
  <2>2. ASSUME NEW s \in 1 .. n + 1, NEW i \in DOMAIN pProfile'[s].items
        PROVE  /\ J2[s][i] \in 1..m
               /\ text'[J2[s][i]].kind = "item"
               /\ text'[J2[s][i]].name = pProfile'[s].items[i].name
               /\ text'[J2[s][i]].value = pProfile'[s].items[i].value
               /\ H2[s] < J2[s][i] /\ \A u \in 1 .. n + 1 : s < u => J2[s][i] < H2[u]
    <3>1. s \in DOMAIN pProfile /\ pProfile'[s] = pProfile[s] /\ i \in DOMAIN pProfile[s].items
      BY <2>1
    <3>2. J2[s][i] = J[s][i] /\ H2[s] = H[s] /\ J[s][i] \in DOMAIN text
      BY <1>4, <1>5, <3>1 DEF ItemsAt
    <3>3. J[s][i] < m /\ J[s][i] \in 1..m /\ text'[J[s][i]] = text[J[s][i]]
      BY <1>1, <3>2
    <3>4. \A u \in 1 .. n + 1 : s < u => J[s][i] < H2[u]
      <4> TAKE u \in 1 .. n + 1
      <4> HAVE s < u
      <4>1. CASE u = n + 1
        BY <1>4, <3>3, <4>1
      <4>2. CASE u # n + 1
        BY <1>2, <1>4, <3>1, <4>2 DEF ItemsAt
      <4> QED
        BY <4>1, <4>2
    <3> QED
      BY <3>1, <3>2, <3>3, <3>4 DEF ItemsAt
  <2>3. \A s \in 1 .. n + 1 : \A i, l \in DOMAIN pProfile'[s].items :
          i < l => J2[s][i] < J2[s][l]
    BY <1>5, <2>1 DEF ItemsAt
  <2>4. \A k \in 1..m : text'[k].kind = "item" =>
          \E s \in 1 .. n + 1 : \E i \in DOMAIN pProfile'[s].items : J2[s][i] = k
    <3> TAKE k \in 1..m
    <3> HAVE text'[k].kind = "item"
    <3>1. k \in DOMAIN text /\ text[k].kind = "item"
      BY <1>1, <1>3
    <3>2. PICK s \in DOMAIN pProfile : \E i \in DOMAIN pProfile[s].items : J[s][i] = k
      BY <3>1 DEF ItemsAt
    <3> QED
      BY <1>2, <1>5, <3>2
  <2> QED
    <3>1. DOMAIN pProfile' = 1 .. n + 1 /\ DOMAIN text' = 1..m
      BY <1>1, <1>2
    <3>2. \A s \in DOMAIN pProfile' : \A i \in DOMAIN pProfile'[s].items :
            /\ J2[s][i] \in DOMAIN text'
            /\ text'[J2[s][i]].kind = "item"
            /\ text'[J2[s][i]].name = pProfile'[s].items[i].name
            /\ text'[J2[s][i]].value = pProfile'[s].items[i].value
            /\ H2[s] < J2[s][i] /\ \A u \in DOMAIN pProfile' : s < u => J2[s][i] < H2[u]
      BY <2>2, <3>1, Zenon
    <3>3. \A s \in DOMAIN pProfile' : \A i, l \in DOMAIN pProfile'[s].items :
            i < l => J2[s][i] < J2[s][l]
      BY <2>3, <3>1
    <3>4. \A k \in DOMAIN text' : text'[k].kind = "item" =>
            \E s \in DOMAIN pProfile' : \E i \in DOMAIN pProfile'[s].items : J2[s][i] = k
      BY <2>4, <3>1
    <3> QED
      BY <3>2, <3>3, <3>4, Zenon DEF ItemsAt
<1> QED
  BY <1>6, <1>7

LEMMA ItemKeeps ==
  ASSUME TypeInv, NEW H, NEW J, HeadersAt(H), ItemsAt(H, J), status = "loading",
         NEW line \in Lines, text' = Append(text, line), ItemLine(line), plstSecNode # 0
  PROVE  \E H2, J2 : HeadersAt(H2)' /\ ItemsAt(H2, J2)'
<1> DEFINE n == Len(pProfile)
           m == Len(text) + 1
           last == Len(pProfile[n].items) + 1
<1>r. PICK row : row = [i \in 1..last |-> IF i = last THEN m ELSE J[n][i]]
  OBVIOUS
<1>j. PICK J2 : J2 = [s \in 1..n |-> IF s = n THEN row ELSE J[s]]
  OBVIOUS
<1>1. /\ m \in Nat /\ DOMAIN text' = 1..m /\ m \in 1..m
      /\ \A k \in 1..m : k \in DOMAIN text \/ k = m
      /\ \A k \in DOMAIN text : k \in Nat /\ k < m /\ k \in 1..m /\ text'[k] = text[k]
      /\ text'[m] = line
  BY LineRead
<1>2. /\ n \in Nat /\ n \in 1..n /\ DOMAIN pProfile = 1..n /\ DOMAIN pProfile' = 1..n
      /\ \A s \in 1..n : /\ s \in Nat /\ s <= n /\ pProfile'[s].name = pProfile[s].name
                         /\ s # n => pProfile'[s] = pProfile[s]
  <2>1. /\ n \in 1..n /\ pProfile \in Seq(Sections) /\ pProfile' \in Seq(Sections)
        /\ Len(pProfile') = n
        /\ \A s \in 1..n : /\ pProfile'[s].name = pProfile[s].name
                           /\ s # n => pProfile'[s] = pProfile[s]
    BY ItemAdded DEF TypeInv
  <2>2. n \in Nat /\ DOMAIN pProfile = 1..n /\ DOMAIN pProfile' = 1..n
    BY <2>1
  <2> HIDE DEF n
  <2> QED
    BY <2>1, <2>2
<1>3. /\ last \in Nat /\ DOMAIN pProfile'[n].items = 1..last /\ last \in 1..last
      /\ \A i \in 1..last : i \in DOMAIN pProfile[n].items \/ i = last
      /\ \A i \in DOMAIN pProfile[n].items : /\ i \in Nat /\ i < last /\ i \in 1..last
                                             /\ pProfile'[n].items[i] = pProfile[n].items[i]
      /\ pProfile'[n].items[last].name = line.name
      /\ pProfile'[n].items[last].value = line.value
  <2> DEFINE old == pProfile[n].items
             new == pProfile'[n].items
  <2>1. /\ old \in Seq(Items) /\ new \in Seq(Items) /\ Len(new) = Len(old) + 1
        /\ \A i \in 1..Len(old) : new[i] = old[i]
        /\ new[Len(old) + 1] = [name |-> line.name, value |-> line.value]
    BY ItemAdded
  <2> HIDE DEF old, new
  <2>2. last = Len(old) + 1
    BY DEF old
  <2> HIDE DEF last
  <2>3. /\ last \in Nat /\ DOMAIN old = 1 .. last - 1 /\ DOMAIN new = 1..last
        /\ \A i \in 1 .. last - 1 : new[i] = old[i]
        /\ new[last].name = line.name /\ new[last].value = line.value
    BY <2>1, <2>2
  <2>4. /\ last \in 1..last
        /\ \A i \in 1..last : i \in DOMAIN old \/ i = last
        /\ \A i \in DOMAIN old : i \in Nat /\ i < last /\ i \in 1..last /\ new[i] = old[i]
    BY <2>1, <2>2, <2>3
  <2> QED
    BY <2>3, <2>4, Zenon DEF old, new
<1>4. line.kind = "item"
  BY DEF ItemLine
<1>5. /\ J2[n][last] = m
      /\ \A i \in DOMAIN pProfile[n].items : J2[n][i] = J[n][i]
      /\ \A s \in 1..n : s # n => J2[s] = J[s]
  <2> HIDE DEF n, m, last
  <2>1. row[last] = m /\ \A i \in DOMAIN pProfile[n].items : row[i] = J[n][i]
    BY <1>r, <1>3
  <2>2. J2[n] = row /\ \A s \in 1..n : s # n => J2[s] = J[s]
    BY <1>j, <1>2
  <2> QED
    BY <2>1, <2>2
<1> HIDE DEF n, m, last
<1>6. HeadersAt(H)'
  <2>1. /\ H \in [1..n -> 1..m]
        /\ \A s \in 1..n : H[s] \in DOMAIN text
    BY <1>1, <1>2 DEF HeadersAt
  <2>2. \A s \in 1..n : /\ text'[H[s]].kind = "section"
                        /\ text'[H[s]].name = pProfile'[s].name
    BY <1>1, <1>2, <2>1 DEF HeadersAt
  <2>3. \A k \in 1..m : text'[k].kind = "section" => \E s \in 1..n : H[s] = k
    BY <1>1, <1>2, <1>4 DEF HeadersAt
  <2> QED
    BY <1>1, <1>2, <2>1, <2>2, <2>3 DEF HeadersAt
<1>7. ItemsAt(H, J2)'
  <2>1. ASSUME NEW s \in 1..n, NEW i \in DOMAIN pProfile'[s].items
        PROVE  \/ s = n /\ i = last
               \/ /\ i \in DOMAIN pProfile[s].items /\ J2[s][i] = J[s][i]
                  /\ pProfile'[s].items[i] = pProfile[s].items[i]
    BY <1>2, <1>3, <1>5
  <2>2. \A s \in 1..n : \A i \in DOMAIN pProfile[s].items :
          J[s][i] \in Nat /\ J[s][i] < m /\ J[s][i] \in 1..m /\ text'[J[s][i]] = text[J[s][i]]
    BY <1>1, <1>2 DEF ItemsAt
  <2>3. ASSUME NEW s \in 1..n, NEW i \in DOMAIN pProfile'[s].items
        PROVE  /\ J2[s][i] \in 1..m
               /\ text'[J2[s][i]].kind = "item"
               /\ text'[J2[s][i]].name = pProfile'[s].items[i].name
               /\ text'[J2[s][i]].value = pProfile'[s].items[i].value
               /\ H[s] < J2[s][i] /\ \A u \in 1..n : s < u => J2[s][i] < H[u]
    <3>1. CASE s = n /\ i = last
      <4>1. H[n] < m
        BY <1>1, <1>2 DEF HeadersAt
      <4> QED
        BY <1>1, <1>2, <1>3, <1>4, <1>5, <3>1, <4>1
    <3>2. CASE i \in DOMAIN pProfile[s].items /\ J2[s][i] = J[s][i]
                 /\ pProfile'[s].items[i] = pProfile[s].items[i]
      <4>1. /\ text[J[s][i]].kind = "item"
            /\ text[J[s][i]].name = pProfile[s].items[i].name
            /\ text[J[s][i]].value = pProfile[s].items[i].value
            /\ H[s] < J[s][i] /\ \A u \in 1..n : s < u => J[s][i] < H[u]
        <5>1. s \in DOMAIN pProfile /\ i \in DOMAIN pProfile[s].items /\ DOMAIN pProfile = 1..n
          BY <1>2, <3>2
        <5> QED
          BY <5>1, Zenon DEF ItemsAt
      <4> QED
        BY <2>2, <3>2, <4>1
    <3> QED
      BY <2>1, <3>1, <3>2
  <2>4. ASSUME NEW s \in 1..n, NEW i \in DOMAIN pProfile'[s].items,
               NEW l \in DOMAIN pProfile'[s].items, i < l
        PROVE  J2[s][i] < J2[s][l]
    <3>1. i \in DOMAIN pProfile[s].items /\ J2[s][i] = J[s][i]
      BY <1>3, <2>1, <2>4
    <3>2. CASE s = n /\ l = last
      BY <1>5, <2>2, <3>1, <3>2
    <3>3. CASE l \in DOMAIN pProfile[s].items /\ J2[s][l] = J[s][l]
      BY <1>2, <2>4, <3>1, <3>3 DEF ItemsAt
    <3> QED
      BY <2>1, <3>2, <3>3
  <2>5. \A k \in 1..m : text'[k].kind = "item" =>
          \E s \in 1..n : \E i \in DOMAIN pProfile'[s].items : J2[s][i] = k
    <3> TAKE k \in 1..m
    <3> HAVE text'[k].kind = "item"
    <3>1. CASE k = m
      BY <1>2, <1>3, <1>5, <3>1
    <3>2. CASE k # m
      <4>1. k \in DOMAIN text /\ text[k].kind = "item"
        BY <1>1, <3>2
      <4>2. PICK s \in 1..n : \E i \in DOMAIN pProfile[s].items : J[s][i] = k
        BY <1>2, <4>1 DEF ItemsAt
      <4>3. PICK i \in DOMAIN pProfile[s].items : J[s][i] = k
        BY <4>2
      <4>4. i \in DOMAIN pProfile'[s].items /\ J2[s][i] = k
        BY <1>2, <1>3, <1>5, <4>3
      <4> QED
        BY <4>4
    <3> QED
      BY <3>1, <3>2
  <2> QED
    <3>1. DOMAIN pProfile' = 1..n /\ DOMAIN text' = 1..m
      BY <1>1, <1>2
    <3>2. \A s \in DOMAIN pProfile' : \A i \in DOMAIN pProfile'[s].items :
            /\ J2[s][i] \in DOMAIN text'
            /\ text'[J2[s][i]].kind = "item"
            /\ text'[J2[s][i]].name = pProfile'[s].items[i].name
            /\ text'[J2[s][i]].value = pProfile'[s].items[i].value
            /\ H[s] < J2[s][i] /\ \A u \in DOMAIN pProfile' : s < u => J2[s][i] < H[u]
      BY <2>3, <3>1, Zenon
    <3>3. \A s \in DOMAIN pProfile' : \A i, l \in DOMAIN pProfile'[s].items :
            i < l => J2[s][i] < J2[s][l]
      BY <2>4, <3>1
    <3>4. \A k \in DOMAIN text' : text'[k].kind = "item" =>
            \E s \in DOMAIN pProfile' : \E i \in DOMAIN pProfile'[s].items : J2[s][i] = k
      BY <2>5, <3>1
    <3> QED
      BY <3>2, <3>3, <3>4, Zenon DEF ItemsAt
<1> QED
  BY <1>6, <1>7

LEMMA NoteKeeps ==
  ASSUME TypeInv, NEW H, NEW J, HeadersAt(H), ItemsAt(H, J),
         NEW line \in Lines, text' = Append(text, line), NoteLine(line)
  PROVE  HeadersAt(H)' /\ ItemsAt(H, J)'
<1> DEFINE m == Len(text) + 1
<1>1. /\ DOMAIN text' = 1..m
      /\ \A k \in 1..m : k \in DOMAIN text \/ k = m
      /\ \A k \in DOMAIN text : k \in 1..m /\ text'[k] = text[k]
      /\ text'[m] = line
  BY LineRead
<1>2. line.kind = "note" /\ pProfile' = pProfile
  BY DEF NoteLine
<1> HIDE DEF m
<1>3. HeadersAt(H)'
  BY <1>1, <1>2 DEF HeadersAt
<1>4. ItemsAt(H, J)'
  BY <1>1, <1>2 DEF ItemsAt
<1> QED
  BY <1>3, <1>4

(* The lists are those of the text of this load, whatever an earlier load  *)
(* read before it failed (Profile.cpp:229).                                *)
THEOREM ListsInvariant == Spec => []MadeFromText
<1>1. Init => MadeFromText
  BY DEF Init, MadeFromText
<1>2. TypeInv /\ MadeFromText /\ [Next]_vars => MadeFromText'
  <2> SUFFICES ASSUME TypeInv, MadeFromText, [Next]_vars PROVE MadeFromText'
    OBVIOUS
  <2>1. CASE LoadProfile
    <3>1. pProfile' = <<>> /\ text' = <<>>
      BY <2>1 DEF LoadProfile, TypeInv
    <3>2. HeadersAt(<<>>)' /\ ItemsAt(<<>>, <<>>)'
      BY <3>1 DEF HeadersAt, ItemsAt
    <3> QED
      BY <3>2 DEF MadeFromText
  <2>2. CASE ReadLine
    <3>1. PICK line \in Lines :
            /\ text' = Append(text, line)
            /\ SectionLine(line) \/ ItemLine(line) \/ NoteLine(line) \/ BadLine(line)
      BY <2>2 DEF ReadLine
    <3>2. status = "loading"
      BY <2>2 DEF ReadLine
    <3>3. PICK H, J : HeadersAt(H) /\ ItemsAt(H, J)
      BY <3>2 DEF MadeFromText
    <3>4. CASE SectionLine(line)
      BY <3>1, <3>3, <3>4, SectionKeeps DEF MadeFromText
    <3>5. CASE ItemLine(line)
      <4>1. CASE plstSecNode = 0
        BY <3>5, <4>1 DEF ItemLine, MadeFromText
      <4>2. CASE plstSecNode # 0
        BY <3>1, <3>2, <3>3, <3>5, <4>2, ItemKeeps DEF MadeFromText
      <4> QED
        BY <4>1, <4>2
    <3>6. CASE NoteLine(line)
      BY <3>1, <3>3, <3>6, NoteKeeps DEF MadeFromText
    <3>7. CASE BadLine(line)
      BY <3>7 DEF BadLine, MadeFromText
    <3> QED
      BY <3>1, <3>4, <3>5, <3>6, <3>7
  <2>3. CASE EndOfFile
    BY <2>3 DEF EndOfFile, MadeFromText, HeadersAt, ItemsAt
  <2>4. CASE ReleaseProfile
    BY <2>4 DEF ReleaseProfile, MadeFromText
  <2>5. CASE UNCHANGED vars
    BY <2>5 DEF vars, MadeFromText, HeadersAt, ItemsAt
  <2> QED
    BY <2>1, <2>2, <2>3, <2>4, <2>5 DEF Next
<1> QED
  BY <1>1, <1>2, TypeInvariant, PTL DEF Spec

-----------------------------------------------------------------------------
(* A lookup finds what the text says.                                      *)

LEMMA LookupFinds ==
  ASSUME TypeInv, MadeFromText, status = "loaded", NEW section, NEW item
  PROVE  GetProfValue(section, item) = Expected(section, item)
<1> DEFINE named == {s \in DOMAIN pProfile : pProfile[s].name = section}
           heads == {k \in HeadersIn(text) : text[k].name = section}
<1>1. PICK H, J : HeadersAt(H) /\ ItemsAt(H, J)
  BY DEF MadeFromText
<1>2. /\ DOMAIN pProfile \subseteq Nat /\ 0 \notin DOMAIN pProfile
      /\ DOMAIN text \subseteq Nat /\ 0 \notin DOMAIN text
  BY DEF TypeInv
<1>3. named \subseteq Nat /\ heads \subseteq Nat /\ 0 \notin named /\ 0 \notin heads
  BY <1>2 DEF HeadersIn
<1>4. \A k \in heads : \E s \in named : H[s] = k
  BY <1>1 DEF HeadersAt, HeadersIn
<1>5. \A s \in named : H[s] \in heads
  BY <1>1 DEF HeadersAt, HeadersIn
<1>6. CASE named = {}
  <2>1. heads = {}
    BY <1>4, <1>6
  <2>2. First(pProfile, section) = 0 /\ Least(heads) = 0
    BY <1>6, <2>1, NoLeast DEF First
  <2> QED
    BY <2>2 DEF GetProfValue, Expected
<1>7. CASE named # {}
  <2> DEFINE s == Least(named)
  <2>1. s \in named /\ \A u \in named : s <= u
    BY <1>3, <1>7, SomeLeast
  <2>2. First(pProfile, section) = s
    BY DEF First
  <2> HIDE DEF s
  <2>3. s \in DOMAIN pProfile /\ s \in Nat /\ s # 0 /\ H[s] \in Nat /\ H[s] # 0
    BY <1>1, <1>2, <2>1 DEF HeadersAt
  <2>4. Least(heads) = H[s]
    <3>1. \A k \in heads : H[s] <= k
      <4> TAKE k \in heads
      <4>1. PICK u \in named : H[u] = k
        BY <1>4
      <4>2. s = u \/ s < u
        BY <1>3, <2>1
      <4>3. s < u => H[s] < H[u]
        BY <1>1, <2>3 DEF HeadersAt
      <4> QED
        BY <1>3, <2>3, <4>1, <4>2, <4>3
    <3>2. H[s] \in heads
      BY <1>5, <2>1
    <3> HIDE DEF heads
    <3> QED
      BY <1>3, <3>1, <3>2, LeastIs
  <2> DEFINE items == pProfile[s].items
             hits == {i \in DOMAIN items : items[i].name = item}
             own == {k \in DOMAIN text :
                       /\ k > H[s] /\ text[k].kind = "item" /\ text[k].name = item
                       /\ \A j \in HeadersIn(text) : j <= H[s] \/ j > k}
  <2>5. DOMAIN items \subseteq Nat /\ 0 \notin DOMAIN items
    <3>1. items \in Seq(Items)
      BY <2>3, SectionsTyped
    <3> HIDE DEF items
    <3> QED
      BY <3>1
  <2>6. hits \subseteq Nat /\ own \subseteq Nat /\ 0 \notin hits /\ 0 \notin own
    BY <1>2, <2>5
  <2>7. \A i \in hits : J[s][i] \in own
    <3> TAKE i \in hits
    <3>1. /\ J[s][i] \in DOMAIN text /\ text[J[s][i]].kind = "item"
          /\ text[J[s][i]].name = item
          /\ H[s] < J[s][i] /\ \A u \in DOMAIN pProfile : s < u => J[s][i] < H[u]
      BY <1>1, <2>3 DEF ItemsAt
    <3>2. ASSUME NEW j \in HeadersIn(text) PROVE j <= H[s] \/ j > J[s][i]
      <4>1. PICK u \in DOMAIN pProfile : H[u] = j
        BY <1>1 DEF HeadersAt, HeadersIn
      <4>2. u < s => H[u] < H[s]
        BY <1>1, <2>3 DEF HeadersAt
      <4>3. j \in Nat /\ J[s][i] \in Nat
        BY <1>2, <3>1 DEF HeadersIn
      <4>4. u < s \/ u = s \/ s < u
        BY <1>2, <2>3
      <4> QED
        BY <2>3, <3>1, <4>1, <4>2, <4>3, <4>4
    <3>3. J[s][i] > H[s]
      BY <1>2, <2>3, <3>1
    <3> QED
      BY <3>1, <3>2, <3>3
  <2>8. \A k \in own : \E i \in hits : J[s][i] = k
    <3> TAKE k \in own
    <3>1. PICK u \in DOMAIN pProfile : \E i \in DOMAIN pProfile[u].items : J[u][i] = k
      BY <1>1 DEF ItemsAt
    <3>2. PICK i \in DOMAIN pProfile[u].items : J[u][i] = k
      BY <3>1
    <3>3. /\ H[u] < k /\ (u < s => k < H[s])
          /\ text[k].name = pProfile[u].items[i].name
      BY <1>1, <2>3, <3>2 DEF ItemsAt
    <3>4. H[u] \in HeadersIn(text) /\ H[u] \in Nat /\ k \in Nat /\ (s < u => H[s] < H[u])
      BY <1>1, <1>2, <2>3 DEF HeadersAt, HeadersIn
    <3>5. H[u] <= H[s]
      BY <2>3, <3>3, <3>4
    <3>6. u = s
      BY <1>2, <2>3, <3>3, <3>4, <3>5
    <3> QED
      BY <3>2, <3>3, <3>6
  <2>9. GetProfValue(section, item) =
          (IF Least(hits) = 0 THEN None ELSE items[Least(hits)].value)
    BY <2>2, <2>3 DEF GetProfValue, First
  <2>10. Expected(section, item) = (IF own = {} THEN None ELSE text[Least(own)].value)
    BY <2>3, <2>4 DEF Expected
  <2>11. CASE hits = {}
    <3>1. own = {} /\ Least(hits) = 0
      BY <2>8, <2>11, NoLeast
    <3> HIDE DEF items, hits, own
    <3> QED
      BY <2>9, <2>10, <3>1
  <2>12. CASE hits # {}
    <3> DEFINE i == Least(hits)
    <3>1. i \in hits /\ \A l \in hits : i <= l
      BY <2>6, <2>12, SomeLeast
    <3>2. own # {} /\ i # 0 /\ J[s][i] \in own
      BY <2>6, <2>7, <3>1
    <3> HIDE DEF i
    <3>3. \A k \in own : J[s][i] <= k
      <4> TAKE k \in own
      <4>1. PICK l \in hits : J[s][l] = k
        BY <2>8
      <4>2. i = l \/ i < l
        BY <2>6, <3>1
      <4>3. i < l => J[s][i] < J[s][l]
        BY <1>1, <2>3, <3>1 DEF ItemsAt
      <4> QED
        BY <2>6, <3>2, <4>1, <4>2, <4>3
    <3>4. Least(own) = J[s][i]
      <4> HIDE DEF own
      <4> QED
        BY <2>6, <3>2, <3>3, LeastIs
    <3>5. text[J[s][i]].value = items[i].value
      BY <1>1, <2>3, <3>1 DEF ItemsAt
    <3> HIDE DEF items, hits, own
    <3> QED
      BY <2>9, <2>10, <3>2, <3>4, <3>5 DEF i
  <2> QED
    BY <2>11, <2>12
<1> QED
  BY <1>6, <1>7

(* A loaded profile answers every lookup as its text says, for any file.   *)
THEOREM LookupsAreExpected == Spec => []LookupIsExpected
<1>1. TypeInv /\ MadeFromText => LookupIsExpected
  BY LookupFinds DEF LookupIsExpected
<1> QED
  BY <1>1, TypeInvariant, ListsInvariant, PTL
=============================================================================
