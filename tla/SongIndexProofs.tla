-------------------------- MODULE SongIndexProofs --------------------------
(***************************************************************************)
(* Proofs about TextTrim and SongIndex, for any texts that fit in memory   *)
(* and any number of rows: the trimming loops, whose positions are         *)
(* unsigned, strip what they have to, and web rows find the song they      *)
(* should.                                                                 *)
(***************************************************************************)
EXTENDS SongIndex, WellFoundedInduction, TLAPS

LEMMA LeastOf ==
  ASSUME NEW T, T \subseteq Nat, T # {}
  PROVE  \E m \in T : \A k \in T : m <= k
<1>1. PICK m \in T : \A k \in T : <<k, m>> \notin OpToRel(<, Nat)
  BY WFMin, NatLessThanWellFounded, Zenon
<1>2. \A k \in T : ~(k < m)
  BY <1>1, Zenon DEF OpToRel
<1> QED
  BY <1>2

-----------------------------------------------------------------------------
(* Where the loops stop.                                                   *)

LEMMA LeftStops ==
  ASSUME NEW S, NEW s \in Seq(S), NEW drop
  PROVE  /\ PosLeft(s, drop) \in 0..Len(s)
         /\ PosLeft(s, drop) = Len(s) \/ s[PosLeft(s, drop) + 1] \notin drop
         /\ \A q \in 0 .. PosLeft(s, drop) - 1 : s[q + 1] \in drop
<1> DEFINE T == {p \in 0..Len(s) : p = Len(s) \/ s[p + 1] \notin drop}
<1>1. Len(s) \in Nat
  OBVIOUS
<1>2. T \subseteq Nat /\ Len(s) \in T
  BY <1>1
<1>3. PICK m \in T : \A k \in T : m <= k
  <2> HIDE DEF T
  <2> QED
    BY <1>2, LeastOf
<1>4. \A q \in 0 .. m - 1 : s[q + 1] \in drop
  <2> TAKE q \in 0 .. m - 1
  <2>1. q \notin T /\ q \in 0..Len(s) /\ q # Len(s)
    BY <1>1, <1>3
  <2> QED
    BY <2>1
<1> QED
  BY <1>3, <1>4 DEF PosLeft

LEMMA RightStops ==
  ASSUME NEW S, NEW s \in Seq(S), NEW drop, s # <<>>
  PROVE  /\ PosRight(s, drop) \in 0 .. Len(s) - 1
         /\ PosRight(s, drop) = 0 \/ s[PosRight(s, drop) + 1] \notin drop
         /\ \A q \in PosRight(s, drop) + 1 .. Len(s) - 1 : s[q + 1] \in drop
<1> DEFINE n == Len(s)
           T == {d \in 0 .. n - 1 : n - 1 - d = 0 \/ s[n - d] \notin drop}
<1>1. n \in Nat /\ n > 0
  OBVIOUS
<1>2. T \subseteq Nat /\ n - 1 \in T
  BY <1>1
<1>3. PICK d \in T : \A k \in T : d <= k
  <2> HIDE DEF T
  <2>1. T # {}
    BY <1>2
  <2> QED
    BY <1>2, <2>1, LeastOf, Zenon
<1> DEFINE m == n - 1 - d
<1>4. /\ m \in 0 .. n - 1 /\ d \in 0 .. n - 1 /\ m = n - 1 - d
      /\ m = 0 \/ s[m + 1] \notin drop
  <2>1. d \in 0 .. n - 1 /\ (n - 1 - d = 0 \/ s[n - d] \notin drop)
    BY <1>3
  <2>2. n - d = m + 1 /\ m \in 0 .. n - 1
    BY <1>1, <2>1
  <2> HIDE DEF m, n, T
  <2> QED
    BY <2>1, <2>2, Zenon DEF m
<1>5. ASSUME NEW q \in m + 1 .. n - 1 PROVE s[q + 1] \in drop
  <2> DEFINE e == n - 1 - q
  <2> HIDE DEF m, n, T
  <2>1. /\ q \in Int /\ e \in 0 .. n - 1 /\ n - e = q + 1
        /\ e < d /\ d \in Int /\ e \in Int
    BY <1>1, <1>4, <1>5
  <2> HIDE DEF e
  <2>2. e \notin T
    BY <1>3, <2>1
  <2> QED
    BY <2>1, <2>2 DEF T
<1> HIDE DEF m
<1> QED
  BY <1>4, <1>5 DEF PosRight

-----------------------------------------------------------------------------
(* What the loops leave.                                                   *)

LEMMA Part ==
  ASSUME NEW S, NEW s \in Seq(S), NEW a \in 0..Len(s), NEW b \in 0..Len(s), a <= b
  PROVE  /\ SubSeq(s, a + 1, b) \in Seq(S) /\ Len(SubSeq(s, a + 1, b)) = b - a
         /\ \A k \in 1 .. b - a : SubSeq(s, a + 1, b)[k] = s[a + k]
OBVIOUS

LEMMA NothingLeft ==
  ASSUME NEW S, NEW s \in Seq(S), NEW drop, \A k \in 1..Len(s) : s[k] \in drop
  PROVE  IsStripped(s, <<>>, drop)
<1>1. <<>> = SubSeq(s, Len(s) + 1, Len(s)) /\ Len(s) \in 0..Len(s) /\ Len(s) <= Len(s)
  OBVIOUS
<1>2. \A k \in (1..Len(s)) \cup (Len(s) + 1 .. Len(s)) : s[k] \in drop
  OBVIOUS
<1> QED
  BY <1>1, <1>2 DEF IsStripped

LEMMA SomeLeft ==
  ASSUME NEW S, NEW s \in Seq(S), NEW drop, NEW a \in 0..Len(s), NEW b \in 0..Len(s),
         a < b, s[a + 1] \notin drop, s[b] \notin drop,
         \A k \in 1..a : s[k] \in drop, \A k \in b + 1 .. Len(s) : s[k] \in drop
  PROVE  IsStripped(s, SubSeq(s, a + 1, b), drop)
<1> DEFINE t == SubSeq(s, a + 1, b)
<1>1. Len(t) = b - a /\ t[1] = s[a + 1] /\ t[Len(t)] = s[b]
  <2>1. Len(t) = b - a /\ \A k \in 1 .. b - a : t[k] = s[a + k]
    BY Part
  <2>2. 1 \in 1 .. b - a /\ b - a \in 1 .. b - a /\ a + (b - a) = b
    OBVIOUS
  <2> HIDE DEF t
  <2> QED
    BY <2>1, <2>2
<1>2. \A k \in (1..a) \cup (b + 1 .. Len(s)) : s[k] \in drop
  OBVIOUS
<1>3. a <= b
  OBVIOUS
<1> HIDE DEF t
<1>4. t = SubSeq(s, a + 1, b)
  BY DEF t
<1>5. IsStripped(s, t, drop)
  BY <1>1, <1>2, <1>3, <1>4 DEF IsStripped
<1> QED
  BY <1>5 DEF t

(* The widths of positions.                                                *)
LEMMA SizeOf ==
  ASSUME NEW n \in Int
  PROVE  /\ Size(n) \in Nat
         /\ n \in 0 .. SizeLimit - 1 => Size(n) = n
BY TextAssumption DEF Size

(* One loop from each side and a length between them, though the length of *)
(* what is left of nothing is computed below zero (Profile.cpp:292,        *)
(* Utility.cpp:9).                                                         *)
LEMMA Stripped ==
  ASSUME NEW S, NEW s \in Seq(S), NEW drop, Len(s) < SizeLimit
  PROVE  Strip(s, drop) \in Seq(S) /\ IsStripped(s, Strip(s, drop), drop)
<1> DEFINE n == Len(s)
           left == PosLeft(s, drop)
           right == PosRight(s, drop)
           count == Size(right - left + 1)
<1>0. n \in Nat
  OBVIOUS
<1>1. CASE s = <<>>
  <2>1. Strip(s, drop) = s
    BY <1>1 DEF Strip
  <2>2. \A k \in 1..Len(s) : s[k] \in drop
    BY <1>1
  <2>3. IsStripped(s, s, drop)
    BY <1>1, <2>2, NothingLeft
  <2> QED
    BY <2>1, <2>3
<1>2. CASE s # <<>>
  <2>1. /\ left \in 0..n
        /\ left = n \/ s[left + 1] \notin drop
        /\ \A q \in 0 .. left - 1 : s[q + 1] \in drop
    BY LeftStops
  <2>2. /\ right \in 0 .. n - 1
        /\ right = 0 \/ s[right + 1] \notin drop
        /\ \A q \in right + 1 .. n - 1 : s[q + 1] \in drop
    BY <1>2, RightStops
  <2>3. Strip(s, drop) = SubSeq(s, left + 1, Lower(left + count, n))
    BY <1>2 DEF Strip, Substr
  <2>4. count \in Nat
    <3>1. right - left + 1 \in Int
      BY <1>0, <2>1, <2>2
    <3> HIDE DEF left, right
    <3> QED
      BY <3>1, SizeOf
  <2> HIDE DEF left, right, count, n
  <2>5. \A k \in 1..left : s[k] \in drop
    <3> TAKE k \in 1..left
    <3>1. k - 1 \in 0 .. left - 1 /\ (k - 1) + 1 = k
      BY <2>1
    <3> QED
      BY <2>1, <3>1
  <2>6. CASE left = n
    <3>1. Lower(left + count, n) = n
      BY <1>0, <2>4, <2>6 DEF Lower
    <3>2. Strip(s, drop) = <<>> /\ \A k \in 1..Len(s) : s[k] \in drop
      BY <2>3, <2>5, <2>6, <3>1 DEF n
    <3>3. IsStripped(s, <<>>, drop)
      BY <3>2, NothingLeft
    <3> QED
      BY <3>2, <3>3
  <2>7. CASE left # n
    <3>1. s[left + 1] \notin drop /\ left < n
      BY <1>0, <2>1, <2>7
    <3>2. left <= right
      <4> SUFFICES ASSUME right < left PROVE FALSE
        BY <2>1, <2>2
      <4>1. left \in right + 1 .. n - 1
        BY <1>0, <2>1, <2>2, <3>1
      <4> QED
        BY <2>2, <3>1, <4>1
    <3>3. count = right - left + 1
      <4>1. right - left + 1 \in 0 .. SizeLimit - 1
        BY <1>0, <2>1, <2>2, <3>2, TextAssumption DEF n
      <4> QED
        BY <4>1, SizeOf DEF count
    <3>4. Lower(left + count, n) = right + 1
      BY <1>0, <2>1, <2>2, <3>3 DEF Lower
    <3>5. s[right + 1] \notin drop
      BY <2>1, <2>2, <3>1, <3>2
    <3>6. \A k \in right + 2 .. n : s[k] \in drop
      <4> TAKE k \in right + 2 .. n
      <4>1. k - 1 \in right + 1 .. n - 1 /\ (k - 1) + 1 = k
        BY <1>0, <2>2
      <4> QED
        BY <2>2, <4>1
    <3> DEFINE b == right + 1
    <3>7. b \in 0..n /\ left \in 0..n /\ left < b /\ \A k \in b + 1 .. n : s[k] \in drop
      BY <1>0, <2>1, <2>2, <3>2, <3>6
    <3> HIDE DEF b
    <3>8. Strip(s, drop) = SubSeq(s, left + 1, b) /\ s[b] \notin drop
      BY <2>3, <3>4, <3>5 DEF b
    <3>9. Strip(s, drop) \in Seq(S)
      BY <3>7, <3>8, Part DEF n
    <3>10. IsStripped(s, SubSeq(s, left + 1, b), drop)
      BY <2>5, <3>1, <3>7, <3>8, SomeLeft DEF n
    <3> QED
      BY <3>8, <3>9, <3>10
  <2> QED
    BY <2>6, <2>7
<1> QED
  BY <1>1, <1>2

LEMMA SubOfSub ==
  ASSUME NEW S, NEW s \in Seq(S), NEW a \in 0..Len(s), NEW c \in 0 .. Len(s) - a
  PROVE  SubSeq(SubSeq(s, a + 1, Len(s)), 1, c) = SubSeq(s, a + 1, a + c)
<1> DEFINE u == SubSeq(s, a + 1, Len(s))
           v == SubSeq(u, 1, c)
           w == SubSeq(s, a + 1, a + c)
<1>1. u \in Seq(S) /\ Len(u) = Len(s) - a /\ \A k \in 1 .. Len(s) - a : u[k] = s[a + k]
  <2>1. Len(s) \in 0..Len(s) /\ a <= Len(s)
    OBVIOUS
  <2> QED
    BY <2>1, Part
<1>2. a + c \in 0..Len(s) /\ a <= a + c /\ (a + c) - a = c /\ c \in Nat
  OBVIOUS
<1>3. w \in Seq(S) /\ Len(w) = c /\ \A k \in 1..c : w[k] = s[a + k]
  <2>1. /\ w \in Seq(S) /\ Len(w) = (a + c) - a
        /\ \A k \in 1 .. (a + c) - a : w[k] = s[a + k]
    <3> HIDE DEF u
    <3> QED
      BY <1>2, Part
  <2> QED
    BY <1>2, <2>1
<1> HIDE DEF u, w
<1>4. v \in Seq(S) /\ Len(v) = c /\ \A k \in 1..c : v[k] = u[k]
  <2>1. 0 \in 0..Len(u) /\ c \in 0..Len(u) /\ 0 <= c
    BY <1>1, <1>2
  <2>2. \A k \in 1..c : u[0 + k] = u[k]
    BY <1>2
  <2> QED
    BY <1>1, <1>2, <2>1, <2>2
<1> HIDE DEF v
<1>5. \A k \in 1..c : v[k] = w[k]
  BY <1>1, <1>2, <1>3, <1>4
<1>6. v = w
  BY <1>2, <1>3, <1>4, <1>5
<1> QED
  BY <1>6 DEF u, v, w

LastPart(s, b, n, drop) == \A k \in b + 1 .. n : s[k] \in drop

LEMMA TailDropped ==
  ASSUME NEW n \in Nat, NEW p \in 0..n, NEW r \in 0 .. n - p - 1, NEW s, NEW u, NEW drop,
         \A k \in 1 .. n - p : u[k] = s[p + k],
         \A q \in r + 1 .. n - p - 1 : u[q + 1] \in drop
  PROVE  LastPart(s, p + (r + 1), n, drop)
<1> SUFFICES \A k \in p + (r + 1) + 1 .. n : s[k] \in drop
  BY DEF LastPart
<1> TAKE k \in p + (r + 1) + 1 .. n
<1> DEFINE q == (k - p) - 1
<1>1. q \in r + 1 .. n - p - 1 /\ q + 1 \in 1 .. n - p /\ p + (q + 1) = k
  OBVIOUS
<1> HIDE DEF q
<1>2. u[q + 1] = s[k] /\ u[q + 1] \in drop
  BY <1>1
<1> QED
  BY <1>2

(* The trimming of the columns, in two halves; the second never gets a     *)
(* text of blanks from the first (Utility.cpp:8, 20, 35).                  *)
LEMMA Trimmed ==
  ASSUME NEW S, NEW s \in Seq(S), NEW p, p = PosLeft(s, Blanks)
  PROVE  trim(s) \in Seq(S) /\ IsStripped(s, trim(s), Blanks)
<1> DEFINE n == Len(s)
           u == SubSeq(s, p + 1, n)
           r == PosRight(u, Blanks)
           b == p + (r + 1)
<1>1. /\ p \in 0..n /\ n \in Nat
      /\ p = n \/ s[p + 1] \notin Blanks
      /\ \A q \in 0 .. p - 1 : s[q + 1] \in Blanks
  BY LeftStops
<1>2. \A k \in 1..p : s[k] \in Blanks
  <2> TAKE k \in 1..p
  <2>1. k - 1 \in 0 .. p - 1 /\ (k - 1) + 1 = k
    BY <1>1
  <2> QED
    BY <1>1, <2>1
<1>3. ltrim(s) = u
  <2>1. Lower(p + (n - p), n) = n
    BY <1>1 DEF Lower
  <2> QED
    BY <2>1 DEF ltrim, Substr
<1>4. u \in Seq(S) /\ Len(u) = n - p /\ \A k \in 1 .. n - p : u[k] = s[p + k]
  <2>1. n \in 0..n /\ p <= n
    BY <1>1
  <2> QED
    BY <1>1, <2>1, Part
<1>5. CASE p = n
  <2>1. u = <<>>
    BY <1>5
  <2>2. IsStripped(s, <<>>, Blanks)
    <3>1. \A k \in 1..Len(s) : s[k] \in Blanks
      BY <1>2, <1>5
    <3> QED
      BY <3>1, NothingLeft
  <2>3. rtrim(<<>>) = <<>>
    BY DEF rtrim
  <2> QED
    BY <1>3, <1>4, <2>1, <2>2, <2>3 DEF trim
<1>6. CASE p # n
  <2> HIDE DEF u, n
  <2>1. /\ s[p + 1] \notin Blanks /\ p < n /\ 1 \in 1 .. n - p
        /\ u[1] = s[p + 1] /\ u # <<>> /\ 1 \in DOMAIN u
    BY <1>1, <1>4, <1>6
  <2>2. /\ r \in 0 .. n - p - 1
        /\ r = 0 \/ u[r + 1] \notin Blanks
        /\ \A q \in r + 1 .. n - p - 1 : u[q + 1] \in Blanks
    BY <1>4, <2>1, RightStops
  <2> HIDE DEF r
  <2>3. trim(s) = SubSeq(u, 0 + 1, Lower(0 + (r + 1), Len(u)))
    BY <1>3, <2>1 DEF trim, rtrim, Substr, r
  <2>4. Lower(0 + (r + 1), Len(u)) = r + 1 /\ 0 + 1 = 1 /\ r + 1 \in 0 .. n - p
    BY <1>1, <1>4, <2>2 DEF Lower
  <2>5. trim(s) = SubSeq(s, p + 1, b)
    <3>1. trim(s) = SubSeq(SubSeq(s, p + 1, Len(s)), 1, r + 1)
      BY <2>3, <2>4, Zenon DEF u, n
    <3>2. p \in 0..Len(s) /\ r + 1 \in 0 .. Len(s) - p
      BY <1>1, <2>4, Zenon DEF n
    <3>3. SubSeq(SubSeq(s, p + 1, Len(s)), 1, r + 1) = SubSeq(s, p + 1, p + (r + 1))
      BY <3>2, SubOfSub, Zenon
    <3> QED
      BY <3>1, <3>3, Zenon
  <2>6. b \in 0..n /\ p < b /\ p <= b /\ s[b] \notin Blanks
    <3>1. r + 1 \in 1 .. n - p /\ u[r + 1] \notin Blanks
      BY <1>1, <2>1, <2>2
    <3> QED
      BY <1>1, <1>4, <3>1
  <2>7. \A k \in b + 1 .. n : s[k] \in Blanks
    <3>1. /\ n \in Nat /\ p \in 0..n /\ r \in 0 .. n - p - 1
          /\ \A k \in 1 .. n - p : u[k] = s[p + k]
          /\ \A q \in r + 1 .. n - p - 1 : u[q + 1] \in Blanks
      BY <1>1, <1>4, <2>2, Zenon
    <3>2. LastPart(s, p + (r + 1), n, Blanks)
      BY <3>1, TailDropped, Zenon
    <3> QED
      BY <3>2 DEF LastPart
  <2> HIDE DEF b
  <2>8. trim(s) \in Seq(S)
    BY <1>1, <2>5, <2>6, Part DEF n
  <2> QED
    BY <1>1, <1>2, <2>1, <2>5, <2>6, <2>7, <2>8, SomeLeft DEF n
<1> QED
  BY <1>5, <1>6

(* A text that has nothing to drop at its ends is left as it is.           *)
LEMMA StrippedStays ==
  ASSUME NEW S, NEW s \in Seq(S), NEW drop, NEW t, IsStripped(s, t, drop),
         s # <<>> => s[1] \notin drop /\ s[Len(s)] \notin drop
  PROVE  t = s
<1>1. PICK a \in 0..Len(s), b \in 0..Len(s) :
        /\ a <= b /\ t = SubSeq(s, a + 1, b)
        /\ \A k \in (1..a) \cup (b + 1 .. Len(s)) : s[k] \in drop
  BY DEF IsStripped
<1>2. a = 0 /\ b = Len(s)
  <2>1. CASE s = <<>>
    BY <2>1
  <2>2. CASE s # <<>>
    <3>1. Len(s) \in Nat \ {0}
      BY <2>2
    <3>2. ~(a > 0)
      BY <1>1, <2>2, <3>1
    <3>3. ~(b < Len(s))
      BY <1>1, <2>2, <3>1
    <3> QED
      BY <3>1, <3>2, <3>3
  <2> QED
    BY <2>1, <2>2
<1>3. t = SubSeq(s, 1, Len(s))
  BY <1>1, <1>2
<1> QED
  BY <1>3

LEMMA TrimTwice ==
  ASSUME NEW S, NEW s \in Seq(S)
  PROVE  trim(trim(s)) = trim(s)
<1>1. trim(s) \in Seq(S) /\ IsStripped(s, trim(s), Blanks)
  BY Trimmed
<1>2. IsStripped(trim(s), trim(trim(s)), Blanks)
  BY <1>1, Trimmed
<1>3. trim(s) # <<>> => trim(s)[1] \notin Blanks /\ trim(s)[Len(trim(s))] \notin Blanks
  BY <1>1 DEF IsStripped
<1> QED
  BY <1>1, <1>2, <1>3, StrippedStays

-----------------------------------------------------------------------------
(* The keys.                                                               *)

Letters == Characters \cup {Separator}
Without(s) == \A p \in DOMAIN s : s[p] # Separator

Halves(x, a, b) ==
  /\ Len(x) = Len(a) + Len(b)
  /\ \A k \in 1..Len(a) : x[k] = a[k]
  /\ \A k \in 1..Len(b) : x[Len(a) + k] = b[k]

KeyShape(x, a, b) ==
  /\ Len(x) = Len(a) + 1 + Len(b)
  /\ \A k \in 1..Len(a) : x[k] = a[k]
  /\ x[Len(a) + 1] = Separator
  /\ \A k \in 1..Len(b) : x[Len(a) + 1 + k] = b[k]

LEMMA Concat ==
  ASSUME NEW S, NEW a \in Seq(S), NEW b \in Seq(S)
  PROVE  Halves(a \o b, a, b)
BY DEF Halves

LEMMA SameSeq ==
  ASSUME NEW S, NEW a \in Seq(S), NEW b \in Seq(S), Len(a) = Len(b),
         \A k \in 1..Len(a) : a[k] = b[k]
  PROVE  a = b
OBVIOUS

LEMMA KeyParts ==
  ASSUME NEW a \in Seq(Letters), NEW b \in Seq(Letters)
  PROVE  KeyShape(Key(a, b), a, b)
<1> DEFINE y == a \o <<Separator>>
           x == y \o b
<1>1. /\ y \in Seq(Letters) /\ Len(y) = Len(a) + 1 /\ y[Len(a) + 1] = Separator
      /\ \A k \in 1..Len(a) : y[k] = a[k]
  BY DEF Letters
<1> HIDE DEF y
<1>2. Halves(x, y, b)
  BY <1>1, Concat, Zenon
<1> HIDE DEF x
<1>3. /\ Len(x) = Len(y) + Len(b)
      /\ \A k \in 1..Len(y) : x[k] = y[k]
      /\ \A k \in 1..Len(b) : x[Len(y) + k] = b[k]
  BY <1>2 DEF Halves
<1>4. Len(a) \in Nat /\ 1..Len(a) \subseteq 1 .. Len(a) + 1 /\ Len(a) + 1 \in 1 .. Len(a) + 1
  OBVIOUS
<1>5. KeyShape(x, a, b)
  BY <1>1, <1>3, <1>4 DEF KeyShape
<1> QED
  BY <1>5 DEF x, y, Key

(* A key tells title and singer apart when the titles have no underscore.  *)
LEMMA KeyTellsApart ==
  ASSUME NEW a \in Seq(Letters), NEW b \in Seq(Letters),
         NEW c \in Seq(Letters), NEW d \in Seq(Letters),
         Without(a), Without(c), Key(a, b) = Key(c, d)
  PROVE  a = c /\ b = d
<1> DEFINE x == Key(a, b)
<1>0. KeyShape(x, a, b) /\ KeyShape(x, c, d)
  <2>1. KeyShape(Key(a, b), a, b) /\ KeyShape(Key(c, d), c, d)
    BY KeyParts, Zenon
  <2> QED
    BY <2>1, Zenon
<1> HIDE DEF x
<1>1. /\ Len(x) = Len(a) + 1 + Len(b)
      /\ \A k \in 1..Len(a) : x[k] = a[k]
      /\ x[Len(a) + 1] = Separator
      /\ \A k \in 1..Len(b) : x[Len(a) + 1 + k] = b[k]
  BY <1>0, Zenon DEF KeyShape
<1>2. /\ Len(x) = Len(c) + 1 + Len(d)
      /\ \A k \in 1..Len(c) : x[k] = c[k]
      /\ x[Len(c) + 1] = Separator
      /\ \A k \in 1..Len(d) : x[Len(c) + 1 + k] = d[k]
  BY <1>0, Zenon DEF KeyShape
<1>3. /\ \A k \in 1..Len(a) : a[k] # Separator
      /\ \A k \in 1..Len(c) : c[k] # Separator
  BY DEF Without
<1>4. Len(a) \in Nat /\ Len(b) \in Nat /\ Len(c) \in Nat /\ Len(d) \in Nat
  OBVIOUS
<1>5. Len(a) = Len(c)
  <2>1. ~(Len(a) < Len(c))
    <3> SUFFICES ASSUME Len(a) < Len(c) PROVE FALSE
      OBVIOUS
    <3>1. Len(a) + 1 \in 1..Len(c)
      BY <1>4
    <3> QED
      BY <1>1, <1>2, <1>3, <3>1
  <2>2. ~(Len(c) < Len(a))
    <3> SUFFICES ASSUME Len(c) < Len(a) PROVE FALSE
      OBVIOUS
    <3>1. Len(c) + 1 \in 1..Len(a)
      BY <1>4
    <3> QED
      BY <1>1, <1>2, <1>3, <3>1
  <2> QED
    BY <1>4, <2>1, <2>2
<1>6. Len(b) = Len(d)
  BY <1>1, <1>2, <1>4, <1>5
<1>7. \A k \in 1..Len(a) : a[k] = c[k]
  BY <1>1, <1>2, <1>5
<1>8. \A k \in 1..Len(b) : b[k] = d[k]
  BY <1>1, <1>2, <1>5, <1>6
<1>9. a = c
  BY <1>5, <1>7, SameSeq
<1>10. b = d
  BY <1>6, <1>8, SameSeq
<1> QED
  BY <1>9, <1>10

LEMMA TextTyping ==
  \A s \in Texts : /\ s \in Seq(Letters) /\ Len(s) < SizeLimit
                   /\ trim(s) \in Seq(Letters) /\ IsStripped(s, trim(s), Blanks)
                   /\ trim(trim(s)) = trim(s)
                   /\ Without(s) => Without(trim(s))
<1> TAKE s \in Texts
<1>1. s \in Seq(Characters) /\ Len(s) < SizeLimit
  BY IndexAssumption
<1>2. s \in Seq(Letters)
  BY <1>1 DEF Letters
<1>3. trim(s) \in Seq(Letters) /\ IsStripped(s, trim(s), Blanks)
  BY <1>2, Trimmed
<1>4. ASSUME Without(s) PROVE Without(trim(s))
  <2>1. PICK a \in 0..Len(s), b \in 0..Len(s) : a <= b /\ trim(s) = SubSeq(s, a + 1, b)
    BY <1>3 DEF IsStripped
  <2>2. /\ Len(trim(s)) = b - a
        /\ \A k \in 1 .. b - a : trim(s)[k] = s[a + k]
    BY <1>2, <2>1, Part
  <2>3. DOMAIN trim(s) = 1 .. b - a /\ DOMAIN s = 1..Len(s)
    BY <1>2, <1>3, <2>2
  <2> SUFFICES ASSUME NEW k \in 1 .. b - a PROVE trim(s)[k] # Separator
    BY <2>3 DEF Without
  <2>4. a + k \in DOMAIN s
    BY <2>1, <2>3
  <2> QED
    BY <1>4, <2>2, <2>4 DEF Without
<1>5. trim(trim(s)) = trim(s)
  BY <1>2, TrimTwice
<1> QED
  BY <1>1, <1>2, <1>3, <1>4, <1>5

-----------------------------------------------------------------------------
(* The map holds the keys of the rows read, each with its first row.       *)
IndexInv ==
  /\ rows \in Seq(Songs)
  /\ \A k \in DOMAIN rows : LocalKey(rows[k]) \in DOMAIN mapNameKeySongs
  /\ \A key \in DOMAIN mapNameKeySongs :
       /\ mapNameKeySongs[key] \in DOMAIN rows
       /\ LocalKey(rows[mapNameKeySongs[key]]) = key
       /\ \A k \in 1 .. mapNameKeySongs[key] - 1 : LocalKey(rows[k]) # key

(* Reading the songs (localLib.cpp:24) makes such a map.                   *)
THEOREM IndexInvariant == Spec => []IndexInv
<1>1. Init => IndexInv
  BY DEF Init, IndexInv
<1>2. IndexInv /\ [LoadSongs]_vars => IndexInv'
  <2> SUFFICES ASSUME IndexInv, [LoadSongs]_vars PROVE IndexInv'
    OBVIOUS
  <2>1. CASE UNCHANGED vars
    BY <2>1 DEF vars, IndexInv, LocalKey, Key
  <2>2. ASSUME NEW row \in Songs, LoadRow(row) PROVE IndexInv'
    <3> DEFINE n == Len(rows)
               K(r) == LocalKey(r)
               new == K(row)
    <3>1. /\ n \in Nat /\ rows' \in Seq(Songs) /\ DOMAIN rows = 1..n /\ DOMAIN rows' = 1 .. n + 1
          /\ \A k \in 1..n : rows'[k] = rows[k]
          /\ rows'[n + 1] = row
      BY <2>2 DEF IndexInv, LoadRow
    <3>2. /\ DOMAIN mapNameKeySongs' = DOMAIN mapNameKeySongs \cup {new}
          /\ \A key \in DOMAIN mapNameKeySongs : mapNameKeySongs'[key] = mapNameKeySongs[key]
          /\ new \notin DOMAIN mapNameKeySongs => mapNameKeySongs'[new] = n + 1
      BY <2>2 DEF LoadRow
    <3>3. /\ \A k \in 1..n : K(rows[k]) \in DOMAIN mapNameKeySongs
          /\ \A key \in DOMAIN mapNameKeySongs :
               /\ mapNameKeySongs[key] \in 1..n
               /\ K(rows[mapNameKeySongs[key]]) = key
               /\ \A k \in 1 .. mapNameKeySongs[key] - 1 : K(rows[k]) # key
      BY <3>1 DEF IndexInv
    <3> HIDE DEF K, n, new
    <3>4. new = K(row)
      BY DEF new
    <3>5. \A k \in 1 .. n + 1 : K(rows'[k]) \in DOMAIN mapNameKeySongs'
      <4> TAKE k \in 1 .. n + 1
      <4>1. k \in 1..n \/ k = n + 1
        BY <3>1
      <4> QED
        BY <3>1, <3>2, <3>3, <3>4, <4>1
    <3>6. ASSUME NEW key \in DOMAIN mapNameKeySongs'
          PROVE  /\ mapNameKeySongs'[key] \in 1 .. n + 1
                 /\ K(rows'[mapNameKeySongs'[key]]) = key
                 /\ \A k \in 1 .. mapNameKeySongs'[key] - 1 : K(rows'[k]) # key
      <4>1. CASE key \in DOMAIN mapNameKeySongs
        <5>1. mapNameKeySongs'[key] = mapNameKeySongs[key] /\ mapNameKeySongs[key] \in 1..n
          BY <3>2, <3>3, <4>1
        <5>2. \A k \in 1 .. mapNameKeySongs[key] - 1 : k \in 1..n
          BY <3>1, <5>1
        <5> QED
          BY <3>1, <3>3, <4>1, <5>1, <5>2
      <4>2. CASE key \notin DOMAIN mapNameKeySongs
        <5>1. key = new /\ mapNameKeySongs'[key] = n + 1 /\ (n + 1) - 1 = n /\ n + 1 \in 1 .. n + 1
          BY <3>1, <3>2, <3>6, <4>2
        <5> QED
          BY <3>1, <3>3, <3>4, <4>2, <5>1
      <4> QED
        BY <4>1, <4>2
    <3> QED
      BY <3>1, <3>5, <3>6 DEF IndexInv, K, LocalKey, Key
  <2> QED
    BY <2>1, <2>2 DEF LoadSongs
<1> QED
  BY <1>1, <1>2, PTL DEF Spec

(* A song of the catalogue hides from a web row behind nothing but a blank *)
(* at an end of the row's own title or singer (webLib.cpp:34).             *)
THEOREM NothingHidden == Spec => []MissedHasNoSong
<1>1. IndexInv => MissedHasNoSong
  <2> SUFFICES ASSUME IndexInv, NEW web \in WebSongs, NEW k \in DOMAIN rows,
                      Same(web, rows[k]), ~BlankEnded(web.title), ~BlankEnded(web.singer)
               PROVE  Found(web)
    BY DEF MissedHasNoSong
  <2>1. web.title = trim(rows[k].title) /\ web.singer = trim(rows[k].singer)
    BY DEF Same, BlankEnded
  <2> QED
    BY <2>1 DEF IndexInv, LocalKey, Found
<1> QED
  BY <1>1, IndexInvariant, PTL

(* A web row gets the first row that is its song, where titles have no     *)
(* underscore.                                                             *)
THEOREM FirstIsFound == Spec => []FoundIsFirst
<1>1. IndexInv => FoundIsFirst
  <2> SUFFICES ASSUME IndexInv, NEW web \in WebSongs, Found(web), Plain(web),
                      \A k \in DOMAIN rows : Plain(rows[k])
               PROVE  /\ Same(web, rows[SongOf(web)])
                      /\ \A k \in 1 .. SongOf(web) - 1 : ~Same(web, rows[k])
    BY DEF FoundIsFirst
  <2> DEFINE m == SongOf(web)
             key == Key(web.title, web.singer)
  <2>1. /\ m \in DOMAIN rows /\ LocalKey(rows[m]) = key
        /\ \A k \in 1 .. m - 1 : LocalKey(rows[k]) # key
    BY DEF IndexInv, Found, SongOf
  <2> HIDE DEF m
  <2>2. rows[m] \in Songs /\ web \in Songs /\ Plain(rows[m])
    BY <2>1 DEF IndexInv, WebSongs
  <2>3. PICK row \in Songs : row = rows[m]
    BY <2>2
  <2>4. row.title \in Texts /\ row.singer \in Texts /\ web.title \in Texts /\ web.singer \in Texts
    BY <2>2 DEF Songs
  <2>5. /\ trim(row.title) \in Seq(Letters) /\ trim(row.singer) \in Seq(Letters)
        /\ web.title \in Seq(Letters) /\ web.singer \in Seq(Letters)
        /\ Without(trim(row.title)) /\ Without(web.title)
    BY <2>2, <2>3, <2>4, TextTyping DEF Plain, Without
  <2>6. Key(trim(row.title), trim(row.singer)) = Key(web.title, web.singer)
    BY <2>1, <2>3 DEF LocalKey
  <2>7. trim(row.title) = web.title /\ trim(row.singer) = web.singer
    BY <2>5, <2>6, KeyTellsApart
  <2>8. trim(web.title) = web.title /\ trim(web.singer) = web.singer
    BY <2>4, <2>7, TextTyping
  <2>9. \A k \in 1 .. m - 1 : ~Same(web, rows[k])
    BY <2>1, <2>8 DEF Same, LocalKey
  <2> QED
    BY <2>3, <2>7, <2>8, <2>9 DEF Same, m
<1> QED
  BY <1>1, IndexInvariant, PTL

LEMMA ColumnsAreTexts ==
  ASSUME IndexInv
  PROVE  \A s \in Columns : s \in Texts
<1> TAKE s \in Columns
<1>1. PICK k \in DOMAIN rows : s = rows[k].title \/ s = rows[k].singer
  BY DEF Columns
<1>2. rows[k] \in Songs
  BY DEF IndexInv
<1> QED
  BY <1>1, <1>2 DEF Songs

(* trim strips every text (Utility.cpp:35).                                *)
THEOREM TrimStrips == Spec => []ColumnsTrimmed
<1>1. IndexInv => ColumnsTrimmed
  BY ColumnsAreTexts, TextTyping DEF ColumnsTrimmed
<1> QED
  BY <1>1, IndexInvariant, PTL

(* So do the configuration reader's two passes (Profile.cpp:265, 285).     *)
THEOREM ValuesAreStripped == Spec => []ValuesTrimmed
<1>1. IndexInv => ValuesTrimmed
  <2> SUFFICES ASSUME IndexInv, NEW s \in Columns
               PROVE  IsStripped(s, tirm(s), Blanks) /\ IsStripped(tirm(s), QuotTirm(tirm(s)), Quotes)
    BY DEF ValuesTrimmed
  <2>1. s \in Seq(Letters) /\ Len(s) < SizeLimit
    BY ColumnsAreTexts, TextTyping
  <2>2. tirm(s) \in Seq(Letters) /\ IsStripped(s, tirm(s), Blanks)
    BY <2>1, Stripped DEF tirm
  <2>3. Len(tirm(s)) < SizeLimit
    <3>1. PICK a \in 0..Len(s), b \in 0..Len(s) : a <= b /\ tirm(s) = SubSeq(s, a + 1, b)
      BY <2>2 DEF IsStripped
    <3>2. Len(tirm(s)) = b - a
      BY <2>1, <3>1, Part
    <3> QED
      BY <2>1, <3>1, <3>2, TextAssumption
  <2> QED
    BY <2>2, <2>3, Stripped DEF QuotTirm
<1> QED
  BY <1>1, IndexInvariant, PTL
=============================================================================
