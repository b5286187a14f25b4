--------------------------- MODULE SwappingProofs ---------------------------
(*****************************************************************************)
(* The allocator of mm/Allocator.cpp for maps of any length: Alloc and Free  *)
(* keep the array in order, with no two areas touching, and change the free  *)
(* addresses by exactly the area that is given out or given back.            *)
(*                                                                           *)
(* Memory and the swap area under it, for any number of processes, pages,    *)
(* blocks, sizes and program files: what the maps have given out is what the *)
(* images, the texts and Sched have, each unit once.                         *)
(*****************************************************************************)
EXTENDS Swapping, SequenceTheorems, FiniteSetTheorems, WellFoundedInduction, TLAPS

Nodes == [addr : Nat \ {0}, size : Nat \ {0}]

-----------------------------------------------------------------------------
\* Sequences

LEMMA RemoveAtFacts ==
    ASSUME NEW S, NEW s \in Seq(S), NEW i \in 1..Len(s)
    PROVE  /\ RemoveAt(s, i) \in Seq(S)
           /\ Len(RemoveAt(s, i)) = Len(s) - 1
           /\ \A j \in 1..(Len(s) - 1) :
                  RemoveAt(s, i)[j] = IF j < i THEN s[j] ELSE s[j + 1]
<1> DEFINE a == SubSeq(s, 1, i - 1)
           c == SubSeq(s, i + 1, Len(s))
           r == RemoveAt(s, i)
<1>1. Len(s) \in Nat /\ i \in Nat /\ i >= 1 /\ i <= Len(s)
  OBVIOUS
<1>2. \A j \in 1..Len(s) : s[j] \in S
  OBVIOUS
<1>3. /\ a \in Seq(S) /\ Len(a) = IF 1 <= i - 1 THEN (i - 1) - 1 + 1 ELSE 0
      /\ \A j \in 1..((i - 1) - 1 + 1) : a[j] = s[1 + j - 1]
  <2>1. \A j \in 1..(i - 1) : s[j] \in S
    BY <1>1, <1>2
  <2> QED BY <1>1, <2>1, SubSeqProperties
<1>4. /\ c \in Seq(S) /\ Len(c) = IF i + 1 <= Len(s) THEN Len(s) - (i + 1) + 1 ELSE 0
      /\ \A j \in 1..(Len(s) - (i + 1) + 1) : c[j] = s[(i + 1) + j - 1]
  <2>1. \A j \in (i + 1)..Len(s) : s[j] \in S
    BY <1>1, <1>2
  <2> QED BY <1>1, <2>1, SubSeqProperties
<1>5. r = a \o c
  BY DEF RemoveAt
<1> HIDE DEF a, c, r
<1>6. /\ a \o c \in Seq(S) /\ Len(a \o c) = Len(a) + Len(c)
      /\ \A j \in 1..(Len(a) + Len(c)) :
             (a \o c)[j] = IF j <= Len(a) THEN a[j] ELSE c[j - Len(a)]
  BY <1>3, <1>4, ConcatProperties
<1>7. Len(a) = i - 1 /\ Len(c) = Len(s) - i
  BY <1>1, <1>3, <1>4
<1>8. r \in Seq(S) /\ Len(r) = Len(s) - 1
  BY <1>1, <1>5, <1>6, <1>7
<1>9. ASSUME NEW j \in 1..(Len(s) - 1)  PROVE r[j] = IF j < i THEN s[j] ELSE s[j + 1]
  <2>1. r[j] = IF j <= i - 1 THEN a[j] ELSE c[j - (i - 1)]
    BY <1>1, <1>5, <1>6, <1>7
  <2>2. CASE j < i
    BY <1>1, <1>3, <2>1, <2>2
  <2>3. CASE j >= i
    <3>1. j - (i - 1) \in 1..(Len(s) - (i + 1) + 1) /\ (i + 1) + (j - (i - 1)) - 1 = j + 1
      BY <1>1, <2>3
    <3> QED BY <1>1, <1>4, <2>1, <2>3, <3>1
  <2> QED BY <1>1, <2>2, <2>3
<1> QED BY <1>8, <1>9 DEF r

LEMMA InsertAtFacts ==
    ASSUME NEW S, NEW s \in Seq(S), NEW i \in 1..(Len(s) + 1), NEW e \in S
    PROVE  /\ InsertAt(s, i, e) \in Seq(S)
           /\ Len(InsertAt(s, i, e)) = Len(s) + 1
           /\ \A j \in 1..(Len(s) + 1) :
                  InsertAt(s, i, e)[j] =
                      IF j < i THEN s[j] ELSE IF j = i THEN e ELSE s[j - 1]
<1> DEFINE a == SubSeq(s, 1, i - 1)
           b == <<e>>
           c == SubSeq(s, i, Len(s))
           r == InsertAt(s, i, e)
<1>1. Len(s) \in Nat /\ i \in Nat /\ i >= 1 /\ i <= Len(s) + 1
  OBVIOUS
<1>2. \A j \in 1..Len(s) : s[j] \in S
  OBVIOUS
<1>3. /\ a \in Seq(S) /\ Len(a) = IF 1 <= i - 1 THEN (i - 1) - 1 + 1 ELSE 0
      /\ \A j \in 1..((i - 1) - 1 + 1) : a[j] = s[1 + j - 1]
  <2>1. \A j \in 1..(i - 1) : s[j] \in S
    BY <1>1, <1>2
  <2> QED BY <1>1, <2>1, SubSeqProperties
<1>4. /\ c \in Seq(S) /\ Len(c) = IF i <= Len(s) THEN Len(s) - i + 1 ELSE 0
      /\ \A j \in 1..(Len(s) - i + 1) : c[j] = s[i + j - 1]
  <2>1. \A j \in i..Len(s) : s[j] \in S
    BY <1>1, <1>2
  <2> QED BY <1>1, <2>1, SubSeqProperties
<1>5. b \in Seq(S) /\ Len(b) = 1 /\ b[1] = e
  OBVIOUS
<1> DEFINE ab == a \o b
<1>6. r = ab \o c
  BY DEF InsertAt
<1> HIDE DEF a, b, c, r
<1>7. Len(a) = i - 1 /\ Len(c) = Len(s) + 1 - i
  BY <1>1, <1>3, <1>4
<1>8. /\ ab \in Seq(S) /\ Len(ab) = i
      /\ \A j \in 1..i : ab[j] = IF j <= i - 1 THEN a[j] ELSE b[j - (i - 1)]
  <2>1. /\ ab \in Seq(S) /\ Len(ab) = Len(a) + Len(b)
        /\ \A j \in 1..(Len(a) + Len(b)) :
               ab[j] = IF j <= Len(a) THEN a[j] ELSE b[j - Len(a)]
    BY <1>3, <1>5, ConcatProperties
  <2>2. Len(a) + Len(b) = i
    BY <1>1, <1>5, <1>7
  <2> QED BY <1>7, <2>1, <2>2
<1> HIDE DEF ab
<1>9. /\ r \in Seq(S) /\ Len(r) = Len(s) + 1
      /\ \A j \in 1..(Len(s) + 1) : r[j] = IF j <= i THEN ab[j] ELSE c[j - i]
  <2>1. /\ ab \o c \in Seq(S) /\ Len(ab \o c) = Len(ab) + Len(c)
        /\ \A j \in 1..(Len(ab) + Len(c)) :
               (ab \o c)[j] = IF j <= Len(ab) THEN ab[j] ELSE c[j - Len(ab)]
    BY <1>4, <1>8, ConcatProperties
  <2>2. Len(ab) + Len(c) = Len(s) + 1
    BY <1>1, <1>7, <1>8
  <2> QED BY <1>6, <1>8, <2>1, <2>2
<1>10. ASSUME NEW j \in 1..(Len(s) + 1)
       PROVE  r[j] = IF j < i THEN s[j] ELSE IF j = i THEN e ELSE s[j - 1]
  <2>0. j \in Nat /\ j >= 1 /\ j <= Len(s) + 1 /\ r[j] = IF j <= i THEN ab[j] ELSE c[j - i]
    BY <1>1, <1>9
  <2>1. CASE j < i
    <3>1. r[j] = ab[j] /\ j \in 1..i /\ j <= i - 1
      BY <1>1, <2>0, <2>1
    <3>2. r[j] = a[j] /\ j \in 1..((i - 1) - 1 + 1) /\ 1 + j - 1 = j
      BY <1>1, <1>8, <2>0, <2>1, <3>1
    <3> QED BY <1>3, <2>1, <3>2
  <2>2. CASE j = i
    <3>1. r[j] = ab[i] /\ i \in 1..i /\ i - (i - 1) = 1 /\ ~(i <= i - 1)
      BY <1>1, <2>0, <2>2
    <3>2. r[j] = b[1]
      BY <1>8, <3>1
    <3> QED BY <1>1, <1>5, <2>2, <3>2
  <2>3. CASE j > i
    <3>1. r[j] = c[j - i] /\ j - i \in 1..(Len(s) - i + 1) /\ i + (j - i) - 1 = j - 1
      BY <1>1, <2>0, <2>3
    <3>2. r[j] = s[j - 1]
      BY <1>4, <3>1
    <3> QED BY <1>1, <2>0, <2>3, <3>2
  <2> QED BY <1>1, <2>0, <2>1, <2>2, <2>3
<1> QED BY <1>9, <1>10 DEF r

-----------------------------------------------------------------------------
\* Well-formed maps

\* The first unit of an area, and the one behind its last.
Lo(map, i) == map[i].addr
Hi(map, i) == map[i].addr + map[i].size

LEMMA Entries ==
    ASSUME NEW map, WellFormed(map)
    PROVE  /\ map \in Seq(Nodes) /\ Len(map) \in Nat /\ DOMAIN map = 1..Len(map)
           /\ \A i \in 1..Len(map) :
                  /\ map[i] \in Nodes /\ Lo(map, i) \in Nat /\ Hi(map, i) \in Nat
                  /\ 0 < Lo(map, i) /\ Lo(map, i) < Hi(map, i)
                  /\ map[i].addr = Lo(map, i) /\ map[i].size = Hi(map, i) - Lo(map, i)
           /\ \A i, j \in 1..Len(map) : i < j => Hi(map, i) < Lo(map, j)
<1>1. map \in Seq(Nodes) /\ Len(map) \in Nat /\ DOMAIN map = 1..Len(map)
  <2>1. map \in Seq(Nodes)
    BY DEF WellFormed, Nodes
  <2> QED BY <2>1
<1>2. ASSUME NEW i \in 1..Len(map)
      PROVE  /\ map[i] \in Nodes /\ Lo(map, i) \in Nat /\ Hi(map, i) \in Nat
             /\ 0 < Lo(map, i) /\ Lo(map, i) < Hi(map, i)
             /\ map[i].addr = Lo(map, i) /\ map[i].size = Hi(map, i) - Lo(map, i)
  <2>1. map[i] \in Nodes
    BY <1>1
  <2>2. map[i].addr \in Nat \ {0} /\ map[i].size \in Nat \ {0}
    BY <2>1 DEF Nodes
  <2> QED BY <2>1, <2>2 DEF Lo, Hi
<1>3. \A i, j \in 1..Len(map) : i < j => Hi(map, i) < Lo(map, j)
  BY <1>1 DEF WellFormed, Lo, Hi
<1> QED BY <1>1, <1>2, <1>3

LEMMA InCells ==
    ASSUME NEW map, WellFormed(map), NEW x
    PROVE  x \in Cells(map) <=>
               x \in Int /\ \E i \in 1..Len(map) : Lo(map, i) <= x /\ x < Hi(map, i)
<1>1. x \in Cells(map) <=> \E i \in 1..Len(map) : x \in Lo(map, i)..(Hi(map, i) - 1)
  <2>1. DOMAIN map = 1..Len(map)
    BY Entries
  <2>2. \A i \in 1..Len(map) : Area(map[i].addr, map[i].size) = Lo(map, i)..(Hi(map, i) - 1)
    <3>1. \A i \in 1..Len(map) :
              map[i].addr = Lo(map, i) /\ map[i].size = Hi(map, i) - Lo(map, i)
              /\ Lo(map, i) \in Nat /\ Hi(map, i) \in Nat
      BY Entries
    <3> QED BY <3>1 DEF Area
  <2>3. x \in Cells(map) <=> \E i \in DOMAIN map : x \in Area(map[i].addr, map[i].size)
    BY DEF Cells
  <2> QED BY <2>1, <2>2, <2>3
<1>2. \A i \in 1..Len(map) : Lo(map, i) \in Nat /\ Hi(map, i) \in Nat
  BY Entries
<1>3. \A i \in 1..Len(map) :
          x \in Lo(map, i)..(Hi(map, i) - 1) <=> x \in Int /\ Lo(map, i) <= x /\ x < Hi(map, i)
  BY <1>2
<1> QED BY <1>1, <1>3

\* What makes a sequence a well-formed map.
LEMMA MapOf ==
    ASSUME NEW r \in Seq(Nodes),
           \A i, j \in 1..Len(r) : i < j => Hi(r, i) < Lo(r, j)
    PROVE  WellFormed(r)
<1>1. DOMAIN r = 1..Len(r)
  OBVIOUS
<1> QED BY <1>1 DEF WellFormed, Nodes, Lo, Hi

\* Every set of natural numbers has a least element.
LEMMA LeastNat ==
    ASSUME NEW T, T \subseteq Nat, T # {}
    PROVE  \E x \in T : \A y \in T : x <= y
<1> DEFINE R == OpToRel(<, Nat)
<1>1. IsWellFoundedOn(R, Nat)
  BY NatLessThanWellFounded
<1>2. \A y, x \in Nat : <<y, x>> \in R <=> y < x
  BY DEF OpToRel
<1> HIDE DEF R
<1>3. PICK x \in T : \A y \in T : ~(<<y, x>> \in R)
  BY <1>1, WFMin
<1>4. ASSUME NEW y \in T  PROVE x <= y
  <2>1. ~(y < x)
    BY <1>2, <1>3, Zenon
  <2> QED BY <2>1
<1> QED BY <1>4

-----------------------------------------------------------------------------
\* Alloc

LEMMA FirstFits ==
    ASSUME NEW map, WellFormed(map), NEW n \in Nat, Fits(map, n) # {}
    PROVE  First(map, n) \in 1..Len(map) /\ map[First(map, n)].size >= n
<1>1. Fits(map, n) \subseteq 1..Len(map) /\ 1..Len(map) \subseteq Nat
  BY Entries DEF Fits
<1>2. \E i \in Fits(map, n) : \A j \in Fits(map, n) : i <= j
  BY <1>1, LeastNat
<1>3. First(map, n) \in Fits(map, n)
  BY <1>2 DEF First
<1> QED BY <1>1, <1>3 DEF Fits

\* Alloc gives out free units only, keeps the map in order and takes exactly those units.
THEOREM AllocKeeps ==
    ASSUME NEW map, WellFormed(map), NEW n \in Nat \ {0}, Fits(map, n) # {}
    PROVE  /\ WellFormed(AllocMap(map, n))
           /\ AllocAddr(map, n) # 0
           /\ Area(AllocAddr(map, n), n) \subseteq Cells(map)
           /\ Cells(AllocMap(map, n)) = Cells(map) \ Area(AllocAddr(map, n), n)
<1> DEFINE i == First(map, n)
           a == AllocAddr(map, n)
           r == AllocMap(map, n)
           L == Len(map)
<1>1. i \in 1..L /\ map[i].size >= n
  BY FirstFits
<1>2. a = Lo(map, i)
  BY DEF AllocAddr, Lo
<1>3. r = IF map[i].size = n
             THEN RemoveAt(map, i)
             ELSE [map EXCEPT ![i] = [addr |-> map[i].addr + n, size |-> map[i].size - n]]
  BY DEF AllocMap
<1> HIDE DEF i, a, r
<1>4. /\ map \in Seq(Nodes) /\ L \in Nat
      /\ \A j \in 1..L : Lo(map, j) \in Nat /\ Hi(map, j) \in Nat /\ Lo(map, j) < Hi(map, j)
      /\ \A j, k \in 1..L : j < k => Hi(map, j) < Lo(map, k)
  BY Entries
<1>5. /\ map[i].addr = a /\ map[i].size = Hi(map, i) - a
      /\ a \in Nat /\ a > 0 /\ n > 0 /\ a + n <= Hi(map, i) /\ Hi(map, i) \in Nat
  <2>1. /\ Lo(map, i) \in Nat /\ Hi(map, i) \in Nat /\ 0 < Lo(map, i)
        /\ map[i].addr = Lo(map, i) /\ map[i].size = Hi(map, i) - Lo(map, i)
    BY <1>1, Entries
  <2> QED BY <1>1, <1>2, <2>1
<1>6. \A x : x \in Area(a, n) <=> x \in Int /\ a <= x /\ x < a + n
  BY <1>5 DEF Area
<1>7. Area(a, n) \subseteq Cells(map)
  <2>1. ASSUME NEW x \in Area(a, n)  PROVE x \in Cells(map)
    <3>1. x \in Int /\ Lo(map, i) <= x /\ x < Hi(map, i)
      BY <1>2, <1>5, <1>6
    <3> QED BY <1>1, <3>1, InCells
  <2> QED BY <2>1
\* Beyond i, the areas are clear of what is given out.
<1>8. \A k \in 1..L, x \in Int :
          k # i /\ Lo(map, k) <= x /\ x < Hi(map, k) => ~(a <= x /\ x < a + n)
  <2> SUFFICES ASSUME NEW k \in 1..L, NEW x \in Int, k # i, Lo(map, k) <= x, x < Hi(map, k)
               PROVE  ~(a <= x /\ x < a + n)
    OBVIOUS
  <2>1. k < i \/ i < k
    BY <1>1, <1>4
  <2>2. Hi(map, k) < a \/ Hi(map, i) < Lo(map, k)
    BY <1>1, <1>2, <1>4, <2>1
  <2>3. Lo(map, k) \in Nat /\ Hi(map, k) \in Nat
    BY <1>4
  <2> QED BY <1>5, <2>2, <2>3
<1>9. CASE map[i].size = n
  <2>1. /\ r \in Seq(Nodes) /\ Len(r) = L - 1
        /\ \A j \in 1..(L - 1) : r[j] = IF j < i THEN map[j] ELSE map[j + 1]
    <3>1. r = RemoveAt(map, i)
      BY <1>3, <1>9
    <3> QED BY <1>1, <1>4, <3>1, RemoveAtFacts
  <2>2. /\ \A j \in 1..(L - 1) :
               Lo(r, j) = Lo(map, IF j < i THEN j ELSE j + 1)
               /\ Hi(r, j) = Hi(map, IF j < i THEN j ELSE j + 1)
    BY <2>1 DEF Lo, Hi
  <2>3. WellFormed(r)
    <3>1. ASSUME NEW j \in 1..Len(r), NEW k \in 1..Len(r), j < k
          PROVE  Hi(r, j) < Lo(r, k)
      <4> DEFINE jj == IF j < i THEN j ELSE j + 1
                 kk == IF k < i THEN k ELSE k + 1
      <4>1. jj \in 1..L /\ kk \in 1..L /\ jj < kk
        BY <1>1, <1>4, <2>1, <3>1
      <4>2. Hi(r, j) = Hi(map, jj) /\ Lo(r, k) = Lo(map, kk)
        BY <2>1, <2>2
      <4> HIDE DEF jj, kk
      <4> QED BY <1>4, <4>1, <4>2
    <3> QED BY <2>1, <3>1, MapOf
  <2>4. ASSUME NEW x \in Cells(r)  PROVE x \in Cells(map) \ Area(a, n)
    <3>1. PICK j \in 1..(L - 1) : x \in Int /\ Lo(r, j) <= x /\ x < Hi(r, j)
      BY <2>1, <2>3, InCells
    <3> DEFINE k == IF j < i THEN j ELSE j + 1
    <3>2. k \in 1..L /\ k # i
      BY <1>1, <1>4
    <3>3. Lo(map, k) <= x /\ x < Hi(map, k)
      BY <2>2, <3>1
    <3> HIDE DEF k
    <3>4. x \in Cells(map)
      BY <3>1, <3>2, <3>3, InCells
    <3> QED BY <1>6, <1>8, <3>1, <3>2, <3>3, <3>4
  <2>5. ASSUME NEW x \in Cells(map) \ Area(a, n)  PROVE x \in Cells(r)
    <3>1. PICK k \in 1..L : x \in Int /\ Lo(map, k) <= x /\ x < Hi(map, k)
      BY InCells
    <3>2. k # i
      <4>1. ~(a <= x /\ x < a + n)
        BY <1>6, <2>5, <3>1
      <4> QED BY <1>2, <1>5, <1>9, <3>1, <4>1
    <3> DEFINE j == IF k < i THEN k ELSE k - 1
    <3>3. j \in 1..(L - 1) /\ (IF j < i THEN j ELSE j + 1) = k
      BY <1>1, <1>4, <3>2
    <3> HIDE DEF j
    <3>4. Lo(r, j) <= x /\ x < Hi(r, j)
      BY <2>2, <3>1, <3>3
    <3> QED BY <2>1, <2>3, <3>1, <3>3, <3>4, InCells
  <2> QED BY <1>5, <1>7, <2>3, <2>4, <2>5 DEF r, a
<1>10. CASE map[i].size # n
  <2> DEFINE e == [addr |-> a + n, size |-> Hi(map, i) - (a + n)]
  <2>1. /\ e \in Nodes /\ e.addr = a + n /\ e.addr + e.size = Hi(map, i)
        /\ a + n < Hi(map, i)
    BY <1>5, <1>10 DEF Nodes
  <2>2. r = [map EXCEPT ![i] = e]
    <3>1. map[i].addr + n = a + n /\ map[i].size - n = Hi(map, i) - (a + n)
      BY <1>5
    <3> QED BY <1>3, <1>10, <3>1
  <2> HIDE DEF e
  <2>3. /\ r \in Seq(Nodes) /\ Len(r) = L
        /\ \A j \in 1..L : r[j] = IF j = i THEN e ELSE map[j]
    BY <1>1, <1>4, <2>1, <2>2
  <2>4. /\ Lo(r, i) = a + n /\ Hi(r, i) = Hi(map, i)
        /\ \A j \in 1..L : j # i => Lo(r, j) = Lo(map, j) /\ Hi(r, j) = Hi(map, j)
    BY <1>1, <2>1, <2>3 DEF Lo, Hi
  <2>5. WellFormed(r)
    <3>1. ASSUME NEW j \in 1..L, NEW k \in 1..L, j < k
          PROVE  Hi(r, j) < Lo(r, k)
      <4>1. Hi(r, j) = Hi(map, j) /\ Hi(map, j) \in Nat /\ Hi(map, j) < Lo(map, k)
        BY <1>4, <2>4, <3>1
      <4>2. CASE k = i
        <5>1. Lo(map, k) = a /\ Lo(r, k) = a + n
          BY <1>2, <2>4, <4>2
        <5> QED BY <1>5, <4>1, <5>1
      <4>3. CASE k # i
        BY <2>4, <4>1, <4>3
      <4> QED BY <4>2, <4>3
    <3> QED BY <2>3, <3>1, MapOf
  <2>6. ASSUME NEW x \in Cells(r)  PROVE x \in Cells(map) \ Area(a, n)
    <3>1. PICK j \in 1..L : x \in Int /\ Lo(r, j) <= x /\ x < Hi(r, j)
      BY <2>3, <2>5, InCells
    <3>2. CASE j = i
      <4>1. a + n <= x /\ x < Hi(map, i) /\ Lo(map, i) <= x
        BY <1>2, <1>5, <2>4, <3>1, <3>2
      <4>2. x \in Cells(map)
        BY <1>1, <3>1, <4>1, InCells
      <4> QED BY <1>5, <1>6, <3>1, <4>1, <4>2
    <3>3. CASE j # i
      <4>1. Lo(map, j) <= x /\ x < Hi(map, j)
        BY <2>4, <3>1, <3>3
      <4>2. x \in Cells(map)
        BY <3>1, <4>1, InCells
      <4> QED BY <1>6, <1>8, <3>1, <3>3, <4>1, <4>2
    <3> QED BY <3>2, <3>3
  <2>7. ASSUME NEW x \in Cells(map) \ Area(a, n)  PROVE x \in Cells(r)
    <3>1. PICK k \in 1..L : x \in Int /\ Lo(map, k) <= x /\ x < Hi(map, k)
      BY InCells
    <3>2. Lo(r, k) <= x /\ x < Hi(r, k)
      <4>1. CASE k = i
        <5>1. ~(a <= x /\ x < a + n)
          BY <1>6, <2>7, <3>1
        <5>2. a <= x /\ x < Hi(map, i)
          BY <1>2, <3>1, <4>1
        <5>3. a + n <= x
          BY <1>5, <3>1, <5>1, <5>2
        <5> QED BY <2>4, <4>1, <5>2, <5>3
      <4>2. CASE k # i
        BY <2>4, <3>1, <4>2
      <4> QED BY <4>1, <4>2
    <3> QED BY <2>3, <2>5, <3>1, <3>2, InCells
  <2> QED BY <1>5, <1>7, <2>5, <2>6, <2>7 DEF r, a
<1> QED BY <1>9, <1>10

-----------------------------------------------------------------------------
\* Free

LEMMA PlaceFacts ==
    ASSUME NEW map, WellFormed(map), NEW a \in Nat
    PROVE  /\ Place(map, a) \in 1..(Len(map) + 1)
           /\ \A j \in 1..(Place(map, a) - 1) : map[j].addr <= a
           /\ Place(map, a) <= Len(map) => map[Place(map, a)].addr > a
<1> DEFINE Beyond == {k \in 1..Len(map) : map[k].addr > a}
           T == Beyond \cup {Len(map) + 1}
<1>1. Len(map) \in Nat /\ \A k \in 1..Len(map) : map[k].addr \in Nat
  <2>1. \A k \in 1..Len(map) : map[k].addr = Lo(map, k) /\ Lo(map, k) \in Nat
    BY Entries
  <2> QED BY <2>1, Entries
<1>2. T \subseteq Nat /\ T # {} /\ T \subseteq 1..(Len(map) + 1)
  BY <1>1
<1>3. PICK k \in T : \A j \in T : k <= j
  BY <1>2, LeastNat
<1>4. k \in 1..(Len(map) + 1)
  BY <1>2, <1>3
<1>5. ASSUME NEW j \in 1..(k - 1)  PROVE map[j].addr <= a
  <2>1. j \in 1..Len(map) /\ ~(k <= j)
    BY <1>1, <1>4
  <2>2. j \notin Beyond
    BY <1>3, <2>1
  <2> QED BY <1>1, <2>1, <2>2
<1>6. k <= Len(map) => map[k].addr > a
  BY <1>1, <1>3
<1> HIDE DEF T
<1>7. \E h \in 1..(Len(map) + 1) :
          /\ \A j \in 1..(h - 1) : map[j].addr <= a
          /\ h <= Len(map) => map[h].addr > a
  BY <1>4, <1>5, <1>6
<1> QED BY <1>7 DEF Place

\* The array r that Free leaves, whichever of its cases applies: the areas of the
\* map up to low and from high on, and between them one that starts at b and ends
\* before c.
IsRebuilt(map, r, low, high, b, c) ==
    /\ r \in Seq(Nodes) /\ Len(r) = Len(map) + low + 2 - high
    /\ low \in Nat /\ high \in Nat /\ low < high /\ high <= Len(map) + 1
    /\ b \in Nat /\ c \in Nat /\ b < c
    /\ Lo(r, low + 1) = b /\ Hi(r, low + 1) = c
    /\ \A j \in 1..low : Lo(r, j) = Lo(map, j) /\ Hi(r, j) = Hi(map, j)
    /\ \A j \in (low + 2)..Len(r) :
           /\ Lo(r, j) = Lo(map, j + high - low - 2)
           /\ Hi(r, j) = Hi(map, j + high - low - 2)
    /\ \A j \in 1..low : Hi(map, j) < b
    /\ \A j \in high..Len(map) : c < Lo(map, j)

LEMMA Rebuilt ==
    ASSUME NEW map, NEW r, NEW low, NEW high, NEW b, NEW c,
           WellFormed(map), IsRebuilt(map, r, low, high, b, c)
    PROVE  /\ WellFormed(r)
           /\ \A x \in Int :
                  x \in Cells(r) <=>
                      \/ b <= x /\ x < c
                      \/ \E j \in (1..low) \cup (high..Len(map)) :
                             Lo(map, j) <= x /\ x < Hi(map, j)
<1> USE DEF IsRebuilt
<1> DEFINE L == Len(map)
           from(j) == IF j <= low THEN j ELSE j + high - low - 2
<1>1. /\ L \in Nat /\ Len(r) \in Nat /\ Len(r) = L + low + 2 - high
      /\ \A j \in 1..L : Lo(map, j) \in Nat /\ Hi(map, j) \in Nat /\ Lo(map, j) < Hi(map, j)
      /\ \A j, k \in 1..L : j < k => Hi(map, j) < Lo(map, k)
  BY Entries
<1>2. low + 1 \in 1..Len(r)
  BY <1>1
<1>3. ASSUME NEW j \in 1..Len(r), j # low + 1
      PROVE  /\ from(j) \in (1..low) \cup (high..L) /\ from(j) \in 1..L
             /\ Lo(r, j) = Lo(map, from(j)) /\ Hi(r, j) = Hi(map, from(j))
             /\ j < low + 1 => from(j) <= low
             /\ j > low + 1 => from(j) >= high
  BY <1>1, <1>3
<1>4. ASSUME NEW j \in 1..Len(r), NEW k \in 1..Len(r), j < k
      PROVE  Hi(r, j) < Lo(r, k)
  <2>1. CASE k = low + 1
    <3>1. j # low + 1 /\ j < low + 1
      BY <1>1, <1>4, <2>1
    <3>2. j \in 1..low /\ Hi(r, j) = Hi(map, j)
      BY <1>1, <3>1
    <3> QED BY <2>1, <3>2
  <2>2. CASE j = low + 1
    <3>1. k # low + 1 /\ k > low + 1
      BY <1>1, <1>4, <2>2
    <3>2. from(k) \in high..L /\ Lo(r, k) = Lo(map, from(k))
      BY <1>1, <1>3, <3>1
    <3> HIDE DEF from
    <3> QED BY <2>2, <3>2
  <2>3. CASE j # low + 1 /\ k # low + 1
    <3>1. from(j) < from(k)
      BY <1>1, <1>4, <2>3
    <3>2. /\ from(j) \in 1..L /\ from(k) \in 1..L
          /\ Hi(r, j) = Hi(map, from(j)) /\ Lo(r, k) = Lo(map, from(k))
      BY <1>3, <2>3
    <3> HIDE DEF from
    <3> QED BY <1>1, <3>1, <3>2
  <2> QED BY <2>1, <2>2, <2>3
<1>5. WellFormed(r)
  BY <1>4, MapOf
<1>6. ASSUME NEW x \in Int, x \in Cells(r)
      PROVE  \/ b <= x /\ x < c
             \/ \E j \in (1..low) \cup (high..L) : Lo(map, j) <= x /\ x < Hi(map, j)
  <2>1. PICK j \in 1..Len(r) : Lo(r, j) <= x /\ x < Hi(r, j)
    BY <1>5, <1>6, InCells
  <2>2. CASE j = low + 1
    BY <2>1, <2>2
  <2>3. CASE j # low + 1
    <3>1. from(j) \in (1..low) \cup (high..L) /\ Lo(map, from(j)) <= x /\ x < Hi(map, from(j))
      BY <1>3, <2>1, <2>3
    <3> HIDE DEF from
    <3> QED BY <3>1
  <2> QED BY <2>2, <2>3
<1>7. ASSUME NEW x \in Int, b <= x, x < c  PROVE x \in Cells(r)
  BY <1>2, <1>5, <1>7, InCells
<1>8. ASSUME NEW x \in Int, NEW j \in (1..low) \cup (high..L),
             Lo(map, j) <= x, x < Hi(map, j)
      PROVE  x \in Cells(r)
  <2> DEFINE k == IF j <= low THEN j ELSE j + low + 2 - high
  <2>1. k \in 1..Len(r)
    BY <1>1
  <2>2. Lo(r, k) = Lo(map, j) /\ Hi(r, k) = Hi(map, j)
    <3>1. CASE j \in 1..low
      BY <1>1, <3>1
    <3>2. CASE j \in high..L
      <4>1. k = j + low + 2 - high /\ k \in (low + 2)..Len(r) /\ k + high - low - 2 = j
        BY <1>1, <3>2
      <4> HIDE DEF k
      <4> QED BY <4>1
    <3> QED BY <3>1, <3>2
  <2> HIDE DEF k
  <2> QED BY <1>5, <1>8, <2>1, <2>2, InCells
<1> QED BY <1>5, <1>6, <1>7, <1>8

\* Free keeps the map in order and adds exactly the units that are given back,
\* when they are units that somebody has.
THEOREM FreeKeeps ==
    ASSUME NEW map, WellFormed(map), NEW n \in Nat \ {0}, NEW a \in Nat \ {0},
           Area(a, n) \cap Cells(map) = {}
    PROVE  /\ WellFormed(FreeMap(map, n, a))
           /\ Cells(FreeMap(map, n, a)) = Cells(map) \cup Area(a, n)
<1> DEFINE L == Len(map)
           k == Place(map, a)
           r == FreeMap(map, n, a)
           last == TouchesLast(map, k, a)
           next == TouchesNext(map, k, n, a)
<1>1. /\ map \in Seq(Nodes) /\ L \in Nat
      /\ \A j \in 1..L : Lo(map, j) \in Nat /\ Hi(map, j) \in Nat /\ Lo(map, j) < Hi(map, j)
      /\ \A i, j \in 1..L : i < j => Hi(map, i) < Lo(map, j)
  BY Entries
<1>2. /\ \A j \in 1..L : map[j].addr = Lo(map, j) /\ map[j].size = Hi(map, j) - Lo(map, j)
      /\ \A j \in 1..L : map[j] \in Nodes /\ 0 < Lo(map, j)
      /\ \A j \in 1..L : map[j].addr + map[j].size = Hi(map, j)
  BY Entries DEF Hi
<1>3. /\ k \in 1..(L + 1)
      /\ \A j \in 1..(k - 1) : map[j].addr <= a
      /\ k <= L => map[k].addr > a
  BY PlaceFacts
<1>4. r = CASE last /\ next ->
                RemoveAt([map EXCEPT ![k - 1] =
                    [addr |-> map[k - 1].addr, size |-> map[k - 1].size + n + map[k].size]], k)
          [] last /\ ~next ->
                [map EXCEPT ![k - 1] =
                    [addr |-> map[k - 1].addr, size |-> map[k - 1].size + n]]
          [] ~last /\ next ->
                [map EXCEPT ![k] = [addr |-> a, size |-> map[k].size + n]]
          [] ~last /\ ~next /\ n > 0 -> InsertAt(map, k, [addr |-> a, size |-> n])
          [] OTHER -> map
  BY DEF FreeMap
<1>5. /\ last <=> k > 1 /\ Hi(map, k - 1) = a
      /\ next <=> k <= L /\ a + n = Lo(map, k)
  <2>1. k > 1 => map[k - 1].addr + map[k - 1].size = Hi(map, k - 1)
    BY <1>1, <1>2, <1>3
  <2>2. k <= L => map[k].addr = Lo(map, k)
    BY <1>1, <1>2, <1>3
  <2> QED BY <2>1, <2>2 DEF TouchesLast, TouchesNext
<1> HIDE DEF k, r, last, next
<1>6. \A x : x \in Area(a, n) <=> x \in Int /\ a <= x /\ x < a + n
  BY DEF Area
\* The areas before the place end at a or before it, the others start at a + n or behind.
<1>7. ASSUME NEW j \in 1..L, j < k  PROVE Hi(map, j) <= a
  <2>1. Lo(map, j) <= a
    BY <1>1, <1>2, <1>3, <1>7
  <2>2. a \notin Cells(map)
    BY <1>6
  <2> QED BY <1>1, <2>1, <2>2, InCells, SMTT(30)
<1>8. ASSUME NEW j \in 1..L, j >= k  PROVE a + n <= Lo(map, j)
  <2>1. k \in 1..L /\ Lo(map, k) > a
    BY <1>1, <1>2, <1>3, <1>8
  <2>2. a + n <= Lo(map, k)
    <3>1. Lo(map, k) \in Cells(map) /\ Lo(map, k) \in Int
      BY <1>1, <2>1, InCells
    <3>2. ~(a <= Lo(map, k) /\ Lo(map, k) < a + n)
      <4>1. Lo(map, k) \notin Area(a, n)
        BY <3>1
      <4> QED BY <1>6, <3>1, <4>1
    <3>3. Lo(map, k) \in Nat
      BY <1>1, <2>1
    <3> QED BY <2>1, <3>2, <3>3
  <2>3. Lo(map, k) <= Lo(map, j)
    <3>1. CASE j = k
      BY <1>1, <2>1, <3>1
    <3>2. CASE j > k
      <4>1. Lo(map, k) < Hi(map, k) /\ Hi(map, k) < Lo(map, j)
        BY <1>1, <1>3, <2>1, <3>2
      <4> QED BY <1>1, <2>1, <4>1
    <3> QED BY <1>3, <1>8, <3>1, <3>2
  <2> QED BY <1>1, <2>1, <2>2, <2>3
\* The array in each of the cases, as Rebuilt describes it.
<1> DEFINE low  == IF last THEN k - 2 ELSE k - 1
           high == IF next THEN k + 1 ELSE k
           b    == IF last THEN Lo(map, k - 1) ELSE a
           c    == IF next THEN Hi(map, k) ELSE a + n
<1> HIDE DEF low, high, b, c
<1>9. /\ low \in Nat /\ high \in Nat /\ low < high /\ high <= L + 1
      /\ b \in Nat /\ c \in Nat /\ b <= a /\ a + n <= c /\ b < c
  <2>1. last => k - 1 \in 1..L
    BY <1>1, <1>3, <1>5
  <2>2. next => k \in 1..L
    BY <1>1, <1>3, <1>5
  <2>3. b \in Nat /\ b <= a
    BY <1>1, <1>5, <2>1 DEF b
  <2>4. c \in Nat /\ a + n <= c
    BY <1>1, <1>5, <2>2 DEF c
  <2>5. low \in Nat /\ high \in Nat /\ low < high /\ high <= L + 1
    BY <1>1, <1>3, <1>5 DEF low, high
  <2> QED BY <2>3, <2>4, <2>5
<1>10. \A j \in 1..low : Hi(map, j) < b
  <2> SUFFICES ASSUME NEW j \in 1..low  PROVE Hi(map, j) < b
    OBVIOUS
  <2>1. CASE last
    <3>1. j \in 1..L /\ k - 1 \in 1..L /\ j < k - 1 /\ b = Lo(map, k - 1)
      BY <1>1, <1>3, <1>5, <2>1 DEF low, b
    <3> QED BY <1>1, <3>1
  <2>2. CASE ~last
    <3>1. j \in 1..L /\ j < k /\ b = a /\ Hi(map, j) \in Nat
      BY <1>1, <1>3, <2>2 DEF low, b
    <3>2. Hi(map, j) <= a
      BY <1>7, <3>1
    <3>3. Hi(map, j) # a
      <4>1. CASE j = k - 1
        BY <1>3, <1>5, <2>2, <4>1
      <4>2. CASE j # k - 1
        <5>1. k - 1 \in 1..L /\ j < k - 1 /\ k - 1 < k
          BY <1>1, <1>3, <3>1, <4>2
        <5>2. Hi(map, j) < Lo(map, k - 1) /\ Lo(map, k - 1) < Hi(map, k - 1)
              /\ Hi(map, k - 1) <= a /\ Lo(map, k - 1) \in Nat /\ Hi(map, k - 1) \in Nat
          BY <1>1, <1>7, <5>1
        <5> QED BY <3>1, <5>2
      <4> QED BY <4>1, <4>2
    <3> QED BY <3>1, <3>2, <3>3
  <2> QED BY <2>1, <2>2
<1>11. \A j \in high..L : c < Lo(map, j)
  <2> SUFFICES ASSUME NEW j \in high..L  PROVE c < Lo(map, j)
    OBVIOUS
  <2>1. CASE next
    <3>1. j \in 1..L /\ k \in 1..L /\ k < j /\ c = Hi(map, k)
      BY <1>1, <1>3, <1>5, <2>1 DEF high, c
    <3> QED BY <1>1, <3>1
  <2>2. CASE ~next
    <3>1. j \in 1..L /\ k \in 1..L /\ j >= k /\ c = a + n /\ Lo(map, j) \in Nat
      BY <1>1, <1>3, <2>2 DEF high, c
    <3>2. a + n <= Lo(map, j)
      BY <1>8, <3>1
    <3>3. a + n # Lo(map, j)
      <4>1. CASE j = k
        BY <1>5, <2>2, <3>1, <4>1
      <4>2. CASE j # k
        <5>1. k < j /\ a + n <= Lo(map, k)
          BY <1>3, <1>8, <3>1, <4>2
        <5>2. Lo(map, k) < Hi(map, k) /\ Hi(map, k) < Lo(map, j)
              /\ Lo(map, k) \in Nat /\ Hi(map, k) \in Nat
          BY <1>1, <3>1, <5>1
        <5> QED BY <3>1, <5>1, <5>2
      <4> QED BY <4>1, <4>2
    <3> QED BY <3>1, <3>2, <3>3
  <2> QED BY <2>1, <2>2
<1>12. /\ r \in Seq(Nodes) /\ Len(r) = L + low + 2 - high
       /\ Lo(r, low + 1) = b /\ Hi(r, low + 1) = c
       /\ \A j \in 1..low : r[j] = map[j]
       /\ \A j \in (low + 2)..Len(r) : r[j] = map[j + high - low - 2]
  <2>1. CASE last /\ next
    <3> DEFINE e == [addr |-> map[k - 1].addr, size |-> map[k - 1].size + n + map[k].size]
               m == [map EXCEPT ![k - 1] = e]
    <3>1. k - 1 \in 1..L /\ k \in 1..L /\ low = k - 2 /\ high = k + 1
          /\ b = Lo(map, k - 1) /\ c = Hi(map, k)
      BY <1>1, <1>3, <1>5, <2>1 DEF low, high, b, c
    <3>2. e \in Nodes /\ e.addr = b /\ e.addr + e.size = c
      <4>1. /\ map[k - 1].addr = Lo(map, k - 1)
            /\ map[k - 1].size = Hi(map, k - 1) - Lo(map, k - 1)
            /\ map[k].size = Hi(map, k) - Lo(map, k)
            /\ Hi(map, k - 1) = a /\ a + n = Lo(map, k)
            /\ 0 < Lo(map, k - 1) /\ Lo(map, k - 1) < a /\ Lo(map, k) < Hi(map, k)
            /\ Lo(map, k - 1) \in Nat /\ Lo(map, k) \in Nat /\ Hi(map, k) \in Nat
        BY <1>1, <1>2, <1>5, <2>1, <3>1
      <4>2. map[k - 1].size + n + map[k].size = Hi(map, k) - Lo(map, k - 1)
        BY <4>1
      <4>3. e = [addr |-> b, size |-> c - b] /\ b \in Nat /\ c \in Nat /\ 0 < b /\ b < c
        BY <3>1, <4>1, <4>2
      <4> HIDE DEF e
      <4> QED BY <4>3 DEF Nodes
    <3> HIDE DEF e
    <3>3. m \in Seq(Nodes) /\ Len(m) = L /\ \A j \in 1..L : m[j] = IF j = k - 1 THEN e ELSE map[j]
      BY <1>1, <3>1, <3>2, SMTT(30)
    <3>4. r = RemoveAt(m, k)
      BY <1>4, <2>1 DEF e
    <3> HIDE DEF m
    <3>5. /\ r \in Seq(Nodes) /\ Len(r) = L - 1
          /\ \A j \in 1..(L - 1) : r[j] = IF j < k THEN m[j] ELSE m[j + 1]
      <4>1. m \in Seq(Nodes) /\ k \in 1..Len(m) /\ Len(m) = L
        BY <3>1, <3>3
      <4> QED BY <3>4, <4>1, RemoveAtFacts
    <3>6. r[k - 1] = e
      BY <1>1, <3>1, <3>3, <3>5
    <3>7. ASSUME NEW j \in 1..(k - 2)  PROVE r[j] = map[j]
      <4>1. j \in 1..(L - 1) /\ j \in 1..L /\ j < k /\ j # k - 1
        BY <1>1, <3>1
      <4> QED BY <3>3, <3>5, <4>1
    <3>8. \A j \in k..(L - 1) : r[j] = map[j + 1]
      BY <1>1, <3>1, <3>3, <3>5
    <3>9. low + 1 = k - 1 /\ low + 2 = k /\ Len(r) = L + low + 2 - high
          /\ \A j \in k..(L - 1) : j + high - low - 2 = j + 1
      BY <1>1, <3>1, <3>5
    <3>10. Lo(r, low + 1) = b /\ Hi(r, low + 1) = c
      BY <3>2, <3>6, <3>9 DEF Lo, Hi
    <3> QED BY <3>1, <3>5, <3>7, <3>8, <3>9, <3>10, ZenonT(40)
  <2>2. CASE last /\ ~next
    <3> DEFINE e == [addr |-> map[k - 1].addr, size |-> map[k - 1].size + n]
    <3>1. k \in Nat /\ k - 1 \in 1..L /\ low = k - 2 /\ high = k /\ b = Lo(map, k - 1) /\ c = a + n
      BY <1>1, <1>3, <1>5, <2>2 DEF low, high, b, c
    <3>2. e \in Nodes /\ e.addr = b /\ e.addr + e.size = c
      <4>1. /\ map[k - 1].addr = Lo(map, k - 1) /\ map[k - 1].size = a - Lo(map, k - 1)
            /\ 0 < Lo(map, k - 1) /\ Lo(map, k - 1) < a /\ Lo(map, k - 1) \in Nat
        BY <1>1, <1>2, <1>5, <2>2, <3>1
      <4> QED BY <3>1, <4>1, SMTT(30) DEF Nodes
    <3>3. r = [map EXCEPT ![k - 1] = e]
      BY <1>4, <2>2
    <3> HIDE DEF e
    <3>4. r \in Seq(Nodes) /\ Len(r) = L /\ \A j \in 1..L : r[j] = IF j = k - 1 THEN e ELSE map[j]
      BY <1>1, <3>1, <3>2, <3>3
    <3>5. low + 1 = k - 1 /\ low + 2 = k /\ Len(r) = L + low + 2 - high
          /\ \A j \in k..L : j + high - low - 2 = j
      BY <1>1, <3>1, <3>4
    <3>6. Lo(r, low + 1) = b /\ Hi(r, low + 1) = c
      BY <3>1, <3>2, <3>4, <3>5 DEF Lo, Hi
    <3>7. ASSUME NEW j \in 1..(k - 2)  PROVE r[j] = map[j]
      BY <1>1, <3>1, <3>4
    <3>8. ASSUME NEW j \in k..L  PROVE r[j] = map[j]
      BY <1>1, <3>1, <3>4
    <3> QED BY <3>1, <3>4, <3>5, <3>6, <3>7, <3>8
  <2>3. CASE ~last /\ next
    <3> DEFINE e == [addr |-> a, size |-> map[k].size + n]
    <3>1. k \in 1..L /\ low = k - 1 /\ high = k + 1 /\ b = a /\ c = Hi(map, k)
      BY <1>1, <1>3, <1>5, <2>3 DEF low, high, b, c
    <3>2. e \in Nodes /\ e.addr = b /\ e.addr + e.size = c
      <4>1. /\ map[k].size = Hi(map, k) - (a + n) /\ a + n < Hi(map, k) /\ Hi(map, k) \in Nat
        BY <1>1, <1>2, <1>5, <2>3, <3>1
      <4> QED BY <3>1, <4>1 DEF Nodes
    <3>3. r = [map EXCEPT ![k] = e]
      BY <1>4, <2>3
    <3> HIDE DEF e
    <3>4. r \in Seq(Nodes) /\ Len(r) = L /\ \A j \in 1..L : r[j] = IF j = k THEN e ELSE map[j]
      BY <1>1, <3>1, <3>2, <3>3
    <3> QED BY <1>1, <3>1, <3>2, <3>4 DEF Lo, Hi
  <2>4. CASE ~last /\ ~next
    <3> DEFINE e == [addr |-> a, size |-> n]
    <3>1. k \in 1..(L + 1) /\ low = k - 1 /\ high = k /\ b = a /\ c = a + n
      BY <1>3, <2>4 DEF low, high, b, c
    <3>2. e \in Nodes /\ e.addr = b /\ e.addr + e.size = c
      BY <3>1 DEF Nodes
    <3>3. r = InsertAt(map, k, e)
      BY <1>4, <2>4
    <3> HIDE DEF e
    <3>4. /\ r \in Seq(Nodes) /\ Len(r) = L + 1
          /\ \A j \in 1..(L + 1) :
                 r[j] = IF j < k THEN map[j] ELSE IF j = k THEN e ELSE map[j - 1]
      <4>1. map \in Seq(Nodes) /\ k \in 1..(Len(map) + 1) /\ e \in Nodes
        BY <1>1, <3>1, <3>2
      <4>2. \A i \in 1..(Len(map) + 1), d \in Nodes :
                /\ InsertAt(map, i, d) \in Seq(Nodes)
                /\ Len(InsertAt(map, i, d)) = Len(map) + 1
                /\ \A j \in 1..(Len(map) + 1) :
                       InsertAt(map, i, d)[j] =
                           IF j < i THEN map[j] ELSE IF j = i THEN d ELSE map[j - 1]
        BY <4>1, InsertAtFacts
      <4>3. InsertAt(map, k, e) \in Seq(Nodes) /\ Len(InsertAt(map, k, e)) = Len(map) + 1
        BY <4>1, <4>2
      <4>4. \A j \in 1..(Len(map) + 1) :
                InsertAt(map, k, e)[j] =
                    IF j < k THEN map[j] ELSE IF j = k THEN e ELSE map[j - 1]
        BY <4>1, <4>2, ZenonT(40)
      <4>5. r \in Seq(Nodes) /\ Len(r) = Len(map) + 1
        BY <3>3, <4>3
      <4>6. \A j \in 1..(Len(map) + 1) :
                r[j] = IF j < k THEN map[j] ELSE IF j = k THEN e ELSE map[j - 1]
        BY <3>3, <4>4
      <4> QED BY <4>5, <4>6
    <3> QED BY <1>1, <3>1, <3>2, <3>4 DEF Lo, Hi
  <2> QED BY <2>1, <2>2, <2>3, <2>4
<1>13. low <= L /\ \A j \in (low + 2)..Len(r) : j + high - low - 2 \in 1..L
  BY <1>1, <1>9, <1>12
<1>14. /\ WellFormed(r)
       /\ \A x \in Int :
              x \in Cells(r) <=>
                  \/ b <= x /\ x < c
                  \/ \E j \in (1..low) \cup (high..L) : Lo(map, j) <= x /\ x < Hi(map, j)
  <2>1. \A j \in 1..low : Lo(r, j) = Lo(map, j) /\ Hi(r, j) = Hi(map, j)
    BY <1>12 DEF Lo, Hi
  <2>2. \A j \in (low + 2)..Len(r) :
            /\ Lo(r, j) = Lo(map, j + high - low - 2)
            /\ Hi(r, j) = Hi(map, j + high - low - 2)
    BY <1>12 DEF Lo, Hi
  <2>3. IsRebuilt(map, r, low, high, b, c)
    BY <1>9, <1>10, <1>11, <1>12, <2>1, <2>2 DEF IsRebuilt
  <2> QED BY <2>3, Rebuilt
\* The areas that are joined to what is given back.
<1>15. ASSUME NEW x \in Int
       PROVE  x \in Cells(map) \/ x \in Area(a, n) <=> x \in Cells(r)
  <2>1. x \in Cells(map) <=> \E j \in 1..L : Lo(map, j) <= x /\ x < Hi(map, j)
    BY InCells
  <2>2. \A j \in 1..L :
            j \in (1..low) \cup (high..L) \/ (last /\ j = k - 1) \/ (next /\ j = k)
    BY <1>1, <1>3 DEF low, high
  <2>3. last => k - 1 \in 1..L /\ b = Lo(map, k - 1) /\ Hi(map, k - 1) = a
    BY <1>1, <1>3, <1>5 DEF b
  <2>4. next => k \in 1..L /\ c = Hi(map, k) /\ Lo(map, k) = a + n
    BY <1>1, <1>3, <1>5 DEF c
  <2>5. (1..low) \cup (high..L) \subseteq 1..L
    BY <1>1, <1>9, <1>13
  <2>6. ASSUME b <= x, x < c  PROVE x \in Cells(map) \/ x \in Area(a, n)
    <3>1. ~last => b = a
      BY DEF b
    <3>2. ~next => c = a + n
      BY DEF c
    <3>3. CASE a <= x /\ x < a + n
      BY <1>6, <3>3
    <3>4. CASE x < a
      <4>1. last
        BY <2>6, <3>1, <3>4
      <4> QED BY <2>1, <2>3, <2>6, <3>4, <4>1
    <3>5. CASE a + n <= x
      <4>1. next
        BY <2>6, <3>2, <3>5
      <4> QED BY <2>1, <2>4, <2>6, <3>5, <4>1
    <3> QED BY <3>3, <3>4, <3>5
  <2>7. ASSUME x \in Cells(map)  PROVE x \in Cells(r)
    <3>1. PICK j \in 1..L : Lo(map, j) <= x /\ x < Hi(map, j)
      BY <2>1, <2>7
    <3>2. CASE j \in (1..low) \cup (high..L)
      BY <1>14, <3>1, <3>2
    <3>3. CASE last /\ j = k - 1
      <4>1. b <= x /\ x < a
        BY <2>3, <3>1, <3>3
      <4>2. b <= x /\ x < c
        BY <1>9, <4>1
      <4> QED BY <1>14, <4>2
    <3>4. CASE next /\ j = k
      <4>1. a + n <= x /\ x < c
        BY <2>4, <3>1, <3>4
      <4>2. b <= x /\ x < c
        BY <1>9, <4>1
      <4> QED BY <1>14, <4>2
    <3> QED BY <2>2, <3>2, <3>3, <3>4
  <2>8. ASSUME x \in Area(a, n)  PROVE x \in Cells(r)
    <3>1. b <= x /\ x < c
      BY <1>6, <1>9, <2>8
    <3> QED BY <1>14, <3>1
  <2>9. ASSUME x \in Cells(r)  PROVE x \in Cells(map) \/ x \in Area(a, n)
    <3>1. CASE b <= x /\ x < c
      BY <2>6, <3>1
    <3>2. CASE \E j \in (1..low) \cup (high..L) : Lo(map, j) <= x /\ x < Hi(map, j)
      BY <2>1, <2>5, <3>2
    <3> QED BY <1>14, <2>9, <3>1, <3>2
  <2> QED BY <2>7, <2>8, <2>9
<1>16. Cells(r) = Cells(map) \cup Area(a, n)
  <2>1. Cells(r) \subseteq Int /\ Cells(map) \subseteq Int /\ Area(a, n) \subseteq Int
    BY <1>6, <1>14, InCells
  <2> QED BY <1>15, <2>1
<1> QED BY <1>14, <1>16 DEF r

-----------------------------------------------------------------------------
(* Processes, pages and blocks *)

All == 0..(NPROC - 1)

Labels   == {"none", "user", "exec", "expand", "text", "swap", "io", "wait", "nod",
             "panic", "loop"}
Channels == {Awake, SwBuf, RunIn, RunOut, Event}
Nexts    == {"user", "forked", "expanded", "expanded by exec", "text", "copied",
             "text in", "image in"}
ProcEntries == [stat : {"SNULL", "SRUN", "SIDL"}, load : BOOLEAN, addr : Nat, size : Nat,
             text : Files \cup {NoFile}]
TextEntries == [count : Nat, ccount : Nat, caddr : Nat, daddr : Nat]
Locals   == [old : Nat, blk : Nat, file : Files \cup {NoFile}, parent : All]

TypeOK ==
    /\ proc \in [All -> ProcEntries]
    /\ text \in [Files -> TextEntries]
    /\ swbuf \in [busy : BOOLEAN, wanted : BOOLEAN] /\ runIn \in BOOLEAN /\ runOut \in BOOLEAN
    /\ cpu \in All \cup {NoProc}
    /\ pc \in [All -> Labels] /\ chan \in [All -> Channels] /\ then \in [All -> Nexts]
    /\ loc \in [All -> Locals] /\ in \in [sel : All, des : Nat]
    /\ lost \in BOOLEAN /\ wild \in BOOLEAN

Moving == {"swap", "io", "wait", "nod"}

\* Where a process goes on after Swap, and what XSwap and Exec remember for it.
Moves(i) ==
    \/ then[i] = "forked" /\ loc[i].blk > 0 /\ loc[i].old > 0
       /\ loc[i].parent \in Slots /\ loc[i].file = NoFile
       /\ proc[loc[i].parent].stat = "SIDL"
    \/ then[i] = "expanded" /\ loc[i].blk > 0 /\ loc[i].old > 0 /\ loc[i].parent = 0
       /\ loc[i].file = NoFile
    \/ then[i] = "expanded by exec" /\ loc[i].blk > 0 /\ loc[i].old > 0 /\ loc[i].parent = 0
       /\ loc[i].file = proc[i].text /\ proc[i].text # NoFile
    \/ then[i] = "copied" /\ loc[i].blk = 0 /\ loc[i].old = 0 /\ loc[i].parent = 0
       /\ loc[i].file = proc[i].text /\ proc[i].text # NoFile

\* What is known of a process by the place where it is.
PlaceOK(i) ==
    /\ pc[i] # "loop"
    /\ pc[i] = "none" <=> proc[i].stat = "SNULL"
    /\ proc[i].stat = "SNULL" => ~proc[i].load /\ proc[i].text = NoFile
    /\ proc[i].stat # "SNULL" => proc[i].size >= Page
    /\ proc[i].stat = "SIDL" => pc[i] = "user" /\ proc[i].load
    /\ pc[i] \in {"none", "user"} => loc[i] = NoLoc /\ then[i] = "user"
    /\ pc[i] = "exec" => loc[i].old = 0 /\ loc[i].blk = 0 /\ loc[i].parent = 0
                         /\ loc[i].file # NoFile /\ then[i] = "user"
    /\ pc[i] = "expand" => loc[i].old > 0 /\ loc[i].blk = 0 /\ loc[i].parent = 0
                           /\ \/ then[i] = "user" /\ loc[i].file = NoFile
                              \/ then[i] = "text" /\ loc[i].file = proc[i].text
                                 /\ proc[i].text # NoFile
    /\ pc[i] = "text" => loc[i].old = 0 /\ loc[i].blk = 0 /\ loc[i].parent = 0
                         /\ loc[i].file = proc[i].text /\ proc[i].text # NoFile
                         /\ then[i] \in {"user", "text"}
    /\ pc[i] \in Moving => Moves(i)
    /\ pc[i] = "panic" => loc[i].blk = 0 /\ then[i] \in {"user", "text"}
    /\ ~proc[i].load => pc[i] \in {"none", "user", "text"} /\ chan[i] = Awake
    /\ chan[i] \in {Awake, Event, SwBuf}
    /\ chan[i] = Event => pc[i] = "user"
    /\ chan[i] = SwBuf => pc[i] \in {"io", "wait"}

SchedOK ==
    /\ proc[Sched].stat = "SRUN" /\ proc[Sched].load
    /\ pc[Sched] \in {"loop"} \cup Moving
    /\ chan[Sched] \in {Awake, RunIn, RunOut, SwBuf}
    /\ chan[Sched] \in {RunIn, RunOut} => pc[Sched] = "loop"
    /\ chan[Sched] = SwBuf => pc[Sched] \in {"io", "wait"}
    /\ pc[Sched] = "loop" => in = NoIn /\ then[Sched] = "user"
    /\ pc[Sched] # "loop" => /\ in.sel \in Slots /\ then[Sched] \in {"text in", "image in"}
                             /\ proc[in.sel].stat = "SRUN" /\ ~proc[in.sel].load
                             /\ then[Sched] = "text in" => TextOut(in.sel)

\* No two children have the same parent waiting for them.
Births == \A c, d \in Slots :
    pc[c] \in Moving /\ pc[d] \in Moving /\ then[c] = "forked" /\ then[d] = "forked"
    /\ loc[c].parent = loc[d].parent => c = d

\* SwBuf is busy while one transfer is under way; who is about to sleep for it is known,
\* or was lost.
BufferOK ==
    /\ swbuf.busy => \E i \in All : pc[i] = "io"
    /\ \A i \in All : pc[i] = "io" => swbuf.busy
    /\ \A i, j \in All : pc[i] = "io" /\ pc[j] = "io" => i = j
    /\ \A i \in All : pc[i] = "nod" => cpu = i /\ (lost \/ (swbuf.busy /\ swbuf.wanted))

PlacesOK == \A i \in Slots : PlaceOK(i)

Control == TypeOK /\ PlacesOK /\ SchedOK /\ Births /\ BufferOK

\* A map and what each of its users has.
Divided(map, use, n) ==
    /\ WellFormed(map)
    /\ \A x \in Cells(map) : x \in 1..n /\ \A k \in DOMAIN use : x \notin use[k]
    /\ \A k \in DOMAIN use : use[k] \subseteq 1..n
    /\ \A x \in 1..n : x \in Cells(map) \/ \E k \in DOMAIN use : x \in use[k]
    /\ \A k, l \in DOMAIN use : k # l => use[k] \cap use[l] = {}

Img(i) == <<"image", i>>
Txt(f) == <<"text", f>>
Inn    == <<"in", 0>>
Keys   == {Img(i) : i \in Slots} \cup {Txt(f) : f \in Files} \cup {Inn}

\* What the images, the texts and Sched have.
Use(images, texts, inn) ==
    [k \in Keys |-> CASE k[1] = "image" -> images[k[2]]
                      [] k[1] = "text" -> texts[k[2]]
                      [] OTHER -> inn]

ImageIn(i) == Area(proc[i].addr, HeldPages(i))
TextsOf(t) == [f \in Files |-> IF t[f].ccount > 0 THEN Area(t[f].caddr, Pages(TextSize)) ELSE {}]
GoingIn    == IF in.sel = 0 THEN {}
              ELSE Area(in.des, IF then[Sched] = "text in"
                                THEN Pages(TextSize) + Pages(proc[in.sel].size)
                                ELSE Pages(proc[in.sel].size))
Images     == [i \in Slots |-> ImageIn(i)]
Texts      == TextsOf(text)
MemUse     == Use(Images, Texts, GoingIn)

ImageOut(i) == IF Image(i) /\ ~proc[i].load THEN Area(proc[i].addr, proc[i].size)
               ELSE IF loc[i].blk > 0 THEN Area(loc[i].blk, proc[i].size) ELSE {}
CopiesOf(t) == [f \in Files |-> IF t[f].count > 0 THEN Area(t[f].daddr, TextSize) ELSE {}]
Outs    == [i \in Slots |-> ImageOut(i)]
Copies  == CopiesOf(text)
SwapUse == Use(Outs, Copies, {})

IInv ==
    /\ WellFormed(mem) /\ WellFormed(swap)
    /\ ~wild => /\ Control /\ SleepersHaveReason /\ TextCounts
                /\ Divided(mem, MemUse, NPages) /\ Divided(swap, SwapUse, NBlocks)

-----------------------------------------------------------------------------
\* Pages

\* Quotient and remainder, for a divisor that is not known.
LEMMA DivFacts ==
    ASSUME NEW n \in Nat, NEW p \in Nat, p > 0
    PROVE  /\ n \div p \in Nat /\ n % p \in 0..(p - 1)
           /\ n = p * (n \div p) + (n % p)
<1>1. n \div p \in Int /\ n \div p >= 0
  OBVIOUS
<1>2. n % p \in 0..(p - 1)
  OBVIOUS
<1>3. n = p * (n \div p) + (n % p)
  OBVIOUS
<1> QED BY <1>1, <1>2, <1>3

LEMMA DivUnique ==
    ASSUME NEW n \in Nat, NEW p \in Nat, p > 0, NEW q \in Nat, NEW r \in 0..(p - 1),
           n = p * q + r
    PROVE  n \div p = q /\ n % p = r
<1>1. n \div p = q
  OBVIOUS
<1>2. n % p = r
  OBVIOUS
<1> QED BY <1>1, <1>2

LEMMA PageFacts == Page \in Nat /\ Page > 0 /\ TextSize \in Nat /\ TextSize >= Page
                   /\ Page * (TextSize \div Page) = TextSize
<1>1. Page \in Nat /\ Page > 0 /\ TextSize \in Nat /\ TextSize > 0 /\ TextSize % Page = 0
  BY SwappingAssumption
<1>2. /\ TextSize \div Page \in Nat
      /\ TextSize = Page * (TextSize \div Page) + (TextSize % Page)
  BY <1>1, DivFacts
<1>3. TextSize = Page * (TextSize \div Page)
  BY <1>1, <1>2
<1>4. TextSize \div Page # 0
  BY <1>1, <1>3
<1>5. Page * (TextSize \div Page) >= Page
  BY <1>1, <1>2, <1>4
<1> QED BY <1>1, <1>3, <1>5

\* A number of blocks takes enough pages, and not one too many.
LEMMA PagesIs ==
    ASSUME NEW n \in Nat
    PROVE  /\ Pages(n) \in Nat /\ n <= Page * Pages(n) /\ Page * Pages(n) < n + Page
           /\ Page * Pages(n) \in Nat
<1>1. Page \in Nat /\ Page > 0 /\ n + Page - 1 \in Nat
  BY PageFacts
<1> DEFINE q == (n + Page - 1) \div Page
           r == (n + Page - 1) % Page
<1>2. q \in Nat /\ r \in 0..(Page - 1) /\ n + Page - 1 = Page * q + r
  BY <1>1, DivFacts
<1>3. Pages(n) = q
  BY DEF Pages
<1> HIDE DEF q, r
<1>4. Page * q \in Nat
  BY <1>1, <1>2
<1> QED BY <1>1, <1>2, <1>3, <1>4

\* The number of pages is the only one that does.
LEMMA PagesAre ==
    ASSUME NEW n \in Nat, NEW q \in Nat, n <= Page * q, Page * q < n + Page
    PROVE  Pages(n) = q
<1>1. Page \in Nat /\ Page > 0 /\ n + Page - 1 \in Nat /\ Page * q \in Nat
  BY PageFacts
<1> DEFINE r == n + Page - 1 - Page * q
<1>2. r \in 0..(Page - 1) /\ n + Page - 1 = Page * q + r
  BY <1>1
<1> HIDE DEF r
<1>3. (n + Page - 1) \div Page = q
  BY <1>1, <1>2, DivUnique
<1> QED BY <1>3 DEF Pages

\* The page of the u area, whole texts and images: what Expand, Exec and Sched add up.
LEMMA PagesSums ==
    /\ Pages(0) = 0 /\ Pages(USIZE) = 1
    /\ Pages(TextSize) \in Nat \ {0}
    /\ \A n \in Nat : Pages(n) \in Nat /\ (n > 0 => Pages(n) \in Nat \ {0})
    /\ \A n \in Nat : Pages(n + TextSize) = Pages(TextSize) + Pages(n)
<1>1. Page \in Nat /\ Page > 0 /\ TextSize \in Nat /\ TextSize > 0
  BY PageFacts
<1>2. Pages(0) = 0
  BY <1>1, PagesAre
<1>3. Pages(USIZE) = 1
  BY <1>1, PagesAre DEF USIZE
<1>4. ASSUME NEW n \in Nat  PROVE Pages(n) \in Nat /\ (n > 0 => Pages(n) # 0)
  BY <1>1, <1>4, PagesIs
<1>5. ASSUME NEW n \in Nat  PROVE Pages(n + TextSize) = Pages(TextSize) + Pages(n)
  <2> DEFINE t == TextSize \div Page
  <2>1. t \in Nat /\ Page * t = TextSize
    BY <1>1, DivFacts, PageFacts
  <2> HIDE DEF t
  <2>2. Pages(TextSize) = t
    BY <1>1, <2>1, PagesAre
  <2>3. Pages(n) \in Nat /\ n <= Page * Pages(n) /\ Page * Pages(n) < n + Page
        /\ Page * Pages(n) \in Nat
    BY PagesIs
  <2>4. Page * (t + Pages(n)) = TextSize + Page * Pages(n)
    BY <1>1, <2>1, <2>3
  <2>5. t + Pages(n) \in Nat /\ n + TextSize \in Nat
        /\ n + TextSize <= Page * (t + Pages(n))
        /\ Page * (t + Pages(n)) < (n + TextSize) + Page
    BY <1>1, <2>1, <2>3, <2>4
  <2>6. Pages(n + TextSize) = t + Pages(n)
    BY <2>5, PagesAre
  <2> QED BY <2>2, <2>6
<1> QED BY <1>1, <1>2, <1>3, <1>4, <1>5

\* What Expand to a smaller size gives back is part of the image.
LEMMA ShrinkFits ==
    ASSUME NEW old \in Nat, NEW new \in Nat, new < old
    PROVE  /\ new \div Page \in Nat /\ Pages(old - new) \in Nat \ {0}
           /\ new \div Page + Pages(old - new) <= Pages(old)
<1>1. Page \in Nat /\ Page > 0 /\ old - new \in Nat /\ old - new > 0
  BY PageFacts
<1> DEFINE q == new \div Page
           d == Pages(old - new)
           p == Pages(old)
<1>2. q \in Nat /\ Page * q \in Nat /\ Page * q <= new
  <2>1. q \in Nat /\ new % Page \in 0..(Page - 1) /\ new = Page * q + (new % Page)
    BY <1>1, DivFacts
  <2> HIDE DEF q
  <2> QED BY <1>1, <2>1
<1>3. d \in Nat \ {0} /\ Page * d < old - new + Page /\ Page * d \in Nat
  BY <1>1, PagesIs, PagesSums
<1>4. p \in Nat /\ old <= Page * p /\ Page * p \in Nat
  BY PagesIs
<1> HIDE DEF q, d, p
<1>5. ASSUME q + d >= p + 1  PROVE FALSE
  <2>1. Page * (q + d) >= Page * (p + 1)
    BY <1>1, <1>2, <1>3, <1>4, <1>5
  <2>2. Page * (q + d) = Page * q + Page * d /\ Page * (p + 1) = Page * p + Page
    BY <1>1, <1>2, <1>3, <1>4
  <2> QED BY <1>1, <1>2, <1>3, <1>4, <2>1, <2>2
<1>6. q + d <= p
  BY <1>2, <1>3, <1>4, <1>5
<1> QED BY <1>2, <1>3, <1>6 DEF q, d, p

\* To the end of a page, it is all that is beyond.
LEMMA ShrinkExact ==
    ASSUME NEW old \in Nat, NEW new \in Nat, new < old, new % Page = 0
    PROVE  new \div Page = Pages(new) /\ Pages(old - new) = Pages(old) - Pages(new)
<1>1. Page \in Nat /\ Page > 0 /\ old - new \in Nat
  BY PageFacts
<1> DEFINE q == new \div Page
<1>2. q \in Nat /\ new = Page * q
  <2>1. q \in Nat /\ new = Page * q + (new % Page)
    BY <1>1, DivFacts
  <2> HIDE DEF q
  <2> QED BY <1>1, <2>1
<1> HIDE DEF q
<1>3. Pages(new) = q
  BY <1>1, <1>2, PagesAre
<1> DEFINE p == Pages(old)
<1>4. p \in Nat /\ old <= Page * p /\ Page * p < old + Page /\ Page * p \in Nat
  BY PagesIs
<1> HIDE DEF p
<1>5. p >= q
  <2> SUFFICES ASSUME p < q  PROVE FALSE
    BY <1>2, <1>4
  <2>1. Page * p <= Page * q
    BY <1>1, <1>2, <1>4
  <2> QED BY <1>2, <1>4, <2>1
<1>6. p - q \in Nat /\ Page * (p - q) = Page * p - Page * q
  BY <1>1, <1>2, <1>4, <1>5
<1>7. old - new <= Page * (p - q) /\ Page * (p - q) < old - new + Page
  BY <1>1, <1>2, <1>4, <1>6
<1>8. Pages(old - new) = p - q
  BY <1>1, <1>6, <1>7, PagesAre
<1> QED BY <1>3, <1>8 DEF p, q

-----------------------------------------------------------------------------
\* Maps and their users

\* After a step the users have what they had, but for one of them.
Changed(use, use2, k, units) ==
    /\ DOMAIN use2 = DOMAIN use /\ use2[k] = units
    /\ \A l \in DOMAIN use : l # k => use2[l] = use[l]

LEMMA InArea ==
    ASSUME NEW a \in Int, NEW n \in Int, NEW x
    PROVE  x \in Area(a, n) <=> x \in Int /\ a <= x /\ x < a + n
BY DEF Area

\* Free of nothing changes nothing.
LEMMA FreeNone ==
    ASSUME NEW map, WellFormed(map), NEW a \in Nat
    PROVE  FreeMap(map, 0, a) = map
<1> DEFINE k == Place(map, a)
<1>1. /\ k \in 1..(Len(map) + 1)
      /\ \A j \in 1..(k - 1) : map[j].addr <= a
      /\ k <= Len(map) => map[k].addr > a
  BY PlaceFacts
<1>2. /\ map \in Seq(Nodes) /\ Len(map) \in Nat /\ DOMAIN map = 1..Len(map)
      /\ \A i \in 1..Len(map) : map[i] \in Nodes /\ map[i].addr \in Nat
  BY Entries DEF Nodes
<1>3. ~TouchesNext(map, k, 0, a)
  BY <1>1, <1>2 DEF TouchesNext
<1>4. CASE TouchesLast(map, k, a)
  <2>1. k - 1 \in 1..Len(map) /\ map[k - 1] \in Nodes
    BY <1>1, <1>2, <1>4 DEF TouchesLast
  <2>2. [addr |-> map[k - 1].addr, size |-> map[k - 1].size + 0] = map[k - 1]
    BY <2>1 DEF Nodes
  <2>3. FreeMap(map, 0, a) = [map EXCEPT ![k - 1] = map[k - 1]]
    BY <1>3, <1>4, <2>2 DEF FreeMap
  <2> HIDE DEF k
  <2> QED BY <1>2, <2>1, <2>3
<1>5. CASE ~TouchesLast(map, k, a)
  BY <1>3, <1>5 DEF FreeMap
<1> QED BY <1>4, <1>5

\* What Alloc returns is an address, and the array stays as it is without one.
LEMMA AllocFacts ==
    ASSUME NEW map, WellFormed(map), NEW n \in Nat
    PROVE  /\ AllocAddr(map, n) \in Nat
           /\ AllocAddr(map, n) = 0 => AllocMap(map, n) = map
           /\ n > 0 => WellFormed(AllocMap(map, n))
<1>1. CASE Fits(map, n) = {}
  BY <1>1 DEF AllocAddr, AllocMap
<1>2. CASE Fits(map, n) # {}
  <2>1. First(map, n) \in 1..Len(map)
    BY <1>2, FirstFits
  <2>2. AllocAddr(map, n) = map[First(map, n)].addr
    BY <1>2 DEF AllocAddr
  <2>3. AllocAddr(map, n) \in Nat \ {0}
    BY <2>1, <2>2, Entries DEF Nodes
  <2>4. n > 0 => WellFormed(AllocMap(map, n))
    BY <1>2, AllocKeeps
  <2> QED BY <2>3, <2>4
<1> QED BY <1>1, <1>2

\* Alloc: one user has what was free.
LEMMA Takes ==
    ASSUME NEW map, NEW use, NEW use2, NEW n \in Nat, Divided(map, use, n),
           NEW k \in DOMAIN use, NEW size \in Nat, size > 0, AllocAddr(map, size) # 0,
           Changed(use, use2, k, use[k] \cup Area(AllocAddr(map, size), size))
    PROVE  Divided(AllocMap(map, size), use2, n)
<1> DEFINE new == AllocMap(map, size)
           A == Area(AllocAddr(map, size), size)
<1>1. WellFormed(map) /\ Fits(map, size) # {} /\ size \in Nat \ {0}
  BY DEF Divided, AllocAddr
<1>2. WellFormed(new) /\ A \subseteq Cells(map) /\ Cells(new) = Cells(map) \ A
  BY <1>1, AllocKeeps
<1> HIDE DEF new, A
<1>3. /\ DOMAIN use2 = DOMAIN use /\ use2[k] = use[k] \cup A
      /\ \A l \in DOMAIN use : l # k => use2[l] = use[l]
  BY DEF Changed, A
<1>4. \A x \in Cells(new) : x \in 1..n /\ \A l \in DOMAIN use2 : x \notin use2[l]
  BY <1>2, <1>3 DEF Divided
<1>5. \A l \in DOMAIN use2 : use2[l] \subseteq 1..n
  BY <1>2, <1>3 DEF Divided
<1>6. \A x \in 1..n : x \in Cells(new) \/ \E l \in DOMAIN use2 : x \in use2[l]
  <2> TAKE x \in 1..n
  <2>1. CASE x \in A
    BY <1>3, <2>1
  <2>2. CASE x \notin A /\ x \in Cells(map)
    BY <1>2, <2>2
  <2>3. ASSUME NEW l \in DOMAIN use, x \in use[l]  PROVE \E m \in DOMAIN use2 : x \in use2[m]
    BY <1>3, <2>3
  <2> QED BY <2>1, <2>2, <2>3 DEF Divided
<1>7. ASSUME NEW l \in DOMAIN use2, NEW m \in DOMAIN use2, l # m
      PROVE  use2[l] \cap use2[m] = {}
  <2>1. use[l] \cap use[m] = {} /\ A \cap use[l] = {} /\ A \cap use[m] = {}
    BY <1>2, <1>3, <1>7 DEF Divided
  <2>2. /\ use2[l] = use[l] \/ (l = k /\ use2[l] = use[l] \cup A)
        /\ use2[m] = use[m] \/ (m = k /\ use2[m] = use[m] \cup A)
    BY <1>3
  <2> QED BY <1>7, <2>1, <2>2
<1>8. Divided(new, use2, n)
  BY <1>2, <1>4, <1>5, <1>6, <1>7 DEF Divided
<1> QED BY <1>8 DEF new

\* Free: one user gives back some of what it has.
LEMMA Gives ==
    ASSUME NEW map, NEW use, NEW use2, NEW n \in Nat, Divided(map, use, n),
           NEW k \in DOMAIN use, NEW size \in Nat, NEW a \in Nat,
           Area(a, size) \subseteq use[k],
           Changed(use, use2, k, use[k] \ Area(a, size))
    PROVE  Divided(FreeMap(map, size, a), use2, n)
<1> DEFINE new == FreeMap(map, size, a)
           A == Area(a, size)
<1>1. WellFormed(map) /\ A \cap Cells(map) = {} /\ A \subseteq 1..n
  BY DEF Divided
<1>2. WellFormed(new) /\ Cells(new) = Cells(map) \cup A
  <2>1. CASE size = 0
    <3>1. A = {}
      BY <2>1, InArea
    <3> QED BY <1>1, <2>1, <3>1, FreeNone
  <2>2. CASE size > 0
    <3>1. a \in A
      BY <2>2, InArea
    <3>2. a \in Nat \ {0} /\ size \in Nat \ {0}
      BY <1>1, <2>2, <3>1
    <3> QED BY <1>1, <3>2, FreeKeeps
  <2> QED BY <2>1, <2>2
<1>3. /\ DOMAIN use2 = DOMAIN use /\ use2[k] = use[k] \ A /\ A \subseteq use[k]
      /\ \A l \in DOMAIN use : l # k => use2[l] = use[l]
  BY DEF Changed
<1> HIDE DEF new, A
<1>4. \A x \in Cells(new) : x \in 1..n /\ \A l \in DOMAIN use2 : x \notin use2[l]
  <2> TAKE x \in Cells(new)
  <2>1. CASE x \in Cells(map)
    BY <1>3, <2>1 DEF Divided
  <2>2. CASE x \in A
    <3>1. ASSUME NEW l \in DOMAIN use, l # k  PROVE x \notin use[l]
      BY <1>3, <2>2, <3>1 DEF Divided
    <3> QED BY <1>1, <1>3, <2>2, <3>1
  <2> QED BY <1>2, <2>1, <2>2
<1>5. \A l \in DOMAIN use2 : use2[l] \subseteq 1..n
  BY <1>3 DEF Divided
<1>6. \A x \in 1..n : x \in Cells(new) \/ \E l \in DOMAIN use2 : x \in use2[l]
  BY <1>2, <1>3 DEF Divided
<1>7. ASSUME NEW l \in DOMAIN use2, NEW m \in DOMAIN use2, l # m
      PROVE  use2[l] \cap use2[m] = {}
  <2>1. use[l] \cap use[m] = {} /\ use2[l] \subseteq use[l] /\ use2[m] \subseteq use[m]
    BY <1>3, <1>7 DEF Divided
  <2> QED BY <2>1
<1>8. Divided(new, use2, n)
  BY <1>2, <1>4, <1>5, <1>6, <1>7 DEF Divided
<1> QED BY <1>8 DEF new

\* One user hands something over to another.
LEMMA Hands ==
    ASSUME NEW map, NEW use, NEW use1, NEW use2, NEW n \in Nat, Divided(map, use, n),
           NEW k \in DOMAIN use, NEW j \in DOMAIN use, j # k, NEW A,
           A \subseteq use[k], Changed(use, use1, k, use[k] \ A),
           Changed(use1, use2, j, use[j] \cup A)
    PROVE  Divided(map, use2, n)
<1>1. /\ DOMAIN use2 = DOMAIN use /\ use2[k] = use[k] \ A /\ use2[j] = use[j] \cup A
      /\ \A l \in DOMAIN use : l # k /\ l # j => use2[l] = use[l]
  BY DEF Changed
<1>2. \A x : (\E l \in DOMAIN use2 : x \in use2[l]) <=> (\E l \in DOMAIN use : x \in use[l])
  <2> TAKE x
  <2>1. ASSUME NEW l \in DOMAIN use, x \in use[l]  PROVE \E m \in DOMAIN use2 : x \in use2[m]
    BY <1>1, <2>1
  <2>2. ASSUME NEW l \in DOMAIN use2, x \in use2[l]  PROVE \E m \in DOMAIN use : x \in use[m]
    BY <1>1, <2>2
  <2> QED BY <2>1, <2>2
<1>3. \A x \in Cells(map) : x \in 1..n /\ \A l \in DOMAIN use2 : x \notin use2[l]
  BY <1>2 DEF Divided
<1>4. \A l \in DOMAIN use2 : use2[l] \subseteq 1..n
  BY <1>1 DEF Divided
<1>5. \A x \in 1..n : x \in Cells(map) \/ \E l \in DOMAIN use2 : x \in use2[l]
  BY <1>2 DEF Divided
<1>6. ASSUME NEW l \in DOMAIN use2, NEW m \in DOMAIN use2, l # m
      PROVE  use2[l] \cap use2[m] = {}
  <2>1. use[l] \cap use[m] = {} /\ (l # k => A \cap use[l] = {}) /\ (m # k => A \cap use[m] = {})
    BY <1>1, <1>6 DEF Divided
  <2>2. CASE l = j
    BY <1>1, <1>6, <2>1, <2>2
  <2>3. CASE l = k
    BY <1>1, <1>6, <2>1, <2>3
  <2>4. CASE l # j /\ l # k
    BY <1>1, <1>6, <2>1, <2>4
  <2> QED BY <2>2, <2>3, <2>4
<1> QED BY <1>3, <1>4, <1>5, <1>6 DEF Divided

\* The users of a map one by one.
LEMMA UseFacts ==
    ASSUME NEW a, NEW t, NEW g
    PROVE  /\ DOMAIN Use(a, t, g) = Keys
           /\ \A i \in Slots : Img(i) \in Keys /\ Use(a, t, g)[Img(i)] = a[i]
           /\ \A f \in Files : Txt(f) \in Keys /\ Use(a, t, g)[Txt(f)] = t[f]
           /\ Inn \in Keys /\ Use(a, t, g)[Inn] = g
BY DEF Use, Keys, Img, Txt, Inn

LEMMA KeysApart ==
    /\ \A i, j \in Slots : Img(i) = Img(j) => i = j
    /\ \A f, e \in Files : Txt(f) = Txt(e) => f = e
    /\ \A i \in Slots, f \in Files : Img(i) # Txt(f) /\ Img(i) # Inn /\ Txt(f) # Inn
    /\ \A k \in Keys : \/ \E i \in Slots : k = Img(i)
                       \/ \E f \in Files : k = Txt(f)
                       \/ k = Inn
<1>1. \A i, j \in Slots : Img(i) = Img(j) => i = j
  BY DEF Img
<1>2. \A f, e \in Files : Txt(f) = Txt(e) => f = e
  BY DEF Txt
<1>3. \A i \in Slots, f \in Files : Img(i) # Txt(f)
  BY DEF Img, Txt
<1>4. (\A i \in Slots : Img(i) # Inn) /\ (\A f \in Files : Txt(f) # Inn)
  BY DEF Img, Txt, Inn
<1>5. \A k \in Keys : \/ \E i \in Slots : k = Img(i)
                      \/ \E f \in Files : k = Txt(f)
                      \/ k = Inn
  BY DEF Keys
<1> QED BY <1>1, <1>2, <1>3, <1>4, <1>5

LEMMA ImgChanged ==
    ASSUME NEW a, NEW a2, NEW t, NEW g, NEW i \in Slots,
           \A j \in Slots : j # i => a2[j] = a[j]
    PROVE  Changed(Use(a, t, g), Use(a2, t, g), Img(i), a2[i])
<1>1. ASSUME NEW k \in Keys, k # Img(i)  PROVE Use(a2, t, g)[k] = Use(a, t, g)[k]
  <2>1. CASE \E j \in Slots : k = Img(j)
    BY <1>1, <2>1, UseFacts
  <2>2. CASE \E f \in Files : k = Txt(f)
    BY <2>2, UseFacts
  <2>3. CASE k = Inn
    BY <2>3, UseFacts
  <2> QED BY <2>1, <2>2, <2>3, KeysApart
<1> QED BY <1>1, UseFacts DEF Changed

LEMMA TxtChanged ==
    ASSUME NEW a, NEW t, NEW t2, NEW g, NEW f \in Files,
           \A e \in Files : e # f => t2[e] = t[e]
    PROVE  Changed(Use(a, t, g), Use(a, t2, g), Txt(f), t2[f])
<1>1. ASSUME NEW k \in Keys, k # Txt(f)  PROVE Use(a, t2, g)[k] = Use(a, t, g)[k]
  <2>1. CASE \E j \in Slots : k = Img(j)
    BY <2>1, UseFacts
  <2>2. CASE \E e \in Files : k = Txt(e)
    BY <1>1, <2>2, UseFacts
  <2>3. CASE k = Inn
    BY <2>3, UseFacts
  <2> QED BY <2>1, <2>2, <2>3, KeysApart
<1> QED BY <1>1, UseFacts DEF Changed

LEMMA InnChanged ==
    ASSUME NEW a, NEW t, NEW g, NEW g2
    PROVE  Changed(Use(a, t, g), Use(a, t, g2), Inn, g2)
<1>1. ASSUME NEW k \in Keys, k # Inn  PROVE Use(a, t, g2)[k] = Use(a, t, g)[k]
  <2>1. CASE \E j \in Slots : k = Img(j)
    BY <2>1, UseFacts
  <2>2. CASE \E f \in Files : k = Txt(f)
    BY <2>2, UseFacts
  <2> QED BY <1>1, <2>1, <2>2, KeysApart
<1> QED BY <1>1, UseFacts DEF Changed

\* Alloc and Free for an image and for a text.
LEMMA ImageTakes ==
    ASSUME NEW map, NEW a, NEW a2, NEW t, NEW g, NEW n \in Nat, Divided(map, Use(a, t, g), n),
           NEW i \in Slots, NEW size \in Nat, size > 0, AllocAddr(map, size) # 0,
           \A j \in Slots : j # i => a2[j] = a[j],
           a2[i] = a[i] \cup Area(AllocAddr(map, size), size)
    PROVE  Divided(AllocMap(map, size), Use(a2, t, g), n)
<1>1. Changed(Use(a, t, g), Use(a2, t, g), Img(i), a2[i])
  BY ImgChanged
<1>2. Img(i) \in DOMAIN Use(a, t, g) /\ Use(a, t, g)[Img(i)] = a[i]
  BY UseFacts
<1> QED BY <1>1, <1>2, Takes

LEMMA ImageGives ==
    ASSUME NEW map, NEW a, NEW a2, NEW t, NEW g, NEW n \in Nat, Divided(map, Use(a, t, g), n),
           NEW i \in Slots, NEW size \in Nat, NEW addr \in Nat,
           Area(addr, size) \subseteq a[i],
           \A j \in Slots : j # i => a2[j] = a[j],
           a2[i] = a[i] \ Area(addr, size)
    PROVE  Divided(FreeMap(map, size, addr), Use(a2, t, g), n)
<1>1. Changed(Use(a, t, g), Use(a2, t, g), Img(i), a2[i])
  BY ImgChanged
<1>2. Img(i) \in DOMAIN Use(a, t, g) /\ Use(a, t, g)[Img(i)] = a[i]
  BY UseFacts
<1> QED BY <1>1, <1>2, Gives

LEMMA TextTakes ==
    ASSUME NEW map, NEW a, NEW t, NEW t2, NEW g, NEW n \in Nat, Divided(map, Use(a, t, g), n),
           NEW f \in Files, NEW size \in Nat, size > 0, AllocAddr(map, size) # 0,
           \A e \in Files : e # f => t2[e] = t[e],
           t[f] = {}, t2[f] = Area(AllocAddr(map, size), size)
    PROVE  Divided(AllocMap(map, size), Use(a, t2, g), n)
<1>1. Changed(Use(a, t, g), Use(a, t2, g), Txt(f), t2[f])
  BY TxtChanged
<1>2. Txt(f) \in DOMAIN Use(a, t, g) /\ Use(a, t, g)[Txt(f)] = t[f]
  BY UseFacts
<1>3. t2[f] = t[f] \cup Area(AllocAddr(map, size), size)
  OBVIOUS
<1> QED BY <1>1, <1>2, <1>3, Takes

LEMMA TextGives ==
    ASSUME NEW map, NEW a, NEW t, NEW t2, NEW g, NEW n \in Nat, Divided(map, Use(a, t, g), n),
           NEW f \in Files, NEW size \in Nat, NEW addr \in Nat,
           \A e \in Files : e # f => t2[e] = t[e],
           t[f] = Area(addr, size), t2[f] = {}
    PROVE  Divided(FreeMap(map, size, addr), Use(a, t2, g), n)
<1>1. Changed(Use(a, t, g), Use(a, t2, g), Txt(f), t2[f])
  BY TxtChanged
<1>2. Txt(f) \in DOMAIN Use(a, t, g) /\ Use(a, t, g)[Txt(f)] = t[f]
  BY UseFacts
<1>3. t2[f] = t[f] \ Area(addr, size) /\ Area(addr, size) \subseteq t[f]
  OBVIOUS
<1> QED BY <1>1, <1>2, <1>3, Gives

-----------------------------------------------------------------------------
\* What steps leave as it is

LEMMA SlotFacts ==
    /\ Sched \in All /\ Slots \subseteq All /\ Sched \notin Slots /\ 1 \in Slots
    /\ \A i \in All : i = Sched \/ i \in Slots
    /\ NoProc \notin All /\ NPROC \in Nat /\ NoFile \notin Files
BY SwappingAssumption DEF Sched, Slots, All

\* A process that does nothing, whom others may wake.
Idle(j) ==
    /\ pc'[j] = pc[j] /\ proc'[j] = proc[j] /\ then'[j] = then[j] /\ loc'[j] = loc[j]
    /\ chan'[j] \in {chan[j], Awake}

\* Who waits for a child to be written stays so.
ParentsWait == \A p \in Slots : proc[p].stat = "SIDL" => proc'[p].stat = "SIDL"

LEMMA IdleOK ==
    ASSUME NEW j \in Slots, PlaceOK(j), Idle(j), ParentsWait
    PROVE  PlaceOK(j)'
<1>1. Moves(j) => Moves(j)'
  BY DEF Idle, ParentsWait, Moves
<1> QED BY <1>1 DEF PlaceOK, Idle, Awake, Event, SwBuf

\* A process that is in the swap area, and that its text stays there.
OutOfMemory(i) == proc[i].stat = "SRUN" /\ ~proc[i].load
TextsStayOut   == \A i \in Slots : OutOfMemory(i) /\ TextOut(i) =>
                      text'[proc[i].text].ccount = 0

LEMMA SchedIdle ==
    ASSUME SchedOK, Idle(Sched), in' = in,
           in.sel \in Slots /\ OutOfMemory(in.sel) => proc'[in.sel] = proc[in.sel],
           TextsStayOut, \A i \in Slots : proc[i].text \in Files \cup {NoFile}
    PROVE  SchedOK'
<1>1. SchedOK /\ Sched = 0
  BY DEF Sched
<1>2. ASSUME pc[Sched] # "loop", then[Sched] = "text in"  PROVE TextOut(in.sel)'
  <2>1. TextOut(in.sel) /\ in.sel \in Slots /\ OutOfMemory(in.sel)
    BY <1>2 DEF SchedOK, OutOfMemory
  <2>2. text'[proc[in.sel].text].ccount = 0
    BY <2>1 DEF TextsStayOut
  <2>3. proc'[in.sel] = proc[in.sel]
    BY <2>1
  <2> QED BY <2>1, <2>2, <2>3 DEF TextOut
<1> QED BY <1>2 DEF SchedOK, Idle, OutOfMemory, Awake, RunIn, RunOut, SwBuf

LEMMA BirthsStay ==
    ASSUME Births, \A j \in Slots : pc'[j] \in Moving /\ then'[j] = "forked" =>
               pc[j] \in Moving /\ then[j] = "forked" /\ loc'[j].parent = loc[j].parent
    PROVE  Births'
BY DEF Births

LEMMA BufferStays ==
    ASSUME BufferOK, swbuf' = swbuf, \A j \in All : (pc'[j] = "io") <=> (pc[j] = "io"),
           \A j \in All : pc'[j] # "nod"
    PROVE  BufferOK'
BY DEF BufferOK

LEMMA BufferFreed ==
    ASSUME BufferOK, NEW i \in All, pc[i] = "io", swbuf' = [busy |-> FALSE, wanted |-> FALSE],
           pc'[i] # "io",
           \A j \in All : j # i => pc'[j] = pc[j] \/ pc'[j] # "io", \A j \in All : pc'[j] # "nod"
    PROVE  BufferOK'
BY DEF BufferOK

\* Nobody is about to sleep for SwBuf where another goes on.
LEMMA NobodyNods ==
    ASSUME BufferOK, NEW i \in All, cpu \in {i, NoProc}, pc[i] # "nod"
    PROVE  \A j \in All : pc[j] # "nod"
BY SlotFacts DEF BufferOK

Reasons ==
    /\ chan[Sched] = RunOut => runOut /\ Ready = {}
    /\ chan[Sched] = RunIn => runIn
    /\ \A i \in All : pc[i] = "wait" /\ chan[i] = SwBuf =>
          /\ swbuf.busy \/ lost
          /\ \/ swbuf.wanted \/ lost
             \/ \E j \in All : pc[j] = "io" /\ chan[j] = SwBuf

LEMMA ReasonsAre ==
    ASSUME pc \in [All -> Labels]
    PROVE  SleepersHaveReason <=> (~wild => Reasons)
<1>1. DOMAIN pc = All
  OBVIOUS
<1> QED BY <1>1 DEF SleepersHaveReason, Reasons

LEMMA ReasonsStay ==
    ASSUME Reasons, UNCHANGED <<swbuf, runIn, runOut, lost>>,
           \A j \in All : chan'[j] \in {chan[j], Awake} /\ (pc[j] = "io" => pc'[j] = "io")
               /\ (pc[j] = "io" => chan'[j] = chan[j])
               /\ (pc'[j] = "wait" => pc[j] = "wait" \/ chan'[j] # SwBuf),
           Ready' \subseteq Ready
    PROVE  Reasons'
<1>1. Sched \in All
  BY SlotFacts
<1>2. chan'[Sched] = RunOut => chan[Sched] = RunOut
  BY <1>1 DEF Awake, RunOut
<1>3. chan'[Sched] = RunIn => chan[Sched] = RunIn
  BY <1>1 DEF Awake, RunIn
<1>4. ASSUME NEW i \in All, pc'[i] = "wait", chan'[i] = SwBuf
      PROVE  pc[i] = "wait" /\ chan[i] = SwBuf
  BY <1>4 DEF Awake, SwBuf
<1>5. ASSUME \E j \in All : pc[j] = "io" /\ chan[j] = SwBuf
      PROVE  \E j \in All : pc'[j] = "io" /\ chan'[j] = SwBuf
  BY <1>5
<1> QED BY <1>2, <1>3, <1>4, <1>5 DEF Reasons

\* The processes of a text, and those of them in memory.
Users(f)    == {i \in Slots : Image(i) /\ proc[i].text = f}
Resident(f) == {i \in Slots : Image(i) /\ proc[i].text = f /\ InMemory(i)}

Counts == \A f \in Files : /\ text[f].count = Cardinality(Users(f))
                           /\ text[f].ccount = Cardinality(Resident(f))

LEMMA CountsAre == TextCounts <=> (~wild => Counts)
<1>1. \A f \in Files : Resident(f) = {i \in {j \in Slots : Image(j) /\ proc[j].text = f} :
                                          InMemory(i)}
  BY DEF Resident
<1> QED BY <1>1 DEF TextCounts, Counts, Users

LEMMA CountsStay ==
    ASSUME Counts, \A f \in Files : text'[f].count = text[f].count /\
                                    text'[f].ccount = text[f].ccount,
           \A i \in Slots : /\ Image(i)' <=> Image(i)
                            /\ proc'[i].text = proc[i].text
                            /\ InMemory(i)' <=> InMemory(i)
    PROVE  Counts'
<1>1. \A f \in Files : Users(f)' = Users(f) /\ Resident(f)' = Resident(f)
  BY DEF Users, Resident
<1> QED BY <1>1 DEF Counts

\* What counts says of the text of one process.
LEMMA Counted ==
    ASSUME Counts, text \in [Files -> TextEntries], NEW f \in Files
    PROVE  /\ IsFiniteSet(Users(f)) /\ IsFiniteSet(Resident(f)) /\ Resident(f) \subseteq Users(f)
           /\ text[f].count = 0 => Users(f) = {}
           /\ text[f].ccount = 0 => Resident(f) = {}
           /\ text[f].ccount <= text[f].count
           /\ \A i \in Users(f) : text[f].count = 1 => Users(f) = {i}
<1>1. IsFiniteSet(Slots)
  BY SlotFacts, FS_Interval DEF Slots
<1>2. Users(f) \subseteq Slots /\ Resident(f) \subseteq Users(f)
  BY DEF Users, Resident
<1>3. IsFiniteSet(Users(f)) /\ IsFiniteSet(Resident(f))
  BY <1>1, <1>2, FS_Subset
<1>4. text[f].count = Cardinality(Users(f)) /\ text[f].ccount = Cardinality(Resident(f))
  BY DEF Counts
<1>5. /\ text[f].count = 0 => Users(f) = {}
      /\ text[f].ccount = 0 => Resident(f) = {}
  BY <1>3, <1>4, FS_EmptySet
<1>6. text[f].ccount <= text[f].count
  BY <1>2, <1>3, <1>4, FS_Subset
<1>7. ASSUME NEW i \in Users(f), text[f].count = 1  PROVE Users(f) = {i}
  <2>1. \E x : Users(f) = {x}
    BY <1>3, <1>4, <1>7, FS_Singleton
  <2> QED BY <1>7, <2>1
<1> QED BY <1>2, <1>3, <1>5, <1>6, <1>7

-----------------------------------------------------------------------------
\* Steps that only concern SwBuf, the flags and who has the CPU

Sound == /\ ~wild /\ Control /\ Reasons /\ Counts
         /\ Divided(mem, MemUse, NPages) /\ Divided(swap, SwapUse, NBlocks)

LEMMA SoundIs == IInv <=> /\ WellFormed(mem) /\ WellFormed(swap)
                          /\ wild \/ Sound
<1>1. Control => (SleepersHaveReason <=> (~wild => Reasons))
  BY ReasonsAre DEF Control, TypeOK
<1> QED BY <1>1, CountsAre DEF IInv, Sound

\* The images of memory and the swap area do not change.
LEMMA Untouched ==
    ASSUME Counts, Divided(mem, MemUse, NPages), Divided(swap, SwapUse, NBlocks),
           UNCHANGED <<mem, swap, proc, text, in>>,
           \A i \in Slots : /\ loc'[i].old = loc[i].old /\ loc'[i].blk = loc[i].blk
                            /\ then'[i] = "forked" <=> then[i] = "forked",
           then'[Sched] = then[Sched]
    PROVE  Counts' /\ Divided(mem, MemUse, NPages)' /\ Divided(swap, SwapUse, NBlocks)'
<1>1. Counts'
  BY CountsStay DEF Image, InMemory
<1>2. Images' = Images
  <2>1. \A i \in Slots : ImageIn(i)' = ImageIn(i)
    BY DEF ImageIn, HeldPages
  <2> QED BY <2>1 DEF Images
<1>3. Texts' = Texts /\ Copies' = Copies
  BY DEF Texts, Copies
<1>4. GoingIn' = GoingIn
  BY DEF GoingIn
<1>5. Outs' = Outs
  <2>1. \A i \in Slots : ImageOut(i)' = ImageOut(i)
    BY DEF ImageOut, Image
  <2> QED BY <2>1 DEF Outs
<1>6. MemUse' = MemUse /\ SwapUse' = SwapUse
  BY <1>2, <1>3, <1>4, <1>5 DEF MemUse, SwapUse
<1> QED BY <1>1, <1>6

LEMMA Types == TypeOK =>
    /\ proc \in [All -> ProcEntries] /\ text \in [Files -> TextEntries]
    /\ pc \in [All -> Labels] /\ chan \in [All -> Channels] /\ then \in [All -> Nexts]
    /\ loc \in [All -> Locals] /\ in \in [sel : All, des : Nat]
    /\ swbuf \in [busy : BOOLEAN, wanted : BOOLEAN]
    /\ \A i \in Slots : proc[i].text \in Files \cup {NoFile}
BY SlotFacts DEF TypeOK, ProcEntries

\* A step of i in Swap, which the interrupt may have to wake.
LEMMA TransferControl ==
    ASSUME Control, NEW i \in All, pc[i] \in Moving, chan[i] = Awake, proc[i].load,
           NEW to \in Moving, pc' = [pc EXCEPT ![i] = to],
           \/ chan' = chan
           \/ to \in {"io", "wait"} /\ chan' = [chan EXCEPT ![i] = SwBuf],
           UNCHANGED <<proc, text, then, loc, in, runIn, runOut, lost, wild>>,
           cpu' \in All \cup {NoProc}, swbuf' \in [busy : BOOLEAN, wanted : BOOLEAN]
    PROVE  TypeOK' /\ PlacesOK' /\ SchedOK' /\ Births'
<1>1. /\ TypeOK /\ PlacesOK /\ SchedOK /\ Births
      /\ pc \in [All -> Labels] /\ chan \in [All -> Channels]
      /\ \A j \in Slots : proc[j].text \in Files \cup {NoFile}
  BY Types DEF Control
<1>2. /\ pc'[i] = to /\ \A j \in All : j # i => pc'[j] = pc[j] /\ chan'[j] = chan[j]
      /\ chan'[i] = Awake \/ (chan'[i] = SwBuf /\ to \in {"io", "wait"})
  BY <1>1
<1>3. TypeOK'
  BY <1>1 DEF TypeOK, Labels, Channels, Moving
<1>4. ASSUME NEW j \in Slots  PROVE PlaceOK(j)'
  <2>1. PlaceOK(j) /\ ParentsWait /\ j \in All
    BY <1>1, SlotFacts DEF PlacesOK, ParentsWait
  <2>2. CASE j # i
    <3>1. Idle(j)
      BY <1>2, <2>1, <2>2 DEF Idle
    <3> QED BY <2>1, <3>1, IdleOK
  <2>3. CASE j = i
    <3>1. Moves(j)'
      BY <2>1, <2>3 DEF PlaceOK, Moves
    <3> QED BY <1>2, <2>1, <2>3, <3>1 DEF PlaceOK, Moving, Awake, SwBuf, Event
  <2> QED BY <2>2, <2>3
<1>5. SchedOK'
  <2>1. CASE i # Sched
    <3>1. Idle(Sched)
      BY <1>2, <2>1, SlotFacts DEF Idle
    <3>2. TextsStayOut
      BY DEF TextsStayOut, TextOut
    <3> QED BY <1>1, <3>1, <3>2, SchedIdle
  <2>2. CASE i = Sched
    <3>1. TextOut(in.sel)' = TextOut(in.sel)
      BY DEF TextOut
    <3> QED BY <1>1, <1>2, <2>2, <3>1
            DEF SchedOK, Moving, Awake, SwBuf, RunIn, RunOut
  <2> QED BY <2>1, <2>2
<1>6. Births'
  <2>1. \A j \in Slots : pc'[j] \in Moving => pc[j] \in Moving
    BY <1>2, SlotFacts
  <2> QED BY <1>1, <2>1, BirthsStay
<1> QED BY <1>3, <1>4, <1>5, <1>6 DEF PlacesOK

LEMMA SwapStartStep ==
    ASSUME Sound, NEW i \in All, SwapStart(i)
    PROVE  Sound'
<1>1. /\ pc[i] = "swap" /\ chan[i] = Awake /\ proc[i].load /\ ~wild /\ cpu \in {i, NoProc}
      /\ ~swbuf.busy /\ swbuf' = [busy |-> TRUE, wanted |-> FALSE]
      /\ pc' = [pc EXCEPT ![i] = "io"] /\ chan' = [chan EXCEPT ![i] = SwBuf]
      /\ cpu' = NoProc
      /\ UNCHANGED <<mem, swap, proc, text, runIn, runOut, then, loc, in, lost, wild>>
  BY DEF SwapStart, At, SleepAt, Put, areas
<1>2. /\ Control /\ BufferOK /\ pc \in [All -> Labels] /\ chan \in [All -> Channels]
      /\ Reasons
  BY Types DEF Sound, Control
<1>3. TypeOK' /\ PlacesOK' /\ SchedOK' /\ Births'
  BY <1>1, <1>2, TransferControl DEF Moving
<1>4. /\ pc'[i] = "io" /\ chan'[i] = SwBuf
      /\ \A j \in All : j # i => pc'[j] = pc[j] /\ chan'[j] = chan[j]
  BY <1>1, <1>2
<1>5. \A j \in All : pc[j] # "nod" /\ pc[j] # "io"
  <2>1. \A j \in All : pc[j] # "nod"
    BY <1>1, <1>2, NobodyNods
  <2> QED BY <1>1, <1>2, <2>1 DEF BufferOK
<1>6. BufferOK'
  BY <1>1, <1>4, <1>5 DEF BufferOK
<1>7. Reasons'
  <2>1. Ready' = Ready
    <3>1. \A j \in Slots : ~proc[j].load => chan'[j] = chan[j]
      BY <1>1, <1>4, SlotFacts
    <3> QED BY <1>1, <3>1 DEF Ready
  <2>2. Sched = i => chan'[Sched] = SwBuf
    BY <1>4
  <2>3. Sched # i => chan'[Sched] = chan[Sched]
    BY <1>4, SlotFacts
  <2>4. \A j \in All : pc'[j] = "wait" /\ chan'[j] = SwBuf => lost' /\ swbuf'.busy
    BY <1>1, <1>2, <1>4 DEF Reasons
  <2> QED BY <1>1, <1>2, <2>1, <2>2, <2>3, <2>4 DEF Reasons, SwBuf, RunIn, RunOut
<1>8. Counts' /\ Divided(mem, MemUse, NPages)' /\ Divided(swap, SwapUse, NBlocks)'
  BY <1>1, Untouched DEF Sound
<1> QED BY <1>1, <1>3, <1>6, <1>7, <1>8 DEF Sound, Control

LEMMA SwapWaitStep ==
    ASSUME Sound, NEW i \in All, SwapWait(i)
    PROVE  Sound'
<1>1. /\ pc[i] = "swap" /\ chan[i] = Awake /\ proc[i].load /\ ~wild /\ cpu \in {i, NoProc}
      /\ swbuf.busy /\ swbuf' = [swbuf EXCEPT !.wanted = TRUE]
      /\ pc' = [pc EXCEPT ![i] = "wait"] /\ chan' = [chan EXCEPT ![i] = SwBuf]
      /\ cpu' = NoProc
      /\ UNCHANGED <<mem, swap, proc, text, runIn, runOut, then, loc, in, lost, wild>>
  BY DEF SwapWait, At, SleepAt, Put, areas
<1>2. /\ Control /\ BufferOK /\ pc \in [All -> Labels] /\ chan \in [All -> Channels]
      /\ Reasons /\ swbuf \in [busy : BOOLEAN, wanted : BOOLEAN]
  BY Types DEF Sound, Control
<1>3. swbuf' = [busy |-> TRUE, wanted |-> TRUE]
  BY <1>1, <1>2
<1>4. TypeOK' /\ PlacesOK' /\ SchedOK' /\ Births'
  BY <1>1, <1>2, <1>3, TransferControl DEF Moving
<1>5. /\ pc'[i] = "wait" /\ chan'[i] = SwBuf
      /\ \A j \in All : j # i => pc'[j] = pc[j] /\ chan'[j] = chan[j]
  BY <1>1, <1>2
<1>6. \A j \in All : pc[j] # "nod"
  BY <1>1, <1>2, NobodyNods
<1>7. BufferOK'
  BY <1>1, <1>2, <1>3, <1>5, <1>6 DEF BufferOK
<1>8. Reasons'
  <2>1. Ready' = Ready
    <3>1. \A j \in Slots : ~proc[j].load => chan'[j] = chan[j]
      BY <1>1, <1>5, SlotFacts
    <3> QED BY <1>1, <3>1 DEF Ready
  <2>2. Sched = i => chan'[Sched] = SwBuf
    BY <1>5
  <2>3. Sched # i => chan'[Sched] = chan[Sched]
    BY <1>5, SlotFacts
  <2> QED BY <1>1, <1>2, <1>3, <2>1, <2>2, <2>3 DEF Reasons, SwBuf, RunIn, RunOut
<1>9. Counts' /\ Divided(mem, MemUse, NPages)' /\ Divided(swap, SwapUse, NBlocks)'
  BY <1>1, Untouched DEF Sound
<1> QED BY <1>1, <1>4, <1>7, <1>8, <1>9 DEF Sound, Control

LEMMA SwapAgainStep ==
    ASSUME Sound, NEW i \in All, SwapAgain(i)
    PROVE  Sound'
<1>1. /\ pc[i] = "wait" /\ chan[i] = Awake /\ proc[i].load /\ ~wild /\ cpu \in {i, NoProc}
      /\ UNCHANGED <<mem, swap, proc, text, runIn, runOut, then, loc, in, lost, wild>>
  BY DEF SwapAgain, At, areas
<1>2. /\ Control /\ BufferOK /\ pc \in [All -> Labels] /\ chan \in [All -> Channels]
      /\ Reasons /\ swbuf \in [busy : BOOLEAN, wanted : BOOLEAN]
  BY Types DEF Sound, Control
<1>3. \A j \in All : pc[j] # "nod"
  BY <1>1, <1>2, NobodyNods
<1>4. Counts' /\ Divided(mem, MemUse, NPages)' /\ Divided(swap, SwapUse, NBlocks)'
  BY <1>1, Untouched DEF Sound
<1>5. CASE ~swbuf.busy
  <2>1. /\ swbuf' = [busy |-> TRUE, wanted |-> FALSE] /\ cpu' = NoProc
        /\ pc' = [pc EXCEPT ![i] = "io"] /\ chan' = [chan EXCEPT ![i] = SwBuf]
    BY <1>5 DEF SwapAgain, SleepAt, Put
  <2>2. TypeOK' /\ PlacesOK' /\ SchedOK' /\ Births'
    BY <1>1, <1>2, <2>1, TransferControl DEF Moving
  <2>3. /\ pc'[i] = "io" /\ chan'[i] = SwBuf
        /\ \A j \in All : j # i => pc'[j] = pc[j] /\ chan'[j] = chan[j]
    BY <1>2, <2>1
  <2>4. \A j \in All : pc[j] # "io"
    BY <1>2, <1>5 DEF BufferOK
  <2>5. BufferOK'
    BY <1>3, <2>1, <2>3, <2>4 DEF BufferOK
  <2>6. Reasons'
    <3>1. Ready' = Ready
      <4>1. \A j \in Slots : ~proc[j].load => chan'[j] = chan[j]
        BY <1>1, <2>3, SlotFacts
      <4> QED BY <1>1, <4>1 DEF Ready
    <3>2. Sched = i => chan'[Sched] = SwBuf
      BY <2>3
    <3>3. Sched # i => chan'[Sched] = chan[Sched]
      BY <2>3, SlotFacts
    <3>4. \A j \in All : pc'[j] = "wait" /\ chan'[j] = SwBuf => lost' /\ swbuf'.busy
      BY <1>1, <1>2, <1>5, <2>1, <2>3 DEF Reasons
    <3> QED BY <1>1, <1>2, <3>1, <3>2, <3>3, <3>4 DEF Reasons, SwBuf, RunIn, RunOut
  <2> QED BY <1>1, <1>4, <2>2, <2>5, <2>6 DEF Sound, Control
<1>6. CASE swbuf.busy
  <2>1. /\ swbuf' = [busy |-> TRUE, wanted |-> TRUE] /\ cpu' = i
        /\ pc' = [pc EXCEPT ![i] = "nod"] /\ chan' = chan
    BY <1>2, <1>6 DEF SwapAgain, GoOn, Put
  <2>2. TypeOK' /\ PlacesOK' /\ SchedOK' /\ Births'
    BY <1>1, <1>2, <2>1, TransferControl DEF Moving
  <2>3. pc'[i] = "nod" /\ \A j \in All : j # i => pc'[j] = pc[j]
    BY <1>2, <2>1
  <2>4. BufferOK'
    BY <1>1, <1>2, <1>3, <1>6, <2>1, <2>3 DEF BufferOK
  <2>5. Reasons'
    <3>1. Ready' = Ready
      BY <1>1, <2>1 DEF Ready
    <3> QED BY <1>1, <1>2, <2>1, <2>3, <3>1 DEF Reasons
  <2> QED BY <1>1, <1>4, <2>2, <2>4, <2>5 DEF Sound, Control
<1> QED BY <1>2, <1>5, <1>6

LEMMA SwapSleepStep ==
    ASSUME Sound, NEW i \in All, SwapSleep(i)
    PROVE  Sound'
<1>1. /\ pc[i] = "nod" /\ chan[i] = Awake /\ proc[i].load /\ ~wild /\ cpu \in {i, NoProc}
      /\ pc' = [pc EXCEPT ![i] = "wait"] /\ chan' = [chan EXCEPT ![i] = SwBuf]
      /\ cpu' = NoProc
      /\ UNCHANGED <<mem, swap, proc, text, swbuf, runIn, runOut, then, loc, in, lost, wild>>
  BY DEF SwapSleep, At, SleepAt, Put, areas, flags
<1>2. /\ Control /\ BufferOK /\ pc \in [All -> Labels] /\ chan \in [All -> Channels]
      /\ Reasons /\ swbuf \in [busy : BOOLEAN, wanted : BOOLEAN]
  BY Types DEF Sound, Control
<1>3. TypeOK' /\ PlacesOK' /\ SchedOK' /\ Births'
  BY <1>1, <1>2, TransferControl DEF Moving
<1>4. /\ pc'[i] = "wait" /\ chan'[i] = SwBuf
      /\ \A j \in All : j # i => pc'[j] = pc[j] /\ chan'[j] = chan[j]
  BY <1>1, <1>2
<1>5. (\A j \in All : pc[j] = "nod" => j = i) /\ (lost \/ (swbuf.busy /\ swbuf.wanted))
  BY <1>1, <1>2, SlotFacts DEF BufferOK
<1>6. BufferOK'
  BY <1>1, <1>2, <1>4, <1>5 DEF BufferOK
<1>7. Reasons'
  <2>1. Ready' = Ready
    <3>1. \A j \in Slots : ~proc[j].load => chan'[j] = chan[j]
      BY <1>1, <1>4, SlotFacts
    <3> QED BY <1>1, <3>1 DEF Ready
  <2>2. Sched = i => chan'[Sched] = SwBuf
    BY <1>4
  <2>3. Sched # i => chan'[Sched] = chan[Sched]
    BY <1>4, SlotFacts
  <2>4. ASSUME NEW j \in All, pc'[j] = "wait", chan'[j] = SwBuf, ~lost
        PROVE  \/ swbuf.busy /\ swbuf.wanted
               \/ swbuf.busy /\ \E k \in All : pc'[k] = "io" /\ chan'[k] = SwBuf
    BY <1>5, <2>4
  <2> QED BY <1>1, <1>2, <2>1, <2>2, <2>3, <2>4 DEF Reasons, SwBuf, RunIn, RunOut
<1>8. Counts' /\ Divided(mem, MemUse, NPages)' /\ Divided(swap, SwapUse, NBlocks)'
  BY <1>1, Untouched DEF Sound
<1> QED BY <1>1, <1>3, <1>6, <1>7, <1>8 DEF Sound, Control

\* The end of a transfer.
LEMMA IODoneStep ==
    ASSUME Sound, IODone
    PROVE  Sound'
<1>1. /\ Control /\ BufferOK /\ pc \in [All -> Labels] /\ chan \in [All -> Channels]
      /\ Reasons /\ swbuf \in [busy : BOOLEAN, wanted : BOOLEAN]
      /\ TypeOK /\ PlacesOK /\ SchedOK /\ Births /\ DOMAIN pc = All /\ DOMAIN chan = All
      /\ \A j \in Slots : proc[j].text \in Files \cup {NoFile}
  BY Types DEF Sound, Control
<1>2. /\ ~wild /\ swbuf' = [swbuf EXCEPT !.wanted = FALSE]
      /\ chan' = [j \in All |-> IF chan[j] = SwBuf THEN Awake ELSE chan[j]]
      /\ lost' = (lost \/ \E j \in All : pc[j] = "nod")
      /\ UNCHANGED <<mem, swap, proc, text, runIn, runOut, cpu, pc, then, loc, in, wild>>
  BY <1>1 DEF IODone, Wake, areas
<1>3. swbuf' = [busy |-> swbuf.busy, wanted |-> FALSE]
  BY <1>1, <1>2
<1>4. \A j \in All : chan'[j] # SwBuf /\ chan'[j] \in {chan[j], Awake} /\ Idle(j)
  BY <1>2 DEF Idle, Awake, SwBuf
<1>5. TypeOK'
  BY <1>1, <1>2, <1>3 DEF TypeOK, Channels
<1>6. PlacesOK'
  <2>1. ParentsWait
    BY <1>2 DEF ParentsWait
  <2> QED BY <1>1, <1>4, <2>1, IdleOK, SlotFacts DEF PlacesOK
<1>7. SchedOK'
  <2>1. TextsStayOut
    BY <1>2 DEF TextsStayOut, TextOut
  <2> QED BY <1>1, <1>2, <1>4, <2>1, SchedIdle, SlotFacts
<1>8. Births'
  BY <1>1, <1>2, BirthsStay
<1>9. BufferOK'
  BY <1>1, <1>2, <1>3 DEF BufferOK
<1>10. Reasons'
  <2>1. Ready' = Ready
    <3>1. \A j \in Slots : ~proc[j].load => chan[j] = Awake
      BY <1>1 DEF PlacesOK, PlaceOK
    <3>2. \A j \in Slots : ~proc[j].load => chan'[j] = chan[j]
      BY <1>2, <1>4, <3>1, SlotFacts
    <3> QED BY <1>2, <3>2 DEF Ready
  <2>2. chan'[Sched] \in {chan[Sched], Awake}
    BY <1>4, SlotFacts
  <2> QED BY <1>1, <1>2, <1>4, <2>1, <2>2 DEF Reasons, Awake, RunIn, RunOut
<1>11. Counts' /\ Divided(mem, MemUse, NPages)' /\ Divided(swap, SwapUse, NBlocks)'
  BY <1>2, Untouched DEF Sound
<1> QED BY <1>2, <1>5, <1>6, <1>7, <1>8, <1>9, <1>10, <1>11 DEF Sound, Control

-----------------------------------------------------------------------------
\* Steps of a process

\* Nobody but those that are named does anything, and the others stay where they are.
LEMMA StepControl ==
    ASSUME Control, ParentsWait, \A j \in Slots : Idle(j) \/ PlaceOK(j)', Idle(Sched), in' = in,
           \A j \in Slots : OutOfMemory(j) => proc'[j] = proc[j], TextsStayOut,
           \A j \in Slots : pc'[j] \in Moving /\ then'[j] = "forked" =>
               pc[j] \in Moving /\ then[j] = "forked" /\ loc'[j].parent = loc[j].parent
    PROVE  PlacesOK' /\ SchedOK' /\ Births'
<1>1. PlacesOK /\ SchedOK /\ Births /\ \A j \in Slots : proc[j].text \in Files \cup {NoFile}
  BY Types DEF Control
<1>2. PlacesOK'
  BY <1>1, IdleOK DEF PlacesOK
<1>3. SchedOK'
  BY <1>1, SchedIdle
<1>4. Births'
  BY <1>1, BirthsStay
<1> QED BY <1>2, <1>3, <1>4

\* What a process finds that goes on.
LEMMA Going ==
    ASSUME Sound, NEW i \in Slots, NEW label, At(i, label)
    PROVE  /\ TypeOK /\ PlaceOK(i) /\ Control /\ BufferOK /\ Reasons /\ Counts
           /\ i \in All /\ i # Sched
           /\ pc[i] = label /\ chan[i] = Awake /\ proc[i].stat = "SRUN" /\ proc[i].load
           /\ cpu \in {i, NoProc} /\ proc[i] \in ProcEntries /\ loc[i] \in Locals
           /\ label # "nod" => \A j \in All : pc[j] # "nod"
BY SlotFacts, NobodyNods, Types DEF Sound, Control, PlacesOK, At

\* Who is ready in the swap area stays so, and nobody else is: the others are in memory.
LEMMA ReadyStays ==
    ASSUME Control, \A j \in All : chan'[j] \in {chan[j], Awake} \/ proc'[j].load \/
               proc'[j].stat = "SNULL",
           \A j \in Slots : proc'[j] = proc[j] \/ proc'[j].load \/ proc'[j].stat = "SNULL"
    PROVE  Ready' \subseteq Ready
<1> SUFFICES ASSUME NEW j \in Slots, proc'[j].stat = "SRUN", ~proc'[j].load
             PROVE  proc[j].stat = "SRUN" /\ ~proc[j].load /\ chan[j] = Awake
  BY DEF Ready
<1>1. proc'[j] = proc[j]
  OBVIOUS
<1> QED BY <1>1 DEF Control, PlacesOK, PlaceOK

\* SwBuf is let go: those who wait for it are woken, unless they were lost.
LEMMA BufferPassed ==
    ASSUME Reasons, BufferOK, NEW i \in All, pc[i] = "io", chan[i] = Awake, lost' = lost,
           \A j \in All : chan'[j] \in {chan[j], Awake}
               /\ (pc'[j] = "wait" => pc[j] = "wait" \/ chan'[j] # SwBuf),
           swbuf.wanted => \A j \in All : chan'[j] # SwBuf, runIn' = runIn,
           chan'[Sched] = RunOut => runOut' /\ Ready' = {}
    PROVE  Reasons'
<1>1. chan'[Sched] = RunIn => chan[Sched] = RunIn
  BY SlotFacts DEF Awake, RunIn
<1>2. ASSUME NEW j \in All, pc'[j] = "wait", chan'[j] = SwBuf
      PROVE  lost
  <2>1. pc[j] = "wait" /\ chan[j] = SwBuf /\ ~swbuf.wanted
    BY <1>2 DEF Awake, SwBuf
  <2>2. \A k \in All : pc[k] = "io" => chan[k] # SwBuf
    BY DEF BufferOK, Awake, SwBuf
  <2> QED BY <2>1, <2>2 DEF Reasons
<1> QED BY <1>1, <1>2 DEF Reasons

LEMMA WakeFacts ==
    ASSUME chan \in [All -> Channels], NEW woken, Wake(woken)
    PROVE  /\ \A j \in All : /\ chan'[j] \in {chan[j], Awake}
                             /\ chan[j] \notin woken => chan'[j] = chan[j]
                             /\ chan'[j] \in woken => chan'[j] = Awake
           /\ chan' \in [All -> Channels]
<1>1. chan' = [j \in All |-> IF chan[j] \in woken THEN Awake ELSE chan[j]]
  BY DEF Wake
<1>2. \A j \in All : chan'[j] = IF chan[j] \in woken THEN Awake ELSE chan[j]
  BY <1>1
<1>3. \A j \in All : IF chan[j] \in woken THEN chan'[j] = Awake ELSE chan'[j] = chan[j]
  BY <1>2
<1>4. \A j \in All : chan'[j] \in Channels
  BY <1>3 DEF Channels
<1>5. chan' \in [All -> Channels]
  BY <1>1, <1>4
<1> QED BY <1>3, <1>5

LEMMA WokenFacts ==
    ASSUME chan \in [All -> Channels], Wake(SwapWoken)
    PROVE  /\ \A j \in All : /\ chan'[j] \in {chan[j], Awake}
                             /\ chan[j] # SwBuf => chan'[j] = chan[j]
           /\ swbuf.wanted => \A j \in All : chan'[j] # SwBuf
           /\ chan' \in [All -> Channels]
<1>1. /\ \A j \in All : /\ chan'[j] \in {chan[j], Awake}
                        /\ chan[j] \notin SwapWoken => chan'[j] = chan[j]
                        /\ chan'[j] \in SwapWoken => chan'[j] = Awake
      /\ chan' \in [All -> Channels]
  BY WakeFacts
<1>2. SwapWoken \subseteq {SwBuf} /\ (swbuf.wanted => SwBuf \in SwapWoken)
  BY DEF SwapWoken
<1> QED BY <1>1, <1>2 DEF Awake, SwBuf

LEMMA OutOfSwapStep ==
    ASSUME Sound, NEW i \in Slots, OutOfSwap(i)
    PROVE  Sound'
<1>1. /\ At(i, "user") \/ At(i, "expand")
      /\ pc' = [pc EXCEPT ![i] = "panic"] /\ cpu' = i
      /\ UNCHANGED <<mem, swap, proc, text, swbuf, runIn, runOut, chan, then, loc, in, lost, wild>>
  BY DEF OutOfSwap, Panic, GoOn, Put, areas, flags
<1>2. /\ TypeOK /\ PlaceOK(i) /\ Control /\ BufferOK /\ Reasons /\ i \in All /\ i # Sched
      /\ pc[i] \in {"user", "expand"} /\ chan[i] = Awake /\ proc[i].stat = "SRUN" /\ proc[i].load
      /\ cpu \in {i, NoProc} /\ (\A j \in All : pc[j] # "nod") /\ pc \in [All -> Labels]
  BY <1>1, Going, Types
<1>3. pc'[i] = "panic" /\ \A j \in All : j # i => pc'[j] = pc[j]
  BY <1>1, <1>2
<1>4. TypeOK'
  BY <1>1, <1>2 DEF TypeOK, Labels
<1>5. PlaceOK(i)'
  BY <1>1, <1>2, <1>3 DEF PlaceOK, NoLoc, Moving, Awake, Event, SwBuf
<1>6. \A j \in All : j # i => Idle(j)
  BY <1>1, <1>3 DEF Idle
<1>7. ParentsWait /\ TextsStayOut
  BY <1>1 DEF ParentsWait, TextsStayOut, TextOut
<1>8. PlacesOK' /\ SchedOK' /\ Births'
  BY <1>1, <1>2, <1>3, <1>5, <1>6, <1>7, StepControl, SlotFacts DEF Moving
<1>9. BufferOK'
  BY <1>1, <1>2, <1>3, BufferStays
<1>10. Reasons'
  <2>1. Ready' = Ready
    BY <1>1 DEF Ready
  <2> QED BY <1>1, <1>2, <1>3, <2>1, ReasonsStay
<1>11. Counts' /\ Divided(mem, MemUse, NPages)' /\ Divided(swap, SwapUse, NBlocks)'
  BY <1>1, Untouched DEF Sound
<1> QED BY <1>1, <1>4, <1>8, <1>9, <1>10, <1>11 DEF Sound, Control

LEMMA ExecStep ==
    ASSUME Sound, NEW i \in Slots, Exec(i)
    PROVE  Sound'
<1>1. PICK f \in Files :
      /\ At(i, "user") /\ loc' = [loc EXCEPT ![i].file = f]
      /\ pc' = [pc EXCEPT ![i] = "exec"] /\ cpu' = NoProc
      /\ UNCHANGED <<mem, swap, proc, text, swbuf, runIn, runOut, chan, then, in, lost, wild>>
  BY DEF Exec, SleepAt, Put, areas, flags
<1>2. /\ TypeOK /\ PlaceOK(i) /\ Control /\ BufferOK /\ Reasons /\ i \in All /\ i # Sched
      /\ pc[i] = "user" /\ chan[i] = Awake /\ proc[i].stat = "SRUN" /\ proc[i].load
      /\ cpu \in {i, NoProc} /\ (\A j \in All : pc[j] # "nod") /\ pc \in [All -> Labels]
      /\ loc \in [All -> Locals]
  BY <1>1, Going, Types
<1>3. /\ pc'[i] = "exec" /\ \A j \in All : j # i => pc'[j] = pc[j] /\ loc'[j] = loc[j]
      /\ loc'[i] = [loc[i] EXCEPT !.file = f]
  BY <1>1, <1>2
<1>4. TypeOK'
  BY <1>1, <1>2 DEF TypeOK, Labels, Locals
<1>5. PlaceOK(i)'
  BY <1>1, <1>2, <1>3, SlotFacts DEF PlaceOK, NoLoc, Moving, Awake, Event, SwBuf
<1>6. \A j \in All : j # i => Idle(j)
  BY <1>1, <1>3 DEF Idle
<1>7. ParentsWait /\ TextsStayOut
  BY <1>1 DEF ParentsWait, TextsStayOut, TextOut
<1>8. PlacesOK' /\ SchedOK' /\ Births'
  BY <1>1, <1>2, <1>3, <1>5, <1>6, <1>7, StepControl, SlotFacts DEF Moving
<1>9. BufferOK'
  BY <1>1, <1>2, <1>3, BufferStays
<1>10. Reasons'
  <2>1. Ready' = Ready
    BY <1>1 DEF Ready
  <2> QED BY <1>1, <1>2, <1>3, <2>1, ReasonsStay
<1>11. Counts' /\ Divided(mem, MemUse, NPages)' /\ Divided(swap, SwapUse, NBlocks)'
  <2>1. \A j \in Slots : loc'[j].old = loc[j].old /\ loc'[j].blk = loc[j].blk
    BY <1>2, <1>3, SlotFacts DEF Locals
  <2> QED BY <1>1, <2>1, Untouched DEF Sound
<1> QED BY <1>1, <1>4, <1>8, <1>9, <1>10, <1>11 DEF Sound, Control

LEMMA ExecCopyStep ==
    ASSUME Sound, NEW i \in Slots, ExecCopy(i)
    PROVE  Sound'
<1>1. /\ At(i, "text") /\ then' = [then EXCEPT ![i] = "copied"]
      /\ pc' = [pc EXCEPT ![i] = "swap"] /\ cpu' = i
      /\ UNCHANGED <<mem, swap, proc, text, swbuf, runIn, runOut, chan, loc, in, lost, wild>>
  BY DEF ExecCopy, SwapThen, GoOn, Put, areas, flags
<1>2. /\ TypeOK /\ PlaceOK(i) /\ Control /\ BufferOK /\ Reasons /\ i \in All /\ i # Sched
      /\ pc[i] = "text" /\ chan[i] = Awake /\ proc[i].stat = "SRUN" /\ proc[i].load
      /\ cpu \in {i, NoProc} /\ (\A j \in All : pc[j] # "nod") /\ pc \in [All -> Labels]
      /\ then \in [All -> Nexts]
  BY <1>1, Going, Types
<1>3. /\ pc'[i] = "swap" /\ \A j \in All : j # i => pc'[j] = pc[j] /\ then'[j] = then[j]
      /\ then'[i] = "copied"
  BY <1>1, <1>2
<1>4. TypeOK'
  BY <1>1, <1>2 DEF TypeOK, Labels, Nexts
<1>5. PlaceOK(i)'
  BY <1>1, <1>2, <1>3, SlotFacts DEF PlaceOK, NoLoc, Moving, Moves
<1>6. \A j \in All : j # i => Idle(j)
  BY <1>1, <1>3 DEF Idle
<1>7. ParentsWait /\ TextsStayOut
  BY <1>1 DEF ParentsWait, TextsStayOut, TextOut
<1>8. PlacesOK' /\ SchedOK' /\ Births'
  BY <1>1, <1>2, <1>3, <1>5, <1>6, <1>7, StepControl, SlotFacts DEF Moving
<1>9. BufferOK'
  BY <1>1, <1>2, <1>3, BufferStays
<1>10. Reasons'
  <2>1. Ready' = Ready
    BY <1>1 DEF Ready
  <2> QED BY <1>1, <1>2, <1>3, <2>1, ReasonsStay
<1>11. Counts' /\ Divided(mem, MemUse, NPages)' /\ Divided(swap, SwapUse, NBlocks)'
  <2>1. then[i] # "forked" /\ then'[Sched] = then[Sched]
    BY <1>2, <1>3, SlotFacts DEF PlaceOK
  <2>2. \A j \in Slots : then'[j] = "forked" <=> then[j] = "forked"
    BY <1>3, <2>1, SlotFacts
  <2> QED BY <1>1, <2>1, <2>2, Untouched DEF Sound
<1> QED BY <1>1, <1>4, <1>8, <1>9, <1>10, <1>11 DEF Sound, Control

\* The copy of the text is written: the process lets SwBuf go.
LEMMA ExecedStep ==
    ASSUME Sound, NEW i \in Slots, Execed(i)
    PROVE  Sound'
<1>1. /\ At(i, "io") /\ then[i] = "copied" /\ swbuf' = [busy |-> FALSE, wanted |-> FALSE]
      /\ Wake(SwapWoken)
      /\ pc' = [pc EXCEPT ![i] = "user"] /\ cpu' = NoProc
      /\ then' = [then EXCEPT ![i] = "user"] /\ loc' = [loc EXCEPT ![i] = NoLoc]
      /\ UNCHANGED <<mem, swap, proc, text, runIn, runOut, in, lost, wild>>
  BY DEF Execed, SwapEnds, SleepAt, Put, areas
<1>2. /\ TypeOK /\ PlaceOK(i) /\ Control /\ BufferOK /\ Reasons /\ i \in All /\ i # Sched
      /\ pc[i] = "io" /\ chan[i] = Awake /\ proc[i].stat = "SRUN" /\ proc[i].load
      /\ cpu \in {i, NoProc} /\ (\A j \in All : pc[j] # "nod") /\ pc \in [All -> Labels]
      /\ then \in [All -> Nexts] /\ loc \in [All -> Locals] /\ chan \in [All -> Channels]
      /\ swbuf \in [busy : BOOLEAN, wanted : BOOLEAN]
  BY <1>1, Going, Types
<1>3. /\ pc'[i] = "user" /\ then'[i] = "user" /\ loc'[i] = NoLoc
      /\ \A j \in All : j # i => pc'[j] = pc[j] /\ then'[j] = then[j] /\ loc'[j] = loc[j]
  BY <1>1, <1>2
<1>4. /\ \A j \in All : chan'[j] \in {chan[j], Awake} /\ (chan[j] # SwBuf => chan'[j] = chan[j])
      /\ swbuf.wanted => \A j \in All : chan'[j] # SwBuf
      /\ chan' \in [All -> Channels]
  <2>1. chan \in [All -> Channels] /\ Wake(SwapWoken)
    BY <1>1, <1>2
  <2> QED BY <2>1, WokenFacts
<1>5. TypeOK'
  BY <1>1, <1>2, <1>4, SlotFacts DEF TypeOK, Labels, Nexts, Locals, NoLoc, Sched
<1>6. PlaceOK(i)'
  <2>1. chan'[i] = Awake
    BY <1>2, <1>4
  <2> QED BY <1>1, <1>2, <1>3, <2>1, SlotFacts DEF PlaceOK, Moving, Awake, Event, SwBuf
<1>7. \A j \in All : j # i => Idle(j)
  BY <1>1, <1>3, <1>4 DEF Idle
<1>8. ParentsWait /\ TextsStayOut
  BY <1>1 DEF ParentsWait, TextsStayOut, TextOut
<1>9. PlacesOK' /\ SchedOK' /\ Births'
  BY <1>1, <1>2, <1>3, <1>6, <1>7, <1>8, StepControl, SlotFacts DEF Moving
<1>10. BufferOK'
  BY <1>1, <1>2, <1>3, BufferFreed
<1>11. Reasons'
  <2>1. Ready' \subseteq Ready
    BY <1>1, <1>2, <1>4, ReadyStays
  <2>2. chan'[Sched] = RunOut => runOut' /\ Ready' = {}
    BY <1>1, <1>2, <1>4, <2>1, SlotFacts DEF Reasons, Awake, RunOut
  <2> QED BY <1>1, <1>2, <1>3, <1>4, <2>2, BufferPassed
<1>12. Counts' /\ Divided(mem, MemUse, NPages)' /\ Divided(swap, SwapUse, NBlocks)'
  <2>1. then[i] # "forked" /\ then'[Sched] = then[Sched]
    BY <1>1, <1>2, <1>3, SlotFacts
  <2>2. \A j \in Slots : then'[j] = "forked" <=> then[j] = "forked"
    BY <1>3, <2>1, SlotFacts
  <2>3. loc[i].old = 0 /\ loc[i].blk = 0
    BY <1>1, <1>2 DEF PlaceOK, Moves, Moving
  <2>4. \A j \in Slots : loc'[j].old = loc[j].old /\ loc'[j].blk = loc[j].blk
    BY <1>3, <2>3, SlotFacts DEF NoLoc
  <2> QED BY <1>1, <2>1, <2>2, <2>4, Untouched DEF Sound
<1> QED BY <1>1, <1>5, <1>9, <1>10, <1>11, <1>12 DEF Sound, Control

LEMMA PauseStep ==
    ASSUME Sound, NEW i \in Slots, Pause(i)
    PROVE  Sound'
<1>1. /\ At(i, "user") /\ runIn' = FALSE
      /\ chan' = [j \in DOMAIN chan |-> IF j = i THEN Event
                                        ELSE IF runIn /\ chan[j] = RunIn THEN Awake ELSE chan[j]]
      /\ UNCHANGED <<mem, swap, proc, text, swbuf, runOut, cpu, pc, then, loc, in, lost, wild>>
  BY DEF Pause, areas
<1>2. /\ TypeOK /\ PlaceOK(i) /\ Control /\ BufferOK /\ Reasons /\ i \in All /\ i # Sched
      /\ pc[i] = "user" /\ chan[i] = Awake /\ proc[i].stat = "SRUN" /\ proc[i].load
      /\ (\A j \in All : pc[j] # "nod") /\ chan \in [All -> Channels] /\ DOMAIN chan = All
  BY <1>1, Going, Types
<1>3. chan' = [j \in All |-> IF j = i THEN Event
                             ELSE IF runIn /\ chan[j] = RunIn THEN Awake ELSE chan[j]]
  BY <1>1, <1>2
<1>4. /\ chan'[i] = Event
      /\ \A j \in All : j # i => chan'[j] \in {chan[j], Awake}
                                 /\ (chan'[j] = RunIn => chan[j] = RunIn /\ ~runIn)
  BY <1>2, <1>3 DEF Awake, RunIn
<1>5. TypeOK'
  <2>1. chan' \in [All -> Channels]
    BY <1>2, <1>3 DEF Channels
  <2> QED BY <1>1, <1>2, <2>1 DEF TypeOK
<1>6. PlaceOK(i)'
  BY <1>1, <1>2, <1>4 DEF PlaceOK, Moving, Awake, Event, SwBuf
<1>7. \A j \in All : j # i => Idle(j)
  BY <1>1, <1>4 DEF Idle
<1>8. ParentsWait /\ TextsStayOut
  BY <1>1 DEF ParentsWait, TextsStayOut, TextOut
<1>9. PlacesOK' /\ SchedOK' /\ Births'
  BY <1>1, <1>2, <1>6, <1>7, <1>8, StepControl, SlotFacts
<1>10. BufferOK'
  BY <1>1, <1>2, BufferStays
<1>11. Reasons'
  <2>1. Ready' \subseteq Ready
    BY <1>1, <1>2, <1>4, ReadyStays
  <2>2. /\ chan'[Sched] = RunOut => chan[Sched] = RunOut
        /\ chan'[Sched] = RunIn => chan[Sched] = RunIn /\ ~runIn
    BY <1>2, <1>4, SlotFacts DEF Awake, RunOut
  <2>3. \A j \in All : chan'[j] = SwBuf => chan[j] = SwBuf
    BY <1>4 DEF Awake, SwBuf, Event
  <2>4. \A j \in All : chan[j] = SwBuf => chan'[j] = SwBuf
    BY <1>2, <1>3 DEF Awake, SwBuf, RunIn
  <2> QED BY <1>1, <1>2, <2>1, <2>2, <2>3, <2>4 DEF Reasons
<1>12. Counts' /\ Divided(mem, MemUse, NPages)' /\ Divided(swap, SwapUse, NBlocks)'
  BY <1>1, Untouched DEF Sound
<1> QED BY <1>1, <1>5, <1>9, <1>10, <1>11, <1>12, <1>2 DEF Sound, Control, At

\* Somebody is woken, by another part of the kernel or by the clock.
LEMMA OnlyWoken ==
    ASSUME Sound, UNCHANGED <<mem, swap, proc, text, swbuf, runOut, cpu, pc, then, loc, in, lost,
                              wild>>,
           runIn' \in BOOLEAN, chan' \in [All -> Channels],
           \A j \in All : chan'[j] \in {chan[j], Awake} /\ (chan[j] = SwBuf => chan'[j] = SwBuf),
           chan'[Sched] = RunIn => runIn'
    PROVE  Sound'
<1>1. /\ TypeOK /\ PlacesOK /\ SchedOK /\ Births /\ BufferOK /\ Control /\ Reasons
      /\ \A j \in Slots : proc[j].text \in Files \cup {NoFile}
  BY Types DEF Sound, Control
<1>2. TypeOK'
  BY <1>1 DEF TypeOK
<1>3. \A j \in All : Idle(j)
  BY DEF Idle
<1>4. ParentsWait /\ TextsStayOut
  BY DEF ParentsWait, TextsStayOut, TextOut
<1>5. PlacesOK' /\ SchedOK' /\ Births'
  BY <1>1, <1>3, <1>4, StepControl, SlotFacts
<1>6. BufferOK'
  BY <1>1 DEF BufferOK
<1>7. Reasons'
  <2>1. Ready' \subseteq Ready
    BY <1>1, ReadyStays
  <2>2. chan'[Sched] = RunOut => chan[Sched] = RunOut
    BY SlotFacts DEF Awake, RunOut
  <2>3. \A j \in All : chan'[j] = SwBuf => chan[j] = SwBuf
    BY DEF Awake, SwBuf
  <2> QED BY <1>1, <2>1, <2>2, <2>3 DEF Reasons
<1>8. Counts' /\ Divided(mem, MemUse, NPages)' /\ Divided(swap, SwapUse, NBlocks)'
  BY Untouched DEF Sound
<1> QED BY <1>2, <1>5, <1>6, <1>7, <1>8 DEF Sound, Control

LEMMA SetRunStep ==
    ASSUME Sound, SetRun
    PROVE  Sound'
<1>1. PICK i \in Slots :
      /\ chan[i] = Event /\ chan' = [chan EXCEPT ![i] = Awake]
      /\ UNCHANGED <<mem, swap, proc, text, swbuf, runIn, runOut, cpu, pc, then, loc, in, lost,
                     wild>>
  BY DEF SetRun, Put, areas, flags
<1>2. TypeOK /\ Reasons /\ chan \in [All -> Channels] /\ i \in All /\ i # Sched
      /\ runIn \in BOOLEAN
  BY Types, SlotFacts DEF Sound, Control, TypeOK
<1>3. chan'[i] = Awake /\ \A j \in All : j # i => chan'[j] = chan[j]
  BY <1>1, <1>2
<1>4. chan' \in [All -> Channels]
  BY <1>1, <1>2 DEF Channels
<1>5. \A j \in All : chan'[j] \in {chan[j], Awake} /\ (chan[j] = SwBuf => chan'[j] = SwBuf)
  BY <1>1, <1>3 DEF Event, SwBuf
<1>6. chan'[Sched] = RunIn => runIn'
  BY <1>1, <1>2, <1>3, SlotFacts DEF Reasons
<1> QED BY <1>1, <1>2, <1>4, <1>5, <1>6, OnlyWoken

LEMMA ClockStep ==
    ASSUME Sound, Clock
    PROVE  Sound'
<1>1. /\ Wake({RunIn}) /\ runIn' = FALSE
      /\ UNCHANGED <<mem, swap, proc, text, swbuf, runOut, cpu, pc, then, loc, in, lost, wild>>
  BY DEF Clock, areas
<1>2. TypeOK /\ chan \in [All -> Channels]
  BY Types DEF Sound, Control
<1>3. /\ \A j \in All : /\ chan'[j] \in {chan[j], Awake}
                        /\ chan[j] \notin {RunIn} => chan'[j] = chan[j]
                        /\ chan'[j] \in {RunIn} => chan'[j] = Awake
      /\ chan' \in [All -> Channels]
  BY <1>1, <1>2, WakeFacts
<1>4. \A j \in All : chan[j] = SwBuf => chan'[j] = SwBuf
  BY <1>3 DEF RunIn, SwBuf
<1>5. chan'[Sched] # RunIn
  BY <1>3, SlotFacts DEF RunIn, Awake
<1> QED BY <1>1, <1>3, <1>4, <1>5, OnlyWoken

\* Sched goes to sleep.
LEMMA SchedSleeps ==
    ASSUME Sound, At(Sched, "loop"), NEW channel \in {RunIn, RunOut},
           UNCHANGED <<mem, swap, proc, text, swbuf, then, loc, in, lost, wild>>,
           pc' = [pc EXCEPT ![Sched] = "loop"], cpu' = NoProc,
           chan' = [chan EXCEPT ![Sched] = channel], runIn' \in BOOLEAN, runOut' \in BOOLEAN,
           channel = RunOut => runOut' /\ Ready = {}, channel = RunIn => runIn'
    PROVE  Sound'
<1>1. /\ TypeOK /\ PlacesOK /\ SchedOK /\ Births /\ BufferOK /\ Reasons
      /\ pc \in [All -> Labels] /\ chan \in [All -> Channels] /\ Sched \in All
      /\ pc[Sched] = "loop" /\ cpu \in {Sched, NoProc} /\ chan[Sched] = Awake
  BY Types, SlotFacts DEF Sound, Control, At
<1>2. /\ pc' = pc /\ chan'[Sched] = channel
      /\ \A j \in All : j # Sched => chan'[j] = chan[j]
  BY <1>1
<1>3. TypeOK'
  BY <1>1 DEF TypeOK, Labels, Channels
<1>4. ParentsWait /\ \A j \in Slots : Idle(j)
  BY <1>2, SlotFacts DEF Idle, ParentsWait
<1>5. PlacesOK'
  BY <1>1, <1>4, IdleOK DEF PlacesOK
<1>6. SchedOK'
  BY <1>1, <1>2 DEF SchedOK, Moving, Awake, RunIn, RunOut, SwBuf
<1>7. Births'
  BY <1>1, <1>2, BirthsStay
<1>8. BufferOK'
  <2>1. \A j \in All : pc[j] # "nod"
    BY <1>1, NobodyNods
  <2> QED BY <1>1, <1>2, <2>1, BufferStays
<1>9. Reasons'
  <2>1. Ready' = Ready
    BY <1>2, SlotFacts DEF Ready
  <2>2. \A j \in All : chan'[j] = SwBuf <=> chan[j] = SwBuf
    BY <1>1, <1>2 DEF SwBuf, Awake, RunIn, RunOut
  <2> QED BY <1>1, <1>2, <2>1, <2>2 DEF Reasons, RunIn, RunOut
<1>10. Counts' /\ Divided(mem, MemUse, NPages)' /\ Divided(swap, SwapUse, NBlocks)'
  BY Untouched DEF Sound
<1> QED BY <1>3, <1>5, <1>6, <1>7, <1>8, <1>9, <1>10 DEF Sound, Control

LEMMA SchedNobodyStep == ASSUME Sound, SchedNobody  PROVE Sound'
<1>1. runIn \in BOOLEAN
  BY DEF Sound, Control, TypeOK
<1>2. /\ At(Sched, "loop") /\ Ready = {} /\ runOut' = TRUE /\ runIn' = runIn
      /\ UNCHANGED <<mem, swap, proc, text, swbuf, then, loc, in, lost, wild>>
      /\ pc' = [pc EXCEPT ![Sched] = "loop"] /\ cpu' = NoProc
      /\ chan' = [chan EXCEPT ![Sched] = RunOut]
  BY DEF SchedNobody, SleepAt, Put, areas
<1> QED BY <1>1, <1>2, SchedSleeps DEF RunIn, RunOut

LEMMA SchedFullStep == ASSUME Sound, SchedFull  PROVE Sound'
<1>1. runOut \in BOOLEAN
  BY DEF Sound, Control, TypeOK
<1>2. /\ At(Sched, "loop") /\ runIn' = TRUE /\ runOut' = runOut
      /\ UNCHANGED <<mem, swap, proc, text, swbuf, then, loc, in, lost, wild>>
      /\ pc' = [pc EXCEPT ![Sched] = "loop"] /\ cpu' = NoProc
      /\ chan' = [chan EXCEPT ![Sched] = RunIn]
  BY DEF SchedFull, SleepAt, Put, areas
<1> QED BY <1>1, <1>2, SchedSleeps DEF RunIn, RunOut

-----------------------------------------------------------------------------
\* Steps that move images

LEMMA IdleImages ==
    ASSUME NEW j \in Slots, Idle(j)
    PROVE  /\ ImageIn(j)' = ImageIn(j) /\ ImageOut(j)' = ImageOut(j)
           /\ Image(j)' <=> Image(j)
BY DEF Idle, ImageIn, ImageOut, HeldPages, Image

LEMMA GoingStays ==
    ASSUME Control, Idle(Sched), in' = in, \A j \in Slots : OutOfMemory(j) => proc'[j] = proc[j]
    PROVE  /\ GoingIn' = GoingIn
           /\ \A j \in Slots : Idle(j) => (InMemory(j)' <=> InMemory(j))
<1>1. in.sel = 0 \/ (in.sel \in Slots /\ OutOfMemory(in.sel))
  <2>1. SchedOK
    BY DEF Control
  <2>2. CASE pc[Sched] = "loop"
    BY <2>1, <2>2 DEF SchedOK, NoIn
  <2>3. CASE pc[Sched] # "loop"
    BY <2>1, <2>3 DEF SchedOK, OutOfMemory
  <2> QED BY <2>2, <2>3
<1>2. GoingIn' = GoingIn
  BY <1>1 DEF GoingIn, Idle
<1>3. \A j \in Slots : Idle(j) => (InMemory(j)' <=> InMemory(j))
  BY DEF InMemory, Idle
<1> QED BY <1>2, <1>3

\* One process goes on, and does not let SwBuf go.
LEMMA OneStep ==
    ASSUME Sound, NEW i \in Slots, proc[i].load \/ proc[i].stat = "SNULL",
           pc[i] \notin {"io", "nod"},
           pc'[i] \notin {"io", "nod", "wait"}, \A j \in All : pc[j] # "nod",
           \A j \in All : j # i => Idle(j), chan' = chan,
           TypeOK', PlaceOK(i)', UNCHANGED <<swbuf, runIn, runOut, in, lost, wild>>,
           proc'[i].load \/ proc'[i].stat = "SNULL", proc[i].stat # "SIDL",
           TextsStayOut, pc'[i] \in Moving => then'[i] # "forked"
    PROVE  /\ Control' /\ Reasons' /\ ~wild' /\ GoingIn' = GoingIn
           /\ \A j \in Slots : j # i => /\ ImageIn(j)' = ImageIn(j) /\ ImageOut(j)' = ImageOut(j)
                                        /\ (Image(j)' <=> Image(j))
                                        /\ proc'[j].text = proc[j].text
                                        /\ (InMemory(j)' <=> InMemory(j))
<1>1. Control /\ BufferOK /\ Reasons /\ i \in All /\ i # Sched
  BY SlotFacts DEF Sound, Control
<1>2. \A j \in Slots : OutOfMemory(j) => proc'[j] = proc[j]
  BY SlotFacts DEF OutOfMemory, Idle
<1>3. ParentsWait
  BY SlotFacts DEF ParentsWait, Idle
<1>4. Idle(Sched)
  BY <1>1, SlotFacts
<1>5. \A j \in Slots : pc'[j] \in Moving /\ then'[j] = "forked" =>
               pc[j] \in Moving /\ then[j] = "forked" /\ loc'[j].parent = loc[j].parent
  BY SlotFacts DEF Idle
<1>6. PlacesOK' /\ SchedOK' /\ Births'
  BY <1>1, <1>2, <1>3, <1>4, <1>5, StepControl, SlotFacts
<1>7. BufferOK'
  <2>1. \A j \in All : pc'[j] = "io" <=> pc[j] = "io"
    BY DEF Idle
  <2>2. \A j \in All : pc'[j] # "nod"
    BY DEF Idle
  <2> QED BY <1>1, <2>1, <2>2, BufferStays
<1>8. Reasons'
  <2>1. Ready' \subseteq Ready
    BY <1>1, SlotFacts, ReadyStays DEF Idle
  <2>2. \A j \in All : /\ pc[j] = "io" => pc'[j] = "io"
                       /\ pc'[j] = "wait" => pc[j] = "wait" \/ chan'[j] # SwBuf
    BY DEF Idle
  <2> QED BY <1>1, <2>1, <2>2, ReasonsStay
<1>9. /\ GoingIn' = GoingIn
      /\ \A j \in Slots : j # i => (InMemory(j)' <=> InMemory(j))
  BY <1>1, <1>2, <1>4, GoingStays, SlotFacts
<1>10. \A j \in Slots : j # i => /\ ImageIn(j)' = ImageIn(j) /\ ImageOut(j)' = ImageOut(j)
                                 /\ (Image(j)' <=> Image(j))
  BY IdleImages, SlotFacts
<1>11. \A j \in Slots : j # i => proc'[j].text = proc[j].text
  BY SlotFacts DEF Idle
<1>12. ~wild'
  BY DEF Sound
<1> QED BY <1>6, <1>7, <1>8, <1>9, <1>10, <1>11, <1>12 DEF Control

\* What a process of memory has.
LEMMA HeldIs ==
    ASSUME NEW i \in Slots, proc[i].load, then[i] # "forked", proc[i] \in ProcEntries,
           loc[i] \in Locals, loc[i].blk = 0
    PROVE  /\ loc[i].old > 0 => ImageIn(i) = Area(proc[i].addr, Pages(loc[i].old))
           /\ loc[i].old = 0 => ImageIn(i) = Area(proc[i].addr, Pages(proc[i].size))
           /\ ImageOut(i) = {} /\ InMemory(i)
BY DEF ImageIn, ImageOut, HeldPages, InMemory, ProcEntries, Locals

LEMMA Parts ==
    /\ MemUse = Use(Images, Texts, GoingIn) /\ SwapUse = Use(Outs, Copies, {})
    /\ \A i \in Slots : Images[i] = ImageIn(i) /\ Outs[i] = ImageOut(i)
    /\ NPages \in Nat /\ NBlocks \in Nat
BY SwappingAssumption DEF MemUse, SwapUse, Images, Outs

LEMMA PartsStay ==
    /\ (\A i \in Slots : ImageIn(i)' = ImageIn(i)) => Images' = Images
    /\ (\A i \in Slots : ImageOut(i)' = ImageOut(i)) => Outs' = Outs
    /\ text' = text => Texts' = Texts /\ Copies' = Copies
<1>1. (\A i \in Slots : ImageIn(i)' = ImageIn(i)) => Images' = Images
  BY DEF Images
<1>2. (\A i \in Slots : ImageOut(i)' = ImageOut(i)) => Outs' = Outs
  BY DEF Outs
<1>3. text' = text => Texts' = Texts /\ Copies' = Copies
  BY DEF Texts, Copies
<1> QED BY <1>1, <1>2, <1>3

LEMMA SameUse ==
    /\ Images' = Images /\ Texts' = Texts /\ GoingIn' = GoingIn => MemUse' = MemUse
    /\ Outs' = Outs /\ Copies' = Copies => SwapUse' = SwapUse
BY DEF MemUse, SwapUse

LEMMA GrowStep ==
    ASSUME Sound, NEW i \in Slots, Grow(i)
    PROVE  Sound'
<1>1. PICK n \in Sizes :
      /\ At(i, "user") /\ n > proc[i].size
      /\ loc' = [loc EXCEPT ![i].old = proc[i].size]
      /\ proc' = [proc EXCEPT ![i].size = n]
      /\ then' = [then EXCEPT ![i] = "user"]
      /\ pc' = [pc EXCEPT ![i] = "expand"] /\ cpu' = i
      /\ UNCHANGED <<mem, swap, text, swbuf, runIn, runOut, chan, in, lost, wild>>
  BY DEF Grow, GoOn, Put, areas, flags
<1>2. /\ TypeOK /\ PlaceOK(i) /\ Control /\ BufferOK /\ Counts /\ i \in All /\ i # Sched
      /\ pc[i] = "user" /\ chan[i] = Awake /\ proc[i].stat = "SRUN" /\ proc[i].load
      /\ (\A j \in All : pc[j] # "nod") /\ pc \in [All -> Labels]
      /\ then \in [All -> Nexts] /\ loc \in [All -> Locals] /\ proc \in [All -> ProcEntries]
      /\ loc[i] \in Locals /\ proc[i] \in ProcEntries
  BY <1>1, Going, Types
<1>3. /\ pc'[i] = "expand" /\ then'[i] = "user" /\ loc'[i] = [loc[i] EXCEPT !.old = proc[i].size]
      /\ proc'[i] = [proc[i] EXCEPT !.size = n]
      /\ \A j \in All : j # i => /\ pc'[j] = pc[j] /\ then'[j] = then[j] /\ loc'[j] = loc[j]
                                 /\ proc'[j] = proc[j]
  BY <1>1, <1>2
<1>4. n \in Nat /\ n >= Page /\ proc[i].size >= Page /\ Page > 0 /\ Page \in Nat
      /\ proc[i].size \in Nat
  BY <1>2, SwappingAssumption DEF PlaceOK, ProcEntries
<1>5. then[i] = "user" /\ loc[i] = NoLoc
  BY <1>2 DEF PlaceOK
<1>6. TypeOK'
  BY <1>1, <1>2, <1>4 DEF TypeOK, Labels, Nexts, Locals, ProcEntries
<1>7. PlaceOK(i)'
  BY <1>1, <1>2, <1>3, <1>4, <1>5, SlotFacts
     DEF PlaceOK, Moving, NoLoc, Awake, Event, SwBuf, ProcEntries, Locals
<1>8. \A j \in All : j # i => Idle(j)
  BY <1>1, <1>3 DEF Idle
<1>9. TextsStayOut /\ proc'[i].load
  BY <1>1, <1>2, <1>3 DEF TextsStayOut, TextOut, ProcEntries
<1>10. /\ Control' /\ Reasons' /\ ~wild' /\ GoingIn' = GoingIn
       /\ \A j \in Slots : j # i => /\ ImageIn(j)' = ImageIn(j) /\ ImageOut(j)' = ImageOut(j)
                                    /\ (Image(j)' <=> Image(j))
                                    /\ proc'[j].text = proc[j].text
                                    /\ (InMemory(j)' <=> InMemory(j))
  BY <1>1, <1>2, <1>3, <1>6, <1>7, <1>8, <1>9, OneStep DEF Moving
<1>11. /\ ImageIn(i)' = ImageIn(i) /\ ImageOut(i)' = ImageOut(i)
       /\ (Image(i)' <=> Image(i)) /\ proc'[i].text = proc[i].text
       /\ InMemory(i) /\ InMemory(i)'
  <2>1. /\ proc'[i].load /\ then'[i] # "forked" /\ loc'[i].blk = 0
        /\ loc'[i].old = proc[i].size /\ loc'[i].old > 0 /\ loc[i].blk = 0 /\ loc[i].old = 0
        /\ proc'[i].addr = proc[i].addr /\ proc'[i].text = proc[i].text
        /\ proc'[i].stat = proc[i].stat
    BY <1>2, <1>3, <1>4, <1>5 DEF NoLoc, ProcEntries, Locals
  <2>2. InMemory(i) /\ InMemory(i)' /\ (Image(i)' <=> Image(i))
    BY <1>2, <2>1 DEF InMemory, Image
  <2>3. ImageOut(i) = {} /\ ImageOut(i)' = {}
    BY <1>2, <2>1 DEF ImageOut
  <2>4. ImageIn(i) = Area(proc[i].addr, Pages(proc[i].size))
    BY <1>2, <1>5, <2>1 DEF ImageIn, HeldPages
  <2>5. ImageIn(i)' = Area(proc'[i].addr, Pages(loc'[i].old))
    BY <2>1 DEF ImageIn, HeldPages
  <2> QED BY <2>1, <2>2, <2>3, <2>4, <2>5
<1>12. Counts'
  BY <1>1, <1>2, <1>10, <1>11, CountsStay
<1>13. MemUse' = MemUse /\ SwapUse' = SwapUse
  BY <1>1, <1>10, <1>11, PartsStay, SameUse
<1> QED BY <1>1, <1>10, <1>12, <1>13 DEF Sound

\* A smaller size: the pages beyond its end are given back.
LEMMA ShrinkStep ==
    ASSUME Sound, NEW i \in Slots, Shrink(i)
    PROVE  WellFormed(mem)' /\ WellFormed(swap)' /\ (wild' \/ Sound')
<1>1. PICK n \in Sizes :
      /\ At(i, "user") /\ n < proc[i].size
      /\ proc' = [proc EXCEPT ![i].size = n]
      /\ mem' = Shrunk(mem, proc[i].addr, proc[i].size, n)
      /\ wild' = ~ShrinksWell(proc[i].size, n)
      /\ UNCHANGED <<swap, text, swbuf, runIn, runOut, cpu, pc, chan, then, loc, in, lost>>
  BY DEF Shrink, flags
<1>2. /\ TypeOK /\ PlaceOK(i) /\ Control /\ BufferOK /\ Counts /\ i \in All /\ i # Sched
      /\ pc[i] = "user" /\ chan[i] = Awake /\ proc[i].stat = "SRUN" /\ proc[i].load
      /\ (\A j \in All : pc[j] # "nod") /\ proc \in [All -> ProcEntries]
      /\ loc[i] \in Locals /\ proc[i] \in ProcEntries
  BY <1>1, Going, Types
<1>3. /\ proc'[i] = [proc[i] EXCEPT !.size = n]
      /\ \A j \in All : j # i => proc'[j] = proc[j]
  BY <1>1, <1>2
<1> DEFINE old == proc[i].size
           addr == proc[i].addr
           p == Pages(old - n)
           a == addr + n \div Page
<1>4. n \in Nat /\ n >= Page /\ old \in Nat /\ addr \in Nat /\ n < old /\ old - n \in Nat
  BY <1>1, <1>2, SwappingAssumption DEF ProcEntries
<1>5. then[i] = "user" /\ loc[i] = NoLoc /\ loc[i].old = 0 /\ loc[i].blk = 0
  BY <1>2 DEF PlaceOK, NoLoc
<1>6. ImageIn(i) = Area(addr, Pages(old)) /\ ImageOut(i) = {} /\ InMemory(i)
  BY <1>2, <1>5, HeldIs
<1>7. /\ n \div Page \in Nat /\ p \in Nat /\ Pages(old) \in Nat /\ a \in Nat
      /\ n \div Page + p <= Pages(old)
  <2>1. n \div Page \in Nat /\ p \in Nat /\ n \div Page + p <= Pages(old)
    BY <1>4, ShrinkFits
  <2>2. Pages(old) \in Nat
    BY <1>4, PagesSums
  <2>3. a \in Nat
    BY <1>4, <2>1
  <2> QED BY <2>1, <2>2, <2>3
<1>8. mem' = FreeMap(mem, p, a)
  BY <1>1 DEF Shrunk
<1>9. Area(a, p) \subseteq ImageIn(i)
  <2> HIDE DEF a, p
  <2>1. a = addr + n \div Page
    BY DEF a
  <2> QED BY <1>4, <1>6, <1>7, <2>1, InArea
<1>10. WellFormed(mem)' /\ WellFormed(swap)'
  <2> DEFINE cut == [j \in Slots |-> IF j = i THEN ImageIn(i) \ Area(a, p) ELSE Images[j]]
  <2>1. Divided(mem, Use(Images, Texts, GoingIn), NPages)
    BY Parts DEF Sound
  <2>2. (\A j \in Slots : j # i => cut[j] = Images[j]) /\ cut[i] = Images[i] \ Area(a, p)
        /\ Area(a, p) \subseteq Images[i]
    BY <1>9, Parts
  <2> HIDE DEF cut, a, p
  <2>3. Divided(FreeMap(mem, p, a), Use(cut, Texts, GoingIn), NPages)
    BY <1>7, <2>1, <2>2, ImageGives, Parts
  <2> QED BY <1>1, <1>8, <2>3 DEF Divided, Sound
<1>11. ASSUME ShrinksWell(old, n)  PROVE Sound'
  <2>1. n % Page = 0 /\ wild' = FALSE
    BY <1>1, <1>4, <1>11 DEF ShrinksWell
  <2>2. n \div Page = Pages(n) /\ p = Pages(old) - Pages(n) /\ Pages(n) \in Nat
    BY <1>4, <2>1, ShrinkExact, PagesSums
  <2>3. TypeOK'
    BY <1>1, <1>2, <1>4, <2>1 DEF TypeOK, ProcEntries
  <2>4. PlaceOK(i)'
    BY <1>1, <1>2, <1>3, <1>4, SlotFacts
       DEF PlaceOK, Moving, NoLoc, Awake, Event, SwBuf, ProcEntries, Locals
  <2>5. \A j \in All : j # i => Idle(j)
    BY <1>1, <1>3 DEF Idle
  <2>6. TextsStayOut /\ proc'[i].load /\ wild' = wild
    <3>1. wild = FALSE
      BY <1>2 DEF Sound, TypeOK
    <3> QED BY <1>1, <1>2, <1>3, <2>1, <3>1 DEF TextsStayOut, TextOut, ProcEntries
  <2>7. /\ Control' /\ Reasons' /\ ~wild' /\ GoingIn' = GoingIn
        /\ \A j \in Slots : j # i => /\ ImageIn(j)' = ImageIn(j) /\ ImageOut(j)' = ImageOut(j)
                                     /\ (Image(j)' <=> Image(j))
                                     /\ proc'[j].text = proc[j].text
                                     /\ (InMemory(j)' <=> InMemory(j))
    BY <1>1, <1>2, <2>3, <2>4, <2>5, <2>6, OneStep DEF Moving
  <2>8. /\ ImageIn(i)' = Area(addr, Pages(n)) /\ ImageOut(i)' = {}
        /\ (Image(i)' <=> Image(i)) /\ proc'[i].text = proc[i].text
        /\ InMemory(i)'
    <3>1. /\ proc'[i].load /\ then'[i] # "forked" /\ loc'[i].blk = 0 /\ loc'[i].old = 0
          /\ proc'[i].addr = addr /\ proc'[i].text = proc[i].text /\ proc'[i].size = n
          /\ proc'[i].stat = proc[i].stat
      BY <1>1, <1>2, <1>3, <1>5 DEF ProcEntries
    <3>2. InMemory(i)' /\ (Image(i)' <=> Image(i))
      BY <3>1 DEF InMemory, Image
    <3>3. ImageOut(i)' = {}
      BY <3>1 DEF ImageOut
    <3>4. ImageIn(i)' = Area(addr, Pages(n))
      BY <3>1 DEF ImageIn, HeldPages
    <3> QED BY <3>1, <3>2, <3>3, <3>4
  <2>9. Counts'
    BY <1>1, <1>2, <1>6, <2>7, <2>8, CountsStay
  <2>10. SwapUse' = SwapUse
    BY <1>1, <1>6, <2>7, <2>8, PartsStay, SameUse
  <2>11. Divided(mem, MemUse, NPages)'
    <3>1. Divided(mem, Use(Images, Texts, GoingIn), NPages)
      BY Parts DEF Sound
    <3>2. Area(addr, Pages(n)) = Area(addr, Pages(old)) \ Area(a, p)
      <4> HIDE DEF a, p, addr
      <4>1. a = addr + Pages(n) /\ p = Pages(old) - Pages(n)
        BY <2>2 DEF a, p
      <4> QED BY <1>4, <1>7, <2>2, <4>1, InArea DEF addr
    <3>3. Images' = [j \in Slots |-> ImageIn(j)']
      BY DEF Images
    <3>4. (\A j \in Slots : j # i => Images'[j] = Images[j]) /\ Images'[i] = Images[i] \ Area(a, p)
          /\ Area(a, p) \subseteq Images[i]
      BY <1>6, <1>9, <2>7, <2>8, <3>2, <3>3, Parts
    <3> HIDE DEF a, p
    <3>5. Divided(FreeMap(mem, p, a), Use(Images', Texts, GoingIn), NPages)
      BY <1>7, <3>1, <3>4, ImageGives, Parts
    <3>6. Texts' = Texts
      BY <1>1, PartsStay
    <3>7. MemUse' = Use(Images', Texts, GoingIn)
      BY <2>7, <3>6 DEF MemUse
    <3> QED BY <1>8, <3>5, <3>7
  <2> QED BY <1>1, <2>7, <2>9, <2>10, <2>11 DEF Sound
<1> QED BY <1>1, <1>10, <1>11

-----------------------------------------------------------------------------
\* Texts: XccDec and XFree

LEMMA TextsOfIs ==
    ASSUME NEW t, NEW f \in Files
    PROVE  /\ t[f].ccount > 0 => TextsOf(t)[f] = Area(t[f].caddr, Pages(TextSize))
           /\ ~(t[f].ccount > 0) => TextsOf(t)[f] = {}
           /\ t[f].count > 0 => CopiesOf(t)[f] = Area(t[f].daddr, TextSize)
           /\ ~(t[f].count > 0) => CopiesOf(t)[f] = {}
           /\ DOMAIN TextsOf(t) = Files /\ DOMAIN CopiesOf(t) = Files
BY DEF TextsOf, CopiesOf

\* What XccDec makes of a text that is in memory.
LEMMA XccDecDoes ==
    ASSUME text \in [Files -> TextEntries], NEW f \in Files \cup {NoFile},
           f # NoFile => text[f].ccount > 0,
           NEW a, NEW g, Divided(mem, Use(a, TextsOf(text), g), NPages),
           NEW dec, dec = XccDec(f, text, mem)
    PROVE  /\ dec.t \in [Files -> TextEntries]
           /\ f = NoFile => dec.t = text /\ dec.m = mem
           /\ \A e \in Files : e # f => dec.t[e] = text[e]
           /\ f # NoFile => dec.t[f] = [text[f] EXCEPT !.ccount = text[f].ccount - 1]
           /\ Divided(dec.m, Use(a, TextsOf(dec.t), g), NPages)
           /\ f # NoFile /\ text[f].ccount > 1 => dec.m = mem
<1>1. CASE f = NoFile
  <2>1. dec.t = text /\ dec.m = mem
    BY <1>1 DEF XccDec
  <2> QED BY <1>1, <2>1, SlotFacts
<1>2. CASE f # NoFile
  <2>1. f \in Files /\ text[f] \in TextEntries /\ text[f].ccount \in Nat /\ text[f].ccount > 0
        /\ text[f].caddr \in Nat
    BY <1>2 DEF TextEntries
  <2>2. /\ dec.t = [text EXCEPT ![f].ccount = text[f].ccount - 1]
        /\ dec.m = IF text[f].ccount > 1 THEN mem ELSE FreeMap(mem, Pages(TextSize), text[f].caddr)
    BY <1>2, <2>1 DEF XccDec
  <2>3. /\ dec.t[f] = [text[f] EXCEPT !.ccount = text[f].ccount - 1]
        /\ \A e \in Files : e # f => dec.t[e] = text[e]
        /\ dec.t[f] \in TextEntries /\ dec.t \in [Files -> TextEntries]
        /\ dec.t[f].ccount = text[f].ccount - 1 /\ dec.t[f].caddr = text[f].caddr
    BY <2>1, <2>2 DEF TextEntries
  <2>4. \A e \in Files : e # f => TextsOf(dec.t)[e] = TextsOf(text)[e]
    BY <2>3 DEF TextsOf
  <2>5. CASE text[f].ccount > 1
    <3>0. /\ dec.t[f].ccount > 0 /\ text[f].ccount > 0 /\ f \in Files
          /\ dec.t[f].caddr = text[f].caddr
      BY <2>1, <2>3, <2>5
    <3>1. TextsOf(dec.t)[f] = TextsOf(text)[f]
      <4>1. TextsOf(dec.t)[f] = Area(dec.t[f].caddr, Pages(TextSize))
        BY <3>0, TextsOfIs
      <4>2. TextsOf(text)[f] = Area(text[f].caddr, Pages(TextSize))
        BY <3>0, TextsOfIs
      <4> QED BY <3>0, <4>1, <4>2
    <3>2. TextsOf(dec.t) = TextsOf(text)
      BY <2>4, <3>1 DEF TextsOf
    <3> QED BY <1>2, <2>2, <2>3, <2>5, <3>2
  <2>6. CASE ~(text[f].ccount > 1)
    <3>0. ~(dec.t[f].ccount > 0) /\ text[f].ccount > 0
      BY <2>1, <2>3, <2>6
    <3>1. TextsOf(text)[f] = Area(text[f].caddr, Pages(TextSize)) /\ TextsOf(dec.t)[f] = {}
      BY <2>1, <3>0, TextsOfIs
    <3>2. Pages(TextSize) \in Nat /\ NPages \in Nat /\ text[f].caddr \in Nat
      BY <2>1, PagesSums, Parts
    <3>3. Divided(FreeMap(mem, Pages(TextSize), text[f].caddr), Use(a, TextsOf(dec.t), g), NPages)
      BY <2>1, <2>4, <3>1, <3>2, TextGives
    <3> QED BY <1>2, <2>2, <2>3, <2>6, <3>3
  <2> QED BY <2>5, <2>6
<1> QED BY <1>1, <1>2

\* What XFree makes of the text of a process that is in memory.
LEMMA XFreeDoes ==
    ASSUME text \in [Files -> TextEntries], NEW f \in Files \cup {NoFile},
           f # NoFile => text[f].ccount > 0 /\ text[f].ccount <= text[f].count,
           NEW a, NEW g, Divided(mem, Use(a, TextsOf(text), g), NPages),
           NEW b, NEW h, Divided(swap, Use(b, CopiesOf(text), h), NBlocks),
           NEW freed, freed = XFree(f, text, mem, swap)
    PROVE  /\ freed.t \in [Files -> TextEntries]
           /\ f = NoFile => freed.t = text
           /\ \A e \in Files : e # f => freed.t[e] = text[e]
           /\ f # NoFile => /\ freed.t[f].count = text[f].count - 1
                            /\ freed.t[f].ccount = text[f].ccount - 1
           /\ Divided(freed.m, Use(a, TextsOf(freed.t), g), NPages)
           /\ Divided(freed.s, Use(b, CopiesOf(freed.t), h), NBlocks)
<1> DEFINE dec == XccDec(f, text, mem)
<1>1. /\ dec.t \in [Files -> TextEntries]
      /\ f = NoFile => dec.t = text /\ dec.m = mem
      /\ \A e \in Files : e # f => dec.t[e] = text[e]
      /\ f # NoFile => dec.t[f] = [text[f] EXCEPT !.ccount = text[f].ccount - 1]
      /\ Divided(dec.m, Use(a, TextsOf(dec.t), g), NPages)
  BY XccDecDoes
<1>2. CASE f = NoFile
  <2>1. freed = [t |-> text, m |-> mem, s |-> swap]
    BY <1>2 DEF XFree
  <2>2. freed.t = text /\ freed.m = mem /\ freed.s = swap
    BY <2>1
  <2> QED BY <1>2, <2>2, SlotFacts
<1>3. CASE f # NoFile
  <2>1. f \in Files /\ text[f] \in TextEntries /\ text[f].ccount \in Nat /\ text[f].ccount > 0
        /\ text[f].count \in Nat /\ text[f].daddr \in Nat /\ text[f].ccount <= text[f].count
    BY <1>3 DEF TextEntries
  <2>2. /\ dec.t[f] \in TextEntries /\ dec.t[f].count = text[f].count
        /\ dec.t[f].daddr = text[f].daddr /\ dec.t[f].ccount = text[f].ccount - 1
        /\ dec.t[f].caddr = text[f].caddr
    BY <1>1, <1>3, <2>1 DEF TextEntries
  <2>3. TextsOf(dec.t) \in [Files -> {TextsOf(dec.t)[e] : e \in Files}]
    BY DEF TextsOf
  <2>4. CASE text[f].count > 1
    <3>1. freed = [t |-> [dec.t EXCEPT ![f].count = dec.t[f].count - 1], m |-> dec.m, s |-> swap]
      BY <1>3, <2>2, <2>4 DEF XFree
    <3> HIDE DEF dec
    <3>2. freed.t = [dec.t EXCEPT ![f].count = dec.t[f].count - 1] /\ freed.m = dec.m
          /\ freed.s = swap
      BY <3>1
    <3>3. /\ freed.t[f] = [dec.t[f] EXCEPT !.count = dec.t[f].count - 1]
          /\ \A e \in Files : e # f => freed.t[e] = dec.t[e]
      BY <1>1, <2>1, <3>2
    <3>4. /\ freed.t[f] \in TextEntries /\ freed.t[f].count = text[f].count - 1
          /\ freed.t[f].ccount = text[f].ccount - 1
          /\ freed.t[f].caddr = dec.t[f].caddr /\ freed.t[f].daddr = text[f].daddr
      BY <2>1, <2>2, <3>3 DEF TextEntries
    <3>5. freed.t \in [Files -> TextEntries]
      BY <1>1, <2>1, <3>2, <3>3, <3>4
    <3>6. \A e \in Files : freed.t[e].ccount = dec.t[e].ccount /\ freed.t[e].caddr = dec.t[e].caddr
      BY <2>2, <3>3, <3>4
    <3>7. TextsOf(freed.t) = TextsOf(dec.t)
      BY <3>6 DEF TextsOf
    <3>0. freed.t[f].count > 0 /\ text[f].count > 0
      BY <2>1, <2>4, <3>4
    <3>8. \A e \in Files : freed.t[e].daddr = text[e].daddr
                           /\ (freed.t[e].count > 0 <=> text[e].count > 0)
      <4> TAKE e \in Files
      <4>1. CASE e = f
        BY <3>0, <3>4, <4>1
      <4>2. CASE e # f
        BY <1>1, <3>3, <4>2
      <4> QED BY <4>1, <4>2
    <3>9. CopiesOf(freed.t) = CopiesOf(text)
      BY <3>8 DEF CopiesOf
    <3> QED BY <1>1, <1>3, <3>2, <3>3, <3>4, <3>5, <3>7, <3>9
  <2>5. CASE ~(text[f].count > 1)
    <3>1. freed = [t |-> [dec.t EXCEPT ![f] = NoText], m |-> dec.m,
                   s |-> FreeMap(swap, TextSize, dec.t[f].daddr)]
      BY <1>3, <2>2, <2>5 DEF XFree
    <3> HIDE DEF dec
    <3>2. freed.t = [dec.t EXCEPT ![f] = NoText] /\ freed.m = dec.m
          /\ freed.s = FreeMap(swap, TextSize, text[f].daddr)
      BY <2>2, <3>1
    <3>3. /\ freed.t[f] = NoText /\ \A e \in Files : e # f => freed.t[e] = dec.t[e]
      BY <1>1, <2>1, <3>2
    <3>4. text[f].count = 1 /\ text[f].ccount = 1 /\ dec.t[f].ccount = 0
      BY <2>1, <2>2, <2>5
    <3>5. freed.t[f].count = 0 /\ freed.t[f].ccount = 0 /\ NoText \in TextEntries
      BY <3>3 DEF NoText, TextEntries
    <3>6. freed.t \in [Files -> TextEntries]
      BY <1>1, <2>1, <3>2, <3>3, <3>5
    <3>7. \A e \in Files : freed.t[e].ccount > 0 \/ dec.t[e].ccount > 0 =>
              freed.t[e].ccount = dec.t[e].ccount /\ freed.t[e].caddr = dec.t[e].caddr
      BY <3>3, <3>4, <3>5
    <3>8. \A e \in Files : TextsOf(freed.t)[e] = TextsOf(dec.t)[e]
      BY <3>7 DEF TextsOf
    <3>9. TextsOf(freed.t) = TextsOf(dec.t)
      BY <3>8 DEF TextsOf
    <3>10. \A e \in Files : e # f => CopiesOf(freed.t)[e] = CopiesOf(text)[e]
      BY <1>1, <3>3 DEF CopiesOf
    <3>11. CopiesOf(text)[f] = Area(text[f].daddr, TextSize) /\ CopiesOf(freed.t)[f] = {}
      BY <2>1, <3>4, <3>5 DEF CopiesOf
    <3>12. Divided(FreeMap(swap, TextSize, text[f].daddr), Use(b, CopiesOf(freed.t), h), NBlocks)
      BY <2>1, <3>10, <3>11, TextGives, PageFacts, SwappingAssumption
    <3> QED BY <1>1, <1>3, <3>2, <3>3, <3>4, <3>5, <3>6, <3>9, <3>12
  <2> QED BY <2>4, <2>5
<1> QED BY <1>2, <1>3

\* The counts of a process that is in memory, and of one that is out.
LEMMA TextOf ==
    ASSUME Sound, NEW i \in Slots, Image(i), proc[i].text # NoFile
    PROVE  /\ proc[i].text \in Files
           /\ text[proc[i].text].count > 0
           /\ text[proc[i].text].ccount <= text[proc[i].text].count
           /\ InMemory(i) => text[proc[i].text].ccount > 0
<1>1. Counts /\ text \in [Files -> TextEntries] /\ proc[i].text \in Files
  BY Types DEF Sound, Control
<1>2. PICK f \in Files : f = proc[i].text
  BY <1>1
<1>3. i \in Users(f) /\ (InMemory(i) => i \in Resident(f))
  BY <1>2 DEF Users, Resident
<1>4. text[f] \in TextEntries /\ text[f].count \in Nat /\ text[f].ccount \in Nat
  BY <1>1, <1>2 DEF TextEntries
<1>5. /\ text[f].count = 0 => Users(f) = {}
      /\ text[f].ccount = 0 => Resident(f) = {}
      /\ text[f].ccount <= text[f].count
  BY <1>1, <1>2, Counted
<1> QED BY <1>1, <1>2, <1>3, <1>4, <1>5

\* What one process is for the counts of a text.
Uses(i, f)  == IF Image(i) /\ proc[i].text = f THEN 1 ELSE 0
Holds(i, f) == IF Image(i) /\ proc[i].text = f /\ InMemory(i) THEN 1 ELSE 0

\* The counts follow the one process that changes.
LEMMA CountsFollow ==
    ASSUME Counts, text \in [Files -> TextEntries], text' \in [Files -> TextEntries],
           NEW i \in Slots,
           \A j \in Slots : j # i => /\ Image(j)' <=> Image(j)
                                     /\ proc'[j].text = proc[j].text
                                     /\ InMemory(j)' <=> InMemory(j),
           \A f \in Files : /\ text'[f].count + Uses(i, f) = text[f].count + Uses(i, f)'
                            /\ text'[f].ccount + Holds(i, f) = text[f].ccount + Holds(i, f)'
    PROVE  Counts'
<1> SUFFICES ASSUME NEW f \in Files
             PROVE  /\ text'[f].count = Cardinality(Users(f)')
                    /\ text'[f].ccount = Cardinality(Resident(f)')
  BY DEF Counts
<1> DEFINE U == Users(f) \ {i}
           R == Resident(f) \ {i}
<1>1. /\ text[f].count = Cardinality(Users(f)) /\ text[f].ccount = Cardinality(Resident(f))
      /\ text[f].count \in Nat /\ text[f].ccount \in Nat
      /\ text'[f].count \in Nat /\ text'[f].ccount \in Nat
  BY DEF Counts, TextEntries
<1>2. IsFiniteSet(Users(f)) /\ IsFiniteSet(Resident(f))
  BY Counted
<1>3. IsFiniteSet(U) /\ IsFiniteSet(R) /\ Cardinality(U) \in Nat /\ Cardinality(R) \in Nat
  BY <1>2, FS_RemoveElement, FS_CardinalityType
<1>4. Users(f)' \ {i} = U
  BY DEF Users
<1>5. Resident(f)' \ {i} = R
  BY DEF Resident
<1>6. /\ Uses(i, f) = IF i \in Users(f) THEN 1 ELSE 0
      /\ Holds(i, f) = IF i \in Resident(f) THEN 1 ELSE 0
  BY DEF Uses, Holds, Users, Resident
<1>7. /\ Uses(i, f)' = IF i \in Users(f)' THEN 1 ELSE 0
      /\ Holds(i, f)' = IF i \in Resident(f)' THEN 1 ELSE 0
  BY DEF Uses, Holds, Users, Resident
<1>8. Cardinality(Users(f)) = Cardinality(U) + Uses(i, f)
  BY <1>2, <1>3, <1>6, FS_RemoveElement, FS_CardinalityType
<1>9. Cardinality(Resident(f)) = Cardinality(R) + Holds(i, f)
  BY <1>2, <1>3, <1>6, FS_RemoveElement, FS_CardinalityType
<1> HIDE DEF U, R
<1>10. Cardinality(Users(f)') = Cardinality(U) + Uses(i, f)'
  <2>1. CASE i \in Users(f)'
    <3>1. Users(f)' = U \cup {i} /\ i \notin U
      BY <1>4, <2>1 DEF U
    <3> QED BY <1>3, <1>7, <2>1, <3>1, FS_AddElement
  <2>2. CASE i \notin Users(f)'
    <3>1. Users(f)' = U
      BY <1>4, <2>2 DEF U
    <3> QED BY <1>3, <1>7, <2>2, <3>1
  <2> QED BY <2>1, <2>2
<1>11. Cardinality(Resident(f)') = Cardinality(R) + Holds(i, f)'
  <2>1. CASE i \in Resident(f)'
    <3>1. Resident(f)' = R \cup {i} /\ i \notin R
      BY <1>5, <2>1 DEF R
    <3> QED BY <1>3, <1>7, <2>1, <3>1, FS_AddElement
  <2>2. CASE i \notin Resident(f)'
    <3>1. Resident(f)' = R
      BY <1>5, <2>2 DEF R
    <3> QED BY <1>3, <1>7, <2>2, <3>1
  <2> QED BY <2>1, <2>2
<1>12. /\ Uses(i, f) \in {0, 1} /\ Holds(i, f) \in {0, 1}
       /\ Uses(i, f)' \in {0, 1} /\ Holds(i, f)' \in {0, 1}
  BY DEF Uses, Holds
<1>13. /\ text'[f].count + Uses(i, f) = text[f].count + Uses(i, f)'
       /\ text'[f].ccount + Holds(i, f) = text[f].ccount + Holds(i, f)'
  OBVIOUS
<1>14. text'[f].count = Cardinality(Users(f)')
  BY <1>1, <1>3, <1>8, <1>10, <1>12, <1>13
<1>15. text'[f].ccount = Cardinality(Resident(f)')
  BY <1>1, <1>3, <1>9, <1>11, <1>12, <1>13
<1> QED BY <1>14, <1>15

\* The text of a process in the swap area, if it is there as well, is not one that a process
\* in memory has.
LEMMA OutApart ==
    ASSUME Sound, NEW i \in Slots, Image(i), InMemory(i), NEW j \in Slots, TextOut(j)
    PROVE  proc[j].text # proc[i].text
<1>1. proc[i].text # NoFile => text[proc[i].text].ccount > 0
  BY TextOf
<1> QED BY <1>1 DEF TextOut

LEMMA NotGoing ==
    ASSUME Control, NEW i \in Slots, proc[i].load \/ proc[i].stat = "SNULL"
    PROVE  in.sel # i
<1>1. SchedOK
  BY DEF Control
<1>2. CASE pc[Sched] = "loop"
  BY <1>1, <1>2, SlotFacts DEF SchedOK, NoIn, Sched
<1>3. CASE pc[Sched] # "loop"
  BY <1>1, <1>3 DEF SchedOK
<1> QED BY <1>2, <1>3

-----------------------------------------------------------------------------
\* Expand

\* An image moves to another place of memory.
LEMMA ImageMoves ==
    ASSUME NEW map, NEW a, NEW a2, NEW t, NEW g, NEW n \in Nat, Divided(map, Use(a, t, g), n),
           NEW i \in Slots, NEW size \in Nat, size > 0, AllocAddr(map, size) # 0,
           NEW old \in Nat, NEW addr \in Nat,
           a[i] = Area(addr, old),
           \A j \in Slots : j # i => a2[j] = a[j],
           a2[i] = Area(AllocAddr(map, size), size)
    PROVE  Divided(FreeMap(AllocMap(map, size), old, addr), Use(a2, t, g), n)
<1> DEFINE new == Area(AllocAddr(map, size), size)
           mid == [j \in Slots |-> IF j = i THEN a[i] \cup new ELSE a[j]]
<1>1. (\A j \in Slots : j # i => mid[j] = a[j]) /\ mid[i] = a[i] \cup new
  OBVIOUS
<1> HIDE DEF mid
<1>2. Divided(AllocMap(map, size), Use(mid, t, g), n)
  BY <1>1, ImageTakes
<1>3. new \cap a[i] = {}
  <2>1. WellFormed(map) /\ Fits(map, size) # {} /\ size \in Nat \ {0}
    BY DEF Divided, AllocAddr
  <2>2. new \subseteq Cells(map)
    BY <2>1, AllocKeeps
  <2>3. Img(i) \in DOMAIN Use(a, t, g) /\ Use(a, t, g)[Img(i)] = a[i]
    BY UseFacts
  <2> HIDE DEF new
  <2> QED BY <2>2, <2>3 DEF Divided
<1>4. /\ Area(addr, old) \subseteq mid[i]
      /\ \A j \in Slots : j # i => a2[j] = mid[j]
      /\ a2[i] = mid[i] \ Area(addr, old)
  BY <1>1, <1>3
<1> QED BY <1>2, <1>4, ImageGives

LEMMA ExpandStep ==
    ASSUME Sound, NEW i \in Slots, Expand(i)
    PROVE  Sound'
<1> DEFINE n == Pages(proc[i].size)
           addr == AllocAddr(mem, n)
           next == IF then[i] = "user" THEN "user" ELSE "text"
<1>1. /\ At(i, "expand") /\ AllocAddr(mem, n) # 0
      /\ proc' = [proc EXCEPT ![i].addr = AllocAddr(mem, n)]
      /\ mem' = FreeMap(AllocMap(mem, n), Pages(loc[i].old), proc[i].addr)
      /\ loc' = [loc EXCEPT ![i].old = 0]
      /\ IF then[i] = "user" THEN SleepAt(i, "user") ELSE GoOn(i, then[i])
      /\ UNCHANGED <<swap, text, swbuf, runIn, runOut, chan, then, in, lost, wild>>
  BY DEF Expand, flags
<1>2. /\ TypeOK /\ PlaceOK(i) /\ Control /\ BufferOK /\ Counts /\ i \in All /\ i # Sched
      /\ pc[i] = "expand" /\ chan[i] = Awake /\ proc[i].stat = "SRUN" /\ proc[i].load
      /\ (\A j \in All : pc[j] # "nod") /\ pc \in [All -> Labels]
      /\ loc \in [All -> Locals] /\ proc \in [All -> ProcEntries]
      /\ loc[i] \in Locals /\ proc[i] \in ProcEntries
  BY <1>1, Going, Types
<1>3. /\ then[i] \in {"user", "text"} /\ loc[i].old > 0 /\ loc[i].blk = 0
      /\ then[i] = "user" => loc[i].file = NoFile
      /\ loc[i].parent = 0 /\ proc[i].size >= Page
      /\ then[i] = "text" => loc[i].file = proc[i].text /\ proc[i].text # NoFile
  BY <1>2 DEF PlaceOK
<1>4. pc' = [pc EXCEPT ![i] = next] /\ cpu' \in {i, NoProc}
  BY <1>1, <1>3 DEF SleepAt, GoOn, Put
<1>5. /\ proc[i].size \in Nat /\ proc[i].addr \in Nat /\ loc[i].old \in Nat /\ n \in Nat /\ n > 0
      /\ Pages(loc[i].old) \in Nat /\ addr \in Nat
  <2>1. proc[i].size \in Nat /\ proc[i].addr \in Nat /\ loc[i].old \in Nat /\ proc[i].size > 0
    BY <1>2, <1>3, PageFacts DEF ProcEntries, Locals
  <2>2. n \in Nat \ {0} /\ Pages(loc[i].old) \in Nat
    BY <2>1, PagesSums
  <2>3. addr \in Nat
    BY <2>2, AllocFacts DEF Sound, Divided
  <2> QED BY <2>1, <2>2, <2>3
<1> HIDE DEF n, addr
<1>6. /\ pc'[i] = next /\ loc'[i] = [loc[i] EXCEPT !.old = 0]
      /\ proc'[i] = [proc[i] EXCEPT !.addr = addr]
      /\ \A j \in All : j # i => /\ pc'[j] = pc[j] /\ loc'[j] = loc[j] /\ proc'[j] = proc[j]
  BY <1>1, <1>2, <1>4 DEF addr
<1>7. /\ proc'[i].load /\ then'[i] = then[i] /\ loc'[i].blk = 0 /\ loc'[i].old = 0
      /\ loc'[i].file = loc[i].file /\ loc'[i].parent = 0
      /\ proc'[i].addr = addr /\ proc'[i].text = proc[i].text /\ proc'[i].size = proc[i].size
      /\ proc'[i].stat = proc[i].stat
  BY <1>1, <1>2, <1>3, <1>6 DEF ProcEntries, Locals
<1>8. TypeOK'
  <2>1. proc' \in [All -> ProcEntries]
    BY <1>1, <1>2, <1>5 DEF ProcEntries, addr
  <2>2. loc' \in [All -> Locals] /\ pc' \in [All -> Labels]
    BY <1>1, <1>2, <1>3, <1>4 DEF Locals, Labels
  <2> QED BY <1>1, <1>2, <1>4, <2>1, <2>2 DEF TypeOK
<1>9. PlaceOK(i)'
  <2>1. loc'[i] \in Locals
    BY <1>2, <1>6 DEF Locals
  <2>2. CASE then[i] = "user"
    <3>1. loc'[i] = NoLoc
      BY <1>3, <1>7, <2>1, <2>2 DEF Locals, NoLoc
    <3> QED BY <1>1, <1>2, <1>3, <1>6, <1>7, <2>2, <3>1
            DEF PlaceOK, Moving, Awake, Event, SwBuf
  <2>3. CASE then[i] = "text"
    BY <1>1, <1>2, <1>3, <1>6, <1>7, <2>3 DEF PlaceOK, Moving, Awake, Event, SwBuf
  <2> QED BY <1>3, <2>2, <2>3
<1>10. \A j \in All : j # i => Idle(j)
  BY <1>1, <1>6 DEF Idle
<1>11. TextsStayOut
  BY <1>1 DEF TextsStayOut, TextOut
<1>12. /\ Control' /\ Reasons' /\ ~wild' /\ GoingIn' = GoingIn
       /\ \A j \in Slots : j # i => /\ ImageIn(j)' = ImageIn(j) /\ ImageOut(j)' = ImageOut(j)
                                    /\ (Image(j)' <=> Image(j))
                                    /\ proc'[j].text = proc[j].text
                                    /\ (InMemory(j)' <=> InMemory(j))
  <2>1. pc[i] \notin {"io", "nod"} /\ pc'[i] \notin {"io", "nod", "wait"} /\ pc'[i] \notin Moving
    BY <1>2, <1>6 DEF Moving
  <2> QED BY <1>1, <1>2, <1>7, <1>8, <1>9, <1>10, <1>11, <2>1, OneStep
<1>13. /\ ImageIn(i) = Area(proc[i].addr, Pages(loc[i].old)) /\ ImageOut(i) = {} /\ InMemory(i)
  BY <1>2, <1>3, HeldIs
<1>14. /\ ImageIn(i)' = Area(addr, n) /\ ImageOut(i)' = {}
       /\ (Image(i)' <=> Image(i)) /\ InMemory(i)'
  <2>1. InMemory(i)' /\ (Image(i)' <=> Image(i))
    BY <1>7 DEF InMemory, Image
  <2>2. ImageOut(i)' = {}
    BY <1>7 DEF ImageOut
  <2>3. ImageIn(i)' = Area(addr, n)
    BY <1>3, <1>7 DEF ImageIn, HeldPages, n
  <2> QED BY <2>1, <2>2, <2>3
<1>15. Counts'
  BY <1>1, <1>2, <1>7, <1>12, <1>13, <1>14, CountsStay
<1>16. SwapUse' = SwapUse
  BY <1>1, <1>12, <1>13, <1>14, PartsStay, SameUse
<1>17. Divided(mem, MemUse, NPages)'
  <2>1. Divided(mem, Use(Images, Texts, GoingIn), NPages)
    BY Parts DEF Sound
  <2>2. Images' = [j \in Slots |-> ImageIn(j)']
    BY DEF Images
  <2>3. /\ \A j \in Slots : j # i => Images'[j] = Images[j]
        /\ Images[i] = Area(proc[i].addr, Pages(loc[i].old))
        /\ Images'[i] = Area(AllocAddr(mem, n), n) /\ AllocAddr(mem, n) # 0
    BY <1>1, <1>12, <1>13, <1>14, <2>2, Parts DEF addr
  <2>4. Divided(FreeMap(AllocMap(mem, n), Pages(loc[i].old), proc[i].addr),
                Use(Images', Texts, GoingIn), NPages)
    BY <1>5, <2>1, <2>3, ImageMoves, Parts
  <2>5. MemUse' = Use(Images', Texts, GoingIn)
    BY <1>1, <1>12, PartsStay DEF MemUse
  <2> QED BY <1>1, <2>4, <2>5
<1> QED BY <1>1, <1>12, <1>15, <1>16, <1>17 DEF Sound

\* A process has itself swapped out, to grow.
LEMMA ExpandSwapStep ==
    ASSUME Sound, NEW i \in Slots, ExpandSwap(i)
    PROVE  Sound'
<1> DEFINE size == proc[i].size
           blk == AllocAddr(swap, size)
           f == proc[i].text
           next == IF then[i] = "user" THEN "expanded" ELSE "expanded by exec"
<1>1. PICK dec : dec = XccDec(f, text, mem)
  OBVIOUS
<1>2. /\ At(i, "expand") /\ AllocAddr(swap, size) # 0
      /\ loc' = [loc EXCEPT ![i].old = loc[i].old, ![i].blk = AllocAddr(swap, size)]
      /\ swap' = AllocMap(swap, size)
      /\ text' = dec.t /\ mem' = dec.m
      /\ pc' = [pc EXCEPT ![i] = "swap"] /\ cpu' = i
      /\ then' = [then EXCEPT ![i] = next]
      /\ UNCHANGED <<proc, swbuf, runIn, runOut, chan, in, lost, wild>>
  <2>1. /\ At(i, "expand") /\ XSwap(i, size, loc[i].old, text, mem, swap)
        /\ SwapThen(i, next)
        /\ UNCHANGED <<proc, flags, chan, in, lost, wild>>
    BY DEF ExpandSwap
  <2> HIDE DEF size, next, f
  <2>2. /\ AllocAddr(swap, size) # 0
        /\ loc' = [loc EXCEPT ![i].old = loc[i].old, ![i].blk = AllocAddr(swap, size)]
        /\ swap' = AllocMap(swap, size)
    BY <2>1 DEF XSwap
  <2>3. text' = dec.t /\ mem' = dec.m
    <3>1. dec = XccDec(proc[i].text, text, mem)
      BY <1>1 DEF f
    <3> QED BY <2>1, <3>1 DEF XSwap
  <2>4. pc' = [pc EXCEPT ![i] = "swap"] /\ cpu' = i /\ then' = [then EXCEPT ![i] = next]
    BY <2>1 DEF SwapThen, GoOn, Put
  <2>5. UNCHANGED <<proc, swbuf, runIn, runOut, chan, in, lost, wild>>
    BY <2>1 DEF flags
  <2> QED BY <2>1, <2>2, <2>3, <2>4, <2>5
<1>3. /\ TypeOK /\ PlaceOK(i) /\ Control /\ BufferOK /\ Counts /\ i \in All /\ i # Sched
      /\ pc[i] = "expand" /\ chan[i] = Awake /\ proc[i].stat = "SRUN" /\ proc[i].load
      /\ (\A j \in All : pc[j] # "nod") /\ pc \in [All -> Labels] /\ then \in [All -> Nexts]
      /\ loc \in [All -> Locals] /\ proc \in [All -> ProcEntries]
      /\ loc[i] \in Locals /\ proc[i] \in ProcEntries /\ text \in [Files -> TextEntries]
  <2> HIDE DEF size, blk, f, next
  <2>0. At(i, "expand")
    BY <1>2
  <2>1. /\ TypeOK /\ PlaceOK(i) /\ Control /\ BufferOK /\ Counts /\ i \in All /\ i # Sched
        /\ pc[i] = "expand" /\ chan[i] = Awake /\ proc[i].stat = "SRUN" /\ proc[i].load
        /\ loc[i] \in Locals /\ proc[i] \in ProcEntries
    BY <2>0, Going
  <2>2. \A j \in All : pc[j] # "nod"
    BY <2>0, Going
  <2> QED BY <2>1, <2>2, Types
<1>4. /\ then[i] \in {"user", "text"} /\ loc[i].old > 0 /\ loc[i].blk = 0
      /\ then[i] = "user" => loc[i].file = NoFile
      /\ loc[i].parent = 0 /\ proc[i].size >= Page
      /\ then[i] = "text" => loc[i].file = proc[i].text /\ proc[i].text # NoFile
  BY <1>3 DEF PlaceOK
<1>5. /\ size \in Nat /\ size > 0 /\ blk \in Nat /\ blk > 0 /\ f \in Files \cup {NoFile}
  <2>1. size \in Nat /\ size > 0 /\ f \in Files \cup {NoFile}
    BY <1>3, <1>4, PageFacts DEF ProcEntries
  <2>2. WellFormed(swap)
    BY DEF Sound, Divided
  <2> HIDE DEF size
  <2>3. AllocAddr(swap, size) \in Nat
    BY <2>1, <2>2, AllocFacts
  <2>4. AllocAddr(swap, size) # 0
    BY <1>2
  <2> QED BY <2>1, <2>3, <2>4
<1>6. ImageIn(i) = Area(proc[i].addr, Pages(loc[i].old)) /\ ImageOut(i) = {} /\ InMemory(i)
      /\ Image(i)
  BY <1>3, <1>4, HeldIs DEF Image
<1>7. f # NoFile => text[f].ccount > 0 /\ text[f].ccount \in Nat /\ f \in Files
  BY <1>3, <1>6, TextOf DEF TextEntries
<1>8. Divided(mem, Use(Images, TextsOf(text), GoingIn), NPages)
  BY Parts DEF Sound, Texts
<1>9. /\ dec.t \in [Files -> TextEntries]
      /\ f = NoFile => dec.t = text /\ dec.m = mem
      /\ \A e \in Files : e # f => dec.t[e] = text[e]
      /\ f # NoFile => dec.t[f] = [text[f] EXCEPT !.ccount = text[f].ccount - 1]
      /\ Divided(dec.m, Use(Images, TextsOf(dec.t), GoingIn), NPages)
  BY <1>1, <1>3, <1>5, <1>7, <1>8, XccDecDoes
<1> HIDE DEF size, blk, f
<1>10. /\ pc'[i] = "swap" /\ then'[i] = next
       /\ loc'[i] = [loc[i] EXCEPT !.old = loc[i].old, !.blk = blk]
       /\ \A j \in All : j # i => /\ pc'[j] = pc[j] /\ loc'[j] = loc[j] /\ then'[j] = then[j]
  BY <1>2, <1>3 DEF blk
<1>11. /\ loc'[i].old = loc[i].old /\ loc'[i].blk = blk /\ loc'[i].file = loc[i].file
       /\ loc'[i].parent = 0 /\ loc'[i] \in Locals
  BY <1>3, <1>4, <1>5, <1>10 DEF Locals
<1>12. TypeOK'
  <2>1. loc' \in [All -> Locals] /\ pc' \in [All -> Labels] /\ then' \in [All -> Nexts]
    BY <1>2, <1>3, <1>5 DEF Locals, Labels, Nexts, blk
  <2> QED BY <1>2, <1>3, <1>9, <2>1 DEF TypeOK
<1>13. PlaceOK(i)'
  <2>1. Moves(i)'
    BY <1>2, <1>4, <1>5, <1>10, <1>11 DEF Moves
  <2> QED BY <1>2, <1>3, <1>10, <2>1 DEF PlaceOK, Moving, Awake, Event, SwBuf
<1>14. \A j \in All : j # i => Idle(j)
  BY <1>2, <1>10 DEF Idle
<1>15. TextsStayOut
  <2> SUFFICES ASSUME NEW j \in Slots, TextOut(j)  PROVE text'[proc[j].text].ccount = 0
    BY DEF TextsStayOut
  <2>1. proc[j].text # f /\ text[proc[j].text].ccount = 0 /\ proc[j].text \in Files
    BY <1>3, <1>6, OutApart, SlotFacts, Types DEF f, TextOut
  <2> QED BY <1>2, <1>9, <2>1
<1>16. /\ Control' /\ Reasons' /\ ~wild' /\ GoingIn' = GoingIn
       /\ \A j \in Slots : j # i => /\ ImageIn(j)' = ImageIn(j) /\ ImageOut(j)' = ImageOut(j)
                                    /\ (Image(j)' <=> Image(j))
                                    /\ proc'[j].text = proc[j].text
                                    /\ (InMemory(j)' <=> InMemory(j))
  <2>1. pc[i] \notin {"io", "nod"} /\ pc'[i] \notin {"io", "nod", "wait"}
        /\ then'[i] # "forked"
    BY <1>3, <1>10
  <2> QED BY <1>2, <1>3, <1>12, <1>13, <1>14, <1>15, <2>1, OneStep
<1>17. /\ ImageIn(i)' = ImageIn(i) /\ ImageOut(i)' = Area(blk, size)
       /\ (Image(i)' <=> Image(i)) /\ ~InMemory(i)'
  <2>1. (Image(i)' <=> Image(i)) /\ ImageOut(i)' = Area(blk, size)
    BY <1>2, <1>3, <1>5, <1>11 DEF ImageOut, Image, size
  <2>2. in.sel # i
    BY <1>3, NotGoing
  <2>4. ~InMemory(i)'
    <3>1. loc'[i].blk # 0
      BY <1>5, <1>11
    <3>2. in' = in
      BY <1>2
    <3> QED BY <2>2, <3>1, <3>2 DEF InMemory
  <2>3. ImageIn(i)' = Area(proc[i].addr, Pages(loc[i].old))
    BY <1>2, <1>3, <1>4, <1>10, <1>11 DEF ImageIn, HeldPages
  <2> QED BY <1>6, <2>1, <2>3, <2>4
<1>18. Counts'
  <2>1. ASSUME NEW e \in Files
        PROVE  /\ text'[e].count + Uses(i, e) = text[e].count + Uses(i, e)'
               /\ text'[e].ccount + Holds(i, e) = text[e].ccount + Holds(i, e)'
    <3>1. /\ Uses(i, e)' = Uses(i, e) /\ Holds(i, e)' = 0
          /\ Holds(i, e) = IF e = f THEN 1 ELSE 0
      BY <1>2, <1>6, <1>17 DEF Uses, Holds, f
    <3>2. text[e].ccount \in Nat /\ text[e].count \in Nat /\ Uses(i, e) \in {0, 1}
      BY <1>3 DEF TextEntries, Uses
    <3>3. CASE e # f
      BY <1>2, <1>9, <3>1, <3>2, <3>3
    <3>4. CASE e = f
      <4>1. text'[e].count = text[e].count /\ text'[e].ccount = text[e].ccount - 1
        <5>1. f # NoFile /\ text[f] \in TextEntries
          BY <1>3, <3>4, SlotFacts
        <5>2. dec.t[f] = [text[f] EXCEPT !.ccount = text[f].ccount - 1]
          BY <1>9, <5>1
        <5>3. dec.t[f].count = text[f].count /\ dec.t[f].ccount = text[f].ccount - 1
          BY <5>1, <5>2 DEF TextEntries
        <5> QED BY <1>2, <3>4, <5>3
      <4> QED BY <3>1, <3>2, <3>4, <4>1
    <3> QED BY <3>3, <3>4
  <2>2. text' \in [Files -> TextEntries]
    BY <1>2, <1>9
  <2> QED BY <1>3, <1>16, <2>1, <2>2, CountsFollow
<1>19. Divided(mem, MemUse, NPages)'
  <2>1. Images' = Images
    BY <1>16, <1>17, PartsStay
  <2>2. Texts' = TextsOf(dec.t)
    BY <1>2 DEF Texts
  <2>3. MemUse' = Use(Images, TextsOf(dec.t), GoingIn)
    BY <1>16, <2>1, <2>2 DEF MemUse
  <2> QED BY <1>2, <1>9, <2>3
<1>20. Divided(swap, SwapUse, NBlocks)'
  <2>1. Divided(swap, Use(Outs, Copies, {}), NBlocks)
    BY Parts DEF Sound
  <2>2. Outs' = [j \in Slots |-> ImageOut(j)']
    BY DEF Outs
  <2>3. /\ \A j \in Slots : j # i => Outs'[j] = Outs[j]
        /\ Outs'[i] = Outs[i] \cup Area(AllocAddr(swap, size), size)
    BY <1>6, <1>16, <1>17, <2>2, Parts DEF blk
  <2>4. Divided(AllocMap(swap, size), Use(Outs', Copies, {}), NBlocks)
    BY <1>2, <1>5, <2>1, <2>3, ImageTakes, Parts
  <2>5. Copies' = Copies
    <3>1. \A e \in Files : dec.t[e].count = text[e].count /\ dec.t[e].daddr = text[e].daddr
      <4> TAKE e \in Files
      <4>1. CASE e # f
        BY <1>9, <4>1
      <4>2. CASE e = f
        <5>1. text[e] \in TextEntries /\ f # NoFile
          BY <1>3, <4>2, SlotFacts
        <5> QED BY <1>9, <4>2, <5>1 DEF TextEntries
      <4> QED BY <4>1, <4>2
    <3> QED BY <1>2, <3>1 DEF Copies, CopiesOf
  <2>6. SwapUse' = Use(Outs', Copies, {})
    BY <2>5 DEF SwapUse
  <2> QED BY <1>2, <2>4, <2>6
<1> QED BY <1>2, <1>16, <1>18, <1>19, <1>20 DEF Sound

\* Who gives SwBuf back, and tells Sched of it, leaves nobody asleep without a reason.
LEMMA TellFacts ==
    ASSUME chan \in [All -> Channels], Tell
    PROVE  /\ \A j \in All : chan'[j] \in {chan[j], Awake}
           /\ swbuf.wanted => \A j \in All : chan'[j] # SwBuf
           /\ chan' \in [All -> Channels]
           /\ runOut' = FALSE /\ (runOut => \A j \in All : chan'[j] # RunOut)
<1> DEFINE woken == SwapWoken \cup (IF runOut THEN {RunOut} ELSE {})
<1>1. Wake(woken) /\ runOut' = FALSE
  BY DEF Tell
<1>2. (swbuf.wanted => SwBuf \in woken) /\ (runOut => RunOut \in woken)
  BY DEF SwapWoken
<1> HIDE DEF woken
<1>3. /\ \A j \in All : /\ chan'[j] \in {chan[j], Awake}
                        /\ chan[j] \notin woken => chan'[j] = chan[j]
                        /\ chan'[j] \in woken => chan'[j] = Awake
      /\ chan' \in [All -> Channels]
  BY <1>1, WakeFacts
<1>4. (swbuf.wanted => \A j \in All : chan'[j] # SwBuf)
      /\ (runOut => \A j \in All : chan'[j] # RunOut)
  BY <1>2, <1>3 DEF Awake, SwBuf, RunOut
<1> QED BY <1>1, <1>3, <1>4

LEMMA LetGo ==
    ASSUME Sound, NEW i \in Slots, At(i, "io"), Tell, swbuf' = [busy |-> FALSE, wanted |-> FALSE],
           pc'[i] \notin {"io", "wait", "nod"},
           \A j \in All : j # i => pc'[j] = pc[j] \/ pc'[j] \notin {"io", "wait", "nod"},
           UNCHANGED <<runIn, lost>>
    PROVE  BufferOK' /\ Reasons'
<1>1. /\ BufferOK /\ Reasons /\ i \in All /\ pc[i] = "io" /\ chan[i] = Awake
      /\ \A j \in All : pc[j] # "nod"
  BY Going
<1>2. /\ \A j \in All : chan'[j] \in {chan[j], Awake}
      /\ swbuf.wanted => \A j \in All : chan'[j] # SwBuf
      /\ runOut => \A j \in All : chan'[j] # RunOut
  <2>1. chan \in [All -> Channels]
    BY Types DEF Sound, Control
  <2> QED BY <2>1, TellFacts
<1>3. \A j \in All : pc'[j] # "nod"
  BY <1>1
<1>4. BufferOK'
  BY <1>1, <1>3, BufferFreed
<1>5. chan'[Sched] # RunOut
  BY <1>1, <1>2, SlotFacts DEF Reasons, Awake, RunOut
<1>6. \A j \in All : pc'[j] = "wait" => pc[j] = "wait" \/ chan'[j] # SwBuf
  BY <1>1
<1>7. Reasons'
  BY <1>1, <1>2, <1>5, <1>6, BufferPassed
<1> QED BY <1>4, <1>7

LEMMA NoArea == \A a \in Int : Area(a, 0) = {}
BY DEF Area

\* The image is written: memory gets back what it had there.
LEMMA ExpandedStep ==
    ASSUME Sound, NEW i \in Slots, Expanded(i)
    PROVE  Sound'
<1> DEFINE label == IF then[i] = "expanded" THEN "user" ELSE "text"
           old   == Pages(loc[i].old)
           addr  == proc[i].addr
<1>1. /\ At(i, "io") /\ then[i] \in {"expanded", "expanded by exec"}
      /\ swbuf' = [busy |-> FALSE, wanted |-> FALSE]
      /\ mem' = FreeMap(mem, old, addr) /\ Tell
      /\ pc' = [pc EXCEPT ![i] = label] /\ cpu' = NoProc
      /\ then' = [then EXCEPT ![i] = "user"]
      /\ UNCHANGED <<swap, text, runIn, in, lost, wild>>
  BY DEF Expanded, SwapEnds, SleepAt, Put
<1>2. /\ proc' = [proc EXCEPT ![i].addr = loc[i].blk, ![i].load = FALSE]
      /\ loc' = [loc EXCEPT ![i].old = 0, ![i].blk = 0]
  BY DEF Expanded
<1>3. /\ TypeOK /\ PlaceOK(i) /\ Control /\ BufferOK /\ Counts /\ i \in All /\ i # Sched
      /\ pc[i] = "io" /\ chan[i] = Awake /\ proc[i].stat = "SRUN" /\ proc[i].load
      /\ pc \in [All -> Labels] /\ then \in [All -> Nexts] /\ chan \in [All -> Channels]
      /\ loc \in [All -> Locals] /\ proc \in [All -> ProcEntries]
      /\ loc[i] \in Locals /\ proc[i] \in ProcEntries
  BY <1>1, Going, Types
<1>4. /\ loc[i].old > 0 /\ loc[i].blk > 0 /\ loc[i].parent = 0 /\ proc[i].size >= Page
      /\ then[i] = "expanded" => loc[i].file = NoFile
      /\ then[i] = "expanded by exec" => loc[i].file = proc[i].text /\ proc[i].text # NoFile
  BY <1>1, <1>3 DEF PlaceOK, Moves, Moving
<1>5. /\ loc[i].old \in Nat /\ loc[i].blk \in Nat /\ old \in Nat /\ addr \in Nat
  <2>1. loc[i].old \in Nat /\ loc[i].blk \in Nat /\ addr \in Nat
    BY <1>3 DEF Locals, ProcEntries
  <2> QED BY <2>1, PagesSums
<1> HIDE DEF old, addr
<1>6. /\ pc'[i] = label /\ then'[i] = "user"
      /\ \A j \in All : j # i => /\ pc'[j] = pc[j] /\ then'[j] = then[j]
  BY <1>1, <1>3
<1>7. /\ proc'[i] = [proc[i] EXCEPT !.addr = loc[i].blk, !.load = FALSE]
      /\ loc'[i] = [loc[i] EXCEPT !.old = 0, !.blk = 0]
      /\ \A j \in All : j # i => loc'[j] = loc[j] /\ proc'[j] = proc[j]
  BY <1>2, <1>3
<1>8. /\ ~proc'[i].load /\ proc'[i].addr = loc[i].blk /\ proc'[i].size = proc[i].size
      /\ proc'[i].text = proc[i].text /\ proc'[i].stat = "SRUN"
      /\ loc'[i].old = 0 /\ loc'[i].blk = 0 /\ loc'[i].file = loc[i].file /\ loc'[i].parent = 0
      /\ loc'[i] \in Locals
  <2>1. /\ ~proc'[i].load /\ proc'[i].addr = loc[i].blk /\ proc'[i].size = proc[i].size
        /\ proc'[i].text = proc[i].text /\ proc'[i].stat = proc[i].stat
    BY <1>3, <1>7 DEF ProcEntries
  <2>2. /\ loc'[i].old = 0 /\ loc'[i].blk = 0 /\ loc'[i].file = loc[i].file
        /\ loc'[i].parent = loc[i].parent /\ loc'[i] \in Locals
    <3>1. loc'[i] = [loc[i] EXCEPT !.old = 0, !.blk = 0] /\ loc[i] \in Locals
      BY <1>3, <1>7
    <3>2. loc'[i].old = 0 /\ loc'[i].blk = 0
      BY <3>1 DEF Locals
    <3>3. loc'[i].file = loc[i].file /\ loc'[i].parent = loc[i].parent
      BY <3>1 DEF Locals
    <3>4. loc' \in [All -> Locals]
      BY <1>2, <1>3 DEF Locals
    <3> QED BY <1>3, <3>2, <3>3, <3>4
  <2> QED BY <1>3, <1>4, <2>1, <2>2
<1>9. /\ \A j \in All : chan'[j] \in {chan[j], Awake}
      /\ chan' \in [All -> Channels] /\ runOut' = FALSE
  BY <1>1, <1>3, TellFacts
<1>10. TypeOK'
  <2>1. proc' \in [All -> ProcEntries]
    BY <1>2, <1>3, <1>5 DEF ProcEntries
  <2>2. loc' \in [All -> Locals]
    BY <1>2, <1>3 DEF Locals
  <2>3. pc' \in [All -> Labels] /\ then' \in [All -> Nexts]
    BY <1>1, <1>3 DEF Labels, Nexts
  <2> QED BY <1>1, <1>3, <1>9, <2>1, <2>2, <2>3 DEF TypeOK
<1>11. PlaceOK(i)'
  <2>1. chan'[i] = Awake
    BY <1>3, <1>9
  <2>2. CASE then[i] = "expanded"
    <3>1. loc'[i] = NoLoc
      BY <1>4, <1>8, <2>2 DEF Locals, NoLoc
    <3> QED BY <1>4, <1>6, <1>8, <2>1, <2>2, <3>1 DEF PlaceOK, Moving, Awake, Event, SwBuf
  <2>3. CASE then[i] = "expanded by exec"
    BY <1>4, <1>6, <1>8, <2>1, <2>3 DEF PlaceOK, Moving, Awake, Event, SwBuf
  <2> QED BY <1>1, <2>2, <2>3
<1>12. \A j \in All : j # i => Idle(j)
  BY <1>6, <1>7, <1>9 DEF Idle
<1>13. ParentsWait /\ TextsStayOut /\ \A j \in Slots : OutOfMemory(j) => proc'[j] = proc[j]
  <2>1. ParentsWait
    BY <1>3, <1>7, SlotFacts DEF ParentsWait
  <2>2. TextsStayOut
    BY <1>1 DEF TextsStayOut, TextOut
  <2>3. \A j \in Slots : OutOfMemory(j) => proc'[j] = proc[j]
    BY <1>3, <1>7, SlotFacts DEF OutOfMemory
  <2> QED BY <2>1, <2>2, <2>3
<1>14. Idle(Sched) /\ \A j \in Slots : Idle(j) \/ PlaceOK(j)'
  BY <1>3, <1>11, <1>12, SlotFacts
<1>15. PlacesOK' /\ SchedOK' /\ Births'
  <2>1. \A j \in Slots : pc'[j] \in Moving /\ then'[j] = "forked" =>
               pc[j] \in Moving /\ then[j] = "forked" /\ loc'[j].parent = loc[j].parent
    BY <1>6, <1>7, SlotFacts
  <2> QED BY <1>1, <1>3, <1>13, <1>14, <2>1, StepControl
<1>16. BufferOK' /\ Reasons'
  <2>1. \A j \in All : j # i => pc'[j] = pc[j] \/ pc'[j] \notin {"io", "wait", "nod"}
    BY <1>6
  <2>2. pc'[i] \notin {"io", "wait", "nod"}
    BY <1>6
  <2> QED BY <1>1, <2>1, <2>2, LetGo
<1>17. /\ GoingIn' = GoingIn
       /\ \A j \in Slots : j # i => /\ ImageIn(j)' = ImageIn(j) /\ ImageOut(j)' = ImageOut(j)
                                    /\ (Image(j)' <=> Image(j))
                                    /\ proc'[j].text = proc[j].text
                                    /\ (InMemory(j)' <=> InMemory(j))
  <2>1. /\ GoingIn' = GoingIn
        /\ \A j \in Slots : Idle(j) => (InMemory(j)' <=> InMemory(j))
    BY <1>1, <1>3, <1>13, <1>14, GoingStays
  <2> QED BY <1>7, <1>12, <2>1, IdleImages, SlotFacts
<1>18. /\ ImageIn(i) = Area(addr, old) /\ ImageIn(i)' = {}
       /\ ImageOut(i)' = ImageOut(i) /\ (Image(i)' <=> Image(i))
       /\ ~InMemory(i) /\ ~InMemory(i)'
  <2>1. ImageIn(i) = Area(addr, old)
    BY <1>1, <1>3, <1>4 DEF ImageIn, HeldPages, old, addr
  <2>2. ImageIn(i)' = {}
    BY <1>5, <1>8, NoArea DEF ImageIn, HeldPages
  <2>3. Image(i)' /\ Image(i)
    BY <1>3, <1>8 DEF Image
  <2>4. ImageOut(i) = Area(loc[i].blk, proc[i].size)
    BY <1>3, <1>4 DEF ImageOut
  <2>5. ImageOut(i)' = Area(loc[i].blk, proc[i].size)
    BY <1>8, <2>3 DEF ImageOut
  <2>6. in.sel # i /\ in' = in
    BY <1>1, <1>3, NotGoing
  <2>8. loc[i].blk # 0
    <3>1. loc[i].blk > 0 /\ loc[i].blk \in Nat
      BY <1>4, <1>5
    <3> QED BY <3>1
  <2>9. ~InMemory(i)
    BY <2>6, <2>8 DEF InMemory
  <2>7. ~InMemory(i)'
    BY <1>8, <2>6 DEF InMemory
  <2> QED BY <2>1, <2>2, <2>3, <2>4, <2>5, <2>7, <2>9
<1>19. Counts'
  BY <1>1, <1>3, <1>8, <1>17, <1>18, CountsStay
<1>20. SwapUse' = SwapUse
  BY <1>1, <1>17, <1>18, PartsStay, SameUse
<1>21. Divided(mem, MemUse, NPages)'
  <2>1. Divided(mem, Use(Images, Texts, GoingIn), NPages)
    BY Parts DEF Sound
  <2>2. Images' = [j \in Slots |-> ImageIn(j)']
    BY DEF Images
  <2>3. /\ \A j \in Slots : j # i => Images'[j] = Images[j]
        /\ Images'[i] = Images[i] \ Area(addr, old) /\ Area(addr, old) \subseteq Images[i]
    BY <1>17, <1>18, <2>2, Parts
  <2>4. Divided(FreeMap(mem, old, addr), Use(Images', Texts, GoingIn), NPages)
    BY <1>5, <2>1, <2>3, ImageGives, Parts
  <2>5. MemUse' = Use(Images', Texts, GoingIn)
    BY <1>1, <1>17, PartsStay DEF MemUse
  <2> QED BY <1>1, <2>4, <2>5
<1>22. Divided(swap, SwapUse, NBlocks)' /\ ~wild'
  BY <1>1, <1>20 DEF Sound
<1> QED BY <1>10, <1>15, <1>16, <1>19, <1>21, <1>22 DEF Sound, Control

-----------------------------------------------------------------------------
\* Fork

LEMMA ClonedDoes ==
    ASSUME text \in [Files -> TextEntries], NEW f \in Files \cup {NoFile},
           f # NoFile => text[f].ccount > 0 /\ text[f].ccount <= text[f].count,
           NEW t, t = ClonedText(f)
    PROVE  /\ t \in [Files -> TextEntries]
           /\ f = NoFile => t = text
           /\ \A e \in Files : e # f => t[e] = text[e]
           /\ f # NoFile => /\ t[f].count = text[f].count + 1 /\ t[f].ccount = text[f].ccount + 1
                            /\ t[f].caddr = text[f].caddr /\ t[f].daddr = text[f].daddr
           /\ TextsOf(t) = TextsOf(text) /\ CopiesOf(t) = CopiesOf(text)
<1>1. CASE f = NoFile
  <2>1. t = text
    BY <1>1 DEF ClonedText
  <2> QED BY <1>1, <2>1, SlotFacts
<1>2. CASE f # NoFile
  <2>1. f \in Files /\ text[f] \in TextEntries /\ text[f].ccount \in Nat /\ text[f].ccount > 0
        /\ text[f].count \in Nat /\ text[f].count > 0
    BY <1>2 DEF TextEntries
  <2>2. t = [text EXCEPT ![f].count = text[f].count + 1, ![f].ccount = text[f].ccount + 1]
    BY <1>2 DEF ClonedText
  <2>3. /\ t[f] = [text[f] EXCEPT !.count = text[f].count + 1, !.ccount = text[f].ccount + 1]
        /\ \A e \in Files : e # f => t[e] = text[e]
    BY <2>1, <2>2
  <2>4. /\ t[f].count = text[f].count + 1 /\ t[f].ccount = text[f].ccount + 1
        /\ t[f].caddr = text[f].caddr /\ t[f].daddr = text[f].daddr
    BY <2>1, <2>3 DEF TextEntries
  <2>5. t[f] \in TextEntries
    <3>1. \A r \in TextEntries, x, y \in Nat :
              [r EXCEPT !.count = x, !.ccount = y] \in TextEntries
      BY DEF TextEntries
    <3>2. text[f].count + 1 \in Nat /\ text[f].ccount + 1 \in Nat
      BY <2>1
    <3>3. PICK x, y \in Nat : x = text[f].count + 1 /\ y = text[f].ccount + 1
      BY <3>2
    <3>4. [text[f] EXCEPT !.count = x, !.ccount = y] \in TextEntries
      BY <2>1, <3>1
    <3>5. t[f] = [text[f] EXCEPT !.count = x, !.ccount = y]
      BY <2>3, <3>3
    <3> QED BY <3>4, <3>5
  <2>6. t \in [Files -> TextEntries]
    BY <2>1, <2>2, <2>3, <2>5
  <2>7. /\ t[f].count > 0 /\ t[f].ccount > 0 /\ text[f].count > 0 /\ text[f].ccount > 0
    BY <2>1, <2>4
  <2>8. \A e \in Files : TextsOf(t)[e] = TextsOf(text)[e] /\ CopiesOf(t)[e] = CopiesOf(text)[e]
    <3> TAKE e \in Files
    <3>1. CASE e # f
      BY <2>3, <3>1 DEF TextsOf, CopiesOf
    <3>2. CASE e = f
      BY <2>4, <2>7, <3>2 DEF TextsOf, CopiesOf
    <3> QED BY <3>1, <3>2
  <2>9. TextsOf(t) = TextsOf(text) /\ CopiesOf(t) = CopiesOf(text)
    BY <2>8 DEF TextsOf, CopiesOf
  <2> QED BY <1>2, <2>3, <2>4, <2>6, <2>9
<1> QED BY <1>1, <1>2

\* A slot that is free has nothing.
LEMMA FreeSlotFacts ==
    ASSUME Sound, NEW c \in Slots, proc[c].stat = "SNULL"
    PROVE  /\ pc[c] = "none" /\ ~proc[c].load /\ chan[c] = Awake /\ loc[c] = NoLoc
           /\ then[c] = "user" /\ ImageIn(c) = {} /\ ImageOut(c) = {} /\ ~Image(c)
           /\ loc[c].old = 0 /\ loc[c].blk = 0
<1>1. PlaceOK(c) /\ proc[c] \in ProcEntries /\ c \in All
  BY SlotFacts, Types DEF Sound, Control, PlacesOK
<1>2. pc[c] = "none" /\ ~proc[c].load /\ chan[c] = Awake /\ loc[c] = NoLoc /\ then[c] = "user"
  BY <1>1 DEF PlaceOK
<1>3. proc[c].addr \in Int /\ ~Image(c)
  BY <1>1 DEF ProcEntries, Image
<1>4. loc[c].old = 0 /\ loc[c].blk = 0
  BY <1>2 DEF NoLoc
<1>5. ImageIn(c) = {}
  BY <1>2, <1>3, NoArea DEF ImageIn, HeldPages
<1>6. ImageOut(c) = {}
  BY <1>3, <1>4 DEF ImageOut
<1> QED BY <1>2, <1>3, <1>4, <1>5, <1>6

\* The child has memory of its own.
LEMMA ForkStep ==
    ASSUME Sound, NEW i \in Slots, Fork(i)
    PROVE  Sound'
<1> DEFINE n == Pages(proc[i].size)
           f == proc[i].text
           addr == AllocAddr(mem, n)
<1>1. PICK c \in FreeSlots :
      /\ At(i, "user") /\ addr # 0
      /\ proc' = [proc EXCEPT ![c] = [proc[i] EXCEPT !.addr = addr]]
      /\ mem' = AllocMap(mem, n)
      /\ text' = ClonedText(f)
      /\ pc' = [pc EXCEPT ![c] = "user"]
      /\ UNCHANGED <<swap, swbuf, runIn, runOut, cpu, chan, then, loc, in, lost, wild>>
  BY DEF Fork, Child, Put, flags
<1>2. /\ TypeOK /\ PlaceOK(i) /\ Control /\ BufferOK /\ Counts /\ i \in All /\ i # Sched
      /\ pc[i] = "user" /\ chan[i] = Awake /\ proc[i].stat = "SRUN" /\ proc[i].load
      /\ (\A j \in All : pc[j] # "nod") /\ pc \in [All -> Labels]
      /\ proc \in [All -> ProcEntries] /\ text \in [Files -> TextEntries]
      /\ proc[i] \in ProcEntries
  BY <1>1, Going, Types
<1>3. c \in Slots /\ proc[c].stat = "SNULL" /\ c \in All /\ c # i /\ c # Sched
  BY <1>2, SlotFacts DEF FreeSlots
<1>4. /\ pc[c] = "none" /\ ~proc[c].load /\ chan[c] = Awake /\ loc[c] = NoLoc
      /\ then[c] = "user" /\ ImageIn(c) = {} /\ ImageOut(c) = {} /\ ~Image(c)
      /\ loc[c].old = 0 /\ loc[c].blk = 0
  BY <1>3, FreeSlotFacts
<1>5. Image(i) /\ InMemory(i) /\ proc[i].size >= Page
  <2>1. loc[i] = NoLoc /\ proc[i].size >= Page
    BY <1>2 DEF PlaceOK
  <2>2. loc[i].blk = 0
    BY <2>1 DEF NoLoc
  <2> QED BY <1>2, <2>1, <2>2 DEF Image, InMemory
<1>6. /\ f \in Files \cup {NoFile}
      /\ f # NoFile => text[f].ccount > 0 /\ text[f].ccount <= text[f].count
  BY <1>2, <1>5, TextOf DEF ProcEntries
<1>7. n \in Nat /\ n > 0 /\ addr \in Nat
  <2>1. proc[i].size \in Nat /\ proc[i].size > 0
    BY <1>2, <1>5, PageFacts DEF ProcEntries
  <2>2. n \in Nat \ {0}
    BY <2>1, PagesSums
  <2> HIDE DEF n
  <2>3. WellFormed(mem)
    BY DEF Sound, Divided
  <2>4. addr \in Nat
    BY <2>2, <2>3, AllocFacts
  <2> QED BY <2>2, <2>4
<1> HIDE DEF n, f, addr
<1>8. /\ text' \in [Files -> TextEntries]
      /\ f = NoFile => text' = text
      /\ \A e \in Files : e # f => text'[e] = text[e]
      /\ f # NoFile => /\ text'[f].count = text[f].count + 1 /\ text'[f].ccount = text[f].ccount + 1
      /\ TextsOf(text') = TextsOf(text) /\ CopiesOf(text') = CopiesOf(text)
  BY <1>1, <1>2, <1>6, ClonedDoes
<1>9. /\ pc'[c] = "user" /\ proc'[c] = [proc[i] EXCEPT !.addr = addr]
      /\ \A j \in All : j # c => pc'[j] = pc[j] /\ proc'[j] = proc[j]
  BY <1>1, <1>2, <1>3
<1>10. /\ proc'[c].stat = "SRUN" /\ proc'[c].load /\ proc'[c].addr = addr
       /\ proc'[c].size = proc[i].size /\ proc'[c].text = f /\ proc'[c] \in ProcEntries
  BY <1>2, <1>7, <1>9 DEF ProcEntries, f
<1>11. TypeOK'
  <2>1. proc' \in [All -> ProcEntries]
    BY <1>1, <1>2, <1>9, <1>10
  <2>2. pc' \in [All -> Labels]
    BY <1>1, <1>2 DEF Labels
  <2> QED BY <1>1, <1>2, <1>8, <2>1, <2>2 DEF TypeOK
<1>12. PlaceOK(c)'
  BY <1>1, <1>4, <1>5, <1>9, <1>10 DEF PlaceOK, Moving, Awake, Event, SwBuf
<1>13. \A j \in All : j # c => Idle(j)
  BY <1>1, <1>9 DEF Idle
<1>14. TextsStayOut
  <2> SUFFICES ASSUME NEW j \in Slots, TextOut(j)  PROVE text'[proc[j].text].ccount = 0
    BY DEF TextsStayOut
  <2>1. proc[j].text # f /\ text[proc[j].text].ccount = 0 /\ proc[j].text \in Files
    BY <1>2, <1>5, OutApart, SlotFacts, Types DEF f, TextOut
  <2> QED BY <1>8, <2>1
<1>15. /\ Control' /\ Reasons' /\ ~wild' /\ GoingIn' = GoingIn
       /\ \A j \in Slots : j # c => /\ ImageIn(j)' = ImageIn(j) /\ ImageOut(j)' = ImageOut(j)
                                    /\ (Image(j)' <=> Image(j))
                                    /\ proc'[j].text = proc[j].text
                                    /\ (InMemory(j)' <=> InMemory(j))
  <2>1. pc[c] \notin {"io", "nod"} /\ pc'[c] \notin {"io", "nod", "wait"} /\ pc'[c] \notin Moving
    BY <1>4, <1>9 DEF Moving
  <2> QED BY <1>1, <1>2, <1>3, <1>10, <1>11, <1>12, <1>13, <1>14, <2>1, OneStep
<1>16. /\ ImageIn(c)' = Area(addr, n) /\ ImageOut(c)' = {} /\ Image(c)' /\ InMemory(c)'
  <2>1. loc'[c].old = 0 /\ loc'[c].blk = 0 /\ then'[c] = "user"
    BY <1>1, <1>4
  <2>2. Image(c)' /\ InMemory(c)'
    BY <1>10, <2>1 DEF Image, InMemory
  <2>3. ImageOut(c)' = {}
    BY <1>10, <2>1 DEF ImageOut
  <2>4. ImageIn(c)' = Area(addr, n)
    BY <1>10, <2>1 DEF ImageIn, HeldPages, n
  <2> QED BY <2>2, <2>3, <2>4
<1>17. Counts'
  <2>1. ASSUME NEW e \in Files
        PROVE  /\ text'[e].count + Uses(c, e) = text[e].count + Uses(c, e)'
               /\ text'[e].ccount + Holds(c, e) = text[e].ccount + Holds(c, e)'
    <3>1. /\ Uses(c, e) = 0 /\ Holds(c, e) = 0
          /\ Uses(c, e)' = (IF e = f THEN 1 ELSE 0) /\ Holds(c, e)' = (IF e = f THEN 1 ELSE 0)
      BY <1>4, <1>10, <1>16 DEF Uses, Holds
    <3>2. text[e].ccount \in Nat /\ text[e].count \in Nat
      BY <1>2 DEF TextEntries
    <3>3. CASE e # f
      BY <1>8, <3>1, <3>2, <3>3
    <3>4. CASE e = f
      <4>1. f # NoFile
        BY <3>4, SlotFacts
      <4> QED BY <1>8, <3>1, <3>2, <3>4, <4>1
    <3> QED BY <3>3, <3>4
  <2> QED BY <1>2, <1>3, <1>8, <1>15, <2>1, CountsFollow
<1>18. SwapUse' = SwapUse
  <2>1. Outs' = Outs
    BY <1>4, <1>15, <1>16, PartsStay
  <2> QED BY <1>8, <2>1, SameUse DEF Copies
<1>19. Divided(mem, MemUse, NPages)'
  <2>1. Divided(mem, Use(Images, Texts, GoingIn), NPages)
    BY Parts DEF Sound
  <2>2. Images' = [j \in Slots |-> ImageIn(j)']
    BY DEF Images
  <2>3. /\ \A j \in Slots : j # c => Images'[j] = Images[j]
        /\ Images'[c] = Images[c] \cup Area(AllocAddr(mem, n), n) /\ AllocAddr(mem, n) # 0
    BY <1>1, <1>3, <1>4, <1>15, <1>16, <2>2, Parts DEF addr
  <2>4. Divided(AllocMap(mem, n), Use(Images', Texts, GoingIn), NPages)
    BY <1>3, <1>7, <2>1, <2>3, ImageTakes, Parts
  <2>5. MemUse' = Use(Images', Texts, GoingIn)
    BY <1>8, <1>15 DEF MemUse, Texts
  <2> QED BY <1>1, <2>4, <2>5
<1>20. Divided(swap, SwapUse, NBlocks)'
  BY <1>1, <1>18 DEF Sound
<1> QED BY <1>15, <1>17, <1>19, <1>20 DEF Sound

\* A child that is born in the swap area counts as a user of its text only.
LEMMA ClonedOut ==
    ASSUME text \in [Files -> TextEntries], NEW f \in Files \cup {NoFile},
           f # NoFile => text[f].ccount > 0 /\ text[f].ccount <= text[f].count,
           NEW dec, dec = XccDec(f, ClonedText(f), mem)
    PROVE  /\ dec.t \in [Files -> TextEntries] /\ dec.m = mem
           /\ f = NoFile => dec.t = text
           /\ \A e \in Files : e # f => dec.t[e] = text[e]
           /\ f # NoFile => dec.t[f].count = text[f].count + 1 /\ dec.t[f].ccount = text[f].ccount
           /\ TextsOf(dec.t) = TextsOf(text) /\ CopiesOf(dec.t) = CopiesOf(text)
<1>0. PICK t : t = ClonedText(f)
  OBVIOUS
<1>1. /\ t \in [Files -> TextEntries]
      /\ f = NoFile => t = text
      /\ \A e \in Files : e # f => t[e] = text[e]
      /\ f # NoFile => /\ t[f].count = text[f].count + 1 /\ t[f].ccount = text[f].ccount + 1
                       /\ t[f].caddr = text[f].caddr /\ t[f].daddr = text[f].daddr
      /\ TextsOf(t) = TextsOf(text) /\ CopiesOf(t) = CopiesOf(text)
  BY <1>0, ClonedDoes
<1>2. CASE f = NoFile
  <2>1. dec = [t |-> t, m |-> mem]
    BY <1>0, <1>2 DEF XccDec
  <2>2. dec.t = t /\ dec.m = mem
    BY <2>1
  <2> QED BY <1>1, <1>2, <2>2, SlotFacts
<1>3. CASE f # NoFile
  <2>1. f \in Files /\ text[f] \in TextEntries /\ text[f].ccount \in Nat /\ text[f].ccount > 0
        /\ text[f].count \in Nat /\ text[f].count > 0
    BY <1>3 DEF TextEntries
  <2>2. t[f] \in TextEntries /\ t[f].ccount > 1 /\ t[f].ccount - 1 = text[f].ccount
        /\ t[f].ccount # 0 /\ t[f].count = text[f].count + 1
        /\ t[f].caddr = text[f].caddr /\ t[f].daddr = text[f].daddr
    BY <1>1, <1>3, <2>1
  <2>3. dec = [t |-> [t EXCEPT ![f].ccount = t[f].ccount - 1], m |-> mem]
    BY <1>0, <1>3, <2>2 DEF XccDec
  <2>4. dec.t = [t EXCEPT ![f].ccount = text[f].ccount] /\ dec.m = mem
    <3>1. dec.t = [t EXCEPT ![f].ccount = t[f].ccount - 1] /\ dec.m = mem
      BY <2>3
    <3>2. t[f].ccount - 1 = text[f].ccount
      BY <2>2
    <3> QED BY <3>1, <3>2
  <2>5. /\ dec.t[f] = [t[f] EXCEPT !.ccount = text[f].ccount]
        /\ \A e \in Files : e # f => dec.t[e] = t[e]
    BY <1>1, <2>1, <2>4
  <2>6. /\ dec.t[f].count = text[f].count + 1 /\ dec.t[f].ccount = text[f].ccount
        /\ dec.t[f].caddr = text[f].caddr /\ dec.t[f].daddr = text[f].daddr
        /\ dec.t[f] \in TextEntries
    BY <2>1, <2>2, <2>5 DEF TextEntries
  <2>7. dec.t \in [Files -> TextEntries]
    BY <1>1, <2>1, <2>4, <2>5, <2>6
  <2>8. /\ dec.t[f].count > 0
    BY <2>1, <2>6
  <2>9. \A e \in Files : /\ TextsOf(dec.t)[e] = TextsOf(text)[e]
                         /\ CopiesOf(dec.t)[e] = CopiesOf(text)[e]
    <3> TAKE e \in Files
    <3>1. CASE e # f
      BY <1>1, <2>5, <3>1 DEF TextsOf, CopiesOf
    <3>2. CASE e = f
      BY <2>1, <2>6, <2>8, <3>2 DEF TextsOf, CopiesOf
    <3> QED BY <3>1, <3>2
  <2>10. TextsOf(dec.t) = TextsOf(text) /\ CopiesOf(dec.t) = CopiesOf(text)
    BY <2>9 DEF TextsOf, CopiesOf
  <2> QED BY <1>1, <1>3, <2>4, <2>5, <2>6, <2>7, <2>10
<1> QED BY <1>2, <1>3

\* There is no memory for the child: it is to be written to the swap area.
LEMMA ForkSwapStep ==
    ASSUME Sound, NEW i \in Slots, ForkSwap(i)
    PROVE  Sound'
<1> DEFINE n == proc[i].size
           f == proc[i].text
           blk == AllocAddr(swap, n)
<1>0. PICK dec : dec = XccDec(f, ClonedText(f), mem)
  OBVIOUS
<1>1. PICK c \in FreeSlots :
      /\ At(i, "user") /\ blk # 0
      /\ proc' = [proc EXCEPT ![c] = [proc[i] EXCEPT !.addr = proc[i].addr], ![i].stat = "SIDL"]
      /\ loc' = [loc EXCEPT ![c].old = n, ![c].blk = blk, ![c].parent = i]
      /\ swap' = AllocMap(swap, n)
      /\ text' = dec.t /\ mem' = dec.m
      /\ pc' = [pc EXCEPT ![c] = "swap"] /\ cpu' = c
      /\ then' = [then EXCEPT ![c] = "forked"]
      /\ UNCHANGED <<swbuf, runIn, runOut, chan, in, lost, wild>>
  BY <1>0 DEF ForkSwap, Child, SwapThen, GoOn, Put, flags
<1>2. /\ TypeOK /\ PlaceOK(i) /\ Control /\ BufferOK /\ Counts /\ i \in All /\ i # Sched
      /\ pc[i] = "user" /\ chan[i] = Awake /\ proc[i].stat = "SRUN" /\ proc[i].load
      /\ (\A j \in All : pc[j] # "nod") /\ pc \in [All -> Labels] /\ then \in [All -> Nexts]
      /\ proc \in [All -> ProcEntries] /\ text \in [Files -> TextEntries]
      /\ proc[i] \in ProcEntries /\ loc \in [All -> Locals] /\ Reasons
      /\ PlacesOK /\ SchedOK /\ Births
  BY <1>1, Going, Types DEF Control
<1>3. c \in Slots /\ proc[c].stat = "SNULL" /\ c \in All /\ c # i /\ c # Sched
  BY <1>2, SlotFacts DEF FreeSlots
<1>4. /\ pc[c] = "none" /\ ~proc[c].load /\ chan[c] = Awake /\ loc[c] = NoLoc
      /\ then[c] = "user" /\ ImageIn(c) = {} /\ ImageOut(c) = {} /\ ~Image(c)
      /\ loc[c].old = 0 /\ loc[c].blk = 0
  BY <1>3, FreeSlotFacts
<1>5. Image(i) /\ InMemory(i) /\ proc[i].size >= Page
  <2>1. loc[i] = NoLoc /\ proc[i].size >= Page
    BY <1>2 DEF PlaceOK
  <2>2. loc[i].blk = 0
    BY <2>1 DEF NoLoc
  <2> QED BY <1>2, <2>1, <2>2 DEF Image, InMemory
<1>6. /\ f \in Files \cup {NoFile}
      /\ f # NoFile => text[f].ccount > 0 /\ text[f].ccount <= text[f].count
  BY <1>2, <1>5, TextOf DEF ProcEntries
<1>7. n \in Nat /\ n > 0 /\ blk \in Nat /\ blk > 0
  <2>1. n \in Nat /\ n > 0
    BY <1>2, <1>5, PageFacts DEF ProcEntries
  <2> HIDE DEF n
  <2>3. WellFormed(swap)
    BY DEF Sound, Divided
  <2>4. blk \in Nat
    BY <2>1, <2>3, AllocFacts
  <2>5. blk # 0
    BY <1>1
  <2> HIDE DEF blk
  <2> QED BY <2>1, <2>4, <2>5
<1>8. /\ dec.t \in [Files -> TextEntries] /\ dec.m = mem
      /\ f = NoFile => dec.t = text
      /\ \A e \in Files : e # f => dec.t[e] = text[e]
      /\ f # NoFile => dec.t[f].count = text[f].count + 1 /\ dec.t[f].ccount = text[f].ccount
      /\ TextsOf(dec.t) = TextsOf(text) /\ CopiesOf(dec.t) = CopiesOf(text)
  BY <1>0, <1>2, <1>6, ClonedOut
<1> HIDE DEF n, f, blk
<1>9. /\ pc'[c] = "swap" /\ then'[c] = "forked"
      /\ \A j \in All : j # c => pc'[j] = pc[j] /\ then'[j] = then[j]
  BY <1>1, <1>2, <1>3
<1>10. /\ proc'[c] = [proc[i] EXCEPT !.addr = proc[i].addr]
       /\ proc'[i] = [proc[i] EXCEPT !.stat = "SIDL"]
       /\ \A j \in All : j # c /\ j # i => proc'[j] = proc[j]
  BY <1>1, <1>2, <1>3
<1>11. /\ loc'[c] = [loc[c] EXCEPT !.old = n, !.blk = blk, !.parent = i]
       /\ \A j \in All : j # c => loc'[j] = loc[j]
  BY <1>1, <1>2, <1>3
<1>12. /\ proc'[c] = proc[i]
       /\ proc'[i].stat = "SIDL" /\ proc'[i].load /\ proc'[i].addr = proc[i].addr
       /\ proc'[i].size = n /\ proc'[i].text = f /\ proc'[i] \in ProcEntries
  BY <1>2, <1>10 DEF ProcEntries, f, n
<1>13. /\ loc'[c].old = n /\ loc'[c].blk = blk /\ loc'[c].parent = i /\ loc'[c].file = NoFile
  BY <1>4, <1>11 DEF NoLoc
<1>14. loc'[c] \in Locals
  <2>1. \A r \in Locals, x, y \in Nat, p \in All :
            [r EXCEPT !.old = x, !.blk = y, !.parent = p] \in Locals
    BY DEF Locals
  <2>2. loc[c] \in Locals /\ n \in Nat /\ blk \in Nat /\ i \in All
    BY <1>2, <1>3, <1>7
  <2>3. [loc[c] EXCEPT !.old = n, !.blk = blk, !.parent = i] \in Locals
    BY <2>1, <2>2
  <2> QED BY <1>11, <2>3
<1>15. TypeOK'
  <2>1. proc' \in [All -> ProcEntries]
    BY <1>1, <1>2, <1>10, <1>12
  <2>2. loc' \in [All -> Locals]
    BY <1>1, <1>2, <1>11, <1>14
  <2>3. pc' \in [All -> Labels] /\ then' \in [All -> Nexts]
    BY <1>1, <1>2 DEF Labels, Nexts
  <2> QED BY <1>1, <1>2, <1>3, <1>8, <2>1, <2>2, <2>3 DEF TypeOK
<1>16. \A j \in All : j # c /\ j # i => Idle(j)
  BY <1>1, <1>9, <1>10, <1>11 DEF Idle
<1>17. ParentsWait /\ \A j \in Slots : OutOfMemory(j) => proc'[j] = proc[j]
  BY <1>2, <1>3, <1>10, <1>12, SlotFacts DEF ParentsWait, OutOfMemory
<1>18. TextsStayOut
  <2> SUFFICES ASSUME NEW j \in Slots, TextOut(j)  PROVE text'[proc[j].text].ccount = 0
    BY DEF TextsStayOut
  <2>1. proc[j].text # f /\ text[proc[j].text].ccount = 0 /\ proc[j].text \in Files
    BY <1>2, <1>5, OutApart, SlotFacts, Types DEF f, TextOut
  <2> QED BY <1>1, <1>8, <2>1
<1>19. PlaceOK(c)'
  <2>1. Moves(c)'
    BY <1>7, <1>9, <1>12, <1>13 DEF Moves
  <2> QED BY <1>1, <1>2, <1>4, <1>5, <1>9, <1>12, <2>1 DEF PlaceOK, Moving, Awake, Event, SwBuf
<1>20. PlaceOK(i)'
  <2>1. pc'[i] = "user" /\ then'[i] = then[i] /\ loc'[i] = loc[i] /\ chan'[i] = Awake
    BY <1>1, <1>2, <1>3, <1>9, <1>11
  <2>2. then[i] = "user" /\ loc[i] = NoLoc
    BY <1>2 DEF PlaceOK
  <2> QED BY <1>5, <1>12, <2>1, <2>2 DEF PlaceOK, Moving, Awake, Event, SwBuf, n
<1>21. PlacesOK'
  <2> SUFFICES ASSUME NEW j \in Slots  PROVE PlaceOK(j)'
    BY DEF PlacesOK
  <2>1. CASE j # c /\ j # i
    BY <1>2, <1>16, <1>17, <2>1, IdleOK, SlotFacts DEF PlacesOK
  <2> QED BY <1>19, <1>20, <2>1
<1>22. Idle(Sched) /\ in' = in
  BY <1>1, <1>2, <1>3, <1>16, SlotFacts
<1>23. SchedOK'
  BY <1>2, <1>17, <1>18, <1>22, SchedIdle, Types
<1>24. Births'
  <2>1. \A d \in Slots : d # c /\ pc'[d] \in Moving /\ then'[d] = "forked" =>
            loc'[d].parent # i /\ pc[d] \in Moving /\ then[d] = "forked"
            /\ loc'[d].parent = loc[d].parent
    <3> SUFFICES ASSUME NEW d \in Slots, d # c, pc'[d] \in Moving, then'[d] = "forked"
                 PROVE  loc'[d].parent # i /\ pc[d] \in Moving /\ then[d] = "forked"
                        /\ loc'[d].parent = loc[d].parent
      OBVIOUS
    <3>1. pc[d] \in Moving /\ then[d] = "forked" /\ loc'[d] = loc[d]
      BY <1>9, <1>11, SlotFacts
    <3>2. Moves(d)
      BY <1>2, <3>1 DEF PlacesOK, PlaceOK
    <3>3. proc[loc[d].parent].stat = "SIDL"
      BY <3>1, <3>2 DEF Moves
    <3> QED BY <1>2, <3>1, <3>3
  <2> QED BY <1>2, <1>13, <2>1 DEF Births
<1>25. BufferOK'
  <2>1. \A j \in All : (pc'[j] = "io") <=> (pc[j] = "io")
    BY <1>4, <1>9
  <2>2. \A j \in All : pc'[j] # "nod"
    BY <1>2, <1>9
  <2> QED BY <1>1, <1>2, <2>1, <2>2, BufferStays
<1>26. Reasons'
  <2>1. Ready' \subseteq Ready
    <3>1. \A j \in Slots : proc'[j] = proc[j] \/ proc'[j].load \/ proc'[j].stat = "SNULL"
      BY <1>2, <1>10, <1>12, SlotFacts
    <3>2. \A j \in All : chan'[j] \in {chan[j], Awake}
      BY <1>1
    <3> QED BY <1>2, <3>1, <3>2, ReadyStays
  <2>2. \A j \in All : /\ pc[j] = "io" => pc'[j] = "io"
                       /\ pc'[j] = "wait" => pc[j] = "wait" \/ chan'[j] # SwBuf
    BY <1>4, <1>9
  <2> QED BY <1>1, <1>2, <2>1, <2>2, ReasonsStay
<1>27. /\ GoingIn' = GoingIn
       /\ \A j \in Slots : j # c /\ j # i =>
              /\ ImageIn(j)' = ImageIn(j) /\ ImageOut(j)' = ImageOut(j)
              /\ (Image(j)' <=> Image(j))
              /\ proc'[j].text = proc[j].text
              /\ (InMemory(j)' <=> InMemory(j))
  <2>1. /\ GoingIn' = GoingIn
        /\ \A j \in Slots : Idle(j) => (InMemory(j)' <=> InMemory(j))
    BY <1>2, <1>17, <1>22, GoingStays
  <2> QED BY <1>10, <1>16, <2>1, IdleImages, SlotFacts
<1>28. /\ ImageIn(i)' = ImageIn(i) /\ ImageOut(i)' = ImageOut(i) /\ Image(i)'
       /\ proc'[i].text = proc[i].text /\ InMemory(i)'
  <2>1. loc'[i] = loc[i] /\ then'[i] = then[i]
    BY <1>2, <1>3, <1>9, <1>11
  <2>2. Image(i)'
    BY <1>12 DEF Image
  <2>3. ImageIn(i)' = ImageIn(i)
    BY <1>2, <1>12, <2>1 DEF ImageIn, HeldPages, n
  <2>4. ImageOut(i)' = ImageOut(i)
    BY <1>2, <1>12, <2>1 DEF ImageOut, n
  <2>5. InMemory(i)'
    <3>1. loc[i].blk = 0
      BY <1>2 DEF PlaceOK, NoLoc
    <3> QED BY <1>12, <2>1, <3>1 DEF InMemory
  <2> QED BY <1>12, <2>2, <2>3, <2>4, <2>5 DEF f
<1>29. /\ ImageIn(c)' = {} /\ ImageOut(c)' = Area(blk, n) /\ Image(c)' /\ ~InMemory(c)'
       /\ proc'[c].text = f
  <2>1. Image(c)' /\ proc'[c].text = f
    BY <1>2, <1>12 DEF Image, f
  <2>2. ImageIn(c)' = {}
    <3>1. proc[i].addr \in Int
      BY <1>2 DEF ProcEntries
    <3> QED BY <1>9, <1>12, <3>1, NoArea DEF ImageIn, HeldPages
  <2>3. ImageOut(c)' = Area(blk, n)
    BY <1>2, <1>7, <1>12, <1>13 DEF ImageOut, n
  <2>4. in.sel # c
    BY <1>2, <1>3, NotGoing
  <2>5. loc'[c].blk # 0
    BY <1>7, <1>13
  <2>6. ~InMemory(c)'
    BY <1>22, <2>4, <2>5 DEF InMemory
  <2> QED BY <2>1, <2>2, <2>3, <2>6
<1>30. Counts'
  <2>1. ASSUME NEW e \in Files
        PROVE  /\ text'[e].count + Uses(c, e) = text[e].count + Uses(c, e)'
               /\ text'[e].ccount + Holds(c, e) = text[e].ccount + Holds(c, e)'
    <3>1. /\ Uses(c, e) = 0 /\ Holds(c, e) = 0
          /\ Uses(c, e)' = (IF e = f THEN 1 ELSE 0) /\ Holds(c, e)' = 0
      BY <1>4, <1>29 DEF Uses, Holds
    <3>2. text[e].ccount \in Nat /\ text[e].count \in Nat
      BY <1>2 DEF TextEntries
    <3>3. CASE e # f
      BY <1>1, <1>8, <3>1, <3>2, <3>3
    <3>4. CASE e = f
      <4>1. f # NoFile
        BY <3>4, SlotFacts
      <4>2. text'[e].count = text[e].count + 1 /\ text'[e].ccount = text[e].ccount
        BY <1>1, <1>8, <3>4, <4>1
      <4> QED BY <3>1, <3>2, <3>4, <4>2
    <3> QED BY <3>3, <3>4
  <2>2. \A j \in Slots : j # c => /\ Image(j)' <=> Image(j)
                                  /\ proc'[j].text = proc[j].text
                                  /\ InMemory(j)' <=> InMemory(j)
    BY <1>5, <1>27, <1>28
  <2>3. text' \in [Files -> TextEntries]
    BY <1>1, <1>8
  <2> QED BY <1>2, <1>3, <2>1, <2>2, <2>3, CountsFollow
<1>31. Divided(mem, MemUse, NPages)'
  <2>1. Images' = Images
    BY <1>4, <1>27, <1>28, <1>29, PartsStay
  <2>2. Texts' = Texts
    BY <1>1, <1>8 DEF Texts
  <2>3. MemUse' = MemUse /\ mem' = mem
    BY <1>1, <1>8, <1>27, <2>1, <2>2, SameUse
  <2> QED BY <2>3 DEF Sound
<1>32. Divided(swap, SwapUse, NBlocks)'
  <2>1. Divided(swap, Use(Outs, Copies, {}), NBlocks)
    BY Parts DEF Sound
  <2>2. Outs' = [j \in Slots |-> ImageOut(j)']
    BY DEF Outs
  <2>3. /\ \A j \in Slots : j # c => Outs'[j] = Outs[j]
        /\ Outs'[c] = Outs[c] \cup Area(AllocAddr(swap, n), n)
    BY <1>3, <1>4, <1>27, <1>28, <1>29, <2>2, Parts DEF blk
  <2>4. AllocAddr(swap, n) # 0
    BY <1>1 DEF blk
  <2>5. Divided(AllocMap(swap, n), Use(Outs', Copies, {}), NBlocks)
    BY <1>3, <1>7, <2>1, <2>3, <2>4, ImageTakes, Parts
  <2>6. SwapUse' = Use(Outs', Copies, {})
    BY <1>1, <1>8 DEF SwapUse, Copies
  <2>7. swap' = AllocMap(swap, n)
    BY <1>1
  <2> QED BY <2>5, <2>6, <2>7
<1>33. ~wild'
  BY <1>1 DEF Sound
<1> QED BY <1>15, <1>21, <1>23, <1>24, <1>25, <1>26, <1>30, <1>31, <1>32, <1>33 DEF Sound, Control

\* The child has been written: it is out, and its parent goes on.
LEMMA ForkedStep ==
    ASSUME Sound, NEW c \in Slots, Forked(c)
    PROVE  Sound'
<1>0. PICK i : i = loc[c].parent
  OBVIOUS
<1>1. /\ At(c, "io") /\ then[c] = "forked"
      /\ swbuf' = [busy |-> FALSE, wanted |-> FALSE]
      /\ pc' = [pc EXCEPT ![c] = "user", ![i] = "user"] /\ cpu' = NoProc
      /\ then' = [then EXCEPT ![c] = "user"] /\ loc' = [loc EXCEPT ![c] = NoLoc]
      /\ Tell
      /\ UNCHANGED <<mem, swap, text, runIn, in, lost, wild>>
  BY <1>0 DEF Forked, SwapEnds, Put, areas
<1>2. proc' = [proc EXCEPT ![c].addr = loc[c].blk, ![c].load = FALSE, ![i].stat = "SRUN"]
  BY <1>0 DEF Forked
<1>3. /\ TypeOK /\ PlaceOK(c) /\ Control /\ BufferOK /\ Counts /\ c \in All /\ c # Sched
      /\ pc[c] = "io" /\ chan[c] = Awake /\ proc[c].stat = "SRUN" /\ proc[c].load
      /\ (\A j \in All : pc[j] # "nod") /\ pc \in [All -> Labels] /\ then \in [All -> Nexts]
      /\ proc \in [All -> ProcEntries] /\ proc[c] \in ProcEntries /\ loc \in [All -> Locals]
      /\ loc[c] \in Locals /\ Reasons /\ PlacesOK /\ SchedOK /\ Births
      /\ chan \in [All -> Channels]
  BY <1>1, Going, Types DEF Control
<1>4. /\ loc[c].blk > 0 /\ loc[c].old > 0 /\ loc[c].file = NoFile /\ i \in Slots
      /\ proc[i].stat = "SIDL" /\ proc[c].size >= Page
  BY <1>0, <1>1, <1>3 DEF PlaceOK, Moves, Moving
<1>5. /\ i # c /\ i \in All /\ i # Sched /\ PlaceOK(i) /\ proc[i] \in ProcEntries
      /\ pc[i] = "user" /\ proc[i].load /\ proc[i].size >= Page /\ loc[i] = NoLoc
      /\ then[i] = "user" /\ loc[c].blk \in Nat
  <2>1. i # c /\ i \in All /\ i # Sched /\ PlaceOK(i)
    BY <1>3, <1>4, SlotFacts DEF PlacesOK
  <2>2. loc[c].blk \in Nat /\ proc[i] \in ProcEntries
    BY <1>3, <2>1 DEF Locals
  <2>3. pc[i] = "user" /\ proc[i].load /\ proc[i].size >= Page
    BY <1>4, <2>1 DEF PlaceOK
  <2>4. loc[i] = NoLoc /\ then[i] = "user"
    BY <2>1, <2>3 DEF PlaceOK
  <2> QED BY <2>1, <2>2, <2>3, <2>4
<1>6. /\ pc'[c] = "user" /\ pc'[i] = "user" /\ \A j \in All : j # c => pc'[j] = pc[j]
  BY <1>1, <1>3, <1>5
<1>7. /\ then'[c] = "user" /\ loc'[c] = NoLoc
      /\ \A j \in All : j # c => then'[j] = then[j] /\ loc'[j] = loc[j]
  BY <1>1, <1>3
<1>8. /\ proc'[c] = [proc[c] EXCEPT !.addr = loc[c].blk, !.load = FALSE]
      /\ proc'[i] = [proc[i] EXCEPT !.stat = "SRUN"]
      /\ \A j \in All : j # c /\ j # i => proc'[j] = proc[j]
  BY <1>2, <1>3, <1>5
<1>9. /\ ~proc'[c].load /\ proc'[c].addr = loc[c].blk /\ proc'[c].size = proc[c].size
      /\ proc'[c].text = proc[c].text /\ proc'[c].stat = "SRUN"
  BY <1>3, <1>8 DEF ProcEntries
<1>10. proc'[c] \in ProcEntries
  BY <1>3, <1>5, <1>8 DEF ProcEntries
<1>11. /\ proc'[i].load /\ proc'[i].addr = proc[i].addr /\ proc'[i].size = proc[i].size
       /\ proc'[i].text = proc[i].text /\ proc'[i].stat = "SRUN" /\ proc'[i] \in ProcEntries
  BY <1>5, <1>8 DEF ProcEntries
<1>12. /\ \A j \in All : chan'[j] \in {chan[j], Awake}
       /\ chan' \in [All -> Channels] /\ runOut' = FALSE
  BY <1>1, <1>3, TellFacts
<1>13. TypeOK'
  <2>1. proc' \in [All -> ProcEntries]
    BY <1>2, <1>3, <1>8, <1>10, <1>11
  <2>2. loc' \in [All -> Locals]
    <3>1. NoLoc \in Locals
      BY SlotFacts DEF NoLoc, Locals, Sched
    <3> QED BY <1>1, <1>3, <3>1
  <2>3. pc' \in [All -> Labels] /\ then' \in [All -> Nexts]
    BY <1>1, <1>3 DEF Labels, Nexts
  <2> QED BY <1>1, <1>3, <1>12, <2>1, <2>2, <2>3 DEF TypeOK
<1>14. \A j \in All : j # c /\ j # i => Idle(j)
  BY <1>6, <1>7, <1>8, <1>12 DEF Idle
<1>15. PlaceOK(c)'
  <2>1. chan'[c] = Awake
    BY <1>3, <1>12
  <2> QED BY <1>4, <1>6, <1>7, <1>9, <2>1 DEF PlaceOK, Moving, Awake, Event, SwBuf
<1>16. PlaceOK(i)'
  <2>1. chan'[i] \in {chan[i], Awake} /\ chan[i] \in {Awake, Event, SwBuf}
        /\ (chan[i] = SwBuf => pc[i] \in {"io", "wait"})
    BY <1>5, <1>12 DEF PlaceOK
  <2>2. then'[i] = "user" /\ loc'[i] = NoLoc
    BY <1>5, <1>7
  <2> QED BY <1>5, <1>6, <1>11, <2>1, <2>2 DEF PlaceOK, Moving, Awake, Event, SwBuf
<1>17. ASSUME NEW j \in Slots, j # c, pc[j] \in Moving, then[j] = "forked"
       PROVE  proc'[loc[j].parent].stat = "SIDL"
  <2>1. Moves(j) /\ loc[j].parent # i
    BY <1>0, <1>1, <1>3, <1>17 DEF PlacesOK, PlaceOK, Births, Moving
  <2>2. loc[j].parent \in Slots /\ proc[loc[j].parent].stat = "SIDL"
    BY <1>17, <2>1 DEF Moves
  <2>3. loc[j].parent # c /\ loc[j].parent \in All
    BY <1>3, <2>2, SlotFacts
  <2> QED BY <1>8, <2>1, <2>2, <2>3
<1>18. PlacesOK'
  <2> SUFFICES ASSUME NEW j \in Slots  PROVE PlaceOK(j)'
    BY DEF PlacesOK
  <2>1. CASE j # c /\ j # i
    <3>1. PlaceOK(j) /\ Idle(j)
      BY <1>3, <1>14, <2>1, SlotFacts DEF PlacesOK
    <3>2. pc[j] \in Moving => Moves(j)'
      BY <1>17, <2>1, <3>1 DEF Moves, Idle, PlaceOK
    <3> QED BY <3>1, <3>2 DEF PlaceOK, Idle, Awake, Event, SwBuf
  <2> QED BY <1>15, <1>16, <2>1
<1>19. Idle(Sched) /\ in' = in
  BY <1>1, <1>3, <1>5, <1>14, SlotFacts
<1>20. \A j \in Slots : OutOfMemory(j) => proc'[j] = proc[j]
  BY <1>3, <1>5, <1>8, SlotFacts DEF OutOfMemory
<1>21. SchedOK'
  <2>1. TextsStayOut
    BY <1>1 DEF TextsStayOut, TextOut
  <2> QED BY <1>3, <1>19, <1>20, <2>1, SchedIdle, Types
<1>22. Births'
  <2>1. \A j \in Slots : pc'[j] \in Moving /\ then'[j] = "forked" =>
               pc[j] \in Moving /\ then[j] = "forked" /\ loc'[j].parent = loc[j].parent
    BY <1>6, <1>7, SlotFacts
  <2> QED BY <1>3, <2>1, BirthsStay
<1>23. BufferOK' /\ Reasons'
  <2>1. \A j \in All : j # c => pc'[j] = pc[j] \/ pc'[j] \notin {"io", "wait", "nod"}
    BY <1>6
  <2>2. pc'[c] \notin {"io", "wait", "nod"}
    BY <1>6
  <2> QED BY <1>1, <2>1, <2>2, LetGo
<1>24. /\ GoingIn' = GoingIn
       /\ \A j \in Slots : j # c /\ j # i =>
              /\ ImageIn(j)' = ImageIn(j) /\ ImageOut(j)' = ImageOut(j)
              /\ (Image(j)' <=> Image(j))
              /\ proc'[j].text = proc[j].text
              /\ (InMemory(j)' <=> InMemory(j))
  <2>1. /\ GoingIn' = GoingIn
        /\ \A j \in Slots : Idle(j) => (InMemory(j)' <=> InMemory(j))
    BY <1>3, <1>19, <1>20, GoingStays
  <2> QED BY <1>8, <1>14, <2>1, IdleImages, SlotFacts
<1>25. /\ ImageIn(i)' = ImageIn(i) /\ ImageOut(i)' = ImageOut(i) /\ (Image(i)' <=> Image(i))
       /\ (InMemory(i)' <=> InMemory(i))
  <2>1. loc'[i] = loc[i] /\ then'[i] = then[i]
    BY <1>5, <1>7
  <2>2. Image(i)' /\ Image(i)
    BY <1>4, <1>11 DEF Image
  <2>3. ImageIn(i)' = ImageIn(i)
    BY <1>5, <1>11, <2>1 DEF ImageIn, HeldPages
  <2>4. ImageOut(i)' = ImageOut(i)
    BY <1>5, <1>11, <2>1 DEF ImageOut
  <2>5. InMemory(i)' /\ InMemory(i)
    <3>1. loc[i].blk = 0
      BY <1>5 DEF NoLoc
    <3> QED BY <1>5, <1>11, <2>1, <3>1 DEF InMemory
  <2> QED BY <2>2, <2>3, <2>4, <2>5
<1>26. /\ ImageIn(c)' = ImageIn(c) /\ ImageOut(c)' = ImageOut(c) /\ (Image(c)' <=> Image(c))
       /\ (InMemory(c)' <=> InMemory(c))
  <2>1. Image(c)' /\ Image(c)
    BY <1>3, <1>9 DEF Image
  <2>2. ImageIn(c) = {}
    <3>1. proc[c].addr \in Int
      BY <1>3 DEF ProcEntries
    <3> QED BY <1>1, <1>3, <3>1, NoArea DEF ImageIn, HeldPages
  <2>3. ImageIn(c)' = {}
    BY <1>5, <1>9, NoArea DEF ImageIn, HeldPages
  <2>4. ImageOut(c) = Area(loc[c].blk, proc[c].size)
    BY <1>3, <1>4 DEF ImageOut
  <2>5. ImageOut(c)' = Area(loc[c].blk, proc[c].size)
    BY <1>9, <2>1 DEF ImageOut
  <2>6. in.sel # c
    BY <1>3, NotGoing
  <2>7. loc[c].blk # 0
    <3>1. loc[c].blk > 0 /\ loc[c].blk \in Nat
      BY <1>4, <1>5
    <3> QED BY <3>1
  <2>8. ~InMemory(c)
    BY <2>6, <2>7 DEF InMemory
  <2>9. ~InMemory(c)'
    BY <1>9, <1>19, <2>6 DEF InMemory
  <2> QED BY <2>1, <2>2, <2>3, <2>4, <2>5, <2>8, <2>9
<1>27. Counts'
  <2>1. \A j \in Slots : /\ Image(j)' <=> Image(j)
                         /\ proc'[j].text = proc[j].text
                         /\ InMemory(j)' <=> InMemory(j)
    BY <1>9, <1>11, <1>24, <1>25, <1>26
  <2> QED BY <1>1, <1>3, <2>1, CountsStay
<1>28. MemUse' = MemUse /\ SwapUse' = SwapUse
  <2>1. \A j \in Slots : ImageIn(j)' = ImageIn(j) /\ ImageOut(j)' = ImageOut(j)
    BY <1>24, <1>25, <1>26
  <2> QED BY <1>1, <1>24, <2>1, PartsStay, SameUse
<1>29. ~wild' /\ Divided(mem, MemUse, NPages)' /\ Divided(swap, SwapUse, NBlocks)'
  BY <1>1, <1>28 DEF Sound
<1> QED BY <1>13, <1>18, <1>21, <1>22, <1>23, <1>27, <1>29 DEF Sound, Control

-----------------------------------------------------------------------------
\* Exit and Exec

\* What a process in memory, that is in no call, lets go of when it gives up its text.
LEMMA TextFreed ==
    ASSUME Sound, NEW i \in Slots, Image(i), InMemory(i),
           NEW freed, freed = XFree(proc[i].text, text, mem, swap)
    PROVE  /\ freed.t \in [Files -> TextEntries]
           /\ proc[i].text = NoFile => freed.t = text
           /\ \A e \in Files : e # proc[i].text => freed.t[e] = text[e]
           /\ proc[i].text # NoFile =>
                  /\ freed.t[proc[i].text].count = text[proc[i].text].count - 1
                  /\ freed.t[proc[i].text].ccount = text[proc[i].text].ccount - 1
           /\ Divided(freed.m, Use(Images, TextsOf(freed.t), GoingIn), NPages)
           /\ Divided(freed.s, Use(Outs, CopiesOf(freed.t), {}), NBlocks)
<1> DEFINE f == proc[i].text
<1>1. text \in [Files -> TextEntries] /\ f \in Files \cup {NoFile}
  BY Types DEF Sound, Control
<1>2. f # NoFile => text[f].ccount > 0 /\ text[f].ccount <= text[f].count
  BY TextOf
<1>3. Divided(mem, Use(Images, TextsOf(text), GoingIn), NPages)
  BY Parts DEF Sound, Texts
<1>4. Divided(swap, Use(Outs, CopiesOf(text), {}), NBlocks)
  BY Parts DEF Sound, Copies
<1> HIDE DEF f
<1>5. freed = XFree(f, text, mem, swap)
  BY DEF f
<1>6. /\ freed.t \in [Files -> TextEntries]
      /\ f = NoFile => freed.t = text
      /\ \A e \in Files : e # f => freed.t[e] = text[e]
      /\ f # NoFile => /\ freed.t[f].count = text[f].count - 1
                       /\ freed.t[f].ccount = text[f].ccount - 1
      /\ Divided(freed.m, Use(Images, TextsOf(freed.t), GoingIn), NPages)
      /\ Divided(freed.s, Use(Outs, CopiesOf(freed.t), {}), NBlocks)
  BY <1>1, <1>2, <1>3, <1>4, <1>5, XFreeDoes
<1> QED BY <1>6 DEF f

LEMMA ExitStep ==
    ASSUME Sound, NEW i \in Slots, Exit(i)
    PROVE  Sound'
<1> DEFINE n == Pages(proc[i].size)
           f == proc[i].text
           addr == proc[i].addr
<1>0. PICK freed : freed = XFree(f, text, mem, swap)
  OBVIOUS
<1>1. /\ At(i, "user") /\ text' = freed.t /\ swap' = freed.s
      /\ mem' = FreeMap(freed.m, n, addr)
      /\ proc' = [proc EXCEPT ![i] = Free]
      /\ pc' = [pc EXCEPT ![i] = "none"] /\ cpu' = NoProc
      /\ UNCHANGED <<swbuf, runIn, runOut, chan, then, loc, in, lost, wild>>
  BY <1>0 DEF Exit, SleepAt, Put, flags
<1>2. /\ TypeOK /\ PlaceOK(i) /\ Control /\ BufferOK /\ Counts /\ i \in All /\ i # Sched
      /\ pc[i] = "user" /\ chan[i] = Awake /\ proc[i].stat = "SRUN" /\ proc[i].load
      /\ (\A j \in All : pc[j] # "nod") /\ pc \in [All -> Labels]
      /\ proc \in [All -> ProcEntries] /\ text \in [Files -> TextEntries]
      /\ proc[i] \in ProcEntries
  BY <1>1, Going, Types
<1>3. then[i] = "user" /\ loc[i] = NoLoc /\ loc[i].blk = 0 /\ loc[i].old = 0 /\ proc[i].size >= Page
  BY <1>2 DEF PlaceOK, NoLoc
<1>4. /\ Image(i) /\ InMemory(i) /\ ImageIn(i) = Area(addr, n) /\ ImageOut(i) = {}
      /\ n \in Nat /\ addr \in Nat
  <2>1. loc[i] \in Locals
    BY <1>2, Types
  <2>2. Image(i) /\ InMemory(i) /\ ImageIn(i) = Area(addr, n) /\ ImageOut(i) = {}
    BY <1>2, <1>3, <2>1, HeldIs DEF Image
  <2>3. proc[i].size \in Nat /\ addr \in Nat
    BY <1>2 DEF ProcEntries
  <2> QED BY <2>2, <2>3, PagesSums
<1>5. /\ freed.t \in [Files -> TextEntries]
      /\ f = NoFile => freed.t = text
      /\ \A e \in Files : e # f => freed.t[e] = text[e]
      /\ f # NoFile => /\ freed.t[f].count = text[f].count - 1
                       /\ freed.t[f].ccount = text[f].ccount - 1
      /\ Divided(freed.m, Use(Images, TextsOf(freed.t), GoingIn), NPages)
      /\ Divided(freed.s, Use(Outs, CopiesOf(freed.t), {}), NBlocks)
  BY <1>0, <1>4, TextFreed
<1> HIDE DEF n, f, addr
<1>6. /\ pc'[i] = "none" /\ proc'[i] = Free
      /\ \A j \in All : j # i => pc'[j] = pc[j] /\ proc'[j] = proc[j]
  BY <1>1, <1>2
<1>7. /\ proc'[i].stat = "SNULL" /\ ~proc'[i].load /\ proc'[i].addr = 0
      /\ proc'[i].text = NoFile /\ Free \in ProcEntries
  BY <1>6 DEF Free, ProcEntries
<1>8. TypeOK'
  <2>1. proc' \in [All -> ProcEntries] /\ pc' \in [All -> Labels]
    BY <1>1, <1>2, <1>7 DEF Labels
  <2> QED BY <1>1, <1>2, <1>5, <2>1 DEF TypeOK
<1>9. PlaceOK(i)'
  BY <1>1, <1>2, <1>3, <1>6, <1>7 DEF PlaceOK, Moving, Awake, Event, SwBuf
<1>10. \A j \in All : j # i => Idle(j)
  BY <1>1, <1>6 DEF Idle
<1>11. TextsStayOut
  <2> SUFFICES ASSUME NEW j \in Slots, TextOut(j)  PROVE text'[proc[j].text].ccount = 0
    BY DEF TextsStayOut
  <2>1. proc[j].text # f /\ text[proc[j].text].ccount = 0 /\ proc[j].text \in Files
    BY <1>2, <1>4, OutApart, SlotFacts, Types DEF f, TextOut
  <2> QED BY <1>1, <1>5, <2>1
<1>12. /\ Control' /\ Reasons' /\ ~wild' /\ GoingIn' = GoingIn
       /\ \A j \in Slots : j # i => /\ ImageIn(j)' = ImageIn(j) /\ ImageOut(j)' = ImageOut(j)
                                    /\ (Image(j)' <=> Image(j))
                                    /\ proc'[j].text = proc[j].text
                                    /\ (InMemory(j)' <=> InMemory(j))
  <2>1. pc[i] \notin {"io", "nod"} /\ pc'[i] \notin {"io", "nod", "wait"} /\ pc'[i] \notin Moving
    BY <1>2, <1>6 DEF Moving
  <2> QED BY <1>1, <1>2, <1>7, <1>8, <1>9, <1>10, <1>11, <2>1, OneStep
<1>13. /\ ImageIn(i)' = {} /\ ImageOut(i)' = {} /\ ~Image(i)'
  <2>1. ~Image(i)' /\ loc'[i].blk = 0
    BY <1>1, <1>3, <1>7 DEF Image
  <2>2. ImageOut(i)' = {}
    BY <2>1 DEF ImageOut
  <2>3. ImageIn(i)' = {}
    BY <1>7, NoArea DEF ImageIn, HeldPages
  <2> QED BY <2>1, <2>2, <2>3
<1>14. Counts'
  <2>1. ASSUME NEW e \in Files
        PROVE  /\ text'[e].count + Uses(i, e) = text[e].count + Uses(i, e)'
               /\ text'[e].ccount + Holds(i, e) = text[e].ccount + Holds(i, e)'
    <3>1. /\ Uses(i, e)' = 0 /\ Holds(i, e)' = 0
          /\ Uses(i, e) = (IF e = f THEN 1 ELSE 0) /\ Holds(i, e) = (IF e = f THEN 1 ELSE 0)
      BY <1>4, <1>13 DEF Uses, Holds, f
    <3>2. text[e].ccount \in Nat /\ text[e].count \in Nat
      BY <1>2 DEF TextEntries
    <3>3. CASE e # f
      BY <1>1, <1>5, <3>1, <3>2, <3>3
    <3>4. CASE e = f
      <4>1. f # NoFile
        BY <3>4, SlotFacts
      <4>2. text'[e].count = text[e].count - 1 /\ text'[e].ccount = text[e].ccount - 1
        BY <1>1, <1>5, <3>4, <4>1
      <4> QED BY <3>1, <3>2, <3>4, <4>2
    <3> QED BY <3>3, <3>4
  <2>2. text' \in [Files -> TextEntries]
    BY <1>1, <1>5
  <2> QED BY <1>2, <1>12, <2>1, <2>2, CountsFollow
<1>15. Divided(swap, SwapUse, NBlocks)'
  <2>1. Outs' = Outs
    BY <1>4, <1>12, <1>13, PartsStay
  <2>2. SwapUse' = Use(Outs, CopiesOf(freed.t), {})
    BY <1>1, <2>1 DEF SwapUse, Copies
  <2> QED BY <1>1, <1>5, <2>2
<1>16. Divided(mem, MemUse, NPages)'
  <2>1. Images' = [j \in Slots |-> ImageIn(j)']
    BY DEF Images
  <2>2. /\ \A j \in Slots : j # i => Images'[j] = Images[j]
        /\ Images'[i] = Images[i] \ Area(addr, n) /\ Area(addr, n) \subseteq Images[i]
    BY <1>4, <1>12, <1>13, <2>1, Parts
  <2>3. Divided(FreeMap(freed.m, n, addr), Use(Images', TextsOf(freed.t), GoingIn), NPages)
    BY <1>4, <1>5, <2>2, ImageGives, Parts
  <2>4. MemUse' = Use(Images', TextsOf(freed.t), GoingIn)
    BY <1>1, <1>12 DEF MemUse, Texts
  <2> QED BY <1>1, <2>3, <2>4
<1> QED BY <1>12, <1>14, <1>15, <1>16 DEF Sound

\* Exec gives the old image up but for the u area.
LEMMA SmallFits ==
    ASSUME NEW map, NEW a, NEW a2, NEW t, NEW g, Divided(map, Use(a, t, g), NPages),
           NEW i \in Slots, NEW size \in Nat, size >= USIZE, NEW addr \in Nat,
           a[i] = Area(addr, Pages(size)),
           \A j \in Slots : j # i => a2[j] = a[j],
           a2[i] = Area(addr, Pages(USIZE))
    PROVE  Divided(Shrunk(map, addr, size, USIZE), Use(a2, t, g), NPages)
<1> DEFINE p == Pages(size - USIZE)
           q == USIZE \div Page
<1>1. Page \in Nat /\ Page > 0 /\ USIZE = Page /\ USIZE \in Nat
  BY PageFacts DEF USIZE
<1>2. q \in Nat /\ p \in Nat /\ Pages(size) \in Nat /\ Pages(USIZE) = 1
  <2>1. q \in Nat
    BY <1>1, DivFacts
  <2>2. size - USIZE \in Nat
    BY <1>1
  <2>3. p \in Nat
    BY <2>2, PagesSums
  <2> QED BY <2>1, <2>3, PagesSums
<1>3. Area(addr + q, p) \subseteq a[i] /\ a2[i] = a[i] \ Area(addr + q, p)
  <2>1. CASE size = USIZE
    <3>1. p = 0
      BY <1>1, <2>1, PagesSums
    <3>2. Area(addr + q, p) = {}
      BY <1>2, <3>1, NoArea
    <3> QED BY <2>1, <3>2
  <2>2. CASE size > USIZE
    <3>1. USIZE % Page = 0
      BY <1>1, DivUnique
    <3>2. q = Pages(USIZE) /\ p = Pages(size) - Pages(USIZE)
      BY <1>1, <2>2, <3>1, ShrinkExact
    <3> HIDE DEF p, q
    <3>3. q = 1 /\ p = Pages(size) - 1
      BY <1>2, <3>2
    <3> QED BY <1>2, <3>3, InArea
  <2> QED BY <1>1, <2>1, <2>2
<1> HIDE DEF p, q
<1>4. addr + q \in Nat /\ NPages \in Nat
  BY <1>2, Parts
<1>5. Divided(FreeMap(map, p, addr + q), Use(a2, t, g), NPages)
  BY <1>2, <1>3, <1>4, ImageGives
<1> QED BY <1>5 DEF Shrunk, p, q

\* The text of Exec: shared, if it is in memory, or made.
Gets(t, f, m, s, t2, m2, s2) ==
    \/ /\ t[f].count > 0 /\ t[f].ccount # 0 /\ m2 = m /\ s2 = s
       /\ t2 = [t EXCEPT ![f].count = t[f].count + 1, ![f].ccount = t[f].ccount + 1]
    \/ /\ ~(t[f].count > 0)
       /\ AllocAddr(m, Pages(TextSize)) # 0 /\ AllocAddr(s, TextSize) # 0
       /\ m2 = AllocMap(m, Pages(TextSize)) /\ s2 = AllocMap(s, TextSize)
       /\ t2 = [t EXCEPT ![f] = [count |-> 1, ccount |-> 1,
                                 caddr |-> AllocAddr(m, Pages(TextSize)),
                                 daddr |-> AllocAddr(s, TextSize)]]

LEMMA TextGot ==
    ASSUME NEW t \in [Files -> TextEntries], NEW f \in Files, NEW m, NEW s, NEW a, NEW g, NEW b,
           t[f].ccount <= t[f].count,
           Divided(m, Use(a, TextsOf(t), g), NPages),
           Divided(s, Use(b, CopiesOf(t), {}), NBlocks),
           NEW t2, NEW m2, NEW s2,
           Gets(t, f, m, s, t2, m2, s2)
    PROVE  /\ t2 \in [Files -> TextEntries]
           /\ \A e \in Files : e # f => t2[e] = t[e]
           /\ t2[f].count = t[f].count + 1 /\ t2[f].ccount = t[f].ccount + 1
           /\ Divided(m2, Use(a, TextsOf(t2), g), NPages)
           /\ Divided(s2, Use(b, CopiesOf(t2), {}), NBlocks)
<1>1. t[f] \in TextEntries /\ t[f].count \in Nat /\ t[f].ccount \in Nat
  BY DEF TextEntries
<1>2. /\ WellFormed(m) /\ WellFormed(s) /\ TextSize \in Nat /\ TextSize > 0
      /\ Pages(TextSize) \in Nat /\ Pages(TextSize) > 0 /\ NPages \in Nat /\ NBlocks \in Nat
  BY PagesSums, PageFacts, Parts DEF Divided
<1>3. CASE t[f].count > 0
  <2>1. /\ t[f].ccount > 0 /\ m2 = m /\ s2 = s
        /\ t2 = [t EXCEPT ![f].count = t[f].count + 1, ![f].ccount = t[f].ccount + 1]
    BY <1>1, <1>3 DEF Gets
  <2>2. /\ \A e \in Files : e # f => t2[e] = t[e]
        /\ t2[f] = [t[f] EXCEPT !.count = t[f].count + 1, !.ccount = t[f].ccount + 1]
    BY <2>1
  <2>3. /\ t2[f].count = t[f].count + 1 /\ t2[f].ccount = t[f].ccount + 1
        /\ t2[f].caddr = t[f].caddr /\ t2[f].daddr = t[f].daddr
    BY <1>1, <2>2 DEF TextEntries
  <2>4. t2[f] \in TextEntries
    <3>1. \A r \in TextEntries, x, y \in Nat : [r EXCEPT !.count = x, !.ccount = y] \in TextEntries
      BY DEF TextEntries
    <3>2. t[f].count + 1 \in Nat /\ t[f].ccount + 1 \in Nat
      BY <1>1
    <3>3. PICK x, y \in Nat : x = t[f].count + 1 /\ y = t[f].ccount + 1
      BY <3>2
    <3>4. t2[f] = [t[f] EXCEPT !.count = x, !.ccount = y]
      BY <2>2, <3>3
    <3>5. [t[f] EXCEPT !.count = x, !.ccount = y] \in TextEntries
      BY <1>1, <3>1, <3>3
    <3> QED BY <3>4, <3>5
  <2>5. t2 \in [Files -> TextEntries]
    BY <2>1, <2>2, <2>4
  <2>6. /\ t2[f].count > 0 /\ t2[f].ccount > 0
    BY <1>1, <2>3
  <2>7. \A e \in Files : /\ t2[e].count > 0 <=> t[e].count > 0
                         /\ t2[e].ccount > 0 <=> t[e].ccount > 0
                         /\ t2[e].caddr = t[e].caddr /\ t2[e].daddr = t[e].daddr
    BY <1>3, <2>1, <2>2, <2>3, <2>6
  <2>8. TextsOf(t2) = TextsOf(t) /\ CopiesOf(t2) = CopiesOf(t)
    BY <2>7 DEF TextsOf, CopiesOf
  <2> QED BY <2>1, <2>2, <2>3, <2>5, <2>8
<1>4. CASE ~(t[f].count > 0)
  <2>1. PICK caddr : caddr = AllocAddr(m, Pages(TextSize))
    OBVIOUS
  <2>2. PICK daddr : daddr = AllocAddr(s, TextSize)
    OBVIOUS
  <2>3. /\ caddr # 0 /\ daddr # 0
        /\ m2 = AllocMap(m, Pages(TextSize)) /\ s2 = AllocMap(s, TextSize)
        /\ t2 = [t EXCEPT ![f] = [count |-> 1, ccount |-> 1, caddr |-> caddr, daddr |-> daddr]]
    BY <1>4, <2>1, <2>2 DEF Gets
  <2>4. caddr \in Nat /\ daddr \in Nat
    BY <1>2, <2>1, <2>2, AllocFacts
  <2>5. /\ \A e \in Files : e # f => t2[e] = t[e]
        /\ t2[f].count = 1 /\ t2[f].ccount = 1 /\ t2[f].caddr = caddr /\ t2[f].daddr = daddr
        /\ t2[f] \in TextEntries
    BY <2>3, <2>4 DEF TextEntries
  <2>6. t2 \in [Files -> TextEntries]
    BY <2>3, <2>5
  <2>7. t[f].count = 0 /\ t[f].ccount = 0
    BY <1>1, <1>4
  <2>8. Divided(m2, Use(a, TextsOf(t2), g), NPages)
    <3>1. \A e \in Files : e # f => TextsOf(t2)[e] = TextsOf(t)[e]
      BY <2>5 DEF TextsOf
    <3>2. ~(t[f].ccount > 0) /\ t2[f].ccount > 0
      BY <2>5, <2>7
    <3>3. TextsOf(t)[f] = {} /\ TextsOf(t2)[f] = Area(caddr, Pages(TextSize))
      BY <2>5, <3>2, TextsOfIs
    <3>4. /\ TextsOf(t2)[f] = Area(AllocAddr(m, Pages(TextSize)), Pages(TextSize))
          /\ AllocAddr(m, Pages(TextSize)) # 0
      BY <2>1, <2>3, <3>3
    <3>5. Divided(AllocMap(m, Pages(TextSize)), Use(a, TextsOf(t2), g), NPages)
      BY <1>2, <3>1, <3>3, <3>4, TextTakes
    <3> QED BY <2>3, <3>5
  <2>9. Divided(s2, Use(b, CopiesOf(t2), {}), NBlocks)
    <3>1. \A e \in Files : e # f => CopiesOf(t2)[e] = CopiesOf(t)[e]
      BY <2>5 DEF CopiesOf
    <3>2. t2[f].count > 0
      BY <2>5
    <3>3. CopiesOf(t)[f] = {} /\ CopiesOf(t2)[f] = Area(daddr, TextSize)
      BY <1>4, <2>5, <3>2, TextsOfIs
    <3>4. /\ CopiesOf(t2)[f] = Area(AllocAddr(s, TextSize), TextSize)
          /\ AllocAddr(s, TextSize) # 0
      BY <2>2, <2>3, <3>3
    <3>5. Divided(AllocMap(s, TextSize), Use(b, CopiesOf(t2), {}), NBlocks)
      BY <1>2, <3>1, <3>3, <3>4, TextTakes
    <3> QED BY <2>3, <3>5
  <2> QED BY <2>5, <2>6, <2>7, <2>8, <2>9
<1> QED BY <1>3, <1>4

\* Exec goes on with a text and without its old image.
LEMMA ExecTextStep ==
    ASSUME Sound, NEW i \in Slots, ExecText(i)
    PROVE  WellFormed(mem)' /\ WellFormed(swap)' /\ (wild' \/ Sound')
<1>0. PICK freed : freed = XFree(proc[i].text, text, mem, swap)
  OBVIOUS
<1>1. PICK small : small = Shrunk(freed.m, proc[i].addr, proc[i].size, USIZE)
  OBVIOUS
<1>2. PICK f : f = loc[i].file
  OBVIOUS
<1>3. PICK g : g = proc[i].text
  OBVIOUS
<1>4. PICK addr : addr = proc[i].addr
  OBVIOUS
<1>5. /\ At(i, "exec")
      /\ proc' = [proc EXCEPT ![i].text = f, ![i].size = ExecSize]
      /\ loc' = [loc EXCEPT ![i].old = USIZE]
      /\ then' = [then EXCEPT ![i] = "text"]
      /\ pc' = [pc EXCEPT ![i] = "expand"] /\ cpu' = i
      /\ UNCHANGED <<swbuf, runIn, runOut, chan, in, lost>>
  BY <1>2 DEF ExecText, GoOn, Put, flags
<1>6. IF freed.t[f].count > 0
      THEN /\ text' = [freed.t EXCEPT ![f].count = freed.t[f].count + 1,
                                      ![f].ccount = freed.t[f].ccount + 1]
           /\ mem' = small /\ swap' = freed.s
           /\ wild' = (freed.t[f].ccount = 0)
      ELSE /\ text' = [freed.t EXCEPT ![f] =
                 [count |-> 1, ccount |-> 1, caddr |-> AllocAddr(small, Pages(TextSize)),
                  daddr |-> AllocAddr(freed.s, TextSize)]]
           /\ mem' = AllocMap(small, Pages(TextSize))
           /\ swap' = AllocMap(freed.s, TextSize)
           /\ wild' = (AllocAddr(small, Pages(TextSize)) = 0 \/ AllocAddr(freed.s, TextSize) = 0)
  BY <1>0, <1>1, <1>2 DEF ExecText
<1>7. /\ TypeOK /\ PlaceOK(i) /\ Control /\ BufferOK /\ Counts /\ i \in All /\ i # Sched
      /\ pc[i] = "exec" /\ chan[i] = Awake /\ proc[i].stat = "SRUN" /\ proc[i].load
      /\ (\A j \in All : pc[j] # "nod") /\ pc \in [All -> Labels] /\ then \in [All -> Nexts]
      /\ proc \in [All -> ProcEntries] /\ text \in [Files -> TextEntries]
      /\ proc[i] \in ProcEntries /\ loc[i] \in Locals /\ loc \in [All -> Locals]
  BY <1>5, Going, Types
<1>8. /\ loc[i].old = 0 /\ loc[i].blk = 0 /\ loc[i].parent = 0 /\ f # NoFile
      /\ then[i] = "user" /\ proc[i].size >= Page
  BY <1>2, <1>7 DEF PlaceOK
<1>9. f \in Files /\ g \in Files \cup {NoFile} /\ addr \in Nat /\ proc[i].size \in Nat
  <2>1. loc[i].file \in Files \cup {NoFile}
    BY <1>7 DEF Locals
  <2>2. proc[i].text \in Files \cup {NoFile} /\ proc[i].addr \in Nat /\ proc[i].size \in Nat
    BY <1>7 DEF ProcEntries
  <2> QED BY <1>2, <1>3, <1>4, <1>8, <2>1, <2>2
<1>10. /\ Image(i) /\ InMemory(i) /\ ImageIn(i) = Area(addr, Pages(proc[i].size))
       /\ ImageOut(i) = {}
  BY <1>4, <1>7, <1>8, HeldIs DEF Image
<1>11. /\ freed.t \in [Files -> TextEntries]
       /\ g = NoFile => freed.t = text
       /\ \A e \in Files : e # g => freed.t[e] = text[e]
       /\ g # NoFile => /\ freed.t[g].count = text[g].count - 1
                        /\ freed.t[g].ccount = text[g].ccount - 1
       /\ Divided(freed.m, Use(Images, TextsOf(freed.t), GoingIn), NPages)
       /\ Divided(freed.s, Use(Outs, CopiesOf(freed.t), {}), NBlocks)
  <2>1. /\ freed.t \in [Files -> TextEntries]
        /\ proc[i].text = NoFile => freed.t = text
        /\ \A e \in Files : e # proc[i].text => freed.t[e] = text[e]
        /\ proc[i].text # NoFile =>
               /\ freed.t[proc[i].text].count = text[proc[i].text].count - 1
               /\ freed.t[proc[i].text].ccount = text[proc[i].text].ccount - 1
        /\ Divided(freed.m, Use(Images, TextsOf(freed.t), GoingIn), NPages)
        /\ Divided(freed.s, Use(Outs, CopiesOf(freed.t), {}), NBlocks)
    BY <1>0, <1>10, TextFreed
  <2> QED BY <1>3, <2>1
<1>12. PICK cut : /\ \A j \in Slots : j # i => cut[j] = Images[j]
                  /\ cut[i] = Area(addr, Pages(USIZE))
  <2> DEFINE c == [j \in Slots |-> IF j = i THEN Area(addr, Pages(USIZE)) ELSE Images[j]]
  <2>1. (\A j \in Slots : j # i => c[j] = Images[j]) /\ c[i] = Area(addr, Pages(USIZE))
    OBVIOUS
  <2> HIDE DEF c
  <2> QED BY <2>1
<1>13. Divided(small, Use(cut, TextsOf(freed.t), GoingIn), NPages)
  <2>1. /\ Images[i] = Area(addr, Pages(proc[i].size)) /\ proc[i].size >= USIZE
        /\ small = Shrunk(freed.m, addr, proc[i].size, USIZE)
    BY <1>1, <1>4, <1>8, <1>10, Parts DEF USIZE
  <2>2. Divided(freed.m, Use(Images, TextsOf(freed.t), GoingIn), NPages)
    BY <1>11
  <2>3. Divided(Shrunk(freed.m, addr, proc[i].size, USIZE),
                Use(cut, TextsOf(freed.t), GoingIn), NPages)
    BY <1>9, <1>12, <2>1, <2>2, SmallFits
  <2> QED BY <2>1, <2>3
<1>14. WellFormed(mem)' /\ WellFormed(swap)'
  <2>1. WellFormed(small) /\ WellFormed(freed.s)
    BY <1>11, <1>13 DEF Divided
  <2>2. TextSize \in Nat /\ TextSize > 0 /\ Pages(TextSize) \in Nat /\ Pages(TextSize) > 0
    BY PagesSums, PageFacts
  <2>3. WellFormed(AllocMap(small, Pages(TextSize))) /\ WellFormed(AllocMap(freed.s, TextSize))
    BY <2>1, <2>2, AllocFacts
  <2>4. mem' = small \/ mem' = AllocMap(small, Pages(TextSize))
    BY <1>6
  <2>5. swap' = freed.s \/ swap' = AllocMap(freed.s, TextSize)
    BY <1>6
  <2> QED BY <2>1, <2>3, <2>4, <2>5
<1>15. SUFFICES ASSUME ~wild'  PROVE Sound'
  BY <1>14
<1>16. /\ freed.t[f].ccount <= freed.t[f].count
       /\ text[f] \in TextEntries /\ freed.t[f] \in TextEntries
       /\ freed.t[f].count \in Nat /\ freed.t[f].ccount \in Nat
  <2>1. text[f].ccount <= text[f].count
    BY <1>7, <1>9, Counted
  <2>2. text[f] \in TextEntries /\ freed.t[f] \in TextEntries
    BY <1>7, <1>9, <1>11
  <2>3. /\ text[f].ccount \in Nat /\ text[f].count \in Nat
        /\ freed.t[f].count \in Nat /\ freed.t[f].ccount \in Nat
    BY <2>2 DEF TextEntries
  <2>4. CASE f = g
    <3>1. freed.t[f].count = text[f].count - 1 /\ freed.t[f].ccount = text[f].ccount - 1
      BY <1>8, <1>11, <2>4
    <3> QED BY <2>1, <2>2, <2>3, <3>1
  <2>5. CASE f # g
    <3>1. freed.t[f] = text[f]
      BY <1>9, <1>11, <2>5
    <3> QED BY <2>1, <2>2, <2>3, <3>1
  <2> QED BY <2>4, <2>5
<1>17. Gets(freed.t, f, small, freed.s, text', mem', swap')
  BY <1>6, <1>15 DEF Gets
<1>18. /\ text' \in [Files -> TextEntries]
       /\ \A e \in Files : e # f => text'[e] = freed.t[e]
       /\ text'[f].count = freed.t[f].count + 1 /\ text'[f].ccount = freed.t[f].ccount + 1
       /\ Divided(mem', Use(cut, TextsOf(text'), GoingIn), NPages)
       /\ Divided(swap', Use(Outs, CopiesOf(text'), {}), NBlocks)
  <2>1. freed.t \in [Files -> TextEntries] /\ freed.t[f].ccount <= freed.t[f].count
    BY <1>11, <1>16
  <2>2. Divided(freed.s, Use(Outs, CopiesOf(freed.t), {}), NBlocks)
    BY <1>11
  <2> QED BY <1>9, <1>13, <1>17, <2>1, <2>2, TextGot
<1>19. /\ pc'[i] = "expand" /\ then'[i] = "text"
       /\ proc'[i] = [proc[i] EXCEPT !.text = f, !.size = ExecSize]
       /\ \A j \in All : j # i => pc'[j] = pc[j] /\ then'[j] = then[j] /\ proc'[j] = proc[j]
  BY <1>5, <1>7
<1>20. /\ loc'[i] = [loc[i] EXCEPT !.old = USIZE]
       /\ \A j \in All : j # i => loc'[j] = loc[j]
  BY <1>5, <1>7
<1>21. /\ ExecSize \in Nat /\ ExecSize >= Page /\ USIZE \in Nat /\ USIZE > 0 /\ USIZE = Page
  BY PageFacts, SwappingAssumption DEF USIZE
<1>22. /\ proc'[i].text = f /\ proc'[i].size = ExecSize /\ proc'[i].stat = "SRUN"
       /\ proc'[i].load /\ proc'[i].addr = addr
  BY <1>4, <1>7, <1>19 DEF ProcEntries
<1>23. proc'[i] \in ProcEntries
  <2>1. \A r \in ProcEntries, x \in Files, y \in Nat :
            [r EXCEPT !.text = x, !.size = y] \in ProcEntries
    BY DEF ProcEntries
  <2>2. [proc[i] EXCEPT !.text = f, !.size = ExecSize] \in ProcEntries
    BY <1>7, <1>9, <1>21, <2>1
  <2> QED BY <1>19, <2>2
<1>24. /\ loc'[i].old = USIZE /\ loc'[i].blk = 0 /\ loc'[i].parent = 0 /\ loc'[i].file = f
       /\ loc'[i] \in Locals
  BY <1>2, <1>7, <1>8, <1>20, <1>21 DEF Locals
<1>25. TypeOK'
  <2>1. proc' \in [All -> ProcEntries]
    BY <1>5, <1>7, <1>19, <1>23
  <2>2. loc' \in [All -> Locals]
    BY <1>5, <1>7, <1>20, <1>24
  <2>3. pc' \in [All -> Labels] /\ then' \in [All -> Nexts]
    BY <1>5, <1>7 DEF Labels, Nexts
  <2>4. wild' \in BOOLEAN
    BY <1>6
  <2> QED BY <1>5, <1>7, <1>18, <2>1, <2>2, <2>3, <2>4 DEF TypeOK
<1>26. PlaceOK(i)'
  <2>1. chan'[i] = Awake
    BY <1>5, <1>7
  <2> QED BY <1>8, <1>19, <1>21, <1>22, <1>24, <2>1 DEF PlaceOK, Moving, Awake, Event, SwBuf
<1>27. \A j \in All : j # i => Idle(j)
  BY <1>5, <1>19, <1>20 DEF Idle
<1>28. TextsStayOut
  <2> SUFFICES ASSUME NEW j \in Slots, OutOfMemory(j), TextOut(j)
               PROVE  text'[proc[j].text].ccount = 0
    BY DEF TextsStayOut
  <2>1. PICK e : e = proc[j].text
    OBVIOUS
  <2>2. e # g /\ text[e].ccount = 0 /\ e \in Files /\ Image(j)
    BY <1>3, <1>7, <1>10, <2>1, OutApart, Types DEF TextOut, OutOfMemory, Image
  <2>3. freed.t[e] = text[e]
    BY <1>11, <2>2
  <2>4. CASE e # f
    BY <1>18, <2>1, <2>2, <2>3, <2>4
  <2>5. CASE e = f
    <3>1. text[e].count > 0
      BY <2>1, <2>2, TextOf, SlotFacts
    <3> QED BY <1>17, <2>2, <2>3, <2>5, <3>1 DEF Gets
  <2> QED BY <2>4, <2>5
<1>29. wild' = wild
  <2>1. wild = FALSE
    BY <1>7 DEF Sound, TypeOK
  <2> QED BY <1>15, <1>25, <2>1 DEF TypeOK
<1>30. /\ Control' /\ Reasons' /\ ~wild' /\ GoingIn' = GoingIn
       /\ \A j \in Slots : j # i => /\ ImageIn(j)' = ImageIn(j) /\ ImageOut(j)' = ImageOut(j)
                                    /\ (Image(j)' <=> Image(j))
                                    /\ proc'[j].text = proc[j].text
                                    /\ (InMemory(j)' <=> InMemory(j))
  <2>1. pc[i] \notin {"io", "nod"} /\ pc'[i] \notin {"io", "nod", "wait"} /\ pc'[i] \notin Moving
    BY <1>7, <1>19 DEF Moving
  <2> QED BY <1>5, <1>7, <1>22, <1>25, <1>26, <1>27, <1>28, <1>29, <2>1, OneStep
<1>31. /\ ImageIn(i)' = Area(addr, Pages(USIZE)) /\ ImageOut(i)' = {} /\ InMemory(i)' /\ Image(i)'
  <2>1. Image(i)' /\ InMemory(i)'
    BY <1>22, <1>24 DEF Image, InMemory
  <2>2. ImageOut(i)' = {}
    BY <1>22, <1>24 DEF ImageOut
  <2>3. ImageIn(i)' = Area(addr, Pages(USIZE))
    BY <1>19, <1>21, <1>22, <1>24 DEF ImageIn, HeldPages
  <2> QED BY <2>1, <2>2, <2>3
<1>32. Counts'
  <2>1. ASSUME NEW e \in Files
        PROVE  /\ text'[e].count + Uses(i, e) = text[e].count + Uses(i, e)'
               /\ text'[e].ccount + Holds(i, e) = text[e].ccount + Holds(i, e)'
    <3>1. /\ Uses(i, e)' = (IF e = f THEN 1 ELSE 0) /\ Holds(i, e)' = (IF e = f THEN 1 ELSE 0)
          /\ Uses(i, e) = (IF e = g THEN 1 ELSE 0) /\ Holds(i, e) = (IF e = g THEN 1 ELSE 0)
      BY <1>3, <1>10, <1>22, <1>31 DEF Uses, Holds
    <3>2. /\ text[e].ccount \in Nat /\ text[e].count \in Nat
          /\ freed.t[e].ccount \in Nat /\ freed.t[e].count \in Nat
      BY <1>7, <1>11 DEF TextEntries
    <3>3. /\ freed.t[e].count + (IF e = g THEN 1 ELSE 0) = text[e].count
          /\ freed.t[e].ccount + (IF e = g THEN 1 ELSE 0) = text[e].ccount
      <4>1. CASE e # g
        BY <1>11, <3>2, <4>1
      <4>2. CASE e = g
        <5>1. freed.t[e].count = text[e].count - 1 /\ freed.t[e].ccount = text[e].ccount - 1
          BY <1>11, <4>2, SlotFacts
        <5> QED BY <3>2, <4>2, <5>1
      <4> QED BY <4>1, <4>2
    <3>4. /\ text'[e].count = freed.t[e].count + (IF e = f THEN 1 ELSE 0)
          /\ text'[e].ccount = freed.t[e].ccount + (IF e = f THEN 1 ELSE 0)
      BY <1>18, <3>2
    <3> QED BY <3>1, <3>2, <3>3, <3>4
  <2>2. text' \in [Files -> TextEntries]
    BY <1>18
  <2> QED BY <1>7, <1>30, <2>1, <2>2, CountsFollow
<1>33. Divided(mem, MemUse, NPages)'
  <2>1. Images' = [j \in Slots |-> ImageIn(j)']
    BY DEF Images
  <2>2. \A j \in Slots : Images'[j] = cut[j]
    BY <1>12, <1>30, <1>31, <2>1, Parts
  <2>3. Use(Images', TextsOf(text'), GoingIn) = Use(cut, TextsOf(text'), GoingIn)
    <3>1. \A k \in Keys : k[1] = "image" => k[2] \in Slots
      BY DEF Keys, Img, Txt, Inn
    <3> QED BY <2>2, <3>1 DEF Use
  <2>4. MemUse' = Use(Images', TextsOf(text'), GoingIn)
    BY <1>30 DEF MemUse, Texts
  <2> QED BY <1>18, <2>3, <2>4
<1>34. Divided(swap, SwapUse, NBlocks)'
  <2>1. Outs' = Outs
    BY <1>10, <1>30, <1>31, PartsStay
  <2>2. SwapUse' = Use(Outs, CopiesOf(text'), {})
    BY <2>1 DEF SwapUse, Copies
  <2> QED BY <1>18, <2>2
<1> QED BY <1>30, <1>32, <1>33, <1>34 DEF Sound

-----------------------------------------------------------------------------
\* Sched brings a process in

\* What Sched finds that goes on.
LEMMA SchedGoing ==
    ASSUME Sound, NEW label, At(Sched, label)
    PROVE  /\ TypeOK /\ Control /\ BufferOK /\ Reasons /\ Counts /\ Sched \in All
           /\ PlacesOK /\ SchedOK /\ Births /\ text \in [Files -> TextEntries]
           /\ proc \in [All -> ProcEntries] /\ pc \in [All -> Labels] /\ then \in [All -> Nexts]
           /\ pc[Sched] = label /\ chan[Sched] = Awake /\ cpu \in {Sched, NoProc}
           /\ chan \in [All -> Channels]
           /\ \A j \in Slots : proc[j].text \in Files \cup {NoFile} /\ proc[j].size \in Nat
                               /\ proc[j].addr \in Nat
           /\ label # "nod" => \A j \in All : pc[j] # "nod"
<1>1. /\ TypeOK /\ Control /\ BufferOK /\ Reasons /\ Counts /\ Sched \in All
      /\ PlacesOK /\ SchedOK /\ Births
      /\ pc[Sched] = label /\ chan[Sched] = Awake /\ cpu \in {Sched, NoProc}
  BY SlotFacts DEF Sound, Control, At
<1>2. \A j \in Slots : proc[j].text \in Files \cup {NoFile} /\ proc[j].size \in Nat
                       /\ proc[j].addr \in Nat
  BY <1>1, Types, SlotFacts DEF ProcEntries
<1>3. label # "nod" => \A j \in All : pc[j] # "nod"
  BY <1>1, NobodyNods
<1> QED BY <1>1, <1>2, <1>3, Types

\* Who is ready in the swap area.
LEMMA ReadyFacts ==
    ASSUME Sound, NEW i \in Slots, proc[i].stat = "SRUN", ~proc[i].load
    PROVE  /\ pc[i] \in {"user", "text"} /\ chan[i] = Awake /\ then[i] # "forked"
           /\ loc[i].old = 0 /\ loc[i].blk = 0 /\ proc[i].size >= Page /\ Image(i)
           /\ ImageIn(i) = {} /\ ImageOut(i) = Area(proc[i].addr, proc[i].size)
<1>1. PlaceOK(i) /\ proc[i].addr \in Nat
  BY Types, SlotFacts DEF Sound, Control, PlacesOK, ProcEntries
<1>2. /\ pc[i] \in {"user", "text"} /\ chan[i] = Awake /\ then[i] # "forked"
      /\ proc[i].size >= Page /\ Image(i)
  BY <1>1 DEF PlaceOK, Image
<1>3. loc[i].old = 0 /\ loc[i].blk = 0
  <2>1. pc[i] = "user" => loc[i] = NoLoc
    BY <1>1 DEF PlaceOK
  <2> QED BY <1>1, <1>2, <2>1 DEF PlaceOK, NoLoc
<1>4. ImageIn(i) = {}
  BY <1>1, NoArea DEF ImageIn, HeldPages
<1>5. ImageOut(i) = Area(proc[i].addr, proc[i].size)
  BY <1>2 DEF ImageOut
<1> QED BY <1>2, <1>3, <1>4, <1>5

LEMMA InnTakes ==
    ASSUME NEW map, NEW a, NEW t, NEW n \in Nat, Divided(map, Use(a, t, {}), n),
           NEW size \in Nat, size > 0, AllocAddr(map, size) # 0,
           NEW g, g = Area(AllocAddr(map, size), size)
    PROVE  Divided(AllocMap(map, size), Use(a, t, g), n)
<1>1. Changed(Use(a, t, {}), Use(a, t, g), Inn, g)
  BY InnChanged
<1>2. Inn \in DOMAIN Use(a, t, {}) /\ Use(a, t, {})[Inn] = {}
  BY UseFacts
<1>3. g = {} \cup Area(AllocAddr(map, size), size)
  OBVIOUS
<1> QED BY <1>1, <1>2, <1>3, Takes

\* One more process has a text in memory.
LEMMA OneMore ==
    ASSUME text \in [Files -> TextEntries], NEW f \in Files, text[f].ccount > 0,
           NEW t, t = [text EXCEPT ![f].ccount = text[f].ccount + 1]
    PROVE  /\ t \in [Files -> TextEntries]
           /\ \A e \in Files : e # f => t[e] = text[e]
           /\ t[f].count = text[f].count /\ t[f].ccount = text[f].ccount + 1
           /\ TextsOf(t) = TextsOf(text) /\ CopiesOf(t) = CopiesOf(text)
<1>1. text[f] \in TextEntries /\ text[f].ccount \in Nat
  BY DEF TextEntries
<1>2. /\ t[f] = [text[f] EXCEPT !.ccount = text[f].ccount + 1]
      /\ \A e \in Files : e # f => t[e] = text[e]
  OBVIOUS
<1>3. /\ t[f].count = text[f].count /\ t[f].ccount = text[f].ccount + 1
      /\ t[f].caddr = text[f].caddr /\ t[f].daddr = text[f].daddr /\ t[f] \in TextEntries
  BY <1>1, <1>2 DEF TextEntries
<1>4. t \in [Files -> TextEntries]
  BY <1>2, <1>3
<1>5. t[f].ccount > 0
  BY <1>1, <1>3
<1>6. \A e \in Files : /\ t[e].count > 0 <=> text[e].count > 0
                       /\ t[e].ccount > 0 <=> text[e].ccount > 0
                       /\ t[e].caddr = text[e].caddr /\ t[e].daddr = text[e].daddr
  BY <1>2, <1>3, <1>5
<1>7. TextsOf(t) = TextsOf(text) /\ CopiesOf(t) = CopiesOf(text)
  BY <1>6 DEF TextsOf, CopiesOf
<1> QED BY <1>2, <1>3, <1>4, <1>7

LEMMA SchedFoundStep ==
    ASSUME Sound, SchedFound
    PROVE  Sound'
<1>1. PICK i \in Ready :
      /\ At(Sched, "loop") /\ AllocAddr(mem, SizeToGet(i)) # 0
      /\ in' = [sel |-> i, des |-> AllocAddr(mem, SizeToGet(i))]
      /\ mem' = AllocMap(mem, SizeToGet(i))
      /\ pc' = [pc EXCEPT ![Sched] = "swap"] /\ cpu' = Sched
      /\ IF TextOut(i)
         THEN then' = [then EXCEPT ![Sched] = "text in"] /\ text' = text
         ELSE /\ then' = [then EXCEPT ![Sched] = "image in"]
              /\ text' = IF proc[i].text = NoFile THEN text
                    ELSE [text EXCEPT ![proc[i].text].ccount = text[proc[i].text].ccount + 1]
      /\ UNCHANGED <<swap, proc, swbuf, runIn, runOut, chan, loc, lost, wild>>
  BY DEF SchedFound, SwapThen, GoOn, Put, flags
<1>2. /\ TypeOK /\ Control /\ BufferOK /\ Reasons /\ Counts /\ Sched \in All
      /\ PlacesOK /\ SchedOK /\ Births /\ text \in [Files -> TextEntries]
      /\ proc \in [All -> ProcEntries] /\ pc \in [All -> Labels] /\ then \in [All -> Nexts]
      /\ pc[Sched] = "loop" /\ chan[Sched] = Awake
      /\ \A j \in Slots : proc[j].text \in Files \cup {NoFile} /\ proc[j].size \in Nat
      /\ \A j \in All : pc[j] # "nod"
  <2>1. At(Sched, "loop")
    BY <1>1
  <2> QED BY <2>1, SchedGoing
<1>3. /\ i \in Slots /\ i \in All /\ proc[i].stat = "SRUN" /\ ~proc[i].load
      /\ loc[i].blk = 0 /\ proc[i].size >= Page /\ Image(i)
  BY <1>1, ReadyFacts, SlotFacts DEF Ready
<1>4. in = NoIn /\ then[Sched] = "user" /\ in.sel = 0
  BY <1>2 DEF SchedOK, NoIn
<1>5. PICK f : f = proc[i].text
  OBVIOUS
<1>6. f \in Files \cup {NoFile} /\ (f # NoFile => f \in Files /\ text[f].ccount \in Nat)
  <2>1. f \in Files \cup {NoFile}
    BY <1>2, <1>3, <1>5
  <2> QED BY <1>2, <2>1 DEF TextEntries
<1>7. PICK n : n = SizeToGet(i)
  OBVIOUS
<1>8. /\ n \in Nat /\ n > 0
      /\ TextOut(i) => n = Pages(TextSize) + Pages(proc[i].size)
      /\ ~TextOut(i) => n = Pages(proc[i].size)
  <2>1. proc[i].size \in Nat /\ proc[i].size > 0 /\ proc[i].size + 0 = proc[i].size
    BY <1>2, <1>3, PageFacts
  <2>2. /\ Pages(proc[i].size) \in Nat /\ Pages(proc[i].size) > 0 /\ Pages(TextSize) \in Nat
        /\ Pages(proc[i].size + TextSize) = Pages(TextSize) + Pages(proc[i].size)
    BY <2>1, PagesSums
  <2>3. CASE TextOut(i)
    <3>1. n = Pages(proc[i].size + TextSize)
      BY <1>7, <2>3 DEF SizeToGet
    <3> QED BY <2>2, <2>3, <3>1
  <2>4. CASE ~TextOut(i)
    <3>1. n = Pages(proc[i].size + 0)
      BY <1>7, <2>4 DEF SizeToGet
    <3>2. n = Pages(proc[i].size)
      BY <2>1, <3>1
    <3> QED BY <2>2, <2>4, <3>2
  <2> QED BY <2>3, <2>4
<1>9. PICK des : des = AllocAddr(mem, n)
  OBVIOUS
<1>10. des \in Nat /\ des # 0 /\ mem' = AllocMap(mem, n) /\ in'.sel = i /\ in'.des = des
       /\ in' \in [sel : All, des : Nat]
  <2>1. WellFormed(mem)
    BY DEF Sound, Divided
  <2>2. des \in Nat
    BY <1>8, <1>9, <2>1, AllocFacts
  <2>3. in' = [sel |-> i, des |-> des] /\ des # 0 /\ mem' = AllocMap(mem, n)
    BY <1>1, <1>7, <1>9
  <2> QED BY <1>3, <2>2, <2>3
<1>11. /\ pc'[Sched] = "swap" /\ \A j \in All : j # Sched => pc'[j] = pc[j] /\ then'[j] = then[j]
       /\ then'[Sched] = IF TextOut(i) THEN "text in" ELSE "image in"
       /\ pc' \in [All -> Labels] /\ then' \in [All -> Nexts]
  BY <1>1, <1>2 DEF Labels, Nexts
<1>12. /\ text' \in [Files -> TextEntries]
       /\ TextsOf(text') = TextsOf(text) /\ CopiesOf(text') = CopiesOf(text)
       /\ \A e \in Files : text'[e].count = text[e].count
       /\ \A e \in Files : ~TextOut(i) /\ e = f => text'[e].ccount = text[e].ccount + 1
       /\ \A e \in Files : TextOut(i) \/ e # f => text'[e].ccount = text[e].ccount
  <2>1. CASE TextOut(i) \/ f = NoFile
    <3>1. text' = text
      BY <1>1, <1>5, <2>1
    <3>2. \A e \in Files : TextOut(i) \/ e # f
      BY <2>1, SlotFacts
    <3> QED BY <1>2, <3>1, <3>2
  <2>2. CASE ~TextOut(i) /\ f # NoFile
    <3>1. text' = [text EXCEPT ![f].ccount = text[f].ccount + 1]
      BY <1>1, <1>5, <2>2
    <3>2. f \in Files /\ text[f].ccount > 0
      BY <1>5, <1>6, <2>2 DEF TextOut
    <3>3. /\ text' \in [Files -> TextEntries]
          /\ \A e \in Files : e # f => text'[e] = text[e]
          /\ text'[f].count = text[f].count /\ text'[f].ccount = text[f].ccount + 1
          /\ TextsOf(text') = TextsOf(text) /\ CopiesOf(text') = CopiesOf(text)
      BY <1>2, <3>1, <3>2, OneMore
    <3> QED BY <2>2, <3>3
  <2> QED BY <2>1, <2>2
<1>13. TypeOK'
  BY <1>1, <1>2, <1>10, <1>11, <1>12 DEF TypeOK
<1>14. \A j \in Slots : Idle(j) /\ j # Sched
  BY <1>1, <1>11, SlotFacts DEF Idle
<1>15. PlacesOK'
  <2>1. ParentsWait
    BY <1>1 DEF ParentsWait
  <2> QED BY <1>2, <1>14, <2>1, IdleOK DEF PlacesOK
<1>16. SchedOK'
  <2>1. chan'[Sched] = Awake
    BY <1>1, <1>2
  <2>2. then'[Sched] = "text in" => TextOut(i)'
    BY <1>1, <1>11 DEF TextOut
  <2>3. TextOut(in.sel)' = TextOut(i)'
    BY <1>10 DEF TextOut
  <2> QED BY <1>1, <1>2, <1>3, <1>10, <1>11, <2>1, <2>2, <2>3
          DEF SchedOK, Moving, Awake, RunIn, RunOut, SwBuf
<1>17. Births'
  BY <1>2, <1>14, BirthsStay DEF Idle
<1>18. BufferOK' /\ Reasons'
  <2>1. \A j \in All : (pc'[j] = "io") <=> (pc[j] = "io")
    BY <1>2, <1>11
  <2>2. \A j \in All : pc'[j] # "nod"
    BY <1>2, <1>11
  <2>3. \A j \in All : pc'[j] = "wait" => pc[j] = "wait"
    BY <1>11
  <2>4. Ready' = Ready
    BY <1>1 DEF Ready
  <2> QED BY <1>1, <1>2, <2>1, <2>2, <2>3, <2>4, BufferStays, ReasonsStay
<1>19. \A j \in Slots : /\ ImageIn(j)' = ImageIn(j) /\ ImageOut(j)' = ImageOut(j)
                        /\ (Image(j)' <=> Image(j)) /\ proc'[j].text = proc[j].text
                        /\ j # i => (InMemory(j)' <=> InMemory(j))
  <2>1. \A j \in Slots : /\ ImageIn(j)' = ImageIn(j) /\ ImageOut(j)' = ImageOut(j)
                         /\ (Image(j)' <=> Image(j))
    BY <1>14, IdleImages
  <2>2. \A j \in Slots : j # i => (InMemory(j)' <=> InMemory(j))
    BY <1>1, <1>4, <1>10, SlotFacts DEF InMemory, Sched
  <2> QED BY <1>1, <2>1, <2>2
<1>20. ~InMemory(i) /\ (InMemory(i)' <=> ~TextOut(i))
  BY <1>1, <1>3, <1>4, <1>10, <1>11 DEF InMemory
<1>21. Counts'
  <2>1. ASSUME NEW e \in Files
        PROVE  /\ text'[e].count + Uses(i, e) = text[e].count + Uses(i, e)'
               /\ text'[e].ccount + Holds(i, e) = text[e].ccount + Holds(i, e)'
    <3>1. /\ Uses(i, e)' = Uses(i, e) /\ Holds(i, e) = 0
          /\ Holds(i, e)' = (IF e = f /\ ~TextOut(i) THEN 1 ELSE 0)
      BY <1>3, <1>5, <1>19, <1>20 DEF Uses, Holds
    <3>2. text[e].ccount \in Nat
      BY <1>2 DEF TextEntries
    <3>3. text'[e].count = text[e].count
      BY <1>12
    <3>4. text'[e].ccount = text[e].ccount + (IF e = f /\ ~TextOut(i) THEN 1 ELSE 0)
      BY <1>12, <3>2
    <3> QED BY <3>1, <3>2, <3>3, <3>4
  <2> QED BY <1>2, <1>3, <1>12, <1>19, <2>1, CountsFollow
<1>22. Divided(swap, SwapUse, NBlocks)'
  <2>1. Outs' = Outs
    BY <1>19, PartsStay
  <2>2. Copies' = Copies
    BY <1>12 DEF Copies
  <2> QED BY <1>1, <2>1, <2>2, SameUse DEF Sound
<1>23. Divided(mem, MemUse, NPages)'
  <2>1. Images' = Images
    BY <1>19, PartsStay
  <2>2. Texts' = Texts
    BY <1>12 DEF Texts
  <2>3. GoingIn = {}
    BY <1>4 DEF GoingIn
  <2>4. GoingIn' = Area(des, n)
    <3>1. in'.sel # 0 /\ proc' = proc
      BY <1>1, <1>3, <1>10, SlotFacts DEF Sched
    <3>2. CASE TextOut(i)
      <4>1. then'[Sched] = "text in"
        BY <1>11, <3>2
      <4> QED BY <1>8, <1>10, <3>1, <3>2, <4>1 DEF GoingIn
    <3>3. CASE ~TextOut(i)
      <4>1. then'[Sched] = "image in"
        BY <1>11, <3>3
      <4> QED BY <1>8, <1>10, <3>1, <3>3, <4>1 DEF GoingIn
    <3> QED BY <3>2, <3>3
  <2>5. Divided(mem, Use(Images, Texts, {}), NPages) /\ NPages \in Nat
    BY <2>3, Parts DEF Sound
  <2>6. AllocAddr(mem, n) # 0 /\ GoingIn' = Area(AllocAddr(mem, n), n)
    BY <1>9, <1>10, <2>4
  <2>7. Divided(AllocMap(mem, n), Use(Images, Texts, GoingIn'), NPages)
    BY <1>8, <2>5, <2>6, InnTakes
  <2>8. MemUse' = Use(Images, Texts, GoingIn')
    BY <2>1, <2>2 DEF MemUse
  <2> QED BY <1>10, <2>7, <2>8
<1>24. ~wild'
  BY <1>1 DEF Sound
<1> QED BY <1>13, <1>15, <1>16, <1>17, <1>18, <1>21, <1>22, <1>23, <1>24 DEF Sound, Control

\* Sched hands over to a text, and to an image, what it has for it.
LEMMA TextArrives ==
    ASSUME NEW map, NEW a, NEW t, NEW t2, NEW g, NEW g2, NEW n \in Nat,
           Divided(map, Use(a, t, g), n), NEW f \in Files, NEW A, A \subseteq g, g2 = g \ A,
           \A e \in Files : e # f => t2[e] = t[e], t[f] = {}, t2[f] = A
    PROVE  Divided(map, Use(a, t2, g2), n)
<1>1. Changed(Use(a, t, g), Use(a, t, g2), Inn, g2)
  BY InnChanged
<1>2. Changed(Use(a, t, g2), Use(a, t2, g2), Txt(f), t2[f])
  BY TxtChanged
<1>3. /\ Inn \in DOMAIN Use(a, t, g) /\ Use(a, t, g)[Inn] = g
      /\ Txt(f) \in DOMAIN Use(a, t, g) /\ Use(a, t, g)[Txt(f)] = t[f] /\ Txt(f) # Inn
  BY UseFacts, KeysApart, SlotFacts
<1>4. t2[f] = t[f] \cup A
  OBVIOUS
<1>5. Changed(Use(a, t, g), Use(a, t, g2), Inn, Use(a, t, g)[Inn] \ A)
  BY <1>1, <1>3
<1>6. Changed(Use(a, t, g2), Use(a, t2, g2), Txt(f), Use(a, t, g)[Txt(f)] \cup A)
  BY <1>2, <1>3, <1>4
<1>7. A \subseteq Use(a, t, g)[Inn]
  BY <1>3
<1> QED BY <1>3, <1>5, <1>6, <1>7, Hands

LEMMA ImageArrives ==
    ASSUME NEW map, NEW a, NEW a2, NEW t, NEW g, NEW n \in Nat,
           Divided(map, Use(a, t, g), n), NEW i \in Slots,
           \A j \in Slots : j # i => a2[j] = a[j], a[i] = {}, a2[i] = g
    PROVE  Divided(map, Use(a2, t, {}), n)
<1>1. Changed(Use(a, t, g), Use(a, t, {}), Inn, {})
  BY InnChanged
<1>2. Changed(Use(a, t, {}), Use(a2, t, {}), Img(i), a2[i])
  BY ImgChanged
<1>3. /\ Inn \in DOMAIN Use(a, t, g) /\ Use(a, t, g)[Inn] = g
      /\ Img(i) \in DOMAIN Use(a, t, g) /\ Use(a, t, g)[Img(i)] = a[i]
  BY UseFacts
<1>4. Img(i) # Inn
  BY DEF Img, Inn
<1>5. a2[i] = a[i] \cup g /\ {} = g \ g
  OBVIOUS
<1>6. Changed(Use(a, t, g), Use(a, t, {}), Inn, Use(a, t, g)[Inn] \ g)
  BY <1>1, <1>3, <1>5
<1>7. Changed(Use(a, t, {}), Use(a2, t, {}), Img(i), Use(a, t, g)[Img(i)] \cup g)
  BY <1>2, <1>3, <1>5
<1>8. g \subseteq Use(a, t, g)[Inn]
  BY <1>3
<1> QED BY <1>3, <1>4, <1>6, <1>7, <1>8, Hands

\* Sched lets SwBuf go, and nobody else does anything but being woken.
LEMMA SchedLetsGo ==
    ASSUME Sound, At(Sched, "io"), swbuf' = [busy |-> FALSE, wanted |-> FALSE], Wake(SwapWoken),
           pc'[Sched] \notin {"io", "nod", "wait"}, \A j \in All : j # Sched => pc'[j] = pc[j],
           \A j \in Slots : then'[j] = then[j] /\ loc'[j] = loc[j]
               /\ (proc'[j] = proc[j] \/ (proc'[j].load /\ proc'[j].stat = proc[j].stat
                                          /\ PlaceOK(j)')),
           UNCHANGED <<runIn, runOut, lost>>
    PROVE  /\ PlacesOK' /\ Births' /\ BufferOK' /\ Reasons' /\ chan'[Sched] = Awake
           /\ chan' \in [All -> Channels]
           /\ \A j \in Slots : proc'[j] = proc[j] => Idle(j)
<1>1. /\ Control /\ BufferOK /\ Reasons /\ Sched \in All /\ PlacesOK /\ Births
      /\ pc[Sched] = "io" /\ chan[Sched] = Awake /\ chan \in [All -> Channels]
      /\ \A j \in All : pc[j] # "nod"
  BY SchedGoing
<1>2. /\ \A j \in All : chan'[j] \in {chan[j], Awake} /\ (chan[j] # SwBuf => chan'[j] = chan[j])
      /\ swbuf.wanted => \A j \in All : chan'[j] # SwBuf
      /\ chan' \in [All -> Channels]
  BY <1>1, WokenFacts
<1>3. chan'[Sched] = Awake
  BY <1>1, <1>2 DEF Awake, SwBuf
<1>4. \A j \in Slots : proc'[j] = proc[j] => Idle(j)
  BY <1>2, SlotFacts DEF Idle
<1>5. PlacesOK'
  <2>1. ParentsWait
    BY DEF ParentsWait
  <2> QED BY <1>1, <1>4, <2>1, IdleOK DEF PlacesOK
<1>6. Births'
  <2>1. \A j \in Slots : pc'[j] = pc[j]
    BY SlotFacts
  <2> QED BY <1>1, <2>1, BirthsStay
<1>7. BufferOK'
  <2>1. \A j \in All : pc'[j] # "nod"
    BY <1>1
  <2>2. pc'[Sched] # "io"
    OBVIOUS
  <2> QED BY <1>1, <2>1, <2>2, BufferFreed
<1>8. Reasons'
  <2>1. Ready' \subseteq Ready
    <3>1. \A j \in All : chan'[j] \in {chan[j], Awake}
      BY <1>2
    <3> QED BY <1>1, <3>1, ReadyStays
  <2>2. chan'[Sched] = RunOut => runOut' /\ Ready' = {}
    BY <1>3 DEF Awake, RunOut
  <2>3. \A j \in All : pc'[j] = "wait" => pc[j] = "wait"
    OBVIOUS
  <2> QED BY <1>1, <1>2, <2>2, <2>3, BufferPassed
<1> QED BY <1>2, <1>3, <1>4, <1>5, <1>6, <1>7, <1>8

\* Who is on its way into memory.
LEMMA OnItsWay ==
    ASSUME Sound, At(Sched, "io")
    PROVE  /\ in.sel \in Slots /\ in.sel \in All /\ in.sel # 0 /\ in.des \in Nat
           /\ in \in [sel : All, des : Nat]
           /\ proc[in.sel].stat = "SRUN" /\ ~proc[in.sel].load
           /\ then[Sched] = "text in" => TextOut(in.sel)
           /\ proc[in.sel].size \in Nat /\ proc[in.sel].size >= Page
           /\ Pages(proc[in.sel].size) \in Nat /\ Pages(TextSize) \in Nat
           /\ proc[in.sel].text \in Files \cup {NoFile} /\ proc[in.sel].addr \in Nat
<1>1. SchedOK /\ pc[Sched] = "io" /\ TypeOK
      /\ \A j \in Slots : proc[j].text \in Files \cup {NoFile} /\ proc[j].size \in Nat
                          /\ proc[j].addr \in Nat
  BY SchedGoing
<1>2. /\ in.sel \in Slots
      /\ proc[in.sel].stat = "SRUN" /\ ~proc[in.sel].load
      /\ then[Sched] = "text in" => TextOut(in.sel)
  BY <1>1 DEF SchedOK
<1>3. in \in [sel : All, des : Nat] /\ in.des \in Nat
  BY <1>1, Types
<1>4. in.sel # 0 /\ in.sel \in All
  BY <1>2, SlotFacts DEF Sched
<1>5. proc[in.sel].size >= Page /\ proc[in.sel].size \in Nat
  BY <1>1, <1>2, ReadyFacts
<1>6. Pages(proc[in.sel].size) \in Nat /\ Pages(TextSize) \in Nat
  BY <1>5, PagesSums
<1> QED BY <1>1, <1>2, <1>3, <1>4, <1>5, <1>6

LEMMA SchedTextInStep ==
    ASSUME Sound, SchedTextIn
    PROVE  Sound'
<1>0. PICK i : i = in.sel
  OBVIOUS
<1>1. PICK f : f = proc[i].text
  OBVIOUS
<1>2. /\ At(Sched, "io") /\ then[Sched] = "text in"
      /\ swbuf' = [busy |-> FALSE, wanted |-> FALSE] /\ Wake(SwapWoken)
      /\ text' = [text EXCEPT ![f].caddr = in.des, ![f].ccount = text[f].ccount + 1]
      /\ in' = [in EXCEPT !.des = in.des + Pages(TextSize)]
      /\ pc' = [pc EXCEPT ![Sched] = "swap"] /\ cpu' = Sched
      /\ then' = [then EXCEPT ![Sched] = "image in"]
      /\ UNCHANGED <<mem, swap, proc, runIn, runOut, loc, lost, wild>>
  BY <1>0, <1>1 DEF SchedTextIn, SwapEnds, SwapThen, GoOn, Put, areas
<1>3. At(Sched, "io")
  BY <1>2
<1>4. /\ TypeOK /\ Control /\ Counts /\ Sched \in All
      /\ SchedOK /\ text \in [Files -> TextEntries]
      /\ proc \in [All -> ProcEntries] /\ pc \in [All -> Labels] /\ then \in [All -> Nexts]
  BY <1>3, SchedGoing
<1>5. /\ i \in Slots /\ i \in All /\ i # 0 /\ in.des \in Nat /\ in \in [sel : All, des : Nat]
      /\ proc[i].stat = "SRUN" /\ ~proc[i].load /\ TextOut(i)
      /\ Pages(proc[i].size) \in Nat /\ Pages(TextSize) \in Nat
      /\ f \in Files \cup {NoFile}
  <2>1. /\ in.sel \in Slots /\ in.sel \in All /\ in.sel # 0 /\ in.des \in Nat
        /\ in \in [sel : All, des : Nat]
        /\ proc[in.sel].stat = "SRUN" /\ ~proc[in.sel].load /\ TextOut(in.sel)
        /\ Pages(proc[in.sel].size) \in Nat /\ Pages(TextSize) \in Nat
        /\ proc[in.sel].text \in Files \cup {NoFile}
    BY <1>2, <1>3, OnItsWay
  <2> QED BY <1>0, <1>1, <2>1
<1>6. f \in Files /\ text[f].ccount = 0 /\ text[f] \in TextEntries
  BY <1>1, <1>4, <1>5 DEF TextOut
<1>7. PICK d \in Nat : d = in.des
  BY <1>5
<1>8. PICK p \in Nat : p = Pages(TextSize)
  BY <1>5
<1>9. in'.sel = i /\ in'.des = d + p /\ in' \in [sel : All, des : Nat]
  <2>1. in' = [in EXCEPT !.des = in.des + Pages(TextSize)]
    BY <1>2
  <2>2. PICK e \in Nat : e = d + p
    OBVIOUS
  <2>3. in' = [in EXCEPT !.des = e]
    BY <1>7, <1>8, <2>1, <2>2
  <2>4. in'.sel = in.sel /\ in'.des = e /\ in' \in [sel : All, des : Nat]
    BY <1>5, <2>3
  <2> QED BY <1>0, <2>2, <2>4
<1>10. /\ pc'[Sched] = "swap" /\ \A j \in All : j # Sched => pc'[j] = pc[j] /\ then'[j] = then[j]
       /\ then'[Sched] = "image in" /\ pc' \in [All -> Labels] /\ then' \in [All -> Nexts]
  BY <1>2, <1>4 DEF Labels, Nexts
<1>11. /\ \A e \in Files : e # f => text'[e] = text[e]
       /\ text'[f].count = text[f].count /\ text'[f].ccount = 1 /\ text'[f].caddr = d
       /\ text'[f].daddr = text[f].daddr /\ text' \in [Files -> TextEntries]
  <2>1. /\ text'[f] = [text[f] EXCEPT !.caddr = d, !.ccount = 1]
        /\ \A e \in Files : e # f => text'[e] = text[e]
    <3>1. text' = [text EXCEPT ![f].caddr = d, ![f].ccount = 1]
      <4>1. text' = [text EXCEPT ![f].caddr = in.des, ![f].ccount = text[f].ccount + 1]
        BY <1>2
      <4>2. text[f].ccount + 1 = 1
        BY <1>6
      <4> QED BY <1>7, <4>1, <4>2
    <3> QED BY <1>4, <1>6, <3>1
  <2>2. /\ text'[f].count = text[f].count /\ text'[f].ccount = 1 /\ text'[f].caddr = d
        /\ text'[f].daddr = text[f].daddr /\ text'[f] \in TextEntries
    <3>1. PICK r \in TextEntries : r = text[f]
      BY <1>6
    <3>2. PICK u : u = text'[f]
      OBVIOUS
    <3>3. u = [r EXCEPT !.caddr = d, !.ccount = 1]
      BY <2>1, <3>1, <3>2
    <3>4. u.count = r.count /\ u.ccount = 1 /\ u.caddr = d /\ u.daddr = r.daddr /\ u \in TextEntries
      BY <3>3 DEF TextEntries
    <3> QED BY <3>1, <3>2, <3>4
  <2>3. text' \in [Files -> TextEntries]
    BY <1>2, <1>4, <2>1, <2>2
  <2> QED BY <2>1, <2>2, <2>3
<1>12. /\ PlacesOK' /\ Births' /\ BufferOK' /\ Reasons' /\ chan'[Sched] = Awake
       /\ chan' \in [All -> Channels] /\ \A j \in Slots : Idle(j)
  BY <1>2, <1>10, SchedLetsGo, SlotFacts
<1>13. TypeOK'
  BY <1>2, <1>4, <1>9, <1>10, <1>11, <1>12 DEF TypeOK
<1>14. SchedOK'
  BY <1>2, <1>4, <1>5, <1>9, <1>10, <1>12 DEF SchedOK, Moving, Awake, RunIn, RunOut, SwBuf
<1>15. \A j \in Slots : /\ ImageIn(j)' = ImageIn(j) /\ ImageOut(j)' = ImageOut(j)
                        /\ (Image(j)' <=> Image(j)) /\ proc'[j].text = proc[j].text
                        /\ j # i => (InMemory(j)' <=> InMemory(j))
  <2>1. \A j \in Slots : /\ ImageIn(j)' = ImageIn(j) /\ ImageOut(j)' = ImageOut(j)
                         /\ (Image(j)' <=> Image(j))
    BY <1>12, IdleImages
  <2>2. \A j \in Slots : j # i => (InMemory(j)' <=> InMemory(j))
    BY <1>0, <1>2, <1>9 DEF InMemory
  <2> QED BY <1>2, <2>1, <2>2
<1>16. ~InMemory(i) /\ InMemory(i)' /\ Image(i)
  BY <1>2, <1>5, <1>9, <1>10 DEF InMemory, Image
<1>17. Counts'
  <2>1. ASSUME NEW e \in Files
        PROVE  /\ text'[e].count + Uses(i, e) = text[e].count + Uses(i, e)'
               /\ text'[e].ccount + Holds(i, e) = text[e].ccount + Holds(i, e)'
    <3>1. /\ Uses(i, e)' = Uses(i, e) /\ Holds(i, e) = 0
          /\ Holds(i, e)' = (IF e = f THEN 1 ELSE 0)
      BY <1>1, <1>5, <1>15, <1>16 DEF Uses, Holds
    <3>2. text[e].ccount \in Nat
      BY <1>4 DEF TextEntries
    <3>3. CASE e = f
      BY <1>6, <1>11, <3>1, <3>3
    <3>4. CASE e # f
      BY <1>11, <3>1, <3>2, <3>4
    <3> QED BY <3>3, <3>4
  <2> QED BY <1>4, <1>5, <1>11, <1>15, <2>1, CountsFollow
<1>18. Divided(swap, SwapUse, NBlocks)'
  <2>1. Outs' = Outs
    BY <1>15, PartsStay
  <2>2. \A e \in Files : text'[e].count = text[e].count /\ text'[e].daddr = text[e].daddr
    BY <1>11
  <2>3. Copies' = Copies
    BY <2>2 DEF Copies, CopiesOf
  <2> QED BY <1>2, <2>1, <2>3, SameUse DEF Sound
<1>19. Divided(mem, MemUse, NPages)'
  <2>1. Images' = Images
    BY <1>15, PartsStay
  <2>2. PICK n \in Nat : n = Pages(proc[i].size)
    BY <1>5
  <2>3. GoingIn = Area(d, p + n)
    BY <1>0, <1>2, <1>5, <1>7, <1>8, <2>2 DEF GoingIn
  <2>4. GoingIn' = Area(d + p, n)
    BY <1>2, <1>5, <1>9, <1>10, <2>2 DEF GoingIn
  <2>5. Area(d, p) \subseteq GoingIn /\ GoingIn' = GoingIn \ Area(d, p)
    BY <2>3, <2>4, InArea
  <2>6. \A e \in Files : e # f => TextsOf(text')[e] = TextsOf(text)[e]
    BY <1>11 DEF TextsOf
  <2>7. ~(text[f].ccount > 0) /\ text'[f].ccount > 0
    BY <1>6, <1>11
  <2>8. TextsOf(text)[f] = {} /\ TextsOf(text')[f] = Area(d, p)
    BY <1>6, <1>8, <1>11, <2>7, TextsOfIs
  <2>9. Divided(mem, Use(Images, TextsOf(text), GoingIn), NPages) /\ NPages \in Nat
    BY Parts DEF Sound, Texts
  <2>10. Divided(mem, Use(Images, TextsOf(text'), GoingIn'), NPages)
    BY <1>6, <2>5, <2>6, <2>8, <2>9, TextArrives
  <2>11. MemUse' = Use(Images, TextsOf(text'), GoingIn')
    BY <2>1 DEF MemUse, Texts
  <2> QED BY <1>2, <2>10, <2>11
<1>20. ~wild'
  BY <1>2 DEF Sound
<1> QED BY <1>12, <1>13, <1>14, <1>17, <1>18, <1>19, <1>20 DEF Sound, Control

LEMMA SchedImageInStep ==
    ASSUME Sound, SchedImageIn
    PROVE  Sound'
<1>0. PICK i : i = in.sel
  OBVIOUS
<1>1. PICK d : d = in.des
  OBVIOUS
<1>2. /\ At(Sched, "io") /\ then[Sched] = "image in"
      /\ swbuf' = [busy |-> FALSE, wanted |-> FALSE] /\ Wake(SwapWoken)
      /\ swap' = FreeMap(swap, proc[i].size, proc[i].addr)
      /\ proc' = [proc EXCEPT ![i].addr = d, ![i].load = TRUE]
      /\ in' = NoIn
      /\ pc' = [pc EXCEPT ![Sched] = "loop"] /\ cpu' = Sched
      /\ then' = [then EXCEPT ![Sched] = "user"]
      /\ UNCHANGED <<mem, text, runIn, runOut, loc, lost, wild>>
  BY <1>0, <1>1 DEF SchedImageIn, SwapEnds, GoOn, Put
<1>3. At(Sched, "io")
  BY <1>2
<1>4. /\ TypeOK /\ Control /\ Counts /\ Sched \in All /\ PlacesOK
      /\ SchedOK /\ text \in [Files -> TextEntries]
      /\ proc \in [All -> ProcEntries] /\ pc \in [All -> Labels] /\ then \in [All -> Nexts]
      /\ chan[Sched] = Awake /\ chan \in [All -> Channels]
  BY <1>3, SchedGoing
<1>5. /\ i \in Slots /\ i \in All /\ i # 0 /\ d \in Nat
      /\ proc[i].stat = "SRUN" /\ ~proc[i].load
      /\ proc[i].size \in Nat /\ proc[i].addr \in Nat
      /\ Pages(proc[i].size) \in Nat
  BY <1>0, <1>1, <1>3, OnItsWay
<1>6. /\ pc[i] \in {"user", "text"} /\ chan[i] = Awake /\ then[i] # "forked"
      /\ loc[i].old = 0 /\ loc[i].blk = 0 /\ proc[i].size >= Page /\ Image(i)
      /\ ImageIn(i) = {} /\ ImageOut(i) = Area(proc[i].addr, proc[i].size)
  BY <1>5, ReadyFacts
<1>7. /\ proc'[i] = [proc[i] EXCEPT !.addr = d, !.load = TRUE]
      /\ \A j \in All : j # i => proc'[j] = proc[j]
  BY <1>2, <1>4, <1>5
<1>8. /\ proc'[i].addr = d /\ proc'[i].load /\ proc'[i].stat = "SRUN"
      /\ proc'[i].size = proc[i].size /\ proc'[i].text = proc[i].text /\ proc'[i] \in ProcEntries
  <2>1. PICK r \in ProcEntries : r = proc[i]
    BY <1>4, <1>5
  <2>2. PICK u : u = proc'[i]
    OBVIOUS
  <2>3. u = [r EXCEPT !.addr = d, !.load = TRUE]
    BY <1>7, <2>1, <2>2
  <2>4. /\ u.addr = d /\ u.load = TRUE /\ u.stat = r.stat /\ u.size = r.size /\ u.text = r.text
        /\ u \in ProcEntries
    BY <1>5, <2>3 DEF ProcEntries
  <2> QED BY <1>5, <2>1, <2>2, <2>4
<1>9. /\ pc'[Sched] = "loop" /\ \A j \in All : j # Sched => pc'[j] = pc[j] /\ then'[j] = then[j]
      /\ then'[Sched] = "user" /\ pc' \in [All -> Labels] /\ then' \in [All -> Nexts]
  BY <1>2, <1>4 DEF Labels, Nexts
<1>10. i # Sched /\ \A j \in Slots : j # Sched
  BY <1>5, SlotFacts
<1>11. chan'[i] = Awake
  BY <1>2, <1>4, <1>5, <1>6, WokenFacts DEF Awake, SwBuf
<1>12. PlaceOK(i)'
  <2>1. PlaceOK(i)
    BY <1>4, <1>5 DEF PlacesOK
  <2>2. pc'[i] = pc[i] /\ then'[i] = then[i] /\ loc'[i] = loc[i]
    BY <1>2, <1>5, <1>9, <1>10
  <2> QED BY <1>5, <1>6, <1>8, <1>11, <2>1, <2>2 DEF PlaceOK, Moving, Awake, Event, SwBuf
<1>13. /\ PlacesOK' /\ Births' /\ BufferOK' /\ Reasons' /\ chan'[Sched] = Awake
       /\ chan' \in [All -> Channels] /\ \A j \in Slots : proc'[j] = proc[j] => Idle(j)
  <2>1. \A j \in Slots : then'[j] = then[j] /\ loc'[j] = loc[j]
               /\ (proc'[j] = proc[j] \/ (proc'[j].load /\ proc'[j].stat = proc[j].stat
                                          /\ PlaceOK(j)'))
    <3> TAKE j \in Slots
    <3>1. then'[j] = then[j] /\ loc'[j] = loc[j]
      BY <1>2, <1>9, <1>10, SlotFacts
    <3>2. CASE j = i
      BY <1>5, <1>8, <1>12, <3>1, <3>2
    <3>3. CASE j # i
      BY <1>7, <3>1, <3>3, SlotFacts
    <3> QED BY <3>2, <3>3
  <2> QED BY <1>2, <1>9, <2>1, SchedLetsGo
<1>14. TypeOK'
  <2>1. proc' \in [All -> ProcEntries]
    BY <1>2, <1>4, <1>7, <1>8
  <2>2. in' \in [sel : All, des : Nat]
    BY <1>2, SlotFacts DEF NoIn, Sched
  <2>3. swbuf' \in [busy : BOOLEAN, wanted : BOOLEAN]
    BY <1>2
  <2> QED BY <1>2, <1>4, <1>9, <1>13, <2>1, <2>2, <2>3 DEF TypeOK
<1>15. SchedOK'
  <2>1. proc'[Sched] = proc[Sched]
    BY <1>4, <1>7, <1>10
  <2> QED BY <1>2, <1>4, <1>9, <1>13, <2>1 DEF SchedOK, Moving, Awake, RunIn, RunOut, SwBuf
<1>16. \A j \in Slots : j # i => /\ ImageIn(j)' = ImageIn(j) /\ ImageOut(j)' = ImageOut(j)
                                 /\ (Image(j)' <=> Image(j)) /\ proc'[j].text = proc[j].text
                                 /\ (InMemory(j)' <=> InMemory(j))
  <2> SUFFICES ASSUME NEW j \in Slots, j # i
               PROVE  /\ ImageIn(j)' = ImageIn(j) /\ ImageOut(j)' = ImageOut(j)
                      /\ (Image(j)' <=> Image(j)) /\ proc'[j].text = proc[j].text
                      /\ (InMemory(j)' <=> InMemory(j))
    OBVIOUS
  <2>1. proc'[j] = proc[j] /\ Idle(j)
    BY <1>7, <1>13, SlotFacts
  <2>2. InMemory(j)' <=> InMemory(j)
    BY <1>0, <1>2, <1>9, <2>1 DEF InMemory
  <2> QED BY <2>1, <2>2, IdleImages
<1>17. /\ InMemory(i) /\ InMemory(i)' /\ Image(i)' /\ ImageOut(i)' = {}
       /\ ImageIn(i)' = Area(d, Pages(proc[i].size))
  <2>1. loc'[i].blk = 0 /\ proc'[i].stat = "SRUN" /\ proc'[i].load
    BY <1>2, <1>6, <1>8
  <2>2. InMemory(i)
    <3>1. in.sel = i /\ then[Sched] = "image in"
      BY <1>0, <1>2
    <3> QED BY <3>1 DEF InMemory
  <2>3. InMemory(i)'
    BY <2>1 DEF InMemory
  <2>4. Image(i)'
    BY <2>1 DEF Image
  <2>5. ImageOut(i)' = {}
    BY <2>1 DEF ImageOut
  <2>6. ImageIn(i)' = Area(d, Pages(proc[i].size))
    <3>1. then'[i] # "forked" /\ loc'[i].old = 0
      BY <1>2, <1>5, <1>6, <1>9, <1>10
    <3> QED BY <1>8, <3>1 DEF ImageIn, HeldPages
  <2> QED BY <2>2, <2>3, <2>4, <2>5, <2>6
<1>18. Counts'
  <2>1. \A j \in Slots : /\ Image(j)' <=> Image(j)
                         /\ proc'[j].text = proc[j].text
                         /\ InMemory(j)' <=> InMemory(j)
    BY <1>6, <1>8, <1>16, <1>17
  <2> QED BY <1>2, <1>4, <2>1, CountsStay
<1>19. Divided(swap, SwapUse, NBlocks)'
  <2>1. Outs' = [j \in Slots |-> ImageOut(j)']
    BY DEF Outs
  <2>2. PICK size \in Nat : size = proc[i].size
    BY <1>5
  <2>3. PICK addr \in Nat : addr = proc[i].addr
    BY <1>5
  <2>4. /\ \A j \in Slots : j # i => Outs'[j] = Outs[j]
        /\ Area(addr, size) \subseteq Outs[i] /\ Outs'[i] = Outs[i] \ Area(addr, size)
    BY <1>5, <1>6, <1>16, <1>17, <2>1, <2>2, <2>3, Parts
  <2>5. Divided(swap, Use(Outs, Copies, {}), NBlocks) /\ NBlocks \in Nat
    BY Parts DEF Sound
  <2>6. Divided(FreeMap(swap, size, addr), Use(Outs', Copies, {}), NBlocks)
    BY <1>5, <2>4, <2>5, ImageGives
  <2>7. Copies' = Copies
    BY <1>2, PartsStay
  <2>8. SwapUse' = Use(Outs', Copies, {})
    BY <2>7 DEF SwapUse
  <2>9. swap' = FreeMap(swap, size, addr)
    BY <1>2, <2>2, <2>3
  <2> QED BY <2>6, <2>8, <2>9
<1>20. Divided(mem, MemUse, NPages)'
  <2>1. Images' = [j \in Slots |-> ImageIn(j)']
    BY DEF Images
  <2>2. GoingIn = Area(d, Pages(proc[i].size)) /\ GoingIn' = {}
    BY <1>0, <1>1, <1>2, <1>5 DEF GoingIn, NoIn
  <2>3. /\ \A j \in Slots : j # i => Images'[j] = Images[j]
        /\ Images[i] = {} /\ Images'[i] = GoingIn
    BY <1>5, <1>6, <1>16, <1>17, <2>1, <2>2, Parts
  <2>4. Divided(mem, Use(Images, Texts, GoingIn), NPages) /\ NPages \in Nat
    BY Parts DEF Sound
  <2>5. Divided(mem, Use(Images', Texts, {}), NPages)
    BY <1>5, <2>3, <2>4, ImageArrives
  <2>6. Texts' = Texts
    BY <1>2, PartsStay
  <2>7. MemUse' = Use(Images', Texts, {})
    BY <2>2, <2>6 DEF MemUse
  <2> QED BY <1>2, <2>5, <2>7
<1>21. ~wild'
  BY <1>2 DEF Sound
<1> QED BY <1>13, <1>14, <1>15, <1>18, <1>19, <1>20, <1>21 DEF Sound, Control

-----------------------------------------------------------------------------
\* The first state

LEMMA OneAreaFacts ==
    ASSUME NEW n \in Nat, n > 0
    PROVE  /\ WellFormed(OneArea(1, n)) /\ Cells(OneArea(1, n)) = 1..n
           /\ \A size \in 1..n : AllocAddr(OneArea(1, n), size) # 0
<1> DEFINE map == OneArea(1, n)
<1>1. /\ map = << [addr |-> 1, size |-> n] >> /\ Len(map) = 1 /\ DOMAIN map = {1}
      /\ map[1].addr = 1 /\ map[1].size = n /\ map \in Seq([addr : Nat \ {0}, size : Nat \ {0}])
  BY DEF OneArea
<1> HIDE DEF map
<1>2. WellFormed(map)
  BY <1>1 DEF WellFormed
<1>3. Cells(map) = 1..n
  <2>1. Cells(map) = Area(1, n)
    BY <1>1 DEF Cells
  <2> QED BY <2>1 DEF Area
<1>4. ASSUME NEW size \in 1..n  PROVE AllocAddr(map, size) # 0
  <2>1. Fits(map, size) = {1}
    BY <1>1 DEF Fits
  <2>2. First(map, size) = 1
    BY <2>1 DEF First
  <2> QED BY <1>1, <2>1, <2>2 DEF AllocAddr
<1> QED BY <1>2, <1>3, <1>4 DEF map

\* Nobody has anything.
LEMMA NobodyHas ==
    ASSUME NEW n \in Nat, n > 0, NEW a, NEW t, \A i \in Slots : a[i] = {},
           \A f \in Files : t[f] = {}
    PROVE  Divided(OneArea(1, n), Use(a, t, {}), n)
<1>1. DOMAIN Use(a, t, {}) = Keys /\ \A k \in Keys : Use(a, t, {})[k] = {}
  BY UseFacts, KeysApart
<1>2. WellFormed(OneArea(1, n)) /\ Cells(OneArea(1, n)) = 1..n
  BY OneAreaFacts
<1> QED BY <1>1, <1>2 DEF Divided

LEMMA InitSound ==
    ASSUME Init
    PROVE  Sound
<1>0. PICK first : first = OneArea(1, NPages)
  OBVIOUS
<1>1. /\ mem = AllocMap(first, Pages(USIZE))
      /\ proc = [i \in 0..(NPROC - 1) |->
             CASE i = Sched -> [Free EXCEPT !.stat = "SRUN", !.load = TRUE]
               [] i = 1 -> [Free EXCEPT !.stat = "SRUN", !.load = TRUE, !.size = USIZE,
                                        !.addr = AllocAddr(first, Pages(USIZE))]
               [] OTHER -> Free]
      /\ swap = OneArea(1, NBlocks)
      /\ text = [f \in Files |-> NoText]
      /\ swbuf = [busy |-> FALSE, wanted |-> FALSE] /\ runIn = FALSE /\ runOut = FALSE
      /\ cpu = NoProc
      /\ pc = [i \in 0..(NPROC - 1) |->
                 CASE i = Sched -> "loop" [] i = 1 -> "user" [] OTHER -> "none"]
      /\ chan = [i \in 0..(NPROC - 1) |-> Awake]
      /\ then = [i \in 0..(NPROC - 1) |-> "user"]
      /\ loc = [i \in 0..(NPROC - 1) |-> NoLoc] /\ in = NoIn
      /\ lost = FALSE /\ wild = FALSE
  BY <1>0 DEF Init
<1>2. /\ Pages(USIZE) = 1 /\ NPages \in Nat /\ NPages > 0 /\ NBlocks \in Nat /\ NBlocks > 0
      /\ USIZE \in Nat /\ USIZE = Page /\ Page > 0
  BY PagesSums, PageFacts, SwappingAssumption DEF USIZE
<1>3. PICK addr : addr = AllocAddr(first, 1)
  OBVIOUS
<1>4. addr \in Nat /\ addr # 0 /\ mem = AllocMap(first, 1)
  <2>1. WellFormed(first) /\ AllocAddr(first, 1) # 0
    BY <1>0, <1>2, OneAreaFacts
  <2>2. addr \in Nat
    BY <1>3, <2>1, AllocFacts
  <2> QED BY <1>1, <1>2, <1>3, <2>1, <2>2
<1>5. /\ 1 \in All /\ Sched \in All /\ Sched = 0 /\ 1 \in Slots
      /\ All = 0..(NPROC - 1) /\ \A j \in Slots : j \in All /\ j # Sched
  BY SlotFacts DEF All, Sched
<1>6. proc = [i \in All |->
             CASE i = Sched -> [Free EXCEPT !.stat = "SRUN", !.load = TRUE]
               [] i = 1 -> [Free EXCEPT !.stat = "SRUN", !.load = TRUE, !.size = USIZE,
                                        !.addr = addr]
               [] OTHER -> Free]
  BY <1>1, <1>2, <1>3, <1>5
<1>7. /\ proc[Sched] = [Free EXCEPT !.stat = "SRUN", !.load = TRUE]
      /\ proc[1] = [Free EXCEPT !.stat = "SRUN", !.load = TRUE, !.size = USIZE, !.addr = addr]
      /\ \A j \in All : j # Sched /\ j # 1 => proc[j] = Free
  <2>1. Sched # 1
    BY DEF Sched
  <2> QED BY <1>5, <1>6, <2>1
<1>8. /\ proc[Sched].stat = "SRUN" /\ proc[Sched].load /\ proc[Sched] \in ProcEntries
      /\ proc[Sched].text = NoFile
  <2>1. proc[Sched].stat = "SRUN" /\ proc[Sched].load /\ proc[Sched].text = NoFile
    BY <1>7 DEF Free
  <2>2. proc[Sched] = [stat |-> "SRUN", load |-> TRUE, addr |-> 0, size |-> 0, text |-> NoFile]
    BY <1>7 DEF Free
  <2>3. proc[Sched] \in ProcEntries
    BY <2>2 DEF ProcEntries
  <2> QED BY <2>1, <2>3
<1>9. /\ proc[1].stat = "SRUN" /\ proc[1].load /\ proc[1] \in ProcEntries
      /\ proc[1].text = NoFile /\ proc[1].size = USIZE /\ proc[1].addr = addr
  BY <1>2, <1>4, <1>7 DEF Free, ProcEntries
<1>10. \A j \in Slots : j # 1 => /\ proc[j].stat = "SNULL" /\ ~proc[j].load /\ proc[j].text = NoFile
                                 /\ proc[j] \in ProcEntries /\ proc[j].addr = 0
  <2>1. Free \in ProcEntries
    BY DEF Free, ProcEntries
  <2> QED BY <1>5, <1>7, <2>1 DEF Free
<1>11. /\ pc[Sched] = "loop" /\ pc[1] = "user" /\ \A j \in Slots : j # 1 => pc[j] = "none"
       /\ \A j \in All : chan[j] = Awake /\ then[j] = "user" /\ loc[j] = NoLoc
       /\ \A j \in All : pc[j] \in {"loop", "user", "none"}
  <2>1. Sched # 1
    BY DEF Sched
  <2> QED BY <1>1, <1>5, <2>1
<1>12. TypeOK
  <2>1. proc \in [All -> ProcEntries]
    <3>1. \A j \in All : proc[j] \in ProcEntries
      BY <1>8, <1>9, <1>10, SlotFacts
    <3> QED BY <1>6, <3>1
  <2>2. text \in [Files -> TextEntries]
    BY <1>1 DEF NoText, TextEntries
  <2>3. pc \in [All -> Labels] /\ chan \in [All -> Channels] /\ then \in [All -> Nexts]
    BY <1>1, <1>5, <1>11 DEF Labels, Channels, Nexts
  <2>4. loc \in [All -> Locals] /\ in \in [sel : All, des : Nat]
    <3>1. NoLoc \in Locals /\ NoIn \in [sel : All, des : Nat]
      BY <1>5 DEF NoLoc, Locals, NoIn
    <3> QED BY <1>1, <1>5, <3>1
  <2> QED BY <1>1, <2>1, <2>2, <2>3, <2>4 DEF TypeOK
<1>13. PlacesOK
  <2> SUFFICES ASSUME NEW j \in Slots  PROVE PlaceOK(j)
    BY DEF PlacesOK
  <2>1. chan[j] = Awake /\ then[j] = "user" /\ loc[j] = NoLoc
    BY <1>5, <1>11
  <2>2. CASE j = 1
    <3>1. pc[j] = "user" /\ proc[j].stat = "SRUN" /\ proc[j].load /\ proc[j].size >= Page
      BY <1>2, <1>9, <1>11, <2>2
    <3> QED BY <2>1, <3>1 DEF PlaceOK, Moving, Awake, Event, SwBuf
  <2>3. CASE j # 1
    <3>1. pc[j] = "none" /\ proc[j].stat = "SNULL" /\ ~proc[j].load /\ proc[j].text = NoFile
      BY <1>10, <1>11, <2>3
    <3> QED BY <2>1, <3>1 DEF PlaceOK, Moving, Awake, Event, SwBuf
  <2> QED BY <2>2, <2>3
<1>14. SchedOK
  BY <1>1, <1>5, <1>8, <1>11 DEF SchedOK, Awake, RunIn, RunOut, SwBuf
<1>15. Births /\ BufferOK
  BY <1>1, <1>5, <1>11 DEF Births, BufferOK, Moving
<1>16. Reasons
  BY <1>5, <1>11 DEF Reasons, Awake, RunIn, RunOut
<1>17. Counts
  <2>1. \A j \in Slots : proc[j].text = NoFile
    BY <1>9, <1>10
  <2>2. \A f \in Files : Users(f) = {} /\ Resident(f) = {}
    BY <2>1, SlotFacts DEF Users, Resident
  <2>3. \A f \in Files : text[f].count = 0 /\ text[f].ccount = 0
    BY <1>1 DEF NoText
  <2> QED BY <2>2, <2>3, FS_EmptySet DEF Counts
<1>18. TextsOf(text) = [f \in Files |-> {}] /\ CopiesOf(text) = [f \in Files |-> {}] /\ GoingIn = {}
  <2>1. \A f \in Files : ~(text[f].count > 0) /\ ~(text[f].ccount > 0)
    BY <1>1 DEF NoText
  <2>2. in.sel = 0
    BY <1>1 DEF NoIn
  <2> QED BY <2>1, <2>2 DEF TextsOf, CopiesOf, GoingIn
<1>19. /\ ImageIn(1) = Area(addr, 1) /\ \A j \in Slots : j # 1 => ImageIn(j) = {}
       /\ \A j \in Slots : ImageOut(j) = {}
  <2>1. \A j \in All : loc[j].old = 0 /\ loc[j].blk = 0
    BY <1>11 DEF NoLoc
  <2>2. ImageIn(1) = Area(addr, 1)
    BY <1>2, <1>5, <1>9, <1>11, <2>1 DEF ImageIn, HeldPages
  <2>3. \A j \in Slots : j # 1 => ImageIn(j) = {}
    BY <1>10, NoArea DEF ImageIn, HeldPages
  <2>4. \A j \in Slots : ImageOut(j) = {}
    BY <1>5, <1>9, <1>10, <2>1 DEF ImageOut, Image
  <2> QED BY <2>2, <2>3, <2>4
<1>20. Divided(swap, SwapUse, NBlocks)
  <2>1. \A j \in Slots : Outs[j] = {}
    BY <1>19, Parts
  <2>2. \A f \in Files : Copies[f] = {}
    BY <1>18 DEF Copies
  <2> QED BY <1>1, <1>2, <2>1, <2>2, NobodyHas, Parts
<1>21. Divided(mem, MemUse, NPages)
  <2> DEFINE none == [j \in Slots |-> {}]
  <2>1. \A j \in Slots : none[j] = {}
    OBVIOUS
  <2> HIDE DEF none
  <2>2. \A f \in Files : Texts[f] = {}
    BY <1>18 DEF Texts
  <2>3. Divided(first, Use(none, Texts, {}), NPages)
    BY <1>0, <1>2, <2>1, <2>2, NobodyHas
  <2>4. \A j \in Slots : j # 1 => Images[j] = none[j]
    BY <1>19, <2>1, Parts
  <2>5. Images[1] = none[1] \cup Area(AllocAddr(first, 1), 1)
    BY <1>3, <1>5, <1>19, <2>1, Parts
  <2>6. AllocAddr(first, 1) # 0
    BY <1>3, <1>4
  <2>7. Divided(AllocMap(first, 1), Use(Images, Texts, {}), NPages)
    BY <1>2, <1>5, <2>3, <2>4, <2>5, <2>6, ImageTakes
  <2> QED BY <1>4, <1>18, <2>7 DEF MemUse
<1> QED BY <1>1, <1>12, <1>13, <1>14, <1>15, <1>16, <1>17, <1>20, <1>21 DEF Sound, Control

-----------------------------------------------------------------------------
\* Regions and users

\* Each region is what one user has, and who has something has one region.
LEMMA RegionsExact ==
    ASSUME NEW map, NEW use, NEW n \in Nat, Divided(map, use, n), NEW regions, NEW key,
           \A r \in regions : key[r] \in DOMAIN use /\ Area(r.addr, r.size) = use[key[r]],
           \A r, s \in regions : key[r] = key[s] => r = s,
           \A k \in DOMAIN use : use[k] # {} => \E r \in regions : key[r] = k
    PROVE  Exact(map, regions, n)
<1> DEFINE all == UNION {Area(r.addr, r.size) : r \in regions}
<1>1. ASSUME NEW x \in all  PROVE x \in (1..n) \ Cells(map)
  <2>1. PICK r \in regions : x \in Area(r.addr, r.size)
    OBVIOUS
  <2>2. key[r] \in DOMAIN use /\ x \in use[key[r]]
    BY <2>1
  <2> QED BY <2>2 DEF Divided
<1>2. ASSUME NEW x \in (1..n) \ Cells(map)  PROVE x \in all
  <2>1. PICK k \in DOMAIN use : x \in use[k]
    BY DEF Divided
  <2>2. PICK r \in regions : key[r] = k
    BY <2>1
  <2>3. x \in Area(r.addr, r.size)
    BY <2>1, <2>2
  <2> QED BY <2>3
<1>3. all = (1..n) \ Cells(map)
  BY <1>1, <1>2
<1>4. ASSUME NEW r \in regions, NEW s \in regions, r # s
      PROVE  Area(r.addr, r.size) \cap Area(s.addr, s.size) = {}
  <2>1. key[r] # key[s] /\ key[r] \in DOMAIN use /\ key[s] \in DOMAIN use
    BY <1>4
  <2>2. Area(r.addr, r.size) = use[key[r]] /\ Area(s.addr, s.size) = use[key[s]]
    OBVIOUS
  <2> QED BY <2>1, <2>2 DEF Divided
<1> QED BY <1>3, <1>4 DEF Exact

\* The regions of memory.
InImage(i) == [of |-> <<"image", i>>, addr |-> proc[i].addr, size |-> HeldPages(i)]
InText(f)  == [of |-> <<"text", f>>, addr |-> text[f].caddr, size |-> Pages(TextSize)]
Coming     == [of |-> <<"in", in.sel>>, addr |-> in.des,
               size |-> IF then[Sched] = "text in" THEN SizeToGet(in.sel)
                        ELSE Pages(proc[in.sel].size)]

LEMMA MemRegionsAre ==
    \A r : r \in MemRegions <=> \/ \E i \in Slots : Image(i) /\ HeldPages(i) > 0 /\ r = InImage(i)
                                \/ \E f \in Files : text[f].ccount > 0 /\ r = InText(f)
                                \/ in.sel # 0 /\ r = Coming
<1> DEFINE images == {InImage(i) : i \in {j \in Slots : Image(j) /\ HeldPages(j) > 0}}
           texts  == {InText(f) : f \in {g \in Files : text[g].ccount > 0}}
           coming == IF in.sel = 0 THEN {} ELSE {Coming}
<1>1. MemRegions = images \cup texts \cup coming
  BY DEF MemRegions, InImage, InText, Coming
<1>2. \A r : r \in images <=> \E i \in Slots : Image(i) /\ HeldPages(i) > 0 /\ r = InImage(i)
  OBVIOUS
<1>3. \A r : r \in texts <=> \E f \in Files : text[f].ccount > 0 /\ r = InText(f)
  OBVIOUS
<1>4. \A r : r \in coming <=> in.sel # 0 /\ r = Coming
  OBVIOUS
<1> HIDE DEF images, texts, coming
<1> QED BY <1>1, <1>2, <1>3, <1>4

LEMMA MemoryIsExact ==
    ASSUME Sound
    PROVE  MemoryExact
<1> DEFINE key == [r \in MemRegions |-> IF r.of[1] = "in" THEN Inn ELSE r.of]
<1>1. /\ TypeOK /\ SchedOK /\ PlacesOK /\ Divided(mem, MemUse, NPages) /\ NPages \in Nat
      /\ text \in [Files -> TextEntries]
  BY Types, Parts DEF Sound, Control
<1>2. /\ DOMAIN MemUse = Keys
      /\ \A i \in Slots : MemUse[Img(i)] = ImageIn(i) /\ Img(i) \in Keys
      /\ \A f \in Files : MemUse[Txt(f)] = Texts[f] /\ Txt(f) \in Keys
      /\ MemUse[Inn] = GoingIn /\ Inn \in Keys
  BY UseFacts, Parts
<1>3. \A i \in Slots : InImage(i) \in MemRegions => key[InImage(i)] = Img(i)
  BY DEF InImage, Img
<1>4. \A f \in Files : InText(f) \in MemRegions => key[InText(f)] = Txt(f)
  BY DEF InText, Txt
<1>5. Coming \in MemRegions => key[Coming] = Inn
  BY DEF Coming, Inn
<1> HIDE DEF key
<1>6. \A i \in Slots : Area(InImage(i).addr, InImage(i).size) = ImageIn(i)
  BY DEF InImage, ImageIn
<1>7. \A f \in Files : text[f].ccount > 0 => Area(InText(f).addr, InText(f).size) = Texts[f]
  BY TextsOfIs DEF InText, Texts
<1>8. in.sel # 0 => Area(Coming.addr, Coming.size) = GoingIn
  <2> SUFFICES ASSUME in.sel # 0  PROVE Area(Coming.addr, Coming.size) = GoingIn
    OBVIOUS
  <2>0. pc[Sched] # "loop"
    <3>1. pc[Sched] = "loop" => in = NoIn
      BY <1>1 DEF SchedOK
    <3>2. NoIn.sel = 0
      BY DEF NoIn
    <3> QED BY <3>1, <3>2
  <2>1. /\ in.sel \in Slots /\ then[Sched] \in {"text in", "image in"}
        /\ then[Sched] = "text in" => TextOut(in.sel)
    BY <1>1, <2>0 DEF SchedOK
  <2>2. proc[in.sel].size \in Nat
    BY <1>1, <2>1, Types, SlotFacts DEF ProcEntries
  <2>3. then[Sched] = "text in" => SizeToGet(in.sel) = Pages(TextSize) + Pages(proc[in.sel].size)
    BY <2>1, <2>2, PagesSums DEF SizeToGet
  <2> QED BY <2>3 DEF Coming, GoingIn
<1>9. \A r \in MemRegions : key[r] \in DOMAIN MemUse /\ Area(r.addr, r.size) = MemUse[key[r]]
  <2> TAKE r \in MemRegions
  <2>1. ASSUME NEW i \in Slots, r = InImage(i)
        PROVE  key[r] \in DOMAIN MemUse /\ Area(r.addr, r.size) = MemUse[key[r]]
    BY <1>2, <1>3, <1>6, <2>1
  <2>2. ASSUME NEW f \in Files, text[f].ccount > 0, r = InText(f)
        PROVE  key[r] \in DOMAIN MemUse /\ Area(r.addr, r.size) = MemUse[key[r]]
    BY <1>2, <1>4, <1>7, <2>2
  <2>3. ASSUME in.sel # 0, r = Coming
        PROVE  key[r] \in DOMAIN MemUse /\ Area(r.addr, r.size) = MemUse[key[r]]
    BY <1>2, <1>5, <1>8, <2>3
  <2> QED BY <2>1, <2>2, <2>3, MemRegionsAre
<1>10. \A r, s \in MemRegions : key[r] = key[s] => r = s
  <2> SUFFICES ASSUME NEW r \in MemRegions, NEW s \in MemRegions, key[r] = key[s]
               PROVE  r = s
    OBVIOUS
  <2>1. ASSUME NEW q \in MemRegions
        PROVE  \/ \E i \in Slots : q = InImage(i) /\ key[q] = Img(i)
               \/ \E f \in Files : q = InText(f) /\ key[q] = Txt(f)
               \/ q = Coming /\ key[q] = Inn
    <3>1. ASSUME NEW i \in Slots, q = InImage(i)  PROVE key[q] = Img(i)
      BY <1>3, <2>1, <3>1
    <3>2. ASSUME NEW f \in Files, q = InText(f)  PROVE key[q] = Txt(f)
      BY <1>4, <2>1, <3>2
    <3>3. ASSUME q = Coming  PROVE key[q] = Inn
      BY <1>5, <2>1, <3>3
    <3>4. (\E i \in Slots : q = InImage(i)) \/ (\E f \in Files : q = InText(f)) \/ q = Coming
      <4>1. q \in MemRegions <=>
                \/ \E i \in Slots : Image(i) /\ HeldPages(i) > 0 /\ q = InImage(i)
                \/ \E f \in Files : text[f].ccount > 0 /\ q = InText(f)
                \/ in.sel # 0 /\ q = Coming
        BY MemRegionsAre, Zenon
      <4> QED BY <2>1, <4>1, Zenon
    <3> QED BY <3>1, <3>2, <3>3, <3>4
  <2>2. ASSUME NEW i \in Slots, r = InImage(i), key[r] = Img(i)  PROVE r = s
    <3>1. \A f \in Files : key[s] # Txt(f)
      BY <2>2, KeysApart
    <3>2. key[s] # Inn
      BY <2>2 DEF Img, Inn
    <3>3. PICK j \in Slots : s = InImage(j) /\ key[s] = Img(j)
      BY <2>1, <3>1, <3>2
    <3>4. j = i
      BY <2>2, <3>3, KeysApart
    <3> QED BY <2>2, <3>3, <3>4
  <2>3. ASSUME NEW f \in Files, r = InText(f), key[r] = Txt(f)  PROVE r = s
    <3>1. \A i \in Slots : key[s] # Img(i)
      BY <2>3, KeysApart
    <3>2. key[s] # Inn
      BY <2>3 DEF Txt, Inn
    <3>3. PICK e \in Files : s = InText(e) /\ key[s] = Txt(e)
      BY <2>1, <3>1, <3>2
    <3>4. e = f
      BY <2>3, <3>3, KeysApart
    <3> QED BY <2>3, <3>3, <3>4
  <2>4. ASSUME r = Coming, key[r] = Inn  PROVE r = s
    <3>1. \A i \in Slots : key[s] # Img(i)
      BY <2>4 DEF Img, Inn
    <3>2. \A f \in Files : key[s] # Txt(f)
      BY <2>4 DEF Txt, Inn
    <3> QED BY <2>1, <2>4, <3>1, <3>2
  <2> QED BY <2>1, <2>2, <2>3, <2>4
<1>11. ASSUME NEW k \in DOMAIN MemUse, MemUse[k] # {}
       PROVE  \E r \in MemRegions : key[r] = k
  <2>1. ASSUME NEW i \in Slots, k = Img(i)  PROVE \E r \in MemRegions : key[r] = k
    <3>1. ImageIn(i) # {}
      BY <1>2, <1>11, <2>1
    <3>2. /\ proc[i] \in ProcEntries /\ loc[i] \in Locals /\ PlaceOK(i)
          /\ proc[i].addr \in Nat /\ proc[i].size \in Nat /\ loc[i].old \in Nat
      BY <1>1, Types, SlotFacts DEF PlacesOK, ProcEntries, Locals
    <3>3. HeldPages(i) \in Nat
      BY <3>2, PagesSums DEF HeldPages
    <3>4. HeldPages(i) # 0
      BY <3>1, <3>2, NoArea DEF ImageIn
    <3>5. Image(i)
      <4>1. proc[i].load
        BY <3>4 DEF HeldPages
      <4> QED BY <3>2, <4>1 DEF PlaceOK, Image
    <3>6. InImage(i) \in MemRegions
      BY <3>3, <3>4, <3>5, MemRegionsAre
    <3> QED BY <1>3, <2>1, <3>6
  <2>2. ASSUME NEW f \in Files, k = Txt(f)  PROVE \E r \in MemRegions : key[r] = k
    <3>1. Texts[f] # {}
      BY <1>2, <1>11, <2>2
    <3>2. text[f].ccount > 0
      BY <3>1, TextsOfIs DEF Texts
    <3>3. InText(f) \in MemRegions
      BY <3>2, MemRegionsAre
    <3> QED BY <1>4, <2>2, <3>3
  <2>3. CASE k = Inn
    <3>1. GoingIn # {}
      BY <1>2, <1>11, <2>3
    <3>2. in.sel # 0
      BY <3>1 DEF GoingIn
    <3>3. Coming \in MemRegions
      BY <3>2, MemRegionsAre
    <3> QED BY <1>5, <2>3, <3>3
  <2> QED BY <1>2, <2>1, <2>2, <2>3, KeysApart
<1> QED BY <1>1, <1>9, <1>10, <1>11, RegionsExact DEF MemoryExact

\* The regions of the swap area.
OutImage(i) == [of |-> <<"image", i>>, addr |-> proc[i].addr, size |-> proc[i].size]
OnItsWayOut(i) == [of |-> <<"out", i>>, addr |-> loc[i].blk, size |-> proc[i].size]
OutText(f) == [of |-> <<"text", f>>, addr |-> text[f].daddr, size |-> TextSize]

LEMMA SwapRegionsAre ==
    \A r : r \in SwapRegions <=> \/ \E i \in Slots : Image(i) /\ ~proc[i].load /\ r = OutImage(i)
                                 \/ \E i \in Slots : loc[i].blk # 0 /\ r = OnItsWayOut(i)
                                 \/ \E f \in Files : text[f].count > 0 /\ r = OutText(f)
<1> DEFINE images == {OutImage(i) : i \in {j \in Slots : Image(j) /\ ~proc[j].load}}
           leaving == {OnItsWayOut(i) : i \in {j \in Slots : loc[j].blk # 0}}
           texts  == {OutText(f) : f \in {g \in Files : text[g].count > 0}}
<1>1. SwapRegions = images \cup leaving \cup texts
  BY DEF SwapRegions, OutImage, OnItsWayOut, OutText
<1>2. \A r : r \in images <=> \E i \in Slots : Image(i) /\ ~proc[i].load /\ r = OutImage(i)
  OBVIOUS
<1>3. \A r : r \in leaving <=> \E i \in Slots : loc[i].blk # 0 /\ r = OnItsWayOut(i)
  OBVIOUS
<1>4. \A r : r \in texts <=> \E f \in Files : text[f].count > 0 /\ r = OutText(f)
  OBVIOUS
<1> HIDE DEF images, leaving, texts
<1> QED BY <1>1, <1>2, <1>3, <1>4

LEMMA SwapIsExact ==
    ASSUME Sound
    PROVE  SwapExact
<1> DEFINE key == [r \in SwapRegions |-> IF r.of[1] = "out" THEN <<"image", r.of[2]>> ELSE r.of]
<1>1. /\ TypeOK /\ PlacesOK /\ Divided(swap, SwapUse, NBlocks) /\ NBlocks \in Nat
      /\ text \in [Files -> TextEntries]
  BY Types, Parts DEF Sound, Control
<1>2. /\ DOMAIN SwapUse = Keys
      /\ \A i \in Slots : SwapUse[Img(i)] = ImageOut(i) /\ Img(i) \in Keys
      /\ \A f \in Files : SwapUse[Txt(f)] = Copies[f] /\ Txt(f) \in Keys
      /\ SwapUse[Inn] = {} /\ Inn \in Keys
  BY UseFacts, Parts
<1>3. \A i \in Slots : OutImage(i) \in SwapRegions => key[OutImage(i)] = Img(i)
  BY DEF OutImage, Img
<1>4. \A i \in Slots : OnItsWayOut(i) \in SwapRegions => key[OnItsWayOut(i)] = Img(i)
  BY DEF OnItsWayOut, Img
<1>5. \A f \in Files : OutText(f) \in SwapRegions => key[OutText(f)] = Txt(f)
  BY DEF OutText, Txt
<1> HIDE DEF key
<1>6. \A i \in Slots : /\ loc[i].blk \in Nat
                       /\ Image(i) /\ ~proc[i].load => loc[i].blk = 0
  <2> TAKE i \in Slots
  <2>1. loc[i].blk \in Nat /\ PlaceOK(i)
    BY <1>1, Types, SlotFacts DEF PlacesOK, Locals
  <2>2. ASSUME Image(i), ~proc[i].load  PROVE loc[i].blk = 0
    <3>1. pc[i] \in {"user", "text"}
      BY <2>1, <2>2 DEF PlaceOK, Image
    <3>2. pc[i] = "user" => loc[i] = NoLoc
      BY <2>1 DEF PlaceOK
    <3> QED BY <2>1, <3>1, <3>2 DEF PlaceOK, NoLoc
  <2> QED BY <2>1, <2>2
<1>7. \A i \in Slots : Image(i) /\ ~proc[i].load =>
          Area(OutImage(i).addr, OutImage(i).size) = ImageOut(i)
  BY DEF OutImage, ImageOut
<1>8. \A i \in Slots : loc[i].blk # 0 =>
          Area(OnItsWayOut(i).addr, OnItsWayOut(i).size) = ImageOut(i)
  <2> SUFFICES ASSUME NEW i \in Slots, loc[i].blk # 0
               PROVE  Area(OnItsWayOut(i).addr, OnItsWayOut(i).size) = ImageOut(i)
    OBVIOUS
  <2>1. loc[i].blk > 0 /\ ~(Image(i) /\ ~proc[i].load)
    BY <1>6
  <2> QED BY <2>1 DEF OnItsWayOut, ImageOut
<1>9. \A f \in Files : text[f].count > 0 => Area(OutText(f).addr, OutText(f).size) = Copies[f]
  BY TextsOfIs DEF OutText, Copies
<1>10. \A r \in SwapRegions : key[r] \in DOMAIN SwapUse /\ Area(r.addr, r.size) = SwapUse[key[r]]
  <2> TAKE r \in SwapRegions
  <2>1. ASSUME NEW i \in Slots, Image(i), ~proc[i].load, r = OutImage(i)
        PROVE  key[r] \in DOMAIN SwapUse /\ Area(r.addr, r.size) = SwapUse[key[r]]
    BY <1>2, <1>3, <1>7, <2>1
  <2>2. ASSUME NEW i \in Slots, loc[i].blk # 0, r = OnItsWayOut(i)
        PROVE  key[r] \in DOMAIN SwapUse /\ Area(r.addr, r.size) = SwapUse[key[r]]
    BY <1>2, <1>4, <1>8, <2>2
  <2>3. ASSUME NEW f \in Files, text[f].count > 0, r = OutText(f)
        PROVE  key[r] \in DOMAIN SwapUse /\ Area(r.addr, r.size) = SwapUse[key[r]]
    BY <1>2, <1>5, <1>9, <2>3
  <2> QED BY <2>1, <2>2, <2>3, SwapRegionsAre
<1>11. \A r, s \in SwapRegions : key[r] = key[s] => r = s
  <2> SUFFICES ASSUME NEW r \in SwapRegions, NEW s \in SwapRegions, key[r] = key[s]
               PROVE  r = s
    OBVIOUS
  <2>1. ASSUME NEW q \in SwapRegions
        PROVE  \/ \E i \in Slots : Image(i) /\ ~proc[i].load /\ q = OutImage(i) /\ key[q] = Img(i)
               \/ \E i \in Slots : loc[i].blk # 0 /\ q = OnItsWayOut(i) /\ key[q] = Img(i)
               \/ \E f \in Files : q = OutText(f) /\ key[q] = Txt(f)
    BY <1>3, <1>4, <1>5, SwapRegionsAre
  <2>2. ASSUME NEW i \in Slots, key[r] = Img(i)  PROVE r = s
    <3>1. \A f \in Files : key[r] # Txt(f) /\ key[s] # Txt(f)
      BY <2>2, KeysApart
    <3>2. ASSUME NEW q \in SwapRegions, key[q] = Img(i)
          PROVE  q = IF loc[i].blk # 0 THEN OnItsWayOut(i) ELSE OutImage(i)
      <4>1. \A f \in Files : key[q] # Txt(f)
        BY <3>2, KeysApart
      <4>2. \A j \in Slots : key[q] = Img(j) => j = i
        BY <3>2, KeysApart
      <4>3. \/ Image(i) /\ ~proc[i].load /\ q = OutImage(i)
            \/ loc[i].blk # 0 /\ q = OnItsWayOut(i)
        BY <2>1, <4>1, <4>2
      <4> QED BY <1>6, <4>3
    <3> QED BY <2>2, <3>2
  <2>3. ASSUME NEW f \in Files, r = OutText(f), key[r] = Txt(f)  PROVE r = s
    <3>1. \A i \in Slots : key[s] # Img(i)
      BY <2>3, KeysApart
    <3>2. PICK e \in Files : s = OutText(e) /\ key[s] = Txt(e)
      BY <2>1, <3>1
    <3>3. e = f
      BY <2>3, <3>2, KeysApart
    <3> QED BY <2>3, <3>2, <3>3
  <2> QED BY <2>1, <2>2, <2>3
<1>12. ASSUME NEW k \in DOMAIN SwapUse, SwapUse[k] # {}
       PROVE  \E r \in SwapRegions : key[r] = k
  <2>1. ASSUME NEW i \in Slots, k = Img(i)  PROVE \E r \in SwapRegions : key[r] = k
    <3>1. ImageOut(i) # {}
      BY <1>2, <1>12, <2>1
    <3>2. CASE Image(i) /\ ~proc[i].load
      BY <1>3, <2>1, <3>2, SwapRegionsAre
    <3>3. CASE ~(Image(i) /\ ~proc[i].load)
      <4>1. loc[i].blk # 0
        BY <3>1, <3>3 DEF ImageOut
      <4> QED BY <1>4, <2>1, <4>1, SwapRegionsAre
    <3> QED BY <3>2, <3>3
  <2>2. ASSUME NEW f \in Files, k = Txt(f)  PROVE \E r \in SwapRegions : key[r] = k
    <3>1. Copies[f] # {}
      BY <1>2, <1>12, <2>2
    <3>2. text[f].count > 0
      BY <3>1, TextsOfIs DEF Copies
    <3> QED BY <1>5, <2>2, <3>2, SwapRegionsAre
  <2>3. k # Inn
    BY <1>2, <1>12
  <2> QED BY <1>2, <2>1, <2>2, <2>3, KeysApart
<1> QED BY <1>1, <1>10, <1>11, <1>12, RegionsExact DEF SwapExact

-----------------------------------------------------------------------------
\* Every step

LEMMA StepSound ==
    ASSUME Sound, Next
    PROVE  WellFormed(mem)' /\ WellFormed(swap)' /\ (wild' \/ Sound')
<1>1. DOMAIN pc = All
  BY Types DEF Sound, Control
<1>2. Sound' => WellFormed(mem)' /\ WellFormed(swap)'
  BY DEF Sound, Divided
<1>3. ASSUME NEW i \in Slots, Call(i)
      PROVE  WellFormed(mem)' /\ WellFormed(swap)' /\ (wild' \/ Sound')
  <2>1. CASE Fork(i)
    BY <1>2, <2>1, ForkStep
  <2>2. CASE ForkSwap(i)
    BY <1>2, <2>2, ForkSwapStep
  <2>3. CASE Shrink(i)
    BY <2>3, ShrinkStep
  <2>4. CASE Grow(i)
    BY <1>2, <2>4, GrowStep
  <2>5. CASE Exec(i)
    BY <1>2, <2>5, ExecStep
  <2>6. CASE Exit(i)
    BY <1>2, <2>6, ExitStep
  <2>7. CASE Pause(i)
    BY <1>2, <2>7, PauseStep
  <2> QED BY <1>3, <2>1, <2>2, <2>3, <2>4, <2>5, <2>6, <2>7 DEF Call
<1>4. ASSUME NEW i \in Slots, Inside(i)
      PROVE  WellFormed(mem)' /\ WellFormed(swap)' /\ (wild' \/ Sound')
  <2>1. CASE Forked(i)
    BY <1>2, <2>1, ForkedStep
  <2>2. CASE Expand(i)
    BY <1>2, <2>2, ExpandStep
  <2>3. CASE ExpandSwap(i)
    BY <1>2, <2>3, ExpandSwapStep
  <2>4. CASE Expanded(i)
    BY <1>2, <2>4, ExpandedStep
  <2>5. CASE OutOfSwap(i)
    BY <1>2, <2>5, OutOfSwapStep
  <2>6. CASE ExecText(i)
    BY <2>6, ExecTextStep
  <2>7. CASE ExecCopy(i)
    BY <1>2, <2>7, ExecCopyStep
  <2>8. CASE Execed(i)
    BY <1>2, <2>8, ExecedStep
  <2> QED BY <1>4, <2>1, <2>2, <2>3, <2>4, <2>5, <2>6, <2>7, <2>8 DEF Inside
<1>5. ASSUME NEW i \in All, Transfer(i)  PROVE Sound'
  BY <1>5, SwapStartStep, SwapWaitStep, SwapAgainStep, SwapSleepStep DEF Transfer
<1>6. ASSUME SchedStep  PROVE Sound'
  BY <1>6, SchedNobodyStep, SchedFullStep, SchedFoundStep, SchedTextInStep,
     SchedImageInStep DEF SchedStep
<1>7. ASSUME IODone \/ Clock \/ SetRun  PROVE Sound'
  BY <1>7, IODoneStep, ClockStep, SetRunStep
<1>8. CASE \E i \in Slots : Call(i) \/ Inside(i)
  BY <1>3, <1>4, <1>8
<1>9. CASE \E i \in DOMAIN pc : Transfer(i)
  BY <1>1, <1>2, <1>5, <1>9
<1>10. CASE SchedStep \/ IODone \/ Clock \/ SetRun
  BY <1>2, <1>6, <1>7, <1>10
<1> QED BY <1>8, <1>9, <1>10 DEF Next

\* Nothing is followed beyond the first time memory is used that was not allocated.
LEMMA TameSteps ==
    ASSUME Next
    PROVE  ~wild
<1>1. \A i, label : At(i, label) => ~wild
  BY DEF At
<1>2. ASSUME NEW i, Call(i)  PROVE ~wild
  BY <1>1, <1>2 DEF Call, Fork, ForkSwap, Shrink, Grow, Exec, Exit, Pause
<1>3. ASSUME NEW i, Inside(i)  PROVE ~wild
  BY <1>1, <1>3 DEF Inside, Forked, Expand, ExpandSwap, Expanded, OutOfSwap, ExecText,
     ExecCopy, Execed, SwapEnds
<1>4. ASSUME NEW i, Transfer(i)  PROVE ~wild
  BY <1>1, <1>4 DEF Transfer, SwapStart, SwapWait, SwapAgain, SwapSleep
<1>5. ASSUME SchedStep  PROVE ~wild
  BY <1>1, <1>5 DEF SchedStep, SchedNobody, SchedFull, SchedFound, SchedTextIn,
     SchedImageIn, SwapEnds
<1>6. ASSUME IODone \/ Clock \/ SetRun  PROVE ~wild
  BY <1>1, <1>6 DEF IODone, Clock, SetRun
<1> QED BY <1>2, <1>3, <1>4, <1>5, <1>6 DEF Next

LEMMA Stutter ==
    ASSUME IInv, UNCHANGED vars
    PROVE  IInv'
<1>1. UNCHANGED <<mem, swap, proc, text, swbuf, runIn, runOut, cpu, pc, chan, then, loc, in,
                  lost, wild>>
  BY DEF vars, areas, flags
<1>2. Control' = Control
  BY <1>1 DEF Control, TypeOK, PlacesOK, PlaceOK, Moves, SchedOK, TextOut, Births, BufferOK
<1>3. SleepersHaveReason' = SleepersHaveReason
  BY <1>1 DEF SleepersHaveReason, Ready
<1>4. TextCounts' = TextCounts
  BY <1>1 DEF TextCounts, Image, InMemory
<1>5. MemUse' = MemUse
  BY <1>1 DEF MemUse, Images, ImageIn, HeldPages, Texts, GoingIn
<1>6. SwapUse' = SwapUse
  BY <1>1 DEF SwapUse, Outs, ImageOut, Image, Copies
<1> QED BY <1>1, <1>2, <1>3, <1>4, <1>5, <1>6 DEF IInv

-----------------------------------------------------------------------------
(* Memory and the swap area *)

\* What all the steps of the kernel keep: that the maps are the complement of what the
\* images, the texts and Sched have, that the counts of texts are those of their processes,
\* and that who sleeps has a reason to.
THEOREM Invariance == Spec => []IInv
<1>1. Init => IInv
  BY InitSound, SoundIs DEF Sound, Divided
<1>2. IInv /\ [Next]_vars => IInv'
  <2> SUFFICES ASSUME IInv, [Next]_vars  PROVE IInv'
    OBVIOUS
  <2>1. CASE Next
    <3>1. Sound
      BY <2>1, TameSteps, SoundIs
    <3>2. WellFormed(mem)' /\ WellFormed(swap)' /\ (wild' \/ Sound')
      BY <2>1, <3>1, StepSound
    <3>3. IInv' <=> WellFormed(mem)' /\ WellFormed(swap)' /\ (wild' \/ Sound')
      BY SoundIs, PTL
    <3> QED BY <3>2, <3>3
  <2>2. CASE UNCHANGED vars
    BY <2>2, Stutter
  <2> QED BY <2>1, <2>2
<1> QED BY <1>1, <1>2, PTL DEF Spec

\* Every page of memory and every block of the swap area is free or has one user, and both
\* maps of the allocator are in order and joined where areas touch, whatever is allocated,
\* expanded, swapped and freed, and by whom, until memory is used that was not allocated.
THEOREM AreasExactHolds == Spec => []AreasExact
<1>1. IInv => AreasExact
  BY SoundIs, MemoryIsExact, SwapIsExact DEF AreasExact
<1> QED BY <1>1, Invariance, PTL

\* x_count of a text is the number of its processes, x_ccount the number of those in
\* memory, through Clone, Exec, Exit, XSwap and both transfers of Sched.
THEOREM TextCountsHolds == Spec => []TextCounts
<1>1. IInv => TextCounts
  BY DEF IInv, TextCounts
<1> QED BY <1>1, Invariance, PTL

\* Sched sleeps on RunOut and RunIn only with the flag that has it woken, and on RunOut
\* with nobody ready in the swap area; who waits for SwBuf finds it busy with its user
\* to be told, but for a wakeup that came under who was about to sleep.
THEOREM SleepersHaveReasonHolds == Spec => []SleepersHaveReason
<1>1. IInv => SleepersHaveReason
  BY DEF IInv, SleepersHaveReason
<1> QED BY <1>1, Invariance, PTL

=============================================================================
