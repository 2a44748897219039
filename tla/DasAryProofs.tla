---------------------------- MODULE DasAryProofs -----------------------------
(* Theorems about DasAry for arrays of any shape, rank and length and blocks *)
(* of any size: the entries of each index buffer tile the next buffer.       *)
EXTENDS DasAry, LeastElement, SequenceTheorems, FiniteSetTheorems

\* Index entries, and the arrays of a shape.
Entries == [off : Nat, cnt : Nat]
Arrays(sh) ==
  [shape : {sh}, idx0 : Entries, ibuf : [1..(Len(sh) - 1) -> Seq(Entries)],
   elem : Seq(Vals \cup {FillVal}), roll : [1..Len(sh) -> BOOLEAN]]

\* The entries of a level: idx0 alone, or an index buffer.
Level(s, k) == IF k = 0 THEN <<s.idx0>> ELSE s.ibuf[k]

\* Entries follow each other without overlap, stand for each of m items, and the last
\* one for the last of them.
End(e) == e.off + e.cnt
Tiles(es, m) ==
  /\ \A i \in 1..Len(es) : End(es[i]) <= m
  /\ \A i, j \in 1..Len(es) : i < j => End(es[i]) <= es[j].off
  /\ \A o \in Below(m) : \E i \in 1..Len(es) : es[i].off <= o /\ o < End(es[i])
  /\ es # <<>> => End(es[Len(es)]) = m

\* Each of the r levels tiles the next one, the last level m elements; where there is
\* something to stand for the last entry is not empty.
Linked(es, n) == Tiles(es, n) /\ (n > 0 => es[Len(es)].cnt > 0)
Chain(s, r, m) ==
  /\ \A k \in 0..(r - 2) : Linked(Level(s, k), Len(Level(s, k + 1)))
  /\ Tiles(Level(s, r - 1), m)

\* A mark is on all indexes after the one it is on, and never on the first.
RollsUp(s) ==
  /\ s.roll[1] = FALSE
  /\ \A d \in 1..Rank(s) : s.roll[d] => \A k \in d..Rank(s) : s.roll[k]

\* The inductive invariant.
Sound(s, sh) == s \in Arrays(sh) /\ Chain(s, Len(sh), Len(s.elem)) /\ RollsUp(s)
ArrayInv == \E sh \in Shapes : Sound(ary, sh)

-----------------------------------------------------------------------------
(* Tiling.                                                                   *)

\* One more item under the last entry.
Grew(es, new, c) ==
  /\ Len(new) = Len(es)
  /\ \A i \in 1..(Len(es) - 1) : new[i] = es[i]
  /\ new[Len(es)].off = es[Len(es)].off
  /\ new[Len(es)].cnt = es[Len(es)].cnt + c

\* The last entry grows with the items that come after those there are.
LEMMA TilesGrow ==
  ASSUME NEW es \in Seq(Entries), NEW new \in Seq(Entries), es # <<>>,
         NEW m \in Nat, NEW c \in Nat, Tiles(es, m), Grew(es, new, c)
  PROVE  Tiles(new, m + c)
<1>1. PICK n \in Nat : n = Len(es) /\ n > 0
  OBVIOUS
<1>2. \A i \in 1..n : es[i] \in Entries /\ new[i] \in Entries
  BY <1>1 DEF Grew
<1>3. \A i \in 1..n : es[i].off \in Nat /\ es[i].cnt \in Nat
  BY <1>2 DEF Entries
<1>4. \A i \in 1..(n - 1) : new[i] = es[i]
  BY <1>1 DEF Grew
<1>5. new[n].off = es[n].off /\ new[n].cnt = es[n].cnt + c
  BY <1>1 DEF Grew
<1>6. n \in 1..n
  BY <1>1
<1>7. End(es[n]) = m /\ End(new[n]) = m + c
  <2>1. End(es[n]) = m
    BY <1>1 DEF Tiles
  <2>2. PICK a \in Nat, b \in Nat : a = es[n].off /\ b = es[n].cnt
    BY <1>3, <1>6
  <2>3. End(es[n]) = a + b /\ End(new[n]) = a + (b + c)
    BY <1>5, <2>2 DEF End
  <2> QED
    BY <2>1, <2>3
<1>8. Len(new) = n /\ new # <<>>
  BY <1>1 DEF Grew
<1>9. ASSUME NEW i \in 1..n
      PROVE  End(new[i]) <= m + c
  <2>1. CASE i = n
    BY <1>7, <2>1
  <2>2. CASE i # n
    <3>1. i \in 1..(n - 1) /\ End(es[i]) <= m
      BY <1>1, <2>2 DEF Tiles
    <3>2. End(es[i]) \in Nat
      BY <1>3 DEF End
    <3> QED
      BY <1>4, <3>1, <3>2
  <2> QED
    BY <2>1, <2>2
<1>10. ASSUME NEW i \in 1..n, NEW j \in 1..n, i < j
       PROVE  End(new[i]) <= new[j].off
  <2>1. i \in 1..(n - 1) /\ new[i] = es[i] /\ End(es[i]) <= es[j].off
    BY <1>1, <1>4, <1>10 DEF Tiles
  <2>2. new[j].off = es[j].off
    BY <1>4, <1>5
  <2> QED
    BY <2>1, <2>2
<1>11. ASSUME NEW o \in Below(m + c)
       PROVE  \E i \in 1..n : new[i].off <= o /\ o < End(new[i])
  <2>1. CASE o < m
    <3>1. o \in Below(m)
      BY <2>1 DEF Below
    <3>2. PICK i \in 1..n : es[i].off <= o /\ o < End(es[i])
      BY <1>1, <3>1 DEF Tiles
    <3>3. CASE i = n
      BY <1>5, <1>7, <3>2, <3>3 DEF Below
    <3>4. CASE i # n
      BY <1>4, <3>2, <3>4
    <3> QED
      BY <3>3, <3>4
  <2>2. CASE o >= m
    <3>1. es[n].off <= m
      BY <1>3, <1>6, <1>7 DEF End
    <3>2. new[n].off <= o /\ o < End(new[n])
      BY <1>3, <1>5, <1>6, <1>7, <2>2, <3>1 DEF Below
    <3> QED
      BY <1>6, <3>2
  <2> QED
    BY <2>1, <2>2 DEF Below
<1> QED
  BY <1>7, <1>8, <1>9, <1>10, <1>11 DEF Tiles

\* So it goes with an entry that begins where the items there are end.
LEMMA TilesAppend ==
  ASSUME NEW es \in Seq(Entries), NEW m \in Nat, NEW c \in Nat, Tiles(es, m)
  PROVE  /\ Tiles(Append(es, Entry(m, c)), m + c)
         /\ Append(es, Entry(m, c)) \in Seq(Entries)
<1>1. PICK e \in Entries : e = Entry(m, c)
  BY DEF Entries, Entry
<1>2. e.off = m /\ e.cnt = c /\ End(e) = m + c
  BY <1>1 DEF Entry, End
<1>3. PICK new \in Seq(Entries) : new = Append(es, e)
  BY AppendProperties
<1>4. PICK n \in Nat : n = Len(es)
  OBVIOUS
<1>5. /\ Len(new) = n + 1 /\ new[n + 1] = e /\ new # <<>>
      /\ \A i \in 1..n : new[i] = es[i]
  BY <1>3, <1>4
<1>6. \A i \in 1..n : es[i].off \in Nat /\ es[i].cnt \in Nat
  <2>1. \A i \in 1..n : es[i] \in Entries
    BY <1>4
  <2> QED
    BY <2>1 DEF Entries
<1>7. \A i \in 1..n : End(es[i]) \in Nat /\ End(es[i]) <= m
  BY <1>4, <1>6 DEF Tiles, End
<1>8. ASSUME NEW i \in 1..(n + 1)
      PROVE  End(new[i]) <= m + c
  <2>1. CASE i = n + 1
    BY <1>2, <1>5, <2>1
  <2>2. CASE i # n + 1
    BY <1>5, <1>7, <2>2
  <2> QED
    BY <2>1, <2>2
<1>9. ASSUME NEW i \in 1..(n + 1), NEW j \in 1..(n + 1), i < j
      PROVE  End(new[i]) <= new[j].off
  <2>1. i \in 1..n /\ new[i] = es[i]
    BY <1>5, <1>9
  <2>2. CASE j = n + 1
    BY <1>2, <1>5, <1>7, <2>1, <2>2
  <2>3. CASE j # n + 1
    <3>1. j \in 1..n /\ new[j] = es[j]
      BY <1>5, <2>3
    <3> QED
      BY <1>4, <1>9, <2>1, <3>1 DEF Tiles
  <2> QED
    BY <2>2, <2>3
<1>10. ASSUME NEW o \in Below(m + c)
       PROVE  \E i \in 1..(n + 1) : new[i].off <= o /\ o < End(new[i])
  <2>1. CASE o < m
    <3>1. o \in Below(m)
      BY <2>1 DEF Below
    <3>2. PICK i \in 1..n : es[i].off <= o /\ o < End(es[i])
      BY <1>4, <3>1 DEF Tiles
    <3> QED
      BY <1>5, <3>2
  <2>2. CASE o >= m
    <3>1. new[n + 1].off <= o /\ o < End(new[n + 1])
      BY <1>2, <1>5, <2>2 DEF Below
    <3> QED
      BY <3>1
  <2> QED
    BY <2>1, <2>2 DEF Below
<1>11. Tiles(new, m + c)
  BY <1>2, <1>5, <1>8, <1>9, <1>10 DEF Tiles
<1> QED
  BY <1>1, <1>3, <1>11

\* No entries tile no items, and nothing else; nor do empty entries.
LEMMA TilesNone ==
  /\ Tiles(<<>>, 0)
  /\ \A m \in Nat : Tiles(<<>>, m) => m = 0
<1>1. Tiles(<<>>, 0)
  BY DEF Tiles, Below
<1>2. ASSUME NEW m \in Nat, Tiles(<<>>, m), m # 0
      PROVE  FALSE
  <2>1. 0 \in Below(m)
    BY <1>2 DEF Below
  <2>2. \E i \in 1..0 : TRUE
    BY <1>2, <2>1 DEF Tiles
  <2> QED
    BY <2>2
<1> QED
  BY <1>1, <1>2

-----------------------------------------------------------------------------
(* The levels of an array, and what becomes of them.                         *)

\* What an array of a shape is.
LEMMA ArrayIs ==
  ASSUME NEW sh \in Seq(Nat), sh # <<>>, NEW s \in Arrays(sh)
  PROVE  /\ s.shape = sh /\ Rank(s) = Len(sh) /\ Len(sh) \in Nat /\ Len(sh) > 0
         /\ s.idx0 \in Entries /\ s.ibuf \in [1..(Len(sh) - 1) -> Seq(Entries)]
         /\ s.elem \in Seq(Vals \cup {FillVal}) /\ s.roll \in [1..Len(sh) -> BOOLEAN]
         /\ \A k \in 0..(Len(sh) - 1) : Level(s, k) \in Seq(Entries)
         /\ Level(s, 0) = <<s.idx0>> /\ Len(Level(s, 0)) = 1 /\ Level(s, 0) # <<>>
<1>1. s.shape = sh /\ s.idx0 \in Entries /\ s.ibuf \in [1..(Len(sh) - 1) -> Seq(Entries)]
  BY DEF Arrays
<1>2. s.elem \in Seq(Vals \cup {FillVal}) /\ s.roll \in [1..Len(sh) -> BOOLEAN]
  BY DEF Arrays
<1>3. Rank(s) = Len(sh) /\ Len(sh) \in Nat /\ Len(sh) > 0
  BY <1>1 DEF Rank
<1>4. ASSUME NEW k \in 0..(Len(sh) - 1)
      PROVE  Level(s, k) \in Seq(Entries)
  <2>1. CASE k = 0
    BY <1>1, <2>1 DEF Level
  <2>2. CASE k # 0
    <3>1. k \in 1..(Len(sh) - 1)
      BY <1>3, <2>2
    <3>2. s.ibuf[k] \in Seq(Entries)
      BY <1>1, <3>1
    <3> QED
      BY <2>2, <3>2 DEF Level
  <2> QED
    BY <2>1, <2>2
<1>5. Level(s, 0) = <<s.idx0>> /\ Len(Level(s, 0)) = 1 /\ Level(s, 0) # <<>>
  BY DEF Level
<1> QED
  BY <1>1, <1>2, <1>3, <1>4, <1>5

\* The place of the last entry of a level, in the terms of Parent.
Place(s, k) == IF k = 0 THEN 0 ELSE Len(s.ibuf[k])

\* Only the last entry of level k grows.
Counted(s, s1, sh, k, c) ==
  /\ s1 \in Arrays(sh) /\ s1.elem = s.elem /\ s1.roll = s.roll
  /\ \A j \in 0..(Len(sh) - 1) : j # k => Level(s1, j) = Level(s, j)
  /\ Grew(Level(s, k), Level(s1, k), c)

\* The last entry of a level.
LEMMA LastIs ==
  ASSUME NEW sh \in Seq(Nat), sh # <<>>, NEW s \in Arrays(sh), NEW k \in 0..(Len(sh) - 1),
         Level(s, k) # <<>>
  PROVE  /\ LastOf(s, k) = Parent(s, k, Place(s, k))
         /\ Parent(s, k, Place(s, k)) = Level(s, k)[Len(Level(s, k))]
         /\ Parent(s, k, Place(s, k)) \in Entries
<1>1. LastOf(s, k) = Parent(s, k, Place(s, k))
  BY DEF LastOf, Place
<1>2. Parent(s, k, Place(s, k)) = Level(s, k)[Len(Level(s, k))]
  BY DEF Parent, Place, Level
<1>3. Level(s, k) \in Seq(Entries)
  BY ArrayIs
<1>4. Level(s, k)[Len(Level(s, k))] \in Entries
  BY <1>3
<1> QED
  BY <1>1, <1>2, <1>4

\* WithCnt, at the last entry of a level.
LEMMA WithCntLast ==
  ASSUME NEW sh \in Seq(Nat), sh # <<>>, NEW s \in Arrays(sh), NEW k \in 0..(Len(sh) - 1),
         Level(s, k) # <<>>, NEW c \in Nat, NEW x, x = LastOf(s, k).cnt + c
  PROVE  Counted(s, WithCnt(s, k, Place(s, k), x), sh, k, c)
<1>1. PICK e \in Entries : e = LastOf(s, k)
  BY LastIs
<1>2. e = Level(s, k)[Len(Level(s, k))] /\ x = e.cnt + c /\ e.cnt \in Nat /\ x \in Nat
  BY <1>1, LastIs DEF Entries
<1>3. PICK n \in Nat : n = Len(sh) /\ n > 0
  BY ArrayIs
<1>4. /\ s.idx0 \in Entries /\ s.ibuf \in [1..(n - 1) -> Seq(Entries)]
      /\ s.elem \in Seq(Vals \cup {FillVal}) /\ s.roll \in [1..n -> BOOLEAN] /\ s.shape = sh
  BY <1>3, ArrayIs
<1>5. PICK e1 \in Entries : e1 = [e EXCEPT !.cnt = x]
  BY <1>2 DEF Entries
<1>6. e1.off = e.off /\ e1.cnt = e.cnt + c
  BY <1>2, <1>5 DEF Entries
<1>7. CASE k = 0
  <2>1. e = s.idx0
    BY <1>2, <1>7, ArrayIs
  <2>2. PICK s1 : s1 = [s EXCEPT !.idx0 = e1]
    OBVIOUS
  <2>3. WithCnt(s, k, Place(s, k), x) = s1
    BY <1>5, <1>7, <2>1, <2>2 DEF WithCnt, Arrays
  <2>4. /\ s1 \in Arrays(sh) /\ s1.elem = s.elem /\ s1.roll = s.roll /\ s1.ibuf = s.ibuf
        /\ s1.idx0 = e1
    BY <2>2 DEF Arrays
  <2>5. Level(s, 0) = <<e>> /\ Level(s1, 0) = <<e1>>
    BY <2>1, <2>4 DEF Level
  <2>6. Grew(Level(s, k), Level(s1, k), c)
    BY <1>6, <1>7, <2>5 DEF Grew
  <2>7. \A j \in 0..(Len(sh) - 1) : j # k => Level(s1, j) = Level(s, j)
    BY <1>7, <2>4 DEF Level
  <2> QED
    BY <2>3, <2>4, <2>6, <2>7 DEF Counted
<1>8. CASE k # 0
  <2>1. k \in 1..(n - 1)
    BY <1>3, <1>8
  <2>2. PICK es \in Seq(Entries) : es = s.ibuf[k]
    BY <1>4, <2>1
  <2>3. Level(s, k) = es /\ es # <<>>
    BY <1>8, <2>2 DEF Level
  <2>4. PICK m \in Nat : m = Len(es) /\ m > 0
    BY <2>3
  <2>5. e = es[m] /\ m \in 1..m
    BY <1>2, <2>3, <2>4
  <2>6. PICK new : new = [es EXCEPT ![m] = e1]
    OBVIOUS
  <2>7. /\ new \in Seq(Entries) /\ Len(new) = m
        /\ \A i \in 1..m : new[i] = IF i = m THEN e1 ELSE es[i]
    BY <2>4, <2>5, <2>6, ExceptSeq
  <2>8. PICK s1 : s1 = [s EXCEPT !.ibuf[k] = new]
    OBVIOUS
  <2>9. WithCnt(s, k, Place(s, k), x) = s1
    <3>1. Place(s, k) = m
      BY <1>8, <2>2, <2>4 DEF Place
    <3>2. WithCnt(s, k, m, x) = [s EXCEPT !.ibuf[k][m].cnt = x]
      BY <1>8 DEF WithCnt
    <3>3. new = [es EXCEPT ![m].cnt = x]
      BY <1>5, <2>5, <2>6
    <3>4. [s EXCEPT !.ibuf[k][m].cnt = x] = s1
      BY <2>2, <2>8, <3>3, Zenon
    <3> QED
      BY <3>1, <3>2, <3>4
  <2>10. /\ s1 \in Arrays(sh) /\ s1.elem = s.elem /\ s1.roll = s.roll
         /\ s1.idx0 = s.idx0 /\ s1.ibuf = [s.ibuf EXCEPT ![k] = new]
    BY <1>3, <2>1, <2>7, <2>8 DEF Arrays
  <2>11. s1.ibuf[k] = new
    BY <1>4, <2>1, <2>10
  <2>12. Level(s1, k) = new
    BY <1>8, <2>11 DEF Level
  <2>13. Grew(Level(s, k), Level(s1, k), c)
    <3>1. new[m] = e1 /\ \A i \in 1..(m - 1) : new[i] = es[i]
      <4>1. new[m] = e1
        BY <2>5, <2>7
      <4>2. ASSUME NEW i \in 1..(m - 1)
            PROVE  new[i] = es[i]
        <5>1. i \in 1..m /\ i # m
          BY <2>4
        <5> QED
          BY <2>7, <5>1
      <4> QED
        BY <4>1, <4>2
    <3>2. Grew(es, new, c)
      BY <1>6, <2>4, <2>5, <2>7, <3>1 DEF Grew
    <3> QED
      BY <2>3, <2>12, <3>2
  <2>14. ASSUME NEW j \in 0..(Len(sh) - 1), j # k
         PROVE  Level(s1, j) = Level(s, j)
    <3>1. CASE j = 0
      BY <2>10, <3>1 DEF Level
    <3>2. CASE j # 0
      <4>1. j \in 1..(n - 1)
        BY <1>3, <3>2
      <4>2. s1.ibuf[j] = s.ibuf[j]
        BY <1>4, <2>10, <2>14, <4>1
      <4> QED
        BY <3>2, <4>2 DEF Level
    <3> QED
      BY <3>1, <3>2
  <2> QED
    BY <2>9, <2>10, <2>13, <2>14 DEF Counted
<1> QED
  BY <1>7, <1>8

-----------------------------------------------------------------------------
(* The first loop of DasAry_append.                                          *)

\* A level that stands for items has entries.
LEMMA LinkedNone ==
  ASSUME NEW es, NEW n \in Nat, Linked(es, n), es = <<>>
  PROVE  n = 0
BY TilesNone DEF Linked

\* A linked level stays one when its last entry grows with the next level.
LEMMA LinkedGrow ==
  ASSUME NEW es \in Seq(Entries), NEW new \in Seq(Entries), es # <<>>,
         NEW n \in Nat, NEW c \in Nat, c > 0, Linked(es, n), Grew(es, new, c)
  PROVE  Linked(new, n + c)
<1>1. Tiles(new, n + c)
  BY TilesGrow DEF Linked
<1>2. PICK m \in Nat : m = Len(es) /\ m > 0
  OBVIOUS
<1>3. es[m] \in Entries
  BY <1>2
<1>4. PICK b \in Nat : b = es[m].cnt
  BY <1>3 DEF Entries
<1>5. new[Len(new)].cnt = b + c
  BY <1>2, <1>4 DEF Grew
<1> QED
  BY <1>1, <1>5 DEF Linked

\* Nothing below an index buffer without entries.
LEMMA EmptyBelow ==
  ASSUME NEW sh \in Seq(Nat), sh # <<>>, NEW s \in Arrays(sh), NEW m \in Nat,
         Chain(s, Len(sh), m), NEW k \in 0..(Len(sh) - 1), Level(s, k) = <<>>
  PROVE  Level(s, Len(sh) - 1) = <<>> /\ m = 0
<1>1. PICK r \in Nat : r = Len(sh) /\ r > 0
  BY ArrayIs
<1>2. PICK d \in Nat : d = r - 1 - k
  <2>1. k \in 0..(r - 1)
    BY <1>1
  <2> QED
    BY <2>1
<1>3. PICK Good : Good = {i \in 0..d : Level(s, k + i) = <<>>}
  OBVIOUS
<1>4. 0 \in Good
  BY <1>1, <1>3
<1>5. ASSUME NEW i \in 1..d, i - 1 \in Good
      PROVE  i \in Good
  <2>1. k + (i - 1) \in 0..(r - 2) /\ k + (i - 1) + 1 = k + i /\ k + i \in 0..(r - 1)
    BY <1>1, <1>2
  <2>2. Level(s, k + (i - 1)) = <<>>
    BY <1>3, <1>5
  <2>3. Linked(Level(s, k + (i - 1)), Len(Level(s, k + i)))
    BY <1>1, <2>1 DEF Chain
  <2>4. Level(s, k + i) \in Seq(Entries)
    BY <1>1, <2>1, ArrayIs
  <2>5. Len(Level(s, k + i)) = 0
    BY <2>2, <2>3, <2>4, LinkedNone
  <2>6. Level(s, k + i) = <<>>
    BY <2>4, <2>5
  <2> QED
    BY <1>3, <2>6
<1>6. d \in Good
  <2>1. 0..d \subseteq Good
    BY <1>4, <1>5, IntervalInduction
  <2> QED
    BY <2>1
<1>7. Level(s, r - 1) = <<>>
  BY <1>2, <1>3, <1>6
<1>8. m = 0
  BY <1>1, <1>7, TilesNone DEF Chain
<1> QED
  BY <1>1, <1>7, <1>8

\* An entry e comes after those of index buffer k.
Added(s, s1, sh, k, e) ==
  /\ s1 \in Arrays(sh) /\ s1.elem = s.elem /\ s1.roll = s.roll
  /\ \A j \in 0..(Len(sh) - 1) : j # k => Level(s1, j) = Level(s, j)
  /\ Level(s1, k) = Append(Level(s, k), e)

\* Appending an entry to one index buffer leaves the others.
LEMMA AddLast ==
  ASSUME NEW sh \in Seq(Nat), sh # <<>>, NEW s \in Arrays(sh), NEW k \in 1..(Len(sh) - 1),
         NEW e \in Entries
  PROVE  Added(s, [s EXCEPT !.ibuf[k] = Append(@, e)], sh, k, e)
<1>1. PICK n \in Nat : n = Len(sh) /\ n > 0
  BY ArrayIs
<1>2. s.ibuf \in [1..(n - 1) -> Seq(Entries)]
  BY <1>1, ArrayIs
<1>3. PICK new \in Seq(Entries) : new = Append(s.ibuf[k], e)
  BY <1>1, <1>2, AppendProperties
<1>4. PICK s1 : s1 = [s EXCEPT !.ibuf[k] = new]
  OBVIOUS
<1>5. [s EXCEPT !.ibuf[k] = Append(@, e)] = s1
  BY <1>3, <1>4, Zenon
<1>6. /\ s1 \in Arrays(sh) /\ s1.elem = s.elem /\ s1.roll = s.roll
      /\ s1.idx0 = s.idx0 /\ s1.ibuf = [s.ibuf EXCEPT ![k] = new]
  BY <1>1, <1>3, <1>4 DEF Arrays
<1>7. Level(s1, k) = new /\ Level(s, k) = s.ibuf[k]
  BY <1>1, <1>2, <1>6 DEF Level
<1>8. ASSUME NEW j \in 0..(Len(sh) - 1), j # k
      PROVE  Level(s1, j) = Level(s, j)
  <2>1. CASE j = 0
    BY <1>6, <2>1 DEF Level
  <2>2. CASE j # 0
    <3>1. j \in 1..(n - 1)
      BY <1>1, <2>2
    <3>2. s1.ibuf[j] = s.ibuf[j]
      BY <1>2, <1>6, <1>8, <3>1
    <3> QED
      BY <2>2, <3>2 DEF Level
  <2> QED
    BY <2>1, <2>2
<1> QED
  BY <1>3, <1>5, <1>6, <1>7, <1>8 DEF Added

\* How many items the last entry of a level stands for, 0 where there is none.
CntAt(s, k) == IF Level(s, k) = <<>> THEN 0 ELSE Level(s, k)[Len(Level(s, k))].cnt

\* The last entries of t are those of s, but for a first item where there was none.
LastsKept(s, t, r) ==
  \A j \in 0..(r - 1) : \/ CntAt(t, j) = CntAt(s, j)
                       \/ (j # r - 1 /\ CntAt(s, j) = 0 /\ CntAt(t, j) = 1)

\* The loop has come to level k: the last entry of it is there, and all before it.
Reached(s, t, sh, m, k) ==
  /\ t \in [s : Arrays(sh), pos : Nat]
  /\ t.s.elem = s.elem /\ t.s.roll = s.roll
  /\ t.pos = Place(t.s, k)
  /\ Chain(t.s, Len(sh), m)
  /\ \A j \in 0..k : Level(t.s, j) # <<>>
  /\ \A j \in (k + 1)..(Len(sh) - 1) : Level(t.s, j) = Level(s, j)
  /\ IF Level(s, Len(sh) - 1) # <<>> THEN t.s = s
     ELSE k = Len(sh) - 1 => Level(t.s, k) = <<IdxFill>>
  /\ LastsKept(s, t.s, Len(sh))

\* One turn of it, where the parent is not empty.
LEMMA DownOld ==
  ASSUME NEW sh \in Seq(Nat), sh # <<>>, NEW s \in Arrays(sh), NEW m \in Nat,
         Chain(s, Len(sh), m), NEW k \in 1..(Len(sh) - 1), NEW t,
         Reached(s, t, sh, m, k - 1), LastOf(t.s, k - 1).cnt # 0
  PROVE  Reached(s, DownTo(t, k), sh, m, k)
<1>1. PICK r \in Nat : r = Len(sh) /\ r > 0 /\ k \in 1..(r - 1)
  BY ArrayIs
<1>2. k - 1 \in 0..(r - 2) /\ k - 1 \in 0..(r - 1) /\ k - 1 \in 0..(k - 1) /\ k \in 0..(r - 1)
  BY <1>1
<1>3. t.s \in Arrays(sh) /\ t.pos = Place(t.s, k - 1) /\ Chain(t.s, r, m)
  BY <1>1 DEF Reached
<1>4. Level(t.s, k - 1) # <<>>
  BY <1>2 DEF Reached
<1>5. PICK e \in Entries : /\ e = LastOf(t.s, k - 1) /\ e = Parent(t.s, k - 1, t.pos)
                           /\ e = Level(t.s, k - 1)[Len(Level(t.s, k - 1))]
  BY <1>1, <1>2, <1>3, <1>4, LastIs
<1>6. PICK n \in Nat : n = Len(Level(t.s, k))
  <2>1. Level(t.s, k) \in Seq(Entries)
    BY <1>1, <1>2, <1>3, ArrayIs
  <2> QED
    BY <2>1
<1>7. Linked(Level(t.s, k - 1), n)
  <2>1. Linked(Level(t.s, k - 1), Len(Level(t.s, k - 1 + 1)))
    BY <1>2, <1>3 DEF Chain
  <2>2. k - 1 + 1 = k
    BY <1>1
  <2> QED
    BY <1>6, <2>1, <2>2
<1>8. e.off + e.cnt = n
  BY <1>4, <1>5, <1>7 DEF Linked, Tiles, End
<1>9. e.off \in Nat /\ e.cnt \in Nat /\ e.cnt # 0
  BY <1>5 DEF Entries
<1>10. n > 0
  BY <1>8, <1>9
<1>11. Level(t.s, k) # <<>>
  BY <1>6, <1>10
<1>12. n = Place(t.s, k)
  BY <1>1, <1>6 DEF Place, Level
<1>13. PICK u : u = [s |-> t.s, pos |-> n]
  OBVIOUS
<1>14. DownTo(t, k) = u
  BY <1>5, <1>8, <1>9, <1>13 DEF DownTo
<1>15. u.s = t.s /\ u.pos = n /\ u \in [s : Arrays(sh), pos : Nat]
  BY <1>3, <1>13
<1>16. \A j \in 0..k : Level(t.s, j) # <<>>
  <2>1. \A j \in 0..k : j = k \/ j \in 0..(k - 1)
    BY <1>1
  <2> QED
    BY <1>11, <2>1 DEF Reached
<1>17. \A j \in (k + 1)..(Len(sh) - 1) : Level(t.s, j) = Level(s, j)
  <2>1. \A j \in (k + 1)..(Len(sh) - 1) : j \in (k - 1 + 1)..(Len(sh) - 1)
    BY <1>1
  <2> QED
    BY <2>1 DEF Reached
<1>18. IF Level(s, Len(sh) - 1) # <<>> THEN t.s = s
       ELSE k = Len(sh) - 1 => Level(t.s, k) = <<IdxFill>>
  <2>1. CASE Level(s, Len(sh) - 1) # <<>>
    BY <2>1 DEF Reached
  <2>2. CASE Level(s, Len(sh) - 1) = <<>>
    <3>1. ASSUME k = Len(sh) - 1
          PROVE  FALSE
      <4>1. k \in (k - 1 + 1)..(Len(sh) - 1)
        BY <3>1
      <4>2. Level(t.s, k) = Level(s, k)
        BY <4>1 DEF Reached
      <4> QED
        BY <1>11, <2>2, <3>1, <4>2
    <3> QED
      BY <2>2, <3>1
  <2> QED
    BY <2>1, <2>2
<1>19. u.s.elem = s.elem /\ u.s.roll = s.roll /\ LastsKept(s, u.s, Len(sh))
  BY <1>15 DEF Reached
<1> QED
  BY <1>1, <1>3, <1>12, <1>14, <1>15, <1>16, <1>17, <1>18, <1>19 DEF Reached

\* One turn of it, where the parent is empty and so is all below it.
LEMMA DownNew ==
  ASSUME NEW sh \in Seq(Nat), sh # <<>>, NEW s \in Arrays(sh), NEW m \in Nat,
         Chain(s, Len(sh), m), NEW k \in 1..(Len(sh) - 1), NEW t,
         Reached(s, t, sh, m, k - 1), LastOf(t.s, k - 1).cnt = 0
  PROVE  Reached(s, DownTo(t, k), sh, m, k)
<1>1. PICK r \in Nat : r = Len(sh) /\ r > 0 /\ k \in 1..(r - 1)
  BY ArrayIs
<1>2. /\ k - 1 \in 0..(r - 2) /\ k - 1 \in 0..(r - 1) /\ k - 1 \in 0..(k - 1)
      /\ k \in 0..(r - 1) /\ k - 1 + 1 = k
  BY <1>1
<1>3. t.s \in Arrays(sh) /\ t.pos = Place(t.s, k - 1) /\ Chain(t.s, r, m)
  BY <1>1 DEF Reached
<1>4. Level(t.s, k - 1) # <<>>
  BY <1>2 DEF Reached
<1>5. PICK e \in Entries : /\ e = LastOf(t.s, k - 1) /\ e = Parent(t.s, k - 1, t.pos)
                           /\ e = Level(t.s, k - 1)[Len(Level(t.s, k - 1))]
  BY <1>1, <1>2, <1>3, <1>4, LastIs
<1>6. Level(t.s, k) \in Seq(Entries) /\ Len(Level(t.s, k)) \in Nat
  <2>1. Level(t.s, k) \in Seq(Entries)
    BY <1>1, <1>2, <1>3, ArrayIs
  <2> QED
    BY <2>1
<1>7. Linked(Level(t.s, k - 1), Len(Level(t.s, k)))
  <2>1. Linked(Level(t.s, k - 1), Len(Level(t.s, k - 1 + 1)))
    BY <1>2, <1>3 DEF Chain
  <2> QED
    BY <1>2, <2>1
<1>8. Len(Level(t.s, k)) = 0
  BY <1>5, <1>6, <1>7 DEF Linked
<1>9. Level(t.s, k) = <<>>
  BY <1>6, <1>8
<1>10. e.off = 0 /\ e.cnt = 0
  <2>1. e.off + e.cnt = 0
    BY <1>4, <1>5, <1>7, <1>8 DEF Linked, Tiles, End
  <2>2. e.off \in Nat /\ e.cnt \in Nat
    BY <1>5 DEF Entries
  <2> QED
    BY <2>1, <2>2
<1>11. Level(s, k) = <<>>
  <2>1. k \in (k - 1 + 1)..(Len(sh) - 1)
    BY <1>1
  <2> QED
    BY <1>9, <2>1 DEF Reached
<1>12. Level(s, r - 1) = <<>> /\ m = 0
  BY <1>1, <1>2, <1>11, EmptyBelow
<1>13. PICK s1 : s1 = WithCnt(t.s, k - 1, t.pos, 1)
  OBVIOUS
<1>14. Counted(t.s, s1, sh, k - 1, 1)
  <2>1. 1 = LastOf(t.s, k - 1).cnt + 1
    BY <1>5, <1>10
  <2> QED
    BY <1>1, <1>2, <1>3, <1>4, <1>13, <2>1, WithCntLast
<1>15. IdxFill \in Entries
  BY DEF IdxFill, Entry, Entries
<1>16. PICK s2 : s2 = [s1 EXCEPT !.ibuf[k] = Append(@, IdxFill)]
  OBVIOUS
<1>17. Added(s1, s2, sh, k, IdxFill)
  BY <1>14, <1>15, <1>16, AddLast DEF Counted
<1>18. PICK u : u = [s |-> s2, pos |-> 1]
  OBVIOUS
<1>19. DownTo(t, k) = u
  <2>1. e.cnt = 0 /\ e.off + 1 = 1
    BY <1>10
  <2> QED
    BY <1>5, <1>13, <1>16, <1>18, <2>1, Zenon DEF DownTo
<1>20. /\ u.s = s2 /\ u.pos = 1 /\ u \in [s : Arrays(sh), pos : Nat]
       /\ s2.elem = s.elem /\ s2.roll = s.roll
  BY <1>14, <1>17, <1>18 DEF Added, Counted, Reached
<1>21. Level(s2, k) = <<IdxFill>>
  <2>1. Level(s1, k) = Level(t.s, k)
    BY <1>1, <1>2, <1>14 DEF Counted
  <2> QED
    BY <1>9, <1>17, <2>1 DEF Added
<1>22. Grew(Level(t.s, k - 1), Level(s2, k - 1), 1)
  <2>1. Level(s2, k - 1) = Level(s1, k - 1)
    BY <1>1, <1>2, <1>17 DEF Added
  <2> QED
    BY <1>14, <2>1 DEF Counted
<1>23. \A j \in 0..(r - 1) : j # k /\ j # k - 1 => Level(s2, j) = Level(t.s, j)
  BY <1>1, <1>14, <1>17 DEF Added, Counted
<1>24. Tiles(<<IdxFill>>, 0) /\ Len(<<IdxFill>>) = 1 /\ <<IdxFill>> # <<>>
  <2>1. Tiles(Append(<<>>, Entry(0, 0)), 0 + 0)
    <3>1. PICK es \in Seq(Entries) : es = <<>>
      BY EmptySeq
    <3>2. Tiles(es, 0)
      BY <3>1, TilesNone
    <3>3. Tiles(Append(es, Entry(0, 0)), 0 + 0)
      BY <3>2, TilesAppend
    <3> QED
      BY <3>1, <3>3
  <2>2. Append(<<>>, Entry(0, 0)) = <<IdxFill>>
    BY DEF IdxFill
  <2> QED
    BY <2>1, <2>2
<1>25. ASSUME NEW j \in 0..(r - 2)
       PROVE  Linked(Level(s2, j), Len(Level(s2, j + 1)))
  <2>1. j \in 0..(r - 1) /\ j + 1 \in 0..(r - 1) /\ j + 1 # j
    BY <1>1
  <2>2. Linked(Level(t.s, j), Len(Level(t.s, j + 1)))
    BY <1>3 DEF Chain
  <2>3. CASE j = k - 1
    <3>1. Level(t.s, j) \in Seq(Entries) /\ Level(s2, j) \in Seq(Entries)
      BY <1>1, <1>3, <1>20, <2>1, ArrayIs
    <3>2. Linked(Level(s2, j), 0 + 1)
      <4>1. Linked(Level(t.s, j), 0)
        BY <1>7, <1>8, <2>3
      <4>2. Level(t.s, j) # <<>> /\ Grew(Level(t.s, j), Level(s2, j), 1)
        BY <1>4, <1>22, <2>3
      <4> QED
        BY <3>1, <4>1, <4>2, LinkedGrow
    <3>3. j + 1 = k
      BY <1>2, <2>3
    <3>4. Len(Level(s2, j + 1)) = 0 + 1
      BY <1>21, <1>24, <3>3
    <3> QED
      BY <3>2, <3>4
  <2>4. CASE j = k
    <3>1. Level(t.s, j + 1) \in Seq(Entries)
      BY <1>1, <1>3, <2>1, ArrayIs
    <3>2. Len(Level(t.s, j + 1)) = 0
      BY <1>9, <2>2, <2>4, <3>1, LinkedNone
    <3>3. j + 1 # k /\ j + 1 # k - 1
      BY <2>4
    <3>4. Level(s2, j + 1) = Level(t.s, j + 1)
      BY <1>23, <2>1, <3>3
    <3> QED
      BY <1>21, <1>24, <2>4, <3>2, <3>4 DEF Linked
  <2>5. CASE j # k /\ j # k - 1
    <3>1. Level(s2, j) = Level(t.s, j)
      BY <1>23, <2>1, <2>5
    <3>2. Len(Level(s2, j + 1)) = Len(Level(t.s, j + 1))
      <4>1. CASE j + 1 = k - 1
        BY <1>22, <4>1 DEF Grew
      <4>2. CASE j + 1 # k - 1
        <5>1. j + 1 # k
          BY <2>5
        <5> QED
          BY <1>23, <2>1, <4>2, <5>1
      <4> QED
        BY <4>1, <4>2
    <3> QED
      BY <2>2, <3>1, <3>2
  <2> QED
    BY <2>3, <2>4, <2>5
<1>26. Tiles(Level(s2, r - 1), m)
  <2>1. CASE k = r - 1
    BY <1>12, <1>21, <1>24, <2>1
  <2>2. CASE k # r - 1
    <3>1. r - 1 \in 0..(r - 1) /\ r - 1 # k /\ r - 1 # k - 1
      BY <1>1, <2>2
    <3> QED
      BY <1>3, <1>23, <3>1 DEF Chain
  <2> QED
    BY <2>1, <2>2
<1>27. Chain(s2, r, m)
  BY <1>25, <1>26 DEF Chain
<1>28. ASSUME NEW j \in 0..k
       PROVE  Level(s2, j) # <<>>
  <2>1. CASE j = k
    BY <1>21, <1>24, <2>1
  <2>2. CASE j = k - 1
    <3>1. Level(s2, j) \in Seq(Entries) /\ Level(t.s, j) \in Seq(Entries)
      BY <1>1, <1>2, <1>3, <1>20, <2>2, ArrayIs
    <3>2. Len(Level(s2, j)) = Len(Level(t.s, j))
      BY <1>22, <2>2 DEF Grew
    <3> QED
      BY <1>4, <2>2, <3>1, <3>2
  <2>3. CASE j # k /\ j # k - 1
    <3>1. j \in 0..(k - 1) /\ j \in 0..(r - 1)
      BY <1>1, <2>3
    <3>2. Level(t.s, j) # <<>>
      BY <3>1 DEF Reached
    <3> QED
      BY <1>23, <2>3, <3>1, <3>2
  <2> QED
    BY <2>1, <2>2, <2>3
<1>29. ASSUME NEW j \in (k + 1)..(Len(sh) - 1)
       PROVE  Level(s2, j) = Level(s, j)
  <2>1. j \in 0..(r - 1) /\ j # k /\ j # k - 1 /\ j \in (k - 1 + 1)..(Len(sh) - 1)
    BY <1>1
  <2>2. Level(t.s, j) = Level(s, j)
    BY <2>1 DEF Reached
  <2> QED
    BY <1>23, <2>1, <2>2
<1>30. IF Level(s, Len(sh) - 1) # <<>> THEN s2 = s
       ELSE k = Len(sh) - 1 => Level(s2, k) = <<IdxFill>>
  BY <1>1, <1>12, <1>21
<1>31. 1 = Place(s2, k)
  <2>1. s2.ibuf[k] = <<IdxFill>>
    BY <1>1, <1>21 DEF Level
  <2> QED
    BY <1>1, <1>24, <2>1 DEF Place
<1>32. /\ \A j \in 0..(r - 1) : j # k /\ j # k - 1 => CntAt(s2, j) = CntAt(t.s, j)
       /\ CntAt(s2, k) = 0 /\ CntAt(t.s, k) = 0
       /\ CntAt(s2, k - 1) = 1 /\ CntAt(t.s, k - 1) = 0
  <2>1. \A j \in 0..(r - 1) : j # k /\ j # k - 1 => CntAt(s2, j) = CntAt(t.s, j)
    BY <1>23 DEF CntAt
  <2>2. CntAt(s2, k) = 0 /\ CntAt(t.s, k) = 0
    <3>1. <<IdxFill>>[1].cnt = 0
      BY DEF IdxFill, Entry
    <3> QED
      BY <1>9, <1>21, <1>24, <3>1 DEF CntAt
  <2>3. CntAt(t.s, k - 1) = 0
    BY <1>4, <1>5, <1>10 DEF CntAt
  <2>4. Level(s2, k - 1) # <<>>
    BY <1>2, <1>28, k - 1 \in 0..k
  <2>5. CntAt(s2, k - 1) = CntAt(t.s, k - 1) + 1
    BY <1>4, <1>22, <2>4 DEF CntAt, Grew
  <2> QED
    BY <2>1, <2>2, <2>3, <2>5
<1>33. LastsKept(s, s2, Len(sh))
  <2> SUFFICES ASSUME NEW j \in 0..(r - 1)
               PROVE  \/ CntAt(s2, j) = CntAt(s, j)
                      \/ (j # r - 1 /\ CntAt(s, j) = 0 /\ CntAt(s2, j) = 1)
    BY <1>1 DEF LastsKept
  <2>1. \/ CntAt(t.s, j) = CntAt(s, j)
        \/ (j # r - 1 /\ CntAt(s, j) = 0 /\ CntAt(t.s, j) = 1)
    BY <1>1 DEF Reached, LastsKept
  <2>2. CASE j = k - 1
    BY <1>1, <1>32, <2>1, <2>2
  <2>3. CASE j # k - 1
    BY <1>32, <2>1, <2>3
  <2> QED
    BY <2>2, <2>3
<1> QED
  BY <1>1, <1>19, <1>20, <1>27, <1>28, <1>29, <1>30, <1>31, <1>33 DEF Reached

\* All turns of it.
LEMMA LastParentReached ==
  ASSUME NEW sh \in Seq(Nat), sh # <<>>, NEW s \in Arrays(sh), NEW m \in Nat,
         Chain(s, Len(sh), m)
  PROVE  Reached(s, LastParent(s), sh, m, Len(sh) - 1)
<1>1. PICK n \in Nat : n = Len(sh) - 1 /\ n = Rank(s) - 1
  BY ArrayIs, SMTT(30)
<1>2. PICK S : S = [k \in 0..n |-> {t \in [s : Arrays(sh), pos : Nat] : Reached(s, t, sh, m, k)}]
  OBVIOUS
<1>3. PICK start : start = [s |-> s, pos |-> 0]
  OBVIOUS
<1>4. start \in S[0]
  <2>1. start \in [s : Arrays(sh), pos : Nat] /\ start.s = s /\ start.pos = 0
    BY <1>3
  <2>2. Level(s, 0) # <<>>
    BY ArrayIs
  <2>3. \A j \in 0..0 : Level(s, j) # <<>>
    BY <2>2
  <2>4. IF Level(s, n) # <<>> THEN s = s ELSE 0 = n => Level(s, 0) = <<IdxFill>>
    BY <2>2
  <2>5. LastsKept(s, start.s, Len(sh))
    BY <2>1 DEF LastsKept
  <2>6. Reached(s, start, sh, m, 0)
    BY <1>1, <2>1, <2>3, <2>4, <2>5 DEF Reached, Place
  <2> QED
    BY <1>2, <2>1, <2>6
<1>5. PICK step : step = [k \in 1..n |-> [t \in S[k - 1] |-> DownTo(t, k)]]
  OBVIOUS
<1>6. ASSUME NEW k \in 1..n, NEW t \in S[k - 1]
      PROVE  step[k][t] = DownTo(t, k) /\ step[k][t] \in S[k]
  <2>1. k - 1 \in 0..n /\ k \in 0..n /\ k \in 1..(Len(sh) - 1)
    BY <1>1
  <2>2. Reached(s, t, sh, m, k - 1)
    BY <1>2, <2>1
  <2>3. Reached(s, DownTo(t, k), sh, m, k)
    BY <2>1, <2>2, DownOld, DownNew
  <2>4. DownTo(t, k) \in [s : Arrays(sh), pos : Nat]
    BY <2>3 DEF Reached
  <2>5. step[k][t] = DownTo(t, k)
    BY <1>5
  <2> QED
    BY <1>2, <2>1, <2>3, <2>4, <2>5
<1>7. PICK f : /\ f = [i \in 0..n |-> f[i]]
               /\ Recursion(f, n, start, step)
               /\ \A i \in 0..n : f[i] \in S[i]
  BY <1>4, <1>6, RecursionAlong
<1>8. ASSUME NEW k \in 0..n
      PROVE  f[k] = IF k = 0 THEN start ELSE DownTo(f[k - 1], k)
  <2>1. CASE k = 0
    BY <1>7, <2>1 DEF Recursion
  <2>2. CASE k # 0
    <3>1. k \in 1..n /\ k - 1 \in 0..n
      BY <2>2
    <3>2. f[k - 1] \in S[k - 1]
      BY <1>7, <3>1
    <3>3. f[k] = step[k][f[k - 1]]
      BY <1>7, <3>1 DEF Recursion
    <3>4. step[k][f[k - 1]] = DownTo(f[k - 1], k)
      BY <1>6, <3>1, <3>2
    <3> QED
      BY <2>2, <3>3, <3>4
  <2> QED
    BY <2>1, <2>2
<1>9. f = [k \in 0..n |-> IF k = 0 THEN start ELSE DownTo(f[k - 1], k)]
  BY <1>7, <1>8
<1>10. PICK down : down = CHOOSE g : g = [k \in 0..n |-> IF k = 0 THEN start
                                                     ELSE DownTo(g[k - 1], k)]
  OBVIOUS
<1>11. down = [k \in 0..n |-> IF k = 0 THEN start ELSE DownTo(down[k - 1], k)]
  BY <1>9, <1>10, Zenon
<1>12. LastParent(s) = down[n]
  BY <1>1, <1>3, <1>10 DEF LastParent
<1>13. PICK Good : Good = {k \in 0..n : down[k] \in S[k]}
  OBVIOUS
<1>14. \A k \in 0..n : down[k] = IF k = 0 THEN start ELSE DownTo(down[k - 1], k)
  BY <1>11, Zenon
<1>15. 0 \in Good
  BY <1>4, <1>13, <1>14
<1>16. ASSUME NEW k \in 1..n, k - 1 \in Good
       PROVE  k \in Good
  <2>1. down[k - 1] \in S[k - 1]
    BY <1>13, <1>16
  <2>2. DownTo(down[k - 1], k) \in S[k]
    BY <1>6, <2>1
  <2>3. k \in 0..n /\ k # 0
    OBVIOUS
  <2>4. down[k] \in S[k]
    BY <1>14, <2>2, <2>3
  <2> QED
    BY <1>13, <2>3, <2>4
<1>17. down[n] \in S[n]
  <2>1. 0..n \subseteq Good
    BY <1>15, <1>16, IntervalInduction
  <2> QED
    BY <1>13, <2>1
<1> QED
  BY <1>1, <1>2, <1>12, <1>17

-----------------------------------------------------------------------------
(* _newIndexInfo, for the last index buffer.                                 *)

\* The first index that gets a new run, with the ones after it.
Tops(s, k) == {t \in 1..k : \A j \in (t + 1)..k : MustRoll(s, j)}

\* A mark is on one of the indexes that get new runs.
LEMMA TopMarks ==
  ASSUME NEW sh \in Seq(Nat), sh # <<>>, NEW s \in Arrays(sh), RollsUp(s),
         NEW k \in Nat, k > 0, k <= Len(sh)
  PROVE  /\ Min(Tops(s, k)) \in 1..k
         /\ \A j \in 1..k : j \notin Min(Tops(s, k))..k => s.roll[j] = FALSE
<1>1. PICK T : T = Tops(s, k)
  OBVIOUS
<1>2. k \in T /\ T \subseteq Nat /\ T \subseteq 1..k
  BY <1>1 DEF Tops
<1>3. PICK top : top = Min(T)
  OBVIOUS
<1>4. top = CHOOSE x \in T : \A y \in T : x <= y
  BY <1>3 DEF Min
<1>5. top \in T /\ \A y \in T : top <= y
  BY <1>2, <1>4, LeastChosen
<1>6. top \in 1..k
  BY <1>2, <1>5
<1>7. ASSUME NEW j \in 1..k, j \notin top..k
      PROVE  s.roll[j] = FALSE
  <2>1. j < top
    BY <1>6, <1>7
  <2>2. j \in 1..Rank(s) /\ k <= Rank(s) /\ Rank(s) \in Nat /\ s.roll \in [1..Rank(s) -> BOOLEAN]
    BY ArrayIs
  <2>3. s.roll[j] \in BOOLEAN
    BY <2>2
  <2>4. ASSUME s.roll[j]
        PROVE  FALSE
    <3>1. j # 1
      BY <2>4 DEF RollsUp
    <3>2. \A i \in j..Rank(s) : s.roll[i]
      BY <2>2, <2>4, Zenon DEF RollsUp
    <3>3. \A i \in (j - 1 + 1)..k : i \in j..Rank(s)
      BY <2>2
    <3>4. \A i \in (j - 1 + 1)..k : MustRoll(s, i)
      BY <3>2, <3>3, Zenon DEF MustRoll
    <3>5. j - 1 \in 1..k
      BY <3>1
    <3>6. j - 1 \in T
      BY <1>1, <3>4, <3>5 DEF Tops
    <3> QED
      BY <1>5, <1>6, <2>1, <3>6
  <2> QED
    BY <2>3, <2>4, Zenon
<1> QED
  BY <1>1, <1>3, <1>6, <1>7

\* What _newIndexInfo adds to index buffer j.
NextEntry(s, k, j) == Entry(End(LastOf(s, j)), IF j = k THEN 0 ELSE 1)

\* Which entries there are after it.
Extended(s, u, sh, top, k) ==
  /\ u \in Arrays(sh) /\ u.elem = s.elem
  /\ \A j \in 0..(top - 2) : Level(u, j) = Level(s, j)
  /\ Grew(Level(s, top - 1), Level(u, top - 1), 1)
  /\ \A j \in top..k : Level(u, j) = Append(Level(s, j), NextEntry(s, k, j))
  /\ \A j \in (k + 1)..(Len(sh) - 1) : Level(u, j) = Level(s, j)
  /\ \A j \in 1..Len(sh) : u.roll[j] = (s.roll[j] /\ j \notin top..k)

\* _newIndexInfo counts one item under the entry above and adds the entries of its levels.
LEMMA NewEntries ==
  ASSUME NEW sh \in Seq(Nat), sh # <<>>, NEW s \in Arrays(sh), NEW k \in 1..(Len(sh) - 1),
         \A j \in 0..k : Level(s, j) # <<>>,
         NEW top \in 1..k, top = Min(Tops(s, k))
  PROVE  Extended(s, NewIndexInfo(s, k), sh, top, k)
<1>1. PICK r \in Nat : r = Len(sh) /\ r > 0 /\ k \in 1..(r - 1) /\ top \in 1..(r - 1)
  <2>1. PICK r \in Nat : r = Len(sh) /\ r > 0
    BY ArrayIs
  <2>2. k \in 1..(r - 1)
    BY <2>1
  <2>3. top \in 1..(r - 1)
    BY <2>2
  <2> QED
    BY <2>1, <2>2, <2>3
<1>2. top - 1 \in 0..(Len(sh) - 1) /\ top - 1 \in 0..k
  BY <1>1
<1>3. PICK w : w = WithCnt(s, top - 1, Place(s, top - 1), LastOf(s, top - 1).cnt + 1)
  OBVIOUS
<1>4. Counted(s, w, sh, top - 1, 1)
  BY <1>2, <1>3, WithCntLast
<1>5. w \in Arrays(sh) /\ w.elem = s.elem /\ w.roll = s.roll
  BY <1>4 DEF Counted
<1>6. w.ibuf \in [1..(r - 1) -> Seq(Entries)] /\ s.roll \in [1..r -> BOOLEAN]
  BY <1>1, <1>5, ArrayIs
<1>7. PICK new : new = [j \in 1..(r - 1) |-> IF j \in top..k
                                             THEN Append(w.ibuf[j], NextEntry(s, k, j))
                                             ELSE w.ibuf[j]]
  OBVIOUS
<1>8. PICK roll : roll = [j \in 1..r |-> s.roll[j] /\ j \notin top..k]
  OBVIOUS
<1>9. PICK u : u = [w EXCEPT !.ibuf = new, !.roll = roll]
  OBVIOUS
<1>10. NewIndexInfo(s, k) = u
  <2>1. top = Min({t \in 1..k : \A j \in (t + 1)..k : MustRoll(s, j)})
    BY DEF Tops
  <2>2. Place(s, top - 1) = IF top = 1 THEN 0 ELSE Len(s.ibuf[top - 1])
    BY <1>1 DEF Place
  <2>3. new = [j \in DOMAIN w.ibuf |->
                 IF j \in top..k
                 THEN Append(w.ibuf[j], Entry(LastOf(s, j).off + LastOf(s, j).cnt,
                                              IF j = k THEN 0 ELSE 1))
                 ELSE w.ibuf[j]]
    <3>1. DOMAIN w.ibuf = 1..(r - 1)
      BY <1>6
    <3> QED
      BY <1>7, <3>1, Zenon DEF NextEntry, End
  <2>4. roll = [j \in DOMAIN w.roll |-> w.roll[j] /\ j \notin top..k]
    <3>1. DOMAIN w.roll = 1..r /\ w.roll = s.roll
      BY <1>5, <1>6
    <3> QED
      BY <1>8, <3>1, Zenon
  <2> QED
    BY <1>3, <1>9, <2>1, <2>2, <2>3, <2>4, Zenon DEF NewIndexInfo
<1>11. \A j \in top..k : j \in 1..(r - 1) /\ j \in 0..(Len(sh) - 1) /\ j \in 0..k
  BY <1>1
<1>12. ASSUME NEW j \in top..k
       PROVE  /\ w.ibuf[j] = Level(s, j) /\ NextEntry(s, k, j) \in Entries
              /\ new[j] = Append(Level(s, j), NextEntry(s, k, j))
              /\ new[j] \in Seq(Entries)
  <2>1. Level(w, j) = Level(s, j)
    <3>1. j # top - 1
      BY <1>1
    <3> QED
      BY <1>4, <1>11, <3>1 DEF Counted
  <2>2. w.ibuf[j] = Level(s, j)
    BY <1>11, <2>1 DEF Level
  <2>3. PICK e \in Entries : e = LastOf(s, j)
    BY <1>11, LastIs
  <2>4. NextEntry(s, k, j) \in Entries
    BY <2>3 DEF NextEntry, Entry, Entries, End
  <2>5. Level(s, j) \in Seq(Entries)
    BY <1>11, ArrayIs
  <2>6. new[j] = Append(Level(s, j), NextEntry(s, k, j))
    BY <1>7, <1>11, <2>2
  <2> QED
    BY <2>2, <2>4, <2>5, <2>6, AppendProperties
<1>13. \A j \in 1..(r - 1) : j \notin top..k => new[j] = w.ibuf[j]
  BY <1>7
<1>14. new \in [1..(r - 1) -> Seq(Entries)]
  <2>1. \A j \in 1..(r - 1) : new[j] \in Seq(Entries)
    BY <1>6, <1>12, <1>13
  <2> QED
    BY <1>7, <2>1
<1>15. roll \in [1..r -> BOOLEAN]
  BY <1>8, Zenon
<1>16. /\ u \in Arrays(sh) /\ u.elem = w.elem /\ u.idx0 = w.idx0
       /\ u.ibuf = new /\ u.roll = roll
  BY <1>1, <1>5, <1>9, <1>14, <1>15 DEF Arrays
<1>17. ASSUME NEW j \in 0..(r - 1), j \notin top..k
       PROVE  Level(u, j) = Level(w, j)
  <2>1. CASE j = 0
    BY <1>16, <2>1 DEF Level
  <2>2. CASE j # 0
    <3>1. j \in 1..(r - 1)
      BY <2>2
    <3> QED
      BY <1>13, <1>16, <1>17, <2>2, <3>1 DEF Level
  <2> QED
    BY <2>1, <2>2
<1>18. \A j \in 0..(top - 2) : Level(u, j) = Level(s, j)
  <2>1. \A j \in 0..(top - 2) : j \in 0..(r - 1) /\ j \notin top..k /\ j # top - 1
    BY <1>1, SMTT(30)
  <2> QED
    BY <1>1, <1>4, <1>17, <2>1 DEF Counted
<1>19. Grew(Level(s, top - 1), Level(u, top - 1), 1)
  <2>1. top - 1 \in 0..(r - 1) /\ top - 1 \notin top..k
    BY <1>1
  <2> QED
    BY <1>4, <1>17, <2>1 DEF Counted
<1>20. \A j \in top..k : Level(u, j) = Append(Level(s, j), NextEntry(s, k, j))
  <2>1. \A j \in top..k : j # 0
    BY <1>1
  <2> QED
    BY <1>12, <1>16, <2>1 DEF Level
<1>21. \A j \in (k + 1)..(Len(sh) - 1) : Level(u, j) = Level(s, j)
  <2>1. \A j \in (k + 1)..(Len(sh) - 1) : j \in 0..(r - 1) /\ j \notin top..k /\ j # top - 1
    BY <1>1
  <2> QED
    BY <1>1, <1>4, <1>17, <2>1 DEF Counted
<1>22. \A j \in 1..Len(sh) : u.roll[j] = (s.roll[j] /\ j \notin top..k)
  BY <1>1, <1>8, <1>16, Zenon
<1> QED
  BY <1>5, <1>10, <1>16, <1>18, <1>19, <1>20, <1>21, <1>22 DEF Extended

\* A linked level stays one when an entry for the next item comes after its others.
LEMMA LinkedAppend ==
  ASSUME NEW es \in Seq(Entries), NEW n \in Nat, Linked(es, n)
  PROVE  Linked(Append(es, Entry(n, 1)), n + 1)
<1>1. PICK e \in Entries : e = Entry(n, 1)
  BY DEF Entry, Entries
<1>2. Tiles(Append(es, e), n + 1)
  BY <1>1, TilesAppend DEF Linked
<1>3. Append(es, e)[Len(Append(es, e))] = e
  BY AppendProperties
<1>4. e.cnt = 1
  BY <1>1 DEF Entry
<1> QED
  BY <1>1, <1>2, <1>3, <1>4 DEF Linked

\* All r levels have entries.
Rooted(s, r) == \A j \in 0..(r - 1) : Level(s, j) # <<>>

\* What it makes of an array, and that no index up to k is marked.
BeginsRun(s, u, k) == u = NewIndexInfo(s, k)
Unmarked(u, k) == \A j \in 1..k : u.roll[j] = FALSE

\* The new entry has room, the marks before it are gone, and the levels tile as before.
LEMMA NewRun ==
  ASSUME NEW sh \in Seq(Nat), sh # <<>>, NEW s \in Arrays(sh), NEW m \in Nat, Len(sh) > 1,
         Chain(s, Len(sh), m), Rooted(s, Len(sh)), RollsUp(s),
         NEW u, BeginsRun(s, u, Len(sh) - 1)
  PROVE  /\ u \in Arrays(sh) /\ u.elem = s.elem
         /\ Chain(u, Len(sh), m) /\ Rooted(u, Len(sh))
         /\ Unmarked(u, Len(sh) - 1) /\ LastOf(u, Len(sh) - 1).cnt = 0
<1>1. PICK r \in Nat : r = Len(sh) /\ r > 1
  BY ArrayIs
<1>2. PICK k \in Nat : k = r - 1 /\ k \in 1..(Len(sh) - 1) /\ k > 0 /\ k <= Len(sh)
  BY <1>1
<1>3. PICK top : top = Min(Tops(s, k))
  OBVIOUS
<1>4. top \in 1..k /\ \A j \in 1..k : j \notin top..k => s.roll[j] = FALSE
  BY <1>2, <1>3, TopMarks
<1>5. \A j \in 0..k : Level(s, j) # <<>>
  BY <1>1, <1>2 DEF Rooted
<1>6. Extended(s, u, sh, top, k)
  <2>1. u = NewIndexInfo(s, k)
    BY <1>1, <1>2 DEF BeginsRun
  <2> QED
    BY <1>2, <1>3, <1>4, <1>5, <2>1, NewEntries
<1>7. u \in Arrays(sh) /\ u.elem = s.elem
  BY <1>6 DEF Extended
<1>8. \A j \in 0..k : Level(s, j) \in Seq(Entries) /\ Level(u, j) \in Seq(Entries)
  BY <1>1, <1>2, <1>7, ArrayIs
<1>9. \A j \in 0..(top - 2) : Level(u, j) = Level(s, j)
  BY <1>6 DEF Extended
<1>10. Grew(Level(s, top - 1), Level(u, top - 1), 1)
  BY <1>6 DEF Extended
<1>11. \A j \in top..k : Level(u, j) = Append(Level(s, j), NextEntry(s, k, j))
  BY <1>6 DEF Extended
<1>12. \A j \in 0..(r - 2) : Linked(Level(s, j), Len(Level(s, j + 1)))
  BY <1>1 DEF Chain
<1>13. Tiles(Level(s, k), m)
  BY <1>1, <1>2 DEF Chain
<1>14. ASSUME NEW j \in top..k
       PROVE  /\ Len(Level(u, j)) = Len(Level(s, j)) + 1
              /\ Level(u, j)[Len(Level(u, j))] = NextEntry(s, k, j)
              /\ LastOf(s, j) = Level(s, j)[Len(Level(s, j))]
  <2>1. j \in 0..k /\ j \in 0..(Len(sh) - 1) /\ Level(s, j) # <<>>
    BY <1>1, <1>2, <1>4, <1>5
  <2>2. PICK e \in Entries : e = LastOf(s, j) /\ e = Level(s, j)[Len(Level(s, j))]
    BY <2>1, LastIs
  <2>3. PICK x \in Entries : x = NextEntry(s, k, j)
    <3>1. PICK a \in Nat : a = End(LastOf(s, j))
      BY <2>2 DEF Entries, End
    <3>2. Entry(a, IF j = k THEN 0 ELSE 1) \in Entries
      BY DEF Entry, Entries
    <3> QED
      BY <3>1, <3>2 DEF NextEntry
  <2>4. Level(s, j) \in Seq(Entries)
    BY <1>8, <2>1
  <2>5. Level(u, j) = Append(Level(s, j), x)
    BY <1>11, <2>3
  <2> QED
    BY <2>2, <2>3, <2>4, <2>5, AppendProperties
<1>15. ASSUME NEW j \in 0..(r - 2)
       PROVE  Linked(Level(u, j), Len(Level(u, j + 1)))
  <2>1. /\ Level(s, j) \in Seq(Entries) /\ Level(u, j) \in Seq(Entries)
        /\ Level(s, j + 1) \in Seq(Entries) /\ Len(Level(s, j + 1)) \in Nat
        /\ Level(s, j) # <<>>
    <3>1. j \in 0..k /\ j + 1 \in 0..k
      BY <1>1, <1>2
    <3> QED
      BY <1>5, <1>8, <3>1
  <2>2. Linked(Level(s, j), Len(Level(s, j + 1)))
    BY <1>12
  <2>3. CASE j < top - 1
    <3>1. Level(u, j) = Level(s, j)
      BY <1>4, <1>9, <2>3
    <3>2. Len(Level(u, j + 1)) = Len(Level(s, j + 1))
      <4>1. CASE j + 1 = top - 1
        BY <1>10, <4>1 DEF Grew
      <4>2. CASE j + 1 # top - 1
        <5>1. j + 1 \in 0..(top - 2)
          BY <1>4, <2>3, <4>2
        <5> QED
          BY <1>9, <5>1
      <4> QED
        BY <4>1, <4>2
    <3> QED
      BY <2>2, <3>1, <3>2
  <2>4. CASE j = top - 1
    <3>1. j + 1 \in top..k /\ j + 1 = top
      BY <1>4, <2>4
    <3>2. Len(Level(u, j + 1)) = Len(Level(s, j + 1)) + 1
      BY <1>14, <3>1
    <3>3. Grew(Level(s, j), Level(u, j), 1)
      BY <1>10, <2>4
    <3>4. Linked(Level(u, j), Len(Level(s, j + 1)) + 1)
      BY <2>1, <2>2, <3>3, LinkedGrow
    <3> QED
      BY <3>2, <3>4
  <2>5. CASE j > top - 1
    <3>1. j \in top..k /\ j + 1 \in top..k /\ j # k
      <4>1. k = r - 1 /\ top \in 1..k
        BY <1>2, <1>4
      <4> QED
        BY <1>1, <2>5, <4>1
    <3>2. PICK n \in Nat : n = Len(Level(s, j + 1))
      BY <2>1
    <3>3. Len(Level(u, j + 1)) = n + 1
      BY <1>14, <3>1, <3>2
    <3>4. End(LastOf(s, j)) = n
      BY <1>14, <2>1, <2>2, <3>1, <3>2 DEF Linked, Tiles
    <3>5. Level(u, j) = Append(Level(s, j), Entry(n, 1))
      BY <1>11, <3>1, <3>4 DEF NextEntry
    <3> QED
      BY <2>1, <2>2, <3>2, <3>3, <3>5, LinkedAppend
  <2>6. top \in Nat /\ (j < top - 1 \/ j = top - 1 \/ j > top - 1)
    <3>1. top \in Nat
      BY <1>4
    <3> QED
      BY <3>1
  <2> QED
    BY <2>3, <2>4, <2>5, <2>6
<1>16. k \in top..k /\ k \in 0..k /\ Level(s, k) # <<>>
  BY <1>2, <1>4, <1>5
<1>17. NextEntry(s, k, k) = Entry(m, 0)
  <2>1. End(LastOf(s, k)) = m
    BY <1>13, <1>14, <1>16 DEF Tiles
  <2> QED
    BY <2>1 DEF NextEntry
<1>18. Tiles(Level(u, k), m)
  <2>1. Tiles(Append(Level(s, k), Entry(m, 0)), m + 0)
    BY <1>8, <1>13, <1>16, TilesAppend
  <2>2. Level(u, k) = Append(Level(s, k), Entry(m, 0))
    BY <1>11, <1>16, <1>17
  <2>3. m + 0 = m
    OBVIOUS
  <2> QED
    BY <2>1, <2>2, <2>3
<1>19. Chain(u, Len(sh), m)
  BY <1>1, <1>2, <1>15, <1>18 DEF Chain
<1>20. ASSUME NEW j \in 0..(Len(sh) - 1)
       PROVE  Level(u, j) # <<>>
  <2>1. j \in 0..k
    BY <1>1, <1>2
  <2>2. PICK a \in Nat : a = Len(Level(s, j)) /\ a > 0
    BY <1>5, <1>8, <2>1
  <2>3. Level(u, j) \in Seq(Entries)
    BY <1>8, <2>1
  <2>4. CASE j < top - 1
    BY <1>4, <1>5, <1>9, <2>1, <2>4
  <2>5. CASE j = top - 1
    <3>1. Len(Level(u, j)) = a
      BY <1>10, <2>2, <2>5 DEF Grew
    <3> QED
      BY <2>2, <2>3, <3>1
  <2>6. CASE j > top - 1
    <3>1. j \in top..k
      BY <1>4, <2>1, <2>6
    <3>2. Len(Level(u, j)) = a + 1
      BY <1>14, <2>2, <3>1
    <3> QED
      BY <2>2, <2>3, <3>2
  <2> QED
    BY <1>4, <2>1, <2>4, <2>5, <2>6
<1>21. ASSUME NEW j \in 1..(Len(sh) - 1)
       PROVE  u.roll[j] = FALSE
  <2>1. j \in 1..Len(sh) /\ j \in 1..k
    BY <1>1, <1>2
  <2>2. u.roll[j] = (s.roll[j] /\ j \notin top..k)
    BY <1>6, <2>1, Zenon DEF Extended
  <2> QED
    BY <1>4, <2>1, <2>2, Zenon
<1>22. LastOf(u, k).cnt = 0
  <2>1. LastOf(u, k) = Level(u, k)[Len(Level(u, k))]
    BY <1>1, <1>2, <1>7, <1>16, <1>20, LastIs
  <2>2. LastOf(u, k) = Entry(m, 0)
    BY <1>14, <1>16, <1>17, <2>1
  <2> QED
    BY <2>2 DEF Entry
<1> QED
  BY <1>1, <1>2, <1>7, <1>19, <1>20, <1>21, <1>22 DEF Rooted, Unmarked

-----------------------------------------------------------------------------
(* The second loop of DasAry_append.                                         *)

\* Counting c more items under the last entry of level k.
CountsTo(s, k, c, w) == w = WithCnt(s, k, Place(s, k), LastOf(s, k).cnt + c)
SamePlace(s, w, k) == Place(w, k) = Place(s, k)
LastCounts(s, w, k, c) == LastOf(w, k).cnt = LastOf(s, k).cnt + c

\* Counting c more elements in the last run.
LEMMA CountLast ==
  ASSUME NEW sh \in Seq(Nat), sh # <<>>, NEW s \in Arrays(sh), NEW m \in Nat, NEW c \in Nat,
         Chain(s, Len(sh), m), Rooted(s, Len(sh)),
         NEW w, CountsTo(s, Len(sh) - 1, c, w)
  PROVE  /\ w \in Arrays(sh) /\ w.elem = s.elem /\ w.roll = s.roll
         /\ Chain(w, Len(sh), m + c) /\ Rooted(w, Len(sh))
         /\ LastCounts(s, w, Len(sh) - 1, c)
         /\ SamePlace(s, w, Len(sh) - 1)
<1>1. PICK r \in Nat : r = Len(sh) /\ r > 0
  BY ArrayIs
<1>2. PICK k \in Nat : k = r - 1 /\ k \in 0..(r - 1) /\ k \in 0..(Len(sh) - 1)
  <2>1. r - 1 \in Nat /\ r - 1 \in 0..(r - 1)
    BY <1>1
  <2> QED
    BY <1>1, <2>1
<1>3. Level(s, k) # <<>> /\ Tiles(Level(s, k), m)
  BY <1>1, <1>2 DEF Rooted, Chain
<1>4. Counted(s, w, sh, k, c)
  <2>1. w = WithCnt(s, k, Place(s, k), LastOf(s, k).cnt + c)
    BY <1>1, <1>2 DEF CountsTo
  <2> QED
    BY <1>2, <1>3, <2>1, WithCntLast
<1>5. w \in Arrays(sh) /\ w.elem = s.elem /\ w.roll = s.roll
  BY <1>4 DEF Counted
<1>6. \A j \in 0..(r - 1) : j # k => Level(w, j) = Level(s, j)
  BY <1>1, <1>4 DEF Counted
<1>7. Grew(Level(s, k), Level(w, k), c)
  BY <1>4 DEF Counted
<1>8. Level(s, k) \in Seq(Entries) /\ Level(w, k) \in Seq(Entries)
  BY <1>1, <1>2, <1>5, ArrayIs
<1>9. Len(Level(w, k)) = Len(Level(s, k)) /\ Level(w, k) # <<>>
  BY <1>3, <1>7, <1>8 DEF Grew
<1>10. Tiles(Level(w, k), m + c)
  BY <1>3, <1>7, <1>8, TilesGrow
<1>11. ASSUME NEW j \in 0..(r - 2)
       PROVE  Linked(Level(w, j), Len(Level(w, j + 1)))
  <2>1. Linked(Level(s, j), Len(Level(s, j + 1)))
    BY <1>1 DEF Chain
  <2>2. j \in 0..(r - 1) /\ j # k /\ j + 1 \in 0..(r - 1)
    BY <1>1, <1>2
  <2>3. Level(w, j) = Level(s, j)
    BY <1>6, <2>2
  <2>4. Len(Level(w, j + 1)) = Len(Level(s, j + 1))
    BY <1>6, <1>9, <2>2
  <2> QED
    BY <2>1, <2>3, <2>4
<1>12. Chain(w, Len(sh), m + c)
  BY <1>1, <1>2, <1>10, <1>11 DEF Chain
<1>13. Rooted(w, Len(sh))
  BY <1>1, <1>6, <1>9 DEF Rooted
<1>14. LastCounts(s, w, k, c)
  <2>1. LastOf(w, k) = Level(w, k)[Len(Level(w, k))]
    BY <1>2, <1>5, <1>9, LastIs
  <2>2. PICK e \in Entries : e = LastOf(s, k) /\ e = Level(s, k)[Len(Level(s, k))]
    BY <1>2, <1>3, LastIs
  <2>3. PICK b \in Nat : b = e.cnt
    BY DEF Entries
  <2> QED
    BY <1>7, <1>9, <2>1, <2>2, <2>3 DEF Grew, LastCounts
<1>15. SamePlace(s, w, k)
  BY <1>9 DEF SamePlace, Place, Level
<1> QED
  BY <1>1, <1>2, <1>5, <1>12, <1>13, <1>14, <1>15

\* A multiple leaves nothing.
LEMMA NoRemainder ==
  ASSUME NEW q \in Nat, NEW e \in Nat, e > 0
  PROVE  (e * q) % e = 0
BY Z3

\* What is left of a multiple.
LEMMA Multiples ==
  ASSUME NEW a \in Nat, NEW e \in Nat, e > 0, a > 0, a % e = 0
  PROVE  e <= a /\ (a - e) % e = 0
<1>1. a = (e * (a \div e)) + (a % e) /\ a \div e \in Nat
  BY Z3
<1>2. PICK q \in Nat : q = a \div e
  BY <1>1
<1>3. a = e * q
  BY <1>1, <1>2
<1>4. q > 0
  BY <1>3
<1>5. e * q >= e /\ e * q - e = e * (q - 1)
  BY <1>4, Z3
<1>6. q - 1 \in Nat
  BY <1>4
<1> QED
  BY <1>3, <1>5, <1>6, NoRemainder

\* Whether the last run takes values, and how many a fresh one or the rest of it takes.
Open(s, r) ==
  r = 1 \/ (s.roll[r] = FALSE /\ (s.shape[r] = 0 \/ LastOf(s, r - 1).cnt < s.shape[r]))
Fresh(s, r) ==
  IF s.roll[r] = FALSE /\ LastOf(s, r - 1).cnt < s.shape[r]
  THEN s.shape[r] - LastOf(s, r - 1).cnt ELSE s.shape[r]

\* The values not yet counted end in the run they begin in, or with a run.
Fits(t, r, n) ==
  IF r = 1 \/ t.s.shape[r] = 0 THEN t.marked = 0
  ELSE \/ t.marked = 0 /\ n <= Fresh(t.s, r)
       \/ /\ Fresh(t.s, r) <= n - t.marked
          /\ (n - t.marked - Fresh(t.s, r)) % t.s.shape[r] = 0

\* After i turns: what is counted tiles, and every two turns have counted something.
Turned(t, sh, es, v, n, i) ==
  /\ t \in [s : Arrays(sh), pos : Nat, marked : Nat]
  /\ t.marked <= n /\ t.s.elem = es /\ t.pos = Place(t.s, Len(sh) - 1)
  /\ Chain(t.s, Len(sh), v + t.marked) /\ Rooted(t.s, Len(sh)) /\ RollsUp(t.s)
  /\ t.marked < n => /\ Fits(t, Len(sh), n)
                     /\ i <= 2 * t.marked + (IF Open(t.s, Len(sh)) THEN 1 ELSE 0)

\* A turn that counts c values in the last run.
CountsIn(t, u, r, c) ==
  u = [t EXCEPT !.s = WithCnt(t.s, r - 1, t.pos, LastOf(t.s, r - 1).cnt + c),
                !.marked = t.marked + c]

\* If there is one or more of them, the turn has done its part.
LEMMA TurnCounts ==
  ASSUME NEW sh \in Seq(Nat), sh # <<>>, NEW es, NEW v \in Nat, NEW n \in Nat, NEW i \in Nat,
         NEW t, Turned(t, sh, es, v, n, i), t.marked < n, Open(t.s, Len(sh)),
         NEW c \in Nat, c > 0, NEW u, CountsIn(t, u, Len(sh), c),
         t.marked + c <= n, t.marked + c < n => Fits(u, Len(sh), n)
  PROVE  Turned(u, sh, es, v, n, i + 1)
<1>1. PICK r \in Nat : r = Len(sh) /\ r > 0
  OBVIOUS
<1>2. t.s \in Arrays(sh) /\ t.marked \in Nat /\ t.pos \in Nat
  BY DEF Turned
<1>3. PICK m \in Nat : m = v + t.marked
  BY <1>2
<1>4. PICK w : w = WithCnt(t.s, Len(sh) - 1, t.pos, LastOf(t.s, Len(sh) - 1).cnt + c)
  OBVIOUS
<1>5. t.pos = Place(t.s, Len(sh) - 1) /\ Chain(t.s, Len(sh), m) /\ Rooted(t.s, Len(sh))
  BY <1>3 DEF Turned
<1>6. /\ w \in Arrays(sh) /\ w.elem = t.s.elem /\ w.roll = t.s.roll
      /\ Chain(w, Len(sh), m + c) /\ Rooted(w, Len(sh))
      /\ Place(w, Len(sh) - 1) = Place(t.s, Len(sh) - 1)
  <2>1. PICK s \in Arrays(sh) : s = t.s
    BY <1>2
  <2>2. CountsTo(s, Len(sh) - 1, c, w)
    BY <1>4, <1>5, <2>1 DEF CountsTo
  <2>3. Chain(s, Len(sh), m) /\ Rooted(s, Len(sh))
    BY <1>5, <2>1
  <2> HIDE <2>1
  <2>4. /\ w \in Arrays(sh) /\ w.elem = s.elem /\ w.roll = s.roll
        /\ Chain(w, Len(sh), m + c) /\ Rooted(w, Len(sh))
        /\ Place(w, Len(sh) - 1) = Place(s, Len(sh) - 1)
    <3>1. w \in Arrays(sh) /\ w.elem = s.elem /\ w.roll = s.roll
      BY <2>2, <2>3, CountLast
    <3>2. Chain(w, Len(sh), m + c)
      BY <2>2, <2>3, CountLast
    <3>3. Rooted(w, Len(sh))
      BY <2>2, <2>3, CountLast
    <3>4. SamePlace(s, w, Len(sh) - 1)
      BY <2>2, <2>3, CountLast
    <3> QED
      BY <3>1, <3>2, <3>3, <3>4 DEF SamePlace
  <2> QED
    BY <2>1, <2>4
<1>7. /\ u \in [s : Arrays(sh), pos : Nat, marked : Nat]
      /\ u.s = w /\ u.pos = t.pos /\ u.marked = t.marked + c
  <2>1. t \in [s : Arrays(sh), pos : Nat, marked : Nat]
    BY DEF Turned
  <2>2. PICK a \in Nat : a = t.marked + c
    BY <1>2
  <2>3. u = [t EXCEPT !.s = w, !.marked = a]
    BY <1>4, <2>2, Zenon DEF CountsIn
  <2> QED
    BY <1>6, <2>1, <2>2, <2>3
<1>8. Chain(u.s, Len(sh), v + u.marked)
  <2>1. v + u.marked = m + c
    <3>1. PICK a \in Nat : a = t.marked
      BY <1>2
    <3>2. u.marked = a + c /\ m = v + a
      BY <1>3, <1>7, <3>1
    <3> QED
      BY <3>2
  <2> QED
    BY <1>6, <1>7, <2>1
<1>9. RollsUp(u.s)
  <2>1. Rank(w) = Rank(t.s)
    BY <1>2, <1>6, ArrayIs
  <2> QED
    BY <1>6, <1>7, <2>1, Zenon DEF RollsUp, Turned
<1>10. i + 1 <= 2 * u.marked + (IF Open(u.s, Len(sh)) THEN 1 ELSE 0)
  <2>1. PICK a \in Nat : a = t.marked
    BY <1>2
  <2>2. i <= 2 * a + 1
    BY <2>1 DEF Turned
  <2>3. PICK b \in 0..1 : b = IF Open(u.s, Len(sh)) THEN 1 ELSE 0
    OBVIOUS
  <2>4. i + 1 <= 2 * (a + c) + b
    BY <2>2
  <2> QED
    BY <1>7, <2>1, <2>3, <2>4
<1>11. u.s.elem = es /\ u.pos = Place(u.s, Len(sh) - 1) /\ u.marked <= n
  BY <1>5, <1>6, <1>7 DEF Turned
<1> QED
  BY <1>6, <1>7, <1>8, <1>9, <1>10, <1>11 DEF Turned

\* The last run, in the terms of MarkSome.
LEMMA TurnPlace ==
  ASSUME NEW sh \in Seq(Nat), sh # <<>>, NEW es, NEW v \in Nat, NEW n \in Nat, NEW i \in Nat,
         NEW t, Turned(t, sh, es, v, n, i)
  PROVE  \E r \in Nat, x \in Nat, e \in Nat :
           /\ r = Len(sh) /\ r > 0 /\ Rank(t.s) = r
           /\ x = LastOf(t.s, r - 1).cnt /\ x = Parent(t.s, r - 1, t.pos).cnt
           /\ e = sh[r] /\ e = t.s.shape[r]
           /\ t.s.roll[r] \in BOOLEAN /\ t.s.roll[1] = FALSE
           /\ t.marked \in Nat /\ t.s \in Arrays(sh)
<1>1. t.s \in Arrays(sh) /\ t.marked \in Nat /\ t.s.roll[1] = FALSE
  BY DEF Turned, RollsUp
<1>2. PICK r \in Nat : r = Len(sh) /\ r > 0 /\ Rank(t.s) = r /\ t.s.shape = sh
  BY <1>1, ArrayIs
<1>3. PICK k \in Nat : k = r - 1 /\ k \in 0..(Len(sh) - 1) /\ k \in 0..(r - 1)
  <2>1. r - 1 \in Nat /\ r - 1 \in 0..(r - 1)
    BY <1>2
  <2> QED
    BY <1>2, <2>1
<1>4. Level(t.s, k) # <<>> /\ t.pos = Place(t.s, k)
  BY <1>2, <1>3 DEF Turned, Rooted
<1>5. PICK p \in Entries : p = LastOf(t.s, k) /\ p = Parent(t.s, k, t.pos)
  BY <1>1, <1>3, <1>4, LastIs
<1>6. PICK x \in Nat : x = p.cnt
  BY DEF Entries
<1>7. PICK e \in Nat : e = sh[r]
  BY <1>2
<1>8. t.s.roll[r] \in BOOLEAN
  <2>1. t.s.roll \in [1..r -> BOOLEAN] /\ r \in 1..r
    BY <1>1, <1>2, ArrayIs
  <2> QED
    BY <2>1, Zenon
<1> QED
  BY <1>1, <1>2, <1>3, <1>5, <1>6, <1>7, <1>8

\* A turn that takes all there is.
LEMMA TurnAll ==
  ASSUME NEW sh \in Seq(Nat), sh # <<>>, NEW es, NEW v \in Nat, NEW n \in Nat, NEW i \in Nat,
         NEW t, Turned(t, sh, es, v, n, i), t.marked < n,
         Len(sh) = 1 \/ (t.s.roll[Len(sh)] = FALSE /\ t.s.shape[Len(sh)] = 0)
  PROVE  Turned(MarkSome(t, n), sh, es, v, n, i + 1)
<1>1. PICK r \in Nat, x \in Nat, e \in Nat :
        /\ r = Len(sh) /\ r > 0 /\ Rank(t.s) = r
        /\ x = LastOf(t.s, r - 1).cnt /\ x = Parent(t.s, r - 1, t.pos).cnt
        /\ e = sh[r] /\ e = t.s.shape[r]
        /\ t.s.roll[r] \in BOOLEAN /\ t.s.roll[1] = FALSE
        /\ t.marked \in Nat /\ t.s \in Arrays(sh)
  BY TurnPlace
<1>2. t.marked = 0
  BY <1>1 DEF Turned, Fits
<1>3. PICK u : u = [t EXCEPT !.s = WithCnt(t.s, r - 1, t.pos, x + n), !.marked = n]
  OBVIOUS
<1>4. MarkSome(t, n) = u
  BY <1>1, <1>3, Zenon DEF MarkSome
<1>5. CountsIn(t, u, Len(sh), n)
  <2>1. t.marked + n = n
    BY <1>2
  <2>2. r = Len(sh) /\ x = LastOf(t.s, Len(sh) - 1).cnt
    BY <1>1
  <2> QED
    BY <1>3, <2>1, <2>2, Zenon DEF CountsIn
<1>6. Open(t.s, Len(sh))
  BY <1>1 DEF Open
<1>7. t.marked + n = n /\ n > 0
  BY <1>2
<1> QED
  BY <1>4, <1>5, <1>6, <1>7, TurnCounts

\* A turn that takes what there is room for.
LEMMA TurnSome ==
  ASSUME NEW sh \in Seq(Nat), sh # <<>>, NEW es, NEW v \in Nat, NEW n \in Nat, NEW i \in Nat,
         NEW t, Turned(t, sh, es, v, n, i), t.marked < n,
         Len(sh) # 1, t.s.roll[Len(sh)] = FALSE,
         t.s.shape[Len(sh)] - LastOf(t.s, Len(sh) - 1).cnt > 0
  PROVE  Turned(MarkSome(t, n), sh, es, v, n, i + 1)
<1>1. PICK r \in Nat, x \in Nat, e \in Nat :
        /\ r = Len(sh) /\ r > 0 /\ Rank(t.s) = r
        /\ x = LastOf(t.s, r - 1).cnt /\ x = Parent(t.s, r - 1, t.pos).cnt
        /\ e = sh[r] /\ e = t.s.shape[r]
        /\ t.s.roll[r] \in BOOLEAN /\ t.s.roll[1] = FALSE
        /\ t.marked \in Nat /\ t.s \in Arrays(sh)
  BY TurnPlace
<1>2. PICK room \in Nat : room = e - x /\ room > 0 /\ e > 0 /\ x < e
  <2>1. e - x > 0
    BY <1>1
  <2> QED
    BY <2>1
<1>3. PICK a \in Nat : a = t.marked /\ a < n
  BY <1>1
<1>4. PICK c \in Nat : c = IF room > n THEN n ELSE room
  OBVIOUS
<1>5. Fresh(t.s, r) = room
  BY <1>1, <1>2 DEF Fresh
<1>6. (a = 0 /\ n <= room) \/ (room <= n - a /\ (n - a - room) % e = 0)
  <2>1. Fits(t, r, n)
    BY <1>1 DEF Turned
  <2>2. r # 1 /\ t.s.shape[r] # 0
    BY <1>1, <1>2, SMTT(30)
  <2> QED
    BY <1>1, <1>3, <1>5, <2>1, <2>2 DEF Fits
<1>7. a + c = n \/ (c = room /\ a + c <= n /\ (n - a - c) % e = 0)
  BY <1>2, <1>3, <1>4, <1>6, SMTT(30)
<1>8. c > 0
  BY <1>2, <1>3, <1>4
<1>9. PICK u : u = [t EXCEPT !.s = WithCnt(t.s, r - 1, t.pos, x + c), !.marked = @ + c]
  OBVIOUS
<1>10. MarkSome(t, n) = u
  <2>1. r # 1 /\ e # 0 /\ t.s.roll[r] = FALSE
    BY <1>1, <1>2, SMTT(30)
  <2> QED
    BY <1>1, <1>2, <1>4, <1>9, <2>1, Zenon DEF MarkSome
<1>11. CountsIn(t, u, Len(sh), c)
  <2>1. r = Len(sh) /\ x = LastOf(t.s, Len(sh) - 1).cnt
    BY <1>1
  <2> QED
    BY <1>9, <2>1, Zenon DEF CountsIn
<1>12. ASSUME t.marked + c < n
       PROVE  Fits(u, Len(sh), n)
  <2>1. c = room /\ (n - a - c) % e = 0 /\ n - a - c > 0
    BY <1>3, <1>7, <1>12, SMTT(30)
  <2>2. PICK left \in Nat : left = n - a - c
    BY <2>1
  <2>3. e <= left /\ (left - e) % e = 0
    BY <1>2, <2>1, <2>2, Multiples
  <2>4. PICK w : w = WithCnt(t.s, r - 1, t.pos, x + c)
    OBVIOUS
  <2>5. u.s = w /\ u.marked = a + c
    <3>1. t \in [s : Arrays(sh), pos : Nat, marked : Nat]
      BY DEF Turned
    <3>2. u = [t EXCEPT !.s = w, !.marked = @ + c]
      BY <1>9, <2>4
    <3> QED
      BY <1>3, <3>1, <3>2
  <2>6. CountsTo(t.s, Len(sh) - 1, c, w)
    BY <1>1, <2>4 DEF Turned, CountsTo
  <2>7. PICK m \in Nat : m = v + t.marked
    BY <1>1
  <2>8. t.s \in Arrays(sh) /\ Chain(t.s, Len(sh), m) /\ Rooted(t.s, Len(sh))
    BY <2>7 DEF Turned
  <2>9. w \in Arrays(sh) /\ w.roll = t.s.roll
    <3>1. w \in Arrays(sh)
      BY <2>6, <2>8, CountLast
    <3>2. w.roll = t.s.roll
      BY <2>6, <2>8, CountLast
    <3> QED
      BY <3>1, <3>2
  <2>10. LastCounts(t.s, w, Len(sh) - 1, c)
    BY <2>6, <2>8, CountLast
  <2>11. LastOf(w, r - 1).cnt = e
    <3>1. LastOf(w, r - 1).cnt = x + c
      BY <1>1, <2>10 DEF LastCounts
    <3>2. x + c = e
      <4>1. c = e - x
        BY <1>2, <2>1
      <4> QED
        BY <4>1
    <3> QED
      BY <3>1, <3>2
  <2>12. w.shape[r] = e
    BY <1>1, <2>9, ArrayIs
  <2>13. Fresh(w, r) = e
    BY <2>11, <2>12 DEF Fresh
  <2>14. n - u.marked = left
    BY <1>3, <2>2, <2>5
  <2>15. Fresh(u.s, r) <= n - u.marked /\ (n - u.marked - Fresh(u.s, r)) % u.s.shape[r] = 0
    BY <2>3, <2>5, <2>12, <2>13, <2>14
  <2>16. r # 1 /\ u.s.shape[r] # 0
    <3>1. r # 1
      BY <1>1
    <3>2. u.s.shape[r] = e /\ e > 0
      BY <1>2, <2>5, <2>12
    <3> QED
      BY <3>1, <3>2
  <2> QED
    BY <1>1, <2>15, <2>16 DEF Fits
<1>13. Open(t.s, Len(sh))
  BY <1>1, <1>2 DEF Open
<1>14. t.marked + c <= n
  BY <1>3, <1>7
<1> QED
  BY <1>8, <1>10, <1>11, <1>12, <1>13, <1>14, TurnCounts

\* Taking a mark away, and that nothing else is changed.
Unmarks(s, u, r) == u = [s EXCEPT !.roll[r] = FALSE]
OnlyMark(s, u, r) ==
  /\ u.elem = s.elem /\ u.ibuf = s.ibuf /\ u.idx0 = s.idx0
  /\ u.roll = [s.roll EXCEPT ![r] = FALSE]

\* Taking the mark off the last index changes nothing else.
LEMMA MarkGone ==
  ASSUME NEW sh \in Seq(Nat), sh # <<>>, NEW s \in Arrays(sh),
         NEW u, Unmarks(s, u, Len(sh))
  PROVE  u \in Arrays(sh) /\ OnlyMark(s, u, Len(sh))
<1> DEFINE r == Len(sh)
<1>1. r \in Nat /\ r \in 1..r /\ s.roll \in [1..r -> BOOLEAN]
  BY ArrayIs
<1>2. PICK roll : roll = [s.roll EXCEPT ![r] = FALSE]
  OBVIOUS
<1>3. roll \in [1..r -> BOOLEAN]
  BY <1>1, <1>2, Zenon
<1>4. u = [s EXCEPT !.roll = roll]
  BY <1>2, Zenon DEF Unmarks
<1>5. /\ u \in Arrays(sh) /\ u.elem = s.elem /\ u.ibuf = s.ibuf /\ u.idx0 = s.idx0
      /\ u.roll = roll
  BY <1>3, <1>4 DEF Arrays
<1> QED
  BY <1>2, <1>5 DEF OnlyMark

\* A turn that begins a run.
LEMMA TurnNew ==
  ASSUME NEW sh \in Seq(Nat), sh # <<>>, NEW es, NEW v \in Nat, NEW n \in Nat, NEW i \in Nat,
         NEW t, Turned(t, sh, es, v, n, i), t.marked < n,
         Len(sh) # 1, ~(t.s.roll[Len(sh)] = FALSE /\ t.s.shape[Len(sh)] = 0),
         ~(t.s.roll[Len(sh)] = FALSE /\ t.s.shape[Len(sh)] - LastOf(t.s, Len(sh) - 1).cnt > 0)
  PROVE  Turned(MarkSome(t, n), sh, es, v, n, i + 1)
<1>1. PICK r \in Nat, x \in Nat, e \in Nat :
        /\ r = Len(sh) /\ r > 0 /\ Rank(t.s) = r
        /\ x = LastOf(t.s, r - 1).cnt /\ x = Parent(t.s, r - 1, t.pos).cnt
        /\ e = sh[r] /\ e = t.s.shape[r]
        /\ t.s.roll[r] \in BOOLEAN /\ t.s.roll[1] = FALSE
        /\ t.marked \in Nat /\ t.s \in Arrays(sh)
  BY TurnPlace
<1>2. r > 1 /\ r - 1 \in 1..(r - 1)
  BY <1>1, SMTT(30)
<1>3. t.s.roll[r] # FALSE \/ (e # 0 /\ ~(e - x > 0))
  BY <1>1
<1>4. PICK a \in Nat : a = t.marked /\ a < n
  BY <1>1
<1>5. PICK m \in Nat : m = v + t.marked
  BY <1>1
<1>6. PICK s1 : s1 = NewIndexInfo(t.s, Len(sh) - 1)
  OBVIOUS
<1>7. /\ s1 \in Arrays(sh) /\ s1.elem = t.s.elem
      /\ Chain(s1, Len(sh), m) /\ Rooted(s1, Len(sh))
      /\ Unmarked(s1, Len(sh) - 1)
      /\ LastOf(s1, Len(sh) - 1).cnt = 0
  <2>1. PICK s \in Arrays(sh) : s = t.s
    BY <1>1
  <2>2. BeginsRun(s, s1, Len(sh) - 1) /\ Len(sh) > 1
    BY <1>1, <1>2, <1>6, <2>1 DEF BeginsRun
  <2>3. Chain(s, Len(sh), m) /\ Rooted(s, Len(sh)) /\ RollsUp(s)
    BY <1>5, <2>1 DEF Turned
  <2>4. s1 \in Arrays(sh) /\ s1.elem = s.elem
    <3>1. s1 \in Arrays(sh)
      BY <2>2, <2>3, NewRun
    <3>2. s1.elem = s.elem
      BY <2>2, <2>3, NewRun
    <3> QED
      BY <3>1, <3>2
  <2>5. Chain(s1, Len(sh), m) /\ Rooted(s1, Len(sh))
    BY <2>2, <2>3, NewRun
  <2>6. Unmarked(s1, Len(sh) - 1)
    BY <2>2, <2>3, NewRun
  <2>7. LastOf(s1, Len(sh) - 1).cnt = 0
    BY <2>2, <2>3, NewRun
  <2> QED
    BY <2>1, <2>4, <2>5, <2>6, <2>7
<1>8. PICK w : w = [s1 EXCEPT !.roll[r] = FALSE]
  OBVIOUS
<1>9. /\ w \in Arrays(sh) /\ w.elem = s1.elem /\ w.ibuf = s1.ibuf /\ w.idx0 = s1.idx0
      /\ w.roll[r] = FALSE /\ \A j \in 1..r : j # r => w.roll[j] = s1.roll[j]
  <2>1. Unmarks(s1, w, Len(sh))
    BY <1>1, <1>8 DEF Unmarks
  <2>2. w \in Arrays(sh)
    BY <1>7, <2>1, MarkGone
  <2>3. OnlyMark(s1, w, Len(sh))
    BY <1>7, <2>1, MarkGone
  <2>4. /\ w.elem = s1.elem /\ w.ibuf = s1.ibuf /\ w.idx0 = s1.idx0
        /\ w.roll = [s1.roll EXCEPT ![r] = FALSE]
    BY <1>1, <2>3 DEF OnlyMark
  <2>5. s1.roll \in [1..r -> BOOLEAN] /\ r \in 1..r
    BY <1>1, <1>7, ArrayIs, SMTT(30)
  <2>6. w.roll[r] = FALSE /\ \A j \in 1..r : j # r => w.roll[j] = s1.roll[j]
    BY <2>4, <2>5, Zenon
  <2> QED
    BY <2>2, <2>4, <2>6
<1>10. PICK u : u = [t EXCEPT !.s = w, !.pos = Len(s1.ibuf[r - 1])]
  OBVIOUS
<1>11. MarkSome(t, n) = u
  <2>1. t.s.roll[r] # FALSE \/ e # 0
    BY <1>3
  <2>2. t.s.roll[r] # FALSE \/ ~(e - x > 0)
    BY <1>3
  <2>3. r # 1 /\ s1 = NewIndexInfo(t.s, r - 1)
    BY <1>1, <1>2, <1>6
  <2> QED
    BY <1>1, <1>8, <1>10, <2>1, <2>2, <2>3, Zenon DEF MarkSome
<1>12. s1.ibuf[r - 1] \in Seq(Entries) /\ Len(s1.ibuf[r - 1]) \in Nat
  <2>1. s1.ibuf \in [1..(r - 1) -> Seq(Entries)]
    BY <1>1, <1>7, ArrayIs
  <2>2. s1.ibuf[r - 1] \in Seq(Entries)
    BY <1>2, <2>1
  <2> QED
    BY <2>2
<1>13. /\ u \in [s : Arrays(sh), pos : Nat, marked : Nat]
       /\ u.s = w /\ u.pos = Len(w.ibuf[r - 1]) /\ u.marked = a
  <2>1. t \in [s : Arrays(sh), pos : Nat, marked : Nat]
    BY DEF Turned
  <2>2. PICK p \in Nat : p = Len(s1.ibuf[r - 1])
    BY <1>12
  <2>3. u = [t EXCEPT !.s = w, !.pos = p]
    BY <1>10, <2>2
  <2> QED
    BY <1>4, <1>9, <2>1, <2>2, <2>3
<1>14. \A j \in 0..(Len(sh) - 1) : Level(w, j) = Level(s1, j)
  BY <1>9 DEF Level
<1>15. Chain(w, Len(sh), m) /\ Rooted(w, Len(sh))
  <2>1. \A j \in 0..(r - 2) : Level(w, j) = Level(s1, j) /\ Level(w, j + 1) = Level(s1, j + 1)
    BY <1>1, <1>9 DEF Level
  <2>2. Level(w, r - 1) = Level(s1, r - 1)
    BY <1>9 DEF Level
  <2>3. Chain(w, Len(sh), m)
    BY <1>1, <1>7, <2>1, <2>2 DEF Chain
  <2> QED
    BY <1>7, <1>14, <2>3 DEF Rooted
<1>16. LastOf(w, r - 1).cnt = 0
  <2>1. LastOf(w, r - 1) = LastOf(s1, r - 1)
    BY <1>9 DEF LastOf, Parent
  <2> QED
    BY <1>1, <1>7, <2>1
<1>17. RollsUp(w)
  <2>1. \A j \in 1..r : w.roll[j] = FALSE
    <3>1. \A j \in 1..r : j = r \/ j \in 1..(r - 1)
      BY <1>1
    <3> QED
      BY <1>1, <1>7, <1>9, <3>1 DEF Unmarked
  <2>2. Rank(w) = r /\ 1 \in 1..r
    BY <1>1, <1>9, ArrayIs
  <2> QED
    BY <2>1, <2>2, Zenon DEF RollsUp
<1>18. w.shape[r] = e
  BY <1>1, <1>9, ArrayIs
<1>19. Open(w, r)
  BY <1>9, <1>16, <1>18 DEF Open
<1>20. ~Open(t.s, r)
  <2>1. r # 1
    BY <1>2
  <2>2. e - x > 0 <=> x < e
    OBVIOUS
  <2>3. t.s.roll[r] # FALSE \/ (t.s.shape[r] # 0 /\ ~(LastOf(t.s, r - 1).cnt < t.s.shape[r]))
    BY <1>1, <1>3, <2>2
  <2> QED
    BY <2>1, <2>3 DEF Open
<1>21. i + 1 <= 2 * u.marked + (IF Open(u.s, Len(sh)) THEN 1 ELSE 0)
  <2>1. i <= 2 * a + 0
    BY <1>1, <1>4, <1>20 DEF Turned
  <2> QED
    BY <1>1, <1>13, <1>19, <2>1
<1>22. Fits(u, Len(sh), n)
  <2>1. Fits(t, r, n)
    BY <1>1 DEF Turned
  <2>2. CASE e = 0
    BY <1>1, <1>2, <1>4, <1>13, <1>18, <2>1, <2>2 DEF Fits
  <2>3. CASE e # 0
    <3>1. Fresh(t.s, r) = e
      BY <1>1, <1>3 DEF Fresh
    <3>2. Fresh(u.s, r) = e
      BY <1>9, <1>13, <1>16, <1>18 DEF Fresh
    <3>3. r # 1
      BY <1>2
    <3>4. (a = 0 /\ n <= e) \/ (e <= n - a /\ (n - a - e) % e = 0)
      BY <1>1, <1>4, <2>1, <2>3, <3>1, <3>3 DEF Fits
    <3>5. u.s.shape[r] = e /\ u.marked = a
      BY <1>13, <1>18
    <3>6. Fits(u, r, n)
      BY <2>3, <3>2, <3>3, <3>4, <3>5 DEF Fits
    <3> QED
      BY <1>1, <3>6
  <2> QED
    BY <2>2, <2>3
<1>23. u.s.elem = es /\ u.pos = Place(u.s, Len(sh) - 1) /\ u.marked <= n
  <2>1. u.s.elem = es
    BY <1>7, <1>9, <1>13 DEF Turned
  <2>2. r - 1 # 0
    BY <1>2
  <2>3. u.pos = Place(u.s, r - 1)
    BY <1>13, <2>2 DEF Place
  <2> QED
    BY <1>1, <1>4, <1>13, <2>1, <2>3
<1>24. Chain(u.s, Len(sh), v + u.marked)
  BY <1>4, <1>5, <1>13, <1>15
<1> QED
  BY <1>11, <1>13, <1>15, <1>17, <1>21, <1>22, <1>23, <1>24 DEF Turned

\* One turn of the loop.
Turn(t, n) == IF t.marked >= n THEN t ELSE MarkSome(t, n)

\* Any turn of the loop.
LEMMA TurnAny ==
  ASSUME NEW sh \in Seq(Nat), sh # <<>>, NEW es, NEW v \in Nat, NEW n \in Nat, NEW i \in Nat,
         NEW t, Turned(t, sh, es, v, n, i)
  PROVE  Turned(Turn(t, n), sh, es, v, n, i + 1)
<1>1. CASE t.marked >= n
  <2>1. Turn(t, n) = t
    BY <1>1 DEF Turn
  <2>2. ~(t.marked < n)
    BY <1>1 DEF Turned
  <2> QED
    BY <2>1, <2>2 DEF Turned
<1>2. CASE ~(t.marked >= n)
  <2>1. Turn(t, n) = MarkSome(t, n)
    BY <1>2 DEF Turn
  <2>2. t.marked < n
    BY <1>2 DEF Turned
  <2>3. CASE Len(sh) = 1 \/ (t.s.roll[Len(sh)] = FALSE /\ t.s.shape[Len(sh)] = 0)
    BY <2>1, <2>2, <2>3, TurnAll
  <2>4. CASE /\ Len(sh) # 1 /\ t.s.roll[Len(sh)] = FALSE
             /\ t.s.shape[Len(sh)] - LastOf(t.s, Len(sh) - 1).cnt > 0
    BY <2>1, <2>2, <2>4, TurnSome
  <2>5. CASE /\ Len(sh) # 1 /\ ~(t.s.roll[Len(sh)] = FALSE /\ t.s.shape[Len(sh)] = 0)
             /\ ~(/\ t.s.roll[Len(sh)] = FALSE
                  /\ t.s.shape[Len(sh)] - LastOf(t.s, Len(sh) - 1).cnt > 0)
    BY <2>1, <2>2, <2>5, TurnNew
  <2> QED
    BY <2>3, <2>4, <2>5
<1> QED
  BY <1>1, <1>2

\* Room and EndsRecord, of any array.
RoomOf(s) ==
  LET r == Rank(s)
      p == LastOf(s, r - 1)
  IN  IF s.roll[r] \/ (r > 1 /\ Len(s.ibuf[r - 1]) = 0) THEN 0
      ELSE IF p.cnt < s.shape[r] THEN s.shape[r] - p.cnt ELSE 0

EndsIn(s, n) ==
  LET extent == s.shape[Rank(s)]
      fresh == IF RoomOf(s) = 0 THEN extent ELSE RoomOf(s)
  IN  Rank(s) > 1 /\ extent > 0 /\ n > fresh => (n - RoomOf(s)) % extent = 0

\* The loop, as a function of the number of turns.
Turns(f, start, n) ==
  f = [i \in 0..(2 * n + 1) |->
         IF i = 0 THEN [s |-> start.s, pos |-> start.pos, marked |-> 0] ELSE Turn(f[i - 1], n)]

\* DasAry_append, with its loop given its name.
LEMMA AppendedTurns ==
  ASSUME NEW s, NEW vs, NEW start, start = LastParent([s EXCEPT !.elem = @ \o vs])
  PROVE  Appended(s, vs) = (CHOOSE f : Turns(f, start, Len(vs)))[2 * Len(vs) + 1].s
BY DEF Appended, Turns, Turn

\* The loop before its first turn.  What is true then and stays true with every turn
\* (Along) is true in the end.
FirstTurn(start) == [s |-> start.s, pos |-> start.pos, marked |-> 0]
KeptAlong(Along, sh, es, v, n) ==
  \A t \in Along : \A i \in Nat :
    Turned(t, sh, es, v, n, i) /\ t.marked < n => MarkSome(t, n) \in Along

\* So all n elements are counted when the loop ends.
LEMMA AllCounted ==
  ASSUME NEW sh \in Seq(Nat), sh # <<>>, NEW es, NEW v \in Nat, NEW n \in Nat, NEW start,
         Turned(FirstTurn(start), sh, es, v, n, 0),
         NEW Along, FirstTurn(start) \in Along, KeptAlong(Along, sh, es, v, n)
  PROVE  LET t == (CHOOSE f : Turns(f, start, n))[2 * n + 1]
         IN  t.marked = n /\ t \in Along /\ \E i \in Nat : Turned(t, sh, es, v, n, i)
<1>1. PICK N \in Nat : N = 2 * n + 1
  OBVIOUS
<1>2. PICK T : T = [s : Arrays(sh), pos : Nat, marked : Nat]
  OBVIOUS
<1>3. PICK S : S = [i \in 0..N |-> {t \in T : t \in Along /\ Turned(t, sh, es, v, n, i)}]
  OBVIOUS
<1>4. PICK first : first = [s |-> start.s, pos |-> start.pos, marked |-> 0]
  OBVIOUS
<1>5. first \in S[0]
  <2>1. Turned(first, sh, es, v, n, 0) /\ first \in Along
    BY <1>4 DEF FirstTurn
  <2>2. first \in T
    BY <1>2, <2>1 DEF Turned
  <2> QED
    BY <1>1, <1>3, <2>1, <2>2
<1>6. PICK step : step = [i \in 1..N |-> [t \in S[i - 1] |-> Turn(t, n)]]
  OBVIOUS
<1>7. ASSUME NEW i \in 1..N, NEW t \in S[i - 1]
      PROVE  step[i][t] = Turn(t, n) /\ step[i][t] \in S[i]
  <2>1. i - 1 \in 0..N /\ i - 1 \in Nat /\ i \in 0..N /\ i - 1 + 1 = i
    OBVIOUS
  <2>2. Turned(t, sh, es, v, n, i - 1) /\ t \in Along
    BY <1>3, <2>1
  <2>3. Turned(Turn(t, n), sh, es, v, n, i) /\ Turn(t, n) \in Along
    <3>1. PICK h \in Nat : h = i - 1
      BY <2>1
    <3>2. Turned(Turn(t, n), sh, es, v, n, h + 1)
      BY <2>2, <3>1, TurnAny
    <3>3. t.marked < n => MarkSome(t, n) \in Along
      BY <2>2, <3>1 DEF KeptAlong
    <3>4. t.marked < n \/ t.marked >= n
      BY <2>2 DEF Turned
    <3>5. Turn(t, n) \in Along
      BY <2>2, <3>3, <3>4 DEF Turn
    <3> QED
      BY <2>1, <3>1, <3>2, <3>5
  <2>4. Turn(t, n) \in T
    BY <1>2, <2>3 DEF Turned
  <2>5. step[i][t] = Turn(t, n)
    BY <1>6
  <2> QED
    BY <1>3, <2>1, <2>3, <2>4, <2>5
<1>8. PICK f : /\ f = [i \in 0..N |-> f[i]]
               /\ Recursion(f, N, first, step)
               /\ \A i \in 0..N : f[i] \in S[i]
  BY <1>5, <1>7, RecursionAlong
<1>9. ASSUME NEW k \in 0..N
      PROVE  f[k] = IF k = 0 THEN first ELSE Turn(f[k - 1], n)
  <2>1. CASE k = 0
    BY <1>8, <2>1 DEF Recursion
  <2>2. CASE k # 0
    <3>1. k \in 1..N /\ k - 1 \in 0..N
      BY <2>2
    <3>2. f[k - 1] \in S[k - 1]
      BY <1>8, <3>1
    <3>3. f[k] = step[k][f[k - 1]]
      BY <1>8, <3>1 DEF Recursion
    <3>4. step[k][f[k - 1]] = Turn(f[k - 1], n)
      BY <1>7, <3>1, <3>2
    <3> QED
      BY <2>2, <3>3, <3>4
  <2> QED
    BY <2>1, <2>2
<1>10. f = [k \in 0..N |-> IF k = 0 THEN first ELSE Turn(f[k - 1], n)]
  BY <1>8, <1>9
<1>11. Turns(f, start, n)
  BY <1>1, <1>4, <1>10, Zenon DEF Turns
<1>12. PICK loop : loop = CHOOSE g : Turns(g, start, n)
  OBVIOUS
<1>13. Turns(loop, start, n)
  BY <1>11, <1>12, Zenon
<1>14. \A k \in 0..N : loop[k] = IF k = 0 THEN first ELSE Turn(loop[k - 1], n)
  BY <1>1, <1>4, <1>13, Zenon DEF Turns
<1>15. PICK Good : Good = {k \in 0..N : loop[k] \in S[k]}
  OBVIOUS
<1>16. 0 \in Good
  BY <1>5, <1>14, <1>15
<1>17. ASSUME NEW k \in 1..N, k - 1 \in Good
       PROVE  k \in Good
  <2>1. loop[k - 1] \in S[k - 1]
    BY <1>15, <1>17
  <2>2. Turn(loop[k - 1], n) \in S[k]
    BY <1>7, <2>1
  <2>3. k \in 0..N /\ k # 0
    OBVIOUS
  <2>4. loop[k] \in S[k]
    BY <1>14, <2>2, <2>3
  <2> QED
    BY <1>15, <2>3, <2>4
<1>18. loop[N] \in S[N]
  <2>1. 0..N \subseteq Good
    BY <1>16, <1>17, IntervalInduction
  <2> QED
    BY <1>15, <2>1
<1>19. PICK t : t = loop[N]
  OBVIOUS
<1>20. Turned(t, sh, es, v, n, N) /\ t \in Along
  BY <1>3, <1>18, <1>19
<1>21. t.marked = n
  <2>1. PICK a \in Nat : a = t.marked /\ a <= n
    BY <1>20 DEF Turned
  <2>2. a < n => N <= 2 * a + 1
    BY <1>20, <2>1, SMTT(40) DEF Turned
  <2> QED
    BY <1>1, <2>1, <2>2
<1> QED
  BY <1>1, <1>12, <1>19, <1>20, <1>21

\* Where the last run is after the first loop, and what a fresh run takes.
LEMMA FirstFits ==
  ASSUME NEW sh \in Seq(Nat), sh # <<>>, NEW s \in Arrays(sh), NEW s0 \in Arrays(sh),
         NEW v \in Nat, NEW n \in Nat, n > 0, EndsIn(s, n),
         s0.roll = s.roll, s0.ibuf = s.ibuf, s0.idx0 = s.idx0,
         NEW start, Reached(s0, start, sh, v, Len(sh) - 1),
         NEW t, t = [s |-> start.s, pos |-> start.pos, marked |-> 0]
  PROVE  Fits(t, Len(sh), n)
<1>1. t.s = start.s /\ t.marked = 0 /\ t.s \in Arrays(sh) /\ t.s.roll = s.roll
  BY DEF Reached
<1>2. PICK r \in Nat : r = Len(sh) /\ r > 0 /\ Rank(s) = r /\ s.shape = sh /\ t.s.shape = sh
  BY <1>1, ArrayIs
<1>3. CASE r = 1 \/ sh[r] = 0
  BY <1>1, <1>2, <1>3 DEF Fits
<1>4. CASE ~(r = 1 \/ sh[r] = 0)
  <2>1. PICK e \in Nat : e = sh[r] /\ e > 0
    BY <1>2, <1>4
  <2>2. PICK k \in Nat : k = r - 1 /\ k # 0 /\ k \in 0..(Len(sh) - 1) /\ k \in 0..k
    <3>1. r - 1 \in Nat /\ r - 1 # 0 /\ r - 1 \in 0..(r - 1)
      BY <1>2, <1>4
    <3> QED
      BY <1>2, <3>1
  <2>3. Level(t.s, k) # <<>>
    BY <1>1, <1>2, <2>2 DEF Reached
  <2>4. PICK x \in Nat : x = LastOf(t.s, k).cnt
    <3>1. PICK p \in Entries : p = LastOf(t.s, k)
      BY <1>1, <2>2, <2>3, LastIs
    <3> QED
      BY <3>1 DEF Entries
  <2>5. PICK F \in Nat : F = Fresh(t.s, r) /\ F > 0
    BY <1>2, <2>1, <2>2, <2>4, SMTT(40) DEF Fresh
  <2>6. Level(s0, k) = s.ibuf[k] /\ Level(s, k) = s.ibuf[k]
    BY <2>2 DEF Level
  <2>7. s.ibuf[k] \in Seq(Entries)
    BY <2>2, <2>6, ArrayIs
  <2>8. (RoomOf(s) = 0 /\ F = e) \/ RoomOf(s) = F
    <3>1. CASE s.ibuf[k] = <<>>
      <4>1. Level(t.s, k) = <<IdxFill>>
        BY <1>1, <1>2, <2>2, <2>6, <3>1 DEF Reached
      <4>2. LastOf(t.s, k) = IdxFill
        <5>1. LastOf(t.s, k) = Level(t.s, k)[Len(Level(t.s, k))]
          BY <1>1, <2>2, <2>3, LastIs
        <5>2. Len(<<IdxFill>>) = 1 /\ <<IdxFill>>[1] = IdxFill
          OBVIOUS
        <5> QED
          BY <4>1, <5>1, <5>2
      <4>3. x = 0
        BY <2>4, <4>2 DEF IdxFill, Entry
      <4>4. F = e
        BY <1>2, <2>1, <2>2, <2>4, <2>5, <4>3 DEF Fresh
      <4>5. Len(s.ibuf[r - 1]) = 0 /\ r > 1
        BY <2>2, <3>1
      <4>6. RoomOf(s) = 0
        BY <1>2, <4>5 DEF RoomOf
      <4> QED
        BY <4>4, <4>6
    <3>2. CASE s.ibuf[k] # <<>>
      <4>1. t.s = s0
        BY <1>1, <1>2, <2>2, <2>6, <3>2 DEF Reached
      <4>2. LastOf(s, k) = LastOf(t.s, k)
        BY <4>1 DEF LastOf, Parent
      <4>3. Len(s.ibuf[r - 1]) # 0
        BY <2>2, <2>7, <3>2
      <4>4. RoomOf(s) = IF s.roll[r] THEN 0 ELSE IF x < e THEN e - x ELSE 0
        BY <1>2, <2>1, <2>2, <2>4, <4>2, <4>3, Zenon DEF RoomOf
      <4>5. s.roll[r] \in BOOLEAN
        <5>1. s.roll \in [1..r -> BOOLEAN] /\ r \in 1..r
          BY <1>2, ArrayIs
        <5> QED
          BY <5>1, Zenon
      <4>6. F = IF s.roll[r] = FALSE /\ x < e THEN e - x ELSE e
        BY <1>1, <1>2, <2>1, <2>2, <2>4, <2>5 DEF Fresh
      <4> QED
        BY <4>4, <4>5, <4>6
    <3> QED
      BY <3>1, <3>2
  <2>9. n > F => (n - RoomOf(s)) % e = 0
    <3>1. F = IF RoomOf(s) = 0 THEN e ELSE RoomOf(s)
      BY <2>5, <2>8
    <3> QED
      BY <1>2, <1>4, <2>1, <3>1 DEF EndsIn
  <2>10. n <= F \/ (F <= n /\ (n - F) % e = 0)
    <3>1. CASE n <= F
      BY <3>1
    <3>2. CASE n > F /\ RoomOf(s) = F
      BY <2>9, <3>2
    <3>3. CASE n > F /\ RoomOf(s) = 0 /\ F = e
      <4>1. n % e = 0
        BY <2>9, <3>3
      <4> QED
        BY <2>1, <3>3, <4>1, Multiples
    <3> QED
      BY <2>8, <3>1, <3>2, <3>3
  <2>11. t.s.shape[r] = e /\ r # 1 /\ e # 0
    BY <1>2, <1>4, <2>1
  <2>12. n - t.marked = n
    BY <1>1
  <2> QED
    BY <1>1, <1>2, <2>5, <2>10, <2>11, <2>12 DEF Fits
<1> QED
  BY <1>3, <1>4

\* The array with the values of a block after its elements, not yet counted.
Longer(s, vs) == [s EXCEPT !.elem = @ \o vs]

\* The second loop of DasAry_append begins at the last run of it.
LEMMA FirstTurned ==
  ASSUME NEW sh \in Seq(Nat), sh # <<>>, NEW s, Sound(s, sh),
         NEW vs \in Seq(Vals \cup {FillVal}), vs # <<>>, EndsIn(s, Len(vs)),
         NEW s0, s0 = Longer(s, vs), NEW start, start = LastParent(s0)
  PROVE  /\ Reached(s0, start, sh, Len(s.elem), Len(sh) - 1)
         /\ Turned(FirstTurn(start), sh, s.elem \o vs, Len(s.elem), Len(vs), 0)
         /\ s0 \in Arrays(sh) /\ s0.roll = s.roll /\ s0.ibuf = s.ibuf /\ s0.idx0 = s.idx0
         /\ Len(s.elem) \in Nat /\ Len(vs) \in Nat /\ Len(vs) > 0
         /\ Len(s.elem \o vs) = Len(s.elem) + Len(vs)
         /\ \A i \in 1..Len(s.elem) : (s.elem \o vs)[i] = s.elem[i]
         /\ \A i \in 1..Len(vs) : (s.elem \o vs)[Len(s.elem) + i] = vs[i]
<1>1. PICK V : V = Vals \cup {FillVal}
  OBVIOUS
<1>2. s \in Arrays(sh) /\ Chain(s, Len(sh), Len(s.elem)) /\ RollsUp(s)
  BY DEF Sound
<1>3. s.elem \in Seq(V) /\ vs \in Seq(V)
  BY <1>1, <1>2, ArrayIs
<1>4. PICK v \in Nat, n \in Nat : v = Len(s.elem) /\ n = Len(vs) /\ n > 0
  BY <1>3
<1>5. PICK es \in Seq(V) : es = s.elem \o vs
  BY <1>3, ConcatProperties
<1>6. /\ Len(es) = v + n /\ \A i \in 1..v : es[i] = s.elem[i]
      /\ \A i \in 1..n : es[v + i] = vs[i]
  <2>1. /\ Len(es) = v + n
        /\ \A i \in 1..(v + n) : es[i] = IF i <= v THEN s.elem[i] ELSE vs[i - v]
    BY <1>3, <1>4, <1>5, ConcatProperties
  <2>2. \A i \in 1..v : i \in 1..(v + n) /\ i <= v
    OBVIOUS
  <2>3. \A i \in 1..n : v + i \in 1..(v + n) /\ ~(v + i <= v) /\ v + i - v = i
    OBVIOUS
  <2> QED
    BY <2>1, <2>2, <2>3
<1>7. s0 = [s EXCEPT !.elem = es]
  BY <1>5 DEF Longer
<1>8. /\ s0 \in Arrays(sh) /\ s0.elem = es /\ s0.roll = s.roll
      /\ s0.ibuf = s.ibuf /\ s0.idx0 = s.idx0
  BY <1>1, <1>2, <1>7 DEF Arrays
<1>9. Chain(s0, Len(sh), v)
  <2>1. \A k : Level(s0, k) = Level(s, k)
    BY <1>8 DEF Level
  <2> QED
    BY <1>2, <1>4, <2>1 DEF Chain
<1>10. Reached(s0, start, sh, v, Len(sh) - 1)
  BY <1>8, <1>9, LastParentReached
<1>11. PICK t : t = [s |-> start.s, pos |-> start.pos, marked |-> 0]
  OBVIOUS
<1>12. Turned(t, sh, es, v, n, 0)
  <2>1. start \in [s : Arrays(sh), pos : Nat]
    BY <1>10 DEF Reached
  <2>2. /\ t \in [s : Arrays(sh), pos : Nat, marked : Nat]
        /\ t.s = start.s /\ t.pos = start.pos /\ t.marked = 0
    BY <1>11, <2>1
  <2>3. t.s.elem = es /\ t.s.roll = s.roll /\ t.pos = Place(t.s, Len(sh) - 1)
    BY <1>8, <1>10, <2>2 DEF Reached
  <2>4. Chain(t.s, Len(sh), v + t.marked)
    <3>1. v + t.marked = v
      BY <2>2
    <3> QED
      BY <1>10, <2>2, <3>1 DEF Reached
  <2>5. Rooted(t.s, Len(sh))
    BY <1>10, <2>2 DEF Reached, Rooted
  <2>6. RollsUp(t.s)
    <3>1. Rank(t.s) = Rank(s)
      BY <1>2, <2>2, ArrayIs
    <3> QED
      BY <1>2, <2>3, <3>1, Zenon DEF RollsUp
  <2>7. Fits(t, Len(sh), n)
    BY <1>2, <1>4, <1>8, <1>10, <1>11, FirstFits
  <2>8. t.marked <= n /\ 0 <= 2 * t.marked + (IF Open(t.s, Len(sh)) THEN 1 ELSE 0)
    BY <2>2
  <2> QED
    BY <2>2, <2>3, <2>4, <2>5, <2>6, <2>7, <2>8 DEF Turned
<1> QED
  BY <1>4, <1>5, <1>6, <1>8, <1>10, <1>11, <1>12 DEF FirstTurn

\* Where it ends, with what is true along its way.
LEMMA LastTurned ==
  ASSUME NEW sh \in Seq(Nat), sh # <<>>, NEW s, Sound(s, sh),
         NEW vs \in Seq(Vals \cup {FillVal}), vs # <<>>, EndsIn(s, Len(vs)),
         NEW start, start = LastParent(Longer(s, vs)),
         NEW Along, FirstTurn(start) \in Along,
         KeptAlong(Along, sh, s.elem \o vs, Len(s.elem), Len(vs))
  PROVE  \E t \in Along : \E i \in Nat :
           /\ Appended(s, vs) = t.s /\ t.marked = Len(vs)
           /\ Turned(t, sh, s.elem \o vs, Len(s.elem), Len(vs), i)
<1>1. PICK es, v, n : es = s.elem \o vs /\ v = Len(s.elem) /\ n = Len(vs)
  OBVIOUS
<1>2. Turned(FirstTurn(start), sh, es, v, n, 0) /\ v \in Nat /\ n \in Nat
  BY <1>1, FirstTurned
<1>3. PICK u : u = (CHOOSE f : Turns(f, start, n))[2 * n + 1]
  OBVIOUS
<1>4. u.marked = n /\ u \in Along /\ \E i \in Nat : Turned(u, sh, es, v, n, i)
  <2>1. KeptAlong(Along, sh, es, v, n)
    BY <1>1
  <2> QED
    BY <1>2, <1>3, <2>1, AllCounted, ZenonT(40)
<1>5. Appended(s, vs) = u.s
  <2>1. start = LastParent([s EXCEPT !.elem = @ \o vs])
    BY DEF Longer
  <2> QED
    BY <1>1, <1>3, <2>1, AppendedTurns
<1> QED
  BY <1>1, <1>4, <1>5

\* DasAry_append, unless it straddles records: the values are counted, each once.
THEOREM AppendSound ==
  ASSUME NEW sh \in Seq(Nat), sh # <<>>, NEW s, Sound(s, sh),
         NEW vs \in Seq(Vals \cup {FillVal}), vs # <<>>, EndsIn(s, Len(vs))
  PROVE  Sound(Appended(s, vs), sh)
<1>1. PICK start : start = LastParent(Longer(s, vs))
  OBVIOUS
<1>2. PICK es, v, n : es = s.elem \o vs /\ v = Len(s.elem) /\ n = Len(vs)
  OBVIOUS
<1>3. Turned(FirstTurn(start), sh, es, v, n, 0) /\ Len(es) = v + n
  BY <1>1, <1>2, FirstTurned
<1>4. PICK T : T = [s : Arrays(sh), pos : Nat, marked : Nat]
  OBVIOUS
<1>5. FirstTurn(start) \in T
  BY <1>3, <1>4 DEF Turned
<1>6. KeptAlong(T, sh, es, v, n)
  <2> SUFFICES ASSUME NEW t \in T, NEW i \in Nat, Turned(t, sh, es, v, n, i), t.marked < n
               PROVE  MarkSome(t, n) \in T
    BY DEF KeptAlong
  <2>1. Turned(Turn(t, n), sh, es, v, n, i + 1)
    BY <1>1, <1>2, FirstTurned, TurnAny
  <2>2. Turn(t, n) = MarkSome(t, n)
    <3>1. t.marked \in Nat /\ n \in Nat
      BY <1>2, <1>4, FirstTurned
    <3> QED
      BY <3>1 DEF Turn
  <2> QED
    BY <1>4, <2>1, <2>2 DEF Turned
<1>7. PICK u \in T, i \in Nat : /\ Appended(s, vs) = u.s /\ u.marked = n
                                /\ Turned(u, sh, es, v, n, i)
  BY <1>1, <1>2, <1>5, <1>6, LastTurned
<1>8. /\ u.s \in Arrays(sh) /\ u.s.elem = es
      /\ Chain(u.s, Len(sh), v + n) /\ RollsUp(u.s)
  BY <1>7 DEF Turned
<1> QED
  BY <1>3, <1>7, <1>8 DEF Sound

-----------------------------------------------------------------------------
(* Marking, emptying, writing over.                                          *)

\* DasAry_markEnd
LEMMA MarkedSound ==
  ASSUME NEW sh \in Seq(Nat), sh # <<>>, NEW s, Sound(s, sh), NEW d \in 2..Len(sh)
  PROVE  Sound(Marked(s, d), sh)
<1>1. s \in Arrays(sh) /\ Chain(s, Len(sh), Len(s.elem)) /\ RollsUp(s)
  BY DEF Sound
<1>2. PICK r \in Nat : r = Len(sh) /\ r > 0 /\ Rank(s) = r
  BY <1>1, ArrayIs
<1>3. s.roll \in [1..r -> BOOLEAN]
  BY <1>1, <1>2, ArrayIs
<1>4. PICK roll : roll = [k \in 1..r |-> s.roll[k] \/ k >= d]
  OBVIOUS
<1>5. roll \in [1..r -> BOOLEAN] /\ \A k \in 1..r : roll[k] = (s.roll[k] \/ k >= d)
  BY <1>4, Zenon
<1>6. PICK u : u = [s EXCEPT !.roll = roll]
  OBVIOUS
<1>7. Marked(s, d) = u
  <2>1. DOMAIN s.roll = 1..r
    BY <1>3
  <2> QED
    BY <1>4, <1>6, <2>1, Zenon DEF Marked
<1>8. /\ u \in Arrays(sh) /\ u.elem = s.elem /\ u.ibuf = s.ibuf /\ u.idx0 = s.idx0
      /\ u.roll = roll
  BY <1>1, <1>2, <1>5, <1>6 DEF Arrays
<1>9. Chain(u, Len(sh), Len(u.elem))
  <2>1. \A k : Level(u, k) = Level(s, k)
    BY <1>8 DEF Level
  <2> QED
    BY <1>1, <1>8, <2>1 DEF Chain
<1>10. RollsUp(u)
  <2>1. Rank(u) = r
    BY <1>2, <1>8, ArrayIs
  <2>2. 1 \in 1..r /\ ~(1 >= d)
    BY <1>2
  <2>3. u.roll[1] = FALSE
    <3>1. s.roll[1] = FALSE
      BY <1>1 DEF RollsUp
    <3> QED
      BY <1>5, <1>8, <2>2, <3>1, Zenon
  <2>4. ASSUME NEW j \in 1..r, u.roll[j], NEW k \in j..r
        PROVE  u.roll[k]
    <3>1. k \in 1..r
      OBVIOUS
    <3>2. CASE j >= d
      <4>1. k >= d
        BY <3>2
      <4> QED
        BY <1>5, <1>8, <3>1, <4>1, Zenon
    <3>3. CASE s.roll[j]
      <4>1. s.roll[k]
        BY <1>1, <1>2, <3>3, Zenon DEF RollsUp
      <4> QED
        BY <1>5, <1>8, <3>1, <4>1, Zenon
    <3> QED
      BY <1>5, <1>8, <2>4, <3>2, <3>3, Zenon
  <2> QED
    BY <2>1, <2>3, <2>4, Zenon DEF RollsUp
<1> QED
  BY <1>7, <1>8, <1>9, <1>10 DEF Sound

\* The first entry begins at the start.
LEMMA FirstOff ==
  ASSUME NEW e \in Entries, NEW m \in Nat, Tiles(<<e>>, m)
  PROVE  e.off = 0 /\ e.cnt = m
<1>1. PICK a \in Nat, b \in Nat : a = e.off /\ b = e.cnt
  BY DEF Entries
<1>2. <<e>> # <<>> /\ Len(<<e>>) = 1 /\ <<e>>[1] = e
  OBVIOUS
<1>3. a + b = m
  BY <1>1, <1>2 DEF Tiles, End
<1>4. CASE m = 0
  BY <1>1, <1>3, <1>4
<1>5. CASE m # 0
  <2>1. 0 \in Below(m)
    BY <1>5 DEF Below
  <2>2. \E i \in 1..1 : <<e>>[i].off <= 0
    BY <1>2, <2>1 DEF Tiles
  <2>3. a <= 0
    BY <1>1, <1>2, <2>2
  <2> QED
    BY <1>1, <1>3, <2>3
<1> QED
  BY <1>4, <1>5

\* The top entry stands for all of the next level.
LEMMA TopEntry ==
  ASSUME NEW sh \in Seq(Nat), sh # <<>>, NEW s \in Arrays(sh), NEW m \in Nat,
         Chain(s, Len(sh), m)
  PROVE  s.idx0.off = 0
<1>1. PICK r \in Nat : r = Len(sh) /\ r > 0
  BY ArrayIs
<1>2. Level(s, 0) = <<s.idx0>> /\ s.idx0 \in Entries
  BY ArrayIs
<1>3. CASE r = 1
  <2>1. Tiles(Level(s, 0), m)
    BY <1>1, <1>3 DEF Chain
  <2> QED
    BY <1>2, <2>1, FirstOff
<1>4. CASE r # 1
  <2>1. 0 \in 0..(r - 2) /\ 1 \in 0..(Len(sh) - 1) /\ 0 + 1 = 1
    BY <1>1, <1>4
  <2>2. Tiles(Level(s, 0), Len(Level(s, 1)))
    BY <1>1, <2>1 DEF Chain, Linked
  <2>3. Level(s, 1) \in Seq(Entries)
    BY <2>1, ArrayIs
  <2>4. Len(Level(s, 1)) \in Nat
    BY <2>3
  <2> QED
    BY <1>2, <2>2, <2>4, FirstOff
<1> QED
  BY <1>3, <1>4

\* DasAry_clear
LEMMA ClearedSound ==
  ASSUME NEW sh \in Seq(Nat), sh # <<>>, NEW s, Sound(s, sh)
  PROVE  Sound(Cleared(s), sh)
<1>1. s \in Arrays(sh) /\ Chain(s, Len(sh), Len(s.elem))
  BY DEF Sound
<1>2. PICK r \in Nat : r = Len(sh) /\ r > 0
  BY <1>1, ArrayIs
<1>3. /\ s.idx0 \in Entries /\ s.ibuf \in [1..(r - 1) -> Seq(Entries)]
      /\ s.roll \in [1..r -> BOOLEAN] /\ Len(s.elem) \in Nat
  <2>1. s.elem \in Seq(Vals \cup {FillVal})
    BY <1>1, ArrayIs
  <2> QED
    BY <1>1, <1>2, <2>1, ArrayIs
<1>4. s.idx0.off = 0
  BY <1>1, <1>3, TopEntry
<1>5. PICK e : e \in Entries /\ e = IdxFill /\ e.off = 0 /\ e.cnt = 0
  <2>1. IdxFill.off = 0 /\ IdxFill.cnt = 0
    BY DEF IdxFill, Entry
  <2>2. IdxFill \in Entries
    BY DEF IdxFill, Entry, Entries
  <2> QED
    BY <2>1, <2>2
<1>6. [s.idx0 EXCEPT !.cnt = 0] = e
  BY <1>3, <1>4, <1>5 DEF IdxFill, Entry, Entries
<1>7. PICK ibuf : ibuf = [k \in 1..(r - 1) |-> <<>>]
  OBVIOUS
<1>8. PICK roll : roll = [k \in 1..r |-> FALSE]
  OBVIOUS
<1>9. PICK u : u = [s EXCEPT !.idx0 = e, !.elem = <<>>, !.ibuf = ibuf, !.roll = roll]
  OBVIOUS
<1>10. Cleared(s) = u
  <2>1. ibuf = [k \in DOMAIN s.ibuf |-> <<>>]
    BY <1>3, <1>7
  <2>2. roll = [k \in DOMAIN s.roll |-> FALSE]
    BY <1>3, <1>8
  <2> QED
    BY <1>6, <1>9, <2>1, <2>2, Zenon DEF Cleared
<1>11. <<>> \in Seq(Entries) /\ <<>> \in Seq(Vals \cup {FillVal})
  BY EmptySeq
<1>12. ibuf \in [1..(r - 1) -> Seq(Entries)]
  BY <1>7, <1>11
<1>13. roll \in [1..r -> BOOLEAN]
  BY <1>8, Zenon
<1>14. /\ u \in Arrays(sh) /\ u.elem = <<>> /\ u.ibuf = ibuf /\ u.idx0 = e
       /\ u.roll = roll
  <2>1. PICK none : none = <<>> /\ none \in Seq(Vals \cup {FillVal})
    BY <1>11
  <2>2. u = [s EXCEPT !.idx0 = e, !.elem = none, !.ibuf = ibuf, !.roll = roll]
    BY <1>9, <2>1
  <2>3. /\ s \in [shape : {sh}, idx0 : Entries, ibuf : [1..(Len(sh) - 1) -> Seq(Entries)],
                elem : Seq(Vals \cup {FillVal}), roll : [1..Len(sh) -> BOOLEAN]]
        /\ ibuf \in [1..(Len(sh) - 1) -> Seq(Entries)] /\ roll \in [1..Len(sh) -> BOOLEAN]
        /\ e \in Entries
    BY <1>1, <1>2, <1>5, <1>12, <1>13 DEF Arrays
  <2>4. u.elem = none /\ u.ibuf = ibuf /\ u.idx0 = e /\ u.roll = roll
    BY <2>2, <2>3
  <2>5. u \in Arrays(sh)
    BY <2>1, <2>2, <2>3, Zenon DEF Arrays
  <2> QED
    BY <2>1, <2>4, <2>5
<1>15. Level(u, 0) = <<e>>
  BY <1>14 DEF Level
<1>16. \A k \in 1..(r - 1) : Level(u, k) = <<>>
  BY <1>7, <1>14 DEF Level
<1>17. Tiles(<<e>>, 0)
  <2>1. PICK es \in Seq(Entries) : es = <<>>
    BY <1>11
  <2>2. Tiles(es, 0)
    BY <2>1, TilesNone
  <2>3. Tiles(Append(es, Entry(0, 0)), 0 + 0)
    BY <2>2, TilesAppend
  <2>4. Append(es, Entry(0, 0)) = <<e>>
    <3>1. Append(<<>>, e) = <<e>>
      BY <1>5, <1>11
    <3> QED
      BY <1>5, <2>1, <3>1 DEF IdxFill
  <2>5. Tiles(<<e>>, 0 + 0)
    BY <2>3, <2>4
  <2>6. 0 + 0 = 0
    OBVIOUS
  <2> QED
    BY <2>5, <2>6
<1>18. ASSUME NEW k \in 0..(r - 1)
       PROVE  Tiles(Level(u, k), 0)
  <2>1. CASE k = 0
    BY <1>15, <1>17, <2>1
  <2>2. CASE k # 0
    <3>1. k \in 1..(r - 1)
      BY <2>2
    <3> QED
      BY <1>16, <3>1, TilesNone
  <2> QED
    BY <2>1, <2>2
<1>19. Chain(u, Len(sh), Len(u.elem))
  <2>1. ASSUME NEW k \in 0..(r - 2)
        PROVE  Linked(Level(u, k), Len(Level(u, k + 1)))
    <3>1. k \in 0..(r - 1) /\ k + 1 \in 1..(r - 1)
      BY <1>2
    <3>2. Len(Level(u, k + 1)) = 0
      BY <1>16, <3>1
    <3> QED
      BY <1>18, <3>1, <3>2 DEF Linked
  <2>2. Tiles(Level(u, r - 1), 0)
    <3>1. r - 1 \in 0..(r - 1)
      BY <1>2
    <3> QED
      BY <1>18, <3>1
  <2>3. Len(u.elem) = 0
    BY <1>14
  <2> QED
    BY <1>2, <2>1, <2>2, <2>3 DEF Chain
<1>20. RollsUp(u)
  <2>1. Rank(u) = r /\ 1 \in 1..r
    BY <1>2, <1>14, ArrayIs
  <2>2. \A k \in 1..r : u.roll[k] = FALSE
    BY <1>8, <1>14, Zenon
  <2> QED
    BY <2>1, <2>2, Zenon DEF RollsUp
<1> QED
  BY <1>10, <1>14, <1>19, <1>20 DEF Sound

\* DasAry_putAt: the values change, what stands for them does not.
LEMMA WrittenSound ==
  ASSUME NEW sh \in Seq(Nat), sh # <<>>, NEW s, Sound(s, sh),
         NEW loc, NEW vs \in Seq({FillVal})
  PROVE  Sound(Written(s, loc, vs), sh)
<1>1. s \in Arrays(sh) /\ Chain(s, Len(sh), Len(s.elem)) /\ RollsUp(s)
  BY DEF Sound
<1>2. s.elem \in Seq(Vals \cup {FillVal}) /\ Rank(s) = Len(sh)
  BY <1>1, ArrayIs
<1>3. PICK o : o = OffsetAt(s, loc)
  OBVIOUS
<1>4. PICK new : new = [i \in DOMAIN s.elem |->
                          IF i - o \in 1..Len(vs) THEN vs[i - o] ELSE s.elem[i]]
  OBVIOUS
<1>5. PICK n \in Nat : n = Len(s.elem) /\ DOMAIN s.elem = 1..n
  BY <1>2
<1>6. \A j \in 1..Len(vs) : vs[j] \in Vals \cup {FillVal}
  OBVIOUS
<1>7. \A i \in 1..n : s.elem[i] \in Vals \cup {FillVal}
  BY <1>2, <1>5
<1>8. new \in [1..n -> Vals \cup {FillVal}]
  BY <1>4, <1>5, <1>6, <1>7
<1>9. new \in Seq(Vals \cup {FillVal}) /\ Len(new) = n
  BY <1>8
<1>10. PICK u : u = [s EXCEPT !.elem = new]
  OBVIOUS
<1>11. Written(s, loc, vs) = u
  BY <1>3, <1>4, <1>10, Zenon DEF Written
<1>12. /\ u \in Arrays(sh) /\ u.elem = new /\ u.roll = s.roll
       /\ u.ibuf = s.ibuf /\ u.idx0 = s.idx0
  BY <1>1, <1>9, <1>10 DEF Arrays
<1>13. \A k : Level(u, k) = Level(s, k)
  BY <1>12 DEF Level
<1>14. Chain(u, Len(sh), Len(u.elem))
  <2>1. Len(u.elem) = Len(s.elem)
    BY <1>5, <1>9, <1>12
  <2> QED
    BY <1>1, <1>13, <2>1 DEF Chain
<1>15. RollsUp(u)
  <2>1. Rank(u) = Rank(s)
    BY <1>1, <1>12, ArrayIs
  <2> QED
    BY <1>1, <1>12, <2>1, Zenon DEF RollsUp
<1> QED
  BY <1>11, <1>12, <1>14, <1>15 DEF Sound

-----------------------------------------------------------------------------
(* Filling up the last run.                                                  *)

\* One step of _Array_LastParentFor, and what it gives: the last entry, or none.
RunBelow(s, x, k) ==
  IF x = -1 THEN -1
  ELSE LET p == Parent(s, k - 1, x)
       IN  IF p.cnt = 0 \/ p.off + p.cnt > Valid(s, k) THEN -1 ELSE p.off + p.cnt
LastOrNone(s, k) == {-1} \cup {x \in Nat : x = Place(s, k) /\ Level(s, k) # <<>>}

\* One step from the last entry of a level leads to the last of the next.
LEMMA RunBelowIs ==
  ASSUME NEW sh \in Seq(Nat), sh # <<>>, NEW s \in Arrays(sh), NEW m,
         Chain(s, Len(sh), m), NEW k \in 1..(Len(sh) - 1), NEW x \in LastOrNone(s, k - 1)
  PROVE  RunBelow(s, x, k) \in LastOrNone(s, k)
<1>1. PICK r \in Nat : r = Len(sh) /\ r > 0
  BY ArrayIs
<1>2. CASE x = -1
  BY <1>2 DEF RunBelow, LastOrNone
<1>3. CASE x # -1
  <2>1. x = Place(s, k - 1) /\ Level(s, k - 1) # <<>>
    BY <1>3 DEF LastOrNone
  <2>2. k - 1 \in 0..(Len(sh) - 1) /\ k - 1 \in 0..(Len(sh) - 2) /\ k \in 0..(Len(sh) - 1)
    BY <1>1
  <2>3. PICK e \in Entries : /\ e = Parent(s, k - 1, x)
                             /\ e = Level(s, k - 1)[Len(Level(s, k - 1))]
    BY <2>1, <2>2, LastIs
  <2>4. PICK a \in Nat, c \in Nat : a = e.off /\ c = e.cnt
    BY DEF Entries
  <2>5. CASE c = 0 \/ a + c > Valid(s, k)
    <3>1. RunBelow(s, x, k) = -1
      BY <1>3, <2>3, <2>4, <2>5 DEF RunBelow
    <3> QED
      BY <3>1 DEF LastOrNone
  <2>6. CASE ~(c = 0 \/ a + c > Valid(s, k))
    <3>1. RunBelow(s, x, k) = a + c
      BY <1>3, <2>3, <2>4, <2>6 DEF RunBelow
    <3>2. Linked(Level(s, k - 1), Len(Level(s, k)))
      <4>1. Linked(Level(s, k - 1), Len(Level(s, k - 1 + 1)))
        BY <2>2 DEF Chain
      <4>2. k - 1 + 1 = k
        OBVIOUS
      <4> QED
        BY <4>1, <4>2
    <3>3. a + c = Len(Level(s, k))
      BY <2>1, <2>3, <2>4, <3>2 DEF Linked, Tiles, End
    <3>4. Len(Level(s, k)) = Place(s, k)
      BY DEF Level, Place
    <3>5. Level(s, k) # <<>>
      BY <2>4, <2>6, <3>3
    <3> QED
      BY <2>4, <3>1, <3>3, <3>4, <3>5 DEF LastOrNone
  <2> QED
    BY <2>5, <2>6
<1> QED
  BY <1>2, <1>3

\* All its steps: the run it finds for the last index is the last there is.
LEMMA LastRunIs ==
  ASSUME NEW sh \in Seq(Nat), sh # <<>>, NEW s \in Arrays(sh), NEW m,
         Chain(s, Len(sh), m)
  PROVE  LastRun(s, Len(sh)) \in LastOrNone(s, Len(sh) - 1)
<1>1. PICK n \in Nat : n = Len(sh) - 1
  <2>1. PICK r \in Nat : r = Len(sh) /\ r > 0
    BY ArrayIs
  <2>2. r - 1 \in Nat
    BY <2>1
  <2> QED
    BY <2>1, <2>2
<1>2. PICK S : S = [k \in 0..n |-> LastOrNone(s, k)]
  OBVIOUS
<1>3. 0 \in S[0]
  <2>1. Level(s, 0) # <<>> /\ Place(s, 0) = 0
    BY ArrayIs DEF Place
  <2> QED
    BY <1>1, <1>2, <2>1 DEF LastOrNone
<1>4. PICK step : step = [k \in 1..n |-> [x \in S[k - 1] |-> RunBelow(s, x, k)]]
  OBVIOUS
<1>5. ASSUME NEW k \in 1..n, NEW x \in S[k - 1]
      PROVE  step[k][x] = RunBelow(s, x, k) /\ step[k][x] \in S[k]
  <2>1. k - 1 \in 0..n /\ k \in 0..n /\ k \in 1..(Len(sh) - 1)
    BY <1>1
  <2>2. x \in LastOrNone(s, k - 1)
    BY <1>2, <2>1
  <2>3. RunBelow(s, x, k) \in LastOrNone(s, k)
    BY <2>1, <2>2, RunBelowIs
  <2> QED
    BY <1>2, <1>4, <2>1, <2>3
<1>6. PICK f : /\ f = [i \in 0..n |-> f[i]]
               /\ Recursion(f, n, 0, step)
               /\ \A i \in 0..n : f[i] \in S[i]
  BY <1>3, <1>5, RecursionAlong
<1>7. ASSUME NEW k \in 0..n
      PROVE  f[k] = IF k = 0 THEN 0 ELSE RunBelow(s, f[k - 1], k)
  <2>1. CASE k = 0
    BY <1>6, <2>1 DEF Recursion
  <2>2. CASE k # 0
    <3>1. k \in 1..n /\ k - 1 \in 0..n
      BY <2>2
    <3>2. f[k - 1] \in S[k - 1]
      BY <1>6, <3>1
    <3>3. f[k] = step[k][f[k - 1]]
      BY <1>6, <3>1 DEF Recursion
    <3> QED
      BY <1>5, <2>2, <3>1, <3>2, <3>3
  <2> QED
    BY <2>1, <2>2
<1>8. f = [k \in 0..n |-> IF k = 0 THEN 0 ELSE RunBelow(s, f[k - 1], k)]
  BY <1>6, <1>7
<1>9. PICK at : at = CHOOSE g : g = [k \in 0..n |-> IF k = 0 THEN 0
                                                 ELSE RunBelow(s, g[k - 1], k)]
  OBVIOUS
<1>10. at = [k \in 0..n |-> IF k = 0 THEN 0 ELSE RunBelow(s, at[k - 1], k)]
  BY <1>8, <1>9, Zenon
<1>11. LastRun(s, Len(sh)) = at[n]
  BY <1>1, <1>9, Zenon DEF LastRun, RunBelow
<1>12. PICK Good : Good = {k \in 0..n : at[k] \in S[k]}
  OBVIOUS
<1>13. \A k \in 0..n : at[k] = IF k = 0 THEN 0 ELSE RunBelow(s, at[k - 1], k)
  BY <1>10, Zenon
<1>14. 0 \in Good
  BY <1>3, <1>12, <1>13
<1>15. ASSUME NEW k \in 1..n, k - 1 \in Good
       PROVE  k \in Good
  <2>1. at[k - 1] \in S[k - 1]
    BY <1>12, <1>15
  <2>2. RunBelow(s, at[k - 1], k) \in S[k]
    BY <1>5, <2>1
  <2>3. k \in 0..n /\ k # 0
    OBVIOUS
  <2>4. at[k] \in S[k]
    BY <1>13, <2>2, <2>3
  <2> QED
    BY <1>12, <2>3, <2>4
<1>16. at[n] \in S[n]
  <2>1. 0..n \subseteq Good
    BY <1>14, <1>15, IntervalInduction
  <2> QED
    BY <1>12, <2>1
<1> QED
  BY <1>1, <1>2, <1>11, <1>16
\* The only run to visit when the index to fill up is the last.
LEMMA VisitsLast ==
  ASSUME NEW s, NEW r \in Nat, r = Rank(s)
  PROVE  Visits(s, r) = [i \in 1..1 |-> <<>>]
<1> DEFINE B == Below(Max({s.shape[k] : k \in r..Rank(s)}))
           Of(n) == {p \in [1..n -> B] : \A i \in 1..n : p[i] < s.shape[r + i - 1]}
           paths == UNION {Of(n) : n \in 0..(Rank(s) - r)}
           Before(p) == {o \in paths :
                           \/ \E i \in DOMAIN o \cap DOMAIN p :
                                o[i] < p[i] /\ \A j \in 1..(i - 1) : o[j] = p[j]
                           \/ IsStrictPrefix(o, p)}
           visits == [i \in 1..Cardinality(paths) |->
                        CHOOSE p \in paths : Cardinality(Before(p)) = i - 1]
<1>4. Visits(s, r) = visits
  BY DEF Visits
<1>5. paths = {<<>>}
  <2>1. \A n : n \in 0..(Rank(s) - r) <=> n = 0
    OBVIOUS
  <2>2. \A p : p \in paths <=> \E n \in 0..(Rank(s) - r) : p \in Of(n)
    <3> HIDE DEF Of
    <3> QED
      BY Zenon
  <2>3. \A p : p \in paths <=> p \in Of(0)
    <3> HIDE DEF Of, paths
    <3>1. \A p : (\E n \in 0..(Rank(s) - r) : p \in Of(n)) <=> p \in Of(0)
      BY <2>1
    <3> QED
      BY <2>2, <3>1
  <2>4. \A i : i \notin 1..0
    OBVIOUS
  <2>5. \A p : p \in paths <=> p \in [1..0 -> B]
    <3> HIDE DEF B, paths
    <3> QED
      BY <2>3, <2>4, Zenon
  <2> HIDE DEF paths, Of, B
  <2>6. \A p \in [1..0 -> B] : p \in Seq(B) /\ Len(p) = 0
    OBVIOUS
  <2>7. \A p \in [1..0 -> B] : p = <<>>
    BY <2>6, EmptySeq
  <2>8. <<>> \in [1..0 -> B]
    <3>1. [i \in 1..0 |-> 0] \in [1..0 -> B]
      BY <2>4, Zenon
    <3> QED
      BY <2>7, <3>1
  <2> QED
    BY <2>5, <2>7, <2>8, Zenon
<1> HIDE DEF paths, Of, B
<1>6. Cardinality(paths) = 1
  BY <1>5, FS_Singleton
<1>7. Cardinality(Before(<<>>)) = 0
  <2>1. \A j : j \notin DOMAIN <<>>
    OBVIOUS
  <2>2. ~IsStrictPrefix(<<>>, <<>>)
    BY Zenon DEF IsStrictPrefix
  <2>3. \A o : o \notin Before(<<>>)
    BY <1>5, <2>1, <2>2, Zenon
  <2> HIDE DEF Before
  <2>4. Before(<<>>) = {}
    BY <2>3
  <2> QED
    BY <2>4, FS_EmptySet
<1> HIDE DEF Before
<1>8. ASSUME NEW i \in 1..1
      PROVE  visits[i] = <<>>
  <2>1. i - 1 = 0 /\ i \in 1..Cardinality(paths)
    BY <1>6
  <2>2. visits[i] = CHOOSE p \in paths : Cardinality(Before(p)) = 0
    BY <2>1
  <2>3. visits[i] \in paths
    <3> HIDE DEF visits
    <3> QED
      BY <1>5, <1>7, <2>2, Zenon
  <2> QED
    BY <1>5, <2>3
<1>9. visits = [i \in 1..1 |-> visits[i]]
  BY <1>6
<1> HIDE DEF visits
<1> QED
  BY <1>4, <1>8, <1>9, Zenon

\* What it does then, in terms of the last index.
FilledUp(s, r, run) ==
  LET need == s.shape[r] - Parent(s, r - 1, run).cnt
  IN  IF need <= 0 THEN s
      ELSE [WithCnt(s, r - 1, run, s.shape[r]) EXCEPT
              !.elem = @ \o [i \in 1..need |-> FillVal]]

\* The empty path leads to the run itself.
LEMMA FillLast ==
  ASSUME NEW s, NEW r \in Nat, r = Rank(s), NEW run
  PROVE  FillRun(s, r, run, <<>>) = FilledUp(s, r, run)
<1>1. Len(<<>>) = 0 /\ r + 0 = r
  OBVIOUS
<1>2. RunAt(s, r, run, <<>>) = run
  <2> DEFINE Step(g, i) == Parent(s, r - 2 + i, g[i - 1]).off + <<>>[i] + 1
             Is(g) == g = [i \in 0..Len(<<>>) |-> IF i = 0 THEN run ELSE Step(g, i)]
             at == CHOOSE g : Is(g)
  <2>1. RunAt(s, r, run, <<>>) = at[Len(<<>>)]
    BY Zenon DEF RunAt
  <2> HIDE DEF Step
  <2>2. PICK g : g = [i \in 0..0 |-> run]
    OBVIOUS
  <2>3. Is(g)
    BY <1>1, <2>2
  <2> HIDE DEF Is
  <2>4. Is(at)
    BY <2>3, Zenon
  <2>5. at = [i \in 0..Len(<<>>) |-> IF i = 0 THEN run ELSE Step(at, i)]
    BY <2>4, Zenon DEF Is
  <2> HIDE DEF at
  <2> QED
    BY <1>1, <2>1, <2>5
<1>3. PICK k : k = r + Len(<<>>)
  OBVIOUS
<1>4. k = r
  BY <1>1, <1>3
<1> QED
  BY <1>2, <1>3, <1>4, Zenon DEF FillRun, FilledUp

\* DasAry_qubeIn for the last index is nothing, or fill for the last run.
LEMMA QubedIs ==
  ASSUME NEW s, NEW r \in Nat, r = Rank(s), r > 0
  PROVE  \/ Qubed(s, r) = s
         \/ /\ LastRun(s, r) # -1
            /\ Qubed(s, r) = FillRun(s, r, LastRun(s, r), <<>>)
<1>1. CASE FixedFrom(s, r) = {}
  BY <1>1, Zenon DEF Qubed
<1>2. CASE LastRun(s, Min(FixedFrom(s, r))) = -1
  BY <1>2, Zenon DEF Qubed
<1>3. CASE FixedFrom(s, r) # {} /\ LastRun(s, Min(FixedFrom(s, r))) # -1
  <2>1. Min(FixedFrom(s, r)) = r
    <3>1. FixedFrom(s, r) = {r}
      BY <1>3 DEF FixedFrom
    <3>2. r \in FixedFrom(s, r) /\ \A y \in FixedFrom(s, r) : r <= y
      BY <3>1
    <3> QED
      BY <3>1, <3>2, Zenon DEF Min
  <2> DEFINE run == LastRun(s, r)
             visits == Visits(s, r)
             Is(g) == g = [i \in 0..Len(visits) |->
                             IF i = 0 THEN s ELSE FillRun(g[i - 1], r, run, visits[i])]
             filled == CHOOSE g : Is(g)
  <2>2. Qubed(s, r) = filled[Len(visits)]
    BY <1>3, <2>1, ZenonT(30) DEF Qubed
  <2>3. Len(visits) = 1 /\ visits[1] = <<>>
    <3> HIDE DEF visits
    <3>1. visits = [i \in 1..1 |-> <<>>]
      BY VisitsLast DEF visits
    <3> QED
      BY <3>1
  <2> HIDE DEF visits, run
  <2>4. PICK g : g = [i \in 0..1 |-> IF i = 0 THEN s ELSE FillRun(s, r, run, <<>>)]
    OBVIOUS
  <2>5. g[0] = s /\ \A i \in 0..1 : i # 0 => i = 1 /\ i - 1 = 0
    BY <2>4
  <2>6. Is(g)
    BY <2>3, <2>4, <2>5
  <2> HIDE DEF Is
  <2>7. Is(filled)
    BY <2>6, Zenon
  <2>8. filled = [i \in 0..Len(visits) |->
                    IF i = 0 THEN s ELSE FillRun(filled[i - 1], r, run, visits[i])]
    BY <2>7, Zenon DEF Is
  <2> HIDE DEF filled
  <2>9. filled[0] = s /\ filled[1] = FillRun(filled[0], r, run, <<>>)
    BY <2>3, <2>8
  <2> QED
    BY <1>3, <2>1, <2>2, <2>3, <2>9 DEF run
<1> QED
  BY <1>1, <1>2, <1>3

\* DasAry_qubeIn, for the last index: the fill is counted in the run it completes.
LEMMA QubedSound ==
  ASSUME NEW sh \in Seq(Nat), sh # <<>>, NEW s, Sound(s, sh)
  PROVE  Sound(Qubed(s, Len(sh)), sh)
<1>1. s \in Arrays(sh) /\ Chain(s, Len(sh), Len(s.elem)) /\ RollsUp(s)
  BY DEF Sound
<1>2. PICK r \in Nat : r = Len(sh) /\ r > 0 /\ Rank(s) = r
  BY <1>1, ArrayIs
<1>3. PICK k \in Nat : k = r - 1 /\ k \in 0..(r - 1)
  <2>1. r - 1 \in Nat /\ r - 1 \in 0..(r - 1)
    BY <1>2
  <2> QED
    BY <2>1
<1>4. PICK V : V = Vals \cup {FillVal}
  OBVIOUS
<1>5. s.elem \in Seq(V)
  BY <1>1, <1>4, ArrayIs
<1>6. PICK m \in Nat : m = Len(s.elem)
  BY <1>5
<1>7. s.shape = sh /\ sh[r] \in Nat
  <2>1. r \in 1..Len(sh)
    BY <1>2
  <2> QED
    BY <1>1, <2>1, ArrayIs
<1>8. PICK x \in Nat : x = sh[r] /\ x = s.shape[r]
  BY <1>7
<1>11. PICK run : run = LastRun(s, r)
  OBVIOUS
<1>9. CASE Qubed(s, r) = s
  BY <1>2, <1>9
<1>10. ASSUME run # -1, Qubed(s, r) = FillRun(s, r, run, <<>>)
       PROVE  Sound(Qubed(s, Len(sh)), sh)
  <2>1. run = Place(s, k) /\ Level(s, k) # <<>>
    <3>1. run \in LastOrNone(s, k)
      BY <1>1, <1>2, <1>3, <1>11, LastRunIs
    <3> QED
      BY <1>10, <3>1 DEF LastOrNone
  <2>2. Parent(s, k, run) = LastOf(s, k) /\ Parent(s, k, run) \in Entries
    BY <1>1, <1>2, <1>3, <2>1, LastIs
  <2>3. PICK c \in Nat : c = Parent(s, k, run).cnt
    BY <2>2 DEF Entries
  <2>4. PICK need \in Int : need = x - c
    BY <2>3
  <2>5. PICK w : w = WithCnt(s, k, run, x)
    OBVIOUS
  <2>6. PICK fill : fill = [i \in 1..need |-> FillVal]
    OBVIOUS
  <2>7. Qubed(s, r) = IF need <= 0 THEN s ELSE [w EXCEPT !.elem = @ \o fill]
    <3>1. FillRun(s, r, run, <<>>) = FilledUp(s, r, run)
      BY <1>2, FillLast
    <3>2. s.shape[r] - Parent(s, r - 1, run).cnt = need
      BY <1>3, <1>8, <2>3, <2>4
    <3>3. WithCnt(s, r - 1, run, s.shape[r]) = w
      BY <1>3, <1>8, <2>5
    <3> QED
      BY <1>10, <2>6, <3>1, <3>2, <3>3, Zenon DEF FilledUp
  <2>8. CASE need <= 0
    BY <1>2, <2>7, <2>8
  <2>9. CASE ~(need <= 0)
    <3>1. need \in Nat /\ need > 0 /\ x = c + need
      BY <2>3, <2>4, <2>9
    <3>2. Rooted(s, Len(sh))
      <4>1. ASSUME NEW j \in 0..(Len(sh) - 1), Level(s, j) = <<>>
            PROVE  FALSE
        <5>1. Level(s, Len(sh) - 1) = <<>>
          BY <1>1, <1>6, <4>1, EmptyBelow
        <5> QED
          BY <1>2, <1>3, <2>1, <5>1
      <4> QED
        BY <4>1 DEF Rooted
    <3>3. CountsTo(s, Len(sh) - 1, need, w)
      BY <1>2, <1>3, <2>1, <2>2, <2>3, <2>5, <3>1 DEF CountsTo
    <3>4. /\ w \in Arrays(sh) /\ w.elem = s.elem /\ w.roll = s.roll
          /\ Chain(w, Len(sh), m + need)
      <4>1. Chain(s, Len(sh), m)
        BY <1>1, <1>6
      <4>2. s \in Arrays(sh) /\ need \in Nat
        BY <1>1, <3>1
      <4> QED
        BY <3>2, <3>3, <4>1, <4>2, CountLast
    <3>5. fill \in Seq(V) /\ Len(fill) = need
      <4>1. fill \in [1..need -> V]
        BY <1>4, <2>6
      <4> QED
        BY <3>1, <4>1
    <3>6. PICK es \in Seq(V) : es = s.elem \o fill /\ Len(es) = m + need
      BY <1>5, <1>6, <3>1, <3>5, ConcatProperties
    <3>7. PICK u : u = [w EXCEPT !.elem = es]
      OBVIOUS
    <3>8. Qubed(s, r) = u
      BY <2>7, <2>9, <3>4, <3>6, <3>7
    <3>9. /\ u \in Arrays(sh) /\ u.elem = es /\ u.roll = s.roll
          /\ u.ibuf = w.ibuf /\ u.idx0 = w.idx0
      BY <1>4, <3>4, <3>7 DEF Arrays
    <3>10. Chain(u, Len(sh), Len(u.elem))
      <4>1. \A j : Level(u, j) = Level(w, j)
        BY <3>9 DEF Level
      <4> QED
        BY <3>4, <3>6, <3>9, <4>1 DEF Chain
    <3>11. RollsUp(u)
      <4>1. Rank(u) = Rank(s)
        BY <1>1, <3>9, ArrayIs
      <4> QED
        BY <1>1, <3>9, <4>1, Zenon DEF RollsUp
    <3> QED
      BY <1>2, <3>8, <3>9, <3>10, <3>11 DEF Sound
  <2> QED
    BY <2>8, <2>9
<1> QED
  BY <1>2, <1>9, <1>10, <1>11, QubedIs

-----------------------------------------------------------------------------
(* Making an array.                                                          *)

\* Successive entries for e items each.
Uniform(j, e) == [i \in 1..j |-> Entry((i - 1) * e, e)]

\* One entry more, for the items that come next.
LEMMA UniformNext ==
  ASSUME NEW j \in Nat, NEW e \in Nat
  PROVE  /\ Uniform(j, e) \in Seq(Entries) /\ Len(Uniform(j, e)) = j
         /\ Uniform(j + 1, e) = Append(Uniform(j, e), Entry(j * e, e))
         /\ j * e \in Nat /\ (j + 1) * e = j * e + e
<1>1. \A n \in Nat : n * e \in Nat
  OBVIOUS
<1>2. ASSUME NEW n \in Nat
      PROVE  Uniform(n, e) \in Seq(Entries) /\ Len(Uniform(n, e)) = n
  <2>1. \A i \in 1..n : Entry((i - 1) * e, e) \in Entries
    <3>1. ASSUME NEW i \in 1..n
          PROVE  Entry((i - 1) * e, e) \in Entries
      <4>1. i - 1 \in Nat
        OBVIOUS
      <4>2. (i - 1) * e \in Nat
        BY <1>1, <4>1
      <4> QED
        BY <4>2 DEF Entry, Entries
    <3> QED
      BY <3>1
  <2>2. Uniform(n, e) \in [1..n -> Entries]
    BY <2>1, Zenon DEF Uniform
  <2> QED
    BY <2>2
<1>3. (j + 1) * e = j * e + e
  OBVIOUS
<1>4. Entry(j * e, e) \in Entries
  BY <1>1 DEF Entry, Entries
<1>5. PICK a \in Seq(Entries) : a = Append(Uniform(j, e), Entry(j * e, e))
  BY <1>2, <1>4, AppendProperties
<1>6. /\ Len(a) = j + 1 /\ a[j + 1] = Entry(j * e, e)
      /\ \A i \in 1..j : a[i] = Uniform(j, e)[i]
  BY <1>2, <1>4, <1>5, AppendProperties, SMTT(40)
<1>7. PICK b \in Seq(Entries) : b = Uniform(j + 1, e) /\ Len(b) = j + 1
  BY <1>2
<1>8. ASSUME NEW i \in 1..(j + 1)
      PROVE  a[i] = b[i]
  <2>1. b[i] = Entry((i - 1) * e, e)
    BY <1>7 DEF Uniform
  <2>2. CASE i = j + 1
    <3>1. i - 1 = j
      BY <2>2
    <3> QED
      BY <1>6, <2>1, <2>2, <3>1
  <2>3. CASE i # j + 1
    <3>1. i \in 1..j
      BY <2>3
    <3>2. Uniform(j, e)[i] = Entry((i - 1) * e, e)
      BY <3>1, Zenon DEF Uniform
    <3> QED
      BY <1>6, <2>1, <3>1, <3>2
  <2> QED
    BY <2>2, <2>3
<1>9. a = b
  BY <1>6, <1>7, <1>8
<1> QED
  BY <1>1, <1>2, <1>3, <1>5, <1>7, <1>9

\* Such entries tile what they are made for.
LEMMA UniformLinked ==
  ASSUME NEW n \in Nat, NEW e \in Nat
  PROVE  Linked(Uniform(n, e), n * e)
<1>1. PICK Good : Good = {j \in 0..n : Tiles(Uniform(j, e), j * e)}
  OBVIOUS
<1>2. 0 \in Good
  <2>1. Uniform(0, e) = <<>>
    <3>1. Uniform(0, e) \in Seq(Entries) /\ Len(Uniform(0, e)) = 0
      BY UniformNext
    <3> QED
      BY <3>1, EmptySeq
  <2>2. 0 * e = 0
    OBVIOUS
  <2> QED
    BY <1>1, <2>1, <2>2, TilesNone
<1>3. ASSUME NEW j \in 1..n, j - 1 \in Good
      PROVE  j \in Good
  <2>1. PICK i \in Nat : i = j - 1 /\ j = i + 1
    <3>1. j - 1 \in Nat
      OBVIOUS
    <3> QED
      BY <3>1
  <2>2. PICK m \in Nat : m = i * e /\ j * e = m + e
    BY <2>1, UniformNext
  <2>3. Tiles(Uniform(i, e), m) /\ Uniform(i, e) \in Seq(Entries)
    BY <1>1, <1>3, <2>1, <2>2, UniformNext
  <2>4. Tiles(Append(Uniform(i, e), Entry(m, e)), m + e)
    BY <2>3, TilesAppend
  <2>5. Uniform(j, e) = Append(Uniform(i, e), Entry(m, e))
    <3>1. Uniform(i + 1, e) = Append(Uniform(i, e), Entry(i * e, e))
      BY <2>1, UniformNext
    <3> QED
      BY <2>1, <2>2, <3>1, Zenon
  <2>6. Tiles(Uniform(j, e), j * e)
    BY <2>2, <2>4, <2>5, Zenon
  <2>7. j \in 0..n
    OBVIOUS
  <2> QED
    BY <1>1, <2>6, <2>7
<1>4. Tiles(Uniform(n, e), n * e)
  <2>1. 0..n \subseteq Good
    BY <1>2, <1>3, IntervalInduction
  <2> QED
    BY <1>1, <2>1
<1>5. ASSUME n * e > 0
      PROVE  Uniform(n, e)[Len(Uniform(n, e))].cnt > 0
  <2>1. n > 0 /\ e > 0
    BY <1>5
  <2>2. n \in 1..n /\ Len(Uniform(n, e)) = n
    <3>1. n \in 1..n
      BY <2>1
    <3>2. Len(Uniform(n, e)) = n
      BY UniformNext
    <3> QED
      BY <3>1, <3>2
  <2>3. Uniform(n, e)[n] = Entry((n - 1) * e, e)
    BY <2>2, Zenon DEF Uniform
  <2> QED
    BY <2>1, <2>2, <2>3 DEF Entry
<1> QED
  BY <1>4, <1>5 DEF Linked

\* How many items of each level DasAry_init makes.
Counting(g, sh) == g = [k \in 0..Len(sh) |-> IF k = 0 THEN 1 ELSE g[k - 1] * sh[k]]
Counts(sh) == CHOOSE g : Counting(g, sh)
FirstEntry(sh, k, i) ==
  IF Counts(sh)[k] = 0 THEN IdxFill ELSE Entry((i - 1) * sh[k], sh[k])

\* There is such a function: the products of the extents.
LEMMA CountsAre ==
  ASSUME NEW sh \in Seq(Nat), NEW r \in Nat, r = Len(sh)
  PROVE  /\ Counts(sh)[0] = 1
         /\ \A k \in 0..r : Counts(sh)[k] \in Nat
         /\ \A k \in 1..r : Counts(sh)[k] = Counts(sh)[k - 1] * sh[k]
<1>1. PICK S : S = [k \in 0..r |-> Nat]
  OBVIOUS
<1>2. PICK step : step = [k \in 1..r |-> [x \in Nat |-> x * sh[k]]]
  OBVIOUS
<1>3. \A k \in 1..r : sh[k] \in Nat
  OBVIOUS
<1>4. \A k \in 1..r : \A x \in Nat : step[k][x] = x * sh[k]
  BY <1>2
<1>5. \A x, y \in Nat : x * y \in Nat
  OBVIOUS
<1>6. \A k \in 1..r : \A x \in S[k - 1] : step[k][x] \in S[k]
  <2>1. ASSUME NEW k \in 1..r, NEW x \in S[k - 1]
        PROVE  step[k][x] \in S[k]
    <3>1. k - 1 \in 0..r /\ k \in 0..r
      OBVIOUS
    <3>2. x \in Nat /\ S[k] = Nat
      BY <1>1, <3>1
    <3>3. x * sh[k] \in Nat
      BY <1>3, <1>5, <3>2
    <3> QED
      BY <1>4, <3>2, <3>3
  <2> QED
    BY <2>1
<1>7. 1 \in S[0]
  BY <1>1
<1>8. PICK f : /\ f = [i \in 0..r |-> f[i]]
               /\ Recursion(f, r, 1, step)
               /\ \A i \in 0..r : f[i] \in S[i]
  BY <1>6, <1>7, RecursionAlong
<1>9. \A k \in 0..r : f[k] \in Nat
  BY <1>1, <1>8
<1>10. ASSUME NEW k \in 0..r
       PROVE  f[k] = IF k = 0 THEN 1 ELSE f[k - 1] * sh[k]
  <2>1. CASE k = 0
    BY <1>8, <2>1 DEF Recursion
  <2>2. CASE k # 0
    <3>1. k \in 1..r /\ k - 1 \in 0..r
      BY <2>2
    <3>2. f[k - 1] \in Nat
      BY <1>9, <3>1
    <3>3. f[k] = step[k][f[k - 1]]
      BY <1>8, <3>1 DEF Recursion
    <3>4. step[k][f[k - 1]] = f[k - 1] * sh[k]
      BY <1>4, <3>1, <3>2
    <3> QED
      BY <2>2, <3>3, <3>4
  <2> QED
    BY <2>1, <2>2
<1>11. Counting(f, sh)
  BY <1>8, <1>10 DEF Counting
<1>12. PICK n : n = Counts(sh)
  OBVIOUS
<1>13. Counting(n, sh)
  BY <1>11, <1>12, Zenon DEF Counts
<1>14. \A k \in 0..r : n[k] = IF k = 0 THEN 1 ELSE n[k - 1] * sh[k]
  <2>1. n = [k \in 0..r |-> IF k = 0 THEN 1 ELSE n[k - 1] * sh[k]]
    BY <1>13, Zenon DEF Counting
  <2> QED
    BY <2>1, Zenon
<1>15. n[0] = 1
  BY <1>14
<1>16. \A k \in 1..r : n[k] = n[k - 1] * sh[k]
  <2>1. \A k \in 1..r : k \in 0..r /\ k # 0
    OBVIOUS
  <2> QED
    BY <1>14, <2>1, Zenon
<1>17. PICK Good : Good = {k \in 0..r : n[k] \in Nat}
  OBVIOUS
<1>18. 0 \in Good
  BY <1>15, <1>17
<1>19. ASSUME NEW k \in 1..r, k - 1 \in Good
       PROVE  k \in Good
  <2>1. n[k - 1] \in Nat /\ k \in 0..r
    BY <1>17, <1>19
  <2>2. n[k] \in Nat
    BY <1>3, <1>5, <1>16, <2>1, Zenon
  <2> QED
    BY <1>17, <2>1, <2>2
<1>20. \A k \in 0..r : n[k] \in Nat
  <2>1. 0..r \subseteq Good
    BY <1>18, <1>19, IntervalInduction
  <2> QED
    BY <1>17, <2>1
<1> QED
  BY <1>12, <1>15, <1>16, <1>20

\* DasAry_init, with its local definitions given their names.
LEMMA NewAryIs ==
  ASSUME NEW sh
  PROVE  NewAry(sh) =
           [shape |-> sh, idx0 |-> FirstEntry(sh, 1, 1),
            ibuf |-> [k \in 1..(Len(sh) - 1) |->
                        [i \in 1..Counts(sh)[k] |-> FirstEntry(sh, k + 1, i)]],
            elem |-> [i \in 1..Counts(sh)[Len(sh)] |-> FillVal],
            roll |-> [k \in 1..Len(sh) |-> FALSE]]
  BY Zenon DEF NewAry, FirstEntry, Counts, Counting

\* The entries it makes of a level.
LEMMA FirstLevel ==
  ASSUME NEW sh \in Seq(Nat), NEW r \in Nat, r = Len(sh), NEW k \in 0..(r - 1)
  PROVE  [i \in 1..Counts(sh)[k] |-> FirstEntry(sh, k + 1, i)]
           = Uniform(Counts(sh)[k], sh[k + 1])
<1>1. PICK n \in Nat, m \in Nat, e \in Nat :
        n = Counts(sh)[k] /\ m = Counts(sh)[k + 1] /\ e = sh[k + 1] /\ m = n * e
  <2>1. k \in 0..r /\ k + 1 \in 1..r /\ k + 1 \in 0..r /\ k + 1 - 1 = k
    OBVIOUS
  <2>2. PICK n \in Nat, m \in Nat : n = Counts(sh)[k] /\ m = Counts(sh)[k + 1]
    BY <2>1, CountsAre
  <2>3. PICK e \in Nat : e = sh[k + 1]
    BY <2>1
  <2>4. PICK j \in 1..r : j = k + 1 /\ j - 1 = k
    BY <2>1
  <2>5. m = n * e
    <3>1. Counts(sh)[j] = Counts(sh)[j - 1] * sh[j]
      BY CountsAre, Zenon
    <3> QED
      BY <2>2, <2>3, <2>4, <3>1, Zenon
  <2> QED
    BY <2>2, <2>3, <2>5
<1>2. ASSUME NEW i \in 1..n
      PROVE  FirstEntry(sh, k + 1, i) = Entry((i - 1) * e, e)
  <2>1. CASE m = 0
    <3>1. n # 0
      OBVIOUS
    <3>2. e = 0
      BY <1>1, <2>1, <3>1
    <3>3. (i - 1) * e = 0
      BY <3>2
    <3>4. FirstEntry(sh, k + 1, i) = IdxFill
      BY <1>1, <2>1, Zenon DEF FirstEntry
    <3> QED
      BY <3>2, <3>3, <3>4, Zenon DEF IdxFill
  <2>2. CASE m # 0
    BY <1>1, <2>2, Zenon DEF FirstEntry
  <2> QED
    BY <2>1, <2>2
<1> QED
  BY <1>1, <1>2, Zenon DEF Uniform

\* The levels of a new array: full runs, as many as its extents allow.
NewLevels(s, sh) ==
  /\ s \in Arrays(sh)
  /\ \A k \in 0..(Len(sh) - 1) : /\ Level(s, k) = Uniform(Counts(sh)[k], sh[k + 1])
                                 /\ Len(Level(s, k)) = Counts(sh)[k]
                                 /\ Counts(sh)[k] \in Nat /\ sh[k + 1] \in Nat
                                 /\ Counts(sh)[k + 1] = Counts(sh)[k] * sh[k + 1]
  /\ Counts(sh)[0] = 1 /\ Counts(sh)[Len(sh)] \in Nat
  /\ s.elem = [i \in 1..Counts(sh)[Len(sh)] |-> FillVal]
  /\ \A k \in 1..Len(sh) : s.roll[k] = FALSE

\* So it is with what DasAry_init makes.
LEMMA NewAryLevels ==
  ASSUME NEW sh \in Seq(Nat), sh # <<>>
  PROVE  NewLevels(NewAry(sh), sh)
<1>1. PICK r \in Nat : r = Len(sh) /\ r > 0
  OBVIOUS
<1>2. PICK n : n = Counts(sh)
  OBVIOUS
<1>3. /\ n[0] = 1
      /\ \A k \in 0..r : n[k] \in Nat
      /\ \A k \in 1..r : n[k] = n[k - 1] * sh[k]
  BY <1>1, <1>2, CountsAre
<1>4. PICK s : s = NewAry(sh)
  OBVIOUS
<1>5. PICK ibuf : ibuf = [k \in 1..(r - 1) |-> Uniform(n[k], sh[k + 1])]
  OBVIOUS
<1>6. PICK elem : elem = [i \in 1..n[r] |-> FillVal]
  OBVIOUS
<1>7. PICK roll : roll = [k \in 1..r |-> FALSE]
  OBVIOUS
<1>8. PICK e : e = FirstEntry(sh, 1, 1)
  OBVIOUS
<1>9. s = [shape |-> sh, idx0 |-> e, ibuf |-> ibuf, elem |-> elem, roll |-> roll]
  <2>1. \A k \in 1..(r - 1) :
          [i \in 1..n[k] |-> FirstEntry(sh, k + 1, i)] = Uniform(n[k], sh[k + 1])
    <3>1. \A k \in 1..(r - 1) : k \in 0..(r - 1)
      OBVIOUS
    <3> QED
      BY <1>1, <1>2, <3>1, FirstLevel, Zenon
  <2>2. ibuf = [k \in 1..(r - 1) |-> [i \in 1..n[k] |-> FirstEntry(sh, k + 1, i)]]
    BY <1>5, <2>1, Zenon
  <2> QED
    BY <1>1, <1>2, <1>4, <1>6, <1>7, <1>8, <2>2, NewAryIs, Zenon
<1>10. \A k \in 0..(r - 1) : n[k] \in Nat /\ sh[k + 1] \in Nat /\ n[k + 1] \in Nat
                             /\ n[k + 1] = n[k] * sh[k + 1]
  <2>1. ASSUME NEW k \in 0..(r - 1)
        PROVE  n[k] \in Nat /\ sh[k + 1] \in Nat /\ n[k + 1] \in Nat
               /\ n[k + 1] = n[k] * sh[k + 1]
    <3>1. k \in 0..r /\ k + 1 \in 0..r /\ k + 1 \in 1..r /\ k + 1 - 1 = k
      OBVIOUS
    <3>2. n[k + 1] = n[k + 1 - 1] * sh[k + 1]
      BY <1>3, <3>1
    <3>3. n[k + 1] = n[k] * sh[k + 1]
      BY <3>1, <3>2, Zenon
    <3>4. sh[k + 1] \in Nat
      BY <1>1, <3>1
    <3> QED
      BY <1>3, <3>1, <3>3, <3>4
  <2> QED
    BY <2>1
<1>11. <<e>> = Uniform(1, sh[1])
  <2>1. 0 \in 0..(r - 1) /\ 0 + 1 = 1
    BY <1>1
  <2>2. [i \in 1..1 |-> FirstEntry(sh, 1, i)] = Uniform(1, sh[1])
    BY <1>1, <1>2, <1>3, <2>1, FirstLevel
  <2> HIDE <2>2
  <2>3. PICK u : u = Uniform(1, sh[1])
    OBVIOUS
  <2>4. u \in Seq(Entries) /\ Len(u) = 1
    <3>1. sh[1] \in Nat
      BY <1>10, <2>1
    <3> QED
      BY <2>3, <3>1, UniformNext
  <2>5. u[1] = e
    <3>1. 1 \in 1..1
      OBVIOUS
    <3> QED
      BY <1>8, <2>2, <2>3, <3>1, Zenon
  <2> QED
    BY <2>3, <2>4, <2>5
<1>12. \A k \in 0..(r - 1) : Uniform(n[k], sh[k + 1]) \in Seq(Entries)
                             /\ Len(Uniform(n[k], sh[k + 1])) = n[k]
  BY <1>10, UniformNext
<1>13. e \in Entries
  <2>1. 0 \in 0..(r - 1) /\ sh[1] \in Nat
    BY <1>1
  <2>2. PICK u \in Seq(Entries) : u = Uniform(1, sh[1]) /\ Len(u) = 1
    BY <2>1, UniformNext
  <2>3. u[1] \in Entries /\ u[1] = e
    BY <1>11, <2>2
  <2> QED
    BY <2>3
<1>14. ibuf \in [1..(r - 1) -> Seq(Entries)]
  <2>1. \A k \in 1..(r - 1) : k \in 0..(r - 1)
    OBVIOUS
  <2> QED
    BY <1>5, <1>12, <2>1, Zenon
<1>15. PICK m \in Nat : m = n[r] /\ elem \in Seq(Vals \cup {FillVal}) /\ Len(elem) = m
  <2>1. PICK m \in Nat : m = n[r]
    <3>1. r \in 0..r
      OBVIOUS
    <3> QED
      BY <1>3, <3>1
  <2>2. elem \in [1..m -> Vals \cup {FillVal}]
    BY <1>6, <2>1, Zenon
  <2> QED
    BY <2>1, <2>2
<1>16. roll \in [1..r -> BOOLEAN]
  BY <1>7, Zenon
<1>17. /\ s \in Arrays(sh) /\ s.ibuf = ibuf /\ s.elem = elem /\ s.roll = roll /\ s.idx0 = e
  <2>1. s.ibuf = ibuf /\ s.elem = elem /\ s.roll = roll /\ s.idx0 = e
    BY <1>9
  <2>2. s \in Arrays(sh)
    BY <1>1, <1>9, <1>13, <1>14, <1>15, <1>16, Zenon DEF Arrays
  <2> QED
    BY <2>1, <2>2
<1>18. \A k \in 0..(r - 1) : Level(s, k) = Uniform(n[k], sh[k + 1])
  <2>1. ASSUME NEW k \in 0..(r - 1)
        PROVE  Level(s, k) = Uniform(n[k], sh[k + 1])
    <3>1. CASE k = 0
      <4>1. Level(s, k) = <<e>>
        BY <1>17, <3>1 DEF Level
      <4>2. 0 + 1 = 1
        OBVIOUS
      <4> QED
        BY <1>3, <1>11, <3>1, <4>1, <4>2, Zenon
    <3>2. CASE k # 0
      <4>1. k \in 1..(r - 1)
        BY <3>2
      <4>2. Level(s, k) = ibuf[k]
        BY <1>17, <3>2 DEF Level
      <4> QED
        BY <1>5, <4>1, <4>2, Zenon
    <3> QED
      BY <3>1, <3>2
  <2> QED
    BY <2>1
<1>19. \A k \in 0..(r - 1) : Len(Level(s, k)) = n[k]
  BY <1>12, <1>18, Zenon
<1>20. \A k \in 1..r : s.roll[k] = FALSE
  BY <1>7, <1>17, Zenon
<1>21. n[r] \in Nat
  BY <1>15
<1>22. s.elem = [i \in 1..n[r] |-> FillVal]
  BY <1>6, <1>17
<1>23. NewLevels(s, sh)
  BY <1>1, <1>2, <1>3, <1>10, <1>17, <1>18, <1>19, <1>20, <1>21, <1>22, Zenon DEF NewLevels
<1> QED
  BY <1>4, <1>23

\* A new array is sound, preallocated or empty.
LEMMA NewArySound ==
  ASSUME NEW sh \in Seq(Nat), sh # <<>>
  PROVE  Sound(NewAry(sh), sh)
<1>1. PICK r \in Nat : r = Len(sh) /\ r > 0
  OBVIOUS
<1>2. PICK n : n = Counts(sh)
  OBVIOUS
<1>3. PICK s : s = NewAry(sh)
  OBVIOUS
<1>4. NewLevels(s, sh)
  BY <1>3, NewAryLevels
<1>5. /\ s \in Arrays(sh) /\ n[r] \in Nat
      /\ \A k \in 0..(r - 1) : /\ Level(s, k) = Uniform(n[k], sh[k + 1])
                               /\ Len(Level(s, k)) = n[k]
                               /\ n[k] \in Nat /\ sh[k + 1] \in Nat
                               /\ n[k + 1] = n[k] * sh[k + 1]
  BY <1>1, <1>2, <1>4, Zenon DEF NewLevels
<1>6. PICK m \in Nat : m = n[r] /\ Len(s.elem) = m
  <2>1. PICK m \in Nat : m = n[r]
    BY <1>5
  <2>2. s.elem = [i \in 1..m |-> FillVal]
    BY <1>1, <1>2, <1>4, <2>1 DEF NewLevels
  <2>3. s.elem \in [1..m -> {FillVal}]
    BY <2>2
  <2> QED
    BY <2>1, <2>3
<1>7. \A k \in 0..(r - 1) : Linked(Level(s, k), n[k + 1])
  BY <1>5, UniformLinked
<1>8. Chain(s, Len(sh), Len(s.elem))
  <2>1. ASSUME NEW k \in 0..(r - 2)
        PROVE  Linked(Level(s, k), Len(Level(s, k + 1)))
    <3>1. k \in 0..(r - 1) /\ k + 1 \in 0..(r - 1)
      BY <1>1
    <3>2. Len(Level(s, k + 1)) = n[k + 1]
      BY <1>5, <3>1
    <3> QED
      BY <1>7, <3>1, <3>2
  <2>2. Tiles(Level(s, r - 1), m)
    <3>1. r - 1 \in 0..(r - 1) /\ r - 1 + 1 = r
      BY <1>1
    <3>2. Linked(Level(s, r - 1), n[r - 1 + 1])
      BY <1>7, <3>1
    <3>3. Linked(Level(s, r - 1), n[r])
      BY <3>1, <3>2, Zenon
    <3> QED
      BY <1>6, <3>3 DEF Linked
  <2> QED
    BY <1>1, <1>6, <2>1, <2>2 DEF Chain
<1>9. RollsUp(s)
  <2>1. Rank(s) = r /\ 1 \in 1..r
    BY <1>1, <1>5, ArrayIs
  <2>2. \A k \in 1..r : s.roll[k] = FALSE
    BY <1>1, <1>4 DEF NewLevels
  <2> QED
    BY <2>1, <2>2, Zenon DEF RollsUp
<1> QED
  BY <1>3, <1>5, <1>8, <1>9 DEF Sound

-----------------------------------------------------------------------------
(* The array and its callers.                                                *)

\* The items of a level, or the elements.
Items(s, k) == IF k = Rank(s) THEN Len(s.elem) ELSE Len(Level(s, k))

\* In a sound array each level tiles the next.
LEMMA LevelTiles ==
  ASSUME NEW sh \in Seq(Nat), sh # <<>>, NEW s, Sound(s, sh), NEW k \in 0..(Len(sh) - 1)
  PROVE  /\ Tiles(Level(s, k), Items(s, k + 1)) /\ Level(s, k) \in Seq(Entries)
         /\ Items(s, k) = Len(Level(s, k)) /\ Items(s, k) \in Nat /\ Items(s, k + 1) \in Nat
         /\ Valid(s, k + 1) = Items(s, k + 1)
<1>1. s \in Arrays(sh) /\ Chain(s, Len(sh), Len(s.elem))
  BY DEF Sound
<1>2. PICK r \in Nat : r = Len(sh) /\ r > 0 /\ Rank(s) = r
  BY <1>1, ArrayIs
<1>3. \A j \in 0..(r - 1) : Level(s, j) \in Seq(Entries)
  BY <1>1, <1>2, ArrayIs
<1>4. \A j \in 0..(r - 1) : Len(Level(s, j)) \in Nat
  BY <1>3
<1>5. Len(s.elem) \in Nat
  <2>1. s.elem \in Seq(Vals \cup {FillVal})
    BY <1>1, ArrayIs
  <2> QED
    BY <2>1
<1>6. Items(s, k) = Len(Level(s, k)) /\ k \in 0..(r - 1)
  <2>1. k \in 0..(r - 1)
    BY <1>2
  <2>2. k # r
    BY <2>1
  <2> QED
    BY <1>2, <2>1, <2>2 DEF Items
<1>7. CASE k = r - 1
  <2>1. Tiles(Level(s, k), Len(s.elem))
    BY <1>1, <1>2, <1>7 DEF Chain
  <2>2. Items(s, k + 1) = Len(s.elem) /\ Valid(s, k + 1) = Len(s.elem)
    <3>1. k + 1 = r
      BY <1>6, <1>7
    <3> QED
      BY <1>2, <3>1 DEF Items, Valid
  <2> QED
    BY <1>2, <1>3, <1>4, <1>5, <1>6, <2>1, <2>2
<1>8. CASE k # r - 1
  <2>1. k \in 0..(Len(sh) - 2) /\ k + 1 \in 0..(r - 1)
    BY <1>2, <1>8
  <2>2. Tiles(Level(s, k), Len(Level(s, k + 1)))
    BY <1>1, <2>1 DEF Chain, Linked
  <2>3. Items(s, k + 1) = Len(Level(s, k + 1))
    <3>1. k + 1 # r
      BY <1>6, <1>8
    <3> QED
      BY <1>2, <3>1 DEF Items
  <2>4. Valid(s, k + 1) = Len(Level(s, k + 1))
    BY <1>2, <1>8, <2>1 DEF Valid, Level
  <2> QED
    BY <1>2, <1>3, <1>4, <1>6, <2>1, <2>2, <2>3, <2>4
<1> QED
  BY <1>7, <1>8

\* A sound array of one of the shapes has entries for items that are there.
LEMMA EntriesWithin ==
  ASSUME NEW sh \in Seq(Nat), sh # <<>>, NEW s, Sound(s, sh), NEW k \in 0..(Len(sh) - 1),
         NEW p, p \in IF k = 0 THEN {0} ELSE DOMAIN s.ibuf[k]
  PROVE  LET e == Parent(s, k, p)
         IN  e.off \in Nat /\ e.cnt \in Nat /\ e.off + e.cnt <= Valid(s, k + 1)
<1>1. s \in Arrays(sh)
  BY DEF Sound
<1>2. PICK m \in Nat : /\ m = Valid(s, k + 1) /\ Tiles(Level(s, k), m)
                      /\ Level(s, k) \in Seq(Entries)
  BY LevelTiles
<1>3. PICK i \in 1..Len(Level(s, k)) : Parent(s, k, p) = Level(s, k)[i]
  <2>1. CASE k = 0
    <3>1. Len(Level(s, 0)) = 1 /\ Level(s, 0) = <<s.idx0>> /\ 1 \in 1..1
      BY <1>1, ArrayIs
    <3>2. Level(s, 0)[1] = s.idx0
      BY <3>1
    <3>3. Parent(s, k, p) = s.idx0
      BY <2>1 DEF Parent
    <3> QED
      BY <2>1, <3>1, <3>2, <3>3
  <2>2. CASE k # 0
    <3>1. Level(s, k) = s.ibuf[k] /\ Parent(s, k, p) = s.ibuf[k][p]
      BY <2>2 DEF Level, Parent
    <3>2. p \in DOMAIN Level(s, k)
      BY <2>2, <3>1
    <3> QED
      BY <1>2, <3>1, <3>2, SMTT(30)
  <2> QED
    BY <2>1, <2>2
<1>4. PICK e \in Entries : e = Parent(s, k, p) /\ e = Level(s, k)[i]
  BY <1>2, <1>3
<1>5. PICK a \in Nat, c \in Nat : a = e.off /\ c = e.cnt
  BY DEF Entries
<1>6. End(e) <= m
  BY <1>2, <1>4 DEF Tiles
<1> QED
  BY <1>2, <1>4, <1>5, <1>6 DEF End

\* What it means for the array of the model.
LEMMA ArrayInvTypeOK == ArrayInv => TypeOK
<1> SUFFICES ASSUME ArrayInv
             PROVE  TypeOK
  OBVIOUS
<1>1. PICK sh \in Shapes : Sound(ary, sh)
  BY DEF ArrayInv
<1>2. sh \in Seq(Nat) /\ sh # <<>>
  BY AryAssumption
<1>3. ary \in Arrays(sh) /\ RollsUp(ary)
  BY <1>1 DEF Sound
<1>4. /\ ary.shape = sh /\ Rank(ary) = Len(sh)
      /\ ary.elem \in Seq(Vals \cup {FillVal}) /\ ary.roll \in [1..Len(sh) -> BOOLEAN]
  BY <1>2, <1>3, ArrayIs
<1>5. \A d \in 2..Rank(ary) : ary.roll[d] => \A k \in d..Rank(ary) : ary.roll[k]
  <2>1. \A d \in 2..Rank(ary) : d \in 1..Rank(ary)
    OBVIOUS
  <2> QED
    BY <1>3, <2>1, Zenon DEF RollsUp
<1>6. \A k \in 0..(Rank(ary) - 1) : \A p \in IF k = 0 THEN {0} ELSE DOMAIN ary.ibuf[k] :
        LET e == Parent(ary, k, p)
        IN  e.off \in Nat /\ e.cnt \in Nat /\ e.off + e.cnt <= Valid(ary, k + 1)
  BY <1>1, <1>2, <1>4, EntriesWithin, Zenon
<1> QED
  BY <1>4, <1>5, <1>6, Zenon DEF TypeOK

\* An array is made sound.
LEMMA ArrayInvInit == Init => ArrayInv
<1> SUFFICES ASSUME NEW sh \in Shapes, ary = NewAry(sh)
             PROVE  ArrayInv
  BY DEF Init
<1>1. sh \in Seq(Nat) /\ sh # <<>>
  BY AryAssumption
<1> QED
  BY <1>1, NewArySound DEF ArrayInv

\* Appends that do not straddle records and fill-ups of the last index keep it so.
LEMMA ArrayInvStep ==
  ASSUME Straddle = FALSE, QubeAll = FALSE
  PROVE  ArrayInv /\ [Next]_vars => ArrayInv'
<1> SUFFICES ASSUME NEW sh \in Shapes, Sound(ary, sh), [Next]_vars
             PROVE  ArrayInv'
  BY DEF ArrayInv
<1>1. sh \in Seq(Nat) /\ sh # <<>>
  BY AryAssumption
<1>2. Rank(ary) = Len(sh)
  BY <1>1, ArrayIs DEF Sound
<1> SUFFICES Sound(ary', sh)
  BY DEF ArrayInv
<1>3. ASSUME NEW vs \in Blocks(Vals), AppendVals(vs)
      PROVE  Sound(ary', sh)
  <2>1. PICK i \in 1..MaxAppend : vs \in [1..i -> Vals]
    BY DEF Blocks
  <2>2. vs \in Seq(Vals \cup {FillVal}) /\ vs # <<>>
    <3>1. i \in Nat /\ i > 0 /\ vs \in [1..i -> Vals \cup {FillVal}]
      BY AryAssumption, <2>1
    <3>2. vs \in Seq(Vals \cup {FillVal}) /\ Len(vs) = i
      BY <3>1
    <3> QED
      BY <3>1, <3>2
  <2>3. EndsIn(ary, Len(vs))
    BY <1>3 DEF AppendVals, EndsRecord, EndsIn, Room, RoomOf
  <2>4. ary' = Appended(ary, vs)
    BY <1>3 DEF AppendVals
  <2> QED
    BY <1>1, <2>2, <2>3, <2>4, AppendSound
<1>4. ASSUME NEW d \in 2..Rank(ary), MarkEnd(d)
      PROVE  Sound(ary', sh)
  BY <1>1, <1>2, <1>4, MarkedSound DEF MarkEnd
<1>5. ASSUME NEW d \in 2..Rank(ary), QubeIn(d)
      PROVE  Sound(ary', sh)
  <2>1. d = Len(sh) /\ ary' = Qubed(ary, d)
    BY <1>2, <1>5 DEF QubeIn
  <2> QED
    BY <1>1, <2>1, QubedSound
<1>6. CASE Clear
  BY <1>1, <1>6, ClearedSound DEF Clear
<1>7. ASSUME NEW loc \in Locations, NEW vs \in [1..MaxAppend -> {FillVal}], PutAt(loc, vs)
      PROVE  Sound(ary', sh)
  <2>1. vs \in Seq({FillVal})
    BY AryAssumption
  <2> QED
    BY <1>1, <1>7, <2>1, WrittenSound DEF PutAt
<1>8. CASE UNCHANGED vars
  BY <1>8 DEF vars
<1> QED
  BY <1>3, <1>4, <1>5, <1>6, <1>7, <1>8 DEF Next

\* In every array the library's callers can make, of any shape, every index entry
\* stands for items that are there and a mark on an index is on all after it, whether
\* or not runs are marked as finished before they have begun.
THEOREM TypeCorrect ==
  ASSUME Straddle = FALSE, QubeAll = FALSE
  PROVE  Spec => []TypeOK
<1>1. Spec => []ArrayInv
  BY ArrayInvInit, ArrayInvStep, PTL DEF Spec
<1> QED
  BY <1>1, ArrayInvTypeOK, PTL

-----------------------------------------------------------------------------
(* Addresses and offsets.                                                    *)

\* The offsets that lookups give in a level.
Offsets(s, k) == {-1} \cup Below(Items(s, k))

\* One step of a lookup (Array_flat): item i of the entry at offset x.
ItemAt(s, d, x, i) ==
  IF x = -1 THEN -1
  ELSE LET p == Parent(s, d - 1, x + 1)
           j == IF i < 0 THEN p.cnt + i ELSE i
       IN  IF j \in Below(p.cnt) /\ p.off + j < Valid(s, d) THEN p.off + j ELSE -1

\* In a sound array it gives the item whenever the entry has it.
LEMMA ItemIs ==
  ASSUME NEW sh \in Seq(Nat), sh # <<>>, NEW s, Sound(s, sh), NEW d \in 1..Len(sh),
         NEW x \in Below(Items(s, d - 1)), NEW i \in Nat
  PROVE  \E e \in Entries :
           /\ e = Level(s, d - 1)[x + 1] /\ x + 1 \in 1..Len(Level(s, d - 1))
           /\ e = Parent(s, d - 1, x + 1)
           /\ End(e) <= Items(s, d)
           /\ ItemAt(s, d, x, i) = IF i < e.cnt THEN e.off + i ELSE -1
<1>1. PICK k \in 0..(Len(sh) - 1) : k = d - 1 /\ k + 1 = d
  OBVIOUS
<1>2. /\ Tiles(Level(s, k), Items(s, d)) /\ Level(s, k) \in Seq(Entries)
      /\ Items(s, k) = Len(Level(s, k)) /\ Items(s, k) \in Nat /\ Items(s, d) \in Nat
      /\ Valid(s, d) = Items(s, d)
  BY <1>1, LevelTiles
<1>3. PICK m \in Nat : m = Items(s, k) /\ m = Len(Level(s, k))
  BY <1>2
<1>4. x \in Nat /\ x + 1 \in 1..m /\ x # -1
  BY <1>1, <1>3 DEF Below
<1>5. PICK e \in Entries : e = Level(s, k)[x + 1]
  BY <1>2, <1>3, <1>4
<1>6. e = Parent(s, k, x + 1)
  <2>1. CASE k = 0
    <3>1. s \in Arrays(sh)
      BY DEF Sound
    <3>2. Level(s, 0) = <<s.idx0>> /\ Len(Level(s, 0)) = 1
      BY <3>1, ArrayIs
    <3>3. x + 1 = 1
      <4>1. m = 1
        BY <1>3, <2>1, <3>2
      <4> QED
        BY <1>4, <4>1
    <3> QED
      BY <1>5, <2>1, <3>2, <3>3 DEF Parent
  <2>2. CASE k # 0
    BY <1>5, <2>2 DEF Parent, Level
  <2> QED
    BY <2>1, <2>2
<1>7. End(e) <= Items(s, d)
  BY <1>2, <1>3, <1>4, <1>5 DEF Tiles
<1>8. PICK a \in Nat, c \in Nat, z \in Nat :
        a = e.off /\ c = e.cnt /\ z = Items(s, d) /\ z = Valid(s, d) /\ a + c <= z
  BY <1>2, <1>7 DEF Entries, End
<1>9. ItemAt(s, d, x, i) = IF i < c THEN a + i ELSE -1
  <2>1. ~(i < 0)
    OBVIOUS
  <2>2. ItemAt(s, d, x, i) = IF i \in Below(c) /\ a + i < z THEN a + i ELSE -1
    BY <1>1, <1>4, <1>6, <1>8, <2>1 DEF ItemAt
  <2>3. (i \in Below(c) /\ a + i < z) <=> i < c
    <3>1. i \in Below(c) <=> i < c
      BY DEF Below
    <3>2. i < c => a + i < z
      <4>1. \A u, v, w, y \in Nat : u + v <= w /\ y < v => u + y < w
        OBVIOUS
      <4> QED
        BY <1>8, <4>1
    <3> QED
      BY <3>1, <3>2
  <2> QED
    BY <2>2, <2>3
<1> QED
  BY <1>1, <1>3, <1>4, <1>5, <1>6, <1>7, <1>8, <1>9

\* Its result is an offset of the next level, or none.
LEMMA ItemInside ==
  ASSUME NEW sh \in Seq(Nat), sh # <<>>, NEW s, Sound(s, sh), NEW d \in 1..Len(sh),
         NEW x \in Offsets(s, d - 1), NEW i \in Nat
  PROVE  ItemAt(s, d, x, i) \in Offsets(s, d)
<1>1. CASE x = -1
  BY <1>1 DEF ItemAt, Offsets
<1>2. CASE x # -1
  <2>1. x \in Below(Items(s, d - 1))
    BY <1>2 DEF Offsets
  <2>2. PICK e \in Entries : /\ End(e) <= Items(s, d)
                             /\ ItemAt(s, d, x, i) = IF i < e.cnt THEN e.off + i ELSE -1
    BY <2>1, ItemIs
  <2>3. PICK a \in Nat, c \in Nat : a = e.off /\ c = e.cnt
    BY DEF Entries
  <2>4. Items(s, d) \in Nat
    <3>1. d - 1 \in 0..(Len(sh) - 1) /\ d - 1 + 1 = d
      OBVIOUS
    <3> QED
      BY <3>1, LevelTiles
  <2>5. CASE i < c
    <3>1. ItemAt(s, d, x, i) = a + i /\ a + c <= Items(s, d)
      BY <2>2, <2>3, <2>5 DEF End
    <3> QED
      BY <2>4, <2>5, <3>1 DEF Offsets, Below
  <2>6. CASE ~(i < c)
    BY <2>2, <2>3, <2>6 DEF Offsets
  <2> QED
    BY <2>5, <2>6
<1> QED
  BY <1>1, <1>2

\* So it is with an index counted from the end.
LEMMA ItemOffset ==
  ASSUME NEW sh \in Seq(Nat), sh # <<>>, NEW s, Sound(s, sh), NEW d \in 1..Len(sh),
         NEW x \in Offsets(s, d - 1), NEW i \in Int
  PROVE  ItemAt(s, d, x, i) \in Offsets(s, d)
<1>1. CASE x = -1
  BY <1>1 DEF ItemAt, Offsets
<1>2. CASE i >= 0
  <2>1. i \in Nat
    BY <1>2
  <2> QED
    BY <2>1, ItemInside
<1>3. CASE x # -1 /\ i < 0
  <2>1. x \in Below(Items(s, d - 1)) /\ 0 \in Nat
    BY <1>3 DEF Offsets
  <2>2. PICK e \in Entries : e = Parent(s, d - 1, x + 1)
    BY <2>1, ItemIs
  <2>3. PICK j \in Int : j = e.cnt + i
    BY DEF Entries
  <2>4. CASE j < 0
    <3>1. j \notin Below(e.cnt)
      BY <2>4 DEF Below
    <3>2. ItemAt(s, d, x, i) = -1
      BY <1>3, <2>2, <2>3, <3>1 DEF ItemAt
    <3> QED
      BY <3>2 DEF Offsets
  <2>5. CASE ~(j < 0)
    <3>1. j \in Nat
      BY <2>5
    <3>2. ItemAt(s, d, x, i) = ItemAt(s, d, x, j)
      BY <1>3, <2>2, <2>3, <2>5 DEF ItemAt
    <3>3. ItemAt(s, d, x, j) \in Offsets(s, d)
      BY <3>1, ItemInside
    <3> QED
      BY <3>2, <3>3
  <2> QED
    BY <2>4, <2>5
<1> QED
  BY <1>1, <1>2, <1>3

\* The offsets a lookup goes through, as a function of the number of indices used.
Lookup(g, s, loc) ==
  g = [d \in 0..Len(loc) |-> IF d = 0 THEN 0 ELSE ItemAt(s, d, g[d - 1], loc[d])]
LookupOf(s, loc) == CHOOSE g : Lookup(g, s, loc)
LooksUp(g, s, loc, n) ==
  /\ g[0] = 0
  /\ \A d \in 1..n : g[d] = ItemAt(s, d, g[d - 1], loc[d])
  /\ \A d \in 0..n : g[d] \in Offsets(s, d)

\* A lookup, with its loop given its name.
LEMMA OffsetIs ==
  ASSUME NEW s, NEW loc
  PROVE  OffsetAt(s, loc) = LookupOf(s, loc)[Len(loc)]
  BY Zenon DEF OffsetAt, LookupOf, Lookup, ItemAt

\* There is such a function.
LEMMA LookupAny ==
  ASSUME NEW sh \in Seq(Nat), sh # <<>>, NEW s, Sound(s, sh), NEW loc \in Seq(Int),
         NEW n \in Nat, n = Len(loc), n <= Len(sh)
  PROVE  LooksUp(LookupOf(s, loc), s, loc, n)
<1>1. PICK S : S = [d \in 0..n |-> Offsets(s, d)]
  OBVIOUS
<1>2. PICK step : step = [d \in 1..n |-> [x \in S[d - 1] |-> ItemAt(s, d, x, loc[d])]]
  OBVIOUS
<1>3. 0 \in S[0]
  <2>1. 0 \in 0..(Len(sh) - 1) /\ s \in Arrays(sh)
    BY DEF Sound
  <2>2. Items(s, 0) = Len(Level(s, 0)) /\ Len(Level(s, 0)) = 1
    BY <2>1, LevelTiles, ArrayIs
  <2>3. 0 \in Offsets(s, 0)
    <3>1. Items(s, 0) = 1
      BY <2>2
    <3>2. 0 \in Below(1)
      BY DEF Below
    <3> QED
      BY <3>1, <3>2, Zenon DEF Offsets
  <2> QED
    BY <1>1, <2>3
<1>4. ASSUME NEW d \in 1..n, NEW x \in S[d - 1]
      PROVE  step[d][x] = ItemAt(s, d, x, loc[d]) /\ step[d][x] \in S[d]
  <2>1. d - 1 \in 0..n /\ d \in 0..n /\ d \in 1..Len(sh)
    OBVIOUS
  <2>2. x \in Offsets(s, d - 1) /\ loc[d] \in Int
    BY <1>1, <2>1
  <2>3. ItemAt(s, d, x, loc[d]) \in Offsets(s, d)
    BY <2>1, <2>2, ItemOffset
  <2> QED
    BY <1>1, <1>2, <2>1, <2>3
<1>5. PICK f : /\ f = [i \in 0..n |-> f[i]]
               /\ Recursion(f, n, 0, step)
               /\ \A i \in 0..n : f[i] \in S[i]
  BY <1>3, <1>4, RecursionAlong
<1>6. ASSUME NEW d \in 0..n
      PROVE  f[d] = IF d = 0 THEN 0 ELSE ItemAt(s, d, f[d - 1], loc[d])
  <2>1. CASE d = 0
    BY <1>5, <2>1 DEF Recursion
  <2>2. CASE d # 0
    <3>1. d \in 1..n /\ d - 1 \in 0..n
      BY <2>2
    <3>2. f[d - 1] \in S[d - 1]
      BY <1>5, <3>1
    <3>3. f[d] = step[d][f[d - 1]]
      BY <1>5, <3>1 DEF Recursion
    <3> QED
      BY <1>4, <2>2, <3>1, <3>2, <3>3
  <2> QED
    BY <2>1, <2>2
<1>7. Lookup(f, s, loc)
  BY <1>5, <1>6 DEF Lookup
<1>8. PICK at : at = LookupOf(s, loc)
  OBVIOUS
<1>9. Lookup(at, s, loc)
  BY <1>7, <1>8, Zenon DEF LookupOf
<1>10. \A d \in 0..n : at[d] = IF d = 0 THEN 0 ELSE ItemAt(s, d, at[d - 1], loc[d])
  <2>1. at = [d \in 0..n |-> IF d = 0 THEN 0 ELSE ItemAt(s, d, at[d - 1], loc[d])]
    BY <1>9, Zenon DEF Lookup
  <2> QED
    BY <2>1, Zenon
<1>11. at[0] = 0
  BY <1>10
<1>12. \A d \in 1..n : at[d] = ItemAt(s, d, at[d - 1], loc[d])
  <2>1. \A d \in 1..n : d \in 0..n /\ d # 0
    OBVIOUS
  <2> QED
    BY <1>10, <2>1, Zenon
<1>13. PICK Good : Good = {d \in 0..n : at[d] \in S[d]}
  OBVIOUS
<1>14. 0 \in Good
  BY <1>3, <1>11, <1>13
<1>15. ASSUME NEW d \in 1..n, d - 1 \in Good
       PROVE  d \in Good
  <2>1. at[d - 1] \in S[d - 1]
    BY <1>13, <1>15
  <2>2. ItemAt(s, d, at[d - 1], loc[d]) \in S[d]
    BY <1>4, <2>1
  <2>3. d \in 0..n
    OBVIOUS
  <2> QED
    BY <1>12, <1>13, <2>2, <2>3
<1>16. \A d \in 0..n : at[d] \in Offsets(s, d)
  <2>1. 0..n \subseteq Good
    BY <1>14, <1>15, IntervalInduction
  <2> QED
    BY <1>1, <1>13, <2>1
<1> QED
  BY <1>8, <1>11, <1>12, <1>16, Zenon DEF LooksUp

\* The same for locations without negative indices.
LEMMA LookupIs ==
  ASSUME NEW sh \in Seq(Nat), sh # <<>>, NEW s, Sound(s, sh), NEW loc \in Seq(Nat),
         NEW n \in Nat, n = Len(loc), n <= Len(sh)
  PROVE  LooksUp(LookupOf(s, loc), s, loc, n)
<1>1. loc \in Seq(Int)
  OBVIOUS
<1> QED
  BY <1>1, LookupAny

\* A lookup with one index more is a lookup and a step.
LEMMA OffsetNext ==
  ASSUME NEW sh \in Seq(Nat), sh # <<>>, NEW s, Sound(s, sh), NEW b \in Seq(Nat),
         Len(b) < Len(sh), NEW i \in Nat
  PROVE  /\ OffsetAt(s, b) \in Offsets(s, Len(b))
         /\ OffsetAt(s, Append(b, i)) = ItemAt(s, Len(b) + 1, OffsetAt(s, b), i)
<1>1. PICK n \in Nat : n = Len(b)
  OBVIOUS
<1>2. PICK a \in Seq(Nat) : a = Append(b, i) /\ Len(a) = n + 1
  BY <1>1, AppendProperties
<1>3. a[n + 1] = i /\ \A d \in 1..n : a[d] = b[d]
  BY <1>1, <1>2, AppendProperties
<1>4. PICK f, g : f = LookupOf(s, b) /\ g = LookupOf(s, a)
  OBVIOUS
<1>5. /\ f[0] = 0
      /\ \A d \in 1..n : f[d] = ItemAt(s, d, f[d - 1], b[d])
      /\ \A d \in 0..n : f[d] \in Offsets(s, d)
  <2>1. LooksUp(f, s, b, n)
    BY <1>1, <1>4, LookupIs
  <2> QED
    BY <2>1, Zenon DEF LooksUp
<1>6. /\ g[0] = 0
      /\ \A d \in 1..(n + 1) : g[d] = ItemAt(s, d, g[d - 1], a[d])
  <2>1. n + 1 \in Nat /\ n + 1 <= Len(sh)
    BY <1>1
  <2>2. LooksUp(g, s, a, n + 1)
    BY <1>2, <1>4, <2>1, LookupIs
  <2> QED
    BY <2>2, Zenon DEF LooksUp
<1>7. PICK Good : Good = {d \in 0..n : f[d] = g[d]}
  OBVIOUS
<1>8. 0 \in Good
  BY <1>5, <1>6, <1>7
<1>9. ASSUME NEW d \in 1..n, d - 1 \in Good
      PROVE  d \in Good
  <2>1. f[d - 1] = g[d - 1] /\ d \in 1..(n + 1) /\ d \in 0..n
    BY <1>7, <1>9
  <2>2. f[d] = g[d]
    BY <1>3, <1>5, <1>6, <2>1, Zenon
  <2> QED
    BY <1>7, <2>1, <2>2
<1>10. f[n] = g[n]
  <2>1. 0..n \subseteq Good
    BY <1>8, <1>9, IntervalInduction
  <2> QED
    BY <1>7, <2>1
<1>11. g[n + 1] = ItemAt(s, n + 1, g[n], i)
  <2>1. PICK m \in 1..(n + 1) : m = n + 1 /\ m - 1 = n
    OBVIOUS
  <2>2. g[m] = ItemAt(s, m, g[m - 1], a[m])
    BY <1>6
  <2> QED
    BY <1>3, <2>1, <2>2, Zenon
<1>12. OffsetAt(s, b) = f[n] /\ OffsetAt(s, a) = g[n + 1]
  BY <1>1, <1>2, <1>4, OffsetIs
<1>13. f[n] \in Offsets(s, n)
  BY <1>5
<1> QED
  BY <1>1, <1>2, <1>10, <1>11, <1>12, <1>13

\* The addresses one index longer, and what is true of those of each length: their
\* offsets are all of the level, in order, and there are no others.
Children(s, D) ==
  {a \in UNION {{Append(b, i) : i \in Below(Parent(s, Len(b), OffsetAt(s, b) + 1).cnt)} :
                b \in D} : OffsetAt(s, a) # -1}
Precedes(a, b, k) ==
  \E d \in 1..k : a[d] < b[d] /\ \A j \in 1..(d - 1) : a[j] = b[j]
Covers(s, D, k) ==
  /\ \A a \in D : a \in Seq(Nat) /\ Len(a) = k /\ OffsetAt(s, a) \in Below(Items(s, k))
  /\ \A o \in Below(Items(s, k)) : \E a \in D : OffsetAt(s, a) = o
  /\ \A a, b \in D : Precedes(a, b, k) => OffsetAt(s, a) < OffsetAt(s, b)
  /\ \A a \in Seq(Nat) : Len(a) = k /\ OffsetAt(s, a) # -1 => a \in D

\* The entry an address leads to, and the offset of its item i.
LeadsTo(s, b, i, k, e) ==
  /\ OffsetAt(s, b) + 1 \in 1..Len(Level(s, k)) /\ e = Level(s, k)[OffsetAt(s, b) + 1]
  /\ e = Parent(s, Len(b), OffsetAt(s, b) + 1)
  /\ End(e) <= Items(s, k + 1)
  /\ OffsetAt(s, Append(b, i)) = IF i < e.cnt THEN e.off + i ELSE -1

\* Every address leads to an entry.
LEMMA ChildIs ==
  ASSUME NEW sh \in Seq(Nat), sh # <<>>, NEW s, Sound(s, sh), NEW k \in 0..(Len(sh) - 1),
         NEW D, Covers(s, D, k), NEW b \in D, NEW i \in Nat
  PROVE  \E e \in Entries : LeadsTo(s, b, i, k, e)
<1>1. b \in Seq(Nat) /\ Len(b) = k /\ OffsetAt(s, b) \in Below(Items(s, k))
  BY DEF Covers
<1>2. PICK d \in 1..Len(sh) : d = k + 1 /\ d - 1 = k
  OBVIOUS
<1>3. PICK x : x = OffsetAt(s, b) /\ x \in Below(Items(s, d - 1))
  BY <1>1, <1>2
<1>4. PICK e \in Entries :
        /\ e = Level(s, d - 1)[x + 1] /\ x + 1 \in 1..Len(Level(s, d - 1))
        /\ e = Parent(s, d - 1, x + 1)
        /\ End(e) <= Items(s, d)
        /\ ItemAt(s, d, x, i) = IF i < e.cnt THEN e.off + i ELSE -1
  BY <1>3, ItemIs
<1>5. OffsetAt(s, Append(b, i)) = ItemAt(s, d, x, i)
  <2>1. Len(b) < Len(sh)
    BY <1>1
  <2>2. OffsetAt(s, Append(b, i)) = ItemAt(s, Len(b) + 1, OffsetAt(s, b), i)
    BY <1>1, <2>1, OffsetNext
  <2> QED
    BY <1>1, <1>2, <1>3, <2>2
<1> QED
  BY <1>1, <1>2, <1>3, <1>4, <1>5, Zenon DEF LeadsTo

\* What the children are, and what is one.
LEMMA ChildrenAre ==
  ASSUME NEW sh \in Seq(Nat), sh # <<>>, NEW s, Sound(s, sh), NEW k \in 0..(Len(sh) - 1),
         NEW D, Covers(s, D, k)
  PROVE  /\ \A a \in Children(s, D) : \E b \in D : \E i \in Nat : \E e \in Entries :
              a = Append(b, i) /\ i < e.cnt /\ LeadsTo(s, b, i, k, e)
         /\ \A b \in D : \A i \in Nat : \A e \in Entries :
              LeadsTo(s, b, i, k, e) /\ i < e.cnt => Append(b, i) \in Children(s, D)
<1>1. ASSUME NEW a \in Children(s, D)
      PROVE  \E b \in D : \E i \in Nat : \E e \in Entries :
               a = Append(b, i) /\ i < e.cnt /\ LeadsTo(s, b, i, k, e)
  <2>1. PICK b \in D : a \in {Append(b, i) :
                                i \in Below(Parent(s, Len(b), OffsetAt(s, b) + 1).cnt)}
    BY DEF Children
  <2>2. PICK i \in Below(Parent(s, Len(b), OffsetAt(s, b) + 1).cnt) : a = Append(b, i)
    BY <2>1
  <2>3. i \in Nat
    BY DEF Below
  <2>4. PICK e \in Entries : LeadsTo(s, b, i, k, e)
    BY <2>3, ChildIs
  <2>5. i \in Below(e.cnt)
    BY <2>4 DEF LeadsTo
  <2>6. e.cnt \in Nat
    BY DEF Entries
  <2>7. i < e.cnt
    BY <2>5, <2>6 DEF Below
  <2> QED
    BY <2>2, <2>3, <2>4, <2>7
<1>2. ASSUME NEW b \in D, NEW i \in Nat, NEW e \in Entries, LeadsTo(s, b, i, k, e), i < e.cnt
      PROVE  Append(b, i) \in Children(s, D)
  <2>1. e.cnt \in Nat /\ e.off \in Nat
    BY DEF Entries
  <2>2. i \in Below(e.cnt)
    BY <1>2, <2>1 DEF Below
  <2>3. i \in Below(Parent(s, Len(b), OffsetAt(s, b) + 1).cnt)
    BY <1>2, <2>2 DEF LeadsTo
  <2>4. OffsetAt(s, Append(b, i)) # -1
    BY <1>2, <2>1 DEF LeadsTo
  <2> DEFINE Under(c) == {Append(c, j) : j \in Below(Parent(s, Len(c), OffsetAt(s, c) + 1).cnt)}
  <2>5. Append(b, i) \in Under(b)
    BY <2>3
  <2>6. Children(s, D) = {a \in UNION {Under(c) : c \in D} : OffsetAt(s, a) # -1}
    BY DEF Children
  <2> HIDE DEF Under
  <2>7. Append(b, i) \in UNION {Under(c) : c \in D}
    BY <2>5, Zenon
  <2> QED
    BY <2>4, <2>6, <2>7, Zenon
<1> QED
  BY <1>1, <1>2

\* What comes earlier in address order, one index longer.
LEMMA PrecedesNext ==
  ASSUME NEW k \in Nat, NEW b \in Seq(Nat), NEW c \in Seq(Nat), Len(b) = k, Len(c) = k,
         NEW i \in Nat, NEW j \in Nat, Precedes(Append(b, i), Append(c, j), k + 1)
  PROVE  Precedes(b, c, k) \/ (b = c /\ i < j)
<1>1. PICK x : x = Append(b, i) /\ x[k + 1] = i /\ \A d \in 1..k : x[d] = b[d]
  <2>1. PICK x \in Seq(Nat) : x = Append(b, i)
    BY AppendProperties
  <2>2. x[Len(b) + 1] = i /\ \A d \in 1..Len(b) : x[d] = b[d]
    BY <2>1, AppendProperties
  <2> QED
    BY <2>1, <2>2
<1>2. PICK y : y = Append(c, j) /\ y[k + 1] = j /\ \A d \in 1..k : y[d] = c[d]
  <2>1. PICK y \in Seq(Nat) : y = Append(c, j)
    BY AppendProperties
  <2>2. y[Len(c) + 1] = j /\ \A d \in 1..Len(c) : y[d] = c[d]
    BY <2>1, AppendProperties
  <2> QED
    BY <2>1, <2>2
<1>3. PICK d \in 1..(k + 1) : x[d] < y[d] /\ \A h \in 1..(d - 1) : x[h] = y[h]
  <2>1. Precedes(x, y, k + 1)
    BY <1>1, <1>2
  <2> QED
    BY <2>1, Zenon DEF Precedes
<1>4. CASE d = k + 1
  <2>1. \A h \in 1..k : b[h] = c[h]
    <3>1. \A h \in 1..k : x[h] = y[h]
      BY <1>3, <1>4
    <3> QED
      BY <1>1, <1>2, <3>1
  <2>2. b = c
    BY <2>1
  <2>3. i < j
    BY <1>1, <1>2, <1>3, <1>4
  <2> QED
    BY <2>2, <2>3
<1>5. CASE d # k + 1
  <2>1. d \in 1..k
    BY <1>5
  <2>2. b[d] < c[d]
    BY <1>1, <1>2, <1>3, <2>1
  <2>3. \A h \in 1..(d - 1) : b[h] = c[h]
    <3>1. \A h \in 1..(d - 1) : h \in 1..k
      BY <2>1
    <3> QED
      BY <1>1, <1>2, <1>3, <3>1
  <2> QED
    BY <2>1, <2>2, <2>3 DEF Precedes
<1> QED
  BY <1>4, <1>5

\* One index more: still every offset, and in order.
LEMMA ChildrenCover ==
  ASSUME NEW sh \in Seq(Nat), sh # <<>>, NEW s, Sound(s, sh), NEW k \in 0..(Len(sh) - 1),
         NEW D, Covers(s, D, k)
  PROVE  Covers(s, Children(s, D), k + 1)
<1>1. PICK es \in Seq(Entries), m \in Nat :
        es = Level(s, k) /\ m = Items(s, k + 1) /\ Tiles(es, m) /\ Items(s, k) = Len(es)
  BY LevelTiles
<1>2. PICK N : N = Children(s, D)
  OBVIOUS
<1>3. /\ \A a \in N : \E b \in D : \E i \in Nat : \E e \in Entries :
           a = Append(b, i) /\ i < e.cnt /\ LeadsTo(s, b, i, k, e)
      /\ \A b \in D : \A i \in Nat : \A e \in Entries :
           LeadsTo(s, b, i, k, e) /\ i < e.cnt => Append(b, i) \in N
  BY <1>2, ChildrenAre
<1>4. \A b \in D : b \in Seq(Nat) /\ Len(b) = k
  BY DEF Covers
<1>5. ASSUME NEW a \in N
      PROVE  a \in Seq(Nat) /\ Len(a) = k + 1 /\ OffsetAt(s, a) \in Below(m)
  <2>1. PICK b \in D, i \in Nat, e \in Entries :
          a = Append(b, i) /\ i < e.cnt /\ LeadsTo(s, b, i, k, e)
    BY <1>3, Zenon
  <2>2. a \in Seq(Nat) /\ Len(a) = k + 1
    BY <1>4, <2>1, AppendProperties
  <2>3. PICK u \in Nat, c \in Nat : u = e.off /\ c = e.cnt
    BY DEF Entries
  <2>4. OffsetAt(s, a) = u + i /\ u + c <= m /\ i < c
    BY <1>1, <2>1, <2>3 DEF LeadsTo, End
  <2>5. u + i \in Below(m)
    BY <2>4 DEF Below
  <2> QED
    BY <2>2, <2>4, <2>5
<1>6. ASSUME NEW o \in Below(m)
      PROVE  \E a \in N : OffsetAt(s, a) = o
  <2>1. PICK j \in 1..Len(es) : es[j].off <= o /\ o < End(es[j])
    BY <1>1 DEF Tiles
  <2>2. j - 1 \in Below(Items(s, k)) /\ j - 1 + 1 = j
    BY <1>1 DEF Below
  <2>3. PICK b \in D : OffsetAt(s, b) = j - 1
    BY <2>2 DEF Covers
  <2>4. PICK u \in Nat, c \in Nat : u = es[j].off /\ c = es[j].cnt
    <3>1. es[j] \in Entries
      BY <2>1
    <3> QED
      BY <3>1 DEF Entries
  <2>5. u <= o /\ o < u + c /\ o \in Nat
    BY <2>1, <2>4 DEF End, Below
  <2>6. PICK i \in Nat : i = o - u
    BY <2>5
  <2>7. PICK e \in Entries : LeadsTo(s, b, i, k, e)
    BY ChildIs
  <2>8. e = es[j]
    BY <1>1, <2>2, <2>3, <2>7 DEF LeadsTo
  <2>9. i < e.cnt /\ e.off + i = o
    <3>1. i < c /\ u + i = o
      BY <2>5, <2>6
    <3>2. e.off = u /\ e.cnt = c
      BY <2>4, <2>8, Zenon
    <3> QED
      BY <3>1, <3>2, Zenon
  <2>10. Append(b, i) \in N
    BY <1>3, <2>7, <2>9
  <2>11. OffsetAt(s, Append(b, i)) = o
    BY <2>7, <2>9 DEF LeadsTo
  <2> QED
    BY <2>10, <2>11
<1>7. ASSUME NEW a1 \in N, NEW a2 \in N, Precedes(a1, a2, k + 1)
      PROVE  OffsetAt(s, a1) < OffsetAt(s, a2)
  <2>1. PICK b1 \in D, i1 \in Nat, e1 \in Entries :
          a1 = Append(b1, i1) /\ i1 < e1.cnt /\ LeadsTo(s, b1, i1, k, e1)
    BY <1>3, Zenon
  <2>2. PICK b2 \in D, i2 \in Nat, e2 \in Entries :
          a2 = Append(b2, i2) /\ i2 < e2.cnt /\ LeadsTo(s, b2, i2, k, e2)
    BY <1>3, Zenon
  <2>3. PICK u1 \in Nat, c1 \in Nat, u2 \in Nat, c2 \in Nat :
          u1 = e1.off /\ c1 = e1.cnt /\ u2 = e2.off /\ c2 = e2.cnt
    BY DEF Entries
  <2>4. OffsetAt(s, a1) = u1 + i1 /\ OffsetAt(s, a2) = u2 + i2 /\ i1 < c1 /\ i2 < c2
    BY <2>1, <2>2, <2>3 DEF LeadsTo
  <2>5. Precedes(b1, b2, k) \/ (b1 = b2 /\ i1 < i2)
    BY <1>4, <1>7, <2>1, <2>2, PrecedesNext
  <2>6. CASE Precedes(b1, b2, k)
    <3>1. OffsetAt(s, b1) < OffsetAt(s, b2)
      BY <2>6 DEF Covers
    <3>2. PICK j1 \in 1..Len(es), j2 \in 1..Len(es) :
            /\ j1 = OffsetAt(s, b1) + 1 /\ j2 = OffsetAt(s, b2) + 1
            /\ e1 = es[j1] /\ e2 = es[j2]
      BY <1>1, <2>1, <2>2 DEF LeadsTo
    <3>3. j1 < j2
      <4>1. OffsetAt(s, b1) \in Below(Items(s, k)) /\ OffsetAt(s, b2) \in Below(Items(s, k))
        BY DEF Covers
      <4>2. PICK x1 \in Int, x2 \in Int : x1 = OffsetAt(s, b1) /\ x2 = OffsetAt(s, b2)
        BY <4>1 DEF Below
      <4> QED
        BY <3>1, <3>2, <4>2
    <3>4. End(e1) <= e2.off
      BY <1>1, <3>2, <3>3 DEF Tiles
    <3>5. u1 + c1 <= u2
      BY <2>3, <3>4 DEF End
    <3> QED
      BY <2>4, <3>5
  <2>7. CASE b1 = b2 /\ i1 < i2
    <3>1. e1 = e2
      BY <2>1, <2>2, <2>7 DEF LeadsTo
    <3> QED
      BY <2>3, <2>4, <2>7, <3>1
  <2> QED
    BY <2>5, <2>6, <2>7
<1>8. ASSUME NEW a \in Seq(Nat), Len(a) = k + 1, OffsetAt(s, a) # -1
      PROVE  a \in N
  <2>1. PICK b \in Seq(Nat), i \in Nat : Len(b) = k /\ a = Append(b, i)
    <3>1. a # <<>>
      BY <1>8
    <3>2. PICK b : b = [j \in 1..k |-> a[j]]
      OBVIOUS
    <3>3. \A j \in 1..k : a[j] \in Nat
      BY <1>8
    <3>4. b \in [1..k -> Nat]
      BY <3>2, <3>3
    <3>5. b \in Seq(Nat)
      BY <3>4
    <3>6. Len(b) = k
      BY <3>2
    <3>7. PICK i \in Nat : i = a[k + 1]
      BY <1>8
    <3>8. a = Append(b, i)
      <4>1. PICK c \in Seq(Nat) : c = Append(b, i)
        BY <3>5, AppendProperties
      <4>2. Len(c) = k + 1 /\ c[k + 1] = i /\ \A j \in 1..k : c[j] = b[j]
        BY <3>5, <3>6, <4>1
      <4>3. \A j \in 1..(k + 1) : c[j] = a[j]
        <5>1. \A j \in 1..(k + 1) : j = k + 1 \/ j \in 1..k
          OBVIOUS
        <5> QED
          BY <3>2, <3>7, <4>2, <5>1
      <4>4. c = a
        BY <1>8, <4>2, <4>3
      <4> QED
        BY <4>1, <4>4
    <3> QED
      BY <3>5, <3>6, <3>8
  <2>2. OffsetAt(s, a) = ItemAt(s, k + 1, OffsetAt(s, b), i)
    <3>1. Len(b) < Len(sh)
      BY <2>1
    <3>2. OffsetAt(s, Append(b, i)) = ItemAt(s, Len(b) + 1, OffsetAt(s, b), i)
      BY <3>1, OffsetNext
    <3> QED
      BY <2>1, <3>2
  <2>3. OffsetAt(s, b) # -1
    BY <1>8, <2>2 DEF ItemAt
  <2>4. b \in D
    BY <2>1, <2>3 DEF Covers
  <2>5. PICK e \in Entries : LeadsTo(s, b, i, k, e)
    BY <2>4, ChildIs
  <2>6. i < e.cnt
    BY <1>8, <2>1, <2>5 DEF LeadsTo
  <2> QED
    BY <1>3, <2>1, <2>4, <2>5, <2>6
<1> QED
  BY <1>1, <1>2, <1>5, <1>6, <1>7, <1>8, Zenon DEF Covers

\* All addresses, one index after the other.
Descent(g, s) ==
  g = [k \in 0..Rank(s) |-> IF k = 0 THEN {<<>>} ELSE Children(s, g[k - 1])]

AddressesOf(s) == (CHOOSE g : Descent(g, s))[Rank(s)]

\* The addresses of the model, with the recursion given its name.
LEMMA AddressesAre == Addresses = AddressesOf(ary)
  BY Zenon DEF Addresses, AddressesOf, Descent, Children

\* The empty address leads to idx0.
LEMMA CoversTop ==
  ASSUME NEW sh \in Seq(Nat), sh # <<>>, NEW s, Sound(s, sh)
  PROVE  Covers(s, {<<>>}, 0)
<1>1. <<>> \in Seq(Nat) /\ Len(<<>>) = 0
  BY EmptySeq
<1>2. OffsetAt(s, <<>>) = 0
  <2>1. PICK none \in Seq(Nat) : none = <<>> /\ Len(none) = 0
    BY <1>1
  <2>2. Len(sh) \in Nat /\ 0 <= Len(sh)
    OBVIOUS
  <2>3. LooksUp(LookupOf(s, none), s, none, 0)
    BY <2>1, <2>2, LookupIs
  <2>4. LookupOf(s, none)[0] = 0
    BY <2>3, Zenon DEF LooksUp
  <2> QED
    BY <2>1, <2>4, OffsetIs
<1>3. Below(Items(s, 0)) = {0}
  <2>1. 0 \in 0..(Len(sh) - 1) /\ s \in Arrays(sh)
    BY DEF Sound
  <2>2. Items(s, 0) = Len(Level(s, 0)) /\ Len(Level(s, 0)) = 1
    BY <2>1, LevelTiles, ArrayIs
  <2>3. Items(s, 0) = 1
    BY <2>2
  <2>4. Below(1) = {0}
    BY DEF Below
  <2> QED
    BY <2>3, <2>4
<1>4. \A a, b : ~Precedes(a, b, 0)
  <2>1. \A d : d \notin 1..0
    OBVIOUS
  <2> QED
    BY <2>1, Zenon DEF Precedes
<1>5. \A a \in Seq(Nat) : Len(a) = 0 => a = <<>>
  BY EmptySeq
<1> QED
  BY <1>1, <1>2, <1>3, <1>4, <1>5 DEF Covers

\* The addresses of a sound array lead to each of its elements, in order.
LEMMA AddressesCover ==
  ASSUME NEW sh \in Seq(Nat), sh # <<>>, NEW s, Sound(s, sh)
  PROVE  Covers(s, AddressesOf(s), Len(sh))
<1>1. PICK r \in Nat : r = Len(sh) /\ Rank(s) = r
  BY ArrayIs DEF Sound
<1>2. Sound(s, sh) /\ Rank(s) = r
  BY <1>1
<1>3. PICK S : S = [k \in 0..r |-> {D \in SUBSET Seq(Nat) : Covers(s, D, k)}]
  OBVIOUS
<1>4. {<<>>} \in S[0]
  <2>1. Covers(s, {<<>>}, 0) /\ <<>> \in Seq(Nat)
    BY <1>2, CoversTop, EmptySeq
  <2> QED
    BY <1>3, <2>1
<1>5. PICK step : step = [k \in 1..r |-> [D \in S[k - 1] |-> Children(s, D)]]
  OBVIOUS
<1>6. ASSUME NEW k \in 1..r, NEW D \in S[k - 1]
      PROVE  step[k][D] = Children(s, D) /\ step[k][D] \in S[k]
  <2>1. PICK j \in 0..(Len(sh) - 1) : j = k - 1 /\ j + 1 = k /\ j \in 0..r
    BY <1>1
  <2>2. Covers(s, D, j)
    BY <1>3, <2>1
  <2>3. Covers(s, Children(s, D), k)
    BY <1>2, <2>1, <2>2, ChildrenCover
  <2>4. Children(s, D) \in SUBSET Seq(Nat)
    BY <2>3 DEF Covers
  <2>5. step[k][D] = Children(s, D)
    BY <1>5
  <2> QED
    BY <1>3, <2>3, <2>4, <2>5
<1>7. PICK f : /\ f = [i \in 0..r |-> f[i]]
               /\ Recursion(f, r, {<<>>}, step)
               /\ \A i \in 0..r : f[i] \in S[i]
  BY <1>4, <1>6, RecursionAlong
<1>8. ASSUME NEW k \in 0..r
      PROVE  f[k] = IF k = 0 THEN {<<>>} ELSE Children(s, f[k - 1])
  <2>1. CASE k = 0
    BY <1>7, <2>1 DEF Recursion
  <2>2. CASE k # 0
    <3>1. k \in 1..r /\ k - 1 \in 0..r
      BY <2>2
    <3>2. f[k - 1] \in S[k - 1]
      BY <1>7, <3>1
    <3>3. f[k] = step[k][f[k - 1]]
      BY <1>7, <3>1 DEF Recursion
    <3> QED
      BY <1>6, <2>2, <3>1, <3>2, <3>3
  <2> QED
    BY <2>1, <2>2
<1>9. Descent(f, s)
  BY <1>2, <1>7, <1>8 DEF Descent
<1>10. PICK down : down = CHOOSE g : Descent(g, s)
  OBVIOUS
<1>11. Descent(down, s)
  BY <1>9, <1>10, Zenon
<1>12. \A k \in 0..r : down[k] = IF k = 0 THEN {<<>>} ELSE Children(s, down[k - 1])
  <2>1. down = [k \in 0..r |-> IF k = 0 THEN {<<>>} ELSE Children(s, down[k - 1])]
    BY <1>2, <1>11, Zenon DEF Descent
  <2> QED
    BY <2>1, Zenon
<1>13. PICK Good : Good = {k \in 0..r : down[k] \in S[k]}
  OBVIOUS
<1>14. 0 \in Good
  BY <1>4, <1>12, <1>13
<1>15. ASSUME NEW k \in 1..r, k - 1 \in Good
       PROVE  k \in Good
  <2>1. down[k - 1] \in S[k - 1]
    BY <1>13, <1>15
  <2>2. Children(s, down[k - 1]) \in S[k]
    BY <1>6, <2>1
  <2>3. k \in 0..r /\ k # 0
    OBVIOUS
  <2> QED
    BY <1>12, <1>13, <2>2, <2>3
<1>16. Covers(s, down[r], r)
  <2>1. 0..r \subseteq Good
    BY <1>14, <1>15, IntervalInduction
  <2> QED
    BY <1>3, <1>13, <2>1
<1>17. AddressesOf(s) = down[r]
  BY <1>1, <1>10, Zenon DEF AddressesOf
<1> QED
  BY <1>1, <1>16, <1>17, Zenon

\* What it means for the array of the model.
LEMMA ArrayInvEveryElementOnce == ArrayInv => EveryElementOnce
<1> SUFFICES ASSUME ArrayInv
             PROVE  EveryElementOnce
  OBVIOUS
<1>1. PICK sh \in Shapes : Sound(ary, sh)
  BY DEF ArrayInv
<1>2. sh \in Seq(Nat) /\ sh # <<>>
  BY AryAssumption
<1>3. PICK r \in Nat : r = Len(sh) /\ Rank(ary) = r /\ ary.shape = sh
  BY <1>1, <1>2, ArrayIs DEF Sound
<1>4. Covers(ary, Addresses, r)
  BY <1>1, <1>2, <1>3, AddressesCover, AddressesAre
<1>5. Items(ary, r) = Len(ary.elem)
  BY <1>3 DEF Items
<1>6. {OffsetAt(ary, a) : a \in Addresses} = Below(Len(ary.elem))
  BY <1>4, <1>5 DEF Covers
<1>7. ASSUME NEW a \in Addresses, NEW b \in Addresses, RA!Before(a, b)
      PROVE  OffsetAt(ary, a) < OffsetAt(ary, b)
  <2>1. Precedes(a, b, r)
    BY <1>3, <1>7 DEF RA!Before, RA!Rank, Precedes
  <2> QED
    BY <1>4, <2>1, Zenon DEF Covers
<1> QED
  BY <1>6, <1>7, Zenon DEF EveryElementOnce

\* In every array the library's callers can make, of any shape, each stored element
\* is at exactly one address and storage order is address order: the runs that the
\* index entries of different parents stand for neither overlap nor leave a gap.
THEOREM ElementsOnce ==
  ASSUME Straddle = FALSE, QubeAll = FALSE
  PROVE  Spec => []EveryElementOnce
<1>1. Spec => []ArrayInv
  BY ArrayInvInit, ArrayInvStep, PTL DEF Spec
<1> QED
  BY <1>1, ArrayInvEveryElementOnce, PTL

-----------------------------------------------------------------------------
(* The odometer of array.h.                                                  *)

\* RaggedArray's Rolls and NextAddr, for a shape.
RollsAt(sh, a, c, d) == \A k \in d..Len(sh) : k >= c \/ (sh[k] > 0 /\ a[k] + 1 >= sh[k])
Odometer(sh, a, c) ==
  LET r == Min({d \in 2..Len(sh) : RollsAt(sh, a, c, d)} \cup {Len(sh) + 1})
  IN  [k \in 1..Len(sh) |-> IF k < r - 1 THEN a[k] ELSE IF k = r - 1 THEN a[k] + 1 ELSE 0]

\* Indexes from r on go back to zero, and the one before them counts on.
RolledFrom(sh, a, r) ==
  [k \in 1..Len(sh) |-> IF k < r - 1 THEN a[k] ELSE IF k = r - 1 THEN a[k] + 1 ELSE 0]

\* A least element of a set of numbers is its minimum.
LEMMA MinIs ==
  ASSUME NEW S, S \subseteq Nat, NEW m \in S, \A x \in S : m <= x
  PROVE  Min(S) = m
<1>1. PICK x : x = Min(S)
  OBVIOUS
<1>2. x \in S /\ \A y \in S : x <= y
  BY <1>1, Zenon DEF Min
<1>3. x <= m /\ m <= x /\ x \in Nat /\ m \in Nat
  BY <1>2
<1> QED
  BY <1>1, <1>3

\* The first index that rolls decides.
LEMMA OdometerAt ==
  ASSUME NEW sh \in Seq(Nat), NEW a, NEW c, NEW r \in 2..(Len(sh) + 1),
         r <= Len(sh) => RollsAt(sh, a, c, r),
         r > 2 => ~RollsAt(sh, a, c, r - 1)
  PROVE  Odometer(sh, a, c) = RolledFrom(sh, a, r)
<1>1. PICK n \in Nat : n = Len(sh)
  OBVIOUS
<1>2. PICK S : S = {d \in 2..n : RollsAt(sh, a, c, d)} \cup {n + 1}
  OBVIOUS
<1>3. r \in S
  <2>1. r \in 2..n \/ r = n + 1
    BY <1>1
  <2> QED
    BY <1>1, <1>2, <2>1
<1>4. ASSUME NEW d \in S
      PROVE  r <= d
  <2>1. CASE d = n + 1
    BY <1>1, <2>1
  <2>2. CASE d \in 2..n /\ RollsAt(sh, a, c, d)
    <3> SUFFICES ASSUME d < r PROVE FALSE
      BY <1>1, <2>2
    <3>1. r > 2 /\ \A k \in (r - 1)..n : k \in d..n
      BY <1>1, <2>2
    <3>2. RollsAt(sh, a, c, r - 1)
      BY <1>1, <2>2, <3>1 DEF RollsAt
    <3> QED
      BY <3>1, <3>2
  <2> QED
    BY <1>2, <2>1, <2>2
<1>5. Min(S) = r
  <2>1. S \subseteq Nat
    BY <1>2
  <2> QED
    BY <1>3, <1>4, <2>1, MinIs
<1> QED
  BY <1>1, <1>2, <1>5, Zenon DEF Odometer, RolledFrom

\* The address of the last value (LastAddress), the lowest index marked, and the
\* address the next value goes to.
LastAddr(s) ==
  [k \in 1..Rank(s) |-> IF k < Rank(s) /\ CntAt(s, k - 1) = 0 THEN 0 ELSE CntAt(s, k - 1) - 1]
ClosedOf(s) == Min({d \in 2..Rank(s) : s.roll[d]} \cup {Rank(s) + 1})
NextOf(s) == Odometer(s.shape, LastAddr(s), ClosedOf(s))

\* No run of a fixed index has more items than its extent.
InExtent(s, sh) == \A j \in 2..Len(sh) : sh[j] > 0 => CntAt(s, j - 1) <= sh[j]

\* All indexes from the lowest marked one on are marked.
LEMMA ClosedIs ==
  ASSUME NEW sh \in Seq(Nat), sh # <<>>, NEW s \in Arrays(sh), RollsUp(s)
  PROVE  /\ ClosedOf(s) \in 2..(Len(sh) + 1)
         /\ \A k \in 2..Len(sh) : k >= ClosedOf(s) <=> s.roll[k]
<1>1. PICK r \in Nat : r = Len(sh) /\ Rank(s) = r /\ r > 0
  BY ArrayIs
<1>2. PICK S : S = {d \in 2..r : s.roll[d]} \cup {r + 1}
  OBVIOUS
<1>3. S \subseteq Nat /\ S # {}
  BY <1>2
<1>4. PICK m \in S : \A x \in S : m <= x
  BY <1>3, LeastNat
<1>5. ClosedOf(s) = m
  <2>1. Min(S) = m
    BY <1>3, <1>4, MinIs
  <2> QED
    BY <1>1, <1>2, <2>1 DEF ClosedOf
<1>6. m \in 2..(r + 1)
  BY <1>1, <1>2
<1>7. ASSUME NEW k \in 2..r, k >= m
      PROVE  s.roll[k]
  <2>1. m \in 2..r
    BY <1>6, <1>7
  <2>2. s.roll[m]
    <3>1. m # r + 1
      BY <2>1
    <3> QED
      BY <1>2, <3>1
  <2>3. m \in 1..r /\ k \in m..r
    BY <1>7, <2>1
  <2> QED
    BY <1>1, <2>2, <2>3, Zenon DEF RollsUp
<1>8. ASSUME NEW k \in 2..r, s.roll[k]
      PROVE  k >= m
  <2>1. k \in S
    BY <1>2, <1>8
  <2> QED
    BY <1>3, <1>4, <2>1
<1> QED
  BY <1>1, <1>5, <1>6, <1>7, <1>8

-----------------------------------------------------------------------------
(* Where addresses lead as an array grows.                                   *)

\* The last entry of a level, by its count.
LEMMA CntAtIs ==
  ASSUME NEW sh \in Seq(Nat), sh # <<>>, NEW s \in Arrays(sh), NEW k \in 0..(Len(sh) - 1)
  PROVE  /\ CntAt(s, k) \in Nat
         /\ Level(s, k) # <<>> => /\ LastOf(s, k).cnt = CntAt(s, k)
                                  /\ Level(s, k)[Len(Level(s, k))].cnt = CntAt(s, k)
                                  /\ Level(s, k)[Len(Level(s, k))] \in Entries
                                  /\ LastOf(s, k) = Level(s, k)[Len(Level(s, k))]
<1>1. Level(s, k) # <<>> =>
        /\ LastOf(s, k) = Level(s, k)[Len(Level(s, k))]
        /\ Level(s, k)[Len(Level(s, k))] \in Entries
  BY LastIs
<1>2. CASE Level(s, k) = <<>>
  BY <1>2 DEF CntAt
<1>3. CASE Level(s, k) # <<>>
  <2>1. PICK e \in Entries : e = LastOf(s, k) /\ e = Level(s, k)[Len(Level(s, k))]
    BY <1>1, <1>3
  <2>2. CntAt(s, k) = e.cnt
    BY <1>3, <2>1 DEF CntAt
  <2>3. e.cnt \in Nat
    BY DEF Entries
  <2> QED
    BY <1>3, <2>1, <2>2, <2>3
<1> QED
  BY <1>2, <1>3

\* An address that follows the last entries leads to the last run.
FollowsLast(s, a, r) ==
  /\ \A k \in 1..(r - 1) : a[k] = CntAt(s, k - 1) - 1
  /\ a[r] < CntAt(s, r - 1)

\* It leads as far from the end of the elements as it is from that of the run.
LEMMA LastOffset ==
  ASSUME NEW sh \in Seq(Nat), sh # <<>>, NEW s, Sound(s, sh), Rooted(s, Len(sh)),
         NEW a \in Seq(Nat), Len(a) = Len(sh), FollowsLast(s, a, Len(sh))
  PROVE  OffsetAt(s, a) = Len(s.elem) - CntAt(s, Len(sh) - 1) + a[Len(sh)]
<1>1. PICK r \in Nat : r = Len(sh) /\ r > 0 /\ Rank(s) = r
  BY ArrayIs DEF Sound
<1>2. PICK g : g = LookupOf(s, a)
  OBVIOUS
<1>3. LooksUp(g, s, a, r)
  BY <1>1, <1>2, LookupIs
<1>4. OffsetAt(s, a) = g[r]
  BY <1>1, <1>2, OffsetIs
<1>5. s \in Arrays(sh)
  BY DEF Sound
<1>6. ASSUME NEW k \in 1..r, g[k - 1] = Len(Level(s, k - 1)) - 1
      PROVE  a[k] < CntAt(s, k - 1) => g[k] = Items(s, k) - CntAt(s, k - 1) + a[k]
  <2>1. k - 1 \in 0..(Len(sh) - 1) /\ k \in 1..Len(sh) /\ k - 1 + 1 = k /\ k - 1 \in 0..(r - 1)
    BY <1>1
  <2>2. Level(s, k - 1) # <<>>
    BY <1>1, <2>1 DEF Rooted
  <2>3. PICK es \in Seq(Entries) : es = Level(s, k - 1) /\ es # <<>>
    BY <2>1, <2>2, LevelTiles
  <2>4. /\ Tiles(es, Items(s, k)) /\ Items(s, k - 1) = Len(es) /\ Items(s, k) \in Nat
    BY <2>1, <2>3, LevelTiles
  <2>5. PICK n \in Nat : n = Len(es) /\ n > 0
    BY <2>3
  <2>6. n - 1 \in Below(Items(s, k - 1)) /\ n - 1 + 1 = n
    BY <2>4, <2>5 DEF Below
  <2>7. a[k] \in Nat
    BY <1>1
  <2> DEFINE x == n - 1
  <2>14. x \in Below(Items(s, k - 1)) /\ x + 1 = n
    BY <2>6
  <2> HIDE DEF x
  <2>8. PICK e \in Entries :
          /\ e = Level(s, k - 1)[x + 1]
          /\ ItemAt(s, k, x, a[k]) = IF a[k] < e.cnt THEN e.off + a[k] ELSE -1
    BY <2>1, <2>14, <2>7, ItemIs, SMTT(40)
  <2>9. e = es[Len(es)]
    BY <2>3, <2>5, <2>14, <2>8
  <2>10. e.cnt = CntAt(s, k - 1)
    BY <2>3, <2>9 DEF CntAt
  <2>11. e.off + e.cnt = Items(s, k)
    BY <2>3, <2>4, <2>9 DEF Tiles, End
  <2>12. g[k] = ItemAt(s, k, x, a[k])
    BY <1>1, <1>3, <1>6, <2>3, <2>5 DEF LooksUp, x
  <2>13. e.off \in Nat /\ e.cnt \in Nat
    BY DEF Entries
  <2> QED
    BY <2>7, <2>8, <2>10, <2>11, <2>12, <2>13
<1>7. PICK Good : Good = {k \in 0..(r - 1) : g[k] = Len(Level(s, k)) - 1}
  OBVIOUS
<1>8. 0 \in Good
  <2>1. g[0] = 0 /\ Len(Level(s, 0)) = 1
    BY <1>3, <1>5, ArrayIs DEF LooksUp
  <2>2. 0 \in 0..(r - 1) /\ g[0] = Len(Level(s, 0)) - 1
    BY <1>1, <2>1
  <2> QED
    BY <1>7, <2>2
<1>9. ASSUME NEW k \in 1..(r - 1), k - 1 \in Good
      PROVE  k \in Good
  <2>1. k \in 1..r /\ k \in 0..(r - 1) /\ k \in 0..(Len(sh) - 1) /\ k - 1 \in 0..(Len(sh) - 1)
    BY <1>1
  <2>2. a[k] = CntAt(s, k - 1) - 1 /\ CntAt(s, k - 1) \in Nat
    BY <1>1, <1>5, <2>1, CntAtIs DEF FollowsLast
  <2>3. g[k] = Items(s, k) - CntAt(s, k - 1) + a[k]
    BY <1>6, <1>7, <1>9, <2>1, <2>2
  <2>4. Items(s, k) = Len(Level(s, k)) /\ Items(s, k) \in Nat
    BY <2>1, LevelTiles
  <2> QED
    BY <1>7, <2>1, <2>2, <2>3, <2>4
<1>10. r - 1 \in Good
  <2>1. r - 1 \in Nat /\ r - 1 \in 0..(r - 1)
    BY <1>1
  <2>2. 0..(r - 1) \subseteq Good
    BY <1>8, <1>9, <2>1, IntervalInduction
  <2> QED
    BY <2>1, <2>2
<1>11. g[r - 1] = Len(Level(s, r - 1)) - 1 /\ r \in 1..r
  BY <1>1, <1>7, <1>10
<1>12. g[r] = Items(s, r) - CntAt(s, r - 1) + a[r]
  BY <1>1, <1>6, <1>11 DEF FollowsLast
<1>13. Items(s, r) = Len(s.elem)
  BY <1>1 DEF Items
<1> QED
  BY <1>1, <1>4, <1>12, <1>13

\* Entries keep what they stand for, and may stand for more.
Grows(s, t, r) ==
  \A k \in 0..(r - 1) :
    /\ Len(Level(s, k)) <= Len(Level(t, k))
    /\ \A p \in 1..Len(Level(s, k)) : /\ Level(t, k)[p].off = Level(s, k)[p].off
                                      /\ Level(s, k)[p].cnt <= Level(t, k)[p].cnt

\* What is at an address stays there.
LEMMA OffsetStays ==
  ASSUME NEW sh \in Seq(Nat), sh # <<>>, NEW s, Sound(s, sh), NEW t, Sound(t, sh),
         Grows(s, t, Len(sh)),
         NEW a \in Seq(Nat), Len(a) = Len(sh), OffsetAt(s, a) # -1
  PROVE  OffsetAt(t, a) = OffsetAt(s, a)
<1>1. PICK r \in Nat : r = Len(sh) /\ r > 0
  OBVIOUS
<1>2. PICK g : g = LookupOf(s, a)
  OBVIOUS
<1>3. PICK h : h = LookupOf(t, a)
  OBVIOUS
<1>4. LooksUp(g, s, a, r) /\ LooksUp(h, t, a, r)
  BY <1>1, <1>2, <1>3, LookupIs
<1>5. OffsetAt(s, a) = g[r] /\ OffsetAt(t, a) = h[r]
  BY <1>1, <1>2, <1>3, OffsetIs
<1>6. PICK Good : Good = {k \in 0..r : g[k] # -1 => h[k] = g[k]}
  OBVIOUS
<1>7. 0 \in Good
  BY <1>4, <1>6 DEF LooksUp
<1>8. ASSUME NEW k \in 1..r, k - 1 \in Good
      PROVE  k \in Good
  <2> SUFFICES ASSUME g[k] # -1 PROVE h[k] = g[k]
    BY <1>6
  <2>1. k - 1 \in 0..(Len(sh) - 1) /\ k \in 1..Len(sh) /\ k - 1 \in 0..r
    BY <1>1
  <2>2. g[k] = ItemAt(s, k, g[k - 1], a[k]) /\ h[k] = ItemAt(t, k, h[k - 1], a[k])
    BY <1>4 DEF LooksUp
  <2>3. PICK x : x = g[k - 1]
    OBVIOUS
  <2>4. x # -1
    BY <2>2, <2>3 DEF ItemAt
  <2>5. h[k - 1] = x
    BY <1>6, <1>8, <2>3, <2>4
  <2>6. x \in Below(Items(s, k - 1))
    BY <1>4, <2>1, <2>3, <2>4 DEF LooksUp, Offsets
  <2>7. /\ Items(s, k - 1) = Len(Level(s, k - 1)) /\ Items(t, k - 1) = Len(Level(t, k - 1))
        /\ Items(s, k - 1) \in Nat /\ Items(t, k - 1) \in Nat
        /\ Level(s, k - 1) \in Seq(Entries) /\ Level(t, k - 1) \in Seq(Entries)
    BY <2>1, LevelTiles
  <2>8. Items(s, k - 1) <= Items(t, k - 1)
    BY <1>1, <2>1, <2>7 DEF Grows
  <2>9. x \in Below(Items(t, k - 1)) /\ x \in Nat /\ x + 1 \in 1..Len(Level(s, k - 1))
    BY <2>6, <2>7, <2>8 DEF Below
  <2>10. a[k] \in Nat
    BY <1>1
  <2>11. PICK e \in Entries :
          /\ e = Level(s, k - 1)[x + 1]
          /\ ItemAt(s, k, x, a[k]) = IF a[k] < e.cnt THEN e.off + a[k] ELSE -1
    BY <2>1, <2>6, <2>10, ItemIs
  <2>12. PICK f \in Entries :
          /\ f = Level(t, k - 1)[x + 1]
          /\ ItemAt(t, k, x, a[k]) = IF a[k] < f.cnt THEN f.off + a[k] ELSE -1
    BY <2>1, <2>9, <2>10, ItemIs
  <2>13. f.off = e.off /\ e.cnt <= f.cnt
    BY <1>1, <2>1, <2>9, <2>11, <2>12 DEF Grows
  <2>14. f.cnt \in Nat /\ e.cnt \in Nat
    BY DEF Entries
  <2> QED
    BY <2>2, <2>3, <2>5, <2>10, <2>11, <2>12, <2>13, <2>14
<1>9. r \in Good
  <2>1. 0..r \subseteq Good
    BY <1>7, <1>8, IntervalInduction
  <2> QED
    BY <2>1
<1> QED
  BY <1>5, <1>6, <1>9

-----------------------------------------------------------------------------
(* A new run goes where the odometer says.                                   *)

\* What stands for something is not empty.
LEMMA CntPositive ==
  ASSUME NEW sh \in Seq(Nat), sh # <<>>, NEW s \in Arrays(sh), NEW m, Chain(s, Len(sh), m),
         Rooted(s, Len(sh)), NEW k \in 0..(Len(sh) - 2)
  PROVE  CntAt(s, k) \in Nat /\ CntAt(s, k) > 0
<1>1. PICK r \in Nat : r = Len(sh) /\ r > 0
  OBVIOUS
<1>2. k \in 0..(r - 1) /\ k + 1 \in 0..(r - 1) /\ k \in 0..(Len(sh) - 1)
  BY <1>1
<1>3. Level(s, k) # <<>> /\ Level(s, k + 1) # <<>>
  BY <1>1, <1>2 DEF Rooted
<1>4. Level(s, k + 1) \in Seq(Entries)
  BY <1>1, <1>2, ArrayIs
<1>5. Len(Level(s, k + 1)) > 0
  BY <1>3, <1>4
<1>6. Level(s, k)[Len(Level(s, k))].cnt > 0
  BY <1>1, <1>2, <1>5 DEF Chain, Linked
<1> QED
  BY <1>2, <1>3, <1>6, CntAtIs

\* The counts of the last entries when index top and all after it begin a new run.
RunCounts(s, w, top, r) ==
  /\ \A j \in 0..(top - 2) : CntAt(w, j) = CntAt(s, j)
  /\ CntAt(w, top - 1) = CntAt(s, top - 1) + 1
  /\ \A j \in top..(r - 2) : CntAt(w, j) = 1
  /\ CntAt(w, r - 1) = 0

\* The last of a level that grew, or that an entry was appended to.
LEMMA GrewCnt ==
  ASSUME NEW s, NEW w, NEW k, NEW c, Level(s, k) # <<>>, Level(s, k) \in Seq(Entries),
         Level(w, k) \in Seq(Entries), Grew(Level(s, k), Level(w, k), c)
  PROVE  CntAt(w, k) = CntAt(s, k) + c
<1>1. PICK es \in Seq(Entries), new \in Seq(Entries) : es = Level(s, k) /\ new = Level(w, k)
  OBVIOUS
<1>2. es # <<>> /\ Len(new) = Len(es) /\ new[Len(es)].cnt = es[Len(es)].cnt + c
  BY <1>1 DEF Grew
<1>3. new # <<>>
  BY <1>2
<1> QED
  BY <1>1, <1>2, <1>3 DEF CntAt

\* An entry more at the end of a level: its count is that of the last run then.
LEMMA AppendCnt ==
  ASSUME NEW s, NEW w, NEW k, NEW e \in Entries, Level(s, k) \in Seq(Entries),
         Level(w, k) = Append(Level(s, k), e)
  PROVE  CntAt(w, k) = e.cnt
<1>1. PICK new \in Seq(Entries) : new = Append(Level(s, k), e)
  BY AppendProperties
<1>2. new # <<>> /\ Len(new) = Len(Level(s, k)) + 1 /\ new[Len(Level(s, k)) + 1] = e
  BY <1>1, AppendProperties
<1>3. new[Len(new)] = e
  BY <1>2
<1> QED
  BY <1>1, <1>2, <1>3 DEF CntAt

\* _newIndexInfo counts one run more in the lowest open index, and begins new ones.
LEMMA NewCounts ==
  ASSUME NEW sh \in Seq(Nat), sh # <<>>, NEW s \in Arrays(sh), Rooted(s, Len(sh)),
         Len(sh) > 1, NEW top \in 1..(Len(sh) - 1), NEW w,
         Extended(s, w, sh, top, Len(sh) - 1)
  PROVE  RunCounts(s, w, top, Len(sh))
<1>1. PICK r \in Nat : r = Len(sh) /\ r > 1
  OBVIOUS
<1>2. w \in Arrays(sh)
  BY DEF Extended
<1>3. \A j \in 0..(r - 1) : /\ Level(s, j) \in Seq(Entries) /\ Level(w, j) \in Seq(Entries)
                            /\ Level(s, j) # <<>>
  BY <1>1, <1>2, ArrayIs DEF Rooted
<1>4. \A j \in 0..(top - 2) : CntAt(w, j) = CntAt(s, j)
  BY DEF Extended, CntAt
<1>5. CntAt(w, top - 1) = CntAt(s, top - 1) + 1
  <2>1. PICK k \in 0..(r - 1) : k = top - 1
    BY <1>1
  <2>2. Grew(Level(s, k), Level(w, k), 1)
    BY <2>1 DEF Extended
  <2>3. CntAt(w, k) = CntAt(s, k) + 1
    BY <1>3, <2>2, GrewCnt
  <2> QED
    BY <2>1, <2>3
<1>6. ASSUME NEW j \in top..(r - 1)
      PROVE  CntAt(w, j) = IF j = r - 1 THEN 0 ELSE 1
  <2>1. j \in 0..(Len(sh) - 1) /\ j \in 0..(r - 1) /\ j \in top..(Len(sh) - 1)
    BY <1>1
  <2>2. LastOf(s, j) \in Entries
    BY <1>3, <2>1, CntAtIs
  <2>3. PICK e : e = NextEntry(s, r - 1, j)
    OBVIOUS
  <2>4. PICK o : o = LastOf(s, j)
    OBVIOUS
  <2>5. o.off \in Nat /\ o.cnt \in Nat /\ End(o) \in Nat
    BY <2>2, <2>4 DEF Entries, End
  <2>6. e \in Entries /\ e.cnt = IF j = r - 1 THEN 0 ELSE 1
    BY <2>3, <2>4, <2>5 DEF NextEntry, Entry, Entries
  <2>7. Level(w, j) = Append(Level(s, j), e)
    BY <1>1, <2>1, <2>3 DEF Extended
  <2>8. CntAt(w, j) = e.cnt
    <3>1. Level(s, j) \in Seq(Entries) /\ e \in Entries
      BY <1>3, <2>1, <2>6
    <3> QED
      BY <2>7, <3>1, AppendCnt, Zenon
  <2> QED
    BY <2>6, <2>8
<1>7. \A j \in top..(r - 2) : CntAt(w, j) = 1
  BY <1>1, <1>6
<1>8. CntAt(w, r - 1) = 0
  BY <1>1, <1>6
<1> QED
  BY <1>1, <1>4, <1>5, <1>7, <1>8 DEF RunCounts

\* Entries stay where they were.
LEMMA NewGrows ==
  ASSUME NEW sh \in Seq(Nat), sh # <<>>, NEW s \in Arrays(sh), Rooted(s, Len(sh)),
         Len(sh) > 1, NEW top \in 1..(Len(sh) - 1), NEW w,
         Extended(s, w, sh, top, Len(sh) - 1)
  PROVE  Grows(s, w, Len(sh))
<1>1. PICK r \in Nat : r = Len(sh) /\ r > 1
  OBVIOUS
<1>2. w \in Arrays(sh)
  BY DEF Extended
<1>3. \A j \in 0..(r - 1) : /\ Level(s, j) \in Seq(Entries) /\ Level(w, j) \in Seq(Entries)
                            /\ Level(s, j) # <<>>
  BY <1>1, <1>2, ArrayIs DEF Rooted
<1>4. ASSUME NEW k \in 0..(r - 1)
      PROVE  /\ Len(Level(s, k)) <= Len(Level(w, k))
             /\ \A p \in 1..Len(Level(s, k)) : /\ Level(w, k)[p].off = Level(s, k)[p].off
                                               /\ Level(s, k)[p].cnt <= Level(w, k)[p].cnt
  <2>1. PICK es \in Seq(Entries), new \in Seq(Entries) : es = Level(s, k) /\ new = Level(w, k)
    BY <1>3
  <2>2. \A p \in 1..Len(es) : es[p] \in Entries /\ es[p].cnt \in Nat
    <3>1. \A p \in 1..Len(es) : es[p] \in Entries
      OBVIOUS
    <3> QED
      BY <3>1 DEF Entries
  <2>3. es # <<>>
    BY <1>3, <2>1
  <2>4. CASE k \in 0..(top - 2)
    <3>1. new = es
      BY <2>1, <2>4 DEF Extended
    <3> QED
      BY <2>1, <2>2, <3>1
  <2>5. CASE k = top - 1
    <3>1. Grew(es, new, 1)
      BY <2>1, <2>5 DEF Extended
    <3>2. ASSUME NEW p \in 1..Len(es)
          PROVE  new[p].off = es[p].off /\ es[p].cnt <= new[p].cnt
      <4>1. CASE p = Len(es)
        BY <2>2, <3>1, <4>1 DEF Grew
      <4>2. CASE p # Len(es)
        <5>1. p \in 1..(Len(es) - 1)
          BY <4>2
        <5> QED
          BY <2>2, <3>1, <5>1 DEF Grew
      <4> QED
        BY <4>1, <4>2
    <3> QED
      BY <2>1, <3>1, <3>2 DEF Grew
  <2>6. CASE k \in top..(r - 1)
    <3>1. PICK e : new = Append(es, e)
      BY <1>1, <2>1, <2>6 DEF Extended
    <3>2. Len(new) = Len(es) + 1 /\ \A p \in 1..Len(es) : new[p] = es[p]
      BY <2>1, <3>1
    <3> QED
      BY <2>1, <2>2, <3>2, SMTT(40)
  <2>7. k \in 0..(top - 2) \/ k = top - 1 \/ k \in top..(r - 1)
    BY <1>1
  <2> QED
    BY <2>4, <2>5, <2>6, <2>7
<1> QED
  BY <1>1, <1>4, Zenon DEF Grows

\* The first index that begins a new run: those after it must, it need not.
LEMMA TopIs ==
  ASSUME NEW s, NEW k \in Nat, k > 0, NEW top, top = Min(Tops(s, k))
  PROVE  /\ top \in 1..k
         /\ \A j \in (top + 1)..k : MustRoll(s, j)
         /\ top > 1 => ~MustRoll(s, top)
<1>1. PICK T : T = Tops(s, k)
  OBVIOUS
<1>2. k \in T /\ T \subseteq Nat /\ T \subseteq 1..k
  BY <1>1 DEF Tops
<1>3. top = CHOOSE x \in T : \A y \in T : x <= y
  BY <1>1, Zenon DEF Min
<1>4. top \in T /\ \A y \in T : top <= y
  BY <1>2, <1>3, LeastChosen
<1>5. top \in 1..k /\ \A j \in (top + 1)..k : MustRoll(s, j)
  BY <1>1, <1>4 DEF Tops
<1>6. ASSUME top > 1, MustRoll(s, top)
      PROVE  FALSE
  <2>1. top - 1 \in 1..k /\ top - 1 + 1 = top
    BY <1>5, <1>6
  <2>2. \A j \in top..k : j = top \/ j \in (top + 1)..k
    BY <1>5
  <2>3. \A j \in top..k : MustRoll(s, j)
    BY <1>5, <1>6, <2>2, Zenon
  <2>4. top - 1 \in T
    BY <1>1, <2>1, <2>3 DEF Tops
  <2> QED
    BY <1>4, <1>5, <2>4
<1> QED
  BY <1>5, <1>6, Zenon

\* Where no run is empty, an address is one less than the counts.
LEMMA LastAddrIs ==
  ASSUME NEW sh \in Seq(Nat), sh # <<>>, NEW s \in Arrays(sh), NEW m, Chain(s, Len(sh), m),
         Rooted(s, Len(sh))
  PROVE  \A k \in 1..Len(sh) : /\ LastAddr(s)[k] = CntAt(s, k - 1) - 1
                               /\ CntAt(s, k - 1) \in Nat
<1>1. PICK r \in Nat : r = Len(sh) /\ r > 0 /\ Rank(s) = r
  BY ArrayIs
<1>2. ASSUME NEW k \in 1..r
      PROVE  LastAddr(s)[k] = CntAt(s, k - 1) - 1 /\ CntAt(s, k - 1) \in Nat
  <2>1. k - 1 \in 0..(Len(sh) - 1) /\ (k < r => k - 1 \in 0..(Len(sh) - 2))
    BY <1>1
  <2>2. CntAt(s, k - 1) \in Nat
    BY <2>1, CntAtIs
  <2>3. k < r => CntAt(s, k - 1) > 0
    BY <2>1, CntPositive
  <2>4. LastAddr(s)[k] = IF k < r /\ CntAt(s, k - 1) = 0 THEN 0 ELSE CntAt(s, k - 1) - 1
    BY <1>1 DEF LastAddr
  <2> QED
    BY <2>2, <2>3, <2>4
<1> QED
  BY <1>1, <1>2

\* Without marks none is the lowest.
LEMMA ClosedNone ==
  ASSUME NEW sh \in Seq(Nat), sh # <<>>, NEW s \in Arrays(sh), RollsUp(s),
         \A k \in 1..Len(sh) : s.roll[k] = FALSE
  PROVE  ClosedOf(s) = Len(sh) + 1
<1>1. PICK c : c = ClosedOf(s)
  OBVIOUS
<1>2. c \in 2..(Len(sh) + 1) /\ (c \in 2..Len(sh) => s.roll[c])
  BY <1>1, ClosedIs
<1>3. c \notin 2..Len(sh)
  <2>1. c \in 2..Len(sh) => s.roll[c] = FALSE
    <3>1. c \in 2..Len(sh) => c \in 1..Len(sh)
      OBVIOUS
    <3> QED
      BY <3>1
  <2> QED
    BY <1>2, <2>1, Zenon
<1> QED
  BY <1>1, <1>2, <1>3

\* While there is room in the last run the next value goes there.
LEMMA OpenUnmarked ==
  ASSUME NEW sh \in Seq(Nat), sh # <<>>, NEW s \in Arrays(sh), RollsUp(s), Open(s, Len(sh))
  PROVE  \A k \in 1..Len(sh) : s.roll[k] = FALSE
<1>1. PICK r \in Nat : r = Len(sh) /\ r > 0 /\ Rank(s) = r /\ r \in 1..r
  <2>1. PICK r \in Nat : r = Len(sh) /\ r > 0 /\ Rank(s) = r
    BY ArrayIs
  <2> QED
    BY <2>1
<1>2. s.roll[r] = FALSE
  <2>1. s.roll[1] = FALSE
    BY DEF RollsUp
  <2>2. r = 1 \/ s.roll[r] = FALSE
    BY <1>1, Zenon DEF Open
  <2> QED
    BY <2>1, <2>2, Zenon
<1>3. s.roll \in [1..r -> BOOLEAN]
  BY <1>1, ArrayIs
<1>4. ASSUME NEW k \in 1..r
      PROVE  s.roll[k] = FALSE
  <2>1. r \in k..r
    BY <1>1
  <2>2. s.roll[k] => s.roll[r]
    BY <1>1, <2>1, Zenon DEF RollsUp
  <2> QED
    BY <1>2, <1>3, <2>2, Zenon
<1> QED
  BY <1>1, <1>4

\* The last index counts on while its run is open, whatever the extents.
LEMMA NextOpen ==
  ASSUME NEW sh \in Seq(Nat), sh # <<>>, NEW s \in Arrays(sh), NEW m, Chain(s, Len(sh), m),
         Rooted(s, Len(sh)), RollsUp(s), Open(s, Len(sh))
  PROVE  NextOf(s) = RolledFrom(sh, LastAddr(s), Len(sh) + 1)
<1>1. PICK r \in Nat : r = Len(sh) /\ r > 0 /\ Rank(s) = r /\ s.shape = sh
  BY ArrayIs
<1>2. ClosedOf(s) = r + 1
  BY <1>1, OpenUnmarked, ClosedNone
<1>3. PICK a : a = LastAddr(s)
  OBVIOUS
<1>4. a[r] = CntAt(s, r - 1) - 1 /\ CntAt(s, r - 1) \in Nat
  <2>1. r \in 1..Len(sh)
    BY <1>1
  <2> QED
    BY <1>3, <2>1, LastAddrIs
<1>5. r > 1 => ~RollsAt(sh, a, r + 1, r)
  <2>1. r - 1 \in 0..(Len(sh) - 1) /\ Level(s, r - 1) # <<>>
    BY <1>1 DEF Rooted
  <2>2. LastOf(s, r - 1).cnt = CntAt(s, r - 1)
    BY <2>1, CntAtIs
  <2>3. r > 1 => sh[r] = 0 \/ CntAt(s, r - 1) < sh[r]
    BY <1>1, <2>2 DEF Open
  <2>4. r \in r..Len(sh) /\ sh[r] \in Nat /\ ~(r >= r + 1)
    BY <1>1
  <2>5. r > 1 => ~(sh[r] > 0 /\ a[r] + 1 >= sh[r])
    BY <1>4, <2>3, <2>4
  <2> QED
    BY <2>4, <2>5, Zenon DEF RollsAt
<1>6. Odometer(sh, a, r + 1) = RolledFrom(sh, a, r + 1)
  <2>1. PICK x \in 2..(Len(sh) + 1) : x = r + 1 /\ x - 1 = r
    BY <1>1
  <2>2. (x <= Len(sh) => RollsAt(sh, a, x, x)) /\ (x > 2 => ~RollsAt(sh, a, x, x - 1))
    BY <1>1, <1>5, <2>1
  <2>3. Odometer(sh, a, x) = RolledFrom(sh, a, x)
    BY <2>2, OdometerAt
  <2> QED
    BY <2>1, <2>3
<1> QED
  BY <1>1, <1>2, <1>3, <1>6, Zenon DEF NextOf

\* When there is none it goes to a new run of the first index that begins one.
LEMMA NextClosed ==
  ASSUME NEW sh \in Seq(Nat), sh # <<>>, NEW s \in Arrays(sh), NEW m, Chain(s, Len(sh), m),
         Rooted(s, Len(sh)), RollsUp(s), InExtent(s, sh), ~Open(s, Len(sh)), Len(sh) > 1,
         NEW top, top = Min(Tops(s, Len(sh) - 1))
  PROVE  NextOf(s) = RolledFrom(sh, LastAddr(s), top + 1)
<1>1. PICK r \in Nat : r = Len(sh) /\ r > 1 /\ Rank(s) = r /\ s.shape = sh
  BY ArrayIs
<1>2. PICK a : a = LastAddr(s)
  OBVIOUS
<1>3. PICK c : c = ClosedOf(s)
  OBVIOUS
<1>4. \A k \in 2..r : k >= c <=> s.roll[k]
  BY <1>1, <1>3, ClosedIs
<1>5. /\ top \in 1..(r - 1)
      /\ \A j \in (top + 1)..(r - 1) : MustRoll(s, j)
      /\ top > 1 => ~MustRoll(s, top)
  <2>1. r - 1 \in Nat /\ r - 1 > 0
    BY <1>1
  <2>2. top = Min(Tops(s, r - 1))
    BY <1>1
  <2> QED
    BY <2>1, <2>2, TopIs
<1>6. ASSUME NEW k \in 2..r
      PROVE  /\ a[k] + 1 = CntAt(s, k - 1) /\ CntAt(s, k - 1) \in Nat
             /\ LastOf(s, k - 1).cnt = CntAt(s, k - 1) /\ sh[k] \in Nat
             /\ sh[k] > 0 => CntAt(s, k - 1) <= sh[k]
  <2>1. k - 1 \in 0..(Len(sh) - 1) /\ Level(s, k - 1) # <<>> /\ k \in 1..Len(sh)
    BY <1>1 DEF Rooted
  <2>2. LastOf(s, k - 1).cnt = CntAt(s, k - 1)
    BY <2>1, CntAtIs
  <2>3. a[k] = CntAt(s, k - 1) - 1 /\ CntAt(s, k - 1) \in Nat
    BY <1>2, <2>1, LastAddrIs
  <2>4. a[k] + 1 = CntAt(s, k - 1)
    BY <2>3
  <2>5. sh[k] > 0 => CntAt(s, k - 1) <= sh[k]
    BY <1>1 DEF InExtent
  <2>6. sh[k] \in Nat
    BY <2>1
  <2> QED
    BY <2>2, <2>3, <2>4, <2>5, <2>6
<1>7. ASSUME NEW k \in (top + 1)..r
      PROVE  k >= c \/ (sh[k] > 0 /\ a[k] + 1 >= sh[k])
  <2>1. k \in 2..r
    BY <1>5
  <2>2. CASE k = r
    <3>1. s.roll[r] # FALSE \/ (sh[r] # 0 /\ ~(LastOf(s, r - 1).cnt < sh[r]))
      BY <1>1 DEF Open
    <3>2. r \in 1..r /\ s.roll \in [1..r -> BOOLEAN]
      BY <1>1, ArrayIs
    <3>3. s.roll[r] # FALSE => s.roll[r]
      BY <3>2, Zenon
    <3>4. s.roll[r] => k >= c
      BY <1>4, <2>1, <2>2, Zenon
    <3>5. sh[r] # 0 /\ ~(LastOf(s, r - 1).cnt < sh[r]) => sh[k] > 0 /\ a[k] + 1 >= sh[k]
      BY <1>6, <2>1, <2>2
    <3> QED
      BY <3>1, <3>3, <3>4, <3>5, Zenon
  <2>3. CASE k # r
    <3>1. MustRoll(s, k)
      BY <1>5, <2>3
    <3>2. s.roll[k] \/ (sh[k] # 0 /\ LastOf(s, k - 1).cnt = sh[k])
      BY <1>1, <3>1, Zenon DEF MustRoll
    <3>3. s.roll[k] => k >= c
      BY <1>4, <2>1, Zenon
    <3>4. sh[k] # 0 /\ LastOf(s, k - 1).cnt = sh[k] => sh[k] > 0 /\ a[k] + 1 >= sh[k]
      BY <1>6, <2>1
    <3> QED
      BY <3>2, <3>3, <3>4, Zenon
  <2> QED
    BY <2>2, <2>3
<1>8. RollsAt(sh, a, c, top + 1)
  BY <1>1, <1>7, Zenon DEF RollsAt
<1>9. top > 1 => ~RollsAt(sh, a, c, top)
  <2> SUFFICES ASSUME top > 1, RollsAt(sh, a, c, top) PROVE FALSE
    BY Zenon
  <2>1. top \in 2..r /\ top \in top..Len(sh)
    BY <1>1, <1>5
  <2>2. top >= c \/ (sh[top] > 0 /\ a[top] + 1 >= sh[top])
    BY <2>1, Zenon DEF RollsAt
  <2>3. ~MustRoll(s, top)
    BY <1>5
  <2>4. ~s.roll[top] /\ ~(sh[top] # 0 /\ LastOf(s, top - 1).cnt = sh[top])
    BY <1>1, <2>3, Zenon DEF MustRoll
  <2>5. ~(top >= c)
    BY <1>4, <2>1, <2>4, Zenon
  <2> QED
    BY <1>6, <2>1, <2>2, <2>4, <2>5, SMTT(40)
<1>10. Odometer(sh, a, c) = RolledFrom(sh, a, top + 1)
  <2>1. PICK x \in 2..(Len(sh) + 1) : x = top + 1 /\ x - 1 = top
    BY <1>1, <1>5
  <2>2. (x <= Len(sh) => RollsAt(sh, a, c, x)) /\ (x > 2 => ~RollsAt(sh, a, c, x - 1))
    BY <1>8, <1>9, <2>1
  <2>3. Odometer(sh, a, c) = RolledFrom(sh, a, x)
    BY <2>2, OdometerAt
  <2> QED
    BY <2>1, <2>3
<1> QED
  BY <1>1, <1>2, <1>3, <1>10, Zenon DEF NextOf

\* _newIndexInfo keeps what is at addresses, and where the next value goes.
SameNext(s, w) == NextOf(w) = NextOf(s)

\* That is so for every array whose last run is full or marked.
LEMMA RunNext ==
  ASSUME NEW sh \in Seq(Nat), sh # <<>>, NEW s \in Arrays(sh), NEW m \in Nat,
         Chain(s, Len(sh), m), Rooted(s, Len(sh)), RollsUp(s), InExtent(s, sh),
         ~Open(s, Len(sh)), Len(sh) > 1,
         NEW s1, BeginsRun(s, s1, Len(sh) - 1), NEW w, Unmarks(s1, w, Len(sh))
  PROVE  /\ InExtent(w, sh) /\ SameNext(s, w) /\ Grows(s, w, Len(sh))
         /\ w \in Arrays(sh) /\ Chain(w, Len(sh), m)
<1>1. PICK r \in Nat : r = Len(sh) /\ r > 1 /\ r - 1 \in 1..(Len(sh) - 1) /\ r - 1 \in Nat
                       /\ r - 1 > 0
  OBVIOUS
<1>2. PICK top : top = Min(Tops(s, r - 1))
  OBVIOUS
<1>3. /\ top \in 1..(r - 1)
      /\ \A j \in (top + 1)..(r - 1) : MustRoll(s, j)
      /\ top > 1 => ~MustRoll(s, top)
  BY <1>1, <1>2, TopIs
<1>4. Extended(s, s1, sh, top, Len(sh) - 1)
  <2>1. \A j \in 0..(r - 1) : Level(s, j) # <<>>
    BY <1>1 DEF Rooted
  <2>2. Extended(s, NewIndexInfo(s, r - 1), sh, top, r - 1)
    BY <1>1, <1>2, <1>3, <2>1, NewEntries
  <2> QED
    BY <1>1, <2>2 DEF BeginsRun
<1>5. /\ s1 \in Arrays(sh) /\ Chain(s1, Len(sh), m) /\ Rooted(s1, Len(sh))
      /\ Unmarked(s1, Len(sh) - 1)
  <2>1. s1 \in Arrays(sh)
    BY NewRun
  <2>2. Chain(s1, Len(sh), m) /\ Rooted(s1, Len(sh))
    BY NewRun
  <2>3. Unmarked(s1, Len(sh) - 1)
    BY NewRun
  <2> QED
    BY <2>1, <2>2, <2>3
<1>6. w \in Arrays(sh) /\ OnlyMark(s1, w, Len(sh))
  BY <1>5, MarkGone
<1>7. \A j \in 0..(r - 1) : Level(w, j) = Level(s1, j)
  BY <1>6 DEF OnlyMark, Level
<1>8. RunCounts(s, w, top, r)
  <2>1. RunCounts(s, s1, top, r)
    BY <1>1, <1>3, <1>4, NewCounts
  <2>2. \A j \in 0..(r - 1) : CntAt(w, j) = CntAt(s1, j)
    BY <1>7 DEF CntAt
  <2>3. /\ \A j \in 0..(top - 2) : j \in 0..(r - 1)
        /\ \A j \in top..(r - 2) : j \in 0..(r - 1)
        /\ top - 1 \in 0..(r - 1) /\ r - 1 \in 0..(r - 1)
    BY <1>1, <1>3
  <2> QED
    BY <2>1, <2>2, <2>3 DEF RunCounts
<1>9. Grows(s, w, Len(sh))
  <2>1. Grows(s, s1, Len(sh))
    BY <1>1, <1>3, <1>4, NewGrows
  <2>2. \A k \in 0..(Len(sh) - 1) : Level(w, k) = Level(s1, k)
    BY <1>1, <1>7
  <2> QED
    BY <2>1, <2>2 DEF Grows
<1>10. Chain(w, Len(sh), m) /\ Rooted(w, Len(sh))
  <2>1. /\ \A k \in 0..(r - 2) : k \in 0..(r - 1) /\ k + 1 \in 0..(r - 1)
        /\ r - 1 \in 0..(r - 1)
    BY <1>1
  <2> QED
    BY <1>1, <1>5, <1>7, <2>1 DEF Chain, Rooted
<1>11. \A k \in 1..Len(sh) : w.roll[k] = FALSE
  <2>1. w.roll = [s1.roll EXCEPT ![r] = FALSE] /\ s1.roll \in [1..r -> BOOLEAN]
    BY <1>1, <1>5, <1>6, ArrayIs DEF OnlyMark
  <2>2. \A k \in 1..r : k = r \/ k \in 1..(r - 1)
    BY <1>1
  <2>3. \A k \in 1..(r - 1) : s1.roll[k] = FALSE
    BY <1>1, <1>5 DEF Unmarked
  <2> QED
    BY <1>1, <2>1, <2>2, <2>3
<1>12. RollsUp(w)
  <2>1. Rank(w) = Len(sh) /\ 1 \in 1..Len(sh)
    BY <1>6, ArrayIs
  <2> QED
    BY <1>11, <2>1, Zenon DEF RollsUp
<1>13. ASSUME NEW k \in 2..r
       PROVE  /\ LastOf(s, k - 1).cnt = CntAt(s, k - 1) /\ CntAt(s, k - 1) \in Nat
              /\ sh[k] \in Nat /\ (sh[k] > 0 => CntAt(s, k - 1) <= sh[k])
  <2>1. k - 1 \in 0..(Len(sh) - 1) /\ Level(s, k - 1) # <<>> /\ k \in 1..Len(sh)
    BY <1>1 DEF Rooted
  <2>2. LastOf(s, k - 1).cnt = CntAt(s, k - 1) /\ CntAt(s, k - 1) \in Nat
    BY <2>1, CntAtIs
  <2>3. sh[k] > 0 => CntAt(s, k - 1) <= sh[k]
    BY <1>1 DEF InExtent
  <2>4. sh[k] \in Nat
    BY <2>1
  <2> QED
    BY <2>2, <2>3, <2>4
<1>14. InExtent(w, sh)
  <2> SUFFICES ASSUME NEW j \in 2..r, sh[j] > 0
               PROVE  CntAt(w, j - 1) <= sh[j]
    BY <1>1 DEF InExtent
  <2>1. sh[j] \in Nat /\ CntAt(s, j - 1) \in Nat /\ CntAt(s, j - 1) <= sh[j]
    BY <1>13
  <2>2. CASE j < top
    <3>1. j - 1 \in 0..(top - 2)
      BY <1>3, <2>2
    <3> QED
      BY <1>8, <2>1, <3>1 DEF RunCounts
  <2>3. CASE j = top
    <3>0. top > 1
      BY <2>3
    <3>1. ~(s.shape[top] # 0 /\ LastOf(s, top - 1).cnt = s.shape[top])
      BY <1>3, <3>0, Zenon DEF MustRoll
    <3>2. s.shape = sh
      BY ArrayIs
    <3>3. CntAt(s, j - 1) # sh[j]
      BY <1>13, <2>3, <3>1, <3>2
    <3>4. CntAt(w, j - 1) = CntAt(s, j - 1) + 1
      BY <1>8, <2>3 DEF RunCounts
    <3> QED
      BY <2>1, <3>3, <3>4
  <2>4. CASE j > top /\ j < r
    <3>1. j - 1 \in top..(r - 2)
      BY <1>1, <1>3, <2>4
    <3>2. CntAt(w, j - 1) = 1
      BY <1>8, <3>1 DEF RunCounts
    <3> QED
      BY <2>1, <3>2
  <2>5. CASE j = r
    BY <1>8, <2>1, <2>5 DEF RunCounts
  <2> QED
    BY <1>3, <2>2, <2>3, <2>4, <2>5
<1>15. PICK a : a = LastAddr(s)
  OBVIOUS
<1>16. PICK b : b = LastAddr(w)
  OBVIOUS
<1>17. \A k \in 1..r : /\ a[k] = CntAt(s, k - 1) - 1 /\ CntAt(s, k - 1) \in Nat
                      /\ b[k] = CntAt(w, k - 1) - 1 /\ CntAt(w, k - 1) \in Nat
  BY <1>1, <1>6, <1>10, <1>15, <1>16, LastAddrIs
<1>18. NextOf(s) = RolledFrom(sh, a, top + 1)
  BY <1>1, <1>2, <1>15, NextClosed
<1>19. NextOf(w) = RolledFrom(sh, b, r + 1)
  <2>1. Open(w, Len(sh))
    <3>1. r \in 1..Len(sh) /\ r - 1 \in 0..(Len(sh) - 1) /\ Level(w, r - 1) # <<>>
      BY <1>1, <1>10 DEF Rooted
    <3>2. LastOf(w, r - 1).cnt = 0
      BY <1>6, <1>8, <3>1, CntAtIs DEF RunCounts
    <3>3. w.roll[r] = FALSE /\ sh[r] \in Nat /\ w.shape = sh
      BY <1>6, <1>11, <3>1, ArrayIs
    <3> QED
      BY <1>1, <3>2, <3>3 DEF Open
  <2> QED
    BY <1>1, <1>6, <1>10, <1>12, <1>16, <2>1, NextOpen
<1>20. RolledFrom(sh, b, r + 1) = RolledFrom(sh, a, top + 1)
  <2>0. PICK x \in Nat, y \in Nat : x = r + 1 /\ y = top + 1 /\ x - 1 = r /\ y - 1 = top
    BY <1>1, <1>3
  <2>1. ASSUME NEW k \in 1..r
        PROVE  (IF k < r THEN b[k] ELSE IF k = r THEN b[k] + 1 ELSE 0)
             = (IF k < top THEN a[k] ELSE IF k = top THEN a[k] + 1 ELSE 0)
    <3>1. CASE k < top
      <4>1. k - 1 \in 0..(top - 2)
        BY <1>3, <3>1
      <4>2. b[k] = a[k]
        BY <1>8, <1>17, <4>1 DEF RunCounts
      <4> QED
        BY <1>1, <1>3, <3>1, <4>2
    <3>2. CASE k = top
      <4>1. b[k] = a[k] + 1
        BY <1>8, <1>17, <3>2, SMTT(40) DEF RunCounts
      <4> QED
        BY <1>1, <1>3, <3>2, <4>1
    <3>3. CASE k > top /\ k < r
      <4>1. k - 1 \in top..(r - 2)
        BY <1>1, <1>3, <3>3
      <4>2. b[k] = 0
        BY <1>8, <1>17, <4>1, SMTT(40) DEF RunCounts
      <4> QED
        BY <1>1, <1>3, <3>3, <4>2
    <3>4. CASE k = r
      <4>1. b[k] = -1
        BY <1>8, <1>17, <3>4 DEF RunCounts
      <4> QED
        BY <1>1, <1>3, <3>4, <4>1
    <3> QED
      BY <1>1, <1>3, <3>1, <3>2, <3>3, <3>4
  <2>2. RolledFrom(sh, b, x) = RolledFrom(sh, a, y)
    BY <1>1, <2>0, <2>1 DEF RolledFrom
  <2> QED
    BY <2>0, <2>2
<1>21. SameNext(s, w)
  BY <1>18, <1>19, <1>20 DEF SameNext
<1> QED
  BY <1>6, <1>9, <1>10, <1>14, <1>21

-----------------------------------------------------------------------------
(* Turn by turn: the values counted so far are at successive addresses.      *)

\* The array with the elements that have been counted.
SoFar(t, v) == [t.s EXCEPT !.elem = [i \in 1..(v + t.marked) |-> t.s.elem[i]]]
SameLevels(s, w, r) == \A k \in 0..(r - 1) : Level(w, k) = Level(s, k)

\* It is sound between turns.
LEMMA SoFarSound ==
  ASSUME NEW sh \in Seq(Nat), sh # <<>>, NEW es, NEW v \in Nat, NEW n \in Nat, NEW i \in Nat,
         NEW t, Turned(t, sh, es, v, n, i), v + n <= Len(es)
  PROVE  /\ Sound(SoFar(t, v), sh) /\ SameLevels(t.s, SoFar(t, v), Len(sh))
         /\ Len(SoFar(t, v).elem) = v + t.marked /\ Rooted(SoFar(t, v), Len(sh))
<1>1. /\ t.s \in Arrays(sh) /\ t.marked \in Nat /\ t.marked <= n /\ t.s.elem = es
      /\ Chain(t.s, Len(sh), v + t.marked) /\ Rooted(t.s, Len(sh)) /\ RollsUp(t.s)
  BY DEF Turned
<1>2. PICK m \in Nat : m = v + t.marked /\ m <= Len(es)
  <2>1. es \in Seq(Vals \cup {FillVal})
    BY <1>1, ArrayIs
  <2>2. Len(es) \in Nat
    BY <2>1
  <2> QED
    BY <1>1, <2>2
<1>3. PICK el : el = [j \in 1..m |-> es[j]]
  OBVIOUS
<1>4. el \in Seq(Vals \cup {FillVal}) /\ Len(el) = m
  <2>1. es \in Seq(Vals \cup {FillVal})
    BY <1>1, ArrayIs
  <2>2. \A j \in 1..m : es[j] \in Vals \cup {FillVal}
    BY <1>2, <2>1
  <2>3. el \in [1..m -> Vals \cup {FillVal}]
    BY <1>3, <2>2
  <2> QED
    BY <2>3
<1>5. PICK w : w = SoFar(t, v)
  OBVIOUS
<1>6. w = [t.s EXCEPT !.elem = el]
  BY <1>1, <1>2, <1>3, <1>5 DEF SoFar
<1>7. /\ w \in Arrays(sh) /\ w.elem = el /\ w.ibuf = t.s.ibuf /\ w.idx0 = t.s.idx0
      /\ w.roll = t.s.roll
  BY <1>1, <1>4, <1>6 DEF Arrays
<1>8. \A k : Level(w, k) = Level(t.s, k)
  BY <1>7 DEF Level
<1>9. Chain(w, Len(sh), m) /\ Rooted(w, Len(sh))
  BY <1>1, <1>2, <1>8 DEF Chain, Rooted
<1>10. RollsUp(w)
  <2>1. Rank(w) = Rank(t.s)
    BY <1>1, <1>7, ArrayIs
  <2> QED
    BY <1>1, <1>7, <2>1 DEF RollsUp
<1>11. Sound(w, sh)
  BY <1>4, <1>7, <1>9, <1>10 DEF Sound
<1>12. SameLevels(t.s, w, Len(sh))
  BY <1>8 DEF SameLevels
<1> QED
  BY <1>2, <1>4, <1>5, <1>7, <1>9, <1>11, <1>12

\* What is at an address stays there from turn to turn.
LEMMA SoFarStays ==
  ASSUME NEW sh \in Seq(Nat), sh # <<>>, NEW es, NEW v \in Nat, NEW n \in Nat, v + n <= Len(es),
         NEW i \in Nat, NEW t, Turned(t, sh, es, v, n, i),
         NEW j \in Nat, NEW u, Turned(u, sh, es, v, n, j), Grows(t.s, u.s, Len(sh)),
         NEW a \in Seq(Nat), Len(a) = Len(sh), OffsetAt(SoFar(t, v), a) # -1
  PROVE  OffsetAt(SoFar(u, v), a) = OffsetAt(SoFar(t, v), a)
<1>1. PICK x : x = SoFar(t, v)
  OBVIOUS
<1>2. PICK y : y = SoFar(u, v)
  OBVIOUS
<1>3. Sound(x, sh) /\ SameLevels(t.s, x, Len(sh))
  BY <1>1, SoFarSound
<1>4. Sound(y, sh) /\ SameLevels(u.s, y, Len(sh))
  BY <1>2, SoFarSound
<1>5. Grows(x, y, Len(sh))
  BY <1>3, <1>4 DEF SameLevels, Grows
<1>6. OffsetAt(x, a) # -1
  BY <1>1
<1>7. OffsetAt(y, a) = OffsetAt(x, a)
  BY <1>3, <1>4, <1>5, <1>6, OffsetStays
<1> QED
  BY <1>1, <1>2, <1>7

\* The addresses f[1], f[2] ... the values of a block go to.
Successive(f, s, sh, n) ==
  /\ f[1] = NextOf(s)
  /\ \A i \in 2..n : f[i] = Odometer(sh, f[i - 1], Len(sh) + 1)

\* Where they are after a turn: old values where they were, new ones from v on.
KeepsOld(s, t, sh, v) ==
  \A a \in Seq(Nat) : Len(a) = Len(sh) /\ OffsetAt(s, a) # -1 =>
    OffsetAt(SoFar(t, v), a) = OffsetAt(s, a)
HasNew(t, sh, v, f, k) ==
  \A i \in 1..k : /\ f[i] \in Seq(Nat) /\ Len(f[i]) = Len(sh)
                  /\ OffsetAt(SoFar(t, v), f[i]) = v + i - 1
Placed(t, s, sh, v, n, f) ==
  /\ InExtent(t.s, sh) /\ KeepsOld(s, t, sh, v) /\ HasNew(t, sh, v, f, t.marked)
  /\ t.marked < n => f[t.marked + 1] = NextOf(t.s)
  /\ t.marked = n => f[n] = LastAddr(t.s) /\ t.s.roll[Len(sh)] = FALSE

\* Between turns entries only grow.
LEMMA PlacedStays ==
  ASSUME NEW sh \in Seq(Nat), sh # <<>>, NEW es, NEW v \in Nat, NEW n \in Nat, v + n <= Len(es),
         NEW i \in Nat, NEW t, Turned(t, sh, es, v, n, i),
         NEW j \in Nat, NEW u, Turned(u, sh, es, v, n, j), Grows(t.s, u.s, Len(sh)),
         NEW s, NEW f, Placed(t, s, sh, v, n, f)
  PROVE  KeepsOld(s, u, sh, v) /\ HasNew(u, sh, v, f, t.marked)
<1>1. \A a \in Seq(Nat) : Len(a) = Len(sh) /\ OffsetAt(SoFar(t, v), a) # -1 =>
        OffsetAt(SoFar(u, v), a) = OffsetAt(SoFar(t, v), a)
  BY SoFarStays
<1>2. KeepsOld(s, t, sh, v) /\ HasNew(t, sh, v, f, t.marked)
  BY DEF Placed
<1>3. KeepsOld(s, u, sh, v)
  BY <1>1, <1>2 DEF KeepsOld
<1>4. ASSUME NEW k \in 1..t.marked
      PROVE  OffsetAt(SoFar(u, v), f[k]) = v + k - 1
  <2>1. /\ f[k] \in Seq(Nat) /\ Len(f[k]) = Len(sh)
        /\ OffsetAt(SoFar(t, v), f[k]) = v + k - 1
    BY <1>2 DEF HasNew
  <2>2. v + k - 1 # -1
    OBVIOUS
  <2>3. OffsetAt(SoFar(t, v), f[k]) # -1
    BY <2>1, <2>2
  <2> QED
    BY <1>1, <2>1, <2>3
<1>5. HasNew(u, sh, v, f, t.marked)
  BY <1>2, <1>4 DEF HasNew
<1> QED
  BY <1>3, <1>5

\* The address a with another last component.
LastAt(a, r, x) == [k \in 1..r |-> IF k < r THEN a[k] ELSE x]

\* Counting on in the last run.
LEMMA CountedCounts ==
  ASSUME NEW sh \in Seq(Nat), sh # <<>>, NEW s \in Arrays(sh), Rooted(s, Len(sh)),
         NEW k \in 0..(Len(sh) - 1), NEW c \in Nat, NEW w, Counted(s, w, sh, k, c)
  PROVE  /\ CntAt(w, k) = CntAt(s, k) + c
         /\ \A j \in 0..(Len(sh) - 1) : j # k => CntAt(w, j) = CntAt(s, j)
         /\ Grows(s, w, Len(sh))
<1>1. PICK r \in Nat : r = Len(sh) /\ r > 0
  OBVIOUS
<1>2. w \in Arrays(sh)
  BY DEF Counted
<1>3. \A j \in 0..(r - 1) : /\ Level(s, j) \in Seq(Entries) /\ Level(w, j) \in Seq(Entries)
                            /\ Level(s, j) # <<>>
  BY <1>1, <1>2, ArrayIs DEF Rooted
<1>4. Grew(Level(s, k), Level(w, k), c)
  BY DEF Counted
<1>5. CntAt(w, k) = CntAt(s, k) + c
  <2>1. Level(s, k) # <<>> /\ Level(s, k) \in Seq(Entries) /\ Level(w, k) \in Seq(Entries)
    BY <1>1, <1>3
  <2> QED
    BY <1>4, <2>1, GrewCnt
<1>6. \A j \in 0..(Len(sh) - 1) : j # k => Level(w, j) = Level(s, j)
  BY DEF Counted
<1>7. \A j \in 0..(Len(sh) - 1) : j # k => CntAt(w, j) = CntAt(s, j)
  BY <1>6 DEF CntAt
<1>8. ASSUME NEW j \in 0..(r - 1)
      PROVE  /\ Len(Level(s, j)) <= Len(Level(w, j))
             /\ \A p \in 1..Len(Level(s, j)) : /\ Level(w, j)[p].off = Level(s, j)[p].off
                                               /\ Level(s, j)[p].cnt <= Level(w, j)[p].cnt
  <2>1. PICK es \in Seq(Entries), new \in Seq(Entries) : es = Level(s, j) /\ new = Level(w, j)
    BY <1>3
  <2>2. \A p \in 1..Len(es) : es[p] \in Entries /\ es[p].cnt \in Nat
    <3>1. \A p \in 1..Len(es) : es[p] \in Entries
      OBVIOUS
    <3> QED
      BY <3>1 DEF Entries
  <2>3. es # <<>>
    BY <1>3, <2>1
  <2>4. CASE j # k
    <3>1. new = es
      BY <1>1, <1>6, <2>1, <2>4
    <3> QED
      BY <2>1, <2>2, <3>1
  <2>5. CASE j = k
    <3>1. Grew(es, new, c)
      BY <1>4, <2>1, <2>5
    <3>2. ASSUME NEW p \in 1..Len(es)
          PROVE  new[p].off = es[p].off /\ es[p].cnt <= new[p].cnt
      <4>1. CASE p = Len(es)
        BY <2>2, <3>1, <4>1 DEF Grew
      <4>2. CASE p # Len(es)
        <5>1. p \in 1..(Len(es) - 1)
          BY <4>2
        <5> QED
          BY <2>2, <3>1, <5>1 DEF Grew
      <4> QED
        BY <4>1, <4>2
    <3> QED
      BY <2>1, <3>1, <3>2 DEF Grew
  <2> QED
    BY <2>4, <2>5
<1>9. Grows(s, w, Len(sh))
  BY <1>1, <1>8, Zenon DEF Grows
<1> QED
  BY <1>5, <1>7, <1>9

\* One value more in the same run.
LEMMA OdometerStep ==
  ASSUME NEW sh \in Seq(Nat), NEW r \in Nat, r = Len(sh), r > 0, NEW a, NEW x \in Int,
         r > 1 /\ sh[r] > 0 => x + 1 < sh[r]
  PROVE  Odometer(sh, LastAt(a, r, x), r + 1) = LastAt(a, r, x + 1)
<1>1. PICK b : b = LastAt(a, r, x)
  OBVIOUS
<1>2. b[r] = x /\ \A k \in 1..r : k < r => b[k] = a[k]
  BY <1>1 DEF LastAt
<1>3. r > 1 => ~RollsAt(sh, b, r + 1, r)
  <2>1. r \in r..Len(sh) /\ sh[r] \in Nat /\ ~(r >= r + 1)
    OBVIOUS
  <2>2. r > 1 => ~(sh[r] > 0 /\ b[r] + 1 >= sh[r])
    BY <1>2, <2>1
  <2> QED
    BY <2>1, <2>2, Zenon DEF RollsAt
<1>4. Odometer(sh, b, r + 1) = RolledFrom(sh, b, r + 1)
  <2>1. PICK y \in 2..(Len(sh) + 1) : y = r + 1 /\ y - 1 = r
    OBVIOUS
  <2>2. (y <= Len(sh) => RollsAt(sh, b, y, y)) /\ (y > 2 => ~RollsAt(sh, b, y, y - 1))
    BY <1>3, <2>1
  <2>3. Odometer(sh, b, y) = RolledFrom(sh, b, y)
    BY <2>2, OdometerAt
  <2> QED
    BY <2>1, <2>3
<1>5. RolledFrom(sh, b, r + 1) = LastAt(a, r, x + 1)
  <2>1. PICK y \in Nat : y = r + 1 /\ y - 1 = r
    OBVIOUS
  <2>2. \A k \in 1..r : (IF k < y - 1 THEN b[k] ELSE IF k = y - 1 THEN b[k] + 1 ELSE 0)
                      = (IF k < r THEN a[k] ELSE x + 1)
    BY <1>2, <2>1
  <2>3. RolledFrom(sh, b, y) = LastAt(a, r, x + 1)
    BY <2>2 DEF RolledFrom, LastAt
  <2> QED
    BY <2>1, <2>3
<1> QED
  BY <1>1, <1>4, <1>5

\* The address of the last value and of the next one, by the count of the last run.
LEMMA LastAddrAt ==
  ASSUME NEW sh \in Seq(Nat), sh # <<>>, NEW s \in Arrays(sh), NEW m, Chain(s, Len(sh), m),
         Rooted(s, Len(sh)), NEW a, \A k \in 1..(Len(sh) - 1) : a[k] = LastAddr(s)[k]
  PROVE  LastAddr(s) = LastAt(a, Len(sh), CntAt(s, Len(sh) - 1) - 1)
<1>1. PICK r \in Nat : r = Len(sh) /\ r > 0 /\ Rank(s) = r
  BY ArrayIs
<1>2. \A k \in 1..r : LastAddr(s)[k] = CntAt(s, k - 1) - 1
  BY <1>1, LastAddrIs
<1>3. LastAddr(s) = [k \in 1..r |-> LastAddr(s)[k]]
  BY <1>1 DEF LastAddr
<1>4. PICK x : x = CntAt(s, r - 1) - 1
  OBVIOUS
<1>5. \A k \in 1..r : LastAddr(s)[k] = IF k < r THEN a[k] ELSE x
  <2>1. ASSUME NEW k \in 1..r
        PROVE  LastAddr(s)[k] = IF k < r THEN a[k] ELSE x
    <3>1. CASE k < r
      <4>1. k \in 1..(Len(sh) - 1)
        BY <1>1, <3>1
      <4> QED
        BY <3>1, <4>1
    <3>2. CASE k = r
      BY <1>2, <1>4, <3>2
    <3> QED
      BY <1>1, <3>1, <3>2
  <2> QED
    BY <2>1
<1>6. LastAddr(s) = LastAt(a, r, x)
  BY <1>3, <1>5 DEF LastAt
<1> QED
  BY <1>1, <1>4, <1>6

\* With room in the last run the next address is the last one, one further.
LEMMA NextAt ==
  ASSUME NEW sh \in Seq(Nat), sh # <<>>, NEW s \in Arrays(sh), NEW m, Chain(s, Len(sh), m),
         Rooted(s, Len(sh)), RollsUp(s), Open(s, Len(sh)),
         NEW a, a = LastAddr(s)
  PROVE  NextOf(s) = LastAt(a, Len(sh), CntAt(s, Len(sh) - 1))
<1>1. PICK r \in Nat : r = Len(sh) /\ r > 0 /\ r \in 1..Len(sh)
  <2>1. PICK r \in Nat : r = Len(sh) /\ r > 0
    OBVIOUS
  <2> QED
    BY <2>1
<1>2. a[r] = CntAt(s, r - 1) - 1 /\ CntAt(s, r - 1) \in Nat
  BY <1>1, LastAddrIs
<1>3. PICK y \in Nat : y = r + 1 /\ y - 1 = r
  BY <1>1
<1>4. PICK x \in Nat : x = CntAt(s, r - 1) /\ a[r] + 1 = x
  BY <1>2
<1>5. NextOf(s) = RolledFrom(sh, a, y)
  BY <1>1, <1>3, NextOpen
<1>6. \A k \in 1..r : (IF k < y - 1 THEN a[k] ELSE IF k = y - 1 THEN a[k] + 1 ELSE 0)
                    = (IF k < r THEN a[k] ELSE x)
  BY <1>3, <1>4
<1>7. RolledFrom(sh, a, y) = LastAt(a, r, x)
  BY <1>1, <1>6 DEF RolledFrom, LastAt
<1> QED
  BY <1>1, <1>4, <1>5, <1>7

\* Where a turn that counts c values puts them.
RunsOn(f, m, c, a, r, x) == \A j \in 1..c : f[m + j] = LastAt(a, r, x + j - 1)

\* The odometer gives these addresses, as long as the run has room for them.
LEMMA CountedAddrs ==
  ASSUME NEW sh \in Seq(Nat), sh # <<>>, NEW r \in Nat, r = Len(sh), r > 0,
         NEW n \in Nat, NEW s, NEW f, Successive(f, s, sh, n),
         NEW m \in Nat, NEW c \in Nat, c > 0, m + c <= n, NEW a, NEW x \in Nat,
         f[m + 1] = LastAt(a, r, x), r > 1 /\ sh[r] > 0 => x + c <= sh[r]
  PROVE  RunsOn(f, m, c, a, r, x)
<1>1. PICK Good : Good = {j \in 0..(c - 1) : f[m + j + 1] = LastAt(a, r, x + j)}
  OBVIOUS
<1>2. 0 \in Good
  <2>1. 0 \in 0..(c - 1) /\ m + 0 + 1 = m + 1 /\ x + 0 = x
    OBVIOUS
  <2> QED
    BY <1>1, <2>1
<1>3. ASSUME NEW j \in 1..(c - 1), j - 1 \in Good
      PROVE  j \in Good
  <2>1. PICK i \in 2..n : i = m + j + 1 /\ i - 1 = m + (j - 1) + 1
    OBVIOUS
  <2>2. PICK y \in Nat : y = x + (j - 1) /\ y + 1 = x + j /\ y + 1 < x + c
    OBVIOUS
  <2>3. f[i - 1] = LastAt(a, r, y)
    BY <1>1, <1>3, <2>1, <2>2
  <2>4. f[i] = Odometer(sh, f[i - 1], r + 1)
    BY <2>1 DEF Successive
  <2>5. r > 1 /\ sh[r] > 0 => y + 1 < sh[r]
    <3>1. sh[r] \in Nat
      OBVIOUS
    <3> QED
      BY <2>2, <3>1
  <2>6. Odometer(sh, LastAt(a, r, y), r + 1) = LastAt(a, r, y + 1)
    BY <2>5, OdometerStep
  <2>7. f[m + j + 1] = LastAt(a, r, x + j)
    BY <2>1, <2>2, <2>3, <2>4, <2>6
  <2> QED
    BY <1>1, <2>7
<1>4. ASSUME NEW j \in 1..c
      PROVE  f[m + j] = LastAt(a, r, x + j - 1)
  <2>1. 0..(c - 1) \subseteq Good
    <3>1. c - 1 \in Nat
      OBVIOUS
    <3> QED
      BY <1>2, <1>3, <3>1, IntervalInduction
  <2>2. PICK i \in 0..(c - 1) : i = j - 1 /\ m + i + 1 = m + j /\ x + i = x + j - 1
    OBVIOUS
  <2>3. f[m + i + 1] = LastAt(a, r, x + i)
    BY <1>1, <2>1
  <2> QED
    BY <2>2, <2>3
<1> QED
  BY <1>4 DEF RunsOn

\* The last of them is the last value of the array then.
ToLast(a, w, r) == \A k \in 1..(r - 1) : a[k] = CntAt(w, k - 1) - 1
InLast(w, b, r, x) ==
  /\ b \in Seq(Nat) /\ Len(b) = r
  /\ OffsetAt(w, b) = Len(w.elem) - CntAt(w, r - 1) + x

\* An address in the last run leads to its place among the last elements.
LEMMA CountedOffset ==
  ASSUME NEW sh \in Seq(Nat), sh # <<>>, NEW w, Sound(w, sh), Rooted(w, Len(sh)),
         NEW a, ToLast(a, w, Len(sh)),
         NEW x \in Nat, x < CntAt(w, Len(sh) - 1), NEW b, b = LastAt(a, Len(sh), x)
  PROVE  InLast(w, b, Len(sh), x)
<1>1. PICK r \in Nat : r = Len(sh) /\ r > 0 /\ r \in 1..r
  <2>1. PICK r \in Nat : r = Len(sh) /\ r > 0
    OBVIOUS
  <2>2. r \in 1..r
    BY <2>1
  <2> QED
    BY <2>1, <2>2
<1>2. w \in Arrays(sh) /\ Chain(w, Len(sh), Len(w.elem))
  BY DEF Sound
<1>3. /\ b = [k \in 1..r |-> IF k < r THEN a[k] ELSE x] /\ b[r] = x
      /\ \A k \in 1..(r - 1) : b[k] = a[k]
  BY <1>1 DEF LastAt
<1>4. ASSUME NEW k \in 1..r
      PROVE  b[k] \in Nat
  <2>1. CASE k = r
    BY <1>3, <2>1
  <2>2. CASE k # r
    <3>1. k \in 1..(r - 1) /\ k - 1 \in 0..(Len(sh) - 2) /\ k \in 1..(Len(sh) - 1)
      BY <1>1, <2>2
    <3>2. CntAt(w, k - 1) \in Nat /\ CntAt(w, k - 1) > 0
      BY <1>2, <3>1, CntPositive
    <3>3. b[k] = CntAt(w, k - 1) - 1
      BY <1>1, <1>3, <3>1 DEF ToLast
    <3> QED
      BY <3>2, <3>3
  <2> QED
    BY <2>1, <2>2
<1>5. b \in Seq(Nat) /\ Len(b) = Len(sh)
  <2>1. b \in [1..r -> Nat]
    BY <1>3, <1>4
  <2>2. b \in Seq(Nat)
    BY <2>1
  <2>3. Len(b) = r
    BY <1>3
  <2> QED
    BY <1>1, <2>2, <2>3
<1>6. FollowsLast(w, b, Len(sh))
  BY <1>1, <1>3 DEF FollowsLast, ToLast
<1>7. OffsetAt(w, b) = Len(w.elem) - CntAt(w, Len(sh) - 1) + b[Len(sh)]
  BY <1>5, <1>6, LastOffset
<1> QED
  BY <1>1, <1>3, <1>5, <1>7 DEF InLast

\* A turn that counts c values puts them where the odometer says.
LEMMA PlacedCount ==
  ASSUME NEW sh \in Seq(Nat), sh # <<>>, NEW es, NEW v \in Nat, NEW n \in Nat, v + n <= Len(es),
         NEW i \in Nat, NEW t, Turned(t, sh, es, v, n, i), t.marked < n, Open(t.s, Len(sh)),
         NEW s, NEW f, Placed(t, s, sh, v, n, f), Successive(f, s, sh, n),
         NEW c \in Nat, c > 0, t.marked + c <= n,
         NEW u, CountsIn(t, u, Len(sh), c), NEW j \in Nat, Turned(u, sh, es, v, n, j),
         Len(sh) > 1 /\ sh[Len(sh)] > 0 => CntAt(t.s, Len(sh) - 1) + c <= sh[Len(sh)]
  PROVE  Placed(u, s, sh, v, n, f)
<1>1. PICK r \in Nat : r = Len(sh) /\ r > 0 /\ r \in 1..Len(sh) /\ r - 1 \in 0..(Len(sh) - 1)
  <2>1. PICK r \in Nat : r = Len(sh) /\ r > 0
    OBVIOUS
  <2>2. r \in 1..Len(sh) /\ r - 1 \in 0..(Len(sh) - 1)
    BY <2>1
  <2> QED
    BY <2>1, <2>2
<1>2. PICK q : q = t.s
  OBVIOUS
<1>3. PICK m \in Nat : m = t.marked /\ m < n
  BY DEF Turned
<1>4. /\ q \in Arrays(sh) /\ t.pos = Place(q, r - 1) /\ q.elem = es
      /\ Chain(q, Len(sh), v + m) /\ Rooted(q, Len(sh)) /\ RollsUp(q) /\ Open(q, Len(sh))
  BY <1>1, <1>2, <1>3 DEF Turned
<1>5. PICK w : w = WithCnt(q, r - 1, Place(q, r - 1), LastOf(q, r - 1).cnt + c)
  OBVIOUS
<1>6. u.s = w /\ u.marked = m + c
  <2>1. t \in [s : Arrays(sh), pos : Nat, marked : Nat]
    BY DEF Turned
  <2>2. u = [t EXCEPT !.s = w, !.marked = m + c]
    BY <1>1, <1>2, <1>3, <1>4, <1>5 DEF CountsIn
  <2> QED
    BY <2>1, <2>2
<1>7. Counted(q, w, sh, r - 1, c)
  <2>1. Level(q, r - 1) # <<>>
    BY <1>1, <1>4 DEF Rooted
  <2> QED
    BY <1>1, <1>4, <1>5, <2>1, WithCntLast
<1>8. /\ w \in Arrays(sh) /\ w.roll = q.roll
      /\ Chain(w, Len(sh), v + (m + c)) /\ Rooted(w, Len(sh)) /\ RollsUp(w)
  <2>1. w \in Arrays(sh) /\ w.roll = q.roll
    BY <1>7 DEF Counted
  <2> QED
    BY <1>6, <2>1 DEF Turned
<1>9. PICK x \in Nat : x = CntAt(q, r - 1)
  BY <1>1, <1>4, CntAtIs
<1>10. /\ CntAt(w, r - 1) = x + c
       /\ \A k \in 0..(r - 1) : k # r - 1 => CntAt(w, k) = CntAt(q, k)
       /\ Grows(q, w, Len(sh))
  BY <1>1, <1>4, <1>7, <1>9, CountedCounts
<1>11. r > 1 /\ sh[r] > 0 => x + c <= sh[r]
  BY <1>1, <1>2, <1>9
<1>12. InExtent(w, sh)
  <2>1. InExtent(q, sh)
    BY <1>2 DEF Placed
  <2> SUFFICES ASSUME NEW k \in 2..r, sh[k] > 0
               PROVE  CntAt(w, k - 1) <= sh[k]
    BY <1>1 DEF InExtent
  <2>2. CASE k = r
    BY <1>10, <1>11, <2>2
  <2>3. CASE k # r
    <3>1. k - 1 \in 0..(r - 1) /\ k - 1 # r - 1
      BY <2>3
    <3>2. CntAt(w, k - 1) = CntAt(q, k - 1)
      BY <1>10, <3>1
    <3> QED
      BY <1>1, <2>1, <3>2 DEF InExtent
  <2> QED
    BY <2>2, <2>3
<1>13. KeepsOld(s, u, sh, v) /\ HasNew(u, sh, v, f, m)
  <2>1. Grows(t.s, u.s, Len(sh))
    BY <1>2, <1>6, <1>10
  <2> QED
    BY <1>3, <2>1, PlacedStays
<1>14. PICK a : a = LastAddr(q)
  OBVIOUS
<1>15. \A k \in 1..(r - 1) : a[k] = CntAt(q, k - 1) - 1 /\ CntAt(w, k - 1) = CntAt(q, k - 1)
  <2>1. \A k \in 1..(r - 1) : k \in 1..Len(sh) /\ k - 1 \in 0..(r - 1) /\ k - 1 # r - 1
    BY <1>1
  <2>2. \A k \in 1..Len(sh) : a[k] = CntAt(q, k - 1) - 1
    BY <1>4, <1>14, LastAddrIs
  <2> QED
    BY <1>10, <2>1, <2>2
<1>16. f[m + 1] = LastAt(a, r, x)
  <2>1. f[m + 1] = NextOf(q)
    BY <1>2, <1>3 DEF Placed
  <2>2. NextOf(q) = LastAt(a, r, x)
    BY <1>1, <1>4, <1>9, <1>14, NextAt
  <2> QED
    BY <2>1, <2>2
<1>17. \A k \in 1..c : f[m + k] = LastAt(a, r, x + k - 1)
  <2>1. m + c <= n
    BY <1>3
  <2>2. RunsOn(f, m, c, a, r, x)
    BY <1>1, <1>11, <1>16, <2>1, CountedAddrs
  <2> QED
    BY <2>2 DEF RunsOn
<1>18. HasNew(u, sh, v, f, m + c)
  <2>1. PICK z : z = SoFar(u, v)
    OBVIOUS
  <2>2. /\ Sound(z, sh) /\ Rooted(z, Len(sh)) /\ SameLevels(w, z, Len(sh))
        /\ Len(z.elem) = v + (m + c)
    <3>1. Sound(z, sh) /\ Rooted(z, Len(sh))
      BY <2>1, SoFarSound
    <3>2. SameLevels(u.s, z, Len(sh))
      BY <2>1, SoFarSound
    <3>3. Len(z.elem) = v + u.marked
      BY <2>1, SoFarSound, SMTT(40)
    <3> QED
      BY <1>6, <3>1, <3>2, <3>3
  <2>3. \A k \in 0..(r - 1) : CntAt(z, k) = CntAt(w, k)
    BY <1>1, <2>2 DEF SameLevels, CntAt
  <2>4. \A k \in 1..(Len(sh) - 1) : a[k] = CntAt(z, k - 1) - 1
    <3>1. \A k \in 1..(r - 1) : k - 1 \in 0..(r - 1)
      OBVIOUS
    <3> QED
      BY <1>1, <1>15, <2>3, <3>1
  <2>5. CntAt(z, r - 1) = x + c
    BY <1>1, <1>10, <2>3
  <2>6. ASSUME NEW k \in 1..(m + c)
        PROVE  f[k] \in Seq(Nat) /\ Len(f[k]) = Len(sh) /\ OffsetAt(z, f[k]) = v + k - 1
    <3>1. CASE k <= m
      <4>1. k \in 1..m
        BY <3>1
      <4> QED
        BY <1>13, <2>1, <4>1 DEF HasNew
    <3>2. CASE k > m
      <4>1. PICK h \in 1..c : k = m + h
        <5>1. k - m \in 1..c /\ k = m + (k - m)
          BY <3>2
        <5> QED
          BY <5>1
      <4>2. PICK y \in Nat : y = x + h - 1 /\ y < x + c
        OBVIOUS
      <4>3. f[k] = LastAt(a, r, y)
        BY <1>17, <4>1, <4>2
      <4>4. PICK b : b = f[k]
        OBVIOUS
      <4>5. y < CntAt(z, Len(sh) - 1) /\ b = LastAt(a, Len(sh), y)
        BY <1>1, <2>5, <4>2, <4>3, <4>4
      <4>6. /\ b \in Seq(Nat) /\ Len(b) = Len(sh)
            /\ OffsetAt(z, b) = Len(z.elem) - CntAt(z, Len(sh) - 1) + y
        <5>1. ToLast(a, z, Len(sh))
          BY <2>4 DEF ToLast
        <5>2. InLast(z, b, Len(sh), y)
          BY <2>2, <4>5, <5>1, CountedOffset
        <5> QED
          BY <5>2 DEF InLast
      <4>7. OffsetAt(z, b) = v + (m + c) - (x + c) + y
        BY <1>1, <2>2, <2>5, <4>6
      <4>8. v + (m + c) - (x + c) + y = v + k - 1
        BY <4>1, <4>2
      <4> QED
        BY <4>4, <4>6, <4>7, <4>8
    <3> QED
      BY <3>1, <3>2
  <2> QED
    BY <2>1, <2>6 DEF HasNew
<1>19. LastAddr(w) = LastAt(a, r, x + c - 1) /\ LastAddr(w) = f[m + c]
  <2>1. \A k \in 1..(Len(sh) - 1) : a[k] = LastAddr(w)[k]
    <3>1. \A k \in 1..Len(sh) : LastAddr(w)[k] = CntAt(w, k - 1) - 1
      BY <1>8, LastAddrIs
    <3>2. \A k \in 1..(r - 1) : k \in 1..Len(sh)
      BY <1>1
    <3> QED
      BY <1>1, <1>15, <3>1, <3>2
  <2>2. LastAddr(w) = LastAt(a, Len(sh), CntAt(w, Len(sh) - 1) - 1)
    BY <1>8, <2>1, LastAddrAt
  <2>3. c \in 1..c
    OBVIOUS
  <2> QED
    BY <1>1, <1>10, <1>17, <2>2, <2>3
<1>20. \A k \in 1..Len(sh) : w.roll[k] = FALSE
  <2>1. \A k \in 1..Len(sh) : q.roll[k] = FALSE
    BY <1>4, OpenUnmarked
  <2> QED
    BY <1>8, <2>1
<1>21. m + c < n => f[m + c + 1] = NextOf(w)
  <2> SUFFICES ASSUME m + c < n PROVE f[m + c + 1] = NextOf(w)
    OBVIOUS
  <2>1. PICK k \in 2..n : k = m + c + 1 /\ k - 1 = m + c
    OBVIOUS
  <2>2. f[k] = Odometer(sh, f[m + c], Len(sh) + 1)
    BY <2>1 DEF Successive
  <2>3. ClosedOf(w) = Len(sh) + 1
    BY <1>8, <1>20, ClosedNone
  <2>4. w.shape = sh
    BY <1>8, ArrayIs
  <2> QED
    BY <1>19, <2>1, <2>2, <2>3, <2>4 DEF NextOf
<1>22. w.roll[Len(sh)] = FALSE
  BY <1>1, <1>20
<1> QED
  BY <1>6, <1>12, <1>13, <1>18, <1>19, <1>21, <1>22, Zenon DEF Placed

\* A turn that begins a run puts none, and leaves the next address as it is.
LEMMA PlacedRun ==
  ASSUME NEW sh \in Seq(Nat), sh # <<>>, NEW es, NEW v \in Nat, NEW n \in Nat, v + n <= Len(es),
         NEW i \in Nat, NEW t, Turned(t, sh, es, v, n, i), t.marked < n, ~Open(t.s, Len(sh)),
         NEW s, NEW f, Placed(t, s, sh, v, n, f),
         NEW s1, BeginsRun(t.s, s1, Len(sh) - 1), NEW u, Unmarks(s1, u.s, Len(sh)),
         u.marked = t.marked, NEW j \in Nat, Turned(u, sh, es, v, n, j)
  PROVE  Placed(u, s, sh, v, n, f)
<1>1. PICK q : q = t.s
  OBVIOUS
<1>2. PICK w : w = u.s
  OBVIOUS
<1>3. PICK m \in Nat : m = v + t.marked /\ t.marked \in Nat
  BY DEF Turned
<1>4. /\ q \in Arrays(sh) /\ Chain(q, Len(sh), m) /\ Rooted(q, Len(sh)) /\ RollsUp(q)
      /\ ~Open(q, Len(sh)) /\ InExtent(q, sh)
  BY <1>1, <1>3 DEF Turned, Placed
<1>5. Len(sh) > 1
  <2>1. Len(sh) # 1
    BY <1>4 DEF Open
  <2>2. PICK r \in Nat : r = Len(sh) /\ r > 0
    OBVIOUS
  <2>3. r > 1
    BY <2>1, <2>2
  <2> QED
    BY <2>2, <2>3
<1>6. BeginsRun(q, s1, Len(sh) - 1) /\ Unmarks(s1, w, Len(sh))
  BY <1>1, <1>2
<1>7. InExtent(w, sh) /\ SameNext(q, w) /\ Grows(q, w, Len(sh))
  BY <1>4, <1>5, <1>6, RunNext
<1>8. KeepsOld(s, u, sh, v) /\ HasNew(u, sh, v, f, t.marked)
  <2>1. Grows(t.s, u.s, Len(sh))
    BY <1>1, <1>2, <1>7
  <2> QED
    BY <2>1, PlacedStays
<1>9. f[t.marked + 1] = NextOf(w)
  BY <1>1, <1>7 DEF Placed, SameNext
<1>10. t.marked # n
  BY <1>3
<1> QED
  BY <1>2, <1>7, <1>8, <1>9, <1>10 DEF Placed

\* Any turn: the values it counts go where the odometer says.
LEMMA PlacedTurn ==
  ASSUME NEW sh \in Seq(Nat), sh # <<>>, NEW es, NEW v \in Nat, NEW n \in Nat, v + n <= Len(es),
         NEW i \in Nat, NEW t, Turned(t, sh, es, v, n, i), t.marked < n,
         NEW s, NEW f, Placed(t, s, sh, v, n, f), Successive(f, s, sh, n)
  PROVE  Placed(MarkSome(t, n), s, sh, v, n, f)
<1>1. PICK r \in Nat, x \in Nat, e \in Nat :
        /\ r = Len(sh) /\ r > 0 /\ Rank(t.s) = r
        /\ x = LastOf(t.s, r - 1).cnt /\ x = Parent(t.s, r - 1, t.pos).cnt
        /\ e = sh[r] /\ e = t.s.shape[r]
        /\ t.s.roll[r] \in BOOLEAN /\ t.s.roll[1] = FALSE
        /\ t.marked \in Nat /\ t.s \in Arrays(sh)
  BY TurnPlace
<1>2. PICK u : u = MarkSome(t, n)
  OBVIOUS
<1>3. PICK j \in Nat : j = i + 1 /\ Turned(u, sh, es, v, n, j)
  <2>1. Turn(t, n) = u
    BY <1>1, <1>2 DEF Turn
  <2>2. Turned(u, sh, es, v, n, i + 1)
    BY <2>1, TurnAny
  <2> QED
    BY <2>2
<1>4. CntAt(t.s, r - 1) = x
  <2>1. r - 1 \in 0..(Len(sh) - 1)
    BY <1>1
  <2>2. Level(t.s, r - 1) # <<>>
    BY <1>1, <2>1 DEF Turned, Rooted
  <2> QED
    BY <1>1, <2>1, <2>2, CntAtIs
<1>5. PICK m \in Nat : m = t.marked /\ m < n
  BY <1>1
<1>6. CASE r = 1 \/ (t.s.roll[r] = FALSE /\ e = 0)
  <2>1. m = 0
    BY <1>1, <1>5, <1>6 DEF Turned, Fits
  <2>2. u = [t EXCEPT !.s = WithCnt(t.s, r - 1, t.pos, x + n), !.marked = n]
    BY <1>1, <1>2, <1>6, Zenon DEF MarkSome
  <2>3. CountsIn(t, u, Len(sh), n)
    <3>1. t.marked + n = n
      BY <1>5, <2>1
    <3> QED
      BY <1>1, <2>2, <3>1 DEF CountsIn
  <2>4. Open(t.s, Len(sh))
    BY <1>1, <1>6 DEF Open
  <2>5. ~(Len(sh) > 1 /\ sh[Len(sh)] > 0)
    <3>1. CASE r = 1
      BY <1>1, <3>1
    <3>2. CASE e = 0
      BY <1>1, <3>2
    <3> QED
      BY <1>6, <3>1, <3>2
  <2>6. n > 0 /\ t.marked + n <= n
    BY <1>5, <2>1
  <2> QED
    BY <1>2, <1>3, <2>3, <2>4, <2>5, <2>6, PlacedCount
<1>7. CASE r # 1 /\ t.s.roll[r] = FALSE /\ e # 0 /\ e - x > 0
  <2>1. PICK add \in Nat : /\ add = (IF e - x > n THEN n ELSE e - x)
                           /\ add > 0 /\ x + add <= e
    <3>1. (IF e - x > n THEN n ELSE e - x) \in Nat
      BY <1>7
    <3>2. (IF e - x > n THEN n ELSE e - x) > 0
      BY <1>5, <1>7
    <3>3. x + (IF e - x > n THEN n ELSE e - x) <= e
      BY <1>7
    <3> QED
      BY <3>1, <3>2, <3>3
  <2>2. u = [t EXCEPT !.s = WithCnt(t.s, r - 1, t.pos, x + add), !.marked = @ + add]
    BY <1>1, <1>2, <1>7, <2>1, Zenon DEF MarkSome
  <2>3. CountsIn(t, u, Len(sh), add)
    <3>1. t \in [s : Arrays(sh), pos : Nat, marked : Nat]
      BY DEF Turned
    <3> QED
      BY <1>1, <2>2, <3>1 DEF CountsIn
  <2>4. Open(t.s, Len(sh))
    BY <1>1, <1>7, SMTT(40) DEF Open
  <2>5. Len(sh) > 1 /\ sh[Len(sh)] > 0 => CntAt(t.s, Len(sh) - 1) + add <= sh[Len(sh)]
    BY <1>1, <1>4, <2>1
  <2>6. t.marked + add <= n
    <3>1. t \in [s : Arrays(sh), pos : Nat, marked : Nat]
      BY DEF Turned
    <3>2. u.marked = t.marked + add
      BY <2>2, <3>1
    <3>3. u.marked <= n
      BY <1>3 DEF Turned
    <3> QED
      BY <3>2, <3>3
  <2> QED
    BY <1>2, <1>3, <2>1, <2>3, <2>4, <2>5, <2>6, PlacedCount
<1>8. CASE r # 1 /\ ~(t.s.roll[r] = FALSE /\ e = 0) /\ ~(t.s.roll[r] = FALSE /\ e - x > 0)
  <2>1. PICK s1 : s1 = NewIndexInfo(t.s, r - 1)
    OBVIOUS
  <2>2. u = [t EXCEPT !.s = [s1 EXCEPT !.roll[r] = FALSE], !.pos = Len(s1.ibuf[r - 1])]
    <3>1. ~(~t.s.roll[r] /\ e = 0) /\ ~(~t.s.roll[r] /\ e - x > 0)
      BY <1>1, <1>8, Zenon
    <3> QED
      BY <1>1, <1>2, <1>8, <2>1, <3>1, Zenon DEF MarkSome
  <2>3. t \in [s : Arrays(sh), pos : Nat, marked : Nat]
    BY DEF Turned
  <2>4. u.s = [s1 EXCEPT !.roll[r] = FALSE] /\ u.marked = t.marked
    BY <2>2, <2>3
  <2>5. BeginsRun(t.s, s1, Len(sh) - 1) /\ Unmarks(s1, u.s, Len(sh))
    BY <1>1, <2>1, <2>4 DEF BeginsRun, Unmarks
  <2>6. ~Open(t.s, Len(sh))
    <3>1. e - x > 0 <=> x < e
      OBVIOUS
    <3> QED
      BY <1>1, <1>8, <3>1 DEF Open
  <2> QED
    BY <1>2, <1>3, <2>4, <2>5, <2>6, PlacedRun
<1> QED
  BY <1>1, <1>6, <1>7, <1>8

\* The first loop of DasAry_append moves nothing.
LEMMA FirstNext ==
  ASSUME NEW sh \in Seq(Nat), sh # <<>>, NEW s \in Arrays(sh), NEW w \in Arrays(sh),
         w.roll = s.roll, LastsKept(s, w, Len(sh)), InExtent(s, sh)
  PROVE  InExtent(w, sh) /\ SameNext(s, w)
<1>1. PICK r \in Nat : r = Len(sh) /\ r > 0 /\ Rank(s) = r /\ Rank(w) = r
  BY ArrayIs
<1>2. \A k \in 0..(r - 1) : CntAt(s, k) \in Nat /\ CntAt(w, k) \in Nat
  BY <1>1, CntAtIs
<1>3. ASSUME NEW k \in 1..r
      PROVE  /\ k - 1 \in 0..(r - 1)
             /\ \/ CntAt(w, k - 1) = CntAt(s, k - 1)
                \/ k # r /\ CntAt(s, k - 1) = 0 /\ CntAt(w, k - 1) = 1
  <2>1. PICK j \in 0..(r - 1) : j = k - 1 /\ (j # r - 1 => k # r)
    BY <1>1
  <2>2. CntAt(w, j) = CntAt(s, j) \/ (j # r - 1 /\ CntAt(s, j) = 0 /\ CntAt(w, j) = 1)
    BY <1>1 DEF LastsKept
  <2> QED
    BY <2>1, <2>2
<1>4. InExtent(w, sh)
  <2> SUFFICES ASSUME NEW j \in 2..r, sh[j] > 0
               PROVE  CntAt(w, j - 1) <= sh[j]
    BY <1>1 DEF InExtent
  <2>1. CntAt(s, j - 1) <= sh[j]
    BY <1>1 DEF InExtent
  <2>2. j \in 1..r /\ sh[j] \in Nat
    BY <1>1
  <2>3. CntAt(w, j - 1) = CntAt(s, j - 1) \/ CntAt(w, j - 1) = 1
    BY <1>3, <2>2
  <2> QED
    BY <2>1, <2>2, <2>3
<1>5. LastAddr(w) = LastAddr(s)
  <2>1. ASSUME NEW k \in 1..r
        PROVE  (IF k < r /\ CntAt(w, k - 1) = 0 THEN 0 ELSE CntAt(w, k - 1) - 1)
             = (IF k < r /\ CntAt(s, k - 1) = 0 THEN 0 ELSE CntAt(s, k - 1) - 1)
    <3>1. CASE CntAt(w, k - 1) = CntAt(s, k - 1)
      BY <3>1
    <3>2. CASE k # r /\ CntAt(s, k - 1) = 0 /\ CntAt(w, k - 1) = 1
      <4>1. k < r
        BY <1>1, <3>2
      <4> QED
        BY <3>2, <4>1
    <3> QED
      BY <1>3, <3>1, <3>2
  <2> QED
    BY <1>1, <2>1 DEF LastAddr
<1>6. ClosedOf(w) = ClosedOf(s)
  BY <1>1 DEF ClosedOf
<1>7. w.shape = s.shape
  BY ArrayIs
<1> QED
  BY <1>4, <1>5, <1>6, <1>7 DEF NextOf, SameNext

\* It leaves what is at addresses.
LEMMA FirstKeeps ==
  ASSUME NEW sh \in Seq(Nat), sh # <<>>, NEW s, Sound(s, sh), NEW es,
         NEW n \in Nat, Len(s.elem) + n <= Len(es), NEW s0, s0.ibuf = s.ibuf, s0.idx0 = s.idx0,
         NEW start, Reached(s0, start, sh, Len(s.elem), Len(sh) - 1),
         NEW t, t = FirstTurn(start), Turned(t, sh, es, Len(s.elem), n, 0)
  PROVE  KeepsOld(s, t, sh, Len(s.elem))
<1>1. PICK r \in Nat : r = Len(sh) /\ r > 0 /\ Rank(s) = r /\ r - 1 \in 0..(Len(sh) - 1)
  <2>1. PICK r \in Nat : r = Len(sh) /\ r > 0 /\ Rank(s) = r
    BY ArrayIs DEF Sound
  <2> QED
    BY <2>1
<1>2. s \in Arrays(sh) /\ s.elem \in Seq(Vals \cup {FillVal}) /\ Chain(s, Len(sh), Len(s.elem))
  BY ArrayIs DEF Sound
<1>3. PICK v \in Nat : v = Len(s.elem)
  BY <1>2
<1>4. t.s = start.s /\ t.marked = 0
  BY DEF FirstTurn
<1>5. \A k : Level(s0, k) = Level(s, k)
  BY DEF Level
<1>6. CASE Level(s, r - 1) # <<>>
  <2>1. start.s = s0
    BY <1>1, <1>5, <1>6 DEF Reached
  <2>2. PICK x : x = SoFar(t, v)
    OBVIOUS
  <2>3. Sound(x, sh) /\ SameLevels(t.s, x, Len(sh))
    BY <1>3, <2>2, SoFarSound
  <2>4. \A k \in 0..(r - 1) : Level(x, k) = Level(s, k)
    BY <1>1, <1>4, <1>5, <2>1, <2>3 DEF SameLevels
  <2>5. Grows(s, x, Len(sh))
    <3>1. ASSUME NEW k \in 0..(r - 1)
          PROVE  /\ Len(Level(s, k)) <= Len(Level(x, k))
                 /\ \A p \in 1..Len(Level(s, k)) : /\ Level(x, k)[p].off = Level(s, k)[p].off
                                                   /\ Level(s, k)[p].cnt <= Level(x, k)[p].cnt
      <4>1. PICK es1 \in Seq(Entries) : es1 = Level(s, k) /\ es1 = Level(x, k)
        BY <1>1, <1>2, <2>4, ArrayIs
      <4>2. \A p \in 1..Len(es1) : es1[p].cnt \in Nat
        <5>1. \A p \in 1..Len(es1) : es1[p] \in Entries
          OBVIOUS
        <5> QED
          BY <5>1 DEF Entries
      <4>3. /\ Len(es1) <= Len(es1)
            /\ \A p \in 1..Len(es1) : es1[p].off = es1[p].off /\ es1[p].cnt <= es1[p].cnt
        BY <4>2
      <4> QED
        BY <4>1, <4>3
    <3> QED
      BY <1>1, <3>1, Zenon DEF Grows
  <2>6. ASSUME NEW a \in Seq(Nat), Len(a) = Len(sh), OffsetAt(s, a) # -1
        PROVE  OffsetAt(x, a) = OffsetAt(s, a)
    BY <2>3, <2>5, <2>6, OffsetStays
  <2> QED
    BY <1>3, <2>2, <2>6 DEF KeepsOld
<1>7. CASE Level(s, r - 1) = <<>>
  <2>1. v = 0
    BY <1>1, <1>2, <1>3, <1>7, EmptyBelow
  <2>2. ASSUME NEW a \in Seq(Nat), Len(a) = Len(sh)
        PROVE  OffsetAt(s, a) = -1
    <3>1. LooksUp(LookupOf(s, a), s, a, r) /\ r \in 0..r
      BY <1>1, <2>2, LookupIs
    <3>2. OffsetAt(s, a) \in Offsets(s, r)
      BY <1>1, <2>2, <3>1, OffsetIs DEF LooksUp
    <3>3. Items(s, r) = 0
      BY <1>1, <1>3, <2>1 DEF Items
    <3> QED
      BY <3>2, <3>3 DEF Offsets, Below
  <2> QED
    BY <2>2 DEF KeepsOld
<1> QED
  BY <1>6, <1>7

\* What an append of vs makes of s: what is at addresses stays there, and the new
\* values are at the addresses f.
AppendsAt(s, w, sh, vs, f) ==
  /\ Sound(w, sh) /\ InExtent(w, sh) /\ w.elem = s.elem \o vs
  /\ \A a \in Seq(Nat) : Len(a) = Len(sh) /\ OffsetAt(s, a) # -1 =>
       OffsetAt(w, a) = OffsetAt(s, a)
  /\ \A i \in 1..Len(vs) : /\ f[i] \in Seq(Nat) /\ Len(f[i]) = Len(sh)
                           /\ OffsetAt(w, f[i]) = Len(s.elem) + i - 1
  /\ f[Len(vs)] = LastAddr(w) /\ w.roll[Len(sh)] = FALSE

\* DasAry_append puts values at the addresses the odometer gives, in every sound array.
LEMMA AppendPlaces ==
  ASSUME NEW sh \in Seq(Nat), sh # <<>>, NEW s, Sound(s, sh), InExtent(s, sh),
         NEW vs \in Seq(Vals \cup {FillVal}), vs # <<>>, EndsIn(s, Len(vs)),
         NEW f, Successive(f, s, sh, Len(vs))
  PROVE  AppendsAt(s, Appended(s, vs), sh, vs, f)
<1>1. PICK s0 : s0 = Longer(s, vs)
  OBVIOUS
<1>2. PICK start : start = LastParent(s0)
  OBVIOUS
<1>3. PICK es : es = s.elem \o vs
  OBVIOUS
<1>4. PICK n \in Nat, v \in Nat : n = Len(vs) /\ v = Len(s.elem) /\ n > 0 /\ Len(es) = v + n
  BY <1>1, <1>2, <1>3, FirstTurned
<1>5. Reached(s0, start, sh, v, Len(sh) - 1)
  BY <1>1, <1>2, <1>4, FirstTurned
<1>6. PICK t0 : t0 = FirstTurn(start)
  OBVIOUS
<1>7. Turned(t0, sh, es, v, n, 0)
  BY <1>1, <1>2, <1>3, <1>4, <1>6, FirstTurned
<1>8. s0 \in Arrays(sh) /\ s0.roll = s.roll /\ s0.ibuf = s.ibuf /\ s0.idx0 = s.idx0
  BY <1>1, <1>2, FirstTurned
<1>9. t0.s = start.s /\ t0.marked = 0 /\ start.s \in Arrays(sh) /\ start.s.roll = s.roll
  BY <1>5, <1>6, <1>8 DEF FirstTurn, Reached
<1>10. s \in Arrays(sh) /\ RollsUp(s)
  BY DEF Sound
<1>11. LastsKept(s, start.s, Len(sh))
  <2>1. \A k : CntAt(s0, k) = CntAt(s, k)
    BY <1>8 DEF CntAt, Level
  <2>2. LastsKept(s0, start.s, Len(sh))
    BY <1>5 DEF Reached
  <2> QED
    BY <2>1, <2>2 DEF LastsKept
<1>12. PICK w0 : w0 = start.s
  OBVIOUS
<1>13. InExtent(w0, sh) /\ SameNext(s, w0)
  BY <1>9, <1>10, <1>11, <1>12, FirstNext
<1>14. Placed(t0, s, sh, v, n, f)
  <2>1. KeepsOld(s, t0, sh, v)
    <3>1. Len(s.elem) + n <= Len(es)
      BY <1>4
    <3> QED
      BY <1>4, <1>5, <1>6, <1>7, <1>8, <3>1, FirstKeeps
  <2>2. HasNew(t0, sh, v, f, t0.marked)
    <3>1. \A i : i \notin 1..0
      OBVIOUS
    <3> QED
      BY <1>9, <3>1 DEF HasNew
  <2>3. f[t0.marked + 1] = NextOf(t0.s)
    <3>1. f[1] = NextOf(s)
      BY DEF Successive
    <3>2. t0.marked + 1 = 1
      BY <1>9
    <3> QED
      BY <1>9, <1>12, <1>13, <3>1, <3>2 DEF SameNext
  <2>4. t0.marked # n
    BY <1>4, <1>9
  <2> QED
    BY <1>9, <1>12, <1>13, <2>1, <2>2, <2>3, <2>4 DEF Placed
<1>15. PICK Along : Along = {t \in [s : Arrays(sh), pos : Nat, marked : Nat] :
                               Placed(t, s, sh, v, n, f)}
  OBVIOUS
<1>16. FirstTurn(start) \in Along
  <2>1. t0 \in [s : Arrays(sh), pos : Nat, marked : Nat]
    BY <1>7 DEF Turned
  <2> QED
    BY <1>6, <1>14, <1>15, <2>1
<1>17. KeptAlong(Along, sh, es, v, n)
  <2> SUFFICES ASSUME NEW t \in Along, NEW i \in Nat, Turned(t, sh, es, v, n, i), t.marked < n
               PROVE  MarkSome(t, n) \in Along
    BY DEF KeptAlong
  <2>1. v + n <= Len(es)
    BY <1>4
  <2>2. Placed(t, s, sh, v, n, f) /\ Successive(f, s, sh, n)
    BY <1>4, <1>15
  <2>3. Placed(MarkSome(t, n), s, sh, v, n, f)
    BY <2>1, <2>2, PlacedTurn
  <2>4. MarkSome(t, n) \in [s : Arrays(sh), pos : Nat, marked : Nat]
    <3>1. Turn(t, n) = MarkSome(t, n)
      <4>1. t.marked \in Nat
        BY DEF Turned
      <4> QED
        BY <4>1 DEF Turn
    <3>2. Turned(MarkSome(t, n), sh, es, v, n, i + 1)
      BY <3>1, TurnAny
    <3> QED
      BY <3>2 DEF Turned
  <2> QED
    BY <1>15, <2>3, <2>4
<1>18. PICK t \in Along, i \in Nat :
         Appended(s, vs) = t.s /\ t.marked = n /\ Turned(t, sh, es, v, n, i)
  <2>1. /\ start = LastParent(Longer(s, vs))
        /\ KeptAlong(Along, sh, s.elem \o vs, Len(s.elem), Len(vs))
    BY <1>1, <1>2, <1>3, <1>4, <1>17
  <2>2. \E t \in Along : \E i \in Nat :
          /\ Appended(s, vs) = t.s /\ t.marked = Len(vs)
          /\ Turned(t, sh, s.elem \o vs, Len(s.elem), Len(vs), i)
    BY <1>16, <2>1, LastTurned
  <2> QED
    BY <1>3, <1>4, <2>2
<1>19. PICK w : w = Appended(s, vs)
  OBVIOUS
<1>20. Sound(w, sh)
  BY <1>19, AppendSound
<1>21. w.elem = es
  BY <1>18, <1>19 DEF Turned
<1>22. SoFar(t, v) = w
  <2>1. w \in Arrays(sh) /\ w.elem \in Seq(Vals \cup {FillVal})
    BY <1>20, ArrayIs DEF Sound
  <2>2. w.elem = [k \in 1..(v + n) |-> w.elem[k]]
    BY <1>4, <1>21, <2>1
  <2>3. SoFar(t, v) = [w EXCEPT !.elem = w.elem]
    BY <1>18, <1>19, <2>2 DEF SoFar
  <2> QED
    BY <2>1, <2>3 DEF Arrays
<1>23. Placed(t, s, sh, v, n, f)
  BY <1>15
<1>24. InExtent(w, sh) /\ f[n] = LastAddr(w) /\ w.roll[Len(sh)] = FALSE
  BY <1>18, <1>19, <1>23 DEF Placed
<1>25. \A a \in Seq(Nat) : Len(a) = Len(sh) /\ OffsetAt(s, a) # -1 =>
         OffsetAt(w, a) = OffsetAt(s, a)
  BY <1>22, <1>23 DEF Placed, KeepsOld
<1>26. \A k \in 1..n : /\ f[k] \in Seq(Nat) /\ Len(f[k]) = Len(sh)
                      /\ OffsetAt(w, f[k]) = v + k - 1
  BY <1>18, <1>22, <1>23 DEF Placed, HasNew
<1> QED
  BY <1>3, <1>4, <1>19, <1>20, <1>21, <1>24, <1>25, <1>26, Zenon DEF AppendsAt

-----------------------------------------------------------------------------
(* Addresses and offsets: one address for each offset.                       *)

\* The addresses of a sound array, by what they lead to.
AddressesFit(s, sh, D) ==
  /\ \A a \in D : a \in Seq(Nat) /\ Len(a) = Len(sh) /\ OffsetAt(s, a) \in Below(Len(s.elem))
  /\ \A a \in Seq(Nat) : Len(a) = Len(sh) /\ OffsetAt(s, a) # -1 => a \in D
  /\ \A o \in Below(Len(s.elem)) : \E a \in D : OffsetAt(s, a) = o
  /\ \A a, b \in D : Precedes(a, b, Len(sh)) <=> OffsetAt(s, a) < OffsetAt(s, b)
  /\ \A a, b \in D : OffsetAt(s, a) = OffsetAt(s, b) => a = b

\* One of two addresses comes first.
LEMMA OneFirst ==
  ASSUME NEW k \in Nat, NEW a \in Seq(Nat), NEW b \in Seq(Nat), Len(a) = k, Len(b) = k,
         a # b
  PROVE  Precedes(a, b, k) \/ Precedes(b, a, k)
<1>1. PICK S : S = {d \in 1..k : a[d] # b[d]}
  OBVIOUS
<1>2. S # {} /\ S \subseteq Nat
  BY <1>1
<1>3. PICK d \in S : \A x \in S : d <= x
  BY <1>2, LeastNat
<1>4. d \in 1..k /\ a[d] # b[d] /\ a[d] \in Nat /\ b[d] \in Nat
  BY <1>1
<1>5. \A h \in 1..(d - 1) : a[h] = b[h]
  <2>1. ASSUME NEW h \in 1..(d - 1), a[h] # b[h]
        PROVE  FALSE
    <3>1. h \in 1..k
      BY <1>4
    <3>2. h \in S
      BY <1>1, <2>1, <3>1
    <3> QED
      BY <1>3, <1>4, <3>2
  <2> QED
    BY <2>1
<1>6. CASE a[d] < b[d]
  BY <1>4, <1>5, <1>6, Zenon DEF Precedes
<1>7. CASE b[d] < a[d]
  <2>1. \A h \in 1..(d - 1) : b[h] = a[h]
    BY <1>5
  <2> QED
    BY <1>4, <1>7, <2>1, Zenon DEF Precedes
<1> QED
  BY <1>4, <1>6, <1>7

\* The addresses of every sound array are such.
LEMMA AddressesAreFit ==
  ASSUME NEW sh \in Seq(Nat), sh # <<>>, NEW s, Sound(s, sh)
  PROVE  AddressesFit(s, sh, AddressesOf(s))
<1>1. PICK r \in Nat : r = Len(sh) /\ Rank(s) = r
  BY ArrayIs DEF Sound
<1>2. PICK D : D = AddressesOf(s)
  OBVIOUS
<1>3. Covers(s, D, r)
  BY <1>1, <1>2, AddressesCover
<1>4. Items(s, r) = Len(s.elem)
  BY <1>1 DEF Items
<1>5. \A a \in D : a \in Seq(Nat) /\ Len(a) = r /\ OffsetAt(s, a) \in Below(Len(s.elem))
  BY <1>3, <1>4 DEF Covers
<1>6. \A o \in Below(Len(s.elem)) : \E a \in D : OffsetAt(s, a) = o
  BY <1>3, <1>4 DEF Covers
<1>7. \A a \in Seq(Nat) : Len(a) = r /\ OffsetAt(s, a) # -1 => a \in D
  BY <1>3 DEF Covers
<1>8. \A a, b \in D : Precedes(a, b, r) => OffsetAt(s, a) < OffsetAt(s, b)
  BY <1>3 DEF Covers
<1>9. \A a \in D : OffsetAt(s, a) \in Int
  BY <1>5 DEF Below
<1>10. ASSUME NEW a \in D, NEW b \in D
       PROVE  a = b \/ Precedes(a, b, r) \/ Precedes(b, a, r)
  <2>1. a \in Seq(Nat) /\ Len(a) = r /\ b \in Seq(Nat) /\ Len(b) = r
    BY <1>5
  <2> QED
    BY <2>1, OneFirst
<1>11. ASSUME NEW a \in D, NEW b \in D, OffsetAt(s, a) = OffsetAt(s, b)
       PROVE  a = b
  <2>1. OffsetAt(s, a) \in Int /\ OffsetAt(s, b) \in Int
    BY <1>9
  <2>2. ~(OffsetAt(s, a) < OffsetAt(s, b)) /\ ~(OffsetAt(s, b) < OffsetAt(s, a))
    BY <1>11, <2>1
  <2> QED
    BY <1>8, <1>10, <2>2
<1>12. ASSUME NEW a \in D, NEW b \in D, OffsetAt(s, a) < OffsetAt(s, b)
       PROVE  Precedes(a, b, r)
  <2>1. OffsetAt(s, a) \in Int /\ OffsetAt(s, b) \in Int
    BY <1>9
  <2>2. a # b /\ ~(OffsetAt(s, b) < OffsetAt(s, a))
    BY <1>12, <2>1
  <2> QED
    BY <1>8, <1>10, <2>2
<1>13. \A a, b \in D : Precedes(a, b, r) <=> OffsetAt(s, a) < OffsetAt(s, b)
  BY <1>8, <1>12
<1>14. \A a, b \in D : OffsetAt(s, a) = OffsetAt(s, b) => a = b
  BY <1>11
<1>15. AddressesFit(s, sh, D)
  BY <1>1, <1>5, <1>6, <1>7, <1>13, <1>14 DEF AddressesFit
<1> QED
  BY <1>2, <1>15

-----------------------------------------------------------------------------
(* The array as a map.                                                       *)

\* The values by their addresses.
CellOf(s) == [a \in AddressesOf(s) |-> s.elem[OffsetAt(s, a) + 1]]

\* One function, and another where that is not defined.
Merged(f, g) ==
  [x \in (DOMAIN f) \cup (DOMAIN g) |-> IF x \in DOMAIN f THEN f[x] ELSE g[x]]

\* What is at addresses of s is there in w.
KeepsAll(s, w, sh) ==
  /\ Len(s.elem) <= Len(w.elem) /\ \A i \in 1..Len(s.elem) : w.elem[i] = s.elem[i]
  /\ \A a \in Seq(Nat) : Len(a) = Len(sh) /\ OffsetAt(s, a) # -1 =>
       OffsetAt(w, a) = OffsetAt(s, a)

\* The values w has besides those of s, at the addresses g.
Adds(s, w, D, g) ==
  /\ D \subseteq AddressesOf(w)
  /\ \A o \in Below(Len(w.elem)) : o >= Len(s.elem) => \E a \in D : OffsetAt(w, a) = o
  /\ \A a \in D : OffsetAt(w, a) >= Len(s.elem) => w.elem[OffsetAt(w, a) + 1] = g[a]

\* An array that keeps all and adds values has the old cells and the new ones.
LEMMA CellGrows ==
  ASSUME NEW sh \in Seq(Nat), sh # <<>>, NEW s, Sound(s, sh), NEW w, Sound(w, sh),
         KeepsAll(s, w, sh), NEW g, NEW D, D = DOMAIN g, Adds(s, w, D, g)
  PROVE  CellOf(w) = Merged(CellOf(s), g)
<1>1. PICK A : A = AddressesOf(s)
  OBVIOUS
<1>2. PICK E : E = AddressesOf(w)
  OBVIOUS
<1>3. AddressesFit(s, sh, A) /\ AddressesFit(w, sh, E)
  BY <1>1, <1>2, AddressesAreFit
<1>4. PICK v \in Nat, n \in Nat : v = Len(s.elem) /\ n = Len(w.elem) /\ v <= n
  <2>1. s.elem \in Seq(Vals \cup {FillVal}) /\ w.elem \in Seq(Vals \cup {FillVal})
    BY ArrayIs DEF Sound
  <2>2. Len(s.elem) \in Nat /\ Len(w.elem) \in Nat
    BY <2>1
  <2> QED
    BY <2>2 DEF KeepsAll
<1>5. ASSUME NEW a \in A
      PROVE  /\ a \in E /\ OffsetAt(w, a) = OffsetAt(s, a) /\ OffsetAt(s, a) \in Below(v)
             /\ w.elem[OffsetAt(w, a) + 1] = s.elem[OffsetAt(s, a) + 1]
  <2>1. a \in Seq(Nat) /\ Len(a) = Len(sh) /\ OffsetAt(s, a) \in Below(v)
    BY <1>3, <1>4 DEF AddressesFit
  <2>2. PICK o \in Nat : o = OffsetAt(s, a) /\ o < v
    BY <2>1 DEF Below
  <2>3. OffsetAt(w, a) = o
    BY <2>1, <2>2 DEF KeepsAll
  <2>4. a \in E
    BY <1>3, <2>1, <2>2, <2>3 DEF AddressesFit
  <2>5. o + 1 \in 1..Len(s.elem)
    BY <1>4, <2>2
  <2>6. w.elem[o + 1] = s.elem[o + 1]
    BY <2>5 DEF KeepsAll
  <2> QED
    BY <2>1, <2>2, <2>3, <2>4, <2>6
<1>6. ASSUME NEW a \in E, a \notin A
      PROVE  a \in D /\ w.elem[OffsetAt(w, a) + 1] = g[a]
  <2>1. OffsetAt(w, a) \in Below(n)
    BY <1>3, <1>4 DEF AddressesFit
  <2>2. PICK o \in Nat : o = OffsetAt(w, a) /\ o < n
    BY <2>1 DEF Below
  <2>3. o >= v
    <3> SUFFICES ASSUME o < v PROVE FALSE
      BY <1>4, <2>2
    <3>1. o \in Below(Len(s.elem))
      BY <1>4, <2>2 DEF Below
    <3>2. PICK b \in A : OffsetAt(s, b) = o
      BY <1>3, <3>1 DEF AddressesFit
    <3>3. b \in E /\ OffsetAt(w, b) = o
      BY <1>5, <3>2
    <3>4. a = b
      BY <1>3, <2>2, <3>3 DEF AddressesFit
    <3> QED
      BY <1>6, <3>2, <3>4
  <2>4. PICK b \in D : OffsetAt(w, b) = o
    BY <1>4, <2>1, <2>2, <2>3 DEF Adds
  <2>5. b \in E
    BY <1>2, <2>4 DEF Adds
  <2>6. b = a
    BY <1>3, <2>2, <2>4, <2>5 DEF AddressesFit
  <2>7. w.elem[OffsetAt(w, a) + 1] = g[a]
    BY <1>4, <2>2, <2>3, <2>4, <2>6 DEF Adds
  <2> QED
    BY <2>4, <2>6, <2>7
<1>7. E = A \cup D
  <2>1. D \subseteq E
    BY <1>2 DEF Adds
  <2> QED
    BY <1>5, <1>6, <2>1
<1>8. CellOf(w) = [a \in E |-> w.elem[OffsetAt(w, a) + 1]]
  BY <1>2 DEF CellOf
<1>9. CellOf(s) = [a \in A |-> s.elem[OffsetAt(s, a) + 1]]
  BY <1>1 DEF CellOf
<1>10. \A a \in A \cup D : w.elem[OffsetAt(w, a) + 1]
                        = IF a \in A THEN CellOf(s)[a] ELSE g[a]
  BY <1>5, <1>6, <1>7, <1>9
<1>11. DOMAIN CellOf(s) = A
  BY <1>9
<1>12. Merged(CellOf(s), g) = [a \in A \cup D |-> IF a \in A THEN CellOf(s)[a] ELSE g[a]]
  BY <1>11 DEF Merged
<1> QED
  BY <1>7, <1>8, <1>10, <1>12

-----------------------------------------------------------------------------
(* How many addresses there are.                                             *)

\* As many as elements, in any stretch of them.
LEMMA AddressCount ==
  ASSUME NEW sh \in Seq(Nat), sh # <<>>, NEW s, NEW A, AddressesFit(s, sh, A),
         NEW lo \in Nat, NEW hi \in Nat, lo <= hi, hi <= Len(s.elem), Len(s.elem) \in Nat,
         NEW T, T = {a \in A : lo <= OffsetAt(s, a) /\ OffsetAt(s, a) < hi}
  PROVE  IsFiniteSet(T) /\ Cardinality(T) = hi - lo
<1> DEFINE Q == lo..(hi - 1)
           F == [o \in Q |-> CHOOSE a \in A : OffsetAt(s, a) = o]
<1>1. Q \subseteq Below(Len(s.elem)) /\ Q \subseteq Int
  BY DEF Below
<1>2. \A o \in Q : F[o] \in A /\ OffsetAt(s, F[o]) = o
  <2> TAKE o \in Q
  <2>1. \E a \in A : OffsetAt(s, a) = o
    BY <1>1 DEF AddressesFit
  <2> QED
    BY <2>1
<1>3. \A a \in T : a \in A /\ OffsetAt(s, a) \in Q
  <2> TAKE a \in T
  <2>1. a \in A /\ OffsetAt(s, a) \in Below(Len(s.elem))
    BY DEF AddressesFit
  <2> QED
    BY <2>1 DEF Below
<1>4. PICK G : G = F
  OBVIOUS
<1>5. G \in [Q -> T]
  <2>1. \A o \in Q : F[o] \in T
    BY <1>2
  <2>2. F = [o \in Q |-> F[o]]
    OBVIOUS
  <2> HIDE DEF F
  <2> QED
    BY <1>4, <2>1, <2>2
<1>6. \A o \in Q : G[o] \in A /\ OffsetAt(s, G[o]) = o
  BY <1>2, <1>4
<1> HIDE DEF F
<1>7. \A o, p \in Q : G[o] = G[p] => o = p
  BY <1>6
<1>8. \A a \in T : \E o \in Q : G[o] = a
  <2> TAKE a \in T
  <2>1. PICK o \in Q : o = OffsetAt(s, a)
    BY <1>3
  <2>2. G[o] = a
    BY <1>3, <1>6, <2>1 DEF AddressesFit
  <2> QED
    BY <2>2
<1>9. G \in Bijection(Q, T)
  BY <1>5, <1>7, <1>8 DEF Bijection, Injection, Surjection, IsInjective
<1>10. IsFiniteSet(Q) /\ Cardinality(Q) = hi - lo
  <2>1. PICK h \in Int : h = hi - 1
    OBVIOUS
  <2>2. IsFiniteSet(lo..h) /\ Cardinality(lo..h) = IF lo > h THEN 0 ELSE h - lo + 1
    <3>1. lo \in Int
      OBVIOUS
    <3> QED
      BY <3>1, FS_Interval, Zenon
  <2> QED
    BY <2>1, <2>2
<1>11. ExistsBijection(Q, T)
  BY <1>9 DEF ExistsBijection
<1> QED
  BY <1>10, <1>11, FS_Bijection

\* It has as many values as elements.
LEMMA CellCount ==
  ASSUME NEW sh \in Seq(Nat), sh # <<>>, NEW s, Sound(s, sh)
  PROVE  Cardinality(DOMAIN CellOf(s)) = Len(s.elem)
<1>1. PICK A : A = AddressesOf(s)
  OBVIOUS
<1>2. AddressesFit(s, sh, A)
  BY <1>1, AddressesAreFit
<1>3. s.elem \in Seq(Vals \cup {FillVal})
  BY ArrayIs DEF Sound
<1>4. PICK v \in Nat : v = Len(s.elem)
  BY <1>3
<1>5. A = {a \in A : 0 <= OffsetAt(s, a) /\ OffsetAt(s, a) < v}
  <2>1. \A a \in A : OffsetAt(s, a) \in Below(v)
    BY <1>2, <1>4 DEF AddressesFit
  <2> QED
    BY <1>4, <2>1 DEF Below
<1>6. Cardinality(A) = v - 0
  <2>1. 0 \in Nat /\ 0 <= v /\ v <= Len(s.elem) /\ Len(s.elem) \in Nat
    BY <1>4
  <2> QED
    BY <1>2, <1>4, <1>5, <2>1, AddressCount
<1>7. DOMAIN CellOf(s) = A
  BY <1>1 DEF CellOf
<1> QED
  BY <1>4, <1>6, <1>7

-----------------------------------------------------------------------------
(* Appending, as the promise has it.                                         *)

\* The values of a block at the addresses f; w has the cells of s and those of g.
NewCells(f, vs) ==
  [a \in {f[i] : i \in 1..Len(vs)} |-> vs[CHOOSE i \in 1..Len(vs) : f[i] = a]]

GainsCells(s, w, g) == CellOf(w) = Merged(CellOf(s), g)

\* An append adds the cells of its block and leaves the others.
LEMMA AppendCell ==
  ASSUME NEW sh \in Seq(Nat), sh # <<>>, NEW s, Sound(s, sh), NEW w,
         NEW vs \in Seq(Vals \cup {FillVal}), NEW f, AppendsAt(s, w, sh, vs, f)
  PROVE  GainsCells(s, w, NewCells(f, vs))
<1>1. s.elem \in Seq(Vals \cup {FillVal})
  BY ArrayIs DEF Sound
<1>2. PICK v \in Nat, n \in Nat : v = Len(s.elem) /\ n = Len(vs)
  BY <1>1
<1>3. /\ Len(w.elem) = v + n
      /\ \A i \in 1..v : w.elem[i] = s.elem[i]
      /\ \A i \in 1..n : w.elem[v + i] = vs[i]
  <2>1. PICK es : es = s.elem
    OBVIOUS
  <2>2. PICK T : T = Vals \cup {FillVal}
    OBVIOUS
  <2>3. es \in Seq(T) /\ vs \in Seq(T)
    BY <1>1, <2>1, <2>2
  <2>4. /\ Len(es \o vs) = Len(es) + Len(vs)
        /\ \A i \in 1..(Len(es) + Len(vs)) :
             (es \o vs)[i] = IF i <= Len(es) THEN es[i] ELSE vs[i - Len(es)]
    BY <2>3, ConcatProperties
  <2>5. w.elem = es \o vs
    BY <2>1 DEF AppendsAt
  <2>6. \A i \in 1..(v + n) : w.elem[i] = IF i <= v THEN es[i] ELSE vs[i - v]
    BY <1>2, <2>1, <2>4, <2>5
  <2>7. \A i \in 1..n : v + i \in 1..(v + n) /\ ~(v + i <= v) /\ v + i - v = i
    BY <1>2
  <2>8. \A i \in 1..v : i \in 1..(v + n)
    BY <1>2
  <2>9. \A i \in 1..n : w.elem[v + i] = vs[i]
    <3> TAKE i \in 1..n
    <3>1. PICK x : x = v + i /\ x \in 1..(v + n) /\ ~(x <= v) /\ x - v = i
      BY <2>7
    <3> QED
      BY <2>6, <3>1
  <2> QED
    BY <1>2, <2>1, <2>4, <2>5, <2>6, <2>8, <2>9
<1>4. Sound(w, sh) /\ KeepsAll(s, w, sh)
  BY <1>2, <1>3 DEF AppendsAt, KeepsAll
<1>5. PICK E : E = AddressesOf(w)
  OBVIOUS
<1>6. AddressesFit(w, sh, E)
  BY <1>4, <1>5, AddressesAreFit
<1>7. \A i \in 1..n : /\ f[i] \in Seq(Nat) /\ Len(f[i]) = Len(sh)
                     /\ OffsetAt(w, f[i]) = v + i - 1
  BY <1>2 DEF AppendsAt
<1> DEFINE D == {f[i] : i \in 1..n}
           G == [a \in D |-> vs[CHOOSE i \in 1..n : f[i] = a]]
<1>8. \A i \in 1..n : f[i] \in E /\ G[f[i]] = vs[i]
  <2> TAKE i \in 1..n
  <2>1. f[i] \in E
    <3>1. v + i - 1 # -1
      BY <1>2
    <3> QED
      BY <1>6, <1>7, <3>1 DEF AddressesFit
  <2>2. PICK j : j = CHOOSE h \in 1..n : f[h] = f[i]
    OBVIOUS
  <2>3. j \in 1..n /\ f[j] = f[i]
    BY <2>2
  <2>4. v + j - 1 = v + i - 1
    BY <1>7, <2>3
  <2>5. j = i
    BY <1>2, <2>3, <2>4
  <2>6. f[i] \in D
    OBVIOUS
  <2>7. G[f[i]] = vs[j]
    BY <2>2, <2>6
  <2> QED
    BY <2>1, <2>5, <2>7
<1>9. PICK g : g = G
  OBVIOUS
<1>10. NewCells(f, vs) = g
  BY <1>2, <1>9 DEF NewCells
<1>11. DOMAIN g = D
  BY <1>9
<1>12. Adds(s, w, D, g)
  <2>1. \A a \in D : \E i \in 1..n : a = f[i]
    OBVIOUS
  <2>2. D \subseteq AddressesOf(w)
    <3>1. \A i \in 1..n : f[i] \in E
      BY <1>8
    <3> HIDE DEF D
    <3> QED
      BY <1>5, <2>1, <3>1
  <2>3. ASSUME NEW o \in Below(Len(w.elem)), o >= Len(s.elem)
        PROVE  \E a \in D : OffsetAt(w, a) = o
    <3>1. o \in 0..(v + n - 1) /\ o >= v
      BY <1>2, <1>3, <2>3 DEF Below
    <3>2. o - v + 1 \in 1..n
      BY <1>2, <3>1
    <3>4. PICK i \in 1..n : i = o - v + 1
      BY <3>2
    <3>3. v + i - 1 = o
      BY <1>2, <3>1, <3>4
    <3> QED
      BY <1>7, <3>3
  <2>4. ASSUME NEW a \in D
        PROVE  w.elem[OffsetAt(w, a) + 1] = g[a]
    <3>1. PICK i \in 1..n : a = f[i]
      BY <2>1
    <3>2. OffsetAt(w, a) + 1 = v + i
      BY <1>2, <1>7, <3>1
    <3>3. w.elem[v + i] = vs[i]
      BY <1>3
    <3>4. g[a] = vs[i]
      BY <1>8, <1>9, <3>1
    <3> QED
      BY <3>2, <3>3, <3>4
  <2> QED
    BY <2>2, <2>3, <2>4 DEF Adds
<1> HIDE DEF D, G
<1> QED
  BY <1>4, <1>10, <1>11, <1>12, CellGrows DEF GainsCells

\* The addresses to write next, as a function of the number of values before.
Follow(g, sh, first, n) ==
  g = [i \in 1..n |-> IF i = 1 THEN first ELSE Odometer(sh, g[i - 1], Len(sh) + 1)]
FollowingOf(sh, first, n) == CHOOSE g : Follow(g, sh, first, n)
FollowsOn(f, sh, first, n) ==
  /\ DOMAIN f = 1..n /\ f[1] = first
  /\ \A i \in 2..n : f[i] = Odometer(sh, f[i - 1], Len(sh) + 1)

\* There are such addresses.
LEMMA FollowingIs ==
  ASSUME NEW sh \in Seq(Nat), NEW n \in Nat, n > 0, NEW first \in [1..Len(sh) -> Int]
  PROVE  FollowsOn(FollowingOf(sh, first, n), sh, first, n)
<1> DEFINE S == [1..Len(sh) -> Int]
           Next1(a) == Odometer(sh, a, Len(sh) + 1)
<1>1. PICK m \in Nat : m = n - 1
  OBVIOUS
<1>2. \A a \in S : Next1(a) \in S
  BY DEF Odometer
<1>3. PICK step : step = [i \in 1..m |-> [a \in S |-> Next1(a)]]
  OBVIOUS
<1>4. \A i \in 1..m : \A a \in S : step[i][a] = Next1(a)
  <2> HIDE DEF Next1
  <2> QED
    BY <1>3
<1> HIDE DEF Next1
<1>5. \A i \in 1..m : \A a \in S : step[i][a] \in S
  BY <1>2, <1>4
<1>6. PICK T : T = [i \in 0..m |-> S]
  OBVIOUS
<1>7. \E f : /\ f = [i \in 0..m |-> f[i]] /\ Recursion(f, m, first, step)
             /\ \A i \in 0..m : f[i] \in T[i]
  <2>1. first \in T[0]
    BY <1>1, <1>6
  <2>2. \A i \in 1..m : \A x \in T[i - 1] : step[i][x] \in T[i]
    BY <1>5, <1>6, SMTT(40)
  <2> QED
    BY <2>1, <2>2, RecursionAlong
<1>8. PICK f : Recursion(f, m, first, step) /\ \A i \in 0..m : f[i] \in S
  BY <1>6, <1>7
<1>9. PICK g : g = [i \in 1..n |-> f[i - 1]]
  OBVIOUS
<1>10. \A i \in 1..n : g[i] = IF i = 1 THEN first ELSE Next1(g[i - 1])
  <2> TAKE i \in 1..n
  <2>1. CASE i = 1
    <3>1. g[1] = f[0]
      BY <1>9
    <3> QED
      BY <1>8, <2>1, <3>1 DEF Recursion
  <2>2. CASE i # 1
    <3>1. PICK j \in 1..m : j = i - 1
      BY <1>1, <2>2
    <3>2. f[j] = step[j][f[j - 1]]
      BY <1>8 DEF Recursion
    <3>3. f[j - 1] \in S /\ j \in 1..n
      BY <1>1, <1>8
    <3>4. g[i] = f[j] /\ g[j] = f[j - 1]
      BY <1>9, <3>1, <3>3
    <3>5. g[i] = Next1(g[j])
      BY <1>4, <3>2, <3>3, <3>4
    <3> QED
      BY <2>2, <3>1, <3>5
  <2> QED
    BY <2>1, <2>2
<1>11. \E h : Follow(h, sh, first, n)
  <2>1. g = [i \in 1..n |-> IF i = 1 THEN first ELSE Next1(g[i - 1])]
    BY <1>9, <1>10
  <2> QED
    BY <2>1 DEF Follow, Next1
<1>12. PICK h : h = FollowingOf(sh, first, n)
  OBVIOUS
<1>13. Follow(h, sh, first, n)
  BY <1>11, <1>12 DEF FollowingOf
<1>14. h = [i \in 1..n |-> IF i = 1 THEN first ELSE Next1(h[i - 1])]
  BY <1>13 DEF Follow, Next1
<1>15. DOMAIN h = 1..n /\ \A i \in 1..n : h[i] = IF i = 1 THEN first ELSE Next1(h[i - 1])
  BY <1>14
<1>16. h[1] = first /\ \A i \in 2..n : h[i] = Next1(h[i - 1])
  BY <1>15
<1> QED
  BY <1>12, <1>15, <1>16 DEF FollowsOn, Next1

-----------------------------------------------------------------------------
(* What each function makes of the promise's variables.                      *)

\* Where the last index is fixed no run of it is there before the first value.
NoEmptyRun(s, sh) ==
  LET r == Len(sh) IN r > 1 /\ sh[r] > 0 /\ s.elem = <<>> => Level(s, r - 1) = <<>>
Settled(s, sh) == Sound(s, sh) /\ InExtent(s, sh) /\ NoEmptyRun(s, sh)

\* DasAry_append
AppendsTo(s, w, sh, f, vs) ==
  /\ Settled(w, sh) /\ GainsCells(s, w, NewCells(f, vs))
  /\ LastAddr(w) = f[Len(vs)] /\ ClosedOf(w) = Len(sh) + 1

\* Every append of a block that ends with a record, or inside one, does that.
LEMMA AppendMaps ==
  ASSUME NEW sh \in Seq(Nat), sh # <<>>, NEW s, Settled(s, sh),
         NEW vs \in Seq(Vals \cup {FillVal}), vs # <<>>, EndsIn(s, Len(vs)),
         NEW f, FollowsOn(f, sh, NextOf(s), Len(vs))
  PROVE  AppendsTo(s, Appended(s, vs), sh, f, vs)
<1>1. PICK w : w = Appended(s, vs)
  OBVIOUS
<1>2. Sound(s, sh) /\ InExtent(s, sh)
  BY DEF Settled
<1>3. Successive(f, s, sh, Len(vs))
  BY DEF Successive, FollowsOn
<1>4. AppendsAt(s, w, sh, vs, f)
  BY <1>1, <1>2, <1>3, AppendPlaces
<1>5. GainsCells(s, w, NewCells(f, vs))
  BY <1>2, <1>4, AppendCell
<1>6. w.elem # <<>>
  <2>1. s.elem \in Seq(Vals \cup {FillVal})
    BY <1>2, ArrayIs DEF Sound
  <2>2. w.elem = s.elem \o vs
    BY <1>4 DEF AppendsAt
  <2>3. Len(w.elem) = Len(s.elem) + Len(vs)
    BY <2>1, <2>2
  <2>4. Len(s.elem) \in Nat /\ Len(vs) \in Nat /\ Len(vs) > 0
    BY <2>1
  <2> QED
    BY <2>3, <2>4
<1>7. Sound(w, sh) /\ InExtent(w, sh) /\ NoEmptyRun(w, sh)
  BY <1>4, <1>6 DEF AppendsAt, NoEmptyRun
<1>8. ClosedOf(w) = Len(sh) + 1
  <2>1. w \in Arrays(sh) /\ RollsUp(w)
    BY <1>7 DEF Sound
  <2>2. \A k \in 1..Len(sh) : w.roll[k] = FALSE
    <3> SUFFICES ASSUME NEW k \in 1..Len(sh) PROVE w.roll[k] = FALSE
      OBVIOUS
    <3>1. PICK r \in Nat : r = Len(sh) /\ Rank(w) = r /\ r \in k..r
      BY <2>1, ArrayIs
    <3>2. w.roll[k] \in BOOLEAN
      <4>1. w.roll \in [1..Len(sh) -> BOOLEAN]
        BY <2>1, ArrayIs
      <4> QED
        BY <4>1, Zenon
    <3>3. w.roll[r] = FALSE
      BY <1>4, <3>1 DEF AppendsAt
    <3>4. w.roll[k] => w.roll[r]
      BY <2>1, <3>1 DEF RollsUp
    <3> QED
      BY <3>2, <3>3, <3>4, Zenon
  <2> QED
    BY <2>1, <2>2, ClosedNone
<1>9. LastAddr(w) = f[Len(vs)]
  BY <1>4 DEF AppendsAt
<1> QED
  BY <1>1, <1>5, <1>7, <1>8, <1>9 DEF AppendsTo, Settled

\* The same entries and as many elements: the same addresses lead to the same places.
SameIndex(s, w) == w.idx0 = s.idx0 /\ w.ibuf = s.ibuf /\ Len(w.elem) = Len(s.elem)

\* Addresses, offsets and the last address depend on nothing else.
LEMMA SameAddresses ==
  ASSUME NEW sh \in Seq(Nat), sh # <<>>, NEW s, Sound(s, sh), NEW w, Sound(w, sh),
         SameIndex(s, w)
  PROVE  /\ AddressesOf(w) = AddressesOf(s) /\ LastAddr(w) = LastAddr(s)
         /\ \A a \in AddressesOf(s) : OffsetAt(w, a) = OffsetAt(s, a)
         /\ InExtent(s, sh) => InExtent(w, sh)
<1>1. s \in Arrays(sh) /\ w \in Arrays(sh)
  BY DEF Sound
<1>2. PICK r \in Nat : r = Len(sh) /\ r > 0 /\ Rank(s) = r /\ Rank(w) = r
  BY <1>1, ArrayIs
<1>3. \A k : Level(w, k) = Level(s, k)
  BY DEF Level, SameIndex
<1>4. \A k : CntAt(w, k) = CntAt(s, k)
  BY <1>3 DEF CntAt
<1>5. LastAddr(w) = LastAddr(s)
  BY <1>2, <1>4 DEF LastAddr
<1>6. InExtent(s, sh) => InExtent(w, sh)
  BY <1>4 DEF InExtent
<1>7. Grows(s, w, Len(sh)) /\ Grows(w, s, Len(sh))
  <2> SUFFICES ASSUME NEW k \in 0..(Len(sh) - 1)
               PROVE  /\ Len(Level(s, k)) <= Len(Level(s, k))
                      /\ \A p \in 1..Len(Level(s, k)) : Level(s, k)[p].cnt <= Level(s, k)[p].cnt
    BY <1>3, Zenon DEF Grows
  <2>1. PICK es \in Seq(Entries) : es = Level(s, k)
    BY <1>1, ArrayIs
  <2>2. \A p \in 1..Len(es) : es[p].cnt \in Nat
    <3>1. \A p \in 1..Len(es) : es[p] \in Entries
      OBVIOUS
    <3> QED
      BY <3>1 DEF Entries
  <2> QED
    BY <2>1, <2>2
<1>8. PICK A, E : A = AddressesOf(s) /\ E = AddressesOf(w)
  OBVIOUS
<1>9. AddressesFit(s, sh, A) /\ AddressesFit(w, sh, E)
  BY <1>8, AddressesAreFit
<1>10. -1 \notin Below(Len(s.elem)) /\ -1 \notin Below(Len(w.elem))
  BY DEF Below
<1>11. \A a \in A : a \in E /\ OffsetAt(w, a) = OffsetAt(s, a)
  <2> TAKE a \in A
  <2>1. a \in Seq(Nat) /\ Len(a) = Len(sh) /\ OffsetAt(s, a) # -1
    BY <1>9, <1>10 DEF AddressesFit
  <2>2. OffsetAt(w, a) = OffsetAt(s, a)
    BY <1>7, <2>1, OffsetStays
  <2> QED
    BY <1>9, <2>1, <2>2 DEF AddressesFit
<1>12. \A a \in E : a \in A
  <2> TAKE a \in E
  <2>1. a \in Seq(Nat) /\ Len(a) = Len(sh) /\ OffsetAt(w, a) # -1
    BY <1>9, <1>10 DEF AddressesFit
  <2>2. OffsetAt(s, a) = OffsetAt(w, a)
    BY <1>7, <2>1, OffsetStays
  <2> QED
    BY <1>9, <2>1, <2>2 DEF AddressesFit
<1> QED
  BY <1>5, <1>6, <1>8, <1>11, <1>12

\* DasAry_markEnd
MarksIn(s, w, sh, d) ==
  /\ Settled(w, sh) /\ CellOf(w) = CellOf(s) /\ LastAddr(w) = LastAddr(s)
  /\ ClosedOf(w) = Min({d, ClosedOf(s)})

\* A mark moves nothing, and the lowest marked index is the lower of the two.
LEMMA MarkMaps ==
  ASSUME NEW sh \in Seq(Nat), sh # <<>>, NEW s, Settled(s, sh), NEW d \in 2..Len(sh)
  PROVE  MarksIn(s, Marked(s, d), sh, d)
<1>1. Sound(s, sh) /\ s \in Arrays(sh) /\ RollsUp(s)
  BY DEF Settled, Sound
<1>2. PICK w : w = Marked(s, d)
  OBVIOUS
<1>3. Sound(w, sh) /\ w \in Arrays(sh) /\ RollsUp(w)
  <2>1. Sound(w, sh)
    BY <1>1, <1>2, MarkedSound
  <2> QED
    BY <2>1 DEF Sound
<1>4. PICK r \in Nat : r = Len(sh) /\ r > 0 /\ Rank(s) = r /\ Rank(w) = r
  BY <1>1, <1>3, ArrayIs
<1>5. PICK roll : roll = [k \in 1..r |-> s.roll[k] \/ k >= d]
  OBVIOUS
<1>6. w = [s EXCEPT !.roll = roll]
  <2>1. DOMAIN s.roll = 1..r
    BY <1>1, <1>4, ArrayIs
  <2> QED
    BY <1>2, <1>5, <2>1, Zenon DEF Marked
<1>7. w.idx0 = s.idx0 /\ w.ibuf = s.ibuf /\ w.elem = s.elem /\ w.roll = roll
  BY <1>1, <1>6 DEF Arrays
<1>8. \A k \in 1..r : w.roll[k] = (s.roll[k] \/ k >= d)
  BY <1>5, <1>7, Zenon
<1>9. SameIndex(s, w)
  BY <1>7 DEF SameIndex
<1>10. /\ AddressesOf(w) = AddressesOf(s) /\ LastAddr(w) = LastAddr(s)
       /\ \A a \in AddressesOf(s) : OffsetAt(w, a) = OffsetAt(s, a)
       /\ InExtent(s, sh) => InExtent(w, sh)
  BY <1>1, <1>3, <1>9, SameAddresses
<1>11. CellOf(w) = CellOf(s)
  BY <1>7, <1>10 DEF CellOf
<1>12. Settled(w, sh)
  <2>1. \A k : Level(w, k) = Level(s, k)
    BY <1>7 DEF Level
  <2> QED
    BY <1>3, <1>7, <1>10, <2>1 DEF Settled, NoEmptyRun
<1>13. PICK c \in 2..(r + 1), x \in 2..(r + 1) : c = ClosedOf(s) /\ x = ClosedOf(w)
  BY <1>1, <1>3, <1>4, ClosedIs
<1>14. \A k \in 2..r : /\ k >= c <=> s.roll[k]
                       /\ k >= x <=> w.roll[k]
  BY <1>1, <1>3, <1>4, <1>13, ClosedIs
<1>15. \A k \in 2..r : k >= x <=> (k >= c \/ k >= d)
  <2> TAKE k \in 2..r
  <2>1. k \in 1..r
    BY <1>4
  <2> QED
    BY <1>8, <1>14, <2>1, Zenon
<1>16. x = IF d <= c THEN d ELSE c
  <2>1. d \in 2..r
    BY <1>4
  <2>2. x \in 2..r => x >= c \/ x >= d
    BY <1>4, <1>13, <1>15
  <2>3. c \in 2..r => c >= x
    BY <1>4, <1>13, <1>15
  <2>4. d >= x
    BY <1>4, <1>13, <1>15, <2>1
  <2> QED
    BY <1>4, <1>13, <2>1, <2>2, <2>3, <2>4
<1>17. Min({d, c}) = x
  <2>1. {d, c} \subseteq Nat /\ x \in {d, c} /\ \A y \in {d, c} : x <= y
    BY <1>4, <1>13, <1>16
  <2>2. PICK S : S = {d, c}
    OBVIOUS
  <2>3. S \subseteq Nat /\ x \in S /\ \A y \in S : x <= y
    BY <2>1, <2>2
  <2>4. Min(S) = x
    BY <2>3, MinIs
  <2> QED
    BY <2>2, <2>4
<1> QED
  BY <1>2, <1>10, <1>11, <1>12, <1>13, <1>17 DEF MarksIn

\* DasAry_clear
Empties(w, sh) ==
  /\ Settled(w, sh) /\ DOMAIN CellOf(w) = {}
  /\ LastAddr(w) = [k \in 1..Len(sh) |-> IF k = Len(sh) THEN -1 ELSE 0]
  /\ ClosedOf(w) = Len(sh) + 1

\* An array without elements has no addresses.
LEMMA NoAddress ==
  ASSUME NEW sh \in Seq(Nat), sh # <<>>, NEW s, Sound(s, sh), s.elem = <<>>
  PROVE  AddressesOf(s) = {}
<1>1. PICK A : A = AddressesOf(s)
  OBVIOUS
<1>2. AddressesFit(s, sh, A)
  BY <1>1, AddressesAreFit
<1>3. \A a \in A : OffsetAt(s, a) \in Below(0)
  BY <1>2 DEF AddressesFit
<1>4. Below(0) = {}
  BY DEF Below
<1> QED
  BY <1>1, <1>3, <1>4

\* Clearing leaves no value and no mark.
LEMMA ClearMaps ==
  ASSUME NEW sh \in Seq(Nat), sh # <<>>, NEW s, Settled(s, sh)
  PROVE  Empties(Cleared(s), sh)
<1>1. Sound(s, sh) /\ s \in Arrays(sh)
  BY DEF Settled, Sound
<1>2. PICK w : w = Cleared(s)
  OBVIOUS
<1>3. Sound(w, sh) /\ w \in Arrays(sh) /\ RollsUp(w)
  <2>1. Sound(w, sh)
    BY <1>1, <1>2, ClearedSound
  <2> QED
    BY <2>1 DEF Sound
<1>4. PICK r \in Nat : r = Len(sh) /\ r > 0 /\ Rank(s) = r /\ Rank(w) = r
  BY <1>1, <1>3, ArrayIs
<1>5. /\ s.ibuf \in [1..(r - 1) -> Seq(Entries)] /\ s.roll \in [1..r -> BOOLEAN]
      /\ s.idx0 \in Entries
  BY <1>1, <1>4, ArrayIs
<1>6. /\ w.elem = <<>> /\ w.idx0.cnt = 0
      /\ w.ibuf = [k \in 1..(r - 1) |-> <<>>] /\ w.roll = [k \in 1..r |-> FALSE]
  <2>1. PICK ibuf, roll, none :
          ibuf = [k \in 1..(r - 1) |-> <<>>] /\ roll = [k \in 1..r |-> FALSE] /\ none = <<>>
    OBVIOUS
  <2>2. DOMAIN s.ibuf = 1..(r - 1) /\ DOMAIN s.roll = 1..r
    BY <1>5
  <2>3. PICK e : e = [s.idx0 EXCEPT !.cnt = 0]
    OBVIOUS
  <2>4. e.cnt = 0
    BY <1>5, <2>3 DEF Entries
  <2>5. w = [s EXCEPT !.idx0 = e, !.elem = none, !.ibuf = ibuf, !.roll = roll]
    BY <1>2, <2>1, <2>2, <2>3, Zenon DEF Cleared
  <2>6. w.elem = none /\ w.idx0 = e /\ w.ibuf = ibuf /\ w.roll = roll
    BY <1>1, <2>5 DEF Arrays
  <2> QED
    BY <2>1, <2>4, <2>6
<1>7. \A k \in 1..(r - 1) : Level(w, k) = <<>>
  BY <1>6 DEF Level
<1>8. \A k \in 0..(r - 1) : CntAt(w, k) = 0
  <2> TAKE k \in 0..(r - 1)
  <2>1. CASE k = 0
    <3>1. Level(w, 0) = <<w.idx0>>
      BY DEF Level
    <3> QED
      BY <1>6, <2>1, <3>1 DEF CntAt
  <2>2. CASE k # 0
    BY <1>7, <2>2 DEF CntAt
  <2> QED
    BY <2>1, <2>2
<1>9. LastAddr(w) = [k \in 1..r |-> IF k = r THEN -1 ELSE 0]
  <2>1. \A k \in 1..r : CntAt(w, k - 1) = 0
    BY <1>8
  <2> QED
    BY <1>4, <2>1 DEF LastAddr
<1>10. InExtent(w, sh)
  <2>1. \A j \in 2..Len(sh) : CntAt(w, j - 1) = 0 /\ sh[j] \in Nat
    BY <1>4, <1>8
  <2> QED
    BY <2>1 DEF InExtent
<1>11. NoEmptyRun(w, sh)
  BY <1>4, <1>7 DEF NoEmptyRun
<1>12. ClosedOf(w) = Len(sh) + 1
  <2>1. \A k \in 1..Len(sh) : w.roll[k] = FALSE
    BY <1>4, <1>6
  <2> QED
    BY <1>3, <2>1, ClosedNone
<1>13. DOMAIN CellOf(w) = {}
  BY <1>3, <1>6, NoAddress DEF CellOf
<1> QED
  BY <1>2, <1>3, <1>4, <1>9, <1>10, <1>11, <1>12, <1>13 DEF Empties, Settled

\* DasAry_putAt: the addresses from a on, the place of each of them, and the values then.
RestFrom(s, r, a) == {b \in AddressesOf(s) : ~Precedes(b, a, r)}
NthFrom(s, r, a, b) == Cardinality({c \in RestFrom(s, r, a) : Precedes(c, b, r)}) + 1
PutCells(s, r, a, vs) ==
  [b \in AddressesOf(s) |->
     IF b \in RestFrom(s, r, a) /\ NthFrom(s, r, a, b) <= Len(vs)
     THEN vs[NthFrom(s, r, a, b)] ELSE CellOf(s)[b]]
RestIs(s, r, a, o) ==
  /\ Cardinality(RestFrom(s, r, a)) = Len(s.elem) - o
  /\ \A b \in AddressesOf(s) : b \in RestFrom(s, r, a) <=> OffsetAt(s, b) >= o
  /\ \A b \in RestFrom(s, r, a) : NthFrom(s, r, a, b) = OffsetAt(s, b) - o + 1

\* Their places are those of their elements.
LEMMA PlacesFrom ==
  ASSUME NEW sh \in Seq(Nat), sh # <<>>, NEW s, Sound(s, sh), NEW a \in AddressesOf(s),
         NEW o, o = OffsetAt(s, a)
  PROVE  RestIs(s, Len(sh), a, o)
<1>1. PICK A : A = AddressesOf(s)
  OBVIOUS
<1>2. AddressesFit(s, sh, A)
  BY <1>1, AddressesAreFit
<1>3. s.elem \in Seq(Vals \cup {FillVal})
  BY ArrayIs DEF Sound
<1>4. PICK v \in Nat : v = Len(s.elem)
  BY <1>3
<1>5. \A b \in A : OffsetAt(s, b) \in 0..(v - 1)
  BY <1>2, <1>4 DEF AddressesFit, Below
<1>6. o \in 0..(v - 1) /\ a \in A
  BY <1>1, <1>5
<1>7. PICK r : r = Len(sh)
  OBVIOUS
<1>8. \A b, c \in A : Precedes(b, c, r) <=> OffsetAt(s, b) < OffsetAt(s, c)
  BY <1>2, <1>7 DEF AddressesFit
<1>9. PICK R : R = {b \in A : ~Precedes(b, a, r)}
  OBVIOUS
<1>10. \A b \in A : b \in R <=> OffsetAt(s, b) >= o
  <2> TAKE b \in A
  <2>1. b \in R <=> ~(OffsetAt(s, b) < o)
    BY <1>6, <1>8, <1>9
  <2> QED
    BY <1>5, <1>6, <2>1
<1>11. R = {b \in A : o <= OffsetAt(s, b) /\ OffsetAt(s, b) < v}
  <2>1. R \subseteq A
    BY <1>9
  <2>2. \A b \in A : OffsetAt(s, b) >= o <=> (o <= OffsetAt(s, b) /\ OffsetAt(s, b) < v)
    BY <1>4, <1>5, <1>6
  <2> QED
    BY <1>10, <2>1, <2>2
<1>12. Cardinality(R) = v - o
  <2>1. o \in Nat /\ v \in Nat /\ o <= v /\ v <= Len(s.elem) /\ Len(s.elem) \in Nat
    BY <1>4, <1>6
  <2> QED
    BY <1>2, <1>11, <2>1, AddressCount
<1>13. ASSUME NEW b \in R
       PROVE  Cardinality({c \in R : Precedes(c, b, r)}) + 1 = OffsetAt(s, b) - o + 1
  <2>1. b \in A
    BY <1>9
  <2>2. PICK h : h = OffsetAt(s, b)
    OBVIOUS
  <2>3. h \in 0..(v - 1) /\ o <= h
    BY <1>5, <1>6, <1>10, <2>1, <2>2
  <2>4. PICK T : T = {c \in R : Precedes(c, b, r)}
    OBVIOUS
  <2>5. T = {c \in A : o <= OffsetAt(s, c) /\ OffsetAt(s, c) < h}
    <3>1. \A c \in A : c \in T <=> (o <= OffsetAt(s, c) /\ OffsetAt(s, c) < h)
      <4> TAKE c \in A
      <4>1. c \in T <=> (OffsetAt(s, c) >= o /\ OffsetAt(s, c) < h)
        BY <1>8, <1>10, <2>1, <2>2, <2>4
      <4> QED
        BY <1>5, <1>6, <4>1
    <3>2. T \subseteq A
      BY <1>9, <2>4
    <3> QED
      BY <3>1, <3>2
  <2>6. o \in Nat /\ h \in Nat /\ h <= Len(s.elem) /\ Len(s.elem) \in Nat
    BY <1>4, <1>6, <2>3
  <2>7. Cardinality(T) = h - o
    BY <1>2, <2>3, <2>5, <2>6, AddressCount
  <2> QED
    BY <2>2, <2>4, <2>7
<1>14. RestFrom(s, r, a) = R
  BY <1>1, <1>9 DEF RestFrom
<1> QED
  BY <1>1, <1>4, <1>7, <1>10, <1>12, <1>13, <1>14 DEF RestIs, NthFrom

\* The values put over the old ones.
PutsOver(s, w, sh, a, vs) ==
  /\ Settled(w, sh) /\ LastAddr(w) = LastAddr(s) /\ ClosedOf(w) = ClosedOf(s)
  /\ a \in AddressesOf(s) /\ Len(vs) <= Cardinality(RestFrom(s, Len(sh), a))
  /\ CellOf(w) = PutCells(s, Len(sh), a, vs)

\* Every write that is not refused does that, from the address its location stands for.
LEMMA PutMaps ==
  ASSUME NEW sh \in Seq(Nat), sh # <<>>, NEW s, Settled(s, sh), NEW loc \in Seq(Int),
         Len(loc) = Len(sh), NEW vs \in Seq({FillVal}), PutAble(s, loc, vs)
  PROVE  \E a \in AddressesOf(s) : PutsOver(s, Written(s, loc, vs), sh, a, vs)
<1>1. Sound(s, sh) /\ s \in Arrays(sh)
  BY DEF Settled, Sound
<1>2. PICK w : w = Written(s, loc, vs)
  OBVIOUS
<1>3. Sound(w, sh) /\ w \in Arrays(sh)
  <2>1. Sound(w, sh)
    BY <1>1, <1>2, WrittenSound
  <2> QED
    BY <2>1 DEF Sound
<1>4. PICK r \in Nat : r = Len(sh) /\ r > 0 /\ Rank(s) = r /\ Rank(w) = r
  BY <1>1, <1>3, ArrayIs
<1>5. PICK o : o = OffsetAt(s, loc)
  OBVIOUS
<1>6. s.elem \in Seq(Vals \cup {FillVal})
  BY <1>1, ArrayIs
<1>7. PICK v \in Nat, n \in Nat : v = Len(s.elem) /\ n = Len(vs) /\ DOMAIN s.elem = 1..v
  <2>1. Len(s.elem) \in Nat /\ DOMAIN s.elem = 1..Len(s.elem)
    BY <1>6
  <2>2. Len(vs) \in Nat
    OBVIOUS
  <2> QED
    BY <2>1, <2>2
<1>8. o \in 0..(v - 1) /\ o + n <= v
  <2>1. LooksUp(LookupOf(s, loc), s, loc, r) /\ r \in 0..r
    BY <1>1, <1>4, LookupAny
  <2>2. o \in Offsets(s, r)
    BY <1>4, <1>5, <2>1, OffsetIs DEF LooksUp
  <2>3. Items(s, r) = v
    BY <1>4, <1>7 DEF Items
  <2>4. o # -1 /\ o + n <= v
    BY <1>5, <1>7 DEF PutAble
  <2> QED
    BY <2>2, <2>3, <2>4 DEF Offsets, Below
<1>9. PICK A : A = AddressesOf(s)
  OBVIOUS
<1>10. AddressesFit(s, sh, A)
  BY <1>1, <1>9, AddressesAreFit
<1>11. PICK a \in A : OffsetAt(s, a) = o
  <2>1. o \in Below(Len(s.elem))
    BY <1>7, <1>8 DEF Below
  <2> QED
    BY <1>10, <2>1 DEF AddressesFit
<1>12. RestIs(s, r, a, o)
  BY <1>1, <1>4, <1>9, <1>11, PlacesFrom
<1>13. PICK new : new = [i \in 1..v |-> IF i - o \in 1..n THEN vs[i - o] ELSE s.elem[i]]
  OBVIOUS
<1>14. w.elem = new /\ w.idx0 = s.idx0 /\ w.ibuf = s.ibuf /\ w.roll = s.roll
  <2>1. w = [s EXCEPT !.elem = new]
    BY <1>2, <1>5, <1>7, <1>13, Zenon DEF Written
  <2> QED
    BY <1>1, <2>1 DEF Arrays
<1>15. Len(w.elem) = v
  <2>1. w.elem \in Seq(Vals \cup {FillVal})
    BY <1>3, ArrayIs
  <2>2. DOMAIN w.elem = 1..v
    BY <1>13, <1>14
  <2> QED
    BY <1>7, <2>1, <2>2
<1>16. SameIndex(s, w)
  BY <1>7, <1>14, <1>15 DEF SameIndex
<1>17. /\ AddressesOf(w) = A /\ LastAddr(w) = LastAddr(s)
       /\ \A b \in A : OffsetAt(w, b) = OffsetAt(s, b)
       /\ InExtent(s, sh) => InExtent(w, sh)
  BY <1>1, <1>3, <1>9, <1>16, SameAddresses
<1>18. ClosedOf(w) = ClosedOf(s)
  BY <1>4, <1>14 DEF ClosedOf
<1>19. Settled(w, sh)
  <2>1. \A k : Level(w, k) = Level(s, k)
    BY <1>14 DEF Level
  <2>2. w.elem = <<>> => s.elem = <<>>
    BY <1>6, <1>7, <1>15
  <2> QED
    BY <1>3, <1>17, <2>1, <2>2 DEF Settled, NoEmptyRun
<1>20. PICK R : R = RestFrom(s, r, a)
  OBVIOUS
<1>21. /\ Cardinality(R) = v - o
       /\ \A b \in A : b \in R <=> OffsetAt(s, b) >= o
       /\ \A b \in R : NthFrom(s, r, a, b) = OffsetAt(s, b) - o + 1
  BY <1>7, <1>9, <1>12, <1>20 DEF RestIs
<1>22. ASSUME NEW b \in A
       PROVE  w.elem[OffsetAt(w, b) + 1]
              = IF b \in R /\ NthFrom(s, r, a, b) <= n
                THEN vs[NthFrom(s, r, a, b)] ELSE CellOf(s)[b]
  <2>1. PICK h : h = OffsetAt(s, b)
    OBVIOUS
  <2>2. h \in 0..(v - 1)
    BY <1>7, <1>10, <2>1 DEF AddressesFit, Below
  <2>3. PICK i : i = h + 1 /\ i \in 1..v
    BY <1>7, <2>2
  <2>4. w.elem[i] = IF i - o \in 1..n THEN vs[i - o] ELSE s.elem[i]
    BY <1>13, <1>14, <2>3
  <2>5. CellOf(s)[b] = s.elem[i]
    BY <1>9, <2>1, <2>3 DEF CellOf
  <2>6. w.elem[OffsetAt(w, b) + 1] = w.elem[i]
    BY <1>17, <2>1, <2>3
  <2>7. CASE h >= o
    <3>1. b \in R
      BY <1>21, <2>1, <2>7
    <3>2. PICK x : x = NthFrom(s, r, a, b)
      OBVIOUS
    <3>3. x = i - o
      BY <1>8, <1>21, <2>1, <2>2, <2>3, <3>1, <3>2
    <3>4. x \in 1..n <=> x <= n
      BY <1>7, <1>8, <2>2, <2>3, <2>7, <3>3
    <3>5. w.elem[i] = IF x <= n THEN vs[x] ELSE s.elem[i]
      BY <2>4, <3>3, <3>4
    <3> QED
      BY <2>5, <2>6, <3>1, <3>2, <3>5
  <2>8. CASE ~(h >= o)
    <3>1. b \notin R
      BY <1>21, <2>1, <2>8
    <3>2. i - o \notin 1..n
      BY <1>7, <1>8, <2>2, <2>3, <2>8
    <3> QED
      BY <2>4, <2>5, <2>6, <3>1, <3>2
  <2> QED
    BY <2>7, <2>8
<1>23. CellOf(w) = PutCells(s, r, a, vs)
  <2>1. CellOf(w) = [b \in A |-> w.elem[OffsetAt(w, b) + 1]]
    BY <1>17 DEF CellOf
  <2>2. PutCells(s, r, a, vs) =
          [b \in A |-> IF b \in R /\ NthFrom(s, r, a, b) <= n
                       THEN vs[NthFrom(s, r, a, b)] ELSE CellOf(s)[b]]
    BY <1>7, <1>9, <1>20, Zenon DEF PutCells
  <2> QED
    BY <1>22, <2>1, <2>2
<1>24. n <= v - o
  BY <1>7, <1>8
<1>25. PutsOver(s, w, sh, a, vs)
  BY <1>4, <1>7, <1>9, <1>17, <1>18, <1>19, <1>20, <1>21, <1>23, <1>24 DEF PutsOver
<1> QED
  BY <1>2, <1>9, <1>25

-----------------------------------------------------------------------------
(* Filling up, as the promise has it.                                        *)

\* The last run gets c fill values, and then is as long as the index allows.
FillsUp(s, u, sh, c) ==
  /\ Len(u.elem) = Len(s.elem) + c
  /\ \A i \in 1..Len(s.elem) : u.elem[i] = s.elem[i]
  /\ \A i \in (Len(s.elem) + 1)..Len(u.elem) : u.elem[i] = FillVal
  /\ u.roll = s.roll /\ Rooted(s, Len(sh)) /\ Rooted(u, Len(sh)) /\ Grows(s, u, Len(sh))
  /\ sh[Len(sh)] = CntAt(s, Len(sh) - 1) + c /\ CntAt(u, Len(sh) - 1) = sh[Len(sh)]
  /\ \A j \in 0..(Len(sh) - 1) : j # Len(sh) - 1 => CntAt(u, j) = CntAt(s, j)

\* DasAry_qubeIn of the last index does that, or nothing.
LEMMA QubeFills ==
  ASSUME NEW sh \in Seq(Nat), sh # <<>>, NEW s, Sound(s, sh)
  PROVE  \/ Qubed(s, Len(sh)) = s
         \/ \E c \in Nat : c > 0 /\ FillsUp(s, Qubed(s, Len(sh)), sh, c)
<1>1. s \in Arrays(sh) /\ Chain(s, Len(sh), Len(s.elem)) /\ RollsUp(s)
  BY DEF Sound
<1>2. PICK r \in Nat : r = Len(sh) /\ r > 0 /\ Rank(s) = r
  BY <1>1, ArrayIs
<1>3. PICK k \in Nat : k = r - 1 /\ k \in 0..(r - 1) /\ k \in 0..(Len(sh) - 1)
  <2>1. r - 1 \in Nat /\ r - 1 \in 0..(r - 1)
    BY <1>2
  <2> QED
    BY <1>2, <2>1
<1>4. PICK V : V = Vals \cup {FillVal}
  OBVIOUS
<1>5. s.elem \in Seq(V)
  BY <1>1, <1>4, ArrayIs
<1>6. PICK m \in Nat : m = Len(s.elem)
  BY <1>5
<1>7. PICK x \in Nat : x = sh[r] /\ x = s.shape[r]
  <2>1. r \in 1..Len(sh)
    BY <1>2
  <2> QED
    BY <1>1, <2>1, ArrayIs
<1>8. PICK run : run = LastRun(s, r)
  OBVIOUS
<1>9. PICK u : u = Qubed(s, r)
  OBVIOUS
<1>10. u = s \/ (run # -1 /\ u = FillRun(s, r, run, <<>>))
  BY <1>2, <1>8, <1>9, QubedIs
<1>11. ASSUME run # -1, u = FillRun(s, r, run, <<>>), u # s
       PROVE  \E c \in Nat : c > 0 /\ FillsUp(s, u, sh, c)
  <2>1. run = Place(s, k) /\ Level(s, k) # <<>>
    <3>1. run \in LastOrNone(s, k)
      BY <1>1, <1>2, <1>3, <1>8, LastRunIs
    <3> QED
      BY <1>11, <3>1 DEF LastOrNone
  <2>2. Parent(s, k, run) = LastOf(s, k) /\ Parent(s, k, run) \in Entries
    BY <1>1, <1>2, <1>3, <2>1, LastIs
  <2>3. PICK b \in Nat : b = Parent(s, k, run).cnt /\ b = CntAt(s, k)
    <3>1. Parent(s, k, run).cnt = CntAt(s, k) /\ CntAt(s, k) \in Nat
      BY <1>1, <1>3, <2>1, <2>2, CntAtIs
    <3> QED
      BY <3>1
  <2>4. PICK need \in Int : need = x - b
    BY <2>3
  <2>5. PICK w : w = WithCnt(s, k, run, x)
    OBVIOUS
  <2>6. PICK fill : fill = [i \in 1..need |-> FillVal]
    OBVIOUS
  <2>7. u = IF need <= 0 THEN s ELSE [w EXCEPT !.elem = @ \o fill]
    <3>1. FillRun(s, r, run, <<>>) = FilledUp(s, r, run)
      BY <1>2, FillLast
    <3>2. s.shape[r] - Parent(s, r - 1, run).cnt = need
      BY <1>3, <1>7, <2>3, <2>4
    <3>3. WithCnt(s, r - 1, run, s.shape[r]) = w
      BY <1>3, <1>7, <2>5
    <3> QED
      BY <1>11, <2>6, <3>1, <3>2, <3>3, Zenon DEF FilledUp
  <2>8. PICK c \in Nat : c = need /\ c > 0 /\ x = b + c
    <3>1. ~(need <= 0)
      BY <1>11, <2>7
    <3> QED
      BY <2>3, <2>4, <3>1
  <2>9. Rooted(s, Len(sh))
    <3>1. ASSUME NEW j \in 0..(Len(sh) - 1), Level(s, j) = <<>>
          PROVE  FALSE
      <4>1. Level(s, Len(sh) - 1) = <<>>
        BY <1>1, <1>6, <3>1, EmptyBelow
      <4> QED
        BY <1>2, <1>3, <2>1, <4>1
    <3> QED
      BY <3>1 DEF Rooted
  <2>10. Counted(s, w, sh, k, c)
    <3>1. x = LastOf(s, k).cnt + c
      BY <2>2, <2>3, <2>8
    <3> QED
      BY <1>1, <1>3, <2>1, <2>5, <3>1, WithCntLast
  <2>11. /\ CntAt(w, k) = CntAt(s, k) + c
         /\ \A j \in 0..(Len(sh) - 1) : j # k => CntAt(w, j) = CntAt(s, j)
         /\ Grows(s, w, Len(sh))
    BY <1>1, <1>3, <2>9, <2>10, CountedCounts
  <2>12. w \in Arrays(sh) /\ w.elem = s.elem /\ w.roll = s.roll
    BY <2>10 DEF Counted
  <2>13. fill \in Seq(V) /\ Len(fill) = c
    <3>1. fill \in [1..c -> V]
      BY <1>4, <2>6, <2>8
    <3> QED
      BY <2>8, <3>1
  <2>14. PICK es \in Seq(V) :
           /\ es = s.elem \o fill /\ Len(es) = m + c
           /\ \A i \in 1..(m + c) : es[i] = IF i <= m THEN s.elem[i] ELSE fill[i - m]
    <3>1. PICK old \in Seq(V) : old = s.elem
      BY <1>5
    <3>2. /\ old \o fill \in Seq(V) /\ Len(old \o fill) = Len(old) + Len(fill)
          /\ \A i \in 1..(Len(old) + Len(fill)) :
               (old \o fill)[i] = IF i <= Len(old) THEN old[i] ELSE fill[i - Len(old)]
      BY <2>13, ConcatProperties
    <3>3. PICK es : es = old \o fill
      OBVIOUS
    <3>4. /\ es \in Seq(V) /\ es = s.elem \o fill /\ Len(es) = m + c
          /\ \A i \in 1..(m + c) : es[i] = IF i <= m THEN s.elem[i] ELSE fill[i - m]
      BY <1>6, <2>13, <3>1, <3>2, <3>3
    <3> QED
      BY <3>4
  <2>15. u = [w EXCEPT !.elem = es]
    BY <2>7, <2>8, <2>12, <2>14
  <2>16. /\ u \in Arrays(sh) /\ u.elem = es /\ u.roll = s.roll
         /\ u.ibuf = w.ibuf /\ u.idx0 = w.idx0
    BY <1>4, <2>12, <2>15 DEF Arrays
  <2>17. \A j : Level(u, j) = Level(w, j)
    BY <2>16 DEF Level
  <2>18. \A j : CntAt(u, j) = CntAt(w, j)
    BY <2>17 DEF CntAt
  <2>19. Grows(s, u, Len(sh))
    BY <2>11, <2>17 DEF Grows
  <2>20. Rooted(u, Len(sh))
    <3>1. ASSUME NEW j \in 0..(Len(sh) - 1)
          PROVE  Level(u, j) # <<>>
      <4>1. PICK a, e : a = Level(s, j) /\ e = Level(u, j)
        OBVIOUS
      <4>2. a \in Seq(Entries) /\ e \in Seq(Entries) /\ a # <<>> /\ Len(a) <= Len(e)
        BY <1>1, <1>2, <2>9, <2>16, <2>19, <4>1, ArrayIs DEF Rooted, Grows
      <4> QED
        BY <4>1, <4>2
    <3> QED
      BY <3>1 DEF Rooted
  <2>21. \A i \in 1..m : u.elem[i] = s.elem[i]
    BY <2>14, <2>16
  <2>22. \A i \in (m + 1)..(m + c) : u.elem[i] = FillVal
    <3> TAKE i \in (m + 1)..(m + c)
    <3>1. i \in 1..(m + c) /\ ~(i <= m) /\ i - m \in 1..c
      OBVIOUS
    <3>2. u.elem[i] = fill[i - m]
      BY <2>14, <2>16, <3>1
    <3> QED
      BY <2>6, <2>8, <3>1, <3>2
  <2>23. FillsUp(s, u, sh, c)
    <3>1. Len(u.elem) = m + c
      BY <2>14, <2>16
    <3>2. sh[r] = CntAt(s, k) + c /\ CntAt(u, k) = sh[r]
      BY <1>7, <2>3, <2>8, <2>11, <2>18
    <3>3. \A j \in 0..(Len(sh) - 1) : j # k => CntAt(u, j) = CntAt(s, j)
      BY <2>11, <2>18
    <3> QED
      BY <1>2, <1>3, <1>6, <2>9, <2>16, <2>19, <2>20, <2>21, <2>22, <3>1, <3>2, <3>3 DEF FillsUp
  <2> QED
    BY <2>8, <2>23
<1> QED
  BY <1>2, <1>9, <1>10, <1>11

\* DasAry_qubeIn, for the last index: the run of the address written last.
RunOf(s, sh) == {LastAt(LastAddr(s), Len(sh), x) : x \in Below(sh[Len(sh)])}
FillCells(s, sh) == [a \in RunOf(s, sh) |-> FillVal]
FillsRun(s, w, sh) ==
  /\ Settled(w, sh) /\ sh[Len(sh)] > 0 /\ ClosedOf(w) = ClosedOf(s)
  /\ LastAddr(w) = LastAt(LastAddr(s), Len(sh), sh[Len(sh)] - 1)
  /\ DOMAIN CellOf(s) # {} /\ GainsCells(s, w, FillCells(s, sh))

\* It fills up that run, or the array stays as it was.
LEMMA QubeMaps ==
  ASSUME NEW sh \in Seq(Nat), sh # <<>>, Len(sh) > 1, NEW s, Settled(s, sh)
  PROVE  Qubed(s, Len(sh)) = s \/ FillsRun(s, Qubed(s, Len(sh)), sh)
<1>1. Sound(s, sh) /\ s \in Arrays(sh) /\ Chain(s, Len(sh), Len(s.elem)) /\ InExtent(s, sh)
  BY DEF Settled, Sound
<1>2. PICK w : w = Qubed(s, Len(sh))
  OBVIOUS
<1>3. Sound(w, sh) /\ w \in Arrays(sh) /\ Chain(w, Len(sh), Len(w.elem)) /\ RollsUp(w)
  <2>1. Sound(w, sh)
    BY <1>1, <1>2, QubedSound
  <2> QED
    BY <2>1 DEF Sound
<1>4. SUFFICES ASSUME w # s PROVE FillsRun(s, w, sh)
  BY <1>2
<1>5. PICK c \in Nat : c > 0 /\ FillsUp(s, w, sh, c)
  BY <1>1, <1>2, <1>4, QubeFills
<1>6. PICK r \in Nat : r = Len(sh) /\ r > 1 /\ Rank(s) = r /\ Rank(w) = r
  BY <1>1, <1>3, ArrayIs
<1>7. PICK k \in Nat : k = r - 1 /\ k \in 0..(Len(sh) - 1)
  BY <1>6
<1>8. PICK b \in Nat, e \in Nat, v \in Nat :
        /\ b = CntAt(s, k) /\ e = sh[r] /\ e = b + c /\ v = Len(s.elem)
        /\ Len(w.elem) = v + c /\ CntAt(w, k) = e
  <2>1. CntAt(s, k) \in Nat
    BY <1>1, <1>7, CntAtIs
  <2>2. s.elem \in Seq(Vals \cup {FillVal})
    BY <1>1, ArrayIs
  <2>3. Len(s.elem) \in Nat
    BY <2>2
  <2>4. /\ sh[r] = CntAt(s, k) + c /\ CntAt(w, k) = sh[r]
        /\ Len(w.elem) = Len(s.elem) + c
    BY <1>5, <1>6, <1>7 DEF FillsUp
  <2>5. sh[r] \in Nat
    BY <2>1, <2>4
  <2> QED
    BY <2>1, <2>3, <2>4, <2>5
<1>36. b \in Int /\ c \in Int /\ v \in Int /\ e = b + c /\ b >= 0 /\ c > 0 /\ v >= 0
  BY <1>5, <1>8
<1>9. \A j \in 0..(r - 1) : j # k => CntAt(w, j) = CntAt(s, j)
  BY <1>5, <1>6, <1>7 DEF FillsUp
<1>10. Rooted(s, Len(sh)) /\ Rooted(w, Len(sh))
  BY <1>5 DEF FillsUp
<1>11. PICK a : a = LastAddr(s)
  OBVIOUS
<1>12. \A j \in 1..r : LastAddr(s)[j] = CntAt(s, j - 1) - 1
  BY <1>1, <1>6, <1>10, LastAddrIs
<1>13. \A j \in 1..r : LastAddr(w)[j] = CntAt(w, j - 1) - 1
  BY <1>3, <1>6, <1>10, LastAddrIs
<1>14. \A j \in 1..(r - 1) : /\ CntAt(w, j - 1) = CntAt(s, j - 1)
                             /\ a[j] = LastAddr(w)[j] /\ a[j] = CntAt(w, j - 1) - 1
  <2> TAKE j \in 1..(r - 1)
  <2>1. j - 1 \in 0..(r - 1) /\ j - 1 # k /\ j \in 1..r
    BY <1>6, <1>7
  <2> QED
    BY <1>9, <1>11, <1>12, <1>13, <2>1
<1>15. LastAddr(w) = LastAt(a, r, e - 1)
  <2>1. \A j \in 1..(Len(sh) - 1) : a[j] = LastAddr(w)[j]
    BY <1>6, <1>14
  <2>2. LastAddr(w) = LastAt(a, Len(sh), CntAt(w, Len(sh) - 1) - 1)
    BY <1>3, <1>10, <2>1, LastAddrAt
  <2> QED
    BY <1>6, <1>7, <1>8, <2>2
<1>16. ToLast(a, w, Len(sh))
  BY <1>6, <1>14 DEF ToLast
<1>17. ASSUME NEW x \in Nat, x < e
       PROVE  /\ LastAt(a, r, x) \in Seq(Nat) /\ Len(LastAt(a, r, x)) = r
              /\ OffsetAt(w, LastAt(a, r, x)) = v - b + x
  <2>1. PICK d : d = LastAt(a, Len(sh), x)
    OBVIOUS
  <2>2. x < CntAt(w, Len(sh) - 1)
    BY <1>6, <1>7, <1>8, <1>17
  <2>3. InLast(w, d, Len(sh), x)
    BY <1>3, <1>10, <1>16, <2>1, <2>2, CountedOffset
  <2>4. OffsetAt(w, d) = v + c - e + x
    BY <1>6, <1>7, <1>8, <2>3, SMTT(40) DEF InLast
  <2> QED
    BY <1>6, <1>8, <2>1, <2>3, <2>4, SMTT(40) DEF InLast
<1>18. b <= v /\ v > 0
  <2>1. PICK es \in Seq(Entries) : es = Level(s, k) /\ es # <<>> /\ Tiles(es, v)
    BY <1>1, <1>6, <1>7, <1>8, <1>10, ArrayIs DEF Rooted, Chain
  <2>2. PICK q \in Entries : q = es[Len(es)] /\ q.cnt = b
    BY <1>1, <1>7, <1>8, <2>1, CntAtIs
  <2>3. End(q) <= v
    <3>1. Len(es) \in 1..Len(es)
      BY <2>1
    <3> QED
      BY <2>1, <2>2, <3>1 DEF Tiles
  <2>4. q.off \in Nat
    BY DEF Entries
  <2>5. v # 0
    <3> SUFFICES ASSUME v = 0 PROVE FALSE
      OBVIOUS
    <3>1. s.elem \in Seq(Vals \cup {FillVal})
      BY <1>1, ArrayIs
    <3>2. s.elem = <<>>
      BY <1>8, <3>1
    <3>3. Level(s, k) = <<>>
      BY <1>5, <1>6, <1>7, <1>8, <3>2 DEF Settled, NoEmptyRun
    <3> QED
      BY <2>1, <3>3
  <2>6. q.off + b <= v
    BY <2>2, <2>3 DEF End
  <2> QED
    BY <1>8, <2>4, <2>5, <2>6, SMTT(40)
<1>19. KeepsAll(s, w, sh)
  <2>1. \A i \in 1..Len(s.elem) : w.elem[i] = s.elem[i]
    BY <1>5 DEF FillsUp
  <2>2. Grows(s, w, Len(sh))
    BY <1>5 DEF FillsUp
  <2>3. ASSUME NEW d \in Seq(Nat), Len(d) = Len(sh), OffsetAt(s, d) # -1
        PROVE  OffsetAt(w, d) = OffsetAt(s, d)
    BY <1>1, <1>3, <2>2, <2>3, OffsetStays
  <2> QED
    BY <1>8, <2>1, <2>3 DEF KeepsAll
<1>20. PICK E : E = AddressesOf(w)
  OBVIOUS
<1>21. AddressesFit(w, sh, E)
  BY <1>3, <1>20, AddressesAreFit
<1>22. PICK D : D = {LastAt(a, r, x) : x \in Below(e)}
  OBVIOUS
<1>23. PICK g : g = [d \in D |-> FillVal]
  OBVIOUS
<1>24. FillCells(s, sh) = g
  BY <1>6, <1>8, <1>11, <1>22, <1>23 DEF FillCells, RunOf
<1>25. ASSUME NEW d \in D
       PROVE  \E x \in Nat : x < e /\ d = LastAt(a, r, x)
  BY <1>8, <1>22 DEF Below
<1>26. D \subseteq E
  <2> SUFFICES ASSUME NEW d \in D PROVE d \in E
    OBVIOUS
  <2>1. PICK x \in Nat : x < e /\ d = LastAt(a, r, x)
    BY <1>25
  <2>2. d \in Seq(Nat) /\ Len(d) = Len(sh) /\ OffsetAt(w, d) = v - b + x
    BY <1>6, <1>17, <2>1
  <2>3. v - b + x # -1
    BY <1>8, <1>18, SMTT(40)
  <2> QED
    BY <1>21, <2>2, <2>3 DEF AddressesFit
<1>27. ASSUME NEW o \in Below(Len(w.elem)), o >= v
       PROVE  \E d \in D : OffsetAt(w, d) = o
  <2>1. o \in 0..(v + c - 1)
    BY <1>8 DEF Below
  <2>2. PICK x \in Nat : x = o - v + b
    BY <1>8, <1>27, <2>1
  <2>3. x < e /\ v - b + x = o
    BY <1>27, <1>36, <2>1, <2>2
  <2>4. LastAt(a, r, x) \in D
    BY <1>8, <1>22, <2>3 DEF Below
  <2>5. OffsetAt(w, LastAt(a, r, x)) = o
    BY <1>17, <2>3
  <2> QED
    BY <2>4, <2>5
<1>28. ASSUME NEW d \in D, OffsetAt(w, d) >= v
       PROVE  w.elem[OffsetAt(w, d) + 1] = g[d]
  <2>1. PICK x \in Nat : x < e /\ d = LastAt(a, r, x)
    BY <1>25
  <2>2. OffsetAt(w, d) = v - b + x
    BY <1>17, <2>1
  <2>5. PICK i \in Int : i = OffsetAt(w, d) + 1 /\ i = v - b + x + 1
    BY <1>8, <2>1, <2>2, SMTT(40)
  <2>3. i \in (v + 1)..(v + c)
    BY <1>28, <1>36, <2>1, <2>2, <2>5
  <2>4. w.elem[i] = FillVal
    BY <1>5, <1>8, <2>3 DEF FillsUp
  <2> QED
    BY <1>23, <2>4, <2>5
<1>29. Adds(s, w, D, g)
  BY <1>8, <1>20, <1>26, <1>27, <1>28 DEF Adds
<1>30. GainsCells(s, w, g)
  <2>1. D = DOMAIN g
    BY <1>23
  <2> QED
    BY <1>1, <1>3, <1>19, <1>29, <2>1, CellGrows DEF GainsCells
<1>31. DOMAIN CellOf(s) # {}
  <2>1. PICK A : A = AddressesOf(s)
    OBVIOUS
  <2>2. AddressesFit(s, sh, A)
    BY <1>1, <2>1, AddressesAreFit
  <2>3. 0 \in Below(Len(s.elem))
    BY <1>8, <1>18 DEF Below
  <2>4. \E d \in A : OffsetAt(s, d) = 0
    BY <2>2, <2>3 DEF AddressesFit
  <2>5. DOMAIN CellOf(s) = A
    BY <2>1 DEF CellOf
  <2> QED
    BY <2>4, <2>5
<1>32. InExtent(w, sh)
  <2> SUFFICES ASSUME NEW j \in 2..Len(sh), sh[j] > 0
               PROVE  CntAt(w, j - 1) <= sh[j]
    BY DEF InExtent
  <2>1. CASE j = r
    <3>1. CntAt(w, j - 1) = e /\ sh[j] = e
      BY <1>7, <1>8, <2>1
    <3> QED
      BY <1>36, <3>1
  <2>2. CASE j # r
    <3>1. j \in 1..(r - 1)
      BY <1>6, <2>2
    <3>2. CntAt(w, j - 1) = CntAt(s, j - 1)
      BY <1>14, <3>1
    <3>3. CntAt(s, j - 1) <= sh[j]
      BY <1>1 DEF InExtent
    <3> QED
      BY <3>2, <3>3
  <2> QED
    BY <2>1, <2>2
<1>33. NoEmptyRun(w, sh)
  <2>1. w.elem # <<>>
    <3>1. Len(w.elem) # 0
      BY <1>8, <1>18
    <3> QED
      BY <3>1
  <2> QED
    BY <2>1 DEF NoEmptyRun
<1>34. ClosedOf(w) = ClosedOf(s)
  <2>1. w.roll = s.roll
    BY <1>5 DEF FillsUp
  <2> QED
    BY <1>6, <2>1 DEF ClosedOf
<1>35. sh[Len(sh)] > 0
  BY <1>5, <1>6, <1>8
<1> QED
  BY <1>3, <1>6, <1>8, <1>11, <1>15, <1>24, <1>30, <1>31, <1>32, <1>33, <1>34, <1>35
     DEF FillsRun, Settled

-----------------------------------------------------------------------------
(* A new array, as the promise has it.                                       *)

\* RaggedArray's First, Box(1) and first value of cell, for a shape.
FirstAddr(sh) ==
  [k \in 1..Len(sh) |-> IF \A j \in 1..k : sh[j] > 0 THEN sh[k] - 1
                        ELSE IF k = Len(sh) THEN -1 ELSE 0]
BoxOf(sh) ==
  {a \in [1..Len(sh) -> UNION {Below(sh[j]) : j \in 1..Len(sh)}] :
     \A j \in 1..Len(sh) : a[j] \in Below(sh[j])}
NewCell(sh) ==
  IF \E k \in 1..Len(sh) : sh[k] = 0 THEN <<>> ELSE [a \in BoxOf(sh) |-> FillVal]

\* A level of a new array has items when all extents so far are fixed.
LEMMA CountsPositive ==
  ASSUME NEW sh \in Seq(Nat), sh # <<>>, NEW s, NewLevels(s, sh)
  PROVE  \A k \in 0..Len(sh) : /\ Counts(sh)[k] \in Nat
                               /\ Counts(sh)[k] > 0 <=> \A j \in 1..k : sh[j] > 0
<1>1. PICK r \in Nat : r = Len(sh) /\ r > 0
  OBVIOUS
<1>2. PICK n : n = Counts(sh)
  OBVIOUS
<1>3. n[0] = 1
  BY <1>2 DEF NewLevels
<1>4. ASSUME NEW d \in 1..r
      PROVE  n[d] \in Nat /\ n[d - 1] \in Nat /\ sh[d] \in Nat /\ n[d] = n[d - 1] * sh[d]
  <2>1. PICK k \in 0..(r - 1) : k = d - 1 /\ k + 1 = d
    OBVIOUS
  <2>2. n[k] \in Nat /\ sh[k + 1] \in Nat /\ n[k + 1] = n[k] * sh[k + 1]
    BY <1>1, <1>2 DEF NewLevels
  <2>3. \A x, y \in Nat : x * y \in Nat
    OBVIOUS
  <2> QED
    BY <2>1, <2>2, <2>3
<1>5. \A k \in 0..r : n[k] \in Nat
  BY <1>3, <1>4
<1>6. PICK Good : Good = {k \in 0..r : n[k] > 0 <=> \A j \in 1..k : sh[j] > 0}
  OBVIOUS
<1>7. 0 \in Good
  BY <1>1, <1>3, <1>6
<1>8. ASSUME NEW d \in 1..r, d - 1 \in Good
      PROVE  d \in Good
  <2>1. n[d - 1] > 0 <=> \A j \in 1..(d - 1) : sh[j] > 0
    BY <1>6, <1>8
  <2>2. n[d] > 0 <=> (n[d - 1] > 0 /\ sh[d] > 0)
    <3>1. PICK x \in Nat, y \in Nat : x = n[d - 1] /\ y = sh[d] /\ n[d] = x * y
      BY <1>4
    <3>2. x * y > 0 <=> (x > 0 /\ y > 0)
      OBVIOUS
    <3> QED
      BY <3>1, <3>2
  <2>3. (\A j \in 1..d : sh[j] > 0) <=> ((\A j \in 1..(d - 1) : sh[j] > 0) /\ sh[d] > 0)
    <3>1. \A j : j \in 1..d <=> (j \in 1..(d - 1) \/ j = d)
      OBVIOUS
    <3> QED
      BY <3>1
  <2> QED
    BY <1>6, <2>1, <2>2, <2>3
<1>9. 0..r \subseteq Good
  BY <1>7, <1>8, IntervalInduction
<1> QED
  BY <1>1, <1>2, <1>5, <1>6, <1>9

\* The last run of each level, where there is one, is full.
LEMMA NewLast ==
  ASSUME NEW sh \in Seq(Nat), sh # <<>>, NEW s, NewLevels(s, sh), NEW k \in 0..(Len(sh) - 1)
  PROVE  /\ CntAt(s, k) = IF Counts(sh)[k] = 0 THEN 0 ELSE sh[k + 1]
         /\ Counts(sh)[k] = 0 => Level(s, k) = <<>>
<1>1. s \in Arrays(sh)
  BY DEF NewLevels
<1>2. PICK n \in Nat, e \in Nat :
        /\ n = Counts(sh)[k] /\ e = sh[k + 1] /\ Len(Level(s, k)) = n
        /\ Level(s, k) = Uniform(n, e)
  BY DEF NewLevels
<1>3. Level(s, k) \in Seq(Entries)
  BY <1>1, ArrayIs
<1>4. CASE n = 0
  <2>1. Level(s, k) = <<>>
    BY <1>2, <1>3, <1>4
  <2> QED
    BY <1>2, <1>4, <2>1 DEF CntAt
<1>5. CASE n # 0
  <2>1. Level(s, k) # <<>>
    BY <1>2, <1>3, <1>5
  <2>2. n \in 1..n
    BY <1>5
  <2>3. Level(s, k)[n] = Entry((n - 1) * e, e)
    BY <1>2, <2>2, Zenon DEF Uniform
  <2>4. Level(s, k)[n].cnt = e
    BY <2>3 DEF Entry
  <2> QED
    BY <1>2, <1>5, <2>1, <2>4 DEF CntAt
<1> QED
  BY <1>4, <1>5

\* Addresses lead somewhere when they are inside the extents.
LEMMA NewOffset ==
  ASSUME NEW sh \in Seq(Nat), sh # <<>>, NEW s, Sound(s, sh), NewLevels(s, sh),
         NEW a \in Seq(Nat), Len(a) = Len(sh)
  PROVE  OffsetAt(s, a) # -1 <=> \A j \in 1..Len(sh) : a[j] < sh[j]
<1>1. PICK r \in Nat : r = Len(sh) /\ r > 0
  OBVIOUS
<1>2. PICK g : g = LookupOf(s, a)
  OBVIOUS
<1>3. /\ g[0] = 0
      /\ \A d \in 1..r : g[d] = ItemAt(s, d, g[d - 1], a[d])
      /\ \A d \in 0..r : g[d] \in Offsets(s, d)
  <2>1. LooksUp(g, s, a, r)
    BY <1>1, <1>2, LookupIs
  <2> QED
    BY <2>1, Zenon DEF LooksUp
<1>4. PICK Good : Good = {d \in 0..r : g[d] # -1 <=> \A j \in 1..d : a[j] < sh[j]}
  OBVIOUS
<1>5. 0 \in Good
  BY <1>1, <1>3, <1>4
<1>6. ASSUME NEW d \in 1..r, d - 1 \in Good
      PROVE  d \in Good
  <2>1. PICK x : x = g[d - 1]
    OBVIOUS
  <2>2. x # -1 <=> \A j \in 1..(d - 1) : a[j] < sh[j]
    BY <1>4, <1>6, <2>1
  <2>3. g[d] = ItemAt(s, d, x, a[d]) /\ a[d] \in Nat
    BY <1>1, <1>3, <2>1
  <2>4. (\A j \in 1..d : a[j] < sh[j]) <=> ((\A j \in 1..(d - 1) : a[j] < sh[j]) /\ a[d] < sh[d])
    <3>1. \A j : j \in 1..d <=> (j \in 1..(d - 1) \/ j = d)
      OBVIOUS
    <3> QED
      BY <3>1
  <2>5. CASE x = -1
    <3>1. g[d] = -1
      BY <2>3, <2>5 DEF ItemAt
    <3> QED
      BY <1>4, <2>2, <2>4, <2>5, <3>1
  <2>6. CASE x # -1
    <3>1. PICK k \in 0..(r - 1) : k = d - 1 /\ k + 1 = d
      OBVIOUS
    <3>2. x \in Offsets(s, d - 1)
      <4>1. k \in 0..r
        BY <3>1
      <4> QED
        BY <1>3, <2>1, <3>1, <4>1
    <3>3. x \in Below(Items(s, d - 1))
      BY <2>6, <3>2 DEF Offsets
    <3>4. d \in 1..Len(sh)
      BY <1>1
    <3>5. PICK e \in Entries :
            /\ e = Level(s, d - 1)[x + 1] /\ x + 1 \in 1..Len(Level(s, d - 1))
            /\ ItemAt(s, d, x, a[d]) = IF a[d] < e.cnt THEN e.off + a[d] ELSE -1
      BY <2>3, <3>3, <3>4, ItemIs
    <3>6. e.cnt = sh[d]
      <4>1. PICK n \in Nat, m \in Nat :
              /\ m = sh[k + 1] /\ Len(Level(s, k)) = n /\ Level(s, k) = Uniform(n, m)
        BY <1>1, ZenonT(40) DEF NewLevels
      <4>2. PICK y \in 1..n : y = x + 1
        BY <3>1, <3>5, <4>1
      <4>3. e = Entry((y - 1) * m, m)
        BY <3>1, <3>5, <4>1, <4>2, Zenon DEF Uniform
      <4> QED
        BY <3>1, <4>1, <4>3 DEF Entry
    <3>7. g[d] # -1 <=> a[d] < sh[d]
      <4>1. e.off \in Nat
        BY DEF Entries
      <4>2. a[d] < sh[d] => g[d] = e.off + a[d]
        BY <2>3, <3>5, <3>6
      <4>3. ~(a[d] < sh[d]) => g[d] = -1
        BY <2>3, <3>5, <3>6
      <4> QED
        BY <2>3, <4>1, <4>2, <4>3
    <3> QED
      BY <1>4, <2>2, <2>4, <2>6, <3>7
  <2> QED
    BY <2>5, <2>6
<1>7. 0..r \subseteq Good
  BY <1>5, <1>6, IntervalInduction
<1>8. r \in Good
  BY <1>1, <1>7
<1>9. OffsetAt(s, a) = g[r]
  BY <1>1, <1>2, OffsetIs
<1> QED
  BY <1>1, <1>4, <1>8, <1>9

\* A function of nothing is the empty sequence.
LEMMA NoCells == ASSUME NEW s, AddressesOf(s) = {} PROVE CellOf(s) = <<>>
  BY DEF CellOf

\* The cells of a new array are those of the promise.
LEMMA NewCellIs ==
  ASSUME NEW sh \in Seq(Nat), sh # <<>>, NEW s, Sound(s, sh), NewLevels(s, sh)
  PROVE  CellOf(s) = NewCell(sh)
<1>1. PICK r \in Nat : r = Len(sh) /\ r > 0
  OBVIOUS
<1>2. s.elem = [i \in 1..Counts(sh)[r] |-> FillVal] /\ r \in 0..Len(sh)
  BY <1>1 DEF NewLevels
<1>3. PICK n \in Nat : n = Counts(sh)[r] /\ (n > 0 <=> \A j \in 1..r : sh[j] > 0)
  <2>1. Counts(sh)[r] \in Nat /\ (Counts(sh)[r] > 0 <=> \A j \in 1..r : sh[j] > 0)
    BY <1>2, CountsPositive
  <2> QED
    BY <2>1
<1>4. s.elem = [i \in 1..n |-> FillVal]
  BY <1>2, <1>3
<1>5. s.elem \in [1..n -> {FillVal}]
  BY <1>4
<1>6. Len(s.elem) = n
  BY <1>5
<1>7. CASE \E k \in 1..r : sh[k] = 0
  <2>1. n = 0
    BY <1>3, <1>7
  <2>2. s.elem = <<>>
    BY <1>5, <1>6, <2>1
  <2>3. CellOf(s) = <<>>
    BY <2>2, NoAddress, NoCells
  <2> QED
    BY <1>1, <1>7, <2>3 DEF NewCell
<1>8. CASE ~\E k \in 1..r : sh[k] = 0
  <2>1. PICK A, B : A = AddressesOf(s) /\ B = BoxOf(sh)
    OBVIOUS
  <2>2. AddressesFit(s, sh, A)
    BY <2>1, AddressesAreFit
  <2>3. ASSUME NEW a \in A
        PROVE  a \in B /\ OffsetAt(s, a) + 1 \in 1..n
    <3>1. a \in Seq(Nat) /\ Len(a) = r /\ OffsetAt(s, a) \in 0..(n - 1)
      BY <1>1, <1>6, <2>2, <2>3 DEF AddressesFit, Below
    <3>2. OffsetAt(s, a) # -1
      BY <3>1
    <3>3. \A j \in 1..r : a[j] < sh[j]
      BY <1>1, <3>1, <3>2, NewOffset
    <3>4. \A j \in 1..r : a[j] \in Below(sh[j])
      BY <1>1, <3>1, <3>3 DEF Below
    <3>5. \A j \in 1..r : a[j] \in UNION {Below(sh[i]) : i \in 1..r}
      BY <3>4
    <3>6. a \in [1..r -> UNION {Below(sh[i]) : i \in 1..r}]
      BY <3>1, <3>5
    <3>7. OffsetAt(s, a) + 1 \in 1..n
      BY <3>1
    <3> QED
      BY <1>1, <2>1, <3>4, <3>6, <3>7 DEF BoxOf
  <2>4. ASSUME NEW a \in B
        PROVE  a \in A
    <3>1. a \in [1..r -> UNION {Below(sh[i]) : i \in 1..r}]
      BY <1>1, <2>1, <2>4 DEF BoxOf
    <3>2. \A j \in 1..r : a[j] \in 0..(sh[j] - 1)
      BY <1>1, <2>1, <2>4 DEF BoxOf, Below
    <3>3. \A j \in 1..r : a[j] \in Nat /\ a[j] < sh[j]
      BY <1>1, <3>2
    <3>4. a \in [1..r -> Nat]
      BY <3>1, <3>3
    <3>5. a \in Seq(Nat) /\ Len(a) = r
      BY <3>4
    <3>6. OffsetAt(s, a) # -1
      BY <1>1, <3>3, <3>5, NewOffset
    <3> QED
      BY <1>1, <2>2, <3>5, <3>6 DEF AddressesFit
  <2>5. A = B
    BY <2>3, <2>4
  <2>6. \A a \in A : s.elem[OffsetAt(s, a) + 1] = FillVal
    BY <1>4, <2>3
  <2>7. CellOf(s) = [a \in B |-> FillVal]
    BY <2>1, <2>5, <2>6, Zenon DEF CellOf
  <2> QED
    BY <1>1, <1>8, <2>1, <2>7 DEF NewCell
<1> QED
  BY <1>7, <1>8

\* DasAry_init
IsNew(w, sh) ==
  /\ Settled(w, sh) /\ CellOf(w) = NewCell(sh)
  /\ LastAddr(w) = FirstAddr(sh) /\ ClosedOf(w) = Len(sh) + 1

\* A new array has the values, the last address and the marks of the promise.
LEMMA NewMaps ==
  ASSUME NEW sh \in Seq(Nat), sh # <<>>
  PROVE  IsNew(NewAry(sh), sh)
<1>1. PICK s : s = NewAry(sh)
  OBVIOUS
<1>2. Sound(s, sh) /\ NewLevels(s, sh)
  BY <1>1, NewArySound, NewAryLevels
<1>3. s \in Arrays(sh) /\ RollsUp(s)
  BY <1>2 DEF Sound
<1>4. PICK r \in Nat : r = Len(sh) /\ r > 0 /\ Rank(s) = r
  BY <1>3, ArrayIs
<1>5. PICK n : n = Counts(sh)
  OBVIOUS
<1>6. \A k \in 0..r : n[k] \in Nat /\ (n[k] > 0 <=> \A j \in 1..k : sh[j] > 0)
  BY <1>2, <1>4, <1>5, CountsPositive
<1>7. \A k \in 0..(r - 1) : /\ CntAt(s, k) = IF n[k] = 0 THEN 0 ELSE sh[k + 1]
                            /\ n[k] = 0 => Level(s, k) = <<>>
                            /\ n[k + 1] = n[k] * sh[k + 1]
  <2>1. \A k \in 0..(r - 1) : n[k + 1] = n[k] * sh[k + 1]
    BY <1>2, <1>4, <1>5 DEF NewLevels
  <2> QED
    BY <1>2, <1>4, <1>5, <2>1, NewLast
<1>8. InExtent(s, sh)
  <2> SUFFICES ASSUME NEW j \in 2..r, sh[j] > 0 PROVE CntAt(s, j - 1) <= sh[j]
    BY <1>4 DEF InExtent
  <2>1. PICK k \in 0..(r - 1) : k = j - 1 /\ k + 1 = j
    OBVIOUS
  <2>2. sh[j] \in Nat
    BY <1>4
  <2>3. CntAt(s, k) = 0 \/ CntAt(s, k) = sh[k + 1]
    BY <1>7
  <2> QED
    BY <2>1, <2>2, <2>3
<1>9. NoEmptyRun(s, sh)
  <2> SUFFICES ASSUME r > 1, sh[r] > 0, s.elem = <<>> PROVE Level(s, r - 1) = <<>>
    BY <1>4 DEF NoEmptyRun
  <2>1. PICK k \in 0..(r - 1) : k = r - 1 /\ k + 1 = r
    BY <1>4
  <2>2. PICK m \in Nat, x \in Nat, y \in Nat : m = n[r] /\ x = n[k] /\ y = sh[r] /\ m = x * y
    <3>1. n[r] \in Nat /\ n[k] \in Nat /\ sh[r] \in Nat
      BY <1>4, <1>6, <2>1
    <3>2. n[r] = n[k] * sh[r]
      BY <1>7, <2>1
    <3> QED
      BY <3>1, <3>2
  <2>3. m = 0
    <3>1. s.elem = [i \in 1..m |-> FillVal]
      BY <1>2, <1>4, <1>5, <2>2 DEF NewLevels
    <3>2. s.elem \in [1..m -> {FillVal}]
      BY <3>1
    <3>3. Len(s.elem) = m
      BY <3>2
    <3> QED
      BY <3>3
  <2>4. x = 0
    <3>1. y > 0
      BY <2>2
    <3>2. x > 0 => x * y > 0
      BY <3>1
    <3> QED
      BY <2>2, <2>3, <3>2
  <2> QED
    BY <1>7, <2>1, <2>2, <2>4
<1>10. LastAddr(s) = FirstAddr(sh)
  <2>1. ASSUME NEW k \in 1..r
        PROVE  (IF k < r /\ CntAt(s, k - 1) = 0 THEN 0 ELSE CntAt(s, k - 1) - 1)
             = (IF \A j \in 1..k : sh[j] > 0 THEN sh[k] - 1 ELSE IF k = r THEN -1 ELSE 0)
    <3>1. PICK h \in 0..(r - 1) : h = k - 1 /\ h + 1 = k
      OBVIOUS
    <3>2. PICK x \in Nat, y \in Nat, z \in Nat :
            x = n[h] /\ y = sh[k] /\ z = n[k] /\ z = x * y
      <4>1. n[h] \in Nat /\ n[k] \in Nat /\ sh[k] \in Nat
        BY <1>4, <1>6, <3>1
      <4>2. n[k] = n[h] * sh[k]
        BY <1>7, <3>1
      <4> QED
        BY <4>1, <4>2
    <3>3. z > 0 <=> (x > 0 /\ y > 0)
      <4>1. x * y > 0 <=> (x > 0 /\ y > 0)
        OBVIOUS
      <4> QED
        BY <3>2, <4>1
    <3>4. z > 0 <=> \A j \in 1..k : sh[j] > 0
      <4>1. k \in 0..r
        OBVIOUS
      <4> QED
        BY <1>6, <3>2, <4>1
    <3>5. CntAt(s, k - 1) = IF x = 0 THEN 0 ELSE y
      BY <1>7, <3>1, <3>2
    <3>6. CASE z > 0
      <4>1. CntAt(s, k - 1) = y /\ y > 0
        BY <3>3, <3>5, <3>6
      <4> QED
        BY <3>2, <3>4, <3>6, <4>1
    <3>7. CASE ~(z > 0)
      <4>1. CntAt(s, k - 1) = 0
        BY <3>2, <3>3, <3>5, <3>7
      <4> QED
        BY <1>4, <3>4, <3>7, <4>1
    <3> QED
      BY <3>6, <3>7
  <2> QED
    BY <1>4, <2>1 DEF LastAddr, FirstAddr
<1>11. ClosedOf(s) = Len(sh) + 1
  <2>1. \A k \in 1..Len(sh) : s.roll[k] = FALSE
    BY <1>2 DEF NewLevels
  <2> QED
    BY <1>3, <2>1, ClosedNone
<1>12. CellOf(s) = NewCell(sh)
  BY <1>2, NewCellIs
<1> QED
  BY <1>1, <1>2, <1>8, <1>9, <1>10, <1>11, <1>12 DEF IsNew, Settled

-----------------------------------------------------------------------------
(* Every step of the array is one of the promise, or changes nothing of it.  *)

\* The promise's own terms, for the array of the model.
LEMMA PromiseTerms ==
  /\ \A a, c : RA!NextAddr(a, c) = Odometer(ary.shape, a, c)
  /\ RA!Rank = Rank(ary)
  /\ \A S : RA!Min(S) = Min(S) /\ RA!Cardinality(S) = Cardinality(S)
  /\ \A f : RA!Range(f) = {f[i] : i \in DOMAIN f}
<1>1. RA!Rank = Rank(ary)
  BY DEF RA!Rank, Rank
<1>2. \A S : RA!Min(S) = Min(S)
  BY Zenon DEF RA!Min, Min
<1>3. \A a, c, d : RA!Rolls(a, c, d) <=> RollsAt(ary.shape, a, c, d)
  BY DEF RA!Rolls, RollsAt, RA!Rank
<1>4. \A a, c : RA!NextAddr(a, c) = Odometer(ary.shape, a, c)
  BY <1>2, <1>3, Zenon DEF RA!NextAddr, Odometer, RA!Rank
<1>5. \A S : RA!Cardinality(S) = Cardinality(S)
  BY Zenon DEF RA!Cardinality, Cardinality
<1>6. \A f : RA!Range(f) = {f[i] : i \in DOMAIN f}
  BY DEF RA!Range
<1> QED
  BY <1>1, <1>2, <1>4, <1>5, <1>6

\* The addresses the promise writes next are those of the odometer.
LEMMA PromisedFollowing ==
  ASSUME NEW n, LastAddress = LastAddr(ary)
  PROVE  RA!Following(n) = FollowingOf(ary.shape, NextOf(ary), n)
<1>1. Min({d \in 2..Rank(ary) : ary.roll[d]} \cup {Rank(ary) + 1}) = ClosedOf(ary)
  BY DEF ClosedOf
<1>2. Rank(ary) = Len(ary.shape)
  BY DEF Rank
<1> QED
BY <1>1, <1>2, PromiseTerms, Zenon DEF RA!Following, FollowingOf, Follow, NextOf

\* The array is one that appending, marking, filling up and the rest can go on with.
SettledInv == \E sh \in Shapes : Settled(ary, sh)

\* The promise's variables, as values of the array.
PromiseIs ==
  /\ [a \in Addresses |-> ary.elem[OffsetAt(ary, a) + 1]] = CellOf(ary)
  /\ LastAddress = LastAddr(ary)
  /\ Min({d \in 2..Rank(ary) : ary.roll[d]} \cup {Rank(ary) + 1}) = ClosedOf(ary)

\* In such an array the refinement mapping gives these values.
LEMMA PromiseHolds == SettledInv => PromiseIs
<1> SUFFICES ASSUME SettledInv PROVE PromiseIs
  OBVIOUS
<1>1. PICK sh \in Shapes : Settled(ary, sh)
  BY DEF SettledInv
<1>2. sh \in Seq(Nat) /\ sh # <<>> /\ ary \in Arrays(sh)
  BY <1>1, AryAssumption DEF Settled, Sound
<1>3. PICK r \in Nat : r = Len(sh) /\ r > 0 /\ Rank(ary) = r
  BY <1>2, ArrayIs
<1>4. [a \in Addresses |-> ary.elem[OffsetAt(ary, a) + 1]] = CellOf(ary)
  BY AddressesAre, Zenon DEF CellOf
<1>5. ASSUME NEW k \in 1..r
      PROVE  (IF k > 1 /\ ary.ibuf[k - 1] = <<>> THEN 0 ELSE LastOf(ary, k - 1).cnt)
             = CntAt(ary, k - 1)
  <2>1. PICK j \in 0..(r - 1) : j = k - 1 /\ (k > 1 <=> j # 0)
    OBVIOUS
  <2>2. CntAt(ary, j) = IF Level(ary, j) = <<>> THEN 0 ELSE LastOf(ary, j).cnt
    <3>1. Level(ary, j) # <<>> => LastOf(ary, j).cnt = CntAt(ary, j)
      BY <1>2, <1>3, <2>1, CntAtIs
    <3> QED
      BY <3>1 DEF CntAt
  <2>3. CASE j = 0
    <3>1. Level(ary, j) # <<>>
      BY <2>3 DEF Level
    <3> QED
      BY <2>1, <2>2, <2>3, <3>1
  <2>4. CASE j # 0
    <3>1. Level(ary, j) = ary.ibuf[j]
      BY <2>4 DEF Level
    <3> QED
      BY <2>1, <2>2, <2>4, <3>1
  <2> QED
    BY <2>3, <2>4
<1>6. LastAddress = LastAddr(ary)
  <2> DEFINE cnt(k) == IF k > 1 /\ ary.ibuf[k - 1] = <<>> THEN 0 ELSE LastOf(ary, k - 1).cnt
  <2>1. LastAddress = [k \in 1..r |-> IF k < r /\ cnt(k) = 0 THEN 0 ELSE cnt(k) - 1]
    BY <1>3, Zenon DEF LastAddress
  <2>2. \A k \in 1..r : cnt(k) = CntAt(ary, k - 1)
    BY <1>5
  <2> HIDE DEF cnt
  <2>3. LastAddress = [k \in 1..r |-> IF k < r /\ CntAt(ary, k - 1) = 0 THEN 0
                                      ELSE CntAt(ary, k - 1) - 1]
    BY <2>1, <2>2, Zenon
  <2> QED
    BY <1>3, <2>3 DEF LastAddr
<1> QED
  BY <1>4, <1>6, Zenon DEF PromiseIs, ClosedOf

\* And after a step.
LEMMA PromiseHoldsNext == SettledInv' => PromiseIs'
  BY PromiseHolds, PTL

\* DasAry_markEnd is MarkEnd of the promise.
LEMMA MarkStep ==
  ASSUME NEW sh \in Shapes, Settled(ary, sh), NEW d \in 2..Rank(ary), MarkEnd(d)
  PROVE  SettledInv' /\ RA!MarkEnd(d)
<1>1. sh \in Seq(Nat) /\ sh # <<>> /\ ary \in Arrays(sh)
  BY AryAssumption DEF Settled, Sound
<1>2. Rank(ary) = Len(sh) /\ ary.shape = sh
  BY <1>1, ArrayIs
<1>3. MarksIn(ary, ary', sh, d)
  BY <1>1, <1>2, MarkMaps DEF MarkEnd
<1>4. Settled(ary', sh)
  BY <1>3 DEF MarksIn
<1>5. SettledInv'
  BY <1>4 DEF SettledInv
<1>6. ary'.shape = sh
  BY <1>1, <1>4, ArrayIs DEF Settled, Sound
<1>7. PromiseIs /\ PromiseIs'
  BY <1>5, PromiseHolds, PromiseHoldsNext DEF SettledInv
<1>8. RA!Min({d, ClosedOf(ary)}) = Min({d, ClosedOf(ary)})
  BY Zenon DEF RA!Min, Min
<1> QED
  BY <1>2, <1>3, <1>5, <1>6, <1>7, <1>8, Zenon DEF RA!MarkEnd, PromiseIs, MarksIn

\* DasAry_clear is Clear of the promise.
LEMMA ClearStep ==
  ASSUME NEW sh \in Shapes, Settled(ary, sh), Clear
  PROVE  SettledInv' /\ RA!Clear
<1>1. sh \in Seq(Nat) /\ sh # <<>> /\ ary \in Arrays(sh)
  BY AryAssumption DEF Settled, Sound
<1>2. Rank(ary) = Len(sh) /\ ary.shape = sh
  BY <1>1, ArrayIs
<1>3. Empties(ary', sh)
  BY <1>1, ClearMaps DEF Clear
<1>4. Settled(ary', sh)
  BY <1>3 DEF Empties
<1>5. SettledInv'
  BY <1>4 DEF SettledInv
<1>6. ary'.shape = sh
  BY <1>1, <1>4, ArrayIs DEF Settled, Sound
<1>7. PromiseIs'
  BY <1>5, PromiseHoldsNext
<1>8. CellOf(ary') = <<>>
  BY <1>3, NoCells DEF Empties, CellOf
<1> QED
  BY <1>2, <1>3, <1>5, <1>6, <1>7, <1>8, PromiseTerms, Zenon DEF RA!Clear, PromiseIs, Empties

\* DasAry_putAt is PutAt of the promise.
LEMMA PutStep ==
  ASSUME NEW sh \in Shapes, Settled(ary, sh), NEW loc \in Locations,
         NEW vs \in [1..MaxAppend -> {FillVal}], PutAt(loc, vs)
  PROVE  SettledInv' /\ RA!Next
<1>1. sh \in Seq(Nat) /\ sh # <<>> /\ ary \in Arrays(sh)
  BY AryAssumption DEF Settled, Sound
<1>2. PICK r \in Nat : r = Len(sh) /\ Rank(ary) = r /\ ary.shape = sh
  BY <1>1, ArrayIs
<1>3. vs \in Seq({FillVal}) /\ vs \in RA!Blocks({FillVal})
  <2>1. MaxAppend \in Nat /\ MaxAppend \in 1..MaxAppend
    BY AryAssumption
  <2>2. vs \in RA!Blocks({FillVal})
    BY <2>1 DEF RA!Blocks
  <2> QED
    BY <2>1, <2>2
<1>4. loc \in Seq(Int) /\ Len(loc) = r
  <2>1. CASE loc \in AddressesOf(ary)
    <3>1. AddressesFit(ary, sh, AddressesOf(ary))
      BY <1>1, AddressesAreFit DEF Settled
    <3>2. loc \in Seq(Nat) /\ Len(loc) = r
      BY <1>2, <2>1, <3>1 DEF AddressesFit
    <3> QED
      BY <3>2
  <2>2. CASE loc = [k \in 1..r |-> -1]
    <3>1. loc \in [1..r -> Int]
      BY <2>2
    <3> QED
      BY <3>1
  <2> QED
    BY <1>2, <2>1, <2>2, AddressesAre DEF Locations
<1>5. PICK a \in AddressesOf(ary) : PutsOver(ary, ary', sh, a, vs)
  <2>1. PutAble(ary, loc, vs) /\ ary' = Written(ary, loc, vs)
    BY DEF PutAt
  <2> QED
    BY <1>1, <1>2, <1>3, <1>4, <2>1, PutMaps
<1>6. Settled(ary', sh)
  BY <1>5 DEF PutsOver
<1>7. SettledInv'
  BY <1>6 DEF SettledInv
<1>8. ary'.shape = sh
  BY <1>1, <1>6, ArrayIs DEF Settled, Sound
<1>9. PromiseIs /\ PromiseIs'
  BY <1>7, PromiseHolds, PromiseHoldsNext DEF SettledInv
<1>10. \A b, c : RA!Before(b, c) <=> Precedes(b, c, r)
  BY <1>2, PromiseTerms DEF RA!Before, Precedes
<1>11. DOMAIN CellOf(ary) = AddressesOf(ary)
  BY DEF CellOf
<1>12. {b \in AddressesOf(ary) : ~RA!Before(b, a)} = RestFrom(ary, r, a)
  BY <1>10 DEF RestFrom
<1>13. ASSUME NEW b
       PROVE  Cardinality({c \in RestFrom(ary, r, a) : RA!Before(c, b)}) + 1 = NthFrom(ary, r, a, b)
  <2>1. {c \in RestFrom(ary, r, a) : RA!Before(c, b)}
        = {c \in RestFrom(ary, r, a) : Precedes(c, b, r)}
    BY <1>10
  <2> QED
    BY <2>1, Zenon DEF NthFrom
<1>14. RA!PutAt(a, vs)
  <2> DEFINE C == [b \in Addresses |-> ary.elem[OffsetAt(ary, b) + 1]]
             rest == {b \in DOMAIN C : ~RA!Before(b, a)}
             nth(b) == RA!Cardinality({c \in rest : RA!Before(c, b)}) + 1
             put == [b \in DOMAIN C |->
                       IF b \in rest /\ nth(b) <= Len(vs) THEN vs[nth(b)] ELSE C[b]]
  <2>1. C = CellOf(ary)
    BY <1>9 DEF PromiseIs
  <2>2. DOMAIN C = AddressesOf(ary)
    BY <1>11, <2>1, Zenon
  <2>3. rest = RestFrom(ary, r, a)
    BY <1>12, <2>2, Zenon
  <2>4. \A b : nth(b) = NthFrom(ary, r, a, b)
    <3> HIDE DEF rest
    <3> QED
      BY <1>13, <2>3, PromiseTerms, Zenon
  <2>5. put = PutCells(ary, r, a, vs)
    <3> HIDE DEF C, rest, nth
    <3> QED
      BY <2>1, <2>2, <2>3, <2>4, Zenon DEF PutCells
  <2>6. CellOf(ary') = put
    BY <1>2, <1>5, <2>5 DEF PutsOver
  <2>7. Len(vs) <= RA!Cardinality(rest)
    <3> HIDE DEF rest
    <3> QED
      BY <1>2, <1>5, <2>3, PromiseTerms DEF PutsOver
  <2>8. LastAddr(ary') = LastAddr(ary) /\ ClosedOf(ary') = ClosedOf(ary)
    BY <1>5 DEF PutsOver
  <2> QED
    BY <1>2, <1>8, <1>9, <2>6, <2>7, <2>8, Zenon DEF RA!PutAt, PromiseIs
<1>15. a \in DOMAIN [b \in Addresses |-> ary.elem[OffsetAt(ary, b) + 1]]
  BY <1>9, <1>11, Zenon DEF PromiseIs
<1> QED
  BY <1>3, <1>7, <1>14, <1>15, Zenon DEF RA!Next

\* DasAry_qubeIn of the last index is QubeIn of the promise, or does nothing.
LEMMA QubeStep ==
  ASSUME QubeAll = FALSE, NEW sh \in Shapes, Settled(ary, sh), NEW d \in 2..Rank(ary), QubeIn(d)
  PROVE  SettledInv' /\ (RA!QubeIn(d) \/ ary' = ary)
<1>1. sh \in Seq(Nat) /\ sh # <<>> /\ ary \in Arrays(sh)
  BY AryAssumption DEF Settled, Sound
<1>2. PICK r \in Nat : r = Len(sh) /\ r > 1 /\ Rank(ary) = r /\ ary.shape = sh /\ d = r
  <2>1. Rank(ary) = Len(sh) /\ ary.shape = sh
    BY <1>1, ArrayIs
  <2>2. d = Rank(ary)
    BY DEF QubeIn
  <2> QED
    BY <1>1, <2>1, <2>2
<1>3. ary' = Qubed(ary, r)
  BY <1>2 DEF QubeIn
<1>4. CASE ary' = ary
  <2>1. SettledInv'
    BY <1>4 DEF SettledInv
  <2> QED
    BY <1>4, <2>1
<1>5. CASE ary' # ary
  <2>1. FillsRun(ary, ary', sh)
    BY <1>1, <1>2, <1>3, <1>5, QubeMaps
  <2>2. Settled(ary', sh) /\ sh[r] > 0
    BY <1>2, <2>1 DEF FillsRun
  <2>3. SettledInv'
    BY <2>2 DEF SettledInv
  <2>4. ary'.shape = sh
    BY <1>1, <2>2, ArrayIs DEF Settled, Sound
  <2>5. PromiseIs /\ PromiseIs'
    BY <2>3, PromiseHolds, PromiseHoldsNext DEF SettledInv
  <2> DEFINE fixed == {k \in d..RA!Rank : \A j \in k..RA!Rank : ary.shape[j] > 0}
             q == RA!Min(fixed)
             last == LastAddress
             run == {[k \in 1..RA!Rank |-> IF k < q THEN last[k] ELSE a[k]] : a \in RA!Box(q)}
  <2>0. last = LastAddr(ary)
    BY <2>5 DEF PromiseIs
  <2>6. fixed = {r}
    <3>1. \A k : k \in r..r <=> k = r
      BY <1>2
    <3> QED
      BY <1>2, <2>2, <3>1, PromiseTerms
  <2>7. q = r
    <3>1. RA!Min({r}) = r
      <4>1. PICK S : S = {r}
        OBVIOUS
      <4>2. S \subseteq Nat /\ r \in S /\ \A y \in S : r <= y
        BY <1>2, <4>1
      <4>3. Min(S) = r
        BY <4>2, MinIs
      <4> QED
        BY <4>1, <4>3, PromiseTerms
    <3> QED
      BY <2>6, <3>1, Zenon
  <2>8. RA!Box(r) = {a \in [{r} -> Below(sh[r])] : a[r] \in Below(sh[r])}
    <3>1. r..r = {r}
      BY <1>2
    <3>2. UNION {Below(sh[j]) : j \in {r}} = Below(sh[r])
      OBVIOUS
    <3>3. RA!Below(sh[r]) = Below(sh[r])
      BY DEF RA!Below, Below
    <3> QED
      BY <1>2, <3>1, <3>2, <3>3, PromiseTerms DEF RA!Box
  <2>9. run = RunOf(ary, sh)
    <3> DEFINE At(a) == [k \in 1..r |-> IF k < r THEN last[k] ELSE a[k]]
    <3>1. run = {At(a) : a \in RA!Box(r)}
      <4> HIDE DEF q
      <4> QED
        BY <1>2, <2>7, PromiseTerms
    <3>2. ASSUME NEW x
          PROVE  LastAt(last, r, x) = [k \in 1..r |-> IF k < r THEN last[k] ELSE x]
      BY DEF LastAt
    <3>3. ASSUME NEW a \in RA!Box(r)
          PROVE  At(a) \in RunOf(ary, sh)
      <4>1. a[r] \in Below(sh[r])
        BY <2>8
      <4>2. At(a) = LastAt(last, r, a[r])
        <5>1. \A k \in 1..r : k < r \/ k = r
          OBVIOUS
        <5> QED
          BY <3>2, <5>1, ZenonT(40)
      <4> QED
        BY <1>2, <2>0, <4>1, <4>2, Zenon DEF RunOf
    <3>4. ASSUME NEW b \in RunOf(ary, sh)
          PROVE  \E a \in RA!Box(r) : b = At(a)
      <4>1. PICK x \in Below(sh[r]) : b = LastAt(last, r, x)
        BY <1>2, <2>0, Zenon DEF RunOf
      <4>2. PICK a : a = [k \in {r} |-> x]
        OBVIOUS
      <4>3. a \in RA!Box(r) /\ a[r] = x
        BY <2>8, <4>2
      <4>4. b = At(a)
        <5>1. \A k \in 1..r : (IF k < r THEN last[k] ELSE x) = (IF k < r THEN last[k] ELSE a[k])
          BY <4>3
        <5> QED
          BY <3>2, <4>1, <5>1, Zenon
      <4> QED
        BY <4>3, <4>4
    <3> HIDE DEF At, run
    <3> QED
      BY <3>1, <3>3, <3>4
  <2>10. CellOf(ary') = Merged(CellOf(ary), [a \in run |-> FillVal])
    BY <2>1, <2>9 DEF FillsRun, GainsCells, FillCells
  <2>11. LastAddr(ary') = [k \in 1..RA!Rank |-> IF k < q THEN last[k] ELSE ary.shape[k] - 1]
    <3>1. LastAddr(ary') = LastAt(last, r, sh[r] - 1)
      BY <1>2, <2>0, <2>1 DEF FillsRun
    <3>2. \A k \in 1..r : k < r \/ k = r
      OBVIOUS
    <3> QED
      BY <1>2, <2>7, <3>1, <3>2, PromiseTerms, Zenon DEF LastAt
  <2>12. CellOf(ary) # <<>>
    <3>1. DOMAIN CellOf(ary) # {}
      BY <2>1 DEF FillsRun
    <3>2. DOMAIN <<>> = {}
      OBVIOUS
    <3> QED
      BY <3>1, <3>2
  <2>13. ClosedOf(ary') = ClosedOf(ary)
    BY <2>1 DEF FillsRun
  <2>14. RA!QubeIn(d)
    <3>1. fixed # {}
      BY <2>6
    <3> QED
      BY <1>2, <2>4, <2>5, <2>10, <2>11, <2>12, <2>13, <3>1, Zenon
         DEF RA!QubeIn, RA!WithMore, Merged, PromiseIs
  <2> QED
    BY <2>3, <2>14
<1> QED
  BY <1>4, <1>5

\* The next address is one.
LEMMA NextIs ==
  ASSUME NEW sh \in Seq(Nat), sh # <<>>, NEW s \in Arrays(sh)
  PROVE  NextOf(s) \in [1..Len(sh) -> Int]
<1>1. PICK r \in Nat : r = Len(sh) /\ Rank(s) = r /\ s.shape = sh
  BY ArrayIs
<1>2. PICK a : a = LastAddr(s)
  OBVIOUS
<1>3. ASSUME NEW k \in 1..r
      PROVE  a[k] \in Int
  <2>1. PICK j \in 0..(r - 1) : j = k - 1
    OBVIOUS
  <2>2. CntAt(s, k - 1) \in Nat
    BY <1>1, <2>1, CntAtIs
  <2>3. a[k] = IF k < r /\ CntAt(s, k - 1) = 0 THEN 0 ELSE CntAt(s, k - 1) - 1
    BY <1>1, <1>2 DEF LastAddr
  <2> QED
    BY <2>2, <2>3
<1>4. PICK m : m = Min({d \in 2..r : RollsAt(sh, a, ClosedOf(s), d)} \cup {r + 1})
  OBVIOUS
<1>5. NextOf(s) = [k \in 1..r |-> IF k < m - 1 THEN a[k] ELSE IF k = m - 1 THEN a[k] + 1 ELSE 0]
  BY <1>1, <1>2, <1>4, Zenon DEF NextOf, Odometer
<1> QED
  BY <1>1, <1>3, <1>5

\* DasAry_append is Append1 of the promise.
LEMMA AppendStep ==
  ASSUME Straddle = FALSE, NEW sh \in Shapes, Settled(ary, sh), NEW vs \in Blocks(Vals),
         AppendVals(vs)
  PROVE  SettledInv' /\ RA!Append1(vs)
<1>1. sh \in Seq(Nat) /\ sh # <<>> /\ ary \in Arrays(sh)
  BY AryAssumption DEF Settled, Sound
<1>2. Rank(ary) = Len(sh) /\ ary.shape = sh
  BY <1>1, ArrayIs
<1>3. PICK n \in Nat : n = Len(vs) /\ n > 0 /\ vs \in Seq(Vals \cup {FillVal}) /\ vs # <<>>
  <2>1. PICK i \in 1..MaxAppend : vs \in [1..i -> Vals]
    BY DEF Blocks
  <2>2. i \in Nat /\ i > 0 /\ vs \in [1..i -> Vals \cup {FillVal}]
    BY AryAssumption, <2>1
  <2>3. vs \in Seq(Vals \cup {FillVal}) /\ Len(vs) = i
    BY <2>2
  <2> QED
    BY <2>2, <2>3
<1>4. EndsIn(ary, Len(vs))
  BY DEF AppendVals, EndsRecord, EndsIn, Room, RoomOf
<1>5. PICK f : f = FollowingOf(sh, NextOf(ary), n)
  OBVIOUS
<1>6. FollowsOn(f, sh, NextOf(ary), n)
  <2>1. PICK first \in [1..Len(sh) -> Int] : first = NextOf(ary)
    BY <1>1, NextIs
  <2> QED
    BY <1>1, <1>3, <1>5, <2>1, FollowingIs
<1>7. AppendsTo(ary, ary', sh, f, vs)
  <2>1. ary' = Appended(ary, vs)
    BY DEF AppendVals
  <2> QED
    BY <1>1, <1>3, <1>4, <1>6, <2>1, AppendMaps
<1>8. Settled(ary', sh)
  BY <1>7 DEF AppendsTo
<1>9. SettledInv'
  BY <1>8 DEF SettledInv
<1>10. ary'.shape = sh
  BY <1>1, <1>8, ArrayIs DEF Settled, Sound
<1>11. PromiseIs /\ PromiseIs'
  BY <1>9, PromiseHolds, PromiseHoldsNext DEF SettledInv
<1>12. RA!Following(Len(vs)) = f
  BY <1>2, <1>3, <1>5, <1>11, PromisedFollowing DEF PromiseIs
<1>13. NewCells(f, vs)
       = [a \in RA!Range(f) |-> vs[CHOOSE i \in 1..Len(vs) : f[i] = a]]
  <2>1. RA!Range(f) = {f[i] : i \in 1..Len(vs)}
    BY <1>3, <1>6, PromiseTerms, Zenon DEF FollowsOn
  <2> QED
    BY <2>1, Zenon DEF NewCells
<1>14. CellOf(ary') = Merged(CellOf(ary), NewCells(f, vs)) /\ LastAddr(ary') = f[Len(vs)]
  BY <1>7 DEF AppendsTo, GainsCells
<1>15. ClosedOf(ary') = RA!Rank + 1
  BY <1>2, <1>7, PromiseTerms DEF AppendsTo
<1>16. RA!Cardinality(DOMAIN CellOf(ary)) + Len(vs) <= MaxValid[sh]
  <2>1. Cardinality(DOMAIN CellOf(ary)) = Len(ary.elem)
    BY <1>1, CellCount DEF Settled
  <2>2. Len(ary.elem) + Len(vs) <= MaxValid[sh]
    BY <1>2 DEF AppendVals
  <2> QED
    BY <2>1, <2>2, PromiseTerms
<1>17. RA!Put(vs)
  <2> DEFINE at == RA!Following(Len(vs))
             g == [a \in RA!Range(at) |-> vs[CHOOSE i \in 1..Len(vs) : at[i] = a]]
  <2>1. at = f
    BY <1>12
  <2>2. g = NewCells(f, vs)
    <3> HIDE DEF at
    <3> QED
      BY <1>13, <2>1
  <2>3. CellOf(ary') = Merged(CellOf(ary), g)
    BY <1>14, <2>2, Zenon
  <2>4. LastAddr(ary') = at[Len(vs)]
    BY <1>14, <2>1
  <2>5. RA!WithMore(g) = CellOf(ary')
    <3> HIDE DEF g
    <3> QED
      BY <1>11, <2>3, Zenon DEF RA!WithMore, Merged, PromiseIs
  <2> QED
    BY <1>11, <2>4, <2>5, Zenon DEF RA!Put, PromiseIs
<1> QED
  BY <1>2, <1>9, <1>10, <1>11, <1>15, <1>16, <1>17, Zenon DEF RA!Append1, PromiseIs

\* A new array is what the promise begins with.
LEMMA InitStep == Init => SettledInv /\ RA!Init
<1> SUFFICES ASSUME NEW sh \in Shapes, ary = NewAry(sh)
             PROVE  SettledInv /\ RA!Init
  BY DEF Init
<1>1. sh \in Seq(Nat) /\ sh # <<>>
  BY AryAssumption
<1>2. IsNew(ary, sh)
  BY <1>1, NewMaps
<1>3. Settled(ary, sh)
  BY <1>2 DEF IsNew
<1>4. ary.shape = sh /\ Rank(ary) = Len(sh)
  BY <1>1, <1>3, ArrayIs DEF Settled, Sound
<1>5. SettledInv
  BY <1>3 DEF SettledInv
<1>6. PromiseIs
  BY <1>5, PromiseHolds
<1>7. RA!First = FirstAddr(sh)
  BY <1>4, PromiseTerms, Zenon DEF RA!First, FirstAddr
<1>8. RA!Box(1) = BoxOf(sh)
  <2>1. \A n : RA!Below(n) = Below(n)
    BY Zenon DEF RA!Below, Below
  <2>2. UNION {RA!Below(sh[j]) : j \in 1..Len(sh)} = UNION {Below(sh[j]) : j \in 1..Len(sh)}
    BY <2>1, Zenon
  <2>3. RA!Box(1) = {a \in [1..Len(sh) -> UNION {RA!Below(sh[j]) : j \in 1..Len(sh)}] :
                       \A j \in 1..Len(sh) : a[j] \in RA!Below(sh[j])}
    BY <1>4, PromiseTerms DEF RA!Box
  <2> QED
    BY <2>1, <2>2, <2>3 DEF BoxOf
<1>9. CellOf(ary) = IF \E k \in 1..RA!Rank : ary.shape[k] = 0 THEN <<>>
                    ELSE [a \in RA!Box(1) |-> FillVal]
  BY <1>2, <1>4, <1>8, PromiseTerms, Zenon DEF IsNew, NewCell
<1>10. ClosedOf(ary) = RA!Rank + 1
  BY <1>2, <1>4, PromiseTerms, Zenon DEF IsNew
<1>11. LastAddr(ary) = RA!First
  BY <1>2, <1>7 DEF IsNew
<1> QED
  BY <1>4, <1>5, <1>6, <1>9, <1>10, <1>11, Zenon DEF RA!Init, PromiseIs

\* Every step is one of the promise's or changes nothing of it.
LEMMA PromiseStep ==
  ASSUME Straddle = FALSE, QubeAll = FALSE
  PROVE  SettledInv /\ [Next]_vars => SettledInv' /\ [RA!Next]_(RA!raVars)
<1> SUFFICES ASSUME NEW sh \in Shapes, Settled(ary, sh), [Next]_vars
             PROVE  SettledInv' /\ [RA!Next]_(RA!raVars)
  BY DEF SettledInv
<1>1. SettledInv
  BY DEF SettledInv
<1>2. RA!Rank = Rank(ary)
  BY PromiseTerms
<1>3. ASSUME NEW vs \in Blocks(Vals), AppendVals(vs)
      PROVE  SettledInv' /\ RA!Next
  <2>1. vs \in RA!Blocks(Vals)
    BY DEF Blocks, RA!Blocks
  <2> QED
    BY <1>3, <2>1, AppendStep DEF RA!Next
<1>4. ASSUME NEW d \in 2..Rank(ary), MarkEnd(d)
      PROVE  SettledInv' /\ RA!Next
  <2>1. SettledInv' /\ RA!MarkEnd(d)
    BY <1>4, MarkStep
  <2> QED
    BY <1>2, <2>1, Zenon DEF RA!Next
<1>5. ASSUME ary' = ary
      PROVE  SettledInv' /\ UNCHANGED RA!raVars
  <2>1. SettledInv'
    BY <1>5 DEF SettledInv
  <2>2. PromiseIs /\ PromiseIs'
    BY <1>1, <2>1, PromiseHolds, PromiseHoldsNext
  <2> QED
    BY <1>5, <2>1, <2>2, Zenon DEF RA!raVars, PromiseIs
<1>6. ASSUME NEW d \in 2..Rank(ary), QubeIn(d)
      PROVE  SettledInv' /\ [RA!Next]_(RA!raVars)
  <2>1. SettledInv' /\ (RA!QubeIn(d) \/ ary' = ary)
    BY <1>6, QubeStep
  <2>2. RA!QubeIn(d) => RA!Next
    BY <1>2, Zenon DEF RA!Next
  <2> QED
    BY <1>5, <2>1, <2>2
<1>7. CASE Clear
  BY <1>7, ClearStep DEF RA!Next
<1>8. ASSUME NEW loc \in Locations, NEW vs \in [1..MaxAppend -> {FillVal}], PutAt(loc, vs)
      PROVE  SettledInv' /\ RA!Next
  BY <1>8, PutStep
<1>9. CASE UNCHANGED vars
  BY <1>5, <1>9 DEF vars
<1> QED
  BY <1>3, <1>4, <1>6, <1>7, <1>8, <1>9 DEF Next

\* In every array the library's callers can make, of any shape, what the index entries
\* make of the buffers is the map from addresses to values that array.h promises.
THEOREM ArrayImplemented ==
  ASSUME Straddle = FALSE, QubeAll = FALSE
  PROVE  Spec => Implements
<1>1. SettledInv /\ [Next]_vars => SettledInv' /\ [RA!Next]_(RA!raVars)
  BY PromiseStep
<1> QED
  BY <1>1, InitStep, PTL DEF Spec, Implements, RA!Spec
=============================================================================
