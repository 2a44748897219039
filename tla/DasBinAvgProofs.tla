-------------------------- MODULE DasBinAvgProofs --------------------------
(* Proofs about DasBinAvg: what the rows in the open bins and on the output  *)
(* stand for, that none is lost or sent twice, and under which header each   *)
(* is read when the output is not compressed.                                *)
EXTENDS DasBinAvg, DasIOWriteProofs, FiniteSetTheorems
-----------------------------------------------------------------------------
(* The invariants, for a reducer r on its way from one state to the next: of *)
(* the descriptors d, the start s, and n packets read.                       *)

\* The reducer is a record of functions of the packet IDs.
OfIds(f) == f = [i \in Ids |-> f[i]]

Shape(r) ==
  /\ r = [bin |-> r.bin, rows |-> r.rows, acc |-> r.acc, lo |-> r.lo, hi |-> r.hi,
          out |-> r.out, crash |-> r.crash]
  /\ OfIds(r.bin) /\ OfIds(r.rows) /\ OfIds(r.acc) /\ OfIds(r.lo) /\ OfIds(r.hi)

\* y is a row of ID i with m items, read under header a, in bin b.
RowIs(y, i, a, m, b, s, n) ==
  /\ y.n \in 1..n /\ y.id = i /\ y.at = a
  /\ y.t \in Int /\ s \in Int /\ b = BinOf(y.t, s)
  /\ y.val \in [1..m -> Int \cup {Fill}]

\* The rows with any value, those with a value for item k, and these values.
Filled(S) == {y \in S : \E k \in DOMAIN y.val : y.val[k] # Fill}
Seen(S, k) == {y \in S : y.val[k] # Fill}
Vals(S, k) == {y.val[k] : y \in Seen(S, k)}

\* The extremes of V as the tools keep them: a peak starts at 0.
Extremes(V, lo, hi) ==
  /\ lo \in Int /\ hi \in Int
  /\ \A v \in V : lo <= v /\ v <= hi
  /\ V # {} => lo \in V
  /\ tool # "peak" /\ V # {} => hi \in V
  /\ tool = "peak" => hi >= 0 /\ hi \in V \cup {0}

\* What there was no room for; the descriptors.
TooWide(f) == tool # "avg" /\ f.wide
DescOk(d, n) ==
  /\ OfIds(d)
  /\ \A i \in Ids : d[i] # NoDesc => d[i].fmt \in Layouts /\ d[i].at \in 1..n

\* The open bin of an ID: its rows are of one header and one bin, and what is kept
\* of them is what was seen of them.
OpenBin(r, d, s, n, i) ==
  /\ r.bin[i] \in Int \cup {NoBin}
  /\ r.bin[i] # NoBin => d[i] # NoDesc /\ s # NoTime
  /\ r.rows[i] # {} => r.bin[i] # NoBin /\ ~TooWide(d[i].fmt)
  /\ IsFiniteSet(r.rows[i])
  /\ \A y \in r.rows[i] : RowIs(y, i, d[i].at, d[i].fmt.items, r.bin[i], s, n)
  /\ r.acc[i] = IF tool = "avgsec" THEN Filled(r.rows[i]) ELSE {}
  /\ d[i] # NoDesc /\ ~TooWide(d[i].fmt) =>
       /\ r.lo[i] = [k \in 1..d[i].fmt.items |-> r.lo[i][k]]
       /\ r.hi[i] = [k \in 1..d[i].fmt.items |-> r.hi[i][k]]
       /\ \A k \in 1..d[i].fmt.items : Extremes(Vals(r.rows[i], k), r.lo[i][k], r.hi[i][k])
       /\ tool # "avg" /\ r.bin[i] # NoBin => r.rows[i] # {}

Open(r, d, s, n) == Shape(r) /\ \A i \in Ids : OpenBin(r, d, s, n, i)

\* What a row of the output shows.
Shows(f, s, n) ==
  /\ f.id \in Ids
  /\ tool # "avg" => f.x.rows # {}
  /\ \E m \in Nat :
       /\ \A y \in f.x.rows : RowIs(y, f.id, f.x.at, m, f.x.bin, s, n)
       /\ f.x.item = [k \in 1..m |-> f.x.item[k]]
       /\ \A k \in 1..m :
            /\ f.x.item[k].mean = Seen(f.x.rows, k)
            /\ f.x.item[k].dev = IF tool = "avgsec" THEN Filled(f.x.rows) ELSE {}
            /\ Vals(f.x.rows, k) # {} =>
                 Extremes(Vals(f.x.rows, k), f.x.item[k].lo, f.x.item[k].hi)

\* The rows of the frames of an output, and all rows there are.
SentRows(o) == UNION {o.sink[k].x.rows : k \in DataFrames(o.sink)}
OpenRows(r) == UNION {r.rows[i] : i \in Ids}
AllRows(r) == OpenRows(r) \cup SentRows(r.out)

\* No row is in two places, and none is lost.
Once(r, c) ==
  /\ \A k, m \in DataFrames(r.out.sink) :
       k # m => r.out.sink[k].x.rows \cap r.out.sink[m].x.rows = {}
  /\ SentRows(r.out) \cap OpenRows(r) = {}
  /\ IsFiniteSet(AllRows(r)) /\ Cardinality(AllRows(r)) = c

\* A row is read under the header its rows came with.
SameHeader(s) == {<<s[k].x.at, s[k].x>> : k \in DataFrames(s)}

Output(o, d, s, n) ==
  /\ Direct(o)
  /\ Led(o.sink, SameHeader(o.sink))
  /\ \A i \in Ids : d[i] # NoDesc /\ ~TooWide(d[i].fmt) => Current(o.sink, i, d[i].at)
  /\ \A k \in DataFrames(o.sink) : Shows(o.sink[k], s, n)
  /\ s = NoTime => DataFrames(o.sink) = {}
-----------------------------------------------------------------------------
(* Lemmas about the data.                                                    *)

\* One place of a function of the IDs is set.
Updated(f, g, i, e) == OfIds(g) /\ g[i] = e /\ \A j \in Ids : j # i => g[j] = f[j]

\* EXCEPT updates a function of the IDs in one place.
LEMMA UpdateIs ==
  ASSUME NEW f, OfIds(f), NEW i \in Ids, NEW e
  PROVE  Updated(f, [f EXCEPT ![i] = e], i, e)
<1>1. PICK g : g = [f EXCEPT ![i] = e]
  OBVIOUS
<1>2. f = [j \in Ids |-> f[j]]
  BY Zenon DEF OfIds
<1>3. g = [j \in Ids |-> IF j = i THEN e ELSE f[j]]
  BY <1>1, <1>2
<1>4. g[i] = e /\ \A j \in Ids : j # i => g[j] = f[j]
  BY <1>3
<1>5. g = [j \in Ids |-> g[j]]
  BY <1>3
<1>6. Updated(f, g, i, e)
  BY <1>4, <1>5 DEF Updated, OfIds
<1> QED
  BY <1>1, <1>6

\* What \div rounds off is less than the divisor.
LEMMA Division ==
  ASSUME NEW a \in Nat, NEW w \in Nat \ {0}
  PROVE  /\ a \div w \in Nat
         /\ a >= (a \div w) * w /\ a < (a \div w) * w + w
  OBVIOUS

\* A row is less than a bin from where its bin begins, and not before if it is not
\* before the start.
LEMMA BinOfBounds ==
  ASSUME BinAssumption, NEW t \in Int, NEW s \in Int
  PROVE  /\ BinOf(t, s) \in Int
         /\ t > (s + BinOf(t, s) * Width) - Width /\ t < s + BinOf(t, s) * Width + Width
         /\ t >= s => t >= s + BinOf(t, s) * Width
<1>1. PICK w \in Nat \ {0} : w = Width
  BY DEF BinAssumption
<1>2. CASE t >= s
  <2>1. PICK q \in Nat : q = (t - s) \div w /\ t - s >= q * w /\ t - s < q * w + w
    BY <1>1, <1>2, Division
  <2>2. BinOf(t, s) = q
    BY <1>1, <1>2, <2>1 DEF BinOf
  <2>3. PICK p \in Int : p = q * w
    OBVIOUS
  <2> QED
    BY <1>1, <1>2, <2>1, <2>2, <2>3
<1>3. CASE ~(t >= s)
  <2>1. PICK q \in Nat : q = (s - t) \div w /\ s - t >= q * w /\ s - t < q * w + w
    BY <1>1, <1>3, Division
  <2>2. BinOf(t, s) = -q
    BY <1>1, <1>3, <2>1 DEF BinOf
  <2>3. PICK p \in Int : p = q * w
    OBVIOUS
  <2>4. (-q) * w = -p
    BY <2>3
  <2> QED
    BY <1>1, <1>3, <2>1, <2>2, <2>3, <2>4
<1> QED
  BY <1>2, <1>3

\* One more value.
LEMMA ExtremesAdd ==
  ASSUME NEW V, NEW lo, NEW hi, Extremes(V, lo, hi), NEW v \in Int,
         NEW n \in Nat, n = 0 <=> V = {}, V \subseteq Int
  PROVE  Extremes(V \cup {v}, Lower(lo, n, v), Higher(hi, n, v))
<1>1. PICK a, b : a = Lower(lo, n, v) /\ b = Higher(hi, n, v)
  OBVIOUS
<1>2. PICK W : W = V \cup {v}
  OBVIOUS
<1>3. a \in {lo, v} /\ b \in {hi, v} /\ lo \in Int /\ hi \in Int
  BY <1>1 DEF Lower, Higher, Extremes
<1>4. a <= v /\ \A x \in V : a <= x
  BY <1>1 DEF Lower, Extremes
<1>5. v <= b /\ \A x \in V : x <= b
  BY <1>1 DEF Higher, Extremes
<1>6. a \in W
  BY <1>1, <1>2 DEF Lower, Extremes
<1>7. tool # "peak" => b \in W
  BY <1>1, <1>2 DEF Higher, Extremes
<1>8. tool = "peak" => b >= 0 /\ b \in W \cup {0}
  BY <1>1, <1>2 DEF Higher, Extremes
<1>9. Extremes(W, a, b)
  BY <1>2, <1>3, <1>4, <1>5, <1>6, <1>7, <1>8 DEF Extremes
<1> QED
  BY <1>1, <1>2, <1>9

\* No values, and zeros.
LEMMA ExtremesNone == Extremes({}, 0, 0)
  BY DEF Extremes

\* One more row.
LEMMA SeenAdd ==
  ASSUME NEW S, NEW x, NEW k
  PROVE  IF x.val[k] = Fill THEN Seen(S \cup {x}, k) = Seen(S, k)
         ELSE Seen(S \cup {x}, k) = Seen(S, k) \cup {x}
  BY DEF Seen

\* T is S with row x, W what values of item k it has.
OneMore(S, x, T) == T = S \cup {x}
ValuesOf(T, k, W) == Vals(T, k) = W

\* The values of an item get those of the row.
LEMMA ValsAdd ==
  ASSUME NEW S, NEW x, NEW k, NEW T, OneMore(S, x, T)
  PROVE  ValuesOf(T, k, IF x.val[k] = Fill THEN Vals(S, k) ELSE Vals(S, k) \cup {x.val[k]})
  BY DEF Vals, Seen, OneMore, ValuesOf

\* The row counts for the deviation when it has any value.
LEMMA FilledAdd ==
  ASSUME NEW S, NEW x
  PROVE  Filled(S \cup {x}) =
           IF \E k \in DOMAIN x.val : x.val[k] # Fill THEN Filled(S) \cup {x} ELSE Filled(S)
<1>1. CASE \E k \in DOMAIN x.val : x.val[k] # Fill
  <2>1. Filled(S \cup {x}) = Filled(S) \cup {x}
    BY <1>1, Zenon DEF Filled
  <2> QED
    BY <1>1, <2>1
<1>2. CASE ~\E k \in DOMAIN x.val : x.val[k] # Fill
  <2>1. Filled(S \cup {x}) = Filled(S)
    BY <1>2, Zenon DEF Filled
  <2> QED
    BY <1>2, <2>1
<1> QED
  BY <1>1, <1>2

\* The count of values of an item is 0 when it has none.
LEMMA SeenCount ==
  ASSUME NEW S, IsFiniteSet(S), NEW k
  PROVE  Cardinality(Seen(S, k)) \in Nat /\ (Cardinality(Seen(S, k)) = 0 <=> Vals(S, k) = {})
<1>1. Seen(S, k) \subseteq S
  BY DEF Seen
<1>2. IsFiniteSet(Seen(S, k))
  BY <1>1, FS_Subset
<1>3. Cardinality(Seen(S, k)) \in Nat /\ (Cardinality(Seen(S, k)) = 0 <=> Seen(S, k) = {})
  BY <1>2, FS_CardinalityType, FS_EmptySet
<1>4. Seen(S, k) = {} <=> Vals(S, k) = {}
  BY DEF Vals
<1> QED
  BY <1>3, <1>4

\* No row has a value.
LEMMA NothingSeen == \A k : Seen({}, k) = {} /\ Vals({}, k) = {} /\ Filled({}) = {}
  BY DEF Seen, Vals, Filled

\* Rows have integers where they have no fill.
LEMMA ValsAreInts ==
  ASSUME LayoutAssumption, NEW S, NEW m \in Nat, NEW k \in 1..m,
         \A y \in S : y.val \in [1..m -> Int \cup {Fill}]
  PROVE  Vals(S, k) \subseteq Int
<1> SUFFICES ASSUME NEW y \in S, y.val[k] # Fill
             PROVE  y.val[k] \in Int
  BY DEF Vals, Seen
<1>1. y.val[k] \in Int \cup {Fill}
  OBVIOUS
<1> QED
  BY <1>1

\* More packets, and the first start, leave a row what it is.
LEMMA RowStays ==
  ASSUME NEW y, NEW i, NEW a, NEW m, NEW b, NEW s, NEW n \in Nat, NEW k \in Nat, n <= k,
         RowIs(y, i, a, m, b, s, n)
  PROVE  RowIs(y, i, a, m, b, s, k)
  BY DEF RowIs
-----------------------------------------------------------------------------
(* sendData                                                                  *)

\* The row it puts on the output, as the call of the writer.
SentRow(r, i) == WritePktData(r.out, i, TRUE, BinRow(r, i))

\* q is r with the bin of ID i sent.
HasSent(r, q, i) ==
  /\ Updated(r.rows, q.rows, i, {}) /\ Updated(r.acc, q.acc, i, {})
  /\ Updated(r.lo, q.lo, i, Zeros(desc[i].fmt)) /\ Updated(r.hi, q.hi, i, Zeros(desc[i].fmt))
  /\ IF tool = "avg" THEN q.bin = r.bin ELSE Updated(r.bin, q.bin, i, NoBin)
  /\ q.out = SentRow(r, i)
  /\ q.crash = r.crash

\* q is r but for the crash.
HasCrashed(r, q) ==
  /\ q.rows = r.rows /\ q.acc = r.acc /\ q.lo = r.lo /\ q.hi = r.hi /\ q.bin = r.bin
  /\ q.out = r.out /\ q.crash

\* sendData does nothing, touches memory that is not there, or sends.
LEMMA SendEffect ==
  ASSUME NEW r, Shape(r), NEW i \in Ids, NEW q, q = SendData(r, i)
  PROVE  /\ Shape(q)
         /\ r.bin[i] = NoBin => q = r
         /\ r.bin[i] # NoBin /\ NoRoom(i) => HasCrashed(r, q)
         /\ r.bin[i] # NoBin /\ ~NoRoom(i) => HasSent(r, q, i)
<1>1. PICK b, w, a, l, h, o, c : /\ b = r.bin /\ w = r.rows /\ a = r.acc /\ l = r.lo
                                /\ h = r.hi /\ o = r.out /\ c = r.crash
  OBVIOUS
<1>2. r = [bin |-> b, rows |-> w, acc |-> a, lo |-> l, hi |-> h, out |-> o, crash |-> c]
  BY <1>1 DEF Shape
<1>3. OfIds(b) /\ OfIds(w) /\ OfIds(a) /\ OfIds(l) /\ OfIds(h)
  BY <1>1 DEF Shape
<1>4. CASE r.bin[i] = NoBin
  <2>1. q = r
    BY <1>4 DEF SendData
  <2> QED
    BY <1>4, <2>1
<1>5. CASE r.bin[i] # NoBin /\ NoRoom(i)
  <2>1. q = [r EXCEPT !.crash = TRUE]
    BY <1>5 DEF SendData
  <2>2. q = [bin |-> b, rows |-> w, acc |-> a, lo |-> l, hi |-> h, out |-> o, crash |-> TRUE]
    BY <1>2, <2>1
  <2>3. Shape(q)
    BY <1>3, <2>2 DEF Shape
  <2>4. HasCrashed(r, q)
    BY <1>1, <2>2 DEF HasCrashed
  <2> QED
    BY <1>5, <2>3, <2>4
<1>6. CASE r.bin[i] # NoBin /\ ~NoRoom(i)
  <2>1. PICK z, u, v : z = Zeros(desc[i].fmt) /\ u = SentRow(r, i)
                       /\ v = IF tool = "avg" THEN b[i] ELSE NoBin
    OBVIOUS
  <2>2. q = [r EXCEPT !.rows[i] = {}, !.acc[i] = {}, !.lo[i] = z, !.hi[i] = z,
                      !.bin[i] = v, !.out = u]
    BY <1>1, <1>6, <2>1, Zenon DEF SendData, SentRow
  <2>3. q = [bin |-> [b EXCEPT ![i] = v], rows |-> [w EXCEPT ![i] = {}],
             acc |-> [a EXCEPT ![i] = {}], lo |-> [l EXCEPT ![i] = z],
             hi |-> [h EXCEPT ![i] = z], out |-> u, crash |-> c]
    <3>1. PICK x : x = [r EXCEPT !.rows[i] = {}, !.acc[i] = {}, !.lo[i] = z, !.hi[i] = z]
      OBVIOUS
    <3>2. x = [bin |-> b, rows |-> [w EXCEPT ![i] = {}],
               acc |-> [a EXCEPT ![i] = {}], lo |-> [l EXCEPT ![i] = z],
               hi |-> [h EXCEPT ![i] = z], out |-> o, crash |-> c]
      BY <1>2, <3>1
    <3>3. q = [x EXCEPT !.bin[i] = v, !.out = u]
      BY <2>2, <3>1
    <3> QED
      BY <3>2, <3>3
  <2>4. /\ q.bin = [b EXCEPT ![i] = v] /\ q.rows = [w EXCEPT ![i] = {}]
        /\ q.acc = [a EXCEPT ![i] = {}] /\ q.lo = [l EXCEPT ![i] = z]
        /\ q.hi = [h EXCEPT ![i] = z] /\ q.out = u /\ q.crash = c
    BY <2>3
  <2>5. Updated(w, [w EXCEPT ![i] = {}], i, {}) /\ Updated(a, [a EXCEPT ![i] = {}], i, {})
    BY <1>3, UpdateIs
  <2>6. Updated(l, [l EXCEPT ![i] = z], i, z) /\ Updated(h, [h EXCEPT ![i] = z], i, z)
    BY <1>3, UpdateIs
  <2>7. Updated(b, [b EXCEPT ![i] = v], i, v)
    BY <1>3, UpdateIs
  <2>8. /\ Updated(w, q.rows, i, {}) /\ Updated(a, q.acc, i, {})
        /\ Updated(l, q.lo, i, z) /\ Updated(h, q.hi, i, z) /\ Updated(b, q.bin, i, v)
    BY <2>4, <2>5, <2>6, <2>7
  <2>9. Shape(q)
    <3>1. q = [bin |-> q.bin, rows |-> q.rows, acc |-> q.acc, lo |-> q.lo, hi |-> q.hi,
               out |-> q.out, crash |-> q.crash]
      BY <2>3
    <3> QED
      BY <2>8, <3>1 DEF Shape, Updated
  <2>10. tool = "avg" => q.bin = b
    BY <1>3, <2>1, <2>4 DEF OfIds
  <2>11. HasSent(r, q, i)
    BY <1>1, <2>1, <2>4, <2>8, <2>10 DEF HasSent
  <2> QED
    BY <1>6, <2>9, <2>11
<1> QED
  BY <1>4, <1>5, <1>6

\* The others are as before.
LEMMA OpenBinSame ==
  ASSUME NEW r, NEW q, NEW d, NEW s, NEW n, NEW j, OpenBin(r, d, s, n, j),
         q.bin[j] = r.bin[j], q.rows[j] = r.rows[j], q.acc[j] = r.acc[j],
         q.lo[j] = r.lo[j], q.hi[j] = r.hi[j]
  PROVE  OpenBin(q, d, s, n, j)
  BY DEF OpenBin

\* Zeros are the extremes of no values.
LEMMA OpenBinEmpty ==
  ASSUME NEW q, NEW d, NEW s, NEW n, NEW j,
         q.bin[j] \in Int \cup {NoBin}, q.bin[j] # NoBin => d[j] # NoDesc /\ s # NoTime,
         tool # "avg" => q.bin[j] = NoBin, q.rows[j] = {}, q.acc[j] = {},
         q.lo[j] = Zeros(d[j].fmt), q.hi[j] = Zeros(d[j].fmt)
  PROVE  OpenBin(q, d, s, n, j)
<1>1. IsFiniteSet({})
  BY FS_EmptySet
<1>2. q.acc[j] = IF tool = "avgsec" THEN Filled(q.rows[j]) ELSE {}
  BY NothingSeen
<1>3. PICK m : m = d[j].fmt.items
  OBVIOUS
<1>4. /\ q.lo[j] = [k \in 1..m |-> 0] /\ q.hi[j] = [k \in 1..m |-> 0]
  BY <1>3 DEF Zeros
<1>5. ASSUME NEW k \in 1..m
      PROVE  Extremes(Vals(q.rows[j], k), q.lo[j][k], q.hi[j][k])
  <2>1. q.lo[j][k] = 0 /\ q.hi[j][k] = 0 /\ Vals(q.rows[j], k) = {}
    BY <1>4, NothingSeen
  <2> QED
    BY <2>1, ExtremesNone
<1>6. q.lo[j] = [k \in 1..m |-> q.lo[j][k]] /\ q.hi[j] = [k \in 1..m |-> q.hi[j][k]]
  BY <1>4
<1> QED
  BY <1>1, <1>2, <1>3, <1>5, <1>6 DEF OpenBin

\* sendData leaves the open bins what they are, its own empty.
LEMMA SendOpen ==
  ASSUME NEW r, NEW s, NEW n, Open(r, desc, s, n), NEW i \in Ids, NEW q, q = SendData(r, i)
  PROVE  /\ Open(q, desc, s, n)
         /\ q.rows[i] = {} /\ \A j \in Ids : r.rows[j] = {} => q.rows[j] = {}
         /\ q.crash => r.crash \/ (desc[i] # NoDesc /\ NoRoom(i))
         /\ ~NoRoom(i) => (tool # "avg" => q.bin[i] = NoBin)
<1>1. Shape(r) /\ \A j \in Ids : OpenBin(r, desc, s, n, j)
  BY DEF Open
<1>2. /\ Shape(q)
      /\ r.bin[i] = NoBin => q = r
      /\ r.bin[i] # NoBin /\ NoRoom(i) => HasCrashed(r, q)
      /\ r.bin[i] # NoBin /\ ~NoRoom(i) => HasSent(r, q, i)
  BY <1>1, SendEffect
<1>3. r.rows[i] # {} => r.bin[i] # NoBin /\ ~NoRoom(i)
  BY <1>1 DEF OpenBin, NoRoom, TooWide
<1>4. r.bin[i] # NoBin => desc[i] # NoDesc /\ s # NoTime
  BY <1>1 DEF OpenBin
<1>5. CASE r.bin[i] = NoBin
  BY <1>1, <1>2, <1>3, <1>5
<1>6. CASE r.bin[i] # NoBin /\ NoRoom(i)
  <2>1. HasCrashed(r, q)
    BY <1>2, <1>6
  <2>2. ASSUME NEW j \in Ids
        PROVE  OpenBin(q, desc, s, n, j) /\ q.rows[j] = r.rows[j]
    BY <1>1, <2>1, OpenBinSame DEF HasCrashed
  <2>3. Open(q, desc, s, n)
    BY <1>2, <2>2 DEF Open
  <2> QED
    BY <1>3, <1>4, <1>6, <2>2, <2>3
<1>7. CASE r.bin[i] # NoBin /\ ~NoRoom(i)
  <2>1. HasSent(r, q, i)
    BY <1>2, <1>7
  <2>2. ASSUME NEW j \in Ids, j # i
        PROVE  OpenBin(q, desc, s, n, j) /\ q.rows[j] = r.rows[j]
    <3>1. /\ q.bin[j] = r.bin[j] /\ q.rows[j] = r.rows[j] /\ q.acc[j] = r.acc[j]
          /\ q.lo[j] = r.lo[j] /\ q.hi[j] = r.hi[j]
      BY <2>1, <2>2 DEF HasSent, Updated
    <3> QED
      BY <1>1, <3>1, OpenBinSame
  <2>3. /\ q.rows[i] = {} /\ q.acc[i] = {} /\ q.lo[i] = Zeros(desc[i].fmt)
        /\ q.hi[i] = Zeros(desc[i].fmt) /\ q.bin[i] \in {r.bin[i], NoBin}
        /\ tool # "avg" => q.bin[i] = NoBin
    BY <2>1 DEF HasSent, Updated
  <2>4. r.bin[i] \in Int \cup {NoBin}
    BY <1>1 DEF OpenBin
  <2>5. OpenBin(q, desc, s, n, i)
    BY <1>4, <1>7, <2>3, <2>4, OpenBinEmpty
  <2>6. Open(q, desc, s, n)
    BY <1>2, <2>2, <2>5 DEF Open
  <2>7. q.crash = r.crash
    BY <2>1 DEF HasSent
  <2> QED
    BY <2>2, <2>3, <2>6, <2>7
<1> QED
  BY <1>5, <1>6, <1>7
-----------------------------------------------------------------------------
(* A row comes.                                                              *)

AnyValue(val) == \E k \in DOMAIN val : val[k] # Fill
TheRow(id, t, val) == [n |-> npkt + 1, id |-> id, at |-> desc[id].at, t |-> t, val |-> val]

\* The extremes with one more row.
Lowered(r, id, val) ==
  [k \in DOMAIN r.lo[id] |->
     IF val[k] = Fill THEN r.lo[id][k]
     ELSE Lower(r.lo[id][k], Cardinality(Seen(r.rows[id], k)), val[k])]
Raised(r, id, val) ==
  [k \in DOMAIN r.hi[id] |->
     IF val[k] = Fill THEN r.hi[id][k]
     ELSE Higher(r.hi[id][k], Cardinality(Seen(r.rows[id], k)), val[k])]

\* q is r with row x added, and r with a row there was no room for.
HasAdded(r, q, id, bin, x) ==
  /\ Updated(r.bin, q.bin, id, bin) /\ Updated(r.rows, q.rows, id, r.rows[id] \cup {x})
  /\ Updated(r.acc, q.acc, id, IF tool = "avgsec" /\ AnyValue(x.val) THEN r.acc[id] \cup {x}
                               ELSE r.acc[id])
  /\ Updated(r.lo, q.lo, id, Lowered(r, id, x.val))
  /\ Updated(r.hi, q.hi, id, Raised(r, id, x.val))
  /\ q.out = r.out /\ q.crash = r.crash

HasSkipped(r, q, id, bin, any) ==
  /\ Updated(r.bin, q.bin, id, bin)
  /\ q.rows = r.rows /\ q.acc = r.acc /\ q.lo = r.lo /\ q.hi = r.hi
  /\ q.out = r.out /\ q.crash = (r.crash \/ any)

\* The reducer when the row is taken, and after it.
Ready(id, bin) == IF red.bin[id] \in {NoBin, bin} THEN red ELSE SendData(red, id)

\* The assignments of a row, field by field.
Skip(r, i, g, e) == [r EXCEPT !.bin[i] = g, !.crash = e]
Take(r, i, g, u, v, y, z) ==
  [r EXCEPT !.bin[i] = g, !.rows[i] = u, !.acc[i] = v, !.lo[i] = y, !.hi[i] = z]

\* The effect of Skip.
LEMMA SkippedIs ==
  ASSUME NEW r, Shape(r), NEW i \in Ids, NEW g, NEW e, NEW q, q = Skip(r, i, g, e)
  PROVE  /\ Shape(q) /\ Updated(r.bin, q.bin, i, g)
         /\ q.rows = r.rows /\ q.acc = r.acc /\ q.lo = r.lo /\ q.hi = r.hi
         /\ q.out = r.out /\ q.crash = e
<1>1. PICK b, w, a, l, h, o, c : /\ b = r.bin /\ w = r.rows /\ a = r.acc /\ l = r.lo
                                /\ h = r.hi /\ o = r.out /\ c = r.crash
  OBVIOUS
<1>2. r = [bin |-> b, rows |-> w, acc |-> a, lo |-> l, hi |-> h, out |-> o, crash |-> c]
  BY <1>1 DEF Shape
<1>3. OfIds(b) /\ OfIds(w) /\ OfIds(a) /\ OfIds(l) /\ OfIds(h)
  BY <1>1 DEF Shape
<1>4. q = [bin |-> [b EXCEPT ![i] = g], rows |-> w, acc |-> a, lo |-> l, hi |-> h,
           out |-> o, crash |-> e]
  BY <1>2 DEF Skip
<1>5. Updated(b, [b EXCEPT ![i] = g], i, g)
  BY <1>3, UpdateIs
<1>6. Updated(b, q.bin, i, g)
  BY <1>4, <1>5
<1>7. Shape(q)
  BY <1>3, <1>4, <1>6 DEF Shape, Updated
<1> QED
  BY <1>1, <1>4, <1>6, <1>7

\* The effect of Take.
LEMMA AddedIs ==
  ASSUME NEW r, Shape(r), NEW i \in Ids, NEW g, NEW u, NEW v, NEW y, NEW z,
         NEW q, q = Take(r, i, g, u, v, y, z)
  PROVE  /\ Shape(q)
         /\ Updated(r.bin, q.bin, i, g) /\ Updated(r.rows, q.rows, i, u)
         /\ Updated(r.acc, q.acc, i, v)
         /\ Updated(r.lo, q.lo, i, y) /\ Updated(r.hi, q.hi, i, z)
         /\ q.out = r.out /\ q.crash = r.crash
<1>1. PICK b, w, a, l, h, o, c : /\ b = r.bin /\ w = r.rows /\ a = r.acc /\ l = r.lo
                                /\ h = r.hi /\ o = r.out /\ c = r.crash
  OBVIOUS
<1>2. r = [bin |-> b, rows |-> w, acc |-> a, lo |-> l, hi |-> h, out |-> o, crash |-> c]
  BY <1>1 DEF Shape
<1>3. OfIds(b) /\ OfIds(w) /\ OfIds(a) /\ OfIds(l) /\ OfIds(h)
  BY <1>1 DEF Shape
<1>4. q = [bin |-> [b EXCEPT ![i] = g], rows |-> [w EXCEPT ![i] = u],
           acc |-> [a EXCEPT ![i] = v], lo |-> [l EXCEPT ![i] = y],
           hi |-> [h EXCEPT ![i] = z], out |-> o, crash |-> c]
  BY <1>2 DEF Take
<1>5. /\ q.bin = [b EXCEPT ![i] = g] /\ q.rows = [w EXCEPT ![i] = u]
      /\ q.acc = [a EXCEPT ![i] = v] /\ q.lo = [l EXCEPT ![i] = y]
      /\ q.hi = [h EXCEPT ![i] = z] /\ q.out = o /\ q.crash = c
  BY <1>4
<1>6. Updated(b, [b EXCEPT ![i] = g], i, g) /\ Updated(w, [w EXCEPT ![i] = u], i, u)
  BY <1>3, UpdateIs
<1>7. Updated(a, [a EXCEPT ![i] = v], i, v) /\ Updated(l, [l EXCEPT ![i] = y], i, y)
  BY <1>3, UpdateIs
<1>8. Updated(h, [h EXCEPT ![i] = z], i, z)
  BY <1>3, UpdateIs
<1>9. /\ Updated(b, q.bin, i, g) /\ Updated(w, q.rows, i, u) /\ Updated(a, q.acc, i, v)
      /\ Updated(l, q.lo, i, y) /\ Updated(h, q.hi, i, z)
  BY <1>5, <1>6, <1>7, <1>8
<1>10. Shape(q)
  <2>1. q = [bin |-> q.bin, rows |-> q.rows, acc |-> q.acc, lo |-> q.lo, hi |-> q.hi,
             out |-> q.out, crash |-> q.crash]
    BY <1>4
  <2> QED
    BY <1>9, <2>1 DEF Shape, Updated
<1> QED
  BY <1>1, <1>5, <1>9, <1>10

\* OnPktData skips the row or adds it, to a reducer made ready for it.
LEMMA DataEffect ==
  ASSUME NEW id \in Ids, NEW t, NEW val, OnPktData(id, t, val), NEW g, g = BinOf(t, start'),
         NEW r, r = Ready(id, g), Shape(r)
  PROVE  /\ Shape(red')
         /\ NoRoom(id) => HasSkipped(r, red', id, g, AnyValue(val))
         /\ ~NoRoom(id) => HasAdded(r, red', id, g, TheRow(id, t, val))
<1>1. PICK q : q = red'
  OBVIOUS
<1>2. CASE NoRoom(id)
  <2>1. q = Skip(r, id, g, r.crash \/ AnyValue(val))
    BY <1>1, <1>2, Zenon DEF OnPktData, Ready, AnyValue, Skip
  <2>2. Shape(q) /\ HasSkipped(r, q, id, g, AnyValue(val))
    BY <2>1, SkippedIs DEF HasSkipped
  <2> QED
    BY <1>1, <1>2, <2>2, Zenon
<1>3. CASE ~NoRoom(id)
  <2>1. PICK x : x = TheRow(id, t, val)
    OBVIOUS
  <2>2. PICK u, v, y, z :
          /\ u = r.rows[id] \cup {x}
          /\ v = (IF tool = "avgsec" /\ AnyValue(val) THEN r.acc[id] \cup {x} ELSE r.acc[id])
          /\ y = Lowered(r, id, val) /\ z = Raised(r, id, val)
    BY Zenon
  <2>3. q = Take(r, id, g, u, v, y, z)
    BY <1>1, <1>3, <2>1, <2>2, ZenonT(60)
       DEF OnPktData, Ready, AnyValue, TheRow, Lowered, Raised, Seen, Take
  <2>4. /\ Shape(q)
        /\ Updated(r.bin, q.bin, id, g) /\ Updated(r.rows, q.rows, id, u)
        /\ Updated(r.acc, q.acc, id, v)
        /\ Updated(r.lo, q.lo, id, y) /\ Updated(r.hi, q.hi, id, z)
        /\ q.out = r.out /\ q.crash = r.crash
    BY <2>3, AddedIs
  <2>5. x.val = val
    BY <2>1 DEF TheRow
  <2>6. HasAdded(r, q, id, g, x)
    BY <2>2, <2>4, <2>5, Zenon DEF HasAdded
  <2> QED
    BY <1>1, <1>3, <2>1, <2>4, <2>6, Zenon
<1> QED
  BY <1>2, <1>3

\* The first row sets the start; more packets change nothing.
LEMMA OpenLater ==
  ASSUME NEW r, NEW d, NEW s, NEW n \in Nat, Open(r, d, s, n), NEW z, s = NoTime \/ s = z,
         NEW k \in Nat, n <= k
  PROVE  Open(r, d, z, k)
<1> SUFFICES ASSUME NEW i \in Ids
             PROVE  OpenBin(r, d, z, k, i)
  BY DEF Open
<1>1. OpenBin(r, d, s, n, i)
  BY DEF Open
<1>2. CASE s = NoTime
  <2>1. r.rows[i] = {} /\ r.bin[i] = NoBin
    BY <1>1, <1>2 DEF OpenBin
  <2> QED
    BY <1>1, <2>1 DEF OpenBin
<1>3. CASE s # NoTime
  <2>1. z = s
    BY <1>3
  <2>2. \A y \in r.rows[i] : RowIs(y, i, d[i].at, d[i].fmt.items, r.bin[i], s, k)
    BY <1>1, RowStays DEF OpenBin
  <2> QED
    BY <1>1, <2>1, <2>2 DEF OpenBin
<1> QED
  BY <1>2, <1>3

\* The extremes with the row are those of its values too.
LEMMA ItemAdded ==
  ASSUME BinAssumption, LayoutAssumption, NEW r, NEW d, NEW s, NEW n, NEW id \in Ids,
         OpenBin(r, d, s, n, id), d[id] # NoDesc, ~TooWide(d[id].fmt),
         NEW m \in Nat, m = d[id].fmt.items, NEW x, x.val \in [1..m -> Int \cup {Fill}],
         NEW k \in 1..m, NEW S, S = r.rows[id]
  PROVE  Extremes(Vals(S \cup {x}, k), Lowered(r, id, x.val)[k], Raised(r, id, x.val)[k])
<1>1. PICK l, h, v, c : l = r.lo[id][k] /\ h = r.hi[id][k] /\ v = x.val[k] /\ c = Cardinality(Seen(S, k))
  OBVIOUS
<1>2. DOMAIN r.lo[id] = 1..m /\ DOMAIN r.hi[id] = 1..m /\ Extremes(Vals(S, k), l, h)
  <2>1. /\ r.lo[id] = [j \in 1..m |-> r.lo[id][j]] /\ r.hi[id] = [j \in 1..m |-> r.hi[id][j]]
        /\ \A j \in 1..m : Extremes(Vals(r.rows[id], j), r.lo[id][j], r.hi[id][j])
    BY DEF OpenBin
  <2>2. DOMAIN r.lo[id] = 1..m /\ DOMAIN r.hi[id] = 1..m
    BY <2>1
  <2> QED
    BY <1>1, <2>1, <2>2
<1>3. /\ Lowered(r, id, x.val)[k] = (IF v = Fill THEN l ELSE Lower(l, c, v))
      /\ Raised(r, id, x.val)[k] = (IF v = Fill THEN h ELSE Higher(h, c, v))
  BY <1>1, <1>2 DEF Lowered, Raised
<1>4. CASE v = Fill
  <2>1. Vals(S \cup {x}, k) = Vals(S, k)
    <3>1. PICK T : T = S \cup {x}
      OBVIOUS
    <3>2. ValuesOf(T, k, IF x.val[k] = Fill THEN Vals(S, k) ELSE Vals(S, k) \cup {x.val[k]})
      BY <3>1, ValsAdd DEF OneMore
    <3> QED
      BY <1>1, <1>4, <3>1, <3>2 DEF ValuesOf
  <2> QED
    BY <1>2, <1>3, <1>4, <2>1
<1>5. CASE v # Fill
  <2>1. v \in Int
    BY <1>1, <1>5
  <2>2. c \in Nat /\ (c = 0 <=> Vals(S, k) = {})
    BY <1>1, SeenCount DEF OpenBin
  <2>3. Vals(S, k) \subseteq Int
    <3>1. \A y \in S : y.val \in [1..m -> Int \cup {Fill}]
      BY DEF OpenBin, RowIs
    <3> QED
      BY <3>1, ValsAreInts
  <2>4. Extremes(Vals(S, k) \cup {v}, Lower(l, c, v), Higher(h, c, v))
    BY <1>2, <2>1, <2>2, <2>3, ExtremesAdd
  <2>5. Vals(S \cup {x}, k) = Vals(S, k) \cup {v}
    <3>1. PICK T : T = S \cup {x}
      OBVIOUS
    <3>2. ValuesOf(T, k, IF x.val[k] = Fill THEN Vals(S, k) ELSE Vals(S, k) \cup {x.val[k]})
      BY <3>1, ValsAdd DEF OneMore
    <3> QED
      BY <1>1, <1>5, <3>1, <3>2 DEF ValuesOf
  <2> QED
    BY <1>3, <1>5, <2>4, <2>5
<1> QED
  BY <1>4, <1>5

\* The row joins the open bin, which is its own.
LEMMA AddOpen ==
  ASSUME BinAssumption, LayoutAssumption, NEW r, NEW d, NEW s,
         NEW n, Open(r, d, s, n), DescOk(d, n),
         NEW id \in Ids, d[id] # NoDesc, ~TooWide(d[id].fmt),
         NEW g \in Int, r.rows[id] # {} => r.bin[id] = g, s # NoTime,
         NEW x, RowIs(x, id, d[id].at, d[id].fmt.items, g, s, n),
         NEW q, Shape(q), HasAdded(r, q, id, g, x)
  PROVE  Open(q, d, s, n)
<1>1. \A j \in Ids : OpenBin(r, d, s, n, j)
  BY DEF Open
<1>2. ASSUME NEW j \in Ids, j # id
      PROVE  OpenBin(q, d, s, n, j)
  <2>1. /\ q.bin[j] = r.bin[j] /\ q.rows[j] = r.rows[j] /\ q.acc[j] = r.acc[j]
        /\ q.lo[j] = r.lo[j] /\ q.hi[j] = r.hi[j]
    BY <1>2 DEF HasAdded, Updated
  <2> QED
    BY <1>1, <2>1, OpenBinSame
<1>3. PICK m \in Nat : m = d[id].fmt.items
  BY DEF DescOk, LayoutAssumption
<1>4. PICK S : S = r.rows[id]
  OBVIOUS
<1>5. /\ q.bin[id] = g /\ q.rows[id] = S \cup {x}
      /\ q.acc[id] = IF tool = "avgsec" /\ AnyValue(x.val) THEN r.acc[id] \cup {x} ELSE r.acc[id]
      /\ q.lo[id] = Lowered(r, id, x.val) /\ q.hi[id] = Raised(r, id, x.val)
  BY <1>4 DEF HasAdded, Updated
<1>6. IsFiniteSet(S \cup {x})
  BY <1>1, <1>4, FS_AddElement DEF OpenBin
<1>7. \A y \in S \cup {x} : RowIs(y, id, d[id].at, d[id].fmt.items, g, s, n)
  <2> SUFFICES ASSUME NEW y \in S
               PROVE  RowIs(y, id, d[id].at, d[id].fmt.items, g, s, n)
    OBVIOUS
  <2>1. RowIs(y, id, d[id].at, d[id].fmt.items, r.bin[id], s, n)
    BY <1>1, <1>4 DEF OpenBin
  <2>2. r.bin[id] = g
    BY <1>4
  <2> QED
    BY <2>1, <2>2
<1>8. q.acc[id] = IF tool = "avgsec" THEN Filled(S \cup {x}) ELSE {}
  <2>1. r.acc[id] = IF tool = "avgsec" THEN Filled(S) ELSE {}
    BY <1>1, <1>4 DEF OpenBin
  <2>2. Filled(S \cup {x}) = IF AnyValue(x.val) THEN Filled(S) \cup {x} ELSE Filled(S)
    BY FilledAdd DEF AnyValue
  <2> QED
    BY <1>5, <2>1, <2>2
<1>9. x.val \in [1..m -> Int \cup {Fill}]
  BY <1>3 DEF RowIs
<1>10. \A k \in 1..m : Extremes(Vals(S \cup {x}, k), q.lo[id][k], q.hi[id][k])
  <2> SUFFICES ASSUME NEW k \in 1..m
               PROVE  Extremes(Vals(S \cup {x}, k), q.lo[id][k], q.hi[id][k])
    OBVIOUS
  <2>1. Extremes(Vals(S \cup {x}, k), Lowered(r, id, x.val)[k], Raised(r, id, x.val)[k])
    BY <1>1, <1>3, <1>4, <1>9, ItemAdded
  <2> QED
    BY <1>5, <2>1
<1>11. q.lo[id] = [k \in 1..m |-> q.lo[id][k]] /\ q.hi[id] = [k \in 1..m |-> q.hi[id][k]]
  <2>1. /\ r.lo[id] = [j \in 1..m |-> r.lo[id][j]] /\ r.hi[id] = [j \in 1..m |-> r.hi[id][j]]
    BY <1>1, <1>3 DEF OpenBin
  <2>2. DOMAIN r.lo[id] = 1..m /\ DOMAIN r.hi[id] = 1..m
    BY <2>1
  <2> QED
    BY <1>5, <2>2 DEF Lowered, Raised
<1>12. OpenBin(q, d, s, n, id)
  BY <1>3, <1>5, <1>6, <1>7, <1>8, <1>10, <1>11 DEF OpenBin
<1> QED
  BY <1>2, <1>12 DEF Open

\* A row there is no room for opens the bin only.
LEMMA SkipOpen ==
  ASSUME BinAssumption, NEW r, NEW d, NEW s, NEW n, Open(r, d, s, n),
         NEW id \in Ids, d[id] # NoDesc, TooWide(d[id].fmt), NEW g \in Int, s # NoTime,
         NEW any, NEW q, Shape(q), HasSkipped(r, q, id, g, any)
  PROVE  Open(q, d, s, n)
<1>1. \A j \in Ids : OpenBin(r, d, s, n, j)
  BY DEF Open
<1>2. ASSUME NEW j \in Ids, j # id
      PROVE  OpenBin(q, d, s, n, j)
  <2>1. /\ q.bin[j] = r.bin[j] /\ q.rows[j] = r.rows[j] /\ q.acc[j] = r.acc[j]
        /\ q.lo[j] = r.lo[j] /\ q.hi[j] = r.hi[j]
    BY <1>2 DEF HasSkipped, Updated
  <2> QED
    BY <1>1, <2>1, OpenBinSame
<1>3. q.bin[id] = g /\ q.rows[id] = r.rows[id] /\ q.acc[id] = r.acc[id]
  BY DEF HasSkipped, Updated
<1>4. r.rows[id] = {} /\ OpenBin(r, d, s, n, id)
  BY <1>1 DEF OpenBin
<1>5. OpenBin(q, d, s, n, id)
  BY <1>3, <1>4 DEF OpenBin
<1> QED
  BY <1>2, <1>5 DEF Open
-----------------------------------------------------------------------------
(* The output.                                                               *)

\* With frame f, the headers of the descriptors are the current ones.
HeadersWith(u, f, d) ==
  \A i \in Ids : d[i] # NoDesc /\ ~TooWide(d[i].fmt) =>
    IF f.kind = "packet" /\ f.id = i THEN f.x = d[i].at ELSE Current(u, i, d[i].at)

\* A frame comes that is known to be right; a header is the current one from then on.
LEMMA OutputAppend ==
  ASSUME NEW o, NEW d, NEW s, NEW n, Output(o, d, s, n), NEW f,
         f.kind = "data" => Current(o.sink, f.id, f.x.at) /\ Shows(f, s, n) /\ s # NoTime,
         NEW e, HeadersWith(o.sink, f, e), NEW q, Direct(q), q.sink = Append(o.sink, f)
  PROVE  Output(q, e, s, n)
<1>1. PICK u : u = o.sink
  OBVIOUS
<1>2. PICK w : w = Append(u, f)
  OBVIOUS
<1>3. Direct(o) /\ AnySeq(u) /\ Led(u, SameHeader(u))
  BY <1>1 DEF Output, Direct
<1>4. q.sink = w /\ Direct(q)
  BY <1>1, <1>2
<1>5. /\ f.kind # "data" => SameRows(u, w)
      /\ f.kind = "data" => RowAdded(u, w, f)
  BY <1>2, <1>3, RowsAppend
<1>6. SameHeader(u) \subseteq SameHeader(w)
      /\ (f.kind = "data" => <<f.x.at, f.x>> \in SameHeader(w))
  BY <1>5 DEF SameHeader, SameRows, RowAdded
<1>7. Led(u, SameHeader(w))
  BY <1>3, <1>6 DEF Led
<1>8. Led(w, SameHeader(w))
  <2>1. PICK R : R = SameHeader(w)
    OBVIOUS
  <2>2. PICK x : x = f.x.at
    OBVIOUS
  <2>3. f.kind = "data" => Current(u, f.id, x) /\ <<x, f.x>> \in R
    BY <1>1, <1>6, <2>1, <2>2
  <2>4. Led(Append(u, f), R)
    BY <1>7, <2>1, <2>3, LedAppend
  <2> QED
    BY <1>2, <2>1, <2>4
<1>9. ASSUME NEW i \in Ids, e[i] # NoDesc, ~TooWide(e[i].fmt)
      PROVE  Current(w, i, e[i].at)
  <2>1. CASE f.kind = "packet" /\ f.id = i
    <3>1. f.x = e[i].at
      BY <1>9, <2>1 DEF HeadersWith
    <3> QED
      BY <1>2, <1>3, <2>1, <3>1, CurrentSet
  <2>2. CASE ~(f.kind = "packet" /\ f.id = i)
    <3>1. Current(u, i, e[i].at)
      BY <1>1, <1>9, <2>2 DEF HeadersWith
    <3> QED
      BY <1>2, <1>3, <2>2, <3>1, CurrentStays
  <2> QED
    BY <2>1, <2>2
<1>10. ASSUME NEW k \in DataFrames(w)
       PROVE  Shows(w[k], s, n)
  <2>1. \A j \in DataFrames(u) : Shows(u[j], s, n)
    BY <1>1 DEF Output
  <2> QED
    BY <1>5, <2>1 DEF SameRows, RowAdded
<1>11. s = NoTime => DataFrames(w) = {}
  BY <1>1, <1>5 DEF Output, SameRows
<1> QED
  BY <1>4, <1>8, <1>9, <1>10, <1>11 DEF Output

\* When it is put there as it is.
LEMMA OutputPut ==
  ASSUME NEW o, NEW d, NEW s, NEW n, Output(o, d, s, n), NEW f,
         f.kind = "data" => Current(o.sink, f.id, f.x.at) /\ Shows(f, s, n) /\ s # NoTime,
         NEW e, HeadersWith(o.sink, f, e), NEW q, q = Put(o, f)
  PROVE  Output(q, e, s, n) /\ q.hdr = o.hdr /\ q.failed = o.failed
<1>1. Direct(o)
  BY DEF Output
<1>2. PICK p : p = Put(o, f)
  OBVIOUS
<1>3. Direct(p) /\ p.sink = Append(o.sink, f) /\ p.hdr = o.hdr /\ p.failed = o.failed
  BY <1>1, <1>2, PutDirect
<1>4. Output(p, e, s, n)
  BY <1>3, OutputAppend
<1> QED
  BY <1>2, <1>3, <1>4

\* Nothing is put there.
LEMMA OutputSame ==
  ASSUME NEW o, NEW d, NEW s, NEW n, Output(o, d, s, n), NEW q, Direct(q), q.sink = o.sink
  PROVE  Output(q, d, s, n)
  BY DEF Output

\* A message or a stream header goes with the headers there are.
LEMMA HeadersStay ==
  ASSUME NEW o, NEW d, NEW s, NEW n, Output(o, d, s, n), NEW f, f.kind # "packet"
  PROVE  HeadersWith(o.sink, f, d)
  BY DEF Output, HeadersWith

\* The first start and more packets change nothing of what was sent.
LEMMA OutputLater ==
  ASSUME NEW o, NEW d, NEW s, NEW n \in Nat, Output(o, d, s, n), NEW z,
         s = NoTime \/ s = z, z # NoTime, NEW k \in Nat, n <= k
  PROVE  Output(o, d, z, k)
<1>1. ASSUME NEW j \in DataFrames(o.sink)
      PROVE  Shows(o.sink[j], z, k)
  <2>1. s # NoTime /\ z = s /\ Shows(o.sink[j], s, n)
    BY <1>1 DEF Output
  <2>2. PICK f : f = o.sink[j]
    OBVIOUS
  <2>3. Shows(f, s, n)
    BY <2>1, <2>2
  <2>4. Shows(f, s, k)
    <3>1. PICK m \in Nat :
       /\ \A y \in f.x.rows : RowIs(y, f.id, f.x.at, m, f.x.bin, s, n)
       /\ f.x.item = [c \in 1..m |-> f.x.item[c]]
       /\ \A c \in 1..m :
            /\ f.x.item[c].mean = Seen(f.x.rows, c)
            /\ f.x.item[c].dev = IF tool = "avgsec" THEN Filled(f.x.rows) ELSE {}
            /\ Vals(f.x.rows, c) # {} =>
                 Extremes(Vals(f.x.rows, c), f.x.item[c].lo, f.x.item[c].hi)
      BY <2>3 DEF Shows
    <3>2. \A y \in f.x.rows : RowIs(y, f.id, f.x.at, m, f.x.bin, s, k)
      BY <3>1, RowStays
    <3> QED
      BY <2>3, <3>1, <3>2 DEF Shows
  <2> QED
    BY <2>1, <2>2, <2>4
<1> QED
  BY <1>1 DEF Output

\* What the row shows that is sent of an open bin.
LEMMA RowShows ==
  ASSUME LayoutAssumption, NEW r, NEW s, NEW n,
         NEW i \in Ids, OpenBin(r, desc, s, n, i), DescOk(desc, n),
         r.bin[i] # NoBin, ~NoRoom(i)
  PROVE  Shows(Frame("data", i, BinRow(r, i)), s, n)
<1>1. desc[i] # NoDesc /\ ~TooWide(desc[i].fmt)
  BY DEF OpenBin, NoRoom, TooWide
<1>2. PICK m \in Nat : m = desc[i].fmt.items
  BY <1>1 DEF DescOk, LayoutAssumption
<1>3. PICK S : S = r.rows[i]
  OBVIOUS
<1>4. PICK x : x = BinRow(r, i)
  OBVIOUS
<1>5. /\ x.at = desc[i].at /\ x.bin = r.bin[i] /\ x.rows = S
      /\ x.item = [k \in 1..m |->
           [mean |-> Seen(S, k), dev |-> r.acc[i],
            lo |-> IF Seen(S, k) = {} THEN Fill ELSE r.lo[i][k],
            hi |-> IF Seen(S, k) = {} THEN Fill ELSE r.hi[i][k]]]
  BY <1>2, <1>3, <1>4, Zenon DEF BinRow, Seen
<1>6. /\ \A y \in S : RowIs(y, i, x.at, m, x.bin, s, n)
      /\ r.acc[i] = IF tool = "avgsec" THEN Filled(S) ELSE {}
      /\ \A k \in 1..m : Extremes(Vals(S, k), r.lo[i][k], r.hi[i][k])
      /\ tool # "avg" => S # {}
  BY <1>1, <1>2, <1>3, <1>5 DEF OpenBin
<1>7. ASSUME NEW k \in 1..m
      PROVE  /\ x.item[k].mean = Seen(S, k)
             /\ x.item[k].dev = IF tool = "avgsec" THEN Filled(S) ELSE {}
             /\ Vals(S, k) # {} => Extremes(Vals(S, k), x.item[k].lo, x.item[k].hi)
  <2>1. Vals(S, k) # {} => Seen(S, k) # {}
    BY DEF Vals
  <2>2. /\ x.item[k].mean = Seen(S, k) /\ x.item[k].dev = r.acc[i]
        /\ Seen(S, k) # {} => x.item[k].lo = r.lo[i][k] /\ x.item[k].hi = r.hi[i][k]
    BY <1>5
  <2> QED
    BY <1>6, <2>1, <2>2
<1>8. x.item = [k \in 1..m |-> x.item[k]]
  BY <1>5
<1>9. PICK f : f = Frame("data", i, x)
  OBVIOUS
<1>10. f.id = i /\ f.x = x
  BY <1>9 DEF Frame
<1>11. Shows(f, s, n)
  BY <1>5, <1>6, <1>7, <1>8, <1>10 DEF Shows
<1> QED
  BY <1>4, <1>9, <1>11

\* sendData keeps the output readable.
LEMMA SendOutput ==
  ASSUME LayoutAssumption, NEW r, NEW s, NEW n, Open(r, desc, s, n), DescOk(desc, n),
         Output(r.out, desc, s, n), r.out.hdr, NEW i \in Ids, NEW q, q = SendData(r, i)
  PROVE  Output(q.out, desc, s, n) /\ q.out.hdr /\ q.out.failed = r.out.failed
<1>1. Shape(r) /\ OpenBin(r, desc, s, n, i)
  BY DEF Open
<1>2. /\ r.bin[i] = NoBin => q = r
      /\ r.bin[i] # NoBin /\ NoRoom(i) => HasCrashed(r, q)
      /\ r.bin[i] # NoBin /\ ~NoRoom(i) => HasSent(r, q, i)
  BY <1>1, SendEffect
<1>3. CASE r.bin[i] = NoBin \/ NoRoom(i)
  <2>1. q.out = r.out
    BY <1>2, <1>3 DEF HasCrashed
  <2> QED
    BY <2>1
<1>4. CASE r.bin[i] # NoBin /\ ~NoRoom(i)
  <2>1. PICK f : f = Frame("data", i, BinRow(r, i))
    OBVIOUS
  <2>2. PICK o : o = r.out
    OBVIOUS
  <2>3. q.out = Put(o, f)
    BY <1>2, <1>4, <2>1, <2>2 DEF HasSent, SentRow, WritePktData
  <2>4. f.kind = "data" /\ f.id = i /\ f.x.at = desc[i].at
    BY <2>1 DEF Frame, BinRow
  <2>5. desc[i] # NoDesc /\ s # NoTime /\ ~TooWide(desc[i].fmt)
    BY <1>1, <1>4 DEF OpenBin, NoRoom, TooWide
  <2>6. Current(o.sink, f.id, f.x.at)
    BY <2>2, <2>4, <2>5 DEF Output
  <2>7. Shows(f, s, n)
    BY <1>1, <1>4, <2>1, RowShows
  <2>8. \A j \in Ids : desc[j] # NoDesc /\ ~TooWide(desc[j].fmt) => Current(o.sink, j, desc[j].at)
    BY <2>2 DEF Output
  <2>9. HeadersWith(o.sink, f, desc)
    BY <2>4, <2>8 DEF HeadersWith
  <2>10. PICK p : p = q.out
    OBVIOUS
  <2>11. Output(p, desc, s, n) /\ p.hdr = o.hdr /\ p.failed = o.failed
    BY <2>2, <2>3, <2>5, <2>6, <2>7, <2>8, <2>9, <2>10, OutputPut
  <2> QED
    BY <2>2, <2>10, <2>11
<1> QED
  BY <1>3, <1>4
-----------------------------------------------------------------------------
(* The history.                                                              *)

\* The rows of an open bin move to one row of the output.
LEMMA OnceSent ==
  ASSUME NEW r, NEW c, Once(r, c), NEW i \in Ids, NEW q, Updated(r.rows, q.rows, i, {}),
         NEW f, f.kind = "data", f.x.rows = r.rows[i], AnySeq(r.out.sink),
         q.out.sink = Append(r.out.sink, f),
         \A j \in Ids : j # i => r.rows[j] \cap r.rows[i] = {}
  PROVE  Once(q, c)
<1>1. PICK u, S : u = r.out.sink /\ S = r.rows[i]
  OBVIOUS
<1>2. PICK w : w = Append(u, f)
  OBVIOUS
<1>3. RowAdded(u, w, f)
  BY <1>1, <1>2, RowsAppend
<1>4. q.out.sink = w
  BY <1>1, <1>2
<1>5. PICK A, B, C, D : /\ A = SentRows(r.out) /\ B = OpenRows(r)
                        /\ C = SentRows(q.out) /\ D = OpenRows(q)
  OBVIOUS
<1>6. \A k \in DataFrames(u) : u[k].x.rows \subseteq A
  BY <1>1, <1>5 DEF SentRows
<1>7. C = A \cup S
  <2>1. C = UNION {w[k].x.rows : k \in DataFrames(w)}
    BY <1>4, <1>5 DEF SentRows
  <2>2. A = UNION {u[k].x.rows : k \in DataFrames(u)}
    BY <1>1, <1>5 DEF SentRows
  <2>3. \A y : y \in C <=> \E k \in DataFrames(w) : y \in w[k].x.rows
    BY <2>1
  <2>4. \A y : y \in A <=> \E k \in DataFrames(u) : y \in u[k].x.rows
    BY <2>2
  <2>5. w[Len(u) + 1].x.rows = S
    BY <1>1, <1>3 DEF RowAdded
  <2>6. \A y \in C : y \in A \cup S
    BY <1>3, <2>3, <2>4, <2>5 DEF RowAdded
  <2>7. \A y \in A : y \in C
    BY <1>3, <2>3, <2>4 DEF RowAdded
  <2>8. \A y \in S : y \in C
    BY <1>3, <2>3, <2>5 DEF RowAdded
  <2> QED
    BY <2>6, <2>7, <2>8
<1>8. \A y : y \in B <=> \E j \in Ids : y \in r.rows[j]
  BY <1>5 DEF OpenRows
<1>9. \A y : y \in D <=> \E j \in Ids : j # i /\ y \in r.rows[j]
  <2>1. \A y : y \in D <=> \E j \in Ids : y \in q.rows[j]
    BY <1>5 DEF OpenRows
  <2> QED
    BY <2>1 DEF Updated
<1>10. D \cap S = {} /\ B = D \cup S
  <2>1. D \cap S = {}
    BY <1>1, <1>9
  <2>2. B = D \cup S
    BY <1>1, <1>8, <1>9
  <2> QED
    BY <2>1, <2>2
<1>11. A \cap B = {} /\ IsFiniteSet(A \cup B) /\ Cardinality(A \cup B) = c
  BY <1>5, Zenon DEF Once, AllRows
<1>12. C \cap D = {}
  BY <1>7, <1>10, <1>11
<1>13. C \cup D = A \cup B
  BY <1>7, <1>10
<1>14. ASSUME NEW k \in DataFrames(w), NEW m \in DataFrames(w), k # m
       PROVE  w[k].x.rows \cap w[m].x.rows = {}
  <2>1. \A a, b \in DataFrames(u) : a # b => u[a].x.rows \cap u[b].x.rows = {}
    BY <1>1 DEF Once
  <2>2. \A a \in DataFrames(u) : u[a].x.rows \cap S = {}
    BY <1>6, <1>10, <1>11
  <2>3. w[Len(u) + 1].x.rows = S
    BY <1>1, <1>3 DEF RowAdded
  <2>4. CASE k \in DataFrames(u) /\ m \in DataFrames(u)
    BY <1>3, <1>14, <2>1, <2>4 DEF RowAdded
  <2>5. CASE k = Len(u) + 1 /\ m \in DataFrames(u)
    BY <1>3, <2>2, <2>3, <2>5 DEF RowAdded
  <2>6. CASE k \in DataFrames(u) /\ m = Len(u) + 1
    BY <1>3, <2>2, <2>3, <2>6 DEF RowAdded
  <2> QED
    BY <1>3, <1>14, <2>4, <2>5, <2>6 DEF RowAdded
<1>15. AllRows(q) = A \cup B
  BY <1>5, <1>13 DEF AllRows
<1>16. IsFiniteSet(AllRows(q)) /\ Cardinality(AllRows(q)) = c
  BY <1>11, <1>15
<1>17. SentRows(q.out) \cap OpenRows(q) = {}
  BY <1>5, <1>12
<1> QED
  BY <1>4, <1>14, <1>16, <1>17 DEF Once

\* A frame without rows changes nothing.
LEMMA OnceSame ==
  ASSUME NEW r, NEW c, Once(r, c), NEW q,
         \A j \in Ids : q.rows[j] = r.rows[j], SameRows(r.out.sink, q.out.sink)
  PROVE  Once(q, c)
<1>1. PICK u, w : u = r.out.sink /\ w = q.out.sink
  OBVIOUS
<1>2. SameRows(u, w)
  BY <1>1
<1>3. OpenRows(q) = OpenRows(r)
  BY DEF OpenRows
<1>4. SentRows(q.out) = SentRows(r.out)
  <2>1. PICK A, C : A = SentRows(r.out) /\ C = SentRows(q.out)
    OBVIOUS
  <2>2. A = UNION {u[k].x.rows : k \in DataFrames(u)}
    BY <1>1, <2>1 DEF SentRows
  <2>3. C = UNION {w[k].x.rows : k \in DataFrames(w)}
    BY <1>1, <2>1 DEF SentRows
  <2>4. \A y : y \in A <=> \E k \in DataFrames(u) : y \in u[k].x.rows
    BY <2>2
  <2>5. \A y : y \in C <=> \E k \in DataFrames(w) : y \in w[k].x.rows
    BY <2>3
  <2>6. \A y : y \in C <=> y \in A
    BY <1>2, <2>4, <2>5 DEF SameRows
  <2>7. A = C
    BY <2>6
  <2> QED
    BY <2>1, <2>7
<1>5. AllRows(q) = AllRows(r)
  BY <1>3, <1>4 DEF AllRows
<1>6. \A k, m \in DataFrames(w) : k # m => w[k].x.rows \cap w[m].x.rows = {}
  <2>1. \A k, m \in DataFrames(u) : k # m => u[k].x.rows \cap u[m].x.rows = {}
    BY <1>1 DEF Once
  <2> QED
    BY <1>2, <2>1 DEF SameRows
<1>7. /\ SentRows(r.out) \cap OpenRows(r) = {}
      /\ IsFiniteSet(AllRows(r)) /\ Cardinality(AllRows(r)) = c
  BY DEF Once
<1> QED
  BY <1>1, <1>3, <1>4, <1>5, <1>6, <1>7 DEF Once

\* sendData loses nothing.
LEMMA SendOnce ==
  ASSUME NEW r, NEW s, NEW n, NEW c, Open(r, desc, s, n), Direct(r.out), r.out.hdr, Once(r, c),
         NEW i \in Ids, NEW q, q = SendData(r, i)
  PROVE  Once(q, c)
<1>1. Shape(r) /\ \A j \in Ids : OpenBin(r, desc, s, n, j)
  BY DEF Open
<1>2. /\ r.bin[i] = NoBin => q = r
      /\ r.bin[i] # NoBin /\ NoRoom(i) => HasCrashed(r, q)
      /\ r.bin[i] # NoBin /\ ~NoRoom(i) => HasSent(r, q, i)
  BY <1>1, SendEffect
<1>3. CASE r.bin[i] = NoBin
  <2>1. q = r
    BY <1>2, <1>3
  <2> QED
    BY <2>1
<1>4. CASE r.bin[i] # NoBin /\ NoRoom(i)
  <2>1. (\A j \in Ids : q.rows[j] = r.rows[j]) /\ q.out = r.out
    BY <1>2, <1>4 DEF HasCrashed
  <2>2. SameRows(r.out.sink, q.out.sink)
    BY <2>1 DEF SameRows
  <2> QED
    BY <2>1, <2>2, OnceSame
<1>5. CASE r.bin[i] # NoBin /\ ~NoRoom(i)
  <2>1. PICK f : f = Frame("data", i, BinRow(r, i))
    OBVIOUS
  <2>2. HasSent(r, q, i)
    BY <1>2, <1>5
  <2>3. q.out = Put(r.out, f)
    BY <2>1, <2>2 DEF HasSent, SentRow, WritePktData
  <2>4. q.out.sink = Append(r.out.sink, f)
    BY <2>3, PutDirect
  <2>5. f.kind = "data" /\ f.x.rows = r.rows[i]
    BY <2>1 DEF Frame, BinRow
  <2>6. ASSUME NEW j \in Ids, j # i
        PROVE  r.rows[j] \cap r.rows[i] = {}
    <3>1. (\A y \in r.rows[j] : y.id = j) /\ (\A y \in r.rows[i] : y.id = i)
      BY <1>1 DEF OpenBin, RowIs
    <3> QED
      BY <2>6, <3>1
  <2>7. Updated(r.rows, q.rows, i, {})
    BY <2>2 DEF HasSent
  <2>8. AnySeq(r.out.sink)
    BY DEF Direct
  <2> QED
    BY <2>4, <2>5, <2>6, <2>7, <2>8, OnceSent
<1> QED
  BY <1>3, <1>4, <1>5

\* A row comes that was in none.
LEMMA AddOnce ==
  ASSUME NEW r, NEW s, NEW n \in Nat, NEW c \in Nat,
         NEW d, Open(r, d, s, n), Output(r.out, d, s, n),
         Once(r, c), NEW id \in Ids, NEW x, x.n = n + 1,
         NEW q, Updated(r.rows, q.rows, id, r.rows[id] \cup {x}), q.out = r.out
  PROVE  Once(q, c + 1)
<1>1. PICK A, B, D : A = SentRows(r.out) /\ B = OpenRows(r) /\ D = OpenRows(q)
  OBVIOUS
<1>2. x \notin B
  <2>1. \A j \in Ids : \A y \in r.rows[j] : y.n \in 1..n
    BY DEF Open, OpenBin, RowIs
  <2>2. \A y \in B : y.n \in 1..n
    BY <1>1, <2>1 DEF OpenRows
  <2> QED
    BY <2>2
<1>3. x \notin A
  <2>1. ASSUME NEW k \in DataFrames(r.out.sink)
        PROVE  \A y \in r.out.sink[k].x.rows : y.n \in 1..n
    <3>1. PICK f : f = r.out.sink[k]
      OBVIOUS
    <3>2. Shows(f, s, n)
      BY <3>1 DEF Output
    <3>3. \A y \in f.x.rows : y.n \in 1..n
      BY <3>2 DEF Shows, RowIs
    <3> QED
      BY <3>1, <3>3
  <2>2. \A y \in A : y.n \in 1..n
    BY <1>1, <2>1 DEF SentRows
  <2> QED
    BY <2>2
<1>4. D = B \cup {x}
  <2>1. \A y : y \in B <=> \E j \in Ids : y \in r.rows[j]
    BY <1>1 DEF OpenRows
  <2>2. \A y : y \in D <=> \E j \in Ids : y \in q.rows[j]
    BY <1>1 DEF OpenRows
  <2>3. /\ q.rows[id] = r.rows[id] \cup {x}
        /\ \A j \in Ids : j # id => q.rows[j] = r.rows[j]
    BY DEF Updated
  <2>4. \A y \in D : y \in B \cup {x}
    BY <2>1, <2>2, <2>3
  <2>5. \A y \in B : y \in D
    BY <2>1, <2>2, <2>3
  <2>6. x \in D
    BY <2>2, <2>3
  <2> QED
    BY <2>4, <2>5, <2>6
<1>5. A \cap B = {} /\ IsFiniteSet(A \cup B) /\ Cardinality(A \cup B) = c
  BY <1>1, Zenon DEF Once, AllRows
<1>6. x \notin A \cup B
  BY <1>2, <1>3
<1>7. IsFiniteSet((A \cup B) \cup {x}) /\ Cardinality((A \cup B) \cup {x}) = c + 1
  BY <1>5, <1>6, FS_AddElement
<1>8. AllRows(q) = (A \cup B) \cup {x}
  BY <1>1, <1>4 DEF AllRows
<1>9. SentRows(q.out) \cap OpenRows(q) = {}
  BY <1>1, <1>3, <1>4, <1>5
<1>10. \A k, m \in DataFrames(q.out.sink) :
         k # m => q.out.sink[k].x.rows \cap q.out.sink[m].x.rows = {}
  BY DEF Once
<1> QED
  BY <1>7, <1>8, <1>9, <1>10 DEF Once
-----------------------------------------------------------------------------
(* A packet header.                                                          *)

\* All is set to zero for the ID.
HasZeros(r, q, i, f) ==
  /\ Updated(r.rows, q.rows, i, {}) /\ Updated(r.acc, q.acc, i, {})
  /\ Updated(r.lo, q.lo, i, Zeros(f)) /\ Updated(r.hi, q.hi, i, Zeros(f))

\* The reducer q after a header for ID i, when what was open has left it as r.
HasDefined(r, q, i, f) ==
  /\ IF tool = "avg" THEN q.bin = r.bin ELSE Updated(r.bin, q.bin, i, NoBin)
  /\ IF TooWide(f) THEN q.rows = r.rows /\ q.acc = r.acc /\ q.lo = r.lo /\ q.hi = r.hi
     ELSE HasZeros(r, q, i, f)
  /\ q.out = IF TooWide(f) THEN WriteOob(r.out, "TooWide") ELSE WritePktDesc(r.out, i, npkt + 1)
  /\ q.crash = r.crash

\* The assignments, field by field.
ZeroOut(r, i, z, o) ==
  [[r EXCEPT !.rows[i] = {}, !.acc[i] = {}, !.lo[i] = z, !.hi[i] = z] EXCEPT !.out = o]
ZeroBin(r, i, z, o) ==
  [[r EXCEPT !.rows[i] = {}, !.acc[i] = {}, !.lo[i] = z, !.hi[i] = z] EXCEPT
     !.bin[i] = NoBin, !.out = o]
NoBinOut(r, i, o) == [r EXCEPT !.bin[i] = NoBin, !.out = o]

\* The effect of ZeroOut and ZeroBin.
LEMMA ZeroIs ==
  ASSUME NEW r, Shape(r), NEW i \in Ids, NEW z, NEW o, NEW q, NEW a, NEW c,
         a = ZeroOut(r, i, z, o), c = ZeroBin(r, i, z, o), q \in {a, c}
  PROVE  /\ Shape(q) /\ Updated(r.rows, q.rows, i, {}) /\ Updated(r.acc, q.acc, i, {})
         /\ Updated(r.lo, q.lo, i, z) /\ Updated(r.hi, q.hi, i, z)
         /\ q.out = o /\ q.crash = r.crash
         /\ IF q = c THEN Updated(r.bin, q.bin, i, NoBin) ELSE q.bin = r.bin
<1>1. PICK b, w, k, l, h, p, e : /\ b = r.bin /\ w = r.rows /\ k = r.acc /\ l = r.lo
                                /\ h = r.hi /\ p = r.out /\ e = r.crash
  OBVIOUS
<1>2. r = [bin |-> b, rows |-> w, acc |-> k, lo |-> l, hi |-> h, out |-> p, crash |-> e]
  BY <1>1 DEF Shape
<1>3. OfIds(b) /\ OfIds(w) /\ OfIds(k) /\ OfIds(l) /\ OfIds(h)
  BY <1>1 DEF Shape
<1>4. a = [bin |-> b, rows |-> [w EXCEPT ![i] = {}],
           acc |-> [k EXCEPT ![i] = {}], lo |-> [l EXCEPT ![i] = z],
           hi |-> [h EXCEPT ![i] = z], out |-> o, crash |-> e]
  BY <1>2, ZenonT(60) DEF ZeroOut
<1>5. c = [bin |-> [b EXCEPT ![i] = NoBin], rows |-> [w EXCEPT ![i] = {}],
           acc |-> [k EXCEPT ![i] = {}], lo |-> [l EXCEPT ![i] = z],
           hi |-> [h EXCEPT ![i] = z], out |-> o, crash |-> e]
  BY <1>2, ZenonT(60) DEF ZeroBin
<1>6. /\ q.rows = [w EXCEPT ![i] = {}] /\ q.acc = [k EXCEPT ![i] = {}]
      /\ q.lo = [l EXCEPT ![i] = z] /\ q.hi = [h EXCEPT ![i] = z]
      /\ q.out = o /\ q.crash = e
      /\ IF q = c THEN q.bin = [b EXCEPT ![i] = NoBin] ELSE q.bin = b
      /\ q = [bin |-> q.bin, rows |-> q.rows, acc |-> q.acc, lo |-> q.lo, hi |-> q.hi,
              out |-> q.out, crash |-> q.crash]
  <2>1. CASE q = c
    <3>1. PICK b2 : b2 = [b EXCEPT ![i] = NoBin]
      OBVIOUS
    <3>2. q = [bin |-> b2, rows |-> [w EXCEPT ![i] = {}],
               acc |-> [k EXCEPT ![i] = {}], lo |-> [l EXCEPT ![i] = z],
               hi |-> [h EXCEPT ![i] = z], out |-> o, crash |-> e]
      BY <1>5, <2>1, <3>1
    <3>3. /\ q.rows = [w EXCEPT ![i] = {}] /\ q.acc = [k EXCEPT ![i] = {}]
          /\ q.lo = [l EXCEPT ![i] = z] /\ q.hi = [h EXCEPT ![i] = z]
          /\ q.out = o /\ q.crash = e /\ q.bin = b2
      BY <3>2
    <3>4. q = [bin |-> q.bin, rows |-> q.rows, acc |-> q.acc, lo |-> q.lo, hi |-> q.hi,
               out |-> q.out, crash |-> q.crash]
      BY <3>2
    <3> QED
      BY <2>1, <3>1, <3>3, <3>4
  <2>2. CASE q # c
    <3>1. q = [bin |-> b, rows |-> [w EXCEPT ![i] = {}],
               acc |-> [k EXCEPT ![i] = {}], lo |-> [l EXCEPT ![i] = z],
               hi |-> [h EXCEPT ![i] = z], out |-> o, crash |-> e]
      BY <1>4, <2>2
    <3>2. /\ q.rows = [w EXCEPT ![i] = {}] /\ q.acc = [k EXCEPT ![i] = {}]
          /\ q.lo = [l EXCEPT ![i] = z] /\ q.hi = [h EXCEPT ![i] = z]
          /\ q.out = o /\ q.crash = e /\ q.bin = b
      BY <3>1
    <3>3. q = [bin |-> q.bin, rows |-> q.rows, acc |-> q.acc, lo |-> q.lo, hi |-> q.hi,
               out |-> q.out, crash |-> q.crash]
      BY <3>1
    <3> QED
      BY <2>2, <3>2, <3>3
  <2> QED
    BY <2>1, <2>2
<1>7. Updated(w, [w EXCEPT ![i] = {}], i, {}) /\ Updated(k, [k EXCEPT ![i] = {}], i, {})
  BY <1>3, UpdateIs
<1>8. Updated(l, [l EXCEPT ![i] = z], i, z) /\ Updated(h, [h EXCEPT ![i] = z], i, z)
  BY <1>3, UpdateIs
<1>9. Updated(b, [b EXCEPT ![i] = NoBin], i, NoBin)
  BY <1>3, UpdateIs
<1>10. /\ Updated(w, q.rows, i, {}) /\ Updated(k, q.acc, i, {})
       /\ Updated(l, q.lo, i, z) /\ Updated(h, q.hi, i, z)
       /\ IF q = c THEN Updated(b, q.bin, i, NoBin) ELSE q.bin = b
  BY <1>6, <1>7, <1>8, <1>9
<1>11. Shape(q)
  BY <1>3, <1>6, <1>10 DEF Shape, Updated
<1> QED
  BY <1>1, <1>6, <1>10, <1>11

\* The effect of NoBinOut.
LEMMA NoBinIs ==
  ASSUME NEW r, Shape(r), NEW i \in Ids, NEW o, NEW q, q = NoBinOut(r, i, o)
  PROVE  /\ Shape(q) /\ Updated(r.bin, q.bin, i, NoBin)
         /\ q.rows = r.rows /\ q.acc = r.acc /\ q.lo = r.lo /\ q.hi = r.hi
         /\ q.out = o /\ q.crash = r.crash
<1>1. PICK b, w, k, l, h, p, e : /\ b = r.bin /\ w = r.rows /\ k = r.acc /\ l = r.lo
                                /\ h = r.hi /\ p = r.out /\ e = r.crash
  OBVIOUS
<1>2. r = [bin |-> b, rows |-> w, acc |-> k, lo |-> l, hi |-> h, out |-> p, crash |-> e]
  BY <1>1 DEF Shape
<1>3. OfIds(b) /\ OfIds(w) /\ OfIds(k) /\ OfIds(l) /\ OfIds(h)
  BY <1>1 DEF Shape
<1>4. q = [bin |-> [b EXCEPT ![i] = NoBin], rows |-> w, acc |-> k, lo |-> l, hi |-> h,
           out |-> o, crash |-> e]
  BY <1>2 DEF NoBinOut
<1>5. Updated(b, [b EXCEPT ![i] = NoBin], i, NoBin)
  BY <1>3, UpdateIs
<1>6. Updated(b, q.bin, i, NoBin)
  BY <1>4, <1>5
<1>7. Shape(q)
  BY <1>3, <1>4, <1>6 DEF Shape, Updated
<1> QED
  BY <1>1, <1>4, <1>6, <1>7

\* OnPktHdr defines the ID unless what was open crashed the program.
LEMMA HeaderEffect ==
  ASSUME LayoutAssumption, NEW id \in Ids, NEW f \in Layouts, OnPktHdr(id, f),
         NEW r, r = Flushed(red, id), Shape(r)
  PROVE  /\ r.crash => red' = r /\ desc' = desc
         /\ ~r.crash => /\ Shape(red') /\ HasDefined(r, red', id, f)
                        /\ desc' = [desc EXCEPT ![id] = [fmt |-> f, at |-> npkt + 1]]
<1>1. PICK q : q = red'
  OBVIOUS
<1>2. PICK e : e = desc'
  OBVIOUS
<1>3. r.crash => q = r /\ e = desc
  BY <1>1, <1>2, Zenon DEF OnPktHdr
<1>4. ASSUME ~r.crash
      PROVE  e = [desc EXCEPT ![id] = [fmt |-> f, at |-> npkt + 1]]
  BY <1>2, <1>4, Zenon DEF OnPktHdr
<1>5. ASSUME ~r.crash
      PROVE  Shape(q) /\ HasDefined(r, q, id, f)
  <2>1. PICK z, o, p : /\ z = Zeros(f) /\ o = WritePktDesc(r.out, id, npkt + 1)
                       /\ p = WriteOob(r.out, "TooWide")
    OBVIOUS
  <2>2. PICK a, c : a = ZeroOut(r, id, z, o) /\ c = ZeroBin(r, id, z, o)
    OBVIOUS
  <2>3. CASE tool = "avg"
    <3>1. q = ZeroOut(r, id, z, WritePktDesc(r.out, id, npkt + 1))
      BY <1>1, <1>5, <2>1, <2>3, Zenon DEF OnPktHdr, ZeroOut
    <3>2. q = a /\ ~TooWide(f)
      BY <2>1, <2>2, <2>3, <3>1 DEF TooWide
    <3>3. q.bin = r.bin
      <4>1. q.bin = a.bin
        BY <3>2
      <4>2. a.bin = r.bin
        BY <2>2 DEF ZeroOut, Shape
      <4> QED
        BY <4>1, <4>2
    <3>4. /\ Shape(q) /\ Updated(r.rows, q.rows, id, {}) /\ Updated(r.acc, q.acc, id, {})
          /\ Updated(r.lo, q.lo, id, z) /\ Updated(r.hi, q.hi, id, z)
          /\ q.out = o /\ q.crash = r.crash
      BY <2>2, <3>2, ZeroIs
    <3> QED
      BY <2>1, <2>3, <3>2, <3>3, <3>4 DEF HasDefined, HasZeros
  <2>4. CASE tool # "avg" /\ f.wide
    <3>1. q = NoBinOut(r, id, p)
      BY <1>1, <1>5, <2>1, <2>4, Zenon DEF OnPktHdr, NoBinOut
    <3>2. TooWide(f)
      BY <2>4 DEF TooWide
    <3>3. /\ Shape(q) /\ Updated(r.bin, q.bin, id, NoBin)
          /\ q.rows = r.rows /\ q.acc = r.acc /\ q.lo = r.lo /\ q.hi = r.hi
          /\ q.out = p /\ q.crash = r.crash
      BY <3>1, NoBinIs
    <3> QED
      BY <2>1, <2>4, <3>2, <3>3 DEF HasDefined
  <2>5. CASE tool # "avg" /\ ~f.wide
    <3>1. q = ZeroBin(r, id, z, WritePktDesc(r.out, id, npkt + 1))
      BY <1>1, <1>5, <2>1, <2>5, Zenon DEF OnPktHdr, ZeroBin
    <3>2. q = c /\ ~TooWide(f)
      BY <2>1, <2>2, <2>5, <3>1 DEF TooWide
    <3>3. /\ Shape(q) /\ Updated(r.rows, q.rows, id, {}) /\ Updated(r.acc, q.acc, id, {})
          /\ Updated(r.lo, q.lo, id, z) /\ Updated(r.hi, q.hi, id, z)
          /\ q.out = o /\ q.crash = r.crash /\ Updated(r.bin, q.bin, id, NoBin)
      BY <2>2, <3>2, ZeroIs
    <3> QED
      BY <2>1, <2>5, <3>2, <3>3 DEF HasDefined, HasZeros
  <2> QED
    BY <2>3, <2>4, <2>5
<1> QED
  BY <1>1, <1>2, <1>3, <1>4, <1>5

\* Nothing is open for the ID when its new header goes out.
LEMMA FlushedOpen ==
  ASSUME NEW s, NEW n, Open(red, desc, s, n), NEW id \in Ids, NEW r, r = Flushed(red, id)
  PROVE  /\ Open(r, desc, s, n) /\ r.rows[id] = {}
         /\ r.crash => red.crash \/ (desc[id] # NoDesc /\ NoRoom(id))
<1>1. CASE desc[id] = NoDesc
  <2>1. r = red
    BY <1>1 DEF Flushed
  <2>2. OpenBin(red, desc, s, n, id)
    BY DEF Open
  <2>3. red.rows[id] = {}
    BY <1>1, <2>2 DEF OpenBin
  <2> QED
    BY <2>1, <2>3
<1>2. CASE desc[id] # NoDesc
  <2>1. r = SendData(red, id)
    BY <1>2 DEF Flushed
  <2> QED
    BY <2>1, SendOpen
<1> QED
  BY <1>1, <1>2

\* Its bin is empty then.
LEMMA DefinedOpen ==
  ASSUME NEW r, NEW s, NEW n \in Nat, Open(r, desc, s, n), DescOk(desc, n), NEW id \in Ids,
         r.rows[id] = {}, NEW f \in Layouts, NoLayout \notin Layouts,
         NEW q, Shape(q), HasDefined(r, q, id, f), NEW a \in 1..n,
         NEW e, e = [desc EXCEPT ![id] = [fmt |-> f, at |-> a]]
  PROVE  Open(q, e, s, n) /\ DescOk(e, n)
<1>1. \A j \in Ids : OpenBin(r, desc, s, n, j)
  BY DEF Open
<1>2. PICK v : v = [fmt |-> f, at |-> a]
  OBVIOUS
<1>3. PICK g : g = desc
  OBVIOUS
<1>4. Updated(g, e, id, v)
  <2>1. OfIds(g)
    BY <1>3 DEF DescOk
  <2>2. Updated(g, [g EXCEPT ![id] = v], id, v)
    BY <2>1, UpdateIs
  <2> QED
    BY <1>2, <1>3, <2>2
<1>5. /\ OfIds(e) /\ e[id] = v /\ \A j \in Ids : j # id => e[j] = desc[j]
  BY <1>3, <1>4 DEF Updated
<1>6. v.fmt = f /\ v.at = a /\ v # NoDesc
  BY <1>2 DEF NoDesc
<1>7. DescOk(e, n)
  BY <1>5, <1>6 DEF DescOk
<1>8. ASSUME NEW j \in Ids, j # id
      PROVE  OpenBin(q, e, s, n, j)
  <2>1. /\ q.bin[j] = r.bin[j] /\ q.rows[j] = r.rows[j] /\ q.acc[j] = r.acc[j]
        /\ q.lo[j] = r.lo[j] /\ q.hi[j] = r.hi[j]
    BY <1>8 DEF HasDefined, HasZeros, Updated
  <2>2. OpenBin(r, desc, s, n, j) /\ e[j] = desc[j]
    BY <1>1, <1>5, <1>8
  <2>3. OpenBin(r, e, s, n, j)
    BY <2>2 DEF OpenBin
  <2> QED
    BY <2>1, <2>3, OpenBinSame
<1>9. OpenBin(q, e, s, n, id)
  <2>1. q.bin[id] \in Int \cup {NoBin} /\ (q.bin[id] # NoBin => e[id] # NoDesc /\ s # NoTime)
        /\ (tool # "avg" => q.bin[id] = NoBin)
    <3>1. q.bin[id] \in {r.bin[id], NoBin} /\ (tool # "avg" => q.bin[id] = NoBin)
      BY DEF HasDefined, Updated
    <3> QED
      BY <1>1, <1>5, <1>6, <3>1 DEF OpenBin
  <2>2. CASE ~TooWide(f)
    <3>1. q.rows[id] = {} /\ q.acc[id] = {} /\ q.lo[id] = Zeros(f) /\ q.hi[id] = Zeros(f)
      BY <2>2 DEF HasDefined, HasZeros, Updated
    <3>2. q.lo[id] = Zeros(e[id].fmt) /\ q.hi[id] = Zeros(e[id].fmt)
      BY <1>5, <1>6, <3>1
    <3> QED
      BY <2>1, <3>1, <3>2, OpenBinEmpty
  <2>3. CASE TooWide(f)
    <3>1. q.rows[id] = {} /\ q.acc[id] = r.acc[id]
      BY <2>3 DEF HasDefined
    <3>2. TooWide(e[id].fmt)
      BY <1>5, <1>6, <2>3
    <3>3. r.acc[id] = IF tool = "avgsec" THEN Filled({}) ELSE {}
      BY <1>1 DEF OpenBin
    <3>4. IsFiniteSet({})
      BY FS_EmptySet
    <3> QED
      BY <2>1, <3>1, <3>2, <3>3, <3>4 DEF OpenBin
  <2> QED
    BY <2>2, <2>3
<1> QED
  BY <1>7, <1>8, <1>9 DEF Open

\* e are the descriptors once the header has come.
Redefined(e, id, f) == e = [desc EXCEPT ![id] = [fmt |-> f, at |-> npkt + 1]]

\* What is put on the output for it.
LEMMA DefinedOutput ==
  ASSUME NEW r, NEW s, NEW n, Output(r.out, desc, s, n), r.out.hdr, OfIds(desc), NEW id \in Ids,
         NEW f \in Layouts, NEW q, HasDefined(r, q, id, f),
         NEW e, Redefined(e, id, f)
  PROVE  /\ Output(q.out, e, s, n) /\ q.out.hdr /\ q.out.failed = r.out.failed
         /\ SameRows(r.out.sink, q.out.sink)
<1>1. PICK o, p, v : o = r.out /\ p = q.out /\ v = [fmt |-> f, at |-> npkt + 1]
  OBVIOUS
<1>2. PICK g : g = desc
  OBVIOUS
<1>3. Updated(g, e, id, v)
  <2>1. OfIds(g)
    BY <1>2
  <2>2. Updated(g, [g EXCEPT ![id] = v], id, v)
    BY <2>1, UpdateIs
  <2> QED
    BY <1>1, <1>2, <2>2 DEF Redefined
<1>4. e[id] = v /\ v.fmt = f /\ v.at = npkt + 1 /\ \A j \in Ids : j # id => e[j] = desc[j]
  BY <1>1, <1>2, <1>3 DEF Updated
<1>5. PICK m : m = IF TooWide(f) THEN Frame("oob", 0, "TooWide") ELSE Frame("packet", id, npkt + 1)
  OBVIOUS
<1>6. p = Put(o, m)
  BY <1>1, <1>5 DEF HasDefined, WriteOob, WritePktDesc
<1>7. /\ m.kind # "data"
      /\ TooWide(f) => m.kind # "packet"
      /\ ~TooWide(f) => m.id = id /\ m.kind = "packet" /\ m.x = npkt + 1
  BY <1>5 DEF Frame
<1>8. ASSUME NEW j \in Ids, e[j] # NoDesc, ~TooWide(e[j].fmt)
      PROVE  IF m.kind = "packet" /\ m.id = j THEN m.x = e[j].at
             ELSE Current(o.sink, j, e[j].at)
  <2>1. CASE j = id
    BY <1>4, <1>7, <1>8, <2>1
  <2>2. CASE j # id
    <3>1. e[j] = desc[j]
      BY <1>4, <2>2
    <3>2. Current(o.sink, j, e[j].at)
      BY <1>1, <1>8, <3>1 DEF Output
    <3>3. ~(m.kind = "packet" /\ m.id = j)
      BY <1>7, <2>2
    <3> QED
      BY <3>2, <3>3
  <2> QED
    BY <2>1, <2>2
<1>9. Output(p, e, s, n) /\ p.hdr = o.hdr /\ p.failed = o.failed
  <2>1. Output(o, g, s, n) /\ m.kind # "data"
    BY <1>1, <1>2, <1>7
  <2>2. HeadersWith(o.sink, m, e)
    BY <1>8 DEF HeadersWith
  <2> QED
    BY <1>6, <2>1, <2>2, OutputPut
<1>10. Direct(o)
  BY <1>1 DEF Output
<1>11. p.sink = Append(o.sink, m)
  BY <1>6, <1>10, PutDirect
<1>12. SameRows(o.sink, p.sink)
  BY <1>7, <1>10, <1>11, RowsAppend DEF Direct
<1> QED
  BY <1>1, <1>9, <1>12
-----------------------------------------------------------------------------
(* The first invariant: of all inputs, compressed ones too.                  *)

\* There is an ID whose sums were never allocated.
Lost(d) == \E i \in Ids : d[i] # NoDesc /\ TooWide(d[i].fmt)

Types ==
  /\ tool \in Tools /\ phase \in {"start", "read", "done", "exit", "crashed"}
  /\ start \in Times \cup Begins \cup {NoTime}
  /\ npkt \in 0..MaxPkt /\ fed \in 0..npkt

Reduces ==
  /\ DescOk(desc, npkt)
  /\ Open(red, desc, start, npkt)
  /\ red.crash => Lost(desc)

Crashes ==
  /\ phase \in {"start", "read"} => ~red.crash
  /\ phase = "crashed" => red.crash

Kept == Types /\ Reduces /\ Crashes

\* The tool is the same ever after.
LEMMA ReducesNext ==
  ASSUME tool' = tool, DescOk(desc', npkt'), Open(red', desc', start', npkt'),
         red'.crash => Lost(desc')
  PROVE  Reduces'
<1>1. DescOk(desc, npkt)'
  BY DEF DescOk, OfIds
<1>2. Open(red, desc, start, npkt)'
  <2>1. Shape(red)'
    BY DEF Open, Shape, OfIds
  <2>2. ASSUME NEW i \in Ids
        PROVE  OpenBin(red, desc, start, npkt, i)'
    <3>1. OpenBin(red', desc', start', npkt', i)
      BY DEF Open
    <3>2. /\ (red.bin[i] \in Int \cup {NoBin})'
          /\ (red.bin[i] # NoBin => desc[i] # NoDesc /\ start # NoTime)'
          /\ (red.rows[i] # {} => red.bin[i] # NoBin /\ ~TooWide(desc[i].fmt))'
          /\ IsFiniteSet(red.rows[i])'
      BY <3>1 DEF OpenBin, TooWide
    <3>3. (\A y \in red.rows[i] :
             RowIs(y, i, desc[i].at, desc[i].fmt.items, red.bin[i], start, npkt))'
      BY <3>1 DEF OpenBin
    <3>4. (red.acc[i] = IF tool = "avgsec" THEN Filled(red.rows[i]) ELSE {})'
      BY <3>1 DEF OpenBin
    <3>5. (desc[i] # NoDesc /\ ~TooWide(desc[i].fmt) =>
             /\ red.lo[i] = [k \in 1..desc[i].fmt.items |-> red.lo[i][k]]
             /\ red.hi[i] = [k \in 1..desc[i].fmt.items |-> red.hi[i][k]]
             /\ tool # "avg" /\ red.bin[i] # NoBin => red.rows[i] # {})'
      BY <3>1 DEF OpenBin, TooWide
    <3>6. (desc[i] # NoDesc /\ ~TooWide(desc[i].fmt) =>
             \A k \in 1..desc[i].fmt.items :
               Extremes(Vals(red.rows[i], k), red.lo[i][k], red.hi[i][k]))'
      BY <3>1 DEF OpenBin, TooWide, Extremes
    <3> QED
      BY <3>2, <3>3, <3>4, <3>5, <3>6 DEF OpenBin
  <2> QED
    BY <2>1, <2>2 DEF Open
<1>3. (red.crash => Lost(desc))'
  BY DEF Lost, TooWide
<1> QED
  BY <1>1, <1>2, <1>3 DEF Reduces

\* The output alone changes.
OutSet(r, o) == [r EXCEPT !.out = o]

\* No bin changes when only the output does.
LEMMA OutIs ==
  ASSUME NEW r, NEW d, NEW s, NEW n, Open(r, d, s, n), NEW o, NEW q, q = OutSet(r, o)
  PROVE  /\ Open(q, d, s, n) /\ q.out = o /\ q.crash = r.crash
         /\ \A j \in Ids : q.rows[j] = r.rows[j]
<1>1. PICK b, w, k, l, h, p, e : /\ b = r.bin /\ w = r.rows /\ k = r.acc /\ l = r.lo
                                /\ h = r.hi /\ p = r.out /\ e = r.crash
  OBVIOUS
<1>2. r = [bin |-> b, rows |-> w, acc |-> k, lo |-> l, hi |-> h, out |-> p, crash |-> e]
  BY <1>1 DEF Shape, Open
<1>3. q = [bin |-> b, rows |-> w, acc |-> k, lo |-> l, hi |-> h, out |-> o, crash |-> e]
  BY <1>2 DEF OutSet
<1>4. Shape(q)
  BY <1>1, <1>3 DEF Shape, Open
<1>5. /\ q.bin = r.bin /\ q.rows = r.rows /\ q.acc = r.acc /\ q.lo = r.lo /\ q.hi = r.hi
      /\ q.out = o /\ q.crash = r.crash
  BY <1>1, <1>3
<1>6. ASSUME NEW j \in Ids
      PROVE  OpenBin(q, d, s, n, j)
  BY <1>5, OpenBinSame DEF Open
<1> QED
  BY <1>4, <1>5, <1>6 DEF Open

\* Nor do the descriptors when packets come.
LEMMA DescLater ==
  ASSUME NEW d, NEW n \in Nat, NEW k \in Nat, n <= k, DescOk(d, n)
  PROVE  DescOk(d, k)
  BY DEF DescOk

\* What the types say of the times.
LEMMA StartIs ==
  ASSUME BinAssumption, Types
  PROVE  start \in Int \cup {NoTime} /\ NoTime \notin Int /\ npkt \in Nat
  BY DEF BinAssumption, Types

\* The first invariant at the start.
LEMMA InitKeeps ==
  ASSUME BinAssumption, Init
  PROVE  Kept
<1>1. Types
  BY DEF Init, Types, BinAssumption
<1>2. DescOk(desc, npkt)
  BY DEF Init, DescOk, OfIds
<1>3. PICK b, w, k, l, o :
        /\ b = [i \in Ids |-> NoBin] /\ w = [i \in Ids |-> {}] /\ k = [i \in Ids |-> {}]
        /\ l = [i \in Ids |-> <<>>] /\ o = NewOutput
  OBVIOUS
<1>4. red = [bin |-> b, rows |-> w, acc |-> k, lo |-> l, hi |-> l, out |-> o, crash |-> FALSE]
  BY <1>3 DEF Init
<1>5. /\ red.bin = b /\ red.rows = w /\ red.acc = k /\ red.lo = l /\ red.hi = l
      /\ red.out = o /\ red.crash = FALSE
  BY <1>4
<1>6. OfIds(b) /\ OfIds(w) /\ OfIds(k) /\ OfIds(l)
  BY <1>3 DEF OfIds
<1>7. Shape(red)
  BY <1>4, <1>5, <1>6 DEF Shape
<1>8. ASSUME NEW i \in Ids
      PROVE  OpenBin(red, desc, start, npkt, i)
  <2>1. red.bin[i] = NoBin /\ red.rows[i] = {} /\ red.acc[i] = {} /\ desc[i] = NoDesc
    BY <1>3, <1>5 DEF Init
  <2>2. IsFiniteSet({})
    BY FS_EmptySet
  <2> QED
    BY <2>1, <2>2, NothingSeen DEF OpenBin
<1>9. Reduces
  BY <1>2, <1>5, <1>7, <1>8 DEF Reduces, Open
<1>10. Crashes
  BY <1>5 DEF Init, Crashes
<1> QED
  BY <1>1, <1>9, <1>10 DEF Kept

\* Where the program goes.
LEMMA SettleIs ==
  ASSUME NEW c, Settle(red', c), c \in {"start", "read", "done"}
  PROVE  /\ phase' \in {"crashed", "exit", c}
         /\ phase' = "crashed" <=> red'.crash
         /\ phase' \in {"crashed", "exit"} \/ ~red'.out.failed
  BY DEF Settle

\* It is kept by OnStreamHdr.
LEMMA StreamHdrKeeps ==
  ASSUME BinAssumption, Kept, OnStreamHdr
  PROVE  Kept'
<1>1. PICK z \in Deflate : red' = OutSet(red, WriteStreamDesc(red.out, "in", z))
  BY DEF OnStreamHdr, OutSet
<1>2. Open(red', desc, start, npkt) /\ red'.crash = red.crash
  BY <1>1, OutIs DEF Kept, Reduces
<1>3. Reduces'
  <2>1. tool' = tool /\ desc' = desc /\ start' = start /\ npkt' = npkt
    BY DEF OnStreamHdr
  <2>2. DescOk(desc', npkt') /\ Open(red', desc', start', npkt') /\ (red'.crash => Lost(desc'))
    BY <1>2, <2>1 DEF Kept, Reduces
  <2> QED
    BY <2>1, <2>2, ReducesNext
<1>4. Types'
  BY DEF OnStreamHdr, Kept, Types
<1>5. Crashes'
  BY <1>2 DEF OnStreamHdr, Kept, Crashes
<1> QED
  BY <1>3, <1>4, <1>5 DEF Kept

\* By InputBad.
LEMMA BadInputKeeps ==
  ASSUME Kept, InputBad
  PROVE  Kept'
<1>1. Reduces'
  <2>1. tool' = tool /\ desc' = desc /\ start' = start /\ npkt' = npkt /\ red' = red
    BY DEF InputBad
  <2>2. DescOk(desc', npkt') /\ Open(red', desc', start', npkt') /\ (red'.crash => Lost(desc'))
    BY <2>1 DEF Kept, Reduces
  <2> QED
    BY <2>1, <2>2, ReducesNext
<1>2. Types'
  BY DEF InputBad, Kept, Types
<1>3. Crashes'
  BY DEF InputBad, Kept, Crashes
<1> QED
  BY <1>1, <1>2, <1>3 DEF Kept

\* More packets change nothing.
LEMMA OpenMore ==
  ASSUME NEW r, NEW d, NEW s, NEW n \in Nat, Open(r, d, s, n), NEW k \in Nat, n <= k
  PROVE  Open(r, d, s, k)
<1> SUFFICES ASSUME NEW i \in Ids
             PROVE  OpenBin(r, d, s, k, i)
  BY DEF Open
<1>1. OpenBin(r, d, s, n, i)
  BY DEF Open
<1>2. \A y \in r.rows[i] : RowIs(y, i, d[i].at, d[i].fmt.items, r.bin[i], s, k)
  BY <1>1, RowStays DEF OpenBin
<1> QED
  BY <1>1, <1>2 DEF OpenBin

\* By OnOob.
LEMMA OobKeeps ==
  ASSUME BinAssumption, Kept, NEW kind, OnOob(kind)
  PROVE  Kept'
<1>1. tool' = tool /\ desc' = desc /\ start' = start /\ npkt' = npkt + 1 /\ fed' = fed
      /\ npkt \in Nat /\ npkt < MaxPkt /\ phase \in {"start", "read"}
  BY StartIs DEF OnOob, Kept
<1>2. \/ red' = red /\ phase' = phase
      \/ red' = OutSet(red, Put(red.out, Frame("oob", 0, kind))) /\ phase' = phase
      \/ red' = OutSet(red, WriteOob(red.out, kind)) /\ Settle(red', phase)
  BY Zenon DEF OnOob, OutSet
<1>3. Open(red', desc, start, npkt) /\ red'.crash = red.crash
  BY <1>2, OutIs DEF Kept, Reduces
<1>4. Reduces'
  <2>1. Open(red', desc, start, npkt + 1) /\ DescOk(desc, npkt + 1)
    BY <1>1, <1>3, OpenMore, DescLater DEF Kept, Reduces
  <2>2. DescOk(desc', npkt') /\ Open(red', desc', start', npkt') /\ (red'.crash => Lost(desc'))
    BY <1>1, <1>3, <2>1 DEF Kept, Reduces
  <2> QED
    BY <1>1, <2>2, ReducesNext
<1>5. phase' \in {"crashed", "exit", phase} /\ (phase' = "crashed" => red'.crash)
  <2>1. phase # "crashed"
    BY <1>1
  <2>2. CASE phase' = phase
    BY <2>1, <2>2
  <2>3. CASE Settle(red', phase)
    BY <1>1, <2>3, SettleIs
  <2> QED
    BY <1>2, <2>2, <2>3
<1>6. Types'
  BY <1>1, <1>5 DEF Kept, Types, BinAssumption
<1>7. Crashes'
  BY <1>1, <1>3, <1>5 DEF Kept, Crashes
<1> QED
  BY <1>4, <1>6, <1>7 DEF Kept

\* By OnPktHdr.
LEMMA PktHdrKeeps ==
  ASSUME BinAssumption, LayoutAssumption, Kept, NEW id \in Ids, NEW f \in Layouts, OnPktHdr(id, f)
  PROVE  Kept'
<1>1. tool' = tool /\ start' = start /\ npkt' = npkt + 1 /\ fed' = fed
      /\ npkt \in Nat /\ npkt < MaxPkt /\ phase = "read" /\ Settle(red', "read")
  BY StartIs DEF OnPktHdr, Read, Kept
<1>2. PICK r : r = Flushed(red, id)
  OBVIOUS
<1>3. /\ Open(r, desc, start, npkt) /\ r.rows[id] = {} /\ (r.crash => Lost(desc))
  <2>1. Open(red, desc, start, npkt) /\ ~red.crash
    BY <1>1 DEF Kept, Reduces, Crashes
  <2>2. /\ Open(r, desc, start, npkt) /\ r.rows[id] = {}
        /\ r.crash => red.crash \/ (desc[id] # NoDesc /\ NoRoom(id))
    BY <1>2, <2>1, FlushedOpen
  <2> QED
    BY <2>1, <2>2 DEF Lost, NoRoom, TooWide
<1>4. Open(r, desc, start, npkt + 1) /\ DescOk(desc, npkt + 1) /\ npkt + 1 \in Nat /\ Shape(r)
  BY <1>1, <1>3, OpenMore, DescLater DEF Kept, Reduces, Open
<1>5. DescOk(desc', npkt') /\ Open(red', desc', start', npkt') /\ (red'.crash => Lost(desc'))
  <2>1. /\ r.crash => red' = r /\ desc' = desc
        /\ ~r.crash => /\ Shape(red') /\ HasDefined(r, red', id, f)
                       /\ desc' = [desc EXCEPT ![id] = [fmt |-> f, at |-> npkt + 1]]
    BY <1>2, <1>4, HeaderEffect
  <2>2. CASE r.crash
    BY <1>1, <1>3, <1>4, <2>1, <2>2
  <2>3. CASE ~r.crash
    <3>1. NoLayout \notin Layouts /\ npkt + 1 \in 1..(npkt + 1)
      BY <1>1 DEF BinAssumption
    <3>2. Open(red', desc', start, npkt + 1) /\ DescOk(desc', npkt + 1)
      BY <1>3, <1>4, <2>1, <2>3, <3>1, DefinedOpen
    <3>3. ~red'.crash
      BY <2>1, <2>3 DEF HasDefined
    <3> QED
      BY <1>1, <3>2, <3>3
  <2> QED
    BY <2>2, <2>3
<1>6. Reduces'
  BY <1>1, <1>5, ReducesNext
<1>7. phase' \in {"crashed", "exit", "read"} /\ (phase' = "crashed" <=> red'.crash)
  BY <1>1, SettleIs
<1>8. Types'
  BY <1>1, <1>7 DEF Kept, Types, BinAssumption
<1>9. Crashes'
  BY <1>7 DEF Crashes
<1> QED
  BY <1>6, <1>8, <1>9 DEF Kept

\* What the row finds: the reducer with the row's bin open, or none.
LEMMA ReadyOpen ==
  ASSUME NEW s, NEW n, Open(red, desc, s, n), NEW id \in Ids, NEW g, NEW r, r = Ready(id, g)
  PROVE  /\ Open(r, desc, s, n) /\ (r.rows[id] # {} => r.bin[id] = g)
         /\ r.crash => red.crash \/ (desc[id] # NoDesc /\ NoRoom(id))
<1>1. CASE red.bin[id] \in {NoBin, g}
  <2>1. r = red
    BY <1>1 DEF Ready
  <2>2. OpenBin(red, desc, s, n, id)
    BY DEF Open
  <2>3. r.rows[id] # {} => r.bin[id] = g
    BY <1>1, <2>1, <2>2 DEF OpenBin
  <2> QED
    BY <2>1, <2>3
<1>2. CASE red.bin[id] \notin {NoBin, g}
  <2>1. r = SendData(red, id)
    BY <1>2 DEF Ready
  <2> QED
    BY <2>1, SendOpen
<1> QED
  BY <1>1, <1>2

\* The row itself.
LEMMA TheRowIs ==
  ASSUME BinAssumption, LayoutAssumption, Kept, NEW id \in Ids, NEW t \in Times,
         NEW val, OnPktData(id, t, val),
         NEW g, g = BinOf(t, start')
  PROVE  /\ desc[id] # NoDesc /\ start' \in Int /\ start' # NoTime /\ t # NoTime /\ g \in Int
         /\ RowIs(TheRow(id, t, val), id, desc[id].at, desc[id].fmt.items, g, start', npkt + 1)
<1>1. start \in Int \cup {NoTime} /\ NoTime \notin Int /\ npkt \in Nat /\ t \in Int
  BY StartIs DEF Kept, BinAssumption
<1>2. desc[id] # NoDesc /\ val \in desc[id].fmt.vals /\ start' = IF start = NoTime THEN t ELSE start
  BY DEF OnPktData
<1>3. start' \in Int
  BY <1>1, <1>2
<1>4. g \in Int
  BY <1>1, <1>3, BinOfBounds
<1>5. val \in [1..desc[id].fmt.items -> Int \cup {Fill}]
  <2>1. desc[id].fmt \in Layouts
    BY <1>2 DEF Kept, Reduces, DescOk
  <2> QED
    BY <1>2, <2>1 DEF LayoutAssumption
<1>6. PICK x : x = TheRow(id, t, val)
  OBVIOUS
<1>7. x.n = npkt + 1 /\ x.id = id /\ x.at = desc[id].at /\ x.t = t /\ x.val = val
  BY <1>6 DEF TheRow
<1>8. RowIs(x, id, desc[id].at, desc[id].fmt.items, g, start', npkt + 1)
  BY <1>1, <1>3, <1>5, <1>7 DEF RowIs
<1> QED
  BY <1>1, <1>2, <1>3, <1>4, <1>6, <1>8

\* By OnPktData.
LEMMA PktDataKeeps ==
  ASSUME BinAssumption, LayoutAssumption, Kept, NEW id \in Ids, NEW t \in Times,
         NEW val, OnPktData(id, t, val)
  PROVE  Kept'
<1>1. tool' = tool /\ desc' = desc /\ npkt' = npkt + 1 /\ fed' \in {fed, fed + 1}
      /\ npkt \in Nat /\ npkt < MaxPkt /\ phase = "read" /\ Settle(red', "read")
      /\ start' = IF start = NoTime THEN t ELSE start
  BY StartIs DEF OnPktData, Read, Kept
<1>2. PICK g : g = BinOf(t, start')
  OBVIOUS
<1>3. PICK r : r = Ready(id, g)
  OBVIOUS
<1>4. PICK s : s = start'
  OBVIOUS
<1>5. PICK x : x = TheRow(id, t, val)
  OBVIOUS
<1>6. /\ desc[id] # NoDesc /\ s \in Int /\ s # NoTime /\ t # NoTime /\ g \in Int
      /\ RowIs(x, id, desc[id].at, desc[id].fmt.items, g, s, npkt + 1)
  BY <1>2, <1>4, <1>5, TheRowIs
<1>7. Open(red, desc, s, npkt + 1) /\ DescOk(desc, npkt + 1) /\ npkt + 1 \in Nat
  <2>1. Open(red, desc, start, npkt) /\ DescOk(desc, npkt) /\ (start = NoTime \/ start = s)
    BY <1>1, <1>4 DEF Kept, Reduces
  <2> QED
    BY <1>1, <1>6, <2>1, OpenLater, DescLater
<1>8. /\ Open(r, desc, s, npkt + 1) /\ (r.rows[id] # {} => r.bin[id] = g)
      /\ r.crash => red.crash \/ (desc[id] # NoDesc /\ NoRoom(id))
  BY <1>3, <1>7, ReadyOpen
<1>9. ~red.crash /\ Shape(r)
  BY <1>1, <1>8 DEF Kept, Crashes, Open
<1>10. /\ Shape(red')
       /\ NoRoom(id) => HasSkipped(r, red', id, g, AnyValue(val))
       /\ ~NoRoom(id) => HasAdded(r, red', id, g, x)
  BY <1>2, <1>3, <1>5, <1>9, DataEffect
<1>11. Open(red', desc, s, npkt + 1) /\ (red'.crash => Lost(desc))
  <2>1. CASE NoRoom(id)
    <3>1. TooWide(desc[id].fmt)
      BY <2>1 DEF NoRoom, TooWide
    <3>2. Lost(desc)
      BY <1>6, <3>1 DEF Lost
    <3>3. Open(red', desc, s, npkt + 1)
      BY <1>6, <1>8, <1>10, <2>1, <3>1, SkipOpen
    <3> QED
      BY <3>2, <3>3
  <2>2. CASE ~NoRoom(id)
    <3>1. ~TooWide(desc[id].fmt)
      BY <2>2 DEF NoRoom, TooWide
    <3>2. Open(red', desc, s, npkt + 1)
      BY <1>6, <1>7, <1>8, <1>10, <2>2, <3>1, AddOpen
    <3>3. red'.crash = r.crash
      BY <1>10, <2>2 DEF HasAdded
    <3> QED
      BY <1>8, <1>9, <2>2, <3>2, <3>3
  <2> QED
    BY <2>1, <2>2
<1>12. Reduces'
  <2>1. DescOk(desc', npkt') /\ Open(red', desc', start', npkt') /\ (red'.crash => Lost(desc'))
    BY <1>1, <1>4, <1>7, <1>11
  <2> QED
    BY <1>1, <2>1, ReducesNext
<1>13. phase' \in {"crashed", "exit", "read"} /\ (phase' = "crashed" <=> red'.crash)
  BY <1>1, SettleIs
<1>14. Types'
  <2>1. start' \in Times \cup Begins \cup {NoTime}
    BY <1>1 DEF Kept, Types
  <2> QED
    BY <1>1, <1>13, <2>1 DEF Kept, Types, BinAssumption
<1>15. Crashes'
  BY <1>13 DEF Crashes
<1> QED
  BY <1>12, <1>14, <1>15 DEF Kept
-----------------------------------------------------------------------------
(* The end of the input.                                                     *)

\* The reducer after ID n, from what it was before it; all of it along f.
AfterId(r, n) == IF desc[n] = NoDesc \/ r.crash THEN r ELSE SendData(r, n)
CloseSteps(f) ==
  /\ red' = f[MaxId] /\ f[0] = red
  /\ \A n \in 1..MaxId : f[n] = AfterId(f[n - 1], n)

\* OnClose goes through the IDs in their order.
LEMMA CloseRuns ==
  ASSUME BinAssumption, OnClose
  PROVE  \E f : CloseSteps(f)
<1> DEFINE Runs(f, m) == f = [n \in 0..m |-> IF n = 0 THEN red ELSE AfterId(f[n - 1], n)]
<1>1. MaxId \in Nat
  BY DEF BinAssumption
<1>2. PICK Good : Good = {m \in 0..MaxId : \E f : Runs(f, m)}
  OBVIOUS
<1>3. 0 \in Good
  <2>1. PICK f : f = [n \in 0..0 |-> red]
    OBVIOUS
  <2>2. Runs(f, 0)
    BY <2>1
  <2> QED
    BY <1>1, <1>2, <2>2
<1>4. ASSUME NEW m \in 1..MaxId, m - 1 \in Good
      PROVE  m \in Good
  <2>1. PICK f : Runs(f, m - 1)
    BY <1>2, <1>4
  <2>2. PICK v : v = AfterId(f[m - 1], m)
    OBVIOUS
  <2>3. PICK g : g = [n \in 0..m |-> IF n = m THEN v ELSE f[n]]
    OBVIOUS
  <2>4. ASSUME NEW n \in 0..m
        PROVE  g[n] = IF n = 0 THEN red ELSE AfterId(g[n - 1], n)
    <3>1. CASE n = m
      <4>1. g[n] = v /\ g[n - 1] = f[m - 1] /\ n # 0
        BY <1>4, <2>3, <3>1
      <4> QED
        BY <2>2, <3>1, <4>1
    <3>2. CASE n # m
      <4>1. n \in 0..(m - 1) /\ (n # 0 => n - 1 \in 0..m /\ n - 1 # m)
        BY <1>4, <3>2
      <4>2. g[n] = f[n] /\ (n # 0 => g[n - 1] = f[n - 1])
        BY <2>3, <3>2, <4>1
      <4>3. f[n] = IF n = 0 THEN red ELSE AfterId(f[n - 1], n)
        BY <2>1, <4>1
      <4> QED
        BY <4>2, <4>3
    <3> QED
      BY <3>1, <3>2
  <2>5. DOMAIN g = 0..m /\ g = [n \in 0..m |-> g[n]]
    BY <2>3
  <2>6. Runs(g, m)
    BY <2>4, <2>5
  <2> QED
    BY <1>2, <1>4, <2>6
<1>5. MaxId \in Good
  <2>1. 0..MaxId \subseteq Good
    BY <1>1, <1>3, <1>4, IntervalInduction
  <2> QED
    BY <1>1, <2>1
<1>6. PICK f : Runs(f, MaxId)
  BY <1>2, <1>5
<1>7. PICK sent : sent = CHOOSE g : g = [n \in 0..MaxId |->
                                           IF n = 0 THEN red
                                           ELSE IF desc[n] = NoDesc \/ g[n - 1].crash THEN g[n - 1]
                                           ELSE SendData(g[n - 1], n)]
  OBVIOUS
<1>8. f = [n \in 0..MaxId |-> IF n = 0 THEN red
                            ELSE IF desc[n] = NoDesc \/ f[n - 1].crash THEN f[n - 1]
                            ELSE SendData(f[n - 1], n)]
  BY <1>6, Zenon DEF AfterId
<1>9. sent = [n \in 0..MaxId |-> IF n = 0 THEN red
                               ELSE IF desc[n] = NoDesc \/ sent[n - 1].crash THEN sent[n - 1]
                               ELSE SendData(sent[n - 1], n)]
  BY <1>7, <1>8, Zenon
<1>10. red' = sent[MaxId]
  BY <1>7, Zenon DEF OnClose
<1>11. sent[0] = red
  BY <1>1, <1>9
<1>12. \A n \in 1..MaxId : sent[n] = AfterId(sent[n - 1], n)
  BY <1>9 DEF AfterId
<1> QED
  BY <1>10, <1>11, <1>12 DEF CloseSteps

\* Along the way nothing is opened, and each bin is empty when its ID is done.
Closed(r, s, n, k) ==
  /\ Open(r, desc, s, n) /\ (r.crash => Lost(desc))
  /\ ~r.crash => \A j \in 1..k : r.rows[j] = {}

\* So it is along the way, by induction over the IDs.
LEMMA CloseOpen ==
  ASSUME BinAssumption, NEW s, NEW n, Open(red, desc, s, n), ~red.crash, NEW f, CloseSteps(f),
         NEW m \in 0..MaxId
  PROVE  Closed(f[m], s, n, m)
<1>1. MaxId \in Nat
  BY DEF BinAssumption
<1>2. PICK Good : Good = {k \in 0..MaxId : Closed(f[k], s, n, k)}
  OBVIOUS
<1>3. 0 \in Good
  <2>1. Closed(red, s, n, 0)
    BY DEF Closed
  <2>2. f[0] = red
    BY DEF CloseSteps
  <2> QED
    BY <1>1, <1>2, <2>1, <2>2
<1>4. ASSUME NEW k \in 1..MaxId, k - 1 \in Good
      PROVE  k \in Good
  <2>1. PICK r, q : r = f[k - 1] /\ q = f[k]
    OBVIOUS
  <2>2. /\ Open(r, desc, s, n) /\ (r.crash => Lost(desc))
        /\ ~r.crash => \A j \in 1..(k - 1) : r.rows[j] = {}
    <3>1. Closed(r, s, n, k - 1)
      BY <1>2, <1>4, <2>1
    <3> QED
      BY <3>1 DEF Closed
  <2>3. q = AfterId(r, k) /\ k \in Ids
    BY <2>1 DEF CloseSteps, Ids
  <2>4. ASSUME r.crash
        PROVE  Closed(q, s, n, k)
    <3>1. q = r
      BY <2>3, <2>4 DEF AfterId
    <3> QED
      BY <2>2, <2>4, <3>1 DEF Closed
  <2>5. ASSUME ~r.crash, desc[k] = NoDesc
        PROVE  Closed(q, s, n, k)
    <3>1. q = r
      BY <2>3, <2>5 DEF AfterId
    <3>2. r.rows[k] = {}
      BY <2>2, <2>3, <2>5 DEF Open, OpenBin
    <3>3. \A j \in 1..k : r.rows[j] = {}
      BY <2>2, <2>5, <3>2
    <3> QED
      BY <2>2, <3>1, <3>3 DEF Closed
  <2>6. ASSUME ~r.crash, desc[k] # NoDesc
        PROVE  Closed(q, s, n, k)
    <3>1. q = SendData(r, k)
      BY <2>3, <2>6 DEF AfterId
    <3>2. /\ Open(q, desc, s, n)
          /\ q.rows[k] = {} /\ \A j \in Ids : r.rows[j] = {} => q.rows[j] = {}
          /\ q.crash => r.crash \/ (desc[k] # NoDesc /\ NoRoom(k))
      BY <2>2, <2>3, <3>1, SendOpen
    <3>3. q.crash => Lost(desc)
      BY <2>3, <2>6, <3>2 DEF Lost, NoRoom, TooWide
    <3>4. \A j \in 1..k : q.rows[j] = {}
      <4>1. \A j \in 1..k : j \in Ids /\ (j = k \/ j \in 1..(k - 1))
        BY DEF Ids
      <4> QED
        BY <2>2, <2>6, <3>2, <4>1
    <3> QED
      BY <3>2, <3>3, <3>4 DEF Closed
  <2>7. Closed(q, s, n, k)
    BY <2>4, <2>5, <2>6
  <2> QED
    BY <1>2, <2>1, <2>7
<1>5. 0..MaxId \subseteq Good
  BY <1>1, <1>3, <1>4, IntervalInduction
<1> QED
  BY <1>2, <1>5

\* The first invariant is kept by OnClose, which leaves no row behind.
LEMMA CloseKeeps ==
  ASSUME BinAssumption, Kept, OnClose
  PROVE  /\ Kept'
         /\ phase' = "done" => \A i \in Ids : red'.rows[i] = {}
<1>1. tool' = tool /\ desc' = desc /\ start' = start /\ npkt' = npkt /\ fed' = fed
      /\ phase = "read" /\ Settle(red', "done")
  BY DEF OnClose
<1>2. PICK f : CloseSteps(f)
  BY CloseRuns
<1>3. MaxId \in 0..MaxId /\ red' = f[MaxId]
  BY <1>2 DEF BinAssumption, CloseSteps
<1>4. PICK q : q = f[MaxId]
  OBVIOUS
<1>5. /\ Open(q, desc, start, npkt) /\ (q.crash => Lost(desc))
      /\ ~q.crash => \A j \in 1..MaxId : q.rows[j] = {}
  <2>1. Closed(q, start, npkt, MaxId)
    BY <1>1, <1>2, <1>3, <1>4, CloseOpen DEF Kept, Reduces, Crashes
  <2> QED
    BY <2>1 DEF Closed
<1>6. Reduces'
  <2>1. DescOk(desc', npkt') /\ Open(red', desc', start', npkt') /\ (red'.crash => Lost(desc'))
    BY <1>1, <1>3, <1>4, <1>5 DEF Kept, Reduces
  <2> QED
    BY <1>1, <2>1, ReducesNext
<1>7. phase' \in {"crashed", "exit", "done"} /\ (phase' = "crashed" <=> red'.crash)
  BY <1>1, SettleIs
<1>8. Types'
  BY <1>1, <1>7 DEF Kept, Types
<1>9. Crashes'
  BY <1>7 DEF Crashes
<1>10. phase' = "done" => \A i \in Ids : red'.rows[i] = {}
  BY <1>3, <1>4, <1>5, <1>7 DEF Ids
<1> QED
  BY <1>6, <1>8, <1>9, <1>10 DEF Kept

\* By every step.
LEMMA KeptNext ==
  ASSUME BinAssumption, LayoutAssumption, Kept, [Next]_vars
  PROVE  Kept'
<1>1. CASE UNCHANGED vars
  <2>1. Reduces'
    <3>1. tool' = tool /\ desc' = desc /\ start' = start /\ npkt' = npkt /\ red' = red
      BY <1>1 DEF vars
    <3>2. DescOk(desc', npkt') /\ Open(red', desc', start', npkt') /\ (red'.crash => Lost(desc'))
      BY <3>1 DEF Kept, Reduces
    <3> QED
      BY <3>1, <3>2, ReducesNext
  <2> QED
    BY <1>1, <2>1 DEF Kept, Types, Crashes, vars
<1>2. CASE OnStreamHdr
  BY <1>2, StreamHdrKeeps
<1>3. CASE OnClose
  BY <1>3, CloseKeeps
<1>4. CASE InputBad
  BY <1>4, BadInputKeeps
<1>5. CASE \E id \in Ids, f \in Layouts : OnPktHdr(id, f)
  BY <1>5, PktHdrKeeps
<1>6. CASE \E id \in Ids, t \in Times : \E val \in desc[id].fmt.vals : OnPktData(id, t, val)
  BY <1>6, PktDataKeeps
<1>7. CASE \E kind \in {"progress", "comment", "exception"} : OnOob(kind)
  BY <1>7, OobKeeps
<1> QED
  BY <1>1, <1>2, <1>3, <1>4, <1>5, <1>6, <1>7 DEF Next

\* The types of the reducers, of all inputs: while there is a bin for an ID there
\* are rows to send for it, in the reducers that forget the bin of a row sent, and
\* no other layout than the one with too many planes ends the program.
THEOREM TypeCorrect ==
  ASSUME BinAssumption, LayoutAssumption
  PROVE  Spec => []TypeOK
<1>1. Init => Kept
  BY InitKeeps
<1>2. Kept /\ [Next]_vars => Kept'
  BY KeptNext
<1>3. Kept => TypeOK
  <2> SUFFICES ASSUME Kept
               PROVE  TypeOK
    OBVIOUS
  <2>1. Types
    BY DEF Kept
  <2>2. \A i \in Ids : desc[i] # NoDesc => desc[i].fmt \in Layouts /\ desc[i].at \in 1..npkt
    BY DEF Kept, Reduces, DescOk
  <2>3. \A i \in Ids : OpenBin(red, desc, start, npkt, i)
    BY DEF Kept, Reduces, Open
  <2>4. \A i \in Ids : red.acc[i] \subseteq red.rows[i]
    BY <2>3 DEF OpenBin, Filled
  <2>5. tool # "avg" =>
         \A i \in Ids : desc[i] # NoDesc /\ ~NoRoom(i) => (red.bin[i] = NoBin <=> red.rows[i] = {})
    BY <2>3 DEF OpenBin, NoRoom, TooWide
  <2>6. phase = "crashed" => \E i \in Ids : desc[i] # NoDesc /\ NoRoom(i)
    BY DEF Kept, Reduces, Crashes, Lost, NoRoom, TooWide
  <2> QED
    BY <2>1, <2>2, <2>4, <2>5, <2>6 DEF Types, TypeOK
<1> QED
  BY <1>1, <1>2, <1>3, PTL DEF Spec
-----------------------------------------------------------------------------
(* The second invariant: of inputs that do not say they are compressed.      *)

Counted ==
  /\ Output(red.out, desc, start, npkt)
  /\ Once(red, fed)

Stages ==
  /\ phase = "start" => ~red.out.hdr
  /\ phase = "read" => red.out.hdr
  /\ phase = "done" => \A i \in Ids : red.rows[i] = {}

Written == Kept /\ Counted /\ Stages

\* The tool is the same ever after: the second invariant too may be shown of the
\* new values.
LEMMA CountedNext ==
  ASSUME tool' = tool, Output(red'.out, desc', start', npkt'), Once(red', fed')
  PROVE  Counted'
<1>1. Output(red.out, desc, start, npkt)'
  <2>1. Direct(red.out)' /\ Led(red.out.sink, SameHeader(red.out.sink))'
    BY DEF Output
  <2>2. (\A i \in Ids : desc[i] # NoDesc /\ ~TooWide(desc[i].fmt) => Current(red.out.sink, i, desc[i].at))'
    BY DEF Output, TooWide
  <2>3. ASSUME NEW k \in DataFrames(red'.out.sink)
        PROVE  Shows(red.out.sink[k], start, npkt)'
    <3>1. Shows(red'.out.sink[k], start', npkt')
      BY DEF Output
    <3> QED
      BY <3>1 DEF Shows, Extremes
  <2>4. (\A k \in DataFrames(red.out.sink) : Shows(red.out.sink[k], start, npkt))'
    BY <2>3
  <2>5. (start = NoTime => DataFrames(red.out.sink) = {})'
    BY DEF Output
  <2> QED
    BY <2>1, <2>2, <2>4, <2>5 DEF Output
<1>2. Once(red, fed)'
  BY DEF Once
<1> QED
  BY <1>1, <1>2 DEF Counted

\* The second invariant at the start.
LEMMA InitWrites ==
  ASSUME BinAssumption, Init
  PROVE  Counted /\ Stages
<1>1. red.out = NewOutput /\ red.rows = [i \in Ids |-> {}]
  BY DEF Init
<1>2. PICK o : o = NewOutput
  OBVIOUS
<1>3. Plain(o) /\ Formed(o.sink, {}) /\ ~o.hdr
  BY <1>2, NewIsPlain
<1>4. o.sink = <<>>
  BY <1>2 DEF NewOutput
<1>5. DataFrames(o.sink) = {}
  BY <1>4 DEF DataFrames
<1>6. SameHeader(o.sink) = {}
  BY <1>5 DEF SameHeader
<1>7. \A i \in Ids : desc[i] = NoDesc
  BY DEF Init
<1>8. Output(o, desc, start, npkt)
  BY <1>3, <1>5, <1>6, <1>7 DEF Output, Plain, Formed
<1>9. AllRows(red) = {} /\ SentRows(red.out) = {}
  BY <1>1, <1>2, <1>5 DEF AllRows, SentRows, OpenRows
<1>10. Once(red, fed)
  <2>1. IsFiniteSet({}) /\ Cardinality({}) = 0
    BY FS_EmptySet
  <2>2. fed = 0
    BY DEF Init
  <2> QED
    BY <1>1, <1>2, <1>5, <1>9, <2>1, <2>2 DEF Once
<1>11. Stages
  BY <1>1, <1>2, <1>3 DEF Init, Stages
<1> QED
  BY <1>1, <1>2, <1>8, <1>10, <1>11 DEF Counted

\* It is kept by OnStreamHdr.
LEMMA StreamHdrWrites ==
  ASSUME BinAssumption, TRUE \notin Deflate, Written, OnStreamHdr
  PROVE  Counted' /\ Stages'
<1>1. tool' = tool /\ desc' = desc /\ start' = start /\ npkt' = npkt /\ fed' = fed
      /\ phase = "start" /\ phase' = "read"
  BY DEF OnStreamHdr
<1>2. PICK z \in Deflate : red' = OutSet(red, WriteStreamDesc(red.out, "in", z))
  BY DEF OnStreamHdr, OutSet
<1>3. z = FALSE
  BY <1>2, Zenon DEF BinAssumption
<1>4. PICK o, q, p, f : /\ o = red.out /\ p = red' /\ f = Frame("stream", 0, "in")
                        /\ q = WriteStreamDesc(o, "in", FALSE)
  OBVIOUS
<1>5. Output(o, desc, start, npkt) /\ Direct(o) /\ ~o.hdr
  BY <1>1, <1>4 DEF Written, Counted, Stages, Output
<1>6. q.sink = Append(o.sink, f) /\ q.hdr /\ Direct(q)
  BY <1>4, <1>5, StreamDescDirect
<1>7. p.out = q /\ \A j \in Ids : p.rows[j] = red.rows[j]
  <2>1. Open(red, desc, start, npkt)
    BY DEF Written, Kept, Reduces
  <2>2. p = OutSet(red, q)
    BY <1>2, <1>3, <1>4
  <2> QED
    BY <2>1, <2>2, OutIs
<1>8. f.kind # "data" /\ f.kind # "packet"
  BY <1>4 DEF Frame
<1>9. HeadersWith(o.sink, f, desc)
  BY <1>5, <1>8, HeadersStay
<1>10. Output(q, desc, start, npkt)
  BY <1>5, <1>6, <1>8, <1>9, OutputAppend
<1>11. SameRows(o.sink, q.sink)
  BY <1>5, <1>6, <1>8, RowsAppend DEF Direct
<1>12. Once(p, fed)
  BY <1>4, <1>7, <1>11, OnceSame DEF Written, Counted
<1>13. Counted'
  BY <1>1, <1>4, <1>7, <1>10, <1>12, CountedNext
<1>14. Stages'
  BY <1>1, <1>4, <1>6, <1>7 DEF Stages
<1> QED
  BY <1>13, <1>14

\* A message.
LEMMA OobOutput ==
  ASSUME NEW o, NEW d, NEW s, NEW n, Output(o, d, s, n), NEW kind,
         NEW q, q \in {o, Put(o, Frame("oob", 0, kind)), WriteOob(o, kind)}
  PROVE  /\ Output(q, d, s, n) /\ q.hdr = o.hdr /\ SameRows(o.sink, q.sink)
<1>1. PICK f : f = Frame("oob", 0, kind)
  OBVIOUS
<1>2. f.kind # "data" /\ f.kind # "packet" /\ Direct(o)
  BY <1>1 DEF Frame, Output
<1>3. CASE q = Put(o, f)
  <2>1. HeadersWith(o.sink, f, d)
    BY <1>2, HeadersStay
  <2>2. Output(q, d, s, n) /\ q.hdr = o.hdr
    BY <1>2, <1>3, <2>1, OutputPut
  <2>3. q.sink = Append(o.sink, f)
    BY <1>2, <1>3, PutDirect
  <2>4. SameRows(o.sink, q.sink)
    BY <1>2, <2>3, RowsAppend DEF Direct
  <2> QED
    BY <2>2, <2>4
<1>4. CASE q = Refused(o)
  <2>1. q.sink = o.sink /\ q.hdr = o.hdr /\ Direct(q)
    BY <1>2, <1>4, RefusedDirect
  <2>2. Output(q, d, s, n)
    BY <2>1, OutputSame
  <2> QED
    BY <2>1, <2>2 DEF SameRows
<1>5. CASE q = o
  BY <1>5 DEF SameRows
<1>6. q \in {o, Put(o, f), Refused(o)}
  BY <1>1 DEF WriteOob
<1> QED
  BY <1>3, <1>4, <1>5, <1>6

\* More packets change nothing of what was sent.
LEMMA OutputMore ==
  ASSUME NEW o, NEW d, NEW s, NEW n \in Nat, Output(o, d, s, n), NEW k \in Nat, n <= k
  PROVE  Output(o, d, s, k)
<1>1. CASE s = NoTime
  BY <1>1 DEF Output
<1>2. CASE s # NoTime
  BY <1>2, OutputLater
<1> QED
  BY <1>1, <1>2

\* It is kept by OnOob.
LEMMA OobWrites ==
  ASSUME BinAssumption, Written, NEW kind, OnOob(kind)
  PROVE  Counted' /\ Stages'
<1>1. tool' = tool /\ desc' = desc /\ start' = start /\ npkt' = npkt + 1 /\ fed' = fed
      /\ npkt \in Nat /\ phase \in {"start", "read"}
  BY StartIs DEF OnOob, Written, Kept
<1>2. \/ red' = red /\ phase' = phase
      \/ red' = OutSet(red, Put(red.out, Frame("oob", 0, kind))) /\ phase' = phase
      \/ red' = OutSet(red, WriteOob(red.out, kind)) /\ Settle(red', phase)
  BY Zenon DEF OnOob, OutSet
<1>3. phase' \in {"crashed", "exit", phase}
  BY <1>1, <1>2, SettleIs
<1>4. PICK o, q, p : o = red.out /\ p = red' /\ q = p.out
  OBVIOUS
<1>5. /\ q \in {o, Put(o, Frame("oob", 0, kind)), WriteOob(o, kind)}
      /\ \A j \in Ids : p.rows[j] = red.rows[j]
  BY <1>2, <1>4, OutIs DEF Written, Kept, Reduces
<1>6. Output(o, desc, start, npkt) /\ Once(red, fed)
  BY <1>4 DEF Written, Counted
<1>7. Output(q, desc, start, npkt) /\ q.hdr = o.hdr /\ SameRows(o.sink, q.sink)
  BY <1>5, <1>6, OobOutput
<1>8. Output(q, desc, start, npkt + 1)
  BY <1>1, <1>7, OutputMore
<1>9. Once(p, fed)
  BY <1>4, <1>5, <1>6, <1>7, OnceSame
<1>10. Counted'
  BY <1>1, <1>4, <1>8, <1>9, CountedNext
<1>11. Stages'
  BY <1>1, <1>3, <1>4, <1>7 DEF Written, Stages
<1> QED
  BY <1>10, <1>11

\* By OnPktHdr.
LEMMA PktHdrWrites ==
  ASSUME BinAssumption, LayoutAssumption, Written, NEW id \in Ids,
         NEW f \in Layouts, OnPktHdr(id, f)
  PROVE  Counted' /\ Stages'
<1>1. tool' = tool /\ start' = start /\ npkt' = npkt + 1 /\ fed' = fed
      /\ npkt \in Nat /\ phase = "read" /\ Settle(red', "read")
  BY StartIs DEF OnPktHdr, Read, Written, Kept
<1>2. PICK r : r = Flushed(red, id)
  OBVIOUS
<1>3. /\ Open(red, desc, start, npkt) /\ DescOk(desc, npkt) /\ Output(red.out, desc, start, npkt)
      /\ red.out.hdr /\ Once(red, fed) /\ Direct(red.out)
  BY <1>1 DEF Written, Kept, Reduces, Counted, Stages, Output
<1>4. Open(r, desc, start, npkt) /\ r.rows[id] = {}
  BY <1>2, <1>3, FlushedOpen
<1>5. Output(r.out, desc, start, npkt) /\ r.out.hdr /\ Once(r, fed)
  <2>1. CASE desc[id] = NoDesc
    <3>1. r = red
      BY <1>2, <2>1 DEF Flushed
    <3> QED
      BY <1>3, <3>1
  <2>2. CASE desc[id] # NoDesc
    <3>1. r = SendData(red, id)
      BY <1>2, <2>2 DEF Flushed
    <3>2. Output(r.out, desc, start, npkt) /\ r.out.hdr
      BY <1>3, <3>1, SendOutput
    <3>3. Once(r, fed)
      BY <1>3, <3>1, SendOnce
    <3> QED
      BY <3>2, <3>3
  <2> QED
    BY <2>1, <2>2
<1>6. Shape(r) /\ OfIds(desc) /\ Output(r.out, desc, start, npkt + 1)
  BY <1>1, <1>3, <1>4, <1>5, OutputMore DEF Open, DescOk
<1>7. /\ r.crash => red' = r /\ desc' = desc
      /\ ~r.crash => /\ HasDefined(r, red', id, f)
                     /\ desc' = [desc EXCEPT ![id] = [fmt |-> f, at |-> npkt + 1]]
  BY <1>2, <1>6, HeaderEffect
<1>8. PICK p, e : p = red' /\ e = desc'
  OBVIOUS
<1>9. Output(p.out, e, start, npkt + 1) /\ p.out.hdr /\ Once(p, fed)
  <2>1. CASE r.crash
    BY <1>5, <1>6, <1>7, <1>8, <2>1
  <2>2. CASE ~r.crash
    <3>1. HasDefined(r, p, id, f) /\ Redefined(e, id, f)
      BY <1>7, <1>8, <2>2 DEF Redefined
    <3>2. Output(r.out, desc, start, npkt + 1) /\ r.out.hdr /\ OfIds(desc)
      BY <1>5, <1>6
    <3>3. /\ Output(p.out, e, start, npkt + 1) /\ p.out.hdr
          /\ SameRows(r.out.sink, p.out.sink)
      BY <3>1, <3>2, DefinedOutput
    <3>4. \A j \in Ids : p.rows[j] = r.rows[j]
      BY <1>4, <3>1 DEF HasDefined, HasZeros, Updated
    <3>5. Once(p, fed)
      BY <1>5, <3>3, <3>4, OnceSame
    <3> QED
      BY <3>3, <3>5
  <2> QED
    BY <2>1, <2>2
<1>10. Counted'
  BY <1>1, <1>8, <1>9, CountedNext
<1>11. phase' \in {"crashed", "exit", "read"}
  BY <1>1, SettleIs
<1>12. Stages'
  BY <1>8, <1>9, <1>11 DEF Stages
<1> QED
  BY <1>10, <1>12

\* By OnPktData.
LEMMA PktDataWrites ==
  ASSUME BinAssumption, LayoutAssumption, Written, NEW id \in Ids, NEW t \in Times, NEW val,
         OnPktData(id, t, val)
  PROVE  Counted' /\ Stages'
<1>1. tool' = tool /\ desc' = desc /\ npkt' = npkt + 1
      /\ npkt \in Nat /\ phase = "read" /\ Settle(red', "read")
      /\ start' = (IF start = NoTime THEN t ELSE start)
      /\ fed' = (IF NoRoom(id) THEN fed ELSE fed + 1) /\ fed \in Nat
  <2>1. npkt \in Nat /\ fed \in Nat
    BY StartIs DEF Written, Kept, Types
  <2> QED
    BY <2>1 DEF OnPktData, Read
<1>2. PICK g : g = BinOf(t, start')
  OBVIOUS
<1>3. PICK r : r = Ready(id, g)
  OBVIOUS
<1>4. PICK s : s = start'
  OBVIOUS
<1>5. PICK x : x = TheRow(id, t, val)
  OBVIOUS
<1>6. s # NoTime /\ t # NoTime /\ x.n = npkt + 1
  <2>1. s # NoTime /\ t # NoTime
    BY <1>2, <1>4, TheRowIs DEF Written
  <2> QED
    BY <1>5, <2>1 DEF TheRow
<1>7. /\ Open(red, desc, s, npkt) /\ Output(red.out, desc, s, npkt) /\ DescOk(desc, npkt)
      /\ Once(red, fed) /\ red.out.hdr /\ Direct(red.out)
  <2>1. /\ Open(red, desc, start, npkt) /\ Output(red.out, desc, start, npkt) /\ DescOk(desc, npkt)
        /\ Once(red, fed) /\ red.out.hdr /\ Direct(red.out)
        /\ start = NoTime \/ start = s
    BY <1>1, <1>4 DEF Written, Kept, Reduces, Counted, Stages, Output
  <2> QED
    BY <1>1, <1>6, <2>1, OpenLater, OutputLater
<1>8. Open(r, desc, s, npkt) /\ Shape(r)
  BY <1>3, <1>7, ReadyOpen DEF Open
<1>9. Output(r.out, desc, s, npkt) /\ r.out.hdr /\ Once(r, fed)
  <2>1. CASE red.bin[id] \in {NoBin, g}
    <3>1. r = red
      BY <1>3, <2>1 DEF Ready
    <3> QED
      BY <1>7, <3>1
  <2>2. CASE red.bin[id] \notin {NoBin, g}
    <3>1. r = SendData(red, id)
      BY <1>3, <2>2 DEF Ready
    <3>2. Output(r.out, desc, s, npkt) /\ r.out.hdr
      BY <1>7, <3>1, SendOutput
    <3>3. Once(r, fed)
      BY <1>7, <3>1, SendOnce
    <3> QED
      BY <3>2, <3>3
  <2> QED
    BY <2>1, <2>2
<1>10. /\ NoRoom(id) => HasSkipped(r, red', id, g, AnyValue(val))
       /\ ~NoRoom(id) => HasAdded(r, red', id, g, x)
  BY <1>2, <1>3, <1>5, <1>8, DataEffect
<1>11. PICK p : p = red'
  OBVIOUS
<1>12. p.out = r.out /\ Once(p, fed')
  <2>1. CASE NoRoom(id)
    <3>1. p.out = r.out /\ \A j \in Ids : p.rows[j] = r.rows[j]
      BY <1>10, <1>11, <2>1 DEF HasSkipped
    <3>2. SameRows(r.out.sink, p.out.sink)
      BY <3>1 DEF SameRows
    <3>3. Once(p, fed)
      BY <1>9, <3>1, <3>2, OnceSame
    <3> QED
      BY <1>1, <2>1, <3>1, <3>3
  <2>2. CASE ~NoRoom(id)
    <3>1. p.out = r.out /\ Updated(r.rows, p.rows, id, r.rows[id] \cup {x})
      BY <1>10, <1>11, <2>2 DEF HasAdded
    <3>2. Once(p, fed + 1)
      BY <1>1, <1>6, <1>8, <1>9, <3>1, AddOnce
    <3> QED
      BY <1>1, <2>2, <3>1, <3>2
  <2> QED
    BY <2>1, <2>2
<1>13. Output(p.out, desc, s, npkt + 1)
  BY <1>1, <1>9, <1>12, OutputMore
<1>14. Counted'
  BY <1>1, <1>4, <1>11, <1>12, <1>13, CountedNext
<1>15. phase' \in {"crashed", "exit", "read"}
  BY <1>1, SettleIs
<1>16. Stages'
  BY <1>9, <1>11, <1>12, <1>15 DEF Stages
<1> QED
  BY <1>14, <1>16

\* What the reducer keeps right while it sends the open bins.
Sending(r, s, n, c) ==
  Open(r, desc, s, n) /\ Output(r.out, desc, s, n) /\ r.out.hdr /\ Once(r, c)

\* It does so for one ID after the other, by induction.
LEMMA CloseSends ==
  ASSUME BinAssumption, LayoutAssumption, NEW s, NEW n,
         NEW c, DescOk(desc, n), Sending(red, s, n, c),
         NEW f, CloseSteps(f), NEW m \in 0..MaxId
  PROVE  Sending(f[m], s, n, c)
<1>1. MaxId \in Nat
  BY DEF BinAssumption
<1>2. PICK Good : Good = {k \in 0..MaxId : Sending(f[k], s, n, c)}
  OBVIOUS
<1>3. 0 \in Good
  <2>1. f[0] = red
    BY DEF CloseSteps
  <2> QED
    BY <1>1, <1>2, <2>1
<1>4. ASSUME NEW k \in 1..MaxId, k - 1 \in Good
      PROVE  k \in Good
  <2>1. PICK r, q : r = f[k - 1] /\ q = f[k]
    OBVIOUS
  <2>2. Sending(r, s, n, c)
    BY <1>2, <1>4, <2>1
  <2>3. q = AfterId(r, k) /\ k \in Ids
    BY <2>1 DEF CloseSteps, Ids
  <2>4. CASE q = r
    <3>1. Sending(q, s, n, c)
      BY <2>2, <2>4
    <3> QED
      BY <1>2, <2>1, <3>1
  <2>5. CASE q = SendData(r, k)
    <3>1. Open(r, desc, s, n) /\ Output(r.out, desc, s, n) /\ r.out.hdr /\ Once(r, c) /\ Direct(r.out)
      BY <2>2 DEF Sending, Output
    <3>2. Open(q, desc, s, n)
      BY <2>3, <2>5, <3>1, SendOpen
    <3>3. Output(q.out, desc, s, n) /\ q.out.hdr
      BY <2>3, <2>5, <3>1, SendOutput
    <3>4. Once(q, c)
      BY <2>3, <2>5, <3>1, SendOnce
    <3>5. Sending(q, s, n, c)
      BY <3>2, <3>3, <3>4 DEF Sending
    <3> QED
      BY <1>2, <2>1, <3>5
  <2> QED
    BY <2>3, <2>4, <2>5 DEF AfterId
<1>5. 0..MaxId \subseteq Good
  BY <1>1, <1>3, <1>4, IntervalInduction
<1> QED
  BY <1>2, <1>5

\* The second invariant is kept by OnClose.
LEMMA CloseWrites ==
  ASSUME BinAssumption, LayoutAssumption, Written, OnClose
  PROVE  Counted' /\ Stages'
<1>1. tool' = tool /\ desc' = desc /\ start' = start /\ npkt' = npkt /\ fed' = fed
      /\ phase = "read" /\ Settle(red', "done")
  BY DEF OnClose
<1>2. PICK f : CloseSteps(f)
  BY CloseRuns
<1>3. MaxId \in 0..MaxId /\ red' = f[MaxId]
  BY <1>2 DEF BinAssumption, CloseSteps
<1>4. PICK q : q = f[MaxId]
  OBVIOUS
<1>5. DescOk(desc, npkt) /\ Sending(red, start, npkt, fed)
  BY <1>1 DEF Written, Kept, Reduces, Counted, Stages, Sending
<1>6. Sending(q, start, npkt, fed)
  BY <1>2, <1>3, <1>4, <1>5, CloseSends
<1>7. Counted'
  BY <1>1, <1>3, <1>4, <1>6, CountedNext DEF Sending
<1>8. phase' \in {"crashed", "exit", "done"}
  BY <1>1, SettleIs
<1>9. phase' = "done" => \A i \in Ids : red'.rows[i] = {}
  BY CloseKeeps DEF Written
<1>10. Stages'
  BY <1>8, <1>9 DEF Stages
<1> QED
  BY <1>7, <1>10

\* By every step.
LEMMA WrittenNext ==
  ASSUME BinAssumption, LayoutAssumption, TRUE \notin Deflate, Written, [Next]_vars
  PROVE  Written'
<1>1. Kept'
  BY KeptNext DEF Written
<1>2. Counted' /\ Stages'
  <2>1. ASSUME red' = red, desc' = desc, start' = start, npkt' = npkt, fed' = fed, tool' = tool,
               phase' \in {phase, "exit"}
        PROVE  Counted' /\ Stages'
    <3>1. Counted'
      BY <2>1, CountedNext DEF Written, Counted
    <3>2. Stages'
      BY <2>1 DEF Written, Stages
    <3> QED
      BY <3>1, <3>2
  <2>2. CASE UNCHANGED vars
    BY <2>1, <2>2 DEF vars
  <2>3. CASE InputBad
    BY <2>1, <2>3 DEF InputBad
  <2>4. CASE OnStreamHdr
    BY <2>4, StreamHdrWrites
  <2>5. CASE OnClose
    BY <2>5, CloseWrites
  <2>6. CASE \E id \in Ids, f \in Layouts : OnPktHdr(id, f)
    BY <2>6, PktHdrWrites
  <2>7. CASE \E id \in Ids, t \in Times : \E val \in desc[id].fmt.vals : OnPktData(id, t, val)
    BY <2>7, PktDataWrites
  <2>8. CASE \E kind \in {"progress", "comment", "exception"} : OnOob(kind)
    BY <2>8, OobWrites
  <2> QED
    BY <2>2, <2>3, <2>4, <2>5, <2>6, <2>7, <2>8 DEF Next
<1> QED
  BY <1>1, <1>2 DEF Written

\* Every row read is either in the open bin of its packet ID or in one row of the
\* output, never in two, also when its ID has been defined again, and at the end
\* all have left; of any stream that does not say it is compressed.
THEOREM RowsOnce ==
  ASSUME BinAssumption, LayoutAssumption, TRUE \notin Deflate
  PROVE  Spec => []EveryRowOnce
<1>1. Init => Written
  BY InitKeeps, InitWrites DEF Written
<1>2. Written /\ [Next]_vars => Written'
  BY WrittenNext
<1>3. Written => EveryRowOnce
  <2> SUFFICES ASSUME Written
               PROVE  EveryRowOnce
    OBVIOUS
  <2>1. PICK u : u = red.out.sink
    OBVIOUS
  <2>2. Sent = u /\ RowFrames = DataFrames(u)
    <3>1. Direct(red.out) /\ red.out.buf = <<>>
      BY DEF Written, Counted, Output, Direct
    <3>2. PICK F : u \in Seq(F)
      BY <2>1, <3>1 DEF Direct, AnySeq
    <3>3. u \o <<>> = u
      BY <3>2
    <3>4. Sent = u
      BY <2>1, <3>1, <3>3 DEF Sent, Running
    <3> QED
      BY <3>4 DEF RowFrames
  <2> DEFINE op == [i \in Ids |-> red.rows[i]]
             out == [k \in RowFrames |-> Sent[k].x.rows]
             all == UNION ({op[i] : i \in Ids} \cup {out[k] : k \in RowFrames})
  <2>3. \A y : y \in all <=> (\E i \in Ids : y \in op[i]) \/ (\E k \in RowFrames : y \in out[k])
    <3> HIDE DEF op, out
    <3> QED
      OBVIOUS
  <2>4. (\A i \in Ids : op[i] = red.rows[i]) /\ (\A k \in DataFrames(u) : out[k] = u[k].x.rows)
    BY <2>2
  <2> HIDE DEF op, out, all
  <2>5. Once(red, fed)
    BY DEF Written, Counted
  <2>6. \A k, m \in RowFrames : k # m => out[k] \cap out[m] = {}
    BY <2>1, <2>2, <2>4, <2>5 DEF Once
  <2>7. \A k \in RowFrames, i \in Ids : out[k] \cap op[i] = {}
    <3>1. ASSUME NEW k \in DataFrames(u), NEW i \in Ids
          PROVE  u[k].x.rows \subseteq SentRows(red.out) /\ red.rows[i] \subseteq OpenRows(red)
      BY <2>1 DEF SentRows, OpenRows
    <3>2. SentRows(red.out) \cap OpenRows(red) = {}
      BY <2>5 DEF Once
    <3> QED
      BY <2>2, <2>4, <3>1, <3>2
  <2>8. all = AllRows(red)
    <3>1. PICK A, B : A = SentRows(red.out) /\ B = OpenRows(red)
      OBVIOUS
    <3>2. \A y : y \in A <=> \E k \in DataFrames(u) : y \in u[k].x.rows
      BY <2>1, <3>1 DEF SentRows
    <3>3. \A y : y \in B <=> \E i \in Ids : y \in red.rows[i]
      BY <3>1 DEF OpenRows
    <3>4. \A y : y \in all <=> (\E i \in Ids : y \in op[i]) \/ (\E k \in DataFrames(u) : y \in out[k])
      BY <2>2, <2>3
    <3>5. \A y : y \in all <=> y \in A \cup B
      BY <2>4, <3>2, <3>3, <3>4
    <3>6. all = A \cup B
      BY <3>5
    <3> QED
      BY <3>1, <3>6 DEF AllRows
  <2>9. Cardinality(all) = fed
    BY <2>5, <2>8 DEF Once
  <2>10. phase = "done" => \A i \in Ids : op[i] = {}
    BY <2>4 DEF Written, Stages
  <2> QED
    BY <2>6, <2>7, <2>9, <2>10, Zenon DEF EveryRowOnce, op, out, all
<1> QED
  BY <1>1, <1>2, <1>3, PTL DEF Spec

\* The rows of a frame against the bin it names.
LEMMA RowsInBin ==
  ASSUME BinAssumption, NEW s, NEW f, NEW m, NEW n,
         \A y \in f.x.rows : RowIs(y, f.id, f.x.at, m, f.x.bin, s, n),
         NEW y \in f.x.rows
  PROVE  /\ y.id = f.id /\ y.at = f.x.at
         /\ y.t > (s + f.x.bin * Width) - Width /\ y.t < s + f.x.bin * Width + Width
         /\ y.t >= s => y.t >= s + f.x.bin * Width
<1>1. /\ y.id = f.id /\ y.at = f.x.at /\ y.t \in Int /\ s \in Int /\ f.x.bin = BinOf(y.t, s)
  BY DEF RowIs
<1> QED
  BY <1>1, BinOfBounds

\* And its extremes against its values.
TheirExtremes(V, lo, hi) ==
  /\ tool = "avgsec" => lo \in V /\ \A v \in V : lo <= v
  /\ tool = "avgsec" \/ (tool = "peak" /\ \E v \in V : v >= 0) =>
       hi \in V /\ \A v \in V : v <= hi

\* Extremes as the tools keep them are that, a peak below zero aside.
LEMMA ExtremesShown ==
  ASSUME NEW V, V \subseteq Int, V # {}, NEW lo, NEW hi, Extremes(V, lo, hi)
  PROVE  TheirExtremes(V, lo, hi)
<1>1. tool = "peak" /\ (\E v \in V : v >= 0) => hi \in V
  <2> SUFFICES ASSUME tool = "peak", NEW v \in V, v >= 0
               PROVE  hi \in V
    OBVIOUS
  <2>1. hi \in Int /\ hi >= 0 /\ hi \in V \cup {0} /\ v <= hi /\ v \in Int
    BY DEF Extremes
  <2>2. hi = 0 => v = 0
    BY <2>1
  <2> QED
    BY <2>1, <2>2
<1>2. tool = "avgsec" => hi \in V
  BY DEF Extremes
<1>3. lo \in V /\ \A v \in V : lo <= v /\ v <= hi
  BY DEF Extremes
<1> QED
  BY <1>1, <1>2, <1>3 DEF TheirExtremes

\* All that a row of the output may be expected to say of the rows it stands for.
SaysOfRows(f, s) ==
  /\ tool # "avg" => f.x.rows # {}
  /\ \A y \in f.x.rows :
       /\ y.id = f.id /\ y.at = f.x.at
       /\ y.t > (s + f.x.bin * Width) - Width /\ y.t < s + f.x.bin * Width + Width
       /\ y.t >= s => y.t >= s + f.x.bin * Width

SaysOfItems(f) ==
  /\ \A i \in DOMAIN f.x.item :
       {y.val[i] : y \in f.x.item[i].mean} # {} =>
         TheirExtremes({y.val[i] : y \in f.x.item[i].mean}, f.x.item[i].lo, f.x.item[i].hi)
  /\ tool = "avgsec" /\ DOMAIN f.x.item = {1} => f.x.item[1].dev = f.x.item[1].mean

\* What a row shows is what may be expected of it.
LEMMA ShownIsSaid ==
  ASSUME BinAssumption, LayoutAssumption, NEW f, NEW s, NEW n, Shows(f, s, n)
  PROVE  SaysOfRows(f, s) /\ SaysOfItems(f)
<1>1. PICK m \in Nat :
       /\ \A y \in f.x.rows : RowIs(y, f.id, f.x.at, m, f.x.bin, s, n)
       /\ f.x.item = [c \in 1..m |-> f.x.item[c]]
       /\ \A c \in 1..m :
            /\ f.x.item[c].mean = Seen(f.x.rows, c)
            /\ f.x.item[c].dev = IF tool = "avgsec" THEN Filled(f.x.rows) ELSE {}
            /\ Vals(f.x.rows, c) # {} =>
                 Extremes(Vals(f.x.rows, c), f.x.item[c].lo, f.x.item[c].hi)
  BY DEF Shows
<1>2. DOMAIN f.x.item = 1..m
  BY <1>1
<1>3. \A y \in f.x.rows : y.val \in [1..m -> Int \cup {Fill}]
  BY <1>1 DEF RowIs
<1>4. ASSUME NEW i \in 1..m, {y.val[i] : y \in f.x.item[i].mean} # {}
      PROVE  TheirExtremes({y.val[i] : y \in f.x.item[i].mean}, f.x.item[i].lo, f.x.item[i].hi)
  <2>1. PICK V : V = Vals(f.x.rows, i)
    OBVIOUS
  <2>2. {y.val[i] : y \in f.x.item[i].mean} = V
    BY <1>1, <2>1 DEF Vals
  <2>3. V \subseteq Int
    BY <1>3, <2>1, ValsAreInts
  <2>4. PICK lo, hi : lo = f.x.item[i].lo /\ hi = f.x.item[i].hi
    OBVIOUS
  <2>5. Extremes(V, lo, hi) /\ V # {}
    <3>1. V # {}
      BY <1>4, <2>2
    <3>2. Vals(f.x.rows, i) # {} => Extremes(Vals(f.x.rows, i), f.x.item[i].lo, f.x.item[i].hi)
      BY <1>1
    <3> QED
      BY <2>1, <2>4, <3>1, <3>2
  <2>6. TheirExtremes(V, lo, hi)
    BY <2>3, <2>5, ExtremesShown
  <2> QED
    BY <2>2, <2>4, <2>6
<1>5. ASSUME tool = "avgsec", DOMAIN f.x.item = {1}
      PROVE  f.x.item[1].dev = f.x.item[1].mean
  <2>1. 1..m = {1} /\ 1 \in 1..m
    BY <1>2, <1>5
  <2>2. \A y \in f.x.rows : DOMAIN y.val = {1}
    BY <1>3, <2>1
  <2>3. Filled(f.x.rows) = Seen(f.x.rows, 1)
    BY <2>2 DEF Filled, Seen
  <2> QED
    BY <1>1, <1>5, <2>1, <2>3
<1>6. SaysOfItems(f)
  BY <1>2, <1>4, <1>5 DEF SaysOfItems
<1>7. SaysOfRows(f, s)
  BY <1>1, RowsInBin DEF SaysOfRows, Shows
<1> QED
  BY <1>6, <1>7

\* A row of the output is read under the header of the rows it stands for, which
\* all have its packet ID and are no further from the start than its bin; its
\* extremes are theirs, and of a single item the mean and the deviation are taken
\* over the same rows; of any stream that does not say it is compressed.
THEOREM RowsAsShown ==
  ASSUME BinAssumption, LayoutAssumption, TRUE \notin Deflate
  PROVE  Spec => []RowsMatch
<1>1. Init => Written
  BY InitKeeps, InitWrites DEF Written
<1>2. Written /\ [Next]_vars => Written'
  BY WrittenNext
<1>3. Written => RowsMatch
  <2> SUFFICES ASSUME Written
               PROVE  RowsMatch
    OBVIOUS
  <2>1. PICK u : u = red.out.sink
    OBVIOUS
  <2>2. Sent = u /\ RowFrames = DataFrames(u)
    <3>1. Direct(red.out) /\ red.out.buf = <<>>
      BY DEF Written, Counted, Output, Direct
    <3>2. PICK F : u \in Seq(F)
      BY <2>1, <3>1 DEF Direct, AnySeq
    <3>3. u \o <<>> = u
      BY <3>2
    <3>4. Sent = u
      BY <2>1, <3>1, <3>3 DEF Sent, Running
    <3> QED
      BY <3>4 DEF RowFrames
  <2>3. ASSUME NEW k \in DataFrames(u)
        PROVE  HeaderOf(u, k) > 0 /\ u[HeaderOf(u, k)].x = u[k].x.at
    <3>1. Led(u, SameHeader(u))
      BY <2>1 DEF Written, Counted, Output
    <3>2. HeaderOf(u, k) > 0 /\ <<u[HeaderOf(u, k)].x, u[k].x>> \in SameHeader(u)
      BY <3>1 DEF Led
    <3>3. PICK j \in DataFrames(u) : <<u[HeaderOf(u, k)].x, u[k].x>> = <<u[j].x.at, u[j].x>>
      BY <3>2 DEF SameHeader
    <3> QED
      BY <3>2, <3>3
  <2>4. ASSUME NEW k \in DataFrames(u)
        PROVE  SaysOfRows(u[k], start) /\ SaysOfItems(u[k])
    <3>1. Shows(u[k], start, npkt)
      BY <2>1 DEF Written, Counted, Output
    <3> QED
      BY <3>1, ShownIsSaid
  <2> SUFFICES ASSUME NEW k \in RowFrames
               PROVE  LET x == Sent[k].x
                          first == start + x.bin * Width
                          vals(i) == {y.val[i] : y \in x.item[i].mean} IN
                      /\ HeaderOf(Sent, k) > 0 /\ Sent[HeaderOf(Sent, k)].x = x.at
                      /\ tool # "avg" => x.rows # {}
                      /\ \A y \in x.rows :
                           /\ y.id = Sent[k].id /\ y.at = x.at
                           /\ y.t > first - Width /\ y.t < first + Width
                           /\ y.t >= start => y.t >= first
                      /\ \A i \in DOMAIN x.item : vals(i) # {} =>
                           /\ tool = "avgsec" => x.item[i].lo \in vals(i) /\ \A v \in vals(i) : x.item[i].lo <= v
                           /\ tool = "avgsec" \/ (tool = "peak" /\ \E v \in vals(i) : v >= 0) =>
                                x.item[i].hi \in vals(i) /\ \A v \in vals(i) : v <= x.item[i].hi
                      /\ tool = "avgsec" /\ DOMAIN x.item = {1} => x.item[1].dev = x.item[1].mean
    BY Zenon DEF RowsMatch
  <2>5. HeaderOf(Sent, k) > 0 /\ Sent[HeaderOf(Sent, k)].x = Sent[k].x.at
    BY <2>2, <2>3
  <2>6. SaysOfRows(Sent[k], start) /\ SaysOfItems(Sent[k])
    BY <2>2, <2>4
  <2> DEFINE vals(i) == {y.val[i] : y \in Sent[k].x.item[i].mean}
  <2>7. tool # "avg" => Sent[k].x.rows # {}
    BY <2>6 DEF SaysOfRows
  <2>8. \A z \in Sent[k].x.rows :
          /\ z.id = Sent[k].id /\ z.at = Sent[k].x.at
          /\ z.t > (start + Sent[k].x.bin * Width) - Width
          /\ z.t < start + Sent[k].x.bin * Width + Width
          /\ z.t >= start => z.t >= start + Sent[k].x.bin * Width
    BY <2>6, Zenon DEF SaysOfRows
  <2>9. ASSUME NEW i \in DOMAIN Sent[k].x.item, vals(i) # {}
        PROVE  /\ tool = "avgsec" =>
                    Sent[k].x.item[i].lo \in vals(i) /\ \A v \in vals(i) : Sent[k].x.item[i].lo <= v
               /\ tool = "avgsec" \/ (tool = "peak" /\ \E v \in vals(i) : v >= 0) =>
                    Sent[k].x.item[i].hi \in vals(i) /\ \A v \in vals(i) : v <= Sent[k].x.item[i].hi
    <3>1. TheirExtremes(vals(i), Sent[k].x.item[i].lo, Sent[k].x.item[i].hi)
      BY <2>6, <2>9, Zenon DEF SaysOfItems
    <3> HIDE DEF vals
    <3> QED
      BY <3>1 DEF TheirExtremes
  <2>10. tool = "avgsec" /\ DOMAIN Sent[k].x.item = {1} => Sent[k].x.item[1].dev = Sent[k].x.item[1].mean
    BY <2>6 DEF SaysOfItems
  <2> QED
    BY <2>5, <2>7, <2>8, <2>9, <2>10, Zenon
<1> QED
  BY <1>1, <1>2, <1>3, PTL DEF Spec
=============================================================================
