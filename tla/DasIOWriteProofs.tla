-------------------------- MODULE DasIOWriteProofs --------------------------
(* Which header a reader uses for a frame of an output: what its two clients *)
(* need to know of HeaderOf when a frame is appended, and what follows for   *)
(* the calls on an output that is not compressed.                            *)
EXTENDS DasIOWrite, LeastElement

\* Frames of whatever kind.
AnySeq(s) == \E F : s \in Seq(F)

\* What Append makes of a sequence of frames.
LEMMA AppendIs ==
  ASSUME NEW s, AnySeq(s), NEW f
  PROVE  /\ AnySeq(Append(s, f)) /\ Len(s) \in Nat /\ Len(Append(s, f)) = Len(s) + 1
         /\ \A i \in 1..Len(s) : Append(s, f)[i] = s[i]
         /\ Append(s, f)[Len(s) + 1] = f
<1>1. PICK F : s \in Seq(F)
  BY DEF AnySeq
<1>2. PICK G : G = F \cup {f}
  OBVIOUS
<1>3. s \in Seq(G) /\ f \in G
  BY <1>1, <1>2
<1>4. Append(s, f) \in Seq(G)
  BY <1>3
<1> QED
  BY <1>3, <1>4 DEF AnySeq

\* No row is sent; and one row f.
SameRows(s, q) == DataFrames(q) = DataFrames(s) /\ \A j \in DataFrames(s) : q[j] = s[j]
RowAdded(s, q, f) ==
  /\ DataFrames(q) = DataFrames(s) \cup {Len(s) + 1} /\ Len(s) + 1 \notin DataFrames(s)
  /\ q[Len(s) + 1] = f
  /\ \A j \in DataFrames(s) : q[j] = s[j]

\* What is sent stays, and only a row adds to the rows.
LEMMA RowsAppend ==
  ASSUME NEW s, AnySeq(s), NEW f
  PROVE  /\ f.kind # "data" => SameRows(s, Append(s, f))
         /\ f.kind = "data" => RowAdded(s, Append(s, f), f)
<1>1. PICK q : q = Append(s, f)
  OBVIOUS
<1>2. PICK n \in Nat : n = Len(s)
  BY AppendIs
<1>3. Len(q) = n + 1 /\ (\A i \in 1..n : q[i] = s[i]) /\ q[n + 1] = f
  BY <1>1, <1>2, AppendIs
<1>4. \A i : i \in 1..(n + 1) <=> i \in 1..n \/ i = n + 1
  OBVIOUS
<1>5. \A j \in DataFrames(s) : q[j] = s[j]
  BY <1>2, <1>3 DEF DataFrames
<1>6. f.kind # "data" => DataFrames(q) = DataFrames(s)
  BY <1>2, <1>3, <1>4 DEF DataFrames
<1>7. f.kind = "data" => DataFrames(q) = DataFrames(s) \cup {n + 1}
  BY <1>2, <1>3, <1>4 DEF DataFrames
<1>8. n + 1 \notin DataFrames(s)
  BY <1>2 DEF DataFrames
<1>9. f.kind # "data" => SameRows(s, q)
  BY <1>5, <1>6 DEF SameRows
<1>10. f.kind = "data" => RowAdded(s, q, f)
  BY <1>2, <1>3, <1>5, <1>7, <1>8 DEF RowAdded
<1> QED
  BY <1>1, <1>9, <1>10

\* Frame j is a header of an ID; and the last one of them, with what it says.
Header(s, j, id) == s[j].kind = "packet" /\ s[j].id = id
Current(s, id, x) ==
  \E j \in 1..Len(s) : /\ Header(s, j, id) /\ s[j].x = x
                       /\ \A k \in (j + 1)..Len(s) : ~Header(s, k, id)

\* A header is the current one until another of its ID comes.
LEMMA CurrentStays ==
  ASSUME NEW s, AnySeq(s), NEW f, NEW id, NEW x, Current(s, id, x),
         ~(f.kind = "packet" /\ f.id = id)
  PROVE  Current(Append(s, f), id, x)
<1>1. PICK q : q = Append(s, f)
  OBVIOUS
<1>2. PICK n \in Nat : n = Len(s)
  BY AppendIs
<1>3. Len(q) = n + 1 /\ (\A i \in 1..n : q[i] = s[i]) /\ q[n + 1] = f
  BY <1>1, <1>2, AppendIs
<1>4. PICK j \in 1..n : /\ Header(s, j, id) /\ s[j].x = x
                        /\ \A k \in (j + 1)..n : ~Header(s, k, id)
  BY <1>2 DEF Current
<1>5. Header(q, j, id) /\ q[j].x = x /\ j \in 1..(n + 1)
  BY <1>3, <1>4 DEF Header
<1>6. ASSUME NEW k \in (j + 1)..(n + 1)
      PROVE  ~Header(q, k, id)
  <2>1. CASE k = n + 1
    BY <1>3, <2>1 DEF Header
  <2>2. CASE k # n + 1
    BY <1>3, <1>4, <2>2 DEF Header
  <2> QED
    BY <2>1, <2>2
<1>7. Current(q, id, x)
  BY <1>3, <1>5, <1>6 DEF Current
<1> QED
  BY <1>1, <1>7

\* A header becomes the current one of its ID.
LEMMA CurrentSet ==
  ASSUME NEW s, AnySeq(s), NEW f, f.kind = "packet"
  PROVE  Current(Append(s, f), f.id, f.x)
<1>1. PICK q : q = Append(s, f)
  OBVIOUS
<1>2. PICK n \in Nat : n = Len(s)
  BY AppendIs
<1>3. Len(q) = n + 1 /\ q[n + 1] = f
  BY <1>1, <1>2, AppendIs
<1>4. Header(q, n + 1, f.id) /\ q[n + 1].x = f.x /\ n + 1 \in 1..(n + 1)
  BY <1>3 DEF Header
<1>5. \A k \in (n + 2)..(n + 1) : FALSE
  OBVIOUS
<1>6. Current(q, f.id, f.x)
  BY <1>3, <1>4, <1>5 DEF Current
<1> QED
  BY <1>1, <1>6

\* The greatest of a set of numbers up to a bound.
LEMMA MaxIs ==
  ASSUME NEW n \in Nat, NEW S, S \subseteq 0..n, S # {}
  PROVE  Max(S) \in S /\ \A x \in S : x <= Max(S)
<1>1. PICK U : U = {k \in 0..n : n - k \in S}
  OBVIOUS
<1>2. U \subseteq Nat /\ U # {}
  <2>1. PICK x \in S : TRUE
    OBVIOUS
  <2>2. n - x \in 0..n /\ n - (n - x) = x
    OBVIOUS
  <2>3. n - x \in U
    BY <1>1, <2>2
  <2> QED
    BY <1>1, <2>3
<1>3. PICK k \in U : \A j \in U : k <= j
  BY <1>2, LeastNat
<1>4. n - k \in S /\ \A x \in S : x <= n - k
  <2>1. \A x \in S : n - x \in U
    <3>1. \A x \in S : n - x \in 0..n /\ n - (n - x) = x
      OBVIOUS
    <3> QED
      BY <1>1, <3>1
  <2>2. k \in 0..n /\ n - k \in S
    BY <1>1, <1>3
  <2>3. ASSUME NEW x \in S
        PROVE  x <= n - k
    <3>1. k <= n - x
      BY <1>3, <2>1
    <3>2. x \in Nat
      OBVIOUS
    <3> QED
      BY <2>2, <3>1, <3>2
  <2> QED
    BY <2>2, <2>3
<1>5. \E x \in S : \A y \in S : x >= y
  BY <1>4
<1>6. Max(S) \in S /\ \A y \in S : Max(S) >= y
  BY <1>5, Zenon DEF Max
<1> QED
  BY <1>6

\* The headers a frame may be read under, and 0 for none.
HeadersBefore(s, i) == {0} \cup {j \in 1..(i - 1) : Header(s, j, s[i].id)}

\* The header it is read under is the last of them.
LEMMA HeaderOfIs ==
  ASSUME NEW s, NEW i \in Nat \ {0}
  PROVE  /\ HeaderOf(s, i) \in HeadersBefore(s, i) /\ HeaderOf(s, i) \in 0..(i - 1)
         /\ \A j \in HeadersBefore(s, i) : j <= HeaderOf(s, i)
<1>1. PICK S : S = HeadersBefore(s, i)
  OBVIOUS
<1>2. S \subseteq 0..(i - 1) /\ S # {} /\ i - 1 \in Nat
  BY <1>1 DEF HeadersBefore
<1>3. HeaderOf(s, i) = Max(S)
  BY <1>1, Zenon DEF HeaderOf, HeadersBefore, Header
<1>4. Max(S) \in S /\ \A x \in S : x <= Max(S)
  BY <1>2, MaxIs
<1> QED
  BY <1>1, <1>2, <1>3, <1>4

\* What comes later does not matter to a frame.
LEMMA HeaderOfStays ==
  ASSUME NEW s, AnySeq(s), NEW f, NEW i \in 1..Len(s)
  PROVE  /\ HeaderOf(Append(s, f), i) = HeaderOf(s, i)
         /\ HeaderOf(s, i) > 0 => Append(s, f)[HeaderOf(s, i)] = s[HeaderOf(s, i)]
<1>1. PICK q : q = Append(s, f)
  OBVIOUS
<1>2. PICK n \in Nat : n = Len(s)
  BY AppendIs
<1>3. \A k \in 1..n : q[k] = s[k]
  BY <1>1, <1>2, AppendIs
<1>4. i \in 1..n /\ i \in Nat \ {0}
  BY <1>2
<1>5. HeadersBefore(q, i) = HeadersBefore(s, i)
  BY <1>3, <1>4 DEF HeadersBefore, Header
<1>6. HeaderOf(q, i) = Max(HeadersBefore(q, i)) /\ HeaderOf(s, i) = Max(HeadersBefore(s, i))
  BY Zenon DEF HeaderOf, HeadersBefore, Header
<1>7. HeaderOf(s, i) > 0 => q[HeaderOf(s, i)] = s[HeaderOf(s, i)]
  BY <1>2, <1>3, <1>4, HeaderOfIs
<1> QED
  BY <1>1, <1>5, <1>6, <1>7

\* The last frame is read under the current header.
LEMMA HeaderOfLast ==
  ASSUME NEW s, AnySeq(s), NEW f, NEW x, Current(s, f.id, x)
  PROVE  LET j == HeaderOf(Append(s, f), Len(s) + 1) IN j > 0 /\ Append(s, f)[j].x = x
<1>1. PICK q : q = Append(s, f)
  OBVIOUS
<1>2. PICK n \in Nat : n = Len(s)
  BY AppendIs
<1>3. (\A k \in 1..n : q[k] = s[k]) /\ q[n + 1] = f
  BY <1>1, <1>2, AppendIs
<1>4. PICK j \in 1..n : /\ Header(s, j, f.id) /\ s[j].x = x
                        /\ \A k \in (j + 1)..n : ~Header(s, k, f.id)
  BY <1>2 DEF Current
<1>5. j \in HeadersBefore(q, n + 1)
  BY <1>3, <1>4 DEF HeadersBefore, Header
<1>6. PICK h \in 0..n : /\ h = HeaderOf(q, n + 1) /\ h \in HeadersBefore(q, n + 1) /\ j <= h
  BY <1>5, HeaderOfIs
<1>7. h = j
  BY <1>3, <1>4, <1>6 DEF HeadersBefore, Header
<1> QED
  BY <1>1, <1>2, <1>3, <1>4, <1>6, <1>7
-----------------------------------------------------------------------------
\* Rows that agree with their headers: R relates what a header holds to what the
\* rows under it may hold.
Led(s, R) ==
  /\ AnySeq(s)
  /\ \A i \in DataFrames(s) :
       /\ HeaderOf(s, i) > 0
       /\ <<s[HeaderOf(s, i)].x, s[i].x>> \in R

\* It stays so when a row comes that agrees with the current header.
LEMMA LedAppend ==
  ASSUME NEW s, NEW R, Led(s, R), NEW f, NEW x,
         f.kind = "data" => Current(s, f.id, x) /\ <<x, f.x>> \in R
  PROVE  Led(Append(s, f), R)
<1>1. PICK q : q = Append(s, f)
  OBVIOUS
<1>2. PICK n \in Nat : n = Len(s)
  BY AppendIs DEF Led
<1>3. Len(q) = n + 1 /\ (\A k \in 1..n : q[k] = s[k]) /\ q[n + 1] = f /\ AnySeq(q)
  BY <1>1, <1>2, AppendIs DEF Led
<1>4. ASSUME NEW i \in DataFrames(q)
      PROVE  HeaderOf(q, i) > 0 /\ <<q[HeaderOf(q, i)].x, q[i].x>> \in R
  <2>1. i \in 1..(n + 1) /\ q[i].kind = "data"
    BY <1>3 DEF DataFrames
  <2>2. CASE i = n + 1
    <3>1. Current(s, f.id, x) /\ <<x, f.x>> \in R
      BY <1>3, <2>1, <2>2
    <3>2. HeaderOf(q, n + 1) > 0 /\ q[HeaderOf(q, n + 1)].x = x
      BY <1>1, <1>2, <3>1, HeaderOfLast DEF Led
    <3> QED
      BY <1>3, <2>2, <3>1, <3>2
  <2>3. CASE i # n + 1
    <3>1. i \in 1..n /\ q[i] = s[i] /\ i \in DataFrames(s)
      BY <1>2, <1>3, <2>1, <2>3 DEF DataFrames
    <3>2. HeaderOf(q, i) = HeaderOf(s, i)
      BY <1>1, <1>2, <3>1, HeaderOfStays DEF Led
    <3>3. HeaderOf(s, i) > 0 /\ <<s[HeaderOf(s, i)].x, s[i].x>> \in R
      BY <3>1 DEF Led
    <3>4. q[HeaderOf(s, i)] = s[HeaderOf(s, i)]
      BY <1>1, <1>2, <3>1, <3>3, HeaderOfStays DEF Led
    <3> QED
      BY <3>1, <3>2, <3>3, <3>4
  <2> QED
    BY <2>2, <2>3
<1>5. Led(q, R)
  BY <1>3, <1>4 DEF Led
<1> QED
  BY <1>1, <1>5

\* And when its first frame, and no other, is a stream header.
Formed(s, R) ==
  /\ Led(s, R)
  /\ \A i \in 1..Len(s) : (s[i].kind = "stream") <=> (i = 1)

\* Such a sequence is one a reader may read.
LEMMA FormedIsReadable ==
  ASSUME NEW s, NEW R, Formed(s, R)
  PROVE  Readable(s)
  BY DEF Formed, Led, Readable

\* It stays so when the stream header comes first and only then.
LEMMA FormedAppend ==
  ASSUME NEW s, NEW R, Formed(s, R), NEW f, NEW x,
         f.kind = "stream" <=> Len(s) = 0,
         f.kind = "data" => Current(s, f.id, x) /\ <<x, f.x>> \in R
  PROVE  Formed(Append(s, f), R)
<1>1. PICK q : q = Append(s, f)
  OBVIOUS
<1>2. PICK n \in Nat : n = Len(s)
  BY AppendIs DEF Formed, Led
<1>3. Len(q) = n + 1 /\ (\A k \in 1..n : q[k] = s[k]) /\ q[n + 1] = f
  BY <1>1, <1>2, AppendIs DEF Formed, Led
<1>4. \A i \in 1..(n + 1) : (q[i].kind = "stream") <=> (i = 1)
  BY <1>2, <1>3 DEF Formed
<1>5. Led(q, R)
  BY <1>1, LedAppend DEF Formed
<1>6. Formed(q, R)
  BY <1>3, <1>4, <1>5 DEF Formed
<1> QED
  BY <1>1, <1>6
-----------------------------------------------------------------------------
\* An output that is not compressed: all that was put on it has reached the file;
\* and one on which nothing comes before the stream header.
Direct(o) ==
  /\ o = [hdr |-> o.hdr, z |-> FALSE, buf |-> <<>>, sink |-> o.sink, failed |-> o.failed]
  /\ o.hdr \in BOOLEAN /\ o.failed \in BOOLEAN
  /\ AnySeq(o.sink)

Plain(o) == Direct(o) /\ (o.hdr <=> Len(o.sink) > 0)

\* A header, a row or a message.
LEMMA PutDirect ==
  ASSUME NEW o, Direct(o), NEW f
  PROVE  /\ Put(o, f) = [hdr |-> o.hdr, z |-> FALSE, buf |-> <<>>,
                         sink |-> Append(o.sink, f), failed |-> o.failed]
         /\ Put(o, f).sink = Append(o.sink, f) /\ Put(o, f).hdr = o.hdr
         /\ Put(o, f).failed = o.failed
         /\ Direct(Put(o, f))
<1>1. PICK s, h, b : s = o.sink /\ h = o.hdr /\ b = o.failed
  OBVIOUS
<1>2. o = [hdr |-> h, z |-> FALSE, buf |-> <<>>, sink |-> s, failed |-> b]
  BY <1>1 DEF Direct
<1>3. PICK q : q = Append(s, f)
  OBVIOUS
<1>4. Put(o, f) = [hdr |-> h, z |-> FALSE, buf |-> <<>>, sink |-> q, failed |-> b]
  BY <1>2, <1>3 DEF Put
<1>5. AnySeq(q)
  BY <1>1, <1>3, AppendIs DEF Direct
<1>6. Direct(Put(o, f))
  BY <1>1, <1>4, <1>5 DEF Direct
<1> QED
  BY <1>1, <1>3, <1>4, <1>6

\* The same of an output on which the stream header came first.
LEMMA PutPlain ==
  ASSUME NEW o, Plain(o), NEW f
  PROVE  /\ Put(o, f).sink = Append(o.sink, f) /\ Put(o, f).hdr = o.hdr
         /\ Put(o, f).failed = o.failed
         /\ o.hdr => Plain(Put(o, f))
<1>1. PICK q : q = Append(o.sink, f)
  OBVIOUS
<1>2. Len(q) = Len(o.sink) + 1 /\ Len(o.sink) \in Nat
  BY <1>1, AppendIs DEF Plain, Direct
<1>3. PICK p : p = Put(o, f)
  OBVIOUS
<1>4. p.sink = q /\ p.hdr = o.hdr /\ p.failed = o.failed /\ Direct(p)
  BY <1>1, <1>3, PutDirect DEF Plain
<1>5. o.hdr => Plain(p)
  BY <1>2, <1>4 DEF Plain
<1> QED
  BY <1>1, <1>3, <1>4, <1>5

\* The stream header itself, on an output that does not compress.
LEMMA StreamDescDirect ==
  ASSUME NEW o, Direct(o), ~o.hdr, NEW x
  PROVE  /\ WriteStreamDesc(o, x, FALSE).sink = Append(o.sink, Frame("stream", 0, x))
         /\ WriteStreamDesc(o, x, FALSE).hdr
         /\ WriteStreamDesc(o, x, FALSE).failed = o.failed
         /\ Direct(WriteStreamDesc(o, x, FALSE))
<1>1. PICK s, b, f : s = o.sink /\ b = o.failed /\ f = Frame("stream", 0, x)
  OBVIOUS
<1>2. PICK q : q = Append(s, f)
  OBVIOUS
<1>3. PICK p : p = Put(o, f)
  OBVIOUS
<1>4. p = [hdr |-> FALSE, z |-> FALSE, buf |-> <<>>, sink |-> q, failed |-> b]
  <2>1. p = [hdr |-> o.hdr, z |-> FALSE, buf |-> <<>>, sink |-> q, failed |-> b]
    BY <1>1, <1>2, <1>3, PutDirect
  <2>2. o.hdr = FALSE
    BY DEF Direct
  <2> QED
    BY <2>1, <2>2
<1>5. PICK w : w = WriteStreamDesc(o, x, FALSE)
  OBVIOUS
<1>6. w = [p EXCEPT !.hdr = TRUE, !.z = FALSE]
  BY <1>1, <1>3, <1>5 DEF WriteStreamDesc
<1>7. w = [hdr |-> TRUE, z |-> FALSE, buf |-> <<>>, sink |-> q, failed |-> b]
  BY <1>4, <1>6
<1>8. AnySeq(q) /\ b \in BOOLEAN
  BY <1>1, <1>2, AppendIs DEF Direct
<1>9. Direct(w)
  BY <1>7, <1>8 DEF Direct
<1>10. w.sink = Append(o.sink, Frame("stream", 0, x)) /\ w.hdr /\ w.failed = o.failed
  BY <1>1, <1>2, <1>7
<1> QED
  BY <1>5, <1>9, <1>10

\* And of the stream header that comes first.
LEMMA StreamDescPlain ==
  ASSUME NEW o, Plain(o), ~o.hdr, NEW x
  PROVE  /\ WriteStreamDesc(o, x, FALSE).sink = Append(o.sink, Frame("stream", 0, x))
         /\ WriteStreamDesc(o, x, FALSE).hdr
         /\ WriteStreamDesc(o, x, FALSE).failed = o.failed
         /\ Plain(WriteStreamDesc(o, x, FALSE))
<1>1. PICK w : w = WriteStreamDesc(o, x, FALSE)
  OBVIOUS
<1>2. PICK q : q = Append(o.sink, Frame("stream", 0, x))
  OBVIOUS
<1>3. w.sink = q /\ w.hdr /\ w.failed = o.failed /\ Direct(w)
  BY <1>1, <1>2, StreamDescDirect DEF Plain
<1>4. Len(q) = Len(o.sink) + 1 /\ Len(o.sink) \in Nat
  BY <1>2, AppendIs DEF Plain, Direct
<1>5. Plain(w)
  BY <1>3, <1>4 DEF Plain
<1> QED
  BY <1>1, <1>2, <1>3, <1>5

\* A call that is refused puts nothing there.
LEMMA RefusedDirect ==
  ASSUME NEW o, Direct(o)
  PROVE  /\ Refused(o).sink = o.sink /\ Refused(o).hdr = o.hdr /\ Refused(o).failed
         /\ Direct(Refused(o))
         /\ Plain(o) => Plain(Refused(o))
<1>1. PICK s, h, b : s = o.sink /\ h = o.hdr /\ b = o.failed
  OBVIOUS
<1>2. o = [hdr |-> h, z |-> FALSE, buf |-> <<>>, sink |-> s, failed |-> b]
  BY <1>1 DEF Direct
<1>3. PICK w : w = Refused(o)
  OBVIOUS
<1>4. w = [hdr |-> h, z |-> FALSE, buf |-> <<>>, sink |-> s, failed |-> TRUE]
  BY <1>2, <1>3 DEF Refused
<1>5. Direct(w)
  BY <1>1, <1>4 DEF Direct
<1>6. w.sink = o.sink /\ w.hdr = o.hdr /\ w.failed
  BY <1>1, <1>4
<1> QED
  BY <1>3, <1>5, <1>6 DEF Plain

\* Nothing has been sent: the stream header may come.
LEMMA NewIsPlain ==
  ASSUME NEW R
  PROVE  Plain(NewOutput) /\ Formed(NewOutput.sink, R) /\ ~NewOutput.hdr
<1>1. AnySeq(<<>>)
  <2>1. <<>> \in Seq({})
    OBVIOUS
  <2> QED
    BY <2>1 DEF AnySeq
<1>2. Len(<<>>) = 0
  OBVIOUS
<1>3. PICK o : o = NewOutput
  OBVIOUS
<1>4. o = [hdr |-> FALSE, z |-> FALSE, buf |-> <<>>, sink |-> <<>>, failed |-> FALSE]
  BY <1>3 DEF NewOutput
<1>5. Plain(o)
  BY <1>1, <1>2, <1>4 DEF Plain, Direct
<1>6. Formed(o.sink, R)
  BY <1>1, <1>2, <1>4 DEF Formed, Led, DataFrames
<1> QED
  BY <1>3, <1>4, <1>5, <1>6
=============================================================================
