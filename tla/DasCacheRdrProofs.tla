------------------------- MODULE DasCacheRdrProofs -------------------------
(* Proofs about DasCacheRdr: the list of files keeps to the room made for it, *)
(* holds every file that is there all the time, and is in the order of time; *)
(* what is sent is read under the right header and is the range asked for, in *)
(* the order of time.                                                        *)
EXTENDS DasCacheRdr, DasIOWriteProofs, FiniteSetTheorems, SequenceTheorems
-----------------------------------------------------------------------------
(* The order of times.                                                       *)

Times == [1..6 -> Int]

\* cmpArrays: of two different times one is before the other.
LEMMA BeforeTotal ==
  ASSUME NEW a \in Times, NEW b \in Times, a # b
  PROVE  Before(a, b, 6) \/ Before(b, a, 6)
<1>1. PICK D : D = {i \in 1..6 : a[i] # b[i]}
  OBVIOUS
<1>2. D \subseteq Nat /\ D # {}
  BY <1>1 DEF Times
<1>3. PICK i \in D : \A j \in D : i <= j
  BY <1>2, LeastNat
<1>4. i \in 1..6 /\ a[i] # b[i] /\ a[i] \in Int /\ b[i] \in Int
  BY <1>1 DEF Times
<1>5. \A j \in 1..(i - 1) : a[j] = b[j]
  <2> SUFFICES ASSUME NEW j \in 1..(i - 1), a[j] # b[j]
               PROVE  FALSE
    OBVIOUS
  <2>1. j \in D /\ j < i
    BY <1>1, <1>4
  <2> QED
    BY <1>3, <1>4, <2>1
<1>6. a[i] < b[i] \/ b[i] < a[i]
  BY <1>4
<1> QED
  BY <1>4, <1>5, <1>6 DEF Before

\* The order of times is transitive.
LEMMA BeforeTransitive ==
  ASSUME NEW a \in Times, NEW b \in Times, NEW c \in Times,
         Before(a, b, 6), Before(b, c, 6)
  PROVE  Before(a, c, 6)
<1>1. PICK i \in 1..6 : a[i] < b[i] /\ \A j \in 1..(i - 1) : a[j] = b[j]
  BY DEF Before
<1>2. PICK k \in 1..6 : b[k] < c[k] /\ \A j \in 1..(k - 1) : b[j] = c[j]
  BY DEF Before
<1>3. \A j \in 1..6 : a[j] \in Int /\ b[j] \in Int /\ c[j] \in Int
  BY DEF Times
<1>4. CASE i <= k
  <2>1. a[i] < c[i] /\ \A j \in 1..(i - 1) : a[j] = c[j]
    BY <1>1, <1>2, <1>3, <1>4
  <2> QED
    BY <2>1 DEF Before
<1>5. CASE k < i
  <2>1. a[k] < c[k] /\ \A j \in 1..(k - 1) : a[j] = c[j]
    BY <1>1, <1>2, <1>3, <1>5
  <2> QED
    BY <2>1 DEF Before
<1> QED
  BY <1>4, <1>5

\* No time is before itself.
LEMMA BeforeIrreflexive ==
  ASSUME NEW a \in Times
  PROVE  ~Before(a, a, 6)
  BY DEF Before, Times

\* A time among those of S that none of S is before.
Earliest(S, x) == x \in S /\ \A y \in S : ~Before(y, x, 6)

\* The rows of a file have a first one: the next that is read.
LEMMA FirstIsEarliest ==
  ASSUME NEW S \in SUBSET Times, IsFiniteSet(S), S # {}
  PROVE  Earliest(S, First(S))
<1> DEFINE P(T) == T # {} => \E x : Earliest(T, x)
           Good == {k \in 0..Cardinality(S) : \A T \in SUBSET S : Cardinality(T) = k => P(T)}
<1>1. PICK n \in Nat : n = Cardinality(S)
  BY FS_CardinalityType
<1>2. 0 \in Good
  <2>1. \A T \in SUBSET S : Cardinality(T) = 0 => T = {}
    BY FS_Subset, FS_EmptySet
  <2> QED
    BY <1>1, <2>1
<1>3. ASSUME NEW k \in 0..(n - 1), k \in Good
      PROVE  k + 1 \in Good
  <2> SUFFICES ASSUME NEW T \in SUBSET S, Cardinality(T) = k + 1, T # {}
               PROVE  \E x : Earliest(T, x)
    BY <1>1
  <2>1. PICK t \in T : TRUE
    OBVIOUS
  <2>2. IsFiniteSet(T)
    BY FS_Subset
  <2>3. Cardinality(T \ {t}) = k
    <3>1. Cardinality(T \ {t}) = Cardinality(T) - 1
      BY <2>1, <2>2, FS_RemoveElement
    <3> QED
      BY <1>3, <3>1
  <2>4. CASE T \ {t} = {}
    <3>1. T = {t} /\ t \in Times
      BY <2>1, <2>4
    <3>2. Earliest(T, t)
      BY <3>1, BeforeIrreflexive DEF Earliest
    <3> QED
      BY <3>2
  <2>5. CASE T \ {t} # {}
    <3>1. PICK x : Earliest(T \ {t}, x)
      BY <1>3, <2>3, <2>5
    <3>2. x \in Times /\ t \in Times /\ x \in T /\ \A y \in T \ {t} : ~Before(y, x, 6)
      BY <2>1, <3>1 DEF Earliest
    <3>3. CASE ~Before(t, x, 6)
      <4>1. Earliest(T, x)
        BY <3>2, <3>3 DEF Earliest
      <4> QED
        BY <4>1
    <3>4. CASE Before(t, x, 6)
      <4>1. ASSUME NEW y \in T
            PROVE  ~Before(y, t, 6)
        <5>1. CASE y = t
          BY <3>2, <5>1, BeforeIrreflexive
        <5>2. CASE y # t
          <6>1. y \in Times /\ ~Before(y, x, 6)
            BY <3>2, <5>2
          <6> QED
            BY <3>2, <3>4, <6>1, BeforeTransitive
        <5> QED
          BY <5>1, <5>2
      <4>2. Earliest(T, t)
        BY <2>1, <4>1 DEF Earliest
      <4> QED
        BY <4>2
    <3> QED
      BY <3>3, <3>4
  <2> QED
    BY <2>4, <2>5
<1>4. n \in Good
  <2> HIDE DEF Good
  <2> QED
    BY <1>2, <1>3, IntervalInduction
<1>5. \E x \in S : \A y \in S : ~Before(y, x, 6)
  BY <1>1, <1>4 DEF Earliest
<1> QED
  BY <1>5, Zenon DEF First, Earliest
-----------------------------------------------------------------------------
(* The invariants.                                                           *)

\* The room for the names is kept, the file read is one of those listed, and what
\* is left of it are rows of its block.
Listing ==
  /\ req \in Requests
  /\ AnySeq(list) /\ uMax \in Nat /\ Len(list) <= uMax
  /\ u \in Nat /\ u <= Len(list)
  /\ rest \subseteq req.rows
  /\ pc = "read" => u > 0 /\ rest \subseteq {x \in req.rows : Block(x) = list[u]}

\* A row of the range under the header of its own format.
Wanted == {x \in req.rows : ~Dropped(x)}
OwnFormat == {<<f, [fmt |-> f, at |-> x]>> : f \in Formats, x \in Wanted}

\* What OwnFormat relates.
LEMMA OwnFormatIs ==
  ASSUME NEW a, NEW b, <<a, b>> \in OwnFormat
  PROVE  a \in Formats /\ b.fmt = a /\ b.at \in Wanted
<1>1. PICK f \in Formats, x \in Wanted : <<a, b>> = <<f, [fmt |-> f, at |-> x]>>
  BY DEF OwnFormat
<1>2. a = f /\ b = [fmt |-> f, at |-> x]
  BY <1>1
<1> QED
  BY <1>2

\* The format last sent is the current header, and that of the file when its own
\* was sent or found equal.
Following ==
  /\ pdOut \in Formats \cup {NoFmt} /\ pdIn.fmt \in Formats \cup {NoFmt}
  /\ pdOut # NoFmt => Current(out.sink, 1, pdOut)
  /\ pdIn.sent => pdIn.fmt = pdOut /\ pdIn.fmt \in Formats

Sending ==
  /\ Plain(out)
  /\ pc = "read" => out.hdr
  /\ Formed(out.sink, OwnFormat)
  /\ Following

\* No format is given by an interval: EqualFormat does not compare those.
TagsListed == \A f \in Formats : ~f.ser
-----------------------------------------------------------------------------
\* The invariant of the list at the start.
LEMMA ListingInit == Init => Listing
<1> SUFFICES ASSUME Init
             PROVE  Listing
  OBVIOUS
<1>1. req \in Requests /\ uMax = 0 /\ list = <<>> /\ u = 0 /\ rest = {} /\ pc = "count"
  BY DEF Init
<1>2. AnySeq(<<>>) /\ Len(<<>>) = 0
  <2>1. <<>> \in Seq({})
    OBVIOUS
  <2> QED
    BY <2>1 DEF AnySeq
<1> QED
  BY <1>1, <1>2 DEF Listing

\* It is kept by every step: the second pass is never longer than the first.
LEMMA ListingStep == Listing /\ [Next]_vars => Listing'
<1> SUFFICES ASSUME Listing, [Next]_vars
             PROVE  Listing'
  OBVIOUS
<1>1. req' = req
  BY DEF Next, Count, Counted, List, Listed, Open, OpenFails, ReadRow, FileEnds, FileBreaks,
         Finish, ReadPktHdr, Appear, Vanish, rdr, vars
<1>2. req \in Requests
  BY DEF Listing
<1>3. ASSUME UNCHANGED <<uMax, list, u, rest>>, pc' = "read" => pc = "read"
      PROVE  Listing'
  BY <1>1, <1>3 DEF Listing, Block
<1>4. CASE Count
  <2>1. uMax' \in {uMax, uMax + 1} /\ UNCHANGED <<pc, list, u, rest>> /\ pc = "count"
    BY <1>4 DEF Count
  <2>2. Len(list) \in Nat
    BY AppendIs DEF Listing
  <2> QED
    BY <1>1, <2>1, <2>2 DEF Listing
<1>5. CASE List
  <2>1. UNCHANGED <<pc, uMax, u, rest>> /\ pc = "list" /\ Len(list) < uMax
    BY <1>5 DEF List
  <2>2. PICK b : list' \in {list, Append(list, b)}
    BY <1>5 DEF List
  <2>3. AnySeq(list') /\ Len(list') <= uMax /\ Len(list) <= Len(list') /\ Len(list) \in Nat
    <3>1. CASE list' = list
      BY <2>1, <3>1, AppendIs DEF Listing
    <3>2. CASE list' = Append(list, b)
      BY <2>1, <3>2, AppendIs DEF Listing
    <3> QED
      BY <2>2, <3>1, <3>2
  <2>4. Len(list') \in Nat
    BY <2>3, AppendIs
  <2> QED
    BY <1>1, <2>1, <2>3, <2>4 DEF Listing
<1>6. CASE Open
  <2>1. /\ u < Len(list) /\ u' = u + 1 /\ UNCHANGED <<uMax, list>>
        /\ rest' = {x \in req.rows : Block(x) = list[u + 1]}
    BY <1>6 DEF Open
  <2>2. Len(list) \in Nat
    BY AppendIs DEF Listing
  <2>3. u' \in Nat /\ u' <= Len(list) /\ u' > 0
    BY <2>1, <2>2 DEF Listing
  <2>4. rest' \subseteq {x \in req.rows : Block(x) = list[u']}
    BY <2>1
  <2> QED
    BY <1>1, <2>1, <2>3, <2>4 DEF Listing, Block
<1>7. CASE ReadRow
  <2>1. rest' \subseteq rest /\ UNCHANGED <<uMax, list, u>> /\ pc = "read"
    BY <1>7 DEF ReadRow
  <2> QED
    BY <1>1, <2>1 DEF Listing, Block
<1>8. CASE \E f \in Formats : ReadPktHdr(f)
  <2>1. UNCHANGED <<uMax, list, u, rest>> /\ pc = "read"
    BY <1>8 DEF ReadPktHdr
  <2> QED
    BY <1>3, <2>1
<1>9. CASE Counted \/ Listed \/ OpenFails \/ FileEnds \/ FileBreaks \/ Finish
  <2>1. UNCHANGED <<uMax, list, u, rest>> /\ pc' # "read"
    BY <1>9 DEF Counted, Listed, OpenFails, FileEnds, FileBreaks, Finish
  <2> QED
    BY <1>3, <2>1
<1>10. CASE \E b \in BlocksOf(req) : Appear(b) \/ Vanish(b)
  <2>1. UNCHANGED <<uMax, list, u, rest, pc>>
    BY <1>10 DEF Appear, Vanish, rdr
  <2> QED
    BY <1>3, <2>1
<1>11. CASE UNCHANGED vars
  <2>1. UNCHANGED <<uMax, list, u, rest, pc>>
    BY <1>11 DEF vars, rdr
  <2> QED
    BY <1>3, <2>1
<1> QED
  BY <1>4, <1>5, <1>6, <1>7, <1>8, <1>9, <1>10, <1>11 DEF Next
-----------------------------------------------------------------------------
\* The invariant of the output at the start.
LEMMA SendingInit == Init => Sending
<1> SUFFICES ASSUME Init
             PROVE  Sending
  OBVIOUS
<1>1. out = NewOutput /\ pc = "count" /\ pdOut = NoFmt /\ pdIn = [fmt |-> NoFmt, sent |-> FALSE]
  BY DEF Init
<1>2. Plain(out) /\ Formed(out.sink, OwnFormat)
  BY <1>1, NewIsPlain
<1>3. Following
  BY <1>1 DEF Following
<1> QED
  BY <1>1, <1>2, <1>3 DEF Sending

\* What is wanted does not change.
LEMMA RequestStays ==
  ASSUME [Next]_vars
  PROVE  req' = req /\ Wanted' = Wanted /\ OwnFormat' = OwnFormat
<1>1. req' = req
  BY DEF Next, Count, Counted, List, Listed, Open, OpenFails, ReadRow, FileEnds, FileBreaks,
         Finish, ReadPktHdr, Appear, Vanish, rdr, vars
<1>2. Wanted' = Wanted
  BY <1>1 DEF Wanted, Dropped
<1> QED
  BY <1>1, <1>2 DEF OwnFormat

\* Nothing is sent, and no file is opened.
LEMMA SendingStays ==
  ASSUME Sending, [Next]_vars, UNCHANGED <<out, pdIn, pdOut>>, pc' = "read" => pc = "read"
  PROVE  Sending'
<1>1. OwnFormat' = OwnFormat
  BY RequestStays
<1>2. Following'
  BY DEF Sending, Following
<1> QED
  BY <1>1, <1>2 DEF Sending

\* The stream header, once, before anything else.
LEMMA StreamHeaderSent ==
  ASSUME Sending, ~out.hdr, NEW x, NEW o, o = WriteStreamDesc(out, x, FALSE)
  PROVE  /\ Plain(o) /\ o.hdr /\ Formed(o.sink, OwnFormat)
         /\ pdOut # NoFmt => Current(o.sink, 1, pdOut)
<1>1. PICK f : f = Frame("stream", 0, x)
  OBVIOUS
<1>2. Plain(o) /\ o.hdr /\ o.sink = Append(out.sink, f)
  BY <1>1, StreamDescPlain DEF Sending
<1>3. f.kind = "stream"
  BY <1>1 DEF Frame
<1>4. Len(out.sink) = 0 /\ AnySeq(out.sink)
  <2>1. AnySeq(out.sink) /\ ~(Len(out.sink) > 0)
    BY DEF Sending, Plain, Direct
  <2>2. out.sink \in Seq({})  \/ Len(out.sink) = 0
    BY <2>1, AppendIs
  <2> QED
    BY <2>1, <2>2, AppendIs
<1>5. Formed(o.sink, OwnFormat)
  BY <1>2, <1>3, <1>4, FormedAppend DEF Sending
<1>6. pdOut # NoFmt => Current(o.sink, 1, pdOut)
  BY <1>2, <1>3, <1>4, CurrentStays DEF Sending, Following
<1> QED
  BY <1>2, <1>5, <1>6

\* A message, or a row, that leaves the formats alone.
LEMMA FrameSent ==
  ASSUME Sending, out.hdr, NEW f, f.kind \in {"oob", "data"}, NEW x,
         f.kind = "data" => Current(out.sink, f.id, x) /\ <<x, f.x>> \in OwnFormat,
         NEW o, o = Put(out, f)
  PROVE  /\ Plain(o) /\ o.hdr /\ Formed(o.sink, OwnFormat)
         /\ pdOut # NoFmt => Current(o.sink, 1, pdOut)
<1>1. Plain(o) /\ o.hdr = out.hdr /\ o.sink = Append(out.sink, f)
  BY PutPlain DEF Sending
<1>2. Len(out.sink) > 0 /\ AnySeq(out.sink)
  BY DEF Sending, Plain, Direct
<1>3. Formed(o.sink, OwnFormat)
  <2>1. f.kind = "stream" <=> Len(out.sink) = 0
    BY <1>2, AppendIs
  <2> QED
    BY <1>1, <2>1, FormedAppend DEF Sending
<1>4. pdOut # NoFmt => Current(o.sink, 1, pdOut)
  BY <1>1, <1>2, CurrentStays DEF Sending, Following
<1> QED
  BY <1>1, <1>3, <1>4

\* A packet header.
LEMMA FormatSent ==
  ASSUME Sending, out.hdr, NEW g \in Formats, NEW o, o = WritePktDesc(out, 1, g)
  PROVE  /\ Plain(o) /\ o.hdr /\ Formed(o.sink, OwnFormat) /\ Current(o.sink, 1, g)
<1>1. PICK f : f = Frame("packet", 1, g)
  OBVIOUS
<1>2. f.kind = "packet" /\ f.id = 1 /\ f.x = g
  BY <1>1 DEF Frame
<1>3. Plain(o) /\ o.hdr = out.hdr /\ o.sink = Append(out.sink, f)
  BY <1>1, PutPlain DEF Sending, WritePktDesc
<1>4. Len(out.sink) > 0 /\ AnySeq(out.sink)
  BY DEF Sending, Plain, Direct
<1>5. Formed(o.sink, OwnFormat)
  <2>1. f.kind = "stream" <=> Len(out.sink) = 0
    BY <1>2, <1>4, AppendIs
  <2> QED
    BY <1>2, <1>3, <2>1, FormedAppend DEF Sending
<1>6. Current(o.sink, 1, g)
  BY <1>2, <1>3, <1>4, CurrentSet
<1> QED
  BY <1>3, <1>5, <1>6

\* Formats that compare equal are one when their tags are listed.
LEMMA SameFormat ==
  ASSUME CacheAssumption, TagsListed, NEW a \in Formats, NEW b \in Formats
  PROVE  EqualFormat(a, b) # "crash" /\ (EqualFormat(a, b) # "other" => a = b)
<1>1. a.ser = FALSE /\ b.ser = FALSE
  BY DEF TagsListed, CacheAssumption
<1>2. EqualFormat(a, b) \in {"same", "other"}
      /\ (EqualFormat(a, b) # "other" => a.lay = b.lay /\ a.tags = b.tags)
  BY <1>1 DEF EqualFormat
<1>3. /\ a = [lay |-> a.lay, tags |-> a.tags, ser |-> a.ser]
      /\ b = [lay |-> b.lay, tags |-> b.tags, ser |-> b.ser]
  BY DEF CacheAssumption
<1>4. a.lay = b.lay /\ a.tags = b.tags => a = b
  BY <1>1, <1>3
<1> QED
  BY <1>2, <1>4

\* It is kept when a file is opened.
LEMMA OpenSends == ASSUME Sending, Open, [Next]_vars PROVE Sending'
<1>1. OwnFormat' = OwnFormat
  BY RequestStays
<1>2. /\ pdIn' = [fmt |-> NoFmt, sent |-> FALSE] /\ pdOut' = pdOut
      /\ out' = IF out.hdr THEN out ELSE WriteStreamDesc(out, "in", FALSE)
  BY DEF Open
<1>3. /\ Plain(out') /\ out'.hdr /\ Formed(out'.sink, OwnFormat)
      /\ pdOut # NoFmt => Current(out'.sink, 1, pdOut)
  <2>1. CASE out.hdr
    BY <1>2, <2>1 DEF Sending, Following
  <2>2. CASE ~out.hdr
    <3>1. out' = WriteStreamDesc(out, "in", FALSE)
      BY <1>2, <2>2
    <3> QED
      BY <2>2, <3>1, StreamHeaderSent
  <2> QED
    BY <2>1, <2>2
<1>4. Following'
  BY <1>2, <1>3 DEF Sending, Following
<1> QED
  BY <1>1, <1>3, <1>4 DEF Sending

\* When a header is read, and left out if it repeats the last one.
LEMMA HeaderSends ==
  ASSUME CacheAssumption, TagsListed, Sending, NEW f \in Formats, ReadPktHdr(f), [Next]_vars
  PROVE  Sending'
<1>1. OwnFormat' = OwnFormat
  BY RequestStays
<1>2. PICK eq : eq = IF pdOut = NoFmt THEN "other" ELSE EqualFormat(f, pdOut)
  OBVIOUS
<1>3. /\ pc = "read" /\ pdIn' = [fmt |-> f, sent |-> eq # "crash"]
      /\ IF eq = "other" THEN pdOut' = f /\ out' = WritePktDesc(out, 1, f)
         ELSE UNCHANGED <<pdOut, out>>
  BY <1>2 DEF ReadPktHdr
<1>4. out.hdr /\ pdOut \in Formats \cup {NoFmt} /\ f # NoFmt
  BY <1>3 DEF Sending, Following, CacheAssumption
<1>5. CASE eq = "other"
  <2>1. pdOut' = f /\ out' = WritePktDesc(out, 1, f)
    BY <1>3, <1>5
  <2>2. Plain(out') /\ out'.hdr /\ Formed(out'.sink, OwnFormat) /\ Current(out'.sink, 1, f)
    BY <1>4, <2>1, FormatSent
  <2>3. Following'
    BY <1>3, <2>1, <2>2 DEF Following
  <2> QED
    BY <1>1, <2>2, <2>3 DEF Sending
<1>6. CASE eq # "other"
  <2>1. pdOut \in Formats /\ f = pdOut
    BY <1>2, <1>4, <1>6, SameFormat
  <2>2. pdOut' = pdOut /\ out' = out
    BY <1>3, <1>6
  <2>3. Following'
    BY <1>3, <2>1, <2>2 DEF Sending, Following
  <2> QED
    BY <1>1, <1>4, <2>2, <2>3 DEF Sending
<1> QED
  BY <1>5, <1>6

\* When a row is read.
LEMMA RowSends ==
  ASSUME CacheAssumption, Listing, Sending, ReadRow, [Next]_vars
  PROVE  Sending'
<1>1. OwnFormat' = OwnFormat
  BY RequestStays
<1>2. PICK x : x = First(rest)
  OBVIOUS
<1>3. PICK o : o = WritePktData(out, 1, pdIn.sent, [fmt |-> pdIn.fmt, at |-> x])
  OBVIOUS
<1>4. /\ pc = "read" /\ rest # {} /\ UNCHANGED <<pdIn, pdOut>>
      /\ out' = IF Dropped(x) THEN out ELSE o
  BY <1>2, <1>3 DEF ReadRow
<1>5. x \in req.rows
  <2>1. req \in Requests /\ rest \subseteq req.rows
    BY DEF Listing
  <2>2. rest \in SUBSET Times /\ IsFiniteSet(rest)
    BY <2>1, FS_Subset DEF CacheAssumption, Times
  <2> QED
    BY <1>2, <1>4, <2>1, <2>2, FirstIsEarliest DEF Earliest
<1>6. out.hdr
  BY <1>4 DEF Sending
<1>7. /\ Plain(out') /\ out'.hdr /\ Formed(out'.sink, OwnFormat)
      /\ pdOut # NoFmt => Current(out'.sink, 1, pdOut)
  <2>1. CASE Dropped(x)
    BY <1>4, <1>6, <2>1 DEF Sending, Following
  <2>2. CASE ~Dropped(x) /\ ~pdIn.sent
    <3>1. out' = Refused(out)
      BY <1>3, <1>4, <2>2 DEF WritePktData
    <3>2. Plain(out') /\ out'.sink = out.sink /\ out'.hdr = out.hdr
      BY <3>1, RefusedDirect DEF Sending, Plain
    <3> QED
      BY <1>6, <3>2 DEF Sending, Following
  <2>3. CASE ~Dropped(x) /\ pdIn.sent
    <3>1. PICK y : y = [fmt |-> pdOut, at |-> x]
      OBVIOUS
    <3>2. PICK f : f = Frame("data", 1, y)
      OBVIOUS
    <3>3. pdIn.fmt = pdOut /\ pdOut \in Formats /\ pdOut # NoFmt
      BY <2>3 DEF Sending, Following, CacheAssumption
    <3>4. out' = Put(out, f)
      BY <1>3, <1>4, <1>6, <2>3, <3>1, <3>2, <3>3 DEF WritePktData
    <3>5. f.kind = "data" /\ f.id = 1 /\ f.x = y
      BY <3>2 DEF Frame
    <3>6. Current(out.sink, f.id, pdOut)
      BY <3>3, <3>5 DEF Sending, Following
    <3>7. <<pdOut, f.x>> \in OwnFormat
      BY <1>5, <2>3, <3>1, <3>3, <3>5 DEF OwnFormat, Wanted
    <3> QED
      BY <1>6, <3>4, <3>5, <3>6, <3>7, FrameSent
  <2> QED
    BY <2>1, <2>2, <2>3
<1>8. Following'
  BY <1>4, <1>7 DEF Sending, Following
<1> QED
  BY <1>1, <1>7, <1>8 DEF Sending

\* At the end.
LEMMA FinishSends == ASSUME Sending, Finish, [Next]_vars PROVE Sending'
<1>1. OwnFormat' = OwnFormat
  BY RequestStays
<1>2. /\ UNCHANGED <<pdIn, pdOut>> /\ pc' = "done"
      /\ out' = IF npkt = 0 THEN NoData(out) ELSE out
  BY DEF Finish
<1>3. /\ Plain(out') /\ Formed(out'.sink, OwnFormat)
      /\ pdOut # NoFmt => Current(out'.sink, 1, pdOut)
  <2>1. CASE npkt # 0
    BY <1>2, <2>1 DEF Sending, Following
  <2>2. CASE npkt = 0
    <3>1. PICK o : o = IF out.hdr THEN out ELSE WriteStreamDesc(out, "own", FALSE)
      OBVIOUS
    <3>2. PICK f : f = Frame("oob", 0, "NoData")
      OBVIOUS
    <3>3. /\ Plain(o) /\ o.hdr /\ Formed(o.sink, OwnFormat)
          /\ pdOut # NoFmt => Current(o.sink, 1, pdOut)
      <4>1. CASE out.hdr
        BY <3>1, <4>1 DEF Sending, Following
      <4>2. CASE ~out.hdr
        <5>1. o = WriteStreamDesc(out, "own", FALSE)
          BY <3>1, <4>2
        <5> QED
          BY <4>2, <5>1, StreamHeaderSent
      <4> QED
        BY <4>1, <4>2
    <3>4. out' = Put(o, f)
      BY <1>2, <2>2, <3>1, <3>2, <3>3 DEF NoData, WriteOob
    <3>5. f.kind = "oob"
      BY <3>2 DEF Frame
    <3>6. Plain(out') /\ out'.sink = Append(o.sink, f)
      BY <3>3, <3>4, PutPlain
    <3>7. AnySeq(o.sink) /\ Len(o.sink) > 0
      BY <3>3 DEF Plain, Direct
    <3>8. Formed(out'.sink, OwnFormat)
      <4>1. f.kind = "stream" <=> Len(o.sink) = 0
        BY <3>5, <3>7, AppendIs
      <4> QED
        BY <3>3, <3>5, <3>6, <4>1, FormedAppend
    <3>9. pdOut # NoFmt => Current(out'.sink, 1, pdOut)
      BY <3>3, <3>5, <3>6, <3>7, CurrentStays
    <3> QED
      BY <3>6, <3>8, <3>9
  <2> QED
    BY <2>1, <2>2
<1>4. Following'
  BY <1>2, <1>3 DEF Sending, Following
<1> QED
  BY <1>1, <1>2, <1>3, <1>4 DEF Sending

\* By every step.
LEMMA SendingStep ==
  ASSUME CacheAssumption, TagsListed, Listing, Sending, [Next]_vars
  PROVE  Sending'
<1>1. CASE Open
  BY <1>1, OpenSends
<1>2. CASE \E f \in Formats : ReadPktHdr(f)
  BY <1>2, HeaderSends
<1>3. CASE ReadRow
  BY <1>3, RowSends
<1>4. CASE Finish
  BY <1>4, FinishSends
<1>5. CASE Count \/ Counted \/ List \/ Listed \/ OpenFails \/ FileEnds \/ FileBreaks
  <2>1. UNCHANGED <<out, pdIn, pdOut>> /\ pc' # "read"
    BY <1>5 DEF Count, Counted, List, Listed, OpenFails, FileEnds, FileBreaks
  <2> QED
    BY <2>1, SendingStays
<1>6. CASE \E b \in BlocksOf(req) : Appear(b) \/ Vanish(b)
  <2>1. UNCHANGED <<out, pdIn, pdOut, pc>>
    BY <1>6 DEF Appear, Vanish, rdr
  <2> QED
    BY <2>1, SendingStays
<1>7. CASE UNCHANGED vars
  <2>1. UNCHANGED <<out, pdIn, pdOut, pc>>
    BY <1>7 DEF vars, rdr
  <2> QED
    BY <2>1, SendingStays
<1> QED
  BY <1>1, <1>2, <1>3, <1>4, <1>5, <1>6, <1>7 DEF Next

\* The header a row is read under is that of its own format, although headers that
\* repeat from file to file are left out: when the tags of the formats are listed.
THEOREM RowsUnderOwnHeader ==
  ASSUME TagsListed
  PROVE  Spec => []UnderOwnHeader
<1>1. Init => Listing /\ Sending
  BY ListingInit, SendingInit
<1>2. Listing /\ Sending /\ [Next]_vars => Listing' /\ Sending'
  BY CacheAssumption, ListingStep, SendingStep
<1>3. Listing /\ Sending => UnderOwnHeader
  <2> SUFFICES ASSUME Sending, NEW i \in DataFrames(out.sink)
               PROVE  out.sink[HeaderOf(out.sink, i)].x = out.sink[i].x.fmt
    BY DEF UnderOwnHeader
  <2>1. <<out.sink[HeaderOf(out.sink, i)].x, out.sink[i].x>> \in OwnFormat
    BY DEF Sending, Formed, Led
  <2> QED
    BY <2>1, OwnFormatIs
<1> QED
  BY <1>1, <1>2, <1>3, PTL DEF Spec

\* The names listed never outgrow the room made for them by the first count, and the
\* file that is read is one of them, whatever comes or goes meanwhile.
THEOREM RoomForNames == Spec => [](Len(list) <= uMax /\ u <= Len(list))
<1>1. Listing => Len(list) <= uMax /\ u <= Len(list)
  BY DEF Listing
<1> QED
  BY <1>1, ListingInit, ListingStep, PTL DEF Spec
-----------------------------------------------------------------------------
(* All that was asked for is sent, and nothing else.                         *)

Served(s, x) == \E j \in DataFrames(s) : s[j].x.at = x

\* The rows of a file that were asked for, and which of them have been sent while
\* it is read; whether any was decides if the stream ends with a message.
Delivered ==
  /\ npkt \in Nat /\ (npkt = 0 <=> DataFrames(out.sink) = {})
  /\ pc # "exit" => ~out.failed
  /\ pc \in {"count", "list"} => u = 0
  /\ pc \in {"open", "read", "done"} =>
       \A i \in 1..u : \A x \in Wanted :
         Block(x) = list[i] => Served(out.sink, x) \/ (pc = "read" /\ i = u /\ x \in rest)
  /\ pc = "done" => /\ u = Len(list)
                    /\ npkt = 0 => out.sink # <<>> /\ out.sink[Len(out.sink)].kind = "oob"

\* The rows served depend on nothing but the frames.
LEMMA SameRowsServed ==
  ASSUME NEW s, NEW q, SameRows(s, q), NEW x, Served(s, x)
  PROVE  Served(q, x)
  BY DEF SameRows, Served

\* The rows of the range at the start.
LEMMA DeliveredInit == Init => Delivered
<1> SUFFICES ASSUME Init
             PROVE  Delivered
  OBVIOUS
<1>1. pc = "count" /\ u = 0 /\ npkt = 0 /\ out.sink = <<>> /\ ~out.failed
  BY DEF Init, NewOutput
<1>2. DataFrames(out.sink) = {}
  BY <1>1 DEF DataFrames
<1> QED
  BY <1>1, <1>2 DEF Delivered

\* The file being read stays as it is, and no row is sent.
LEMMA DeliveredStays ==
  ASSUME Delivered, [Next]_vars, UNCHANGED <<u, list, rest, npkt>>, SameRows(out.sink, out'.sink),
         pc' = pc \/ pc' \in {"exit", "crashed"},
         pc # "done", pc' # "exit" => ~out'.failed
  PROVE  Delivered'
<1>1. req' = req /\ Wanted' = Wanted
  BY RequestStays
<1>2. (npkt = 0 <=> DataFrames(out.sink) = {})'
  BY DEF Delivered, SameRows
<1>3. ASSUME pc' \in {"open", "read", "done"}, NEW i \in 1..u, NEW x \in Wanted, Block(x) = list[i]
      PROVE  Served(out'.sink, x) \/ (pc = "read" /\ i = u /\ x \in rest)
  BY <1>3, SameRowsServed DEF Delivered
<1>4. npkt' \in Nat /\ (pc' \in {"count", "list"} => u' = 0)
  BY DEF Delivered
<1> QED
  BY <1>1, <1>2, <1>3, <1>4 DEF Delivered, Block

\* An output has the rows it has.
LEMMA SameRowsSelf == \A s : SameRows(s, s)
  BY DEF SameRows

\* What a stream header leaves of the rows.
LEMMA SameRowsStream ==
  ASSUME NEW o, Plain(o), ~o.hdr, NEW x, NEW w, w = WriteStreamDesc(o, x, FALSE)
  PROVE  SameRows(o.sink, w.sink) /\ w.failed = o.failed
<1>1. PICK f : f = Frame("stream", 0, x)
  OBVIOUS
<1>2. f.kind # "data" /\ w.sink = Append(o.sink, f) /\ w.failed = o.failed
  BY <1>1, StreamDescPlain DEF Frame
<1> QED
  BY <1>2, RowsAppend DEF Plain, Direct

\* A file that is opened sends no row, and nothing fails.
LEMMA OpenSendsNone ==
  ASSUME Sending, Open
  PROVE  SameRows(out.sink, out'.sink) /\ out'.failed = out.failed
<1>1. out' = IF out.hdr THEN out ELSE WriteStreamDesc(out, "in", FALSE)
  BY DEF Open
<1>2. CASE out.hdr
  BY <1>1, <1>2, SameRowsSelf
<1>3. CASE ~out.hdr
  <2>1. out' = WriteStreamDesc(out, "in", FALSE)
    BY <1>1, <1>3
  <2> QED
    BY <1>3, <2>1, SameRowsStream DEF Sending
<1> QED
  BY <1>2, <1>3

\* A file that is opened delivers nothing yet.
LEMMA OpenDelivers ==
  ASSUME Listing, Sending, Delivered, Open, [Next]_vars
  PROVE  Delivered'
<1>1. req' = req /\ Wanted' = Wanted
  BY RequestStays
<1>2. /\ pc = "open" /\ pc' = "read" /\ u' = u + 1
      /\ rest' = {x \in req.rows : Block(x) = list[u + 1]}
      /\ out' = (IF out.hdr THEN out ELSE WriteStreamDesc(out, "in", FALSE))
      /\ UNCHANGED <<list, npkt>>
  BY DEF Open
<1>3. SameRows(out.sink, out'.sink) /\ out'.failed = out.failed
  BY OpenSendsNone
<1>4. (npkt = 0 <=> DataFrames(out.sink) = {})' /\ npkt' \in Nat /\ ~out'.failed
  BY <1>2, <1>3 DEF Delivered, SameRows
<1>5. ASSUME NEW i \in 1..u', NEW x \in Wanted, Block(x) = list[i]
      PROVE  Served(out'.sink, x) \/ (i = u' /\ x \in rest')
  <2>1. u \in Nat
    BY DEF Listing
  <2>2. CASE i = u + 1
    BY <1>2, <1>5, <2>2 DEF Wanted
  <2>3. CASE i # u + 1
    <3>1. i \in 1..u
      BY <1>2, <2>1, <2>3
    <3>2. Served(out.sink, x)
      BY <1>2, <1>5, <3>1 DEF Delivered
    <3> QED
      BY <1>3, <3>2, SameRowsServed
  <2> QED
    BY <2>2, <2>3
<1> QED
  BY <1>1, <1>2, <1>4, <1>5 DEF Delivered, Block

\* A packet header sends no row, and nothing fails.
LEMMA HeaderSendsNone ==
  ASSUME Sending, Delivered, NEW f \in Formats, ReadPktHdr(f)
  PROVE  SameRows(out.sink, out'.sink) /\ ~out'.failed
<1>1. pc = "read" /\ out' \in {out, WritePktDesc(out, 1, f)}
  BY DEF ReadPktHdr
<1>2. out.hdr /\ ~out.failed
  BY <1>1 DEF Sending, Delivered
<1>3. PICK g : g = Frame("packet", 1, f)
  OBVIOUS
<1>4. g.kind # "data" /\ out' \in {out, Put(out, g)}
  BY <1>1, <1>2, <1>3 DEF WritePktDesc, Frame
<1>5. CASE out' = out
  BY <1>2, <1>5, SameRowsSelf
<1>6. CASE out' = Put(out, g)
  <2>1. out'.sink = Append(out.sink, g) /\ out'.failed = out.failed
    BY <1>6, PutPlain DEF Sending
  <2> QED
    BY <1>2, <1>4, <2>1, RowsAppend DEF Sending, Plain, Direct
<1> QED
  BY <1>4, <1>5, <1>6

\* It delivers nothing.
LEMMA HeaderDelivers ==
  ASSUME Sending, Delivered, NEW f \in Formats, ReadPktHdr(f), [Next]_vars
  PROVE  Delivered'
<1>1. pc = "read" /\ pc' \in {pc, "crashed"} /\ UNCHANGED <<u, list, rest, npkt>>
  BY DEF ReadPktHdr
<1>2. SameRows(out.sink, out'.sink) /\ ~out'.failed
  BY HeaderSendsNone
<1> QED
  BY <1>1, <1>2, DeliveredStays

\* What becomes of a row: it is left out, it is refused, or it is sent.
Skipped(x) == Dropped(x) /\ UNCHANGED <<pc, npkt, out>>
Turned(x) == ~Dropped(x) /\ out'.sink = out.sink /\ pc' = "exit" /\ npkt' = npkt
Passed(x) ==
  /\ ~Dropped(x) /\ ~out'.failed /\ npkt' = npkt + 1 /\ pc' = pc
  /\ \E f : f.x.at = x /\ RowAdded(out.sink, out'.sink, f)

\* One of these it is.
LEMMA RowOutcome ==
  ASSUME Sending, Delivered, ReadRow
  PROVE  Skipped(First(rest)) \/ Turned(First(rest)) \/ Passed(First(rest))
<1>1. PICK x : x = First(rest)
  OBVIOUS
<1>2. PICK y : y = [fmt |-> pdIn.fmt, at |-> x]
  OBVIOUS
<1>3. PICK o : o = WritePktData(out, 1, pdIn.sent, y)
  OBVIOUS
<1>4. /\ pc = "read"
      /\ IF Dropped(x) THEN UNCHANGED <<pc, npkt, out>>
         ELSE /\ out' = o
              /\ IF o.failed THEN pc' = "exit" /\ UNCHANGED npkt
                 ELSE npkt' = npkt + 1 /\ UNCHANGED pc
  BY <1>1, <1>2, <1>3 DEF ReadRow
<1>5. out.hdr /\ ~out.failed
  BY <1>4 DEF Sending, Delivered
<1>6. CASE Dropped(x)
  BY <1>1, <1>4, <1>6 DEF Skipped
<1>7. CASE ~Dropped(x) /\ ~pdIn.sent
  <2>1. out' = Refused(out)
    BY <1>3, <1>4, <1>7 DEF WritePktData
  <2>2. out'.sink = out.sink /\ o.failed
    <3>1. out.failed \in BOOLEAN /\ out = [hdr |-> out.hdr, z |-> FALSE, buf |-> <<>>,
                                         sink |-> out.sink, failed |-> out.failed]
      BY DEF Sending, Plain, Direct
    <3>2. Refused(out).failed
      BY <3>1 DEF Refused
    <3> QED
      BY <1>4, <1>7, <2>1, <3>2, RefusedDirect DEF Sending, Plain
  <2> QED
    BY <1>1, <1>4, <1>7, <2>2 DEF Turned
<1>8. CASE ~Dropped(x) /\ pdIn.sent
  <2>1. PICK f : f = Frame("data", 1, y)
    OBVIOUS
  <2>2. f.kind = "data" /\ f.x.at = x
    BY <1>2, <2>1 DEF Frame
  <2>3. out' = o /\ o = Put(out, f)
    BY <1>3, <1>4, <1>5, <1>8, <2>1 DEF WritePktData
  <2>4. out'.sink = Append(out.sink, f) /\ ~o.failed
    BY <1>5, <2>3, PutPlain DEF Sending
  <2>5. RowAdded(out.sink, out'.sink, f)
    BY <2>2, <2>4, RowsAppend DEF Sending, Plain, Direct
  <2> QED
    BY <1>1, <1>4, <1>8, <2>2, <2>3, <2>4, <2>5 DEF Passed
<1> QED
  BY <1>6, <1>7, <1>8

\* A row of the range is delivered, another one is not.
LEMMA RowDelivers ==
  ASSUME CacheAssumption, Listing, Sending, Delivered, ReadRow, [Next]_vars
  PROVE  Delivered'
<1>1. req' = req /\ Wanted' = Wanted
  BY RequestStays
<1>2. PICK x : x = First(rest)
  OBVIOUS
<1>3. pc = "read" /\ rest' = rest \ {x} /\ UNCHANGED <<u, list>>
  BY <1>2 DEF ReadRow
<1>4. CASE Skipped(x)
  <2>1. UNCHANGED <<pc, npkt, out>> /\ x \notin Wanted
    BY <1>4 DEF Skipped, Wanted
  <2> QED
    BY <1>1, <1>3, <2>1 DEF Delivered, Block
<1>5. CASE Turned(x)
  BY <1>5 DEF Turned, Delivered
<1>6. CASE Passed(x)
  <2>1. PICK f : f.x.at = x /\ RowAdded(out.sink, out'.sink, f)
    BY <1>6 DEF Passed
  <2>2. ~out'.failed /\ npkt' = npkt + 1 /\ pc' = pc
    BY <1>6 DEF Passed
  <2>3. Served(out'.sink, x) /\ \A z : Served(out.sink, z) => Served(out'.sink, z)
    BY <2>1 DEF Served, RowAdded
  <2>4. npkt' \in Nat /\ npkt' # 0 /\ DataFrames(out'.sink) # {}
    BY <2>1, <2>2 DEF Delivered, RowAdded
  <2>5. ASSUME NEW i \in 1..u, NEW z \in Wanted, Block(z) = list[i]
        PROVE  Served(out'.sink, z) \/ (i = u /\ z \in rest')
    BY <1>3, <2>3, <2>5 DEF Delivered
  <2> QED
    BY <1>1, <1>3, <2>2, <2>4, <2>5 DEF Delivered, Block
<1> QED
  BY <1>2, <1>4, <1>5, <1>6, RowOutcome

\* The end sends no row, and a message if there was none.
LEMMA FinishSendsNone ==
  ASSUME Sending, Delivered, Finish
  PROVE  /\ SameRows(out.sink, out'.sink) /\ ~out'.failed
         /\ npkt = 0 => out'.sink # <<>> /\ out'.sink[Len(out'.sink)].kind = "oob"
<1>1. pc = "open" /\ out' = (IF npkt = 0 THEN NoData(out) ELSE out)
  BY DEF Finish
<1>2. ~out.failed /\ Plain(out)
  BY <1>1 DEF Delivered, Sending
<1>3. CASE npkt # 0
  BY <1>1, <1>2, <1>3, SameRowsSelf
<1>4. CASE npkt = 0
  <2>1. PICK o : o = IF out.hdr THEN out ELSE WriteStreamDesc(out, "own", FALSE)
    OBVIOUS
  <2>2. PICK f : f = Frame("oob", 0, "NoData")
    OBVIOUS
  <2>3. Plain(o) /\ o.hdr /\ ~o.failed /\ SameRows(out.sink, o.sink)
    <3>1. CASE out.hdr
      BY <1>2, <2>1, <3>1, SameRowsSelf
    <3>2. CASE ~out.hdr
      <4>1. o = WriteStreamDesc(out, "own", FALSE)
        BY <2>1, <3>2
      <4> QED
        BY <1>2, <3>2, <4>1, StreamDescPlain, SameRowsStream
    <3> QED
      BY <3>1, <3>2
  <2>4. out' = Put(o, f) /\ f.kind = "oob"
    BY <1>1, <1>4, <2>1, <2>2, <2>3 DEF NoData, WriteOob, Frame
  <2>5. out'.sink = Append(o.sink, f) /\ ~out'.failed /\ AnySeq(o.sink)
    <3>1. PICK w : w = Put(o, f)
      OBVIOUS
    <3>2. w.sink = Append(o.sink, f) /\ ~w.failed
      BY <2>3, <3>1, PutPlain
    <3>3. AnySeq(o.sink)
      BY <2>3 DEF Plain, Direct
    <3> QED
      BY <2>4, <3>1, <3>2, <3>3
  <2>6. SameRows(out.sink, out'.sink)
    <3>1. SameRows(o.sink, out'.sink)
      BY <2>4, <2>5, RowsAppend
    <3> QED
      BY <2>3, <3>1 DEF SameRows
  <2>7. out'.sink # <<>> /\ out'.sink[Len(out'.sink)].kind = "oob"
    <3>1. PICK q : q = Append(o.sink, f)
      OBVIOUS
    <3>2. Len(q) = Len(o.sink) + 1 /\ q[Len(o.sink) + 1] = f /\ Len(o.sink) \in Nat
      BY <2>5, <3>1, AppendIs
    <3>3. q # <<>> /\ q[Len(q)].kind = "oob"
      BY <2>4, <3>2
    <3> QED
      BY <2>5, <3>1, <3>3
  <2> QED
    BY <2>5, <2>6, <2>7
<1> QED
  BY <1>3, <1>4

\* The end delivers nothing.
LEMMA FinishDelivers ==
  ASSUME Listing, Sending, Delivered, Finish, [Next]_vars
  PROVE  Delivered'
<1>1. req' = req /\ Wanted' = Wanted
  BY RequestStays
<1>2. /\ pc = "open" /\ pc' = "done" /\ u = Len(list) /\ UNCHANGED <<u, list, rest, npkt>>
      /\ out' = (IF npkt = 0 THEN NoData(out) ELSE out)
  BY DEF Finish
<1>3. /\ SameRows(out.sink, out'.sink) /\ ~out'.failed
      /\ npkt = 0 => out'.sink # <<>> /\ out'.sink[Len(out'.sink)].kind = "oob"
  BY FinishSendsNone
<1>4. (npkt = 0 <=> DataFrames(out.sink) = {})' /\ npkt' \in Nat
  BY <1>2, <1>3 DEF Delivered, SameRows
<1>5. ASSUME NEW i \in 1..u, NEW x \in Wanted, Block(x) = list[i]
      PROVE  Served(out'.sink, x)
  <2>1. Served(out.sink, x)
    BY <1>2, <1>5 DEF Delivered
  <2> QED
    BY <1>3, <2>1, SameRowsServed
<1> QED
  BY <1>1, <1>2, <1>3, <1>4, <1>5 DEF Delivered, Block

\* Nothing is sent, and no file is opened, ended or left half way without an error.
LEMMA DeliveredStep ==
  ASSUME CacheAssumption, Listing, Sending, Delivered, [Next]_vars
  PROVE  Delivered'
<1>1. req' = req /\ Wanted' = Wanted
  BY RequestStays
<1>2. ASSUME UNCHANGED <<out, npkt, u>>, pc \in {"count", "list"}, pc' \in {"count", "list", "open"}
      PROVE  Delivered'
  <2>1. u = 0
    BY <1>2 DEF Delivered
  <2>2. \A i \in 1..u' : FALSE
    BY <1>2, <2>1
  <2> QED
    BY <1>2, <2>1, <2>2 DEF Delivered
<1>3. ASSUME UNCHANGED <<out, npkt, u, list, rest, pc>>
      PROVE  Delivered'
  BY <1>1, <1>3 DEF Delivered, Block
<1>4. CASE Count \/ Counted \/ List \/ Listed
  <2>1. /\ UNCHANGED <<out, npkt, u>> /\ pc \in {"count", "list"}
        /\ pc' \in {"count", "list", "open"}
    BY <1>4 DEF Count, Counted, List, Listed
  <2> QED
    BY <1>2, <2>1
<1>5. CASE Open
  BY <1>5, OpenDelivers
<1>6. CASE \E f \in Formats : ReadPktHdr(f)
  BY <1>6, HeaderDelivers
<1>7. CASE ReadRow
  BY <1>7, RowDelivers
<1>8. CASE Finish
  BY <1>8, FinishDelivers
<1>9. CASE FileEnds
  <2>1. /\ pc = "read" /\ pc' = "open" /\ rest = {}
        /\ UNCHANGED <<out, npkt, u, list, rest>>
    BY <1>9 DEF FileEnds
  <2> QED
    BY <1>1, <2>1 DEF Delivered, Block
<1>10. CASE OpenFails \/ FileBreaks
  <2>1. pc' = "exit" /\ UNCHANGED <<out, npkt>>
    BY <1>10 DEF OpenFails, FileBreaks
  <2> QED
    BY <2>1 DEF Delivered
<1>11. CASE \E b \in BlocksOf(req) : Appear(b) \/ Vanish(b)
  <2>1. UNCHANGED <<out, npkt, u, list, rest, pc>>
    BY <1>11 DEF Appear, Vanish, rdr
  <2> QED
    BY <1>3, <2>1
<1>12. CASE UNCHANGED vars
  <2>1. UNCHANGED <<out, npkt, u, list, rest, pc>>
    BY <1>12 DEF vars, rdr
  <2> QED
    BY <1>3, <2>1
<1> QED
  BY <1>4, <1>5, <1>6, <1>7, <1>8, <1>9, <1>10, <1>11, <1>12 DEF Next

\* A row is passed on exactly if it lies in the range, its begin included and its end
\* left out.
LEMMA DroppedOutside ==
  ASSUME CacheAssumption, req \in Requests, NEW x \in req.rows
  PROVE  Dropped(x) <=> ~Inside(x)
<1>1. x \in Times /\ req.beg \in Times
  BY DEF CacheAssumption, Times
<1>2. ~Before(x, req.beg, 6) <=> x = req.beg \/ Before(req.beg, x, 6)
  <2>1. CASE x = req.beg
    BY <1>1, <2>1, BeforeIrreflexive
  <2>2. CASE x # req.beg
    <3>1. Before(x, req.beg, 6) \/ Before(req.beg, x, 6)
      BY <1>1, <2>2, BeforeTotal
    <3>2. ~(Before(x, req.beg, 6) /\ Before(req.beg, x, 6))
      BY <1>1, BeforeTransitive, BeforeIrreflexive
    <3> QED
      BY <2>2, <3>1, <3>2
  <2> QED
    BY <2>1, <2>2
<1> QED
  BY <1>2 DEF Dropped, Inside

\* RowsServed but for the order of the rows: the stream may be read at any moment, it
\* holds rows of the range only, in the end all those of the files listed, and if
\* there are none it says so.
RowsInRange ==
  LET s == out.sink
      D == DataFrames(s)
  IN
  /\ Readable(s)
  /\ \A i \in D : Inside(s[i].x.at)
  /\ pc = "done" =>
       /\ \A x \in req.rows : Inside(x) /\ (\E i \in 1..Len(list) : list[i] = Block(x))
            => \E i \in D : s[i].x.at = x
       /\ D = {} => s # <<>> /\ s[Len(s)].kind = "oob"

\* Every row of a file that was listed is sent if the range holds it, no other row
\* is, and a request without rows is answered by a message.
THEOREM RangeIsSent ==
  ASSUME TagsListed
  PROVE  Spec => []RowsInRange
<1>1. Init => Listing /\ Sending /\ Delivered
  BY ListingInit, SendingInit, DeliveredInit
<1>2. Listing /\ Sending /\ Delivered /\ [Next]_vars => (Listing /\ Sending /\ Delivered)'
  BY CacheAssumption, ListingStep, SendingStep, DeliveredStep
<1>3. Listing /\ Sending /\ Delivered => RowsInRange
  <2> SUFFICES ASSUME Listing, Sending, Delivered
               PROVE  RowsInRange
    OBVIOUS
  <2>1. req \in Requests
    BY DEF Listing
  <2>2. Readable(out.sink)
    BY FormedIsReadable DEF Sending
  <2>3. ASSUME NEW i \in DataFrames(out.sink)
        PROVE  Inside(out.sink[i].x.at)
    <3>1. <<out.sink[HeaderOf(out.sink, i)].x, out.sink[i].x>> \in OwnFormat
      BY DEF Sending, Formed, Led
    <3>2. out.sink[i].x.at \in Wanted
      BY <3>1, OwnFormatIs
    <3> QED
      BY <2>1, <3>2, CacheAssumption, DroppedOutside DEF Wanted
  <2>4. ASSUME pc = "done", NEW x \in req.rows, Inside(x),
               NEW i \in 1..Len(list), list[i] = Block(x)
        PROVE  \E j \in DataFrames(out.sink) : out.sink[j].x.at = x
    <3>1. x \in Wanted
      BY <2>1, <2>4, CacheAssumption, DroppedOutside DEF Wanted
    <3> QED
      BY <2>4, <3>1 DEF Delivered, Served
  <2>5. pc = "done" /\ DataFrames(out.sink) = {} =>
          out.sink # <<>> /\ out.sink[Len(out.sink)].kind = "oob"
    BY DEF Delivered
  <2> QED
    BY <2>2, <2>3, <2>4, <2>5 DEF RowsInRange
<1> QED
  BY <1>1, <1>2, <1>3, PTL DEF Spec
-----------------------------------------------------------------------------
(* The calendar of tnorm: days are numbered, and years and months begin at a day. *)

\* The days before the first of January of a year, from some fixed day on.
Years(y) == 365 * y + (y - 1) \div 4 - (y - 1) \div 100 + (y - 1) \div 400

\* The year after begins as many days later as the year is long.
LEMMA YearsNext ==
  ASSUME NEW y \in Int
  PROVE  /\ Years(y) \in Int /\ Years(y + 1) = Years(y) + YearLen(y)
         /\ YearLen(y) \in {365, 366}
<1>1. PICK a, b, c \in Int : a = (y - 1) \div 4 /\ b = (y - 1) \div 100 /\ c = (y - 1) \div 400
  OBVIOUS
<1>2. /\ y - 1 - 4 * a \in 0..3 /\ y - 1 - 100 * b \in 0..99 /\ y - 1 - 400 * c \in 0..399
  BY <1>1
<1>3. y \div 4 = IF y % 4 = 0 THEN a + 1 ELSE a
  BY <1>1, <1>2
<1>4. y \div 100 = IF y % 100 = 0 THEN b + 1 ELSE b
  BY <1>1, <1>2
<1>5. y \div 400 = IF y % 400 = 0 THEN c + 1 ELSE c
  BY <1>1, <1>2
<1>6. y % 400 = 0 => y % 100 = 0
  OBVIOUS
<1>7. y % 100 = 0 => y % 4 = 0
  OBVIOUS
<1>8. /\ Years(y) = 365 * y + a - b + c
      /\ Years(y + 1) = 365 * y + 365 + y \div 4 - y \div 100 + y \div 400
  BY <1>1 DEF Years
<1> QED
  BY <1>1, <1>3, <1>4, <1>5, <1>6, <1>7, <1>8 DEF YearLen, IsLeap

\* A later year does not begin before the next one.
LEMMA YearsMonotone ==
  ASSUME NEW y \in Int, NEW z \in Int, y < z
  PROVE  Years(y + 1) <= Years(z)
BY DEF Years

\* Every day is after the begin of some year and not after that of another.
LEMMA YearsReach ==
  ASSUME NEW n \in Int
  PROVE  \E a, b \in Int : a < b /\ Years(a) < n /\ n <= Years(b)
<1>1. CASE n > 0
  <2>1. Years(-1) < n /\ n <= Years(n + 2) /\ n + 2 \in Int /\ -1 < n + 2
    BY <1>1 DEF Years
  <2> QED
    BY <2>1
<1>2. CASE n <= 0
  <2>1. Years(n - 2) < n /\ n <= Years(2) /\ n - 2 \in Int /\ n - 2 < 2
    BY <1>2 DEF Years
  <2> QED
    BY <2>1
<1> QED
  BY <1>1, <1>2

\* The days of a month.
MonthLen(y, m) == IF m = 12 THEN 31 ELSE DaysBefore(y, m + 1) - DaysBefore(y, m)

\* Where the months of a year begin.
LEMMA MonthsAre ==
  ASSUME NEW y \in Int
  PROVE  \E leap \in {0, 1} :
           /\ YearLen(y) = 365 + leap
           /\ DaysBefore(y, 1) = 0 /\ DaysBefore(y, 2) = 31
           /\ DaysBefore(y, 3) = 59 + leap /\ DaysBefore(y, 4) = 90 + leap
           /\ DaysBefore(y, 5) = 120 + leap /\ DaysBefore(y, 6) = 151 + leap
           /\ DaysBefore(y, 7) = 181 + leap /\ DaysBefore(y, 8) = 212 + leap
           /\ DaysBefore(y, 9) = 243 + leap /\ DaysBefore(y, 10) = 273 + leap
           /\ DaysBefore(y, 11) = 304 + leap /\ DaysBefore(y, 12) = 334 + leap
<1>1. PICK leap \in {0, 1} : IsLeap(y) <=> leap = 1
  OBVIOUS
<1>2. /\ DaysBefore(y, 1) = 0 /\ DaysBefore(y, 2) = 31
      /\ DaysBefore(y, 3) = 59 + leap /\ DaysBefore(y, 4) = 90 + leap
  BY <1>1 DEF DaysBefore
<1>3. /\ DaysBefore(y, 5) = 120 + leap /\ DaysBefore(y, 6) = 151 + leap
      /\ DaysBefore(y, 7) = 181 + leap /\ DaysBefore(y, 8) = 212 + leap
  BY <1>1 DEF DaysBefore
<1>4. /\ DaysBefore(y, 9) = 243 + leap /\ DaysBefore(y, 10) = 273 + leap
      /\ DaysBefore(y, 11) = 304 + leap /\ DaysBefore(y, 12) = 334 + leap
  BY <1>1 DEF DaysBefore
<1> QED
  BY <1>1, <1>2, <1>3, <1>4 DEF YearLen

\* A month has 28 to 31 days; the next one begins where it ends.
LEMMA MonthBounds ==
  ASSUME NEW y \in Int, NEW m \in 1..12
  PROVE  /\ DaysBefore(y, m) \in Nat /\ MonthLen(y, m) \in Nat /\ MonthLen(y, m) \in 28..31
         /\ DaysBefore(y, m) + MonthLen(y, m) <= YearLen(y)
         /\ m < 12 => DaysBefore(y, m) + MonthLen(y, m) = DaysBefore(y, m + 1)
BY MonthsAre DEF MonthLen

\* A later month does not begin before the month ends.
LEMMA MonthsMonotone ==
  ASSUME NEW y \in Int, NEW m \in 1..12, NEW k \in 1..12, m < k
  PROVE  DaysBefore(y, m) + MonthLen(y, m) <= DaysBefore(y, k)
BY MonthsAre DEF MonthLen

\* A day of the year is in month k.
IsMonth(y, yday, k) == DaysBefore(y, k) < yday /\ (k = 12 \/ yday <= DaysBefore(y, k + 1))

\* Every day of a year is in a month.
LEMMA MonthExists ==
  ASSUME NEW y \in Int, NEW yday \in 1..YearLen(y)
  PROVE  \E k \in 1..12 : IsMonth(y, yday, k)
BY MonthsAre DEF IsMonth

\* The date of a day of the year y.
DateIn(y, yday) ==
  LET m == CHOOSE k \in 1..12 : /\ DaysBefore(y, k) < yday
                                /\ k = 12 \/ yday <= DaysBefore(y, k + 1)
  IN <<y, m, yday - DaysBefore(y, m)>>

\* The date found is that of the day.
LEMMA DateInIs ==
  ASSUME NEW y \in Int, NEW yday \in 1..YearLen(y)
  PROVE  \E m \in 1..12 : \E k \in 1..MonthLen(y, m) :
           DateIn(y, yday) = <<y, m, k>> /\ yday = DaysBefore(y, m) + k
<1>1. PICK m : m = CHOOSE k \in 1..12 : IsMonth(y, yday, k)
  OBVIOUS
<1>2. m \in 1..12 /\ IsMonth(y, yday, m)
  BY <1>1, MonthExists, Zenon
<1>3. DateIn(y, yday) = <<y, m, yday - DaysBefore(y, m)>>
  BY <1>1, Zenon DEF DateIn, IsMonth
<1>4. PICK k : k = yday - DaysBefore(y, m)
  OBVIOUS
<1>5. DaysBefore(y, m) \in Nat
  BY <1>2, MonthBounds
<1>6. k \in 1..MonthLen(y, m) /\ yday = DaysBefore(y, m) + k
  BY <1>2, <1>4, <1>5, MonthsAre DEF IsMonth, MonthLen
<1> QED
  BY <1>2, <1>3, <1>4, <1>6

\* The year a day is in, counted from the fixed day, and its date.
YearOf(n) == CHOOSE y \in Int : Years(y) < n /\ n <= Years(y + 1)
DateAt(n) == DateIn(YearOf(n), n - Years(YearOf(n)))

\* Every day is in a year.
LEMMA YearExists ==
  ASSUME NEW n \in Int
  PROVE  \E y \in Int : Years(y) < n /\ n <= Years(y + 1)
<1>1. PICK a, b \in Int : a < b /\ Years(a) < n /\ n <= Years(b)
  BY YearsReach
<1>2. PICK T : T = {k \in Nat : n <= Years(a + k + 1)}
  OBVIOUS
<1>3. b - a - 1 \in T /\ T \subseteq Nat
  <2>1. b - a - 1 \in Nat /\ a + (b - a - 1) + 1 = b
    BY <1>1
  <2> QED
    BY <1>1, <1>2, <2>1
<1>4. PICK k \in T : \A j \in T : k <= j
  BY <1>3, LeastNat
<1>5. k \in Nat /\ n <= Years(a + k + 1)
  BY <1>2
<1>6. Years(a + k) < n
  <2>1. CASE k = 0
    BY <1>1, <2>1
  <2>2. CASE k # 0
    <3>1. k - 1 \in Nat /\ k - 1 \notin T
      BY <1>4, <1>5, <2>2
    <3>2. a + (k - 1) + 1 = a + k /\ a + k \in Int
      BY <1>5
    <3>3. ~(n <= Years(a + k))
      BY <1>2, <3>1, <3>2
    <3> QED
      BY <3>2, <3>3, YearsNext
  <2> QED
    BY <2>1, <2>2
<1> QED
  BY <1>5, <1>6

\* It is in one year only.
LEMMA YearIs ==
  ASSUME NEW n \in Int, NEW y \in Int, Years(y) < n, n <= Years(y + 1)
  PROVE  YearOf(n) = y
<1>1. PICK z : z = YearOf(n)
  OBVIOUS
<1>2. z \in Int /\ Years(z) < n /\ n <= Years(z + 1)
  BY <1>1, YearExists, Zenon DEF YearOf
<1>3. /\ Years(y) \in Int /\ Years(z) \in Int
      /\ Years(y + 1) \in Int /\ Years(z + 1) \in Int
  BY <1>2, YearsNext
<1>4. ~(y < z) /\ ~(z < y)
  BY <1>2, <1>3, YearsMonotone
<1> QED
  BY <1>1, <1>2, <1>4

\* f takes the steps of DateOf.
Dates(f) ==
  f = [d \in Int \X Int |->
         IF d[2] < 1 THEN f[<<d[1] - 1, d[2] + YearLen(d[1] - 1)>>]
         ELSE IF d[2] > YearLen(d[1]) THEN f[<<d[1] + 1, d[2] - YearLen(d[1])>>]
         ELSE DateIn(d[1], d[2])]

\* There is a function that takes the steps of tnorm: the one that knows the days of a year.
LEMMA DatesExist == \E f : Dates(f)
<1>1. PICK f : f = [d \in Int \X Int |-> DateAt(Years(d[1]) + d[2])]
  OBVIOUS
<1>2. \A y \in Int, yday \in Int : f[<<y, yday>>] = DateAt(Years(y) + yday)
  BY <1>1
<1> DEFINE step(d) == IF d[2] < 1 THEN f[<<d[1] - 1, d[2] + YearLen(d[1] - 1)>>]
                      ELSE IF d[2] > YearLen(d[1]) THEN f[<<d[1] + 1, d[2] - YearLen(d[1])>>]
                      ELSE DateIn(d[1], d[2])
<1>3. ASSUME NEW d \in Int \X Int
      PROVE  f[d] = step(d)
  <2>1. PICK y, yday \in Int : d = <<y, yday>>
    OBVIOUS
  <2>2. d[1] = y /\ d[2] = yday
    BY <2>1
  <2>3. f[d] = DateAt(Years(y) + yday)
    BY <1>2, <2>1
  <2>4. Years(y) \in Int /\ YearLen(y) \in Int /\ YearLen(y - 1) \in Int
    BY YearsNext
  <2>5. CASE yday < 1
    <3>1. PICK z \in Int, e \in Int : z = y - 1 /\ e = yday + YearLen(y - 1)
      BY <2>4
    <3>2. Years(z) + e = Years(y) + yday
      BY <3>1, YearsNext
    <3>3. f[<<z, e>>] = f[d]
      BY <1>2, <2>3, <3>2
    <3> QED
      BY <2>2, <2>5, <3>1, <3>3
  <2>6. CASE ~(yday < 1) /\ yday > YearLen(y)
    <3>1. PICK z \in Int, e \in Int : z = y + 1 /\ e = yday - YearLen(y)
      BY <2>4
    <3>2. Years(z) + e = Years(y) + yday
      BY <3>1, YearsNext
    <3>3. f[<<z, e>>] = f[d]
      BY <1>2, <2>3, <3>2
    <3> QED
      BY <2>2, <2>6, <3>1, <3>3
  <2>7. CASE ~(yday < 1) /\ ~(yday > YearLen(y))
    <3>1. PICK n \in Int : n = Years(y) + yday
      BY <2>4
    <3>2. Years(y) < n /\ n <= Years(y + 1)
      BY <2>4, <2>7, <3>1, YearsNext
    <3>3. YearOf(n) = y
      BY <3>2, YearIs
    <3>4. n - Years(y) = yday
      BY <2>4, <3>1
    <3>5. DateAt(n) = DateIn(y, yday)
      BY <3>3, <3>4 DEF DateAt
    <3> QED
      BY <2>2, <2>3, <2>7, <3>1, <3>5
  <2> QED
    BY <2>5, <2>6, <2>7
<1>4. f = [d \in Int \X Int |-> f[d]]
  BY <1>1
<1>5. f = [d \in Int \X Int |-> step(d)]
  <2> HIDE DEF step
  <2> QED
    BY <1>3, <1>4
<1>6. Dates(f)
  BY <1>5 DEF Dates
<1> QED
  BY <1>6

\* So DateOf takes them, whatever day it is asked for.
LEMMA DateOfIs == Dates(DateOf)
BY DatesExist, Zenon DEF DateOf, Dates, DateIn

\* The date of a day is one of the calendar, and of that day.
Dated(y, yday) ==
  \E z \in Int, m \in 1..12 : \E k \in 1..MonthLen(z, m) :
    DateOf[<<y, yday>>] = <<z, m, k>> /\ Years(z) + DaysBefore(z, m) + k = Years(y) + yday

\* The steps: a day before the year, one after it, one in it.
LEMMA DateSteps ==
  ASSUME NEW y \in Int, NEW yday \in Int
  PROVE  /\ yday < 1 => DateOf[<<y, yday>>] = DateOf[<<y - 1, yday + YearLen(y - 1)>>]
         /\ yday > YearLen(y) /\ ~(yday < 1)
              => DateOf[<<y, yday>>] = DateOf[<<y + 1, yday - YearLen(y)>>]
         /\ yday \in 1..YearLen(y) => DateOf[<<y, yday>>] = DateIn(y, yday)
<1>1. PICK f : f = DateOf
  OBVIOUS
<1>2. Dates(f)
  BY <1>1, DateOfIs
<1> DEFINE step(d) == IF d[2] < 1 THEN f[<<d[1] - 1, d[2] + YearLen(d[1] - 1)>>]
                      ELSE IF d[2] > YearLen(d[1]) THEN f[<<d[1] + 1, d[2] - YearLen(d[1])>>]
                      ELSE DateIn(d[1], d[2])
<1>3. f = [d \in Int \X Int |-> step(d)]
  BY <1>2 DEF Dates
<1>4. PICK x : x = <<y, yday>>
  OBVIOUS
<1>5. x \in Int \X Int /\ x[1] = y /\ x[2] = yday
  BY <1>4
<1>6. f[x] = step(x)
  <2> HIDE DEF step
  <2> QED
    BY <1>3, <1>5
<1>7. YearLen(y) \in Int
  BY YearsNext
<1> QED
  BY <1>1, <1>4, <1>5, <1>6, <1>7

\* It is for a day of the year.
LEMMA DatedWithin ==
  ASSUME NEW y \in Int, NEW yday \in 1..YearLen(y)
  PROVE  Dated(y, yday)
<1>1. PICK m \in 1..12 : \E k \in 1..MonthLen(y, m) :
        DateIn(y, yday) = <<y, m, k>> /\ yday = DaysBefore(y, m) + k
  BY DateInIs
<1>2. PICK k \in 1..MonthLen(y, m) :
        DateIn(y, yday) = <<y, m, k>> /\ yday = DaysBefore(y, m) + k
  BY <1>1
<1>3. DateOf[<<y, yday>>] = <<y, m, k>>
  <2>1. yday \in Int
    BY YearsNext
  <2>2. DateOf[<<y, yday>>] = DateIn(y, yday)
    BY <2>1, DateSteps
  <2> QED
    BY <1>2, <2>2
<1>4. Years(y) + DaysBefore(y, m) + k = Years(y) + yday
  <2>1. DaysBefore(y, m) \in Nat /\ MonthLen(y, m) \in Nat
    BY MonthBounds
  <2>2. Years(y) \in Int
    BY YearsNext
  <2> QED
    BY <1>2, <2>1, <2>2
<1> QED
  BY <1>3, <1>4 DEF Dated

\* It is for a day of a later year.
LEMMA DatedLater ==
  ASSUME NEW y \in Int, NEW yday \in Nat \ {0}
  PROVE  Dated(y, yday)
<1> DEFINE Bad == {n \in Nat \ {0} : \E z \in Int : ~Dated(z, n)}
<1> SUFFICES ASSUME Bad # {} PROVE FALSE
  OBVIOUS
<1>1. PICK n \in Bad : \A k \in Bad : n <= k
  <2>1. Bad \subseteq Nat
    OBVIOUS
  <2> HIDE DEF Bad
  <2> QED
    BY <2>1, LeastNat
<1>2. PICK z \in Int : ~Dated(z, n) /\ n \in Nat /\ n # 0
  OBVIOUS
<1>3. YearLen(z) \in {365, 366}
  BY YearsNext
<1>4. CASE n <= YearLen(z)
  BY <1>2, <1>3, <1>4, DatedWithin
<1>5. CASE n > YearLen(z)
  <2>1. PICK k \in Nat : k = n - YearLen(z) /\ k # 0 /\ k < n
    BY <1>2, <1>3, <1>5
  <2>2. k \notin Bad
    BY <1>1, <1>2, <2>1
  <2>3. Dated(z + 1, k)
    BY <2>1, <2>2
  <2>4. DateOf[<<z, n>>] = DateOf[<<z + 1, k>>]
    <3>1. DateOf[<<z, n>>] = DateOf[<<z + 1, n - YearLen(z)>>]
      <4>1. n \in Int /\ ~(n < 1)
        BY <1>2
      <4> QED
        BY <1>5, <4>1, DateSteps
    <3> QED
      BY <2>1, <3>1
  <2>5. Years(z + 1) + k = Years(z) + n
    BY <1>2, <1>3, <2>1, YearsNext
  <2> QED
    BY <1>2, <2>3, <2>4, <2>5 DEF Dated
<1> QED
  BY <1>3, <1>4, <1>5

\* tnorm gives the date of every day, also when the day is before the year.
LEMMA DatedAll ==
  ASSUME NEW y \in Int, NEW yday \in Int
  PROVE  Dated(y, yday)
<1> DEFINE Bad == {n \in Nat : \E z \in Int, d \in Int : d = -n /\ ~Dated(z, d)}
<1>1. Bad = {}
  <2> SUFFICES ASSUME Bad # {} PROVE FALSE
    OBVIOUS
  <2>1. PICK n \in Bad : \A k \in Bad : n <= k
    <3>1. Bad \subseteq Nat
      OBVIOUS
    <3> HIDE DEF Bad
    <3> QED
      BY <3>1, LeastNat
  <2>2. PICK z \in Int, c \in Int : ~Dated(z, c) /\ n \in Nat /\ c = -n
    OBVIOUS
  <2>3. PICK d \in Int : d = c + YearLen(z - 1) /\ d > c
    BY <2>2, YearsNext
  <2>4. Dated(z - 1, d)
    <3>1. CASE d > 0
      BY <2>2, <3>1, DatedLater
    <3>2. CASE ~(d > 0)
      <4>1. PICK k \in Nat : d = -k /\ k < n
        <5>1. -d \in Nat /\ d = -(-d) /\ -d < n
          BY <2>2, <2>3, <3>2
        <5> QED
          BY <5>1
      <4>2. k \notin Bad
        BY <2>1, <2>2, <4>1
      <4> QED
        BY <2>2, <4>1, <4>2
    <3> QED
      BY <3>1, <3>2
  <2>5. DateOf[<<z, c>>] = DateOf[<<z - 1, d>>]
    <3>1. c < 1
      BY <2>2
    <3> QED
      BY <2>3, <3>1, DateSteps
  <2>6. Years(z - 1) + d = Years(z) + c
    BY <2>2, <2>3, YearsNext
  <2> QED
    BY <2>2, <2>4, <2>5, <2>6 DEF Dated
<1>2. CASE yday > 0
  BY <1>2, DatedLater
<1>3. CASE ~(yday > 0)
  <2>1. PICK k \in Nat : yday = -k
    <3>1. -yday \in Nat /\ yday = -(-yday)
      BY <1>3
    <3> QED
      BY <3>1
  <2> QED
    BY <1>1, <2>1
<1> QED
  BY <1>2, <1>3

\* A date and a time of day are a time.
LEMMA SixFields ==
  ASSUME NEW a \in Int, NEW b \in Int, NEW c \in Int,
         NEW d \in Int, NEW e \in Int, NEW f \in Int
  PROVE  <<a, b, c>> \o <<d, e, f>> = <<a, b, c, d, e, f>>
<1>1. PICK p, q : p = <<a, b, c>> /\ q = <<d, e, f>>
  OBVIOUS
<1>2. /\ p \in Seq(Int) /\ Len(p) = 3 /\ p[1] = a /\ p[2] = b /\ p[3] = c
      /\ q \in Seq(Int) /\ Len(q) = 3 /\ q[1] = d /\ q[2] = e /\ q[3] = f
  BY <1>1
<1> HIDE <1>1
<1>3. PICK t : t = p \o q
  OBVIOUS
<1>4. /\ t \in Seq(Int) /\ Len(t) = Len(p) + Len(q)
      /\ \A i \in 1..(Len(p) + Len(q)) : t[i] = IF i <= Len(p) THEN p[i] ELSE q[i - Len(p)]
  BY <1>2, <1>3, ConcatProperties, ZenonT(60)
<1> HIDE <1>3
<1>5. /\ Len(t) = 6 /\ t[1] = p[1] /\ t[2] = p[2] /\ t[3] = p[3]
      /\ t[4] = q[1] /\ t[5] = q[2] /\ t[6] = q[3]
  BY <1>2, <1>4
<1>6. t = <<a, b, c, d, e, f>>
  BY <1>2, <1>4, <1>5
<1> QED
  BY <1>1, <1>3, <1>6

\* What tnorm is given: the year and month its month stands for, the day it stands for.
YearAt(t) == (IF t[1] < 100 THEN t[1] + 1900 ELSE t[1]) + (t[2] - 1) \div 12
MonthAt(t) == ((t[2] - 1) % 12) + 1
DayAt(t) == Years(YearAt(t)) + DaysBefore(YearAt(t), MonthAt(t)) + t[3]
\* A time of the calendar, and its day.
InCalendar(t) ==
  /\ t \in Times /\ t[2] \in 1..12 /\ t[3] \in 1..MonthLen(t[1], t[2])
  /\ t[4] \in 0..23 /\ t[5] \in 0..59 /\ t[6] \in 0..59
DayOf(t) == Years(t[1]) + DaysBefore(t[1], t[2]) + t[3]

\* These are numbers, and the month is one of twelve.
LEMMA AtIs ==
  ASSUME NEW t \in Times
  PROVE  /\ YearAt(t) \in Int /\ MonthAt(t) \in 1..12 /\ DayAt(t) \in Int
         /\ t[1] \in Int /\ t[2] \in Int /\ t[3] \in Int
         /\ t[4] \in Int /\ t[5] \in Int /\ t[6] \in Int
<1>1. /\ t[1] \in Int /\ t[2] \in Int /\ t[3] \in Int
      /\ t[4] \in Int /\ t[5] \in Int /\ t[6] \in Int
  BY DEF Times
<1>2. YearAt(t) \in Int /\ MonthAt(t) \in 1..12
  BY <1>1 DEF YearAt, MonthAt
<1>3. DayAt(t) \in Int
  <2>1. DaysBefore(YearAt(t), MonthAt(t)) \in Nat
    BY <1>2, MonthBounds
  <2>2. Years(YearAt(t)) \in Int
    BY <1>2, YearsNext
  <2> QED
    BY <1>1, <2>1, <2>2 DEF DayAt
<1> QED
  BY <1>1, <1>2, <1>3

\* tnorm gives a time of the calendar, the day carried into being the one meant.
LEMMA TnormIs ==
  ASSUME NEW t \in Times
  PROVE  /\ InCalendar(Tnorm(t))
         /\ \E minute \in Int, hour \in Int :
              /\ minute = t[5] + t[6] \div 60 /\ hour = t[4] + minute \div 60
              /\ DayOf(Tnorm(t)) = DayAt(t) + hour \div 24
              /\ Tnorm(t)[4] = hour % 24
              /\ Tnorm(t)[5] = minute % 60 /\ Tnorm(t)[6] = t[6] % 60
<1>1. PICK minute \in Int, hour \in Int :
        minute = t[5] + t[6] \div 60 /\ hour = t[4] + minute \div 60
  BY AtIs
<1>2. PICK y \in Int, mm \in 1..12 : y = YearAt(t) /\ mm = MonthAt(t)
  BY AtIs
<1>3. PICK yday \in Int : yday = DaysBefore(y, mm) + t[3] + hour \div 24
  <2>1. DaysBefore(y, mm) \in Nat
    BY MonthBounds
  <2>2. hour \div 24 \in Int /\ t[3] \in Int
    BY AtIs
  <2>3. DaysBefore(y, mm) + t[3] + hour \div 24 \in Int
    BY <2>1, <2>2
  <2> QED
    BY <2>3
<1>4. Tnorm(t) = DateOf[<<y, yday>>] \o <<hour % 24, minute % 60, t[6] % 60>>
  <2>1. Tnorm(t) =
          DateOf[<<YearAt(t), DaysBefore(YearAt(t), MonthAt(t)) + t[3]
                     + (t[4] + (t[5] + t[6] \div 60) \div 60) \div 24>>]
          \o <<(t[4] + (t[5] + t[6] \div 60) \div 60) % 24, (t[5] + t[6] \div 60) % 60,
                t[6] % 60>>
    BY Zenon DEF Tnorm, YearAt, MonthAt
  <2> QED
    BY <1>1, <1>2, <1>3, <2>1, Zenon
<1>5. PICK z \in Int, m \in 1..12 : \E k \in 1..MonthLen(z, m) :
        DateOf[<<y, yday>>] = <<z, m, k>> /\ Years(z) + DaysBefore(z, m) + k = Years(y) + yday
  BY DatedAll DEF Dated
<1>6. PICK k \in 1..MonthLen(z, m) :
        DateOf[<<y, yday>>] = <<z, m, k>> /\ Years(z) + DaysBefore(z, m) + k = Years(y) + yday
  BY <1>5
<1>7. PICK h, n, s \in Int : h = hour % 24 /\ n = minute % 60 /\ s = t[6] % 60
  BY AtIs
<1>8. h \in 0..23 /\ n \in 0..59 /\ s \in 0..59
  BY <1>7, AtIs
<1>9. PICK T : T = Tnorm(t)
  OBVIOUS
<1>10. /\ T \in Times
       /\ T[1] = z /\ T[2] = m /\ T[3] = k /\ T[4] = h /\ T[5] = n /\ T[6] = s
  <2>1. T = <<z, m, k>> \o <<h, n, s>>
    BY <1>4, <1>6, <1>7, <1>9, Zenon
  <2>2. k \in Int /\ m \in Int
    BY MonthBounds
  <2>3. z \in Int /\ h \in Int /\ n \in Int /\ s \in Int
    OBVIOUS
  <2>4. <<z, m, k>> \o <<h, n, s>> = <<z, m, k, h, n, s>>
    BY <2>2, <2>3, SixFields
  <2>5. T = <<z, m, k, h, n, s>>
    BY <2>1, <2>4
  <2> QED
    BY <2>2, <2>3, <2>5 DEF Times
<1>11. InCalendar(T)
  BY <1>6, <1>8, <1>10 DEF InCalendar
<1>12. DayOf(T) = DayAt(t) + hour \div 24
  <2>1. DayOf(T) = Years(y) + yday
    BY <1>6, <1>10 DEF DayOf
  <2>2. Years(y) \in Int
    BY YearsNext
  <2>3. DaysBefore(y, mm) \in Nat
    BY MonthBounds
  <2>4. t[3] \in Int
    BY AtIs
  <2> QED
    BY <1>2, <1>3, <2>1, <2>2, <2>3, <2>4 DEF DayAt
<1> QED
  BY <1>1, <1>7, <1>9, <1>10, <1>11, <1>12
-----------------------------------------------------------------------------
(* The times the passes go through.                                          *)

\* The first n fields of one time and the others of another.
Spliced(a, b, n) == [i \in 1..6 |-> IF i <= n THEN a[i] ELSE b[i]]

\* The first n fields of a time.
LEMMA HeadIs ==
  ASSUME NEW t \in Times, NEW n \in 1..6
  PROVE  /\ SubSeq(t, 1, n) \in Seq(Int) /\ Len(SubSeq(t, 1, n)) = n
         /\ \A i \in 1..n : SubSeq(t, 1, n)[i] = t[i]
<1>1. \A i \in 1..n : t[i] \in Int
  BY DEF Times
<1>2. /\ SubSeq(t, 1, n) \in Seq(Int)
      /\ Len(SubSeq(t, 1, n)) = IF 1 <= n THEN n - 1 + 1 ELSE 0
      /\ \A i \in 1..(n - 1 + 1) : SubSeq(t, 1, n)[i] = t[1 + i - 1]
  BY <1>1, SubSeqProperties
<1>3. n - 1 + 1 = n /\ 1 <= n
  OBVIOUS
<1>4. Len(SubSeq(t, 1, n)) = n
  BY <1>2, <1>3
<1>5. ASSUME NEW i \in 1..n
      PROVE  SubSeq(t, 1, n)[i] = t[i]
  <2>1. 1 + i - 1 = i
    OBVIOUS
  <2>2. SubSeq(t, 1, n)[i] = t[1 + i - 1]
    BY <1>2, <1>3
  <2> QED
    BY <2>1, <2>2
<1> QED
  BY <1>2, <1>4, <1>5

\* The others.
LEMMA TailIs ==
  ASSUME NEW t \in Times, NEW n \in 1..6
  PROVE  /\ SubSeq(t, n + 1, 6) \in Seq(Int) /\ Len(SubSeq(t, n + 1, 6)) = 6 - n
         /\ \A i \in 1..(6 - n) : SubSeq(t, n + 1, 6)[i] = t[n + i]
<1>1. \A i \in (n + 1)..6 : t[i] \in Int
  BY DEF Times
<1>2. PICK k \in Int : k = n + 1
  OBVIOUS
<1>3. /\ SubSeq(t, k, 6) \in Seq(Int)
      /\ Len(SubSeq(t, k, 6)) = IF k <= 6 THEN 6 - k + 1 ELSE 0
      /\ \A i \in 1..(6 - k + 1) : SubSeq(t, k, 6)[i] = t[k + i - 1]
  BY <1>1, <1>2, SubSeqProperties
<1>4. PICK p : p = SubSeq(t, k, 6)
  OBVIOUS
<1>5. p \in Seq(Int) /\ Len(p) = 6 - n
  BY <1>2, <1>3, <1>4
<1>6. ASSUME NEW i \in 1..(6 - n)
      PROVE  p[i] = t[n + i]
  <2>1. i \in 1..(6 - k + 1) /\ k + i - 1 = n + i
    BY <1>2
  <2> QED
    BY <1>3, <1>4, <2>1
<1> QED
  BY <1>2, <1>4, <1>5, <1>6

\* The two together are a time again.
LEMMA SpliceIs ==
  ASSUME NEW a \in Times, NEW b \in Times, NEW n \in 1..6
  PROVE  /\ SubSeq(a, 1, n) \o SubSeq(b, n + 1, 6) = Spliced(a, b, n)
         /\ Spliced(a, b, n) \in Times
<1>1. PICK p, q : p = SubSeq(a, 1, n) /\ q = SubSeq(b, n + 1, 6)
  OBVIOUS
<1>2. p \in Seq(Int) /\ Len(p) = n /\ \A i \in 1..n : p[i] = a[i]
  BY <1>1, HeadIs
<1>3. q \in Seq(Int) /\ Len(q) = 6 - n /\ \A i \in 1..(6 - n) : q[i] = b[n + i]
  BY <1>1, TailIs
<1> HIDE <1>1
<1>4. PICK t : t = p \o q
  OBVIOUS
<1>5. /\ t \in Seq(Int) /\ Len(t) = Len(p) + Len(q)
      /\ \A i \in 1..(Len(p) + Len(q)) : t[i] = IF i <= Len(p) THEN p[i] ELSE q[i - Len(p)]
  BY <1>2, <1>3, <1>4, ConcatProperties, ZenonT(60)
<1> HIDE <1>4
<1>6. Len(t) = 6 /\ \A i \in 1..6 : t[i] = IF i <= n THEN p[i] ELSE q[i - n]
  <2>1. Len(p) + Len(q) = 6 /\ Len(p) = n
    BY <1>2, <1>3
  <2> QED
    BY <1>5, <2>1
<1>7. Spliced(a, b, n) \in Times
  BY DEF Spliced, Times
<1>8. ASSUME NEW i \in 1..6
      PROVE  t[i] = Spliced(a, b, n)[i]
  <2>1. CASE i <= n
    <3>1. p[i] = a[i] /\ t[i] = p[i]
      BY <1>2, <1>6, <2>1
    <3> QED
      BY <2>1, <3>1 DEF Spliced
  <2>2. CASE ~(i <= n)
    <3>1. i - n \in 1..(6 - n) /\ n + (i - n) = i
      BY <2>2
    <3>2. q[i - n] = b[i]
      BY <1>3, <3>1
    <3> QED
      BY <1>6, <2>2, <3>2 DEF Spliced
  <2> QED
    BY <2>1, <2>2
<1>9. t \in [1..6 -> Int]
  BY <1>5, <1>6, LenProperties
<1>10. t = Spliced(a, b, n)
  BY <1>7, <1>8, <1>9 DEF Times
<1> QED
  BY <1>1, <1>4, <1>7, <1>10

\* What fills up the time of a block, and what the first pass finds.
Filling == <<1, 1, 1, 0, 0, 0>>
Zeros == <<0, 0, 0, 0, 0, 0>>

\* These are times.
LEMMA FillingIs == Filling \in Times /\ Zeros \in Times
BY DEF Filling, Zeros, Times

\* The next block.
BumpedBy(n, t) == Tnorm([t EXCEPT ![n] = @ + 1])
\* The end of the range without the seconds that do not count, and that of the passes.
Trimmed(n, e) == [e EXCEPT ![6] = IF n > 4 THEN @ ELSE 0]
EndFrom(n, t, whole) ==
  Tnorm(IF \E i \in (n + 1)..6 : t[i] > 0 THEN [whole EXCEPT ![n] = @ + 1] ELSE whole)
EndOf(n, e) == EndFrom(n, Trimmed(n, e), Spliced(Trimmed(n, e), Filling, n))

\* The times of a request have six fields.
LEMMA RequestTimes ==
  ASSUME CacheAssumption, NEW r \in Requests
  PROVE  r.n \in 1..6 /\ r.beg \in Times /\ r.end \in Times /\ r.rows \subseteq Times
         /\ IsFiniteSet(r.rows)
BY DEF CacheAssumption, Times

\* The passes of timeBinFileList, said of a blocking and a time.
LEMMA PassesAre ==
  ASSUME CacheAssumption, req \in Requests, NEW t \in Times
  PROVE  /\ Restart(t) = Spliced(req.beg, t, req.n) /\ Restart(t) \in Times
         /\ Bumped(t) = BumpedBy(req.n, t) /\ Bumped(t) \in Times
         /\ InCalendar(Bumped(t))
         /\ FirstAfter = EndOf(req.n, req.end)
<1>1. req.n \in 1..6 /\ req.beg \in Times /\ req.end \in Times
  BY RequestTimes
<1>2. Restart(t) = Spliced(req.beg, t, req.n) /\ Restart(t) \in Times
  <2>1. Restart(t) = SubSeq(req.beg, 1, req.n) \o SubSeq(t, req.n + 1, 6)
    BY Zenon DEF Restart, Block
  <2>2. Restart(t) = Spliced(req.beg, t, req.n)
    BY <1>1, <2>1, SpliceIs
  <2>3. Spliced(req.beg, t, req.n) \in Times
    BY <1>1, SpliceIs
  <2> QED
    BY <2>2, <2>3
<1>3. Bumped(t) = BumpedBy(req.n, t)
  BY Zenon DEF Bumped, BumpedBy
<1>4. [t EXCEPT ![req.n] = @ + 1] \in Times
  BY <1>1 DEF Times
<1>5. InCalendar(Bumped(t))
  BY <1>3, <1>4, TnormIs DEF BumpedBy
<1>6. Bumped(t) \in Times
  BY <1>5 DEF InCalendar
<1>7. FirstAfter = EndOf(req.n, req.end)
  <2>1. PICK t1 : t1 = Trimmed(req.n, req.end)
    OBVIOUS
  <2>2. t1 \in Times
    BY <1>1, <2>1 DEF Trimmed, Times
  <2>3. SubSeq(t1, 1, req.n) \o SubSeq(Filling, req.n + 1, 6) = Spliced(t1, Filling, req.n)
    BY <1>1, <2>2, SpliceIs, FillingIs
  <2>4. FirstAfter = EndFrom(req.n, t1, SubSeq(t1, 1, req.n) \o SubSeq(Filling, req.n + 1, 6))
    BY <2>1, Zenon DEF FirstAfter, EndFrom, Trimmed, Block, Filling
  <2> QED
    BY <2>1, <2>3, <2>4, Zenon DEF EndOf
<1> QED
  BY <1>2, <1>3, <1>5, <1>6, <1>7
-----------------------------------------------------------------------------
(* Types.                                                                    *)

\* The types that depend on the calendar: the passes step from time to time.
Typing ==
  /\ req \in Requests
  /\ files \subseteq BlocksOf(req) /\ always \subseteq BlocksOf(req)
  /\ pc \in {"count", "list", "open", "read", "done", "exit", "crashed"}
  /\ cur \in Times
  /\ pdOut \in Formats \cup {NoFmt} /\ pdIn.fmt \in Formats \cup {NoFmt}
  /\ hdrs \in 0..MaxHdr /\ changes \in 0..MaxChange

\* They hold at first.
LEMMA TypingInit == ASSUME CacheAssumption PROVE Init => Typing
<1> SUFFICES ASSUME Init
             PROVE  Typing
  OBVIOUS
<1>1. /\ req \in Requests /\ files \in SUBSET BlocksOf(req) /\ always = files
      /\ pc = "count" /\ cur = Restart(<<0, 0, 0, 0, 0, 0>>)
      /\ pdOut = NoFmt /\ pdIn = [fmt |-> NoFmt, sent |-> FALSE]
      /\ hdrs = 0 /\ changes = 0
  BY DEF Init
<1>2. cur \in Times
  BY <1>1, FillingIs, PassesAre DEF Zeros
<1>3. hdrs \in 0..MaxHdr /\ changes \in 0..MaxChange
  BY <1>1 DEF CacheAssumption
<1> QED
  BY <1>1, <1>2, <1>3 DEF Typing

\* Every step keeps them.
LEMMA TypingStep == ASSUME CacheAssumption, Typing, [Next]_vars PROVE Typing'
<1>1. req' = req /\ req \in Requests
  BY RequestStays DEF Typing
<1>2. BlocksOf(req') = BlocksOf(req)
  BY <1>1
<1>3. ASSUME UNCHANGED <<files, always, changes, pdOut, pdIn, hdrs>>, cur' \in Times,
             pc' \in {"count", "list", "open", "read", "done", "exit", "crashed"}
      PROVE  Typing'
  BY <1>1, <1>2, <1>3 DEF Typing
<1>4. CASE Count \/ List
  <2>1. /\ UNCHANGED <<files, always, changes, pdOut, pdIn, hdrs, pc>> /\ cur' = Bumped(cur)
    BY <1>4 DEF Count, List, sys
  <2>2. cur' \in Times
    BY <1>1, <2>1, PassesAre DEF Typing
  <2>3. pc' \in {"count", "list", "open", "read", "done", "exit", "crashed"}
    BY <2>1 DEF Typing
  <2> QED
    BY <1>3, <2>1, <2>2, <2>3
<1>5. CASE Counted
  <2>1. /\ UNCHANGED <<files, always, changes, pdOut, pdIn, hdrs>>
        /\ pc' \in {"open", "list"} /\ cur' = Restart(cur)
    BY <1>5 DEF Counted, sys
  <2>2. cur' \in Times
    BY <1>1, <2>1, PassesAre DEF Typing
  <2> QED
    BY <1>3, <2>1, <2>2
<1>6. CASE Open
  <2>1. /\ UNCHANGED <<files, always, changes, pdOut, cur>> /\ hdrs' = 0 /\ pc' = "read"
        /\ pdIn' = [fmt |-> NoFmt, sent |-> FALSE]
    BY <1>6 DEF Open, sys
  <2>2. hdrs' \in 0..MaxHdr /\ pdIn'.fmt = NoFmt
    BY <2>1 DEF CacheAssumption
  <2> QED
    BY <1>1, <1>2, <2>1, <2>2 DEF Typing
<1>7. CASE \E f \in Formats : ReadPktHdr(f)
  <2>1. PICK f \in Formats : ReadPktHdr(f)
    BY <1>7
  <2>2. /\ UNCHANGED <<files, always, changes, cur>> /\ hdrs < MaxHdr /\ hdrs' = hdrs + 1
        /\ pdIn'.fmt = f /\ pdOut' \in {f, pdOut} /\ pc' \in {"crashed", pc}
    BY <2>1 DEF ReadPktHdr, sys
  <2>3. hdrs' \in 0..MaxHdr
    BY <2>2 DEF Typing, CacheAssumption
  <2> QED
    BY <1>1, <1>2, <2>2, <2>3 DEF Typing
<1>8. CASE Listed \/ OpenFails \/ ReadRow \/ FileEnds \/ FileBreaks \/ Finish
  <2>1. /\ UNCHANGED <<files, always, changes, pdOut, pdIn, hdrs, cur>>
        /\ pc' \in {"open", "exit", "done", pc}
    BY <1>8 DEF Listed, OpenFails, ReadRow, FileEnds, FileBreaks, Finish, sys
  <2> QED
    BY <1>3, <2>1 DEF Typing
<1>9. CASE \E b \in BlocksOf(req) : Appear(b) \/ Vanish(b)
  <2>1. /\ UNCHANGED <<pdOut, pdIn, hdrs, cur, pc>>
        /\ changes < MaxChange /\ changes' = changes + 1
        /\ files' \subseteq BlocksOf(req) /\ always' \subseteq BlocksOf(req)
    BY <1>9 DEF Appear, Vanish, rdr, Typing
  <2>2. changes' \in 0..MaxChange
    BY <2>1 DEF Typing, CacheAssumption
  <2> QED
    BY <1>1, <1>2, <2>1, <2>2 DEF Typing
<1>10. CASE UNCHANGED vars
  <2>1. UNCHANGED <<files, always, changes, pdOut, pdIn, hdrs, cur, pc>>
    BY <1>10 DEF vars, rdr, sys
  <2> QED
    BY <1>3, <2>1 DEF Typing
<1> QED
  BY <1>4, <1>5, <1>6, <1>7, <1>8, <1>9, <1>10 DEF Next

\* A time is a sequence of six fields.
LEMMA TimesAreSix ==
  ASSUME NEW t \in Times
  PROVE  Len(t) = 6 /\ t = [i \in 1..6 |-> t[i]]
<1>1. t \in Seq(Int)
  <2>1. [1..6 -> Int] \in {[1..n -> Int] : n \in Nat}
    OBVIOUS
  <2> QED
    BY <2>1, SeqDef DEF Times
<1>2. t \in [1..Len(t) -> Int] /\ Len(t) \in Nat
  BY <1>1, LenProperties
<1>3. 1..Len(t) = 1..6
  BY <1>2 DEF Times
<1>4. Len(t) = 6
  BY <1>2, <1>3
<1> QED
  BY <1>4 DEF Times

\* Types: the time the passes have come to always has six whole fields, whatever day
\* tnorm has carried it to, the names listed never outgrow the room allocated for them,
\* and what is read is one of them.
THEOREM TypesKept == Spec => []TypeOK
<1>1. Listing /\ Typing => TypeOK
  <2> SUFFICES ASSUME Listing, Typing
               PROVE  TypeOK
    OBVIOUS
  <2>1. Len(cur) = 6 /\ cur = [i \in 1..6 |-> cur[i]]
    BY TimesAreSix DEF Typing
  <2> QED
    BY <2>1 DEF TypeOK, Typing, Listing
<1>2. Init => Listing /\ Typing
  BY CacheAssumption, ListingInit, TypingInit
<1>3. Listing /\ Typing /\ [Next]_vars => Listing' /\ Typing'
  BY CacheAssumption, ListingStep, TypingStep
<1> QED
  BY <1>1, <1>2, <1>3, PTL DEF Spec
-----------------------------------------------------------------------------
(* Blocks are numbered in the order of time.                                 *)

\* A time whose fields are in range, the day in the month if n is fine enough to tell.
Fits(n, t) ==
  /\ t \in Times /\ t[2] \in 1..12 /\ t[3] \in 1..31
  /\ t[4] \in 0..23 /\ t[5] \in 0..59 /\ t[6] \in 0..59
  /\ n > 2 => t[3] \in 1..MonthLen(t[1], t[2])

\* The number of the block a time is in, from some fixed block on.
HourOf(t) == 24 * DayOf(t) + t[4]
MinuteOf(t) == 60 * HourOf(t) + t[5]
BlockNo(n, t) ==
  IF n = 1 THEN t[1] ELSE IF n = 2 THEN 12 * t[1] + t[2] ELSE IF n = 3 THEN DayOf(t)
  ELSE IF n = 4 THEN HourOf(t) ELSE IF n = 5 THEN MinuteOf(t) ELSE 60 * MinuteOf(t) + t[6]

\* A time of the calendar fits every blocking.
LEMMA CalendarFits ==
  ASSUME NEW t, InCalendar(t), NEW n
  PROVE  Fits(n, t)
<1>1. t \in Times /\ t[1] \in Int
  BY DEF InCalendar, Times
<1>2. t[2] \in 1..12 /\ t[3] \in 1..MonthLen(t[1], t[2]) /\ MonthLen(t[1], t[2]) \in 28..31
  BY <1>1, MonthBounds DEF InCalendar
<1>3. t[3] \in 1..31
  BY <1>2
<1> QED
  BY <1>1, <1>2, <1>3 DEF InCalendar, Fits

\* The fields and numbers of a time are integers.
LEMMA FieldsAre ==
  ASSUME NEW t \in Times, t[2] \in 1..12
  PROVE  /\ t[1] \in Int /\ t[3] \in Int /\ t[4] \in Int /\ t[5] \in Int /\ t[6] \in Int
         /\ Years(t[1]) \in Int /\ DaysBefore(t[1], t[2]) \in Nat /\ DayOf(t) \in Int
         /\ HourOf(t) \in Int /\ MinuteOf(t) \in Int
<1>1. /\ t[1] \in Int /\ t[3] \in Int /\ t[4] \in Int /\ t[5] \in Int /\ t[6] \in Int
  BY DEF Times
<1>2. Years(t[1]) \in Int
  BY <1>1, YearsNext
<1>3. DaysBefore(t[1], t[2]) \in Nat
  BY <1>1, MonthBounds
<1>4. DayOf(t) \in Int
  BY <1>1, <1>2, <1>3 DEF DayOf
<1>5. HourOf(t) \in Int
  BY <1>1, <1>4 DEF HourOf
<1>6. MinuteOf(t) \in Int
  BY <1>1, <1>5 DEF MinuteOf
<1> QED
  BY <1>1, <1>2, <1>3, <1>4, <1>5, <1>6

\* So is the number of its block.
LEMMA BlockNoType ==
  ASSUME NEW t \in Times, t[2] \in 1..12, NEW n \in 1..6
  PROVE  BlockNo(n, t) \in Int
BY FieldsAre DEF BlockNo

\* The last day of a month, and no day of the months until then is later.
LEMMA MonthEnds ==
  ASSUME NEW a \in Times, a[2] \in 1..12, a[3] \in 1..MonthLen(a[1], a[2]),
         NEW y \in Int, NEW m \in 1..12, 12 * a[1] + a[2] <= 12 * y + m
  PROVE  DayOf(a) <= Years(y) + DaysBefore(y, m) + MonthLen(y, m)
<1>1. /\ a[1] \in Int /\ Years(a[1]) \in Int /\ DaysBefore(a[1], a[2]) \in Nat
      /\ a[3] \in Int
  BY FieldsAre
<1>2. PICK e \in Int : e = DaysBefore(a[1], a[2]) + MonthLen(a[1], a[2])
  <2>1. MonthLen(a[1], a[2]) \in Nat
    BY <1>1, MonthBounds
  <2>2. DaysBefore(a[1], a[2]) + MonthLen(a[1], a[2]) \in Int
    BY <1>1, <2>1
  <2> QED
    BY <2>2
<1>3. DayOf(a) <= Years(a[1]) + e
  <2>1. MonthLen(a[1], a[2]) \in Nat
    BY <1>1, MonthBounds
  <2> QED
    BY <1>1, <1>2, <2>1 DEF DayOf
<1>4. Years(y) \in Int /\ DaysBefore(y, m) \in Nat /\ MonthLen(y, m) \in Nat
  <2>1. Years(y) \in Int
    BY YearsNext
  <2>2. DaysBefore(y, m) \in Nat /\ MonthLen(y, m) \in Nat
    BY MonthBounds
  <2> QED
    BY <2>1, <2>2
<1>5. CASE a[1] < y
  <2>1. e <= YearLen(a[1])
    BY <1>1, <1>2, MonthBounds
  <2>2. Years(a[1]) + YearLen(a[1]) <= Years(y) /\ YearLen(a[1]) \in Int
    BY <1>1, <1>5, YearsNext, YearsMonotone
  <2> QED
    BY <1>1, <1>2, <1>3, <1>4, <2>1, <2>2, FieldsAre
<1>6. CASE a[1] = y /\ a[2] < m
  <2>1. e <= DaysBefore(y, m)
    BY <1>1, <1>2, <1>6, MonthsMonotone
  <2> QED
    BY <1>1, <1>3, <1>4, <1>6, <2>1, FieldsAre
<1>7. CASE a[1] = y /\ a[2] = m
  BY <1>1, <1>2, <1>3, <1>4, <1>7
<1> QED
  BY <1>1, <1>5, <1>6, <1>7

\* A later date is of a later day.
LEMMA DaysIncrease ==
  ASSUME NEW a \in Times, a[2] \in 1..12, a[3] \in 1..MonthLen(a[1], a[2]),
         NEW b \in Times, b[2] \in 1..12, b[3] \in 1..MonthLen(b[1], b[2]),
         \/ 12 * a[1] + a[2] < 12 * b[1] + b[2]
         \/ a[1] = b[1] /\ a[2] = b[2] /\ a[3] < b[3]
  PROVE  DayOf(a) < DayOf(b)
<1>1. /\ a[1] \in Int /\ a[3] \in Int /\ Years(a[1]) \in Int /\ DaysBefore(a[1], a[2]) \in Nat
      /\ b[1] \in Int /\ b[3] \in Int /\ Years(b[1]) \in Int /\ DaysBefore(b[1], b[2]) \in Nat
  BY FieldsAre
<1>2. CASE a[1] = b[1] /\ a[2] = b[2] /\ a[3] < b[3]
  BY <1>1, <1>2 DEF DayOf
<1>3. CASE 12 * a[1] + a[2] < 12 * b[1] + b[2]
  <2>1. DayOf(b) = Years(b[1]) + DaysBefore(b[1], b[2]) + b[3] /\ b[3] > 0
    BY DEF DayOf
  <2>2. DayOf(a) \in Int
    BY FieldsAre
  <2>3. CASE b[2] > 1
    <3>1. PICK m \in 1..12 : m = b[2] - 1
      BY <2>3
    <3>2. DayOf(a) <= Years(b[1]) + DaysBefore(b[1], m) + MonthLen(b[1], m)
      <4>1. PICK y \in Int : y = b[1]
        BY <1>1
      <4>2. 12 * a[1] + a[2] <= 12 * y + m
        BY <1>1, <1>3, <3>1, <4>1
      <4> QED
        BY <4>1, <4>2, MonthEnds
    <3>3. m < 12 /\ m + 1 = b[2]
      BY <3>1
    <3>4. DaysBefore(b[1], m) + MonthLen(b[1], m) = DaysBefore(b[1], b[2])
      BY <1>1, <3>3, MonthBounds
    <3>5. DaysBefore(b[1], m) \in Nat /\ MonthLen(b[1], m) \in Nat
      BY <1>1, MonthBounds
    <3> QED
      BY <1>1, <2>1, <2>2, <3>2, <3>4, <3>5
  <2>4. CASE b[2] = 1
    <3>1. PICK y \in Int : y = b[1] - 1 /\ y + 1 = b[1]
      BY <1>1
    <3>2. DayOf(a) <= Years(y) + DaysBefore(y, 12) + MonthLen(y, 12)
      BY <1>1, <1>3, <2>4, <3>1, MonthEnds
    <3>3. DaysBefore(y, 12) + MonthLen(y, 12) <= YearLen(y)
          /\ DaysBefore(y, 12) \in Nat /\ MonthLen(y, 12) \in Nat
      <4>1. 12 \in 1..12
        OBVIOUS
      <4>2. DaysBefore(y, 12) + MonthLen(y, 12) <= YearLen(y)
        BY <4>1, MonthBounds
      <4>3. DaysBefore(y, 12) \in Nat
        BY <4>1, MonthBounds
      <4>4. MonthLen(y, 12) \in Nat
        BY <4>1, MonthBounds
      <4> QED
        BY <4>2, <4>3, <4>4
    <3>4. Years(b[1]) = Years(y) + YearLen(y) /\ Years(y) \in Int /\ YearLen(y) \in Int
      BY <3>1, YearsNext
    <3> QED
      BY <1>1, <2>1, <2>2, <3>2, <3>3, <3>4
  <2> QED
    BY <2>3, <2>4
<1> QED
  BY <1>2, <1>3

\* The first field in which two times differ.
LEMMA FieldsDiffer ==
  ASSUME NEW a \in Times, NEW b \in Times, NEW n \in 1..6, Before(a, b, n)
  PROVE  \/ a[1] < b[1]
         \/ n >= 2 /\ a[1] = b[1] /\ a[2] < b[2]
         \/ n >= 3 /\ a[1] = b[1] /\ a[2] = b[2] /\ a[3] < b[3]
         \/ n >= 4 /\ a[1] = b[1] /\ a[2] = b[2] /\ a[3] = b[3] /\ a[4] < b[4]
         \/ n >= 5 /\ a[1] = b[1] /\ a[2] = b[2] /\ a[3] = b[3] /\ a[4] = b[4] /\ a[5] < b[5]
         \/ /\ n = 6 /\ a[1] = b[1] /\ a[2] = b[2] /\ a[3] = b[3] /\ a[4] = b[4] /\ a[5] = b[5]
            /\ a[6] < b[6]
<1>1. PICK i \in 1..n : a[i] < b[i] /\ \A j \in 1..(i - 1) : a[j] = b[j]
  BY DEF Before
<1>2. i \in {1, 2, 3, 4, 5, 6}
  OBVIOUS
<1> QED
  BY <1>1, <1>2

\* A later block has a greater number.
LEMMA BlockNoIncreases ==
  ASSUME NEW n \in 1..6, NEW a, NEW b, Fits(n, a), Fits(n, b), Before(a, b, n)
  PROVE  BlockNo(n, a) < BlockNo(n, b)
<1>1. a \in Times /\ b \in Times /\ a[2] \in 1..12 /\ b[2] \in 1..12
  BY DEF Fits
<1>2. /\ a[1] \in Int /\ a[4] \in 0..23 /\ a[5] \in 0..59 /\ a[6] \in 0..59
      /\ b[1] \in Int /\ b[4] \in 0..23 /\ b[5] \in 0..59 /\ b[6] \in 0..59
  BY <1>1, FieldsAre DEF Fits
<1>3. DayOf(a) \in Int /\ DayOf(b) \in Int
  BY <1>1, FieldsAre
<1>4. CASE n < 3
  <2>1. a[1] < b[1] \/ (n = 2 /\ a[1] = b[1] /\ a[2] < b[2])
    BY <1>1, <1>4, FieldsDiffer
  <2> QED
    BY <1>1, <1>2, <1>4, <2>1 DEF BlockNo
<1>5. CASE n >= 3
  <2>1. a[3] \in 1..MonthLen(a[1], a[2]) /\ b[3] \in 1..MonthLen(b[1], b[2])
    BY <1>5 DEF Fits
  <2>2. CASE a[1] < b[1] \/ (a[1] = b[1] /\ a[2] < b[2])
             \/ (a[1] = b[1] /\ a[2] = b[2] /\ a[3] < b[3])
    <3>1. DayOf(a) < DayOf(b)
      BY <1>1, <1>2, <2>1, <2>2, DaysIncrease
    <3>2. HourOf(a) < HourOf(b) /\ HourOf(a) \in Int /\ HourOf(b) \in Int
      BY <1>2, <1>3, <3>1 DEF HourOf
    <3>3. MinuteOf(a) < MinuteOf(b) /\ MinuteOf(a) \in Int /\ MinuteOf(b) \in Int
      BY <1>2, <3>2 DEF MinuteOf
    <3>4. 60 * MinuteOf(a) + a[6] < 60 * MinuteOf(b) + b[6]
      BY <1>2, <3>3
    <3> QED
      BY <1>5, <3>1, <3>2, <3>3, <3>4 DEF BlockNo
  <2>3. CASE \/ n >= 4 /\ a[1] = b[1] /\ a[2] = b[2] /\ a[3] = b[3] /\ a[4] < b[4]
             \/ /\ n >= 5 /\ a[1] = b[1] /\ a[2] = b[2] /\ a[3] = b[3] /\ a[4] = b[4]
                /\ a[5] < b[5]
             \/ /\ n = 6 /\ a[1] = b[1] /\ a[2] = b[2] /\ a[3] = b[3] /\ a[4] = b[4]
                /\ a[5] = b[5] /\ a[6] < b[6]
    <3>1. DayOf(a) = DayOf(b)
      BY <2>3 DEF DayOf
    <3>2. HourOf(a) \in Int /\ HourOf(b) \in Int /\ MinuteOf(a) \in Int /\ MinuteOf(b) \in Int
      BY <1>1, FieldsAre
    <3>3. CASE n >= 4 /\ a[4] < b[4]
      <4>1. HourOf(a) < HourOf(b)
        BY <1>2, <1>3, <3>1, <3>3 DEF HourOf
      <4>2. MinuteOf(a) < MinuteOf(b)
        BY <1>2, <3>2, <4>1 DEF MinuteOf
      <4>3. 60 * MinuteOf(a) + a[6] < 60 * MinuteOf(b) + b[6]
        BY <1>2, <3>2, <4>2
      <4> QED
        BY <3>3, <4>1, <4>2, <4>3 DEF BlockNo
    <3>4. CASE n >= 5 /\ a[4] = b[4] /\ a[5] < b[5]
      <4>1. HourOf(a) = HourOf(b)
        BY <3>1, <3>4 DEF HourOf
      <4>2. MinuteOf(a) < MinuteOf(b)
        <5>1. PICK h \in Int : h = HourOf(a) /\ h = HourOf(b)
          BY <3>2, <4>1
        <5>2. MinuteOf(a) = 60 * h + a[5] /\ MinuteOf(b) = 60 * h + b[5]
          BY <5>1 DEF MinuteOf
        <5> QED
          BY <1>2, <3>4, <5>1, <5>2
      <4>3. 60 * MinuteOf(a) + a[6] < 60 * MinuteOf(b) + b[6]
        BY <1>2, <3>2, <4>2
      <4> QED
        BY <3>4, <4>2, <4>3 DEF BlockNo
    <3>5. CASE n = 6 /\ a[4] = b[4] /\ a[5] = b[5] /\ a[6] < b[6]
      <4>1. MinuteOf(a) = MinuteOf(b)
        BY <3>1, <3>5 DEF HourOf, MinuteOf
      <4>2. 60 * MinuteOf(a) + a[6] < 60 * MinuteOf(b) + b[6]
        BY <1>2, <3>2, <3>5, <4>1
      <4> QED
        BY <3>5, <4>2 DEF BlockNo
    <3> QED
      BY <2>3, <3>3, <3>4, <3>5
  <2> QED
    BY <1>1, <2>2, <2>3, FieldsDiffer
<1> QED
  BY <1>4, <1>5

\* Two times are in order unless their first n fields agree.
LEMMA BeforeEither ==
  ASSUME NEW a \in Times, NEW b \in Times, NEW n \in 1..6
  PROVE  Before(a, b, n) \/ Before(b, a, n) \/ \A i \in 1..n : a[i] = b[i]
<1> SUFFICES ASSUME NEW k \in 1..n, a[k] # b[k]
             PROVE  Before(a, b, n) \/ Before(b, a, n)
  OBVIOUS
<1>1. PICK D : D = {i \in 1..n : a[i] # b[i]}
  OBVIOUS
<1>2. D \subseteq Nat /\ D # {}
  BY <1>1
<1>3. PICK i \in D : \A j \in D : i <= j
  BY <1>2, LeastNat
<1>4. i \in 1..n /\ i \in 1..6 /\ a[i] # b[i] /\ a[i] \in Int /\ b[i] \in Int
  BY <1>1 DEF Times
<1>5. \A j \in 1..(i - 1) : a[j] = b[j]
  <2> SUFFICES ASSUME NEW j \in 1..(i - 1), a[j] # b[j]
               PROVE  FALSE
    OBVIOUS
  <2>1. j \in D /\ j < i
    BY <1>1, <1>4
  <2> QED
    BY <1>3, <1>4, <2>1
<1>6. a[i] < b[i] \/ b[i] < a[i]
  BY <1>4
<1> QED
  BY <1>4, <1>5, <1>6 DEF Before

\* If these agree the block has the same number.
LEMMA SameBlockNo ==
  ASSUME NEW n \in 1..6, NEW a, NEW b, \A i \in 1..n : a[i] = b[i]
  PROVE  BlockNo(n, a) = BlockNo(n, b)
<1>1. n \in {1, 2, 3, 4, 5, 6}
  OBVIOUS
<1>2. a[1] = b[1]
  OBVIOUS
<1>3. CASE n = 1
  BY <1>2, <1>3 DEF BlockNo
<1>4. CASE n > 1
  <2>1. a[2] = b[2]
    BY <1>4
  <2>2. CASE n = 2
    BY <1>2, <2>1, <2>2 DEF BlockNo
  <2>3. CASE n > 2
    <3>1. DayOf(a) = DayOf(b)
      <4>1. a[3] = b[3]
        BY <2>3
      <4> QED
        BY <1>2, <2>1, <4>1 DEF DayOf
    <3>2. (n > 3 => a[4] = b[4]) /\ (n > 4 => a[5] = b[5]) /\ (n > 5 => a[6] = b[6])
      OBVIOUS
    <3> QED
      BY <1>1, <2>3, <3>1, <3>2 DEF BlockNo, MinuteOf, HourOf
  <2> QED
    BY <1>4, <2>2, <2>3
<1> QED
  BY <1>3, <1>4

\* Blocks are in the order of their numbers.
LEMMA BlockNoOrders ==
  ASSUME NEW n \in 1..6, NEW a, NEW b, Fits(n, a), Fits(n, b)
  PROVE  /\ BlockNo(n, a) \in Int /\ BlockNo(n, b) \in Int
         /\ Before(a, b, n) <=> BlockNo(n, a) < BlockNo(n, b)
         /\ BlockNo(n, a) = BlockNo(n, b) => \A i \in 1..n : a[i] = b[i]
<1>1. a \in Times /\ b \in Times /\ BlockNo(n, a) \in Int /\ BlockNo(n, b) \in Int
  BY BlockNoType DEF Fits
<1>2. Before(a, b, n) \/ Before(b, a, n) \/ \A i \in 1..n : a[i] = b[i]
  BY <1>1, BeforeEither
<1>3. Before(a, b, n) => BlockNo(n, a) < BlockNo(n, b)
  BY BlockNoIncreases
<1>4. Before(b, a, n) => BlockNo(n, b) < BlockNo(n, a)
  BY BlockNoIncreases
<1>5. (\A i \in 1..n : a[i] = b[i]) => BlockNo(n, a) = BlockNo(n, b)
  BY SameBlockNo
<1>6. PICK x, y \in Int : x = BlockNo(n, a) /\ y = BlockNo(n, b)
  BY <1>1
<1> HIDE DEF BlockNo
<1> QED
  BY <1>1, <1>2, <1>3, <1>4, <1>5
-----------------------------------------------------------------------------
(* The number of the next block.                                             *)

\* The fields after the n-th are in range.
RestInRange(n, t) ==
  /\ n < 4 => t[4] \in 0..23
  /\ n < 5 => t[5] \in 0..59
  /\ n < 6 => t[6] \in 0..59

\* A time whose year has all its digits is that of the day it stands for.
LEMMA DayStays ==
  ASSUME NEW t \in Times, t[1] >= 100, t[2] \in 1..12
  PROVE  DayAt(t) = DayOf(t)
<1>1. t[1] \in Int
  BY FieldsAre
<1>2. (t[2] - 1) \div 12 = 0 /\ (t[2] - 1) % 12 = t[2] - 1
  OBVIOUS
<1>3. YearAt(t) = t[1] /\ MonthAt(t) = t[2]
  BY <1>1, <1>2 DEF YearAt, MonthAt
<1> QED
  BY <1>3 DEF DayAt, DayOf

\* tnorm keeps the block, whatever the field it is named by has grown to.
LEMMA TnormKeepsBlock ==
  ASSUME NEW n \in 3..6, NEW t \in Times, t[1] >= 100, t[2] \in 1..12, RestInRange(n, t)
  PROVE  BlockNo(n, Tnorm(t)) = BlockNo(n, t)
<1>1. PICK T : T = Tnorm(t)
  OBVIOUS
<1>2. PICK minute \in Int, hour \in Int :
        /\ minute = t[5] + t[6] \div 60 /\ hour = t[4] + minute \div 60
        /\ DayOf(T) = DayAt(t) + hour \div 24
        /\ T[4] = hour % 24 /\ T[5] = minute % 60 /\ T[6] = t[6] % 60
  BY <1>1, TnormIs, Zenon
<1> HIDE <1>1
<1>3. DayOf(T) = DayOf(t) + hour \div 24
  BY <1>2, DayStays
<1>4. DayOf(t) \in Int /\ t[4] \in Int /\ t[5] \in Int /\ t[6] \in Int
  BY FieldsAre
<1>5. n \in {3, 4, 5, 6}
  OBVIOUS
<1>6. PICK q, r \in Int : q = hour \div 24 /\ r = hour % 24 /\ hour = 24 * q + r
  OBVIOUS
<1>7. HourOf(T) = 24 * DayOf(t) + hour
  BY <1>2, <1>3, <1>4, <1>6 DEF HourOf
<1>8. PICK a, b \in Int : a = minute \div 60 /\ b = minute % 60 /\ minute = 60 * a + b
  OBVIOUS
<1>9. HourOf(t) \in Int /\ HourOf(T) = HourOf(t) + a
  BY <1>2, <1>4, <1>7, <1>8 DEF HourOf
<1>10. MinuteOf(T) = 60 * HourOf(t) + minute
  BY <1>2, <1>8, <1>9 DEF MinuteOf
<1>11. PICK c, d \in Int : c = t[6] \div 60 /\ d = t[6] % 60 /\ t[6] = 60 * c + d
  BY <1>4
<1>12. MinuteOf(t) \in Int /\ MinuteOf(T) = MinuteOf(t) + c
  BY <1>2, <1>4, <1>9, <1>10, <1>11 DEF MinuteOf
<1>13. 60 * MinuteOf(T) + T[6] = 60 * MinuteOf(t) + t[6]
  <2>1. T[6] = d
    BY <1>2, <1>11
  <2>2. PICK x \in Int : x = MinuteOf(t)
    BY <1>12
  <2>3. MinuteOf(T) = x + c
    BY <1>12, <2>2
  <2>4. t[6] = 60 * c + d
    BY <1>11
  <2>5. 60 * (x + c) + d = 60 * x + (60 * c + d)
    OBVIOUS
  <2> QED
    BY <2>1, <2>2, <2>3, <2>4, <2>5
<1>14. n < 6 => c = 0
  BY <1>11 DEF RestInRange
<1>15. n < 5 => a = 0
  <2> SUFFICES ASSUME n < 5
               PROVE  a = 0
    OBVIOUS
  <2>1. minute = t[5] + c /\ c = 0
    BY <1>2, <1>11, <1>14
  <2>2. minute \in 0..59
    BY <2>1 DEF RestInRange
  <2> QED
    BY <1>8, <2>2
<1>16. n < 4 => q = 0
  <2> SUFFICES ASSUME n < 4
               PROVE  q = 0
    OBVIOUS
  <2>1. hour = t[4] + a /\ a = 0
    BY <1>2, <1>8, <1>15
  <2>2. hour \in 0..23
    BY <2>1 DEF RestInRange
  <2> QED
    BY <1>6, <2>2
<1>17. BlockNo(n, T) = BlockNo(n, t)
  <2>1. CASE n = 3
    BY <1>3, <1>4, <1>6, <1>16, <2>1 DEF BlockNo
  <2>2. CASE n = 4
    BY <1>9, <1>15, <2>2 DEF BlockNo
  <2>3. CASE n = 5
    BY <1>12, <1>14, <2>3 DEF BlockNo
  <2>4. CASE n = 6
    BY <1>13, <2>4 DEF BlockNo
  <2> QED
    BY <1>5, <2>1, <2>2, <2>3, <2>4
<1> QED
  BY <1>1, <1>17

\* And the year of a time whose other fields are in range.
LEMMA YearFound ==
  ASSUME NEW t, InCalendar(t), NEW y \in Int, Years(y) < DayOf(t), DayOf(t) <= Years(y + 1)
  PROVE  t[1] = y
<1>1. t \in Times /\ t[2] \in 1..12
  BY DEF InCalendar
<1>2. t[1] \in Int /\ Years(t[1]) \in Int /\ DaysBefore(t[1], t[2]) \in Nat
  BY <1>1, FieldsAre
<1>3. MonthLen(t[1], t[2]) \in Nat /\ DaysBefore(t[1], t[2]) + MonthLen(t[1], t[2]) <= YearLen(t[1])
  BY <1>1, <1>2, MonthBounds
<1>4. t[3] \in 1..MonthLen(t[1], t[2])
  BY DEF InCalendar
<1>5. Years(t[1] + 1) = Years(t[1]) + YearLen(t[1]) /\ YearLen(t[1]) \in Int
  BY <1>2, YearsNext
<1>6. Years(t[1]) < DayOf(t) /\ DayOf(t) <= Years(t[1] + 1)
  BY <1>2, <1>3, <1>4, <1>5 DEF DayOf
<1>7. YearOf(DayOf(t)) = t[1] /\ YearOf(DayOf(t)) = y
  <2>1. DayOf(t) \in Int
    BY <1>1, FieldsAre
  <2>2. YearOf(DayOf(t)) = t[1]
    BY <1>2, <1>6, <2>1, YearIs
  <2>3. YearOf(DayOf(t)) = y
    BY <2>1, YearIs
  <2> QED
    BY <2>2, <2>3
<1> QED
  BY <1>7

\* tnorm keeps the year of a time that fits blocks of a year.
LEMMA TnormKeepsYear ==
  ASSUME NEW t, Fits(1, t), t[1] >= 100
  PROVE  Tnorm(t)[1] = t[1]
<1>1. t \in Times /\ t[2] \in 1..12 /\ t[3] \in 1..31
  BY DEF Fits
<1>2. t[1] \in Int /\ Years(t[1]) \in Int /\ DaysBefore(t[1], t[2]) \in Nat /\ DayOf(t) \in Int
  BY <1>1, FieldsAre
<1>3. PICK minute \in Int, hour \in Int :
        /\ minute = t[5] + t[6] \div 60 /\ hour = t[4] + minute \div 60
        /\ DayOf(Tnorm(t)) = DayAt(t) + hour \div 24
  BY <1>1, TnormIs
<1>4. minute \in 0..59 /\ hour \in 0..23
  <2>1. t[6] \in 0..59 /\ t[6] \div 60 = 0
    BY DEF Fits
  <2>2. minute \in 0..59 /\ minute \div 60 = 0
    <3>1. minute = t[5] /\ t[5] \in 0..59
      BY <1>3, <2>1 DEF Fits
    <3> QED
      BY <3>1
  <2>3. hour = t[4] /\ t[4] \in 0..23
    <3>1. hour = t[4] + minute \div 60
      BY <1>3
    <3>2. t[4] \in 0..23
      BY DEF Fits
    <3> QED
      BY <2>2, <3>1, <3>2
  <2> QED
    BY <2>2, <2>3
<1>5. DayOf(Tnorm(t)) = DayOf(t)
  BY <1>1, <1>2, <1>3, <1>4, DayStays
<1>6. DaysBefore(t[1], t[2]) + 31 <= YearLen(t[1])
  BY <1>1, <1>2, MonthsAre
<1>7. Years(t[1] + 1) = Years(t[1]) + YearLen(t[1]) /\ YearLen(t[1]) \in Int
  BY <1>2, YearsNext
<1>8. Years(t[1]) < DayOf(t) /\ DayOf(t) <= Years(t[1] + 1)
  BY <1>1, <1>2, <1>6, <1>7 DEF DayOf
<1>9. PICK T : T = Tnorm(t)
  OBVIOUS
<1>10. InCalendar(T) /\ DayOf(T) = DayOf(t)
  BY <1>1, <1>5, <1>9, TnormIs
<1>11. T[1] = t[1]
  BY <1>2, <1>8, <1>10, YearFound
<1> QED
  BY <1>9, <1>11

\* The first pass over blocks of a year begins at day 0 of month 0 and stays there once.
LEMMA YearWaits ==
  ASSUME NEW t \in Times, t[1] >= 100, \A i \in 2..6 : t[i] = 0
  PROVE  BumpedBy(1, t)[1] = t[1]
<1>1. PICK e : e = [t EXCEPT ![1] = @ + 1]
  OBVIOUS
<1>2. t[1] \in Int
  BY DEF Times
<1>3. /\ e \in Times /\ e[1] = t[1] + 1 /\ e[2] = 0 /\ e[3] = 0 /\ e[4] = 0 /\ e[5] = 0
      /\ e[6] = 0
  BY <1>1, <1>2 DEF Times
<1>4. BumpedBy(1, t) = Tnorm(e)
  BY <1>1 DEF BumpedBy
<1>5. PICK T : T = Tnorm(e)
  OBVIOUS
<1>6. PICK minute \in Int, hour \in Int :
        /\ minute = e[5] + e[6] \div 60 /\ hour = e[4] + minute \div 60
        /\ DayOf(T) = DayAt(e) + hour \div 24
  BY <1>3, <1>5, TnormIs, Zenon
<1>7. InCalendar(T)
  BY <1>3, <1>5, TnormIs
<1> HIDE <1>5
<1>8. YearAt(e) = t[1] /\ MonthAt(e) = 12
  <2>1. e[2] - 1 = 0 - 1 /\ (e[2] - 1) \div 12 = 0 - 1 /\ (e[2] - 1) % 12 = 11
    <3>1. PICK x \in Int : x = e[2] - 1
      BY <1>3
    <3>2. x + 1 = 0
      BY <1>3, <3>1
    <3>3. x \div 12 = 0 - 1 /\ x % 12 = 11
      BY <3>2
    <3> QED
      BY <1>3, <3>1, <3>3
  <2>2. e[1] = t[1] + 1 /\ ~(e[1] < 100)
    BY <1>2, <1>3
  <2>3. YearAt(e) = (t[1] + 1) + (0 - 1)
    BY <2>1, <2>2 DEF YearAt
  <2>4. MonthAt(e) = 12
    BY <2>1 DEF MonthAt
  <2> QED
    BY <1>2, <2>3, <2>4
<1>9. hour \div 24 = 0
  BY <1>3, <1>6
<1>10. PICK leap \in {0, 1} : DaysBefore(t[1], 12) = 334 + leap /\ YearLen(t[1]) = 365 + leap
  BY <1>2, MonthsAre
<1>11. Years(t[1]) \in Int /\ Years(t[1] + 1) = Years(t[1]) + YearLen(t[1])
  BY <1>2, YearsNext
<1>12. DayAt(e) = Years(t[1]) + 334 + leap
  BY <1>3, <1>8, <1>10, <1>11 DEF DayAt
<1>13. DayOf(T) = Years(t[1]) + 334 + leap
  BY <1>6, <1>9, <1>11, <1>12
<1>14. Years(t[1]) < DayOf(T) /\ DayOf(T) <= Years(t[1] + 1)
  BY <1>10, <1>11, <1>13
<1>15. T[1] = t[1]
  BY <1>2, <1>7, <1>14, YearFound
<1> QED
  BY <1>4, <1>5, <1>15

\* The number of a block goes up by one with the field it is named by.
LEMMA FieldBumped ==
  ASSUME NEW n \in 1..6, NEW t, Fits(n, t), t[1] >= 100, NEW e, e = [t EXCEPT ![n] = @ + 1]
  PROVE  /\ e \in Times /\ e[1] >= 100
         /\ n # 2 => e[2] \in 1..12 /\ RestInRange(n, e) /\ BlockNo(n, e) = BlockNo(n, t) + 1
         /\ n = 1 => Fits(1, e)
<1>1. t \in Times /\ t[2] \in 1..12
  BY DEF Fits
<1>2. /\ t[1] \in Int /\ t[2] \in Int /\ t[3] \in Int /\ t[4] \in Int /\ t[5] \in Int
      /\ t[6] \in Int /\ DayOf(t) \in Int /\ HourOf(t) \in Int /\ MinuteOf(t) \in Int
      /\ Years(t[1]) \in Int /\ DaysBefore(t[1], t[2]) \in Nat
  BY <1>1, FieldsAre
<1>3. t[n] \in Int
  BY <1>1 DEF Times
<1>4. /\ e \in Times /\ \A i \in 1..6 : i # n => e[i] = t[i]
      /\ e[n] = t[n] + 1
  BY <1>1, <1>3 DEF Times
<1>5. e[1] >= 100
  BY <1>2, <1>4
<1>6. n \in {1, 2, 3, 4, 5, 6}
  OBVIOUS
<1>7. n # 2 => e[2] \in 1..12
  BY <1>1, <1>4
<1>8. RestInRange(n, e)
  BY <1>4 DEF RestInRange, Fits
<1>9. n = 1 => Fits(1, e)
  BY <1>4 DEF Fits
<1>10. CASE n = 1
  BY <1>4, <1>5, <1>7, <1>8, <1>9, <1>10 DEF BlockNo
<1>11. CASE n = 2
  BY <1>4, <1>5, <1>11
<1>12. CASE n = 3
  <2>1. DayOf(e) = DayOf(t) + 1
    BY <1>2, <1>4, <1>12 DEF DayOf
  <2> QED
    BY <1>4, <1>5, <1>7, <1>8, <1>12, <2>1 DEF BlockNo
<1>13. CASE n > 3
  <2>1. DayOf(e) = DayOf(t)
    BY <1>4, <1>13 DEF DayOf
  <2>2. CASE n = 4
    <3>1. HourOf(e) = HourOf(t) + 1
      BY <1>2, <1>4, <2>1, <2>2 DEF HourOf
    <3> QED
      BY <1>4, <1>5, <1>7, <1>8, <2>2, <3>1 DEF BlockNo
  <2>3. CASE n > 4
    <3>1. HourOf(e) = HourOf(t)
      BY <1>4, <2>1, <2>3 DEF HourOf
    <3>2. CASE n = 5
      <4>1. MinuteOf(e) = MinuteOf(t) + 1
        BY <1>2, <1>4, <3>1, <3>2 DEF MinuteOf
      <4> QED
        BY <1>4, <1>5, <1>7, <1>8, <3>2, <4>1 DEF BlockNo
    <3>3. CASE n = 6
      <4>1. MinuteOf(e) = MinuteOf(t)
        BY <1>4, <3>1, <3>3 DEF MinuteOf
      <4>2. 60 * MinuteOf(e) + e[6] = (60 * MinuteOf(t) + t[6]) + 1
        BY <1>2, <1>4, <3>3, <4>1
      <4> QED
        BY <1>4, <1>5, <1>7, <1>8, <3>3, <4>2 DEF BlockNo
    <3> QED
      BY <2>3, <3>2, <3>3
  <2> QED
    BY <1>13, <2>2, <2>3
<1> QED
  BY <1>6, <1>10, <1>11, <1>12, <1>13

\* A month later is another month, if it is only counted from a day there is.
LEMMA MonthBumped ==
  ASSUME NEW t, Fits(2, t), t[1] >= 100
  PROVE  BlockNo(2, t) < BlockNo(2, BumpedBy(2, t))
<1>1. PICK e : e = [t EXCEPT ![2] = @ + 1]
  OBVIOUS
<1>2. t \in Times /\ t[2] \in 1..12 /\ t[3] \in 1..31
  BY DEF Fits
<1>3. t[1] \in Int /\ Years(t[1]) \in Int
  BY <1>2, FieldsAre
<1>4. /\ e \in Times /\ e[1] = t[1] /\ e[2] = t[2] + 1 /\ e[3] = t[3] /\ e[4] = t[4]
      /\ e[5] = t[5] /\ e[6] = t[6]
  BY <1>1, <1>2 DEF Times
<1>5. BumpedBy(2, t) = Tnorm(e)
  BY <1>1 DEF BumpedBy
<1>6. PICK T : T = Tnorm(e)
  OBVIOUS
<1>7. PICK minute \in Int, hour \in Int :
        /\ minute = e[5] + e[6] \div 60 /\ hour = e[4] + minute \div 60
        /\ DayOf(T) = DayAt(e) + hour \div 24
  BY <1>4, <1>6, TnormIs, Zenon
<1>8. InCalendar(T)
  BY <1>4, <1>6, TnormIs
<1> HIDE <1>6
<1>9. hour \div 24 = 0
  <2>1. e[6] \in 0..59 /\ e[6] \div 60 = 0 /\ e[5] \in 0..59 /\ e[4] \in 0..23
    BY <1>4 DEF Fits
  <2>2. minute = e[5] /\ minute \div 60 = 0
    BY <1>7, <2>1
  <2>3. hour = e[4]
    <3>1. hour = e[4] + minute \div 60
      BY <1>7
    <3> QED
      BY <2>1, <2>2, <3>1
  <2> QED
    BY <2>1, <2>3
<1>10. /\ DaysBefore(t[1], t[2]) \in Nat /\ MonthLen(t[1], t[2]) \in Nat
       /\ DaysBefore(t[1], t[2]) + MonthLen(t[1], t[2]) <= YearLen(t[1])
  BY <1>2, <1>3, MonthBounds
<1>11. PICK last \in Int : last = Years(t[1]) + DaysBefore(t[1], t[2]) + MonthLen(t[1], t[2])
  <2>1. Years(t[1]) + DaysBefore(t[1], t[2]) + MonthLen(t[1], t[2]) \in Int
    BY <1>3, <1>10
  <2> QED
    BY <2>1
<1>12. DayAt(e) = last + t[3]
  <2>1. CASE t[2] < 12
    <3>1. YearAt(e) = t[1] /\ MonthAt(e) = t[2] + 1
      <4>1. e[2] - 1 = t[2] /\ t[2] \div 12 = 0 /\ t[2] % 12 = t[2]
        BY <1>2, <1>4, <2>1
      <4> QED
        BY <1>3, <1>4, <4>1 DEF YearAt, MonthAt
    <3>2. DaysBefore(t[1], t[2] + 1) = DaysBefore(t[1], t[2]) + MonthLen(t[1], t[2])
      BY <1>2, <1>3, <2>1, MonthBounds
    <3> QED
      BY <1>2, <1>3, <1>4, <1>10, <1>11, <3>1, <3>2 DEF DayAt
  <2>2. CASE t[2] = 12
    <3>1. YearAt(e) = t[1] + 1 /\ MonthAt(e) = 1
      <4>1. e[2] - 1 = 12 /\ 12 \div 12 = 1 /\ 12 % 12 = 0
        BY <1>4, <2>2
      <4> QED
        BY <1>3, <1>4, <4>1 DEF YearAt, MonthAt
    <3>2. DaysBefore(t[1] + 1, 1) = 0
      BY <1>3, MonthsAre
    <3>3. Years(t[1] + 1) = Years(t[1]) + YearLen(t[1]) /\ YearLen(t[1]) \in Int
      BY <1>3, YearsNext
    <3>4. DaysBefore(t[1], 12) + MonthLen(t[1], 12) = YearLen(t[1])
      BY <1>3, MonthsAre DEF MonthLen
    <3> QED
      BY <1>2, <1>3, <1>4, <1>10, <1>11, <2>2, <3>1, <3>2, <3>3, <3>4 DEF DayAt
  <2> QED
    BY <1>2, <2>1, <2>2
<1>13. DayOf(T) > last
  BY <1>2, <1>7, <1>9, <1>11, <1>12
<1>14. T \in Times /\ T[1] \in Int /\ T[2] \in 1..12 /\ T[3] \in 1..MonthLen(T[1], T[2])
  BY <1>8 DEF InCalendar, Times
<1>15. ~(12 * T[1] + T[2] <= 12 * t[1] + t[2])
  <2> SUFFICES ASSUME 12 * T[1] + T[2] <= 12 * t[1] + t[2]
               PROVE  FALSE
    OBVIOUS
  <2>1. DayOf(T) <= last
    BY <1>2, <1>3, <1>11, <1>14, MonthEnds
  <2>2. DayOf(T) \in Int
    BY <1>14, FieldsAre
  <2> QED
    BY <1>11, <1>13, <2>1, <2>2
<1>16. BlockNo(2, t) < BlockNo(2, T)
  BY <1>2, <1>3, <1>14, <1>15 DEF BlockNo
<1> QED
  BY <1>5, <1>6, <1>16

\* Each step of the passes goes on to a later block, and to the next one unless the
\* blocks are months.
LEMMA PassesGoOn ==
  ASSUME NEW n \in 1..6, NEW t, Fits(n, t), t[1] >= 100, NEW T, T = BumpedBy(n, t)
  PROVE  /\ Fits(n, T) /\ T[1] >= 100
         /\ BlockNo(n, t) < BlockNo(n, T)
         /\ n # 2 => BlockNo(n, T) = BlockNo(n, t) + 1
<1>1. PICK e : e = [t EXCEPT ![n] = @ + 1]
  OBVIOUS
<1>2. T = Tnorm(e)
  BY <1>1 DEF BumpedBy
<1>3. /\ e \in Times /\ e[1] >= 100
      /\ n # 2 => e[2] \in 1..12 /\ RestInRange(n, e) /\ BlockNo(n, e) = BlockNo(n, t) + 1
      /\ n = 1 => Fits(1, e)
  BY <1>1, FieldBumped
<1>4. InCalendar(T) /\ T \in Times /\ T[1] \in Int /\ Fits(n, T)
  <2>1. InCalendar(T)
    BY <1>2, <1>3, TnormIs
  <2> QED
    BY <2>1, CalendarFits DEF InCalendar, Times
<1>5. t \in Times /\ t[2] \in 1..12 /\ t[1] \in Int /\ BlockNo(n, t) \in Int
  BY FieldsAre, BlockNoType DEF Fits
<1>6. n # 2 => BlockNo(n, T) = BlockNo(n, t) + 1
  <2>1. CASE n = 1
    <3>1. T[1] = e[1]
      BY <1>2, <1>3, <2>1, TnormKeepsYear
    <3> QED
      BY <1>3, <2>1, <3>1 DEF BlockNo
  <2>2. CASE n \in 3..6
    <3>1. BlockNo(n, Tnorm(e)) = BlockNo(n, e)
      BY <1>3, <2>2, TnormKeepsBlock
    <3> QED
      BY <1>2, <1>3, <2>2, <3>1
  <2> QED
    BY <2>1, <2>2
<1>7. BlockNo(n, t) < BlockNo(n, T)
  <2>1. CASE n = 2
    <3>1. T = BumpedBy(2, t) /\ Fits(2, t)
      BY <2>1
    <3> QED
      BY <2>1, <3>1, MonthBumped
  <2>2. CASE n # 2
    BY <1>5, <1>6, <2>2
  <2> QED
    BY <2>1, <2>2
<1>8. Before(t, T, n)
  BY <1>4, <1>7, BlockNoOrders
<1>9. t[1] <= T[1]
  BY <1>4, <1>5, <1>8, FieldsDiffer
<1> QED
  BY <1>4, <1>5, <1>6, <1>7, <1>9
-----------------------------------------------------------------------------
(* The files are listed in the order of time.                                *)

\* The times asked for are times of the calendar; tnorm takes a year of two digits for
\* one of the last century.
RealTime(t) == InCalendar(t) /\ t[1] >= 100
RealBegins == \A r \in Requests : RealTime(r.beg)

\* The first n fields are numbers.
Numbers(b, n) == \A j \in 1..n : b[j] \in Int
InOrder(s, n) == \A i, j \in 1..Len(s) : i < j => Before(s[i], s[j], n)
Behind(s, t, n) == \A i \in 1..Len(s) : Before(s[i], t, n)

\* The order of the first n fields is transitive.
LEMMA BeforeChain ==
  ASSUME NEW n \in 1..6, NEW a, NEW b, NEW c, Numbers(a, n), Numbers(b, n), Numbers(c, n),
         Before(a, b, n), Before(b, c, n)
  PROVE  Before(a, c, n)
<1>1. PICK i \in 1..n : a[i] < b[i] /\ \A j \in 1..(i - 1) : a[j] = b[j]
  BY DEF Before
<1>2. PICK k \in 1..n : b[k] < c[k] /\ \A j \in 1..(k - 1) : b[j] = c[j]
  BY DEF Before
<1>3. \A j \in 1..n : a[j] \in Int /\ b[j] \in Int /\ c[j] \in Int
  BY DEF Numbers
<1>4. CASE i <= k
  <2>1. a[i] < c[i] /\ \A j \in 1..(i - 1) : a[j] = c[j]
    BY <1>1, <1>2, <1>3, <1>4
  <2> QED
    BY <2>1 DEF Before
<1>5. CASE k < i
  <2>1. a[k] < c[k] /\ \A j \in 1..(k - 1) : a[j] = c[j]
    BY <1>1, <1>2, <1>3, <1>5
  <2> QED
    BY <2>1 DEF Before
<1> QED
  BY <1>4, <1>5

\* It depends on these fields only.
LEMMA BeforeSame ==
  ASSUME NEW n \in 1..6, NEW a, NEW b, NEW c, NEW d,
         \A j \in 1..n : a[j] = b[j] /\ c[j] = d[j], Before(a, c, n)
  PROVE  Before(b, d, n)
<1>1. PICK i \in 1..n : a[i] < c[i] /\ \A j \in 1..(i - 1) : a[j] = c[j]
  BY DEF Before
<1>2. b[i] < d[i] /\ \A j \in 1..(i - 1) : b[j] = d[j]
  BY <1>1
<1> QED
  BY <1>2 DEF Before

\* Rows of a block come before those of a later one.
LEMMA BlocksOrderRows ==
  ASSUME NEW n \in 1..6, NEW a \in Times, NEW b \in Times,
         Before(SubSeq(a, 1, n), SubSeq(b, 1, n), n)
  PROVE  Before(a, b, 6)
<1>1. \A j \in 1..n : SubSeq(a, 1, n)[j] = a[j] /\ SubSeq(b, 1, n)[j] = b[j]
  BY HeadIs
<1>2. Before(a, b, n)
  <2>1. PICK p, q : p = SubSeq(a, 1, n) /\ q = SubSeq(b, 1, n)
    OBVIOUS
  <2>2. \A j \in 1..n : p[j] = a[j] /\ q[j] = b[j]
    BY <1>1, <2>1
  <2>3. Before(p, q, n)
    BY <2>1
  <2> HIDE <2>1
  <2> QED
    BY <2>2, <2>3, BeforeSame
<1>3. PICK i \in 1..n : a[i] < b[i] /\ \A j \in 1..(i - 1) : a[j] = b[j]
  BY <1>2 DEF Before
<1> QED
  BY <1>3 DEF Before

\* The fields of a time are numbers.
LEMMA TimesAreNumbers ==
  ASSUME NEW t \in Times, NEW n \in 1..6
  PROVE  Numbers(t, n)
BY DEF Numbers, Times

\* The second pass starts with the fields the first has left behind.
LEMMA RestartFits ==
  ASSUME NEW n \in 1..6, NEW b, RealTime(b), NEW c, InCalendar(c)
  PROVE  Fits(n, Spliced(b, c, n)) /\ Spliced(b, c, n)[1] >= 100
<1>1. Fits(1, b) /\ Fits(1, c) /\ b \in Times /\ c \in Times
  BY CalendarFits DEF RealTime, InCalendar
<1>2. PICK t : t = Spliced(b, c, n)
  OBVIOUS
<1>3. t \in Times /\ \A i \in 1..6 : t[i] = IF i <= n THEN b[i] ELSE c[i]
  BY <1>1, <1>2 DEF Spliced, Times
<1>4. t[1] = b[1]
  BY <1>3
<1>5. t[2] \in 1..12 /\ t[3] \in 1..31
  BY <1>1, <1>3 DEF Fits
<1>6. t[4] \in 0..23 /\ t[5] \in 0..59 /\ t[6] \in 0..59
  BY <1>1, <1>3 DEF Fits
<1>7. n > 2 => t[3] \in 1..MonthLen(t[1], t[2])
  <2> SUFFICES ASSUME n > 2
               PROVE  t[3] \in 1..MonthLen(t[1], t[2])
    OBVIOUS
  <2>1. t[1] = b[1] /\ t[2] = b[2] /\ t[3] = b[3]
    BY <1>3
  <2> QED
    BY <2>1 DEF RealTime, InCalendar
<1>8. Fits(n, t) /\ t[1] >= 100
  BY <1>3, <1>4, <1>5, <1>6, <1>7 DEF Fits, RealTime
<1> QED
  BY <1>2, <1>8

\* The second pass goes through times of the calendar, later than all those listed,
\* and lists the blocks in their order.
Passing ==
  /\ pc = "count" => list = <<>>
  /\ pc = "count" /\ uMax # 0 => InCalendar(cur)
  /\ pc = "list" => Fits(req.n, cur) /\ cur[1] >= 100
  /\ \A i \in 1..Len(list) : Numbers(list[i], req.n)
  /\ InOrder(list, req.n)
  /\ pc = "list" => Behind(list, cur, req.n)

\* Nothing is listed at first.
LEMMA PassingInit == Init => Passing
<1> SUFFICES ASSUME Init
             PROVE  Passing
  OBVIOUS
<1>1. pc = "count" /\ uMax = 0 /\ list = <<>>
  BY DEF Init
<1> QED
  BY <1>1 DEF Passing, InOrder

\* A block is listed, and the pass goes on.
LEMMA ListPasses ==
  ASSUME CacheAssumption, Listing, Typing, Passing, List, req' = req
  PROVE  Passing'
<1>1. /\ pc = "list" /\ pc' = "list" /\ cur' = Bumped(cur)
      /\ list' = IF Block(cur) \in files THEN Append(list, Block(cur)) ELSE list
  BY DEF List
<1>2. PICK n \in 1..6 : n = req.n
  BY RequestTimes DEF Typing
<1>3. PICK T : T = Bumped(cur)
  OBVIOUS
<1>4. PICK b : b = Block(cur)
  OBVIOUS
<1>5. cur \in Times /\ Fits(n, cur) /\ cur[1] >= 100
  BY <1>1, <1>2 DEF Typing, Passing
<1>6. T = BumpedBy(n, cur)
  BY <1>2, <1>3, <1>5, PassesAre DEF Typing
<1>7. Fits(n, T) /\ T[1] >= 100 /\ BlockNo(n, cur) < BlockNo(n, T)
  BY <1>5, <1>6, PassesGoOn
<1>8. Before(cur, T, n)
  BY <1>5, <1>7, BlockNoOrders
<1>9. Numbers(cur, n) /\ Numbers(T, n)
  BY <1>5, <1>7, TimesAreNumbers DEF Fits
<1>10. \A j \in 1..n : b[j] = cur[j]
  BY <1>2, <1>4, <1>5, HeadIs DEF Block
<1>11. Numbers(b, n)
  BY <1>9, <1>10 DEF Numbers
<1>12. Before(b, T, n)
  BY <1>8, <1>10, BeforeSame
<1>13. AnySeq(list) /\ (\A i \in 1..Len(list) : Numbers(list[i], n)) /\ InOrder(list, n)
       /\ Behind(list, cur, n)
  BY <1>1, <1>2 DEF Listing, Passing
<1>14. Behind(list, T, n)
  BY <1>8, <1>9, <1>13, BeforeChain DEF Behind
<1>15. /\ \A i \in 1..Len(list') : Numbers(list'[i], n)
       /\ InOrder(list', n) /\ Behind(list', T, n)
  <2>1. CASE list' = list
    BY <1>13, <1>14, <2>1
  <2>2. CASE list' = Append(list, b)
    <3>1. PICK m \in Nat : m = Len(list)
      BY <1>13, AppendIs
    <3>2. Len(list') = m + 1 /\ (\A i \in 1..m : list'[i] = list[i]) /\ list'[m + 1] = b
      BY <1>13, <2>2, <3>1, AppendIs
    <3>3. \A i \in 1..m : Before(list[i], b, n)
      <4>1. \A i \in 1..m : Before(list[i], cur, n)
        BY <1>13, <3>1 DEF Behind
      <4> QED
        BY <1>10, <4>1, BeforeSame
    <3>4. \A i \in 1..(m + 1) : Numbers(list'[i], n) /\ Before(list'[i], T, n)
      BY <1>11, <1>12, <1>13, <1>14, <3>1, <3>2 DEF Behind
    <3>5. ASSUME NEW i \in 1..(m + 1), NEW j \in 1..(m + 1), i < j
          PROVE  Before(list'[i], list'[j], n)
      <4>1. i \in 1..m
        BY <3>5
      <4>2. CASE j = m + 1
        BY <3>2, <3>3, <4>1, <4>2
      <4>3. CASE j # m + 1
        BY <1>13, <3>1, <3>2, <3>5, <4>1, <4>3 DEF InOrder
      <4> QED
        BY <4>2, <4>3
    <3> QED
      BY <3>2, <3>4, <3>5 DEF InOrder, Behind
  <2> QED
    BY <1>1, <1>4, <2>1, <2>2
<1> QED
  BY <1>1, <1>2, <1>3, <1>7, <1>15 DEF Passing

\* No step leaves the order of time.
LEMMA PassingStep ==
  ASSUME CacheAssumption, RealBegins, Listing, Typing, Passing, [Next]_vars
  PROVE  Passing'
<1>1. req' = req /\ req \in Requests
  BY RequestStays DEF Typing
<1>2. ASSUME UNCHANGED list, pc' \notin {"count", "list"}
      PROVE  Passing'
  BY <1>1, <1>2 DEF Passing, InOrder
<1>3. CASE Count
  <2>1. pc = "count" /\ pc' = "count" /\ list' = list /\ cur' = Bumped(cur)
    BY <1>3 DEF Count
  <2>2. InCalendar(cur')
    BY <1>1, <2>1, PassesAre DEF Typing
  <2> QED
    BY <1>1, <2>1, <2>2 DEF Passing, InOrder
<1>4. CASE Counted
  <2>1. /\ pc = "count" /\ pc' = (IF uMax = 0 THEN "open" ELSE "list") /\ list' = list
        /\ cur' = Restart(cur) /\ list = <<>>
    BY <1>4 DEF Counted, Passing
  <2>2. CASE uMax = 0
    BY <1>2, <2>1, <2>2
  <2>3. CASE uMax # 0
    <3>1. InCalendar(cur) /\ cur \in Times
      BY <2>1, <2>3 DEF Passing, Typing
    <3>2. req.n \in 1..6 /\ RealTime(req.beg)
      BY <1>1, RequestTimes DEF RealBegins
    <3>3. Restart(cur) = Spliced(req.beg, cur, req.n)
      BY <1>1, <3>1, PassesAre
    <3>4. Fits(req.n, cur') /\ cur'[1] >= 100
      BY <2>1, <3>1, <3>2, <3>3, RestartFits
    <3> QED
      BY <1>1, <2>1, <2>3, <3>4 DEF Passing, InOrder, Behind
  <2> QED
    BY <2>2, <2>3
<1>5. CASE List
  BY <1>1, <1>5, ListPasses
<1>6. CASE Listed \/ Open \/ OpenFails \/ FileEnds \/ FileBreaks \/ Finish
  <2>1. UNCHANGED list /\ pc' \notin {"count", "list"}
    BY <1>6 DEF Listed, Open, OpenFails, FileEnds, FileBreaks, Finish
  <2> QED
    BY <1>2, <2>1
<1>7. CASE ReadRow
  <2>1. UNCHANGED list /\ pc' \notin {"count", "list"}
    BY <1>7 DEF ReadRow
  <2> QED
    BY <1>2, <2>1
<1>8. CASE \E f \in Formats : ReadPktHdr(f)
  <2>1. UNCHANGED list /\ pc' \notin {"count", "list"}
    BY <1>8 DEF ReadPktHdr
  <2> QED
    BY <1>2, <2>1
<1>9. CASE (\E b \in BlocksOf(req) : Appear(b) \/ Vanish(b)) \/ UNCHANGED vars
  <2>1. UNCHANGED <<pc, list, cur, uMax>>
    BY <1>9 DEF Appear, Vanish, rdr, vars
  <2> QED
    BY <1>1, <2>1 DEF Passing, InOrder, Behind
<1> QED
  BY <1>3, <1>4, <1>5, <1>6, <1>7, <1>8, <1>9 DEF Next
-----------------------------------------------------------------------------
(* The rows are sent in the order of time.                                   *)

\* The rows sent are in order and of the files read so far; those left are later.
Orderly ==
  LET s == out.sink
      D == DataFrames(s)
  IN
  /\ \A i \in D : s[i].x.at \in req.rows /\ \E k \in 1..u : Block(s[i].x.at) = list[k]
  /\ \A i, j \in D : i < j => Before(s[i].x.at, s[j].x.at, 6)
  /\ pc = "read" => \A i \in D : \A x \in rest : Before(s[i].x.at, x, 6)

\* Nothing is sent at first.
LEMMA OrderlyInit == Init => Orderly
<1> SUFFICES ASSUME Init
             PROVE  Orderly
  OBVIOUS
<1>1. out.sink = <<>>
  BY DEF Init, NewOutput
<1>2. DataFrames(out.sink) = {}
  BY <1>1 DEF DataFrames
<1> QED
  BY <1>2 DEF Orderly

\* No row is sent.
LEMMA OrderlyStays ==
  ASSUME Orderly, req' = req, UNCHANGED <<u, rest>>, SameRows(out.sink, out'.sink),
         list' = list \/ u = 0, pc' = "read" => pc = "read"
  PROVE  Orderly'
<1>1. PICK D : D = DataFrames(out.sink)
  OBVIOUS
<1>2. DataFrames(out'.sink) = D /\ \A i \in D : out'.sink[i] = out.sink[i]
  BY <1>1 DEF SameRows
<1>3. \A i \in D : /\ out.sink[i].x.at \in req.rows
                   /\ \E k \in 1..u : Block(out.sink[i].x.at) = list'[k]
  BY <1>1 DEF Orderly
<1>4. \A i, j \in D : i < j => Before(out.sink[i].x.at, out.sink[j].x.at, 6)
  BY <1>1 DEF Orderly
<1>5. pc' = "read" => \A i \in D : \A x \in rest' : Before(out.sink[i].x.at, x, 6)
  BY <1>1 DEF Orderly
<1> QED
  BY <1>2, <1>3, <1>4, <1>5 DEF Orderly, Block

\* The next file is one of a later block.
LEMMA OpenKeepsOrder ==
  ASSUME CacheAssumption, Listing, Passing, Sending, Orderly, Open, req' = req
  PROVE  Orderly'
<1>1. /\ u < Len(list) /\ u' = u + 1 /\ list' = list
      /\ rest' = {x \in req.rows : Block(x) = list[u + 1]}
  BY DEF Open
<1>2. u \in Nat /\ Len(list) \in Nat /\ req \in Requests
  BY AppendIs DEF Listing
<1>3. PICK n \in 1..6 : n = req.n
  BY <1>2, RequestTimes
<1>4. req.rows \subseteq Times
  BY <1>2, RequestTimes
<1>5. PICK s : s = out.sink
  OBVIOUS
<1>6. PICK D : D = DataFrames(s)
  OBVIOUS
<1>7. DataFrames(out'.sink) = D /\ \A i \in D : out'.sink[i] = s[i]
  BY <1>5, <1>6, OpenSendsNone DEF SameRows
<1>8. \A i \in D : s[i].x.at \in req.rows /\ \E k \in 1..u : Block(s[i].x.at) = list[k]
  BY <1>5, <1>6 DEF Orderly
<1>9. \A i \in D : \E k \in 1..u' : Block(s[i].x.at) = list[k]
  BY <1>1, <1>2, <1>8
<1>10. \A i, j \in D : i < j => Before(s[i].x.at, s[j].x.at, 6)
  BY <1>5, <1>6 DEF Orderly
<1>11. ASSUME NEW i \in D, NEW x \in rest'
       PROVE  Before(s[i].x.at, x, 6)
  <2>1. PICK k \in 1..u : Block(s[i].x.at) = list[k]
    BY <1>8
  <2>2. PICK a \in Times : a = s[i].x.at
    BY <1>4, <1>8
  <2>3. x \in Times /\ Block(x) = list[u + 1]
    BY <1>1, <1>4
  <2>4. Before(list[k], list[u + 1], n)
    <3>1. InOrder(list, n)
      BY <1>3 DEF Passing
    <3>2. PICK m \in Nat : m = Len(list)
      BY <1>2
    <3>3. u \in Nat /\ u < m
      BY <1>1, <1>2, <3>2
    <3>4. k \in 1..m /\ u + 1 \in 1..m /\ k < u + 1
      BY <3>2, <3>3
    <3> QED
      BY <3>1, <3>2, <3>4 DEF InOrder
  <2>5. Before(SubSeq(a, 1, n), SubSeq(x, 1, n), n)
    <3>1. SubSeq(a, 1, n) = list[k] /\ SubSeq(x, 1, n) = list[u + 1]
      BY <1>3, <2>1, <2>2, <2>3, Zenon DEF Block
    <3> QED
      BY <2>4, <3>1
  <2> QED
    BY <2>2, <2>3, <2>5, BlocksOrderRows
<1>12. PICK q : q = out'.sink
  OBVIOUS
<1>13. /\ \A i \in D : q[i].x.at \in req.rows /\ \E k \in 1..u' : Block(q[i].x.at) = list[k]
       /\ \A i, j \in D : i < j => Before(q[i].x.at, q[j].x.at, 6)
       /\ \A i \in D : \A x \in rest' : Before(q[i].x.at, x, 6)
  BY <1>7, <1>8, <1>9, <1>10, <1>11, <1>12
<1>14. DataFrames(q) = D
  BY <1>7, <1>12
<1> QED
  BY <1>1, <1>12, <1>13, <1>14 DEF Orderly, Block

\* The next row is the earliest of those left.
LEMMA RowKeepsOrder ==
  ASSUME CacheAssumption, Listing, Sending, Delivered, Orderly, ReadRow, req' = req
  PROVE  Orderly'
<1>1. PICK x : x = First(rest)
  OBVIOUS
<1>2. /\ pc = "read" /\ rest # {} /\ rest' = rest \ {x} /\ UNCHANGED <<u, list>>
  BY <1>1 DEF ReadRow
<1>3. u \in Nat /\ u > 0 /\ req \in Requests /\ rest \subseteq {z \in req.rows : Block(z) = list[u]}
  BY <1>2 DEF Listing
<1>4. rest \in SUBSET Times /\ IsFiniteSet(rest) /\ req.rows \subseteq Times
  <2>1. req.rows \subseteq Times /\ IsFiniteSet(req.rows)
    BY <1>3, RequestTimes
  <2>2. rest \subseteq req.rows
    BY <1>3
  <2> QED
    BY <2>1, <2>2, FS_Subset
<1>5. Earliest(rest, x)
  BY <1>1, <1>2, <1>4, FirstIsEarliest
<1>6. x \in rest /\ \A z \in rest \ {x} : Before(x, z, 6)
  <2>1. x \in rest /\ \A z \in rest : ~Before(z, x, 6)
    BY <1>5 DEF Earliest
  <2> QED
    BY <1>4, <2>1, BeforeTotal
<1>7. PICK s : s = out.sink
  OBVIOUS
<1>8. PICK D : D = DataFrames(s)
  OBVIOUS
<1>9. /\ \A i \in D : s[i].x.at \in req.rows /\ \E k \in 1..u : Block(s[i].x.at) = list[k]
      /\ \A i, j \in D : i < j => Before(s[i].x.at, s[j].x.at, 6)
      /\ \A i \in D : \A z \in rest : Before(s[i].x.at, z, 6)
  BY <1>2, <1>7, <1>8 DEF Orderly
<1>10. CASE out'.sink = out.sink
  BY <1>2, <1>7, <1>8, <1>9, <1>10 DEF Orderly, Block
<1>11. CASE Passed(x)
  <2>1. PICK f : f.x.at = x /\ RowAdded(out.sink, out'.sink, f)
    BY <1>11 DEF Passed
  <2>2. PICK m \in Nat : m = Len(s)
    BY <1>7, AppendIs DEF Sending, Plain, Direct
  <2>3. PICK q : q = out'.sink
    OBVIOUS
  <2>4. /\ DataFrames(q) = D \cup {m + 1} /\ m + 1 \notin D /\ q[m + 1].x.at = x
        /\ \A i \in D : q[i] = s[i] /\ i \in 1..m
    <3>1. DataFrames(q) = D \cup {m + 1} /\ m + 1 \notin D /\ q[m + 1] = f
          /\ \A i \in D : q[i] = s[i]
      BY <1>7, <1>8, <2>1, <2>2, <2>3 DEF RowAdded
    <3>2. \A i \in D : i \in 1..m
      BY <1>8, <2>2 DEF DataFrames
    <3> QED
      BY <2>1, <3>1, <3>2
  <2>5. x \in req.rows /\ Block(x) = list[u] /\ u \in 1..u
    BY <1>3, <1>6
  <2>6. \A i \in D \cup {m + 1} : /\ q[i].x.at \in req.rows
                                  /\ \E k \in 1..u : Block(q[i].x.at) = list[k]
    BY <1>9, <2>4, <2>5
  <2>7. ASSUME NEW i \in D \cup {m + 1}, NEW j \in D \cup {m + 1}, i < j
        PROVE  Before(q[i].x.at, q[j].x.at, 6)
    <3>1. i \in D
      BY <2>4, <2>7
    <3>2. CASE j \in D
      BY <1>9, <2>4, <2>7, <3>1, <3>2
    <3>3. CASE j = m + 1
      BY <1>6, <1>9, <2>4, <3>1, <3>3
    <3> QED
      BY <3>2, <3>3
  <2>8. \A i \in D \cup {m + 1} : \A z \in rest' : Before(q[i].x.at, z, 6)
    BY <1>2, <1>6, <1>9, <2>4
  <2> QED
    BY <1>2, <2>3, <2>4, <2>6, <2>7, <2>8 DEF Orderly, Block
<1>12. out'.sink = out.sink \/ Passed(x)
  BY <1>1, RowOutcome DEF Skipped, Turned
<1> QED
  BY <1>10, <1>11, <1>12

\* No step sends a row out of order.
LEMMA OrderlyStep ==
  ASSUME CacheAssumption, Listing, Passing, Sending, Delivered, Orderly, [Next]_vars
  PROVE  Orderly'
<1>1. req' = req
  BY RequestStays
<1>2. ASSUME UNCHANGED <<out, u, rest>>, list' = list \/ u = 0, pc' = "read" => pc = "read"
      PROVE  Orderly'
  BY <1>1, <1>2, SameRowsSelf, OrderlyStays
<1>3. CASE Open
  BY <1>1, <1>3, OpenKeepsOrder
<1>4. CASE ReadRow
  BY <1>1, <1>4, RowKeepsOrder
<1>5. CASE \E f \in Formats : ReadPktHdr(f)
  <2>1. PICK f \in Formats : ReadPktHdr(f)
    BY <1>5
  <2>2. UNCHANGED <<u, rest, list>> /\ pc = "read"
    BY <2>1 DEF ReadPktHdr
  <2>3. SameRows(out.sink, out'.sink)
    BY <2>1, HeaderSendsNone
  <2> QED
    BY <1>1, <2>2, <2>3, OrderlyStays
<1>6. CASE Finish
  <2>1. UNCHANGED <<u, rest, list>> /\ pc' # "read"
    BY <1>6 DEF Finish
  <2>2. SameRows(out.sink, out'.sink)
    BY <1>6, FinishSendsNone
  <2> QED
    BY <1>1, <2>1, <2>2, OrderlyStays
<1>7. CASE List
  <2>1. UNCHANGED <<out, u, rest>> /\ u = 0 /\ pc' # "read"
    BY <1>7 DEF List, Delivered
  <2> QED
    BY <1>2, <2>1
<1>8. CASE Count \/ Counted \/ Listed \/ OpenFails \/ FileEnds \/ FileBreaks
  <2>1. UNCHANGED <<out, u, rest, list>> /\ pc' # "read"
    BY <1>8 DEF Count, Counted, Listed, OpenFails, FileEnds, FileBreaks
  <2> QED
    BY <1>2, <2>1
<1>9. CASE (\E b \in BlocksOf(req) : Appear(b) \/ Vanish(b)) \/ UNCHANGED vars
  <2>1. UNCHANGED <<out, u, rest, list, pc>>
    BY <1>9 DEF Appear, Vanish, rdr, vars
  <2> QED
    BY <1>2, <2>1
<1> QED
  BY <1>3, <1>4, <1>5, <1>6, <1>7, <1>8, <1>9 DEF Next

\* The rows sent are those of the range, all of them that are in the files listed, in
\* the order of time: the passes go forward in the calendar, so that each file holds
\* later rows than the ones before it.  It is enough that the ranges begin at a date
\* there is, in a year of more than two digits (tnorm adds 1900 to the others), and
\* that Y tags are listed (intervals are not compared and may end the program).
THEOREM RowsSentInOrder ==
  ASSUME TagsListed, RealBegins
  PROVE  Spec => []RowsServed
<1> DEFINE IInv == Listing /\ Typing /\ Passing /\ Sending /\ Delivered /\ Orderly
<1>1. Init => IInv
  BY CacheAssumption, ListingInit, TypingInit, PassingInit, SendingInit, DeliveredInit,
     OrderlyInit
<1>2. IInv /\ [Next]_vars => IInv'
  BY CacheAssumption, ListingStep, TypingStep, PassingStep, SendingStep, DeliveredStep,
     OrderlyStep
<1>3. IInv /\ RowsInRange => RowsServed
  BY DEF RowsInRange, RowsServed, Orderly
<1>4. Spec => []RowsInRange
  BY RangeIsSent
<1> QED
  BY <1>1, <1>2, <1>3, <1>4, PTL DEF Spec
-----------------------------------------------------------------------------
(* The passes end behind the last block of the range and leave none out.     *)

\* The ranges asked for are of the calendar, the blocks are no months, and the seconds
\* of the end are not all there is to it when blocks are of a day or an hour.
RealRequests ==
  \A r \in Requests :
    /\ r.n # 2 /\ RealTime(r.beg) /\ RealTime(r.end) /\ \A x \in r.rows : InCalendar(x)
    /\ r.n < 5 /\ r.end[6] > 0 => \E i \in (r.n + 1)..5 : r.end[i] > 0

\* The time the end of the passes is taken from is of the last block.
LEMMA TrimmedIs ==
  ASSUME NEW n \in 1..6, NEW e, RealTime(e), NEW w, w = Spliced(Trimmed(n, e), Filling, n)
  PROVE  /\ Fits(n, w) /\ w[1] >= 100 /\ RestInRange(n, w)
         /\ BlockNo(n, w) = BlockNo(n, e)
<1>1. PICK t : t = Trimmed(n, e)
  OBVIOUS
<1>2. e \in Times /\ Fits(n, e) /\ Fits(3, e)
  BY CalendarFits DEF RealTime, InCalendar
<1>3. t \in Times /\ \A i \in 1..5 : t[i] = e[i]
  BY <1>1, <1>2 DEF Trimmed, Times
<1>4. n > 4 => t[6] = e[6]
  BY <1>1, <1>2 DEF Trimmed, Times
<1>5. PICK g : g = Filling
  OBVIOUS
<1>6. g \in Times /\ g[2] = 1 /\ g[3] = 1 /\ g[4] = 0 /\ g[5] = 0 /\ g[6] = 0
  BY <1>5, FillingIs DEF Filling
<1>7. w \in Times /\ \A i \in 1..6 : w[i] = IF i <= n THEN t[i] ELSE g[i]
  BY <1>1, <1>3, <1>5, <1>6 DEF Spliced, Times
<1>8. \A i \in 1..n : w[i] = e[i]
  <2> SUFFICES ASSUME NEW i \in 1..n
               PROVE  w[i] = e[i]
    OBVIOUS
  <2>1. w[i] = t[i]
    BY <1>7
  <2>2. t[i] = e[i]
    BY <1>3, <1>4
  <2> QED
    BY <2>1, <2>2
<1>9. w[1] = e[1]
  BY <1>8
<1>10. w[2] \in 1..12 /\ w[3] \in 1..31
  BY <1>2, <1>3, <1>6, <1>7 DEF Fits
<1>11. w[4] \in 0..23 /\ w[5] \in 0..59
  BY <1>2, <1>3, <1>6, <1>7 DEF Fits
<1>12. w[6] \in 0..59
  BY <1>2, <1>6, <1>7, <1>8 DEF Fits
<1>13. n > 2 => w[3] \in 1..MonthLen(w[1], w[2])
  <2> SUFFICES ASSUME n > 2
               PROVE  w[3] \in 1..MonthLen(w[1], w[2])
    OBVIOUS
  <2>1. w[1] = e[1] /\ w[2] = e[2] /\ w[3] = e[3]
    BY <1>8
  <2> QED
    BY <2>1 DEF RealTime, InCalendar
<1>14. Fits(n, w) /\ w[1] >= 100 /\ RestInRange(n, w)
  BY <1>7, <1>9, <1>10, <1>11, <1>12, <1>13 DEF Fits, RestInRange, RealTime
<1>15. BlockNo(n, w) = BlockNo(n, e)
  BY <1>8, SameBlockNo
<1> QED
  BY <1>14, <1>15

\* Where the passes end: at the block of the end of the range, or behind it.
Beyond(n, e) == \E i \in (n + 1)..6 : Trimmed(n, e)[i] > 0

\* They end one block further if the range goes on into it.
LEMMA EndIs ==
  ASSUME NEW n \in 1..6, n # 2, NEW e, RealTime(e), NEW F, F = EndOf(n, e)
  PROVE  /\ Fits(n, F)
         /\ Beyond(n, e) => BlockNo(n, F) = BlockNo(n, e) + 1
         /\ ~Beyond(n, e) => BlockNo(n, F) = BlockNo(n, e)
<1>1. PICK t : t = Trimmed(n, e)
  OBVIOUS
<1>2. PICK w : w = Spliced(t, Filling, n)
  OBVIOUS
<1>3. /\ Fits(n, w) /\ w[1] >= 100 /\ RestInRange(n, w) /\ BlockNo(n, w) = BlockNo(n, e)
  BY <1>1, <1>2, TrimmedIs
<1>4. F = EndFrom(n, t, w)
  BY <1>1, <1>2 DEF EndOf
<1>5. CASE Beyond(n, e)
  <2>1. F = BumpedBy(n, w)
    BY <1>1, <1>4, <1>5 DEF EndFrom, Beyond, BumpedBy
  <2> QED
    BY <1>3, <1>5, <2>1, PassesGoOn
<1>6. CASE ~Beyond(n, e)
  <2>1. F = Tnorm(w)
    BY <1>1, <1>4, <1>6 DEF EndFrom, Beyond
  <2>2. w \in Times /\ w[2] \in 1..12
    BY <1>3 DEF Fits
  <2>3. Fits(n, F)
    <3>1. InCalendar(Tnorm(w))
      BY <2>2, TnormIs
    <3> QED
      BY <2>1, <3>1, CalendarFits
  <2>4. CASE n = 1
    <3>1. Tnorm(w)[1] = w[1]
      BY <1>3, <2>4, TnormKeepsYear
    <3> QED
      BY <1>3, <1>6, <2>1, <2>3, <2>4, <3>1 DEF BlockNo
  <2>5. CASE n \in 3..6
    <3>1. BlockNo(n, Tnorm(w)) = BlockNo(n, w)
      BY <1>3, <2>2, <2>5, TnormKeepsBlock
    <3> QED
      BY <1>3, <1>6, <2>1, <2>3, <3>1
  <2> QED
    BY <2>4, <2>5
<1> QED
  BY <1>5, <1>6

\* The block of a time before the end is before that of the end of the passes.
LEMMA EndCovers ==
  ASSUME NEW n \in 1..6, n # 2, NEW e, RealTime(e), NEW x, InCalendar(x), Before(x, e, 6),
         n < 5 /\ e[6] > 0 => \E i \in (n + 1)..5 : e[i] > 0
  PROVE  BlockNo(n, x) < BlockNo(n, EndOf(n, e))
<1>1. InCalendar(e) /\ Fits(n, e) /\ Fits(n, x) /\ e \in Times /\ x \in Times
  BY CalendarFits DEF RealTime, InCalendar
<1>2. BlockNo(n, e) \in Int /\ BlockNo(n, x) \in Int
  BY <1>1, BlockNoOrders
<1>3. PICK F : F = EndOf(n, e)
  OBVIOUS
<1>4. /\ Beyond(n, e) => BlockNo(n, F) = BlockNo(n, e) + 1
      /\ ~Beyond(n, e) => BlockNo(n, F) = BlockNo(n, e)
  BY <1>3, EndIs
<1>5. PICK i \in 1..6 : x[i] < e[i] /\ \A j \in 1..(i - 1) : x[j] = e[j]
  BY DEF Before
<1>6. CASE i <= n
  <2>1. Before(x, e, n)
    BY <1>5, <1>6 DEF Before
  <2>2. BlockNo(n, x) < BlockNo(n, e)
    BY <1>1, <2>1, BlockNoOrders
  <2> QED
    BY <1>2, <1>3, <1>4, <2>2
<1>7. CASE i > n
  <2>1. \A j \in 1..n : x[j] = e[j]
    BY <1>5, <1>7
  <2>2. BlockNo(n, x) = BlockNo(n, e)
    BY <2>1, SameBlockNo
  <2>3. e[i] > 0
    <3>1. i \in {2, 3, 4, 5, 6}
      BY <1>7
    <3>2. x[2] \in 1..12 /\ x[3] \in 1..31 /\ x[4] \in 0..23 /\ x[5] \in 0..59 /\ x[6] \in 0..59
      BY <1>1 DEF Fits
    <3>3. x[i] >= 0 /\ x[i] \in Int /\ e[i] \in Int
      BY <1>1, <3>1, <3>2 DEF Times
    <3> QED
      BY <1>5, <3>3
  <2>4. PICK t : t = Trimmed(n, e)
    OBVIOUS
  <2>5. (\A j \in 1..5 : t[j] = e[j]) /\ (n > 4 => t[6] = e[6])
    BY <1>1, <2>4 DEF Trimmed, Times
  <2>6. Beyond(n, e)
    <3>1. CASE i < 6
      <4>1. t[i] > 0 /\ i \in (n + 1)..6
        BY <1>7, <2>3, <2>5, <3>1
      <4> QED
        BY <2>4, <4>1 DEF Beyond
    <3>2. CASE i = 6 /\ n > 4
      <4>1. t[6] > 0 /\ 6 \in (n + 1)..6
        BY <1>7, <2>3, <2>5, <3>2
      <4> QED
        BY <2>4, <4>1 DEF Beyond
    <3>3. CASE i = 6 /\ n < 5
      <4>1. PICK k \in (n + 1)..5 : e[k] > 0
        BY <2>3, <3>3
      <4>2. t[k] > 0 /\ k \in (n + 1)..6
        BY <2>5, <4>1
      <4> QED
        BY <2>4, <4>2 DEF Beyond
    <3> QED
      BY <3>1, <3>2, <3>3
  <2> QED
    BY <1>2, <1>3, <1>4, <2>2, <2>6
<1> QED
  BY <1>3, <1>6, <1>7

\* Nor is one from the begin on before the block of the begin.
LEMMA BeginCovers ==
  ASSUME NEW n \in 1..6, NEW b, InCalendar(b), NEW x, InCalendar(x),
         x = b \/ Before(b, x, 6)
  PROVE  BlockNo(n, b) <= BlockNo(n, x)
<1>1. Fits(n, b) /\ Fits(n, x) /\ b \in Times /\ x \in Times
  BY CalendarFits DEF InCalendar
<1>2. BlockNo(n, b) \in Int /\ BlockNo(n, x) \in Int
  BY <1>1, BlockNoOrders
<1>3. CASE x = b
  BY <1>2, <1>3
<1>4. CASE Before(b, x, 6)
  <2>1. PICK i \in 1..6 : b[i] < x[i] /\ \A j \in 1..(i - 1) : b[j] = x[j]
    BY <1>4 DEF Before
  <2>2. CASE i <= n
    <3>1. Before(b, x, n)
      BY <2>1, <2>2 DEF Before
    <3> QED
      BY <1>1, <1>2, <3>1, BlockNoOrders
  <2>3. CASE i > n
    <3>1. \A j \in 1..n : b[j] = x[j]
      BY <2>1, <2>3
    <3> QED
      BY <1>2, <3>1, SameBlockNo
  <2> QED
    BY <2>2, <2>3
<1> QED
  BY <1>3, <1>4

\* Times that agree in the first n fields are of one block.
LEMMA SameHead ==
  ASSUME NEW n \in 1..6, NEW a \in Times, NEW b \in Times, \A i \in 1..n : a[i] = b[i]
  PROVE  SubSeq(a, 1, n) = SubSeq(b, 1, n)
<1>1. PICK p, q : p = SubSeq(a, 1, n) /\ q = SubSeq(b, 1, n)
  OBVIOUS
<1>2. p \in Seq(Int) /\ Len(p) = n /\ \A i \in 1..n : p[i] = a[i]
  BY <1>1, HeadIs
<1>3. q \in Seq(Int) /\ Len(q) = n /\ \A i \in 1..n : q[i] = b[i]
  BY <1>1, HeadIs
<1> HIDE <1>1
<1>4. p = q
  BY <1>2, <1>3, SeqEqual
<1> QED
  BY <1>1, <1>4

\* A block has the number of the times in it.
LEMMA HeadNo ==
  ASSUME NEW n \in 1..6, NEW a \in Times
  PROVE  BlockNo(n, SubSeq(a, 1, n)) = BlockNo(n, a)
<1>1. PICK p : p = SubSeq(a, 1, n)
  OBVIOUS
<1>2. \A i \in 1..n : p[i] = a[i]
  BY <1>1, HeadIs
<1> HIDE <1>1
<1>3. BlockNo(n, p) = BlockNo(n, a)
  BY <1>2, SameBlockNo
<1> QED
  BY <1>1, <1>3

\* The blocks of S whose numbers are from lo on and below hi.
Within(S, n, lo, hi) == {b \in S : lo <= BlockNo(n, b) /\ BlockNo(n, b) < hi}

\* They are finitely many, and fewer are no more.
LEMMA WithinFinite ==
  ASSUME NEW S, IsFiniteSet(S), NEW n, NEW lo, NEW hi
  PROVE  /\ IsFiniteSet(Within(S, n, lo, hi)) /\ Cardinality(Within(S, n, lo, hi)) \in Nat
         /\ \A T \in SUBSET Within(S, n, lo, hi) :
              Cardinality(T) \in Nat /\ Cardinality(T) <= Cardinality(Within(S, n, lo, hi))
<1>1. PICK W : W = Within(S, n, lo, hi)
  OBVIOUS
<1>2. W \in SUBSET S
  BY <1>1 DEF Within
<1>3. IsFiniteSet(W)
  BY <1>2, FS_Subset
<1>4. Cardinality(W) \in Nat
  BY <1>3, FS_CardinalityType
<1>5. ASSUME NEW T \in SUBSET W
      PROVE  Cardinality(T) \in Nat /\ Cardinality(T) <= Cardinality(W)
  <2>1. IsFiniteSet(T) /\ Cardinality(T) <= Cardinality(W)
    BY <1>3, FS_Subset
  <2> QED
    BY <2>1, FS_CardinalityType
<1> QED
  BY <1>1, <1>3, <1>4, <1>5

\* One block more is counted, at most, and only if it is there.
LEMMA WithinGrows ==
  ASSUME NEW S, IsFiniteSet(S), NEW n, \A b \in S : BlockNo(n, b) \in Int,
         NEW lo, NEW c \in Int, NEW d \in Int, d <= c + 1, NEW k,
         \A b \in S : BlockNo(n, b) = c => b = k
  PROVE  /\ Cardinality(Within(S, n, lo, d)) <= Cardinality(Within(S, n, lo, c)) + 1
         /\ k \notin S => Cardinality(Within(S, n, lo, d)) <= Cardinality(Within(S, n, lo, c))
<1>1. PICK V, W : V = Within(S, n, lo, c) /\ W = Within(S, n, lo, d)
  OBVIOUS
<1>2. IsFiniteSet(V) /\ IsFiniteSet(W) /\ Cardinality(V) \in Nat /\ Cardinality(W) \in Nat
  BY <1>1, WithinFinite
<1>3. W \subseteq V \cup {k} /\ (k \notin S => W \subseteq V)
  BY <1>1 DEF Within
<1>4. Cardinality(W) <= Cardinality(V) + 1
  <2>1. IsFiniteSet(V \cup {k}) /\ Cardinality(V \cup {k}) \in {Cardinality(V), Cardinality(V) + 1}
    BY <1>2, FS_AddElement
  <2>2. Cardinality(W) <= Cardinality(V \cup {k})
    BY <1>3, <2>1, FS_Subset
  <2> QED
    BY <1>2, <2>1, <2>2
<1>5. k \notin S => Cardinality(W) <= Cardinality(V)
  BY <1>2, <1>3, FS_Subset
<1> QED
  BY <1>1, <1>4, <1>5

\* One block less is ahead if it is there.
LEMMA WithinShrinks ==
  ASSUME NEW S, IsFiniteSet(S), NEW n, \A b \in S : BlockNo(n, b) \in Int,
         NEW c \in Int, NEW d \in Int, c < d, NEW hi \in Int
  PROVE  /\ Cardinality(Within(S, n, d, hi)) <= Cardinality(Within(S, n, c, hi))
         /\ \A k \in S : BlockNo(n, k) = c /\ c < hi =>
              Cardinality(Within(S, n, d, hi)) + 1 <= Cardinality(Within(S, n, c, hi))
<1>1. PICK V, W : V = Within(S, n, c, hi) /\ W = Within(S, n, d, hi)
  OBVIOUS
<1>2. IsFiniteSet(V) /\ IsFiniteSet(W) /\ Cardinality(V) \in Nat /\ Cardinality(W) \in Nat
  BY <1>1, WithinFinite
<1>3. W \subseteq V
  BY <1>1 DEF Within
<1>4. Cardinality(W) <= Cardinality(V)
  BY <1>2, <1>3, FS_Subset
<1>5. ASSUME NEW k \in S, BlockNo(n, k) = c, c < hi
      PROVE  Cardinality(W) + 1 <= Cardinality(V)
  <2>1. k \in V /\ k \notin W
    BY <1>1, <1>5 DEF Within
  <2>2. IsFiniteSet(V \ {k}) /\ Cardinality(V \ {k}) = Cardinality(V) - 1
    BY <1>2, <2>1, FS_RemoveElement
  <2>3. Cardinality(W) <= Cardinality(V \ {k})
    BY <1>3, <2>1, <2>2, FS_Subset
  <2> QED
    BY <1>2, <2>2, <2>3
<1> QED
  BY <1>1, <1>4, <1>5

\* There are finitely many blocks, and each has a number.
LEMMA BlocksAre ==
  ASSUME CacheAssumption, RealRequests, NEW r \in Requests
  PROVE  /\ IsFiniteSet(BlocksOf(r))
         /\ \A b \in BlocksOf(r) : /\ BlockNo(r.n, b) \in Int
                                   /\ \E x \in r.rows : b = SubSeq(x, 1, r.n)
<1>1. PICK n \in 1..6 : n = r.n
  BY RequestTimes
<1>2. r.rows \subseteq Times /\ IsFiniteSet(r.rows)
  BY RequestTimes
<1>3. PICK R, B : R = r.rows /\ B = BlocksOf(r)
  OBVIOUS
<1>4. B = {SubSeq(x, 1, n) : x \in R}
  BY <1>1, <1>3, Zenon DEF BlocksOf
<1>5. PICK f : f = [x \in R |-> SubSeq(x, 1, n)]
  OBVIOUS
<1>6. f \in [R -> B] /\ \A b \in B : \E x \in R : f[x] = b
  BY <1>4, <1>5
<1>7. f \in Surjection(R, B)
  BY <1>6 DEF Surjection
<1>8. IsFiniteSet(B)
  BY <1>2, <1>3, <1>7, FS_Surjection
<1>9. ASSUME NEW b \in B
      PROVE  BlockNo(n, b) \in Int /\ \E x \in R : b = SubSeq(x, 1, n)
  <2>1. PICK x \in R : b = SubSeq(x, 1, n)
    BY <1>4
  <2>2. x \in Times /\ InCalendar(x)
    BY <1>2, <1>3 DEF RealRequests
  <2>3. Fits(n, x)
    BY <2>2, CalendarFits
  <2>4. BlockNo(n, x) \in Int
    BY <2>3, BlockNoOrders
  <2>5. BlockNo(n, b) = BlockNo(n, x)
    BY <2>1, <2>2, HeadNo
  <2> QED
    BY <2>1, <2>4, <2>5
<1> QED
  BY <1>1, <1>3, <1>8, <1>9
-----------------------------------------------------------------------------
(* What is counted and listed of the files that stay.                        *)

\* The first pass: a time that fits, or day 0 of month 0 of a year.
Counts(n, t) ==
  /\ t \in Times /\ t[1] >= 100
  /\ Fits(n, t) \/ (n = 1 /\ \A i \in 2..6 : t[i] = 0)

\* It leaves no block out, and tells them apart.
LEMMA CountGoesOn ==
  ASSUME NEW n \in 1..6, n # 2, NEW t, Counts(n, t), NEW T, T = BumpedBy(n, t)
  PROVE  /\ Counts(n, T) /\ BlockNo(n, t) \in Int /\ BlockNo(n, T) \in Int
         /\ BlockNo(n, T) <= BlockNo(n, t) + 1
<1>1. CASE Fits(n, t)
  <2>1. Fits(n, T) /\ T[1] >= 100 /\ BlockNo(n, T) = BlockNo(n, t) + 1
    BY <1>1, PassesGoOn DEF Counts
  <2>2. BlockNo(n, t) \in Int /\ BlockNo(n, T) \in Int
    BY <1>1, <2>1, BlockNoOrders
  <2> QED
    BY <2>1, <2>2 DEF Counts, Fits
<1>2. CASE n = 1 /\ \A i \in 2..6 : t[i] = 0
  <2>1. t \in Times /\ t[1] >= 100 /\ t[1] \in Int
    BY DEF Counts, Times
  <2>2. BumpedBy(1, t)[1] = t[1]
    BY <1>2, <2>1, YearWaits
  <2>3. T[1] = t[1]
    BY <1>2, <2>2
  <2>4. PICK e : e = [t EXCEPT ![1] = @ + 1]
    OBVIOUS
  <2>5. e \in Times /\ T = Tnorm(e)
    BY <1>2, <2>1, <2>4 DEF Times, BumpedBy
  <2>6. InCalendar(T)
    BY <2>5, TnormIs
  <2>7. Fits(n, T) /\ T \in Times
    BY <2>6, CalendarFits DEF InCalendar
  <2> QED
    BY <1>2, <2>1, <2>3, <2>7 DEF Counts, BlockNo
<1> QED
  BY <1>1, <1>2 DEF Counts

\* The first pass is behind a block if its number is smaller, and at it if it is the same.
LEMMA CountTells ==
  ASSUME NEW n \in 1..6, NEW t, Counts(n, t), NEW x, Fits(n, x)
  PROVE  /\ BlockNo(n, t) \in Int /\ BlockNo(n, x) \in Int
         /\ BlockNo(n, t) < BlockNo(n, x) => Before(t, x, n)
         /\ BlockNo(n, t) = BlockNo(n, x) => \A i \in 1..n : t[i] = x[i]
<1>1. CASE Fits(n, t)
  BY <1>1, BlockNoOrders
<1>2. CASE n = 1
  <2>1. t[1] \in Int /\ x[1] \in Int
    BY DEF Counts, Fits, Times
  <2> QED
    BY <1>2, <2>1 DEF BlockNo, Before
<1> QED
  BY <1>1, <1>2 DEF Counts

\* A file is the one of the time the pass has come to if their numbers agree.
LEMMA FileTold ==
  ASSUME CacheAssumption, RealRequests, req \in Requests, NEW t, Counts(req.n, t),
         NEW b \in BlocksOf(req), BlockNo(req.n, b) = BlockNo(req.n, t)
  PROVE  b = Block(t)
<1>1. PICK n \in 1..6 : n = req.n
  BY RequestTimes
<1>2. PICK x \in req.rows : b = SubSeq(x, 1, n)
  BY <1>1, BlocksAre
<1>3. x \in Times /\ Fits(n, x) /\ t \in Times
  BY <1>1, CalendarFits DEF RealRequests, InCalendar, Counts
<1>4. BlockNo(n, b) = BlockNo(n, x)
  BY <1>2, <1>3, HeadNo
<1>5. BlockNo(n, t) = BlockNo(n, x)
  BY <1>1, <1>4
<1>6. \A i \in 1..n : t[i] = x[i]
  BY <1>1, <1>3, <1>5, CountTells
<1>7. SubSeq(t, 1, n) = SubSeq(x, 1, n)
  BY <1>3, <1>6, SameHead
<1> QED
  BY <1>1, <1>2, <1>7, Zenon DEF Block

\* What the passes have seen while no file came: the first one no less than the files
\* that stay, the second one has room for all that are ahead and those behind are listed.
FirstNo == BlockNo(req.n, req.beg)
EndNo == BlockNo(req.n, EndOf(req.n, req.end))
CurNo == BlockNo(req.n, cur)
IsListed(b) == \E i \in 1..Len(list) : list[i] = b
Behold(lo, hi) == Within(always, req.n, lo, hi)

Seeing ==
  /\ pc = "count" => Counts(req.n, cur)
  /\ ~grew =>
       /\ pc \in {"count", "list"} => files = always
       /\ pc = "count" => Cardinality(Behold(FirstNo, CurNo)) <= uMax
       /\ pc = "list" => /\ Len(list) + Cardinality(Behold(CurNo, EndNo)) <= uMax
                         /\ \A b \in Behold(FirstNo, CurNo) : IsListed(b)
       /\ pc \in {"open", "read", "done"} => \A b \in Behold(FirstNo, EndNo) : IsListed(b)

\* What a request fixes.
LEMMA NumbersAre ==
  ASSUME CacheAssumption, RealRequests, req \in Requests, always \subseteq BlocksOf(req)
  PROVE  /\ req.n \in 1..6 /\ req.n # 2 /\ RealTime(req.beg) /\ Fits(req.n, req.beg)
         /\ FirstNo \in Int /\ EndNo \in Int /\ Fits(req.n, FirstAfter)
         /\ FirstAfter = EndOf(req.n, req.end)
         /\ IsFiniteSet(always) /\ \A b \in always : BlockNo(req.n, b) \in Int
<1>1. req.n \in 1..6 /\ req.n # 2 /\ RealTime(req.beg) /\ RealTime(req.end)
  BY RequestTimes DEF RealRequests
<1>2. Fits(req.n, req.beg) /\ req.beg \in Times
  BY <1>1, CalendarFits DEF RealTime, InCalendar
<1>3. FirstAfter = EndOf(req.n, req.end)
  BY <1>2, PassesAre
<1>4. Fits(req.n, FirstAfter)
  BY <1>1, <1>3, EndIs
<1>5. FirstNo \in Int /\ EndNo \in Int
  BY <1>1, <1>2, <1>3, <1>4, BlockNoOrders DEF FirstNo, EndNo
<1>6. IsFiniteSet(always) /\ \A b \in always : BlockNo(req.n, b) \in Int
  BY BlocksAre, FS_Subset
<1> QED
  BY <1>1, <1>2, <1>3, <1>4, <1>5, <1>6

\* The begin of a pass is the block of the begin of the range.
LEMMA RestartNo ==
  ASSUME CacheAssumption, req \in Requests, NEW t \in Times
  PROVE  BlockNo(req.n, Restart(t)) = FirstNo
<1>1. req.n \in 1..6 /\ req.beg \in Times
  BY RequestTimes
<1>2. PICK r : r = Restart(t)
  OBVIOUS
<1>3. r = Spliced(req.beg, t, req.n)
  BY <1>2, PassesAre
<1>4. \A i \in 1..req.n : r[i] = req.beg[i]
  BY <1>1, <1>3 DEF Spliced
<1>5. BlockNo(req.n, r) = BlockNo(req.n, req.beg)
  BY <1>1, <1>4, SameBlockNo
<1> QED
  BY <1>2, <1>5 DEF FirstNo

\* The first pass has seen nothing and passed nothing.
LEMMA SeeingInit == ASSUME CacheAssumption, RealRequests, Init PROVE Seeing
<1>1. /\ req \in Requests /\ pc = "count" /\ uMax = 0 /\ always = files
      /\ files \in SUBSET BlocksOf(req) /\ cur = Restart(Zeros)
  BY DEF Init, Zeros
<1>2. PICK n \in 1..6 : n = req.n
  BY <1>1, RequestTimes
<1>3. n # 2 /\ RealTime(req.beg) /\ Fits(n, req.beg) /\ Fits(1, req.beg)
  BY <1>1, <1>2, CalendarFits DEF RealRequests, RealTime
<1>4. req.beg \in Times /\ Zeros \in Times /\ \A i \in 1..6 : Zeros[i] = 0
  BY <1>3, FillingIs DEF Fits, Zeros
<1>5. cur \in Times /\ \A i \in 1..6 : cur[i] = IF i <= n THEN req.beg[i] ELSE 0
  <2>1. cur = Spliced(req.beg, Zeros, n) /\ cur \in Times
    BY <1>1, <1>2, <1>4, PassesAre
  <2> QED
    BY <1>4, <2>1 DEF Spliced
<1>6. cur[1] = req.beg[1] /\ cur[1] >= 100
  BY <1>3, <1>5 DEF RealTime
<1>7. Counts(n, cur)
  <2>1. CASE n = 1
    BY <1>5, <1>6, <2>1 DEF Counts
  <2>2. CASE n > 2
    <3>1. cur[1] = req.beg[1] /\ cur[2] = req.beg[2] /\ cur[3] = req.beg[3]
      BY <1>5, <2>2
    <3>2. cur[4] \in 0..23 /\ cur[5] \in 0..59 /\ cur[6] \in 0..59
      BY <1>3, <1>5 DEF Fits
    <3>3. Fits(n, cur)
      BY <1>3, <1>5, <2>2, <3>1, <3>2 DEF Fits
    <3> QED
      BY <1>5, <1>6, <3>3 DEF Counts
  <2> QED
    BY <1>3, <2>1, <2>2
<1>8. CurNo = FirstNo
  BY <1>1, <1>4, RestartNo DEF CurNo
<1>9. Cardinality(Behold(FirstNo, CurNo)) = 0
  <2>1. FirstNo \in Int
    BY <1>1, NumbersAre
  <2>2. \A b \in always : BlockNo(req.n, b) \in Int
    BY <1>1, NumbersAre
  <2>3. Behold(FirstNo, CurNo) = {}
    BY <1>8, <2>1, <2>2 DEF Behold, Within
  <2> QED
    BY <2>3, FS_EmptySet
<1> QED
  BY <1>1, <1>2, <1>7, <1>9 DEF Seeing

\* A block is looked for by the first pass.
LEMMA CountSees ==
  ASSUME CacheAssumption, RealRequests, Listing, Typing, Seeing, Count, req' = req
  PROVE  Seeing'
<1>1. /\ pc = "count" /\ pc' = "count" /\ UNCHANGED sys /\ cur' = Bumped(cur)
      /\ uMax' = IF Block(cur) \in files THEN uMax + 1 ELSE uMax
  BY DEF Count
<1>2. PICK n \in 1..6 : n = req.n /\ n # 2
  BY NumbersAre DEF Typing
<1>3. Counts(n, cur) /\ cur \in Times
  BY <1>1, <1>2 DEF Seeing, Counts
<1>4. cur' = BumpedBy(n, cur)
  BY <1>1, <1>2, <1>3, PassesAre DEF Typing
<1>5. PICK T : T = cur'
  OBVIOUS
<1>6. /\ Counts(n, T) /\ BlockNo(n, cur) \in Int /\ BlockNo(n, T) \in Int
      /\ BlockNo(n, T) <= BlockNo(n, cur) + 1
  BY <1>2, <1>3, <1>4, <1>5, CountGoesOn
<1>7. ASSUME ~grew
      PROVE  Cardinality(Within(always, n, FirstNo, BlockNo(n, T))) <= uMax'
  <2>1. files = always /\ Cardinality(Within(always, n, FirstNo, BlockNo(n, cur))) <= uMax
    BY <1>1, <1>2, <1>7 DEF Seeing, Behold, CurNo
  <2>2. IsFiniteSet(always) /\ \A b \in always : BlockNo(n, b) \in Int
    BY <1>2, NumbersAre DEF Typing
  <2>3. \A b \in always : BlockNo(n, b) = BlockNo(n, cur) => b = Block(cur)
    BY <1>2, <1>3, FileTold DEF Typing
  <2>4. PICK k : k = Block(cur)
    OBVIOUS
  <2>5. /\ Cardinality(Within(always, n, FirstNo, BlockNo(n, T)))
             <= Cardinality(Within(always, n, FirstNo, BlockNo(n, cur))) + 1
        /\ k \notin always => Cardinality(Within(always, n, FirstNo, BlockNo(n, T)))
                                <= Cardinality(Within(always, n, FirstNo, BlockNo(n, cur)))
    BY <1>6, <2>2, <2>3, <2>4, WithinGrows
  <2>6. /\ Cardinality(Within(always, n, FirstNo, BlockNo(n, T))) \in Nat
        /\ Cardinality(Within(always, n, FirstNo, BlockNo(n, cur))) \in Nat
    BY <2>2, WithinFinite
  <2>7. uMax \in Nat
    BY DEF Listing
  <2>8. CASE k \in always
    BY <1>1, <2>1, <2>4, <2>5, <2>6, <2>7, <2>8
  <2>9. CASE k \notin always
    BY <1>1, <2>1, <2>4, <2>5, <2>6, <2>7, <2>9
  <2> QED
    BY <2>8, <2>9
<1>8. FirstNo' = FirstNo /\ CurNo' = BlockNo(n, T)
  BY <1>2, <1>5 DEF FirstNo, CurNo
<1>9. grew' = grew /\ files' = files /\ always' = always
  BY <1>1 DEF sys
<1>10. Counts(req.n, cur)'
  BY <1>2, <1>5, <1>6
<1>11. (Behold(FirstNo, CurNo))' = Within(always, n, FirstNo, BlockNo(n, T))
  BY <1>2, <1>8, <1>9 DEF Behold
<1>12. ~grew => Cardinality(Behold(FirstNo, CurNo))' <= uMax'
  BY <1>7, <1>11
<1>13. ~grew => files' = always'
  BY <1>1, <1>9 DEF Seeing
<1> QED
  BY <1>1, <1>9, <1>10, <1>12, <1>13 DEF Seeing

\* The first pass is over: the blocks it has passed are those of the range.
LEMMA CountedSees ==
  ASSUME CacheAssumption, RealRequests, Listing, Typing, Passing, Seeing, Counted, req' = req
  PROVE  Seeing'
<1>1. /\ pc = "count" /\ ~Looking /\ pc' = (IF uMax = 0 THEN "open" ELSE "list")
      /\ cur' = Restart(cur) /\ UNCHANGED <<sys, uMax, list>>
  BY DEF Counted
<1>2. PICK n \in 1..6 : n = req.n
  BY NumbersAre DEF Typing
<1>3. Counts(n, cur) /\ cur \in Times
  BY <1>1, <1>2 DEF Seeing, Counts
<1>4. grew' = grew /\ files' = files /\ always' = always
  BY <1>1 DEF sys
<1>5. FirstNo' = FirstNo /\ EndNo' = EndNo /\ CurNo' = FirstNo
  BY <1>1, <1>3, RestartNo DEF Typing, FirstNo, EndNo, CurNo
<1>6. FirstNo \in Int /\ EndNo \in Int /\ CurNo \in Int /\ EndNo <= CurNo
  <2>1. FirstNo \in Int /\ EndNo \in Int /\ Fits(n, FirstAfter)
        /\ EndNo = BlockNo(n, FirstAfter)
    BY <1>2, NumbersAre DEF Typing, EndNo
  <2>2. ~Before(cur, FirstAfter, n)
    BY <1>1, <1>2 DEF Looking
  <2>3. CurNo = BlockNo(n, cur)
    BY <1>2 DEF CurNo
  <2>4. /\ BlockNo(n, cur) \in Int
        /\ BlockNo(n, cur) < BlockNo(n, FirstAfter) => Before(cur, FirstAfter, n)
    BY <1>3, <2>1, CountTells
  <2> QED
    BY <2>1, <2>2, <2>3, <2>4
<1>7. /\ IsFiniteSet(always) /\ \A b \in always : BlockNo(n, b) \in Int
  BY <1>2, NumbersAre DEF Typing
<1>8. ASSUME ~grew
      PROVE  Cardinality(Behold(FirstNo, EndNo)) <= uMax
  <2>1. Cardinality(Behold(FirstNo, CurNo)) <= uMax
    BY <1>1, <1>8 DEF Seeing
  <2>2. PICK V, W : V = Within(always, n, FirstNo, EndNo) /\ W = Within(always, n, FirstNo, CurNo)
    OBVIOUS
  <2>3. V \subseteq W
    BY <1>6, <1>7, <2>2 DEF Within
  <2>4. Cardinality(V) \in Nat /\ Cardinality(V) <= Cardinality(W) /\ Cardinality(W) \in Nat
    BY <1>7, <2>2, <2>3, WithinFinite
  <2>5. Cardinality(W) <= uMax /\ uMax \in Nat
    BY <1>2, <2>1, <2>2 DEF Behold, Listing
  <2>6. Cardinality(V) <= uMax
    BY <2>4, <2>5
  <2> QED
    BY <1>2, <2>2, <2>6 DEF Behold
<1>9. CASE uMax = 0
  <2>1. ASSUME ~grew
        PROVE  Behold(FirstNo, EndNo) = {}
    <3>1. PICK V : V = Behold(FirstNo, EndNo)
      OBVIOUS
    <3>2. IsFiniteSet(V) /\ Cardinality(V) \in Nat
      BY <1>7, <3>1, WithinFinite DEF Behold
    <3>3. Cardinality(V) = 0
      BY <1>8, <1>9, <2>1, <3>1, <3>2
    <3> QED
      BY <3>1, <3>2, <3>3, FS_EmptySet
  <2>2. (Behold(FirstNo, EndNo))' = Behold(FirstNo, EndNo)
    BY <1>4, <1>5 DEF Behold
  <2> QED
    BY <1>1, <1>4, <1>9, <2>1, <2>2 DEF Seeing
<1>10. CASE uMax # 0
  <2>1. list = <<>> /\ list' = <<>>
    BY <1>1 DEF Passing
  <2>2. (Behold(CurNo, EndNo))' = Behold(FirstNo, EndNo)
    BY <1>4, <1>5 DEF Behold
  <2>3. (Behold(FirstNo, CurNo))' = Within(always, req.n, FirstNo, FirstNo)
    BY <1>4, <1>5 DEF Behold
  <2>4. \A b \in Within(always, req.n, FirstNo, FirstNo) : FALSE
    BY <1>2, <1>6, <1>7 DEF Within
  <2>5. ASSUME ~grew
        PROVE  Len(list') + Cardinality(Behold(CurNo, EndNo))' <= uMax'
    <3>1. Cardinality(Behold(FirstNo, EndNo)) \in Nat
      BY <1>7, WithinFinite DEF Behold
    <3>2. Len(list') = 0
      BY <2>1
    <3>3. Cardinality(Behold(FirstNo, EndNo)) <= uMax'
      BY <1>1, <1>8, <2>5
    <3> QED
      BY <2>2, <3>1, <3>2, <3>3
  <2>6. ~grew => files' = always'
    BY <1>1, <1>4 DEF Seeing
  <2> QED
    BY <1>1, <1>4, <1>10, <2>3, <2>4, <2>5, <2>6 DEF Seeing
<1> QED
  BY <1>9, <1>10

\* The second pass has come to a block.
LEMMA ListSees ==
  ASSUME CacheAssumption, RealRequests, Listing, Typing, Passing, Seeing, List, req' = req
  PROVE  Seeing'
<1>1. /\ pc = "list" /\ pc' = "list" /\ Looking /\ cur' = Bumped(cur)
      /\ list' = (IF Block(cur) \in files THEN Append(list, Block(cur)) ELSE list)
      /\ UNCHANGED <<sys, uMax>>
  BY DEF List
<1>2. PICK n \in 1..6 : n = req.n /\ n # 2
  BY NumbersAre DEF Typing
<1>3. Fits(n, cur) /\ cur[1] >= 100 /\ cur \in Times /\ Counts(n, cur)
  BY <1>1, <1>2 DEF Passing, Typing, Counts
<1>4. grew' = grew /\ files' = files /\ always' = always
  BY <1>1 DEF sys
<1>5. PICK T : T = cur'
  OBVIOUS
<1>6. Fits(n, T) /\ BlockNo(n, T) = BlockNo(n, cur) + 1
  <2>1. T = BumpedBy(n, cur)
    BY <1>1, <1>2, <1>3, <1>5, PassesAre DEF Typing
  <2> QED
    BY <1>2, <1>3, <2>1, PassesGoOn
<1>7. PICK c, d \in Int : c = BlockNo(n, cur) /\ d = BlockNo(n, T) /\ d = c + 1
  BY <1>3, <1>6, BlockNoOrders
<1>8. FirstNo' = FirstNo /\ EndNo' = EndNo /\ CurNo = c /\ CurNo' = d
  BY <1>2, <1>5, <1>7 DEF FirstNo, EndNo, CurNo
<1>9. EndNo \in Int /\ FirstNo \in Int /\ c < EndNo
  <2>1. EndNo \in Int /\ FirstNo \in Int /\ Fits(n, FirstAfter) /\ EndNo = BlockNo(n, FirstAfter)
    BY <1>2, NumbersAre DEF Typing, EndNo
  <2>2. Before(cur, FirstAfter, n)
    BY <1>1, <1>2 DEF Looking
  <2>3. BlockNo(n, cur) < BlockNo(n, FirstAfter)
    BY <1>3, <2>1, <2>2, BlockNoOrders
  <2> QED
    BY <1>7, <2>1, <2>3
<1>10. IsFiniteSet(always) /\ \A b \in always : BlockNo(n, b) \in Int
  BY <1>2, NumbersAre DEF Typing
<1>11. PICK k : k = Block(cur)
  OBVIOUS
<1>12. \A b \in always : BlockNo(n, b) = c => b = k
  BY <1>2, <1>3, <1>7, <1>11, FileTold DEF Typing
<1>13. BlockNo(n, k) = c
  <2>1. k = SubSeq(cur, 1, n)
    BY <1>2, <1>11, Zenon DEF Block
  <2> QED
    BY <1>3, <1>7, <2>1, HeadNo
<1>14. PICK m \in Nat : m = Len(list) /\ AnySeq(list)
  BY AppendIs DEF Listing
<1>15. ASSUME ~grew
       PROVE  /\ Len(list') + Cardinality(Within(always, n, d, EndNo)) <= uMax
              /\ \A b \in Within(always, n, FirstNo, d) : \E i \in 1..Len(list') : list'[i] = b
  <2>1. /\ files = always /\ m + Cardinality(Within(always, n, c, EndNo)) <= uMax
        /\ \A b \in Within(always, n, FirstNo, c) : \E i \in 1..m : list[i] = b
    BY <1>1, <1>2, <1>8, <1>14, <1>15 DEF Seeing, Behold, IsListed
  <2>2. PICK p, q \in Nat :
          /\ p = Cardinality(Within(always, n, c, EndNo))
          /\ q = Cardinality(Within(always, n, d, EndNo))
    BY <1>10, WithinFinite
  <2>3. q <= p /\ (k \in always => q + 1 <= p)
    BY <1>7, <1>9, <1>10, <1>13, <2>2, WithinShrinks
  <2>4. \A b \in Within(always, n, FirstNo, d) : b \in Within(always, n, FirstNo, c) \/ b = k
    BY <1>7, <1>9, <1>10, <1>12 DEF Within
  <2>5. uMax \in Nat
    BY DEF Listing
  <2>6. CASE k \in always
    <3>1. list' = Append(list, k)
      BY <1>1, <1>11, <2>1, <2>6
    <3>2. Len(list') = m + 1 /\ (\A i \in 1..m : list'[i] = list[i]) /\ list'[m + 1] = k
      BY <1>14, <3>1, AppendIs
    <3>3. ASSUME NEW b \in Within(always, n, FirstNo, d)
          PROVE  \E i \in 1..(m + 1) : list'[i] = b
      <4>1. CASE b = k
        BY <3>2, <4>1
      <4>2. CASE b \in Within(always, n, FirstNo, c)
        <5>1. PICK i \in 1..m : list[i] = b
          BY <2>1, <4>2
        <5> QED
          BY <3>2, <5>1
      <4> QED
        BY <2>4, <3>3, <4>1, <4>2
    <3> QED
      BY <2>1, <2>2, <2>3, <2>5, <2>6, <3>2, <3>3
  <2>7. CASE k \notin always
    <3>1. list' = list
      BY <1>1, <1>11, <2>1, <2>7
    <3>2. \A b \in Within(always, n, FirstNo, d) : b \in Within(always, n, FirstNo, c)
      <4>1. \A b \in Within(always, n, FirstNo, d) : b \in always
        BY DEF Within
      <4> QED
        BY <2>4, <2>7, <4>1
    <3> QED
      BY <1>14, <2>1, <2>2, <2>3, <2>5, <3>1, <3>2
  <2> QED
    BY <2>6, <2>7
<1>16. (Behold(CurNo, EndNo))' = Within(always, n, d, EndNo)
       /\ (Behold(FirstNo, CurNo))' = Within(always, n, FirstNo, d)
  BY <1>2, <1>4, <1>8 DEF Behold
<1>17. ~grew => files' = always'
  BY <1>1, <1>4 DEF Seeing
<1> QED
  BY <1>1, <1>4, <1>15, <1>16, <1>17 DEF Seeing, IsListed

\* The second pass is over, because the range is or there is no room left.
LEMMA ListedSees ==
  ASSUME CacheAssumption, RealRequests, Listing, Typing, Passing, Seeing, Listed, req' = req
  PROVE  Seeing'
<1>1. /\ pc = "list" /\ pc' = "open" /\ ~(Looking /\ Len(list) < uMax)
      /\ UNCHANGED <<sys, uMax, list, cur>>
  BY DEF Listed
<1>2. PICK n \in 1..6 : n = req.n
  BY NumbersAre DEF Typing
<1>3. Fits(n, cur)
  BY <1>1, <1>2 DEF Passing
<1>4. grew' = grew /\ files' = files /\ always' = always
  BY <1>1 DEF sys
<1>5. EndNo \in Int /\ FirstNo \in Int /\ Fits(n, FirstAfter) /\ EndNo = BlockNo(n, FirstAfter)
  BY <1>2, NumbersAre DEF Typing, EndNo
<1>6. PICK c \in Int : c = CurNo /\ c = BlockNo(n, cur)
  BY <1>2, <1>3, <1>5, BlockNoOrders DEF CurNo
<1>7. IsFiniteSet(always) /\ \A b \in always : BlockNo(n, b) \in Int
  BY <1>2, NumbersAre DEF Typing
<1>8. ASSUME ~grew, NEW b \in Within(always, n, FirstNo, EndNo)
      PROVE  IsListed(b)
  <2>1. /\ Len(list) + Cardinality(Within(always, n, c, EndNo)) <= uMax
        /\ \A z \in Within(always, n, FirstNo, c) : IsListed(z)
    BY <1>1, <1>2, <1>6, <1>8 DEF Seeing, Behold
  <2>2. b \in always /\ BlockNo(n, b) \in Int /\ FirstNo <= BlockNo(n, b) /\ BlockNo(n, b) < EndNo
    BY <1>7, <1>8 DEF Within
  <2>3. CASE BlockNo(n, b) < c
    <3>1. b \in Within(always, n, FirstNo, c)
      BY <2>2, <2>3 DEF Within
    <3> QED
      BY <2>1, <3>1
  <2>4. CASE ~(BlockNo(n, b) < c)
    <3>1. b \in Within(always, n, c, EndNo)
      BY <1>6, <2>2, <2>4 DEF Within
    <3>2. Looking
      <4>1. BlockNo(n, cur) < BlockNo(n, FirstAfter)
        BY <1>5, <1>6, <2>2, <2>4
      <4>2. Before(cur, FirstAfter, n)
        BY <1>3, <1>5, <4>1, BlockNoOrders
      <4> QED
        BY <1>2, <4>2 DEF Looking
    <3>3. Len(list) \in Nat /\ uMax \in Nat /\ ~(Len(list) < uMax)
      BY <1>1, <3>2, AppendIs DEF Listing
    <3>4. PICK W : W = Within(always, n, c, EndNo)
      OBVIOUS
    <3>5. IsFiniteSet(W) /\ Cardinality(W) \in Nat
      BY <1>7, <3>4, WithinFinite
    <3>6. Cardinality(W) = 0
      BY <2>1, <3>3, <3>4, <3>5
    <3>7. W = {}
      BY <3>5, <3>6, FS_EmptySet
    <3> QED
      BY <3>1, <3>4, <3>7
  <2> QED
    BY <2>3, <2>4
<1>9. (Behold(FirstNo, EndNo))' = Within(always, n, FirstNo, EndNo)
  BY <1>2, <1>4 DEF Behold, FirstNo, EndNo
<1> QED
  BY <1>1, <1>4, <1>8, <1>9 DEF Seeing, IsListed

\* A file goes: it is not among those that stay.
LEMMA VanishSees ==
  ASSUME CacheAssumption, RealRequests, Listing, Typing, Seeing, NEW b, Vanish(b), req' = req
  PROVE  Seeing'
<1>1. /\ UNCHANGED <<grew, rdr>> /\ files' = files \ {b}
      /\ always' = (IF pc = "open" THEN always ELSE always \ {b})
  BY DEF Vanish
<1>2. pc \in {"count", "list", "open"}
  BY DEF Vanish
<1>3. UNCHANGED <<pc, list, uMax, cur>>
  BY <1>1 DEF rdr
<1>4. FirstNo' = FirstNo /\ EndNo' = EndNo /\ CurNo' = CurNo
  BY <1>3 DEF FirstNo, EndNo, CurNo
<1>5. IsFiniteSet(always)
  BY NumbersAre DEF Typing
<1>6. ASSUME NEW lo, NEW hi
      PROVE  /\ Within(always', req.n, lo, hi) \subseteq Within(always, req.n, lo, hi)
             /\ Cardinality(Within(always', req.n, lo, hi)) \in Nat
             /\ Cardinality(Within(always, req.n, lo, hi)) \in Nat
             /\ Cardinality(Within(always', req.n, lo, hi))
                  <= Cardinality(Within(always, req.n, lo, hi))
  <2>1. always' \subseteq always
    BY <1>1
  <2>2. Within(always', req.n, lo, hi) \subseteq Within(always, req.n, lo, hi)
    BY <2>1 DEF Within
  <2> QED
    BY <1>5, <2>2, WithinFinite
<1>7. (Counts(req.n, cur))' = Counts(req.n, cur)
  BY <1>3
<1>8. uMax \in Nat /\ Len(list) \in Nat
  BY AppendIs DEF Listing
<1>9. ASSUME ~grew
      PROVE  /\ pc \in {"count", "list"} => files' = always'
             /\ pc = "count" => Cardinality(Within(always', req.n, FirstNo, CurNo)) <= uMax
             /\ pc = "list" =>
                  /\ Len(list) + Cardinality(Within(always', req.n, CurNo, EndNo)) <= uMax
                  /\ \A z \in Within(always', req.n, FirstNo, CurNo) : IsListed(z)
             /\ pc \in {"open", "read", "done"} =>
                  \A z \in Within(always', req.n, FirstNo, EndNo) : IsListed(z)
  <2>1. pc \in {"count", "list"} => files' = always'
    BY <1>1, <1>9 DEF Seeing
  <2>2. pc = "count" => Cardinality(Within(always', req.n, FirstNo, CurNo)) <= uMax
    BY <1>6, <1>8, <1>9 DEF Seeing, Behold
  <2>3. pc = "list" => Len(list) + Cardinality(Within(always', req.n, CurNo, EndNo)) <= uMax
    BY <1>6, <1>8, <1>9 DEF Seeing, Behold
  <2>4. pc = "list" => \A z \in Within(always', req.n, FirstNo, CurNo) : IsListed(z)
    BY <1>6, <1>9 DEF Seeing, Behold
  <2>5. pc \in {"open", "read", "done"} =>
          \A z \in Within(always', req.n, FirstNo, EndNo) : IsListed(z)
    BY <1>6, <1>9 DEF Seeing, Behold
  <2> QED
    BY <2>1, <2>2, <2>3, <2>4, <2>5
<1>10. pc' = pc /\ uMax' = uMax /\ list' = list /\ (~grew' => ~grew)
  BY <1>1, <1>3
<1> QED
  BY <1>4, <1>7, <1>9, <1>10 DEF Seeing, Behold, IsListed

\* A file comes: from then on nothing is said, or the passes are over.
LEMMA AppearSees ==
  ASSUME Seeing, NEW b, Appear(b), req' = req
  PROVE  Seeing'
<1>1. /\ UNCHANGED <<always, rdr>> /\ grew' = (grew \/ pc \in {"count", "list"})
      /\ pc \in {"count", "list", "open"}
  BY DEF Appear
<1>2. UNCHANGED <<pc, list, uMax, cur, always>>
  BY <1>1 DEF rdr
<1>3. (Counts(req.n, cur))' = Counts(req.n, cur)
  BY <1>2
<1>4. CASE pc \in {"count", "list"}
  <2>1. grew'
    BY <1>1, <1>4, Zenon
  <2> QED
    BY <1>2, <1>3, <2>1 DEF Seeing
<1>5. CASE pc = "open"
  <2>1. ~grew' => ~grew
    BY <1>1, Zenon
  <2>2. (Behold(FirstNo, EndNo))' = Behold(FirstNo, EndNo)
    BY <1>2 DEF Behold, FirstNo, EndNo
  <2>3. ~grew' => \A z \in Behold(FirstNo, EndNo) : IsListed(z)
    BY <1>5, <2>1 DEF Seeing
  <2> QED
    BY <1>2, <1>3, <1>5, <2>2, <2>3 DEF Seeing, IsListed
<1> QED
  BY <1>1, <1>4, <1>5

\* Nothing of it changes once the files are listed.
LEMMA ReadSees ==
  ASSUME Seeing, UNCHANGED <<sys, req, list>>,
         pc \in {"open", "read"}, pc' \notin {"count", "list"}
  PROVE  Seeing'
<1>1. grew' = grew /\ always' = always /\ list' = list
  BY DEF sys
<1>2. (Behold(FirstNo, EndNo))' = Behold(FirstNo, EndNo)
  BY <1>1 DEF Behold, FirstNo, EndNo
<1> QED
  BY <1>1, <1>2 DEF Seeing, IsListed

\* No step loses sight of a file that stays.
LEMMA SeeingStep ==
  ASSUME CacheAssumption, RealRequests, Listing, Typing, Passing, Seeing, [Next]_vars
  PROVE  Seeing'
<1>1. req' = req
  BY RequestStays
<1>2. CASE Count
  BY <1>1, <1>2, CountSees
<1>3. CASE Counted
  BY <1>1, <1>3, CountedSees
<1>4. CASE List
  BY <1>1, <1>4, ListSees
<1>5. CASE Listed
  BY <1>1, <1>5, ListedSees
<1>6. CASE Open \/ OpenFails \/ FileEnds \/ FileBreaks \/ Finish
  <2>1. UNCHANGED <<sys, req, list>> /\ pc \in {"open", "read"} /\ pc' \notin {"count", "list"}
    BY <1>6 DEF Open, OpenFails, FileEnds, FileBreaks, Finish
  <2> QED
    BY <2>1, ReadSees
<1>7. CASE ReadRow
  <2>1. UNCHANGED <<sys, req, list>> /\ pc \in {"open", "read"} /\ pc' \notin {"count", "list"}
    BY <1>7 DEF ReadRow
  <2> QED
    BY <2>1, ReadSees
<1>8. CASE \E f \in Formats : ReadPktHdr(f)
  <2>1. UNCHANGED <<sys, req, list>> /\ pc \in {"open", "read"} /\ pc' \notin {"count", "list"}
    BY <1>8 DEF ReadPktHdr
  <2> QED
    BY <2>1, ReadSees
<1>9. CASE \E b \in BlocksOf(req) : Appear(b) \/ Vanish(b)
  BY <1>1, <1>9, AppearSees, VanishSees
<1>10. CASE UNCHANGED vars
  <2>1. UNCHANGED <<files, grew, always, pc, list, uMax, cur>>
    BY <1>10 DEF vars, sys, rdr
  <2> QED
    BY <1>1, <2>1 DEF Seeing, Behold, IsListed, FirstNo, EndNo, CurNo
<1> QED
  BY <1>2, <1>3, <1>4, <1>5, <1>6, <1>7, <1>8, <1>9, <1>10 DEF Next

\* A row of the range is of one of the blocks the passes go through.
LEMMA InsideSeen ==
  ASSUME CacheAssumption, RealRequests, req \in Requests,
         NEW x \in req.rows, Inside(x), Block(x) \in always
  PROVE  Block(x) \in Behold(FirstNo, EndNo)
<1>1. PICK n \in 1..6 : n = req.n /\ n # 2
  BY RequestTimes DEF RealRequests
<1>2. RealTime(req.beg) /\ RealTime(req.end) /\ InCalendar(x)
      /\ (n < 5 /\ req.end[6] > 0 => \E i \in (n + 1)..5 : req.end[i] > 0)
  BY <1>1 DEF RealRequests
<1>3. x \in Times
  BY <1>2 DEF InCalendar
<1>4. BlockNo(n, req.beg) <= BlockNo(n, x)
  BY <1>2, BeginCovers DEF Inside, RealTime
<1>5. BlockNo(n, x) < BlockNo(n, EndOf(n, req.end))
  BY <1>1, <1>2, EndCovers DEF Inside
<1>6. PICK b : b = Block(x)
  OBVIOUS
<1>7. b = SubSeq(x, 1, n)
  BY <1>1, <1>6, Zenon DEF Block
<1>8. BlockNo(n, b) = BlockNo(n, x)
  BY <1>3, <1>7, HeadNo
<1>9. b \in Behold(FirstNo, EndNo)
  BY <1>1, <1>4, <1>5, <1>6, <1>8 DEF Behold, Within, FirstNo, EndNo
<1> QED
  BY <1>6, <1>9

\* Every file of the range that is there all the time is listed, once and in the order
\* of time, unless another one comes while the files are listed.  The blocks are not
\* months: to these tnorm may add one month too many (the run of monthly levels shows
\* it).  For blocks of a day or an hour, a part of the last one that the seconds of the
\* end alone reach into is not looked for (das2_cache_rdr.c:378), so that such ranges
\* are left out.
THEOREM BlocksListed ==
  ASSUME RealRequests
  PROVE  Spec => []BlocksServed
<1> DEFINE IInv == Listing /\ Typing /\ Passing /\ Seeing
<1>1. RealBegins
  BY DEF RealRequests, RealBegins
<1>2. Init => IInv
  BY CacheAssumption, ListingInit, TypingInit, PassingInit, SeeingInit
<1>3. IInv /\ [Next]_vars => IInv'
  BY <1>1, CacheAssumption, ListingStep, TypingStep, PassingStep, SeeingStep
<1>4. IInv => BlocksServed
  <2> SUFFICES ASSUME IInv, pc \in {"open", "read", "done"}
               PROVE  /\ \A i, j \in 1..Len(list) : i < j => Before(list[i], list[j], req.n)
                      /\ ~grew => \A x \in req.rows : Inside(x) /\ Block(x) \in always
                                    => \E i \in 1..Len(list) : list[i] = Block(x)
    BY DEF BlocksServed
  <2>1. \A i, j \in 1..Len(list) : i < j => Before(list[i], list[j], req.n)
    BY DEF Passing, InOrder
  <2>2. ASSUME ~grew, NEW x \in req.rows, Inside(x), Block(x) \in always
        PROVE  \E i \in 1..Len(list) : list[i] = Block(x)
    <3>1. req \in Requests
      BY DEF Typing
    <3>2. Block(x) \in Behold(FirstNo, EndNo)
      BY <2>2, <3>1, CacheAssumption, InsideSeen
    <3>3. IsListed(Block(x))
      BY <2>2, <3>2 DEF Seeing
    <3> QED
      BY <3>3 DEF IsListed
  <2> QED
    BY <2>1, <2>2
<1> QED
  BY <1>2, <1>3, <1>4, PTL DEF Spec
=============================================================================
