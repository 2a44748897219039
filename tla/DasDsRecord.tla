------------------------------ MODULE DasDsRecord ------------------------------
(* One record of a dataset as a data packet (das2/dataset.c, codec.c and the *)
(* array iterator): the codecs of a dataset take turns at the packet, each   *)
(* for the array of its variable.  A packet is a sequence of tokens: values, *)
(* separators, run terminators, run tags "[j|n]", item lengths "{n}" and     *)
(* padding.  A variable is described by                                      *)
(*   ext    extents of its external indices, the record index first, 0 for   *)
(*          ragged                                                           *)
(*   int    extents of its internal index: <<>> scalar, <<n>> vector, <<0>>  *)
(*          string or blob                                                   *)
(*   enc    "bin" and "fix", values of fixed width, binary and text; "var",  *)
(*          text values and "str", strings, both ended by a separator;       *)
(*          "blob", bytes after their number                                 *)
(*   blank  the separator is blanks (DASENC_EAT_SPACE), not a mark such as ; *)
(*   terms  how many run terminators its idxTerm declares                    *)
(* Index k here is index k-1 in C, as in ArrayOps; a location picks its run. *)
EXTENDS ArrayOps

CONSTANTS
  Layouts,    \* datasets: the variables of a packet, in order
  Vals,       \* values and bytes
  Nul,        \* the byte that ends a stored string
  Bad,        \* text that cannot be read as a value
  ErrWidth,   \* how many fields wide the number of an error is, taken for a length
  MaxRun,     \* bound: items in a ragged run
  MaxRecs,    \* bound: records in a dataset, by layout
  Habits      \* what else the other end may send: see OddItems

ASSUME RecordAssumption ==
  /\ \A lay \in Layouts : lay # <<>> /\ \A i \in DOMAIN lay :
       lay[i].ext # <<>> /\ Head(lay[i].ext) = 0 /\ Len(lay[i].int) <= 1
  /\ MaxRun \in Nat \ {0} /\ MaxRecs \in [Layouts -> Nat \ {0}] /\ ErrWidth \in Nat
  /\ Habits \subseteq {"bad text", "empty blob", "part vector", "empty word", "empty frame"}

Tok(kind, x) == <<kind, x>>
Is(w, kind) == w # <<>> /\ Head(w)[1] = kind
From(w, n) == SubSeq(w, n + 1, Len(w))
Blank(v, w) == Is(w, "pad") \/ (v.blank /\ Is(w, "sep"))
RECURSIVE Unpadded(_, _)
Unpadded(v, w) == IF Blank(v, w) THEN Unpadded(v, Tail(w)) ELSE w

Shape(v) == v.ext \o v.int
Text(v) == v.enc \in {"fix", "var", "str"}
RaggedIn(v) == {k \in 2..Len(v.ext) : v.ext[k] = 0}   \* DasCodec_raggedIndices
Deepest(v) == Max(RaggedIn(v))
Bytes(v) == v.enc \in {"str", "blob"}
Product(s) == FoldLeft(LAMBDA x, y : x * y, 1, s)

\* lItems: values a packet has for the variable, -1 for any number
PktItems(v) ==
  IF RaggedIn(v) # {} THEN -1
  ELSE Product(Tail(IF Bytes(v) THEN v.ext ELSE Shape(v)))

-----------------------------------------------------------------------------
(* Decoding items.  A decoder returns its array, the packet left over, how   *)
(* many items it read, and whether all went well.                            *)

Decoded(s, w, got) == [s |-> s, w |-> w, got |-> got, ok |-> TRUE]
Refused(s) == [s |-> s, w |-> <<>>, got |-> 0, ok |-> FALSE]

\* An error comes back from _convert_n_store_text negative and is negated once
\* more: to the callers it is a number of bytes.
LostIn(s, w, got) ==
  IF ErrWidth > Len(w) THEN Refused(s) ELSE Decoded(s, From(w, ErrWidth), got)

\* DasCodec_decode, fixed width: one append of native values, text field by field.
DecodeFixed(v, s, w, n) ==
  LET run == SelectInSeq(w, LAMBDA t : t[1] # "val")
      here == IF run = 0 THEN Len(w) ELSE run - 1
      m == IF n > 0 THEN n ELSE here
      vals == [i \in 1..m |-> w[i][2]]
      bad == SelectInSeq(vals, LAMBDA x : x = Bad)
      store(t, x) == Appended(t, <<x>>)
  IN  IF here < m \/ m = 0 THEN Refused(s)
      ELSE IF v.enc = "bin" THEN Decoded(Appended(s, vals), From(w, m), m)
      ELSE IF bad = 0 THEN Decoded(FoldLeft(store, s, vals), From(w, m), m)
      ELSE LostIn(FoldLeft(store, s, SubSeq(vals, 1, bad - 1)), w, m)

\* What comes next is no item: a run terminator of the variable, or nothing.
Ends(v, w) == w = <<>> \/ (Is(w, "term") /\ Head(w)[2] <= v.terms)
\* Faulty variant: the end of a string is not marked.
StoreItemNoEnd(v, s, x) == Appended(s, IF v.enc = "var" THEN <<x>> ELSE Append(x, Nul))

StoreItem(v, s, x) ==
  IF v.enc = "var" THEN Appended(s, <<x>>)
  ELSE Marked(Appended(s, Append(x, Nul)), Rank(s))

\* An item of no text: a value to be missed, or a string of no bytes.
NoText(v) == IF v.enc = "var" THEN FillVal ELSE <<>>

\* An item takes its separator with it: the blanks up to a mark and the mark, or
\* one blank.
AfterItem(v, w) ==
  LET w1 == IF v.blank THEN w ELSE Unpadded(v, w)
  IN  IF Is(w1, "sep") \/ Blank(v, w1) THEN Tail(w1) ELSE w1

RECURSIVE ReadItems(_, _, _, _, _)
\* The value reading loop of _var_text_read, up to text that is no value.  Blanks
\* before an item are skipped where they separate, so that no item is of no text.
ReadItems(v, s, w, n, got) ==
  LET first == IF v.blank THEN Unpadded(v, w) ELSE w
      item == Unpadded(v, w)
      text == Is(item, "val")
      x == IF text THEN Head(item)[2] ELSE NoText(v)
  IN  IF got = n THEN Decoded(s, w, got)
      ELSE IF Ends(v, first) THEN Decoded(s, first, got)
      ELSE IF x = Bad THEN [Decoded(s, w, got) EXCEPT !.ok = FALSE]
      ELSE ReadItems(v, StoreItem(v, s, x), AfterItem(v, IF text THEN Tail(item) ELSE item),
                     n, got + 1)

\* _var_text_read: what is lost to an error is lost from the start of the packet
\* as it was given.
DecodeVar(v, s, w, n) ==
  LET d == ReadItems(v, s, w, n, 0) IN IF d.ok THEN d ELSE LostIn(d.s, w, d.got)

\* _blob_read
RECURSIVE DecodeBlob(_, _, _, _, _)
DecodeBlob(v, s, w, n, got) ==
  LET size == Head(w)[2]
      field == w[2][2]
      s1 == IF size = 0 THEN s ELSE Appended(s, field)
  IN  IF w = <<>> \/ got = n THEN Decoded(s, w, got)
      ELSE IF ~Is(w, "len") \/ (size > 0 /\ ~Is(Tail(w), "val")) THEN Refused(s)
      ELSE DecodeBlob(v, Marked(s1, Rank(s)), From(w, IF size = 0 THEN 1 ELSE 2), n, got + 1)

\* DasCodec_decode
DecodeItems(v, s, w, n) ==
  IF w = <<>> THEN Decoded(s, w, 0)
  ELSE IF v.enc \in {"bin", "fix"} THEN DecodeFixed(v, s, w, n)
  ELSE IF v.enc = "blob" THEN DecodeBlob(v, s, w, n, 0)
  ELSE DecodeVar(v, s, w, n)

-----------------------------------------------------------------------------
(* Decoding runs that end with terminators.                                  *)

\* _run_walk_plan: the terminator of index k, 0 when its runs end by count.
TermOf(v, k) ==
  IF v.terms = Cardinality(RaggedIn(v))
  THEN IF k \in RaggedIn(v) THEN Cardinality({j \in RaggedIn(v) : j <= k}) ELSE 0
  ELSE IF k \in 2..Deepest(v) THEN k - 1 ELSE 0
IndexOf(v, t) == CHOOSE k \in 2..Deepest(v) : TermOf(v, k) = t

\* A walk: the array, the packet left over, what is open of each index's run.
Walking(s, w, run) == [s |-> s, w |-> w, run |-> run, state |-> "on"]

RECURSIVE CloseRun(_, _, _)
\* _close_run: the run of index k is one item of the run of index k-1, which
\* closes with it when it is full and has no terminator of its own.
CloseRun(v, st, k) ==
  LET up == [st EXCEPT !.s = IF v.ext[k] = 0 THEN Marked(@, k) ELSE @,
                       !.run[k] = 0, !.run[k - 1] = @ + 1]
  IN  IF k = 2 THEN [up EXCEPT !.state = "done"]
      ELSE IF v.ext[k - 1] = 0 THEN up
      ELSE IF TermOf(v, k - 1) # 0
           THEN IF up.run[k - 1] > v.ext[k - 1] THEN [up EXCEPT !.state = "bad"] ELSE up
      ELSE IF up.run[k - 1] < v.ext[k - 1] THEN up
      ELSE CloseRun(v, up, k - 1)

\* Faulty variant: a fixed run is only looked at when it is too long.
PartialLong(v, st, k) == v.ext[k] # 0 /\ st.run[k] > v.ext[k]

\* A fixed run that is not full.
Partial(v, st, k) == v.ext[k] # 0 /\ st.run[k] # v.ext[k]

\* _close_deeper: an outer terminator closes the runs still open below index k.
CloseDeeper(v, st, k) ==
  FoldLeft(LAMBDA t, e : IF t.state # "on" \/ t.run[e] = 0 THEN t
                         ELSE IF Partial(v, t, e) THEN [t EXCEPT !.state = "bad"]
                         ELSE CloseRun(v, t, e),
           st, [i \in 1..(Deepest(v) - k) |-> Deepest(v) + 1 - i])

RECURSIVE CloseAtEdge(_, _)
\* The end of the packet closes every open run, the deepest first.
CloseAtEdge(v, st) ==
  LET open == {k \in 2..Deepest(v) : st.run[k] # 0}
  IN  IF st.state # "on" THEN st
      ELSE IF open = {} \/ Partial(v, st, Max(open)) THEN [st EXCEPT !.state = "bad"]
      ELSE CloseAtEdge(v, CloseRun(v, st, Max(open)))

CloseAtTerm(v, st, k) ==
  LET below == CloseDeeper(v, st, k)
  IN  IF below.state # "on" THEN below
      ELSE IF Partial(v, below, k) \/ below.run[k] = 0 THEN [below EXCEPT !.state = "bad"]
      ELSE CloseRun(v, below, k)

\* An item, which must be there.
ItemWalked(v, st, d) ==
  IF ~d.ok \/ Len(d.w) = Len(st.w) THEN [st EXCEPT !.s = d.s, !.state = "bad"]
  ELSE [st EXCEPT !.s = d.s, !.w = d.w, !.run[Deepest(v)] = @ + d.got]

\* Padding goes with a terminator that follows it.
WalkOn(v, st, last) ==
  LET peek == Unpadded(v, st.w)
  IN  IF peek = <<>> THEN IF last THEN CloseAtEdge(v, [st EXCEPT !.w = <<>>])
                          ELSE [st EXCEPT !.state = "bad"]
      ELSE IF Is(peek, "term")
           THEN CloseAtTerm(v, [st EXCEPT !.w = Tail(peek)], IndexOf(v, Head(peek)[2]))
      ELSE ItemWalked(v, st, DecodeItems(v, st.s, st.w, 1))

RECURSIVE DecodeRuns(_, _, _)
\* DasCodec_decodeRuns
DecodeRuns(v, st, last) ==
  IF st.state = "on" THEN DecodeRuns(v, WalkOn(v, st, last), last)
  ELSE IF st.state = "done" THEN Decoded(st.s, st.w, 1)
  ELSE Refused(st.s)

-----------------------------------------------------------------------------
(* Decoding runs that begin with tags, and whole packets.                    *)

\* One after the other, for as long as all goes well.
Chain(step(_, _), s, w, n) ==
  FoldLeft(LAMBDA r, i : IF r.ok THEN step(r.s, r.w) ELSE r, Decoded(s, w, 1),
           [i \in 1..n |-> i])

Exactly(d, n) == IF d.got = n THEN d ELSE Refused(d.s)
MarkEnd(d, k) == IF d.ok THEN [d EXCEPT !.s = Marked(@, k)] ELSE d

RECURSIVE DecodeTagged(_, _, _, _)
\* _decode_ragged_run, _read_run_tag
DecodeTagged(v, s, w, k) ==
  LET count == Head(w)[2]
      below(t, x) == DecodeTagged(v, t, x, k + 1)
  IN  IF v.ext[k] # 0 THEN Chain(below, s, w, v.ext[k])
      ELSE IF ~Is(w, "tag") \/ count = 0 THEN Refused(s)
      ELSE MarkEnd(IF k = Deepest(v)
                   THEN Exactly(DecodeItems(v, s, Tail(w), count), count)
                   ELSE Chain(below, s, Tail(w), count), k)

\* How the runs of a variable are bounded: with terminators in text, by the end
\* of the packet for one run of text that comes last, with tags otherwise.
Framing(v, last) ==
  IF PktItems(v) > 0 THEN "count"
  ELSE IF Text(v) /\ v.terms > 0 THEN "terms"
  ELSE IF Text(v) /\ last /\ Deepest(v) = 2 THEN "frame"
  ELSE "tags"

\* One turn of DasDs_decodeData.
DecodeTurn(v, s, w, last) ==
  LET n == PktItems(v)
  IN  IF w = <<>> THEN Refused(s)
      ELSE CASE Framing(v, last) = "terms" ->
                  DecodeRuns(v, Walking(s, w, [k \in 1..Deepest(v) |-> 0]), last)
             [] Framing(v, last) = "tags" -> DecodeTagged(v, s, w, 2)
             [] Framing(v, last) = "frame" -> MarkEnd(DecodeItems(v, s, w, n), 2)
             [] OTHER -> Exactly(DecodeItems(v, s, w, n), n)

\* The turn of variable i has come to d.
TurnTaken(r, i, d) == [tab |-> [r.tab EXCEPT ![i] = d.s], w |-> d.w, ok |-> d.ok]

\* Faulty variant: an error does not keep the codecs after it from their turn.
TurnTakenOn(r, i, d) ==
  [tab |-> [r.tab EXCEPT ![i] = d.s], w |-> IF d.ok THEN d.w ELSE r.w, ok |-> r.ok /\ d.ok]
DecodePacketOn(lay, tab, w) ==
  FoldLeft(LAMBDA r, i :
             TurnTakenOn(r, i, DecodeTurn(lay[i], r.tab[i], r.w, i = Len(lay))),
           [tab |-> tab, w |-> w, ok |-> TRUE], [i \in DOMAIN lay |-> i])

\* DasDs_decodeData: an error leaves the arrays before it with the new record.
DecodePacket(lay, tab, w) ==
  FoldLeft(LAMBDA r, i :
             IF ~r.ok THEN r
             ELSE TurnTaken(r, i, DecodeTurn(lay[i], r.tab[i], r.w, i = Len(lay))),
           [tab |-> tab, w |-> w, ok |-> TRUE], [i \in DOMAIN lay |-> i])

-----------------------------------------------------------------------------
(* Encoding.  An encoder returns what it wrote, how many items, or failure.  *)

Encoded(w, got) == [w |-> w, got |-> got, ok |-> TRUE]
NotEncoded == [w |-> <<>>, got |-> 0, ok |-> FALSE]

\* DasAry_lengthIn
LengthIn(s, loc) ==
  LET p == OffsetAt(s, loc)
  IN  IF loc = <<>> THEN s.idx0.cnt
      ELSE IF p = -1 THEN 0
      ELSE IF Len(loc) = Rank(s) THEN 1 ELSE Parent(s, Len(loc), p + 1).cnt

RECURSIVE ItemsIn(_, _, _)
\* DasAry_itemsIn: a product where all extents are fixed, whatever is there.
ItemsIn(v, s, loc) ==
  LET sh == IF Bytes(v) THEN v.ext ELSE Shape(v)
      below == SubSeq(sh, Len(loc) + 1, Len(sh))
  IN  IF 0 \notin ToSet(below) THEN Product(below)
      ELSE FoldLeft(LAMBDA n, i : n + ItemsIn(v, s, Append(loc, i - 1)), 0,
                    [i \in 1..LengthIn(s, loc) |-> i])

\* DasAryIter_next for a ragged array: the outermost index walked stops at
\* lenLast, the length of a run of the innermost one.
NextAt(s, it) ==
  LET len(k) == IF k = it.lo THEN it.lenLast ELSE LengthIn(s, SubSeq(it.at, 1, k - 1))
      able == {k \in it.lo..Len(it.at) : it.at[k] < len(k) - 1}
      k == Max(able)
      at == [j \in DOMAIN it.at |-> IF j > k THEN 0 ELSE IF j = k THEN it.at[j] + 1 ELSE it.at[j]]
  IN  IF able = {} THEN [it EXCEPT !.done = TRUE]
      ELSE [it EXCEPT !.at = at,
                      !.lenLast = IF k < Len(at) - 1 THEN LengthIn(s, SubSeq(at, 1, Len(at) - 1))
                                  ELSE @]

RECURSIVE Walk(_, _)
Walk(s, it) == IF it.done THEN <<>> ELSE <<it.at>> \o Walk(s, NextAt(s, it))

\* DasAryIter_init from index Len(loc)+1 to the last but one, first items first.
ItemsUnder(s, loc) ==
  LET at == loc \o [j \in 1..(Rank(s) - 1 - Len(loc)) |-> 0]
  IN  IF Len(loc) >= Rank(s) - 1 THEN <<loc>>
      ELSE Walk(s, [lo |-> Len(loc) + 1, at |-> at, done |-> FALSE,
                    lenLast |-> LengthIn(s, SubSeq(at, 1, Len(at) - 1))])

\* Strings and blobs as they are stored, and without the byte that ends them.
Stored(s, items) == [i \in DOMAIN items |-> GetIn(s, items[i])]
Content(v, x) == IF v.enc = "str" THEN Front(x) ELSE x
\* A field of one item.
ItemToks(v, x) ==
  CASE v.enc = "var" -> <<Tok("val", x), Tok("sep", 0)>>
    [] v.enc = "str" -> (IF x = <<>> THEN <<>> ELSE <<Tok("val", x)>>) \o <<Tok("sep", 0)>>
    [] v.enc = "blob" -> <<Tok("len", Len(x))>> \o (IF x = <<>> THEN <<>> ELSE <<Tok("val", x)>>)
    [] OTHER -> <<Tok("val", x)>>

\* DasCodec_encode for strings and blobs, item by item, and for values.
EncodeBytes(v, xs) ==
  IF \E i \in DOMAIN xs : xs[i] = <<>> THEN NotEncoded
  ELSE Encoded(FlattenSeq([i \in DOMAIN xs |-> ItemToks(v, Content(v, xs[i]))]), Len(xs))

EncodeValues(v, vals, line) ==
  LET toks == FlattenSeq([i \in DOMAIN vals |-> ItemToks(v, vals[i])])
  IN  Encoded(IF line /\ v.enc = "var" THEN Append(Front(toks), Tok("pad", 0)) ELSE toks,
              Len(vals))

\* DasCodec_encode of everything under loc; the last text of a packet ends a line.
EncodeItems(v, s, loc, n, line) ==
  LET vals == GetIn(s, loc)
  IN  IF vals = <<>> \/ (n > 0 /\ Len(vals) < n) THEN NotEncoded
      ELSE IF Bytes(v) THEN EncodeBytes(v, Stored(s, ItemsUnder(s, loc)))
      ELSE EncodeValues(v, vals, line)

\* Faulty variant: any run with something in it is written.
SendableAny(v, k, kids) == kids # 0

\* An empty run cannot be written, nor a fixed one that is not full.
Sendable(v, k, kids) == kids # 0 /\ (k = Deepest(v) \/ v.ext[k] \in {0, kids})

\* Something is written, and n items where n is known.
Expected(e, n) == IF e.got = 0 \/ (n > 0 /\ e.got # n) THEN NotEncoded ELSE e
Joined(r, e) == IF r.ok /\ e.ok THEN Encoded(r.w \o e.w, r.got + e.got) ELSE NotEncoded

\* The run of index k: its terminator goes behind it, or its tag before it.
Framed(v, k, tagged, count, e) ==
  LET before == IF tagged /\ v.ext[k] = 0 THEN <<Tok("tag", count)>> ELSE <<>>
      after == IF ~tagged /\ TermOf(v, k) # 0 THEN <<Tok("term", TermOf(v, k))>> ELSE <<>>
  IN  IF e.ok THEN Encoded(before \o e.w \o after, e.got) ELSE NotEncoded

RECURSIVE EncodeRun(_, _, _, _)
\* _encode_run_lvl and _encode_ragged_run
EncodeRun(v, s, loc, tagged) ==
  LET k == Len(loc) + 1
      kids == LengthIn(s, loc)
      atoms == ItemsIn(v, s, loc)
      below(i) == EncodeRun(v, s, Append(loc, i - 1), tagged)
  IN  IF ~Sendable(v, k, kids) THEN NotEncoded
      ELSE IF k = Deepest(v)
      THEN Framed(v, k, tagged, atoms,
                  IF tagged THEN Expected(EncodeItems(v, s, loc, atoms, FALSE), atoms)
                  ELSE EncodeItems(v, s, loc, -1, FALSE))
      ELSE Framed(v, k, tagged, kids,
                  FoldLeft(LAMBDA r, i : Joined(r, below(i)), Encoded(<<>>, 0),
                           [i \in 1..kids |-> i]))

\* One turn of DasDs_encodeData, for record i.
EncodeTurn(v, s, i, last) ==
  LET n == PktItems(v)
  IN  Expected(IF Framing(v, last) \in {"terms", "tags"}
               THEN EncodeRun(v, s, <<i - 1>>, Framing(v, last) = "tags")
               ELSE EncodeItems(v, s, <<i - 1>>, n, last), n)

\* DasDs_encodeData
EncodePacket(lay, tab, i) ==
  FoldLeft(LAMBDA r, j : Joined(r, EncodeTurn(lay[j], tab[j], i, j = Len(lay))),
           Encoded(<<>>, 0), [j \in DOMAIN lay |-> j])

-----------------------------------------------------------------------------
(* Records as the programs at both ends see them: for each variable a tree   *)
(* of runs with items for leaves.                                            *)

Leaf(v, k) == k > Len(v.ext)

RECURSIVE TreeAt(_, _, _, _)
\* What entry p of index k-1 stands for, without the byte that ends a string.
TreeAt(v, s, k, p) ==
  LET e == Parent(s, k - 1, p)
  IN  IF Leaf(v, k)
      THEN IF v.int = <<>> THEN s.elem[p]
           ELSE SubSeq(s.elem, e.off + 1, e.off + e.cnt - IF v.enc = "str" THEN 1 ELSE 0)
      ELSE [i \in 1..e.cnt |-> TreeAt(v, s, k + 1, e.off + i)]

RECURSIVE WholeTree(_, _, _)
WholeTree(v, tree, k) ==
  IF Leaf(v, k) THEN tree # Bad /\ (v.enc = "bin" /\ v.int # <<>> => Len(tree) = v.int[1])
  ELSE /\ IF v.ext[k] = 0 THEN tree # <<>> ELSE Len(tree) = v.ext[k]
       /\ \A i \in DOMAIN tree : WholeTree(v, tree[i], k + 1)

RECURSIVE CutTree(_, _, _)
\* Whole, or cut short: whole up to the last item there is.
CutTree(v, tree, k) ==
  Leaf(v, k) \/ (/\ \A i \in 1..(Len(tree) - 1) : WholeTree(v, tree[i], k + 1)
                 /\ CutTree(v, Last(tree), k + 1))

RECURSIVE AppendTree(_, _, _, _)
\* A program that has the record stores it run by run, marking the ragged ones.
AppendTree(v, s, tree, k) ==
  LET runs == FoldLeft(LAMBDA t, sub : AppendTree(v, t, sub, k + 1), s, tree)
  IN  IF Leaf(v, k)
      THEN IF v.int = <<>> THEN Appended(s, <<tree>>)
           ELSE IF v.enc = "bin" THEN Appended(s, tree)
           ELSE LET x == IF v.enc = "str" THEN Append(tree, Nul) ELSE tree
                IN  Marked(IF x = <<>> THEN s ELSE Appended(s, x), Rank(s))
      ELSE IF v.ext[k] = 0 THEN Marked(runs, k) ELSE runs

\* What another writer may make of a record.  It may leave out a terminator
\* before one further out or at the end of the packet, a separator before a
\* terminator, and the text of a value to be missed where marks separate; it may
\* put padding before terminators and at the end.
\* It does none of these, one, or all.
Habit == {"edge", "collapse", "tight", "padded", "missing"}
Plain == {}
Forms == {Plain, Habit} \cup {{h} : h \in Habit}

RECURSIVE Atoms(_, _, _)
Atoms(v, tree, k) ==
  IF Leaf(v, k) THEN IF v.enc = "bin" /\ v.int # <<>> THEN Len(tree) ELSE 1
  ELSE FoldLeft(LAMBDA n, sub : n + Atoms(v, sub, k + 1), 0, tree)

RECURSIVE RawTree(_, _, _, _)
RawTree(v, tree, k, framing) ==
  LET count == IF k = Deepest(v) THEN Atoms(v, tree, k) ELSE Len(tree)
      tagged == framing = "tags" /\ k <= Deepest(v) /\ v.ext[k] = 0
      ended == framing = "terms" /\ k <= Deepest(v) /\ TermOf(v, k) # 0
  IN  IF Leaf(v, k)
      THEN IF v.enc = "bin" /\ v.int # <<>>
           THEN [i \in DOMAIN tree |-> Tok("val", tree[i])] ELSE ItemToks(v, tree)
      ELSE (IF tagged THEN <<Tok("tag", count)>> ELSE <<>>)
           \o FlattenSeq([i \in DOMAIN tree |-> RawTree(v, tree[i], k + 1, framing)])
           \o (IF ended THEN <<Tok("term", TermOf(v, k))>> ELSE <<>>)

\* With its missing values left out.
WithoutFill(v, toks, form) ==
  IF "missing" \in form /\ ~v.blank THEN SelectSeq(toks, LAMBDA t : t # Tok("val", FillVal)) ELSE toks

InForm(toks, form, last) ==
  LET kind(i) == IF i \in DOMAIN toks THEN toks[i][1] ELSE "none"
      inner(i) == kind(i) = "term" /\ kind(i + 1) = "term" /\ toks[i + 1][2] < toks[i][2]
      final(i) == \A j \in i..Len(toks) : kind(j) = "term"
      dropped(i) == \/ "collapse" \in form /\ inner(i)
                    \/ "edge" \in form /\ last /\ final(i)
                    \/ "tight" \in form /\ kind(i) = "sep" /\ kind(i - 1) = "val" /\ kind(i + 1) = "term"
      pad(i) == IF "padded" \in form /\ kind(i) = "term" THEN <<Tok("pad", 0)>> ELSE <<>>
  IN  FlattenSeq([i \in DOMAIN toks |-> IF dropped(i) THEN <<>> ELSE Append(pad(i), toks[i])])

RawTurn(v, tree, form, last) ==
  LET framing == Framing(v, last)
      toks == WithoutFill(v, RawTree(v, tree, 2, framing), form)
      line == last /\ v.enc = "var" /\ framing \in {"count", "frame"}
  IN  IF line THEN Append(IF toks = <<>> THEN toks ELSE Front(toks), Tok("pad", 0))
      ELSE IF framing = "terms" THEN InForm(toks, form, last) ELSE toks

RawPacket(lay, rec, form) ==
  FlattenSeq([j \in DOMAIN lay |-> RawTurn(lay[j], rec[j], form, j = Len(lay))])

\* Where the number of items is known they differ, elsewhere one will do, and in
\* a single run one that is missing.
ItemsOf(v) ==
  LET few == IF RaggedIn(v) = {} /\ v.int = <<>> THEN Vals ELSE {CHOOSE x \in Vals : TRUE}
  IN  CASE v.int = <<>> -> few \cup IF v.enc = "var" /\ Len(v.ext) = 2 THEN {FillVal} ELSE {}
        [] v.enc = "str" -> {<<x>> : x \in few}
                            \cup IF v.blank /\ "empty word" \notin Habits THEN {} ELSE {<<>>}
        [] v.enc = "blob" -> {<<x>> : x \in few}
        [] OTHER -> [1..v.int[1] -> few]

\* Half a vector.
PartItems(v) == IF v.enc = "bin" /\ v.int # <<>> THEN {SubSeq(x, 1, 1) : x \in ItemsOf(v)} ELSE {}

\* Text that is no value, a blob without bytes, half a vector.
OddItems(v) ==
  UNION {IF "bad text" \in Habits /\ v.enc \in {"fix", "var"} /\ v.int = <<>> THEN {Bad} ELSE {},
         IF "empty blob" \in Habits /\ v.enc = "blob" THEN {<<>>} ELSE {},
         IF "part vector" \in Habits /\ RaggedIn(v) # {} THEN PartItems(v) ELSE {}}

\* Runs the other end may send: a count is always right, a ragged run may be
\* empty, a fixed one with terminators short, and with one of its own also long.
\* A run of blanks and nothing else that the packet bounds is not seen to be empty.
RunLengths(v, k, last) ==
  CASE v.ext[k] = 0 ->
         (IF v.enc = "var" /\ v.blank /\ Framing(v, last) = "frame" /\ "empty frame" \notin Habits
          THEN 1 ELSE 0)..MaxRun
    [] v.ext[k] # 0 /\ Framing(v, last) = "terms" /\ k < Deepest(v) ->
         1..(IF TermOf(v, k) = 0 THEN v.ext[k] ELSE v.ext[k] + 1)
    [] OTHER -> {v.ext[k]}

\* Runs a program here may store before it sends them.
StoredLengths(v, k) == 1..(IF v.ext[k] = 0 THEN MaxRun ELSE v.ext[k])

RECURSIVE Trees(_, _, _, _)
Trees(v, items, lens(_), k) ==
  IF Leaf(v, k) THEN items
  ELSE UNION {[1..n -> Trees(v, items, lens, k + 1)] : n \in lens(k)}

SentTrees(v, last) ==
  LET lens(k) == RunLengths(v, k, last) IN Trees(v, ItemsOf(v) \cup OddItems(v), lens, 2)
StoredTrees(v) ==
  LET lens(k) == StoredLengths(v, k)
  IN  {tree \in Trees(v, ItemsOf(v) \cup PartItems(v), lens, 2) : CutTree(v, tree, 2)}

\* One tree for each variable.
Pick(sets) ==
  {f \in [DOMAIN sets -> UNION {sets[j] : j \in DOMAIN sets}] : \A j \in DOMAIN sets : f[j] \in sets[j]}

WholeRecord(lay, rec) == \A j \in DOMAIN lay : WholeTree(lay[j], rec[j], 2)

\* What may be stored, and what may come from a writer that is not this library:
\* a record in any form, or something that is not a record nor looks like one.
Storable == [lay \in Layouts |-> Pick([j \in DOMAIN lay |-> StoredTrees(lay[j])])]
Packets ==
  [lay \in Layouts |->
     LET recs == Pick([j \in DOMAIN lay |-> SentTrees(lay[j], j = Len(lay))])
         whole == {<<rec, RawPacket(lay, rec, form)>> :
                     rec \in {r \in recs : WholeRecord(lay, r)}, form \in Forms}
         others == {<<rec, RawPacket(lay, rec, Plain)>> :
                      rec \in {r \in recs : ~WholeRecord(lay, r)}}
     IN  whole \cup {p \in others : \A q \in whole : q[2] # p[2]}]

-----------------------------------------------------------------------------
(* A dataset that writes, another that reads, and what is between them.      *)

VARIABLES
  layout,  \* the variables of both datasets
  wtab,    \* the arrays of the writing dataset
  sent,    \* how many of its records have been sent
  pkt,     \* the packet
  flight,  \* <<the record in it>>, <<>> for none
  rtab,    \* the arrays of the reading dataset
  stop     \* who has stopped with an error: "writer", "reader" or ""
vars == <<layout, wtab, sent, pkt, flight, rtab, stop>>

Empty == [j \in DOMAIN layout |-> NewAry(Shape(layout[j]))]
Count(tab) == tab[1].idx0.cnt
RecordAt(tab, i) ==
  [j \in DOMAIN layout |-> IF i > tab[j].idx0.cnt THEN <<>> ELSE TreeAt(layout[j], tab[j], 2, i)]
\* Faulty variant: the values go and the index entries stay.
ClearedValues(tab) == [j \in DOMAIN tab |-> [tab[j] EXCEPT !.elem = <<>>]]

ClearedAll(tab) == [j \in DOMAIN tab |-> Cleared(tab[j])]
Idle == stop = "" /\ flight = <<>>

Init ==
  /\ layout \in Layouts
  /\ wtab = Empty /\ rtab = Empty /\ sent = 0
  /\ pkt = <<>> /\ flight = <<>> /\ stop = ""

\* A program stores a record.
Store(rec) ==
  /\ wtab' = [j \in DOMAIN wtab |-> AppendTree(layout[j], wtab[j], rec[j], 2)]
  /\ UNCHANGED <<layout, sent, pkt, flight, rtab, stop>>

EncodeData ==
  /\ Idle /\ sent < Count(wtab)
  /\ \E e \in {EncodePacket(layout, wtab, sent + 1)} :
         IF e.ok
         THEN /\ pkt' = e.w /\ flight' = <<RecordAt(wtab, sent + 1)>>
              /\ sent' = sent + 1 /\ UNCHANGED stop
         ELSE stop' = "writer" /\ UNCHANGED <<pkt, flight, sent>>
  /\ UNCHANGED <<layout, wtab, rtab>>

\* A packet from a writer that is not this library.
Arrive(rec, w) ==
  /\ pkt' = w /\ flight' = <<rec>>
  /\ UNCHANGED <<layout, wtab, sent, rtab, stop>>

DecodeData ==
  /\ flight # <<>> /\ stop = "" /\ Count(rtab) < MaxRecs[layout]
  /\ \E d \in {DecodePacket(layout, rtab, pkt)} :
         rtab' = d.tab /\ stop' = IF d.ok THEN "" ELSE "reader"
  /\ pkt' = <<>> /\ flight' = <<>>
  /\ UNCHANGED <<layout, wtab, sent>>

\* DasDs_clearRagged0, when the reader's records have been seen or the
\* writer's are all sent.
ClearRead ==
  /\ stop = "" /\ Count(rtab) > 0
  /\ rtab' = ClearedAll(rtab)
  /\ UNCHANGED <<layout, wtab, sent, pkt, flight, stop>>
ClearSent ==
  /\ Idle /\ sent > 0 /\ sent = Count(wtab)
  /\ wtab' = ClearedAll(wtab) /\ sent' = 0
  /\ UNCHANGED <<layout, pkt, flight, rtab, stop>>

Stopped == stop # "" /\ UNCHANGED vars

Next ==
  \/ /\ Idle /\ sent = Count(wtab) /\ sent < MaxRecs[layout]
     /\ \E rec \in Storable[layout] : Store(rec)
  \/ EncodeData
  \/ /\ Idle /\ Count(wtab) = 0
     /\ \E p \in Packets[layout] : Arrive(p[1], p[2])
  \/ DecodeData \/ ClearRead \/ ClearSent \/ Stopped

Spec == Init /\ [][Next]_vars

-----------------------------------------------------------------------------
(* Properties.                                                               *)

\* What a packet is made of; what the arrays of one dataset hold.
TypeOK ==
  /\ layout \in Layouts /\ stop \in {"", "writer", "reader"} /\ sent \in 0..MaxRecs[layout]
  /\ \A i \in DOMAIN pkt : pkt[i][1] \in {"val", "sep", "term", "pad", "tag", "len"}
  /\ \A j \in DOMAIN layout, tab \in {wtab, rtab} :
       tab[j].shape = Shape(layout[j]) /\ Size(tab[j]) = Len(tab[j].elem)

RC == INSTANCE RecordChannel WITH
        flight <- flight,
        good <- flight # <<>> /\ WholeRecord(layout, flight[1]),
        held <- [i \in 1..Count(rtab) |-> RecordAt(rtab, i)],
        stopped <- stop = "reader"

\* A record that is sent, in whatever form a writer may give it, is the next
\* record of the reading dataset, run for run and item for item, and a packet
\* that has an empty run or a fixed one that is not full is refused.
Implements == RC!Spec

\* The codecs of a packet run one after the other and each appends at once: all
\* variables are one record longer after a packet, and an error leaves those
\* before it one record longer and those after it as they were.
OneRecordLonger ==
  [][ rtab' # rtab /\ Count(rtab') > 0 =>
        LET more(j) == rtab'[j].idx0.cnt - rtab[j].idx0.cnt
        IN  IF stop' = "" THEN \A j \in DOMAIN layout : more(j) = 1
            ELSE \E e \in DOMAIN layout : \A j \in DOMAIN layout \ {e} :
                   IF j < e THEN more(j) = 1 ELSE rtab'[j] = rtab[j] ]_vars

\* A record cut short is never sent, and a whole one always is.
WholeRecordsSent ==
  /\ Count(wtab) > 0 /\ flight # <<>> => WholeRecord(layout, flight[1])
  /\ stop = "writer" => ~WholeRecord(layout, RecordAt(wtab, sent + 1))

\* A program that passes a stream on writes what it would have written had it
\* stored the records itself, whatever form they arrived in.
PassedOnAlike ==
  Idle => \A i \in 1..Count(rtab) :
    \E e \in {EncodePacket(layout, rtab, i)} :
      e.ok /\ e.w = RawPacket(layout, RecordAt(rtab, i), Plain)
=============================================================================
