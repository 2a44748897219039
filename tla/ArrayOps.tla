------------------------------- MODULE ArrayOps -------------------------------
(* das2/array.c, the functions: dynamic, possibly ragged arrays as values:   *)
(*   shape  uShape of its buffers: extents, 0 for ragged                     *)
(*   idx0   the top index entry                                              *)
(*   ibuf   the index buffers pBufs[0 .. nRank-2]: entries that each stand   *)
(*          for cnt successive items of the next buffer, from offset off on  *)
(*   elem   the element buffer pBufs[nRank-1]                                *)
(*   roll   bRollParent of the buffers: the next append starts a new run     *)
(* Index k and buffer k here are dimension k-1 in C; a buffer's uValid is    *)
(* its length, memory is taken to be had.  Functions that write return the   *)
(* array after the call.                                                     *)
EXTENDS Integers, Sequences, FiniteSets, SequencesExt

CONSTANT FillVal   \* the arrays' fill value

Rank(s) == Len(s.shape)
Below(n) == 0..(n - 1)
Entry(off, cnt) == [off |-> off, cnt |-> cnt]
IdxFill == Entry(0, 0)   \* g_idxFill

-----------------------------------------------------------------------------
(* Making an array: all of it is fill when no extent is 0.                   *)

NewAry(sh) ==
  LET n[k \in 0..Len(sh)] == IF k = 0 THEN 1 ELSE n[k - 1] * sh[k]
      down(k, i) == IF n[k] = 0 THEN IdxFill ELSE Entry((i - 1) * sh[k], sh[k])
  IN  [shape |-> sh,
       idx0 |-> down(1, 1),
       ibuf |-> [k \in 1..(Len(sh) - 1) |-> [i \in 1..n[k] |-> down(k + 1, i)]],
       elem |-> [i \in 1..n[Len(sh)] |-> FillVal],
       roll |-> [k \in 1..Len(sh) |-> FALSE]]

-----------------------------------------------------------------------------
(* Finding things.  A parent is idx0 (level 0) or entry p of index buffer k. *)

Parent(s, k, p) == IF k = 0 THEN s.idx0 ELSE s.ibuf[k][p]
LastOf(s, k) == Parent(s, k, IF k = 0 THEN 0 ELSE Len(s.ibuf[k]))
WithCnt(s, k, p, c) ==
  IF k = 0 THEN [s EXCEPT !.idx0.cnt = c] ELSE [s EXCEPT !.ibuf[k][p].cnt = c]
Valid(s, k) == IF k = Rank(s) THEN Len(s.elem) ELSE Len(s.ibuf[k])

\* _Array_ParentAndItemAt, Array_flat: the offset in buffer Len(loc) of the item
\* at loc (negative indices count from the end), -1 when there is none.
OffsetAt(s, loc) ==
  LET at[d \in 0..Len(loc)] ==
        IF d = 0 THEN 0 ELSE IF at[d - 1] = -1 THEN -1
        ELSE LET p == Parent(s, d - 1, at[d - 1] + 1)
                 i == IF loc[d] < 0 THEN p.cnt + loc[d] ELSE loc[d]
             IN  IF i \in Below(p.cnt) /\ p.off + i < Valid(s, d) THEN p.off + i ELSE -1
  IN  at[Len(loc)]

\* _Array_elemOffsets: first and last element under entry p of level k; <<>> for none.
ElemOffsets(s, k, p) ==
  LET span[d \in k..(Rank(s) - 1)] ==
        LET a == IF d = k THEN p ELSE span[d - 1][1] + 1
            b == IF d = k THEN p ELSE span[d - 1][2] + 1
        IN  IF d > k /\ span[d - 1] = <<>> THEN <<>>
            ELSE IF Parent(s, d, a).cnt = 0 THEN <<>>
            ELSE <<Parent(s, d, a).off, Parent(s, d, b).off + Parent(s, d, b).cnt - 1>>
  IN  span[Rank(s) - 1]

\* DasAry_getIn: the elements at a location, from the first under it to the last.
Elements(s, span) == IF span = <<>> THEN <<>> ELSE SubSeq(s.elem, span[1] + 1, span[2] + 1)
GetUnder(s, k, p) ==
  IF p = -1 THEN <<>>
  ELSE Elements(s, IF k = Rank(s) THEN <<p, p>> ELSE ElemOffsets(s, k, p + 1))
GetIn(s, loc) == GetUnder(s, Len(loc), OffsetAt(s, loc))

\* DasAry_size
Size(s) ==
  LET span == ElemOffsets(s, 0, 0) IN IF span = <<>> THEN 0 ELSE span[2] - span[1] + 1

-----------------------------------------------------------------------------
(* Appending.                                                                *)

\* Faulty variant: only a mark makes a new parent, a full one is not noticed.
MustRollMarked(s, k) == s.roll[k]

\* The run the last entry of buffer k is in takes no more: marked, or full.
MustRoll(s, k) ==
  s.roll[k] \/ (s.shape[k] # 0 /\ LastOf(s, k - 1).cnt = s.shape[k])

\* Faulty variant: a run is taken to be as long as its index allows.
NewIndexInfoByShape(s, k) ==
  LET top == Min({t \in 1..k : \A j \in (t + 1)..k : MustRoll(s, j)})
      pos == IF top = 1 THEN 0 ELSE Len(s.ibuf[top - 1])
      next(j) == Entry(LastOf(s, j).off + s.shape[j + 1], IF j = k THEN 0 ELSE 1)
      s1 == WithCnt(s, top - 1, pos, LastOf(s, top - 1).cnt + 1)
  IN  [s1 EXCEPT
        !.ibuf = [j \in DOMAIN @ |-> IF j \in top..k THEN Append(@[j], next(j)) ELSE @[j]],
        !.roll = [j \in DOMAIN @ |-> @[j] /\ j \notin top..k]]

\* _newIndexInfo: a new last entry in index buffer k, and in those before it as
\* far as their parents are finished or full.
NewIndexInfo(s, k) ==
  LET top == Min({t \in 1..k : \A j \in (t + 1)..k : MustRoll(s, j)})
      pos == IF top = 1 THEN 0 ELSE Len(s.ibuf[top - 1])
      next(j) == Entry(LastOf(s, j).off + LastOf(s, j).cnt, IF j = k THEN 0 ELSE 1)
      s1 == WithCnt(s, top - 1, pos, LastOf(s, top - 1).cnt + 1)
  IN  [s1 EXCEPT
        !.ibuf = [j \in DOMAIN @ |-> IF j \in top..k THEN Append(@[j], next(j)) ELSE @[j]],
        !.roll = [j \in DOMAIN @ |-> @[j] /\ j \notin top..k]]

\* The first loop of DasAry_append: down to the last parent, made where missing.
DownTo(was, k) ==
  LET p == Parent(was.s, k - 1, was.pos)
  IN  IF p.cnt # 0 THEN [s |-> was.s, pos |-> p.off + p.cnt]
      ELSE [s |-> [WithCnt(was.s, k - 1, was.pos, 1) EXCEPT !.ibuf[k] = Append(@, IdxFill)],
            pos |-> p.off + 1]

LastParent(s) ==
  LET down[k \in 0..(Rank(s) - 1)] ==
        IF k = 0 THEN [s |-> s, pos |-> 0] ELSE DownTo(down[k - 1], k)
  IN  down[Rank(s) - 1]

\* One turn of its second loop, which counts the n new elements in their parents.
MarkSome(t, n) ==
  LET r == Rank(t.s)
      p == Parent(t.s, r - 1, t.pos)
      room == t.s.shape[r] - p.cnt
      add == IF room > n THEN n ELSE room
  IN  IF r = 1 \/ (~t.s.roll[r] /\ t.s.shape[r] = 0)
      THEN [t EXCEPT !.s = WithCnt(t.s, r - 1, t.pos, p.cnt + n), !.marked = n]
      ELSE IF ~t.s.roll[r] /\ room > 0
      THEN [t EXCEPT !.s = WithCnt(t.s, r - 1, t.pos, p.cnt + add), !.marked = @ + add]
      ELSE LET s1 == NewIndexInfo(t.s, r - 1)
           IN  [t EXCEPT !.s = [s1 EXCEPT !.roll[r] = FALSE], !.pos = Len(s1.ibuf[r - 1])]

\* DasAry_append
Appended(s, vs) ==
  LET n == Len(vs)
      start == LastParent([s EXCEPT !.elem = @ \o vs])
      loop[i \in 0..(2 * n + 1)] ==
        IF i = 0 THEN [s |-> start.s, pos |-> start.pos, marked |-> 0]
        ELSE IF loop[i - 1].marked >= n THEN loop[i - 1] ELSE MarkSome(loop[i - 1], n)
  IN  loop[2 * n + 1].s

\* DasAry_markEnd, for an index but the first
Marked(s, d) == [s EXCEPT !.roll = [k \in DOMAIN @ |-> @[k] \/ k >= d]]

-----------------------------------------------------------------------------
(* Filling up the last run (DasAry_qubeIn).                                  *)

FixedFrom(s, r) == {k \in r..Rank(s) : \A j \in k..Rank(s) : s.shape[j] # 0}

\* _Array_LastParentFor: the entry of buffer q-1 that holds the last run of index q.
LastRun(s, q) ==
  LET at[k \in 0..(q - 1)] ==
        IF k = 0 THEN 0 ELSE IF at[k - 1] = -1 THEN -1
        ELSE LET p == Parent(s, k - 1, at[k - 1])
             IN  IF p.cnt = 0 \/ p.off + p.cnt > Valid(s, k) THEN -1 ELSE p.off + p.cnt
  IN  at[q - 1]

\* The run reached from the last run of index q by way of children path[1], path[2] ...
RunAt(s, q, run, path) ==
  LET at[i \in 0..Len(path)] ==
        IF i = 0 THEN run ELSE Parent(s, q - 2 + i, at[i - 1]).off + path[i] + 1
  IN  at[Len(path)]

\* _Array_qubeSelf, for one parent: that run gets fill up to its extent.
FillRun(s, q, run, path) ==
  LET k == q + Len(path)
      p == RunAt(s, q, run, path)
      need == s.shape[k] - Parent(s, k - 1, p).cnt
      s1 == WithCnt(s, k - 1, p, s.shape[k])
  IN  IF need <= 0 THEN s
      ELSE IF k = Rank(s) THEN [s1 EXCEPT !.elem = @ \o [i \in 1..need |-> FillVal]]
      ELSE [s1 EXCEPT !.ibuf[k] = @ \o [i \in 1..need |-> IdxFill]]

\* The order it visits the runs in: a parent before its children, those in order.
Visits(s, q) ==
  LET paths == UNION {{p \in [1..n -> Below(Max({s.shape[k] : k \in q..Rank(s)}))] :
                         \A i \in 1..n : p[i] < s.shape[q + i - 1]} : n \in 0..(Rank(s) - q)}
      earlier(p, o) ==
        \/ \E i \in DOMAIN p \cap DOMAIN o : p[i] < o[i] /\ \A j \in 1..(i - 1) : p[j] = o[j]
        \/ IsStrictPrefix(p, o)
  IN  [i \in 1..Cardinality(paths) |->
         CHOOSE p \in paths : Cardinality({o \in paths : earlier(o, p)}) = i - 1]

Qubed(s, r) ==
  LET q == Min(FixedFrom(s, r))
      run == LastRun(s, q)
      visits == Visits(s, q)
      filled[i \in 0..Len(visits)] ==
        IF i = 0 THEN s ELSE FillRun(filled[i - 1], q, run, visits[i])
  IN  IF FixedFrom(s, r) = {} \/ run = -1 THEN s ELSE filled[Len(visits)]

-----------------------------------------------------------------------------
(* Emptying an array, writing over what is in it.                            *)

\* Faulty variant: the count of the first index is left as it was.
ClearedBelow(s) ==
  [s EXCEPT !.elem = <<>>,
            !.ibuf = [k \in DOMAIN @ |-> <<>>], !.roll = [k \in DOMAIN @ |-> FALSE]]

\* DasAry_clear
Cleared(s) ==
  [s EXCEPT !.idx0.cnt = 0, !.elem = <<>>,
            !.ibuf = [k \in DOMAIN @ |-> <<>>], !.roll = [k \in DOMAIN @ |-> FALSE]]

\* DasAry_putAt: refused when the values would run past the end of the buffer.
PutAble(s, loc, vs) == OffsetAt(s, loc) # -1 /\ OffsetAt(s, loc) + Len(vs) <= Len(s.elem)

Written(s, loc, vs) ==
  LET o == OffsetAt(s, loc)
  IN  [s EXCEPT !.elem = [i \in DOMAIN @ |->
                            IF i - o \in 1..Len(vs) THEN vs[i - o] ELSE @[i]]]

=============================================================================
