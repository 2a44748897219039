----------------------------- MODULE RaggedArray -----------------------------
(* What das2/array.h promises of a DasAry: values at addresses.  An address  *)
(* has one component per index; appending goes through the addresses like an *)
(* odometer, an index that is full or marked as finished goes back to zero   *)
(* and the one before it counts on.  Index k here is dimension k-1 in C.     *)
EXTENDS Integers, Sequences, FiniteSets, SequencesExt

CONSTANTS
  Shapes,    \* shapes an array may be made with: extents, 0 for ragged
  Vals,      \* values appended
  FillVal,   \* the array's fill value
  MaxAppend, \* bound: values in one append
  MaxValid   \* bound: values in an array, by shape

VARIABLES
  shape,  \* chosen when the array is made
  cell,   \* the values, by address
  last,   \* the address written last; -1 in its last component before that
  closed  \* the lowest index marked as finished, Rank + 1 for none

raVars == <<shape, cell, last, closed>>

Rank == Len(shape)
Below(n) == 0..(n - 1)

\* The last index and those before it up to k, each inside its extent.
Box(k) ==
  {a \in [k..Rank -> UNION {Below(shape[j]) : j \in k..Rank}] :
     \A j \in k..Rank : a[j] \in Below(shape[j])}

\* The empty address, or the last one a preallocated array fills.
First ==
  [k \in 1..Rank |-> IF \A j \in 1..k : shape[j] > 0 THEN shape[k] - 1
                     ELSE IF k = Rank THEN -1 ELSE 0]

Init ==
  /\ shape \in Shapes
  /\ last = First
  /\ closed = Rank + 1
  /\ cell = IF \E k \in 1..Rank : shape[k] = 0 THEN <<>>
            ELSE [a \in Box(1) |-> FillVal]

\* Index d goes back to zero after address a when all from d on are finished.
Rolls(a, c, d) == \A k \in d..Rank : k >= c \/ (shape[k] > 0 /\ a[k] + 1 >= shape[k])

NextAddr(a, c) ==
  LET r == Min({d \in 2..Rank : Rolls(a, c, d)} \cup {Rank + 1})
  IN  [k \in 1..Rank |-> IF k < r - 1 THEN a[k] ELSE IF k = r - 1 THEN a[k] + 1 ELSE 0]

Before(a, b) ==
  \E k \in 1..Rank : a[k] < b[k] /\ \A j \in 1..(k - 1) : a[j] = b[j]

\* The n addresses to write next.
Following(n) ==
  LET at[i \in 1..n] ==
        IF i = 1 THEN NextAddr(last, closed) ELSE NextAddr(at[i - 1], Rank + 1)
  IN  at

\* The values there are, and at addresses without one those of g.
WithMore(g) ==
  [a \in DOMAIN cell \cup DOMAIN g |-> IF a \in DOMAIN cell THEN cell[a] ELSE g[a]]

Put(vs) ==
  LET at == Following(Len(vs))
  IN  /\ last' = at[Len(vs)]
      /\ cell' = WithMore([a \in Range(at) |-> vs[CHOOSE i \in 1..Len(vs) : at[i] = a]])

\* Values are put at the next addresses.
Append1(vs) ==
  /\ closed' = Rank + 1
  /\ UNCHANGED shape
  /\ Put(vs)
  /\ Cardinality(DOMAIN cell) + Len(vs) <= MaxValid[shape]

\* The next value goes to a fresh run of index d.
MarkEnd(d) == closed' = Min({d, closed}) /\ UNCHANGED <<shape, last, cell>>

\* The last run of index r, and of all after it, gets fill values up to its extent.
QubeIn(r) ==
  LET fixed == {k \in r..Rank : \A j \in k..Rank : shape[j] > 0}
      q == Min(fixed)
      run == {[k \in 1..Rank |-> IF k < q THEN last[k] ELSE a[k]] : a \in Box(q)}
  IN  /\ fixed # {}
      /\ UNCHANGED <<shape, closed>>
      /\ last' = [k \in 1..Rank |-> IF k < q THEN last[k] ELSE shape[k] - 1]
      /\ cell # <<>>
      /\ cell' = WithMore([a \in run |-> FillVal])

Clear ==
  /\ closed' = Rank + 1
  /\ UNCHANGED shape
  /\ last' = [k \in 1..Rank |-> IF k = Rank THEN -1 ELSE 0]
  /\ cell' = <<>>

\* Values replace those from address a on.
PutAt(a, vs) ==
  LET rest == {b \in DOMAIN cell : ~Before(b, a)}
      nth(b) == Cardinality({c \in rest : Before(c, b)}) + 1
  IN  /\ UNCHANGED <<shape, last, closed>>
      /\ Len(vs) <= Cardinality(rest)
      /\ cell' = [b \in DOMAIN cell |->
                  IF b \in rest /\ nth(b) <= Len(vs) THEN vs[nth(b)] ELSE cell[b]]

Blocks(S) == UNION {[1..i -> S] : i \in 1..MaxAppend}

Next ==
  \/ \E a \in DOMAIN cell, vs \in Blocks({FillVal}) : PutAt(a, vs)
  \/ \E d \in 2..Rank : MarkEnd(d) \/ QubeIn(d)
  \/ \E vs \in Blocks(Vals) : Append1(vs)
  \/ Clear

Spec == Init /\ [][Next]_raVars
=============================================================================
