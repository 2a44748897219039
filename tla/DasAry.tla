-------------------------------- MODULE DasAry --------------------------------
(* das2/array.c: one dynamic, possibly ragged array and its callers, who     *)
(* append, mark, fill up, clear and write over.  The functions are in        *)
(* ArrayOps, what they promise is RaggedArray.                               *)
EXTENDS ArrayOps

CONSTANTS
  Shapes,    \* shapes an array may be made with
  Vals,      \* values appended
  MaxAppend, \* bound: values in one append
  MaxValid,  \* bound: values in an array, by shape
  \* How the callers use the array:
  Straddle,  \* they append blocks that end inside a record they did not begin in
  QubeAll    \* they qube indices other than the last

ASSUME AryAssumption ==
  /\ \A s \in Shapes : s \in Seq(Nat) /\ s # <<>>
  /\ FillVal \notin Vals
  /\ MaxAppend \in Nat \ {0} /\ MaxValid \in [Shapes -> Nat]
  /\ Straddle \in BOOLEAN /\ QubeAll \in BOOLEAN

-----------------------------------------------------------------------------
(* One array and its callers.                                                *)

VARIABLE ary
vars == <<ary>>

Blocks(S) == UNION {[1..i -> S] : i \in 1..MaxAppend}

\* Room left in the run the next value goes to.
Room ==
  LET r == Rank(ary)
      p == LastOf(ary, r - 1)
  IN  IF ary.roll[r] \/ (r > 1 /\ Len(ary.ibuf[r - 1]) = 0) THEN 0
      ELSE IF p.cnt < ary.shape[r] THEN ary.shape[r] - p.cnt ELSE 0

\* A block of n values stays in one record, or ends with one.
EndsRecord(n) ==
  LET extent == ary.shape[Rank(ary)]
      fresh == IF Room = 0 THEN extent ELSE Room
  IN  Rank(ary) > 1 /\ extent > 0 /\ n > fresh => (n - Room) % extent = 0

Init == \E sh \in Shapes : ary = NewAry(sh)

AppendVals(vs) ==
  /\ Len(ary.elem) + Len(vs) <= MaxValid[ary.shape]
  /\ Straddle \/ EndsRecord(Len(vs))
  /\ ary' = Appended(ary, vs)

MarkEnd(d) == ary' = Marked(ary, d)

QubeIn(r) ==
  /\ QubeAll \/ r = Rank(ary)
  /\ Len(Qubed(ary, r).elem) <= MaxValid[ary.shape]
  /\ ary' = Qubed(ary, r)

Clear == ary' = Cleared(ary)

PutAt(loc, vs) == PutAble(ary, loc, vs) /\ ary' = Written(ary, loc, vs)

\* The locations that are there, and the last one counted from the end.
Addresses ==
  LET under(a) == Below(Parent(ary, Len(a), OffsetAt(ary, a) + 1).cnt)
      down[k \in 0..Rank(ary)] ==
        IF k = 0 THEN {<<>>}
        ELSE {a \in UNION {{Append(b, i) : i \in under(b)} : b \in down[k - 1]} :
                OffsetAt(ary, a) # -1}
  IN  down[Rank(ary)]

Locations == Addresses \cup {[k \in 1..Rank(ary) |-> -1]}

Next ==
  \/ \E vs \in Blocks(Vals) : AppendVals(vs)
  \/ \E d \in 2..Rank(ary) : MarkEnd(d) \/ QubeIn(d)
  \/ Clear
  \/ \E loc \in Locations, vs \in [1..MaxAppend -> {FillVal}] : PutAt(loc, vs)

Spec == Init /\ [][Next]_vars

-----------------------------------------------------------------------------
(* The array as a map from addresses to values.                              *)

\* Entry by entry, the last run of every index.
LastAddress ==
  LET cnt(k) == IF k > 1 /\ ary.ibuf[k - 1] = <<>> THEN 0 ELSE LastOf(ary, k - 1).cnt
  IN  [k \in 1..Rank(ary) |->
         IF k < Rank(ary) /\ cnt(k) = 0 THEN 0 ELSE cnt(k) - 1]

RA == INSTANCE RaggedArray WITH
        shape <- ary.shape,
        cell <- [a \in Addresses |-> ary.elem[OffsetAt(ary, a) + 1]],
        last <- LastAddress,
        closed <- Min({d \in 2..Rank(ary) : ary.roll[d]} \cup {Rank(ary) + 1})

-----------------------------------------------------------------------------
(* Properties.                                                               *)

\* Every index entry stands for items that are there, and a mark on an index is on
\* all after it: a value that starts a new run of one index never continues an old
\* run of a later one.
TypeOK ==
  /\ ary.shape \in Shapes
  /\ \A k \in 0..(Rank(ary) - 1) : \A p \in IF k = 0 THEN {0} ELSE DOMAIN ary.ibuf[k] :
       LET e == Parent(ary, k, p)
       IN  e.off \in Nat /\ e.cnt \in Nat /\ e.off + e.cnt <= Valid(ary, k + 1)
  /\ ary.elem \in Seq(Vals \cup {FillVal})
  /\ ary.roll \in [1..Rank(ary) -> BOOLEAN]
  /\ \A d \in 2..Rank(ary) : ary.roll[d] => \A k \in d..Rank(ary) : ary.roll[k]

\* What the index entries make of the buffers is what array.h promises: appended
\* values go to successive addresses and stay there, whatever was marked as
\* finished, filled up, cleared or written over in between.
Implements == RA!Spec

\* Runs of different parents neither overlap nor leave a gap: every stored
\* element is at exactly one address, and storage order is address order.
EveryElementOnce ==
  /\ {OffsetAt(ary, a) : a \in Addresses} = Below(Len(ary.elem))
  /\ \A a, b \in Addresses : RA!Before(a, b) => OffsetAt(ary, a) < OffsetAt(ary, b)
=============================================================================
