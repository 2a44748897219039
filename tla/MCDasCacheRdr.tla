---------------------------- MODULE MCDasCacheRdr ----------------------------
(* Requests for DasCacheRdr.                                                 *)
EXTENDS DasCacheRdr

Ask(n, beg, end, rows) == [n |-> n, beg |-> beg, end |-> end, rows |-> rows \cup {beg, end}]

\* Ranges that cross a leap day, a new year, an hour and a century; each has a row
\* before it, at its begin, inside and at its end.
AnyRequest ==
  {Ask(3, <<2004, 2, 28, 6, 0, 0>>, <<2004, 3, 1, 0, 0, 0>>,
       {<<2004, 2, 28, 0, 0, 0>>, <<2004, 2, 29, 12, 0, 0>>}),
   Ask(3, <<2003, 2, 28, 6, 0, 0>>, <<2003, 3, 1, 0, 1, 0>>,
       {<<2003, 2, 28, 0, 0, 0>>, <<2003, 3, 1, 0, 0, 0>>}),
   Ask(4, <<1999, 12, 31, 22, 30, 0>>, <<2000, 1, 1, 0, 30, 0>>,
       {<<1999, 12, 31, 22, 0, 0>>, <<1999, 12, 31, 23, 0, 0>>, <<2000, 1, 1, 0, 0, 0>>}),
   Ask(5, <<2004, 5, 31, 23, 58, 30>>, <<2004, 6, 1, 0, 0, 1>>,
       {<<2004, 5, 31, 23, 59, 0>>, <<2004, 6, 1, 0, 0, 0>>}),
   Ask(6, <<2004, 5, 31, 23, 59, 58>>, <<2004, 6, 1, 0, 0, 0>>,
       {<<2004, 5, 31, 23, 59, 59>>}),
   Ask(1, <<2003, 5, 1, 0, 0, 0>>, <<2005, 1, 1, 0, 0, 0>>,
       {<<2003, 1, 1, 0, 0, 0>>, <<2004, 12, 31, 23, 0, 0>>})}

\* Blocks of a month, from January to April.
Monthly ==
  {Ask(2, <<2005, 1, 1, 0, 0, 0>>, <<2005, 4, 1, 0, 0, 0>>,
       {<<2005, 2, 1, 0, 0, 0>>, <<2005, 3, 1, 0, 0, 0>>})}

Listed2 == {[lay |-> "A", tags |-> 1, ser |-> FALSE], [lay |-> "A", tags |-> 2, ser |-> FALSE],
            [lay |-> "B", tags |-> 1, ser |-> FALSE]}
==============================================================================
