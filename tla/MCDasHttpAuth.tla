---------------------------- MODULE MCDasHttpAuth ----------------------------
(* Servers and key files for DasHttpAuth.                                    *)
EXTENDS DasHttpAuth

CONSTANTS s1, s2, d1, t1, t2

Line(s, d, t) == [srv |-> s, cut |-> FALSE, ds |-> d, tok |-> t, valid |-> TRUE]

\* s1 takes one token, s2 none.
AcceptsOne == [s \in Servers |-> IF s = s1 THEN {t1} ELSE {}]

\* A dataset's own entry before the general one, and after it; one that was saved cut off.
TwoFiles ==
  {<<Line(s1, d1, t1), Line(s1, Any, t2)>>, <<Line(s1, Any, t2), Line(s1, d1, t1)>>,
   <<[Line(s2, Any, t2) EXCEPT !.cut = TRUE]>>}
==============================================================================
