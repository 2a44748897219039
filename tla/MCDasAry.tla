------------------------------- MODULE MCDasAry -------------------------------
(* Shapes for DasAry.                                                        *)
EXTENDS DasAry

\* Lists, records of fixed length, strings, constants; in rank 3 planes of fixed
\* records, pages of lines, and a fixed extent on either side of a ragged one.
AllShapes == {<<0>>, <<0, 2>>, <<0, 0>>, <<2, 2>>, <<0, 2, 2>>, <<0, 0, 0>>, <<0, 2, 0>>, <<0, 0, 2>>}

\* Enough values to begin a second plane, or a third record or line.
FewValues ==
  [s \in AllShapes |-> IF s \in {<<2, 2>>, <<0, 2, 2>>} THEN 5 ELSE 4]
=============================================================================
