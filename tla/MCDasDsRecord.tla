---------------------------- MODULE MCDasDsRecord ----------------------------
(* Datasets for DasDsRecord.                                                 *)
EXTENDS DasDsRecord

Var(ext, int, enc, terms) ==
  [ext |-> ext, int |-> int, enc |-> enc, terms |-> terms, blank |-> FALSE]
\* Text with blanks between its items.
Words(ext, int, enc, terms) == [Var(ext, int, enc, terms) EXCEPT !.blank = TRUE]

\* Values in known numbers: vectors, text, blobs, several strings to a record.
Counted == {
  <<Words(<<0, 2>>, <<0>>, "str", 0), Words(<<0>>, <<>>, "var", 0)>>,
  <<Var(<<0>>, <<2>>, "bin", 0), Var(<<0, 2>>, <<>>, "var", 0)>>,
  <<Var(<<0>>, <<0>>, "blob", 0), Var(<<0, 2>>, <<0>>, "str", 0)>>}

\* Tagged runs: of vectors, of blobs, nested, with a fixed index between.
Tagged == {
  <<Var(<<0, 0>>, <<2>>, "bin", 0), Var(<<0>>, <<0>>, "str", 0)>>,
  <<Var(<<0, 0>>, <<0>>, "str", 0)>>,
  <<Var(<<0, 0>>, <<0>>, "blob", 0), Var(<<0, 0>>, <<>>, "fix", 0)>>,
  <<Var(<<0, 0, 2, 0>>, <<>>, "bin", 0)>>}

\* A run that the end of the packet bounds: of values or strings, with marks
\* or blanks between them.
Bounded == {
  <<Var(<<0, 0>>, <<>>, "var", 0)>>,
  <<Var(<<0>>, <<>>, "bin", 0), Words(<<0, 0>>, <<>>, "var", 0)>>,
  <<Var(<<0>>, <<>>, "var", 0), Words(<<0, 0>>, <<0>>, "str", 0)>>}

\* Runs with terminators: first in the packet and last, nested, with a fixed
\* index between or before that has a terminator or has none.
Ended == {
  <<Var(<<0>>, <<>>, "bin", 0), Var(<<0, 0>>, <<>>, "var", 1), Var(<<0>>, <<>>, "fix", 0)>>,
  <<Var(<<0>>, <<>>, "fix", 0), Var(<<0, 0>>, <<0>>, "str", 1)>>,
  <<Words(<<0, 0>>, <<0>>, "str", 1), Words(<<0, 0, 0>>, <<>>, "var", 2)>>,
  <<Var(<<0, 0, 0>>, <<>>, "var", 2)>>,
  <<Var(<<0, 0, 2, 0>>, <<>>, "fix", 2)>>,
  <<Var(<<0, 2, 0>>, <<>>, "fix", 2)>>,
  <<Var(<<0, 2, 0>>, <<>>, "var", 1)>>}

AnyLayout == Counted \cup Tagged \cup Bounded \cup Ended
TwoRecords == [lay \in AnyLayout |-> IF Len(lay[1].ext) > 3 THEN 1 ELSE 2]
=============================================================================
