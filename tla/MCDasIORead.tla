----------------------------- MODULE MCDasIORead -----------------------------
(* Inputs for DasIORead.                                                     *)
EXTENDS DasIORead

A1 == [lay |-> "A", deco |-> 1]
A2 == [lay |-> "A", deco |-> 2]
B1 == [lay |-> "B", deco |-> 1]
Layouts == {A1, B1}

Pkt(t, i, n, z, e, f, g) ==
  [tag |-> t, id |-> i, enc |-> n, size |-> z, elem |-> e, fmt |-> f, good |-> g]

\* A das2 stream by the book: header, packet headers, data, comments.
Das2Stream ==
  {Pkt("[]", 0, "x", "ok", "stream", A1, TRUE), Pkt("[xx]", 0, "x", "ok", "comment", A1, TRUE)}
  \cup {Pkt("[]", i, "x", "ok", "packet", f, TRUE) : i \in 1..2, f \in Layouts}
  \cup {Pkt("::", i, "d", "ok", "row", A1, TRUE) : i \in 1..2}

\* What a das2 input may hold besides: documents, cut and repeated packets,
\* packets out of place, and content that does not parse.
Das2Faults ==
  {Pkt("eof", 0, "x", "ok", "row", A1, TRUE), Pkt("<", 0, "x", "ok", "stream", A1, TRUE),
   Pkt("[]", 1, "x", "zero", "packet", A1, TRUE), Pkt("::", 1, "d", "cut", "row", A1, TRUE),
   Pkt("::", 1, "d", "ok", "row", A1, FALSE), Pkt("[]", 1, "x", "ok", "packet", A1, FALSE),
   Pkt("[]", 1, "x", "ok", "stream", A1, TRUE), Pkt("[]", 0, "x", "ok", "packet", A1, TRUE),
   Pkt("[]", 1, "x", "ok", "dataset", B1, TRUE), Pkt("[xx]", 0, "x", "ok", "comment", A1, FALSE),
   Pkt("[xx]", 0, "x", "ok", "unknown", A1, TRUE), Pkt("[xx]", 0, "x", "ok", "exception", A1, TRUE)}

\* A das3 stream by the book.
Das3Stream ==
  {Pkt("|S", 0, "x", "ok", "stream", A1, TRUE), Pkt("|C", 0, "x", "ok", "comment", A1, TRUE)}
  \cup {Pkt("|H", i, "x", "ok", "dataset", f, TRUE) : i \in 1..2, f \in Layouts}
  \cup {Pkt("|P", i, "d", "ok", "row", A1, TRUE) : i \in 1..2}

\* What a das3 input may hold besides: other encodings, a second stream header,
\* das2 packets, IDs outside the table, lengths and content that are no good.
Das3Faults ==
  {Pkt("|S", 0, "d", "ok", "row", A1, TRUE), Pkt("|S", 0, "j", "ok", "stream", A1, TRUE),
   Pkt("|S", 0, "x", "ok", "stream", A1, FALSE), Pkt("|H", 0, "x", "ok", "dataset", A1, TRUE),
   Pkt("|H", 3, "x", "ok", "dataset", A1, TRUE), Pkt("|H", 1, "e", "ok", "dataset", A1, TRUE),
   Pkt("|H", 1, "x", "none", "dataset", A1, TRUE), Pkt("|H", 1, "x", "big", "dataset", A1, TRUE),
   Pkt("|H", 1, "x", "ok", "packet", A1, TRUE), Pkt("|H", 1, "x", "ok", "packet", A1, FALSE),
   Pkt("|P", 3, "d", "ok", "row", A1, TRUE), Pkt("|P", 1, "d", "ok", "row", A1, FALSE),
   Pkt("|X", 1, "x", "ok", "unknown", A1, TRUE), Pkt("|E", 0, "x", "ok", "exception", A1, TRUE),
   Pkt("|C", 0, "x", "ok", "comment", A1, FALSE), Pkt("[]", 1, "x", "ok", "packet", B1, TRUE)}

AnyInput ==
  [m \in Models |-> IF m = "v3" THEN Das3Stream \cup Das3Faults ELSE Das2Stream \cup Das2Faults]

\* What the theorem on TableLive asks of an input holds of this one.
ASSUME MixedIsDas2 == Das2Only
=============================================================================
