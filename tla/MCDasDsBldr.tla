----------------------------- MODULE MCDasDsBldr -----------------------------
(* Inputs for DasDsBldr.                                                     *)
EXTENDS DasDsBldr

Pkt(t, i, n, e, f, g) ==
  [tag |-> t, id |-> i, enc |-> n, size |-> "ok", elem |-> e, fmt |-> f, good |-> g]

A1 == [lay |-> "A", deco |-> 1]
A2 == [lay |-> "A", deco |-> 2]
B1 == [lay |-> "B", deco |-> 1]
C1 == [lay |-> "C", deco |-> 1]
Layouts == {A1, A2, B1, C1}

Stream2 == Pkt("[]", 0, "x", "stream", A1, TRUE)
Header2(i, f) == Pkt("[]", i, "x", "packet", f, TRUE)
\* ID 1 goes back and forth between two layouts; ID 2 has one of its own and
\* later the same layout as ID 1 (with other properties).
Das2Sets ==
  {Stream2, Header2(1, A1), Header2(1, B1), Header2(2, C1), Header2(2, A2)}
  \cup {Pkt("::", i, "d", "row", A1, TRUE) : i \in 1..2}

Das2Noise == {Pkt("::", 1, "d", "row", A1, FALSE), Pkt("[xx]", 0, "x", "comment", A1, TRUE)}

Das2Input == [m \in Models |-> Das2Sets]

Das3Sets ==
  {Pkt("|S", 0, "x", "stream", A1, TRUE), Pkt("|H", 0, "x", "dataset", A1, TRUE),
   Pkt("|H", 1, "x", "dataset", A1, TRUE), Pkt("|H", 2, "x", "dataset", B1, TRUE),
   Pkt("|P", 1, "d", "row", A1, FALSE)}
  \cup {Pkt("|P", i, "d", "row", A1, TRUE) : i \in 1..2}

AnyVersion == [m \in Models |-> IF m = "v3" THEN Das3Sets ELSE Das2Sets \cup Das2Noise]
=============================================================================
