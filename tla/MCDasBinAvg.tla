----------------------------- MODULE MCDasBinAvg -----------------------------
(* Layouts for DasBinAvg.                                                    *)
EXTENDS DasBinAvg

NoLay == [items |-> 0, wide |-> FALSE, vals |-> {}]

One == [items |-> 1, wide |-> FALSE, vals |-> {<<-1>>, <<2>>, <<Fill>>}]
Two == [items |-> 2, wide |-> FALSE, vals |-> {<<Fill, 2>>, <<1, -2>>}]
Wide == [items |-> 1, wide |-> TRUE, vals |-> {<<2>>, <<Fill>>}]
AnyLayout == {One, Two, Wide}
BeginOrNot == {1, NoTime}
==============================================================================
