----------------------------- MODULE RecordChannel -----------------------------
(* What das2/dataset.h promises of packets: a record of a dataset, all its   *)
(* variables, goes out in one packet and comes back as the next record of    *)
(* the receiving dataset; a packet that is not a whole record is refused.    *)
EXTENDS Sequences

VARIABLES
  flight,   \* the record on its way, <<>> for none
  good,     \* it is whole
  held,     \* the records received and kept
  stopped   \* the receiver has refused a packet

Init == flight = <<>> /\ held = <<>> /\ ~stopped

Send ==
  /\ ~stopped /\ flight = <<>>
  /\ Len(flight') = 1
  /\ UNCHANGED <<held, stopped>>

Receive ==
  /\ ~stopped /\ flight # <<>> /\ good
  /\ flight' = <<>>
  /\ held' = held \o flight
  /\ UNCHANGED stopped

\* What the receiver holds is of no use after it.
Refuse ==
  /\ ~stopped /\ flight # <<>> /\ ~good
  /\ flight' = <<>>
  /\ stopped'

Discard ==
  /\ ~stopped
  /\ held' = <<>>
  /\ UNCHANGED <<flight, stopped>>

Next == Send \/ Receive \/ Refuse \/ Discard

Spec == Init /\ [][Next]_<<flight, held, stopped>>
=============================================================================
