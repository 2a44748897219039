----------------------------- MODULE DasIOWrite -----------------------------
(* das2/io.c, the write side: an output and the calls that put a header, a  *)
(* row or a message on it.  An output is                                     *)
(*   hdr     bSentHeader                                                     *)
(*   z       compressed                                                      *)
(*   buf     what waits in outbuf                                            *)
(*   sink    the frames that have reached the file                           *)
(*   failed  a call was refused: das_error, which ends a program that asked  *)
(*           for DASERR_DIS_EXIT                                             *)
(* A frame is [kind, id, x]: "stream", "packet", "data" or "oob", the packet *)
(* ID, and what it holds.  bSentHdr belongs to the descriptor written, which *)
(* may also be on its way to other outputs: it is an argument here.          *)
EXTENDS Integers, Sequences, FiniteSetsExt

CONSTANT OutSz   \* bound: frames that fill outbuf (CMPR_OUT_BUF_SZ)

ASSUME OutAssumption == OutSz \in Nat \ {0}

NewOutput == [hdr |-> FALSE, z |-> FALSE, buf |-> <<>>, sink |-> <<>>, failed |-> FALSE]

Frame(kind, id, x) == [kind |-> kind, id |-> id, x |-> x]
Refused(o) == [o EXCEPT !.failed = TRUE]

\* DasIO_printf and DasIO_write.  A buffer that is full goes out whole, and what
\* was to be written then is not; the buffer stays full.
Put(o, f) ==
  IF ~o.z THEN [o EXCEPT !.sink = Append(@, f)]
  ELSE IF Len(o.buf) < OutSz THEN [o EXCEPT !.buf = Append(@, f)]
  ELSE [o EXCEPT !.sink = @ \o o.buf]

\* Compression starts behind the header that announces it.
WriteStreamDesc(o, x, deflate) ==
  IF o.hdr THEN Refused(o)
  ELSE [Put(o, Frame("stream", 0, x)) EXCEPT !.hdr = TRUE, !.z = deflate]

WritePktDesc(o, id, x) == IF o.hdr THEN Put(o, Frame("packet", id, x)) ELSE Refused(o)

WritePktData(o, id, sentHdr, x) ==
  IF o.hdr /\ sentHdr THEN Put(o, Frame("data", id, x)) ELSE Refused(o)

\* DasIO_writeException and DasIO_writeComment.
WriteOob(o, x) == IF o.hdr THEN Put(o, Frame("oob", 0, x)) ELSE Refused(o)

Close(o) == [o EXCEPT !.sink = @ \o o.buf, !.buf = <<>>]
-----------------------------------------------------------------------------
(* What a reader of the output sees.                                         *)

DataFrames(s) == {i \in 1..Len(s) : s[i].kind = "data"}

\* Where the header is that a reader of s uses for frame i; 0 for none.
HeaderOf(s, i) ==
  Max({0} \cup {j \in 1..(i - 1) : s[j].kind = "packet" /\ s[j].id = s[i].id})

\* s may be read: its header first and once, no row before a header for its ID.
Readable(s) ==
  /\ \A i \in 1..Len(s) : (s[i].kind = "stream") <=> (i = 1)
  /\ \A i \in DataFrames(s) : HeaderOf(s, i) > 0
=============================================================================
