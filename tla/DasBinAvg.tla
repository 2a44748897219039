------------------------------ MODULE DasBinAvg ------------------------------
(* The averaging reducers utilities/das2_bin_avg.c ("avg"),                  *)
(* das2_bin_avgsec.c ("avgsec", with -r and -s) and das2_bin_peakavgsec.c    *)
(* ("peak"): processors of DasIO_readAll that put one row on their output    *)
(* for each bin of time and packet ID.  The callbacks are the actions.       *)
(*                                                                           *)
(* A layout is [items, wide, vals]: its values besides the time, whether it  *)
(* has more planes than the reducer keeps room for, and the rows it may be   *)
(* given (a value or Fill for each item).  The sums and counts of a bin are  *)
(* the rows in it.  A row on the output shows the mean of rows, what the     *)
(* deviation was taken over, and the extremes.  Errors end the program.      *)
EXTENDS DasIOWrite

CONSTANTS
  Tools,      \* those to run
  MaxId,      \* the largest packet ID
  Layouts, NoLayout,
  Times,      \* the times rows may have
  Width,      \* the bin size
  Begins,     \* the times -b may give, NoTime for none
  NoTime,
  Fill,       \* PlaneDesc_getFill
  NoBin,      \* g_lbHasBinNo is false; das2_bin_avg: bin number -99999
  Deflate,    \* whether the input may say that it is compressed
  MaxPkt      \* bound: packets after the stream header

Ids == 1..MaxId

ASSUME BinAssumption ==
  /\ Tools \subseteq {"avg", "avgsec", "peak"}
  /\ MaxId \in Nat \ {0} /\ Width \in Nat \ {0} /\ MaxPkt \in Nat
  /\ Times \subseteq Int /\ Begins \subseteq Int \cup {NoTime}
  /\ NoTime \notin Int /\ NoBin \notin Int /\ NoLayout \notin Layouts
  /\ Deflate \subseteq BOOLEAN

\* A row has a value or fill for each item of its layout.
ASSUME LayoutAssumption ==
  /\ Fill \notin Int
  /\ \A f \in Layouts : /\ f.items \in Nat /\ f.wide \in BOOLEAN
                        /\ f.vals \subseteq [1..f.items -> Int \cup {Fill}]

VARIABLES
  tool,
  phase,  \* "start", "read", "done", or "exit", "crashed"
  start,  \* g_rStartMicroSec, bin0min
  desc,   \* the packet descriptors, the same on input and output: [fmt, at]: at is the
          \* number of the packet that brought it
  red,    \* the reducer: bin, rows, acc, lo, hi of each ID, and out
  npkt,   \* packets read
  fed     \* history: data packets read

vars == <<tool, phase, start, desc, red, npkt, fed>>

NoDesc == [fmt |-> NoLayout, at |-> 0]
Zeros(f) == [i \in 1..f.items |-> 0]

Init ==
  /\ tool \in Tools
  /\ phase = "start"
  /\ start \in IF tool = "avg" THEN {NoTime} ELSE Begins
  /\ desc = [i \in Ids |-> NoDesc]
  /\ red = [bin |-> [i \in Ids |-> NoBin], rows |-> [i \in Ids |-> {}],
            acc |-> [i \in Ids |-> {}], lo |-> [i \in Ids |-> <<>>],
            hi |-> [i \in Ids |-> <<>>], out |-> NewOutput, crash |-> FALSE]
  /\ npkt = 0 /\ fed = 0
-----------------------------------------------------------------------------
(* sendData                                                                  *)

\* Only the reducers in seconds look at the number of planes.
NoRoom(id) == tool # "avg" /\ desc[id].fmt.wide

\* The row put on the output: for each item the rows that count for its mean and
\* for its deviation, and the extremes if there is a mean.
BinRow(r, id) ==
  LET seen(i) == {x \in r.rows[id] : x.val[i] # Fill} IN
  [at |-> desc[id].at, bin |-> r.bin[id], rows |-> r.rows[id],
   item |-> [i \in 1..desc[id].fmt.items |->
     [mean |-> seen(i), dev |-> r.acc[id],
      lo |-> IF seen(i) = {} THEN Fill ELSE r.lo[id][i],
      hi |-> IF seen(i) = {} THEN Fill ELSE r.hi[id][i]]]]

\* Faulty variant: what the deviation needs is kept.
SendDataNoClear(r, id) ==
  IF r.bin[id] = NoBin THEN r
  ELSE IF NoRoom(id) THEN [r EXCEPT !.crash = TRUE]
  ELSE [r EXCEPT !.rows[id] = {},
                 !.lo[id] = Zeros(desc[id].fmt), !.hi[id] = Zeros(desc[id].fmt),
                 !.bin[id] = IF tool = "avg" THEN @ ELSE NoBin,
                 !.out = WritePktData(@, id, TRUE, BinRow(r, id))]

\* Faulty variant: the bin stays open.
SendDataKeepsBin(r, id) ==
  IF r.bin[id] = NoBin THEN r
  ELSE IF NoRoom(id) THEN [r EXCEPT !.crash = TRUE]
  ELSE [r EXCEPT !.rows[id] = {}, !.acc[id] = {},
                 !.lo[id] = Zeros(desc[id].fmt), !.hi[id] = Zeros(desc[id].fmt),
                 !.out = WritePktData(@, id, TRUE, BinRow(r, id))]

\* Nothing is sent for an ID without a bin.  das2_bin_avg keeps the bin number.
\* The sums of a layout with too many planes were never allocated.
SendData(r, id) ==
  IF r.bin[id] = NoBin THEN r
  ELSE IF NoRoom(id) THEN [r EXCEPT !.crash = TRUE]
  ELSE [r EXCEPT !.rows[id] = {}, !.acc[id] = {},
                 !.lo[id] = Zeros(desc[id].fmt), !.hi[id] = Zeros(desc[id].fmt),
                 !.bin[id] = IF tool = "avg" THEN @ ELSE NoBin,
                 !.out = WritePktData(@, id, TRUE, BinRow(r, id))]

\* What becomes of the program when the reducer has got to r.
Settle(r, next) ==
  phase' = IF r.crash THEN "crashed" ELSE IF r.out.failed THEN "exit" ELSE next
-----------------------------------------------------------------------------
(* The callbacks.                                                            *)

\* A copy of the header is the output's, its compression included.
OnStreamHdr ==
  /\ phase = "start"
  /\ phase' = "read"
  /\ \E z \in Deflate : red' = [red EXCEPT !.out = WriteStreamDesc(@, "in", z)]
  /\ UNCHANGED <<tool, start, desc, npkt, fed>>

Read == phase = "read" /\ npkt < MaxPkt /\ npkt' = npkt + 1

\* Faulty variant: the open bin of an ID defined again is forgotten.
FlushedNot(r, id) == [r EXCEPT !.bin[id] = NoBin]

\* The open bin of an ID defined again goes out under its own header.
Flushed(r, id) == IF desc[id] = NoDesc THEN r ELSE SendData(r, id)

\* Then all is set to zero, the bin number of das2_bin_avg aside.  Too many planes:
\* a message instead of a header.
OnPktHdr(id, f) ==
  /\ Read
  /\ LET r == Flushed(red, id)
         new == [r EXCEPT !.rows[id] = {}, !.acc[id] = {},
                          !.lo[id] = Zeros(f), !.hi[id] = Zeros(f)] IN
     /\ red' = IF r.crash THEN r
               ELSE IF tool = "avg" THEN [new EXCEPT !.out = WritePktDesc(@, id, npkt + 1)]
               ELSE IF f.wide THEN [r EXCEPT !.bin[id] = NoBin, !.out = WriteOob(@, "TooWide")]
               ELSE [new EXCEPT !.bin[id] = NoBin, !.out = WritePktDesc(@, id, npkt + 1)]
     /\ desc' = IF r.crash THEN desc
                ELSE [desc EXCEPT ![id] = [fmt |-> f, at |-> npkt + 1]]
     /\ Settle(red', "read")
  /\ UNCHANGED <<tool, start, fed>>

\* A conversion to an integer drops the fraction: rows less than a bin before the
\* start are in bin 0.
BinOf(t, s) == IF t >= s THEN (t - s) \div Width ELSE -((s - t) \div Width)

\* The minimum and the maximum begin with the first value, the peak with zero.
Lower(lo, n, v) == IF n = 0 \/ v < lo THEN v ELSE lo
Higher(hi, n, v) == IF (n = 0 /\ tool # "peak") \/ v > hi THEN v ELSE hi

\* The first row of all sets the start, the first of a new bin sends the old one.
\* The deviation is taken over rows with any value at all.
OnPktData(id, t, val) ==
  /\ Read /\ desc[id] # NoDesc /\ val \in desc[id].fmt.vals
  /\ start' = IF start = NoTime THEN t ELSE start
  /\ LET bin == BinOf(t, start')
         r == IF red.bin[id] \in {NoBin, bin} THEN red ELSE SendData(red, id)
         x == [n |-> npkt + 1, id |-> id, at |-> desc[id].at, t |-> t, val |-> val]
         any == \E i \in DOMAIN val : val[i] # Fill
         count(i) == Cardinality({y \in r.rows[id] : y.val[i] # Fill})
         Add(F(_, _, _), ext) ==
           [i \in DOMAIN ext |-> IF val[i] = Fill THEN ext[i] ELSE F(ext[i], count(i), val[i])]
     IN
     /\ red' = IF NoRoom(id)
               THEN [r EXCEPT !.bin[id] = bin, !.crash = @ \/ any]
               ELSE [r EXCEPT !.bin[id] = bin, !.rows[id] = @ \cup {x},
                              !.acc[id] = IF tool = "avgsec" /\ any THEN @ \cup {x} ELSE @,
                              !.lo[id] = Add(Lower, @), !.hi[id] = Add(Higher, @)]
     /\ fed' = IF NoRoom(id) THEN fed ELSE fed + 1
     /\ Settle(red', "read")
  /\ UNCHANGED <<tool, desc>>

\* das2_bin_avg has no handlers for comments and exceptions; das2_bin_avgsec -p
\* drops progress, das2_bin_peakavgsec thins it out and does not ask whether the
\* header is out.  A message may come before the header.
OnOob(kind) ==
  /\ phase \in {"start", "read"} /\ npkt < MaxPkt /\ npkt' = npkt + 1
  /\ \/ (tool = "avg" \/ kind = "progress") /\ UNCHANGED <<phase, red>>
     \/ /\ tool = "peak" /\ kind = "progress"
        /\ red' = [red EXCEPT !.out = Put(@, Frame("oob", 0, kind))]
        /\ UNCHANGED phase
     \/ /\ tool = "avgsec" \/ (tool = "peak" /\ kind # "progress")
        /\ red' = [red EXCEPT !.out = WriteOob(@, kind)]
        /\ Settle(red', phase)
  /\ UNCHANGED <<tool, start, desc, fed>>

\* The open bins in the order of their IDs.  The output is not closed: what is
\* printed leaves with the process, what waits to be compressed does not.
OnClose ==
  /\ phase = "read"
  /\ LET sent[n \in 0..MaxId] ==
           IF n = 0 THEN red
           ELSE IF desc[n] = NoDesc \/ sent[n - 1].crash THEN sent[n - 1]
           ELSE SendData(sent[n - 1], n)
     IN red' = sent[MaxId]
  /\ Settle(red', "done")
  /\ UNCHANGED <<tool, start, desc, npkt, fed>>

\* Input that does not parse ends the program without a close.
InputBad ==
  /\ phase \in {"start", "read"}
  /\ phase' = "exit"
  /\ UNCHANGED <<tool, start, desc, red, npkt, fed>>

Next ==
  \/ OnStreamHdr \/ OnClose \/ InputBad
  \/ \E id \in Ids, f \in Layouts : OnPktHdr(id, f)
  \/ \E id \in Ids, t \in Times : \E val \in desc[id].fmt.vals : OnPktData(id, t, val)
  \/ \E kind \in {"progress", "comment", "exception"} : OnOob(kind)

Spec == Init /\ [][Next]_vars
-----------------------------------------------------------------------------
(* Properties.                                                               *)

\* What a reader of the output gets: what has left, and while the program runs
\* what still waits to be compressed.
Running == phase \in {"start", "read"}
Sent == red.out.sink \o IF Running THEN red.out.buf ELSE <<>>
RowFrames == DataFrames(Sent)

\* Types; while it reads, a reducer in seconds has a bin for an ID just when there
\* are rows to send for it, and only the layout with too many planes reaches
\* memory that is not there.
TypeOK ==
  /\ tool \in Tools /\ phase \in {"start", "read", "done", "exit", "crashed"}
  /\ start \in Times \cup Begins \cup {NoTime}
  /\ npkt \in 0..MaxPkt /\ fed \in 0..npkt
  /\ \A i \in Ids : desc[i] # NoDesc => desc[i].fmt \in Layouts /\ desc[i].at \in 1..npkt
  /\ \A i \in Ids : ~NoRoom(i) => red.acc[i] \subseteq red.rows[i]
  /\ tool # "avg" =>
       \A i \in Ids : desc[i] # NoDesc /\ ~NoRoom(i) =>
         (red.bin[i] = NoBin <=> red.rows[i] = {})
  /\ phase = "crashed" => \E i \in Ids : desc[i] # NoDesc /\ NoRoom(i)

\* Every row read is either in the open bin of its packet ID or in one row of the
\* output, never in two, also when its ID has been defined again; at the end of
\* the input all have left.  The end of compressed output is not covered: as it
\* is never closed, what waits in its buffer is lost.
EveryRowOnce ==
  LET open == [i \in Ids |-> red.rows[i]]
      out == [k \in RowFrames |-> Sent[k].x.rows]
      all == UNION ({open[i] : i \in Ids} \cup {out[k] : k \in RowFrames}) IN
  /\ \A k, m \in RowFrames : k # m => out[k] \cap out[m] = {}
  /\ \A k \in RowFrames, i \in Ids : out[k] \cap open[i] = {}
  /\ phase # "crashed" /\ (Running \/ ~red.out.z) => Cardinality(all) = fed
  /\ phase = "done" => \A i \in Ids : open[i] = {}

\* A row of the output is read under the header of the rows it stands for, which
\* all have its packet ID and are no further from the start than its bin; its
\* extremes are theirs (a peak below zero aside), and of a single item the mean
\* and the deviation are taken over the same rows.  It stands for at least one,
\* das2_bin_avg aside, which goes on with the bin number of an ID defined again.
RowsMatch ==
  \A k \in RowFrames :
    LET x == Sent[k].x
        first == start + x.bin * Width
        vals(i) == {y.val[i] : y \in x.item[i].mean} IN
    /\ HeaderOf(Sent, k) > 0 /\ Sent[HeaderOf(Sent, k)].x = x.at
    /\ tool # "avg" => x.rows # {}
    /\ \A y \in x.rows :
         /\ y.id = Sent[k].id /\ y.at = x.at
         /\ y.t > first - Width /\ y.t < first + Width
         /\ y.t >= start => y.t >= first
    /\ \A i \in DOMAIN x.item : vals(i) # {} =>
         /\ tool = "avgsec" => x.item[i].lo \in vals(i) /\ \A v \in vals(i) : x.item[i].lo <= v
         /\ tool = "avgsec" \/ (tool = "peak" /\ \E v \in vals(i) : v >= 0) =>
              x.item[i].hi \in vals(i) /\ \A v \in vals(i) : v <= x.item[i].hi
    /\ tool = "avgsec" /\ DOMAIN x.item = {1} => x.item[1].dev = x.item[1].mean
=============================================================================
