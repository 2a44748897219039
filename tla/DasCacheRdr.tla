----------------------------- MODULE DasCacheRdr -----------------------------
(* utilities/das2_cache_rdr.c: lists the cache files that hold a time range  *)
(* and sends their rows in one stream.  A time is <<year, month, day, hour,  *)
(* minute, second>>; the file of a cache level that is blocked by the first  *)
(* n of these is named by them.  Files may come and go while it runs.        *)
(* An input file is a stream header, then packet headers and rows in time    *)
(* order, of one packet ID; it may break off anywhere.  Any error ends the   *)
(* program (DASERR_DIS_EXIT).  Messages in the files are not passed on.      *)
EXTENDS DasIOWrite

CONSTANTS
  Requests,   \* records [beg, end, n, rows]: a range (pad applied), the blocking
              \* of the level picked for it, and the times of the rows it may hold
  Formats,    \* records [lay, tags, ser]: planes, Y tags, whether the tags are
              \* given by an interval rather than listed
  NoFmt,
  MaxHdr,     \* bound: packet headers in a file
  MaxChange   \* bound: times a file comes or goes

ASSUME CacheAssumption ==
  /\ \A r \in Requests :
       /\ r.n \in 1..6 /\ IsFiniteSet(r.rows)
       /\ r.beg \in [1..6 -> Int] /\ r.end \in [1..6 -> Int] /\ r.rows \subseteq [1..6 -> Int]
  /\ \A f \in Formats :
       f = [lay |-> f.lay, tags |-> f.tags, ser |-> f.ser] /\ f.ser \in BOOLEAN
  /\ NoFmt \notin Formats
  /\ MaxHdr \in Nat /\ MaxChange \in Nat

VARIABLES
  req,     \* the request
  files,   \* the blocks there is a file for
  pc,      \* "count", "list", "open", "read", "done", or "exit", "crashed"
  cur,     \* lCur
  uMax,    \* files seen by the first pass
  list,    \* pFileList
  u,       \* the file being read
  rest,    \* times of the rows left in it
  hdrs,    \* packet headers read from it
  pdIn,    \* its packet descriptor: format and bSentHdr
  pdOut,   \* the format pSdOut has for the ID
  npkt,    \* nPktsSent
  out,     \* pOut
  changes, grew, always  \* history: changes so far, a file came while listing,
                         \* the blocks whose file was there all the time

sys == <<files, changes, grew, always>>
rdr == <<req, pc, cur, uMax, list, u, rest, hdrs, pdIn, pdOut, npkt, out>>
vars == <<sys, rdr>>
-----------------------------------------------------------------------------
(* das2/time.c: tnorm.                                                       *)

IsLeap(y) == y % 4 = 0 /\ (y % 100 # 0 \/ y % 400 = 0)
YearLen(y) == IF IsLeap(y) THEN 366 ELSE 365
DaysBefore(y, m) ==
  <<0, 31, 59, 90, 120, 151, 181, 212, 243, 273, 304, 334>>[m]
  + (IF IsLeap(y) /\ m > 2 THEN 1 ELSE 0)

\* The date of a day <<y, yday>> counted from the start of year y.
DateOf[d \in Int \X Int] ==
  LET y == d[1]
      yday == d[2]
  IN IF yday < 1 THEN DateOf[<<y - 1, yday + YearLen(y - 1)>>]
     ELSE IF yday > YearLen(y) THEN DateOf[<<y + 1, yday - YearLen(y)>>]
     ELSE LET m == CHOOSE k \in 1..12 : /\ DaysBefore(y, k) < yday
                                        /\ k = 12 \/ yday <= DaysBefore(y, k + 1)
          IN <<y, m, yday - DaysBefore(y, m)>>

Tnorm(t) ==
  LET y0 == IF t[1] < 100 THEN t[1] + 1900 ELSE t[1]
      y == y0 + (t[2] - 1) \div 12
      minute == t[5] + t[6] \div 60
      hour == t[4] + minute \div 60
      yday == DaysBefore(y, ((t[2] - 1) % 12) + 1) + t[3] + hour \div 24
  IN DateOf[<<y, yday>>] \o <<hour % 24, minute % 60, t[6] % 60>>

\* cmpArrays < 0
Before(a, b, n) == \E i \in 1..n : a[i] < b[i] /\ \A j \in 1..(i - 1) : a[j] = b[j]

Block(t) == SubSeq(t, 1, req.n)
BlocksOf(r) == {SubSeq(x, 1, r.n) : x \in r.rows}
-----------------------------------------------------------------------------
(* timeBinFileList.                                                          *)

Bumped(t) == Tnorm([t EXCEPT ![req.n] = @ + 1])

\* Faulty variant: the block the range ends in is not asked for.
FirstAfterNoBump == Block(req.end) \o SubSeq(<<1, 1, 1, 0, 0, 0>>, req.n + 1, 6)

\* lEnd: seconds count for blocks of a minute or a second only.
FirstAfter ==
  LET t == [req.end EXCEPT ![6] = IF req.n > 4 THEN @ ELSE 0]
      whole == Block(t) \o SubSeq(<<1, 1, 1, 0, 0, 0>>, req.n + 1, 6)
  IN Tnorm(IF \E i \in (req.n + 1)..6 : t[i] > 0
           THEN [whole EXCEPT ![req.n] = @ + 1] ELSE whole)

\* The passes set the first n components only: the first one finds zeros in the
\* others, the second one what the first has left there.
Restart(t) == Block(req.beg) \o SubSeq(t, req.n + 1, 6)

Init ==
  /\ req \in Requests
  /\ files \in SUBSET BlocksOf(req)
  /\ pc = "count" /\ cur = Restart(<<0, 0, 0, 0, 0, 0>>)
  /\ uMax = 0 /\ list = <<>> /\ u = 0 /\ rest = {} /\ hdrs = 0
  /\ pdIn = [fmt |-> NoFmt, sent |-> FALSE] /\ pdOut = NoFmt
  /\ npkt = 0 /\ out = NewOutput
  /\ changes = 0 /\ grew = FALSE /\ always = files

Looking == Before(cur, FirstAfter, req.n)

Count ==
  /\ pc = "count" /\ Looking
  /\ uMax' = IF Block(cur) \in files THEN uMax + 1 ELSE uMax
  /\ cur' = Bumped(cur)
  /\ UNCHANGED <<sys, req, pc, list, u, rest, hdrs, pdIn, pdOut, npkt, out>>

\* No files, no list: there is nothing to open.
Counted ==
  /\ pc = "count" /\ ~Looking
  /\ pc' = IF uMax = 0 THEN "open" ELSE "list"
  /\ cur' = Restart(cur)
  /\ UNCHANGED <<sys, req, uMax, list, u, rest, hdrs, pdIn, pdOut, npkt, out>>

\* Faulty variant: as many as there are now.
ListUncapped ==
  /\ pc = "list" /\ Looking
  /\ list' = IF Block(cur) \in files THEN Append(list, Block(cur)) ELSE list
  /\ cur' = Bumped(cur)
  /\ UNCHANGED <<sys, req, pc, uMax, u, rest, hdrs, pdIn, pdOut, npkt, out>>

\* The file system may have changed: no more names than there is room for.
List ==
  /\ pc = "list" /\ Looking /\ Len(list) < uMax
  /\ list' = IF Block(cur) \in files THEN Append(list, Block(cur)) ELSE list
  /\ cur' = Bumped(cur)
  /\ UNCHANGED <<sys, req, pc, uMax, u, rest, hdrs, pdIn, pdOut, npkt, out>>

Listed ==
  /\ pc = "list" /\ ~(Looking /\ Len(list) < uMax)
  /\ pc' = "open"
  /\ UNCHANGED <<sys, req, cur, uMax, list, u, rest, hdrs, pdIn, pdOut, npkt, out>>
-----------------------------------------------------------------------------
(* readCache and the callbacks.                                              *)

First(S) == CHOOSE x \in S : \A y \in S : ~Before(y, x, 6)

\* new_DasIO_file and onStreamHdr: the first header is passed on.
Open ==
  /\ pc = "open" /\ u < Len(list) /\ list[u + 1] \in files
  /\ pc' = "read"
  /\ u' = u + 1
  /\ rest' = {x \in req.rows : Block(x) = list[u + 1]}
  /\ hdrs' = 0 /\ pdIn' = [fmt |-> NoFmt, sent |-> FALSE]
  /\ out' = IF out.hdr THEN out ELSE WriteStreamDesc(out, "in", FALSE)
  /\ UNCHANGED <<sys, req, cur, uMax, list, pdOut, npkt>>

\* The file has gone, or has no stream header: an error.
OpenFails ==
  /\ pc = "open" /\ u < Len(list)
  /\ pc' = "exit"
  /\ UNCHANGED <<sys, req, cur, uMax, list, u, rest, hdrs, pdIn, pdOut, npkt, out>>

\* Faulty variant: formats whose Y tags differ are taken for equal.
EqualLayout(a, b) == IF a.lay = b.lay THEN "same" ELSE "other"

\* PktDesc_equalFormat: the test for missing Y tags looks at the same plane twice,
\* and intervals are not compared.
EqualFormat(a, b) ==
  IF a.lay # b.lay THEN "other"
  ELSE IF a.ser THEN "same"
  ELSE IF b.ser THEN "crash"
  ELSE IF a.tags = b.tags THEN "same" ELSE "other"

\* onPktHdr
ReadPktHdr(f) ==
  /\ pc = "read" /\ hdrs < MaxHdr
  /\ hdrs' = hdrs + 1
  /\ LET eq == IF pdOut = NoFmt THEN "other" ELSE EqualFormat(f, pdOut) IN
     /\ pc' = IF eq = "crash" THEN "crashed" ELSE pc
     /\ pdIn' = [fmt |-> f, sent |-> eq # "crash"]
     /\ IF eq = "other" THEN pdOut' = f /\ out' = WritePktDesc(out, 1, f)
        ELSE UNCHANGED <<pdOut, out>>
  /\ UNCHANGED <<sys, req, cur, uMax, list, u, rest, npkt>>

\* Faulty variant: the row at the end of the range is sent too.
DroppedClosed(x) == Before(x, req.beg, 6) \/ Before(req.end, x, 6)

\* The rows of a file that were not asked for.
Dropped(x) == Before(x, req.beg, 6) \/ ~Before(x, req.end, 6)

\* onPktData
ReadRow ==
  /\ pc = "read" /\ rest # {} /\ pdIn.fmt # NoFmt
  /\ LET x == First(rest)
         o == WritePktData(out, 1, pdIn.sent, [fmt |-> pdIn.fmt, at |-> x]) IN
     /\ rest' = rest \ {x}
     /\ IF Dropped(x) THEN UNCHANGED <<pc, npkt, out>>
        ELSE /\ out' = o
             /\ IF o.failed THEN pc' = "exit" /\ UNCHANGED npkt
                ELSE npkt' = npkt + 1 /\ UNCHANGED pc
  /\ UNCHANGED <<sys, req, cur, uMax, list, u, hdrs, pdIn, pdOut>>

FileEnds ==
  /\ pc = "read" /\ rest = {}
  /\ pc' = "open"
  /\ UNCHANGED <<sys, req, cur, uMax, list, u, rest, hdrs, pdIn, pdOut, npkt, out>>

FileBreaks ==
  /\ pc = "read"
  /\ pc' = "exit"
  /\ UNCHANGED <<sys, req, cur, uMax, list, u, rest, hdrs, pdIn, pdOut, npkt, out>>

\* sendNoData, when no row was sent.
NoData(o) == WriteOob(IF o.hdr THEN o ELSE WriteStreamDesc(o, "own", FALSE), "NoData")

Finish ==
  /\ pc = "open" /\ u = Len(list)
  /\ pc' = "done"
  /\ out' = IF npkt = 0 THEN NoData(out) ELSE out
  /\ UNCHANGED <<sys, req, cur, uMax, list, u, rest, hdrs, pdIn, pdOut, npkt>>

\* The cache builder and the cleaner are at work meanwhile.
Appear(b) ==
  /\ changes < MaxChange /\ pc \in {"count", "list", "open"} /\ b \notin files
  /\ files' = files \cup {b}
  /\ changes' = changes + 1
  /\ grew' = (grew \/ pc \in {"count", "list"})
  /\ UNCHANGED <<always, rdr>>

Vanish(b) ==
  /\ changes < MaxChange /\ pc \in {"count", "list", "open"} /\ b \in files
  /\ files' = files \ {b}
  /\ changes' = changes + 1
  /\ always' = IF pc = "open" THEN always ELSE always \ {b}
  /\ UNCHANGED <<grew, rdr>>

Next ==
  \/ Count \/ Counted \/ List \/ Listed
  \/ Open \/ OpenFails \/ ReadRow \/ FileEnds \/ FileBreaks \/ Finish
  \/ \E f \in Formats : ReadPktHdr(f)
  \/ \E b \in BlocksOf(req) : Appear(b) \/ Vanish(b)

Spec == Init /\ [][Next]_vars
-----------------------------------------------------------------------------
(* Properties.                                                               *)

\* The range is half open.
Inside(x) == (x = req.beg \/ Before(req.beg, x, 6)) /\ Before(x, req.end, 6)

\* Types; the names listed never outgrow the room allocated for them, and what is
\* read is one of them.
TypeOK ==
  /\ req \in Requests
  /\ files \subseteq BlocksOf(req) /\ always \subseteq BlocksOf(req)
  /\ pc \in {"count", "list", "open", "read", "done", "exit", "crashed"}
  /\ Len(cur) = 6 /\ cur = [i \in 1..6 |-> cur[i]]
  /\ Len(list) <= uMax /\ u <= Len(list)
  /\ pc = "read" => u > 0 /\ rest \subseteq {x \in req.rows : Block(x) = list[u]}
  /\ pdOut \in Formats \cup {NoFmt} /\ pdIn.fmt \in Formats \cup {NoFmt}
  /\ hdrs \in 0..MaxHdr /\ changes \in 0..MaxChange

\* The files are listed in the order of time, each once, and every file there is
\* from the start to the end of the listing that holds a row of the range is among
\* them, unless another one appears meanwhile: the room is that of the first count.
BlocksServed ==
  pc \in {"open", "read", "done"} =>
    /\ \A i, j \in 1..Len(list) : i < j => Before(list[i], list[j], req.n)
    /\ ~grew => \A x \in req.rows :
         Inside(x) /\ Block(x) \in always => \E i \in 1..Len(list) : list[i] = Block(x)

\* What is sent may be read at any moment, and its rows are those of the range in
\* the order of time.  In the end they are all those of the files listed; if there
\* are none the stream says so.
RowsServed ==
  LET s == out.sink
      D == DataFrames(s)
  IN
  /\ Readable(s)
  /\ \A i \in D : Inside(s[i].x.at)
  /\ \A i, j \in D : i < j => Before(s[i].x.at, s[j].x.at, 6)
  /\ pc = "done" =>
       /\ \A x \in req.rows : Inside(x) /\ (\E i \in 1..Len(list) : list[i] = Block(x))
            => \E i \in D : s[i].x.at = x
       /\ D = {} => s # <<>> /\ s[Len(s)].kind = "oob"

\* The header a row is read under is that of its own format, although headers that
\* repeat from file to file are left out.
UnderOwnHeader ==
  LET s == out.sink IN
  \A i \in DataFrames(s) : s[HeaderOf(s, i)].x = s[i].x.fmt
=============================================================================
