------------------------------ MODULE DasIORead ------------------------------
(* das2/io.c and das2/stream.c, the read side: DasIO_readAll takes a stream  *)
(* apart packet by packet, keeps the table of packet descriptors and calls   *)
(* the attached processors (processor.h).                                    *)
(*                                                                           *)
(* A packet of the input is a record:                                        *)
(*   tag    the kind of tag it starts with ("eof": no more bytes,            *)
(*          "short": a cut tag, "[]" and "[xx]" and "::" of das2, the        *)
(*          letter of a das3 "|L" tag, "<" and "{" for bare documents)       *)
(*   id     its packet ID                                                    *)
(*   enc    "x" XML, "d" data, "j" JSON, "e" anything else                   *)
(*   size   "ok", or why its bytes can not be had: "none" (no length),       *)
(*          "zero", "big" (more than the buffer), "cut" (input ends)         *)
(*   elem   the element it holds: "stream", "packet", "dataset", "comment",  *)
(*          "exception", or "row" for a data packet                          *)
(*   fmt    the layout it defines                                            *)
(*   good   whether its content parses                                       *)
(*                                                                           *)
(* das_error is taken to return (das_return_on_error); when it exits the     *)
(* process instead a behaviour stops at its first error.  One callback of    *)
(* one processor is one step.  The program is single threaded.               *)
EXTENDS Integers, Sequences, FiniteSets

CONSTANTS
  Models,     \* what DasIO_model may have been set to: "v2", "v3" or "mixed"
  Input,      \* the packets an input may hold, for each of them
  Reuse,      \* under which of them an input may define a packet ID again
  MaxSlot,    \* MAX_PKTIDS - 1: the largest index of the descriptor table
  NProc,      \* attached processors, called in the order 1..NProc
  Fails,      \* those whose callbacks may return an error
  HasDsData,  \* those with a dsDataHandler
  Fmt,        \* layouts: records [lay, deco]: planes, and properties beside
  Obj,        \* the descriptor objects allocated in a run
  MaxPkt,     \* bound: packets in the input
  NoObj

Proc == 1..NProc

ASSUME ReadAssumption ==
  /\ Models \subseteq {"v2", "v3", "mixed"} /\ Reuse \subseteq Models
  /\ MaxSlot \in Nat \ {0}
  /\ NProc \in Nat
  /\ Fails \subseteq Proc
  /\ HasDsData \subseteq Proc
  /\ MaxPkt \in Nat
  /\ NoObj \notin Obj

\* A header has a layout; what is no header may have any.
ASSUME InputAssumption == \A m \in Models : \A p \in Input[m] : p.fmt \in Fmt

VARIABLES
  model,  \* how packets are decoded
  phase,  \* where readAll is: "tag" between packets, the name of the callback
          \* loop it is in, "end" after its return, "crashed"
  pos,    \* the processor the current loop calls next
  first,  \* bFirstRead
  pSd,    \* the stream descriptor: "null", "open" or "gone"
  desc,   \* its descriptors[] table
  obj,    \* the heap of packet and dataset descriptors
  cur,    \* the packet in progress: its ID and its descriptor
  elem,   \* what the packet in progress is
  nRet, hRet,  \* return codes of the loop, of the close handlers
  bClearDs,    \* some processor had no handler for the dataset's data
  npkt,   \* packets read
  seen    \* history: the descriptor last announced to a processor for an ID

readVars == <<model, phase, pos, first, pSd, desc, cur, elem, nRet, hRet, bClearDs, npkt, seen>>
vars == <<readVars, obj>>

Slot == 0..MaxSlot
Unused == [st |-> "unused", kind |-> "PACKET", fmt |-> NoObj, src |-> 0,
           parent |-> "none", rows |-> 0]
Live(o) == o \in Obj /\ obj[o].st = "live"

Init ==
  /\ model \in Models
  /\ phase = "tag" /\ pos = 1 /\ first = TRUE
  /\ pSd = "null"
  /\ desc = [i \in Slot |-> NoObj]
  /\ obj = [o \in Obj |-> Unused]
  /\ cur = [id |-> 0, o |-> NoObj]
  /\ elem = "none"
  /\ nRet = 0 /\ hRet = 0 /\ bClearDs = FALSE /\ npkt = 0
  /\ seen = [u \in Proc |-> [i \in Slot |-> NoObj]]

\* calloc of a descriptor: the first object never used.
Fresh(heap) == CHOOSE o \in Obj : heap[o].st = "unused"
HasRoom == \E o \in Obj : obj[o].st = "unused"

\* del_PktDesc and del_DasDs.
Freed(heap, objs) == [o \in Obj |-> IF o \in objs THEN [heap[o] EXCEPT !.st = "freed"]
                                    ELSE heap[o]]
-----------------------------------------------------------------------------
(* What one packet is, from its tag and its length.                          *)

Das2Tag(p) == p.tag \in {"[]", "[xx]", "::"}
IsData(p) == p.tag = "::" \/ (~Das2Tag(p) /\ p.enc = "d")
IsOob(p) == ~IsData(p) /\ p.tag \in {"[xx]", "|C", "|E"}
IsHeader(p) == ~IsData(p) /\ ~IsOob(p)

\* _DasIO_dataTypeOrErr: does the tag open a packet that may come here?
TagOk(p) ==
  \/ p.tag \in {"[xx]", "::"}
  \/ p.tag = "[]" /\ (first <=> p.id = 0)
  \/ p.tag = "|S" /\ first /\ p.id = 0
  \/ p.tag \in {"|H", "|P", "|X", "|C", "|E"} /\ ~first

\* _DasIO_sizeOrErr and the read of the bytes: only the data packets of das2
\* have no length of their own and take it from their descriptor.
SizeOk(p) ==
  /\ p.size = "ok"
  /\ p.tag = "::" => pSd = "open" /\ desc[p.id] # NoObj

\* DasIO_readAll goes on to dispatch the packet on its encoding.
Takes(p) ==
  /\ phase = "tag"
  /\ npkt < MaxPkt
  /\ p.tag # "eof" /\ TagOk(p) /\ SizeOk(p)
  /\ Das2Tag(p) \/ p.enc \in {"x", "d"}
  /\ npkt' = npkt + 1
  /\ first' = FALSE

\* Leave the loop over the packets for the close handlers.
Leave(ret) == nRet' = ret /\ phase' = "close" /\ pos' = 1

EndOfInput ==
  /\ phase = "tag"
  /\ ~first
  /\ Leave(0)
  /\ UNCHANGED <<model, first, pSd, desc, obj, cur, elem, hRet, bClearDs, npkt, seen>>

\* An input that is empty, or a packet refused before its content is looked at.
Reject(p) ==
  /\ phase = "tag"
  /\ npkt < MaxPkt
  /\ \/ p.tag = "eof" /\ first
     \/ p.tag # "eof" /\ ~(TagOk(p) /\ SizeOk(p) /\ (Das2Tag(p) \/ p.enc \in {"x", "d"}))
  /\ Leave(1)
  /\ npkt' = npkt + 1
  /\ UNCHANGED <<model, first, pSd, desc, obj, cur, elem, hRet, bClearDs, seen>>
-----------------------------------------------------------------------------
(* _DasIO_handleDesc                                                         *)

\* What DasDesc_decode makes of the element; a packet becomes a dataset when
\* the version 3 model is asked for.
Decoded(p) ==
  CASE ~p.good -> "error"
    [] p.good /\ p.elem = "stream" -> "STREAM"
    [] p.good /\ p.elem = "packet" -> IF model = "v3" THEN "DATASET" ELSE "PACKET"
    [] p.good /\ p.elem = "dataset" -> IF model = "v2" THEN "error" ELSE "DATASET"
    [] OTHER -> "error"

\* The version 3 model writes to, or converts, a stream or packet descriptor
\* without looking whether its parser returned one.
DecodeCrashes(p) == model = "v3" /\ ~p.good /\ p.elem \in {"stream", "packet"}

\* The header is refused: it does not parse, the stream is described twice, or
\* a packet is described before the stream.  (What was parsed is never freed; it
\* is not counted as an object here.)  An ID past the table reads whatever lies
\* behind it: the frames, and where that is NULL addDesc refuses the ID.
RefuseHeader(p) ==
  /\ Takes(p) /\ IsHeader(p)
  /\ ~DecodeCrashes(p)
  /\ \/ Decoded(p) = "error"
     \/ Decoded(p) = "STREAM" /\ pSd # "null"
     \/ Decoded(p) \in {"PACKET", "DATASET"} /\ (pSd = "null" \/ p.id \notin Slot)
  /\ Leave(1)
  /\ UNCHANGED <<model, pSd, desc, obj, cur, elem, hRet, bClearDs, seen>>

StreamHeader(p) ==
  /\ Takes(p) /\ IsHeader(p)
  /\ Decoded(p) = "STREAM" /\ pSd = "null"
  /\ pSd' = "open"
  /\ elem' = "STREAM"
  /\ phase' = "announce" /\ pos' = 1
  /\ UNCHANGED <<model, desc, obj, cur, nRet, hRet, bClearDs, seen>>

\* A descriptor for a slot of the table; when the slot is taken the processors
\* are asked first, otherwise that loop is over before it starts.
PacketHeader(p) ==
  /\ Takes(p) /\ IsHeader(p)
  /\ Decoded(p) \in {"PACKET", "DATASET"} /\ pSd = "open"
  /\ p.id \in Slot
  /\ model \in Reuse \/ desc[p.id] = NoObj
  /\ HasRoom
  /\ LET o == Fresh(obj) IN
       /\ obj' = [obj EXCEPT ![o] = [Unused EXCEPT !.st = "live", !.kind = Decoded(p),
                    !.fmt = p.fmt, !.src = p.id,
                    !.parent = IF Decoded(p) = "PACKET" THEN "src" ELSE "none"]]
       /\ cur' = [id |-> p.id, o |-> o]
  /\ elem' = Decoded(p)
  /\ phase' = "redef"
  /\ pos' = IF desc[p.id] # NoObj THEN 1 ELSE NProc + 1
  /\ UNCHANGED <<model, pSd, desc, nRet, hRet, bClearDs, seen>>

\* One pktRedefHandler; a refusal drops the new descriptor and keeps the old.
RedefReturns(ret) ==
  /\ phase = "redef" /\ pos \in Proc
  /\ IF ret = 0 THEN pos' = pos + 1 /\ UNCHANGED <<phase, nRet>> ELSE Leave(ret)
  /\ UNCHANGED <<model, first, pSd, desc, cur, elem, hRet, bClearDs, npkt, seen>>

RedefHandler(ret) ==
  /\ RedefReturns(ret)
  /\ obj' = IF ret = 0 THEN obj ELSE Freed(obj, {cur.o})

\* DasStream_addDesc refuses an ID outside the table and a packet descriptor
\* that is equal to one the stream has.
AddRefused(table, o, id) ==
  \/ id \notin 1..MaxSlot
  \/ /\ obj[o].kind = "PACKET"
     /\ \E i \in Slot : /\ table[i] # NoObj
                        /\ obj[table[i]].kind = "PACKET"
                        /\ obj[table[i]].fmt = obj[o].fmt

\* Faulty variant: the slot of a descriptor that is freed is not cleared.
InstallDescDangling ==
  /\ phase = "redef" /\ pos = NProc + 1
  /\ LET heap == Freed(obj, {desc[cur.id]} \ {NoObj})
     IN IF AddRefused([desc EXCEPT ![cur.id] = NoObj], cur.o, cur.id)
        THEN Leave(1) /\ obj' = heap /\ UNCHANGED desc
        ELSE /\ desc' = [desc EXCEPT ![cur.id] = cur.o]
             /\ obj' = [heap EXCEPT ![cur.o].parent = "src"]
             /\ phase' = "announce" /\ pos' = 1
             /\ UNCHANGED nRet
  /\ UNCHANGED <<model, first, pSd, cur, elem, hRet, bClearDs, npkt, seen>>

\* Faulty variant: the old descriptor is dropped from the table, not freed.
InstallDescLeak ==
  /\ phase = "redef" /\ pos = NProc + 1
  /\ LET rest == [desc EXCEPT ![cur.id] = NoObj]
     IN IF AddRefused(rest, cur.o, cur.id)
        THEN Leave(1) /\ desc' = rest /\ UNCHANGED obj
        ELSE /\ desc' = [desc EXCEPT ![cur.id] = cur.o]
             /\ obj' = [obj EXCEPT ![cur.o].parent = "src"]
             /\ phase' = "announce" /\ pos' = 1
             /\ UNCHANGED nRet
  /\ UNCHANGED <<model, first, pSd, cur, elem, hRet, bClearDs, npkt, seen>>

\* Faulty variant: a redefinition is not announced to the processors.
InstallDescSilent ==
  /\ phase = "redef" /\ pos = NProc + 1
  /\ LET old == desc[cur.id]
         rest == [desc EXCEPT ![cur.id] = NoObj]
         heap == Freed(obj, {old} \ {NoObj})
     IN IF AddRefused(rest, cur.o, cur.id)
        THEN Leave(1) /\ desc' = rest /\ obj' = heap
        ELSE /\ desc' = [desc EXCEPT ![cur.id] = cur.o]
             /\ obj' = [heap EXCEPT ![cur.o].parent = "src"]
             /\ phase' = "announce" /\ pos' = IF old = NoObj THEN 1 ELSE NProc + 1
             /\ UNCHANGED nRet
  /\ UNCHANGED <<model, first, pSd, cur, elem, hRet, bClearDs, npkt, seen>>

\* DasStream_freeDatDesc of the old descriptor, DasStream_addDesc of the new.
InstallDesc ==
  /\ phase = "redef" /\ pos = NProc + 1
  /\ LET old == desc[cur.id]
         rest == [desc EXCEPT ![cur.id] = NoObj]
         heap == Freed(obj, {old} \ {NoObj})
     IN IF AddRefused(rest, cur.o, cur.id)
        THEN Leave(1) /\ desc' = rest /\ obj' = heap
        ELSE /\ desc' = [desc EXCEPT ![cur.id] = cur.o]
             /\ obj' = [heap EXCEPT ![cur.o].parent = "src"]
             /\ phase' = "announce" /\ pos' = 1
             /\ UNCHANGED nRet
  /\ UNCHANGED <<model, first, pSd, cur, elem, hRet, bClearDs, npkt, seen>>

\* One streamDescHandler, pktDescHandler or dsDescHandler.
AnnounceReturns(ret) ==
  /\ phase = "announce" /\ pos \in Proc
  /\ seen' = IF elem = "STREAM" THEN seen ELSE [seen EXCEPT ![pos][cur.id] = cur.o]
  /\ IF ret = 0 THEN pos' = pos + 1 /\ UNCHANGED <<phase, nRet>> ELSE Leave(ret)
  /\ UNCHANGED <<model, first, pSd, desc, cur, elem, hRet, bClearDs, npkt>>

AnnounceHandler(ret) == AnnounceReturns(ret) /\ UNCHANGED obj

AnnounceDone ==
  /\ phase = "announce" /\ pos = NProc + 1
  /\ phase' = "tag"
  /\ UNCHANGED <<model, pos, first, pSd, desc, obj, cur, elem, nRet, hRet, bClearDs, npkt, seen>>
-----------------------------------------------------------------------------
(* _DasIO_handleData                                                         *)

\* The record is decoded: a dataset grows by a row, a packet descriptor holds
\* the last row only.
DataPacket(p) ==
  /\ Takes(p) /\ IsData(p)
  /\ pSd = "open" /\ p.id \in Slot /\ desc[p.id] # NoObj
  /\ LET o == desc[p.id] IN
       /\ cur' = [id |-> p.id, o |-> o]
       /\ elem' = obj[o].kind
       /\ IF p.good
          THEN /\ obj' = [obj EXCEPT ![o].rows = IF obj[o].kind = "DATASET" THEN @ + 1 ELSE 1]
               /\ phase' = "deliver" /\ pos' = 1 /\ bClearDs' = FALSE
               /\ UNCHANGED nRet
          ELSE Leave(1) /\ UNCHANGED <<obj, bClearDs>>
  /\ UNCHANGED <<model, pSd, desc, hRet, seen>>

\* One pktDataHandler or dsDataHandler; a processor without the latter asks for
\* the rows to be dropped.
DeliverReturns(ret) ==
  /\ phase = "deliver" /\ pos \in Proc
  /\ IF elem = "DATASET" /\ pos \notin HasDsData
     THEN ret = 0 /\ bClearDs' = TRUE
     ELSE UNCHANGED bClearDs
  /\ nRet' = ret
  /\ pos' = IF ret = 0 THEN pos + 1 ELSE NProc + 1
  /\ UNCHANGED <<model, phase, first, pSd, desc, cur, elem, hRet, npkt, seen>>

DeliverHandler(ret) == DeliverReturns(ret) /\ UNCHANGED obj

\* DasDs_clearRagged0 when asked for, then the next packet.
DeliverDone ==
  /\ phase = "deliver" /\ pos = NProc + 1
  /\ obj' = IF bClearDs THEN [obj EXCEPT ![cur.o].rows = 0] ELSE obj
  /\ IF nRet = 0 THEN phase' = "tag" /\ UNCHANGED <<pos, nRet>> ELSE Leave(nRet)
  /\ UNCHANGED <<model, first, pSd, desc, cur, elem, hRet, bClearDs, npkt, seen>>

\* Nothing checks that the stream and the packet of a header or data packet are
\* there, but for the data packets of das2.
Crash(p) ==
  /\ Takes(p)
  /\ \/ IsHeader(p) /\ DecodeCrashes(p)
     \/ IsHeader(p) /\ Decoded(p) \in {"PACKET", "DATASET"} /\ pSd = "open" /\ p.id \notin Slot
     \/ IsData(p) /\ (pSd = "null" \/ p.id \notin Slot)
     \/ IsData(p) /\ pSd = "open" /\ p.id \in Slot /\ desc[p.id] = NoObj
  /\ phase' = "crashed"
  /\ UNCHANGED <<model, pos, pSd, desc, obj, cur, elem, nRet, hRet, bClearDs, seen>>
-----------------------------------------------------------------------------
(* _DasIO_handleOOB                                                          *)

OobPacket(p) ==
  /\ Takes(p) /\ IsOob(p)
  /\ elem' = p.elem
  /\ CASE ~p.good -> Leave(1)
       [] p.good /\ p.elem \in {"comment", "exception"} ->
            phase' = "oob" /\ pos' = 1 /\ UNCHANGED nRet
       [] OTHER -> UNCHANGED <<phase, pos, nRet>>
  /\ UNCHANGED <<model, pSd, desc, obj, cur, hRet, bClearDs, seen>>

OobHandler(ret) ==
  /\ phase = "oob" /\ pos \in Proc
  /\ IF ret = 0 THEN pos' = pos + 1 /\ UNCHANGED <<phase, nRet>> ELSE Leave(ret)
  /\ UNCHANGED <<model, first, pSd, desc, obj, cur, elem, hRet, bClearDs, npkt, seen>>

OobDone ==
  /\ phase = "oob" /\ pos = NProc + 1
  /\ phase' = "tag"
  /\ UNCHANGED <<model, pos, first, pSd, desc, obj, cur, elem, nRet, hRet, bClearDs, npkt, seen>>
-----------------------------------------------------------------------------
(* The end of DasIO_readAll                                                  *)

\* Faulty variant: the loop goes on after a failure and adds up the codes.
CloseReturnsAll(ret) ==
  /\ phase = "close" /\ pSd = "open" /\ pos \in Proc
  /\ hRet' = hRet + ret
  /\ pos' = pos + 1
  /\ UNCHANGED <<model, phase, first, pSd, desc, cur, elem, nRet, bClearDs, npkt, seen>>

\* One closeHandler; the first that fails ends the loop.
CloseReturns(ret) ==
  /\ phase = "close" /\ pSd = "open" /\ pos \in Proc
  /\ hRet' = ret
  /\ pos' = IF ret = 0 THEN pos + 1 ELSE NProc + 1
  /\ UNCHANGED <<model, phase, first, pSd, desc, cur, elem, nRet, bClearDs, npkt, seen>>

CloseHandler(ret) == CloseReturns(ret) /\ UNCHANGED obj

\* Faulty variant: the stream is deleted only after a read without an error.
FinishKeepsStream ==
  /\ phase = "close"
  /\ pSd = "null" \/ pos = NProc + 1
  /\ obj' = Freed(obj, {desc[i] : i \in {j \in Slot : desc[j] # NoObj
                                                     /\ obj[desc[j]].parent = "src"}})
  /\ pSd' = IF pSd = "open" /\ nRet = 0 THEN "gone" ELSE pSd
  /\ phase' = "end"
  /\ UNCHANGED <<model, pos, first, desc, cur, elem, nRet, hRet, bClearDs, npkt, seen>>

\* del_DasStream deletes what the stream owns, and readAll returns.
Finish ==
  /\ phase = "close"
  /\ pSd = "null" \/ pos = NProc + 1
  /\ obj' = Freed(obj, {desc[i] : i \in {j \in Slot : desc[j] # NoObj
                                                     /\ obj[desc[j]].parent = "src"}})
  /\ pSd' = IF pSd = "open" THEN "gone" ELSE pSd
  /\ phase' = "end"
  /\ UNCHANGED <<model, pos, first, desc, cur, elem, nRet, hRet, bClearDs, npkt, seen>>

\* What readAll returns.
Result == IF nRet # 0 THEN nRet ELSE hRet
-----------------------------------------------------------------------------
\* The reader's own steps, with no processor in them.
ReaderStep ==
  \/ EndOfInput \/ InstallDesc \/ AnnounceDone \/ DeliverDone \/ OobDone \/ Finish
  \/ \E p \in Input[model] : \/ Reject(p) \/ RefuseHeader(p) \/ StreamHeader(p) \/ PacketHeader(p)
                       \/ DataPacket(p) \/ OobPacket(p) \/ Crash(p)

Returns(u) == IF u \in Fails THEN {0, 1} ELSE {0}

\* A processor the reader knows nothing about.
HandlerStep ==
  \E ret \in Returns(pos) : \/ RedefHandler(ret) \/ AnnounceHandler(ret) \/ DeliverHandler(ret)
                            \/ OobHandler(ret) \/ CloseHandler(ret)

Next == ReaderStep \/ HandlerStep

Spec == Init /\ [][Next]_vars

\* readAll and its callbacks do not stop; the input is whatever it is.
FairSpec == Spec /\ WF_vars(Next)
-----------------------------------------------------------------------------
TypeOK ==
  /\ phase \in {"tag", "redef", "announce", "deliver", "oob", "close", "end", "crashed"}
  /\ pos \in 1..(NProc + 1)
  /\ first \in BOOLEAN /\ bClearDs \in BOOLEAN
  /\ pSd \in {"null", "open", "gone"}
  /\ desc \in [Slot -> Obj \cup {NoObj}]
  /\ obj \in [Obj -> [st : {"unused", "live", "freed"}, kind : {"PACKET", "DATASET"},
                      fmt : Fmt \cup {NoObj}, src : Slot,
                      parent : {"none", "src", "bldr"}, rows : Nat]]
  /\ cur \in [id : Slot, o : Obj \cup {NoObj}]
  /\ nRet \in {0, 1} /\ hRet \in {0, 1}
  /\ npkt \in 0..MaxPkt
  /\ seen \in [Proc -> [Slot -> Obj \cup {NoObj}]]

\* What das2 writes: its own tags, and IDs of two digits, for which there are slots.
Das2Only ==
  "mixed" \in Models =>
    \A p \in Input["mixed"] : p.tag \in {"eof", "short", "[]", "[xx]", "::", "<", "{"} /\ p.id \in Slot

(* While the stream is open every slot in use holds a live descriptor of its *)
(* own: redefinition leaves no pointer to the descriptor it freed.  When     *)
(* packets are decoded by their own version, readAll never works on a stream *)
(* or a descriptor that is not there (it "returns a status code", io.h:325). *)
TableLive ==
  /\ pSd = "open" =>
       /\ \A i \in Slot : desc[i] # NoObj => Live(desc[i])
       /\ \A i, j \in Slot : desc[i] # NoObj /\ desc[i] = desc[j] => i = j
  /\ model = "mixed" => phase # "crashed"

(* A processor is handed data only for the descriptor it was last given for  *)
(* that ID, and that descriptor is alive.                                    *)
DataFollowsHeader ==
  phase = "deliver" =>
    /\ Live(cur.o) /\ desc[cur.id] = cur.o
    /\ \A u \in Proc : seen[u][cur.id] = cur.o

(* A read that succeeds frees every descriptor it parsed, the redefined ones *)
(* included, when no processor took one over.                                *)
NothingLeaked == phase = "end" /\ Result = 0 => \A o \in Obj : obj[o].st # "live"

(* Every read comes to an end, the stream descriptor deleted.                *)
ReadEnds == <>(phase = "crashed" \/ (phase = "end" /\ pSd # "open"))
=============================================================================
