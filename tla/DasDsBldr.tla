------------------------------ MODULE DasDsBldr ------------------------------
(* das2/builder.c: the dataset builder, one of the processors DasIO_readAll  *)
(* calls, and the functions that read a whole stream with it                 *)
(* (stream_from_path, stream_from_stdin, build_from_stdin).                  *)
(*                                                                           *)
(* The builder gathers the rows of das2 packets in datasets of its own and   *)
(* takes the datasets of das3 over from the reader.  Both kinds are objects  *)
(* of the reader's heap; for one of the builder's own "src" is the packet ID *)
(* its arrays collect (nSrcPktId), and its parent is "bldr" once the         *)
(* builder's stream owns it.                                                 *)
EXTENDS DasIORead, FiniteSetsExt

CONSTANT Bldr    \* the builder's place among the processors

\* NoObj stands for no layout, too.
ASSUME BldrAssumption == /\ Bldr \in Proc /\ Bldr \in HasDsData
                         /\ \A f \in Fmt : f.lay # NoObj

VARIABLES
  bslot,   \* pStream->descriptors: the builder's own stream
  lDsMap,  \* packet ID -> index of its pair, 0 for none
  lPairs,  \* pairs of a layout (NoObj for a das3 dataset) and a dataset
  bst,     \* "reading", "handed" to the caller, "lost" or "deleted"
  stale,   \* history: a freed dataset was used
  got      \* history: rows handed to the builder, by packet ID and layout

bldrVars == <<bslot, lDsMap, lPairs, bst, stale, got>>
allVars == <<vars, bldrVars>>

Lay == {f.lay : f \in Fmt}

BInit ==
  /\ Init
  /\ bslot = [i \in Slot |-> NoObj]
  /\ lDsMap = [i \in Slot |-> 0]
  /\ lPairs = <<>>
  /\ bst = "reading" /\ stale = FALSE
  /\ got = [i \in Slot |-> [l \in Lay |-> 0]]

Called == pos = Bldr /\ bst = "reading"
Paired(u) == lPairs[u].ds

\* Faulty variant: the index returned is the one behind the new pair.
AddPairOffByOne(lay, ds) ==
  /\ lPairs' = Append(lPairs, [lay |-> lay, ds |-> ds])
  /\ lDsMap' = [lDsMap EXCEPT ![cur.id] = Len(lPairs) + 2]

\* _DasDsBldr_addPair, and the ID is mapped to the new pair.
AddPair(lay, ds) ==
  /\ lPairs' = Append(lPairs, [lay |-> lay, ds |-> ds])
  /\ lDsMap' = [lDsMap EXCEPT ![cur.id] = Len(lPairs) + 1]
-----------------------------------------------------------------------------
\* Properties and frames are copied.
OnStreamDesc ==
  /\ Called /\ elem = "STREAM"
  /\ AnnounceHandler(0)
  /\ UNCHANGED bldrVars

\* Faulty variant: nothing is compared.
ContainersAny(f) == DOMAIN lPairs

\* _DasDsBldr_hasContainer: the pairs with the layout of this packet.
Containers(f) == {u \in DOMAIN lPairs : lPairs[u].lay = f.lay}

\* A redefinition goes on with the first dataset of the same layout, whichever
\* ID that was made for.
OnPktDescReuse ==
  /\ Called /\ elem = "PACKET"
  /\ AnnounceHandler(0)
  /\ lDsMap[cur.id] # 0
  /\ LET us == Containers(obj[cur.o].fmt) IN
       us # {} /\ lDsMap' = [lDsMap EXCEPT ![cur.id] = Min(us)]
  /\ UNCHANGED <<bslot, lPairs, bst, stale, got>>

\* Faulty variant: addDesc records the dataset, not that it owns it.
OnPktDescNewUnowned ==
  /\ Called /\ elem = "PACKET"
  /\ lDsMap[cur.id] = 0 \/ Containers(obj[cur.o].fmt) = {}
  /\ HasRoom
  /\ AnnounceReturns(0)
  /\ LET ds == Fresh(obj)
         empty == bslot[cur.id] = NoObj
     IN /\ obj' = [obj EXCEPT ![ds] = [st |-> "live", kind |-> "DATASET",
                     fmt |-> obj[cur.o].fmt, src |-> cur.id, rows |-> 0,
                     parent |-> "none"]]
        /\ bslot' = IF empty THEN [bslot EXCEPT ![cur.id] = ds] ELSE bslot
        /\ AddPair(obj[cur.o].fmt.lay, ds)
  /\ UNCHANGED <<bst, stale, got>>

\* Otherwise a new dataset is made.  Whether addDesc took it is not looked at:
\* a slot used before keeps its dataset and the new one has no owner.
OnPktDescNew ==
  /\ Called /\ elem = "PACKET"
  /\ lDsMap[cur.id] = 0 \/ Containers(obj[cur.o].fmt) = {}
  /\ HasRoom
  /\ AnnounceReturns(0)
  /\ LET ds == Fresh(obj)
         empty == bslot[cur.id] = NoObj
     IN /\ obj' = [obj EXCEPT ![ds] = [st |-> "live", kind |-> "DATASET",
                     fmt |-> obj[cur.o].fmt, src |-> cur.id, rows |-> 0,
                     parent |-> IF empty THEN "bldr" ELSE "none"]]
        /\ bslot' = IF empty THEN [bslot EXCEPT ![cur.id] = ds] ELSE bslot
        /\ AddPair(obj[cur.o].fmt.lay, ds)
  /\ UNCHANGED <<bst, stale, got>>

\* A das3 dataset: an ID used before is refused, any other is shadowed.
OnDataSet ==
  /\ Called /\ elem = "DATASET"
  /\ IF lDsMap[cur.id] # 0
     THEN AnnounceHandler(1) /\ UNCHANGED <<bslot, lPairs, lDsMap>>
     ELSE /\ AnnounceHandler(0)
          /\ AddPair(NoObj, cur.o)
          /\ bslot' = IF bslot[cur.id] = NoObj THEN [bslot EXCEPT ![cur.id] = cur.o] ELSE bslot
  /\ UNCHANGED <<bst, stale, got>>

Counted == got' = [got EXCEPT ![cur.id][obj[cur.o].fmt.lay] = @ + 1]

\* The row is appended to those arrays of the container that collect this ID.
OnPktData ==
  /\ Called /\ elem = "PACKET"
  /\ DeliverReturns(0)
  /\ LET ds == Paired(lDsMap[cur.id]) IN
       obj[ds].src = cur.id /\ obj' = [obj EXCEPT ![ds].rows = @ + 1]
  /\ Counted
  /\ UNCHANGED <<bslot, lDsMap, lPairs, bst, stale>>

\* Faulty variant: the row is appended whatever ID the arrays collect.
OnPktDataMixed ==
  /\ Called /\ elem = "PACKET" /\ phase = "deliver"
  /\ obj[Paired(lDsMap[cur.id])].src # cur.id
  /\ DeliverReturns(0)
  /\ obj' = [obj EXCEPT ![Paired(lDsMap[cur.id])].rows = @ + 1]
  /\ Counted
  /\ UNCHANGED <<bslot, lDsMap, lPairs, bst, stale>>

\* The container collects another ID: the assertion fails, or the row is lost
\* in a build without assertions.
OnPktDataForeign ==
  /\ Called /\ elem = "PACKET" /\ phase = "deliver"
  /\ obj[Paired(lDsMap[cur.id])].src # cur.id
  /\ \/ DeliverReturns(0)
     \/ phase' = "crashed" /\ UNCHANGED <<model, pos, first, pSd, desc, cur, elem, nRet,
                                          hRet, bClearDs, npkt, seen>>
  /\ UNCHANGED <<obj, bldrVars>>

\* The reader appended the row already.
OnDsData ==
  /\ Called /\ elem = "DATASET"
  /\ DeliverHandler(0)
  /\ Counted
  /\ UNCHANGED <<bslot, lDsMap, lPairs, bst, stale>>

OnOob ==
  /\ Called
  /\ OobHandler(0)
  /\ UNCHANGED bldrVars

\* There is no pktRedefHandler.
OnRedef ==
  /\ Called
  /\ RedefHandler(0)
  /\ UNCHANGED bldrVars

\* Faulty variant: the datasets stay with the source stream.
OnCloseLeaves ==
  /\ Called
  /\ CloseReturns(0)
  /\ UNCHANGED obj
  /\ stale' = (stale \/ \E u \in DOMAIN lPairs : ~Live(Paired(u)))
  /\ UNCHANGED <<bslot, lDsMap, lPairs, bst, got>>

\* setMutable(false) on the dataset of every pair, then the datasets of the
\* source stream are taken over in the order of their IDs, up to the first that
\* the builder's stream does not track.
OnClose ==
  LET sets == {i \in Slot : desc[i] # NoObj /\ obj[desc[i]].kind = "DATASET"}
      untracked == {i \in sets : \A j \in Slot : bslot[j] # desc[i]}
      taken == {desc[i] : i \in {j \in sets : \A k \in untracked : j < k}}
  IN
  /\ Called
  /\ CloseReturns(IF untracked = {} THEN 0 ELSE 1)
  /\ obj' = [o \in Obj |-> IF o \in taken THEN [obj[o] EXCEPT !.parent = "bldr"] ELSE obj[o]]
  /\ stale' = (stale \/ \E u \in DOMAIN lPairs : ~Live(Paired(u)))
  /\ UNCHANGED <<bslot, lDsMap, lPairs, bst, got>>
-----------------------------------------------------------------------------
\* Faulty variant: the loop over the slots stops one early.
DeleteStreamShort ==
  LET held == {bslot[i] : i \in {j \in Slot \ {MaxSlot} : bslot[j] # NoObj}} IN
  /\ obj' = Freed(obj, {o \in held : obj[o].parent = "bldr"})
  /\ stale' = (stale \/ \E o \in held : ~Live(o))
  /\ bst' = "deleted"
  /\ UNCHANGED <<readVars, bslot, lDsMap, lPairs, got>>

\* del_DasStream of the builder's stream looks at every slot in use and deletes
\* what the stream owns.
DeleteStream ==
  LET held == {bslot[i] : i \in {j \in Slot : bslot[j] # NoObj}} IN
  /\ obj' = Freed(obj, {o \in held : obj[o].parent = "bldr"})
  /\ stale' = (stale \/ \E o \in held : ~Live(o))
  /\ bst' = "deleted"
  /\ UNCHANGED <<readVars, bslot, lDsMap, lPairs, got>>

Returned == phase = "end" /\ bst = "reading"

\* A read that succeeded: the stream is released to the caller ...
HandOver ==
  /\ Returned /\ Result = 0
  /\ bst' = "handed"
  /\ UNCHANGED <<vars, bslot, lDsMap, lPairs, stale, got>>

\* ... who deletes it in the end.
CallerDeletes == bst = "handed" /\ DeleteStream

\* A read that failed: the functions for stdin delete the builder,
ReadFailed == Returned /\ Result # 0 /\ DeleteStream

\* stream_from_path just forgets it.
ReadFailedLost ==
  /\ Returned /\ Result # 0
  /\ bst' = "lost"
  /\ UNCHANGED <<vars, bslot, lDsMap, lPairs, stale, got>>
-----------------------------------------------------------------------------
BldrStep ==
  \/ OnStreamDesc \/ OnPktDescReuse \/ OnPktDescNew \/ OnDataSet
  \/ OnPktData \/ OnPktDataForeign \/ OnDsData \/ OnOob \/ OnRedef \/ OnClose
  \/ HandOver \/ CallerDeletes \/ ReadFailed \/ ReadFailedLost

BNext ==
  \/ ReaderStep /\ UNCHANGED bldrVars
  \/ pos # Bldr /\ HandlerStep /\ UNCHANGED bldrVars
  \/ BldrStep

BSpec == BInit /\ [][BNext]_allVars
-----------------------------------------------------------------------------
Datasets == {Paired(u) : u \in DOMAIN lPairs}
Rows(sets) == MapThenSumSet(LAMBDA o : obj[o].rows, sets)
Given(ids, lays) == MapThenSumSet(LAMBDA x : got[x[1]][x[2]], ids \X lays)
Boundary == phase = "tag" \/ (phase = "end" /\ Result = 0 /\ bst # "deleted")

BTypeOK ==
  /\ TypeOK
  /\ bslot \in [Slot -> Obj \cup {NoObj}]
  /\ lDsMap \in [Slot -> 0..Len(lPairs)]
  /\ \A u \in DOMAIN lPairs : lPairs[u] \in [lay : Lay \cup {NoObj}, ds : Obj]
  /\ bst \in {"reading", "handed", "lost", "deleted"}
  /\ stale \in BOOLEAN

(* Every row the builder was handed is in a dataset of that packet's layout, *)
(* at every packet boundary and when a successful read has returned, however *)
(* often IDs were redefined in between; the rows that fail the assertion in  *)
(* onPktData aside.                                                          *)
RowsKept ==
  Boundary => \A l \in Lay : Rows({o \in Datasets : obj[o].fmt.lay = l}) = Given(Slot, {l})

(* No dataset mixes the rows of two packet IDs, even when both IDs were      *)
(* given the same layout: a dataset never has rows its own ID did not bring. *)
NoMixedRows ==
  Boundary => \A i \in Slot : Rows({o \in Datasets : obj[o].src = i}) <= Given({i}, Lay)

\* Where an ID may be defined again, nothing is read as a das3 dataset.
DatasetsOnce ==
  \A m \in Reuse : m # "v3" /\ (m = "mixed" => \A p \in Input[m] : p.elem # "dataset")

\* The processors called before the builder do not fail.
EarlierSucceed == \A u \in 1..(Bldr - 1) : u \notin Fails

(* The datasets outlive the reader and its stream descriptor ("do not let    *)
(* the stream descriptor delete our datasets", DasDsBldr_onClose), and       *)
(* neither the builder nor a deletion of its stream uses one freed before.   *)
DatasetsSurvive ==
  /\ phase = "end" /\ bst # "deleted" => \A u \in DOMAIN lPairs : Live(Paired(u))
  /\ ~stale

(* The caller of a read that succeeded gets the first dataset of every       *)
(* packet ID as a child of the stream it receives (builder.h), whatever was  *)
(* defined again later: all of them, for a stream that defines each ID once. *)
FirstOwned ==
  bst = "handed" =>
    \A u \in DOMAIN lPairs :
      LET o == Paired(u) IN
      \/ Live(o) /\ obj[o].parent = "bldr" /\ bslot[obj[o].src] = o
      \/ \E w \in 1..(u - 1) : obj[Paired(w)].src = obj[o].src

(* Once the stream is deleted, by the caller or on the way out of a failed   *)
(* read, nothing that was read is left on the heap but the datasets that     *)
(* never had an owner and a descriptor that was refused a place in the table *)
AllFreed ==
  bst = "deleted" =>
    \A o \in Obj : obj[o].st = "live" =>
      \/ o \in Datasets /\ obj[o].parent = "none"
      \/ nRet # 0 /\ o = cur.o /\ AddRefused(desc, o, cur.id)
=============================================================================
