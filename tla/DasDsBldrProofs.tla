--------------------------- MODULE DasDsBldrProofs ---------------------------
(* Theorems about DasIORead and DasDsBldr for any input, any number of       *)
(* packets, slots of the table, processors and datasets, whatever the        *)
(* processors return.  First the reader: the table holds live descriptors,   *)
(* data follows its header, a read that succeeds leaks nothing.  Then the    *)
(* builder: what its datasets belong to, how long they live, and whose rows  *)
(* they have.                                                                *)
EXTENDS DasDsBldr, FiniteSetTheorems, LeastElement, TLAPS

-----------------------------------------------------------------------------
(* The reader.                                                               *)

\* A packet or dataset descriptor, as TypeOK has it.
Desc == [st : {"unused", "live", "freed"}, kind : {"PACKET", "DATASET"},
         fmt : Fmt \cup {NoObj}, src : Slot, parent : {"none", "src", "bldr"}, rows : Nat]

\* TypeOK in parts: the heap and the pointers into it, the flags, and the rest.
Pointers ==
  /\ desc \in [Slot -> Obj \cup {NoObj}]
  /\ obj \in [Obj -> Desc]
  /\ cur \in [id : Slot, o : Obj \cup {NoObj}]
  /\ seen \in [Proc -> [Slot -> Obj \cup {NoObj}]]
Scalars ==
  /\ phase \in {"tag", "redef", "announce", "deliver", "oob", "close", "end", "crashed"}
  /\ pos \in 1..(NProc + 1)
  /\ pSd \in {"null", "open", "gone"}
  /\ nRet \in {0, 1} /\ hRet \in {0, 1}
  /\ npkt \in 0..MaxPkt
Flags == first \in BOOLEAN /\ bClearDs \in BOOLEAN

\* The parts are all of it.
LEMMA TypeParts == TypeOK <=> Pointers /\ Scalars /\ Flags
BY DEF TypeOK, Pointers, Scalars, Flags, Desc

\* Which descriptor the packet in progress has, by phase.
Phases ==
  /\ phase \in {"redef", "deliver"} => pSd = "open"
  /\ phase = "announce" => pSd = "open"
  /\ pSd = "gone" => phase = "end"
  /\ phase = "end" => pSd # "open"
  /\ nRet # 0 => phase \in {"deliver", "close", "end"}
  /\ phase = "deliver" /\ nRet # 0 => pos = NProc + 1
  /\ phase = "redef" => /\ Live(cur.o) /\ elem # "STREAM"
                        /\ \A i \in Slot : desc[i] # cur.o
  /\ phase = "announce" /\ elem # "STREAM" => desc[cur.id] = cur.o /\ cur.o \in Obj
  /\ phase = "deliver" => desc[cur.id] = cur.o /\ cur.o \in Obj

\* The table before the stream is described, and while it is open.
Table ==
  /\ pSd = "null" => \A i \in Slot : desc[i] = NoObj
  /\ pSd = "open" =>
       /\ \A i \in Slot : desc[i] # NoObj => Live(desc[i])
       /\ \A i, j \in Slot : desc[i] # NoObj /\ desc[i] = desc[j] => i = j

\* Every processor knows the descriptors in the table, but those the announcement
\* in progress has not reached.
Told(u, i) == phase = "announce" /\ elem # "STREAM" /\ i = cur.id => u < pos
Announced ==
  phase \in {"tag", "redef", "announce", "deliver", "oob"} =>
    \A i \in Slot, u \in Proc : desc[i] # NoObj /\ Told(u, i) => seen[u][i] = desc[i]

\* Without an error what is alive is in the table, or on its way there.
InTable(o) == \E i \in Slot : desc[i] = o
Owned ==
  nRet = 0 =>
    \A o \in Obj : obj[o].st = "live" =>
      \/ phase = "redef" /\ o = cur.o
      \/ phase # "end" /\ InTable(o) /\ obj[o].parent = "src"

NotCrashed == model = "mixed" => phase # "crashed"

\* All but the last do not depend on who owns a descriptor.
RInv == Pointers /\ Scalars /\ Flags /\ model \in Models /\ Phases /\ Table /\ Announced

IInv == RInv /\ Owned
-----------------------------------------------------------------------------
\* Before the first packet the table is empty and nothing is alive.
LEMMA InitInv == Init => IInv
<1> SUFFICES ASSUME Init PROVE IInv
  OBVIOUS
<1>1. TypeOK
  <2>1. 0 \in Slot /\ 1 \in 1..(NProc + 1) /\ 0 \in 0..MaxPkt
    BY ReadAssumption DEF Slot
  <2>2. obj \in [Obj -> Desc]
    BY <2>1 DEF Init, Desc, Unused
  <2> QED
    BY <2>1, <2>2 DEF Init, TypeOK, Desc
<1>2. Phases /\ Table /\ Announced /\ Owned
  BY ReadAssumption DEF Init, Phases, Table, Announced, Told, Owned, Unused, Live
<1> QED
  BY <1>1, <1>2, TypeParts DEF IInv, RInv, Init

USE DEF Leave

\* What a header is decoded to.
LEMMA DecodedIs == \A p : Decoded(p) \in {"error", "STREAM", "PACKET", "DATASET"}
BY DEF Decoded

\* The actions that touch neither the table, nor the heap, nor what was announced.
QuietStep ==
  \/ EndOfInput \/ AnnounceDone \/ OobDone
  \/ \E p \in Input[model] : \/ Reject(p) \/ RefuseHeader(p) \/ StreamHeader(p)
                             \/ OobPacket(p) \/ Crash(p)
  \/ \E ret \in Returns(pos) : OobHandler(ret)

\* A code a processor returns.
LEMMA ReturnsAre == \A u : Returns(u) \subseteq {0, 1}
BY DEF Returns

\* None of them disturbs what the invariant relates.
LEMMA QuietInv ==
  ASSUME RInv, QuietStep
  PROVE  RInv' /\ (Owned => Owned')
<1> USE DEF RInv, Das2Tag
<1>1. UNCHANGED <<model, desc, obj, cur, seen>>
  BY DEF QuietStep, EndOfInput, AnnounceDone, OobDone, Reject, RefuseHeader, StreamHeader,
         OobPacket, Crash, OobHandler
<1>2. Pointers' /\ model' \in Models
  BY <1>1 DEF Pointers
<1>7. Scalars'
  <2>1. CASE EndOfInput \/ AnnounceDone \/ OobDone
    BY <2>1, ReadAssumption DEF Scalars, EndOfInput, AnnounceDone, OobDone
  <2>2. ASSUME NEW p \in Input[model],
               Reject(p) \/ RefuseHeader(p) \/ StreamHeader(p) \/ Crash(p)
        PROVE  Scalars'
    BY <2>2, ReadAssumption DEF Scalars, Reject, RefuseHeader, StreamHeader, Crash, Takes
  <2>3. ASSUME NEW p \in Input[model], OobPacket(p)
        PROVE  Scalars'
    BY <2>3, ReadAssumption DEF Scalars, OobPacket, Takes
  <2>4. ASSUME NEW ret \in Returns(pos),
               OobHandler(ret)
        PROVE  Scalars'
    <3>1. ret \in {0, 1}
      BY ReturnsAre
    <3> QED
      BY <2>4, <3>1, ReadAssumption
       DEF Scalars, OobHandler, Proc
  <2> QED
    BY <2>1, <2>2, <2>3, <2>4 DEF QuietStep
<1>8. Flags'
  <2>1. CASE EndOfInput \/ AnnounceDone \/ OobDone
    BY <2>1 DEF Flags, EndOfInput, AnnounceDone, OobDone
  <2>2. ASSUME NEW p \in Input[model],
               Reject(p) \/ RefuseHeader(p) \/ StreamHeader(p) \/ OobPacket(p) \/ Crash(p)
        PROVE  Flags'
    BY <2>2, Zenon DEF Flags, Reject, RefuseHeader, StreamHeader, OobPacket, Crash, Takes
  <2>3. ASSUME NEW ret \in Returns(pos), OobHandler(ret)
        PROVE  Flags'
    BY <2>3, Zenon DEF Flags, OobHandler
  <2> QED
    BY <2>1, <2>2, <2>3 DEF QuietStep
<1>3. Phases'
  <2>1. CASE EndOfInput \/ AnnounceDone \/ OobDone
    BY <2>1 DEF Phases, EndOfInput, AnnounceDone, OobDone, Live
  <2>2. ASSUME NEW p \in Input[model],
               Reject(p) \/ RefuseHeader(p) \/ StreamHeader(p) \/ OobPacket(p) \/ Crash(p)
        PROVE  Phases'
    BY <2>2, <1>1
       DEF Phases, Reject, RefuseHeader, StreamHeader, OobPacket, Crash, Takes, Live
  <2>3. ASSUME NEW ret \in Returns(pos), OobHandler(ret)
        PROVE  Phases'
    BY <2>3, <1>1 DEF Phases, OobHandler, Live
  <2> QED
    BY <2>1, <2>2, <2>3 DEF QuietStep
<1>4. Table'
  <2>1. pSd' = pSd \/ (pSd = "null" /\ pSd' = "open")
    BY DEF QuietStep, EndOfInput, AnnounceDone, OobDone, Reject, RefuseHeader, StreamHeader,
           OobPacket, Crash, OobHandler
  <2> QED
    BY <1>1, <2>1 DEF Table, Live
<1>5. Announced'
  <2>1. CASE EndOfInput \/ AnnounceDone \/ OobDone
    BY <2>1, ReadAssumption DEF Announced, Told, EndOfInput, AnnounceDone, OobDone, Proc
  <2>2. ASSUME NEW p \in Input[model],
               Reject(p) \/ RefuseHeader(p) \/ StreamHeader(p) \/ OobPacket(p) \/ Crash(p)
        PROVE  Announced'
    BY <2>2, <1>1
       DEF Announced, Told, Reject, RefuseHeader, StreamHeader, OobPacket, Crash, Takes
  <2>3. ASSUME NEW ret \in Returns(pos), OobHandler(ret)
        PROVE  Announced'
    BY <2>3, <1>1 DEF Announced, Told, OobHandler
  <2> QED
    BY <2>1, <2>2, <2>3 DEF QuietStep
<1>6. Owned => Owned'
  <2> SUFFICES ASSUME Owned PROVE Owned'
    OBVIOUS
  <2>1. CASE EndOfInput \/ AnnounceDone \/ OobDone
    BY <2>1 DEF Owned, InTable, Phases, EndOfInput, AnnounceDone, OobDone
  <2>2. ASSUME NEW p \in Input[model],
               Reject(p) \/ RefuseHeader(p) \/ StreamHeader(p) \/ OobPacket(p) \/ Crash(p)
        PROVE  Owned'
    BY <2>2, <1>1
       DEF Owned, InTable, Phases, Reject, RefuseHeader, StreamHeader, OobPacket, Crash, Takes
  <2>3. ASSUME NEW ret \in Returns(pos), OobHandler(ret)
        PROVE  Owned'
    BY <2>3, <1>1, ReadAssumption DEF Owned, InTable, Phases, OobHandler, Proc
  <2> QED
    BY <2>1, <2>2, <2>3 DEF QuietStep
<1> QED
  BY <1>2, <1>3, <1>4, <1>5, <1>6, <1>7, <1>8
-----------------------------------------------------------------------------
\* The new descriptor is an object of its own, and its slot is left alone.
LEMMA PacketHeaderInv ==
  ASSUME RInv, NEW p \in Input[model], PacketHeader(p)
  PROVE  RInv' /\ (Owned => Owned')
<1> USE DEF RInv
<1>1. PICK o \in Obj : /\ o = Fresh(obj) /\ obj[o].st = "unused"
                       /\ cur' = [id |-> p.id, o |-> o]
                       /\ obj' = [obj EXCEPT ![o] = [Unused EXCEPT !.st = "live",
                                    !.kind = Decoded(p), !.fmt = p.fmt, !.src = p.id,
                                    !.parent = IF Decoded(p) = "PACKET" THEN "src" ELSE "none"]]
  <2>1. Fresh(obj) \in Obj /\ obj[Fresh(obj)].st = "unused"
    BY Zenon DEF PacketHeader, HasRoom, Fresh
  <2> QED
    BY <2>1 DEF PacketHeader
<1>2. /\ pSd = "open" /\ p.id \in Slot /\ Decoded(p) \in {"PACKET", "DATASET"}
      /\ phase = "tag" /\ phase' = "redef" /\ pos' \in {1, NProc + 1}
      /\ UNCHANGED <<model, pSd, desc, nRet, hRet, bClearDs, seen>>
      /\ npkt < MaxPkt /\ npkt' = npkt + 1
  BY DEF PacketHeader, Takes
<1>3. obj'[o] = [st |-> "live", kind |-> Decoded(p), fmt |-> p.fmt, src |-> p.id,
                 parent |-> IF Decoded(p) = "PACKET" THEN "src" ELSE "none", rows |-> 0]
  BY <1>1 DEF Pointers, Unused
<1>4. Pointers' /\ model' \in Models
  <2>1. obj'[o] \in Desc
    BY <1>2, <1>3, InputAssumption DEF Desc
  <2> QED
    BY <1>1, <1>2, <2>1 DEF Pointers
<1>5. Scalars'
  BY <1>2, ReadAssumption DEF Scalars
<1>6. Flags'
  BY Zenon DEF Flags, PacketHeader, Takes
<1>7. Phases'
  <2>1. nRet' = 0 /\ pSd' = "open" /\ elem' # "STREAM"
    BY <1>2 DEF PacketHeader, Phases
  <2>2. cur'.o = o /\ obj'[o].st = "live"
    BY <1>1, <1>3
  <2>3. \A i \in Slot : desc[i] # o
    BY <1>1, <1>2, ReadAssumption DEF Table, Live
  <2> QED
    BY <1>2, <2>1, <2>2, <2>3 DEF Phases, Live
<1>8. Table'
  BY <1>1, <1>2 DEF Table, Live, Pointers
<1>9. Announced'
  BY <1>2 DEF Announced, Told
<1>10. Owned => Owned'
  BY <1>1, <1>2 DEF Owned, InTable, Pointers
<1> QED
  BY <1>4, <1>5, <1>6, <1>7, <1>8, <1>9, <1>10

\* What a descriptor was made as, and where it belongs.
SameMake(d, e) == d.kind = e.kind /\ d.fmt = e.fmt /\ d.src = e.src /\ d.parent = e.parent

\* What is freed, and what is not, of a heap.
LEMMA FreedIs ==
  ASSUME NEW h \in [Obj -> Desc], NEW S
  PROVE  /\ Freed(h, S) \in [Obj -> Desc]
         /\ \A o \in Obj : o \in S => Freed(h, S)[o].st = "freed"
         /\ \A o \in Obj : o \notin S => Freed(h, S)[o] = h[o]
         /\ \A o \in Obj : SameMake(Freed(h, S)[o], h[o])
<1>1. \A o \in Obj : [h[o] EXCEPT !.st = "freed"] \in Desc
  BY DEF Desc
<1>2. \A o \in Obj : /\ [h[o] EXCEPT !.st = "freed"].st = "freed"
                     /\ SameMake([h[o] EXCEPT !.st = "freed"], h[o])
  BY DEF Desc, SameMake
<1>3. \A o \in Obj : Freed(h, S)[o] = IF o \in S THEN [h[o] EXCEPT !.st = "freed"] ELSE h[o]
  BY DEF Freed
<1>4. Freed(h, S) \in [Obj -> Desc]
  BY <1>1 DEF Freed
<1>5. \A o \in Obj : SameMake(h[o], h[o])
  BY DEF SameMake
<1> QED
  BY <1>2, <1>3, <1>4, <1>5

\* A refusal frees the new descriptor, which nothing else points to.
LEMMA RedefHandlerInv ==
  ASSUME RInv, NEW ret \in Returns(pos), RedefHandler(ret)
  PROVE  RInv' /\ (Owned => Owned')
<1> USE DEF RInv
<1>1. /\ phase = "redef" /\ pos \in Proc
      /\ UNCHANGED <<model, first, pSd, desc, cur, elem, hRet, bClearDs, npkt, seen>>
      /\ \/ ret = 0 /\ pos' = pos + 1 /\ UNCHANGED <<phase, nRet, obj>>
         \/ /\ ret = 1 /\ pos' = 1 /\ nRet' = 1 /\ phase' = "close"
            /\ obj' = Freed(obj, {cur.o})
  BY ReturnsAre DEF RedefHandler, RedefReturns
<1>2. cur.o \in Obj
  BY <1>1 DEF Phases, Live
<1>3. Pointers' /\ model' \in Models
  <2>1. obj' \in [Obj -> Desc]
    BY <1>1, FreedIs DEF Pointers
  <2> QED
    BY <1>1, <2>1 DEF Pointers
<1>4. Scalars'
  BY <1>1, ReadAssumption DEF Scalars, Proc
<1>5. Flags'
  BY <1>1, Zenon DEF Flags
<1>6. Phases'
  BY <1>1 DEF Phases, Live
<1>7. Table'
  BY <1>1, <1>2 DEF Table, Phases, Live, Freed, Pointers
<1>8. Announced'
  BY <1>1 DEF Announced, Told
<1>9. Owned => Owned'
  BY <1>1 DEF Owned, InTable
<1> QED
  BY <1>3, <1>4, <1>5, <1>6, <1>7, <1>8, <1>9

\* The old descriptor of the slot is freed, and only the slot pointed to it.
LEMMA InstallDescInv ==
  ASSUME RInv, InstallDesc
  PROVE  RInv' /\ (Owned => Owned')
<1> USE DEF RInv
<1>1. /\ phase = "redef" /\ pSd = "open" /\ cur.o \in Obj /\ obj[cur.o].st = "live"
      /\ cur.id \in Slot /\ \A i \in Slot : desc[i] # cur.o
      /\ nRet = 0
  BY DEF InstallDesc, Phases, Live, Pointers
<1>2. UNCHANGED <<model, first, pSd, cur, elem, hRet, bClearDs, npkt, seen>>
  BY DEF InstallDesc
<1>3. PICK old, heap : /\ old = desc[cur.id]
                       /\ heap = Freed(obj, {old} \ {NoObj})
  OBVIOUS
<1>14. /\ heap \in [Obj -> Desc] /\ heap[cur.o] = obj[cur.o]
       /\ \A o \in Obj : o # old => heap[o] = obj[o]
       /\ old # NoObj => heap[old].st = "freed"
  BY <1>1, <1>3, FreedIs DEF Pointers
<1>4. \/ /\ phase' = "close" /\ nRet' = 1 /\ pos' = 1
         /\ desc' = [desc EXCEPT ![cur.id] = NoObj] /\ obj' = heap
      \/ /\ phase' = "announce" /\ nRet' = nRet /\ pos' = 1
         /\ desc' = [desc EXCEPT ![cur.id] = cur.o]
         /\ obj' = [heap EXCEPT ![cur.o].parent = "src"]
  BY <1>3 DEF InstallDesc
<1>5. Pointers' /\ model' \in Models
  <2>1. desc' \in [Slot -> Obj \cup {NoObj}]
    BY <1>1, <1>4 DEF Pointers
  <2>2. obj' \in [Obj -> Desc]
    BY <1>1, <1>4, <1>14 DEF Desc
  <2> QED
    BY <1>2, <2>1, <2>2 DEF Pointers
<1>6. Scalars'
  BY <1>2, <1>4, ReadAssumption DEF Scalars
<1>7. Flags'
  BY <1>2, Zenon DEF Flags
<1>8. \A i \in Slot : i # cur.id => desc'[i] = desc[i]
  BY <1>4 DEF Pointers
<1>9. \A o \in Obj : o # old => obj'[o].st = obj[o].st
  <2>1. \A o \in Obj : obj'[o].st = heap[o].st
    BY <1>1, <1>4, <1>14 DEF Desc
  <2> QED
    BY <1>14, <2>1
<1>10. Phases'
  BY <1>1, <1>2, <1>4 DEF Phases, Pointers
<1>11. Table'
  <2>1. \A i \in Slot : i # cur.id /\ desc[i] # NoObj => desc[i] # old /\ Live(desc[i])
    BY <1>1, <1>3 DEF Table
  <2>2. desc'[cur.id] # NoObj => desc'[cur.id] = cur.o /\ cur.o # old /\ Live(cur.o)
    BY <1>1, <1>3, <1>4 DEF Pointers, Live
  <2> QED
    BY <1>1, <1>2, <1>8, <1>9, <2>1, <2>2 DEF Table, Live
<1>12. Announced'
  <2> SUFFICES ASSUME phase' = "announce", NEW i \in Slot, NEW w \in Proc,
                      desc'[i] # NoObj, Told(w, i)'
               PROVE  seen'[w][i] = desc'[i]
    BY <1>4 DEF Announced
  <2>1. CASE elem # "STREAM" /\ i = cur.id
    BY <1>2, <1>4, <2>1, ReadAssumption DEF Told, Proc
  <2>2. CASE i # cur.id
    BY <1>1, <1>2, <1>8, <2>2 DEF Announced, Told
  <2>3. elem # "STREAM"
    BY <1>1 DEF Phases
  <2> QED
    BY <2>1, <2>2, <2>3
<1>13. Owned => Owned'
  <2> SUFFICES ASSUME Owned PROVE Owned'
    OBVIOUS
  <2> SUFFICES ASSUME nRet' = 0, NEW o \in Obj, obj'[o].st = "live"
               PROVE  InTable(o)' /\ obj'[o].parent = "src"
    BY <1>4 DEF Owned
  <2>1. /\ phase' = "announce" /\ desc' = [desc EXCEPT ![cur.id] = cur.o]
        /\ obj' = [heap EXCEPT ![cur.o].parent = "src"]
    BY <1>4
  <2>2. CASE o = cur.o
    <3>1. desc'[cur.id] = o /\ obj'[o].parent = "src"
      BY <1>1, <1>14, <2>1, <2>2 DEF Pointers, Desc
    <3> QED
      BY <1>1, <3>1 DEF InTable
  <2>3. CASE o # cur.o
    <3>1. obj'[o] = heap[o]
      BY <1>14, <2>1, <2>3
    <3>2. o # old
      BY <1>1, <1>3, <1>14, <3>1, ReadAssumption
    <3>3. obj'[o] = obj[o]
      BY <1>14, <3>1, <3>2
    <3>4. InTable(o) /\ obj[o].parent = "src"
      BY <1>1, <2>3, <3>3 DEF Owned
    <3> QED
      BY <1>1, <1>3, <1>8, <3>2, <3>3, <3>4 DEF InTable
  <2> QED
    BY <2>2, <2>3
<1> QED
  BY <1>5, <1>6, <1>7, <1>10, <1>11, <1>12, <1>13

\* What a processor may do to the heap: all that is alive stays alive.
HeapKept ==
  /\ obj' \in [Obj -> Desc]
  /\ \A o \in Obj : obj[o].st = "live" => obj'[o].st = "live"

\* One processor more knows the new descriptor, has had the data or closes.
LEMMA CallbackInv ==
  ASSUME RInv, HeapKept, NEW ret \in {0, 1},
         AnnounceReturns(ret) \/ DeliverReturns(ret) \/ CloseReturns(ret)
  PROVE  RInv' /\ (Owned /\ UNCHANGED obj => Owned')
<1> USE DEF RInv
<1>1. /\ phase \in {"announce", "deliver", "close"} /\ pos \in Proc
      /\ UNCHANGED <<model, first, pSd, desc, cur, elem, npkt>>
      /\ bClearDs' \in {bClearDs, TRUE}
  BY DEF AnnounceReturns, DeliverReturns, CloseReturns
<1>2. \/ /\ phase = "announce" /\ hRet' = hRet
         /\ \/ ret = 0 /\ pos' = pos + 1 /\ UNCHANGED <<phase, nRet>>
            \/ ret = 1 /\ pos' = 1 /\ nRet' = 1 /\ phase' = "close"
         /\ seen' = IF elem = "STREAM" THEN seen ELSE [seen EXCEPT ![pos][cur.id] = cur.o]
      \/ /\ phase = "deliver" /\ phase' = phase /\ nRet' = ret /\ hRet' = hRet
         /\ pos' = IF ret = 0 THEN pos + 1 ELSE NProc + 1
         /\ seen' = seen
      \/ /\ phase = "close" /\ phase' = phase /\ nRet' = nRet /\ hRet' = ret /\ pSd = "open"
         /\ pos' = IF ret = 0 THEN pos + 1 ELSE NProc + 1
         /\ seen' = seen
  BY DEF AnnounceReturns, DeliverReturns, CloseReturns
<1>3. Pointers' /\ model' \in Models
  BY <1>1, <1>2 DEF Pointers, HeapKept
<1>4. Scalars'
  BY <1>1, <1>2, ReadAssumption DEF Scalars, Proc
<1>5. Flags'
  BY <1>1, Zenon DEF Flags
<1>6. Phases'
  BY <1>1, <1>2 DEF Phases
<1>7. Table'
  BY <1>1 DEF Table, Live, HeapKept
<1>8. Announced'
  <2> SUFFICES ASSUME phase' \in {"announce", "deliver"}, NEW i \in Slot, NEW w \in Proc,
                      desc'[i] # NoObj, Told(w, i)'
               PROVE  seen'[w][i] = desc'[i]
    BY <1>1, <1>2 DEF Announced
  <2>1. CASE phase = "deliver"
    BY <1>1, <1>2, <2>1 DEF Announced, Told
  <2>2. CASE phase = "announce" /\ elem = "STREAM"
    BY <1>1, <1>2, <2>2 DEF Announced, Told
  <2>3. CASE phase = "announce" /\ elem # "STREAM"
    <3>1. /\ cur.id \in Slot /\ desc[cur.id] = cur.o /\ pos' = pos + 1 /\ phase' = "announce"
          /\ seen' = [seen EXCEPT ![pos][cur.id] = cur.o]
      BY <1>1, <1>2, <2>3 DEF Phases, Pointers
    <3>2. CASE w = pos /\ i = cur.id
      BY <1>1, <3>1, <3>2 DEF Pointers
    <3>3. CASE ~(w = pos /\ i = cur.id)
      <4>1. seen'[w][i] = seen[w][i]
        BY <1>1, <3>1, <3>3 DEF Pointers
      <4>2. i = cur.id => w < pos
        BY <1>1, <2>3, <3>1, <3>3 DEF Told, Proc
      <4> QED
        BY <1>1, <2>3, <4>1, <4>2 DEF Announced, Told
    <3> QED
      BY <3>2, <3>3
  <2> QED
    BY <1>1, <1>2, <2>1, <2>2, <2>3
<1>9. Owned /\ UNCHANGED obj => Owned'
  BY <1>1, <1>2, ReadAssumption DEF Owned, InTable, Phases, Proc
<1> QED
  BY <1>3, <1>4, <1>5, <1>6, <1>7, <1>8, <1>9

\* Rows come and go, the descriptor stays what it is.
SameButRows == /\ obj' \in [Obj -> Desc]
               /\ \A o \in Obj : obj'[o].st = obj[o].st /\ SameMake(obj'[o], obj[o])

\* Setting the rows of a descriptor, or nothing, is such a step.
LEMMA RowsSet ==
  ASSUME obj \in [Obj -> Desc]
  PROVE  /\ \A o \in Obj, n \in Nat : obj' = [obj EXCEPT ![o].rows = n] => SameButRows
         /\ UNCHANGED obj => SameButRows
<1>1. ASSUME NEW o \in Obj, NEW n \in Nat, obj' = [obj EXCEPT ![o].rows = n]
      PROVE  SameButRows
  <2>1. [obj[o] EXCEPT !.rows = n] \in Desc
    BY DEF Desc
  <2>2. [obj[o] EXCEPT !.rows = n].st = obj[o].st /\ SameMake([obj[o] EXCEPT !.rows = n], obj[o])
    BY DEF Desc, SameMake
  <2> QED
    BY <1>1, <2>1, <2>2 DEF SameButRows, SameMake
<1>2. ASSUME UNCHANGED obj
      PROVE  SameButRows
  BY <1>2 DEF SameButRows, SameMake
<1> QED
  BY <1>1, <1>2

\* A row changes a counter of the descriptor in the table.
LEMMA DataPacketInv ==
  ASSUME RInv, NEW p \in Input[model], DataPacket(p)
  PROVE  RInv' /\ (Owned => Owned')
<1> USE DEF RInv
<1>1. /\ phase = "tag" /\ pSd = "open" /\ p.id \in Slot /\ desc[p.id] # NoObj
      /\ cur' = [id |-> p.id, o |-> desc[p.id]]
      /\ UNCHANGED <<model, pSd, desc, hRet, seen>>
      /\ npkt < MaxPkt /\ npkt' = npkt + 1
      /\ \/ /\ phase' = "deliver" /\ pos' = 1 /\ nRet' = nRet
            /\ obj' = [obj EXCEPT ![desc[p.id]].rows =
                         IF obj[desc[p.id]].kind = "DATASET" THEN @ + 1 ELSE 1]
         \/ phase' = "close" /\ pos' = 1 /\ nRet' = 1 /\ obj' = obj
  BY DEF DataPacket, Takes
<1>2. desc[p.id] \in Obj /\ nRet = 0
  BY <1>1 DEF Pointers, Phases
<1>3. SameButRows
  <2>1. obj \in [Obj -> Desc] /\ obj[desc[p.id]].rows \in Nat
    BY <1>2 DEF Pointers, Desc
  <2>2. \/ obj' = [obj EXCEPT ![desc[p.id]].rows = obj[desc[p.id]].rows + 1]
        \/ obj' = [obj EXCEPT ![desc[p.id]].rows = 1]
        \/ obj' = obj
    BY <1>1
  <2>3. CASE obj' = obj
    BY <2>1, <2>3, RowsSet
  <2>4. \A n \in Nat : obj' = [obj EXCEPT ![desc[p.id]].rows = n] => SameButRows
    BY <1>2, <2>1, RowsSet
  <2>5. obj[desc[p.id]].rows + 1 \in Nat /\ 1 \in Nat
    BY <2>1
  <2> QED
    BY <2>2, <2>3, <2>4, <2>5
<1>5. Pointers' /\ model' \in Models
  BY <1>1, <1>2, <1>3 DEF Pointers, SameButRows
<1>6. Scalars'
  BY <1>1, ReadAssumption DEF Scalars
<1>7. Flags'
  BY Zenon DEF Flags, DataPacket, Takes
<1>8. Phases'
  BY <1>1, <1>2 DEF Phases
<1>9. Table'
  BY <1>1, <1>3 DEF Table, Live, SameButRows
<1>10. Announced'
  BY <1>1 DEF Announced, Told
<1>11. Owned => Owned'
  BY <1>1, <1>2, <1>3 DEF Owned, InTable, SameButRows, SameMake
<1> QED
  BY <1>5, <1>6, <1>7, <1>8, <1>9, <1>10, <1>11

\* Dropping the rows of a dataset, and the next packet or the way out.
LEMMA DeliverDoneInv ==
  ASSUME RInv, DeliverDone
  PROVE  RInv' /\ (Owned => Owned')
<1> USE DEF RInv
<1>1. /\ phase = "deliver" /\ pSd = "open" /\ cur.o \in Obj
      /\ UNCHANGED <<model, first, pSd, desc, cur, elem, hRet, bClearDs, npkt, seen>>
      /\ obj' = [obj EXCEPT ![cur.o].rows = 0] \/ obj' = obj
      /\ nRet' = nRet
      /\ \/ nRet = 0 /\ phase' = "tag" /\ pos' = pos
         \/ nRet # 0 /\ phase' = "close" /\ pos' = 1
  BY DEF DeliverDone, Phases
<1>3. SameButRows
  <2>1. CASE obj' = obj
    BY <2>1, RowsSet DEF Pointers
  <2> QED
    BY <1>1, <2>1, RowsSet DEF Pointers
<1>2. Pointers' /\ model' \in Models
  BY <1>1, <1>3 DEF Pointers, SameButRows
<1>4. Scalars'
  BY <1>1, ReadAssumption DEF Scalars
<1>5. Flags'
  BY <1>1, Zenon DEF Flags
<1>6. Phases'
  BY <1>1 DEF Phases
<1>7. Table'
  BY <1>1, <1>3 DEF Table, Live, SameButRows
<1>8. Announced'
  BY <1>1 DEF Announced, Told
<1>9. Owned => Owned'
  BY <1>1, <1>3 DEF Owned, InTable, SameButRows, SameMake
<1> QED
  BY <1>2, <1>4, <1>5, <1>6, <1>7, <1>8, <1>9

\* What the stream owns is freed: after a read without an error that is all there is.
LEMMA FinishInv ==
  ASSUME RInv, Finish
  PROVE  RInv' /\ (Owned => Owned')
<1> USE DEF RInv
<1>1. /\ phase = "close" /\ phase' = "end"
      /\ UNCHANGED <<model, pos, first, desc, cur, elem, nRet, hRet, bClearDs, npkt, seen>>
      /\ pSd' \in {"null", "gone"} /\ (pSd' = "null" => pSd = "null")
  BY DEF Finish, Phases, Scalars
<1>2. PICK S : /\ S = {desc[i] : i \in {j \in Slot : desc[j] # NoObj
                                                     /\ obj[desc[j]].parent = "src"}}
               /\ obj' = Freed(obj, S)
  BY DEF Finish
<1>3. Pointers' /\ model' \in Models
  BY <1>1, <1>2, FreedIs DEF Pointers
<1>4. Scalars'
  BY <1>1 DEF Scalars
<1>5. Flags'
  BY <1>1, Zenon DEF Flags
<1>6. Phases'
  BY <1>1 DEF Phases
<1>7. Table'
  BY <1>1 DEF Table
<1>8. Announced'
  BY <1>1 DEF Announced
<1>9. Owned => Owned'
  <2> SUFFICES ASSUME Owned PROVE Owned'
    OBVIOUS
  <2> SUFFICES ASSUME nRet = 0, NEW o \in Obj, obj'[o].st = "live"
               PROVE  FALSE
    BY <1>1 DEF Owned
  <2>1. o \notin S /\ obj[o].st = "live"
    BY <1>2, FreedIs DEF Pointers
  <2>2. PICK i \in Slot : desc[i] = o /\ obj[o].parent = "src"
    BY <1>1, <2>1 DEF Owned, InTable
  <2> QED
    BY <1>2, <2>1, <2>2, ReadAssumption
<1> QED
  BY <1>3, <1>4, <1>5, <1>6, <1>7, <1>8, <1>9
-----------------------------------------------------------------------------
(* The table, the heap and what processors know stay together in every state. *)
THEOREM Invariance == Spec => []IInv
<1>1. IInv /\ [Next]_vars => IInv'
  <2>1. ASSUME IInv, ReaderStep PROVE IInv'
    BY <2>1, QuietInv, PacketHeaderInv, InstallDescInv, DataPacketInv, DeliverDoneInv, FinishInv
       DEF ReaderStep, QuietStep, IInv
  <2>2. ASSUME IInv, HandlerStep PROVE IInv'
    <3>1. PICK ret \in Returns(pos) : \/ RedefHandler(ret) \/ OobHandler(ret)
                                      \/ AnnounceHandler(ret) \/ DeliverHandler(ret) \/ CloseHandler(ret)
      BY <2>2, Zenon DEF HandlerStep
    <3>2. CASE RedefHandler(ret) \/ OobHandler(ret)
      BY <2>2, <3>2, QuietInv, RedefHandlerInv DEF QuietStep, IInv
    <3>3. CASE AnnounceHandler(ret) \/ DeliverHandler(ret) \/ CloseHandler(ret)
      <4>1. HeapKept
        BY <2>2, <3>3
           DEF HeapKept, IInv, RInv, Pointers, AnnounceHandler, DeliverHandler, CloseHandler
      <4>2. ret \in {0, 1} /\ UNCHANGED obj
        BY <3>3, ReturnsAre DEF AnnounceHandler, DeliverHandler, CloseHandler
      <4> QED
        BY <2>2, <3>3, <4>1, <4>2, CallbackInv
           DEF IInv, AnnounceHandler, DeliverHandler, CloseHandler
    <3> QED
      BY <3>1, <3>2, <3>3
  <2>3. ASSUME IInv, UNCHANGED vars PROVE IInv'
    BY <2>3 DEF vars, readVars, IInv, RInv, Pointers, Scalars, Flags, Phases, Table, Announced, Told,
                Owned, InTable, Live
  <2> QED
    BY <2>1, <2>2, <2>3 DEF Next
<1> QED
  BY <1>1, InitInv, PTL DEF Spec

(* Every variable of the reader keeps its type.                              *)
THEOREM TypeCorrect == Spec => []TypeOK
<1>1. IInv => TypeOK
  BY TypeParts DEF IInv, RInv
<1> QED
  BY <1>1, Invariance, PTL

(* A processor is handed data only for the live descriptor it, and every     *)
(* other processor, was last given for that ID.                              *)
THEOREM HeaderBeforeData == Spec => []DataFollowsHeader
<1>1. IInv => DataFollowsHeader
  <2> SUFFICES ASSUME IInv, phase = "deliver"
               PROVE  /\ Live(cur.o) /\ desc[cur.id] = cur.o
                      /\ \A w \in Proc : seen[w][cur.id] = cur.o
    BY DEF DataFollowsHeader
  <2>1. pSd = "open" /\ desc[cur.id] = cur.o /\ cur.o \in Obj /\ cur.id \in Slot
    BY DEF IInv, RInv, Phases, Pointers
  <2>2. desc[cur.id] # NoObj
    BY <2>1, ReadAssumption
  <2> QED
    BY <2>1, <2>2 DEF IInv, RInv, Table, Announced, Told
<1> QED
  BY <1>1, Invariance, PTL

(* A read that succeeds frees every descriptor it parsed.                    *)
THEOREM ReadLeaksNothing == Spec => []NothingLeaked
<1>1. IInv => NothingLeaked
  <2> SUFFICES ASSUME IInv, phase = "end", Result = 0, NEW o \in Obj
               PROVE  obj[o].st # "live"
    BY DEF NothingLeaked
  <2>1. nRet = 0
    BY DEF Result
  <2> QED
    BY <2>1 DEF IInv, RInv, Owned
<1> QED
  BY <1>1, Invariance, PTL

\* A das2 input decoded by its own version asks for nothing that is not there.
LEMMA NoCrash ==
  ASSUME Das2Only, IInv, NotCrashed, [Next]_vars
  PROVE  NotCrashed'
<1> SUFFICES ASSUME model' = "mixed", phase' = "crashed" PROVE FALSE
  BY DEF NotCrashed
<1>1. CASE UNCHANGED vars
  BY <1>1 DEF vars, readVars, NotCrashed
<1>2. CASE ReaderStep
  <2>1. model = "mixed" /\ phase # "crashed"
    BY <1>2 DEF ReaderStep, EndOfInput, InstallDesc, AnnounceDone, DeliverDone, OobDone, Finish,
                Reject, RefuseHeader, StreamHeader, PacketHeader, DataPacket, OobPacket, Crash,
                NotCrashed
  <2>2. PICK p \in Input["mixed"] : Crash(p)
    BY <1>2, <2>1
       DEF ReaderStep, EndOfInput, InstallDesc, AnnounceDone, DeliverDone, OobDone, Finish,
           Reject, RefuseHeader, StreamHeader, PacketHeader, DataPacket, OobPacket, Takes
  <2>3. p.tag \in {"eof", "short", "[]", "[xx]", "::", "<", "{"} /\ p.id \in Slot
    BY <2>1, <2>2 DEF Das2Only, IInv, RInv
  <2>4. IsData(p) /\ (pSd = "null" \/ desc[p.id] = NoObj)
    BY <2>1, <2>2, <2>3 DEF Crash, DecodeCrashes
  <2>5. p.tag = "::"
    BY <2>2, <2>3, <2>4 DEF Crash, Takes, TagOk, IsData, Das2Tag
  <2> QED
    BY <2>2, <2>4, <2>5 DEF Crash, Takes, SizeOk
<1>3. CASE HandlerStep
  BY <1>3 DEF HandlerStep, RedefHandler, RedefReturns, AnnounceHandler, AnnounceReturns,
              DeliverHandler, DeliverReturns, OobHandler, CloseHandler, CloseReturns, NotCrashed
<1> QED
  BY <1>1, <1>2, <1>3 DEF Next

(* Redefinition leaves no pointer to the descriptor it freed in the table,   *)
(* and a das2 input never makes the reader use what is not there.            *)
THEOREM TableSafe == ASSUME Das2Only PROVE Spec => []TableLive
<1>1. Init => NotCrashed
  BY DEF Init, NotCrashed
<1>2. Spec => []NotCrashed
  BY <1>1, NoCrash, Invariance, PTL DEF Spec
<1>3. IInv /\ NotCrashed => TableLive
  BY DEF IInv, RInv, Table, NotCrashed, TableLive
<1> QED
  BY <1>2, <1>3, Invariance, PTL

-----------------------------------------------------------------------------
(* The builder.                                                              *)

\* The builder's own state.
BTypes ==
  /\ bslot \in [Slot -> Obj \cup {NoObj}]
  /\ lPairs \in Seq([lay : Lay \cup {NoObj}, ds : Obj])
  /\ lDsMap \in [Slot -> 0..Len(lPairs)]
  /\ bst \in {"reading", "handed", "lost", "deleted"}
  /\ bst # "reading" => phase = "end"

\* Whatever was allocated has a layout, and nothing else belongs to anybody.
Laid ==
  \A o \in Obj :
    /\ obj[o].st # "unused" => obj[o].fmt \in Fmt
    /\ obj[o].st = "unused" => obj[o].parent = "none"

\* Who owns what is alive: the header in progress, the table, nobody, the builder's
\* stream, or nobody again when the table refused it.
Held(o) == \E i \in Slot : bslot[i] = o
Owners ==
  \A o \in Obj : obj[o].st = "live" =>
    \/ phase = "redef" /\ o = cur.o
    \/ phase # "end" /\ InTable(o) /\ obj[o].parent = "src"
    \/ o \in Datasets /\ obj[o].parent = "none"
    \/ bst # "deleted" /\ Held(o) /\ obj[o].parent = "bldr"
    \/ nRet # 0 /\ o = cur.o /\ AddRefused(desc, o, cur.id)

BInv == RInv /\ BTypes /\ Laid /\ Owners
-----------------------------------------------------------------------------
\* A descriptor is found under its own ID, in the table and in the builder's stream,
\* and of the pairs of an ID the first is in the builder's stream.
Places ==
  /\ pSd = "open" => \A i \in Slot : desc[i] # NoObj => obj[desc[i]].src = i
  /\ phase = "redef" => obj[cur.o].src = cur.id
  /\ \A i \in Slot : bslot[i] # NoObj =>
       obj[bslot[i]].src = i /\ \E w \in DOMAIN lPairs : Paired(w) = bslot[i]
  /\ \A u \in DOMAIN lPairs :
       /\ obj[Paired(u)].st # "unused"
       /\ \E w \in 1..u : Paired(w) = bslot[obj[Paired(u)].src]
  /\ \A i \in Slot : lDsMap[i] # 0 => bslot[i] # NoObj

\* The builder has not yet been called for the header in progress.
Coming(i) == phase = "announce" /\ elem # "STREAM" /\ i = cur.id /\ pos <= Bldr

\* Datasets are read where an ID is defined once: the one in the table is the one in
\* the builder's stream.
Kinds == phase \in {"redef", "announce", "deliver"} /\ elem # "STREAM" =>
           elem = obj[cur.o].kind /\ elem \in {"PACKET", "DATASET"}
Tracked ==
  /\ model \in Reuse =>
       /\ \A i \in Slot : desc[i] # NoObj => obj[desc[i]].kind = "PACKET"
       /\ phase = "redef" => obj[cur.o].kind = "PACKET"
  /\ model \notin Reuse =>
       /\ phase = "redef" => desc[cur.id] = NoObj
       /\ \A i \in Slot : bslot[i] # NoObj => desc[i] # NoObj /\ ~Coming(i)
  /\ EarlierSucceed =>
       \A i \in Slot : desc[i] # NoObj /\ obj[desc[i]].kind = "DATASET" =>
         bslot[i] = desc[i] \/ Coming(i)

\* Before the end the datasets of the pairs are alive.
Alive ==
  phase # "end" =>
    /\ \A u \in DOMAIN lPairs :
         /\ Live(Paired(u))
         /\ InTable(Paired(u)) => model \notin Reuse /\ obj[Paired(u)].kind = "DATASET"
         /\ phase = "redef" => Paired(u) # cur.o
    /\ \A i \in Slot : bslot[i] # NoObj => obj[bslot[i]].parent = "bldr" \/ InTable(bslot[i])

\* Once the builder has closed, the datasets in the table are its stream's ...
Clean == hRet = 0 \/ EarlierSucceed
Closing ==
  /\ phase = "close" /\ hRet # 0 => pos = NProc + 1
  /\ phase \notin {"close", "end"} => hRet = 0
  /\ phase = "close" /\ pSd = "open" /\ pos > Bldr /\ Clean =>
       \A i \in Slot : desc[i] # NoObj /\ obj[desc[i]].kind = "DATASET" =>
         obj[desc[i]].parent = "bldr"

\* ... and stay alive when the table goes.
Ended ==
  /\ phase = "end" /\ bst # "deleted" /\ Clean =>
       /\ \A u \in DOMAIN lPairs : Live(Paired(u))
       /\ \A i \in Slot : bslot[i] # NoObj => obj[bslot[i]].parent = "bldr"
  /\ bst = "handed" => Result = 0
  /\ EarlierSucceed => ~stale

SInv == Places /\ Kinds /\ Tracked /\ Alive /\ Closing /\ Ended
-----------------------------------------------------------------------------
USE DEF Leave

\* Nothing is read, gathered or owned at first.
LEMMA BInitInv == BInit => BInv
<1> SUFFICES ASSUME BInit PROVE BInv
  OBVIOUS
<1>1. RInv /\ \A o \in Obj : obj[o].st = "unused" /\ obj[o].parent = "none"
  BY InitInv DEF BInit, IInv, Init, Unused
<1>2. BTypes
  BY DEF BInit, BTypes
<1> QED
  BY <1>1, <1>2 DEF BInv, Laid, Owners

\* What a step that frees and allocates nothing, and takes nothing from the table, may
\* do to the rest.
Gentle ==
  /\ SameButRows /\ UNCHANGED desc
  /\ UNCHANGED cur \/ (phase # "redef" /\ nRet = 0)
  /\ phase = "redef" => phase' = "redef"
  /\ phase' = "end" => phase = "end"
  /\ nRet # 0 => nRet' # 0
  /\ \A i \in Slot : bslot[i] # NoObj => bslot'[i] = bslot[i]
  /\ Datasets \subseteq Datasets'
  /\ bst' = "deleted" => bst = "deleted"

\* Whether the table refused a descriptor is still to be seen as long as the
\* descriptors in it are what they were.
LEMMA RefusedKept ==
  ASSUME Pointers, UNCHANGED <<desc, cur>>, NEW o \in Obj, AddRefused(desc, o, cur.id),
         \A e \in Obj : obj'[e].kind = obj[e].kind /\ obj'[e].fmt = obj[e].fmt
  PROVE  AddRefused(desc, o, cur.id)'
<1>1. \A i \in Slot : desc[i] # NoObj => desc[i] \in Obj
  BY DEF Pointers
<1> QED
  BY <1>1 DEF AddRefused

\* Such a step leaves every owner what it owns.
LEMMA GentleKeeps ==
  ASSUME BInv, Gentle
  PROVE  Laid' /\ Owners'
<1> USE DEF BInv
<1>1. Laid'
  BY DEF Laid, Gentle, SameButRows, SameMake
<1>2. Owners'
  <2> SUFFICES ASSUME NEW o \in Obj, obj'[o].st = "live"
               PROVE  \/ phase' = "redef" /\ o = cur'.o
                      \/ phase' # "end" /\ InTable(o)' /\ obj'[o].parent = "src"
                      \/ o \in Datasets' /\ obj'[o].parent = "none"
                      \/ bst' # "deleted" /\ Held(o)' /\ obj'[o].parent = "bldr"
                      \/ nRet' # 0 /\ o = cur'.o /\ AddRefused(desc, o, cur.id)'
    BY DEF Owners
  <2>1. obj[o].st = "live" /\ obj'[o].parent = obj[o].parent
    BY DEF Gentle, SameButRows, SameMake
  <2>2. CASE phase = "redef" /\ o = cur.o
    BY <2>2 DEF Gentle
  <2>3. CASE phase # "end" /\ InTable(o) /\ obj[o].parent = "src"
    BY <2>1, <2>3 DEF Gentle, InTable
  <2>4. CASE o \in Datasets /\ obj[o].parent = "none"
    BY <2>1, <2>4 DEF Gentle
  <2>5. CASE bst # "deleted" /\ Held(o) /\ obj[o].parent = "bldr"
    BY <2>1, <2>5, ReadAssumption DEF Gentle, Held
  <2>6. CASE nRet # 0 /\ o = cur.o /\ AddRefused(desc, o, cur.id)
    <3>1. UNCHANGED <<desc, cur>> /\ nRet' # 0
      BY <2>6 DEF Gentle
    <3>2. AddRefused(desc, o, cur.id)'
      BY <2>6, <3>1, RefusedKept DEF RInv, Gentle, SameButRows, SameMake
    <3> QED
      BY <2>6, <3>1, <3>2
  <2> QED
    BY <2>1, <2>2, <2>3, <2>4, <2>5, <2>6 DEF Owners
<1> QED
  BY <1>1, <1>2

\* The builder's own state is left alone.
Idle == UNCHANGED <<bslot, lDsMap, lPairs, bst, stale>>

\* A step before the end leaves the types of the builder's state.
LEMMA IdleTypes ==
  ASSUME BTypes, Idle, phase # "end" \/ UNCHANGED phase
  PROVE  BTypes' /\ Datasets' = Datasets
<1>1. bslot' = bslot /\ lDsMap' = lDsMap /\ lPairs' = lPairs /\ bst' = bst
  BY DEF Idle
<1>2. Datasets' = Datasets
  BY <1>1 DEF Datasets, Paired
<1> QED
  BY <1>1, <1>2 DEF BTypes

\* The reader's quiet steps do not concern the builder's datasets.
LEMMA QuietGentle ==
  ASSUME RInv, QuietStep, Idle
  PROVE  Gentle /\ phase # "end"
<1> USE DEF RInv
<1>1. SameButRows /\ UNCHANGED <<desc, cur>>
  <2>1. UNCHANGED <<desc, cur, obj>>
    BY DEF QuietStep, EndOfInput, AnnounceDone, OobDone, Reject, RefuseHeader, StreamHeader,
           OobPacket, Crash, OobHandler
  <2> QED
    BY <2>1, RowsSet DEF Pointers
<1>2. /\ phase \notin {"redef", "end"} /\ phase' # "end"
      /\ nRet # 0 => nRet' # 0
  <2>1. CASE EndOfInput \/ AnnounceDone \/ OobDone
    BY <2>1 DEF EndOfInput, AnnounceDone, OobDone, Phases
  <2>2. ASSUME NEW p \in Input[model],
               Reject(p) \/ RefuseHeader(p) \/ StreamHeader(p) \/ OobPacket(p) \/ Crash(p)
        PROVE  /\ phase \notin {"redef", "end"} /\ phase' # "end"
               /\ nRet # 0 => nRet' # 0
    BY <2>2 DEF Reject, RefuseHeader, StreamHeader, OobPacket, Crash, Takes, Phases
  <2>3. ASSUME NEW ret \in Returns(pos), OobHandler(ret)
        PROVE  /\ phase \notin {"redef", "end"} /\ phase' # "end"
               /\ nRet # 0 => nRet' # 0
    BY <2>3 DEF OobHandler, Phases
  <2> QED
    BY <2>1, <2>2, <2>3 DEF QuietStep
<1>3. /\ \A i \in Slot : bslot[i] # NoObj => bslot'[i] = bslot[i]
      /\ Datasets \subseteq Datasets'
      /\ bst' = "deleted" => bst = "deleted"
  BY DEF Idle, Datasets, Paired
<1> QED
  BY <1>1, <1>2, <1>3 DEF Gentle

\* A callback that frees and allocates nothing, of any processor.
LEMMA CallbackGentle ==
  ASSUME RInv, SameButRows, NEW ret \in {0, 1},
         AnnounceReturns(ret) \/ DeliverReturns(ret) \/ CloseReturns(ret),
         \A i \in Slot : bslot[i] # NoObj => bslot'[i] = bslot[i],
         Datasets \subseteq Datasets', UNCHANGED bst
  PROVE  Gentle /\ RInv' /\ phase \notin {"redef", "end"} /\ phase' # "end"
<1>1. RInv'
  BY CallbackInv DEF HeapKept, SameButRows
<1>2. /\ phase \notin {"redef", "end"} /\ phase' # "end" /\ UNCHANGED <<desc, cur>>
      /\ nRet # 0 => nRet' # 0
  BY ReadAssumption DEF AnnounceReturns, DeliverReturns, CloseReturns, RInv, Phases, Scalars, Proc
<1> QED
  BY <1>1, <1>2 DEF Gentle

\* A row, or the rows dropped, change a count.
LEMMA RowsGentle ==
  ASSUME RInv, Idle, DeliverDone \/ \E p \in Input[model] : DataPacket(p)
  PROVE  Gentle /\ phase \notin {"redef", "end"} /\ phase' # "end"
<1> USE DEF RInv
<1>1. SameButRows
  <2>1. obj \in [Obj -> Desc]
    BY DEF Pointers
  <2>2. CASE DeliverDone
    <3>1. cur.o \in Obj /\ (obj' = [obj EXCEPT ![cur.o].rows = 0] \/ obj' = obj)
      BY <2>2 DEF DeliverDone, Phases
    <3> QED
      BY <2>1, <3>1, RowsSet
  <2>3. ASSUME NEW p \in Input[model], DataPacket(p) PROVE SameButRows
    <3>1. PICK o \in Obj : o = desc[p.id]
      BY <2>3 DEF DataPacket, Pointers
    <3>2. obj[o].rows \in Nat
      BY <2>1 DEF Desc
    <3>3. PICK n \in Nat : n = IF obj[o].kind = "DATASET" THEN obj[o].rows + 1 ELSE 1
      BY <3>2
    <3>4. obj' = [obj EXCEPT ![o].rows = n] \/ obj' = obj
      BY <2>3, <3>1, <3>3 DEF DataPacket
    <3> QED
      BY <2>1, <3>4, RowsSet
  <2> QED
    BY <2>2, <2>3
<1>2. /\ phase \notin {"redef", "end"} /\ phase' # "end" /\ UNCHANGED desc
      /\ UNCHANGED cur \/ nRet = 0
      /\ nRet # 0 => nRet' # 0
  <2>1. CASE DeliverDone
    BY <2>1 DEF DeliverDone
  <2>2. ASSUME NEW p \in Input[model], DataPacket(p)
        PROVE  /\ phase = "tag" /\ phase' # "end" /\ UNCHANGED desc /\ nRet = 0
    BY <2>2 DEF DataPacket, Takes, Phases
  <2> QED
    BY <2>1, <2>2
<1>3. /\ \A i \in Slot : bslot[i] # NoObj => bslot'[i] = bslot[i]
      /\ Datasets \subseteq Datasets'
      /\ bst' = "deleted" => bst = "deleted"
  BY DEF Idle, Datasets, Paired
<1> QED
  BY <1>1, <1>2, <1>3 DEF Gentle
-----------------------------------------------------------------------------
\* The header in progress owns the new descriptor.
LEMMA PacketHeaderOwners ==
  ASSUME BInv, NEW p \in Input[model], PacketHeader(p), Idle
  PROVE  Laid' /\ Owners'
<1> USE DEF BInv
<1>1. PICK o, d : /\ o \in Obj /\ obj[o].st = "unused" /\ obj' = [obj EXCEPT ![o] = d]
                  /\ d.st = "live" /\ d.fmt = p.fmt /\ cur'.o = o
  <2>1. Fresh(obj) \in Obj /\ obj[Fresh(obj)].st = "unused"
    BY Zenon DEF PacketHeader, HasRoom, Fresh
  <2>2. PICK d : d = [Unused EXCEPT !.st = "live", !.kind = Decoded(p), !.fmt = p.fmt, !.src = p.id,
                        !.parent = IF Decoded(p) = "PACKET" THEN "src" ELSE "none"]
    OBVIOUS
  <2>3. d.st = "live" /\ d.fmt = p.fmt
    BY <2>2 DEF Unused
  <2>4. obj' = [obj EXCEPT ![Fresh(obj)] = d] /\ cur'.o = Fresh(obj)
    BY <2>2, Zenon DEF PacketHeader
  <2> QED
    BY <2>1, <2>3, <2>4
<1>2. phase = "tag" /\ phase' = "redef" /\ UNCHANGED desc /\ nRet = 0 /\ p.fmt \in Fmt
  BY InputAssumption DEF PacketHeader, Takes, RInv, Phases
<1>3. \A e \in Obj : obj'[e] = IF e = o THEN d ELSE obj[e]
  BY <1>1 DEF RInv, Pointers
<1>4. Laid'
  BY <1>1, <1>2, <1>3 DEF Laid
<1>5. Owners'
  BY <1>1, <1>2, <1>3 DEF Owners, InTable, Held, Datasets, Paired, Idle
<1> QED
  BY <1>4, <1>5

\* A refused header is freed.
LEMMA RedefHandlerOwners ==
  ASSUME BInv, NEW ret \in Returns(pos), RedefHandler(ret), Idle
  PROVE  Laid' /\ Owners'
<1> USE DEF BInv
<1>1. CASE ret = 0
  <2>1. UNCHANGED <<phase, nRet, desc, cur, obj>>
    BY <1>1 DEF RedefHandler, RedefReturns
  <2>2. Gentle
    BY <2>1, RowsSet DEF Gentle, Idle, Datasets, Paired, RInv, Pointers
  <2> QED
    BY <2>2, GentleKeeps
<1>2. CASE ret # 0
  <2>1. /\ phase = "redef" /\ nRet = 0 /\ UNCHANGED <<desc, cur>> /\ cur.o \in Obj
        /\ phase' = "close" /\ obj' = Freed(obj, {cur.o})
    BY <1>2 DEF RedefHandler, RedefReturns, RInv, Phases, Live
  <2>2. /\ \A e \in Obj : SameMake(obj'[e], obj[e])
        /\ obj'[cur.o].st = "freed" /\ \A e \in Obj : e # cur.o => obj'[e] = obj[e]
    BY <2>1, FreedIs DEF RInv, Pointers
  <2>3. Laid'
    BY <2>1, <2>2 DEF Laid, RInv, Phases, Live, SameMake
  <2>4. Owners'
    BY <2>1, <2>2 DEF Owners, InTable, Held, Datasets, Paired, Idle
  <2> QED
    BY <2>3, <2>4
<1> QED
  BY <1>1, <1>2

\* The new descriptor is the table's, or was refused; the old one is freed.
LEMMA InstallDescOwners ==
  ASSUME BInv, InstallDesc, Idle
  PROVE  Laid' /\ Owners'
<1> USE DEF BInv
<1>1. /\ phase = "redef" /\ cur.o \in Obj /\ obj[cur.o].st = "live" /\ nRet = 0
      /\ cur.id \in Slot /\ \A i \in Slot : desc[i] # cur.o
      /\ UNCHANGED cur
  BY DEF InstallDesc, RInv, Phases, Live, Pointers
<1>2. PICK old, rest, heap : /\ old = desc[cur.id] /\ rest = [desc EXCEPT ![cur.id] = NoObj]
                             /\ heap = Freed(obj, {old} \ {NoObj})
  OBVIOUS
<1>3. /\ heap \in [Obj -> Desc] /\ heap[cur.o] = obj[cur.o]
      /\ \A e \in Obj : SameMake(heap[e], obj[e])
      /\ \A e \in Obj : e # old => heap[e] = obj[e]
      /\ old # NoObj => heap[old].st = "freed"
  BY <1>1, <1>2, FreedIs DEF RInv, Pointers
<1>4. \/ /\ phase' = "close" /\ nRet' = 1 /\ desc' = rest /\ obj' = heap
         /\ AddRefused(rest, cur.o, cur.id)
      \/ /\ phase' = "announce" /\ desc' = [desc EXCEPT ![cur.id] = cur.o]
         /\ obj' = [heap EXCEPT ![cur.o].parent = "src"]
  BY <1>2, Zenon DEF InstallDesc
<1>5. /\ \A e \in Obj : obj'[e].st = heap[e].st /\ obj'[e].fmt = obj[e].fmt
                        /\ obj'[e].kind = obj[e].kind
      /\ \A e \in Obj : e # cur.o => obj'[e] = heap[e]
      /\ phase' = "announce" => obj'[cur.o].parent = "src"
  <2>1. \A e \in Obj : e # cur.o => obj'[e] = heap[e]
    BY <1>3, <1>4
  <2>2. obj'[cur.o] = heap[cur.o] \/ obj'[cur.o] = [heap[cur.o] EXCEPT !.parent = "src"]
    BY <1>1, <1>3, <1>4
  <2>3. phase' = "announce" => obj'[cur.o] = [heap[cur.o] EXCEPT !.parent = "src"]
    BY <1>1, <1>3, <1>4
  <2> QED
    BY <1>1, <1>3, <2>1, <2>2, <2>3 DEF SameMake, Desc
<1>6. \A e \in Obj : heap[e].st # "unused" => obj[e].st # "unused"
  <2>1. \A e \in Obj : e = old => obj[e].st = "live"
    BY <1>1, <1>2, ReadAssumption DEF RInv, Table, Phases, Live
  <2> QED
    BY <1>3, <2>1
<1>7. Laid'
  <2>1. \A e \in Obj : obj'[e].st # "unused" => obj'[e].fmt \in Fmt
    BY <1>5, <1>6 DEF Laid
  <2>2. ASSUME NEW e \in Obj, obj'[e].st = "unused"
        PROVE  obj'[e].parent = "none"
    <3>1. heap[e].st = "unused" /\ e # cur.o
      BY <1>1, <1>3, <1>5, <2>2
    <3>2. obj'[e] = heap[e] /\ e # old
      BY <1>3, <1>5, <3>1, ReadAssumption
    <3> QED
      BY <1>3, <3>1, <3>2 DEF Laid
  <2> QED
    BY <2>1, <2>2 DEF Laid
<1>8. Owners'
  <2> SUFFICES ASSUME NEW o \in Obj, obj'[o].st = "live"
               PROVE  \/ phase' # "end" /\ InTable(o)' /\ obj'[o].parent = "src"
                      \/ o \in Datasets' /\ obj'[o].parent = "none"
                      \/ bst' # "deleted" /\ Held(o)' /\ obj'[o].parent = "bldr"
                      \/ nRet' # 0 /\ o = cur'.o /\ AddRefused(desc, o, cur.id)'
    BY DEF Owners
  <2>1. CASE o = cur.o /\ phase' = "announce"
    <3>1. desc'[cur.id] = o
      BY <1>1, <1>4, <2>1 DEF RInv, Pointers
    <3> QED
      BY <1>1, <1>5, <2>1, <3>1 DEF InTable
  <2>2. CASE o = cur.o /\ phase' # "announce"
    <3>1. /\ nRet' # 0 /\ desc' = rest /\ AddRefused(rest, cur.o, cur.id)
      BY <1>4, <2>2
    <3>2. \A i \in Slot : rest[i] # NoObj => rest[i] \in Obj
      BY <1>2 DEF RInv, Pointers
    <3>3. AddRefused(desc, o, cur.id)'
      BY <1>1, <1>5, <2>2, <3>1, <3>2 DEF AddRefused
    <3> QED
      BY <1>1, <2>2, <3>1, <3>3
  <2>3. CASE o # cur.o
    <3>1. o # old /\ obj'[o] = obj[o]
      <4>1. heap[o].st = "live" /\ obj'[o] = heap[o]
        BY <1>5, <2>3
      <4>2. o # old
        BY <1>3, <4>1, ReadAssumption
      <4> QED
        BY <1>3, <4>1, <4>2
    <3>2. CASE InTable(o) /\ obj[o].parent = "src"
      <4>1. PICK i \in Slot : desc[i] = o /\ i # cur.id
        BY <1>2, <3>1, <3>2 DEF InTable
      <4>2. desc'[i] = o
        BY <1>2, <1>4, <4>1 DEF RInv, Pointers
      <4> QED
        BY <1>4, <3>1, <3>2, <4>2 DEF InTable
    <3>3. CASE ~(InTable(o) /\ obj[o].parent = "src")
      BY <1>1, <2>3, <3>1, <3>3 DEF Owners, Idle, Held, Datasets, Paired
    <3> QED
      BY <3>2, <3>3
  <2> QED
    BY <2>1, <2>2, <2>3
<1> QED
  BY <1>7, <1>8

\* What is in the table and the stream's own is freed.
LEMMA FinishOwners ==
  ASSUME BInv, Finish, Idle
  PROVE  Laid' /\ Owners'
<1> USE DEF BInv
<1>1. phase = "close" /\ UNCHANGED <<desc, cur, nRet>>
  BY DEF Finish
<1>2. PICK S : /\ S = {desc[i] : i \in {j \in Slot : desc[j] # NoObj
                                                     /\ obj[desc[j]].parent = "src"}}
               /\ obj' = Freed(obj, S)
  BY DEF Finish
<1>3. /\ \A e \in Obj : SameMake(obj'[e], obj[e])
      /\ \A e \in Obj : e \in S => obj'[e].st = "freed"
      /\ \A e \in Obj : e \notin S => obj'[e] = obj[e]
  BY <1>2, FreedIs DEF RInv, Pointers
<1>4. \A e \in Obj : e \in S => obj[e].st # "unused"
  <2>1. CASE pSd = "open"
    BY <1>2, <2>1 DEF RInv, Table, Live
  <2>2. CASE pSd # "open"
    BY <1>1, <1>2, <2>2 DEF RInv, Table, Phases, Scalars
  <2> QED
    BY <2>1, <2>2
<1>5. Laid'
  BY <1>3, <1>4 DEF Laid, SameMake
<1>6. Owners'
  <2> SUFFICES ASSUME NEW o \in Obj, obj'[o].st = "live"
               PROVE  \/ o \in Datasets' /\ obj'[o].parent = "none"
                      \/ bst' # "deleted" /\ Held(o)' /\ obj'[o].parent = "bldr"
                      \/ nRet' # 0 /\ o = cur'.o /\ AddRefused(desc, o, cur.id)'
    BY DEF Owners
  <2>1. o \notin S /\ obj'[o] = obj[o]
    BY <1>3
  <2>2. ~(InTable(o) /\ obj[o].parent = "src")
    BY <1>2, <2>1, ReadAssumption DEF InTable
  <2>3. CASE nRet # 0 /\ o = cur.o /\ AddRefused(desc, o, cur.id)
    <3>1. AddRefused(desc, o, cur.id)'
      BY <1>1, <1>3, <2>3, RefusedKept DEF RInv, SameMake
    <3> QED
      BY <1>1, <2>3, <3>1
  <2>4. CASE ~(nRet # 0 /\ o = cur.o /\ AddRefused(desc, o, cur.id))
    BY <1>1, <2>1, <2>2, <2>4 DEF Owners, Idle, Held, Datasets, Paired
  <2> QED
    BY <2>3, <2>4
<1> QED
  BY <1>5, <1>6
-----------------------------------------------------------------------------
\* A pair more is the last one.
LEMMA AddPairGrows ==
  ASSUME BTypes, NEW lay \in Lay \cup {NoObj}, NEW ds \in Obj, cur.id \in Slot, AddPair(lay, ds)
  PROVE  /\ lPairs' \in Seq([lay : Lay \cup {NoObj}, ds : Obj])
         /\ Len(lPairs') = Len(lPairs) + 1 /\ Len(lPairs) \in Nat
         /\ \A u \in DOMAIN lPairs : Paired(u)' = Paired(u)
         /\ lPairs'[Len(lPairs) + 1].ds = ds
         /\ lDsMap' \in [Slot -> 0..Len(lPairs')]
         /\ lDsMap'[cur.id] = Len(lPairs) + 1
         /\ \A i \in Slot : i # cur.id => lDsMap'[i] = lDsMap[i]
         /\ Datasets' = Datasets \cup {ds}
<1>1. PICK e : e = [lay |-> lay, ds |-> ds]
  OBVIOUS
<1>2. e \in [lay : Lay \cup {NoObj}, ds : Obj] /\ e.ds = ds
  BY <1>1
<1>3. lPairs' = Append(lPairs, e) /\ lDsMap' = [lDsMap EXCEPT ![cur.id] = Len(lPairs) + 1]
  BY <1>1 DEF AddPair
<1>4. /\ lPairs' \in Seq([lay : Lay \cup {NoObj}, ds : Obj])
      /\ Len(lPairs') = Len(lPairs) + 1 /\ Len(lPairs) \in Nat
      /\ \A u \in 1..Len(lPairs) : lPairs'[u] = lPairs[u]
      /\ lPairs'[Len(lPairs) + 1] = e
      /\ DOMAIN lPairs = 1..Len(lPairs) /\ DOMAIN lPairs' = 1..(Len(lPairs) + 1)
  BY <1>2, <1>3 DEF BTypes
<1>5. PICK n \in Nat : n = Len(lPairs)
  BY <1>4
<1>6. DOMAIN lPairs = 1..n /\ DOMAIN lPairs' = 1..(n + 1)
  BY <1>4, <1>5
<1>7. \A u \in 1..n : Paired(u)' = Paired(u)
  <2>1. \A u \in 1..n : lPairs'[u] = lPairs[u]
    BY <1>4, <1>5
  <2> QED
    BY <2>1, Zenon DEF Paired
<1>8. Paired(n + 1)' = ds
  <2>1. lPairs'[n + 1].ds = ds
    BY <1>2, <1>4, <1>5
  <2> QED
    BY <2>1, Zenon DEF Paired
<1>9. /\ \A u \in DOMAIN lPairs : Paired(u)' = Paired(u)
      /\ lPairs'[Len(lPairs) + 1].ds = ds
  BY <1>2, <1>4, <1>5, <1>6, <1>7
<1>10. Datasets' = Datasets \cup {ds}
  <2>1. Datasets = {Paired(u) : u \in 1..n}
    BY <1>6, Zenon DEF Datasets
  <2>2. Datasets' = {Paired(u)' : u \in 1..(n + 1)}
    BY <1>6, Zenon DEF Datasets
  <2>3. \A u \in 1..(n + 1) : u \in 1..n \/ u = n + 1
    OBVIOUS
  <2>4. (\A u \in 1..n : u \in 1..(n + 1)) /\ n + 1 \in 1..(n + 1)
    OBVIOUS
  <2>5. Datasets' \subseteq Datasets \cup {ds}
    BY <1>7, <1>8, <2>1, <2>2, <2>3, Zenon
  <2>6. Datasets \cup {ds} \subseteq Datasets'
    BY <1>7, <1>8, <2>1, <2>2, <2>4, Zenon
  <2> QED
    BY <2>5, <2>6
<1>11. \A i \in Slot : lDsMap[i] \in 0..Len(lPairs')
  BY <1>4 DEF BTypes
<1>12. lDsMap' \in [Slot -> 0..Len(lPairs')]
  BY <1>3, <1>4, <1>11 DEF BTypes
<1>13. lDsMap'[cur.id] = Len(lPairs) + 1 /\ \A i \in Slot : i # cur.id => lDsMap'[i] = lDsMap[i]
  BY <1>3 DEF BTypes
<1> QED
  BY <1>4, <1>9, <1>10, <1>12, <1>13

\* What the header in progress is, when the builder is called for it.
LEMMA HeaderIs ==
  ASSUME BInv, phase = "announce", elem # "STREAM"
  PROVE  /\ cur.id \in Slot /\ cur.o \in Obj /\ desc[cur.id] = cur.o /\ Live(cur.o)
         /\ obj[cur.o].fmt \in Fmt /\ obj[cur.o].fmt.lay \in Lay
         /\ pSd = "open" /\ nRet = 0
<1>1. /\ cur.id \in Slot /\ cur.o \in Obj /\ desc[cur.id] = cur.o /\ pSd = "open" /\ nRet = 0
  BY DEF BInv, RInv, Phases, Pointers
<1>2. Live(cur.o)
  BY <1>1, ReadAssumption DEF BInv, RInv, Table
<1>3. obj[cur.o].fmt \in Fmt
  <2>1. obj[cur.o].st # "unused"
    BY <1>2 DEF Live
  <2> QED
    BY <1>1, <2>1, Zenon DEF BInv, Laid
<1> QED
  BY <1>1, <1>2, <1>3 DEF Lay

\* A callback of the builder that changes no more than rows and what the ID maps to.
LEMMA BuilderCallback ==
  ASSUME BInv, Called, SameButRows, NEW ret \in {0, 1},
         AnnounceReturns(ret) \/ DeliverReturns(ret) \/ CloseReturns(ret), Idle
  PROVE  BInv'
<1>1. Gentle /\ RInv' /\ phase # "end"
  BY CallbackGentle DEF BInv, Idle, Datasets, Paired
<1> QED
  BY <1>1, GentleKeeps, IdleTypes DEF BInv

\* The ID goes on with a dataset there is.
LEMMA ReuseInv ==
  ASSUME BInv, OnPktDescReuse
  PROVE  BInv'
<1> USE DEF BInv
<1>1. /\ phase = "announce" /\ elem # "STREAM" /\ AnnounceReturns(0) /\ UNCHANGED obj
      /\ UNCHANGED <<bslot, lPairs, bst, stale>> /\ phase # "end"
  BY DEF OnPktDescReuse, AnnounceHandler, AnnounceReturns
<1>2. PICK us : /\ us = Containers(obj[cur.o].fmt) /\ us # {}
                /\ lDsMap' = [lDsMap EXCEPT ![cur.id] = Min(us)]
  BY DEF OnPktDescReuse
<1>3. us \subseteq 1..Len(lPairs) /\ Len(lPairs) \in Nat
  BY <1>2 DEF Containers, BTypes
<1>4. Min(us) \in us
  <2>1. us \subseteq Nat
    BY <1>3
  <2>2. \E x \in us : \A y \in us : x <= y
    BY <1>2, <2>1, LeastNat
  <2> QED
    BY <2>2, Zenon DEF Min
<1>5. lDsMap' \in [Slot -> 0..Len(lPairs)]
  <2>1. PICK m : m = Min(us)
    OBVIOUS
  <2>2. m \in us /\ lDsMap' = [lDsMap EXCEPT ![cur.id] = m]
    BY <1>2, <1>4, <2>1
  <2> QED
    <3>1. m \in 0..Len(lPairs)
      BY <1>3, <2>2
    <3> QED
      BY <2>2, <3>1 DEF BTypes
<1>6. SameButRows
  BY <1>1, RowsSet DEF RInv, Pointers
<1>7. Gentle /\ RInv'
  BY <1>1, <1>6, CallbackGentle DEF Datasets, Paired
<1>8. BTypes'
  BY <1>1, <1>5, <1>7 DEF BTypes
<1> QED
  BY <1>7, <1>8, GentleKeeps

\* A dataset of das3 stays where it is.
LEMMA DataSetInv ==
  ASSUME BInv, OnDataSet
  PROVE  BInv'
<1> USE DEF BInv
<1>1. /\ phase = "announce" /\ elem # "STREAM" /\ UNCHANGED <<obj, bst, stale>>
  BY DEF OnDataSet, AnnounceHandler, AnnounceReturns
<1>2. cur.id \in Slot /\ cur.o \in Obj /\ Live(cur.o)
  BY <1>1, HeaderIs
<1>3. SameButRows
  BY <1>1, RowsSet DEF RInv, Pointers
<1>4. CASE lDsMap[cur.id] # 0
  <2>1. AnnounceReturns(1) /\ Idle
    BY <1>1, <1>4 DEF OnDataSet, AnnounceHandler, Idle
  <2> QED
    BY <1>3, <2>1, BuilderCallback DEF OnDataSet
<1>5. CASE lDsMap[cur.id] = 0
  <2>1. AnnounceReturns(0) /\ AddPair(NoObj, cur.o) /\ phase' # "end"
        /\ bslot' = IF bslot[cur.id] = NoObj THEN [bslot EXCEPT ![cur.id] = cur.o] ELSE bslot
    BY <1>1, <1>5 DEF OnDataSet, AnnounceHandler, AnnounceReturns
  <2>2. BTypes' /\ Datasets \subseteq Datasets'
    BY <1>1, <1>2, <2>1, AddPairGrows DEF BTypes
  <2>3. Gentle /\ RInv'
    BY <1>1, <1>3, <2>1, <2>2, CallbackGentle DEF BTypes
  <2> QED
    BY <2>2, <2>3, GentleKeeps
<1> QED
  BY <1>4, <1>5

\* A dataset of its own belongs to the builder's stream, or to nobody.
LEMMA NewDatasetInv ==
  ASSUME BInv, OnPktDescNew
  PROVE  BInv'
<1> USE DEF BInv
<1>1. /\ phase = "announce" /\ elem # "STREAM" /\ AnnounceReturns(0) /\ UNCHANGED <<bst, stale>>
      /\ phase' # "end" /\ phase' # "redef" /\ UNCHANGED <<desc, cur, nRet>>
  BY DEF OnPktDescNew, AnnounceReturns
<1>2. /\ cur.id \in Slot /\ cur.o \in Obj /\ Live(cur.o) /\ desc[cur.id] = cur.o
      /\ obj[cur.o].fmt \in Fmt /\ obj[cur.o].fmt.lay \in Lay
      /\ pSd = "open" /\ nRet = 0
  BY <1>1, HeaderIs
<1>3. PICK ds, d :
        /\ ds \in Obj /\ obj[ds].st = "unused" /\ obj' = [obj EXCEPT ![ds] = d]
        /\ d = [st |-> "live", kind |-> "DATASET", fmt |-> obj[cur.o].fmt, src |-> cur.id,
                rows |-> 0, parent |-> IF bslot[cur.id] = NoObj THEN "bldr" ELSE "none"]
        /\ bslot' = IF bslot[cur.id] = NoObj THEN [bslot EXCEPT ![cur.id] = ds] ELSE bslot
        /\ AddPair(obj[cur.o].fmt.lay, ds)
  <2>1. Fresh(obj) \in Obj /\ obj[Fresh(obj)].st = "unused"
    BY Zenon DEF OnPktDescNew, HasRoom, Fresh
  <2>2. PICK d : d = [st |-> "live", kind |-> "DATASET", fmt |-> obj[cur.o].fmt, src |-> cur.id,
                      rows |-> 0, parent |-> IF bslot[cur.id] = NoObj THEN "bldr" ELSE "none"]
    OBVIOUS
  <2>3. /\ obj' = [obj EXCEPT ![Fresh(obj)] = d]
        /\ bslot' = IF bslot[cur.id] = NoObj THEN [bslot EXCEPT ![cur.id] = Fresh(obj)] ELSE bslot
        /\ AddPair(obj[cur.o].fmt.lay, Fresh(obj))
    BY <2>2 DEF OnPktDescNew
  <2> QED
    BY <2>1, <2>2, <2>3
<1>4. /\ d \in Desc /\ d.st = "live" /\ d.fmt \in Fmt
      /\ d.parent = IF bslot[cur.id] = NoObj THEN "bldr" ELSE "none"
  BY <1>2, <1>3 DEF Desc
<1>5. \A e \in Obj : obj'[e] = IF e = ds THEN d ELSE obj[e]
  BY <1>3 DEF RInv, Pointers
<1>6. HeapKept
  BY <1>3, <1>4, <1>5 DEF HeapKept, RInv, Pointers
<1>7. RInv'
  BY <1>1, <1>6, CallbackInv
<1>8. BTypes' /\ Datasets' = Datasets \cup {ds}
  BY <1>1, <1>2, <1>3, AddPairGrows DEF BTypes
<1>9. Laid'
  BY <1>4, <1>5 DEF Laid
<1>10. Owners'
  <2> SUFFICES ASSUME NEW o \in Obj, obj'[o].st = "live"
               PROVE  \/ phase' # "end" /\ InTable(o)' /\ obj'[o].parent = "src"
                      \/ o \in Datasets' /\ obj'[o].parent = "none"
                      \/ bst' # "deleted" /\ Held(o)' /\ obj'[o].parent = "bldr"
    BY DEF Owners
  <2>1. CASE o = ds /\ bslot[cur.id] = NoObj
    <3>1. bslot'[cur.id] = ds /\ bst # "deleted"
      BY <1>1, <1>2, <1>3, <2>1 DEF BTypes
    <3> QED
      BY <1>1, <1>2, <1>4, <1>5, <2>1, <3>1 DEF Held
  <2>2. CASE o = ds /\ bslot[cur.id] # NoObj
    BY <1>4, <1>5, <1>8, <2>2
  <2>3. CASE o # ds
    <3>1. obj'[o] = obj[o]
      BY <1>5, <2>3
    <3>2. Held(o) => Held(o)'
      BY <1>2, <1>3, ReadAssumption DEF Held, BTypes
    <3> QED
      BY <1>1, <1>2, <1>8, <3>1, <3>2 DEF Owners, InTable
  <2> QED
    BY <2>1, <2>2, <2>3
<1> QED
  BY <1>7, <1>8, <1>9, <1>10
\* What a closing builder takes over from the source stream.
Sets == {i \in Slot : desc[i] # NoObj /\ obj[desc[i]].kind = "DATASET"}
Untracked == {i \in Sets : \A j \in Slot : bslot[j] # desc[i]}
Taken == {desc[i] : i \in {j \in Sets : \A k \in Untracked : j < k}}
CloseTakes ==
  /\ Called /\ CloseReturns(IF Untracked = {} THEN 0 ELSE 1)
  /\ obj' = [o \in Obj |-> IF o \in Taken THEN [obj[o] EXCEPT !.parent = "bldr"] ELSE obj[o]]
  /\ stale' = (stale \/ \E u \in DOMAIN lPairs : ~Live(Paired(u)))
  /\ UNCHANGED <<bslot, lDsMap, lPairs, bst>>

\* What the close handler of the builder takes over.
LEMMA OnCloseTakes == OnClose => CloseTakes
BY Zenon DEF OnClose, CloseTakes, Sets, Untracked, Taken

\* Only the parent of a descriptor changes, and only of those in the table.
LEMMA TakenIs ==
  ASSUME Pointers, CloseTakes
  PROVE  /\ obj' \in [Obj -> Desc]
         /\ \A o \in Obj : /\ obj'[o].st = obj[o].st /\ obj'[o].kind = obj[o].kind
                           /\ obj'[o].fmt = obj[o].fmt /\ obj'[o].src = obj[o].src
         /\ \A o \in Obj : obj'[o].parent = IF o \in Taken THEN "bldr" ELSE obj[o].parent
<1>1. \A o \in Obj : [obj[o] EXCEPT !.parent = "bldr"] \in Desc
  <2>1. \A d \in Desc : [d EXCEPT !.parent = "bldr"] \in Desc
    BY DEF Desc
  <2> QED
    BY <2>1 DEF Pointers
<1>2. \A o \in Obj : LET e == [obj[o] EXCEPT !.parent = "bldr"] IN
        /\ e.st = obj[o].st /\ e.kind = obj[o].kind /\ e.fmt = obj[o].fmt /\ e.src = obj[o].src
        /\ e.parent = "bldr"
  BY DEF Pointers, Desc
<1>3. \A o \in Obj : obj'[o] = IF o \in Taken THEN [obj[o] EXCEPT !.parent = "bldr"] ELSE obj[o]
  BY DEF CloseTakes
<1>4. obj' \in [Obj -> Desc]
  BY <1>1 DEF CloseTakes, Pointers
<1> QED
  BY <1>2, <1>3, <1>4

\* The builder takes over datasets its own stream tracks.
LEMMA CloseInv ==
  ASSUME BInv, OnClose
  PROVE  BInv'
<1> USE DEF BInv
<1>1. CloseTakes
  BY OnCloseTakes
<1>2. PICK ret \in {0, 1} : CloseReturns(ret)
  BY <1>1, Zenon DEF CloseTakes
<1>3. /\ obj' \in [Obj -> Desc]
      /\ \A o \in Obj : /\ obj'[o].st = obj[o].st /\ obj'[o].kind = obj[o].kind
                        /\ obj'[o].fmt = obj[o].fmt /\ obj'[o].src = obj[o].src
      /\ \A o \in Obj : obj'[o].parent = IF o \in Taken THEN "bldr" ELSE obj[o].parent
  BY <1>1, TakenIs DEF RInv
<1>4. phase = "close" /\ UNCHANGED <<phase, desc, cur, nRet, bslot, lDsMap, lPairs, bst>>
  BY <1>1, <1>2 DEF CloseTakes, CloseReturns
<1>5. RInv'
  BY <1>2, <1>3, CallbackInv DEF HeapKept
<1>6. BTypes'
  BY <1>4 DEF BTypes
<1>7. Laid'
  <2>1. \A o \in Obj : o \in Taken => obj[o].st = "live"
    BY <1>2 DEF Taken, Sets, CloseReturns, RInv, Table, Live
  <2> QED
    BY <1>3, <2>1 DEF Laid
<1>8. Owners'
  <2> SUFFICES ASSUME NEW o \in Obj, obj'[o].st = "live"
               PROVE  \/ InTable(o)' /\ obj'[o].parent = "src"
                      \/ o \in Datasets' /\ obj'[o].parent = "none"
                      \/ bst' # "deleted" /\ Held(o)' /\ obj'[o].parent = "bldr"
                      \/ nRet' # 0 /\ o = cur'.o /\ AddRefused(desc, o, cur.id)'
    BY <1>4 DEF Owners
  <2>1. CASE o \in Taken
    <3>1. PICK i \in Slot : i \in Sets /\ i \notin Untracked /\ o = desc[i]
      <4>1. PICK i \in Sets : o = desc[i] /\ \A k \in Untracked : i < k
        BY <2>1 DEF Taken
      <4>2. i \in Slot /\ ~(i < i)
        BY ReadAssumption DEF Sets, Slot
      <4> QED
        BY <4>1, <4>2
    <3>2. Held(o) /\ bst = "reading"
      BY <1>1, <3>1 DEF Untracked, Held, CloseTakes, Called
    <3> QED
      BY <1>3, <1>4, <2>1, <3>2 DEF Held
  <2>2. CASE o \notin Taken
    <3>1. obj'[o].parent = obj[o].parent /\ obj[o].st = "live"
      BY <1>3, <2>2
    <3>2. CASE nRet # 0 /\ o = cur.o /\ AddRefused(desc, o, cur.id)
      <4>1. AddRefused(desc, o, cur.id)'
        BY <1>3, <1>4, <3>2, RefusedKept DEF RInv
      <4> QED
        BY <1>4, <3>2, <4>1
    <3>3. CASE ~(nRet # 0 /\ o = cur.o /\ AddRefused(desc, o, cur.id))
      BY <1>4, <3>1, <3>3 DEF Owners, InTable, Held, Datasets, Paired
    <3> QED
      BY <3>2, <3>3
  <2> QED
    BY <2>1, <2>2
<1> QED
  BY <1>5, <1>6, <1>7, <1>8

\* At the end the reader's state does not change any more, whatever becomes of the heap.
LEMMA EndInv ==
  ASSUME RInv, phase = "end", UNCHANGED readVars, obj' \in [Obj -> Desc]
  PROVE  RInv'
BY DEF RInv, readVars, Pointers, Scalars, Flags, Phases, Table, Announced, Told

\* What the stream holds is freed.
LEMMA DeleteInv ==
  ASSUME BInv, phase = "end", DeleteStream
  PROVE  BInv'
<1> USE DEF BInv
<1>1. PICK S : /\ S = {o \in {bslot[i] : i \in {j \in Slot : bslot[j] # NoObj}} : obj[o].parent = "bldr"}
               /\ obj' = Freed(obj, S)
  BY DEF DeleteStream
<1>2. /\ UNCHANGED readVars /\ UNCHANGED <<bslot, lDsMap, lPairs>> /\ bst' = "deleted"
      /\ UNCHANGED <<phase, desc, cur, nRet>>
  BY DEF DeleteStream, readVars
<1>3. /\ obj' \in [Obj -> Desc]
      /\ \A e \in Obj : SameMake(obj'[e], obj[e])
      /\ \A e \in Obj : e \in S => obj'[e].st = "freed"
      /\ \A e \in Obj : e \notin S => obj'[e] = obj[e]
  BY <1>1, FreedIs DEF RInv, Pointers
<1>4. RInv'
  BY <1>2, <1>3, EndInv
<1>5. BTypes'
  BY <1>2 DEF BTypes
<1>6. Laid'
  <2>1. \A e \in Obj : e \in S => obj[e].st # "unused"
    BY <1>1 DEF Laid
  <2> QED
    BY <1>3, <2>1 DEF Laid, SameMake
<1>7. Owners'
  <2> SUFFICES ASSUME NEW o \in Obj, obj'[o].st = "live"
               PROVE  \/ o \in Datasets' /\ obj'[o].parent = "none"
                      \/ nRet' # 0 /\ o = cur'.o /\ AddRefused(desc, o, cur.id)'
    BY DEF Owners
  <2>1. o \notin S /\ obj'[o] = obj[o]
    BY <1>3
  <2>2. ~(Held(o) /\ obj[o].parent = "bldr")
    BY <1>1, <2>1, ReadAssumption DEF Held
  <2>3. CASE nRet # 0 /\ o = cur.o /\ AddRefused(desc, o, cur.id)
    <3>1. AddRefused(desc, o, cur.id)'
      BY <1>2, <1>3, <2>3, RefusedKept DEF RInv, SameMake
    <3> QED
      BY <1>2, <2>3, <3>1
  <2>4. CASE ~(nRet # 0 /\ o = cur.o /\ AddRefused(desc, o, cur.id))
    BY <1>2, <2>1, <2>2, <2>4 DEF Owners, Datasets, Paired
  <2> QED
    BY <2>3, <2>4
<1> QED
  BY <1>4, <1>5, <1>6, <1>7

\* The reader's steps and the callbacks of the other processors.
LEMMA OthersInv ==
  ASSUME BInv, Idle,
         ReaderStep \/ (pos # Bldr /\ HandlerStep) \/ QuietStep \/ RedefHandler(0)
  PROVE  BInv'
<1> USE DEF BInv
<1>1. CASE QuietStep
  BY <1>1, QuietGentle, GentleKeeps, QuietInv, IdleTypes
<1>2. CASE RedefHandler(0)
  <2>1. 0 \in Returns(pos) /\ phase # "end"
    BY <1>2 DEF Returns, RedefHandler, RedefReturns
  <2> QED
    BY <1>2, <2>1, RedefHandlerOwners, RedefHandlerInv, IdleTypes
<1>3. CASE ReaderStep
  <2>1. CASE DeliverDone \/ \E p \in Input[model] : DataPacket(p)
    BY <2>1, RowsGentle, GentleKeeps, DeliverDoneInv, DataPacketInv, IdleTypes
  <2>2. CASE InstallDesc
    <3>1. phase # "end"
      BY <2>2 DEF InstallDesc
    <3> QED
      BY <2>2, <3>1, InstallDescOwners, InstallDescInv, IdleTypes
  <2>3. CASE Finish
    <3>1. phase # "end"
      BY <2>3 DEF Finish
    <3> QED
      BY <2>3, <3>1, FinishOwners, FinishInv, IdleTypes
  <2>4. ASSUME NEW p \in Input[model], PacketHeader(p)
        PROVE  BInv'
    <3>1. phase # "end"
      BY <2>4 DEF PacketHeader, Takes
    <3> QED
      BY <2>4, <3>1, PacketHeaderOwners, PacketHeaderInv, IdleTypes
  <2> QED
    BY <1>1, <1>3, <2>1, <2>2, <2>3, <2>4 DEF ReaderStep, QuietStep
<1>4. CASE pos # Bldr /\ HandlerStep
  <2>1. PICK ret \in Returns(pos) : \/ RedefHandler(ret) \/ OobHandler(ret)
                                    \/ AnnounceHandler(ret) \/ DeliverHandler(ret)
                                    \/ CloseHandler(ret)
    BY <1>4, Zenon DEF HandlerStep
  <2>2. CASE OobHandler(ret)
    BY <1>1, <2>2 DEF QuietStep
  <2>3. CASE RedefHandler(ret)
    <3>1. phase # "end"
      BY <2>3 DEF RedefHandler, RedefReturns
    <3> QED
      BY <2>3, <3>1, RedefHandlerOwners, RedefHandlerInv, IdleTypes
  <2>4. CASE AnnounceHandler(ret) \/ DeliverHandler(ret) \/ CloseHandler(ret)
    <3>1. ret \in {0, 1} /\ SameButRows
      BY <2>4, ReturnsAre, RowsSet
         DEF AnnounceHandler, DeliverHandler, CloseHandler, RInv, Pointers
    <3>2. Gentle /\ RInv' /\ phase # "end"
      BY <2>4, <3>1, CallbackGentle
         DEF AnnounceHandler, DeliverHandler, CloseHandler, Idle, Datasets, Paired
    <3> QED
      BY <3>2, GentleKeeps, IdleTypes
  <2> QED
    BY <2>1, <2>2, <2>3, <2>4
<1> QED
  BY <1>1, <1>2, <1>3, <1>4

\* The builder's callbacks that leave its own state alone.
IdleCallback == OnStreamDesc \/ OnPktData \/ OnPktDataForeign \/ OnDsData \/ OnOob \/ OnRedef

\* A callback in which the builder does nothing.
LEMMA IdleCallbackIs ==
  ASSUME BInv, IdleCallback
  PROVE  /\ Called /\ Idle
         /\ \/ SameButRows /\ AnnounceReturns(0) /\ elem = "STREAM"
            \/ SameButRows /\ DeliverReturns(0)
            \/ phase = "deliver" /\ phase' = "crashed" /\ UNCHANGED <<model, pos, first, pSd, desc, obj,
                  cur, elem, nRet, hRet, bClearDs, npkt, seen>>
            \/ OobHandler(0) \/ RedefHandler(0)
<1>1. obj \in [Obj -> Desc]
  BY DEF BInv, RInv, Pointers
<1>2. CASE OnStreamDesc
  BY <1>1, <1>2, RowsSet DEF OnStreamDesc, AnnounceHandler, bldrVars, Idle
<1>3. CASE OnPktData
  <2>1. PICK ds : ds = Paired(lDsMap[cur.id])
    OBVIOUS
  <2>2. obj' = [obj EXCEPT ![ds].rows = @ + 1]
    BY <1>3, <2>1 DEF OnPktData
  <2>3. CASE ds \in Obj
    <3>1. PICK n \in Nat : n = obj[ds].rows + 1
      BY <1>1, <2>3 DEF Desc
    <3>2. obj' = [obj EXCEPT ![ds].rows = n]
      BY <2>2, <3>1
    <3> QED
      BY <1>1, <1>3, <2>3, <3>2, RowsSet DEF OnPktData, Idle
  <2>4. CASE ds \notin Obj
    <3>1. obj' = obj
      BY <1>1, <2>2, <2>4
    <3> QED
      BY <1>1, <1>3, <3>1, RowsSet DEF OnPktData, Idle
  <2> QED
    BY <2>3, <2>4
<1>4. CASE OnPktDataForeign
  BY <1>1, <1>4, RowsSet DEF OnPktDataForeign, bldrVars, Idle
<1>5. CASE OnDsData
  BY <1>1, <1>5, RowsSet DEF OnDsData, DeliverHandler, Idle
<1>6. CASE OnOob \/ OnRedef
  BY <1>6 DEF OnOob, OnRedef, bldrVars, Idle
<1> QED
  BY <1>2, <1>3, <1>4, <1>5, <1>6 DEF IdleCallback

\* Such a callback keeps the invariant of the builder.
LEMMA IdleCallbackInv ==
  ASSUME BInv, IdleCallback
  PROVE  BInv'
<1>1. Called /\ Idle
  BY IdleCallbackIs
<1>2. CASE SameButRows /\ (AnnounceReturns(0) \/ DeliverReturns(0))
  BY <1>1, <1>2, BuilderCallback
<1>3. CASE OobHandler(0) \/ RedefHandler(0)
  <2>1. 0 \in Returns(pos)
    BY DEF Returns
  <2> QED
    BY <1>1, <1>3, <2>1, OthersInv DEF QuietStep
<1>4. CASE /\ phase = "deliver" /\ phase' = "crashed"
           /\ UNCHANGED <<model, pos, first, pSd, desc, obj, cur, elem, nRet, hRet, bClearDs, npkt, seen>>
  <2>1. RInv'
    <3>1. Flags'
      BY <1>4, Zenon DEF BInv, RInv, Flags
    <3>2. Pointers' /\ Scalars' /\ model' \in Models
      BY <1>4 DEF BInv, RInv, Pointers, Scalars
    <3>3. Phases'
      <4>1. nRet = 0
        BY <1>1, <1>4, ReadAssumption, BldrAssumption DEF BInv, RInv, Phases, Called, Proc
      <4> QED
        BY <1>4, <4>1 DEF BInv, RInv, Phases
    <3>4. Table' /\ Announced'
      BY <1>4 DEF BInv, RInv, Table, Announced, Live
    <3> QED
      BY <3>1, <3>2, <3>3, <3>4 DEF RInv
  <2>2. Gentle
    BY <1>1, <1>4, RowsSet DEF Gentle, Idle, Datasets, Paired, BInv, RInv, Pointers
  <2> QED
    BY <1>1, <1>4, <2>1, <2>2, GentleKeeps, IdleTypes DEF BInv
<1> QED
  BY <1>2, <1>3, <1>4, IdleCallbackIs

\* The stream goes to the caller, or is forgotten.
LEMMA HandedInv ==
  ASSUME BInv, HandOver \/ ReadFailedLost
  PROVE  BInv'
<1>1. /\ UNCHANGED <<vars, bslot, lDsMap, lPairs>> /\ phase = "end" /\ bst' \in {"handed", "lost"}
  BY DEF HandOver, ReadFailedLost, Returned
<1>2. RInv'
  BY <1>1 DEF BInv, vars, readVars, RInv, Pointers, Scalars, Flags, Phases, Table, Announced, Told, Live
<1>3. BTypes'
  BY <1>1 DEF BInv, BTypes, vars, readVars
<1>4. Gentle
  BY <1>1, RowsSet DEF Gentle, Datasets, Paired, BInv, RInv, Pointers, vars, readVars
<1> QED
  BY <1>2, <1>3, <1>4, GentleKeeps DEF BInv
-----------------------------------------------------------------------------
(* The builder's state and the heap it shares with the reader stay together. *)
THEOREM BuilderInvariance == BSpec => []BInv
<1>1. BInv /\ [BNext]_allVars => BInv'
  <2>1. ASSUME BInv, ReaderStep \/ (pos # Bldr /\ HandlerStep), UNCHANGED bldrVars
        PROVE  BInv'
    BY <2>1, OthersInv DEF bldrVars, Idle
  <2>2. ASSUME BInv, BldrStep
        PROVE  BInv'
    <3>1. CASE IdleCallback
      BY <2>2, <3>1, IdleCallbackInv
    <3>2. CASE OnPktDescReuse \/ OnPktDescNew \/ OnDataSet \/ OnClose
      BY <2>2, <3>2, ReuseInv, NewDatasetInv, DataSetInv, CloseInv
    <3>3. CASE HandOver \/ ReadFailedLost
      BY <2>2, <3>3, HandedInv
    <3>4. CASE CallerDeletes \/ ReadFailed
      <4>1. phase = "end" /\ DeleteStream
        BY <2>2, <3>4 DEF CallerDeletes, ReadFailed, Returned, BInv, BTypes
      <4> QED
        BY <2>2, <4>1, DeleteInv
    <3> QED
      BY <2>2, <3>1, <3>2, <3>3, <3>4 DEF BldrStep, IdleCallback
  <2>3. ASSUME BInv, UNCHANGED allVars
        PROVE  BInv'
    <3>1. UNCHANGED vars /\ UNCHANGED <<bslot, lDsMap, lPairs, bst, stale>>
      BY <2>3 DEF allVars, bldrVars
    <3>2. RInv'
      BY <2>3, <3>1
         DEF BInv, vars, readVars, RInv, Pointers, Scalars, Flags, Phases, Table, Announced, Told, Live
    <3>3. BTypes'
      BY <2>3, <3>1 DEF BInv, BTypes, vars, readVars
    <3>4. Gentle
      BY <2>3, <3>1, RowsSet
         DEF Gentle, Datasets, Paired, BInv, RInv, Pointers, vars, readVars
    <3> QED
      BY <2>3, <3>2, <3>3, <3>4, GentleKeeps DEF BInv
  <2> QED
    BY <2>1, <2>2, <2>3 DEF BNext
<1> QED
  BY <1>1, BInitInv, PTL DEF BSpec

StaleType == stale \in BOOLEAN

\* It is told from a condition.
LEMMA StaleTyped == BSpec => []StaleType
<1>1. BInit => StaleType
  BY DEF BInit, StaleType
<1>2. StaleType /\ [BNext]_allVars => StaleType'
  <2> SUFFICES ASSUME StaleType, [BNext]_allVars
               PROVE  stale' = stale \/ stale' = TRUE \/ stale' = FALSE
    BY Zenon DEF StaleType
  <2>1. CASE OnClose \/ DeleteStream
    BY <2>1, Zenon DEF OnClose, DeleteStream
  <2>2. CASE ~(OnClose \/ DeleteStream)
    BY <2>2
       DEF BNext, BldrStep, OnStreamDesc, OnPktDescReuse, OnPktDescNew, OnDataSet, OnPktData,
           OnPktDataForeign, OnDsData, OnOob, OnRedef, HandOver, CallerDeletes, ReadFailed,
           ReadFailedLost, bldrVars, allVars
  <2> QED
    BY <2>1, <2>2
<1> QED
  BY <1>1, <1>2, PTL DEF BSpec

(* Every variable of the builder keeps its type.                             *)
THEOREM BuilderTypeCorrect == BSpec => []BTypeOK
<1>1. BInv /\ StaleType => BTypeOK
  <2> SUFFICES ASSUME BInv, StaleType PROVE BTypeOK
    OBVIOUS
  <2>1. TypeOK
    BY TypeParts DEF BInv, RInv
  <2>2. PICK R : R = [lay : Lay \cup {NoObj}, ds : Obj]
    OBVIOUS
  <2>3. lPairs \in Seq(R)
    BY <2>2 DEF BInv, BTypes
  <2>4. \A u \in DOMAIN lPairs : lPairs[u] \in R
    BY <2>3
  <2> QED
    BY <2>1, <2>2, <2>4 DEF BInv, BTypes, BTypeOK, StaleType
<1> QED
  BY <1>1, StaleTyped, BuilderInvariance, PTL

(* Once the stream is deleted nothing that was read is left on the heap but  *)
(* the datasets that never had an owner and a header the table refused.      *)
THEOREM StreamFreesAll == BSpec => []AllFreed
<1>1. BInv => AllFreed
  BY DEF BInv, BTypes, Owners, AllFreed
<1> QED
  BY <1>1, BuilderInvariance, PTL
-----------------------------------------------------------------------------
\* Nothing is paired at first.
LEMMA SInitInv == BInit => SInv
<1> SUFFICES ASSUME BInit PROVE SInv
  OBVIOUS
<1>1. /\ phase = "tag" /\ hRet = 0 /\ pSd = "null" /\ bst = "reading" /\ stale = FALSE
      /\ \A i \in Slot : desc[i] = NoObj /\ bslot[i] = NoObj /\ lDsMap[i] = 0
      /\ lPairs = <<>>
  BY DEF BInit, Init
<1> QED
  BY <1>1 DEF SInv, Places, Kinds, Tracked, Coming, Alive, Closing, Ended

\* A gentle step of a callback or of the reader that is none of the builder's business.
Calm ==
  /\ Gentle /\ Idle /\ UNCHANGED <<model, hRet>>
  /\ phase \notin {"close", "end"} /\ phase' # "end"
  /\ phase' = "close" => pos' = 1
  /\ phase' = "redef" => phase = "redef" /\ UNCHANGED cur
  /\ pSd' = "open" => pSd # "gone"
  /\ \A i \in Slot : Coming(i)' => Coming(i)
  /\ EarlierSucceed => \A i \in Slot : Coming(i) => Coming(i)'
  /\ Kinds'

\* The descriptors in the table, in the builder's stream and in the pairs are objects.
LEMMA AllObjects ==
  ASSUME BInv
  PROVE  /\ \A i \in Slot : desc[i] # NoObj => desc[i] \in Obj
         /\ \A i \in Slot : bslot[i] # NoObj => bslot[i] \in Obj
         /\ \A u \in DOMAIN lPairs : Paired(u) \in Obj
<1>1. PICK R : R = [lay : Lay \cup {NoObj}, ds : Obj]
  OBVIOUS
<1>2. \A r \in R : r.ds \in Obj
  BY <1>1
<1>3. \A u \in DOMAIN lPairs : lPairs[u] \in R
  <2>1. lPairs \in Seq(R)
    BY <1>1 DEF BInv, BTypes
  <2> QED
    BY <2>1
<1> QED
  BY <1>2, <1>3 DEF BInv, RInv, Pointers, BTypes, Paired

\* So does a step of the reader the builder takes no part in.
LEMMA CalmInv ==
  ASSUME BInv, SInv, Calm
  PROVE  SInv'
<1> USE DEF SInv
<1>1. /\ \A e \in Obj : /\ obj'[e].st = obj[e].st /\ obj'[e].kind = obj[e].kind
                        /\ obj'[e].src = obj[e].src /\ obj'[e].parent = obj[e].parent
      /\ UNCHANGED <<desc, bslot, lDsMap, lPairs, bst, stale, model, hRet>>
  BY DEF Calm, Gentle, SameButRows, SameMake, Idle
<1>2. /\ \A i \in Slot : desc[i] # NoObj => desc[i] \in Obj
      /\ \A i \in Slot : bslot[i] # NoObj => bslot[i] \in Obj
      /\ \A u \in DOMAIN lPairs : Paired(u) \in Obj /\ Paired(u)' = Paired(u)
  BY <1>1, AllObjects DEF Paired
<1>3. Places'
  <2>1. pSd' = "open" => \A i \in Slot : desc[i] # NoObj => obj'[desc[i]].src = i
    BY <1>1, <1>2 DEF Calm, Places, BInv, RInv, Table, Scalars
  <2>2. phase' = "redef" => obj'[cur'.o].src = cur'.id
    BY <1>1 DEF Calm, Places, BInv, RInv, Phases, Live
  <2>3. \A i \in Slot : bslot[i] # NoObj => obj'[bslot[i]].src = i
    BY <1>1, <1>2 DEF Places
  <2>4. \A u \in DOMAIN lPairs : obj'[Paired(u)].st # "unused" /\ obj'[Paired(u)].src = obj[Paired(u)].src
    BY <1>1, <1>2 DEF Places
  <2> QED
    BY <1>1, <1>2, <2>1, <2>2, <2>3, <2>4 DEF Places, Paired
<1>4. Tracked'
  <2>1. \A i \in Slot : desc[i] # NoObj => obj'[desc[i]].kind = obj[desc[i]].kind
    BY <1>1, <1>2
  <2>2. phase' = "redef" => obj'[cur'.o].kind = obj[cur.o].kind /\ phase = "redef" /\ cur' = cur
    BY <1>1 DEF Calm, BInv, RInv, Phases, Live
  <2> QED
    BY <1>1, <2>1, <2>2 DEF Calm, Tracked, EarlierSucceed
<1>5. Alive'
  <2>1. \A u \in DOMAIN lPairs :
          /\ Live(Paired(u))' /\ InTable(Paired(u))' = InTable(Paired(u))
          /\ obj'[Paired(u)].kind = obj[Paired(u)].kind
          /\ phase' = "redef" => Paired(u) # cur'.o
    BY <1>1, <1>2 DEF Calm, Alive, Live, InTable, Paired
  <2>2. \A i \in Slot : bslot[i] # NoObj =>
          obj'[bslot[i]].parent = "bldr" \/ InTable(bslot[i])'
    BY <1>1, <1>2 DEF Calm, Alive, InTable
  <2> QED
    BY <1>1, <1>2, <2>1, <2>2 DEF Calm, Alive, Paired
<1>6. Closing'
  BY <1>1, BldrAssumption, ReadAssumption DEF Calm, Closing, Proc
<1>7. Ended'
  BY <1>1 DEF Calm, Ended, BInv, BTypes, EarlierSucceed
<1> QED
  BY <1>3, <1>4, <1>5, <1>6, <1>7 DEF Calm

\* The reader's quiet steps are calm.
LEMMA QuietCalm ==
  ASSUME BInv, SInv, QuietStep, Idle
  PROVE  Calm
<1> USE DEF BInv, SInv
<1>1. Gentle
  BY QuietGentle
<1>2. UNCHANGED <<model, hRet, obj, cur>>
  BY DEF QuietStep, EndOfInput, AnnounceDone, OobDone, Reject, RefuseHeader, StreamHeader,
         OobPacket, Crash, OobHandler
<1>3. /\ phase \in {"tag", "announce", "oob"} /\ phase' \notin {"end", "redef", "deliver"}
      /\ phase' = "close" => pos' = 1
      /\ phase = "announce" => pos = NProc + 1
      /\ phase' = "announce" => elem' = "STREAM"
      /\ pSd' = "open" => pSd # "gone"
  <2>1. CASE EndOfInput \/ AnnounceDone \/ OobDone
    BY <2>1 DEF EndOfInput, AnnounceDone, OobDone, RInv, Phases
  <2>2. ASSUME NEW p \in Input[model],
               Reject(p) \/ RefuseHeader(p) \/ StreamHeader(p) \/ OobPacket(p) \/ Crash(p)
        PROVE  /\ phase = "tag" /\ phase' \notin {"end", "redef", "deliver"}
               /\ phase' = "close" => pos' = 1
               /\ phase' = "announce" => elem' = "STREAM"
               /\ pSd' = "open" => pSd # "gone"
    BY <2>2 DEF Reject, RefuseHeader, StreamHeader, OobPacket, Crash, Takes, RInv, Phases
  <2>3. ASSUME NEW ret \in Returns(pos), OobHandler(ret)
        PROVE  /\ phase = "oob" /\ phase' \notin {"end", "redef", "deliver", "announce"}
               /\ phase' = "close" => pos' = 1
               /\ pSd' = "open" => pSd # "gone"
    BY <2>3 DEF OobHandler, RInv, Phases
  <2> QED
    BY <2>1, <2>2, <2>3 DEF QuietStep
<1>4. \A i \in Slot : ~Coming(i) /\ ~Coming(i)'
  BY <1>3, BldrAssumption, ReadAssumption DEF Coming, Proc
<1>5. Kinds'
  BY <1>3 DEF Kinds
<1> QED
  BY <1>1, <1>2, <1>3, <1>4, <1>5, Zenon DEF Calm

\* So are rows.
LEMMA RowsCalm ==
  ASSUME BInv, SInv, Idle, DeliverDone \/ \E p \in Input[model] : DataPacket(p)
  PROVE  Calm
<1> USE DEF BInv, SInv
<1>1. Gentle
  BY RowsGentle
<1>2. /\ UNCHANGED <<model, hRet>> /\ phase \in {"tag", "deliver"}
      /\ phase' \notin {"end", "redef", "announce"}
      /\ phase' = "close" => pos' = 1
      /\ pSd' = pSd
      /\ phase' = "deliver" => elem' = obj[cur'.o].kind /\ cur'.o \in Obj
  <2>1. CASE DeliverDone
    BY <2>1 DEF DeliverDone, RInv, Phases
  <2>2. ASSUME NEW p \in Input[model], DataPacket(p)
        PROVE  /\ UNCHANGED <<model, hRet>> /\ phase = "tag"
               /\ phase' \notin {"end", "redef", "announce"}
               /\ phase' = "close" => pos' = 1
               /\ pSd' = pSd
               /\ elem' = obj[cur'.o].kind /\ cur'.o \in Obj
    BY <2>2, AllObjects DEF DataPacket, Takes
  <2> QED
    BY <2>1, <2>2
<1>3. \A i \in Slot : ~Coming(i) /\ ~Coming(i)'
  BY <1>2 DEF Coming
<1>4. Kinds'
  <2> SUFFICES ASSUME phase' = "deliver"
               PROVE  elem' = obj'[cur'.o].kind /\ elem' \in {"PACKET", "DATASET"}
    BY <1>2 DEF Kinds
  <2>1. elem' = obj[cur'.o].kind /\ cur'.o \in Obj
    BY <1>2
  <2>2. obj'[cur'.o].kind = obj[cur'.o].kind
    BY <1>1, <2>1 DEF Gentle, SameButRows, SameMake
  <2>3. obj[cur'.o].kind \in {"PACKET", "DATASET"}
    BY <2>1 DEF RInv, Pointers, Desc
  <2> QED
    BY <2>1, <2>2, <2>3
<1>5. phase \notin {"close", "end"} /\ (pSd' = "open" => pSd # "gone")
  BY <1>2
<1> QED
  BY <1>1, <1>2, <1>3, <1>4, <1>5, Zenon DEF Calm

\* So are the callbacks of an announcement and of a row, those of the builder for a
\* header of its own aside.
LEMMA CallbackCalm ==
  ASSUME BInv, SInv, Idle, SameButRows, NEW ret \in {0, 1},
         AnnounceReturns(ret) \/ DeliverReturns(ret),
         pos # Bldr \/ elem = "STREAM" \/ phase = "deliver",
         EarlierSucceed /\ pos < Bldr => ret = 0
  PROVE  Calm
<1> USE DEF BInv, SInv
<1>1. Gentle
  BY CallbackGentle DEF Idle, Datasets, Paired
<1>2. /\ UNCHANGED <<model, hRet, cur, elem, pSd>> /\ phase \in {"announce", "deliver"}
      /\ phase' \in {phase, "close"} /\ (phase' = "close" => pos' = 1)
      /\ phase = "announce" => \/ ret = 0 /\ pos' = pos + 1 /\ phase' = phase
                               \/ ret = 1 /\ phase' = "close"
      /\ pos \in Proc
  BY DEF AnnounceReturns, DeliverReturns
<1>3. \A i \in Slot : Coming(i)' => Coming(i)
  BY <1>2, BldrAssumption, ReadAssumption DEF Coming, Proc
<1>4. EarlierSucceed => \A i \in Slot : Coming(i) => Coming(i)'
  BY <1>2, BldrAssumption, ReadAssumption DEF Coming, Proc
<1>5. Kinds'
  <2>1. elem # "STREAM" => cur.o \in Obj
    BY <1>2 DEF RInv, Phases
  <2> QED
    BY <1>1, <1>2, <2>1 DEF Kinds, Gentle, SameButRows, SameMake
<1>6. /\ phase \notin {"close", "end"} /\ phase' # "end" /\ phase' # "redef"
      /\ (pSd' = "open" => pSd # "gone")
  BY <1>2 DEF RInv, Phases
<1> QED
  BY <1>1, <1>2, <1>3, <1>4, <1>5, <1>6, Zenon DEF Calm
-----------------------------------------------------------------------------
\* What one may not define again is read as a packet.
LEMMA ReusedArePackets ==
  ASSUME DatasetsOnce, model \in Reuse, NEW p \in Input[model], Decoded(p) \in {"PACKET", "DATASET"}
  PROVE  Decoded(p) = "PACKET"
<1>1. model \in {"v2", "mixed"} /\ (model = "mixed" => p.elem # "dataset")
  BY ReadAssumption DEF DatasetsOnce
<1> QED
  BY <1>1 DEF Decoded

\* The new descriptor is none the builder knows.
LEMMA PacketHeaderSafe ==
  ASSUME DatasetsOnce, BInv, SInv, NEW p \in Input[model], PacketHeader(p), Idle
  PROVE  SInv'
<1> USE DEF SInv
<1>1. PICK o, d : /\ o \in Obj /\ obj[o].st = "unused" /\ obj' = [obj EXCEPT ![o] = d]
                  /\ d.kind = Decoded(p) /\ d.src = p.id /\ cur'.o = o /\ cur'.id = p.id
  <2>1. Fresh(obj) \in Obj /\ obj[Fresh(obj)].st = "unused"
    BY Zenon DEF PacketHeader, HasRoom, Fresh
  <2>2. PICK d : d = [Unused EXCEPT !.st = "live", !.kind = Decoded(p), !.fmt = p.fmt, !.src = p.id,
                        !.parent = IF Decoded(p) = "PACKET" THEN "src" ELSE "none"]
    OBVIOUS
  <2>3. d.kind = Decoded(p) /\ d.src = p.id
    BY <2>2 DEF Unused
  <2>4. obj' = [obj EXCEPT ![Fresh(obj)] = d] /\ cur' = [id |-> p.id, o |-> Fresh(obj)]
    BY <2>2, Zenon DEF PacketHeader
  <2> QED
    BY <2>1, <2>3, <2>4
<1>2. /\ phase = "tag" /\ phase' = "redef" /\ pSd = "open" /\ hRet = 0
      /\ Decoded(p) \in {"PACKET", "DATASET"} /\ elem' = Decoded(p)
      /\ model \in Reuse \/ desc[p.id] = NoObj
      /\ UNCHANGED <<desc, model, hRet>>
  BY DEF PacketHeader, Takes, Closing
<1>3. UNCHANGED <<bslot, lDsMap, lPairs, bst, stale>>
  BY DEF Idle
<1>4. obj'[o] = d /\ \A e \in Obj : e # o => obj'[e] = obj[e]
  BY <1>1 DEF BInv, RInv, Pointers
<1>5. \A i \in Slot : desc[i] # NoObj => desc[i] \in Obj /\ desc[i] # o
  BY <1>1, <1>2 DEF BInv, RInv, Table, Live
<1>6. \A u \in DOMAIN lPairs : Paired(u) \in Obj /\ Paired(u) # o /\ Paired(u)' = Paired(u)
  BY <1>1, <1>3, AllObjects DEF Places, Paired
<1>7. \A i \in Slot : bslot[i] # NoObj => bslot[i] \in Obj /\ bslot[i] # o
  BY <1>6 DEF Places
<1>8. Places'
  BY <1>1, <1>2, <1>3, <1>4, <1>5, <1>6, <1>7 DEF Places, Paired
<1>9. Kinds'
  BY <1>1, <1>2, <1>4 DEF Kinds
<1>10. Tracked'
  <2>1. \A i \in Slot : ~Coming(i) /\ ~Coming(i)'
    BY <1>2 DEF Coming
  <2>2. model \in Reuse => Decoded(p) = "PACKET"
    BY <1>2, ReusedArePackets
  <2> QED
    BY <1>1, <1>2, <1>3, <1>4, <1>5, <2>1, <2>2 DEF Tracked, EarlierSucceed
<1>11. Alive'
  <2>1. \A u \in DOMAIN lPairs : Live(Paired(u))' /\ InTable(Paired(u))' = InTable(Paired(u))
    BY <1>2, <1>3, <1>4, <1>6 DEF Alive, Live, InTable, Paired
  <2> QED
    BY <1>1, <1>2, <1>3, <1>4, <1>6, <1>7, <2>1 DEF Alive, InTable, Paired
<1>12. Closing'
  BY <1>2 DEF Closing
<1>13. Ended'
  BY <1>2, <1>3 DEF Ended, BInv, BTypes, EarlierSucceed
<1> QED
  BY <1>8, <1>9, <1>10, <1>11, <1>12, <1>13

\* The refused descriptor is none the builder knows.
LEMMA RedefRefusedSafe ==
  ASSUME BInv, SInv, NEW ret, ret # 0, RedefHandler(ret), Idle
  PROVE  SInv'
<1> USE DEF SInv
<1>1. /\ phase = "redef" /\ phase' = "close" /\ pos' = 1 /\ hRet = 0 /\ cur.o \in Obj
      /\ UNCHANGED <<model, desc, pSd, hRet>> /\ obj' = Freed(obj, {cur.o})
      /\ \A i \in Slot : desc[i] # cur.o
  BY DEF RedefHandler, RedefReturns, Closing, BInv, RInv, Phases, Live
<1>2. /\ \A e \in Obj : SameMake(obj'[e], obj[e])
      /\ \A e \in Obj : e = cur.o => obj'[e].st = "freed"
      /\ \A e \in Obj : e # cur.o => obj'[e] = obj[e]
  BY <1>1, FreedIs DEF BInv, RInv, Pointers
<1>3. UNCHANGED <<bslot, lDsMap, lPairs, bst, stale>>
  BY DEF Idle
<1>4. /\ \A i \in Slot : desc[i] # NoObj => desc[i] \in Obj
      /\ \A u \in DOMAIN lPairs : Paired(u) \in Obj /\ Paired(u) # cur.o /\ Paired(u)' = Paired(u)
  BY <1>1, <1>3, AllObjects DEF Alive, Paired
<1>5. \A i \in Slot : bslot[i] # NoObj => bslot[i] \in Obj /\ bslot[i] # cur.o
  BY <1>4 DEF Places
<1>6. Places'
  <2>1. \A i \in Slot : desc[i] # NoObj => obj'[desc[i]] = obj[desc[i]]
    BY <1>1, <1>2, <1>4
  <2>2. \A i \in Slot : bslot[i] # NoObj => obj'[bslot[i]] = obj[bslot[i]]
    BY <1>2, <1>5
  <2>3. \A u \in DOMAIN lPairs : obj'[Paired(u)] = obj[Paired(u)]
    BY <1>2, <1>4
  <2>4. \A i \in Slot : desc'[i] # NoObj => obj'[desc'[i]].src = i
    BY <1>1, <2>1 DEF Places, BInv, RInv, Phases
  <2>5. \A i \in Slot : bslot[i] # NoObj => obj'[bslot[i]].src = i
    BY <2>2 DEF Places
  <2>6. \A u \in DOMAIN lPairs :
          obj'[Paired(u)].st # "unused" /\ \E w \in 1..u : Paired(w) = bslot[obj'[Paired(u)].src]
    BY <2>3 DEF Places
  <2> QED
    BY <1>1, <1>3, <2>4, <2>5, <2>6 DEF Places, Paired
<1>7. Kinds'
  BY <1>1 DEF Kinds
<1>8. Tracked'
  <2>1. \A i \in Slot : ~Coming(i) /\ ~Coming(i)'
    BY <1>1 DEF Coming
  <2> QED
    BY <1>1, <1>2, <1>3, <1>4, <2>1 DEF Tracked, EarlierSucceed
<1>9. Alive'
  <2>1. \A u \in DOMAIN lPairs : Live(Paired(u))' /\ InTable(Paired(u))' = InTable(Paired(u))
    BY <1>1, <1>2, <1>3, <1>4 DEF Alive, Live, InTable, Paired
  <2>2. phase # "end" /\ phase' # "redef"
    BY <1>1
  <2>3. \A u \in DOMAIN lPairs' :
          /\ Live(Paired(u))'
          /\ InTable(Paired(u))' => model' \notin Reuse /\ obj'[Paired(u)'].kind = "DATASET"
    <3>1. \A u \in DOMAIN lPairs :
            /\ Paired(u)' = Paired(u) /\ obj'[Paired(u)].kind = obj[Paired(u)].kind
            /\ InTable(Paired(u)) => model \notin Reuse /\ obj[Paired(u)].kind = "DATASET"
      BY <1>2, <1>4, <2>2 DEF Alive
    <3> QED
      BY <1>1, <1>3, <2>1, <3>1
  <2>4. \A i \in Slot : bslot'[i] # NoObj => obj'[bslot'[i]].parent = "bldr" \/ InTable(bslot[i])'
    BY <1>1, <1>2, <1>3, <1>5, <2>2 DEF Alive, InTable
  <2> QED
    BY <2>2, <2>3, <2>4, Zenon DEF Alive
<1>10. Closing'
  BY <1>1, BldrAssumption, ReadAssumption DEF Closing, Proc
<1>11. Ended'
  BY <1>1, <1>3 DEF Ended, BInv, BTypes, EarlierSucceed
<1> QED
  BY <1>6, <1>7, <1>8, <1>9, <1>10, <1>11

\* The descriptor that is freed is no dataset of the builder's.
LEMMA InstallDescSafe ==
  ASSUME BInv, SInv, InstallDesc, Idle
  PROVE  SInv'
<1> USE DEF SInv
<1>1. /\ phase = "redef" /\ pSd = "open" /\ cur.o \in Obj /\ cur.id \in Slot /\ hRet = 0
      /\ elem # "STREAM" /\ \A i \in Slot : desc[i] # cur.o
      /\ UNCHANGED <<model, pSd, cur, elem, hRet>>
  BY DEF InstallDesc, BInv, RInv, Phases, Live, Pointers, Closing
<1>2. PICK old, heap : /\ old = desc[cur.id] /\ heap = Freed(obj, {old} \ {NoObj})
  OBVIOUS
<1>3. /\ heap \in [Obj -> Desc]
      /\ \A e \in Obj : SameMake(heap[e], obj[e])
      /\ \A e \in Obj : e # old => heap[e] = obj[e]
      /\ old # NoObj => heap[old].st = "freed"
  BY <1>1, <1>2, FreedIs DEF BInv, RInv, Pointers
<1>4. /\ pos' = 1
      /\ \/ /\ phase' = "close" /\ desc' = [desc EXCEPT ![cur.id] = NoObj] /\ obj' = heap
         \/ /\ phase' = "announce" /\ desc' = [desc EXCEPT ![cur.id] = cur.o]
            /\ obj' = [heap EXCEPT ![cur.o].parent = "src"]
  BY <1>2, Zenon DEF InstallDesc
<1>5. /\ \A e \in Obj : e # cur.o => obj'[e] = heap[e]
      /\ \A e \in Obj : obj'[e].st = heap[e].st /\ obj'[e].src = obj[e].src
                        /\ obj'[e].kind = obj[e].kind
  <2>1. \A e \in Obj : e # cur.o => obj'[e] = heap[e]
    BY <1>3, <1>4
  <2>2. obj'[cur.o] = heap[cur.o] \/ obj'[cur.o] = [heap[cur.o] EXCEPT !.parent = "src"]
    BY <1>1, <1>3, <1>4
  <2> QED
    BY <1>1, <1>3, <2>1, <2>2 DEF SameMake, Desc
<1>6. UNCHANGED <<bslot, lDsMap, lPairs, bst, stale>>
  BY DEF Idle
<1>7. /\ \A i \in Slot : desc[i] # NoObj => desc[i] \in Obj
      /\ \A u \in DOMAIN lPairs : Paired(u) \in Obj /\ Paired(u) # cur.o /\ Paired(u)' = Paired(u)
  BY <1>1, <1>6, AllObjects DEF Alive, Paired
<1>8. \A u \in DOMAIN lPairs : Paired(u) # old
  <2> SUFFICES ASSUME NEW u \in DOMAIN lPairs, Paired(u) = old
               PROVE  FALSE
    OBVIOUS
  <2>1. InTable(Paired(u)) /\ old # NoObj
    BY <1>1, <1>2, <1>7, ReadAssumption DEF InTable
  <2>2. model \notin Reuse
    BY <1>1, <2>1 DEF Alive
  <2> QED
    BY <1>1, <1>2, <2>1, <2>2 DEF Tracked
<1>9. \A u \in DOMAIN lPairs : obj'[Paired(u)] = obj[Paired(u)]
  BY <1>3, <1>5, <1>7, <1>8
<1>10. \A i \in Slot : bslot[i] # NoObj =>
         bslot[i] \in Obj /\ bslot[i] # cur.o /\ bslot[i] # old /\ obj'[bslot[i]] = obj[bslot[i]]
  BY <1>7, <1>8, <1>9 DEF Places
<1>11. /\ \A i \in Slot : i # cur.id => desc'[i] = desc[i]
       /\ desc'[cur.id] = IF phase' = "announce" THEN cur.o ELSE NoObj
  BY <1>1, <1>4 DEF BInv, RInv, Pointers
<1>12. Places'
  <2>1. \A i \in Slot : desc'[i] # NoObj => obj'[desc'[i]].src = i
    BY <1>1, <1>5, <1>7, <1>11 DEF Places
  <2> QED
    BY <1>4, <1>6, <1>7, <1>9, <1>10, <2>1 DEF Places, Paired
<1>13. Kinds'
  BY <1>1, <1>4, <1>5 DEF Kinds
<1>14. Tracked'
  <2>1. model \in Reuse => \A i \in Slot : desc'[i] # NoObj => obj'[desc'[i]].kind = "PACKET"
    BY <1>1, <1>5, <1>7, <1>11 DEF Tracked
  <2>2. model \notin Reuse =>
          \A i \in Slot : bslot[i] # NoObj => desc'[i] # NoObj /\ i # cur.id
    BY <1>1, <1>11 DEF Tracked
  <2>3. ASSUME EarlierSucceed, NEW i \in Slot, desc'[i] # NoObj, obj'[desc'[i]].kind = "DATASET"
        PROVE  bslot[i] = desc'[i] \/ Coming(i)'
    <3>1. CASE i = cur.id
      BY <1>1, <1>4, <1>11, <2>3, <3>1, BldrAssumption, ReadAssumption DEF Coming, Proc
    <3>2. CASE i # cur.id
      BY <1>1, <1>5, <1>7, <1>11, <2>3, <3>2 DEF Tracked, Coming
    <3> QED
      BY <3>1, <3>2
  <2>4. \A i \in Slot : Coming(i)' => i = cur.id
    BY <1>1 DEF Coming
  <2> QED
    BY <1>1, <1>4, <1>6, <2>1, <2>2, <2>3, <2>4 DEF Tracked, EarlierSucceed
<1>15. Alive'
  <2>1. \A u \in DOMAIN lPairs : InTable(Paired(u))' => InTable(Paired(u))
    BY <1>7, <1>11, ReadAssumption, <1>6 DEF InTable, Paired
  <2>2. \A i \in Slot : bslot[i] # NoObj => (InTable(bslot[i]) => InTable(bslot[i])')
    BY <1>2, <1>6, <1>10, <1>11 DEF InTable
  <2>3. \A u \in DOMAIN lPairs : Live(Paired(u))'
    BY <1>1, <1>6, <1>7, <1>9 DEF Alive, Live, Paired
  <2> QED
    BY <1>1, <1>4, <1>6, <1>7, <1>9, <1>10, <2>1, <2>2, <2>3 DEF Alive, Paired
<1>16. Closing'
  BY <1>1, <1>4, BldrAssumption, ReadAssumption DEF Closing, Proc
<1>17. Ended'
  BY <1>1, <1>4, <1>6 DEF Ended, BInv, BTypes, EarlierSucceed
<1> QED
  BY <1>12, <1>13, <1>14, <1>15, <1>16, <1>17
-----------------------------------------------------------------------------
\* What is freed at the end is none of the builder's: it took over its datasets.
LEMMA FinishSafe ==
  ASSUME BInv, SInv, Finish, Idle
  PROVE  SInv'
<1> USE DEF SInv
<1>1. /\ phase = "close" /\ phase' = "end" /\ pSd' # "open" /\ bst = "reading"
      /\ UNCHANGED <<model, desc, nRet, hRet>>
      /\ pSd # "null" => pos = NProc + 1
  BY DEF Finish, BInv, BTypes
<1>2. PICK S : /\ S = {desc[i] : i \in {j \in Slot : desc[j] # NoObj
                                                     /\ obj[desc[j]].parent = "src"}}
               /\ obj' = Freed(obj, S)
  BY DEF Finish
<1>3. /\ \A e \in Obj : SameMake(obj'[e], obj[e])
      /\ \A e \in Obj : e \in S => obj'[e].st = "freed"
      /\ \A e \in Obj : e \notin S => obj'[e] = obj[e]
  BY <1>2, FreedIs DEF BInv, RInv, Pointers
<1>4. UNCHANGED <<bslot, lDsMap, lPairs, bst, stale>>
  BY DEF Idle
<1>5. /\ \A i \in Slot : desc[i] # NoObj => desc[i] \in Obj
      /\ \A i \in Slot : bslot[i] # NoObj => bslot[i] \in Obj
      /\ \A u \in DOMAIN lPairs : Paired(u) \in Obj /\ Paired(u)' = Paired(u)
  BY <1>4, AllObjects DEF Paired
<1>6. Places'
  <2>1. \A i \in Slot : bslot[i] # NoObj => obj'[bslot[i]].src = i
    BY <1>3, <1>5 DEF Places, SameMake
  <2>2. \A u \in DOMAIN lPairs :
          obj'[Paired(u)].st # "unused" /\ \E w \in 1..u : Paired(w) = bslot[obj'[Paired(u)].src]
    BY <1>3, <1>5 DEF Places, SameMake
  <2> QED
    BY <1>1, <1>4, <1>5, <2>1, <2>2 DEF Places, Paired
<1>7. Kinds' /\ Alive' /\ Closing'
  BY <1>1 DEF Kinds, Alive, Closing
<1>8. Tracked'
  <2>1. \A i \in Slot : ~Coming(i) /\ ~Coming(i)'
    BY <1>1 DEF Coming
  <2>2. \A i \in Slot : desc[i] # NoObj => obj'[desc[i]].kind = obj[desc[i]].kind
    BY <1>3, <1>5 DEF SameMake
  <2> QED
    BY <1>1, <1>4, <2>1, <2>2 DEF Tracked, EarlierSucceed
<1>9. Ended'
  <2>1. ASSUME Clean
        PROVE  /\ \A u \in DOMAIN lPairs : Paired(u) \notin S
               /\ \A i \in Slot : bslot[i] # NoObj => obj[bslot[i]].parent = "bldr"
    <3>1. ASSUME NEW o \in Obj, InTable(o), obj[o].kind = "DATASET"
          PROVE  obj[o].parent = "bldr"
      <4>1. PICK i \in Slot : desc[i] = o /\ desc[i] # NoObj
        BY <3>1, ReadAssumption DEF InTable
      <4>2. pSd = "open" /\ pos > Bldr
        BY <1>1, <4>1, BldrAssumption, ReadAssumption
           DEF BInv, RInv, Table, Phases, Scalars, Proc
      <4> QED
        BY <1>1, <2>1, <3>1, <4>1, <4>2 DEF Closing
    <3>2. ASSUME NEW u \in DOMAIN lPairs, Paired(u) \in S
          PROVE  FALSE
      <4>1. PICK o \in Obj : o = Paired(u)
        BY <1>5
      <4>2. InTable(o) /\ obj[o].parent = "src"
        BY <1>2, <3>2, <4>1 DEF InTable
      <4>3. obj[o].kind = "DATASET"
        BY <1>1, <4>1, <4>2 DEF Alive
      <4> QED
        BY <3>1, <4>2, <4>3
    <3>3. ASSUME NEW i \in Slot, bslot[i] # NoObj
          PROVE  obj[bslot[i]].parent = "bldr"
      <4>1. PICK u \in DOMAIN lPairs : Paired(u) = bslot[i]
        BY <3>3 DEF Places
      <4>2. InTable(bslot[i]) => obj[bslot[i]].kind = "DATASET"
        BY <1>1, <4>1 DEF Alive
      <4> QED
        BY <1>1, <1>5, <3>1, <3>3, <4>2 DEF Alive
    <3> QED
      BY <3>2, <3>3
  <2>2. Clean' = Clean
    BY <1>1 DEF Clean, EarlierSucceed
  <2>3. Clean => \A u \in DOMAIN lPairs : Live(Paired(u))'
    BY <1>1, <1>3, <1>4, <1>5, <2>1 DEF Alive, Live, Paired
  <2>4. Clean => \A i \in Slot : bslot[i] # NoObj => obj'[bslot[i]].parent = "bldr"
    BY <1>3, <1>5, <2>1 DEF SameMake
  <2> QED
    BY <1>1, <1>4, <2>2, <2>3, <2>4 DEF Ended, EarlierSucceed
<1> QED
  BY <1>6, <1>7, <1>8, <1>9

\* A processor that fails to close ends the loop: before the builder, none does.
LEMMA CloseHandlerSafe ==
  ASSUME BInv, SInv, pos # Bldr, NEW ret \in Returns(pos), CloseHandler(ret), Idle
  PROVE  SInv'
<1> USE DEF SInv
<1>1. /\ phase = "close" /\ pos \in Proc /\ hRet' = ret
      /\ pos' = IF ret = 0 THEN pos + 1 ELSE NProc + 1
      /\ UNCHANGED <<model, phase, pSd, desc, cur, elem, nRet, obj>>
  BY DEF CloseHandler, CloseReturns
<1>2. UNCHANGED <<bslot, lDsMap, lPairs, bst, stale>>
  BY DEF Idle
<1>3. hRet = 0
  BY <1>1, ReadAssumption DEF Closing, Proc
<1>4. Places'
  BY <1>1, <1>2 DEF Places, Paired
<1>5. Kinds' /\ Alive'
  BY <1>1, <1>2 DEF Kinds, Alive, Live, Paired, InTable
<1>6. Tracked'
  BY <1>1, <1>2 DEF Tracked, Coming, EarlierSucceed
<1>7. Closing'
  <2>1. Clean' /\ pos' > Bldr => Clean /\ pos > Bldr
    BY <1>1, <1>3, BldrAssumption, ReadAssumption DEF Clean, EarlierSucceed, Returns, Proc
  <2> QED
    BY <1>1, <2>1 DEF Closing
<1>8. Ended'
  BY <1>1, <1>2 DEF Ended, BInv, BTypes, EarlierSucceed
<1> QED
  BY <1>4, <1>5, <1>6, <1>7, <1>8

\* The builder takes over all there is, or says that it did not.
LEMMA OnCloseSafe ==
  ASSUME BInv, SInv, OnClose
  PROVE  SInv'
<1> USE DEF SInv
<1>1. CloseTakes
  BY OnCloseTakes
<1>2. /\ phase = "close" /\ pos = Bldr
      /\ UNCHANGED <<model, phase, pSd, desc, cur, elem, nRet, bslot, lDsMap, lPairs, bst>>
      /\ hRet' = IF Untracked = {} THEN 0 ELSE 1
      /\ pos' = IF hRet' = 0 THEN pos + 1 ELSE NProc + 1
  BY <1>1 DEF CloseTakes, CloseReturns, Called
<1>3. /\ \A o \in Obj : /\ obj'[o].st = obj[o].st /\ obj'[o].kind = obj[o].kind
                        /\ obj'[o].src = obj[o].src
      /\ \A o \in Obj : obj'[o].parent = IF o \in Taken THEN "bldr" ELSE obj[o].parent
  BY <1>1, TakenIs DEF BInv, RInv
<1>4. /\ \A i \in Slot : desc[i] # NoObj => desc[i] \in Obj
      /\ \A i \in Slot : bslot[i] # NoObj => bslot[i] \in Obj
      /\ \A u \in DOMAIN lPairs : Paired(u) \in Obj /\ Paired(u)' = Paired(u)
  BY <1>2, AllObjects DEF Paired
<1>5. Places'
  <2>1. \A i \in Slot : desc[i] # NoObj => obj'[desc[i]].src = obj[desc[i]].src
    BY <1>3, <1>4
  <2>2. \A i \in Slot : bslot[i] # NoObj => obj'[bslot[i]].src = i
    BY <1>3, <1>4 DEF Places
  <2>3. \A u \in DOMAIN lPairs :
          obj'[Paired(u)].st # "unused" /\ \E w \in 1..u : Paired(w) = bslot[obj'[Paired(u)].src]
    BY <1>3, <1>4 DEF Places
  <2> QED
    BY <1>2, <1>4, <2>1, <2>2, <2>3 DEF Places, Paired
<1>6. Kinds'
  BY <1>2 DEF Kinds
<1>7. \A i \in Slot : ~Coming(i) /\ ~Coming(i)'
  BY <1>2 DEF Coming
<1>8. \A i \in Slot : desc[i] # NoObj => obj'[desc[i]].kind = obj[desc[i]].kind
  BY <1>3, <1>4
<1>9. Tracked'
  BY <1>2, <1>7, <1>8 DEF Tracked, EarlierSucceed
<1>10. Alive'
  <2>1. \A u \in DOMAIN lPairs :
          /\ Live(Paired(u))' /\ InTable(Paired(u))' = InTable(Paired(u))
          /\ obj'[Paired(u)].kind = obj[Paired(u)].kind
    BY <1>2, <1>3, <1>4 DEF Alive, Live, InTable, Paired
  <2>2. \A i \in Slot : bslot[i] # NoObj =>
          obj'[bslot[i]].parent = "bldr" \/ InTable(bslot[i])'
    BY <1>2, <1>3, <1>4 DEF Alive, InTable
  <2> QED
    BY <1>2, <1>4, <2>1, <2>2 DEF Alive, Paired
<1>11. Closing'
  <2> SUFFICES ASSUME Clean', NEW i \in Slot, desc[i] # NoObj, obj'[desc[i]].kind = "DATASET"
               PROVE  obj'[desc[i]].parent = "bldr"
    BY <1>2 DEF Closing
  <2>1. Untracked = {}
    <3>1. CASE hRet' = 0
      BY <1>2, <3>1
    <3>2. CASE EarlierSucceed
      BY <1>7, <3>2 DEF Untracked, Sets, Tracked
    <3> QED
      BY <3>1, <3>2 DEF Clean, EarlierSucceed
  <2>2. i \in Sets
    BY <1>8 DEF Sets
  <2>3. desc[i] \in Taken
    BY <2>1, <2>2 DEF Taken
  <2> QED
    BY <1>3, <1>4, <2>3
<1>12. Ended'
  <2>1. \A u \in DOMAIN lPairs : Live(Paired(u))
    BY <1>2 DEF Alive
  <2>2. stale => stale'
    BY <1>1 DEF CloseTakes
  <2>3. stale' => stale
    BY <1>1, <2>1 DEF CloseTakes
  <2> QED
    BY <1>1, <1>2, <2>3 DEF Ended, EarlierSucceed, CloseTakes, Called
<1> QED
  BY <1>5, <1>6, <1>9, <1>10, <1>11, <1>12
-----------------------------------------------------------------------------
\* The dataset the ID goes on with is not the ID's, but the ID has one.
LEMMA ReuseSafe ==
  ASSUME BInv, SInv, OnPktDescReuse
  PROVE  SInv'
<1> USE DEF SInv
<1>1. /\ phase = "announce" /\ phase' = "announce" /\ elem = "PACKET" /\ pos = Bldr /\ pos' = pos + 1
      /\ UNCHANGED <<model, pSd, desc, cur, elem, nRet, hRet, obj, bslot, lPairs, bst, stale>>
      /\ lDsMap[cur.id] # 0 /\ bst = "reading"
      /\ \E m : lDsMap' = [lDsMap EXCEPT ![cur.id] = m]
  BY DEF OnPktDescReuse, AnnounceHandler, AnnounceReturns, Called
<1>2. cur.id \in Slot /\ cur.o \in Obj /\ desc[cur.id] = cur.o /\ obj[cur.o].kind = "PACKET"
  BY <1>1, HeaderIs DEF Kinds
<1>3. \A i \in Slot : (Coming(i) <=> i = cur.id) /\ ~Coming(i)'
  BY <1>1, BldrAssumption, ReadAssumption DEF Coming, Proc
<1>4. Places'
  <2>1. \A i \in Slot : lDsMap'[i] # 0 => lDsMap[i] # 0
    BY <1>1, <1>2 DEF BInv, BTypes
  <2> QED
    BY <1>1, <2>1 DEF Places, Paired
<1>5. Kinds' /\ Alive' /\ Closing'
  BY <1>1 DEF Kinds, Alive, Closing, Live, InTable, Paired
<1>6. Tracked'
  BY <1>1, <1>2, <1>3 DEF Tracked, EarlierSucceed
<1>7. Ended'
  BY <1>1 DEF Ended, EarlierSucceed
<1> QED
  BY <1>4, <1>5, <1>6, <1>7

\* A dataset of the builder's own is in no table but its stream's.
LEMMA NewDatasetSafe ==
  ASSUME BInv, SInv, OnPktDescNew
  PROVE  SInv'
<1> USE DEF SInv
<1>1. /\ phase = "announce" /\ phase' = "announce" /\ elem = "PACKET" /\ pos = Bldr /\ pos' = pos + 1
      /\ UNCHANGED <<model, pSd, desc, cur, elem, nRet, hRet, bst, stale>> /\ bst = "reading"
  BY DEF OnPktDescNew, AnnounceReturns, Called
<1>2. /\ cur.id \in Slot /\ cur.o \in Obj /\ desc[cur.id] = cur.o /\ obj[cur.o].kind = "PACKET"
      /\ obj[cur.o].fmt.lay \in Lay /\ pSd = "open"
  BY <1>1, HeaderIs DEF Kinds
<1>3. PICK ds, d :
        /\ ds \in Obj /\ obj[ds].st = "unused" /\ obj' = [obj EXCEPT ![ds] = d]
        /\ d.st = "live" /\ d.src = cur.id /\ (bslot[cur.id] = NoObj => d.parent = "bldr")
        /\ bslot' = IF bslot[cur.id] = NoObj THEN [bslot EXCEPT ![cur.id] = ds] ELSE bslot
        /\ AddPair(obj[cur.o].fmt.lay, ds)
  <2>1. Fresh(obj) \in Obj /\ obj[Fresh(obj)].st = "unused"
    BY Zenon DEF OnPktDescNew, HasRoom, Fresh
  <2>2. PICK d : d = [st |-> "live", kind |-> "DATASET", fmt |-> obj[cur.o].fmt, src |-> cur.id,
                      rows |-> 0, parent |-> IF bslot[cur.id] = NoObj THEN "bldr" ELSE "none"]
    OBVIOUS
  <2>3. /\ obj' = [obj EXCEPT ![Fresh(obj)] = d]
        /\ bslot' = IF bslot[cur.id] = NoObj THEN [bslot EXCEPT ![cur.id] = Fresh(obj)] ELSE bslot
        /\ AddPair(obj[cur.o].fmt.lay, Fresh(obj))
    BY <2>2 DEF OnPktDescNew
  <2>4. d.st = "live" /\ d.src = cur.id /\ (bslot[cur.id] = NoObj => d.parent = "bldr")
    BY <2>2
  <2> QED
    BY <2>1, <2>3, <2>4
<1>4. obj'[ds] = d /\ \A e \in Obj : e # ds => obj'[e] = obj[e]
  BY <1>3 DEF BInv, RInv, Pointers
<1>5. PICK n \in Nat : n = Len(lPairs)
  BY DEF BInv, BTypes
<1>6. /\ DOMAIN lPairs = 1..n /\ DOMAIN lPairs' = 1..(n + 1)
      /\ \A u \in 1..n : Paired(u)' = Paired(u)
      /\ lPairs'[n + 1].ds = ds
      /\ lDsMap'[cur.id] = n + 1
      /\ \A i \in Slot : i # cur.id => lDsMap'[i] = lDsMap[i]
  <2>1. /\ Len(lPairs') = Len(lPairs) + 1
        /\ \A u \in DOMAIN lPairs : Paired(u)' = Paired(u)
        /\ lPairs'[Len(lPairs) + 1].ds = ds
        /\ lDsMap'[cur.id] = Len(lPairs) + 1
        /\ \A i \in Slot : i # cur.id => lDsMap'[i] = lDsMap[i]
        /\ lPairs' \in Seq([lay : Lay \cup {NoObj}, ds : Obj])
    BY <1>2, <1>3, AddPairGrows DEF BInv
  <2>2. DOMAIN lPairs = 1..Len(lPairs) /\ DOMAIN lPairs' = 1..Len(lPairs')
    BY <2>1 DEF BInv, BTypes
  <2> QED
    BY <1>5, <2>1, <2>2
<1>7. /\ \A i \in Slot : desc[i] # NoObj => desc[i] \in Obj /\ desc[i] # ds
      /\ \A u \in 1..n : Paired(u) \in Obj /\ Paired(u) # ds
  <2>1. \A i \in Slot : desc[i] # NoObj => desc[i] \in Obj /\ desc[i] # ds
    BY <1>2, <1>3 DEF BInv, RInv, Table, Live
  <2>2. \A u \in DOMAIN lPairs : Paired(u) \in Obj /\ Paired(u) # ds
    BY <1>3, AllObjects DEF Places
  <2> QED
    BY <1>6, <2>1, <2>2
<1>8. \A i \in Slot : bslot[i] # NoObj => \E w \in 1..n : Paired(w) = bslot[i]
  BY <1>6 DEF Places
<1>9. \A i \in Slot : bslot'[i] = IF i = cur.id /\ bslot[i] = NoObj THEN ds ELSE bslot[i]
  BY <1>2, <1>3 DEF BInv, BTypes
<1>10. ds # NoObj
  BY <1>3, ReadAssumption
<1>11. Places'
  <2>1. \A i \in Slot : desc'[i] # NoObj => obj'[desc'[i]].src = i
    BY <1>1, <1>2, <1>4, <1>7 DEF Places
  <2>2. \A i \in Slot : bslot'[i] # NoObj =>
          obj'[bslot'[i]].src = i /\ \E w \in 1..(n + 1) : lPairs'[w].ds = bslot'[i]
    <3> SUFFICES ASSUME NEW i \in Slot, bslot'[i] # NoObj
                 PROVE  obj'[bslot'[i]].src = i /\ \E w \in 1..(n + 1) : lPairs'[w].ds = bslot'[i]
      OBVIOUS
    <3>1. CASE i = cur.id /\ bslot[i] = NoObj
      <4>1. bslot'[i] = ds /\ n + 1 \in 1..(n + 1)
        BY <1>9, <3>1
      <4> QED
        BY <1>3, <1>4, <1>6, <3>1, <4>1
    <3>2. CASE ~(i = cur.id /\ bslot[i] = NoObj)
      <4>1. bslot'[i] = bslot[i]
        BY <1>9, <3>2
      <4>2. PICK w \in 1..n : Paired(w) = bslot[i]
        BY <1>8, <4>1
      <4>3. lPairs'[w].ds = bslot[i] /\ bslot[i] # ds /\ bslot[i] \in Obj /\ w \in 1..(n + 1)
        BY <1>6, <1>7, <4>2 DEF Paired
      <4> QED
        BY <1>4, <4>1, <4>3 DEF Places
    <3> QED
      BY <3>1, <3>2
  <2>3. \A u \in 1..(n + 1) :
          /\ obj'[lPairs'[u].ds].st # "unused"
          /\ \E w \in 1..u : lPairs'[w].ds = bslot'[obj'[lPairs'[u].ds].src]
    <3>1. ASSUME NEW u \in 1..n
          PROVE  /\ obj'[lPairs'[u].ds].st # "unused"
                 /\ \E w \in 1..u : lPairs'[w].ds = bslot'[obj'[lPairs'[u].ds].src]
      <4>1. PICK o \in Obj : o = Paired(u) /\ o # ds
        BY <1>7
      <4>2. lPairs'[u].ds = o /\ obj'[o] = obj[o] /\ obj[o].st # "unused"
        BY <1>4, <1>6, <4>1 DEF Places, Paired
      <4>3. PICK w \in 1..u : Paired(w) = bslot[obj[o].src]
        BY <1>6, <4>1 DEF Places
      <4>4. w \in 1..n
        OBVIOUS
      <4>5. Paired(w) # NoObj /\ lPairs'[w].ds = Paired(w) /\ obj[o].src \in Slot
        BY <1>6, <1>7, <4>4, ReadAssumption DEF Paired, BInv, RInv, Pointers, Desc
      <4>6. bslot'[obj[o].src] = bslot[obj[o].src]
        BY <1>9, <4>3, <4>5
      <4> QED
        BY <4>2, <4>3, <4>5, <4>6
    <3>2. /\ obj'[lPairs'[n + 1].ds].st # "unused"
          /\ \E w \in 1..(n + 1) : lPairs'[w].ds = bslot'[obj'[lPairs'[n + 1].ds].src]
      <4>1. obj'[lPairs'[n + 1].ds] = d /\ d.st # "unused" /\ d.src = cur.id
        BY <1>3, <1>4, <1>6
      <4>2. bslot'[cur.id] # NoObj
        BY <1>2, <1>9, <1>10
      <4> QED
        BY <1>2, <2>2, <4>1, <4>2
    <3>3. \A u \in 1..(n + 1) : u \in 1..n \/ u = n + 1
      OBVIOUS
    <3> QED
      BY <3>1, <3>2, <3>3
  <2>4. \A i \in Slot : lDsMap'[i] # 0 => bslot'[i] # NoObj
    BY <1>6, <1>9, <1>10 DEF Places
  <2> QED
    BY <1>1, <1>6, <2>1, <2>2, <2>3, <2>4 DEF Places, Paired
<1>12. Kinds' /\ Closing'
  <2>1. obj'[cur.o].kind = obj[cur.o].kind
    BY <1>2, <1>4, <1>7, <1>10
  <2> QED
    BY <1>1, <1>2, <2>1 DEF Kinds, Closing
<1>13. Tracked'
  <2>1. \A i \in Slot : (Coming(i) <=> i = cur.id) /\ ~Coming(i)'
    BY <1>1, BldrAssumption, ReadAssumption DEF Coming, Proc
  <2>2. \A i \in Slot : desc[i] # NoObj => obj'[desc[i]] = obj[desc[i]]
    BY <1>4, <1>7
  <2>3. desc[cur.id] # NoObj /\ obj[desc[cur.id]].kind = "PACKET"
    BY <1>2, ReadAssumption
  <2> QED
    BY <1>1, <1>9, <2>1, <2>2, <2>3 DEF Tracked, EarlierSucceed
<1>14. Alive'
  <2>1. ~InTable(ds)
    BY <1>7, <1>10 DEF InTable
  <2>2. \A u \in 1..n : /\ obj'[Paired(u)] = obj[Paired(u)] /\ Live(Paired(u))
                        /\ InTable(Paired(u)) =>
                             model \notin Reuse /\ obj[Paired(u)].kind = "DATASET"
    BY <1>1, <1>4, <1>6, <1>7 DEF Alive
  <2>3. \A u \in 1..(n + 1) :
          /\ lPairs'[u].ds \in Obj /\ obj'[lPairs'[u].ds].st = "live"
          /\ InTable(lPairs'[u].ds) => model \notin Reuse /\ obj'[lPairs'[u].ds].kind = "DATASET"
    <3>1. \A u \in 1..n : lPairs'[u].ds = Paired(u)
      BY <1>6 DEF Paired
    <3>2. \A u \in 1..(n + 1) : u \in 1..n \/ u = n + 1
      OBVIOUS
    <3> QED
      BY <1>3, <1>4, <1>6, <2>1, <2>2, <3>1, <3>2 DEF Live
  <2>4. \A i \in Slot : bslot'[i] # NoObj => obj'[bslot'[i]].parent = "bldr" \/ InTable(bslot'[i])
    <3>1. \A i \in Slot : bslot[i] # NoObj => bslot[i] \in Obj /\ bslot[i] # ds
      BY <1>7, <1>8
    <3> QED
      BY <1>1, <1>3, <1>4, <1>9, <3>1 DEF Alive
  <2> QED
    BY <1>1, <1>6, <2>3, <2>4 DEF Alive, Paired, InTable, Live
<1>15. Ended'
  BY <1>1 DEF Ended, EarlierSucceed
<1> QED
  BY <1>11, <1>12, <1>13, <1>14, <1>15

\* A das3 dataset belongs to the ID it is read for, and to no other before it.
LEMMA DataSetSafe ==
  ASSUME BInv, SInv, OnDataSet
  PROVE  SInv'
<1> USE DEF SInv
<1>1. /\ phase = "announce" /\ elem = "DATASET" /\ pos = Bldr /\ bst = "reading"
      /\ UNCHANGED <<model, pSd, desc, cur, elem, hRet, obj, bst, stale>>
  BY DEF OnDataSet, AnnounceHandler, AnnounceReturns, Called
<1>2. /\ cur.id \in Slot /\ cur.o \in Obj /\ desc[cur.id] = cur.o /\ obj[cur.o].kind = "DATASET"
      /\ desc[cur.id] # NoObj /\ obj[cur.o].st = "live" /\ obj[cur.o].src = cur.id
  <2>1. /\ cur.id \in Slot /\ cur.o \in Obj /\ desc[cur.id] = cur.o /\ obj[cur.o].st = "live"
        /\ pSd = "open"
    BY <1>1, HeaderIs DEF Live
  <2> QED
    BY <1>1, <2>1, ReadAssumption DEF Kinds, Places
<1>3. \A i \in Slot : Coming(i) <=> i = cur.id
  BY <1>1, BldrAssumption, ReadAssumption DEF Coming, Proc
<1>4. model \notin Reuse /\ bslot[cur.id] = NoObj /\ lDsMap[cur.id] = 0
  BY <1>2, <1>3 DEF Tracked, Places
<1>5. /\ phase' = "announce" /\ pos' = pos + 1 /\ AddPair(NoObj, cur.o)
      /\ bslot' = [bslot EXCEPT ![cur.id] = cur.o]
  BY <1>4 DEF OnDataSet, AnnounceHandler, AnnounceReturns
<1>6. PICK n \in Nat : n = Len(lPairs)
  BY DEF BInv, BTypes
<1>7. /\ DOMAIN lPairs = 1..n /\ DOMAIN lPairs' = 1..(n + 1)
      /\ \A u \in 1..n : lPairs'[u].ds = lPairs[u].ds
      /\ lPairs'[n + 1].ds = cur.o
      /\ \A i \in Slot : i # cur.id => lDsMap'[i] = lDsMap[i]
  <2>1. /\ Len(lPairs') = Len(lPairs) + 1
        /\ \A u \in DOMAIN lPairs : Paired(u)' = Paired(u)
        /\ lPairs'[Len(lPairs) + 1].ds = cur.o
        /\ \A i \in Slot : i # cur.id => lDsMap'[i] = lDsMap[i]
        /\ lPairs' \in Seq([lay : Lay \cup {NoObj}, ds : Obj])
    BY <1>2, <1>5, AddPairGrows DEF BInv
  <2>2. DOMAIN lPairs = 1..Len(lPairs) /\ DOMAIN lPairs' = 1..Len(lPairs')
    BY <2>1 DEF BInv, BTypes
  <2> QED
    BY <1>6, <2>1, <2>2 DEF Paired
<1>8. \A i \in Slot : bslot'[i] = IF i = cur.id THEN cur.o ELSE bslot[i]
  BY <1>2, <1>5 DEF BInv, BTypes
<1>9. \A i \in Slot : bslot[i] # NoObj => bslot'[i] = bslot[i]
  BY <1>4, <1>8
<1>10. n + 1 \in 1..(n + 1) /\ \A u \in 1..(n + 1) : u \in 1..n \/ u = n + 1
  OBVIOUS
<1>11. Places'
  <2>1. \A i \in Slot : bslot'[i] # NoObj =>
          obj[bslot'[i]].src = i /\ \E w \in 1..(n + 1) : lPairs'[w].ds = bslot'[i]
    <3> SUFFICES ASSUME NEW i \in Slot, bslot'[i] # NoObj
                 PROVE  obj[bslot'[i]].src = i /\ \E w \in 1..(n + 1) : lPairs'[w].ds = bslot'[i]
      OBVIOUS
    <3>1. CASE i = cur.id
      BY <1>2, <1>7, <1>8, <1>10, <3>1
    <3>2. CASE i # cur.id
      <4>1. bslot'[i] = bslot[i]
        BY <1>8, <3>2
      <4>2. PICK w \in 1..n : lPairs[w].ds = bslot[i]
        BY <1>7, <4>1 DEF Places, Paired
      <4> QED
        BY <1>7, <4>1, <4>2 DEF Places
    <3> QED
      BY <3>1, <3>2
  <2>2. \A u \in 1..(n + 1) :
          /\ obj[lPairs'[u].ds].st # "unused"
          /\ \E w \in 1..u : lPairs'[w].ds = bslot'[obj[lPairs'[u].ds].src]
    <3>1. ASSUME NEW u \in 1..n
          PROVE  /\ obj[lPairs'[u].ds].st # "unused"
                 /\ \E w \in 1..u : lPairs'[w].ds = bslot'[obj[lPairs'[u].ds].src]
      <4>1. PICK o \in Obj : o = lPairs[u].ds
        BY <1>7, AllObjects DEF Paired
      <4>2. obj[o].st # "unused" /\ \E w \in 1..u : lPairs[w].ds = bslot[obj[o].src]
        BY <1>7, <4>1 DEF Places, Paired
      <4>3. PICK w \in 1..u : lPairs[w].ds = bslot[obj[o].src]
        BY <4>2
      <4>4. w \in 1..n /\ obj[o].src \in Slot
        BY DEF BInv, RInv, Pointers, Desc
      <4>5. lPairs[w].ds # NoObj
        BY <1>7, <4>4, AllObjects, ReadAssumption DEF Paired
      <4> QED
        BY <1>7, <1>9, <4>1, <4>2, <4>3, <4>4, <4>5
    <3>2. /\ obj[lPairs'[n + 1].ds].st # "unused"
          /\ \E w \in 1..(n + 1) : lPairs'[w].ds = bslot'[obj[lPairs'[n + 1].ds].src]
      BY <1>2, <1>7, <1>8, <1>10
    <3> QED
      BY <1>10, <3>1, <3>2
  <2>3. \A i \in Slot : lDsMap'[i] # 0 => bslot'[i] # NoObj
    BY <1>2, <1>7, <1>8 DEF Places
  <2>4. pSd' = "open" => \A i \in Slot : desc'[i] # NoObj => obj'[desc'[i]].src = i
    BY <1>1 DEF Places
  <2>5. phase' # "redef"
    BY <1>5
  <2>6. \A i \in Slot : bslot'[i] # NoObj =>
          obj'[bslot'[i]].src = i /\ \E w \in DOMAIN lPairs' : Paired(w)' = bslot'[i]
    BY <1>1, <1>7, <2>1 DEF Paired
  <2>7. \A u \in DOMAIN lPairs' :
          /\ obj'[Paired(u)'].st # "unused"
          /\ \E w \in 1..u : Paired(w)' = bslot'[obj'[Paired(u)'].src]
    BY <1>1, <1>7, <2>2 DEF Paired
  <2> QED
    BY <2>3, <2>4, <2>5, <2>6, <2>7, Zenon DEF Places
<1>12. Kinds' /\ Closing'
  BY <1>1, <1>2, <1>5 DEF Kinds, Closing
<1>13. Tracked'
  <2>1. \A i \in Slot : ~Coming(i)'
    BY <1>1, <1>5, BldrAssumption, ReadAssumption DEF Coming, Proc
  <2> QED
    BY <1>1, <1>2, <1>3, <1>4, <1>5, <1>8, <2>1 DEF Tracked, EarlierSucceed
<1>14. Alive'
  <2>1. \A u \in 1..(n + 1) :
          /\ Live(lPairs'[u].ds)
          /\ InTable(lPairs'[u].ds) => model \notin Reuse /\ obj[lPairs'[u].ds].kind = "DATASET"
    <3>1. \A u \in 1..n : lPairs'[u].ds = Paired(u)
      BY <1>7 DEF Paired
    <3> QED
      BY <1>1, <1>2, <1>4, <1>7, <1>10, <3>1 DEF Live, Alive
  <2>2. \A i \in Slot : bslot'[i] # NoObj => obj[bslot'[i]].parent = "bldr" \/ InTable(bslot'[i])
    BY <1>1, <1>2, <1>8 DEF Alive, InTable
  <2> QED
    BY <1>1, <1>5, <1>7, <2>1, <2>2 DEF Alive, Paired, InTable, Live
<1>15. Ended'
  BY <1>1, <1>5 DEF Ended, EarlierSucceed
<1> QED
  BY <1>11, <1>12, <1>13, <1>14, <1>15

\* The stream is handed over only by a read that succeeded.
LEMMA HandedSafe ==
  ASSUME BInv, SInv, HandOver \/ ReadFailedLost
  PROVE  SInv'
<1> USE DEF SInv
<1>1. /\ UNCHANGED <<vars, bslot, lDsMap, lPairs, stale>> /\ phase = "end" /\ bst = "reading"
      /\ bst' = "handed" => Result = 0
  BY DEF HandOver, ReadFailedLost, Returned
<1>2. UNCHANGED <<model, phase, pos, pSd, desc, obj, cur, elem, nRet, hRet, bslot, lDsMap, lPairs, stale>>
  BY <1>1 DEF vars, readVars
<1>3. Places'
  BY <1>2 DEF Places, Paired
<1>4. Kinds' /\ Alive' /\ Closing'
  BY <1>1, <1>2 DEF Kinds, Alive, Closing
<1>5. Tracked'
  BY <1>2 DEF Tracked, Coming, EarlierSucceed
<1>6. Ended'
  BY <1>1, <1>2 DEF Ended, Clean, EarlierSucceed, Result, Live, Paired
<1> QED
  BY <1>3, <1>4, <1>5, <1>6

\* All that the stream holds is still there to be deleted.
LEMMA DeleteSafe ==
  ASSUME BInv, SInv, phase = "end", bst # "deleted", DeleteStream
  PROVE  SInv'
<1> USE DEF SInv
<1>1. PICK held, S :
        /\ held = {bslot[i] : i \in {j \in Slot : bslot[j] # NoObj}}
        /\ S = {o \in held : obj[o].parent = "bldr"}
        /\ obj' = Freed(obj, S) /\ stale' = (stale \/ \E o \in held : ~Live(o))
  BY DEF DeleteStream
<1>2. /\ UNCHANGED <<model, phase, pos, pSd, desc, cur, elem, nRet, hRet, bslot, lDsMap, lPairs>>
      /\ bst' = "deleted" /\ pSd # "open"
  BY DEF DeleteStream, readVars, BInv, RInv, Phases
<1>3. \A e \in Obj : SameMake(obj'[e], obj[e]) /\ (obj'[e] = obj[e] \/ obj'[e].st = "freed")
  BY <1>1, FreedIs DEF BInv, RInv, Pointers
<1>4. /\ \A i \in Slot : desc[i] # NoObj => desc[i] \in Obj
      /\ \A i \in Slot : bslot[i] # NoObj => bslot[i] \in Obj
      /\ \A u \in DOMAIN lPairs : Paired(u) \in Obj /\ Paired(u)' = Paired(u)
  BY <1>2, AllObjects DEF Paired
<1>5. Places'
  <2>1. \A i \in Slot : bslot[i] # NoObj => obj'[bslot[i]].src = i
    BY <1>3, <1>4 DEF Places, SameMake
  <2>2. \A u \in DOMAIN lPairs :
          obj'[Paired(u)].st # "unused" /\ \E w \in 1..u : Paired(w) = bslot[obj'[Paired(u)].src]
    BY <1>3, <1>4 DEF Places, SameMake
  <2> QED
    BY <1>2, <1>4, <2>1, <2>2 DEF Places, Paired
<1>6. Kinds' /\ Alive' /\ Closing'
  BY <1>2 DEF Kinds, Alive, Closing
<1>7. Tracked'
  <2>1. \A i \in Slot : ~Coming(i) /\ ~Coming(i)'
    BY <1>2 DEF Coming
  <2>2. \A i \in Slot : desc[i] # NoObj => obj'[desc[i]].kind = obj[desc[i]].kind
    BY <1>3, <1>4 DEF SameMake
  <2> QED
    BY <1>2, <2>1, <2>2 DEF Tracked, EarlierSucceed
<1>8. Ended'
  <2>1. EarlierSucceed => \A o \in held : Live(o)
    BY <1>1 DEF Ended, Clean, Places
  <2> QED
    BY <1>1, <1>2, <2>1 DEF Ended, EarlierSucceed
<1> QED
  BY <1>5, <1>6, <1>7, <1>8
-----------------------------------------------------------------------------
\* A header no processor refused yet is left as it is.
LEMMA RedefAsked ==
  ASSUME BInv, SInv, RedefHandler(0), Idle
  PROVE  Calm
<1> USE DEF SInv
<1>1. /\ phase = "redef" /\ phase' = "redef"
      /\ UNCHANGED <<model, pSd, desc, obj, cur, elem, nRet, hRet>>
  BY DEF RedefHandler, RedefReturns
<1>2. Gentle
  BY <1>1, RowsSet DEF Gentle, Idle, Datasets, Paired, BInv, RInv, Pointers
<1>3. \A i \in Slot : ~Coming(i) /\ ~Coming(i)'
  BY <1>1 DEF Coming
<1>4. Kinds'
  BY <1>1 DEF Kinds
<1>5. pSd' = "open" => pSd # "gone"
  BY <1>1
<1> QED
  BY <1>1, <1>2, <1>3, <1>4, <1>5, Zenon DEF Calm

\* A callback of that kind keeps the invariant of the datasets.
LEMMA IdleCallbackSafe ==
  ASSUME BInv, SInv, IdleCallback
  PROVE  SInv'
<1>1. Called /\ Idle
  BY IdleCallbackIs
<1>2. CASE SameButRows /\ (DeliverReturns(0) \/ (AnnounceReturns(0) /\ elem = "STREAM"))
  <2>1. DeliverReturns(0) => phase = "deliver"
    BY DEF DeliverReturns
  <2>2. Calm
    BY <1>1, <1>2, <2>1, CallbackCalm
  <2> QED
    BY <2>2, CalmInv
<1>3. CASE OobHandler(0)
  <2>1. QuietStep
    BY <1>3 DEF QuietStep, Returns
  <2> QED
    BY <1>1, <2>1, QuietCalm, CalmInv
<1>4. CASE RedefHandler(0)
  BY <1>1, <1>4, RedefAsked, CalmInv
<1>5. CASE /\ phase = "deliver" /\ phase' = "crashed"
           /\ UNCHANGED <<model, pos, first, pSd, desc, obj, cur, elem, nRet, hRet, bClearDs, npkt, seen>>
  <2>1. Gentle
    BY <1>1, <1>5, RowsSet DEF Gentle, Idle, Datasets, Paired, BInv, RInv, Pointers
  <2>2. \A i \in Slot : ~Coming(i) /\ ~Coming(i)'
    BY <1>5 DEF Coming
  <2>3. Kinds'
    BY <1>5 DEF Kinds
  <2>4. pSd' = "open" => pSd # "gone"
    BY <1>5
  <2>5. Calm
    BY <1>1, <1>5, <2>1, <2>2, <2>3, <2>4, Zenon DEF Calm
  <2> QED
    BY <2>5, CalmInv
<1> QED
  BY <1>2, <1>3, <1>4, <1>5, IdleCallbackIs

\* So do the steps the builder takes no part in.
LEMMA OthersSafe ==
  ASSUME DatasetsOnce, BInv, SInv, Idle, ReaderStep \/ (pos # Bldr /\ HandlerStep)
  PROVE  SInv'
<1>1. CASE QuietStep
  BY <1>1, QuietCalm, CalmInv
<1>2. CASE ReaderStep
  <2>1. CASE DeliverDone \/ \E p \in Input[model] : DataPacket(p)
    BY <2>1, RowsCalm, CalmInv
  <2>2. CASE InstallDesc
    BY <2>2, InstallDescSafe
  <2>3. CASE Finish
    BY <2>3, FinishSafe
  <2>4. ASSUME NEW p \in Input[model], PacketHeader(p)
        PROVE  SInv'
    BY <2>4, PacketHeaderSafe
  <2> QED
    BY <1>1, <1>2, <2>1, <2>2, <2>3, <2>4 DEF ReaderStep, QuietStep
<1>3. CASE pos # Bldr /\ HandlerStep
  <2>1. PICK ret \in Returns(pos) : \/ RedefHandler(ret) \/ OobHandler(ret)
                                    \/ AnnounceHandler(ret) \/ DeliverHandler(ret)
                                    \/ CloseHandler(ret)
    BY <1>3, Zenon DEF HandlerStep
  <2>2. CASE OobHandler(ret)
    BY <1>1, <2>2 DEF QuietStep
  <2>3. CASE RedefHandler(ret)
    BY <2>3, RedefAsked, CalmInv, RedefRefusedSafe
  <2>4. CASE CloseHandler(ret)
    BY <1>3, <2>4, CloseHandlerSafe
  <2>5. CASE AnnounceHandler(ret) \/ DeliverHandler(ret)
    <3>1. ret \in {0, 1} /\ SameButRows /\ (AnnounceReturns(ret) \/ DeliverReturns(ret))
      BY <2>5, ReturnsAre, RowsSet DEF AnnounceHandler, DeliverHandler, BInv, RInv, Pointers
    <3>2. EarlierSucceed /\ pos < Bldr => ret = 0
      <4>1. pos \in Proc
        BY <3>1 DEF AnnounceReturns, DeliverReturns
      <4> QED
        BY <4>1, BldrAssumption, ReadAssumption DEF EarlierSucceed, Returns, Proc
    <3>3. Calm
      BY <1>3, <3>1, <3>2, CallbackCalm
    <3> QED
      BY <3>3, CalmInv
  <2> QED
    BY <2>1, <2>2, <2>3, <2>4, <2>5
<1> QED
  BY <1>2, <1>3

\* Where no dataset is defined twice, the builder's stream and the table agree.
LEMMA StreamInvariance ==
  ASSUME DatasetsOnce
  PROVE  BSpec => []SInv
<1>1. BInv /\ SInv /\ [BNext]_allVars => SInv'
  <2>1. ASSUME BInv, SInv, ReaderStep \/ (pos # Bldr /\ HandlerStep), UNCHANGED bldrVars
        PROVE  SInv'
    BY <2>1, OthersSafe DEF bldrVars, Idle
  <2>2. ASSUME BInv, SInv, BldrStep
        PROVE  SInv'
    <3>1. CASE IdleCallback
      BY <2>2, <3>1, IdleCallbackSafe
    <3>2. CASE OnPktDescReuse \/ OnPktDescNew \/ OnDataSet \/ OnClose
      BY <2>2, <3>2, ReuseSafe, NewDatasetSafe, DataSetSafe, OnCloseSafe
    <3>3. CASE HandOver \/ ReadFailedLost
      BY <2>2, <3>3, HandedSafe
    <3>4. CASE CallerDeletes \/ ReadFailed
      <4>1. phase = "end" /\ bst # "deleted" /\ DeleteStream
        BY <2>2, <3>4 DEF CallerDeletes, ReadFailed, Returned, BInv, BTypes
      <4> QED
        BY <2>2, <4>1, DeleteSafe
    <3> QED
      BY <2>2, <3>1, <3>2, <3>3, <3>4 DEF BldrStep, IdleCallback
  <2>3. ASSUME BInv, SInv, UNCHANGED allVars
        PROVE  SInv'
    <3>1. UNCHANGED <<model, phase, pos, pSd, desc, obj, cur, elem, nRet, hRet,
                      bslot, lDsMap, lPairs, bst, stale>>
      BY <2>3 DEF allVars, bldrVars, vars, readVars
    <3>2. Places' /\ Kinds' /\ Tracked'
      BY <2>3, <3>1 DEF SInv, Places, Kinds, Tracked, Coming, Paired, EarlierSucceed
    <3>3. Alive' /\ Closing' /\ Ended'
      BY <2>3, <3>1
         DEF SInv, Alive, Closing, Ended, Clean, Live, InTable, Paired, Result, EarlierSucceed
    <3> QED
      BY <3>2, <3>3 DEF SInv
  <2> QED
    BY <2>1, <2>2, <2>3 DEF BNext
<1>2. BInit => SInv
  BY SInitInv
<1> QED
  BY <1>1, <1>2, BuilderInvariance, PTL DEF BSpec

(* Where no das3 dataset is defined twice and no processor before the        *)
(* builder fails, the datasets outlive the reader, and nothing freed is used.*)
THEOREM DatasetsOutliveReader ==
  ASSUME DatasetsOnce, EarlierSucceed
  PROVE  BSpec => []DatasetsSurvive
<1>1. SInv => DatasetsSurvive
  BY DEF SInv, Ended, Clean, DatasetsSurvive
<1>2. BSpec => []SInv
  BY StreamInvariance
<1> QED
  BY <1>1, <1>2, PTL

(* Where no das3 dataset is defined twice, the stream the caller gets owns   *)
(* the first dataset of every packet ID, whatever the processors return.     *)
THEOREM FirstIsOwned ==
  ASSUME DatasetsOnce
  PROVE  BSpec => []FirstOwned
<1>1. BInv /\ SInv => FirstOwned
  <2> SUFFICES ASSUME BInv, SInv, bst = "handed", NEW u \in DOMAIN lPairs
               PROVE  \/ /\ Live(Paired(u)) /\ obj[Paired(u)].parent = "bldr"
                         /\ bslot[obj[Paired(u)].src] = Paired(u)
                      \/ \E w \in 1..(u - 1) : obj[Paired(w)].src = obj[Paired(u)].src
    BY DEF FirstOwned
  <2>1. phase = "end" /\ hRet = 0
    BY DEF BInv, BTypes, SInv, Ended, Result
  <2>2. PICK o \in Obj : o = Paired(u)
    BY AllObjects
  <2>3. obj[o].src \in Slot /\ u \in Nat /\ u \in 1..Len(lPairs)
    BY DEF BInv, BTypes, RInv, Pointers, Desc
  <2>4. PICK w \in 1..u : Paired(w) = bslot[obj[o].src]
    BY <2>2 DEF SInv, Places
  <2>5. w \in DOMAIN lPairs /\ (w = u \/ w \in 1..(u - 1))
    BY <2>3 DEF BInv, BTypes
  <2>6. bslot[obj[o].src] # NoObj
    BY <2>4, <2>5, AllObjects, ReadAssumption
  <2>7. obj[bslot[obj[o].src]].src = obj[o].src
    BY <2>3, <2>6 DEF SInv, Places
  <2>8. /\ Live(Paired(u))
        /\ obj[bslot[obj[o].src]].parent = "bldr"
    BY <2>1, <2>3, <2>6 DEF SInv, Ended, Clean
  <2> QED
    BY <2>2, <2>4, <2>5, <2>7, <2>8
<1>2. BSpec => []SInv
  BY StreamInvariance
<1> QED
  BY <1>1, <1>2, BuilderInvariance, PTL
-----------------------------------------------------------------------------
(* Sums over finite sets. *)
\* f has the sum of w over each part of S, taken as MapThenSumSet takes it.
Picked(s) == CHOOSE x \in s : TRUE
SumsUp(f, w, S) ==
  f = [s \in SUBSET S |-> IF s = {} THEN 0 ELSE w[Picked(s)] + f[s \ {Picked(s)}]]
Total(w, S) == (CHOOSE f : SumsUp(f, w, S))[S]
Weights(w, S) == IsFiniteSet(S) /\ \A x \in S : w[x] \in Nat

\* A set without the element picked from it is smaller.
LEMMA PickedIs ==
  ASSUME NEW S, IsFiniteSet(S)
  PROVE  \E card \in [SUBSET S -> 0..Cardinality(S)] : \A s \in SUBSET S :
           /\ card[s] = 0 <=> s = {}
           /\ s # {} => Picked(s) \in s
           /\ \A x \in s : card[s \ {x}] = card[s] - 1
<1>1. PICK card : card = [s \in SUBSET S |-> Cardinality(s)]
  OBVIOUS
<1>2. \A s \in SUBSET S :
        IsFiniteSet(s) /\ Cardinality(s) \in Nat /\ Cardinality(s) <= Cardinality(S)
  BY FS_Subset, FS_CardinalityType
<1>3. card \in [SUBSET S -> 0..Cardinality(S)]
  BY <1>1, <1>2, FS_CardinalityType
<1>4. ASSUME NEW s \in SUBSET S
      PROVE  /\ card[s] = 0 <=> s = {}
             /\ s # {} => Picked(s) \in s
             /\ \A x \in s : card[s \ {x}] = card[s] - 1
  <2>1. card[s] = 0 <=> s = {}
    BY <1>1, <1>2, FS_EmptySet
  <2>2. s # {} => Picked(s) \in s
    BY Zenon DEF Picked
  <2>3. ASSUME NEW x \in s PROVE card[s \ {x}] = card[s] - 1
    <3>1. Cardinality(s \ {x}) = Cardinality(s) - 1
      BY <1>2, FS_RemoveElement
    <3> QED
      BY <1>1, <3>1
  <2> QED
    BY <2>1, <2>2, <2>3
<1> QED
  BY <1>3, <1>4

\* There is such a function.
LEMMA SumExists ==
  ASSUME NEW S, NEW w, Weights(w, S)
  PROVE  \E f : SumsUp(f, w, S)
<1>1. PICK card \in [SUBSET S -> 0..Cardinality(S)] : \A s \in SUBSET S :
        /\ card[s] = 0 <=> s = {}
        /\ s # {} => Picked(s) \in s
        /\ \A x \in s : card[s \ {x}] = card[s] - 1
  BY PickedIs DEF Weights
<1> DEFINE Upto(n) == {s \in SUBSET S : card[s] <= n}
           Adds(f, s) == f[s] = IF s = {} THEN 0 ELSE w[Picked(s)] + f[s \ {Picked(s)}]
           Good == {n \in 0..Cardinality(S) :
                      \E f : f = [s \in Upto(n) |-> f[s]] /\ \A s \in Upto(n) : Adds(f, s)}
<1>2. Cardinality(S) \in Nat
  BY FS_CardinalityType DEF Weights
<1>3. 0 \in Good
  <2>1. PICK f : f = [s \in Upto(0) |-> 0]
    OBVIOUS
  <2>2. \A s \in Upto(0) : s = {}
    BY <1>1, <1>2
  <2>3. \A s \in Upto(0) : Adds(f, s)
    BY <2>1, <2>2
  <2>4. f = [s \in Upto(0) |-> f[s]] /\ 0 \in 0..Cardinality(S)
    BY <2>1, <1>2
  <2> QED
    BY <2>3, <2>4
<1>4. ASSUME NEW n \in 1..Cardinality(S), n - 1 \in Good
      PROVE  n \in Good
  <2>1. PICK f : f = [s \in Upto(n - 1) |-> f[s]] /\ \A s \in Upto(n - 1) : Adds(f, s)
    BY <1>4
  <2>2. PICK g : g = [s \in Upto(n) |-> IF s \in Upto(n - 1) THEN f[s]
                                         ELSE w[Picked(s)] + f[s \ {Picked(s)}]]
    OBVIOUS
  <2>3. ASSUME NEW s \in Upto(n) PROVE Adds(g, s)
    <3>1. CASE s = {}
      <4>1. s \in Upto(n - 1)
        BY <1>1, <1>2, <3>1
      <4>2. g[s] = f[s] /\ f[s] = 0
        BY <2>1, <2>2, <3>1, <4>1
      <4> QED
        BY <3>1, <4>2
    <3>2. CASE s # {}
      <4>1. PICK r : r = s \ {Picked(s)}
        OBVIOUS
      <4>2. r \in SUBSET S /\ card[r] = card[s] - 1 /\ card[s] <= n /\ card[s] \in Nat
        BY <1>1, <1>2, <3>2, <4>1
      <4>3. r \in Upto(n - 1) /\ r \in Upto(n)
        BY <1>2, <4>2
      <4>4. g[r] = f[r]
        BY <2>2, <4>3
      <4>5. g[s] = w[Picked(s)] + f[r]
        <5>1. CASE s \in Upto(n - 1)
          <6>1. f[s] = w[Picked(s)] + f[r]
            BY <2>1, <3>2, <4>1, <5>1
          <6> QED
            BY <2>2, <5>1, <6>1
        <5>2. CASE s \notin Upto(n - 1)
          BY <2>2, <4>1, <5>2
        <5> QED
          BY <5>1, <5>2
      <4> QED
        BY <3>2, <4>1, <4>4, <4>5
    <3> QED
      BY <3>1, <3>2
  <2>4. g = [s \in Upto(n) |-> g[s]]
    BY <2>2
  <2>5. \E h : h = [s \in Upto(n) |-> h[s]] /\ \A s \in Upto(n) : Adds(h, s)
    <3> HIDE DEF Upto, Adds
    <3> QED
      BY <2>3, <2>4, Zenon
  <2>6. n \in 0..Cardinality(S)
    BY <1>2
  <2> QED
    <3> HIDE DEF Upto, Adds
    <3> QED
      BY <2>5, <2>6, Zenon
<1>5. Cardinality(S) \in Good
  <2> HIDE DEF Good
  <2>1. 0..Cardinality(S) \subseteq Good
    BY <1>2, <1>3, <1>4, IntervalInduction
  <2> QED
    BY <1>2, <2>1
<1>6. Upto(Cardinality(S)) = SUBSET S
  BY <1>1, <1>2
<1>7. PICK f : f = [s \in SUBSET S |-> f[s]] /\ \A s \in SUBSET S : Adds(f, s)
  BY <1>5, <1>6
<1>8. SumsUp(f, w, S)
  BY <1>7, Zenon DEF SumsUp
<1> QED
  BY <1>8, Zenon

\* What it has for a set.
LEMMA SumAt ==
  ASSUME NEW S, NEW w, NEW f, SumsUp(f, w, S)
  PROVE  \A s \in SUBSET S :
           /\ s = {} => f[s] = 0
           /\ s # {} => f[s] = w[Picked(s)] + f[s \ {Picked(s)}]
<1> DEFINE body(s) == IF s = {} THEN 0 ELSE w[Picked(s)] + f[s \ {Picked(s)}]
<1>1. f = [s \in SUBSET S |-> body(s)]
  BY DEF SumsUp
<1> HIDE DEF body
<1>2. \A s \in SUBSET S : f[s] = body(s)
  BY <1>1
<1> QED
  BY <1>2 DEF body

\* Sums of numbers are numbers.
LEMMA SumType ==
  ASSUME NEW S, NEW w, Weights(w, S), NEW f, SumsUp(f, w, S)
  PROVE  \A s \in SUBSET S : f[s] \in Nat
<1>1. PICK card \in [SUBSET S -> 0..Cardinality(S)] : \A s \in SUBSET S :
        /\ card[s] = 0 <=> s = {}
        /\ s # {} => Picked(s) \in s
        /\ \A x \in s : card[s \ {x}] = card[s] - 1
  BY PickedIs DEF Weights
<1>2. Cardinality(S) \in Nat
  BY FS_CardinalityType DEF Weights
<1> DEFINE Good == {n \in 0..Cardinality(S) : \A s \in SUBSET S : card[s] = n => f[s] \in Nat}
<1>6. \A s \in SUBSET S :
        /\ s = {} => f[s] = 0
        /\ s # {} => f[s] = w[Picked(s)] + f[s \ {Picked(s)}]
  BY SumAt
<1>3. 0 \in Good
  <2>1. \A s \in SUBSET S : card[s] = 0 => f[s] = 0
    BY <1>1, <1>6
  <2> QED
    BY <1>2, <2>1
<1>4. ASSUME NEW n \in 1..Cardinality(S), n - 1 \in Good
      PROVE  n \in Good
  <2> SUFFICES ASSUME NEW s \in SUBSET S, card[s] = n PROVE f[s] \in Nat
    BY <1>2
  <2>1. PICK x : x = Picked(s)
    OBVIOUS
  <2>2. x \in s /\ f[s] = w[x] + f[s \ {x}] /\ s \ {x} \in SUBSET S
    <3>1. s # {} /\ n # 0
      BY <1>1
    <3>2. Picked(s) \in s
      BY <1>1, <3>1
    <3>3. f[s] = w[Picked(s)] + f[s \ {Picked(s)}]
      BY <1>6, <3>1
    <3> QED
      BY <2>1, <3>2, <3>3
  <2>3. f[s \ {x}] \in Nat
    BY <1>1, <1>4, <2>2
  <2> QED
    BY <2>2, <2>3 DEF Weights
<1>5. 0..Cardinality(S) \subseteq Good
  <2> HIDE DEF Good
  <2> QED
    BY <1>2, <1>3, <1>4, IntervalInduction
<1> QED
  BY <1>1, <1>5

\* It does not matter which element is taken out first.
LEMMA SumAny ==
  ASSUME NEW S, NEW w, Weights(w, S), NEW f, SumsUp(f, w, S)
  PROVE  \A s \in SUBSET S : \A x \in s : f[s] = w[x] + f[s \ {x}]
<1>1. PICK card \in [SUBSET S -> 0..Cardinality(S)] : \A s \in SUBSET S :
        /\ card[s] = 0 <=> s = {}
        /\ s # {} => Picked(s) \in s
        /\ \A x \in s : card[s \ {x}] = card[s] - 1
  BY PickedIs DEF Weights
<1>2. Cardinality(S) \in Nat
  BY FS_CardinalityType DEF Weights
<1> DEFINE Good == {n \in 0..Cardinality(S) : \A s \in SUBSET S :
                      card[s] = n => \A x \in s : f[s] = w[x] + f[s \ {x}]}
<1>3. 0 \in Good
  BY <1>1, <1>2
<1>4. ASSUME NEW n \in 1..Cardinality(S), n - 1 \in Good
      PROVE  n \in Good
  <2> SUFFICES ASSUME NEW s \in SUBSET S, card[s] = n, NEW x \in s
               PROVE  f[s] = w[x] + f[s \ {x}]
    BY <1>2
  <2>1. PICK c : c = Picked(s)
    OBVIOUS
  <2>2. c \in s /\ f[s] = w[c] + f[s \ {c}]
    BY <1>1, <2>1, SumAt
  <2>3. CASE c = x
    BY <2>2, <2>3
  <2>4. CASE c # x
    <3>1. PICK r, q, t : r = s \ {c} /\ q = s \ {x} /\ t = s \ {c, x}
      OBVIOUS
    <3>2. /\ r \in SUBSET S /\ q \in SUBSET S /\ t \in SUBSET S
          /\ x \in r /\ c \in q /\ r \ {x} = t /\ q \ {c} = t
      BY <2>2, <2>4, <3>1
    <3>3. card[r] = n - 1 /\ card[q] = n - 1
      BY <1>1, <2>2, <3>1
    <3>4. f[r] = w[x] + f[t] /\ f[q] = w[c] + f[t]
      BY <1>4, <3>2, <3>3
    <3>5. w[x] \in Nat /\ w[c] \in Nat /\ f[t] \in Nat
      BY <2>2, <3>2, SumType DEF Weights
    <3>6. f[s] = w[c] + f[r]
      BY <2>2, <3>1
    <3>7. f[s] = w[x] + f[q]
      BY <3>4, <3>5, <3>6
    <3> QED
      BY <3>1, <3>7
  <2> QED
    BY <2>3, <2>4
<1>5. 0..Cardinality(S) \subseteq Good
  <2> HIDE DEF Good
  <2> QED
    BY <1>2, <1>3, <1>4, IntervalInduction
<1> QED
  BY <1>1, <1>5

\* Of smaller weights the sum is not larger, wherever it is taken.
LEMMA SumMonotone ==
  ASSUME NEW S, NEW v, Weights(v, S), NEW f, SumsUp(f, v, S),
         NEW R, NEW w, Weights(w, R), NEW g, SumsUp(g, w, R)
  PROVE  \A s \in (SUBSET S) \cap SUBSET R : (\A x \in s : v[x] <= w[x]) => f[s] <= g[s]
<1>1. PICK card \in [SUBSET S -> 0..Cardinality(S)] : \A s \in SUBSET S :
        /\ card[s] = 0 <=> s = {}
        /\ s # {} => Picked(s) \in s
        /\ \A x \in s : card[s \ {x}] = card[s] - 1
  BY PickedIs DEF Weights
<1>2. Cardinality(S) \in Nat
  BY FS_CardinalityType DEF Weights
<1> DEFINE Both == (SUBSET S) \cap SUBSET R
           Good == {n \in 0..Cardinality(S) : \A s \in Both :
                      card[s] = n /\ (\A x \in s : v[x] <= w[x]) => f[s] <= g[s]}
<1>3. 0 \in Good
  <2>1. \A s \in Both : s = {} => f[s] = 0 /\ g[s] = 0
    BY SumAt
  <2> QED
    BY <1>1, <1>2, <2>1
<1>4. ASSUME NEW n \in 1..Cardinality(S), n - 1 \in Good
      PROVE  n \in Good
  <2> SUFFICES ASSUME NEW s \in Both, card[s] = n, \A x \in s : v[x] <= w[x]
               PROVE  f[s] <= g[s]
    BY <1>2
  <2>1. PICK c, r : c = Picked(s) /\ r = s \ {c}
    OBVIOUS
  <2>2. c \in s /\ r \in Both /\ card[r] = n - 1
    BY <1>1, <2>1
  <2>3. f[s] = v[c] + f[r] /\ g[s] = w[c] + g[r]
    <3>1. s \in SUBSET S /\ s \in SUBSET R /\ s # {}
      BY <2>2
    <3> QED
      BY <2>1, <3>1, SumAt
  <2>4. f[r] <= g[r]
    BY <1>4, <2>1, <2>2
  <2>5. /\ v[c] \in Nat /\ w[c] \in Nat /\ v[c] <= w[c]
        /\ f[r] \in Nat /\ g[r] \in Nat
    BY <2>2, SumType DEF Weights
  <2> QED
    BY <2>3, <2>4, <2>5
<1>5. 0..Cardinality(S) \subseteq Good
  <2> HIDE DEF Good
  <2> QED
    BY <1>2, <1>3, <1>4, IntervalInduction
<1> QED
  BY <1>1, <1>5
-----------------------------------------------------------------------------
\* What the sum is for any function that has it.
LEMMA TotalIs ==
  ASSUME NEW S, NEW w, Weights(w, S)
  PROVE  \E f : SumsUp(f, w, S) /\ Total(w, S) = f[S]
<1>1. \E f : SumsUp(f, w, S)
  BY SumExists
<1> QED
  BY <1>1, Zenon DEF Total

\* All such functions have the same sum.
LEMMA TotalFrom ==
  ASSUME NEW S, NEW w, Weights(w, S), NEW h, SumsUp(h, w, S)
  PROVE  Total(w, S) = h[S]
<1>1. PICK f : SumsUp(f, w, S) /\ Total(w, S) = f[S]
  BY TotalIs
<1>2. \A s \in (SUBSET S) \cap SUBSET S : (\A x \in s : w[x] <= w[x]) => f[s] <= h[s]
  BY <1>1, SumMonotone
<1>3. \A s \in (SUBSET S) \cap SUBSET S : (\A x \in s : w[x] <= w[x]) => h[s] <= f[s]
  BY <1>1, SumMonotone
<1>4. S \in (SUBSET S) \cap SUBSET S /\ \A x \in S : w[x] <= w[x]
  BY DEF Weights
<1>5. f[S] <= h[S] /\ h[S] <= f[S]
  BY <1>2, <1>3, <1>4
<1>6. SumsUp(f, w, S) /\ S \in SUBSET S
  BY <1>1
<1>7. f[S] \in Nat /\ h[S] \in Nat
  BY <1>6, SumType
<1> QED
  BY <1>1, <1>5, <1>7

\* A sum of numbers is a number.
LEMMA TotalType ==
  ASSUME NEW S, NEW w, Weights(w, S)
  PROVE  Total(w, S) \in Nat
<1>1. PICK f : SumsUp(f, w, S) /\ Total(w, S) = f[S]
  BY TotalIs
<1>2. \A s \in SUBSET S : f[s] \in Nat
  BY <1>1, SumType
<1> QED
  BY <1>1, <1>2

\* The sum over nothing is nothing.
LEMMA TotalEmpty ==
  ASSUME NEW S, NEW w
  PROVE  S = {} => Total(w, S) = 0
<1> SUFFICES ASSUME S = {} PROVE Total(w, S) = 0
  OBVIOUS
<1>1. Weights(w, S)
  BY FS_EmptySet DEF Weights
<1>2. PICK f : SumsUp(f, w, S) /\ Total(w, S) = f[S]
  BY <1>1, TotalIs
<1>3. SumsUp(f, w, S) /\ S \in SUBSET S
  BY <1>2
<1>4. f[S] = 0
  BY <1>3, SumAt
<1> QED
  BY <1>2, <1>4

\* Of smaller weights the sum is not larger.
LEMMA TotalMonotone ==
  ASSUME NEW S, NEW v, NEW w, Weights(v, S), Weights(w, S), \A x \in S : v[x] <= w[x]
  PROVE  Total(v, S) <= Total(w, S)
<1>1. PICK f : SumsUp(f, v, S) /\ Total(v, S) = f[S]
  BY TotalIs
<1>2. PICK g : SumsUp(g, w, S) /\ Total(w, S) = g[S]
  BY TotalIs
<1>3. \A s \in (SUBSET S) \cap SUBSET S : (\A x \in s : v[x] <= w[x]) => f[s] <= g[s]
  BY <1>1, <1>2, SumMonotone
<1> QED
  BY <1>1, <1>2, <1>3

\* The sum depends on the weights of the set alone.
LEMMA TotalSame ==
  ASSUME NEW S, NEW v, NEW w, Weights(v, S), \A x \in S : v[x] = w[x]
  PROVE  Total(v, S) = Total(w, S) /\ Weights(w, S)
<1>1. Weights(w, S)
  BY DEF Weights
<1>2. \A x \in S : v[x] <= w[x] /\ w[x] <= v[x]
  BY DEF Weights
<1>3. Total(v, S) <= Total(w, S) /\ Total(w, S) <= Total(v, S)
  BY <1>1, <1>2, TotalMonotone
<1> QED
  BY <1>1, <1>3, TotalType

\* The sum of nothings is nothing.
LEMMA TotalNothing ==
  ASSUME NEW S, NEW w, Weights(w, S), \A x \in S : w[x] = 0
  PROVE  Total(w, S) = 0
<1>1. PICK f : SumsUp(f, w, S) /\ Total(w, S) = f[S]
  BY TotalIs
<1>2. PICK card \in [SUBSET S -> 0..Cardinality(S)] : \A s \in SUBSET S :
        /\ card[s] = 0 <=> s = {}
        /\ s # {} => Picked(s) \in s
        /\ \A x \in s : card[s \ {x}] = card[s] - 1
  BY PickedIs DEF Weights
<1>3. Cardinality(S) \in Nat
  BY FS_CardinalityType DEF Weights
<1> DEFINE Good == {n \in 0..Cardinality(S) : \A s \in SUBSET S : card[s] = n => f[s] = 0}
<1>4. \A s \in SUBSET S :
        /\ s = {} => f[s] = 0
        /\ s # {} => f[s] = w[Picked(s)] + f[s \ {Picked(s)}]
  BY <1>1, SumAt
<1>5. 0 \in Good
  <2>1. \A s \in SUBSET S : card[s] = 0 => f[s] = 0
    BY <1>2, <1>4
  <2> QED
    BY <1>3, <2>1
<1>6. ASSUME NEW n \in 1..Cardinality(S), n - 1 \in Good
      PROVE  n \in Good
  <2> SUFFICES ASSUME NEW s \in SUBSET S, card[s] = n PROVE f[s] = 0
    BY <1>3
  <2>1. PICK x : x = Picked(s)
    OBVIOUS
  <2>2. x \in s /\ f[s] = w[x] + f[s \ {x}] /\ s \ {x} \in SUBSET S
    <3>1. s # {} /\ n # 0
      BY <1>2
    <3>2. Picked(s) \in s
      BY <1>2, <3>1
    <3>3. f[s] = w[Picked(s)] + f[s \ {Picked(s)}]
      BY <1>4, <3>1
    <3> QED
      BY <2>1, <3>2, <3>3
  <2>3. f[s \ {x}] = 0
    BY <1>2, <1>6, <2>2
  <2> QED
    BY <2>2, <2>3
<1>7. 0..Cardinality(S) \subseteq Good
  <2> HIDE DEF Good
  <2> QED
    BY <1>3, <1>5, <1>6, IntervalInduction
<1>8. card[S] \in 0..Cardinality(S) /\ S \in SUBSET S
  BY <1>2
<1>9. f[S] = 0
  BY <1>7, <1>8
<1> QED
  BY <1>1, <1>9

\* One element is counted with its weight, wherever it is in the set.
LEMMA TotalElement ==
  ASSUME NEW S, NEW w, Weights(w, S), NEW x \in S
  PROVE  /\ Total(w, S) = w[x] + Total(w, S \ {x})
         /\ Weights(w, S \ {x})
<1>1. PICK R : R = S \ {x}
  OBVIOUS
<1>2. Weights(w, R) /\ R \in SUBSET S
  BY <1>1, FS_Subset DEF Weights
<1>3. PICK f : SumsUp(f, w, S) /\ Total(w, S) = f[S]
  BY TotalIs
<1>4. PICK g : SumsUp(g, w, R) /\ Total(w, R) = g[R]
  BY <1>2, TotalIs
<1>5. f[S] = w[x] + f[R]
  <2>1. SumsUp(f, w, S) /\ S \in SUBSET S
    BY <1>3
  <2> QED
    BY <1>1, <2>1, SumAny
<1>6. f[R] = g[R]
  <2>1. \A s \in (SUBSET S) \cap SUBSET R : (\A y \in s : w[y] <= w[y]) => f[s] <= g[s]
    BY <1>2, <1>3, <1>4, SumMonotone
  <2>2. \A s \in (SUBSET R) \cap SUBSET S : (\A y \in s : w[y] <= w[y]) => g[s] <= f[s]
    BY <1>2, <1>3, <1>4, SumMonotone
  <2>3. R \in (SUBSET S) \cap SUBSET R /\ \A y \in R : w[y] <= w[y]
    BY <1>2 DEF Weights
  <2>4. f[R] <= g[R] /\ g[R] <= f[R]
    BY <2>1, <2>2, <2>3
  <2>5. f[R] \in Nat /\ g[R] \in Nat
    BY <1>2, <1>3, <1>4, SumType
  <2> QED
    BY <2>4, <2>5
<1> QED
  BY <1>1, <1>2, <1>3, <1>4, <1>5, <1>6

\* Where one weight grows by one so does the sum.
LEMMA TotalPlusOne ==
  ASSUME NEW S, NEW v, NEW w, Weights(v, S), NEW x \in S, w[x] = v[x] + 1,
         \A y \in S : y # x => w[y] = v[y]
  PROVE  Total(w, S) = Total(v, S) + 1 /\ Weights(w, S)
<1>1. PICK R : R = S \ {x}
  OBVIOUS
<1>2. Weights(w, S)
  BY DEF Weights
<1>3. /\ Total(w, S) = w[x] + Total(w, R) /\ Total(v, S) = v[x] + Total(v, R)
      /\ Weights(v, R)
  BY <1>1, <1>2, TotalElement
<1>4. Total(v, R) = Total(w, R)
  BY <1>1, <1>3, TotalSame
<1>5. Total(v, R) \in Nat /\ v[x] \in Nat
  BY <1>3, TotalType DEF Weights
<1> QED
  BY <1>2, <1>3, <1>4, <1>5

\* An element that weighs nothing changes nothing.
LEMMA TotalPlusNothing ==
  ASSUME NEW S, NEW w, Weights(w, S), NEW x, w[x] = 0
  PROVE  Total(w, S \cup {x}) = Total(w, S) /\ Weights(w, S \cup {x})
<1>1. CASE x \in S
  <2>1. S \cup {x} = S
    BY <1>1
  <2> QED
    BY <2>1
<1>2. CASE x \notin S
  <2>1. PICK T : T = S \cup {x}
    OBVIOUS
  <2>2. Weights(w, T)
    BY <2>1, FS_AddElement DEF Weights
  <2>3. x \in T /\ T \ {x} = S
    BY <1>2, <2>1
  <2>4. Total(w, T) = w[x] + Total(w, S)
    BY <2>2, <2>3, TotalElement
  <2>5. Total(w, S) \in Nat
    BY TotalType
  <2> QED
    BY <2>1, <2>2, <2>4, <2>5
<1> QED
  BY <1>1, <1>2
-----------------------------------------------------------------------------
(* Where the rows go, and how many they are. *)
\* What the rows of an ID go to, once the builder has seen its header: a pair of the
\* layout of the packet, or the dataset itself.
Served(i) ==
  IF obj[desc[i]].kind = "PACKET"
  THEN lDsMap[i] # 0 /\ lPairs[lDsMap[i]].lay = obj[desc[i]].fmt.lay
  ELSE desc[i] \in Datasets
Closed == {"close", "end", "crashed"}
Serving ==
  phase \notin Closed => \A i \in Slot : desc[i] # NoObj /\ ~Coming(i) => Served(i)

\* The pairs have datasets of their layout, the table descriptors of their ID, and a
\* new header brings no rows.
PairsFit ==
  \A u \in DOMAIN lPairs :
    /\ obj[Paired(u)].st # "unused" /\ obj[Paired(u)].kind = "DATASET"
    /\ lPairs[u].lay # NoObj => lPairs[u].lay = obj[Paired(u)].fmt.lay
SlotsFit == pSd = "open" => \A i \in Slot : desc[i] # NoObj => obj[desc[i]].src = i
HeaderFits ==
  /\ phase = "redef" => obj[cur.o].src = cur.id
  /\ phase = "redef" \/ (phase = "announce" /\ elem # "STREAM") => obj[cur.o].rows = 0

Fits == PairsFit /\ SlotsFit /\ HeaderFits /\ Kinds /\ Serving

\* A step that leaves what is fitted.
Steady ==
  \A e \in Obj : obj[e].st # "unused" =>
    /\ obj'[e].st # "unused"
    /\ obj'[e].kind = obj[e].kind /\ obj'[e].fmt = obj[e].fmt /\ obj'[e].src = obj[e].src
Settled ==
  /\ Steady
  /\ UNCHANGED <<desc, lDsMap, lPairs>>
  /\ pSd' = "open" => pSd # "gone"
  /\ phase' = "redef" \/ (phase' = "announce" /\ elem' # "STREAM") =>
       UNCHANGED <<phase, elem, cur>> /\ obj'[cur.o].rows = obj[cur.o].rows
  /\ phase' \notin Closed => phase \notin Closed /\ \A i \in Slot : Coming(i) => Coming(i)'
  /\ Kinds'

\* What is allocated, of what the table and the pairs point to.
LEMMA AllUsed ==
  ASSUME BInv, Fits
  PROVE  /\ \A u \in DOMAIN lPairs : Paired(u) \in Obj /\ obj[Paired(u)].st # "unused"
         /\ pSd # "gone" => \A i \in Slot :
              desc[i] # NoObj => desc[i] \in Obj /\ obj[desc[i]].st # "unused"
         /\ phase \notin Closed => pSd # "gone"
<1>1. \A i \in Slot : desc[i] # NoObj => desc[i] \in Obj
  BY AllObjects
<1>2. pSd # "gone" => \A i \in Slot : desc[i] # NoObj => obj[desc[i]].st # "unused"
  BY DEF BInv, RInv, Table, Scalars, Live
<1>3. phase \notin Closed => pSd # "gone"
  BY DEF BInv, RInv, Phases, Closed
<1> QED
  BY <1>1, <1>2, <1>3, AllObjects DEF Fits, PairsFit

\* Such a step keeps it.
LEMMA SettledFits ==
  ASSUME BInv, Fits, Settled
  PROVE  Fits'
<1>1. UNCHANGED <<desc, lDsMap, lPairs>> /\ Kinds'
  BY DEF Settled
<1>2. /\ \A u \in DOMAIN lPairs :
           Paired(u) \in Obj /\ obj[Paired(u)].st # "unused" /\ Paired(u)' = Paired(u)
      /\ pSd # "gone" => \A i \in Slot :
           desc[i] # NoObj => desc[i] \in Obj /\ obj[desc[i]].st # "unused"
      /\ phase \notin Closed => pSd # "gone"
  BY <1>1, AllUsed DEF Paired
<1>3. PairsFit'
  BY <1>1, <1>2 DEF Fits, PairsFit, Settled, Steady, Paired
<1>4. SlotsFit'
  <2> SUFFICES ASSUME pSd' = "open", NEW i \in Slot, desc[i] # NoObj
               PROVE  obj'[desc[i]].src = i
    BY <1>1 DEF SlotsFit
  <2>1. pSd = "open"
    BY <1>1 DEF Settled, BInv, RInv, Table, Scalars
  <2> QED
    BY <1>2, <2>1 DEF Settled, Steady, Fits, SlotsFit
<1>5. HeaderFits'
  <2>1. phase' = "redef" => cur.o \in Obj /\ obj[cur.o].st # "unused"
    BY DEF Settled, BInv, RInv, Phases, Live
  <2> QED
    BY <2>1 DEF Settled, Steady, Fits, HeaderFits
<1>6. Serving'
  <2> SUFFICES ASSUME phase' \notin Closed, NEW i \in Slot, desc[i] # NoObj, ~Coming(i)'
               PROVE  Served(i)'
    BY <1>1 DEF Serving
  <2>1. Served(i) /\ obj'[desc[i]].kind = obj[desc[i]].kind /\ obj'[desc[i]].fmt = obj[desc[i]].fmt
    BY <1>2 DEF Settled, Steady, Fits, Serving
  <2>2. Datasets' = Datasets
    BY <1>1 DEF Datasets, Paired
  <2> QED
    BY <1>1, <2>1, <2>2 DEF Served
<1> QED
  BY <1>1, <1>3, <1>4, <1>5, <1>6 DEF Fits

\* A gentle step is steady.
LEMMA GentleSteady == SameButRows => Steady
BY DEF SameButRows, SameMake, Steady

\* Where the reader's quiet steps come from, and where they do not go.
LEMMA QuietPhase ==
  ASSUME BInv, QuietStep
  PROVE  /\ phase \in {"tag", "announce", "oob"} /\ phase' \notin {"redef", "deliver"}
         /\ phase = "announce" => pos = NProc + 1
         /\ phase' = "announce" => elem' = "STREAM"
         /\ pSd' = "open" => pSd # "gone"
         /\ UNCHANGED <<obj, cur, desc>>
<1> USE DEF BInv
<1>1. UNCHANGED <<obj, cur, desc>>
  BY DEF QuietStep, EndOfInput, AnnounceDone, OobDone, Reject, RefuseHeader, StreamHeader,
         OobPacket, Crash, OobHandler
<1>2. CASE EndOfInput \/ AnnounceDone \/ OobDone
  BY <1>1, <1>2 DEF EndOfInput, AnnounceDone, OobDone, RInv, Phases
<1>3. ASSUME NEW p \in Input[model],
             Reject(p) \/ RefuseHeader(p) \/ StreamHeader(p) \/ OobPacket(p) \/ Crash(p)
      PROVE  /\ phase = "tag" /\ phase' \notin {"redef", "deliver"}
             /\ phase' = "announce" => elem' = "STREAM"
             /\ pSd' = "open" => pSd # "gone"
  BY <1>3 DEF Reject, RefuseHeader, StreamHeader, OobPacket, Crash, Takes, RInv, Phases
<1>4. ASSUME NEW ret \in Returns(pos), OobHandler(ret)
      PROVE  /\ phase = "oob" /\ phase' \notin {"redef", "deliver", "announce"}
             /\ pSd' = "open" => pSd # "gone"
  BY <1>4 DEF OobHandler, RInv, Phases
<1> QED
  BY <1>1, <1>2, <1>3, <1>4 DEF QuietStep

\* So are the reader's quiet steps.
LEMMA QuietSettled ==
  ASSUME BInv, QuietStep, Idle
  PROVE  Settled
<1>1. /\ phase \in {"tag", "announce", "oob"} /\ phase' \notin {"redef", "deliver"}
      /\ phase = "announce" => pos = NProc + 1
      /\ phase' = "announce" => elem' = "STREAM"
      /\ pSd' = "open" => pSd # "gone"
      /\ UNCHANGED <<obj, cur, desc>>
  BY QuietPhase
<1>2. \A i \in Slot : ~Coming(i)
  BY <1>1, BldrAssumption, ReadAssumption DEF Coming, Proc
<1>3. Kinds'
  BY <1>1 DEF Kinds
<1> QED
  BY <1>1, <1>2, <1>3 DEF Settled, Steady, Idle, Closed

\* So are rows.
LEMMA RowsSettled ==
  ASSUME BInv, Idle, DeliverDone \/ \E p \in Input[model] : DataPacket(p)
  PROVE  Settled
<1> USE DEF BInv
<1>1. Gentle
  BY RowsGentle
<1>2. /\ phase \in {"tag", "deliver"} /\ phase' \notin {"end", "redef", "announce"}
      /\ pSd' = pSd
      /\ phase' = "deliver" => elem' = obj[cur'.o].kind /\ cur'.o \in Obj
  <2>1. CASE DeliverDone
    BY <2>1 DEF DeliverDone, RInv, Phases
  <2>2. ASSUME NEW p \in Input[model], DataPacket(p)
        PROVE  /\ phase = "tag" /\ phase' \notin {"end", "redef", "announce"}
               /\ pSd' = pSd
               /\ elem' = obj[cur'.o].kind /\ cur'.o \in Obj
    BY <2>2, AllObjects DEF DataPacket, Takes
  <2> QED
    BY <2>1, <2>2
<1>3. Kinds'
  <2> SUFFICES ASSUME phase' = "deliver"
               PROVE  elem' = obj'[cur'.o].kind /\ elem' \in {"PACKET", "DATASET"}
    BY <1>2 DEF Kinds
  <2>1. elem' = obj[cur'.o].kind /\ cur'.o \in Obj
    BY <1>2
  <2>2. obj'[cur'.o].kind = obj[cur'.o].kind
    BY <1>1, <2>1 DEF Gentle, SameButRows, SameMake
  <2>3. obj[cur'.o].kind \in {"PACKET", "DATASET"}
    BY <2>1 DEF RInv, Pointers, Desc
  <2> QED
    BY <2>1, <2>2, <2>3
<1>4. Steady
  BY <1>1, GentleSteady DEF Gentle
<1>5. \A i \in Slot : ~Coming(i)
  BY <1>2 DEF Coming
<1> QED
  BY <1>1, <1>2, <1>3, <1>4, <1>5 DEF Settled, Idle, Gentle, Closed

\* So are callbacks, those of the builder for a header of its own aside.
LEMMA CallbackSettled ==
  ASSUME BInv, Kinds, Idle, SameButRows, NEW ret \in {0, 1},
         (AnnounceReturns(ret) /\ UNCHANGED obj) \/ DeliverReturns(ret),
         pos # Bldr \/ elem = "STREAM" \/ phase = "deliver"
  PROVE  Settled
<1> USE DEF BInv
<1>1. /\ UNCHANGED <<desc, cur, elem, pSd>> /\ phase \in {"announce", "deliver"}
      /\ phase' \in {phase, "close"}
      /\ phase = "announce" => \/ ret = 0 /\ pos' = pos + 1 /\ phase' = phase
                               \/ ret = 1 /\ phase' = "close"
      /\ phase = "announce" => UNCHANGED obj
      /\ pos \in Proc
  BY DEF AnnounceReturns, DeliverReturns
<1>2. phase' \notin Closed => \A i \in Slot : Coming(i) => Coming(i)'
  BY <1>1, BldrAssumption, ReadAssumption DEF Coming, Proc, Closed
<1>3. Kinds'
  <2>1. elem # "STREAM" => cur.o \in Obj
    BY <1>1 DEF RInv, Phases
  <2> QED
    BY <1>1, <2>1 DEF Kinds, SameButRows, SameMake
<1>4. Steady
  BY GentleSteady
<1> QED
  BY <1>1, <1>2, <1>3, <1>4 DEF Settled, Idle, Closed, RInv, Phases

\* So is a pktRedefHandler: the header goes on to the next, or is freed.
LEMMA RedefSettled ==
  ASSUME BInv, Kinds, Idle, NEW ret, RedefHandler(ret)
  PROVE  Settled
<1> USE DEF BInv
<1>1. /\ phase = "redef" /\ UNCHANGED <<pSd, desc, cur, elem>> /\ cur.o \in Obj
      /\ obj[cur.o].st = "live"
  BY DEF RedefHandler, RedefReturns, RInv, Phases, Live
<1>2. \A i \in Slot : ~Coming(i)
  BY <1>1 DEF Coming
<1>3. CASE ret = 0
  <2>1. phase' = "redef" /\ UNCHANGED obj
    BY <1>1, <1>3 DEF RedefHandler, RedefReturns
  <2> QED
    BY <1>1, <1>2, <2>1 DEF Settled, Steady, Idle, Closed, Kinds
<1>4. CASE ret # 0
  <2>1. phase' = "close" /\ obj' = Freed(obj, {cur.o})
    BY <1>1, <1>4 DEF RedefHandler, RedefReturns
  <2>2. /\ \A e \in Obj : SameMake(obj'[e], obj[e])
        /\ obj'[cur.o].st = "freed" /\ \A e \in Obj : e # cur.o => obj'[e] = obj[e]
    BY <1>1, <2>1, FreedIs DEF RInv, Pointers
  <2>3. Steady
    BY <1>1, <2>2 DEF Steady, SameMake
  <2> QED
    BY <1>1, <2>1, <2>3 DEF Settled, Idle, Closed, Kinds
<1> QED
  BY <1>3, <1>4

\* After the loop over the packets only what is alive changes.
LEMMA ClosedSettled ==
  ASSUME BInv, Steady, phase' \in Closed, UNCHANGED <<desc, lDsMap, lPairs>>,
         pSd' = "open" => pSd # "gone"
  PROVE  Settled
BY DEF Settled, Closed, Kinds
-----------------------------------------------------------------------------
\* A new descriptor is one the builder has not seen.
LEMMA PacketHeaderFits ==
  ASSUME BInv, Fits, NEW p \in Input[model], PacketHeader(p), Idle
  PROVE  Fits' /\ \A e \in Obj : obj[e].st # "unused" => obj'[e] = obj[e]
<1>1. PICK o, d : /\ o \in Obj /\ obj[o].st = "unused" /\ obj' = [obj EXCEPT ![o] = d]
                  /\ d.kind = Decoded(p) /\ d.src = p.id /\ d.rows = 0
                  /\ cur'.o = o /\ cur'.id = p.id
  <2>1. Fresh(obj) \in Obj /\ obj[Fresh(obj)].st = "unused"
    BY Zenon DEF PacketHeader, HasRoom, Fresh
  <2>2. PICK d : d = [Unused EXCEPT !.st = "live", !.kind = Decoded(p), !.fmt = p.fmt, !.src = p.id,
                        !.parent = IF Decoded(p) = "PACKET" THEN "src" ELSE "none"]
    OBVIOUS
  <2>3. d.kind = Decoded(p) /\ d.src = p.id /\ d.rows = 0
    BY <2>2 DEF Unused
  <2>4. obj' = [obj EXCEPT ![Fresh(obj)] = d] /\ cur' = [id |-> p.id, o |-> Fresh(obj)]
    BY <2>2, Zenon DEF PacketHeader
  <2> QED
    BY <2>1, <2>3, <2>4
<1>2. /\ phase = "tag" /\ phase' = "redef" /\ pSd = "open" /\ pSd' = "open"
      /\ Decoded(p) \in {"PACKET", "DATASET"} /\ elem' = Decoded(p)
      /\ UNCHANGED desc
  BY DEF PacketHeader, Takes
<1>3. UNCHANGED <<lDsMap, lPairs>>
  BY DEF Idle
<1>4. obj'[o] = d /\ \A e \in Obj : e # o => obj'[e] = obj[e]
  BY <1>1 DEF BInv, RInv, Pointers
<1>5. \A i \in Slot : desc[i] # NoObj => desc[i] \in Obj /\ desc[i] # o
  BY <1>1, <1>2 DEF BInv, RInv, Table, Live
<1>6. \A u \in DOMAIN lPairs : Paired(u) \in Obj /\ Paired(u) # o /\ Paired(u)' = Paired(u)
  BY <1>1, <1>3, AllUsed DEF Paired
<1>7. PairsFit'
  BY <1>3, <1>4, <1>6 DEF Fits, PairsFit
<1>8. SlotsFit'
  BY <1>2, <1>4, <1>5 DEF Fits, SlotsFit
<1>9. HeaderFits' /\ Kinds'
  BY <1>1, <1>2, <1>4 DEF HeaderFits, Kinds
<1>10. Serving'
  <2> SUFFICES ASSUME NEW i \in Slot, desc[i] # NoObj
               PROVE  Served(i)'
    BY <1>2 DEF Serving
  <2>1. Served(i) /\ obj'[desc[i]] = obj[desc[i]]
    BY <1>2, <1>4, <1>5 DEF Fits, Serving, Closed, Coming
  <2>2. Datasets' = Datasets
    BY <1>3 DEF Datasets, Paired
  <2> QED
    BY <1>2, <1>3, <2>1, <2>2 DEF Served
<1> QED
  BY <1>1, <1>4, <1>7, <1>8, <1>9, <1>10 DEF Fits

\* What is freed keeps its rows.
LEMMA FreedRows ==
  ASSUME NEW h \in [Obj -> Desc], NEW S
  PROVE  \A o \in Obj : Freed(h, S)[o].rows = h[o].rows
<1>1. \A o \in Obj : [h[o] EXCEPT !.st = "freed"].rows = h[o].rows
  BY DEF Desc
<1> QED
  BY <1>1 DEF Freed

\* The builder is still to be called for the descriptor that is installed.
LEMMA InstallDescFits ==
  ASSUME BInv, Fits, InstallDesc, Idle
  PROVE  Fits' /\ Steady /\ \A e \in Obj : obj'[e].rows = obj[e].rows
<1>1. /\ phase = "redef" /\ pSd = "open" /\ cur.o \in Obj /\ cur.id \in Slot
      /\ obj[cur.o].st = "live"
      /\ elem # "STREAM" /\ \A i \in Slot : desc[i] # cur.o
      /\ UNCHANGED <<pSd, cur, elem>>
  BY DEF InstallDesc, BInv, RInv, Phases, Live, Pointers
<1>2. PICK old, heap : /\ old = desc[cur.id] /\ heap = Freed(obj, {old} \ {NoObj})
  OBVIOUS
<1>3. /\ heap \in [Obj -> Desc]
      /\ \A e \in Obj : SameMake(heap[e], obj[e]) /\ heap[e].rows = obj[e].rows
      /\ \A e \in Obj : e # old => heap[e] = obj[e]
      /\ old # NoObj => heap[old].st = "freed"
  BY <1>1, <1>2, FreedIs, FreedRows DEF BInv, RInv, Pointers
<1>4. /\ pos' = 1
      /\ \/ /\ phase' = "close" /\ desc' = [desc EXCEPT ![cur.id] = NoObj] /\ obj' = heap
         \/ /\ phase' = "announce" /\ desc' = [desc EXCEPT ![cur.id] = cur.o]
            /\ obj' = [heap EXCEPT ![cur.o].parent = "src"]
  BY <1>2, Zenon DEF InstallDesc
<1>5. /\ \A e \in Obj : obj'[e].st = heap[e].st /\ obj'[e].src = obj[e].src
                        /\ obj'[e].kind = obj[e].kind /\ obj'[e].fmt = obj[e].fmt
                        /\ obj'[e].rows = obj[e].rows
  <2>1. \A e \in Obj : e # cur.o => obj'[e] = heap[e]
    BY <1>3, <1>4
  <2>2. obj'[cur.o] = heap[cur.o] \/ obj'[cur.o] = [heap[cur.o] EXCEPT !.parent = "src"]
    BY <1>1, <1>3, <1>4
  <2> QED
    BY <1>1, <1>3, <2>1, <2>2 DEF SameMake, Desc
<1>6. UNCHANGED <<lDsMap, lPairs>>
  BY DEF Idle
<1>7. Steady
  <2>1. \A e \in Obj : e = old => heap[e].st # "unused"
    BY <1>3, ReadAssumption
  <2> QED
    BY <1>3, <1>5, <2>1 DEF Steady
<1>8. /\ \A i \in Slot : desc[i] # NoObj => desc[i] \in Obj
      /\ \A u \in DOMAIN lPairs : /\ Paired(u) \in Obj /\ obj[Paired(u)].st # "unused"
                                  /\ Paired(u)' = Paired(u)
  BY <1>6, AllUsed, AllObjects DEF Paired
<1>9. /\ \A i \in Slot : i # cur.id => desc'[i] = desc[i]
      /\ desc'[cur.id] = IF phase' = "announce" THEN cur.o ELSE NoObj
  BY <1>1, <1>4 DEF BInv, RInv, Pointers
<1>10. PairsFit'
  BY <1>6, <1>7, <1>8 DEF Fits, PairsFit, Steady
<1>11. SlotsFit'
  BY <1>1, <1>5, <1>8, <1>9 DEF Fits, SlotsFit, HeaderFits
<1>12. HeaderFits' /\ Kinds'
  BY <1>1, <1>4, <1>5 DEF Fits, HeaderFits, Kinds
<1>13. Serving'
  <2> SUFFICES ASSUME phase' = "announce", NEW i \in Slot, desc'[i] # NoObj, ~Coming(i)'
               PROVE  Served(i)'
    BY <1>4 DEF Serving, Closed
  <2>1. i # cur.id
    BY <1>1, <1>4, BldrAssumption, ReadAssumption DEF Coming, Proc
  <2>2. /\ Served(i) /\ obj'[desc[i]].kind = obj[desc[i]].kind
        /\ obj'[desc[i]].fmt = obj[desc[i]].fmt /\ desc'[i] = desc[i]
    BY <1>1, <1>5, <1>8, <1>9, <2>1 DEF Fits, Serving, Closed, Coming
  <2>3. Datasets' = Datasets
    BY <1>6 DEF Datasets, Paired
  <2> QED
    BY <1>6, <2>2, <2>3 DEF Served
<1> QED
  BY <1>5, <1>7, <1>10, <1>11, <1>12, <1>13 DEF Fits

\* The pair the ID is mapped to has the layout of the packet.
LEMMA ReuseFits ==
  ASSUME BInv, Fits, OnPktDescReuse
  PROVE  Fits'
<1>1. /\ phase = "announce" /\ elem # "STREAM" /\ AnnounceReturns(0) /\ UNCHANGED obj
      /\ UNCHANGED <<lPairs, desc, cur, elem, pSd>> /\ phase' = "announce" /\ pos' = pos + 1
      /\ pos = Bldr /\ elem = "PACKET"
  BY DEF OnPktDescReuse, AnnounceHandler, AnnounceReturns, Called
<1>2. PICK us : /\ us = Containers(obj[cur.o].fmt) /\ us # {}
                /\ lDsMap' = [lDsMap EXCEPT ![cur.id] = Min(us)]
  BY DEF OnPktDescReuse
<1>3. us \subseteq 1..Len(lPairs) /\ Len(lPairs) \in Nat
  BY <1>2 DEF Containers, BInv, BTypes
<1>4. Min(us) \in us
  <2>1. us \subseteq Nat
    BY <1>3
  <2>2. \E x \in us : \A y \in us : x <= y
    BY <1>2, <2>1, LeastNat
  <2> QED
    BY <2>2, Zenon DEF Min
<1>5. PICK m \in us : /\ lDsMap' = [lDsMap EXCEPT ![cur.id] = m]
                      /\ lPairs[m].lay = obj[cur.o].fmt.lay
  <2>1. lPairs[Min(us)].lay = obj[cur.o].fmt.lay
    BY <1>2, <1>4 DEF Containers
  <2> QED
    BY <1>2, <1>4, <2>1
<1>6. /\ cur.id \in Slot /\ desc[cur.id] = cur.o
      /\ obj[cur.o].kind = "PACKET" /\ m # 0
  BY <1>1, <1>3, HeaderIs DEF Fits, Kinds
<1>7. PairsFit' /\ SlotsFit' /\ HeaderFits' /\ Kinds'
  <2>1. \A u \in DOMAIN lPairs : Paired(u)' = Paired(u)
    BY <1>1 DEF Paired
  <2> QED
    BY <1>1, <2>1 DEF Fits, PairsFit, SlotsFit, HeaderFits, Kinds
<1>8. Serving'
  <2> SUFFICES ASSUME NEW i \in Slot, desc[i] # NoObj
               PROVE  Served(i)'
    BY <1>1 DEF Serving
  <2>1. CASE i = cur.id
    BY <1>1, <1>5, <1>6, <2>1 DEF Served, BInv, BTypes
  <2>2. CASE i # cur.id
    <3>1. Served(i) /\ lDsMap'[i] = lDsMap[i]
      BY <1>1, <1>5, <2>2 DEF Fits, Serving, Closed, Coming, BInv, BTypes
    <3>2. Datasets' = Datasets
      BY <1>1 DEF Datasets, Paired
    <3> QED
      BY <1>1, <3>1, <3>2 DEF Served
  <2> QED
    BY <2>1, <2>2
<1> QED
  BY <1>7, <1>8 DEF Fits

\* What the pairs are when there is one more.
LEMMA AddPairIs ==
  ASSUME BTypes, NEW lay \in Lay \cup {NoObj}, NEW ds \in Obj, cur.id \in Slot, AddPair(lay, ds)
  PROVE  \E n \in Nat :
           /\ DOMAIN lPairs = 1..n /\ DOMAIN lPairs' = 1..(n + 1)
           /\ \A u \in 1..n : lPairs'[u] = lPairs[u]
           /\ lPairs'[n + 1].lay = lay /\ lPairs'[n + 1].ds = ds
           /\ lDsMap'[cur.id] = n + 1
           /\ \A i \in Slot : i # cur.id => lDsMap'[i] = lDsMap[i]
           /\ \A i \in Slot : lDsMap[i] \in 0..n
<1>1. PICK e : e = [lay |-> lay, ds |-> ds]
  OBVIOUS
<1>2. e \in [lay : Lay \cup {NoObj}, ds : Obj] /\ e.ds = ds /\ e.lay = lay
  BY <1>1
<1>3. lPairs' = Append(lPairs, e) /\ lDsMap' = [lDsMap EXCEPT ![cur.id] = Len(lPairs) + 1]
  BY <1>1 DEF AddPair
<1>4. PICK n \in Nat : n = Len(lPairs)
  BY DEF BTypes
<1>5. /\ DOMAIN lPairs = 1..n /\ DOMAIN lPairs' = 1..(n + 1)
      /\ \A u \in 1..n : lPairs'[u] = lPairs[u]
      /\ lPairs'[n + 1] = e
  BY <1>2, <1>3, <1>4 DEF BTypes
<1>6. /\ lDsMap'[cur.id] = n + 1
      /\ \A i \in Slot : i # cur.id => lDsMap'[i] = lDsMap[i]
      /\ \A i \in Slot : lDsMap[i] \in 0..n
  BY <1>3, <1>4 DEF BTypes
<1> QED
  BY <1>2, <1>5, <1>6

\* A pair for the header in progress serves it.
LEMMA AddPairFits ==
  ASSUME BInv, Fits, Called, elem # "STREAM", AnnounceReturns(0), Steady,
         NEW lay \in Lay \cup {NoObj}, NEW ds \in Obj, AddPair(lay, ds),
         obj'[cur.o] = obj[cur.o], obj'[ds].st # "unused", obj'[ds].kind = "DATASET",
         lay # NoObj => obj'[ds].fmt.lay = lay,
         IF elem = "PACKET" THEN lay = obj[cur.o].fmt.lay ELSE ds = cur.o
  PROVE  Fits' /\ Datasets' = Datasets \cup {ds}
<1>1. /\ phase = "announce" /\ phase' = "announce" /\ pos = Bldr /\ pos' = pos + 1
      /\ UNCHANGED <<desc, cur, elem, pSd>>
  BY DEF AnnounceReturns, Called
<1>2. /\ cur.id \in Slot /\ cur.o \in Obj /\ desc[cur.id] = cur.o /\ pSd = "open"
      /\ elem = obj[cur.o].kind /\ elem \in {"PACKET", "DATASET"}
  BY <1>1, HeaderIs DEF Fits, Kinds
<1>3. PICK n \in Nat :
           /\ DOMAIN lPairs = 1..n /\ DOMAIN lPairs' = 1..(n + 1)
           /\ \A u \in 1..n : lPairs'[u] = lPairs[u]
           /\ lPairs'[n + 1].lay = lay /\ lPairs'[n + 1].ds = ds
           /\ lDsMap'[cur.id] = n + 1
           /\ \A i \in Slot : i # cur.id => lDsMap'[i] = lDsMap[i]
           /\ \A i \in Slot : lDsMap[i] \in 0..n
  BY <1>2, AddPairIs DEF BInv
<1>4. /\ \A u \in 1..n : Paired(u)' = Paired(u) /\ Paired(u) \in Obj /\ obj[Paired(u)].st # "unused"
      /\ Paired(n + 1)' = ds
  BY <1>3, AllUsed DEF Paired
<1>5. PairsFit'
  <2>1. ASSUME NEW u \in 1..n
        PROVE  /\ obj'[Paired(u)].st # "unused" /\ obj'[Paired(u)].kind = "DATASET"
               /\ lPairs[u].lay # NoObj => lPairs[u].lay = obj'[Paired(u)].fmt.lay
    BY <1>3, <1>4 DEF Fits, PairsFit, Steady
  <2>2. \A u \in 1..(n + 1) : u \in 1..n \/ u = n + 1
    OBVIOUS
  <2> QED
    BY <1>3, <1>4, <2>1, <2>2 DEF PairsFit
<1>6. \A i \in Slot : desc[i] # NoObj => desc[i] \in Obj /\ obj[desc[i]].st # "unused"
  BY <1>2, AllUsed
<1>7. SlotsFit' /\ HeaderFits' /\ Kinds'
  BY <1>1, <1>2, <1>6 DEF Fits, SlotsFit, HeaderFits, Kinds, Steady
<1>8. Datasets' = Datasets \cup {ds}
  BY <1>2, AddPairGrows DEF BInv
<1>9. Serving'
  <2> SUFFICES ASSUME NEW i \in Slot, desc[i] # NoObj
               PROVE  Served(i)'
    BY <1>1 DEF Serving
  <2>1. CASE i = cur.id
    BY <1>1, <1>2, <1>3, <1>8, <2>1 DEF Served
  <2>2. CASE i # cur.id
    <3>1. Served(i) /\ lDsMap'[i] = lDsMap[i] /\ (lDsMap[i] # 0 => lDsMap[i] \in 1..n)
      BY <1>1, <1>3, <2>2 DEF Fits, Serving, Closed, Coming
    <3>2. obj'[desc[i]].kind = obj[desc[i]].kind /\ obj'[desc[i]].fmt = obj[desc[i]].fmt
      BY <1>6 DEF Steady
    <3>3. CASE obj[desc[i]].kind = "PACKET"
      BY <1>1, <1>3, <3>1, <3>2, <3>3 DEF Served
    <3>4. CASE obj[desc[i]].kind # "PACKET"
      BY <1>1, <1>8, <3>1, <3>2, <3>4 DEF Served
    <3> QED
      BY <3>3, <3>4
  <2> QED
    BY <2>1, <2>2
<1> QED
  BY <1>5, <1>7, <1>8, <1>9 DEF Fits

\* A dataset of the builder's own is new and has no rows.
LEMMA NewDatasetFits ==
  ASSUME BInv, Fits, OnPktDescNew
  PROVE  /\ Fits'
         /\ \E ds \in Obj : /\ Datasets' = Datasets \cup {ds} /\ obj'[ds].rows = 0
                            /\ \A e \in Obj : obj[e].st # "unused" => obj'[e] = obj[e]
<1>1. /\ phase = "announce" /\ elem = "PACKET" /\ AnnounceReturns(0) /\ Called
  BY DEF OnPktDescNew, AnnounceReturns
<1>2. /\ cur.id \in Slot /\ cur.o \in Obj /\ Live(cur.o)
      /\ obj[cur.o].fmt \in Fmt /\ obj[cur.o].fmt.lay \in Lay
  BY <1>1, HeaderIs
<1>3. PICK ds, d :
        /\ ds \in Obj /\ obj[ds].st = "unused" /\ obj' = [obj EXCEPT ![ds] = d]
        /\ d.st = "live" /\ d.kind = "DATASET" /\ d.fmt = obj[cur.o].fmt /\ d.rows = 0
        /\ AddPair(obj[cur.o].fmt.lay, ds)
  <2>1. Fresh(obj) \in Obj /\ obj[Fresh(obj)].st = "unused"
    BY Zenon DEF OnPktDescNew, HasRoom, Fresh
  <2>2. PICK d : d = [st |-> "live", kind |-> "DATASET", fmt |-> obj[cur.o].fmt, src |-> cur.id,
                      rows |-> 0, parent |-> IF bslot[cur.id] = NoObj THEN "bldr" ELSE "none"]
    OBVIOUS
  <2>3. /\ obj' = [obj EXCEPT ![Fresh(obj)] = d]
        /\ AddPair(obj[cur.o].fmt.lay, Fresh(obj))
    BY <2>2 DEF OnPktDescNew
  <2>4. d.st = "live" /\ d.kind = "DATASET" /\ d.fmt = obj[cur.o].fmt /\ d.rows = 0
    BY <2>2
  <2> QED
    BY <2>1, <2>3, <2>4
<1>4. obj'[ds] = d /\ \A e \in Obj : e # ds => obj'[e] = obj[e]
  BY <1>3 DEF BInv, RInv, Pointers
<1>5. \A e \in Obj : obj[e].st # "unused" => obj'[e] = obj[e]
  BY <1>3, <1>4
<1>6. Steady /\ obj'[cur.o] = obj[cur.o]
  BY <1>2, <1>5 DEF Steady, Live
<1>7. PICK lay \in Lay : lay = obj[cur.o].fmt.lay
  BY <1>2
<1>8. lay \in Lay \cup {NoObj} /\ AddPair(lay, ds) /\ obj'[ds].fmt.lay = lay
  BY <1>3, <1>4, <1>7
<1>9. obj'[ds].st # "unused" /\ obj'[ds].kind = "DATASET" /\ obj'[ds].rows = 0
  BY <1>3, <1>4
<1>10. Fits' /\ Datasets' = Datasets \cup {ds}
  BY <1>1, <1>3, <1>6, <1>7, <1>8, <1>9, AddPairFits
<1> QED
  BY <1>3, <1>5, <1>9, <1>10

\* So is a dataset of das3 when it is paired; one that is refused ends the read.
LEMMA DataSetFits ==
  ASSUME BInv, Fits, OnDataSet
  PROVE  /\ Fits' /\ UNCHANGED obj
         /\ \/ nRet' # 0
            \/ \E ds \in Obj : Datasets' = Datasets \cup {ds} /\ obj[ds].rows = 0
<1>1. /\ phase = "announce" /\ elem = "DATASET" /\ UNCHANGED obj /\ Called
  BY DEF OnDataSet, AnnounceHandler, AnnounceReturns
<1>2. /\ cur.id \in Slot /\ cur.o \in Obj /\ Live(cur.o)
      /\ obj[cur.o].kind = "DATASET" /\ obj[cur.o].rows = 0
  BY <1>1, HeaderIs DEF Fits, Kinds, HeaderFits
<1>3. Steady
  BY <1>1 DEF Steady
<1>4. CASE lDsMap[cur.id] # 0
  <2>1. AnnounceReturns(1) /\ UNCHANGED <<lDsMap, lPairs>>
    BY <1>4 DEF OnDataSet, AnnounceHandler
  <2>2. phase' \in Closed /\ nRet' # 0 /\ UNCHANGED <<desc, pSd>> /\ pSd # "gone"
    BY <2>1 DEF AnnounceReturns, Closed, BInv, RInv, Phases
  <2> QED
    BY <1>1, <1>3, <2>1, <2>2, ClosedSettled, SettledFits
<1>5. CASE lDsMap[cur.id] = 0
  <2>1. AnnounceReturns(0) /\ AddPair(NoObj, cur.o)
    BY <1>5 DEF OnDataSet, AnnounceHandler
  <2>2. obj'[cur.o] = obj[cur.o] /\ obj'[cur.o].st # "unused" /\ obj'[cur.o].kind = "DATASET"
    BY <1>1, <1>2 DEF Live
  <2>3. Fits' /\ Datasets' = Datasets \cup {cur.o}
    BY <1>1, <1>2, <1>3, <2>1, <2>2, AddPairFits
  <2> QED
    BY <1>1, <1>2, <2>3
<1> QED
  BY <1>4, <1>5
-----------------------------------------------------------------------------
\* The datasets of some IDs and layouts, what is in them and what was handed over, and
\* the row a dataset of the reader has already.
Part(C) == {o \in Datasets : <<obj[o].src, obj[o].fmt.lay>> \in C}
Counts(ob) == [o \in Obj |-> ob[o].rows]
Brought(g) == [x \in Slot \X Lay |-> g[x[1]][x[2]]]
Has(C, i, lay) == IF <<i, lay>> \in C THEN 1 ELSE 0
UnderWay(C) ==
  IF phase = "deliver" /\ elem = "DATASET" /\ pos <= Bldr
  THEN Has(C, cur.id, obj[cur.o].fmt.lay) ELSE 0
Cells == {C \in SUBSET (Slot \X Lay) : IsFiniteSet(C)}

\* No dataset has rows it was not brought; where every processor takes the rows of das3
\* it has all of them.
Balance(r, g) == r <= g /\ (HasDsData = Proc => r = g)
Counting == nRet = 0 /\ phase # "crashed"
Tally ==
  Counting => \A C \in Cells :
    Balance(Total(Counts(obj), Part(C)), Total(Brought(got), C) + UnderWay(C))
GotType == got \in [Slot -> [Lay -> Nat]]
Kept == phase = "deliver" /\ HasDsData = Proc => bClearDs = FALSE

TInv == GotType /\ Kept /\ Fits /\ Tally

\* There are finitely many datasets, and all that is added up are numbers.
LEMMA PartIs ==
  ASSUME BInv, NEW C
  PROVE  /\ Datasets \subseteq Obj /\ Part(C) \subseteq Datasets
         /\ Weights(Counts(obj), Part(C))
<1>1. PICK n \in Nat : n = Len(lPairs) /\ DOMAIN lPairs = 1..n
  BY DEF BInv, BTypes
<1>2. PICK f : f = [u \in 1..n |-> Paired(u)]
  OBVIOUS
<1>3. Datasets = {f[u] : u \in 1..n}
  BY <1>1, <1>2 DEF Datasets
<1>4. f \in Surjection(1..n, Datasets)
  BY <1>2, <1>3 DEF Surjection
<1>5. IsFiniteSet(1..n)
  BY <1>1, FS_Interval
<1>6. IsFiniteSet(Datasets)
  BY <1>4, <1>5, FS_Surjection
<1>7. Part(C) \subseteq Datasets
  BY DEF Part
<1>8. IsFiniteSet(Part(C))
  BY <1>6, <1>7, FS_Subset
<1>9. Datasets \subseteq Obj
  BY AllObjects DEF Datasets
<1>10. \A o \in Obj : Counts(obj)[o] = obj[o].rows /\ obj[o].rows \in Nat
  BY DEF Counts, BInv, RInv, Pointers, Desc
<1> QED
  BY <1>7, <1>8, <1>9, <1>10 DEF Weights

\* So is what was handed over.
LEMMA BroughtIs ==
  ASSUME GotType, NEW C \in Cells
  PROVE  Weights(Brought(got), C) /\ \A x \in C : Brought(got)[x] = got[x[1]][x[2]]
<1>1. \A i \in Slot, l \in Lay : got[i][l] \in Nat
  BY DEF GotType
<1>2. \A x \in Slot \X Lay : x[1] \in Slot /\ x[2] \in Lay
  OBVIOUS
<1>3. \A x \in Slot \X Lay : Brought(got)[x] = got[x[1]][x[2]]
  BY Zenon DEF Brought
<1> QED
  BY <1>1, <1>2, <1>3 DEF Weights, Cells

\* The layouts of what is allocated.
LEMMA LayoutOf ==
  ASSUME BInv, NEW o \in Obj, obj[o].st # "unused"
  PROVE  obj[o].src \in Slot /\ obj[o].fmt.lay \in Lay
BY DEF BInv, Laid, Lay, RInv, Pointers, Desc

\* A step that leaves the datasets their rows keeps the tally.
LEMMA TallyKept ==
  ASSUME BInv, Tally, UNCHANGED got, Datasets' = Datasets,
         \A o \in Datasets : /\ obj'[o].src = obj[o].src /\ obj'[o].fmt = obj[o].fmt
                             /\ obj'[o].rows = obj[o].rows,
         Counting' => Counting /\ \A C \in Cells : UnderWay(C)' = UnderWay(C)
  PROVE  Tally'
<1> SUFFICES ASSUME Counting', NEW C \in Cells
             PROVE  Balance(Total(Counts(obj'), Part(C)'), Total(Brought(got), C) + UnderWay(C)')
  BY DEF Tally
<1>1. Part(C)' = Part(C)
  BY DEF Part
<1>2. \A o \in Part(C) : Counts(obj)[o] = Counts(obj')[o]
  BY PartIs DEF Part, Counts
<1>3. Total(Counts(obj), Part(C)) = Total(Counts(obj'), Part(C))
  BY <1>2, PartIs, TotalSame
<1> QED
  BY <1>1, <1>3 DEF Tally

\* So does one that is no delivery of rows.
LEMMA TallyAside ==
  ASSUME BInv, Tally, UNCHANGED got, Datasets' = Datasets,
         \A o \in Datasets : /\ obj'[o].src = obj[o].src /\ obj'[o].fmt = obj[o].fmt
                             /\ obj'[o].rows = obj[o].rows,
         phase \notin {"deliver", "crashed"}, phase' # "deliver",
         phase \in {"close", "end"} => UNCHANGED nRet
  PROVE  Tally'
<1>1. Counting' => Counting
  BY DEF Counting, BInv, RInv, Phases, Scalars
<1>2. \A C \in Cells : UnderWay(C)' = UnderWay(C)
  BY DEF UnderWay
<1> QED
  BY <1>1, <1>2, TallyKept

\* The row that is counted.
LEMMA CountedIs ==
  ASSUME BInv, GotType, Counted, phase = "deliver"
  PROVE  /\ GotType'
         /\ cur.id \in Slot /\ cur.o \in Obj /\ obj[cur.o].fmt.lay \in Lay
         /\ \A C \in Cells : Total(Brought(got'), C)
                            = Total(Brought(got), C) + Has(C, cur.id, obj[cur.o].fmt.lay)
<1>1. cur.id \in Slot /\ cur.o \in Obj /\ obj[cur.o].st = "live"
  BY ReadAssumption DEF BInv, RInv, Phases, Pointers, Table, Live
<1>2. PICK l \in Lay, i \in Slot : l = obj[cur.o].fmt.lay /\ i = cur.id
  BY <1>1, LayoutOf
<1>3. got' = [got EXCEPT ![i] = [got[i] EXCEPT ![l] = got[i][l] + 1]]
  BY <1>2 DEF Counted
<1>4. got[i] \in [Lay -> Nat] /\ got[i][l] \in Nat
  BY DEF GotType
<1>5. GotType'
  BY <1>3, <1>4 DEF GotType
<1>6. /\ got'[i][l] = got[i][l] + 1
      /\ \A j \in Slot, k \in Lay : j # i \/ k # l => got'[j][k] = got[j][k]
  BY <1>3, <1>4 DEF GotType
<1>7. ASSUME NEW C \in Cells
      PROVE  Total(Brought(got'), C) = Total(Brought(got), C) + Has(C, i, l)
  <2>1. Weights(Brought(got), C) /\ \A x \in C : Brought(got)[x] = got[x[1]][x[2]]
    BY BroughtIs
  <2>2. \A x \in C : Brought(got')[x] = got'[x[1]][x[2]]
    <3>1. \A x \in Slot \X Lay : Brought(got')[x] = got'[x[1]][x[2]]
      BY Zenon DEF Brought
    <3> QED
      BY <3>1 DEF Cells
  <2>3. PICK y : y = <<i, l>>
    OBVIOUS
  <2>4. \A x \in C : x # y => got'[x[1]][x[2]] = got[x[1]][x[2]]
    <3>1. \A x \in Slot \X Lay : x # y => x[1] # i \/ x[2] # l
      BY <2>3
    <3>2. \A x \in Slot \X Lay : x[1] \in Slot /\ x[2] \in Lay
      OBVIOUS
    <3> QED
      BY <1>6, <3>1, <3>2 DEF Cells
  <2>5. y[1] = i /\ y[2] = l
    BY <2>3
  <2>6. CASE y \in C
    <3>1. Brought(got')[y] = Brought(got)[y] + 1
      BY <1>6, <2>1, <2>2, <2>5, <2>6
    <3>2. \A x \in C : x # y => Brought(got')[x] = Brought(got)[x]
      BY <2>1, <2>2, <2>4
    <3>3. Total(Brought(got'), C) = Total(Brought(got), C) + 1
      BY <2>1, <2>6, <3>1, <3>2, TotalPlusOne
    <3> QED
      BY <2>3, <2>6, <3>3 DEF Has
  <2>7. CASE y \notin C
    <3>1. \A x \in C : Brought(got)[x] = Brought(got')[x]
      BY <2>1, <2>2, <2>4, <2>7
    <3>2. Total(Brought(got'), C) = Total(Brought(got), C) /\ Total(Brought(got), C) \in Nat
      BY <2>1, <3>1, TotalSame, TotalType
    <3> QED
      BY <2>3, <2>7, <3>2 DEF Has
  <2> QED
    BY <2>6, <2>7
<1> QED
  BY <1>1, <1>2, <1>5, <1>7

\* A row that comes to a dataset.
LEMMA RowAdded ==
  ASSUME BInv, SameButRows, Datasets' = Datasets, NEW ds \in Datasets,
         obj'[ds].rows = obj[ds].rows + 1,
         \A o \in Obj : o # ds => obj'[o].rows = obj[o].rows,
         NEW C
  PROVE  Total(Counts(obj'), Part(C)')
           = Total(Counts(obj), Part(C)) + Has(C, obj[ds].src, obj[ds].fmt.lay)
<1>1. Part(C)' = Part(C)
  BY PartIs DEF Part, SameButRows, SameMake
<1>2. /\ Datasets \subseteq Obj /\ Part(C) \subseteq Datasets
      /\ Weights(Counts(obj), Part(C))
  BY PartIs
<1>3. \A o \in Obj : Counts(obj)[o] = obj[o].rows /\ Counts(obj')[o] = obj'[o].rows
  BY DEF Counts
<1>4. CASE ds \in Part(C)
  <2>1. Counts(obj')[ds] = Counts(obj)[ds] + 1
    BY <1>2, <1>3
  <2>2. \A o \in Part(C) : o # ds => Counts(obj')[o] = Counts(obj)[o]
    BY <1>2, <1>3
  <2>3. Total(Counts(obj'), Part(C)) = Total(Counts(obj), Part(C)) + 1
    BY <1>2, <1>4, <2>1, <2>2, TotalPlusOne
  <2>4. <<obj[ds].src, obj[ds].fmt.lay>> \in C
    BY <1>4 DEF Part
  <2> QED
    BY <1>1, <2>3, <2>4 DEF Has
<1>5. CASE ds \notin Part(C)
  <2>1. \A o \in Part(C) : Counts(obj)[o] = Counts(obj')[o]
    BY <1>2, <1>3, <1>5
  <2>2. /\ Total(Counts(obj), Part(C)) = Total(Counts(obj'), Part(C))
        /\ Total(Counts(obj), Part(C)) \in Nat
    BY <1>2, <2>1, TotalSame, TotalType
  <2>3. <<obj[ds].src, obj[ds].fmt.lay>> \notin C
    BY <1>5 DEF Part
  <2> QED
    BY <1>1, <2>2, <2>3 DEF Has
<1> QED
  BY <1>4, <1>5

\* The totals are numbers.
LEMMA TotalsAre ==
  ASSUME BInv, GotType, NEW C \in Cells
  PROVE  Total(Counts(obj), Part(C)) \in Nat /\ Total(Brought(got), C) \in Nat
BY PartIs, BroughtIs, TotalType

\* A row of das2 is appended where it is counted.
LEMMA PktDataTally ==
  ASSUME BInv, TInv, OnPktData
  PROVE  GotType' /\ Tally'
<1> USE DEF TInv
<1>1. /\ phase = "deliver" /\ elem = "PACKET" /\ Counted /\ Idle
      /\ nRet' = 0 /\ UNCHANGED <<elem, phase>> /\ nRet = 0
  BY ReadAssumption, BldrAssumption
     DEF OnPktData, DeliverReturns, Idle, BInv, RInv, Phases, Called, Proc
<1>2. PICK ds : /\ ds = Paired(lDsMap[cur.id]) /\ obj[ds].src = cur.id
                /\ obj' = [obj EXCEPT ![ds].rows = @ + 1]
  BY DEF OnPktData
<1>3. /\ cur.id \in Slot /\ cur.o \in Obj /\ desc[cur.id] = cur.o /\ obj[cur.o].st = "live"
      /\ obj[cur.o].kind = "PACKET"
  BY <1>1, ReadAssumption DEF BInv, RInv, Phases, Pointers, Table, Live, Fits, Kinds
<1>4. Served(cur.id)
  BY <1>1, <1>3, ReadAssumption DEF Fits, Serving, Closed, Coming
<1>5. PICK u \in DOMAIN lPairs : u = lDsMap[cur.id]
  BY <1>3, <1>4 DEF Served, BInv, BTypes
<1>6. lPairs[u].lay = obj[cur.o].fmt.lay /\ lPairs[u].lay # NoObj
  <2>1. obj[cur.o].fmt \in Fmt
    BY <1>3 DEF BInv, Laid
  <2> QED
    BY <1>3, <1>4, <1>5, <2>1, BldrAssumption DEF Served
<1>7. ds \in Datasets /\ ds \in Obj /\ obj[ds].fmt.lay = obj[cur.o].fmt.lay
  BY <1>2, <1>5, <1>6, AllUsed DEF Fits, PairsFit, Datasets
<1>8. obj[ds].rows \in Nat
  BY <1>7 DEF BInv, RInv, Pointers, Desc
<1>9. PICK n \in Nat : n = obj[ds].rows + 1
  BY <1>8
<1>10. obj' = [obj EXCEPT ![ds].rows = n]
  BY <1>2, <1>9
<1>11. SameButRows /\ Datasets' = Datasets
  <2>1. SameButRows
    BY <1>7, <1>10, RowsSet DEF BInv, RInv, Pointers
  <2> QED
    BY <1>1, <2>1 DEF Idle, Datasets, Paired
<1>12. obj'[ds].rows = obj[ds].rows + 1 /\ \A o \in Obj : o # ds => obj'[o].rows = obj[o].rows
  BY <1>7, <1>9, <1>10 DEF BInv, RInv, Pointers, Desc
<1>13. GotType'
  BY <1>1, CountedIs
<1>14. ASSUME NEW C \in Cells
       PROVE  Balance(Total(Counts(obj'), Part(C)'), Total(Brought(got'), C) + UnderWay(C)')
  <2>1. PICK h : h = Has(C, cur.id, obj[cur.o].fmt.lay)
    OBVIOUS
  <2>2. Total(Brought(got'), C) = Total(Brought(got), C) + h
    BY <1>1, <2>1, CountedIs
  <2>3. Total(Counts(obj'), Part(C)')
          = Total(Counts(obj), Part(C)) + Has(C, obj[ds].src, obj[ds].fmt.lay)
    BY <1>7, <1>11, <1>12, RowAdded
  <2>4. Total(Counts(obj'), Part(C)') = Total(Counts(obj), Part(C)) + h
    BY <1>2, <1>7, <2>1, <2>3
  <2>5. UnderWay(C)' = 0 /\ UnderWay(C) = 0
    BY <1>1 DEF UnderWay
  <2>6. Balance(Total(Counts(obj), Part(C)), Total(Brought(got), C) + 0)
    BY <1>1, <2>5 DEF Tally, Counting
  <2>7. h \in {0, 1} /\ Total(Counts(obj), Part(C)) \in Nat /\ Total(Brought(got), C) \in Nat
    BY <2>1, TotalsAre DEF Has
  <2> QED
    BY <2>2, <2>4, <2>5, <2>6, <2>7 DEF Balance
<1> QED
  BY <1>13, <1>14 DEF Tally

\* A row of das3 is counted after it was appended.
LEMMA DsDataTally ==
  ASSUME BInv, TInv, OnDsData
  PROVE  GotType' /\ Tally'
<1> USE DEF TInv
<1>1. /\ phase = "deliver" /\ elem = "DATASET" /\ Counted /\ Idle /\ UNCHANGED obj
      /\ pos = Bldr /\ pos' = Bldr + 1 /\ nRet = 0
  BY ReadAssumption, BldrAssumption
     DEF OnDsData, DeliverHandler, DeliverReturns, Idle, BInv, RInv, Phases, Called, Proc
<1>2. GotType'
  BY <1>1, CountedIs
<1>3. ASSUME NEW C \in Cells
      PROVE  Balance(Total(Counts(obj'), Part(C)'), Total(Brought(got'), C) + UnderWay(C)')
  <2>1. PICK h : h = Has(C, cur.id, obj[cur.o].fmt.lay)
    OBVIOUS
  <2>2. Total(Brought(got'), C) = Total(Brought(got), C) + h
    BY <1>1, <2>1, CountedIs
  <2>3. Part(C)' = Part(C)
    BY <1>1 DEF Part, Idle, Datasets, Paired
  <2>4. UnderWay(C)' = 0 /\ UnderWay(C) = h
    BY <1>1, <2>1, BldrAssumption, ReadAssumption DEF UnderWay, Proc
  <2>5. Balance(Total(Counts(obj), Part(C)), Total(Brought(got), C) + h)
    BY <1>1, <2>4 DEF Tally, Counting
  <2>6. h \in {0, 1} /\ Total(Brought(got), C) \in Nat
    BY <2>1, TotalsAre DEF Has
  <2>7. Total(Brought(got'), C) + UnderWay(C)' = Total(Brought(got), C) + h
    BY <2>2, <2>4, <2>6
  <2> QED
    BY <1>1, <2>3, <2>5, <2>7
<1> QED
  BY <1>2, <1>3 DEF Tally

\* A row the reader appends is under way to the builder.
LEMMA DataPacketTally ==
  ASSUME BInv, TInv, NEW p \in Input[model], DataPacket(p), Idle, UNCHANGED got
  PROVE  Tally'
<1> USE DEF TInv
<1>1. /\ phase = "tag" /\ pSd = "open" /\ p.id \in Slot /\ desc[p.id] # NoObj
      /\ cur'.id = p.id /\ cur'.o = desc[p.id] /\ elem' = obj[desc[p.id]].kind
  BY DEF DataPacket, Takes
<1>2. PICK o \in Obj : o = desc[p.id]
  BY <1>1, AllObjects
<1>3. Datasets' = Datasets /\ SameButRows
  BY RowsGentle DEF Idle, Datasets, Paired, BInv, Gentle
<1>4. Served(p.id) /\ obj[o].src = p.id /\ nRet = 0
  BY <1>1, <1>2 DEF Fits, Serving, Closed, Coming, SlotsFit, BInv, RInv, Phases
<1>5. CASE ~p.good
  <2>1. nRet' = 1
    BY <1>5 DEF DataPacket
  <2> QED
    BY <2>1 DEF Tally, Counting
<1>6. CASE p.good /\ obj[o].kind # "DATASET"
  <2>1. obj' = [obj EXCEPT ![o].rows = 1]
    BY <1>2, <1>6 DEF DataPacket
  <2>2. \A e \in Datasets : e \in Obj /\ e # o
    BY <1>6, AllUsed DEF Fits, PairsFit, Datasets
  <2>3. \A e \in Datasets : obj'[e] = obj[e]
    BY <2>1, <2>2 DEF BInv, RInv, Pointers
  <2>4. \A C \in Cells : UnderWay(C)' = UnderWay(C)
    BY <1>1, <1>2, <1>6 DEF UnderWay
  <2>5. Counting
    BY <1>1, <1>4 DEF Counting
  <2> QED
    BY <1>3, <2>3, <2>4, <2>5, TallyKept
<1>7. CASE p.good /\ obj[o].kind = "DATASET"
  <2>1. /\ obj' = [obj EXCEPT ![o].rows = obj[o].rows + 1]
        /\ phase' = "deliver" /\ pos' = 1
    BY <1>2, <1>7 DEF DataPacket
  <2>2. o \in Datasets
    BY <1>2, <1>4, <1>7 DEF Served
  <2>3. obj'[o].rows = obj[o].rows + 1 /\ \A e \in Obj : e # o => obj'[e].rows = obj[e].rows
    BY <2>1 DEF BInv, RInv, Pointers, Desc
  <2>4. ASSUME NEW C \in Cells
        PROVE  Balance(Total(Counts(obj'), Part(C)'), Total(Brought(got'), C) + UnderWay(C)')
    <3>1. PICK h : h = Has(C, p.id, obj[o].fmt.lay)
      OBVIOUS
    <3>2. Total(Counts(obj'), Part(C)') = Total(Counts(obj), Part(C)) + h
      BY <1>3, <1>4, <2>2, <2>3, <3>1, RowAdded
    <3>3. UnderWay(C)' = h /\ UnderWay(C) = 0
      <4>1. obj'[o].fmt = obj[o].fmt
        BY <1>3 DEF SameButRows, SameMake
      <4>2. 1 <= Bldr
        BY BldrAssumption, ReadAssumption DEF Proc
      <4> QED
        BY <1>1, <1>2, <1>7, <2>1, <3>1, <4>1, <4>2 DEF UnderWay
    <3>4. Balance(Total(Counts(obj), Part(C)), Total(Brought(got), C) + 0)
      BY <1>1, <1>4, <3>3 DEF Tally, Counting
    <3>5. h \in {0, 1} /\ Total(Counts(obj), Part(C)) \in Nat /\ Total(Brought(got), C) \in Nat
      BY <3>1, TotalsAre DEF Has
    <3> QED
      BY <3>2, <3>3, <3>4, <3>5 DEF Balance
  <2> QED
    BY <2>4 DEF Tally
<1> QED
  BY <1>5, <1>6, <1>7

\* Rows are dropped only where a processor does not take the rows of das3.
LEMMA DeliverDoneTally ==
  ASSUME BInv, TInv, DeliverDone, Idle, UNCHANGED got
  PROVE  Tally'
<1> USE DEF TInv
<1>1. /\ phase = "deliver" /\ pos = NProc + 1 /\ cur.o \in Obj
      /\ obj' = IF bClearDs THEN [obj EXCEPT ![cur.o].rows = 0] ELSE obj
      /\ nRet' = nRet /\ phase' # "deliver"
  BY DEF DeliverDone, BInv, RInv, Phases
<1>2. Datasets' = Datasets /\ SameButRows
  BY RowsGentle DEF Idle, Datasets, Paired, BInv, Gentle
<1>3. \A C \in Cells : UnderWay(C)' = 0 /\ UnderWay(C) = 0
  BY <1>1, BldrAssumption, ReadAssumption DEF UnderWay, Proc
<1>4. Counting' => Counting
  BY <1>1 DEF Counting
<1>5. CASE ~bClearDs
  <2>1. obj' = obj
    BY <1>1, <1>5
  <2> QED
    BY <1>2, <1>3, <1>4, <2>1, TallyKept
<1>6. CASE bClearDs
  <2>1. obj' = [obj EXCEPT ![cur.o].rows = 0] /\ HasDsData # Proc
    BY <1>1, <1>6 DEF Kept
  <2>2. \A o \in Obj : obj'[o].rows <= obj[o].rows /\ obj'[o].rows \in Nat
    BY <1>1, <2>1 DEF BInv, RInv, Pointers, Desc
  <2>3. ASSUME Counting', NEW C \in Cells
        PROVE  Balance(Total(Counts(obj'), Part(C)'), Total(Brought(got'), C) + UnderWay(C)')
    <3>1. Part(C)' = Part(C)
      BY <1>2, PartIs DEF Part, SameButRows, SameMake
    <3>2. Part(C) \subseteq Obj /\ Weights(Counts(obj), Part(C))
      BY PartIs
    <3>3. \A o \in Part(C) : Counts(obj')[o] <= Counts(obj)[o] /\ Counts(obj')[o] \in Nat
      BY <2>2, <3>2 DEF Counts
    <3>4. Weights(Counts(obj'), Part(C))
      BY <3>2, <3>3 DEF Weights
    <3>5. Total(Counts(obj'), Part(C)) <= Total(Counts(obj), Part(C))
      BY <3>2, <3>3, <3>4, TotalMonotone
    <3>6. /\ Total(Counts(obj'), Part(C)) \in Nat /\ Total(Counts(obj), Part(C)) \in Nat
          /\ Total(Brought(got), C) \in Nat
      BY <3>2, <3>4, TotalType, TotalsAre
    <3>7. Balance(Total(Counts(obj), Part(C)), Total(Brought(got), C) + 0)
      BY <1>3, <1>4, <2>3 DEF Tally
    <3> QED
      BY <1>3, <2>1, <3>1, <3>5, <3>6, <3>7 DEF Balance
  <2> QED
    BY <2>3 DEF Tally
<1> QED
  BY <1>5, <1>6

\* A dataset that comes with no rows.
LEMMA AddPairTally ==
  ASSUME BInv, Tally, UNCHANGED got, phase = "announce", phase' # "deliver",
         NEW ds \in Obj, Datasets' = Datasets \cup {ds}, obj'[ds].rows = 0,
         \A e \in Datasets : obj'[e] = obj[e]
  PROVE  Tally'
<1> SUFFICES ASSUME Counting', NEW C \in Cells
             PROVE  Balance(Total(Counts(obj'), Part(C)'), Total(Brought(got), C) + UnderWay(C)')
  BY DEF Tally
<1>1. UnderWay(C)' = 0 /\ UnderWay(C) = 0
  BY DEF UnderWay
<1>2. Balance(Total(Counts(obj), Part(C)), Total(Brought(got), C) + 0)
  BY <1>1 DEF Tally, Counting, BInv, RInv, Phases
<1>3. /\ Datasets \subseteq Obj /\ Part(C) \subseteq Datasets
      /\ Weights(Counts(obj), Part(C))
  BY PartIs
<1>4. \A o \in Part(C) : Counts(obj)[o] = Counts(obj')[o]
  BY <1>3 DEF Counts
<1>5. Total(Counts(obj), Part(C)) = Total(Counts(obj'), Part(C)) /\ Weights(Counts(obj'), Part(C))
  BY <1>3, <1>4, TotalSame
<1>6. Counts(obj')[ds] = 0
  BY DEF Counts
<1>7. Total(Counts(obj'), Part(C) \cup {ds}) = Total(Counts(obj'), Part(C))
  BY <1>5, <1>6, TotalPlusNothing
<1>8. Part(C)' = Part(C) \/ Part(C)' = Part(C) \cup {ds}
  <2>1. CASE <<obj'[ds].src, obj'[ds].fmt.lay>> \in C
    BY <2>1 DEF Part
  <2>2. CASE <<obj'[ds].src, obj'[ds].fmt.lay>> \notin C
    BY <2>2 DEF Part
  <2> QED
    BY <2>1, <2>2
<1> QED
  BY <1>1, <1>2, <1>5, <1>7, <1>8

\* Whether rows are kept is asked anew for every row.
LEMMA KeptStep ==
  ASSUME BInv, Kept, BNext
  PROVE  Kept'
<1> SUFFICES ASSUME phase' = "deliver", HasDsData = Proc
             PROVE  bClearDs' = FALSE
  BY DEF Kept
<1>1. ASSUME NEW ret, DeliverReturns(ret)
      PROVE  bClearDs' = FALSE
  BY <1>1 DEF DeliverReturns, Kept
<1>2. ~QuietStep
  BY QuietPhase
<1>3. CASE ReaderStep
  <2>1. PICK p \in Input[model] : DataPacket(p)
    BY <1>2, <1>3 DEF ReaderStep, QuietStep, InstallDesc, DeliverDone, Finish, PacketHeader
  <2> QED
    BY <2>1 DEF DataPacket
<1>4. CASE HandlerStep
  <2>1. PICK ret \in Returns(pos) : \/ RedefHandler(ret) \/ OobHandler(ret)
                                    \/ AnnounceHandler(ret) \/ DeliverHandler(ret)
                                    \/ CloseHandler(ret)
    BY <1>4, Zenon DEF HandlerStep
  <2>2. DeliverReturns(ret)
    BY <1>2, <2>1 DEF QuietStep, RedefHandler, RedefReturns, AnnounceHandler, AnnounceReturns,
       CloseHandler, CloseReturns, DeliverHandler
  <2> QED
    BY <1>1, <2>2
<1>5. CASE BldrStep
  <2>1. 0 \in Returns(pos)
    BY DEF Returns
  <2>2. CASE IdleCallback
    <3>1. \/ AnnounceReturns(0) \/ DeliverReturns(0) \/ phase' = "crashed"
          \/ QuietStep \/ RedefHandler(0)
      BY <2>1, <2>2, IdleCallbackIs DEF QuietStep
    <3>2. DeliverReturns(0)
      BY <1>2, <3>1 DEF AnnounceReturns, RedefHandler, RedefReturns
    <3> QED
      BY <1>1, <3>2
  <2>3. CASE OnPktDescReuse \/ OnPktDescNew \/ OnDataSet
    BY <2>3 DEF OnPktDescReuse, OnPktDescNew, OnDataSet, AnnounceHandler, AnnounceReturns
  <2>4. CASE OnClose
    BY <2>4, OnCloseTakes DEF CloseTakes, CloseReturns
  <2>5. CASE HandOver \/ CallerDeletes \/ ReadFailed \/ ReadFailedLost
    BY <2>5 DEF HandOver, CallerDeletes, ReadFailed, ReadFailedLost, Returned, DeleteStream,
       vars, readVars, BInv, BTypes
  <2> QED
    BY <1>5, <2>2, <2>3, <2>4, <2>5 DEF BldrStep, IdleCallback
<1> QED
  BY <1>3, <1>4, <1>5 DEF BNext

\* The steps the builder takes no part in.
LEMMA OthersTally ==
  ASSUME BInv, TInv, Idle, UNCHANGED got, ReaderStep \/ (pos # Bldr /\ HandlerStep)
  PROVE  Fits' /\ Tally'
<1> USE DEF TInv
<1>1. Datasets' = Datasets /\ \A o \in Datasets : o \in Obj /\ obj[o].st # "unused"
  BY AllUsed DEF Idle, Datasets, Paired, Fits
<1>2. CASE QuietStep
  <2>1. Settled
    BY <1>2, QuietSettled
  <2>2. UNCHANGED obj /\ phase \in {"tag", "announce", "oob"} /\ phase' # "deliver"
    BY <1>2, QuietPhase
  <2> QED
    BY <1>1, <2>1, <2>2, SettledFits, TallyAside
<1>3. CASE ReaderStep
  <2>1. CASE DeliverDone
    BY <2>1, RowsSettled, SettledFits, DeliverDoneTally
  <2>2. ASSUME NEW p \in Input[model], DataPacket(p)
        PROVE  Fits' /\ Tally'
    BY <2>2, RowsSettled, SettledFits, DataPacketTally
  <2>3. CASE InstallDesc
    <3>1. Fits' /\ Steady /\ \A e \in Obj : obj'[e].rows = obj[e].rows
      BY <2>3, InstallDescFits
    <3>2. phase = "redef" /\ phase' # "deliver"
      BY <2>3 DEF InstallDesc
    <3> QED
      BY <1>1, <3>1, <3>2, TallyAside DEF Steady
  <2>4. CASE Finish
    <3>1. PICK S : obj' = Freed(obj, S)
      BY <2>4 DEF Finish
    <3>2. /\ phase = "close" /\ phase' = "end" /\ UNCHANGED <<nRet, desc>>
          /\ pSd' = "open" => pSd # "gone"
      BY <2>4 DEF Finish
    <3>3. /\ \A e \in Obj : SameMake(obj'[e], obj[e]) /\ obj'[e].rows = obj[e].rows
          /\ \A e \in Obj : e \in S => obj'[e].st = "freed"
          /\ \A e \in Obj : e \notin S => obj'[e] = obj[e]
      BY <3>1, FreedIs, FreedRows DEF BInv, RInv, Pointers
    <3>4. Steady
      BY <3>3 DEF Steady, SameMake
    <3>5. Settled
      BY <3>2, <3>4, ClosedSettled DEF Closed, Idle
    <3> QED
      BY <1>1, <3>2, <3>3, <3>5, SettledFits, TallyAside DEF SameMake
  <2>5. ASSUME NEW p \in Input[model], PacketHeader(p)
        PROVE  Fits' /\ Tally'
    <3>1. Fits' /\ \A e \in Obj : obj[e].st # "unused" => obj'[e] = obj[e]
      BY <2>5, PacketHeaderFits
    <3>2. phase = "tag" /\ phase' # "deliver"
      BY <2>5 DEF PacketHeader, Takes
    <3> QED
      BY <1>1, <3>1, <3>2, TallyAside
  <2> QED
    BY <1>2, <1>3, <2>1, <2>2, <2>3, <2>4, <2>5 DEF ReaderStep, QuietStep
<1>4. CASE pos # Bldr /\ HandlerStep
  <2>1. PICK ret \in Returns(pos) : \/ RedefHandler(ret) \/ OobHandler(ret)
                                    \/ AnnounceHandler(ret) \/ DeliverHandler(ret)
                                    \/ CloseHandler(ret)
    BY <1>4, Zenon DEF HandlerStep
  <2>2. CASE OobHandler(ret)
    BY <1>2, <2>2 DEF QuietStep
  <2>3. CASE RedefHandler(ret)
    <3>1. Fits'
      BY <2>3, RedefSettled, SettledFits DEF Fits
    <3>2. phase = "redef" /\ phase' # "deliver" /\ (obj' = obj \/ obj' = Freed(obj, {cur.o}))
      BY <2>3 DEF RedefHandler, RedefReturns
    <3>3. \A e \in Obj : SameMake(obj'[e], obj[e]) /\ obj'[e].rows = obj[e].rows
      <4>1. CASE obj' = obj
        BY <4>1 DEF SameMake
      <4>2. CASE obj' = Freed(obj, {cur.o})
        BY <4>2, FreedIs, FreedRows DEF BInv, RInv, Pointers
      <4> QED
        BY <3>2, <4>1, <4>2
    <3> QED
      BY <1>1, <3>1, <3>2, <3>3, TallyAside DEF SameMake
  <2>4. CASE CloseHandler(ret)
    <3>1. /\ phase = "close" /\ phase' = "close" /\ pSd = "open"
          /\ UNCHANGED <<obj, nRet, desc, pSd>>
      BY <2>4 DEF CloseHandler, CloseReturns
    <3>2. Settled
      BY <3>1, ClosedSettled DEF Closed, Idle, Steady
    <3> QED
      BY <1>1, <3>1, <3>2, SettledFits, TallyAside
  <2>5. CASE AnnounceHandler(ret)
    <3>1. ret \in {0, 1} /\ SameButRows /\ AnnounceReturns(ret) /\ UNCHANGED obj
      BY <2>5, ReturnsAre, RowsSet DEF AnnounceHandler, BInv, RInv, Pointers
    <3>2. Fits'
      BY <1>4, <3>1, CallbackSettled, SettledFits DEF Fits
    <3>3. phase = "announce" /\ phase' # "deliver"
      BY <3>1 DEF AnnounceReturns
    <3> QED
      BY <1>1, <3>1, <3>2, <3>3, TallyAside
  <2>6. CASE DeliverHandler(ret)
    <3>1. ret \in {0, 1} /\ SameButRows /\ DeliverReturns(ret) /\ UNCHANGED obj
      BY <2>6, ReturnsAre, RowsSet DEF DeliverHandler, BInv, RInv, Pointers
    <3>2. Fits'
      BY <1>4, <3>1, CallbackSettled, SettledFits DEF Fits
    <3>3. /\ phase = "deliver" /\ phase' = "deliver" /\ nRet' = ret /\ pos \in Proc
          /\ UNCHANGED <<elem, cur>> /\ pos' = IF ret = 0 THEN pos + 1 ELSE NProc + 1
      BY <3>1 DEF DeliverReturns
    <3>4. nRet = 0
      BY <3>3, ReadAssumption DEF BInv, RInv, Phases, Proc
    <3>5. Counting' => Counting /\ \A C \in Cells : UnderWay(C)' = UnderWay(C)
      <4>1. ret = 0 => (pos' <= Bldr <=> pos <= Bldr)
        BY <1>4, <3>3, BldrAssumption, ReadAssumption DEF Proc
      <4> QED
        BY <3>1, <3>3, <3>4, <4>1 DEF Counting, UnderWay
    <3> QED
      BY <1>1, <3>1, <3>2, <3>5, TallyKept
  <2> QED
    BY <2>1, <2>2, <2>3, <2>4, <2>5, <2>6
<1> QED
  BY <1>3, <1>4

\* The builder's own steps that hand it no rows.
LEMMA BldrTally ==
  ASSUME BInv, TInv, BldrStep, ~OnPktData, ~OnDsData
  PROVE  Fits' /\ Tally' /\ UNCHANGED got
<1> USE DEF TInv
<1>1. \A o \in Datasets : o \in Obj /\ obj[o].st # "unused"
  BY AllUsed DEF Datasets, Fits
<1>2. CASE OnStreamDesc \/ OnPktDataForeign \/ OnOob \/ OnRedef
  <2>1. UNCHANGED <<got, obj>> \/ OnRedef
    BY <1>2 DEF OnStreamDesc, AnnounceHandler, OnPktDataForeign, OnOob, OobHandler, bldrVars
  <2>2. Idle /\ Called /\ IdleCallback /\ UNCHANGED got
    BY <1>2, IdleCallbackIs
       DEF IdleCallback, OnStreamDesc, OnPktDataForeign, OnOob, OnRedef, bldrVars
  <2>3. Datasets' = Datasets
    BY <2>2 DEF Idle, Datasets, Paired
  <2>4. CASE OnOob
    <3>1. QuietStep
      BY <2>4 DEF OnOob, QuietStep, Returns
    <3>2. UNCHANGED obj /\ phase \in {"tag", "announce", "oob"} /\ phase' # "deliver"
      BY <3>1, QuietPhase
    <3> QED
      BY <2>2, <2>3, <3>1, <3>2, QuietSettled, SettledFits, TallyAside
  <2>5. CASE OnRedef
    <3>1. RedefHandler(0) /\ UNCHANGED obj /\ phase = "redef" /\ phase' = "redef"
      BY <2>5 DEF OnRedef, RedefHandler, RedefReturns
    <3> QED
      BY <2>2, <2>3, <3>1, RedefSettled, SettledFits, TallyAside DEF Fits
  <2>6. CASE OnStreamDesc
    <3>1. /\ AnnounceReturns(0) /\ UNCHANGED obj /\ elem = "STREAM"
          /\ phase = "announce" /\ phase' = "announce"
      BY <2>6 DEF OnStreamDesc, AnnounceHandler, AnnounceReturns
    <3>2. SameButRows
      BY <3>1, RowsSet DEF BInv, RInv, Pointers
    <3> QED
      BY <2>2, <2>3, <3>1, <3>2, CallbackSettled, SettledFits, TallyAside DEF Fits
  <2>7. CASE OnPktDataForeign
    <3>1. /\ phase = "deliver" /\ elem = "PACKET" /\ UNCHANGED <<obj, elem>>
          /\ DeliverReturns(0) \/ (phase' = "crashed" /\ UNCHANGED <<desc, pSd>>)
      BY <2>7 DEF OnPktDataForeign, DeliverReturns
    <3>2. SameButRows /\ Steady
      BY <3>1, RowsSet DEF BInv, RInv, Pointers, Steady
    <3>3. CASE phase' = "crashed" /\ UNCHANGED <<desc, pSd>>
      <4>1. Settled
        BY <2>2, <3>1, <3>2, <3>3, ClosedSettled DEF Closed, Idle, BInv, RInv, Phases
      <4> QED
        BY <2>2, <3>3, <4>1, SettledFits DEF Tally, Counting
    <3>4. CASE DeliverReturns(0)
      <4>1. Fits'
        BY <2>2, <3>1, <3>2, <3>4, CallbackSettled, SettledFits DEF Fits
      <4>2. nRet = 0
        BY <3>1, <3>4, ReadAssumption DEF DeliverReturns, BInv, RInv, Phases, Proc
      <4>3. Counting /\ \A C \in Cells : UnderWay(C)' = UnderWay(C)
        BY <3>1, <4>2 DEF Counting, UnderWay
      <4> QED
        BY <2>2, <2>3, <3>1, <4>1, <4>3, TallyKept
    <3> QED
      BY <3>1, <3>3, <3>4
  <2> QED
    BY <1>2, <2>4, <2>5, <2>6, <2>7
<1>3. CASE OnPktDescReuse
  <2>1. /\ UNCHANGED <<got, obj, lPairs>> /\ phase = "announce" /\ phase' = "announce"
    BY <1>3 DEF OnPktDescReuse, AnnounceHandler, AnnounceReturns
  <2>2. Datasets' = Datasets
    BY <2>1 DEF Datasets, Paired
  <2> QED
    BY <1>3, <2>1, <2>2, ReuseFits, TallyAside
<1>4. CASE OnPktDescNew
  <2>1. UNCHANGED got /\ phase = "announce" /\ phase' = "announce"
    BY <1>4 DEF OnPktDescNew, AnnounceReturns
  <2> QED
    BY <1>1, <1>4, <2>1, NewDatasetFits, AddPairTally
<1>5. CASE OnDataSet
  <2>1. UNCHANGED got /\ phase = "announce" /\ phase' # "deliver"
    BY <1>5 DEF OnDataSet, AnnounceHandler, AnnounceReturns
  <2>2. CASE nRet' # 0
    BY <1>5, <2>1, <2>2, DataSetFits DEF Tally, Counting
  <2>3. CASE nRet' = 0
    <3>1. PICK ds \in Obj : Datasets' = Datasets \cup {ds} /\ obj[ds].rows = 0
      BY <1>5, <2>3, DataSetFits
    <3>2. UNCHANGED obj /\ Fits'
      BY <1>5, DataSetFits
    <3> QED
      BY <2>1, <3>1, <3>2, AddPairTally
  <2> QED
    BY <2>2, <2>3
<1>6. CASE OnClose
  <2>1. CloseTakes /\ UNCHANGED got
    BY <1>6, OnCloseTakes DEF OnClose
  <2>2. /\ phase = "close" /\ phase' = "close" /\ UNCHANGED <<nRet, desc, pSd, lDsMap, lPairs>>
        /\ pSd = "open"
    BY <2>1 DEF CloseTakes, CloseReturns
  <2>3. \A o \in Obj : /\ obj'[o].st = obj[o].st /\ obj'[o].kind = obj[o].kind
                        /\ obj'[o].fmt = obj[o].fmt /\ obj'[o].src = obj[o].src
    BY <2>1, TakenIs DEF BInv, RInv
  <2>4. \A o \in Obj : obj'[o].rows = obj[o].rows
    <3>1. \A o \in Obj : [obj[o] EXCEPT !.parent = "bldr"].rows = obj[o].rows
      BY DEF BInv, RInv, Pointers, Desc
    <3>2. \A o \in Obj : obj'[o] = IF o \in Taken THEN [obj[o] EXCEPT !.parent = "bldr"] ELSE obj[o]
      BY <2>1 DEF CloseTakes
    <3> QED
      BY <3>1, <3>2
  <2>5. Settled
    BY <2>2, <2>3, ClosedSettled DEF Closed, Steady
  <2>6. Datasets' = Datasets
    BY <2>2 DEF Datasets, Paired
  <2> QED
    BY <1>1, <2>1, <2>2, <2>3, <2>4, <2>5, <2>6, SettledFits, TallyAside
<1>7. CASE HandOver \/ CallerDeletes \/ ReadFailed \/ ReadFailedLost
  <2>1. /\ phase = "end" /\ phase' = "end" /\ UNCHANGED <<nRet, desc, pSd, lDsMap, lPairs, got>>
        /\ obj' = obj \/ \E S : obj' = Freed(obj, S)
    BY <1>7 DEF HandOver, CallerDeletes, ReadFailed, ReadFailedLost, Returned, DeleteStream,
       vars, readVars, BInv, BTypes
  <2>2. \A e \in Obj : /\ SameMake(obj'[e], obj[e]) /\ obj'[e].rows = obj[e].rows
                        /\ (obj'[e].st = obj[e].st \/ obj'[e].st = "freed")
    <3>1. CASE obj' = obj
      BY <3>1 DEF SameMake
    <3>2. ASSUME NEW S, obj' = Freed(obj, S)
          PROVE  \A e \in Obj : /\ SameMake(obj'[e], obj[e]) /\ obj'[e].rows = obj[e].rows
                                /\ (obj'[e].st = obj[e].st \/ obj'[e].st = "freed")
      BY <3>2, FreedIs, FreedRows DEF BInv, RInv, Pointers
    <3> QED
      BY <2>1, <3>1, <3>2
  <2>3. Settled
    <3>1. Steady
      BY <2>2 DEF Steady, SameMake
    <3>2. pSd' = "open" => pSd # "gone"
      BY <2>1
    <3> QED
      BY <2>1, <3>1, <3>2, ClosedSettled DEF Closed
  <2>4. Datasets' = Datasets
    BY <2>1 DEF Datasets, Paired
  <2> QED
    BY <1>1, <2>1, <2>2, <2>3, <2>4, SettledFits, TallyAside DEF SameMake
<1> QED
  BY <1>2, <1>3, <1>4, <1>5, <1>6, <1>7 DEF BldrStep

\* At first there is nothing to count.
LEMMA TInitInv == BInit => TInv
<1> SUFFICES ASSUME BInit PROVE TInv
  OBVIOUS
<1>1. /\ phase = "tag" /\ pSd = "null" /\ lPairs = <<>> /\ BInv
      /\ \A i \in Slot : desc[i] = NoObj
      /\ got = [i \in Slot |-> [l \in Lay |-> 0]]
  BY BInitInv DEF BInit, Init
<1>2. GotType /\ Kept /\ Fits
  BY <1>1 DEF GotType, Kept, Fits, PairsFit, SlotsFit, HeaderFits, Kinds, Serving
<1>3. ASSUME NEW C \in Cells
      PROVE  Balance(Total(Counts(obj), Part(C)), Total(Brought(got), C) + UnderWay(C))
  <2>1. Part(C) = {} /\ UnderWay(C) = 0
    BY <1>1 DEF Part, Datasets, UnderWay
  <2>2. Total(Counts(obj), Part(C)) = 0
    BY <2>1, TotalEmpty
  <2>3. Weights(Brought(got), C) /\ \A x \in C : Brought(got)[x] = got[x[1]][x[2]]
    BY <1>2, BroughtIs
  <2>4. \A x \in C : Brought(got)[x] = 0
    <3>1. \A x \in Slot \X Lay : x[1] \in Slot /\ x[2] \in Lay
      OBVIOUS
    <3>2. \A i \in Slot, l \in Lay : got[i][l] = 0
      BY <1>1
    <3> QED
      BY <2>3, <3>1, <3>2 DEF Cells
  <2>5. Total(Brought(got), C) = 0
    BY <2>3, <2>4, TotalNothing
  <2> QED
    BY <2>1, <2>2, <2>5 DEF Balance
<1> QED
  BY <1>2, <1>3 DEF TInv, Tally

\* All of it stays together.
LEMMA RowsInvariance == BSpec => []TInv
<1>1. BInv /\ TInv /\ [BNext]_allVars => TInv'
  <2>1. ASSUME BInv, TInv, ReaderStep \/ (pos # Bldr /\ HandlerStep), UNCHANGED bldrVars
        PROVE  Fits' /\ Tally' /\ UNCHANGED got
    BY <2>1, OthersTally DEF bldrVars, Idle
  <2>2. ASSUME BInv, TInv, OnPktData \/ OnDsData
        PROVE  Fits' /\ Tally' /\ GotType'
    <3>1. /\ phase = "deliver" /\ DeliverReturns(0) /\ elem \in {"PACKET", "DATASET"}
      <4>1. CASE OnPktData
        BY <4>1 DEF OnPktData, DeliverReturns
      <4>2. CASE OnDsData
        BY <4>2 DEF OnDsData, DeliverHandler, DeliverReturns
      <4> QED
        BY <2>2, <4>1, <4>2
    <3>2. Idle /\ SameButRows
      <4>1. IdleCallback
        BY <2>2 DEF IdleCallback
      <4>2. phase' # "crashed"
        BY <3>1 DEF DeliverReturns
      <4>3. ~OobHandler(0) /\ ~RedefHandler(0) /\ ~AnnounceReturns(0)
        BY <3>1 DEF AnnounceReturns, OobHandler, RedefHandler, RedefReturns
      <4> QED
        BY <4>1, <4>2, <4>3, <2>2, IdleCallbackIs
    <3>3. Fits'
      BY <2>2, <3>1, <3>2, CallbackSettled, SettledFits DEF TInv, Fits
    <3> QED
      BY <2>2, <3>3, PktDataTally, DsDataTally
  <2>3. ASSUME BInv, TInv, BldrStep, ~OnPktData, ~OnDsData
        PROVE  Fits' /\ Tally' /\ UNCHANGED got
    BY <2>3, BldrTally
  <2>4. ASSUME BInv, TInv, UNCHANGED allVars
        PROVE  TInv'
    BY <2>4 DEF allVars, bldrVars, vars, readVars, TInv, GotType, Kept, Fits, PairsFit, SlotsFit,
       HeaderFits, Kinds, Serving, Served, Coming, Datasets, Paired, Tally, Counting, Part,
       UnderWay
  <2>5. GotType /\ UNCHANGED got => GotType'
    BY DEF GotType
  <2>6. ASSUME BInv, TInv, BNext
        PROVE  Fits' /\ Tally' /\ GotType'
    BY <2>1, <2>2, <2>3, <2>5, <2>6 DEF BNext, BldrStep, TInv
  <2> QED
    BY <2>4, <2>6, KeptStep DEF TInv
<1> QED
  BY <1>1, TInitInv, BuilderInvariance, PTL DEF BSpec

\* Between packets nothing is under way, and no error has come back.
LEMMA AtBoundary ==
  ASSUME BInv, TInv, Boundary, NEW C \in Cells
  PROVE  /\ Balance(Total(Counts(obj), Part(C)), Total(Brought(got), C))
         /\ Total(Counts(obj), Part(C)) \in Nat /\ Total(Brought(got), C) \in Nat
<1>1. nRet = 0 /\ phase \in {"tag", "end"}
  BY DEF Boundary, Result, BInv, RInv, Phases
<1>2. UnderWay(C) = 0 /\ Counting
  BY <1>1 DEF UnderWay, Counting
<1>3. Balance(Total(Counts(obj), Part(C)), Total(Brought(got), C) + 0)
  BY <1>2 DEF TInv, Tally
<1> QED
  BY <1>3, TotalsAre DEF TInv, Balance

\* The sums of the model are those that were counted.
LEMMA RowsTotal ==
  ASSUME BInv, NEW C
  PROVE  Rows(Part(C)) = Total(Counts(obj), Part(C))
<1>1. PICK w, S : w = Counts(obj) /\ S = Part(C)
  OBVIOUS
<1>2. \A o \in S : w[o] = obj[o].rows
  BY <1>1, PartIs DEF Counts
<1>3. Weights(w, S)
  BY <1>1, PartIs
<1> DEFINE Step(f, s) == IF s = {} THEN 0 ELSE obj[Picked(s)].rows + f[s \ {Picked(s)}]
           Sums(f) == f = [s \in SUBSET S |-> Step(f, s)]
<1>4. \A s \in SUBSET S : s # {} => Picked(s) \in S
  BY Zenon DEF Picked
<1>5. ASSUME NEW f PROVE Sums(f) <=> SumsUp(f, w, S)
  <2> DEFINE Other(s) == IF s = {} THEN 0 ELSE w[Picked(s)] + f[s \ {Picked(s)}]
  <2>1. \A s \in SUBSET S : Step(f, s) = Other(s)
    BY <1>2, <1>4
  <2>2. [s \in SUBSET S |-> Step(f, s)] = [s \in SUBSET S |-> Other(s)]
    <3> HIDE DEF Step, Other
    <3> QED
      BY <2>1
  <2> QED
    BY <2>2, Zenon DEF SumsUp
<1>6. PICK h : h = CHOOSE f : Sums(f)
  OBVIOUS
<1>7. Rows(S) = h[S]
  BY <1>6 DEF Rows, MapThenSumSet, MapThenFoldSet, Picked
<1>8. SumsUp(h, w, S)
  <2> HIDE DEF Sums
  <2>1. \E f : Sums(f)
    BY <1>3, <1>5, SumExists
  <2>2. Sums(h)
    BY <1>6, <2>1, Zenon
  <2> QED
    BY <1>5, <2>2
<1>9. Total(w, S) = h[S]
  BY <1>3, <1>8, TotalFrom
<1> QED
  BY <1>1, <1>7, <1>9, Zenon

\* And what was handed over.
LEMMA GivenTotal ==
  ASSUME GotType, NEW ids, NEW lays, ids \X lays \in Cells
  PROVE  Given(ids, lays) = Total(Brought(got), ids \X lays)
<1>1. PICK w, S : w = Brought(got) /\ S = ids \X lays
  OBVIOUS
<1>2. (\A x \in S : w[x] = got[x[1]][x[2]]) /\ Weights(w, S)
  BY <1>1, BroughtIs
<1> DEFINE Step(f, s) == IF s = {} THEN 0
                         ELSE got[Picked(s)[1]][Picked(s)[2]] + f[s \ {Picked(s)}]
           Sums(f) == f = [s \in SUBSET S |-> Step(f, s)]
<1>3. \A s \in SUBSET S : s # {} => Picked(s) \in S
  BY Zenon DEF Picked
<1>4. ASSUME NEW f PROVE Sums(f) <=> SumsUp(f, w, S)
  <2> DEFINE Other(s) == IF s = {} THEN 0 ELSE w[Picked(s)] + f[s \ {Picked(s)}]
  <2>1. \A s \in SUBSET S : Step(f, s) = Other(s)
    BY <1>2, <1>3
  <2>2. [s \in SUBSET S |-> Step(f, s)] = [s \in SUBSET S |-> Other(s)]
    <3> HIDE DEF Step, Other
    <3> QED
      BY <2>1
  <2> QED
    BY <2>2, Zenon DEF SumsUp
<1>5. PICK h : h = CHOOSE f : Sums(f)
  OBVIOUS
<1>6. Given(ids, lays) = h[S]
  BY <1>1, <1>5 DEF Given, MapThenSumSet, MapThenFoldSet, Picked
<1>7. SumsUp(h, w, S)
  <2> HIDE DEF Sums
  <2>1. \E f : Sums(f)
    BY <1>2, <1>4, SumExists
  <2>2. Sums(h)
    BY <1>5, <2>1, Zenon
  <2> QED
    BY <1>4, <2>2
<1>8. Total(w, S) = h[S]
  BY <1>2, <1>7, TotalFrom
<1> QED
  BY <1>1, <1>6, <1>8, Zenon

\* The slots of the table are finitely many.
LEMMA SlotFinite == IsFiniteSet(Slot)
BY FS_Interval, ReadAssumption DEF Slot

(* Every row the builder was handed is in a dataset of that packet's layout, *)
(* where every processor takes the rows of das3: at every packet boundary    *)
(* and after a successful read.                                              *)
THEOREM RowsAllKept ==
  ASSUME HasDsData = Proc
  PROVE  BSpec => []RowsKept
<1>1. BInv /\ TInv => RowsKept
  <2> SUFFICES ASSUME BInv, TInv, Boundary, NEW l \in Lay
               PROVE  Rows({o \in Datasets : obj[o].fmt.lay = l}) = Given(Slot, {l})
    BY DEF RowsKept
  <2>1. PICK C : C = Slot \X {l}
    OBVIOUS
  <2>2. C \in Cells
    BY <2>1, SlotFinite, FS_Singleton, FS_Product DEF Cells
  <2>3. Part(C) = {o \in Datasets : obj[o].fmt.lay = l}
    <3>1. \A o \in Datasets : obj[o].src \in Slot
      BY AllUsed, LayoutOf DEF Datasets, TInv, Fits, PairsFit
    <3> QED
      BY <2>1, <3>1 DEF Part
  <2>4. Rows(Part(C)) = Total(Counts(obj), Part(C))
    BY RowsTotal
  <2>5. Given(Slot, {l}) = Total(Brought(got), C)
    BY <2>1, <2>2, GivenTotal DEF TInv
  <2>6. Total(Counts(obj), Part(C)) = Total(Brought(got), C)
    BY <2>2, AtBoundary DEF Balance
  <2> QED
    BY <2>3, <2>4, <2>5, <2>6
<1> QED
  BY <1>1, RowsInvariance, BuilderInvariance, PTL

(* No dataset mixes the rows of two packet IDs: those of one ID never have   *)
(* more rows than it brought.                                                *)
THEOREM RowsNotMixed ==
  ASSUME IsFiniteSet(Lay)
  PROVE  BSpec => []NoMixedRows
<1>1. BInv /\ TInv => NoMixedRows
  <2> SUFFICES ASSUME BInv, TInv, Boundary, NEW i \in Slot
               PROVE  Rows({o \in Datasets : obj[o].src = i}) <= Given({i}, Lay)
    BY DEF NoMixedRows
  <2>1. PICK C : C = {i} \X Lay
    OBVIOUS
  <2>2. C \in Cells
    BY <2>1, FS_Singleton, FS_Product DEF Cells
  <2>3. Part(C) = {o \in Datasets : obj[o].src = i}
    <3>1. \A o \in Datasets : obj[o].fmt.lay \in Lay
      BY AllUsed, LayoutOf DEF Datasets, TInv, Fits, PairsFit
    <3> QED
      BY <2>1, <3>1 DEF Part
  <2>4. Rows(Part(C)) = Total(Counts(obj), Part(C))
    BY RowsTotal
  <2>5. Given({i}, Lay) = Total(Brought(got), C)
    BY <2>1, <2>2, GivenTotal DEF TInv
  <2>6. Total(Counts(obj), Part(C)) <= Total(Brought(got), C)
    BY <2>2, AtBoundary DEF Balance
  <2> QED
    BY <2>3, <2>4, <2>5, <2>6
<1> QED
  BY <1>1, RowsInvariance, BuilderInvariance, PTL
=============================================================================
