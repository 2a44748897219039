# das2C: models, checks and proofs

This directory holds TLA+ models of das2C, the C library (`das2/`) and the stream
utilities (`utilities/`) of the das2/das3 space physics data system, the TLC
configurations that check them on small instances, and proofs that hold for every
instance. `PROJECT.json` lists the runs, says which lines each definition stands
for, which fault of the code each property would notice (`mutants`; the faulty
variants stand beside the definitions they replace), and which hazards of the
code the properties are for.

1. [The system](#1-the-system)
2. [The modules](#2-the-modules)
3. [The runs](#3-the-runs)
4. [What is proved](#4-what-is-proved)
5. [Where code and documentation disagree](#5-where-code-and-documentation-disagree)
6. [What is not modelled](#6-what-is-not-modelled)
7. [Plan](#7-plan)

## 1. The system

A das stream is a sequence of tagged packets: a stream header, a header for each
packet ID, data packets, and comments or exceptions out of band. Programs read
such streams, change them and write them again; client programs read a whole
stream into datasets. The library is single threaded with one exception (`dft.c`).
What makes it hard is not concurrency but order: callbacks that may fail at any
point of a packet sequence the program does not control, objects whose owner
changes while others point to them, arrays whose shape is known only from the
order values arrived in, servers that refuse, and files that come and go.

| component | state it keeps | operations | hard part | correct when |
|---|---|---|---|---|
| reader (`io.c`, `stream.c`) | read mode, stream descriptor with its table of 100 packet descriptors, processors, return codes | `DasIO_readAll`: tag, size, header, data, out of band, close | redefinition frees a descriptor others point to; a handler may fail anywhere; IDs come from the input | data reaches handlers only under the header announced to them; nothing is called after an error; the table holds live objects; everything is freed or handed on |
| builder (`builder.c`) | own stream, `lDsMap`, `lPairs` of layouts and datasets | callbacks of the reader, release, deletion | datasets belong to the reader until the end; one layout may serve several IDs | every row is in a dataset of its layout; the caller owns every dataset once; nothing freed is used |
| arrays (`array.c`) | index buffers, element buffer, roll flags, shape | append, markEnd, qubeIn, clear, putAt, lookup, slices, size, stride | offsets of one level are positions in the next; fixed and ragged extents mix | each stored element has exactly one address, in storage order; slices and sizes agree with it |
| DFT (`dft.c`) | `g_nExecCount`, mutex, condition, plans with user counts | plan, destroy, make a converter, calculate | FFTW's planner must be alone; waits that must end | planner and transforms exclude each other; counters are exact; planner calls return |
| buffers (`buffer.c`) | `sBuf`, `pWrite`, `pReadBeg`, `pReadEnd` | write, read, seek, fill from file or socket | short reads | read begin <= read end <= write point <= length |
| writer (`io.c`, `send.c`) | `bSentHeader`, `bSentHdr` of each descriptor, compression state | header, packet header, data, comment, exception | flags live partly in descriptors shared by outputs | every output is a stream a reader accepts |
| transports (`io.c`) | file, socket, SSL or zlib state | chunked reads and writes | partial sends, full buffers, end of input | bytes arrive once and in order |
| codecs (`codec.c`) | encoding flags, separators, array written to | decode, encode, run tags, `{N}` items | empty items, collapsed terminators | decoding what was encoded gives the array back |
| iterators (`iterator.c`) | current index, length of the current run | init, next | ragged lengths looked up ahead | every address once, in order |
| datasets, dimensions, variables | tree of arrays and variables, reference counts | parse header, decode and encode a record, clear, evaluate | codecs take turns at one packet, each for its own array | a record goes out in one packet and comes back whole, in all arrays or none |
| network (`http.c`, `credentials.c`) | socket, SSL, table of credentials | connect, redirect, authenticate and retry; add, load, save, withdraw credentials | a rejected credential must not be tried for ever; every way out has its own clean-up | each request ends; what was rejected is not sent again; nothing stays open |
| catalog (`node.c`) | tree of nodes, child cache | find a node by path, load, delete | partial paths, nodes loaded twice | a node is cached once and freed once |
| reducers (`das2_bin_*.c`) | open bin, sums, counts and extremes of each packet ID | callbacks of the reader that write | an ID defined again while its bin is open; the end | no row is counted twice or lost; a row is under the header of what it stands for |
| cache reader (`das2_cache_rdr.c`) | list of files, one output stream | list the files of a range, callbacks of the reader that write | files come and go; headers that repeat are left out | every file there is served, in order, each row under its header |

They interact by calls and shared objects only: the reader fills descriptors and
calls processors (`processor.h`), the builder and the utilities are processors,
datasets hold arrays that codecs append to, writers encode from the same
descriptors.

## 2. The modules

| module | models | state and actions |
|---|---|---|
| `DftExecGate` | what `dft.h` promises | abstract: the set of running transforms and the planner's thread; a readers-writer gate |
| `DasDft` | `dft.c` | a program counter per thread, one action per step between two synchronisation points; plan slots that `free` hands out again |
| `DasIORead` | read side of `io.c`, `stream.c` | phase of `DasIO_readAll`, descriptor table, heap of descriptors, packet in progress; one action per outcome of a packet and one per callback of a processor |
| `DasDsBldr` | `builder.c` | extends `DasIORead`: the builder is processor `Bldr`; its callbacks are the reader's callback actions with the builder's effect added, its datasets live on the reader's heap |
| `RaggedArray` | what `array.h` promises | abstract: a function from addresses to values, the last address, the lowest index marked as finished; appending is an odometer |
| `ArrayOps` | `array.c` | each C function as an operator on a record of index buffers, element buffer and roll flags |
| `DasAry` | `array.c` | one array under any sequence of the public operations of `ArrayOps` |
| `RecordChannel` | what `dataset.h` promises of packets | abstract: a record goes out, and is received whole or refused |
| `DasDsRecord` | records of `dataset.c`, runs and items of `codec.c`, `DasAryIter` | two datasets and a packet between them: encode, decode, clear; another writer may build the packet. The arrays are those of `ArrayOps` |
| `DasIOWrite` | write side of `io.c` | operators on a record that stands for an output: header sent, compressed, what waits in the buffer, frames that have left |
| `DasCacheRdr` | `das2_cache_rdr.c`, `tnorm`, `PktDesc_equalFormat` | both passes of `timeBinFileList`, the callbacks, the end; the files change meanwhile. Writes with `DasIOWrite` |
| `DasBinAvg` | `das2_bin_avg.c`, `das2_bin_avgsec.c`, `das2_bin_peakavgsec.c` | one action per callback, the tool is a variable; the sums of a bin are the rows in it. Writes with `DasIOWrite` |
| `DasHttpAuth` | `http.c`, `credentials.c` | the table of credentials and one request: connect, answer of the server, redirect, refusal, question to the user, clean-up |
| `DasDftProofs`, `DasDsBldrProofs`, `DasAryProofs`, `DasHttpAuthProofs`, `DasCacheRdrProofs`, `DasBinAvgProofs` | | theorems about the module of that name; `DasDsBldrProofs` begins with those about `DasIORead`, which the builder extends |
| `DasIOWriteProofs` | | lemmas about the writer's operators, for the proofs about its two clients |
| `LeastElement` | | lemmas about least numbers, induction over an interval and functions defined by recursion, for the proofs about tables, outputs, arrays and datasets |
| `MC...` | | inputs, shapes, layouts and servers for TLC |

Choices made when reading the code:

- **DFT.** A critical section with nothing observable inside (lock, one assignment,
  unlock) is one step. Spurious wakeups happen. `del_DftPlan`'s inner wait uses a
  mutex that was never locked: a debug build refuses, another one waits; both are
  behaviours. The numbers are abstracted.
- **Reader.** A packet is a record of its tag, ID, encoding, whether its size is
  usable, what it holds and whether that parses. `das_error` returns
  (`das_return_on_error`); with the exit disposition a behaviour ends at its first
  error. A dereference of `NULL` or of a freed descriptor leads to the phase `crashed`.
  `Fails` are the processors whose callbacks may return an error; `Models` are the
  values `DasIO_model` may be given, `Reuse` those under which the input may define an
  ID again.
- **Builder.** A layout is a letter (`lay`) and a decoration (`deco`) that
  `hasContainer` does not compare. An assertion that fails either stops the program
  or, in a build without assertions, is passed; both are behaviours.
- **Arrays.** A buffer is a sequence; index buffer `k` is dimension `k - 1` of the C
  code. Memory is always had. Two constants name habits of callers the code
  depends on without checking them: `Straddle` (blocks that end inside a record
  they did not begin in) and `QubeAll` (`qubeIn` on an index above the last). The
  library's own callers have neither: codecs append whole records or single values.
  A run may be marked at any time, also before its first value.
  `RA` in `DasAry` is the refinement mapping: `cell` is the function from the
  addresses `Array_flat` accepts to the elements it finds there.
- **Records.** A packet is a sequence of tokens: values, separators, run terminators,
  run tags, item lengths, padding; a value is a model value, `Nul` the byte that ends
  a stored string. Items of text are separated by marks or by blanks (`blank`, the flag
  `DASENC_EAT_SPACE`): a decoder skips blanks before an item, so that between blanks no item is
  of no text, while between marks that is a missing value or an empty string. What another
  writer may send is built from a tree of runs in the `Forms` the documentation allows (a
  terminator more or less at the end of a packet, padding, missing values without text).
  `Habits` are five things the decoder accepts and gets wrong; the run leaves them out and
  section 5 names them. A string has no blanks inside. `RC` is the
  refinement mapping: what the receiver holds is read back through `lengthIn` and `getIn`.
- **Writer.** An output is a value, so that programs with an output hold it in a
  variable. A frame is one packet as a reader would see it. With compression frames
  wait in a buffer of `OutSz` frames. A refused call sets `failed`; the programs that use
  it run with `DASERR_DIS_EXIT`, and stop.
- **Cache reader.** A time is six whole numbers; `Tnorm` is the C function without
  fractions. A request says what its range is, how many components name a block and
  which rows the blocks may hold; which blocks have a file is chosen freely, and
  `MaxChange` files may come or go until they are opened. Files may break off anywhere
  and repeat packet headers with any format.
- **Reducers.** Sums and counts are sets of rows: a mean is the set it is taken over,
  so that a property can say which rows it stands for. `hi` and `lo` are numbers because
  where they start matters. A layout is `wide` when it has more planes than the reducer
  keeps room for. `-r` and `-s` of `das2_bin_avgsec` are on.
- **Network.** A token stands for an encoded user name and password, a server for its
  string and realm. Descriptors are numbered afresh in each request, since what a request
  leaves open nobody can close. `rejected` and `authFor` are history.

## 3. The runs

`pass` runs finish without error; a `violation` run reproduces one disagreement of
section 5.

| run | question | instance |
|---|---|---|
| `dft_any_program` | does the planner ever run beside a transform, is the counter exact, is the gate implemented, also when plans in use are deleted and their slots used again | 3 threads, 1 slot, both converters, 3 calls each; threads and slots symmetric |
| `dft_live` | with Dft objects, does every planner call return, is no wakeup lost, is the user count exact | 2 threads, 2 slots, polite deletion, fair |
| `dft_lost_wakeup` | violation: with Psd objects a planner call may sleep for ever | 2 threads, 2 slots, fair |
| `read_any_input` | order, ownership and error handling for any das2 input and, under the version 3 model, any das3 input | 2 processors that may fail, 2 IDs and one beyond the table, 5 packets, fair |
| `bldr_any_input` | are rows kept and kept apart when IDs change between shared layouts; do datasets survive the reader; who owns what after success and failure | das2 and das3 input, 2 IDs and, for das3, the header of ID 0 that the table refuses, 4 layouts, 7 packets, a second processor that may fail |
| `bldr_redefined3` | violation: a das2 stream that redefines an ID, read as `stream_from_path` does | 5 packets |
| `ary_any_use` | does an array of any shape implement the map from addresses to values | 8 shapes of rank 1 to 3, blocks of up to 2 values, 4 or 5 values in all |
| `record_any_packet` | does a record come back as it was sent, whatever form a writer gives it; are packets that are no record refused | 17 layouts of one to three variables, marks or blanks between items, runs of up to 2 items, 2 records (1 in rank 4) |
| `cache_any_request` | are all files found, all rows sent, in order and under their header, while files come and go | 6 ranges across a leap day, the end of a February, a new year, a century, an hour and a minute; blocks of 1, 3, 4, 5 and 6 components; 3 formats, 2 headers in a file, 1 change |
| `cache_monthly` | violation: with blocks of a month a file that is there is left out | January to April, no changes |
| `bin_any_stream` | is every row in one open bin or one row of the output (in the end in the output, when it is not compressed), under the right header, with the extremes of its bin | all 3 reducers; 2 IDs, 3 layouts, times 0, 2 and 3 in bins of 2, start at 1 or at the first row, 4 packets after the header, with and without compression |
| `http_any_use` | which credential is sent again, which is withdrawn; does each request return and leave nothing open | 2 servers, one with SSL and a name too long to save, 2 tokens of which one is accepted, 3 entries, 3 key files, 2 questions, 1 redirect, fair |

Why the bounds are enough to be interesting:

- Three threads are the least with two transforms, or two planner calls, and a
  third party that wakes or blocks them; one slot forces reuse after `free`.
- Five packets are a stream header, a packet header, data, a redefinition (or an
  error) and one packet more to see what became of the state; the builder needs two
  more to go back to the first layout and to send data under it. IDs 1 and 2 are two
  packets, ID 0 and an ID beyond `MaxSlot` are the edges of the table.
- Two processors are the least with "one before" and "one after" a failing one.
- Extents of 2 and runs of up to 5 values make every index roll at least once in
  rank 2 and 3, at the fixed and at the ragged positions of a shape; `Clear` starts again.
- The layouts of records have each encoding alone, first and last in a packet, under
  one and two ragged indexes, and with a fixed index before, between and after them. Runs
  of values and strings are bounded by counts, tags, terminators and the end of the packet,
  with marks and with blanks between items. The run leaves out one packet of these layouts, an
  empty run of values between blanks that the packet bounds (`Habits`, "empty frame"). Between
  marks the same run has the bytes of one missing value, and that is the record it stands for.
  Two records show that the second continues where the first ended.
- The ranges of the cache reader cross each kind of boundary `tnorm` treats apart, and
  each has a row before it, at its begin, inside and at its end. One change is enough to
  make the two passes differ; two would change back.
- Four packets are a header, two rows that may share a bin, and a header or row that
  flushes it; the other ID may be in between. The frames of a run never fill `OutSz`.
- Three entries are the least in which two answer for a url and a third does not; two
  questions allow a wrong answer before a right one.

Deadlock: reads and requests end and programs stop making calls, so those
configurations say `CHECK_DEADLOCK FALSE`; an array can always be cleared, and a record
run says when it has stopped, so these two check for deadlock.

Fairness is stated in four runs. In `dft_live` and `dft_lost_wakeup` threads go on
inside a library call and a mutex that is free again and again is obtained (strong
fairness of the steps that lock); nobody has to make a call. In `read_any_input` the
one thread goes on (weak fairness of the next-state relation), and an input of at most
`MaxPkt` packets ends, as files do. In `http_any_use` a request goes on once it has been
made (weak fairness of `Step`), servers and users answer or the connection fails; which
of the two is never forced.

## 4. What is proved

Each theorem is of the specification, for every value of the constants the named
assumptions of its module allow: any number of threads, processors, IDs, layouts,
entries, files and packets. A property of the same name as in a run is the one the
run checks on its instance.

**DFT** (`DasDftProofs`; assumes `DftAssumption`)

| theorem | says |
|---|---|
| `TypeCorrect` | `TypeOK` |
| `CounterExact` | `g_nExecCount` is the number of threads between its increment and its decrement, through every early return (`ExecCountExact`) |
| `PlannerSafe` | no transform and no other planner call runs while a thread is inside the planner (`PlannerExclusion`) |
| `GateImplemented` | `dft.c` implements `DftExecGate` (`ImplementsGate`) |
| `UsersExact` | if plans are deleted only when nobody uses them, each plan counts its users (`UserCountExact`) |
| `WakeupsNotLost` | if besides no Psd object is used, whoever sleeps will be woken by a transform in progress (`NoLostWakeup`) |

`ExecCountExact` and the exclusion are not inductive alone: that a planner call
found the counter at zero says nothing a step later unless the thread still holds
the mutex, and that it does is a fact about program counters. `IInv` therefore joins
types (`Typing`), plans that calls refer to (`Refs`), "a thread between lock and
unlock owns the mutex" (`Holds`), the exact counter, and "while a thread plans the
counter is zero" (`PlannerAlone`). `StepInv` shows each action preserves it; the
steps that leave the counted set alone are treated together (`QuietCounted`), the
two that change it with lemmas on cardinalities (`CountedUp`, `CountedDown`). For the
users of plans `UInv` adds that a thread has one converter at a time, that a plan not
alive or about to go has no user, and that a converter's plan keeps its length: without
the last a calculation takes the return that wakes nobody. `Polite` is a
hypothesis of the last two because `del_DftPlan` does not look (section 5), and
`dft_lost_wakeup` shows what Psd objects do.

**Reader** (first part of `DasDsBldrProofs`; `ReadAssumption`, `InputAssumption`)

| theorem | says |
|---|---|
| `TypeCorrect` | `TypeOK` |
| `HeaderBeforeData` | data is handed on only under the live descriptor every processor was last given for that ID (`DataFollowsHeader`) |
| `TableSafe` | redefinition leaves no freed descriptor in the table, and a das2 input (`Das2Only`) never makes the reader use what is not there (`TableLive`) |
| `ReadLeaksNothing` | a read that succeeds has freed every descriptor (`NothingLeaked`) |

The invariant says of the descriptor in progress what the phase implies (`Phases`),
that the table holds live descriptors, each once (`Table`), that every processor
knows those in the table but for the announcement under way (`Announced`), and that
without an error what is alive is in the table or on its way there (`Owned`).
`DataFollowsHeader` speaks of one moment; it holds because `Announced` is kept by
every step in between. `Owned` is apart since the builder takes descriptors away.

**Builder** (`DasDsBldrProofs`; also `BldrAssumption`)

| theorem | says |
|---|---|
| `BuilderTypeCorrect` | `BTypeOK` |
| `StreamFreesAll` | after the stream is deleted only datasets without an owner and a header the table refused are left (`AllFreed`) |
| `DatasetsOutliveReader` | the datasets outlive the reader and nothing freed is used (`DatasetsSurvive`) |
| `FirstIsOwned` | the caller's stream owns the first dataset of every ID (`FirstOwned`) |
| `RowsAllKept` | the datasets of a layout have exactly the rows the builder was handed for it (`RowsKept`) |
| `RowsNotMixed` | the datasets made for an ID never have more rows than it brought (`NoMixedRows`) |

`BInv` keeps the reader's invariant but for `Owned`, which `Owners` replaces by the full list
of who may own what is alive; that it survives the steps of the builder is why
`RInv` does not speak of owners. `SInv` is about the pointers the builder keeps: a descriptor
is found under its own ID and the first pair of an ID is in the builder's stream (`Places`), the
dataset in the table is the one in the builder's stream (`Tracked`), the pairs are
alive (`Alive`), the close handler takes over what is in the table (`Closing`), and
so it stays when the table goes (`Ended`). Steps in which the builder has no part
are one case (`Calm`), callbacks in which it does nothing another (`IdleCallback`).
`DatasetsOutliveReader` and `FirstIsOwned` assume `DatasetsOnce` (no das3 dataset is defined twice):
`bldr_redefined3` is what happens otherwise. The first of them also assumes
`EarlierSucceed`, no processor before the builder fails: a close handler that does
keeps the builder's from running (section 5). The library's own functions read with
the builder alone.

The theorems about rows need to know where rows go before they are counted. `Served` says that
once the builder has seen the header of an ID its rows go to a pair of that layout, or are in a
dataset that is paired; `Fits` adds that pairs and table are of one kind, layout and ID, and
that a header brings no rows. `Tally` is the count, for any finite set of pairs of an ID
and a layout at once: the datasets of these pairs have the rows that came, and the one
that is under way where the reader appends a row of das3 before the handlers are called
(`UnderWay`). The two theorems are its instances for one layout and for one ID. The sums are folds
of the community modules; the section *sums over finite sets* shows that they do not depend on
the order in which elements are picked (`SumAny`), and their other laws from that.
`RowsAllKept` assumes that every processor takes the rows of das3 (`HasDsData = Proc`): the
rows are dropped for all if one does not (`io.c:1281`), and then "exactly" is "at most".
`RowsNotMixed` assumes no more than that the layouts are finitely many, without which the sum means
nothing.

**Network** (`DasHttpAuthProofs`; `HttpAssumption`, `KeyFileAssumption`)

| theorem | says |
|---|---|
| `TypeCorrect` | `TypeOK` |
| `SpecificBeforeGeneral` | no entry comes after one that answers everything it could be asked for (`SpecificFirst`) |
| `SavedIsLoaded` | a table saved and loaded answers as before (`SaveThenLoad`) |
| `RefusedNotResent` | a refused credential is sent again only when another entry hides it from withdrawal (`ResendOnlyShadowed`) |
| `RefusedWithdrawn` | a credential is withdrawn only if it is the one that was sent, redirects aside (`WithdrawsWhatWasSent`) |
| `AllClosed` | a request that has returned left nothing open, the three ways out in `loose` aside (`NothingLeftOpen`) |

`Ordered` says that of two entries that may answer the same question the specific
one is first, which insertion keeps only if there is one entry for each key.
`SentFirst` relates the token in use to the first entry that answers for the url it
was found for, valid or not: the one `CredMngr_authFailed` withdraws. `Held` says at each point of a
request which descriptor is open. Loading and saving are loops over a table; their
lemmas (`LoadSteps`, `SaveSteps`) are inductions over the lines.

**Cache reader** (`DasCacheRdrProofs`; `CacheAssumption`, `OutAssumption`)

| theorem | says |
|---|---|
| `RoomForNames` | the second pass never lists more files than the first made room for, and the file being read is one of them |
| `RowsUnderOwnHeader` | each row sent is read under the header of its own format (`UnderOwnHeader`) |
| `RangeIsSent` | `RowsServed` but for the order, for any requests: the output is a stream a reader accepts, only rows of the range are sent, in the end all those of the files listed, or a message (`RowsInRange`) |
| `TypesKept` | `TypeOK`: the passes are always at a time of six whole fields |
| `RowsSentInOrder` | the same with the order of time (`RowsServed`) |
| `BlocksListed` | files that stay are listed, once and in order, unless one comes meanwhile (`BlocksServed`) |

`Listing` bounds the list and says where the rest of a file comes from. `Sending` says the
frames sent so far form a stream whose rows stand under their own formats (`Formed`), and that the
format last sent is the current header of the output, and the input's own once it was sent or found
equal (`Following`). `Delivered` says which rows of the files so far are sent or still to
be read. `RowsUnderOwnHeader`, `RangeIsSent` and `RowsSentInOrder` assume `TagsListed`, no Y tags given
by an interval: `PktDesc_equalFormat` does not compare intervals (section 5).

The other three rest on the calendar. Days are numbered from a fixed one (`Years`, `DaysBefore`), and
the recursion of `DateOf` over years is shown to give the date of that number for every day,
also one before its year (`DatedAll`): so `Tnorm` gives a time of the calendar, the day
carried into being the one meant (`TnormIs`). A block has a number (`BlockNo`) that orders blocks
as `cmpArrays` does (`BlockNoOrders`), and one step of a pass adds one to it (`PassesGoOn`), for
months at least one. `Passing` says that the second pass is at a time of the calendar later than
the blocks listed, which are in order; `Orderly`, that the rows sent are in order and before those left;
`Seeing`, that while no file has come the first pass has counted no fewer than the staying files
behind it, and in the second those behind are listed and there is room for those ahead. At
the end of the passes both are about all of them, as a row inside the range is
of a block between its ends (`BeginCovers`, `EndCovers`). The hypotheses, all met by the
requests of `cache_any_request`:

- `RealBegins`: a range begins at a date of the calendar in a year with more than two
  digits; `tnorm` adds 1900 to the others.
- `RealRequests`, for `BlocksListed` only: so does everything in a request; blocks are no months (the first
  pass then leaves one out, `cache_monthly`); and a range in blocks of a year, a day or an hour does not
  reach into its last block by seconds alone (`das2_cache_rdr.c:378`, section 5).

**Reducers** (`DasBinAvgProofs`; `BinAssumption`, `LayoutAssumption`, `OutAssumption`)

| theorem | says |
|---|---|
| `TypeCorrect` | `TypeOK`, for compressed output too |
| `RowsOnce` | each row read is in the open bin of its ID or in one row of the output, also when its ID is defined again, and at the end in what has left (`EveryRowOnce`) |
| `RowsAsShown` | a row of the output is under the header of the rows it stands for, with their extremes and means (`RowsMatch`) |

`Kept` says what an open bin is: its rows have one ID, one header and one bin number,
and the sums, counts and extremes are those of its rows (`OpenBin`); it fails only for
a layout with too many planes, of which a crash is the consequence (`Crashes`). It is kept
by all three tools and all inputs. `Written` adds the output: each row shows such a bin (`Shows`) under the header
it was read under (`Led`), the header of an ID is the current one there (`Current`), rows
are in one place and as many as were read (`Once`). `OnClose` is a loop over the IDs, so
both parts are shown along its way (`CloseSteps`). `RowsOnce` and `RowsAsShown` assume
inputs that do not say they are compressed (`TRUE \notin Deflate`): with compression frames wait in a
buffer, `io.c:474` loses what comes when it is full, and what it holds at the end is never written, as
the reducers do not close their output (section 5). `bin_any_stream` checks them with compression
too, as long as the buffer does not fill; of `EveryRowOnce` what is said of the end is then left out.

**Arrays** (`DasAryProofs`; `AryAssumption`)

| theorem | says |
|---|---|
| `AppendSound` | an append that does not straddle records counts each value once: the entries of every index buffer still tile the next one |
| `TypeCorrect` | every index entry stands for items that are there, and a mark on an index is on all after it (`TypeOK`) |
| `ElementsOnce` | every stored element is at exactly one address, and storage order is address order (`EveryElementOnce`) |
| `ArrayImplemented` | `array.c` implements `RaggedArray` (`Implements`) |

for arrays of every shape, rank and length, and blocks of every size. The inductive invariant `ArrayInv`
says what the comments of `array.c` leave to the reader: the entries of a level, in order, stand
for each item of the next level once, and the last one for the last item (`Tiles`, `Linked`); so level
by level down to the elements (`Chain`); and marks roll up (`RollsUp`). `DasAry_append` breaks
this while it works: it stores the values first and counts them afterwards. Its first loop goes down
to the last run and makes one where there is none (`LastParentReached`). A turn of its second
loop counts what has room in that run, or makes a run and what leads to it (`NewRun`); along its turns
`Turned` says that what is counted so far tiles, that the rest ends in a run it does not leave half
filled (`Fits`), and that every two turns count something, so that the loop comes to its end
(`AllCounted`). A new array is uniform at every level (`Uniform`, `Counts`); clearing
keeps the first entry of each level; qubing the last index adds to the last run, which is
the last of its level (`VisitsLast`). `ElementsOnce` follows the addresses down: those of the first k
indexes cover the items of level k, each once and in order (`Covers`, `ChildrenCover`), and at the
last level the items are the elements.

`ArrayImplemented` joins these into `SettledInv`: the array is sound (`Sound`), no run of a fixed
index is longer than its extent (`InExtent`), and an array without elements has no run of a fixed last
index (`NoEmptyRun`), so that its first value begins one. Each operation then
has a lemma that says what it does to the map from addresses to values: `AppendMaps` (value by value, the
index that rolls is the one at which the odometer carries), `MarkMaps`, `QubeMaps`, `ClearMaps`, `PutMaps`,
and `NewMaps` for the initial states.

`TypeCorrect`, `ElementsOnce` and `ArrayImplemented` assume that blocks do not straddle records (`~Straddle`) and that
only the last index is qubed (`~QubeAll`), as in the library's own calls and in `ary_any_use`. With blocks that
straddle `TypeOK` fails, with other indexes qubed `EveryElementOnce` (`array.c:965`, `array.c:1032`,
section 5), and in both cases entries no longer tile.

**How induction over data is done.** The induction theorems of the library cannot be used, as their
parameter is an operator. `LeastElement` derives from the well-foundedness of the numbers that a
non-empty set of them has a least element (`LeastNat`), from that induction over an interval for a *set* of numbers
(`IntervalInduction`), and that a function given by its first value and a step exists
and has the values its definition says (`RecursionExists`, `RecursionAlong`). With them the loops over tables, IDs and finite sets above are treated; a
recursive function of the model is first shown to have the values its definition says.

**Model-checked only.**

- Liveness (`PlanCallsReturn`, `ReadEnds`, `RequestEnds`): the proof system does
  not treat fairness and ENABLED.
- `BlocksServed` for blocks of a month, where it does not hold in general.
- The refinement of `RecordChannel`.
- The invariants of `DasDsRecord` (`TypeOK`, `WholeRecordsSent`, `PassedOnAlike`): the plans of
  a packet are recursive operators with mutually dependent lengths, which the proof system does
  not treat.
- What the reducers send when the output is compressed.

## 5. Where code and documentation disagree

With a run:

- `dft_lost_wakeup`: `Psd_calculate` lowers the counter without waking waiters.
- `bldr_redefined3`: the builder keeps pointers to datasets the reader freed.
- `cache_monthly`: the pass that counts the files of a range begins at day 0 and steps
  from January to March; the month between is not counted, and the list has no room for it.

Without a run of their own; those marked * are kept out of a passing run by a constant
or a condition named there:

- `dft.c:177`: `del_DftPlan` does not look at the number of users.
- `stream.c:396`, `io.c:1192`: das3 IDs above 99 are refused, and the table is indexed
  before the test, while `stream.h:78` speaks of larger IDs.
- `io.c:1263` *: a das3 data packet for an ID without header dereferences `NULL`, while
  `io.h:325` speaks of a status code (`TableLive` is about das2 decoding).
- `io.c:1281`: a processor without `dsDataHandler` makes the reader drop the rows
  others collect.
- `io.c:1428`: a close handler that fails keeps those after it from running.
- `builder.c:256` *: the dataset of an ID's second layout is never given to the caller
  (`FirstOwned`).
- `array.c:965` *: `DasAry_append` counts a block again in each new parent (`Straddle`).
- `array.c:1032` *: index entries made by qubing all have offset 0 (`QubeAll`).
- `array.c:404`: `markEnd` before the first append leaves an empty leading run, after
  which `DasAry_size` is 0 whatever is stored; the example at `array.h:1171`
  may do that. The addresses stay right.
- `array.c:127`: the comment on whole chunks is not what the arithmetic gives.
- `codec.c:1261` *: an error of a text conversion is negated twice and taken for a number of
  bytes left, so that a bad value is not refused (`Habits`, "bad text").
- `codec.c:1550` *: an item of length 0 disappears, while the comment at `codec.c:1482` says
  that every item closes a run of its own ("empty blob").
- `codec.c:1345` *: an empty run of values between blanks that the packet bounds reads no item and is
  accepted; its array has no run for it and falls behind the others, while empty runs in
  any other framing are refused ("empty frame").
- `codec.c:1400`, `codec.c:1438`: between marks an empty run that the packet bounds is taken for one missing
  value or one empty string, whose bytes are the same.
- `codec.c:2224` *: an empty string is written as nothing where blanks separate, and one with blanks
  inside comes back as two ("empty word").
- `dataset.c:1107` *: part of a vector at the end of a ragged run is accepted ("part vector").
- `buffer.c:247`, `buffer.c:441`: after a short read the write point is past the data; the
  strip at the end looks one byte behind it.
- `io.c:303`, `io.c:333`: after a partial send the same bytes are sent again;
  `_DasIO_sslWrite` takes failure for success and the reverse.
- `io.c:474`: after the first full buffer of compressed output the loop ends early, and what
  was to be written is lost.
- `io.c:1501`: `DasIO_setTaskProgress` does not ask whether the stream header was sent.
- `stream.c:70`: `DasStream_copy` copies the type twice and the version not at all.
- `iterator.c:72`, `iterator.c:140`: the end location overwrites the start; the length
  of the last run bounds the first index.
- `credentials.c:206`: replacing the secret of a rejected credential leaves it rejected.
- `credentials.c:312` *: `CredMngr_authFailed` withdraws the first entry that answers, valid
  or not; when another one was sent, the loop of `das_http_getBody` sends it for ever
  (`Shadowed`).
- `http.c:1119` *: an SSL connection that shuts down in one step is neither freed nor
  forgotten; a refused connection and a broken body leave the socket open (`loose`).
- `das2_cache_rdr.c:378`: seconds of the end are dropped for blocks of an hour or more, while
  the comment below speaks of every finer component: the block of the last seconds is not asked for.
- `packet.c:214` *: the test whether only one plane has Y tags looks at the same plane twice:
  listed tags against an interval dereference `NULL`, and intervals are not compared (`Formats`).
- `das2_bin_avg.c:101` *: the bin number survives a redefinition, so a row of fill values may
  be sent for the new header (`RowsMatch`).
- `das2_bin_peakavgsec.c:325` *: peaks start at 0: the peak of negative values is 0.
- `das2_bin_avgsec.c:301` *: the deviation of a layout with several items is taken over rows
  that have fill in the item, and is 0/0 for a single row, while the comment at line 281 says
  that it is 0.
- `das2_bin_avgsec.c:243`: the time of a bin is put at the plane's number instead of item 0,
  which fails when X is not the first plane.
- `das2_bin_avgsec.c:374`: after a layout with too many planes the reducer goes on, and the
  next row crashes it.
- `das2_bin_avgsec.c:587` *: the reducers never close their output: with compression what is still in
  the buffer at the end does not arrive (`EveryRowOnce`).

## 6. What is not modelled

Formats and conversions without state between calls (XML, JSON, URLs, number
formats, units, leap seconds, base64), other libraries behind thin wrappers (FFTW,
zlib, OpenSSL, SPICE, CDF), logging and command lines, and the das1 tools. They are
listed in `PROJECT.json` with the reason. Of the components that are modelled in part:
sub-arrays, reference counts and allocation of arrays; iterators over several indexes;
headers of datasets; the writer of das3 datasets from descriptors (`DasIO_writeData` is a
loop over the packets of `DasDsRecord`), task size and progress; bytes below a frame
(`DasBuf`, sockets, SSL, decompression); timeouts of connections; the choice of a cache
level; `das2_bin_ratesec`.

## 7. Plan

Done: iterators as the encoder uses them, codecs and records, the writer with its
first clients, credentials and requests. Left, in this order:

1. Transports: `_DasIO_sockWrite`, `_DasIO_inflate_read` and `DasBuf` cursors over a channel that
   takes and gives any number of bytes; promise: a byte queue.
2. Sub-arrays and reference counts of `array.c` with the variables that hold them.
3. The writer with descriptors shared by several outputs, composed with `DasIORead`: the
   output of accepted calls is an input the reader accepts.
4. Catalog nodes; `das2_bin_ratesec`; Y tags given by intervals in `EqualFormat`.

Theorems to add, in this order: what the reducers send when the output is compressed and the
buffer does not fill; the types of `DasDsRecord`, once its plans are recursive functions.
