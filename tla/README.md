# A TLA+ model of pcapracer

pcapracer reads packet captures (pcap, pcapng, gzip), dissects every packet, reassembles IP
fragments and TCP streams, aggregates flows and hands the rows out as Arrow batches or Parquet
files. This directory holds TLA+ modules that model it, TLC configurations that check them
on small instances, and TLAPS proofs of the properties that matter most.

## The system

| Part | State | Operations | Interacts with |
|---|---|---|---|
| `CaptureReader` (reader.rs) | parser position, legacy link type, interface table of the section, `bad_blocks` | `open`, `for_each` | calls the closure of `run` for every packet |
| `run` / `Engine` (pipeline.rs) | reused chunk buffer, builder, parked callback error, counters | fill, `dissect_chunk`, `absorb`, `on_batch`, `finalize_stats` | reader, thread pool, the three tables, the caller's callback |
| `FragTable` (reasm.rs) | fragment sets, `dropped`, `completed` | `push` | called from `absorb`; a completed datagram is dissected again |
| `StreamTable` (reasm.rs) | streams (base, buffer, pending), `evicted`, `truncated` | `push`, `close` | called from `absorb`; the prefix is dissected |
| `FlowTable` (flow.rs) | flows by normalised tuple, `next_id`, `evicted` | `observe`, `merge`, `sorted` | called from `absorb`; written as `flows.parquet` |
| `SilencePanicHook` (pipeline.rs) | process-wide depth, saved hook, panic hook | `install`, `drop` | shared by every run of the process |
| `iter_batches` (api.py, python.rs) | bounded queue, event, worker thread | `_emit`, `_worker`, the generator, `close` | runs `run` on a thread |
| Dissection (dissect/) | one packet's `Ctx` | link, network, transport, tunnel, application | pure; reports tuple, fragment, stack |
| Application dissectors (dissect/app/) | columns and layers of the packet | port guess, source port guess, signature; one parser a protocol | called by transport dissection, or by `absorb` on a stream prefix |
| Record loops (dissect/, bytes.rs) | cursors over slices of the payload | read a header, take a body, walk inside it | called by the dissectors |
| Output (api.rs, writer.rs, split.rs) | Parquet sinks, the directory | `to_parquet` | consumes batches, writes `_meta.json` last |
| CLI (cli.py) | none | argument parsing | calls the API |

What is hard: the tables are fed in capture order by a serial pass, but dissection runs on a pool;
every buffer has a cap and whatever is lost at a cap must show in a counter; segments and fragments
arrive out of order, overlap and repeat, and sequence numbers wrap; the panic hook is shared by
overlapping runs; the iterator is two threads, a queue, timeouts and a caller who may leave; a
batch callback may fail while the reader cannot be stopped; dissectors call one another through
tunnels, each writing columns that earlier headers have already filled; a guess at the application
may fail with columns filled; every loop over records trusts lengths that come from the wire; a
datagram may complete on any of its fragments; the output directory is shared with earlier runs.
`PROJECT.json` lists these hazards at their lines.

## Modules

| Module | Models | Run by |
|---|---|---|
| `FragTable` | fragment reassembly, `push` in its four outcomes | `MCFragTable` (`frag`), proofs in `FragTableProofs` |
| `StreamTable` | TCP reassembly | `MCStreamTable` (`stream`), proofs in `StreamTableProofs` |
| `FlowTable` | flow aggregation | `MCFlowTable` (`flow`), proofs in `FlowTableProofs` |
| `PanicHook` | the hook guard, one action per atomic step | itself (`hook`), proofs in `AroundRunProofs` |
| `IterBatches` | worker, queue, event and generator | itself (`iter`), proofs in `AroundRunProofs` |
| `CaptureReader` | block by block reading; `Contents` says what a file holds without the reader's state | extended by `Pipeline`, proofs in `PipelineProofs` |
| `Pipeline` | `run`: chunks, parallel dissection, absorption, batches, failures | `MCPipeline` (`pipeline`), proofs in `PipelineProofs` |
| `Dissect` | the walk of one frame: link, network, transport, tunnels, application dispatch | itself (`dissect`), proofs in `DissectProofs` |
| `AppDissect` | every application dissector as the order of its effects, under `dispatch` | itself (`app`) |
| `RecordWalk` | the loops over length-delimited records, nested, and `read_name` | `MCRecordWalk` (`walk`), proofs in `RecordWalkProofs` |
| `Engine` | the serial pass: `absorb` over `FragTable`, `StreamTable` and `FlowTable`, which it extends | `MCEngine` (`engine`), proofs in `EngineProofs` |
| `ParquetOutput` | `to_parquet`: sinks, files, `_meta.json`, both modes, failures, reruns | `MCParquetOutput` (`output`), proofs in `AroundRunProofs` |
| `SerialRun` | abstract: rows in capture order, one after the other | refined by `Pipeline` |

How state and actions correspond to the code:

* **FragTable.** A key absent from the hash map is a key whose set has no piece, because `push`
  never leaves an empty set behind. The four actions under `FragPush` are the four ways out of
  `push`: refused at capacity, abandoned over budget, waiting, complete. The code sorts the
  pieces and appends them with a skip; the actions use what that computes (`HasHole`, `Winner`,
  `Assemble`), `Order` and `Loop` are the sort and the loop as written, and `AssemblyMatchesLoop`
  says that the two agree. `FragFinalize` is `finalize_stats`.
* **StreamTable.** `Placed` is the three-way branch on the offset, `Drain` the loop, `Cap` the
  truncation. Sequence numbers are integers modulo `SeqSpace`. `rcvd` is a history variable.
  The result of `push` is a view of the stream (`buf`, `truncated`), so it is not kept apart.
* **FlowTable.** Endpoints are integers because `normalized` only compares them; one of the six
  `take_first` columns stands for all. `seen` records the columns `observe` fills in.
* **PanicHook.** The mutex guard of the `if let` in `drop` lives until the hook is back, so
  `TakeSaved` locks and `PutBack` unlocks.
* **IterBatches.** A callback exception is parked by `stream_batches`, and the run skims the rest
  of the capture before it surfaces (`Skim`). Only the worker and the generator are fair.
* **CaptureReader, Pipeline.** An interface is its link type. A packet is what the block holds,
  with the link type and interface the reader gives it. `dissect_one` is a function of the packet
  alone, so dissecting a slot only marks it done, in any order when the chunk goes to the pool.
  The state of the tables is what each packet so far has left in them: itself, or nothing when its
  dissection panicked. A row depends on its packet and on that sequence. `Contents`, the packets a
  file holds, finds the link type of a packet from the blocks before it by counting (`SectionOf`,
  `Described`, `Nth`), where the reader keeps tables as it goes.
* **Dissect.** The chain of calls is a state machine whose state `at` is the dissector about to
  run: every dissector ends in a tail call or returns, so the call stack adds nothing. The bytes
  are the environment: each field branched on, and each place to run off the end, is a choice. A
  column holds the number of the IP header it came from, outermost first, which is what can go
  wrong with it: columns are overwritten, moved by `enter` and read back by `after_ip`. Columns
  no later step reads (names, lengths, options) are left out. `rem` bounds the link and IP
  headers of a frame; `padded` says that a clamp left bytes of the frame behind. `headers` and
  `accepted` are history variables.

* **AppDissect.** A dissector is a sequence of steps: push a layer, a read or check that may fail,
  columns filled always or for some bytes, an early `Ok`. Columns are told apart by the table of
  split.rs they belong to, and the six a flow takes its names from by themselves. `Start` is a
  guess of `by_port` or `sniff`, `Fail` the truncation of the stack to `depth_before`. The bytes
  are the environment's, but they are the same bytes in each attempt: a parser that failed on
  them fails again (`Repeat`), and a signature that is all its dissector checks is not found
  where that dissector has failed (`Certain`).
* **RecordWalk.** A payload is its length and every length field is a choice. A walk (`TcpOptions`,
  `TlsRecords`, ...) is a record of what the source does with that field: the bytes of the header,
  the unit and what the length counts, padding, the least length, whether a body past the slice is
  clamped or ends the loop, the limit on records, and the walks run inside a body. A payload is at
  least as long as what leads its first record, because only a DNS message has such a lead and
  its dissector does not come to the loop without the header (`WalkAssumption`). `frames` is the
  stack of running loops. `Fits` is `Cur::need`, `Inner` is `Cur::sub`. `read_name` is one action
  per branch of its loop. Twenty-two loops of eleven source files are instances.
* **Engine.** Endpoint, sequence number and payload bytes are integers; what dissection of IP,
  transport and application makes of them is an operator each (`dispatch_ip_proto`, `dispatch`),
  used for the packet on its own, for a completed datagram and for a stream prefix. `Absorb` is
  the whole of `absorb`: fragment table, second dissection, stream table, flow table, row. The
  tables' state and operations are those of their own modules, which `Engine` extends, and
  `EngineAssumption` says that the keys, payloads and packets those modules allow include what the
  frames hold. Two corners of the code show in the properties. A datagram too short for its
  transport header, or a first fragment too short for it, is filed under ports 0 (`Portless`). And
  when overlapping first fragments of a datagram differ, a segment is pushed with the sequence
  number of the datagram, not of the frame that carries it (`SeqOf`).
* **ParquetOutput.** A row is the set of column prefixes it has a value under, a file the run that
  wrote it, its rows and whether it has a footer. Each call that touches the disk is a step and may
  fail; the error ends `to_parquet` there, which leaves what a crash leaves. `todo` holds the
  tables of a batch not yet written, by their number in `PROTO_TABLES`, and `FirstDue` is the next.
  Sidecars are closed in any order, where the code closes them by name.

## What the runs check

`frag` (two keys, one set, budget of four bytes, four fragments of up to two bytes at offsets
0 to 2): the bounds, every loss shows in `dropped`, a result is never half a datagram, and the
declarative assembly equals the source's loop. One set for two keys makes refusals, abandonment
and reopening happen; offsets and lengths make every kind of overlap and hole.

`stream` (two streams, one slot, six sequence numbers, cap of four bytes, two pending segments,
four segments): the bounds; every byte of the prefix was carried for that sequence number; the
prefix handed to dissection is never revised; a byte that arrived and is missing from the prefix is
in a segment overtaken while it was pending (`GapsAreExplained`); a truncation the counter does
not show is an overflow of pending segments. A space of six makes every stream wrap. In the code
the limit on pending segments is 64.

`flow` (three endpoints, two protocols, two flows, four packets): ids are dense, unique and in
first-seen order, both directions share a flow, a flow's aggregates are those of its packets,
the state of an open connection is what the SYNs in each direction of the addresses make it, and
the state never moves back.

`hook` (three threads, two runs each): a run in flight is silenced, the hook is restored unless a
run began while it was being put back, and every run ends.

`iter` (five batches, queue of two): batches arrive in order, an end is the end, an exception
comes after every batch, at most `queue_size + 1` batches are held, and `next()` returns.

`pipeline` (batches of two, pool of two; all pcapng files of up to four blocks after the first
section header and all legacy files of up to five packets, cut anywhere): the run implements
`SerialRun`, whose capture is `Contents` of the file; batches are full; statistics match the rows;
nothing follows a failure. The threshold of 256 packets for going parallel is a constant, set to
the batch size so that full chunks are parallel and the tail is serial.

`dissect` (Ethernet, raw IP, loopback and radiotap frames; IPv4, IPv6, VLAN and LLDP; seven IP
protocols; VXLAN and GTP; two tunnels deep, five headers): the outer columns are the outermost
header's and the plain ones never are; flow key and columns describe one header, and a fragment
that is not the first gives neither ports nor a key; the fragment handed to reassembly is described
by its own header; `tunnel_depth` counts the tunnels in `proto_stack`; a wrong guess leaves no
layer, and no frame passes the depth limit. The code allows eight tunnels; two are enough for a
tunnel inside a tunnel and for the refusal, and the protocols chosen are one of each kind of
dissector, by what it does to the context (the constants may hold any of them, and the proofs are
about all).

`app` (every dissector, all ports and signatures, TCP and UDP; no bounds): a column of a
protocol the row is not labelled with comes from a dissector that was tried and failed half-way,
and only those of `FailsDirty` can; a labelled row is in the table of its protocol but for the
dissectors of `Silent`, which accept a payload they found nothing in.

`walk` (thirteen payloads of 10 to 42 bytes, each long enough for the deepest nesting of its walk;
lengths 0, 1, 2, 5, 7 and 12; three BER readers, four turns and two jumps of a name): every cursor
stays in its slice and every slice in its record; the cursor stands where the protocol says the
next record starts, also behind a compressed name; every walk ends. The lengths are zero, below
and at the smallest header, odd, and past the slice. In the code a name may take 128 turns and 16
jumps; what matters is that both limits are met.

`output` (two runs into one directory, captures of up to three rows in batches of up to two, four
kinds of row): `_meta.json` describes complete files of its own run, or files a later run has
opened since; a run that returns has left every row in its place, and no file of its own for an
absent protocol. Two runs are enough for a file of the one to meet the other.

`engine` (eleven frames, captures of up to four packets, one fragment set of five bytes, one
stream of four, two flows; reassembly on and off): fragmentation does not split a conversation;
a layer is on a stack once; every byte of a stream was carried for its sequence number by a frame
with a TCP header of its own. Each states the exceptions the code makes, exactly. The frames hold
one segment in fragments cut behind and in the header, its neighbours, a reply, a padded frame
and a fragmented UDP datagram; four packets allow a fragment before, between and behind them.

A frame's walk and a capture end, and the tables wait for packets, so deadlock is checked only in
`output`, where a finished run stutters. Every module states its type invariant (`FragTypeOK`,
`EngineTypeOK` and so on); it is proved for every module with a proof module. The runs spend their
properties on the rest.

Fairness: in `PanicHook` a thread that has begun a run takes its next step eventually (the
operating system schedules it; the mutex is held for two steps). In `IterBatches` the worker and the
generator are scheduled, and time passes, so a join or a put with a timeout comes back; the
caller's own code between two calls of `next()` is not fair. In `RecordWalk` one thread runs the
loops and nothing blocks it, so some step is taken while one is possible (`WF_vars(Next)`). The
other specifications have none.

### Where the code and its documentation differ

One run is expected to be violated: `iter_abandon` states what api.py says of an abandoned
iterator, which leaves the worker blocked in the final `q.put(_DONE)` when the queue is full. The
other differences are exceptions written into a property that passes, so that the run shows how
far each goes.

* `stream`, `UncountedLossIsOverflow`: the 65th pending segment discards all of them and marks the
  stream truncated without counting it, and no later truncation of that stream is counted.
* `stream`, `GapsAreExplained`: a pending segment that the one closing the gap overlaps is never
  drained (reasm.rs:250), and its tail is lost although it was received.
* `flow`, `HandshakeByAddressOrder`: direction is the order of the addresses, so a connection
  opened by the endpoint that sorts second is never `Established`.
* `hook`, `RestoredUnlessRaced`: a run that begins between the decrement and the restore saves the
  no-op as the original hook.
* `engine`, `StreamIsFromFirsts`: `tcp_payload_range` takes the payload to end where the frame
  does, but `ipv4` clamps to `total_len`, so in a frame with padding or a captured FCS the range is
  shifted (pipeline.rs:237); and the payload of a fragmented TCP segment never enters its stream
  (pipeline.rs:311).
* `engine`, `FragmentsJoinTheirFlow`: a first fragment too short for the transport header that
  arrives last is filed under ports 0, although the datagram it completes has the ports.
* `engine`, `LayersOnce`: when the first fragment arrives last, the transport layer is on the stack
  twice.
* `output`, `RowsInPlace`: nothing clears the directory, so a protocol absent from this capture may
  still have the file of an earlier one.
* `app`, `ForeignColumnsExplained`, and `dissect`, `GuessLeavesNoLayer`: a failed application guess
  keeps the columns it filled, while its layer is removed, where the comment says the layer stays
  (app/mod.rs:129).

Seen while modelling, without a property of their own: overlapping fragments resolve lowest offset
first, not first copy first (reasm.rs:106); a stray piece past the declared end keeps a covered
datagram waiting (reasm.rs:111); `flows_evicted` counts packets, not flows (flow.rs:156);
`iter_batches` holds up to `queue_size + 1` batches; a panic while a reassembled payload is
dissected in the serial pass is not caught (pipeline.rs:306, 312), which `Pipeline` models as
`AbsorbPanics`; a read error while refilling ends the capture silently (reader.rs:195); `for_each`
stops at a damaged block where its comment says it is skipped (reader.rs:104); a datagram still
missing a fragment at the end of the capture is not in `fragments_dropped` (pipeline.rs:434,
against README.md:103); `StreamTable::close` is never called, so a reused 5-tuple continues the
old stream (reasm.rs:276); a DTLS handshake's fragment length is skipped and the length of the whole
message used (tls.rs:109; `InStep` is about unfragmented messages); SSH recognised by its banner is
always taken for the client's side (app/mod.rs:93).

In dissection: in a tunnel inside a tunnel the ports of the middle header stay beside the innermost
addresses when the inner packet has none (tunnel.rs:16; `OuterIsOutermost` states this exception);
an inner IPv6 packet in a header with MF set is taken for a fragment (l3.rs:209;
`FragDescribesHeader` states it); of nested fragments only the innermost is kept (l3.rs:211); a
non-first fragment in a tunnel leaves the tunnel's own flow key in place; VLAN tags recurse without
counting against `MAX_DEPTH` (l2.rs:130); the payload's start saturates at 65535 in longer frames
(pipeline.rs:239).

## What is proved

For every value of the constants that satisfies the assumptions named in the modules
(`FragAssumption`, `StreamAssumption` and so on): sets of keys, endpoints and threads are finite,
limits are naturals, a batch and the pool hold at least one. Three say more. A stream's byte cap and
the longest payload together fit in the sequence space (1 MiB and a frame in 2^32 by default), or
offsets would be ambiguous. A payload walked is at least as long as what leads its first record.
The frames of `Engine` are well formed (`WellFormed`: a fragment has MF or an offset, the first byte
of a TCP header is a sequence number), and the tables' constants include what they hold.
Each type invariant is proved with the rest.

* `FragTableProofs`: `SetsBounded`, `NeverHalfParsed`, `LossIsCounted` and `AssemblyMatchesLoop`.
  The inductive invariant adds `TotalIsDeclared`: a known total length is the end of some piece of
  the set. Without it the completing step could not show that the datagram ends where a fragment
  said it ends. The core is `WinnerCovers`: with no hole and no shortfall every position has a
  first piece in sorted order that reaches past it, and that piece starts at or before it; it takes
  the least such piece twice (`FragLeastNatural`), by offset and by arrival. `LossIsCounted` is a
  count over all sets: the pieces held are one finite set of pairs (`HeldPieces`), which each
  outcome of `push` changes by the pieces of one key. `AssemblyMatchesLoop` is about the source's
  own sort and loop, for any list of pieces. The number of pieces that sort before a piece is its
  place, and no two have the same one, so a sorted order exists and has every piece (`OrderSorts`,
  `SortedOnto`). `Upto` is what the loop has computed after n pieces: a hole iff some piece starts
  past all before it, else as many bytes as the pieces reach, each from the first piece that
  reaches past its position. One turn keeps it (`UptoStep`), and the first turn at which it could
  fail does not exist (`RunComputes`).
* `StreamTableProofs`: `StreamsBounded`, `BufIsReceived`, `GapsAreExplained`,
  `UncountedLossIsOverflow` and the action property `PrefixIsStable`. The inductive invariant
  relates a stream to the set of segments pushed to it. `Genuine`: each byte was carried for its
  number. `Held`: a pending segment was received and starts behind the first byte and below the
  cap, so that flush against the buffer means an offset equal to its length, wrap or no wrap.
  `Complete`: until the stream is truncated, a segment that reaches past the buffer is pending.
  `Sound` is the part that holds between two turns of the drain loop; the loop is a recursive
  function of the pending segments, and the proof takes the first turn at which it could fail
  (`DrainTurns`, `DrainReaches`). A held stream has more segments received than pending, which is
  what makes an overflow visible in `UncountedLossIsOverflow`.
* `FlowTableProofs`: `IdsInOrder`, `OneFlowPerConversation`, `FlowIsItsHistory`,
  `HandshakeByAddressOrder` and the action property `StateAdvances`. The inductive invariant adds
  `Linked`: a row given an id is of the tuple of that flow, and a row refused means that the table
  was full and its tuple is not in it, and so it stays, because nothing is ever removed. `History`
  says what a flow has recorded of its rows; the sums of bytes need what `Total` makes of a longer
  sequence (`TotalAppend`), from the uniqueness of running sums.
* `AroundRunProofs`, what surrounds a run. Of `PanicHook`: `SilencedInFlight` and
  `RestoredUnlessRaced`. The depth counts the runs in flight, so only one run installs at a time.
  `NoopStays` says what a late restore may still put back: nothing but the no-op if another run is
  silenced already. `UserKept` follows the user's hook through hook, `prev` and `saved` while
  nothing has raced.

  Of `IterBatches`: `InOrder`, `NoSilentTruncation` and `Bounded`. The inductive invariant says that
  the queue continues what was yielded, batch by batch, that a terminal item is last and put once
  the worker is done, that every batch made is yielded, queued or in the worker's hands, and that
  the event is set only once the generator has left its loop: that is why the `_DONE` of a stopped
  worker is never taken for the end of the capture.

  Of `ParquetOutput`: `MetaIsCommit` and `RowsInPlace`. `DiskInv` says that an open sink has a file
  of this run on disk, a closed one a complete file with its rows, and that every file of this run
  is one or the other. `MetaInv` keeps `_meta.json` behind: while a run goes on, or after it has
  failed, it is of an earlier one. `TodoInv`, `PacketsInv` and `TableInv` count rows: what a table's
  sink has, and what the batch still owes it, are the rows of that protocol in the input so far.
  No two of the names are the same (`NamesDistinct`), so no table is written over another.
* `EngineProofs`: the serial pass implements each of the three tables (`EngineSpec => FragSpec`, and
  the same for streams and flows), so every result on a table holds in the composition
  (`TablesHoldInEngine`). On top of that, `FragmentsJoinTheirFlow`, `LayersOnce` and
  `StreamIsFromFirsts`. The inductive invariant, `EngineInv`, adds to those of the tables:
  `PiecesNumbered`, a waiting piece at offset 0 of a TCP datagram starts with a sequence number, so
  that what `absorb` takes from a datagram put together is one; `TupleIsRead` and `StackIsRead`,
  what the tuple and the stack of a row can be, given its frame and the datagram it completed;
  `RowsInFlows`, a row's flow id is the one the flow table gave to that tuple, from which sharing a
  flow is sharing the normalised tuple (`OneFlowPerConversation`); and `SegmentsAreRows`, a segment
  received by a stream is the tail of the frame of some row, which takes `BufIsReceived` from the
  segments to the frames.
* `PipelineProofs`: `BatchesAreFull`, `StatsMatchRows`, the action property `FailureIsFinal`, and
  the refinement `ImplementsSerial`. `ReaderInv` says that the reader's tables are what the blocks
  behind it say: interface i of the section is the i-th description since the last section header.
  So a packet delivered is the next of `Contents`, which is defined without the reader
  (`DeliveredIs`). `ChunkInv` says that the slots of the reused chunk, the builder and the tables
  follow on from the rows handed over, in capture order, until a batch fails; `OutInv` that those
  rows are the first of the serial run. A batch handed over then maps to one step of `SerialRun`,
  each end to its end, and every other step to a stutter.
* `DissectProofs`: `OuterIsOutermost`, `FlowKeyMatchesColumns`, `FragDescribesHeader`,
  `DepthIsOnStack` and `GuessLeavesNoLayer`, for every set of protocols, every depth limit and every
  frame. The inductive invariant adds `Nesting` (which header each column can come from at which
  depth), `Dispatched` (a transport or tunnel dissector runs with the flow key set for the header
  the columns show, the last one read) and `FlagHasHeader` (an MF column was set by a header that
  had MF): a single step could not tell which header a transport dissector's ports belong to, nor
  where a stale MF came from. The proof has one lemma per group of actions that touch the same
  part of the context.
* `RecordWalkProofs`: `Confined` and `InStep`, for every length of payload and every value of a
  length field. What a step needs to know of a walk is `Sound`: its header and its body, for any
  length it takes, are as many bytes as the protocol gives a record, and names are read by the
  walks over DNS lists only. Each of the twenty-two walks is shown to be `Sound` by itself, which
  is where units, padding and the lengths that count their own header are checked. The invariant of
  the stack then says that each slice is in the record the loop outside has passed, that every loop
  but the innermost stands at a record, and that a name's end is its start and the bytes of it
  written there, also after pointers.

The prover does no induction over data. Where a definition is a recursive function over the
naturals (`Total`, `Drain`, `Loop`), the proofs go by a least counterexample instead.

Only model-checked:

* liveness (`RunsEnd`, `NextReturns`, `AbandonStopsWorker`, `Ends`), which is beyond the prover;
* `ForeignColumnsExplained` and `LabelledIsListed` of `AppDissect`, which has no constants: the run
  covers all of its states, and a proof would add nothing.

All other properties of the runs are theorems.

## Not modelled

Left out, because there is no control in it to check: what columns contain (names of types, dates,
rendered strings, entropy), the wide schema (a table of columns expanded by a macro), the Arrow
builders, fingerprints (hashes and string layouts), timestamp conversion (one expression in 128
bits), Parquet codecs, the argument checks of the Python wrappers, the command line, the fuzz
targets and the benches. `FlowTable::merge` is called by tests only.
