# SERENDIP VI (FAST build) in TLA+

Specifications, model checks and proofs of the data-acquisition pipeline in
`src/src`: the program that receives the packets of one beam and polarisation of
the FAST telescope, assembles them into blocks, and writes the blocks to a file.
Paths below are relative to the directory above this one.

## 1. The system

The Makefile builds one shared library, a plug-in of *hashpipe*. Hashpipe starts
one OS thread per `-c` argument of its command line (`s6_init_fast.sh`) and gives
neighbouring threads a ring buffer in shared memory; all threads share a *status
buffer* of named keys.

```
 packets -> [frame ring] -> network thread -> [input ring] -> GPU thread -> [output ring] -> output thread -> test.dat
                                 |                                |                               |
                                 +------------------ status buffer (keys) -----------------------+-- operator
```

| Component | Source | State | Operations | Makes it correct |
|---|---|---|---|---|
| Ring buffers | `s6_databuf.h`, `.cpp` | a semaphore per block, headers, data | create, (busy)wait free/filled, set free/filled | a block is in one hand at a time |
| Frame ring | `s6_pktsock_thread.cpp:749-774, 946-1017`; hashpipe | frames with the kernel or with the thread | receive, release | every frame returns to the kernel |
| Counter arithmetic | `s6_pktsock_thread.cpp:59-135, 369-374, 514-517, 657, 685-699` | none | slot of a counter, window, late, out of sequence, reset | a reset keeps the slot of the block being assembled |
| Network thread | `s6_pktsock_thread.cpp:277-720, 871-1175` | `block_info_t`, `last_filled`, the keys it writes | `process_packet` and `run` | blocks filled in ring order; no write into a block it does not hold; honest counts |
| GPU thread | `s6_gpu_thread.cpp:81-327` | two block indices | wait, copy header and data, set filled, set free | copies each block once, in order, whole |
| Output thread | `s6_output_thread.cpp:66-460` | block index, copies of the modes, the file | wait, read modes, write, clear, set free | what is written is a whole block, in order |
| Status buffer, operator | keys; `hashpipe_check_status` in `s6_init*.sh` | RUNALWYS, TESTMODE, IDLE, DUMPVOLT, NETMCNT, MISSEDPK, ... | get, put, with or without a lock | commands take effect; reports agree with each other |
| Fake network thread | `s6_fake_net_thread.cpp`, `s6_gen_fake_data.cpp` | block index, `mcnt` | wait, header, generate, copy to every block, set filled | readers of filled blocks do not notice its writes |
| UDP network thread | `s6_net_thread.cpp` | as the network thread, and NETHOLD, a batch, totals per beam | hold-off, benchmark, batches, `process_packet` | as above; no beam loses packets to another |
| Filter bank | `pfb_fir.cu` | - | - | GPU numerics, built by nothing |
| Transfer scripts | `xfer_to_ucb`, `xfer_gbt_to_ucb` | file name suffixes | rename, rsync, rename | an interrupted transfer is resumed; only transferred files are marked so |
| Start/stop, monitoring, set-up scripts | `scripts/`, `ruby/`, `src/*.sh` | redis keys, processes | - | alarms are raised; modes are set |

### What is hard about it

- **Concurrency.** Three threads and two rings with nothing but semaphores that
  waiting does not change: a block belongs to a thread by convention. The network
  thread sets a block filled and *then* reports it, moves its window and spins for
  another block, while the others are already at work on the first.
- **The network.** Packets are lost, late, reordered and repeated; the stream
  starts at an unrelated counter, and can restart.
- **Ordering.** The ring is filled in slot order, but a packet's slot is computed
  from its counter. A resynchronisation must make the two agree again.
- **Failure.** Any error of a wait ends one thread and leaves the others waiting.
- **Numeric edges.** Counts are unsigned; with the committed FAST constants
  `Nm = N_TIME_SAMPLES / N_SPECTRA_PER_PACKET = 256 / 4096` is 0, and the first
  packet divides by zero. The commented-out sizes beside it do not have this
  problem. The models assume `Nm >= 2`; with `Nm = 1` the threshold `3*(Nm/2)` is 0.
- **Stale data.** The data of a slot is never cleared, and the threads behind copy
  and write all of it: where packets did not come, a block carries those of an
  earlier block of its slot.

The list of hazards, each at its line, is in `PROJECT.json`.

## 2. The modules

| Module | Stands for | Notes |
|---|---|---|
| `Databuf` | ring buffer | operators over an array of semaphores, used for both rings |
| `McntArith` | counter arithmetic | constants `Nm`, `N_INPUT_BLOCKS` with their assumptions |
| `Pktsock` | network thread | the network may deliver any packet of `Mcnts` x `Sids` at any time; the consumer is `Drain` |
| `MCPktsock` | bounds for `Pktsock` | `MaxPkts`, `MaxOutOfSeq`, `MaxMissed` |
| `PktsockStream` | `Pktsock` fed by a telescope | in order, without loss, from any start, with restarts; fairness |
| `FrameRing` | frames between kernel and thread | the kernel and hashpipe parts are external |
| `GpuThread`, `OutputThread` | the other two threads | steps only, instantiated by `Pipeline`, `FakePipeline`, `OutputControl` |
| `BlockQueue` | what the pipeline promises | a bounded queue of blocks |
| `RingQueue` | the blocks filled in a ring, as a sequence in ring order | used by the refinement mappings of both pipelines |
| `Pipeline`, `MCPipeline` | all three threads | refines `BlockQueue` |
| `FakePipeline`, `MCFakePipeline` | fake network thread, GPU and output thread, and a stop request | refines `BlockQueue` |
| `OutputControl` | operator, output thread, and the dump of the network thread | the threads before the output ring are one action |
| `NetThread` | the older UDP network thread | several beams; uses `McntArith` and `Databuf` as `Pktsock` does |
| `Transfer` | the transfer scripts | `WithHead` tells the two apart |
| `McntArithProofs`, `PktsockProofs`, `NetThreadProofs`, `RingQueueProofs`, `PipelineProofs`, `FakePipelineProofs`, `OutputControlProofs`, `TransferProofs` | theorems about the module of the same name | section 5; `PktsockProofs` also has those about `PktsockStream` and `FrameRing`, which extend `Pktsock` and share its lemmas |

### How `Pktsock` corresponds to the code

`process_packet` runs to its end for one packet, except where another thread can
observe the middle of it: a completing packet is split at the semaphore operations
into `MarkFilled` (stamp, `set_filled`), `UpdateStatus` (the rest of
`set_block_filled`, the window moves), `AcquireNext` (`busywait_free`, header of
the new block, the packet itself) and `Return` (NETMCNT, in `run`). Packets that
complete nothing are one action: they touch only blocks that are free, which no
other thread reads. An error of a semaphore call is `WaitFails` or
`SetFilledFails`, a stop request `Stop`.

| Variable | Code |
|---|---|
| `sem`, `hdr` | semaphores and headers of `s6_input_databuf_t` |
| `data` | the data array of each block: the payloads in it, each named by the counter of its packet. A packet replaces what is at its place (`pkt_mcnt % Nm`); nothing else is ever removed |
| `stored` | history: the packets copied into the block since its header was written |
| `binfo` | `static block_info_t binfo`: `mcnt_start`, `block_i`, `out_of_seq_cnt`, `block_packet_counter` |
| `last_filled` | the static of `set_block_filled` |
| `pc`, `pkt`, `netmcnt` | position in `process_packet`, its packet, its return value |
| `status` | NETBKOUT, MISSEDBM, MISSEDPK, NETMCNT |

Abstractions: a time stamp is the `mcnt_start` it was taken at (`StampIsOfThisFill`
only asks *which* completion a stamp belongs to); `uint32_t` and `uint64_t` are
counters modulo `U32` and `U64`, scaled down in the runs; a packet's counter has
56 bits, so that 64-bit sums of it never wrap and are ordinary integers; a
payload is the counter of its packet, not its bytes, and fills one place; an empty
place is one that no packet was ever copied to. `initialize_block` writes the header
and leaves the data alone, and so does the model: `NoneStored` only resets the
history, which the code does not have and no action reads. What is left over in a block
is thus what the code leaves in it, and `missed_pkts` is all a reader has to go
by (`LeftOversAreCounted`); packet sizes that `run` accepts are not told apart. `pchan` and `nchan` are constants in the FAST build.
Left out: log messages, timing statistics and the keys that only report them.

### GPU and output threads, and their composition

Each wait, each copy, each semaphore call and each access to a key that another
thread or the operator uses is a step of its own. The input block of the GPU
thread is `[header |-> hdr[b], data |-> data[b]]` of `Pktsock`, the whole data array
as `memcpy` copies it (`s6_gpu_thread.cpp:284`), left-overs included, so that a header
or a packet written too late would be seen. `write_to_file` in turn writes the
whole array, without a look at `missed_pkts`: `file` is what it wrote last. `faststatus`, which nothing
initialises, starts with any value. `InFlight` is the refinement mapping: the
blocks filled in the output ring (without one already cleared), followed by those
filled in the input ring (without one already passed on).

A stop request (`run_threads()` turning false) is looked at between two blocks
only. `Pipeline` instantiates the threads without one; `FakePipeline` has it. There
the fake thread's copies over the other blocks are a step for each block, so that
another thread may read a block between any two of them. The generator
`gen_fake_data` is the constant `{1}`: the sine wave does not depend on anything.
Its commented-out predecessor, seeded with the time, is the mutant that breaks the
queue. `AtRest` is what a stopped pipeline looks like: a thread that waits for a
block does not look at `run_threads()` any more and is left to cancellation.

### Operator, output thread and dump

`OutputControl` has three parties at the keys. A get or put of one key is a step;
that `hputi4` without the lock may also garble the text of another key is not
modelled. The network thread is reduced to what it does when it has completed a
block: read DUMPVOLT (`CompleteBlock`), reset it with the lock taken anew
(`ResetRequest`), open, write and close the file. `asked`, `pending`, `taken` and
`decided` are history variables: they count commands, requests and decisions and
guard nothing but the bounds.

### The older network thread

`NetThread` splits `process_packet` as `Pktsock` does, and adds what lies around
it: NETHOLD (`ForceHold`, `Operator`, `LookHold`), the benchmark, and the batch:
`left` packets are processed one after another, `mcnt` keeps the last completed
block, and `ReportBatch` writes it. A packet of a batch is chosen when the thread
comes to it, from any beam that is not too far ahead. Nothing in the repository
reads what this thread writes, so that the data itself is left out: `stored` is the
history of what was copied since the header was written, as pairs of beam and
counter; the benchmark, which overwrites every block, empties it. `damaged` counts the packets
whose source id was damaged, among the `faults`.
The benchmark is declared to return a value and has no return statement: that it
never comes back is one of its outcomes.

### Transfer scripts

`local[f]` holds what there is of a file under each of its names (a dump before
compression is `raw`), `remote[f]` its copy; `pc` is the command the script is at
and `todo` its `DO_THIS_FILE`. Each command is a step; the searches that lead to
one choice are one step, because only the script itself renames files. A growing
log grows under whatever name it has, since its writer has it open. gzip and rsync
are external: gzip keeps the original until it has the compressed file and, with
no terminal to ask, skips a file whose `.gz` exists; rsync replaces the remote file
when the copy is whole. The year in the remote path is left out.

## 3. The runs

| Run | Expect | Question | Bounds |
|---|---|---|---|
| `window` | pass | Is the window safe against any network? | `Nm` 2, 3 blocks, counters {3, 4, 5, 7, 20, 21}, a good and a bad source id (1 and 38), repeats; 2 packets counted per block, 3 out of sequence, MISSEDPK up to 3 |
| `clean` | pass | Are the reports true when they can be? | as above, counters {0..7, 18..21}, one good source id, no repeats, 4 packets counted per block |
| `stream` | pass | Does the thread always catch the stream, with one resynchronisation, and are blocks whole from then on? | `Nm` 4, 4 blocks, 40 packets from each of 21 starts, one restart at any point |
| `pipeline` | pass | Do three threads, any of which may end on an error, make a queue, does everything come out, are left-overs counted, and does the file move forward? | rings of 3 and 2, 12 packets, 1 lost, RUNALWYS 0 or 1 |
| `net` | pass | Does the older thread keep its window, its counts per beam and its status, in batches and with a write benchmark? | 2 beams, `Nm` 4, 3 blocks, batches of 6, 20 packets a beam from each of 4 starts, a lead of up to 2 packets, 1 packet lost or damaged |
| `fake` | pass | Do the fake thread's writes matter? Does the test pipeline never get stuck, and always come to rest? | rings of 3 and 2, endless, errors and a stop at any time |
| `control` | pass | When does a command take effect? Is a dump request lost or served twice? | output ring of 2, 3 commands among 8 at any time |
| `dump` | violation | ... and is the dump made? | the same, 2 commands |
| `frames` | pass | Do the frames go round? | 6 frames |
| `frames_ignored` | violation | ... with one wrongly sized packet? | 3 frames |
| `transfer` | pass | Does the suffix protocol survive crashes and failures? | head node, 2 compute nodes with 1 kind of log, 3 files, 2 crashes, 1 failed copy, 1 power failure inside gzip |
| `bad_sid` | violation | Does the status name one block when a source id is bad? | as `window`, no repeats, counters {0..5, 18, 19, 21} |

Why the bounds are enough. Two counters per block are the fewest that separate
the first half of a block from the second, and three ring slots the fewest in
which the current block, the next one and one with the consumer differ. The
counters lie in two stretches. In `window`, 3..7 touches four successive blocks, once
round the ring, of which the first stays empty, the third can be whole and the others have a gap; 20 and
21 are far enough (the late threshold is 12) to be out of sequence from below
and for most of the lower stretch to be out of sequence from above, and near
enough to it for late packets, and make a whole block in the slot of 3. `N_BEAMS` is 19, as in
`s6_databuf.h:68`, in all of these runs, and an instance receives one of them. `clean` has no gap in either stretch but those of
lost packets, and a bound of 4 packets per block that no block reaches.
`MaxOutOfSeq` is one more than `MAX_OUT_OF_SEQ` allows, so that
resynchronisations occur, in both directions and repeatedly. `Nm` 4 in the stream
runs gives a completing half of two packets, and the starts cover every phase
relative to block and ring plus a far stretch; the restart goes back by less and by
more than the late threshold, depending on when it happens. In the pipeline run the
stream has six blocks: it goes round both rings more than once and fills them when
the output thread is slow, so that each input slot is used twice and the packet lost
leaves an earlier one in its place. It is one more than the theorem
`FileGoesForward` allows for this `Nm`; `FileMovesForward` still holds there.

In `net` two beams show what one beam's packet does to the other; a batch of 6 can
hold the completing packet first, in the middle or last, can complete two
blocks, and overlaps the blocks. The starts are the first counter, one inside a block, one out of sequence
above the window and one a ring further. The bound `Skew` is part of the promise:
with half a block (2) `WholeWithinSkew` holds, with 3 TLC refutes it. In `fake`
`mcnt` is a counter modulo `U64` = 6, a multiple of both ring sizes, so that the
endless behaviours close into few states. In `control` three commands are enough
for two opposite settings of a key with a third in between.

In `transfer`, three
files on five sources give an interrupted transfer beside files of earlier and
later sources, and a log with its successor; two crashes interrupt the recovery
from the first.

Fairness. The network thread polls its socket without blocking and spins for
blocks; the other two wait in loops that a timeout only restarts. Each thread
therefore takes the steps it can take: weak fairness per thread
(`PipeFairness`), and in `PktsockStream` per step of the one thread. Packets keep
arriving (`Deliver`); in `FrameRing` strongly so, because the kernel's frame is
only sometimes free. In `PktsockStream` the consumer frees each filled block,
which `pipeline` shows of the real consumers (`EveryBlockComesOut`). In `net` the thread
receives with a time limit and spins for blocks; that the operator releases it is not
assumed, and `CatchesBeams` leaves the case out. In `control` blocks keep coming and the
operator need not do anything. No fairness
is assumed of errors, losses, stop requests or restarts. In `Transfer` the script takes its steps
and is started again when it has ended (by cron or by hand: nothing in the
repository says), and its sources pause: with FITS files closed faster than they
are copied, the sources after them would wait for ever. Wherever a thread may end, the property
says what then still holds.

## 4. Findings

Each is a run whose property states what a comment of the code says, and which
TLC refutes; the quotations are in `PROJECT.json`.

- `frames_ignored`: a wrongly sized packet is skipped without releasing its frame.
  Once the frame ring has gone round, the kernel finds the frame taken and drops
  everything: reception stops for good. This rests on the packet socket filling
  its frames strictly in turn.
- `bad_sid`: the block-completing packet has a bad source id: the block is passed
  on, but the function returns "no block".
- `dump`: `open(name, O_RDWR, O_CREAT|O_WRONLY)` passes O_CREAT as the mode of a
  file it is not asked to create. The request is taken back, the open fails, and no
  voltages are dumped, unless somebody made a file of that name beforehand.

Also seen while modelling, and not made a run of their own:

- MISSEDBM is 18 for a block that got every packet: an instance receives one beam
  (comment at `s6_pktsock_thread.cpp:597`), and its packets are compared with those of the 19
  of the FAST constants (`s6_pktsock_thread.cpp:60, 311`). The other 18 "missing beams"
  go to other instances. `ReportsBeamsAndGaps` states what the two keys do tell.
- What a block lacks is not empty in the file: `initialize_block` leaves the data of
  the slot's earlier use, and `write_to_file` writes all of it and no count with it. The header's
  `missed_pkts` says how many places are left over (`LeftOversAreCounted`), not which,
  and the file does not say even that.
- The headers of the first two blocks are written with source id 0 before any packet
  is seen, and keep it when the stream starts at a counter of those blocks, although
  the comment at line 598 calls the id constant for an instance.
- Out of test mode the output thread overwrites DUMPVOLT once per block from an
  observatory status that nothing initialises or fetches (`s6_output_thread.cpp:186`):
  a request is lost, or made, at random. `DumpsOnlyOnRequest` and `RequestIsServed`
  exclude it explicitly.
- IDLE ("1 = idle output", `s6_output_thread.cpp:94`) idles nothing: no condition sets
  `idle_flag`, so that an operator's 1 is overwritten by 0 after the next block
  (`PutIdle`), which is written all the same.
- `s6_init_fast.sh:177` passes `RUNALWYS` as the instance and the instance as the key:
  the command sets nothing. RUNALWYS is 1 from the start anyway.
- Nothing waits at a stop: a thread in one of the wait loops (`s6_gpu_thread.cpp:159`,
  `s6_fake_net_thread.cpp:82`) does not look at `run_threads()` (`AtRest`).
- In `s6_net_thread.cpp` the size check of the loop looks at a packet of the
  benchmark, not at the batch (line 892), so that packets of any size are stored; an
  error of `recvmmsg` other than a timeout is treated as an empty batch; resetting
  MISSPKTL (`s6_init.sh:153`) lasts until the next block, because the running total is
  a static of the thread.
- A repeated packet is counted twice: it makes `missed_pkts` too small, or wrap.
  `MissedCountsTheGaps` is therefore checked without repeats.
- A restart of the counter by less than the late threshold is first taken for late
  packets; then the old window's blocks receive packets a second time.
  `WholeAfterSync` is therefore stated up to the first restart.
- `out_of_seq_cnt` is cleared by a packet in the window only: the packets that set
  off a resynchronisation need not be in a row (comment at
  `s6_pktsock_thread.cpp:369`).
- The counter reset to can lie before the packet, in its own block (comment at
  `s6_pktsock_thread.cpp:686`); `ResyncIsNearest` states where it can lie.

- A power failure inside gzip leaves a truncated `.gz` beside the dump. If the
  script is then killed between renaming it and copying it, the dump is compressed
  anew; if the resumed copy fails, the `mv` back (`xfer_to_ucb:155`) overwrites the
  whole file by the truncated one. TLC finds this when the condition
  `faults.kills = 0` is taken out of `Arrived`.

## 5. The proofs

Each theorem holds for every value of the constants that the ASSUMEs of its
modules allow; every run evaluates those ASSUMEs on its instance. The lengths of
the rings, `Nm >= 2`, the number of beams and sources, the widths of the
integers (at least a block's packets), the set of packets the network may
deliver, and the bounds on errors and counters are all arbitrary.

| Module | Theorem | States |
|---|---|---|
| `PktsockProofs` | `Invariance`, `TypeCorrect` | the inductive invariant `IInv`; `TypeOK` |
| | `FillsInOrder` | `FillOrder`: the checks of `set_block_filled` never fire |
| | `HoldsItsWindow` | `OwnsWindow` |
| | `BlocksAreConsistent`, `StampsAreFresh` | `StoredUnderHeader`, `StampIsOfThisFill` |
| | `FilledIsFrozen` | `FilledBlockFrozen`: no write between set filled and set free |
| | `ResyncLandsNear` | `ResyncIsNearest` |
| | `StatusIsOneBlock` | `StatusNamesOneBlock`, given `GoodIds` |
| | `MissedPacketsAreExact` | `MissedCountsTheGaps`, given `GoodIds` and no repeats |
| | `BeamsAndGapsReported` | `ReportsBeamsAndGaps`, for any `N_BEAMS`, given `GoodIds` and no repeats |
| | `ResyncsOnlyEarly` | `ResyncOnce`: one resynchronisation per stretch of the stream, and early |
| | `BlocksAreWhole` | `WholeAfterSync`, given `GoodSource` |
| | `FramesAreQueued`, `FramesAreQueuedAlways` | `TakenFramesAreQueued` until a frame of a wrong size is ignored; always, if there is none |
| `PipelineProofs` | `PipelineRefinesPktsock` | the network thread of the pipeline is `Pktsock`, so that the theorems above hold of the pipeline |
| | `PipeTypeCorrect`, `NoBlockIsShared` | `PipeTypeOK`, `NoSharedBlock` |
| | `PipelineIsAQueue` | `ImplementsQueue`: the three threads implement `BlockQueue` |
| | `FileNeverGoesBack` | no write to the file goes back in the stream, left-overs apart (`GoesOn`, the first half of `FileMovesForward`) |
| | `FileGoesForward` | `FileMovesForward`: and each brings a packet of its own block, given `GoodSource` and `FewLost` |
| | `LeftOversCounted` | `LeftOversAreCounted`, given `GoodSource` |
| `FakePipelineProofs` | `StopsAfterOneBlock` | `OneBlockAfterStop` |
| | `FakePipelineIsAQueue` | `FakeImplementsQueue`: the test pipeline implements `BlockQueue` too |
| `NetThreadProofs` | `NetTypeCorrect`, `PacketsStayInTheWindow` | `NetTypeOK`, `HoldsWindow` |
| | `FilledBlocksAreLeftAlone` | `LeavesFilledAlone` |
| | `BeamGapsAreCounted` | `BeamGapsCounted` |
| | `BlocksAreWhole`, `LastBlockIsReported` | `WholeWithinSkew`, `ReportsLastBlock`, for leads within half a block |
| `OutputControlProofs` | `ModesHold`, `NoDumpUnasked` | `ModesHoldAfterOneBlock`, `DumpsOnlyOnRequest` |
| `TransferProofs` | `OneFileInTransit`, `MarkedFilesAreCopied` | `OneInTransit`, `MarkedIsCopied` |

**The network thread.** What the thread may write to follows from the slot
arithmetic: a packet in the window belongs to the block at `mcnt_start` or the one
after it, and `FillOrder` says that the slots of these are `CurBlock` and `Ahead`.
That these are *free* is `OwnsWindow`; it survives the window's move only because
the packet at hand lies in the block that becomes current (`PacketInNextBlock`), so
that `initialize_block(pkt_mcnt + Nm)` writes the header of exactly the block just
acquired. The headers in turn keep `StoredUnderHeader`, and the stamp is of this
fill because a block is stamped while it is held. None of these is inductive
alone: `IInv` is their conjunction with `mcnt_start % Nm = 0`, the fact that
nothing moves before `Start`, and `OnePerPlace`: two payloads never share a place of
the data, so that a packet of a block replaces left-overs only. The proof has one lemma per action.

**The counts** need more than `IInv`. `GapsCounted` says of every block that is
passed on or in hand that `missed_pkts` is `Nm` less the number of packets stored,
and that the block's packet counter is that number. It is inductive because a
packet in the window is not in its block yet (no repeats) and its block's packets
lie in a range of `Nm` counters (`StoredUnderHeader`), so that the decrement
modulo 2^64 never wraps. `StatusFollows` ties the keys to the
block filled last; what a block with `k` packets lacks of `N_BEAMS * Nm` is split by
`WholeBeams` into whole beams and the gaps of one.

*Assumptions.* `GoodIds` (every source id is below `N_SOURCE_NODES`) and `~Duplicates`
are the preconditions of what the code reports: run `bad_sid` refutes
`StatusNamesOneBlock` without the first, and a repeated packet is counted twice
without the second. `MaxBad = 0` in `FramesAreQueuedAlways` says that
every packet has a valid size: run `frames_ignored` shows what one other does.

**The stream.** `ResyncOnce` and `WholeAfterSync` depend on the history of the
stream, not only on the window. `Tracks` says that the thread, as long as it has
not ended, is in one of two phases. Either the stream lies out of sequence
(`Adrift`): every packet of the stretch has been counted, at most
`MAX_OUT_OF_SEQ` of them, and the next one counts further or resets the window; the
reset lands near enough (`ResyncIsNearest`) for the stream to be in sync from then on. Or it is
late or in the window (`Synced`), and then stays there: a late packet
brings the stream nearer to the window, and the first completing packet moves the
window by one block, so that the stream can neither pass it nor fall behind.
A restart begins again at either of them. `Complete` says what this means for
the data, up to the first restart: only packets of the stretch are stored
(`Came`), and all those that belong to a block in the window or a filled one and lie
after the first packets of the stretch are (`Whole`). A resynchronisation cannot
undo that, since it happens among the first packets. `GoodSource`: the id of the
instance is below `N_SOURCE_NODES`; without it nothing is stored at all.

**The pipeline.** `PipeInv` says who holds which block, by the position of each
thread: the blocks filled in a ring are a run of slots that starts at the
consumer's block and ends before the producer's (`FilledBlocks`), and what a
thread has copied so far is the block it copies from. The network thread's part of
it is `IInv`, which holds because the pipeline's steps are steps of `Pktsock`
(`Drain` for the GPU thread's set free, a stutter for all else). Under the
refinement mapping `InFlight`, setting an input block filled is the abstract `Put`,
setting an output block filled changes nothing (the block goes from the
tail of one sequence to the head of the other), and clearing an output block is
`Take`. `RingQueueProofs` has the lemmas: filling the slot behind the run appends to
the sequence, freeing the slot at its head takes the head off. Sequences are
defined as functions on `1 .. n`, not recursively, so that no induction is needed.

That the *file* moves forward is not a fact about the rings alone: the thread
resets its counters, and what it completes after that must still be later than
what is queued or written. `NearStream` says that the window never starts more
than a ring less one block (`Far`, below the late threshold) ahead of the stream, so that a packet out of
sequence is always beyond the window and a reset only moves it on
(`OutOfSeqIsAhead`, `ResyncGoesOn`). `Upcoming` is the counter of the block
to be completed next; it never falls (`WindowGoesOn`). Along the queue of the
refinement, `InFlight`, every block is at least `Nm` before the next one
(`InOrder`), and all that is in the file is before the first block of it
(`FileIsBehind`), but for the block just written and not yet cleared. Left-overs do not
disturb this, because of `DataIsPast`: whatever is in a slot and is not stored under its
header is of an earlier block of the slot (`LeftOver`), and nothing in the data of
any slot lies beyond the window (`Limit`). With a restart
of the counter the file would go back with it, and left-overs could be of a later block;
the pipeline has none.

`FileGoesForward` adds that a block which is passed on has a packet of its own
(`NoneEmpty`), and not left-overs alone: it begins with the packet that completed the block
before it (`HasPacket`), unless the window was reset in between, which `InSync`
excludes. The first block that is passed on may have none, but then nothing was left
over in it either, and writing it changes nothing in the file.

`LeftOversCounted` joins the two: `GapsCounted` counts what is stored under the header, and by
`DataIsPast` that is all of the data that belongs under it (`FilledIsCounted`). The
GPU thread copies header and data while the block rests, so that the count stays with it.

*Assumption.* `FewLost`: fewer packets are lost than there are counters that
complete a block, `2 * Nm - 3 * (Nm \div 2)`. If all of those are lost at once, the
stream leaves the window, and the blocks held by then go on under new headers
with nothing of their own; with `Nm` 3 and two input blocks TLC finds a block of
left-overs alone written after three losses. The bound is on all losses of a behaviour, which is more than the
argument needs: it does not matter how many are lost over several blocks.

**The fake pipeline.** `DoneAfterStop` says that a thread which has completed a
block since the stop request is at the top of its loop, where it can only leave, or
has left. The refinement goes as for `Pipeline`, with one difference: the fake thread
waits for one block and writes the data of all, so that filled blocks do not rest.
`SameData` takes the place of that: whatever the thread generates is the same for
every block, so that a write into a filled block leaves it as it is. The header, which
does differ, is written only to the block it has waited for.

**The UDP network thread.** `NetInv` is made as `IInv` is, with a stream of packets
in place of a set: what a beam has stored is less than what it sends next
(`Belongs`), so that no packet comes twice; a packet that is put aside while the
thread waits for a block is not stored yet (`PutAside`). Nothing is filled before
the first batch (`NothingMovedYet`), which is why the benchmark over all blocks does no
harm. `GapsCounted` counts by beam: the packets of one beam in a block are a subset of
`{beam} \X BlockMcnts`, which has `Nm` elements. It needs no assumption on source ids.

What is in a block when it is passed on depends on the history of the stream, not
only on the window. `Tracks` says that without faults the thread is in one of three
phases. Either the stream lies out of sequence and is waited for (`Waiting`: its
packets are counted, at most `MAX_OUT_OF_SEQ`, then the window is reset), or it
begins in the window (`Fresh`), or the thread follows it (`Synced`: what each beam
sends next is in the window or late, at most at the first completing packet, and no
longer late once a block is filled). `Whole` then says that every packet which was
sent and belongs to a block in hand is in it, apart from the one put aside, and that
a filled block has all; `Reported` ties NETBKOUT and NETMCNT to the block filled last.

*Assumption.* `WithinHalfABlock`: no beam leads another by more than
`3 * (Nm \div 2) - Nm` packets. A completing packet is at least that far past the
end of the block it completes, so that no beam still has a packet of that block to
send (`AllArePast`). This is what the network has to provide for the blocks to be
whole at all; with a larger lead TLC refutes `WholeWithinSkew` (section 3).

**Operator and output thread, frames, scripts.** `ModesInv` follows the two reads
of a mode through one block; `RequestsInv` counts a request that is read and not yet
reset. `FrameInv` says that the frames not with the kernel are a run of slots that
ends before `head` (`Queued`). `TransferInv` says, by the command the script is at,
which file is under its transfer name and how much of it is copied.

`McntArithProofs` supplies the integer facts. Its core is `ResetKeepsSlot`: the
counter a resynchronisation computes lies in the slot being assembled, less than
a block before and less than a ring after the packet. Division by a symbolic
constant is out of reach of the SMT solver, so that every lemma about `\div` and
`%` is reduced to quotient and remainder (`DivMod`, `DivModUnique`).

Every inductive invariant was checked by TLC on the instances of the runs before
it was proved (that of `FileGoesForward` with `Nm` 4 as well, which leaves room for a loss).

Model-checked only:

- all liveness (`CatchesStream`, `AcquiresEventually`, `KeepsProcessing`,
  `EveryFileArrives`, `CatchesBeams`, `ComesToRest`, `BlocksKeepComing`,
  `RequestIsServed`, `EveryBlockComesOut`): the prover has neither fairness nor
  ENABLED;
- `TotalsAgree`, whose sums over beams are defined by recursion over a set.

## 6. The plan

Done, in this order: ring, arithmetic, network thread, its proofs, the stream,
the other threads, the pipeline, the frame ring, the transfer scripts, the older
network thread, the fake pipeline with stop requests, the operator's commands with
the voltage dump; then the proofs of the counts, the pipeline and its refinements,
the UDP thread, the operator's commands, the frames and the scripts; then those of the
stream, the fake pipeline as a queue, and the order of what is in the file.

Every safety invariant and action property of the passing runs is proved, but for
`TotalsAgree`. What could be added: `FewLost` for each gap of the stream
instead of all its losses.

### Not modelled

- `pfb_fir.cu`: GPU numerics, called by nothing in the repository.
- `s6_etfits.h`, `s6_obs_data_fast.h`, `s6_logger.h`: declarations whose functions
  are not in the repository, or are commented out where they were called.
- Opening the sockets (`init` of the packet socket, `hashpipe_udp_init`): an error
  ends the program before there is anything to check.
- Monitoring scripts: they read what others write, and mail or print it; nothing in
  the system depends on them.
- The choice of CPUs, interfaces and instances in the start-up scripts, killing by
  name in the stop scripts, and scripts that run once to set up a machine.
- The numbers a thread reports about its own speed, the in-memory log, the text
  format of the status buffer.
