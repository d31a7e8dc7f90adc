# A TLA+ model of XSAN

XSAN is a distributed block store: a node process on SPDK keeps logical volumes
on the disks of a disk group, replicates writes to other nodes, and exposes
volumes as virtual block devices and NVMe-oF namespaces. This directory holds
TLA+ modules translated from its C sources, TLC configurations that check them on
small instances, and proofs checked by TLAPS. Paths below are relative to the
directory `src/` of the repository that holds the code, `src/src/` in `PROJECT.json`.

## The system and its parts

| part | source | module |
|---|---|---|
| ring buffer | `common/ring_buffer.c` | `RingBuffer`, abstract `BoundedQueue` |
| hash table | `common/hashtable.c` | `HashTable`, abstract `KeyedStore` |
| linked list | `common/list.c` | `LinkedList`, abstract `NodeSequence` |
| memory pool | `utils/memory.c` (367-536) | `MemoryPool` |
| allocator with debug list | `utils/memory.c` (68-314) | `MemoryManager` |
| configuration | `utils/config.c`, parts of `utils/string_utils.c` | `ConfigStore` |
| log files | `utils/log.c` | `LogFiles` |
| replicated write path | `storage/volume_manager.c` (287-316, 798-999, 1174-1476) | `ReplicatedWrite` |
| replica read path | `storage/volume_manager.c` (1001-1172, 1479-1589) | `ReplicaRead` |
| volume create, delete, load | `storage/volume_manager.c` (100-133, 318-689) | `VolumeLifecycle` |
| block mapping | `storage/volume_manager.c` (136-219, 691-795, 823-917) | `ExtentIO` |
| block I/O | `io/xsan_io.c`, `bdev/xsan_bdev.c` | `BlockIO` |
| framing of messages | `network/xsan_node_comm.c`, `network/protocol.c` | `Framing` |
| event loop | `network/event_loop.c` | `EventLoop` |
| virtual block device | `vhost/xsan_vhost.c` | `Vhost` |
| node process, NVMe-oF target, SPDK start and stop | `main/xsan_node.c`, `nvmf/xsan_nvmf_target.c`, `core/spdk_manager.c` | `NodeProcess` |

How they interact: the virtual block device calls `xsan_volume_write_async` or
`xsan_volume_read_async`. A write goes to the local disk through block I/O and to
every remote replica through node communication; responses and completions count
on a context until every replica is accounted for, and the user's callback runs. A
read tries one replica after the other. Both map the first block of the request to a
disk through the extents of the volume. Volumes exist as an entry of the in-memory
list, two records of the metadata store and extents of a disk group. The node process
initialises the modules in order, runs a built-in end-to-end test and takes them down.

The modules meet at interfaces rather than by sharing variables: `BlockIO` shows in
which ways a submission ends, and `ReplicatedWrite`, `ReplicaRead` and `ExtentIO` take
these as the outcomes of their submissions; `Framing` shows which sends arrive
whole, and the two replica modules have the partial and the refused send as outcomes;
`Vhost` takes from the write path that a request may be both called back and refused
(run `write_return`), and `NodeProcess` from the loader that a stored volume
locks up the next start (run `lifecycle_load`).

## Modules

**`RingBuffer`** has the fields of `struct xsan_ring_buffer` as variables (`buffer`,
`count`, `head`, `tail`, `value_destroy_func`), the caller's pointer `rb` and the
`result` of the last call. One action per function; a call with a NULL buffer is a
disjunct of its action. **`BoundedQueue`** is the abstract specification: a
sequence, a capacity, results, and the values handed to the destructor.
`Abstract == INSTANCE BoundedQueue WITH queue <- Contents` is the refinement
mapping.

**`HashTable`** keeps the array of chains, the size, the two destructors and one
iterator, which names the entry it stands at or knows that the entry was freed
(advancing it from there is left out: it is the caller's error). As in `LinkedList`, a result names the
call it answers, with its key or position, so that the refinement cannot pass off one call as
another. Keys are pairs of what the key is compared by and which
object it is, since `put` on a stored key keeps the old key object. **`KeyedStore`** is a map
with results, destroyed pairs and what an iteration still owes its caller.
**`LinkedList`** has both links of every node, the ends and the count; callers
pass back only nodes that are in the list. **`NodeSequence`** is a sequence of nodes.

**`MemoryPool`** keeps `free_blocks`, `all_blocks` and the one `next` link per
block that both lists run through. **`MemoryManager`** models the mode (before
`init`, plain, debug), the header list with both links, and the statistics modulo the
width of `size_t`. `fate` records a call that waits for the mutex it holds (`realloc`
and `cleanup` in debug mode do), a pointer past a header handed to libc, and a header
written to a block that has no room for it because the sum of both sizes wrapped
(`Bytes`).

**`ConfigStore`** has the list of typed items, the file and the guess a load makes at the
type of a text. Texts are classes of what the parsers tell apart. **`LogFiles`**
has the numbered files as sequences of message numbers; a thread may have passed
the check of `g_log_initialized` when the log is shut down. A rotation may fail to rename any
of the files, which the code does not notice; `stayed` counts them.

**`ReplicatedWrite`** models one volume and a set of concurrent writes.
`volState` and `replicaState` are the states in `xsan_volume_t`; `ctx` is the
`xsan_replicated_io_ctx_t` of each write (not there, live, freed; its two counts);
`op` is how far the write to each replica got; `conn` are the connections;
`durable` records which replica's disk held the write; `ret` and `cb` are what the
user saw. Functions of the coordinator run to completion on one reactor, so
`WriteAsync` is one action: it picks an outcome for every replica (`LocalOutcomes`,
`RemoteOutcomes`: one element per path through submit, connect and send), adds up
the failures reported before it returns, and settles. `LocalComplete`,
`LocalDropped`, `ReplicaHandle`, `ProcessResponse`, `ResponseLost` and
`ConnectionChange` are the callbacks, the remote handler and the environment.
The constant `Faults` names what may go wrong, `Origin` whether the volume was
just created or loaded with arbitrary persisted states.

**`ReplicaRead`** has for every read the replica it is at (`attempt`), what it waits
for (`phase`), whether it is in `pending_replica_reads` (`listed`) and the requests
and responses under way (`answer`). `TryNext` is the chain of nested calls that goes on to the
next replica as long as attempts fail at once. A context that was put into the table is
freed twice when its read ends, by the table's destructor and by hand; libc aborts on
that, which `process` records.

**`VolumeLifecycle`** models create, delete, load and shutdown for a set of volumes.
`managed` is the list, `vrec` and `arec` the `v:` and `volalloc:` records, `used` the
allocated extents, `ext` the extents in each allocation record. `create` and `delete`
hold `vm->lock` throughout, so `pc` and `cur` hold the single operation in progress;
there is one step per effect that survives a crash, and `Crash` may come between
any two. `told` is what the caller heard; `leaks` is the history of failures which
the code logs and otherwise ignores.

**`ExtentIO`** has what every unit of every disk holds and, as history, what was last
written to every unit of every volume. `Maps` and `Target` are
`xsan_volume_map_lba_to_physical` and `_xsan_volume_submit_single_io_attempt`; disks
come and go. Extents are fixed, as in the code.

**`BlockIO`** has what each request holds (`request`, `descriptor`, `channel`,
`buffer`), what its submitter was returned and what its user was told.
**`Framing`** is one direction of a connection; a byte is its position in the
stream, so that the receive buffer is an interval and a wrong cut shows as a message
that does not begin where one was written. **`EventLoop`** has the descriptor table, epoll's
own record and the batch in progress; files are numbered, so that a
descriptor that is closed and reused can be told apart. **`Vhost`** splits expose at its
two acquisitions of the lock. **`NodeProcess`** walks through the statements and
labels of `main` and `xsan_node_main_spdk_thread_start`; the group and the volume of
the test survive a crash.

**`MCSupport`**, **`MCNode`** and **`MCStorage`** put modules that share no state into one run: each
behaviour exercises one of them (`part`). `MCReplicatedWrite`, `MCVolumeLifecycle` and
`MCExtentIO` give TLC symmetry sets, fault sets and a layout of extents.
Operators commented "Faulty variant" are not part of the model: each is a plausible bug
in the definition it stands before, and breaks a property (listed in `PROJECT.json`).

### Undefined behaviour and missing code

Undefined behaviour is a choice. `_xsan_physical_io_complete_cb` casts its context
to a larger type and reads beyond it: it reaches the upper callback or drops the
completion. A report through a freed operation counts or is lost. A lookup
of the volume through a freed context finds it or not. Counting on a freed context
is recorded in `stale` and the context's memory is not modelled further. The
payload length that `Framing` reads from a message its handler has freed is intact or makes the
process crash. The path that `xsan_config_reload` passes on is freed before it is copied.

`_xsan_check_replicated_write_completion` is declared (line 76) and called but defined
nowhere. `Finished`, `Status` and `Settle` model it from its calls and from
`src/include/xsan_replication.h:39` ("all must succeed"): when successes and
failures reach the number of replicas it calls the user back, drops the transaction
and frees the context. The handler that would deliver a write response is not
registered in `xsan_node.c`; `ProcessResponse` assumes it is. The function that
receives from a socket has no caller; `Framing` runs it whenever the reactor might. The
extent allocator is only declared (`xsan_disk_manager.h`): it hands out free extents,
frees them or fails, and survives a crash. The label of the `goto` at line 528 of
`volume_manager.c` does not exist; the model takes it to free the extents like the
label next to it.

## What the runs check

| run | instance | distinct states | checks |
|---|---|---|---|
| `support` | see below | 167 849 | the properties of the seven library modules, three refinements |
| `node` | see below | 58 694 | the properties of the seven node modules, three of them liveness |
| `storage` | 2 writes, 2 replicas, every fault, any loaded states; and 3 volumes, 2 names, 2 extents, every fault | 3 647 972 | `TypeOK`, `OkMeansEveryReplica`, `EarlyOnlyIfDoubled`, `NoWriteForgotten`; `VolumeTypeOK`, `CreatedIsSafe`, `Consistent` |

The run `support`:

| module | instance | property | what it shows |
|---|---|---|---|
| `RingBuffer` | 3 slots, 3 values with NULL | `IndicesAgree`, `ImplementsQueue` | a bounded queue, through every wrap |
| `HashTable` | 4 key objects of 3 keys, 2 buckets, 2 values | `ChainsExact`, `ImplementsMap` | a map; an iteration misses no key that stayed and returns none twice while others come and go |
| `LinkedList` | 3 nodes, 2 values with NULL | `LinksAgree`, `ImplementsSequence` | both directions agree; a sequence, in which every call acts at the position it names |
| `MemoryPool` | 4 blocks, 2 initial, at most 3 | `NoBlockTwice`, `FreeNotLost` | rewriting the shared link cuts only blocks in use out of the list of all |
| `MemoryManager` | 3 addresses, sizes 0, 1, 3, headers of 1, words of 4 | `ListHoldsLiveBlocks`, `SizesExact`, `DebugBooksExact` | the leak check never meets freed memory; a block has the size its caller asked for, also from calloc; what debug mode counts is what it handed out and got back |
| `ConfigStore` | 2 keys, 2 kinds of edited text, 2 edited lines | `ItemsUnique`, `LoadedSurvivesSave` | one item per key even after failures; a loaded configuration survives a save |
| `LogFiles` | 3 files of 2 messages, 9 messages, 2 waiting threads, 2 failed renames | `LogKeepsNewest` | the files hold the newest messages in order, without a gap unless a rename failed, which costs at most one file |

The run `node`:

| module | instance | property | what it shows |
|---|---|---|---|
| `ReplicaRead` | 2 reads, 3 replicas, every fault | `ReadAnswersOnce`, `FailsOnlyIfAllFail`, `AbortsOnlyBeyondLocal`, `ReadEnds` | one callback with the data of one replica; when a read may fail; that fail-over is what aborts the process; that a read is not forgotten between two replicas |
| `Framing` | header 1, first buffer 3, payloads 0, 5, 7 of at most 8, 2 messages | `FramesWhole`, `NothingDropped`, `ReceivedIsDispatched` | messages come out whole and in order; none is left in the buffer when the peer closes; what was received is dispatched |
| `EventLoop` | 3 descriptors, table of 2 growing to 8, batches of 2, 3 files | `EventsReachOwner` | an event reaches the callback of its own file unless the descriptor was registered anew |
| `BlockIO` | 2 asynchronous requests, 1 synchronous | `IoAccounted` | descriptor and buffer are given back on every path, and the user told once |
| `Vhost` | 2 names, 3 devices, 2 exposing threads, 1 guest I/O | `DeviceListSound`, `NoDeviceLost` | names stay unique although look-up and insertion are apart; no device is lost or destructed twice when expose, unexpose and fini overlap |
| `NodeProcess` | 3 boots | `ModulesNest`, `TestLeavesNothing`, `NodeEnds` | every failed start takes down what was up, in order; what the test leaves; how a process can hang |
| `ExtentIO` | 2 volumes of 2 extents on 2 disks, block sizes 1 and 2, 3 writes | `VolumesApart` | within extents, volumes and block sizes never mix up |

`OkMeansEveryReplica`: XSAN_OK means every replica's disk held the write, although
counts are anonymous, replicas may be counted twice and contexts freed early.
`EarlyOnlyIfDoubled` pins every early completion and every use of a freed context
on one cause, a replica counted twice. `NoWriteForgotten` says that a write whose
callback is due has a replica that has not reported. `CreatedIsSafe` and `Consistent` say that
a created volume is never damaged by failures around it and that failed creations are
rolled back completely; `leaks` excuses only failures the code ignores.

Several properties state exactly how far a promise goes, so that a wider failure would
violate them: `AbortsOnlyBeyondLocal` (reads answered by the local disk are safe, and
any remote success ends in a double release), `EventsReachOwner` (an event of a descriptor that was
closed and registered anew in the same batch may reach the new callback), `ReadEnds`, `NodeEnds`.

Nine runs show the code departing from what the repository says of it; each checks one
property and TLC finds a counterexample.

| run | property | disagreement |
|---|---|---|
| `write_return` | `ErrorMeansNoCallback` | `write_async` returns an error after it called back; `xsan_vhost.c:175` relies on the contrary |
| `write_connect` | `WriteCompletes` | a started connection is never reported to `connect_cb` (`xsan_node_comm.h:115`) and the write hangs |
| `write_recover` | `RecoversFromFailure` | a created volume's remote replicas are skipped, counted as failed and taken offline by its first write, and nothing brings them back; the `README.md` of the repository (line 10) promises automatic recovery |
| `lifecycle_delete` | `DeletedIsGone` | delete returns XSAN_OK with the record still stored |
| `lifecycle_load` | `InitReturns` | the loader locks a mutex it holds: a node with a stored volume does not start |
| `extent_crossing` | `ReadsWhatWasWritten` | only the first block of a request is mapped: one that crosses the end of an extent goes elsewhere (`xsan_volume_manager.h:148`) |
| `volume_busy` | `DeletedIsUnused` | delete asks nobody whether the volume is in use and frees it under a guest's I/O (`xsan_volume_manager.h:76`) |
| `frame_limit` | `AllowedSizesPass` | the receive buffer only doubles and is given up at its limit: payloads the protocol allows (`xsan_protocol.h:22`) end the connection |
| `io_channel` | `ChannelsPutBack` | a request submitted with the descriptor of the disk and without a channel, as the volume manager does, keeps the channel it got (`xsan_io.c:172`) |

**Bounds.** Three slots let `head` and `tail` wrap at different times with values in
between. Two writes let one completion act on replica states that another changed, and two
replicas let a double count complete a write while a replica is still at work; larger numbers are
left to the proofs. Three volumes and two names give a name clash beside an unrelated volume; two
extents let extents be shared, freed and reused. Three keys in two buckets give a chain of two
and a bucket that an iteration comes to later. Three nodes give an insertion between
two others and the removal of an inner node. The payloads 5 and 7 make the receive buffer double once and meet its
limit; two messages let one follow the remains of another in the buffer. Three files let
a descriptor be reused twice. Three boots let a process find what one
that crashed has left, and a third start after that. Words of 4 make
`3 * 3` wrap, and a header of 1 in front of 3 bytes. Two failed renames let one come on top of
another. `MaxSent`, `MaxWrites`, `MaxFiles`, `MaxMessages`, `MaxWaiting`, `MaxStayed`, `MaxLines`
and `MaxBoots` bound counters that the code does not. The proofs do not depend on any of these.

**Deadlock** is not checked: every write may be finished or waiting for something that
never comes, and the other parts come to an end (the process has exited, every read is answered).

**Fairness.** The passing runs assume only what the code promises: weak fairness of
local completions (`ReadFairness`), since the SPDK reactor polls the disks for ever; of the
parsing loop inside one call of the receive function (`FramingFairness`); and of the main
thread with its completions (`NodeFairness`). They do not assume that sockets are read or
responses handled: no group of sockets is created anywhere and nothing calls the receive
function, so `ReadEnds` leaves a read waiting for a response that is under way, and
`ReceivedIsDispatched` starts from bytes that were received. The counterexamples of
`write_connect` and `write_recover` hold under `GenerousFairness`, which grants the processing of
requests and responses as well, more than the code promises: what they show is lost even then.
No fairness is assumed for users, for connections, for a message that was lost or for a completion
that is dropped.

## What is proved

For every value of the constants, from the named assumptions of the modules (each is an
`ASSUME` that TLC evaluates in a run):

- `RingBufferProofs`: `RingInvariant` (type correctness with `IndicesAgree`) and
  `RingRefinesQueue`, `Spec => ImplementsQueue`. The type invariant and `IndicesAgree`
  are inductive; the refinement rests on lemmas on how `Walk` changes when one slot,
  `head` or `count` does.
- `ReplicatedWriteProofs`:
  - `WriteTypes`.
  - `AckedIsEverywhere`. `OkMeansEveryReplica` is not inductive: nothing in it ties
    a count to the replicas. `AckInv` adds that the success count is at most the number
    of replicas that are done and hold the write, and that a replica whose XSAN_OK is on its
    way holds it. A write completed without a failure has as many successes as
    replicas, so none is left out; a double count only ever adds failures.
  - `FreedOnlyWhenDone`. `ExactInv` adds that for a write which counted nothing twice
    the two counts add up to exactly the number of operations that are done.
  - `NothingForgotten`. `CoverInv` adds that the counts of a live write add up to at least the
    number of replicas that have reported and to less than the number of replicas.
- `VolumeLifecycleProofs`: `LifecycleTypes`; `CreatedStaysSafe`, whose invariant `SafeInv`
  adds which volume the operation in progress may touch, and that its extents and
  those of created volumes are disjoint; `StoreAgrees`, whose invariant `AgreeInv` says for
  every `pc` by how much list, records and extents differ at that step.
- `FramingProofs`: `FramesAreWhole` and `NothingIsDropped`, whatever the sizes. The invariant `FramingInv` adds
  that messages lie one after the other in the stream and only the last can be cut
  (`Stream`), that the buffer begins with the next message or just behind its header
  (`Position`), and that outside the parsing loop nothing in it can be parsed (`Parsed`).
- `MemoryPoolProofs`: `BlocksHandedOutOnce` and `FreeBlocksKept`. The links of the free blocks form one
  chain from `free_blocks` (`FreeChain`), and both lists lead to every free block
  (`FreeReached`); a block that `free` makes the new head is followed by the whole free
  list, so the list of all blocks still reaches it. Being reached is
  membership in every closed set, which needs no induction over the list.
- `ReplicaReadProofs`: `EveryReadAnsweredOnce`, `FailureMeansAllFailed` and
  `LocalReadsNeverAbort`. `ReadOK` says of each read that it was called back just when it has ended,
  that while it goes on exactly the replicas before the current one have failed it, and that
  only the current one can still answer, unless a replica answered twice.
- `BlockIOProofs`: `EveryIoAccounted`. `IoOK` adds what a queued request holds, owns and was told.

**Only model-checked:** the liveness properties (fairness is outside the prover's reach), the
refinements of `HashTable` and `LinkedList` and the properties of `ConfigStore`, `LogFiles`,
`MemoryManager` and `ExtentIO` (recursive walks, folds and sums, which call for
induction over data), those of `EventLoop`, `Vhost` and `NodeProcess`, and the counterexamples.

## Not modelled, and why

- `network/socket.c`, `main/xsan_cli.c`, `common/error.c`, `common/version.c` and most of
  `utils/string_utils.c`: wrappers of system calls, printing, tables and character work
  without lasting state.
- Membership, election, heartbeat and health in `cluster/xsan_cluster.c` are stubs; the
  code that reads seed nodes (lines 81-111) stands outside any function. Only
  start and stop appear, in `NodeProcess`.
- `storage/disk_manager.c` breaks off in `fini`; disk groups and extents are declared only.
- `disconnect` and the list of connections in `network/xsan_node_comm.c`: `disconnect` takes a
  lock it holds and has no caller; `xsan_node_comm_get_active_connection` is defined nowhere.
- The encoding of message headers field by field, and the checksum, which the receiving side
  never verifies.
- The volume record as JSON text, truncation of over-long names, and `offset + length` beyond 2^64 in
  the range check of reads and writes.
- The iterator, open and close of the metadata store, which are RocksDB calls.
- Settings read into structs by `utils/config.c` (547-750), `strdup` and its like, the hit, miss and
  call counters, log levels and formatting.
- The asynchronous test in `main/xsan_node.c` (84-164), which nothing starts.
- Policy and virtualization: headers in `include/` without an implementation.

## Hazards

`PROJECT.json` lists what is hard to test in this code, at the line where it bites, with the
properties that cover it; those without a property say why.
