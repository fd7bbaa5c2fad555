# A TLA+ model of the rome RDMA library and its interlocked hash tables

The repository is the sandbox of a Rabia (Weak-MVC) port to C++ and RDMA. The consensus
algorithm itself is not there yet: `src/src` holds two ping programs and their message types.
What it does hold is the layer everything is to run on: the `rome` library in
`src/oldAPIHelpMark`, which sets up RDMA connections between all nodes, passes messages over
them, reads and writes remote memory, and the interlocked hash tables (IHT) built on top. This
project models that layer. All paths below are relative to `src/oldAPIHelpMark`.

## 1. The system

| Component | State | Operations | Hard parts |
|---|---|---|---|
| `ConnectionManager` (`rdma/connection_manager.h`) | `accepting_`, the spin lock `mu_`, the map `established_` | `Start`, `Connect`, `ConnectLoopback`, `GetConnection`, the callbacks `OnConnectRequest` and `OnDisconnect`, the destructor | two threads per node, all nodes connect to all nodes at once, `Connect` waits with the lock held, error returns with and without the lock |
| `RdmaBroker` (`rdma/broker.h`) | `terminate_`, the listening event channel | `HandleConnectionRequests`, `Stop` | its thread runs the callbacks against the application thread |
| start-up (`init_cm` in `iht/compete.cc`, `MemoryPool::Init`) | position in the vector of peers | connect to all, send to all, deliver from all | must be a barrier; retries of rejected requests |
| `TwoSidedRdmaMessenger`, `RdmaChannel` (`rdma/connection_manager.h`) | a ring of bytes to send from, receive slots, counters | `SendMessage`, `TryDeliverMessage`, `TryPollMessage`, `PrepareRecvBuffer` | wrap-around of two rings, slots posted again while messages are read, receives that run out |
| `MemoryPool` (`rdma/memory_pool.h`) | `thread_ids`, `reordering_counters` | `RegisterThread`, `Read`, `Write`, `CompareAndSwap`, `AtomicSwap` | threads share queue pairs and poll each other's completions |
| slab allocator (`rdma/memory_pool.h`) | `head_`, free lists per thread | `do_allocate`, `do_deallocate` | lock-free head, blocks of different sizes in one list |
| `iht_carumap` (`iht/iht_local.h`) | a tree of P-Lists, whose buckets are a lock and a pointer | `get`, `insert`, `remove`, `rehash` | bucket locks that turn into pointers to deeper P-Lists |
| `RdmaIHT` (`iht/iht_ds.h`) | the same tree in remote memory, a cache of P-Lists | `contains`, `insert`, `remove`, `rehash` | P-Lists read before the lock is taken, unlocking writes nobody waits for |
| `TwoSidedIHT` (`iht/rpc.h`) | one `iht_carumap` per node, two connections per pair | `get`, `insert`, `remove`, a pool of server threads | requests and answers of several threads on one connection |
| TCP barrier (`util/tcp/tcp.h`, `iht/role_server.h`, `iht/role_client.h`) | the server's list of sockets, a socket per client | `accept_conn`, `send_to_all`, `recv_from_all`, `send_server`, `recv_server` | partial reads, processes that die, two objects that own one descriptor |
| workload driver and client (`colosseum/workload_driver.h`, `iht/role_client.h`) | a stream of operations, counters and samples, a barrier per node | `Client::Run`, `Start`, `Apply`, `Stop`, the driver's loop | one barrier for three phases, counts that are off by one |
| metrics (`metrics/`) | a search tree of samples, running percentiles and moments | `operator<<`, `UpdatePercentiles`, `Clear`, the getters | ranks, subtree counts, windows cut by looks at the statistics |

They interact as follows. The application thread calls `ConnectionManager`; the broker thread
calls its callbacks. A `Connection` owns an `RdmaChannel`, hence a messenger, on one queue pair.
`MemoryPool` exchanges memory regions over these channels and then posts one-sided requests to
the same queue pairs. `RdmaIHT` uses `MemoryPool` only; `TwoSidedIHT` uses channels and, on
each node, an `iht_carumap`. In an experiment every client thread has a TCP connection to a
server, drives the table through a workload driver, collects its latencies and throughput in
summaries, and stops when the server says that everybody is done.

What makes each part correct, in a sentence: connecting ends with exactly one connection per
pair of nodes that both ends agree on, without deadlock and with the lock returned; a channel is
a FIFO; a one-sided operation returns when it, and not somebody else's, has completed; a hash
table is an atomic map; no byte of registered memory is handed out twice; nobody passes the stop
barrier while others work, and nobody is left behind in it; what is reported is what was measured.

`PROJECT.json` lists the hazards, each at its line, and the properties aimed at it.

## 2. The modules

| Module | Models | Composition |
|---|---|---|
| `ConnectionManager` | `ConnectionManager`, `RdmaBroker`, `init_cm` of all nodes | |
| `Messenger` | one direction of a channel | refines `FifoChannel` |
| `FifoChannel` | what a channel promises | |
| `MemoryPool` | one-sided operations of threads that share queue pairs | |
| `LocalIHT` | `iht_carumap` | refines `KeyValueMap` |
| `RdmaIHT` | `RdmaIHT`, any number of clients | refines `KeyValueMap` but for stale pointers, until a mishap |
| `TwoSidedIHT` | the partitioned table: clients, servers, connections | over `FifoChannel` and `KeyValueMap` as the channels and the local tables, as far as these go; refines `KeyValueMap` until then |
| `KeyValueMap` | what a concurrent map promises | |
| `SlabAllocator` | the registered memory and its allocator | |
| `Experiment` | server, clients, workload drivers, the TCP barrier and the nodes' barriers | |
| `Summary` | `metrics::Summary` and its `ATree` | |
| `MC*` | the instances for TLC | extend the modules above |
| `ConnectionManagerProofs`, `MessengerProofs`, `MemoryPoolProofs`, `LocalIHTProofs`, `RdmaIHTProofs`, `SlabAllocatorProofs`, `TwoSidedIHTProofs`, `ExperimentProofs` | the theorems and their proofs | each extends the module it is named after |

Definitions whose comment starts with "Mutant" are deliberate mistakes that no specification
uses. Each is a plausible bug, and each property fails when the definition it stands next to is
replaced by one of them.

### ConnectionManager

One state for all nodes. `mu`, `established`, `accepting` are the members of the manager;
`brk` and `pending` are the broker thread and its event queue; `pc`, `phase`, `next` say where
the application thread is in `init_cm`; `answer` is the event on the private channel of a
request; `sent` is which first messages have arrived; `disconnected` is for which peers a node's end of
the connection is gone. A connection is named by the node that
requested it, which is enough to tell the two possible connections of a pair apart.

`Acquire` is the spin lock: a thread that finds the lock taken for a peer waits (the action is
not enabled), one that finds it taken by the node's own application gives up (`GivesUp`). What
the callers make of giving up differs: `OnConnectRequest` rejects, `OnDisconnect` and the
destructor ignore it (`AcquireUnchecked`).

Every step between two points where the other thread can interfere is one action: taking the
lock, the work under it, the wait for the answer, the dereference after the release. Errors of
verbs calls (`ConnectFails`, `ConnectEstablishedFails`, `SendFails`) and leaving early happen to
the nodes in `Unstable`. A call that fails behind `Acquire` keeps the lock, except the one whose error
path releases it. What happens to a failed node then is a choice: the programs of the repository abort
(`ProcessEnds`; `OK_OR_FAIL` of `rdma.h:32`, `compete.cc:142-148`), and the kernel tells the peers one
by one (`KernelDisconnects`); but the calls return a `Status`, so the owner of a manager may as well
destroy it. The destructor is four kinds of steps: it takes the lock and stops accepting
(`CloseBegin`), joins the broker thread (`BrokerStop`), disconnects one peer after the other while `established_` still
has all of them (`Disconnect`), and only then clears the map (`CloseEnd`); peers act in between.
`TransportAnswers` and the fate of messages are librdmacm's behaviour
as the code relies on it: a request to a peer that is gone is rejected or unreachable, the
receives of a peer that left are flushed.

Left out: the duration of the back-off (a step may take any time), `num_connections_` (only
logged), the events that abort the broker, and the branch of `Connect` that finds a second
connection when its request is established (`NoDuplicate` shows that it is dead).

### Messenger

`send_next` is a byte offset, receive slots are numbered; lengths vary, contents are model
values. `Transfer`, `RnrExhausted` and `Disconnect` are the queue pair: a send meets a posted
receive, finds none until the retries are used up, or the sender goes away and receives are
flushed. The send's buffer is read at the transfer, which `SendMessage` waits for. The receiver
calls `Deliver` or, in a loop, `TryReceive`. A poll of an empty queue reads a completion that nobody
wrote: any outcome is possible, all but SUCCESS change nothing, and SUCCESS is `PollUnwritten`. The
history variable `phantom` remembers it; what the channel promises is promised until then.
`send_total_` only feeds a `wr_id` nobody reads and is left out.

### MemoryPool

A word of remote memory per queue pair; every call brings a value of its own, so that a stale
write or a lost one shows. `Expect` sets the counter, `Post` posts, `Check`, `Poll` and `Subtract` are the
polling loop, one step per access to shared state, the same in `ReadInternal`, `Write`,
`AtomicSwap` and `CompareAndSwap`. `Execute` is the adapter: it takes requests of a queue pair in
order and reads the local buffer of a write at that moment. Reads are one chunk, as all callers
make them; a failed completion aborts the program and is left out; a thread registers once. A
write without acknowledgement sets no counter and waits for nothing: its thread may call again,
and fill the same buffer, before the adapter has read it. The history variables are `history`, what
successful atomics have replaced, and `overtaken`, the values that such an early write carried before
the call they belong to wrote them: a value of that kind can appear in a word twice, so
`AtomicsAreSerial` says nothing about it.

### LocalIHT

A P-List is named by the path of bucket indices from the root, a bucket by its P-List and
index. The mixing in `level_hash` is the parameter `Hash`, a number per key and level; the
modulus is the code's. Between `acquire` and the unlocking store a thread is alone with the
bucket, so the search and the change are one action and the unlock is another. `rehash` places
the pairs by the depth and the size of the parent, as the code does: a new bucket gets the pairs
that hash to it, in the order of the loop (`InOrder`). Searches use the depth and the size of the child, so
most rehashed pairs are not found again; the model has that as the code does.

### RdmaIHT

The tree is that of `LocalIHT`, with E-Lists behind pointers (`elists`), because here a client may
hold a pointer that is no longer the bucket's. `seen` is the one bucket of the P-List a client has
read that it is going to use; `parent` is `parent_ptr`, `bpath` is `bucket_path`, and they differ
only if the cache returns the wrong P-List. `Read...`, `Acquire...`, `Refetch` and `Descend` are
the loop of `do_with`, one step per operation on remote memory; the lambdas of `contains`,
`insert` and `remove` run under the lock of the bucket and are one step each, up to and including
the change of the bucket's pointer. Whether an E-List is local or copied makes no difference to the holder of
the lock and is left out, and so are `populate` (inserts), `destroy` and `print`.

The unlocking write is not waited for (`RDMAWriteNoAck`, `iht_ds.h:187`). `Post` puts the status into
`temp_lock` and the write into `posted`; `Execute` is the adapter, which writes what the buffer holds when it
comes to it (nothing is sent inline). The adapter keeps the order of a client's operations on one node
(`home` says where a P-List lives), so an operation that is waited for comes after the earlier ones to its
node (`InOrderAt`), but nothing orders writes to two nodes. `mishap` records what has gone wrong:

* `"unlock"`: a lock word was written that is not the one `unlock` was called with;
* `"cache"`: `fetch_cache` returned the P-List of another path, which takes `cache_depth = 3`;
* `"count"`: `rehash` made an E-List in memory that is not zero. `iht_ds.h:261-266` sets no `count`: memory from
  huge pages and reused blocks is zero, that of `aligned_alloc` may hold anything (`RehashUnset`).

The first two are modelled to the end; a client whose behaviour is undefined (`GoAstray`, `RehashUnset`) does
nothing more. `cache_depth` is any of the four settings of the code.

### SlabAllocator

Addresses are offsets in a memory of the node; what is stored is one bit per byte, whether it
holds data. `Construct` is the constructor of `RdmaMemory` with `RegisterMemoryRegion` (sizes are
`uint32_t` and `int` there, of `UintBits` bits), called as `MemoryPool::Init` does. An allocation
takes a block of a free list (`Reuse`) or goes into the loop on `head_` (`ReadHead`, `Cut`,
`CutAgain`, `OutOfMemory`), one step per access to `head_`; a request beyond the largest class aborts
(`AllocateTooLong`). The lists are `thread_local`:
`Deallocate` puts a block on the list of the thread that frees it, and `ThreadExit` loses the lists.
`alignments_` is one bit per list, because `rdma_allocator` asks for the same alignment always.
`CallersAssumption` is what the callers in the repository do: they ask for powers of two (after raising
to the alignment, which divides them) and give back the same class. `CapacityAssumption` says that the
word `MemoryPool::Init` adds does not overflow a `uint32_t` of a power of two.

### TwoSidedIHT

`requests` and `responses` are the two connections of every ordered pair of nodes, reliable and
ordered (`Messenger` shows to what extent). A client operation is a request, the wait for the
answer with the lock of the peer held, and the return; on the node's own keys it is one step. A server thread
sweeps over the peers, takes the server lock of each, polls, applies, answers; between two sweeps it reads the
flag that the destructor sets. `effect` and `old` are history: whether and with which result the operation of a
thread has taken effect. Three things the other modules show of the parts it is made of are steps here:

* Servers poll empty queues all the time (`rpc.h:100`). If the completion nobody wrote says SUCCESS
  (`PollUnwritten`), the server serves what an old slot holds, a request of `OldRequests` or none (`Unknown`), answers
  it, and stays one slot ahead of its writer for good (`ahead`, `InSlot`). If it says anything else the poll changes
  nothing
  (`PollNothing`). Responses nobody asked for use up receives, and a send may run out of retries and abort
  (`SendFails`, `SendResponseFails`).
* An insert may rehash a full bucket of the `iht_carumap`, and the pairs in it are not found afterwards (`Rehash`,
  `lost`): a pair in the wrong bucket is passed by every later search, as if it had been removed.
* The destructor deletes the table and only then joins the servers (`rpc.h:59-64`). `Destroy` is possible when the
  node's own client threads are done with the table, which the other nodes' need not be; a server that
  works on the deleted table finds anything or crashes (`Finds`, `DoCrashes`, `dangling`).

`Orderly` says that neither the first nor the last has happened. No program of the repository creates a
`TwoSidedIHT`.

### Experiment

All client threads of all nodes and the server. `up` and `down` count the bytes on the way; a read
returns between one byte and a message, zero bytes when the other process died. A barrier of a
node is the set of threads that have arrived; the last one to arrive releases all. `pc` follows
`main`'s client thread through `Client::Run`, `Start`, the driver's loop and `Stop`. The lap times that
the stopwatches measure are arbitrary members of `LapTimes`; a `TimedStream` ends at an arbitrary
operation, a `FixedLengthStream` when it has counted to `op_count`. What the operations are, and
what they return, is left out. A node in `MayCrash` dies at any time and takes its threads with it,
the server in the phases of `ServerMayCrash`. `closes` counts who closes the descriptor of a thread,
with the copy that `Client` keeps of the endpoint.

### Summary

The tree is a record of functions from keys to children, values and metadata, so that insertion,
update of the counts on the way down, the search for a rank and the clearing are the code's, pointer
for pointer. Doubles are exact fractions of `Scale`, percentiles are in tenths of a percent. A look at
any of the statistics (`Report`) folds the window into the running percentiles, as every getter
does.

## 3. The runs

| Run | Instance | Properties | Result |
|---|---|---|---|
| `cm_stable` | 3 nodes, nothing fails | `TypeOK`, `LockExclusion`, `AgreedConnection`, `NoDuplicate`, `InitBarrier` | hold |
| `cm_live` | 2 nodes, each may fail at any call, abort or leave; fair | `AgreedConnection`, `KeptWhileUsed`, `ConnectAnswered`, `LockReturned` | hold |
| `msg` | 2 slots of 3 bytes, 5 messages; fair | `RingsAgree`, `UnreadNotPosted`, `ImplementsFifo`, `SentIsDelivered` | hold |
| `pool` | 3 threads with 2, 1 and 0 operations on 2 queue pairs, room for 2 threads; fair | `CountersOK`, `ReturnsAfterCompletion`, `AtomicsAreSerial`, `WritesItsValue`, `OperationsReturn` | hold |
| `iht_rehash` | 2 threads, 2 operations each on 3 keys, E-Lists of two pairs, depth 3; fair | `TreeOK`, `OneInside`, `ImplementsMap`, `OperationsReturn` | hold |
| `rdma_tree` | 2 clients on 2 nodes, 2 operations each on 2 keys, E-Lists of one pair, depth 3, two layers cached; fair | `ClientsOK`, `StoredIsFound`, `AtomicUnlessStale`, `OperationsReturn` | hold |
| `rdma_stale` | as `rdma_tree` | `LockedIsFresh` | violated |
| `slab` | 2 threads, memories of 2^4, 2^5 and 2^6 bytes and a word, integers of 6 bits, 3 sizes of request; fair | `BlocksOK`, `NoOverlap`, `ClearsWhatItReuses`, `AllocationReturns` | hold |
| `rpc` | 2 nodes with 2 server threads each, 2 client threads of one node with one operation each, 4 keys (both bounds of the range), E-Lists of one pair, 2 values, one connection on which a server may read too early; fair | `UseOK`, `OwnAnswer`, `ImplementsMap`, `EverythingReturns` | hold |
| `experiment` | nodes with 2 and 1 threads, the second may die, and the server too; messages of 2 reads, 2 operations or up to 1 timed; fair | `NodesOK`, `StopIsBarrier`, `Reports`, `EveryoneEnds` | hold |
| `experiment_retired` | as `experiment` | `BlocksForRetired` | violated |
| `summary` | 6 samples of 5 values, windows of 4, looks anywhere | `TreeOK`, `StatisticsOK` | hold |

Several invariants are conjunctions of named parts, the type invariant of the module among them,
each stated and commented by itself:

| Invariant | Parts beside `TypeOK` |
|---|---|
| `RingsAgree` (`Messenger`) | `SendInBounds`, `OkMeansArrived`, `RecvInStep` |
| `CountersOK` (`MemoryPool`) | `NoBrokenSynchronization` |
| `TreeOK` (`LocalIHT`) | `LockTellsType`, `EListFits` |
| `ClientsOK` (`RdmaIHT`) | `OneInside`, `LockTellsType`, `NeverMistaken`, `CacheFresh`, all until a mishap; with `cache_depth <= 2` the first mishap is not the cache's |
| `BlocksOK` (`SlabAllocator`) | `Satisfied`, `BitsTell`, `FreedWhereSought` |
| `UseOK` (`TwoSidedIHT`) | `NoOverlap`, `Partitioned` |
| `NodesOK` (`Experiment`) | `LocalPhases`, `ClosedOnce` |
| `TreeOK` (`Summary`) | `TreeIsWindow`, `NoLeak` |
| `StatisticsOK` (`Summary`; without `TypeOK`) | `FindsOrderStatistic`, `Extremes`, `Ordered`, `Moments` |

`ClearsWhatItReuses` is `DataIsKept` and `ReusedIsClear`, `EverythingReturns` is `CallsReturn` and
`DestructorReturns`.

The bounds. Two nodes are enough for two requests that cross and for a disconnection that
meets a `Connect`; three add a node that is busy with a third while a second asks, and a
connection table with an entry that is not under discussion. Failing nodes are checked two at a time: with three,
the safety properties of `cm_live` also hold but take TLC some minutes, and for any number of nodes they are
theorems. The messenger sends five messages
through two slots, so both rings turn more than twice, with all lengths up to and including the
one that is refused. In the pool a thread goes on to a second operation while another's first
is under way, so a completion that outlives its operation would be seen, and the third thread is
one more than there is room for. In the tables, keys share a bucket of the root and part one
or two levels below, so a bucket is rehashed, also while the other thread waits for it, and an
insert may rehash twice. `MaxDepth` is never reached by an insert (it would block, and
`OperationsReturn` would fail). The root of the remote table has two buckets, of which one is in
use (`level_hash` leaves out the last), so that it is full, and cached, after two inserts; the
code wants a multiple of four, for alignment only. The allocator's memory is used up and
reused within the bound, two threads meet at `head_`, and of the three memories one fits an `int` of
6 bits, one does not, and one wraps around to nothing as a `uint32_t` of 6 bits. In `rpc` two threads
share the connections to the other node, whose two servers race for their requests; they meet at one key with two
values, and at two keys of one bucket, on their own node and on the other; the first rehash that loses pairs and
one early read of a server, with one old request or none in the slot, happen anywhere (`MayRunAhead`,
`OldRequests`). In `experiment` the lap
times 10 and 11 lie at and above the sampling rate of 10 milliseconds, and half messages, deaths
before and after the message to the server, and a server that dies in its barrier all happen.
`summary` has more samples than a window, so that one window is full, one is cut by a look and
one is cleared by the destructor; 720 = 6! makes every division exact.

Fairness. Both threads of a node run and the transport answers (`ConnectionManager`): the code
polls in loops without a timeout and the connection manager of the kernel has one. The adapter
executes what is posted and threads inside an operation keep polling (`Messenger`,
`MemoryPool`, and the unlocking writes of `RdmaIHT`). Threads inside an operation of the table run; the lock is a
spin lock without a
queue, but the number of operations is finite, so weak fairness is enough; the same goes for the
mutexes of `TwoSidedIHT`, whose client threads inside an operation and whose servers run, and for the
threads inside the loop on `head_`. In `Experiment` the clients and the server run until they end or
die. No thread has to call, register, send, free or leave, and nobody has to die. That two nodes which keep
rejecting each other get through in the
end depends on the lengths of their back-offs, which are not modelled, and is not claimed.

Where the system really may stop, deadlock is not checked: after a fatal abort of the allocator,
when an experiment has ended or waits for clients that died before they connected, and when the
summary is destroyed.

### Findings

* `rdma_stale`: a client uses the pointer it read before it locked the bucket. Two clients that
  read an empty bucket both insert, and the second replaces the E-List of the first; a client
  that read it as empty also misses keys. `AtomicUnlessStale` shows that, until one of the three mishaps
  of the module, every other step is one of an atomic map, and `NeverMistaken` that a stale pointer is never
  that of a P-List until then.
* `experiment_retired`: `tcp.h:77` and `220` and `util/tcp/README.md:11` say that the socket manager blocks waiting for a
  message of a client that is gone. The read returns zero bytes, which `recv_from_all` takes for the
  message, and goes on. That everybody ends when clients die (`EveryoneEnds`) rests on what these lines deny;
  the mutant of that property is the behaviour they describe.

Further observations have no run of their own; most of them are steps of the models, and the properties are stated so
as to except them, not to catch them.

Connections and channels:

* `OnDisconnect` goes on after `Acquire` gave up, erases from `established_` and releases the
  application's lock: with nodes that leave, `LockExclusion` does not hold. `cm_live` shows what
  does.
* `OnDisconnect` destroys the event channel of the identifier, which is the listener's: the broker thread ends at
  the first disconnection (`HandleDisconnect`), while `accepting_` is still set, and a second peer that leaves is
  never removed from the map.
* Error returns of `Connect` and `ConnectLoopback` behind `Acquire` keep `mu_` ("Error: returns without releasing
  locks", `connection_manager.h:830` and `849`); only the failure of `rdma_create_ep` releases it. `LockReturned`
  excepts failed calls and does not count a destructor as their release.
* The `Connection` of a peer that disconnects is destroyed, whoever still has the pointer `GetConnection` returned.
  `KeptWhileUsed` says no more than when: not before the requester's end is gone.
* `rnr_retry_count` is 1, which is one retry, where the comment says "Retry forever": an accepting
  node that sends at once can break the connection when the requester has not yet built its
  `Connection` (`SendFails`, of nodes that may fail).
* `Connect` and `ConnectLoopback` read `established_` after `Release` (`ConnectReturn`), when the
  broker may be inside a callback.
* `TryPollMessage` takes an empty completion queue for a completion (`PollUnwritten` of `Messenger` and of
  `TwoSidedIHT`). In the latter the first caller afterwards gets the answer to a request nobody sent;
  without `Orderly`, `OwnAnswer` is violated.

Memory:

* Unlocking writes share a buffer and nobody waits for them: a second unlock, of a word of another
  node, can change what the first one writes (the exception in `WritesItsValue`). In `RdmaIHT` a client that
  rehashes a bucket and unlocks its next one on its own node can leave the bucket of a P-List `E_UNLOCKED`:
  as an invariant of its own, without `mishap = {}`, `LockTellsType` is violated in `rdma_tree`.
* Blocks are cut in the size asked for, raised to the alignment, and cleared in the size of their
  slab class: for sizes that are no powers of two `DataIsKept` fails, and later blocks lose their
  alignment. All callers ask for powers of two.
* `do_deallocate` does not raise the size to the alignment: a block of eight bytes that is given
  back as eight bytes is never reused. `RdmaIHT::destroy` gives back eight words.
* The free lists are `static thread_local`: all resources of a process share them, and what a thread
  freed is lost when it ends.

Hash tables:

* `rehash` of `iht_carumap` places pairs by the parent's depth and size, searches look by the
  child's; pairs are lost to searches. `ImplementsMap` of `LocalIHT` and of `TwoSidedIHT` is therefore stated for
  the steps up to the first rehash. `RdmaIHT` does not have this mistake (`StoredIsFound`).
* The cache of `RdmaIHT` uses the size of the root as the stride of its third layer, although the
  P-Lists above are twice as large: two paths share an entry (`CacheSlot`), and the experiments of the repository run
  with all three layers (`experiments.sh:5`). It takes a full third layer, beyond the bounds of `rdma_tree`; with a
  root of
  three buckets and a client that inserts 25 keys in the right order TLC steps into it.
* `rehash` of `RdmaIHT` inserts into E-Lists whose `count` it has not set (`iht_ds.h:261-266`; `insert` does at
  line 556).
* `to_id` divides by the length of the key range, which is zero when both bounds are equal.
* `TwoSidedIHT`'s destructor deletes the table before it joins the servers; a request of another node that
  comes late meets a deleted table (`Do`, `DoCrashes`).

Experiment and metrics:

* A read of zero bytes counts as a message at a client, too (`role_client.h:244`): the death of the server lets its
  clients pass `Stop` while others still work. `StopIsBarrier`
  is stated for a server that lives.
* A message that arrives in two reads leaves bytes in the stream; that is harmless because every
  socket serves one round.
* The status of a failed `Run` is overwritten by that of `client_->Stop()`
  (`workload_driver.h:261`).
* The populating of the table is synchronised within a node and not between nodes: an early node
  measures while a late one still populates.
* After the first window, a percentile moves towards that of a new window by one part in all samples
  seen so far, however many the window has: the first window dominates. Order and extremes are
  kept all the same (`Ordered`, `Extremes`).
* `Summary::Accumulate` and `ATree::Remove` have no caller. The first copies the tree's pointers, does
  not add the numbers of samples and weighs by the wrong totals; the second loses nodes.

## 4. The proofs

TLAPS checks every proof to the last leaf. Each theorem is about `Spec` (safety only) and holds for
all values of the constants that the named `ASSUME`s allow; TLC evaluates those on every run. None of
the properties is inductive by itself: each module defines an invariant (`IInv`, or
`LeaverInv` and `StableInv` for the connection manager; `mishap = {} => IInv` for `RdmaIHT` and
`Orderly => IInv` for `TwoSidedIHT`) with the missing facts as named and commented conjuncts, and has
one lemma per action, or group of similar actions, saying that the action preserves it. The table says what
is proved of the properties of the runs.

| Module | Theorem | Property |
|---|---|---|
| `ConnectionManagerProofs` | `TypeCorrect`, `Agreement`, `NoDuplicates`, `KeptUntilLeft`, `StableLockExclusion`, `StableNoHalfOpen`, `StableBarrier` | `TypeOK`, `AgreedConnection`, `NoDuplicate`, the action property `KeptWhileUsed`, `LockExclusion`, `NoHalfOpen` (in no run), `InitBarrier` |
| `MessengerProofs` | `RingsAlwaysAgree`, `NothingUnreadIsPosted`, `MessengerIsFifo` | `RingsAgree`, `UnreadNotPosted`, the refinement `ImplementsFifo` |
| `MemoryPoolProofs` | `CountersAgree`, `NoEarlyReturn`, `SerialAtomics`, `WritesCarryTheirValue` | `CountersOK`, `ReturnsAfterCompletion`, `AtomicsAreSerial`, the action property `WritesItsValue` |
| `LocalIHTProofs` | `TreeWellFormed`, `BucketExclusion`, `MapUntilRehash` | `TreeOK`, `OneInside`, the refinement `ImplementsMap` |
| `RdmaIHTProofs` | `ClientsAgree`, `PairsAreFound`, `MapUnlessStale`, `TreeGrows` | `ClientsOK`, `StoredIsFound`, the refinement `AtomicUnlessStale`; the action property `Grows` until a mishap (in no run) |
| `SlabAllocatorProofs` | `BlocksNeverOverlap`, `BlocksAreRight`, `MemsetClearsTheBlock` | `NoOverlap`, `BlocksOK`, the action property `ClearsWhatItReuses` |
| `TwoSidedIHTProofs` | `ConnectionsAndTablesInUse`, `EveryThreadItsAnswer`, `TablesAreOneMap` | `UseOK`, `OwnAnswer`, the refinement `ImplementsMap` |
| `ExperimentProofs` | `StopBarrier`, `NodesInStep`, `ReportsAreRight` | `StopIsBarrier`, `NodesOK`, `Reports` |

### ConnectionManager

`ConnectionManagerProofs` proves, for any set of nodes, any order of the peers in each node's
vector (every node occurs in it, `NodeAssumption`) and any values of the other constants:

* whatever fails and whoever leaves, at any moment: `TypeCorrect`, `Agreement`, `NoDuplicates` and
  `KeptUntilLeft`;
* under `Unstable = {}` (no verbs call fails, nobody leaves early): `StableLockExclusion`,
  `StableNoHalfOpen` (what a requester has recorded, its peer has too) and `StableBarrier`. Without that
  assumption `LockExclusion` is false (see the observations), and a node that left takes its entries with
  it.

None of them is inductive. `TypeOK` needs `AtPeer`: a thread inside `Connect`, `GetConnection`, `Send` or
`Deliver` is at a position of its vector. The invariant behind the next three is `LeaverInv`:

* `Requests`: a request of a waiting node is in at most one place, the queue of the peer it waits for,
  the hands of that peer's broker, or answered; the requester has no entry for that peer meanwhile.
  `NoDuplicate` is a special case;
* `Guarded`, what is left of `LockExclusion`: a thread inside its critical section holds the lock
  unless the broker has ended, and a broker that serves a request holds it in the name of the
  requester. `HandleDisconnect` releases a lock that is not its own, but it is the last thing this broker
  does, so that no request can be recorded next to the application. This is why agreement survives
  what `LockExclusion` does not;
* `Gone`: a node whose end has come has no entries and no broker in a callback, and only the departure of an end
  that is gone (`disconnected`) is queued or being handled. That is less than the map of the departed node being
  empty: its destructor disconnects every peer first and clears afterwards. `KeptWhileUsed` follows with
  lemma `Removed`: only the end of the node itself and the callback for such a peer take entries away;
* `Accepted`: while the answer to an accepted request is on the way, the peer has recorded it or has left.
  So what the requester then records agrees with its peer, which is the step `AgreedConnection` needs.

In the installation where nobody fails, `StableInv` replaces these by stronger facts:

* `Quiet`: nobody fails, leaves or stops accepting, and only requests are queued;
* `LockExclusion`;
* `OneRequest`: `Requests`, and a request without an answer is for a peer that has started;
* `Ends`: what the two ends of a pair have recorded: both the same connection, or one end, the
  acceptor, while its answer is on the way to the requester;
* `Progress`: the loops. A node past the position of a peer has a connection to it (`Connected`),
  a message that has arrived says that its sender has finished connecting (`Told`), and a node
  past a peer in the last loop has that peer's message.

The barrier follows from `Progress`; `NoFailure` shows that the actions of failing and leaving nodes are not
enabled there.

### Messenger

For any number and size of slots and any messages. `RingInv`: as long as no poll took an empty queue
for a completion, there is a number `c` of messages that wait, such that the completion queue holds
`c` successes and then flushes (`Waiting`), the slots from `recv_next` on are those of the `c`
messages and then, in order, the posted ones (`Posted`), and the `c` slots hold what was sent and not
delivered, but for a message on its way (`Arrived`). `TurnsInv` says that `recv_total` has counted whole
turns, which is the assertion of `PrepareRecvBuffer`; `SendInBounds` is inductive with the types. In
the refinement a call of `SendMessage` is a `Send`, a receive that delivers is a `Deliver` of the next
message because of `Arrived`, a failure is a `Break`, and all other steps stutter.

### MemoryPool

For any threads, queue pairs, operations per thread and size of `reordering_counters`. A counter
is 0 or 1 (`Counts`), and a thread whose counter is 1 has exactly one completion to come: a signalled
request of it in a send queue, an entry with its index in a completion queue, or the index in the
hands of a thread that has polled and not yet subtracted (`Entries`, `Completions`, `OnePlace`; `Ids`
makes indices unique). `ReturnsAfterCompletion` and the bounds of the counters follow: a thread sees 0 only
after its one completion was subtracted. For `AtomicsAreSerial`, `Serial` says that a value that is in
a word, or was replaced there, is `Spent`: no request that is queued, and no call that has still to post,
carries it. Since every call brings a new value, a second atomic cannot find a value that was
replaced. The proof shows where this ends: a write nobody waits for may carry the value of its
thread's next call before that call writes it, and the value comes back. An earlier form of the property
overlooked this; TLC finds the counterexample with larger bounds than those of the `pool` run. `overtaken` names these
values.

### LocalIHT

For any threads, keys, operations, hash function and sizes of lists, and any bound on the depth.
`Lists`: a P-List exists with all its buckets or not at all, every thread's path is one that exists, and a
P-List below the root has a bucket that points at it. So the buckets `rehash` makes are new and nobody can
be at one of them, which `OneInside` needs to be preserved. `Held` says what is behind a bucket that is held,
and with `LockTellsType` and `EListFits` the type of every pointer is known; that rehashed pairs fit
comes from the number of pairs in the parent. `KeysUnique` (until the first rehash) makes the first hit of a
search the only one, which the refinement needs: the map's value of a key is the one in its bucket of the root.
`PowersOfTwo` (`2^n` is a positive number up to `MaxDepth`) is an assumption because the exponent
is beyond the provers.

### RdmaIHT

For any clients on any nodes, keys, operations per client, hash function, sizes of lists, bound on the depth and
setting of the cache, the third layer included. Everything is until the first mishap: `NextInv` is about the steps that
make none, and there are no hypotheses beside. `ClientsAgree` adds that with two layers at most the first mishap is not
the cache's (`CacheToBlame`: two paths of these layers never share an entry).
The invariant is `IInv`. Its parts, and what they are for:

* `Tree`: a P-List exists with all its buckets or not at all, and below the root a bucket points at it. The
  step form is `Grows`: P-Lists and calcified buckets stay for ever, which is what makes an old copy of a P-List
  useful at all;
* `Saw`: what a client has read and may not have refreshed. If it read a pointer to a P-List, that is there for
  good; if it read one to an E-List or nothing, the bucket may have changed since, but only then;
* `Late`: an unlocking write that is on its way says what the pointer of its bucket is by then. With `OneInside`, which
  counts such a write as its client being inside, the bucket is nobody else's until it arrives;
* `LockTellsType`, `Positioned` and `Held`: where a client is, and what is behind a bucket that it holds;
  with `Saw` this gives `NeverMistaken`: a stale pointer is never taken for one to a P-List;
* `Cached` and `Copied`: what is in an entry of the cache is a calcified P-List with this entry, as it still is;
  `CacheFresh` follows. That it is the one of the path asked for is not in it: otherwise there is a mishap;
* `Owned` and `Claim`: an E-List belongs to one bucket, also when the pointer to it is stale, so that a
  client that writes through an old pointer spoils no other bucket;
* `KeysUnique` and `KeysOnPath`: a key is at most once in an E-List, and every pair is in a bucket on the path of
  its key, also after `rehash`. `StoredIsFound` follows because a search follows that path.

In the refinement a search for a key ends in exactly one bucket (`OneEnd`, `SomeEnd`), so the map's value of a
key is what that bucket holds. A `contains`, `insert` or `remove` that runs with the pointer the bucket has now is
the operation of `KeyValueMap`, `rehash` changes no value, and all other steps stutter. One step does not refine
the map before a mishap, the one of a stale pointer, and `AtomicUnlessStale` names it.

### SlabAllocator

For any threads, alignment, slab classes, and requests and capacities within the two assumptions above.
`AllSound`: every block, held or in a list, lies between `head_` and the end of the memory, is aligned, and is as
long as its class, which is that of its list. `AllApart`: any two blocks, by holder or by place
in a list, are apart. A new block is cut below `head_`, hence apart from all; a reused block takes the place of
the one that left its list. `region[2] = capacity` (a capacity whose registration succeeds was not
changed by the conversion to `int`, `RegisteredWhole`) gives `Satisfied`. What is cleared is exactly the extent
of the block (`ClearedExactly`), since its length is that of its class.

### TwoSidedIHT

For any nodes (two at least), threads, server threads and key range. `Locks`: a mutex belongs to the
thread that is behind it. `Channels`: on the pair of connections of two nodes there is at most one thing, the
request of the thread that holds the mutex, the request a server thread works on, its answer, or the answer on the
way back (`Requests`, `Serving`, `Responses`); whether the operation has taken effect tells the first two from
the last two. So an answer that arrives is that of the thread that waits. This is the invariant while the table is
`Orderly` (`Harmless`). `NoOverlap` holds without that: `ClientSide` and `ServerSide`, the mutexes of either side and
what it takes to keep them, are invariants whatever is served, answered or deleted. `InPart` gives `Partitioned`. The
refinement is until a rehash has lost pairs, too. In it the map is the union of the parts, and an operation takes
effect in the
step of the server thread (or of the thread itself, for the keys of its own node).

### Experiment

For any finite set of threads on any nodes, any message size, streams and lap times, and any nodes that may
die. `Connections`: sockets and backlog name a thread once, and the server leaves its accept loop with
all of them. `Bytes`: nothing is under way from a thread that still works, and nothing to anybody before the
server has heard from all. `Heard`: the clients before position `i` of the server's loop have finished or
died. `InPhase` and `OneOwner` give `NodesOK`, `Counted` gives `Reports`.

### Left to TLC

* Liveness and fairness, which TLAPS 1.4.5 does not handle: all properties with `~>`.
* `TreeOK` and `StatisticsOK` of `Summary`, which walks its tree with recursive functions: what they return
  for every input is a matter of induction over data.
* What powers of two and logarithms are (`PowersOfTwo`, `CallersAssumption`, `CapacityAssumption`): assumptions that
  TLC evaluates for the instances.

## 5. Plan

Done: all modules, and the proofs about every module but `Summary`. All safety properties of the runs
outside `Summary` are theorems, with the assumptions named in section 4. What the properties except (the
observations of section 3) is where a correction of the code would let them say more: waiting for the unlocking
writes, the stride of the cache, the count of new E-Lists, the bucket `rehash` puts a pair into, a poll that
looks at the number of completions, and a destructor that joins before it deletes.

## 6. Not modelled

Messages and one-sided operations on one queue pair at the same time: they share a completion
queue, but no program does both at once. `Summary::Accumulate`, `ATree::Remove`, `Insert` and `Find`
and most operators of `Counter` have no caller; the time-stamp counter behind `Stopwatch` is a
choice of lap times. An `accept` that fails, and the copies of `SocketManager`. Logging, argument
parsing, protocol buffers (`message.pb.*` is generated) and device discovery have no state that
matters to the rest. `remote_ptr` is bit packing, `rdma_capability` forwards. The ping programs in
`src/src` and the demonstration at the end of `compete.cc` send one message. Data races below the
level of a lock or an atomic, such as a lookup in `std::unordered_map` during an insert, and the
rounding of floating-point numbers are named among the hazards and not modelled. `vendor/` is
third-party code.
