# A TLA+ verification project for ytl

ytl is a small C++20 library: a UDP connection pool and an HTTPS request pool
(`network/`), task objects (`concurrency/`), an allocator and memory operations
(`memory/`), algorithms (`algorithm/`) and string functions (`string/`). This
directory holds TLA+ models of these parts, the TLC configurations that check
them on small instances, and TLAPS proofs about the pools, the tasks, the allocator
and the functions on bytes and strings. Line numbers refer to the repository's files;
`PROJECT.json` maps every definition to the lines it stands for.

## Inventory

| part | state | operations | what is hard about it |
|---|---|---|---|
| UDPPool, connection table (`udp.h`, `udp.cpp`) | `conns_`, `free_indices_`, `recv_buffer` blocks, sockets in the kernel | `create`, `serve`, `close`, `free_slot`, destructor, `send_oneshot`, `recv`, `recv_from`, `recv_from_all`, `init_socket` | `close` inside the class is `UDPPool::close`, so a descriptor is used as a slot number and `free_slot` recurses; system calls that fail half way; answers of `poll` used later |
| UDPPool, packet queue (`udp.cpp`) | `packet_queue_`: ring of packets, `length`, `addr_storage` | `send`, `send_to`, `send_to_all`, `update`, `try_flush_queue`, `queue_packet` | one ring for all connections; flushes cut short; ring full; 16-bit lengths; failed `realloc` |
| task (`task.h`, `task.cpp`) | static `mutex`, `serial`, `next_id`; per task `id`, `state`, `execu` | `spawn`, `delay`, `defer`, `cancel`, moves, `synchronize`, `desynchronize`, `execute` | threads; the function runs under the lock; tests and uses of `joinable()` are apart |
| RequestPool (`https.h`, `https.cpp`) | `requests`, `free_indices`, one vector `responses`, `generation`, `active_count`, easy handles in libcurl | `create`, `set_headers`, `set_post_data`, `start`, `start_batch`, `update`, `update_batch`, `write_cb`, getters, destructor | callbacks from libcurl in any order into one shared vector; handles given out in turn; restarts |
| UDP and HTTPS utilities | none | `resolve_host`, `error_string`, `curl_to_error` | only their outcomes matter to the pools |
| allocator (`memory.h`, `allocator.inl`) | per thread: pools of the tiny and small size classes with their bitmaps; mapped pages | `allocate`, `deallocate`, `cleanup` | bitmaps, size classes, rounding done twice, exceptions in `noexcept` functions; left out of the build |
| memory operations (`mem_op.cpp`), string functions (`string.cpp`) | the caller's bytes | `memset`, `memcpy`, `memmove`, `memcmp`; `strlen` to `strnstr` | words read and written at any alignment, overlap, reads behind the end, signed characters |
| algorithms (`algorithm/`) | the caller's array | heaps, sorts, selections, sequence operations, searches, sums | index arithmetic at the ends; heaps built up over many calls |

How they interact: the packet queue sits in front of the connection table (a send
reads and marks a connection, a flush uses its socket); everything else is
independent of each other. The pools are used by one thread each and have no
locks; what acts between their steps is the kernel (datagrams, descriptors of the
rest of the process) and libcurl. Tasks are used by many threads.

What makes each part correct:

* table: a slot is handed out only when nobody uses it; every block has one owner
  and is freed once; a slot that a failed call loses carries an error, and a free one
  none of its last connection; sockets are
  not shared; a `close` touches what it must and returns; the span of `get_data`
  lies in its buffer and `get_from` names its sender;
* queue: no packet twice, none lost but the oldest, order kept, result codes true,
  packets reach the address they were meant for, no dangling address;
* task: the lock excludes and is given back; a function runs once and before
  `spawn` returns; a thread has ended when `spawn` returns; ids are unique;
* request pool: data and results reach their own request; spans lie in the vector;
  counters count; a started request finishes;
* allocator: pages and pools are neither lost nor released twice;
* functions on bytes and arrays: the result is that of the obvious definition, at
  every alignment, overlap and length, and nothing else is read or changed.

`PROJECT.json` lists under `hazards` what could break these and is hard to test,
each at its line.

## Modules

`UDPConns` models the connection table, one action per call; calls that loop or
recurse are modelled step by step with `pc` naming the running call. A slot is the
record `ConnectionData` of `udp.h`. The kernel is the set of open descriptors, the
peers and queues of sockets; `IsLowestFree` is the POSIX rule for new descriptors,
and the descriptors of the rest of the process (`foreign`) come and go, which
decides which slot numbers coincide with descriptors. The nested calls
`free_slot -> close -> free_slot` are frames on `stack`: a frame writes nothing
before its inner call returns, so a number already on the stack means endless
recursion, which ends the pool as `stack_overflow`. Undefined behaviour ends it
too: `out_of_bounds`, `double_free`.

`UDPPool` extends it with the ring. A packet is the number of the send call that
made it. `Flushes(c)` is the set of ways a flush can go: how many entries leave,
and whether the ring becomes clear, the kernel blocks or a call fails. `send_to_all`
and `update` are loops with one step per connection. The pool is checked to
implement two abstract specifications. `ConnsSpec` of the table: whatever the queue
does, the table sees a step of its own or nothing. `SendQueue`: without the ring,
its window and its reused entries, the pool is a queue of the newest
`MAX_BUFFERED_PACKETS` packets that is sent from its front only, in which a packet
overtakes others only in a call that the kernel failed, and in which OK means sent and
FAILED never sent. The calls carry the sizes of their packets: one answered BUFFERED
waits (`Buffer`), unless its size is a multiple of `Limit`, which the 16-bit length of
an entry makes 0 (`Waste`); nothing else is dropped but by the `Capacity`-th later
packet. The mapping takes the entries of the window that hold a packet as the queue,
and the records of the calls as `calls`. The kernel's part of a send is in `Sendable`
(a destination, and at most 2^16 - 1 bytes) and in `Dest`: a packet with an address goes
there, one without to the peer of the socket it is sent on.

`Task` models the objects, the lock and the frames of each thread's calls. A
thread in user code, which may be the function of a task, can call anything. A
frame advances in the steps between which another thread can interfere: the read of
`serial`, the lock, the function, `joinable()`, `join()`, the release. Exceptions
of `join` and `detach` and the null dereference in `cancel` set `fault`, which ends
the behaviour: the exceptions are taken as uncaught, and what a caller that catches one
finds afterwards is not modelled. `defer(fn)` is `delay(0, fn)` in the code and a
"delay" in the model; "defer" is the overload that takes a variant and only stores it.
Functions given to tasks return: one that throws is not modelled.

`RequestPool` models the slots, the shared vector as a sequence of chunks, and
libcurl as the code uses it: the easy handles, the queue of finished ones, and the
callbacks inside `curl_multi_perform`. `init_curl_handle` passes `write_cb`, a
non-static member (`https.h:122`), to `curl_easy_setopt` (`https.cpp:219`), which does
not compile as written; the model takes what is meant, a callback that runs `write_cb`
for the request set as `CURLOPT_WRITEDATA`.

`Allocator` models the pools of each thread, the mapped pages and the headers of
blocks. What a thread does to its pools no other thread sees, so a call is one step.
A bitmap is the set of free slots; `find_free_bits` is the set of slots it may come
up with, since `compare_exchange_weak` may fail for no reason. `new` may throw,
which ends the program in the `noexcept` functions that do not catch it, and `mmap`
may fail. Sizes are scaled down, with the proportions of page, header and
thresholds kept.

`Algorithms` has one operator per template, named like it, and a caller that uses
them one after the other on one array and remembers which part of it is a heap.
`Bytes` has one operator per function of `string.cpp` and `mem_op.cpp`; an operator
gives the memory the call leaves, its result and the addresses it reads, so that
reading behind a string is visible. `has_zero` is the word trick of the code, byte
by byte with its borrow. `Algorithms` is recursive, like the templates, and only
serves TLC.

The proofs are in modules of their own, each extending the module it is about:
`UDPConnsProofs` (types, slots, blocks, frames) and `UDPConnsRecv` (received data,
the destructor's double free) for the table, `UDPPoolProofs` (datagrams, addresses,
the table inside the pool) and `UDPPoolQueue` (the refinement of `SendQueue`),
`TaskProofs`, `RequestPoolProofs`, `AllocatorProofs` and `BytesProofs`. The `MC*`
modules and `.cfg` files are the instances for TLC. A definition headed "Mutant:"
is a plausible wrong version of the one after it; `PROJECT.json` says which
property notices it.

Left out everywhere: contents of packets and responses beyond who they are from,
names and ports, IPv4 against IPv6, messages of `error_string`, the tests whether
`addr_len` is set on the caller's own `Address` (an address with none is `NULL`).
Defaulted moves of the pools copy what they own; no use of a moved pool is
modelled.

## Runs

| run | checks | shows |
|---|---|---|
| `conns_slots` | free list, blocks, endless recursion, double free, destructor, descriptors, `CloseReach`, `CloseTerminates` | creates, closes, oneshots and destruction in every order with 3 slots and 4 descriptors, so that chains and cycles of slots and descriptors occur; a close returns or has ended the program, and recurses for ever only along a cycle |
| `conns_recv` | types, span, sender, `poll` answers, `SlotAccounting` | receiving datagrams larger than the buffer, with reads, `poll`, `socket`, `send`, allocations and the resolution of names failing, `recv_from_all` on any two ids; which errors a slot may carry |
| `pool_queue` | `QueueSpec`, `DatagramKept`, `AddressesStable` | two connections to different peers flushing one ring, each the packets of the other too: the pool implements `SendQueue`, and where every datagram goes |
| `pool_memory` | `QueueSpec`, `ConnsSpec`, null writes | three sends into a ring of 2, packets of size 0 and 2^16, failing `realloc`: the pool implements `SendQueue` and the table |
| `task_all` | exclusion, run once, wait for thread, ids, `CallsReturn` | all operations, nested calls, moves and move assignments; a call is held for ever only when its thread is in a ring of the lock and joins |
| `requests_all` | owners, responses, outcomes, counter, exhaustion, `StartedFinishes` | two requests to the end of the table, restarts, interleaved chunks; a started request leaves PENDING |
| `algorithms` | `HeapDiscipline`, `SelectionRight`, `SequencesRight` | every array of 5 elements of 3 values, so that equal elements occur, and every length, offset and split of it |
| `bytes` | `CopiesRight`, `StringAnswersRight`, `ReadsInWords`, `BlocksRight` | pairs of strings at all alignments, all moves and copies within 32 bytes |
| `allocator` | `OnlyLargeServed`, `MemoryAccounted` | two threads filling, cleaning up and giving back, with every failure |

Three runs show what the code does where the repository says something else:

* `conns_asyncify`: `init_socket` writes `ASYNCIFY_FAILED` to the slot numbered
  like the descriptor, not to the connection whose socket stays blocking.
* `search`: `binary_search` goes right at elements that are equal to x too, so x may
  lie on its way, and compares in the end only the element below its last left turn.
  With t[1..5] = 2, 0, 2, 0, 1 and x = 1 the way is 1, 2, 5 and x is at 5, but the index
  goes back to 2.
* `pool_wrap`: a packet of 2^16 bytes is queued with length 0 and answered `BUFFERED`,
  which `is_error` takes for no error, and is never sent.

Passing properties that describe what a reader of the code may not expect:

* `OverflowMeansCycle`: `close` uses a descriptor as a slot number and does not
  return when descriptors and slots form a cycle.
* `CallsReturn`: a `spawn` inside the function of a task waits for the lock its own
  thread holds (`Stuck`), and so does a joined thread that spawns.
* `DatagramKept`: a packet of `send` that was queued has no address, so it goes to the
  peer of whichever connection flushes it (`Strays`); a packet above 16 bits leaves
  with the rest of its length modulo 2^16.
* `SlotAccounting`: a failed `poll`, or the `init_socket` of another slot's socket, can
  leave an error on a free slot, and the next connection there is unusable.
* `OnlyLargeServed`: the allocator answers no request below `LARGE_THRESHOLD`.
* `StringAnswersRight`, `ReadsInWords`: `strcasecmp` reads on behind strings that
  are equal but for case, `strcmp` reads up to a word behind its second operand,
  `strchr` never finds a byte from 0x80 on, and `strnstr` looks behind a NUL.
  `ReadsInWords` says nothing of `strncasecmp` and `strnstr`, which may read behind the
  NUL up to the length they are given.

What a property leaves out of a hazard it is listed for is in that hazard's note in
`PROJECT.json`: the cases where the code does something odd that no line of the
repository speaks about (interleaved responses, ids of moved-from tasks, restarted
requests that stay COMPLETE, the sender of data on an unconnected socket) are reachable
in the runs and excluded from the properties by name.

### Bounds

* Slots: 3 where chains and cycles matter (a cycle of two with a third leading into
  it), else 2 or 1. Descriptors: one more than slots, so that a number past the
  array occurs; one or two of them belong to the rest of the process and come and go.
* `Faults` selects which failures may happen; every failure the code tells apart
  is in some run, `ASYNCIFY_FAILED` only in `conns_asyncify`. The theorems hold for
  every set of failures together.
* `MaxInbox` 1 and two ids (`MaxIds`): an answer of `poll` becomes stale in one
  step. `Sizes` is one above the buffer's size, so that `realloc` occurs; empty datagrams
  are left to the theorems, which hold for every set of sizes. Two addresses, so that a
  slot is used again for another peer.
* The ring has 2 entries. In `pool_memory` `MaxSends` is 3, so the ring overflows and
  its window wraps, with one connection; in `pool_queue` it is 2, with two connections,
  two addresses and no overflow (`QueueCorrect` has no bound). `UINT16` is 4 and packet
  sizes reach 4 and 5, so that lengths wrap, to 0 and not to 0. A packet the kernel can
  take may be too large for an entry used before (sizes 1 and 2), so that `realloc`
  fails there and a later, smaller packet meets the lost block.
* `MaxTasks`, `MaxDepth`: 2 objects and calls two deep; a deeper nest repeats
  the second level. `MaxChunks`, `MaxStarts`: three chunks for two requests (so they
  can interleave), each started again once.

* `N` = 5 gives heaps and trees of three levels (6 in `search`, where the array
  starts at 1). `WORD` is 4 and strings reach a word and a half, so that heads, whole
  words and tails occur; `SMALL` is one word, as in the code. Bytes are those that
  `has_zero` or case folding could take for others: 1 and 33, which differ in the
  folded bit only, and 128.
* `Allocator`: `PAGE` 8 and `HEADER` 4, large sizes that end before, at and behind a
  page; `MAX_POOLS` 2 and one small class, so that a class fills; `MaxBlocks` 2.

Symmetry is used for blocks and addresses in runs without liveness properties;
nothing tells those values apart.

### Fairness

* `conns_slots`: weak fairness of `FreeSlot` only; a running function goes on.
* `task_all`: weak fairness of each thread's library steps and of
  its end; the scheduler runs every thread, a mutex that stays free is obtained,
  and the functions given to tasks return. The calls are finite in number, so no
  thread needs strong fairness at the lock.
* `requests_all`: the user keeps calling `update_batch` with all handles, calls
  return, and a transfer that is performed again and again ends
  (`REQUEST_TIMEOUT_MS`); that is strong fairness of `TransferEnds`.

Deadlock is not checked in `task_all` (a thread can wait for its own lock or join
itself through others; `CallsReturn` says when), in `bytes` (one call is the whole
behaviour) and in `allocator` (an exception in a `noexcept` function ends the
program).

## Proofs

TLC checks the instances above; the theorems hold for every value of the constants
that the modules' assumptions allow: any number of slots, descriptors, threads,
tasks, requests, ring entries, size classes and calls, every set of failures. The
assumptions say only what the code fixes: array sizes are positive, descriptors are
natural numbers, `NULL` is no other value, a size fits in the header's field
(`AllocatorAssumption`), and `size_class_table` has an entry for every size
`alloc_small` is called with (`SizeClassAssumption`; with `LARGE_THRESHOLD` 1 MiB
the largest class is 19 of 32). `RoomAssumption` is what a C caller owes the string
functions: the memory a string lies in has room for what is written there. Word size,
strings, characters, counts and memories are otherwise arbitrary. TLC evaluates the
assumptions in every run.

Each theorem `Spec => []P` rests on an inductive invariant that implies `P`; TLC
checked these invariants on the runs' instances before they were proved.

* Table, types: `ConnsTypeCorrect`. `TypeInv` adds what the types do not say but
  array accesses need: a frame that has come back from its inner call is a slot, the
  destructor's index is a slot while it frees, `recv_from_all` has no more answers
  than ids.
* Table, slots and blocks: `FreeListCorrect`, `AccountingCorrect` (also that a free
  slot has no error but those of a failed `poll` or `init_socket`), `BlocksCorrect`,
  `DescriptorsCorrect`, `FramesCorrect`, `DestructorCorrect`, `OverflowCorrect`, and
  the action property `CloseReach` in `ReachCorrect`. The invariant is `SafeInv`. Its
  parts need each other: a slot released while outer frames wait is not listed
  already only because frames name slots that are in use and no slot has two frames
  (`FrameChain`); frames stay on the chain only because what is released is not on
  the stack any more; a block is freed once only because owners are distinct and the
  destructor leaves pointers only in slots behind its index (`BlockOwnership`,
  `DestructorLoop`). `OverflowMeansCycle` follows from `FrameChain`: when a number is
  met again, the frames from its first occurrence on are the cycle. `SocketsOwned`
  strengthens `DescriptorsDistinct` to the sockets of slots that a failed create
  lost.
* Table, received data: `SpanCorrect`, `SenderCorrect`, `PollCorrect`,
  `DoubleFreeCorrect`. `RecvInv` holds next to `SafeInv`. A slot that is not in use
  has no data (`IdleEmpty`), so a reused one starts clean; the queue of a connected
  socket has datagrams of its peer only (`InboxSorted`), so what is read is from the
  peer the connection names (`PeerNamed`). An answer of `poll` stays true because the
  loop reads only the socket of the id it is at, and sockets are not shared.
  `DestructorChain` is what the double free needs: the nested calls of the destructor
  start at the socket of the loop's slot, which stays in use, and where their chain
  falls below the loop's index it falls from the index or above; that connection
  is the back link.
* Queue: `TableCorrect` is the refinement `Spec => ConnsSpec`: every step of the pool
  is a step of the table or leaves it alone, the loops of `update` and `send_to_all`
  running only while the table is idle. `PoolTableSafe` carries `SafeInv` over.
  `DatagramCorrect`: every entry with a block and every datagram on the wire is
  known, that is, belongs to a call and has its address and its length (`PacketsKnown`,
  `WireKnown`), and the destination recorded with a call or a datagram is its address or
  the peer of its socket (`DestsKnown`); this stays so because the sockets of
  connections are never closed and keep their peers (`PeerKept`). So the two
  destinations agree unless the packet has no address and changed sockets.
  `AddressesCorrect`: `addr_storage` grows exactly when the set of
  entries with an address does. `CrashCorrect`: an entry claims room without a block
  only after a failed `realloc` (`BlocksLost`), and the record of that failure stays.
  That the k-th entry of a flush exists, whatever the ring holds, is an induction
  over natural numbers: `NthIn`, from the least element of a set (`LeastNatural`).
* Queue, order: `QueueCorrect` is the refinement `Spec => QueueSpec`. The packet of a
  turn is a call's number, and nothing in the ring says that the turns are in the order
  of the calls; `TurnsCounted` does: the packet at turn i was given by the call after
  which as many calls have taken a place as there are turns behind i. So turns
  increase with their calls, an overwritten turn is the oldest, and `Waiting` is the
  increasing list of the numbers in the window. A call whose length vanishes takes a
  turn that holds nothing. Such a list is known by its members,
  which turns every step of the ring (a flush of k entries, an overwrite, a lost
  block) into one of the abstract queue.
* Tasks: `TaskTypeCorrect`, `LockExclusive`, `IdsDistinct`, `FunctionRunsOnce`,
  `ThreadAwaited`. Only the innermost call of a thread is elsewhere than in its
  function, only a call past the lock holds it (`StackShape`), and a call of
  `execute` has its object for itself (`SoleCall`): nobody else moves or cancels it
  meanwhile. `CallProgress` follows the task through the call (has its function
  run, has its thread ended), and `ReturnedSettled` says what is left when the call
  returns. Ids below `next_id` are those given (`IdsGiven`).
* Requests: `OwnersCorrect`, `ExhaustedCorrect`, `ActiveCorrect`, `OutcomeCorrect`,
  `ResponsesCorrect`, `LatestCorrect`. Everything rests on `SlotsInOrder`: as
  `free_slot` is never called, slots and easy handles are handed out in step and slot
  i has handle i. `MessagesMatch` ties the unread messages to the transfers that are
  done, so that the result read is the transfer's own; `DataInv` counts the chunks of
  each request in the shared vector and says that the latest lies in front while
  transfers deliver one after the other.
* Allocator: `OnlyLargeCorrect`, `MemoryCorrect`. No pool has a free slot
  (`CachesTyped`), so nothing is found in any; every pool has one holder
  (`HeldOnce`); the pages mapped are, block by block, as many as the header's size
  says (`PagesInv`), which for every page and header size are those that hold a byte
  of the block (`PagesHold`).
* Bytes, blocks: `BlocksCorrect`. The pieces of `upward` and `downward` form a run that
  covers `0 .. count - 1` without a gap, whatever the alignment. The memory after k
  pieces has a closed form; that it is right for every k is shown by the least k at
  which it would not be. A copy upward is safe when the destination is not inside
  the source behind its start, one downward when it is behind it: `memmove` picks the
  direction by that. The first piece that differs holds the first byte that does
  (`memcmp`).
* Bytes, copies: `CopiesCorrect`. `has_zero` is true of a word exactly when a byte of
  it is 0, the borrow notwithstanding, so the walk by words stops in the word of the
  NUL and the walk by bytes at the NUL (`word_walk`). What is written is then a string
  put at an address, and the two regions lie apart.
* Bytes, answers: `AnswersCorrect`. Two strings with their NULs either are the same as
  far as both go or part at a first place (`Same`, `Part`), and the comparisons stop
  there or at the NUL, by words (`strcmp`), up to a count, or on folded bytes. A search
  stops at the first address that holds one of its bytes; `strstr` stops at the first
  address where the needle stands.
* Bytes, reads: `ReadsCorrect`. The words up to the one of the NUL hold bytes of the
  string. `strcasecmp` stays inside the strings exactly when they part: if
  they do not, it reads at least one byte behind a NUL, and that byte belongs to
  neither string because the regions lie apart.

Only model-checked: liveness (`CloseTerminates`, `CallsReturn`, `StartedFinishes`),
which is out of the prover's reach, and the three properties of `Algorithms`
(`HeapDiscipline`, `SelectionRight`, `SequencesRight`), which are about what RECURSIVE
operators compute; the prover has no arithmetic in a module with such operators.

## State of the project

Done: `UDPConns`, `UDPPool` and the two specifications it implements, `Task`,
`RequestPool`, `Allocator`, `Algorithms`, `Bytes`, and the proofs above: every
invariant, action property and refinement of the runs has a theorem, but for those of
`Algorithms`. What could follow is `Algorithms` with recursive functions in place of
its RECURSIVE operators, and the order of its heaps by the argument of the least
counterexample that `BytesProofs` uses for its walks.

Not modelled and why: `free_tiny`, `free_small`, `mark_bits_used`,
`mark_bits_free` and the caches of the allocator, which no execution reaches while
the bitmaps start as all used; the end of a thread, whose pools are lost unless it
called `cleanup`. The allocator is commented out of the build and does not compile
as it stands (`cleanup` uses names of template parameters that do not exist, the
size class has no member `size_class`); the model takes what is clearly meant. The
smart pointers of `memory.h` are declared and never defined. `algorithm.h` includes
two definitions of `detail::sift_down` with the same parameters and does not
compile either; each file is modelled on its own. Left to the caller: `partial_sort`
with m = 0, `push_heap` of an empty array, `memcpy` of overlapping blocks, strings
that overlap. `tests/` has no tests; `vendor/` is third-party code.
